---------------------------- MODULE CubeGeometry ----------------------------
(***************************************************************************)
(* The data of concurrentcube.Cube: six sides of size x size squares, the  *)
(* tables that say which rows and columns a layer is made of, and the      *)
(* three parts of a rotation.  A cube is a function from squares to        *)
(* colours.                                                                *)
(***************************************************************************)
EXTENDS Integers, Sequences, SequencesExt

CONSTANT size

ASSUME SizeAssumption == size \in Nat \ {0}

TOP == 0
LEFT == 1
FRONT == 2
RIGHT == 3
BACK == 4
BOTTOM == 5

Side == 0..5
LayerIndex == 0..(size - 1)
Square == Side \X LayerIndex \X LayerIndex

\* Looking at side s, the side in direction dir of it.
Neighbours ==
  <<<<4, 1, 0, 3, 5, 2>>,
    <<0, 4, 1, 2, 3, 5>>,
    <<0, 1, 2, 3, 4, 5>>,
    <<0, 2, 3, 4, 1, 5>>,
    <<0, 3, 4, 1, 2, 5>>,
    <<2, 1, 5, 3, 0, 4>>>>

correlations(s, dir) == Neighbours[s + 1][dir + 1]

\* A layer of s is a column, not a row, of the side in direction dir of s.
Vertical(s, dir) ==
  s \in {LEFT, RIGHT} \/ (s \in {FRONT, BACK} /\ dir \in {LEFT, RIGHT})

\* A bug: one wrong entry in the table of orders.
InOrder_slip(s) ==
  <<{}, {TOP, RIGHT}, {TOP, RIGHT}, {RIGHT}, {RIGHT, BOTTOM},
    {TOP, LEFT, RIGHT, BOTTOM}>>[s + 1]

\* The directions in which the squares come clockwise by growing index.
InOrder(s) ==
  <<{}, {TOP, RIGHT, BOTTOM}, {TOP, RIGHT}, {RIGHT}, {RIGHT, BOTTOM},
    {TOP, LEFT, RIGHT, BOTTOM}>>[s + 1]

\* The directions in which layer k of s is row or column size - k - 1.
Mirrored(s) ==
  <<{}, {LEFT}, {TOP, LEFT}, {TOP, LEFT, BOTTOM}, {LEFT, BOTTOM},
    {TOP, LEFT, RIGHT, BOTTOM}>>[s + 1]

Opposite(s) == correlations(s, BACK)

-----------------------------------------------------------------------------

get_layer_pieces(s, k, dir) ==
  LET line == IF dir \in Mirrored(s) THEN size - k - 1 ELSE k
      index(i) == IF dir \in InOrder(s) THEN i - 1 ELSE size - i
  IN  [i \in 1..size |->
        IF Vertical(s, dir) THEN <<correlations(s, dir), index(i), line>>
        ELSE <<correlations(s, dir), line, index(i)>>]

rotate_pieces(cube, p) ==
  [cube EXCEPT ![p[1]] = cube[p[4]], ![p[2]] = cube[p[1]],
               ![p[3]] = cube[p[2]], ![p[4]] = cube[p[3]]]

\* The Direction of rotate_front_layer, as the order of its four pieces.
clockwise == <<1, 2, 3, 4>>
counter_clockwise == <<4, 3, 2, 1>>

\* A square and its images after one, two and three quarters of a turn.
Quarters(s, row, col) ==
  <<<<s, row, col>>, <<s, col, size - row - 1>>,
    <<s, size - row - 1, size - col - 1>>, <<s, size - col - 1, row>>>>

rotate_front_layer(cube, s, direction) ==
  LET corner == {rc \in LayerIndex \X LayerIndex :
                   /\ rc[1] < size \div 2
                   /\ rc[2] >= rc[1] /\ rc[2] < size - rc[1] - 1}
      pieces(rc) == [i \in 1..4 |-> Quarters(s, rc[1], rc[2])[direction[i]]]
  IN  FoldLeft(rotate_pieces, cube, SetToSeq({pieces(rc) : rc \in corner}))

-----------------------------------------------------------------------------
(***************************************************************************)
(* The three parts of perform_rotate(side, layer).  They move colours and  *)
(* never look at them, so each is given by what it makes of the cube where *)
(* the colour of a square is the square itself: part[side][layer][q] is    *)
(* where the colour of q comes from.                                       *)
(***************************************************************************)

Unmoved == [q \in Square |-> q]

FrontPart ==
  [s \in Side |-> [k \in LayerIndex |->
    IF k = 0 THEN rotate_front_layer(Unmoved, correlations(s, FRONT), clockwise)
    ELSE Unmoved]]

BackPart ==
  [s \in Side |-> [k \in LayerIndex |->
    IF k = size - 1
    THEN rotate_front_layer(Unmoved, correlations(s, BACK), counter_clockwise)
    ELSE Unmoved]]

rotate_layer_pieces ==
  [s \in Side |-> [k \in LayerIndex |->
    LET strip(dir) == get_layer_pieces(s, k, dir)
    IN  FoldLeft(rotate_pieces, Unmoved,
                 [i \in 1..size |-> <<strip(LEFT)[i], strip(TOP)[i],
                                     strip(RIGHT)[i], strip(BOTTOM)[i]>>])]]

Moved(cube, part) == [q \in Square |-> cube[part[q]]]

\* The squares that perform_rotate(s, k) reads and writes.
Touched(s, k) ==
  {q \in Square : \/ k = 0 /\ q[1] = correlations(s, FRONT)
                  \/ k = size - 1 /\ q[1] = correlations(s, BACK)}
    \cup UNION {{get_layer_pieces(s, k, dir)[i] : i \in 1..size} :
                  dir \in {LEFT, TOP, RIGHT, BOTTOM}}

get_side(cube, s) ==
  [i \in 1..(size * size) |->
     cube[<<s, (i - 1) \div size, (i - 1) % size>>]]
=============================================================================
