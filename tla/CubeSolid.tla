----------------------------- MODULE CubeSolid ------------------------------
(***************************************************************************)
(* The cube beside the solid it stands for: what rotating a cube means,    *)
(* with nothing of the code's tables.  A square is a sticker of a solid in *)
(* space.  It has a place <<x, y, z>> of the grid, x growing to the right, *)
(* y upwards and z towards the viewer, and the side it faces.              *)
(*                                                                         *)
(* solid is a history variable: it takes a whole quarter turn at the       *)
(* instant a rotation is let into its layer, and no other step touches it. *)
(***************************************************************************)
EXTENDS Cube

\* Where the square of a side unfolded in the usual net is in space.
Place(q) ==
  LET row == q[2]
      col == q[3]
      last == size - 1
  IN  CASE q[1] = TOP    -> <<col, last, row>>
        [] q[1] = LEFT   -> <<0, last - row, col>>
        [] q[1] = FRONT  -> <<col, last - row, last>>
        [] q[1] = RIGHT  -> <<last, last - row, last - col>>
        [] q[1] = BACK   -> <<last - col, last - row, 0>>
        [] q[1] = BOTTOM -> <<col, 0, last - row>>

\* The layers counted from side s inwards.
Depth(p, s) ==
  CASE s = TOP -> size - 1 - p[2] [] s = BOTTOM -> p[2]
    [] s = LEFT -> p[1]           [] s = RIGHT -> size - 1 - p[1]
    [] s = BACK -> p[3]           [] s = FRONT -> size - 1 - p[3]

\* A clockwise quarter turn of the space, seen from s.
TurnPlace(p, s) ==
  LET last == size - 1
  IN  CASE s = FRONT  -> <<p[2], last - p[1], p[3]>>
        [] s = BACK   -> <<last - p[2], p[1], p[3]>>
        [] s = RIGHT  -> <<p[1], p[3], last - p[2]>>
        [] s = LEFT   -> <<p[1], last - p[3], p[2]>>
        [] s = TOP    -> <<last - p[3], p[2], p[1]>>
        [] s = BOTTOM -> <<p[3], p[2], last - p[1]>>

\* The sides around s in clockwise order; s and its opposite stay.
Around(s) ==
  CASE s = FRONT  -> <<TOP, RIGHT, BOTTOM, LEFT>>
    [] s = BACK   -> <<TOP, LEFT, BOTTOM, RIGHT>>
    [] s = RIGHT  -> <<FRONT, TOP, BACK, BOTTOM>>
    [] s = LEFT   -> <<FRONT, BOTTOM, BACK, TOP>>
    [] s = TOP    -> <<FRONT, LEFT, BACK, RIGHT>>
    [] s = BOTTOM -> <<FRONT, RIGHT, BACK, LEFT>>

TurnFacing(f, s) ==
  IF \E i \in 1..4 : Around(s)[i] = f
  THEN LET i == CHOOSE j \in 1..4 : Around(s)[j] = f
       IN  Around(s)[(i % 4) + 1]
  ELSE f

\* For each layer k of each side s, where a square's colour comes from when the
\* layer makes a clockwise quarter turn: QuarterTurn[s][k][q] is the square
\* that the turn carries to q.
QuarterTurn ==
  LET lands(p, q, s, k) ==
        IF Depth(Place(p), s) = k
        THEN /\ Place(q) = TurnPlace(Place(p), s)
             /\ q[1] = TurnFacing(p[1], s)
        ELSE q = p
  IN  [s \in Side |-> [k \in LayerIndex |->
         [q \in Square |-> CHOOSE p \in Square : lands(p, q, s, k)]]]

-----------------------------------------------------------------------------
VARIABLE solid

solidVars == <<vars, solid>>

SolidInit == CubeInit /\ solid = [q \in Square |-> q]

Turned(t) ==
  [q \in Square |-> solid[QuarterTurn[call[t].side][call[t].layer][q]]]

SolidStep(t) ==
  \/ PassLayer(t) /\ solid' = Turned(t)
  \/ Proceed(t) /\ UNCHANGED solid

SolidNext ==
  \E t \in Thread : SolidStep(t) \/ (Disturb(t) /\ UNCHANGED solid)

SolidSpec == SolidInit /\ [][SolidNext]_solidVars

\* A thread that can go on does; nobody has to call or to interrupt.
FairSolidSpec == SolidSpec /\ \A t \in Thread : WF_solidVars(SolidStep(t))

\* Whenever nobody rotates the cube is the solid: the parts of a rotation add up
\* to one quarter turn, and the tables of correlations, orders and layers and
\* rotate_front_layer are right on all the sides.  (The run of MCCubeTurns has
\* one thread, so it goes through the tables but interleaves nothing; that the
\* parts of several rotations may interleave is what TurnsOfSolid proves.)
CubeIsSolid == (\A t \in Thread : ~Rotating(t)) => cube = solid

\* What perform_show has put together is the solid after whole turns, the same
\* ones for all the sides it has read.
ShowsWholeTurns ==
  \A t \in Thread :
    \A s \in 1..Len(view[t]) : view[t][s] = get_side(solid, s - 1)
=============================================================================
