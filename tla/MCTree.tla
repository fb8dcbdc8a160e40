------------------------------- MODULE MCTree -------------------------------
EXTENDS TreeHistory

CONSTANTS root, n1, n2, n3, n4, n5, n6, n7, t1, t2, t3

\* /1/, /1/1/, /2/, /2/2/ and /2/2/2/.
SmallTree ==
  n1 :> [parent |-> root, name |-> 1] @@ n2 :> [parent |-> n1, name |-> 1] @@
  n3 :> [parent |-> root, name |-> 2] @@ n4 :> [parent |-> n3, name |-> 2] @@
  n5 :> [parent |-> n4, name |-> 2]

list(p)    == [op |-> "list", path |-> p]
create(p)  == [op |-> "create", path |-> p]
remove(p)  == [op |-> "remove", path |-> p]
move(s, d) == [op |-> "move", source |-> s, target |-> d]

A == <<1>>
AA == <<1, 1>>
AB == <<1, 2>>
B == <<2>>
BA == <<2, 1>>
BB == <<2, 2>>

BBB == <<2, 2, 2>>

\* Every two of these at once.
Operations ==
  {list(<<>>), list(A), list(AB), create(AB), create(AA), remove(AA), remove(BB),
   move(AA, AB), move(AA, BA), move(A, BA), move(BB, AB), move(B, AB)}

\* Calls that return early, each at once with one that can disturb it: moves
\* whose target is the source or above it, moves to a place whose parent is
\* missing unless the other call makes it, and the calls that are rejected.
EarlyReturns ==
  {move(AA, A), move(AA, AA), move(AA, BA \o A), move(BB, AB \o A),
   move(A, AB), move(<<>>, A), move(A, <<>>), create(<<>>), remove(<<>>)}
Disturbances ==
  {create(AB), remove(AA), move(AA, A), move(A, BA), move(BB, AB), move(B, AB)}

\* A mover that leaves while the folder above it is moved.
NestedMoves == {t1 :> move(BBB, <<2, 2, 1>>) @@ t2 :> move(B, AB)}

\* Some of them three at a time: threads that wait for a folder that goes
\* away, both as readers and as writers, and movers that need each other's
\* maps.
Triples ==
  {<<remove(AA), remove(AA), list(AA)>>,
   <<move(AA, BA), remove(AA), list(AA)>>,
   <<move(AA, BA), move(BB, AB), list(A)>>}

SmallWorkloads ==
  {t1 :> c @@ t2 :> d : c \in Operations, d \in Operations}
    \cup {t1 :> c @@ t2 :> d : c \in EarlyReturns, d \in Disturbances}
    \cup NestedMoves
    \cup {t1 :> w[1] @@ t2 :> w[2] @@ t3 :> w[3] : w \in Triples}
=============================================================================
