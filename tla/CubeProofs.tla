----------------------------- MODULE CubeProofs -----------------------------
(***************************************************************************)
(* Cube and CubeSolid, for any set of threads and any size.  No thread is  *)
(* interrupted while it waits for the mutex: there the code releases a     *)
(* mutex that it has not got (Cube.java:179), and nothing below would      *)
(* hold.                                                                   *)
(*                                                                         *)
(* First who rotates when; then that the cube is the solid after whole     *)
(* quarter turns.  Three things make it so, in this order.  The loops of   *)
(* perform_rotate move each square of their quads once, whatever the       *)
(* order; the quads of the tables of Side.java and Cube.java are the       *)
(* orbits of a quarter turn; and no two rotations meet in a square, so a   *)
(* square that waits for its rotation waits for that alone.                *)
(***************************************************************************)
EXTENDS CubeSolid, FiniteSetTheorems, SequenceTheorems, WellFoundedInduction,
        TLAPS

Places == {"idle", "mutex", "guardian", "index", "layer", "front", "back",
           "strips", "done", "leave", "show"}

Semaphore(n) == [permits : Nat, queue : Seq([who : Thread, permits : n])]

TypeInv ==
  /\ pc \in [Thread -> Places]
  /\ call \in [Thread -> Calls \cup {Show}]
  /\ interrupted \in [Thread -> BOOLEAN]
  /\ previous_side \in Side \cup {NoSide}
  /\ rotating_previous_axis \in Nat
  /\ mutex \in Semaphore({1})
  /\ guardian \in Semaphore(Nat)

\* One thread at most collects permits, and has the mutex meanwhile.
Collecting(t) == pc[t] = "guardian"

MutexInv ==
  /\ \A t \in Thread : pc[t] = "mutex" => ~interrupted[t]
  /\ mutex.permits \in {0, 1}
  /\ mutex.permits = 1 => \A t \in Thread : ~Collecting(t)
  /\ \A t, u \in Thread : Collecting(t) /\ Collecting(u) => t = u

\* It is the only one in the queue of guardian, for as many permits as there
\* are threads in the group: the group grows only under the mutex.
GuardianInv ==
  /\ (\A t \in Thread : ~Collecting(t)) => guardian.queue = <<>>
  /\ \A t \in Thread : Collecting(t) =>
       guardian.queue = <<[who |-> t, permits |-> rotating_previous_axis]>>

\* guardian counts those of the group that have left.
Group == {t \in Thread : Admitted(t)}

CountInv ==
  /\ IsFiniteSet(Group)
  /\ guardian.permits + Cardinality(Group) = rotating_previous_axis

\* Who was let in belongs to the group.
GroupInv == \A t \in Thread : Admitted(t) => ~OtherGroup(call[t])

AxisInv == TypeInv /\ MutexInv /\ GuardianInv /\ CountInv /\ GroupInv

-----------------------------------------------------------------------------
\* The sides opposite to one another, by the table of Side.java.
LEMMA OppositeSides ==
  \A s \in Side : /\ Opposite(s) \in Side
                  /\ Opposite(Opposite(s)) = s
BY DEF Side, Opposite, correlations, Neighbours, BACK

\* A thread that moves joins the group or leaves it.
LEMMA GroupMove ==
  ASSUME pc \in [Thread -> Places], NEW t \in Thread, NEW to, Go(t, to)
  PROVE  Group' = IF to \in {"index", "layer", "front", "back", "strips",
                             "done", "leave", "show"}
                  THEN Group \cup {t} ELSE Group \ {t}
BY DEF Go, Group, Admitted, Rotating

LEMMA CountMove ==
  ASSUME IsFiniteSet(Group), NEW t \in Thread
  PROVE  /\ Cardinality(Group) \in Nat
         /\ Cardinality(Group) = 0 => Group = {}
         /\ IsFiniteSet(Group \cup {t}) /\ IsFiniteSet(Group \ {t})
         /\ Cardinality(Group \cup {t}) =
              IF t \in Group THEN Cardinality(Group) ELSE Cardinality(Group) + 1
         /\ Cardinality(Group \ {t}) =
              IF t \in Group THEN Cardinality(Group) - 1 ELSE Cardinality(Group)
BY FS_CardinalityType, FS_EmptySet, FS_AddElement, FS_RemoveElement

\* What the operations of a semaphore do to it.
LEMMA JoinFacts ==
  ASSUME NEW n, NEW sem \in Semaphore(n), NEW t \in Thread, NEW k \in n
  PROVE  /\ Join(sem, t, k) \in Semaphore(n)
         /\ Join(sem, t, k).permits = sem.permits
         /\ Join(sem, t, k).queue = Append(sem.queue, [who |-> t, permits |-> k])
<1> DEFINE q == Append(sem.queue, [who |-> t, permits |-> k])
<1>1. q \in Seq([who : Thread, permits : n])
  <2>1. [who |-> t, permits |-> k] \in [who : Thread, permits : n]
    OBVIOUS
  <2> QED
    BY <2>1, AppendProperties DEF Semaphore
<1>2. Join(sem, t, k) = [sem EXCEPT !.queue = q]
  BY DEF Join, Semaphore
<1> HIDE DEF q
<1>3. /\ Join(sem, t, k) \in Semaphore(n)
      /\ Join(sem, t, k).permits = sem.permits /\ Join(sem, t, k).queue = q
  BY <1>1, <1>2 DEF Semaphore
<1> QED
  BY <1>3 DEF q

LEMMA PassFacts ==
  ASSUME NEW n \in SUBSET Nat, NEW sem \in Semaphore(n), NEW t \in Thread,
         CanPass(sem, t)
  PROVE  /\ Head(sem.queue).permits \in n
         /\ Head(sem.queue).who = t
         /\ sem.permits - Head(sem.queue).permits \in Nat
         /\ Pass(sem) \in Semaphore(n)
         /\ Pass(sem).permits = sem.permits - Head(sem.queue).permits
         /\ Pass(sem).queue = Tail(sem.queue)
<1>1. /\ sem.permits \in Nat
      /\ sem.queue \in Seq([who : Thread, permits : n]) /\ sem.queue # <<>>
  BY DEF Semaphore, CanPass
<1>2. /\ Head(sem.queue) \in [who : Thread, permits : n]
      /\ Tail(sem.queue) \in Seq([who : Thread, permits : n])
  BY <1>1, HeadTailProperties
<1>3. /\ Head(sem.queue).permits \in Nat /\ Head(sem.queue).permits <= sem.permits
      /\ Head(sem.queue).permits \in n /\ Head(sem.queue).who = t
  BY <1>2 DEF CanPass
<1> HIDE DEF CanPass
<1> DEFINE h == Head(sem.queue)
           q == Tail(sem.queue)
<1>4. Pass(sem) = [permits |-> sem.permits - h.permits, queue |-> q]
  BY DEF Pass
<1>5. sem.permits - h.permits \in Nat
  BY <1>1, <1>3
<1>6. q \in Seq([who : Thread, permits : n])
  BY <1>2
<1> HIDE DEF h, q
<1>7. /\ Pass(sem) \in Semaphore(n)
      /\ Pass(sem).permits = sem.permits - h.permits /\ Pass(sem).queue = q
  BY <1>4, <1>5, <1>6 DEF Semaphore
<1> QED
  BY <1>3, <1>5, <1>7 DEF h, q

LEMMA ReleaseFacts ==
  ASSUME NEW n, NEW sem \in Semaphore(n)
  PROVE  /\ Release(sem) \in Semaphore(n)
         /\ Release(sem).permits = sem.permits + 1
         /\ Release(sem).queue = sem.queue
BY DEF Release, Semaphore

-----------------------------------------------------------------------------
\* At the start nobody is anywhere.
LEMMA AxisInit == CubeInit => AxisInv
<1> SUFFICES ASSUME CubeInit PROVE AxisInv
  OBVIOUS
<1>1. \A n : NewSemaphore(0) \in Semaphore(n) /\ NewSemaphore(1) \in Semaphore(n)
  BY DEF NewSemaphore, Semaphore
<1>2. TypeInv
  BY <1>1 DEF CubeInit, TypeInv, Places
<1>3. Group = {}
  BY DEF CubeInit, Group, Admitted, Rotating
<1>4. CountInv
  BY <1>3, FS_EmptySet DEF CubeInit, CountInv, NewSemaphore
<1> QED
  BY <1>2, <1>3, <1>4
     DEF CubeInit, AxisInv, MutexInv, GuardianInv, GroupInv, Group, Collecting,
         NewSemaphore

\* The steps of the group, its layers and shows, as far as they matter here.
Belongs == {"index", "layer", "front", "back", "strips", "done", "leave", "show"}

LEMMA InsideAxis ==
  ASSUME AxisInv, NEW t \in Thread, NEW to \in Belongs,
         Admitted(t), Go(t, to), UNCHANGED <<mutex, guardian, group, call, interrupted>>
  PROVE  AxisInv'
<1> USE DEF AxisInv, group, Belongs
<1>1. Group' = Group
  BY GroupMove DEF TypeInv, Group
<1>2. TypeInv'
  BY DEF TypeInv, Go, Places
<1>3. MutexInv' /\ GuardianInv'
  BY DEF TypeInv, MutexInv, GuardianInv, Collecting, Go, Admitted, Rotating
<1>4. CountInv'
  BY <1>1 DEF CountInv
<1>5. GroupInv'
  BY <1>1 DEF GroupInv, Group, OtherGroup
<1> QED
  BY <1>2, <1>3, <1>4, <1>5

\* A thread leaves the group, with or without an exception.
LEMMA LeaveAxis ==
  ASSUME AxisInv, NEW t \in Thread, Admitted(t), Go(t, "idle"),
         guardian' = Release(guardian),
         interrupted' \in [Thread -> BOOLEAN],
         \A u \in Thread \ {t} : interrupted'[u] = interrupted[u],
         UNCHANGED <<mutex, group, call>>
  PROVE  AxisInv'
<1> USE DEF AxisInv, group
<1>1. Group' = Group \ {t} /\ t \in Group
  BY GroupMove DEF TypeInv, Group
<1>2. /\ guardian' \in Semaphore(Nat)
      /\ guardian'.permits = guardian.permits + 1 /\ guardian'.queue = guardian.queue
  BY ReleaseFacts DEF TypeInv
<1>3. TypeInv'
  BY <1>2 DEF TypeInv, Go, Places
<1>4. MutexInv' /\ GuardianInv'
  BY <1>2 DEF TypeInv, MutexInv, GuardianInv, Collecting, Go, Admitted, Rotating
<1>5. CountInv'
  <2>1. guardian.permits \in Nat /\ IsFiniteSet(Group)
    BY DEF TypeInv, CountInv, Semaphore
  <2>2. /\ IsFiniteSet(Group') /\ Cardinality(Group) \in Nat
        /\ Cardinality(Group') = Cardinality(Group) - 1
    BY <1>1, <2>1, CountMove
  <2> QED
    BY <1>2, <2>1, <2>2 DEF CountInv
<1>6. GroupInv'
  BY <1>1 DEF GroupInv, Group, OtherGroup
<1> QED
  BY <1>3, <1>4, <1>5, <1>6

\* A thread outside the group moves outside it, and leaves guardian alone.
LEMMA OutsideAxis ==
  ASSUME AxisInv, NEW t \in Thread, NEW to \in {"idle", "mutex"},
         pc[t] \in {"idle", "mutex"}, Go(t, to),
         mutex' \in Semaphore({1}), mutex'.permits = mutex.permits,
         call' \in [Thread -> Calls \cup {Show}],
         \A u \in Thread \ {t} : call'[u] = call[u],
         interrupted' \in [Thread -> BOOLEAN],
         \A u \in Thread \ {t} : interrupted'[u] = interrupted[u],
         to = "mutex" => ~interrupted'[t],
         UNCHANGED <<guardian, group>>
  PROVE  AxisInv'
<1> USE DEF AxisInv, group
<1>1. Group' = Group /\ t \notin Group
  BY GroupMove DEF TypeInv, Group, Admitted, Rotating
<1>2. TypeInv'
  BY DEF TypeInv, Go, Places
<1>3. MutexInv' /\ GuardianInv'
  BY DEF TypeInv, MutexInv, GuardianInv, Collecting, Go
<1>4. CountInv'
  BY <1>1 DEF CountInv
<1>5. GroupInv'
  BY <1>1 DEF GroupInv, Group, OtherGroup
<1> QED
  BY <1>2, <1>3, <1>4, <1>5

\* The mutex has passed from one thread to itself when its call lets it go on.
LEMMA MutexFacts ==
  ASSUME AxisInv, NEW t \in Thread, CanPass(mutex, t)
  PROVE  /\ Pass(mutex) \in Semaphore({1}) /\ Pass(mutex).permits = 0
         /\ Release(Pass(mutex)) \in Semaphore({1})
         /\ Release(Pass(mutex)).permits = 1
         /\ mutex.permits = 1 /\ \A u \in Thread : ~Collecting(u)
<1>1. /\ Pass(mutex) \in Semaphore({1}) /\ Pass(mutex).permits = mutex.permits - 1
      /\ mutex.permits - 1 \in Nat
  <2>1. mutex \in Semaphore({1}) /\ {1} \in SUBSET Nat
    BY DEF AxisInv, TypeInv
  <2> QED
    BY <2>1, PassFacts
<1>2. mutex.permits = 1
  BY <1>1 DEF AxisInv, MutexInv
<1> QED
  BY <1>1, <1>2, ReleaseFacts DEF AxisInv, MutexInv

\* One more in the group.
LEMMA JoinGroupAxis ==
  ASSUME AxisInv, NEW t \in Thread, pc[t] = "mutex", JoinGroup(t)
  PROVE  AxisInv'
<1> DEFINE to == Inside(t)
<1>1. /\ CanPass(mutex, t) /\ ~OtherGroup(call[t])
      /\ rotating_previous_axis' = rotating_previous_axis + 1
      /\ mutex' = Release(Pass(mutex)) /\ Go(t, to) /\ to \in {"show", "index"}
      /\ UNCHANGED <<guardian, previous_side, call, interrupted>>
  BY DEF JoinGroup, Inside
<1> HIDE DEF to
<1>2. /\ mutex' \in Semaphore({1}) /\ mutex'.permits = 1
      /\ \A u \in Thread : ~Collecting(u)
  BY <1>1, MutexFacts
<1>3. Group' = Group \cup {t} /\ t \notin Group
  BY <1>1, GroupMove DEF AxisInv, TypeInv, Group, Admitted, Rotating
<1>4. TypeInv'
  BY <1>1, <1>2 DEF AxisInv, TypeInv, Go, Places
<1>5. MutexInv' /\ GuardianInv'
  BY <1>1, <1>2 DEF AxisInv, TypeInv, MutexInv, GuardianInv, Collecting, Go
<1>6. CountInv'
  <2>1. guardian.permits \in Nat /\ IsFiniteSet(Group)
    BY DEF AxisInv, TypeInv, CountInv, Semaphore
  <2>2. /\ IsFiniteSet(Group') /\ Cardinality(Group) \in Nat
        /\ Cardinality(Group') = Cardinality(Group) + 1
    BY <1>3, <2>1, CountMove
  <2> QED
    BY <1>1, <2>1, <2>2 DEF AxisInv, CountInv
<1>7. GroupInv'
  BY <1>1, <1>3 DEF AxisInv, GroupInv, Group, OtherGroup
<1> QED
  BY <1>4, <1>5, <1>6, <1>7 DEF AxisInv

\* A thread of another group begins to collect, with the mutex in its hands.
LEMMA StartGroupAxis ==
  ASSUME AxisInv, NEW t \in Thread, pc[t] = "mutex", StartGroup(t)
  PROVE  AxisInv'
<1>1. /\ CanPass(mutex, t) /\ mutex' = Pass(mutex) /\ Go(t, "guardian")
      /\ guardian' = Join(guardian, t, rotating_previous_axis)
      /\ UNCHANGED <<previous_side, rotating_previous_axis, call, interrupted>>
  BY DEF StartGroup, group
<1>2. /\ mutex' \in Semaphore({1}) /\ mutex'.permits = 0
      /\ \A u \in Thread : ~Collecting(u)
  BY <1>1, MutexFacts
<1>3. /\ guardian' \in Semaphore(Nat) /\ guardian'.permits = guardian.permits
      /\ guardian'.queue =
           Append(guardian.queue, [who |-> t, permits |-> rotating_previous_axis])
  BY <1>1, JoinFacts DEF AxisInv, TypeInv
<1>4. guardian'.queue = <<[who |-> t, permits |-> rotating_previous_axis]>>
  <2>1. guardian.queue = <<>>
    BY <1>2 DEF AxisInv, GuardianInv
  <2>2. \A e : Append(<<>>, e) = <<e>>
    OBVIOUS
  <2> QED
    BY <1>3, <2>1, <2>2
<1>5. Group' = Group
  BY <1>1, GroupMove DEF AxisInv, TypeInv, Group, Admitted, Rotating
<1>6. TypeInv'
  BY <1>1, <1>2, <1>3 DEF AxisInv, TypeInv, Go, Places
<1>7. \A u \in Thread : Collecting(u)' <=> u = t
  BY <1>1, <1>2 DEF AxisInv, TypeInv, Collecting, Go
<1>8. MutexInv'
  BY <1>1, <1>2, <1>7 DEF AxisInv, TypeInv, MutexInv, Go
<1>9. GuardianInv'
  BY <1>1, <1>4, <1>7 DEF GuardianInv
<1>10. CountInv' /\ GroupInv'
  BY <1>1, <1>3, <1>5 DEF AxisInv, CountInv, GroupInv, Group, OtherGroup
<1> QED
  BY <1>6, <1>8, <1>9, <1>10 DEF AxisInv

\* When a thread has collected its permits, the group before it has left.
LEMMA AllHaveLeft ==
  ASSUME AxisInv, NEW t \in Thread, PassGuardian(t)
  PROVE  /\ Group = {}
         /\ guardian' \in Semaphore(Nat) /\ guardian'.queue = <<>>
         /\ guardian'.permits = 0
<1>1. pc[t] = "guardian" /\ CanPass(guardian, t) /\ guardian' = Pass(guardian)
  BY DEF PassGuardian
<1>2. guardian.queue = <<[who |-> t, permits |-> rotating_previous_axis]>>
  BY <1>1 DEF AxisInv, GuardianInv, Collecting
<1>3. /\ Head(guardian.queue).permits = rotating_previous_axis
      /\ Tail(guardian.queue) = <<>>
  BY <1>2
<1>4. /\ guardian' \in Semaphore(Nat) /\ guardian'.queue = <<>>
      /\ guardian'.permits = guardian.permits - rotating_previous_axis
      /\ guardian.permits - rotating_previous_axis \in Nat
  BY <1>1, <1>3, PassFacts DEF AxisInv, TypeInv
<1>5. /\ guardian.permits \in Nat /\ rotating_previous_axis \in Nat
      /\ IsFiniteSet(Group)
      /\ guardian.permits + Cardinality(Group) = rotating_previous_axis
  BY DEF AxisInv, TypeInv, CountInv, Semaphore
<1>6. Cardinality(Group) \in Nat /\ (Cardinality(Group) = 0 => Group = {})
  BY <1>5, CountMove
<1> QED
  BY <1>4, <1>5, <1>6

\* It has collected as many permits as there were threads in the group: so
\* all of them have left, and the group is its own.
LEMMA PassGuardianAxis ==
  ASSUME AxisInv, NEW t \in Thread, PassGuardian(t)
  PROVE  AxisInv'
<1> DEFINE to == Inside(t)
<1>1. /\ pc[t] = "guardian"
      /\ previous_side' = call[t].side /\ rotating_previous_axis' = 1
      /\ mutex' = Release(mutex) /\ Go(t, to)
      /\ to = (IF call[t].op = "show" THEN "show" ELSE "index")
      /\ UNCHANGED <<call, interrupted>>
  BY DEF PassGuardian, Inside
<1> HIDE DEF to
<1>2. /\ Group = {}
      /\ guardian' \in Semaphore(Nat) /\ guardian'.queue = <<>> /\ guardian'.permits = 0
  BY AllHaveLeft
<1>3. Group' = {t}
  BY <1>1, <1>2, GroupMove DEF AxisInv, TypeInv
<1>4. call[t] \in Calls \cup {Show} /\ call[t].side \in Side \cup {NoSide}
      /\ (call[t].op = "show" => call[t].side = NoSide)
  <2>1. call[t] \in {Rotation(s, k) : s \in Side, k \in LayerIndex} \cup {Show}
    BY CallsAssumption DEF AxisInv, TypeInv
  <2> QED
    BY <2>1 DEF AxisInv, TypeInv, Rotation, Show
<1>5. mutex' \in Semaphore({1}) /\ mutex'.permits = 1
  BY <1>1, ReleaseFacts DEF AxisInv, TypeInv, MutexInv, Collecting
<1>6. \A u \in Thread : ~Collecting(u)'
  BY <1>1 DEF AxisInv, TypeInv, MutexInv, Collecting, Go
<1>7. TypeInv'
  BY <1>1, <1>2, <1>4, <1>5 DEF AxisInv, TypeInv, Go, Places
<1>8. MutexInv' /\ GuardianInv'
  <2>1. MutexInv'
    BY <1>1, <1>5, <1>6 DEF AxisInv, TypeInv, MutexInv, Go
  <2>2. GuardianInv'
    BY <1>2, <1>6 DEF GuardianInv
  <2> QED
    BY <2>1, <2>2
<1>9. CountInv'
  <2>1. IsFiniteSet(Group') /\ Cardinality(Group') = 1
    <3>1. IsFiniteSet({t}) /\ Cardinality({t}) = 1
      BY FS_Singleton
    <3> QED
      BY <1>3, <3>1, Zenon
  <2>2. guardian'.permits = 0 /\ rotating_previous_axis' = 1
    BY <1>1, <1>2
  <2> QED
    BY <2>1, <2>2 DEF CountInv
<1>10. GroupInv'
  BY <1>1, <1>3, <1>4 DEF GroupInv, Group, OtherGroup
<1> QED
  BY <1>7, <1>8, <1>9, <1>10 DEF AxisInv

\* It is interrupted, and hands the mutex back; the group stays as it was.
LEMMA ThrowGuardianAxis ==
  ASSUME AxisInv, NEW t \in Thread, ThrowGuardian(t)
  PROVE  AxisInv'
<1>1. /\ pc[t] = "guardian" /\ guardian' = GiveUp(guardian, t)
      /\ mutex' = Release(mutex) /\ Go(t, "idle")
      /\ interrupted' = [interrupted EXCEPT ![t] = FALSE]
      /\ UNCHANGED <<previous_side, rotating_previous_axis, call>>
  BY DEF ThrowGuardian, Throw, group
<1> DEFINE e == [who |-> t, permits |-> rotating_previous_axis]
<1>2. guardian \in Semaphore(Nat) /\ guardian.queue = <<e>>
  BY <1>1 DEF AxisInv, TypeInv, GuardianInv, Collecting
<1>3. guardian' = [guardian EXCEPT !.queue = <<>>]
  <2>1. Waits(guardian, t) = {1}
    BY <1>2 DEF Waits
  <2>2. RemoveAt(<<e>>, 1) = <<>>
    BY DEF RemoveAt
  <2> QED
    BY <1>1, <1>2, <2>1, <2>2 DEF GiveUp
<1>4. /\ guardian' \in Semaphore(Nat) /\ guardian'.queue = <<>>
      /\ guardian'.permits = guardian.permits
  <2>1. guardian.permits \in Nat /\ DOMAIN guardian = {"permits", "queue"}
    BY <1>2 DEF Semaphore
  <2>2. guardian' = [permits |-> guardian.permits, queue |-> <<>>]
    BY <1>3, <2>1
  <2> QED
    BY <2>1, <2>2 DEF Semaphore
<1>5. mutex' \in Semaphore({1}) /\ mutex'.permits = 1
  BY <1>1, ReleaseFacts DEF AxisInv, TypeInv, MutexInv, Collecting
<1>6. \A u \in Thread : ~Collecting(u)'
  BY <1>1 DEF AxisInv, TypeInv, MutexInv, Collecting, Go
<1>7. Group' = Group
  BY <1>1, GroupMove DEF AxisInv, TypeInv, Group, Admitted, Rotating
<1>8. TypeInv'
  BY <1>1, <1>4, <1>5 DEF AxisInv, TypeInv, Go, Places
<1>9. MutexInv' /\ GuardianInv'
  BY <1>1, <1>4, <1>5, <1>6 DEF AxisInv, TypeInv, MutexInv, GuardianInv, Go
<1>10. CountInv' /\ GroupInv'
  BY <1>1, <1>4, <1>7 DEF AxisInv, CountInv, GroupInv, Group, OtherGroup
<1> QED
  BY <1>8, <1>9, <1>10 DEF AxisInv

\* A step in which nobody moves: a side is shown, a flag set, nothing at all.
LEMMA StillAxis ==
  ASSUME AxisInv, UNCHANGED <<pc, mutex, guardian, group, call>>,
         interrupted' \in [Thread -> BOOLEAN],
         \A t \in Thread : pc[t] = "mutex" => ~interrupted'[t]
  PROVE  AxisInv'
<1> USE DEF AxisInv, group
<1>1. Group' = Group
  BY DEF Group, Admitted, Rotating
<1>2. TypeInv' /\ MutexInv' /\ GuardianInv'
  BY DEF TypeInv, MutexInv, GuardianInv, Collecting
<1>3. CountInv' /\ GroupInv'
  BY <1>1 DEF CountInv, GroupInv, Group, OtherGroup
<1> QED
  BY <1>2, <1>3

\* Every step keeps the invariant, if nobody is interrupted at the mutex.
LEMMA NextAxis ==
  ASSUME "mutex" \notin Interruptible, AxisInv, [CubeNext]_vars
  PROVE  AxisInv'
<1>0. /\ pc \in [Thread -> Places] /\ interrupted \in [Thread -> BOOLEAN]
      /\ call \in [Thread -> Calls \cup {Show}] /\ mutex \in Semaphore({1})
      /\ \A t \in Thread : pc[t] = "mutex" => ~interrupted[t]
  BY DEF AxisInv, TypeInv, MutexInv
<1>1. ASSUME NEW t \in Thread, NEW c \in Calls, Call(t, c) PROVE AxisInv'
  <2>1. /\ mutex' \in Semaphore({1}) /\ mutex'.permits = mutex.permits
    <3>1. mutex' = Join(mutex, t, 1)
      BY <1>1 DEF Call
    <3>2. \A n : mutex \in Semaphore(n) /\ 1 \in n
                   => /\ Join(mutex, t, 1) \in Semaphore(n)
                      /\ Join(mutex, t, 1).permits = mutex.permits
      BY JoinFacts
    <3> QED
      BY <1>0, <3>1, <3>2, Zenon
  <2>2. /\ pc[t] = "idle" /\ Go(t, "mutex") /\ call' = [call EXCEPT ![t] = c]
        /\ UNCHANGED <<guardian, group, interrupted>> /\ ~interrupted[t]
    BY <1>1 DEF Call
  <2> QED
    BY <1>0, <2>1, <2>2, OutsideAxis
<1>2. ASSUME NEW t \in Thread, PassMutex(t) PROVE AxisInv'
  BY <1>0, <1>2, JoinGroupAxis, StartGroupAxis DEF PassMutex, RefuseGroup
<1>3. ASSUME NEW t \in Thread, ThrowMutex(t) PROVE AxisInv'
  BY <1>0, <1>3 DEF ThrowMutex
<1>4. ASSUME NEW t \in Thread, JoinLayer(t) \/ PassLayer(t) \/ ReleaseLayer(t)
      PROVE  AxisInv'
  <2>1. \E to \in Belongs : Go(t, to)
    BY <1>4 DEF JoinLayer, PassLayer, ReleaseLayer, Belongs
  <2>2. Admitted(t) /\ UNCHANGED <<mutex, guardian, group, call, interrupted>>
    BY <1>4 DEF JoinLayer, PassLayer, ReleaseLayer, Admitted, Rotating
  <2> QED
    BY <2>1, <2>2, InsideAxis
<1>5. ASSUME NEW t \in Thread, perform_rotate(t) PROVE AxisInv'
  <2>1. \E to \in Belongs : Go(t, to)
    BY <1>5 DEF perform_rotate, Part, Belongs
  <2>2. Admitted(t) /\ UNCHANGED <<mutex, guardian, group, call, interrupted>>
    BY <1>5 DEF perform_rotate, Part, semaphores, Admitted, Rotating
  <2> QED
    BY <2>1, <2>2, InsideAxis
<1>6. ASSUME NEW t \in Thread, ThrowLayer(t) \/ Leave(t) PROVE AxisInv'
  <2>1. /\ Admitted(t) /\ Go(t, "idle") /\ guardian' = Release(guardian)
        /\ UNCHANGED <<mutex, group, call>>
    BY <1>6 DEF ThrowLayer, Leave, Throw, Admitted, Rotating
  <2>2. /\ interrupted' \in [Thread -> BOOLEAN]
        /\ \A u \in Thread \ {t} : interrupted'[u] = interrupted[u]
    BY <1>0, <1>6 DEF ThrowLayer, Leave, Throw
  <2> QED
    BY <2>1, <2>2, LeaveAxis
<1>7. ASSUME NEW t \in Thread, Handle(t) PROVE AxisInv'
  <2>1. /\ pc[t] = "idle" /\ Go(t, "idle")
        /\ interrupted' = [interrupted EXCEPT ![t] = FALSE]
        /\ UNCHANGED <<mutex, guardian, group, call>>
    BY <1>7 DEF Handle, Throw, semaphores
  <2> QED
    BY <1>0, <2>1, OutsideAxis
<1>8. ASSUME NEW t \in Thread, Interrupt(t) PROVE AxisInv'
  <2>1. /\ pc[t] # "mutex" /\ interrupted' = [interrupted EXCEPT ![t] = TRUE]
        /\ UNCHANGED <<pc, mutex, guardian, group, call>>
    BY <1>8 DEF Interrupt, semaphores
  <2> QED
    BY <1>0, <2>1, StillAxis
<1>9. ASSUME NEW t \in Thread, perform_show(t) PROVE AxisInv'
  BY <1>0, <1>9, StillAxis DEF perform_show, semaphores
<1>10. CASE UNCHANGED vars
  BY <1>0, <1>10, StillAxis DEF vars, semaphores
<1> QED
  BY <1>1, <1>2, <1>3, <1>4, <1>5, <1>6, <1>7, <1>8, <1>9, <1>10,
     PassGuardianAxis, ThrowGuardianAxis
     DEF CubeNext, Proceed, Disturb

\* Two threads that perform are in one group, and a group has one axis.
LEMMA AxisMeans == AxisInv => ExclusiveAxis
<1> SUFFICES ASSUME AxisInv, NEW t \in Thread, NEW u \in Thread,
                    Performing(t), Performing(u)
             PROVE  \/ call[u].side = call[t].side
                    \/ /\ Show \notin {call[t], call[u]}
                       /\ call[u].side = Opposite(call[t].side)
  BY DEF ExclusiveAxis
<1>1. ~OtherGroup(call[t]) /\ ~OtherGroup(call[u])
  BY DEF AxisInv, GroupInv, Performing, Admitted
<1>2. ASSUME NEW v \in Thread
      PROVE  \/ call[v] = Show /\ call[v].op = "show" /\ call[v].side = NoSide
             \/ call[v].op = "rotate" /\ call[v].side \in Side /\ call[v] # Show
  <2>1. call[v] \in {Rotation(s, k) : s \in Side, k \in LayerIndex} \cup {Show}
    BY CallsAssumption DEF AxisInv, TypeInv
  <2> QED
    BY <2>1 DEF Rotation, Show
<1>3. \A s \in Side : Opposite(s) \in Side /\ NoSide \notin Side
  BY OppositeSides DEF Side, NoSide
<1> QED
  BY <1>1, <1>2, <1>3, OppositeSides DEF OtherGroup

\* Threads that rotate at the same time rotate about the same axis, and nobody
\* rotates while the cube is shown, for any number of threads and any size:
\* the promise of rotate and show in Cube.java.
THEOREM OneAxis ==
  ASSUME "mutex" \notin Interruptible
  PROVE  CubeSpec => []ExclusiveAxis
<1>1. AxisInv /\ [CubeNext]_vars => AxisInv'
  BY NextAxis
<1> QED
  BY <1>1, AxisInit, AxisMeans, PTL DEF CubeSpec

-----------------------------------------------------------------------------
(***************************************************************************)
(* The permits.  Those of guardian are counted by CountInv; for a layer it *)
(* has to be known that who waits in its queue waits for this layer still: *)
(* the index is computed from previous_side without the mutex, but that    *)
(* stays as long as the group does.                                        *)
(***************************************************************************)
Once(q) == \A i, j \in 1..Len(q) : q[i].who = q[j].who => i = j

RotatingIn(k) == {t \in Thread : Rotating(t) /\ QueueIndex(call[t]) = k}

AwaitedBy(q, k) ==
  \A i \in 1..Len(q) : pc[q[i].who] = "layer" /\ QueueIndex(call[q[i].who]) = k

LayerInv ==
  /\ layer_queue \in [LayerIndex -> Semaphore({1})]
  /\ \A k \in LayerIndex :
       /\ Once(layer_queue[k].queue)
       /\ AwaitedBy(layer_queue[k].queue, k)
       /\ layer_queue[k].permits + Cardinality(RotatingIn(k)) = 1
  /\ \A t \in Thread :
       pc[t] \in {"index", "layer"} \/ Rotating(t) => call[t].op = "rotate"

PermitsInv == AxisInv /\ LayerInv

\* A sequence without one of its elements.
LEMMA RemoveAtFacts ==
  ASSUME NEW S, NEW s \in Seq(S), NEW p \in 1..Len(s)
  PROVE  /\ RemoveAt(s, p) \in Seq(S)
         /\ Len(RemoveAt(s, p)) = Len(s) - 1
         /\ \A i \in 1..Len(s) - 1 :
              RemoveAt(s, p)[i] = s[IF i < p THEN i ELSE i + 1]
<1> DEFINE a == SubSeq(s, 1, p - 1)
           b == SubSeq(s, p + 1, Len(s))
<1>1. Len(s) \in Nat /\ \A i \in 1..Len(s) : s[i] \in S
  BY LenProperties
<1>2. /\ a \in Seq(S) /\ Len(a) = p - 1
      /\ \A i \in 1..p - 1 : a[i] = s[i]
  BY <1>1, SubSeqProperties
<1>3. /\ b \in Seq(S) /\ Len(b) = Len(s) - p
      /\ \A i \in 1..Len(s) - p : b[i] = s[p + i]
  BY <1>1, SubSeqProperties
<1>4. RemoveAt(s, p) = a \o b
  BY DEF RemoveAt
<1> HIDE DEF a, b
<1>5. /\ a \o b \in Seq(S) /\ Len(a \o b) = Len(a) + Len(b)
      /\ \A i \in 1..Len(a) + Len(b) :
           (a \o b)[i] = IF i <= Len(a) THEN a[i] ELSE b[i - Len(a)]
  BY <1>2, <1>3, ConcatProperties
<1>6. ASSUME NEW i \in 1..Len(s) - 1
      PROVE  (a \o b)[i] = s[IF i < p THEN i ELSE i + 1]
  BY <1>1, <1>2, <1>3, <1>5
<1> QED
  BY <1>1, <1>2, <1>3, <1>4, <1>5, <1>6

\* A thread gives up its place in a queue, and keeps none there.
LEMMA GiveUpFacts ==
  ASSUME NEW n, NEW sem \in Semaphore(n), NEW t, Once(sem.queue)
  PROVE  /\ GiveUp(sem, t) \in Semaphore(n)
         /\ GiveUp(sem, t).permits = sem.permits
         /\ Once(GiveUp(sem, t).queue)
         /\ \A i \in 1..Len(GiveUp(sem, t).queue) :
              /\ GiveUp(sem, t).queue[i].who # t
              /\ \E j \in 1..Len(sem.queue) : GiveUp(sem, t).queue[i] = sem.queue[j]
<1> DEFINE q == sem.queue
           r == GiveUp(sem, t).queue
<1>1. q \in Seq([who : Thread, permits : n]) /\ Len(q) \in Nat
  BY LenProperties DEF Semaphore
<1>2. CASE Waits(sem, t) = {}
  BY <1>2 DEF GiveUp, Waits
<1>3. CASE Waits(sem, t) # {}
  <2> DEFINE p == CHOOSE i \in Waits(sem, t) : TRUE
             w == RemoveAt(q, p)
  <2>1. p \in 1..Len(q) /\ q[p].who = t
    BY <1>3 DEF Waits
  <2>2. GiveUp(sem, t) = [sem EXCEPT !.queue = w]
    BY <1>3 DEF GiveUp, Semaphore
  <2> HIDE DEF p
  <2>3. /\ w \in Seq([who : Thread, permits : n]) /\ Len(w) = Len(q) - 1
        /\ \A i \in 1..Len(q) - 1 : w[i] = q[IF i < p THEN i ELSE i + 1]
    BY <1>1, <2>1, RemoveAtFacts
  <2> HIDE DEF w
  <2>4. /\ GiveUp(sem, t) \in Semaphore(n)
        /\ GiveUp(sem, t).permits = sem.permits /\ r = w
    BY <2>2, <2>3 DEF Semaphore
  <2> HIDE DEF q, r
  <2>5. Once(q)
    BY DEF q
  <2>6. \A i \in 1..Len(w) : w[i].who # t /\ \E j \in 1..Len(q) : w[i] = q[j]
    <3> SUFFICES ASSUME NEW i \in 1..Len(w)
                 PROVE  w[i].who # t /\ \E j \in 1..Len(q) : w[i] = q[j]
      OBVIOUS
    <3> DEFINE j == IF i < p THEN i ELSE i + 1
    <3>1. j \in 1..Len(q) /\ j # p /\ w[i] = q[j]
      BY <1>1, <2>1, <2>3
    <3> QED
      BY <2>1, <2>5, <3>1 DEF Once
  <2>7. Once(w)
    <3> SUFFICES ASSUME NEW i \in 1..Len(w), NEW j \in 1..Len(w), w[i].who = w[j].who
                 PROVE  i = j
      BY DEF Once
    <3> DEFINE f(x) == IF x < p THEN x ELSE x + 1
    <3>1. /\ f(i) \in 1..Len(q) /\ w[i] = q[f(i)]
          /\ f(j) \in 1..Len(q) /\ w[j] = q[f(j)]
      BY <1>1, <2>1, <2>3
    <3>2. f(i) = f(j)
      BY <2>5, <3>1 DEF Once
    <3> QED
      BY <1>1, <2>1, <2>3, <3>2
  <2> QED
    BY <2>4, <2>6, <2>7 DEF q, r
<1> QED
  BY <1>2, <1>3

\* Who rotates a layer is one of the group, which is finite.
LEMMA RotatingFinite ==
  ASSUME PermitsInv, NEW k \in LayerIndex
  PROVE  /\ IsFiniteSet(RotatingIn(k)) /\ Cardinality(RotatingIn(k)) \in Nat
         /\ (Cardinality(RotatingIn(k)) = 0 => RotatingIn(k) = {})
         /\ layer_queue[k] \in Semaphore({1}) /\ layer_queue[k].permits \in Nat
<1>1. RotatingIn(k) \subseteq Group /\ IsFiniteSet(Group)
  BY DEF RotatingIn, Group, Admitted, PermitsInv, AxisInv, CountInv
<1>2. IsFiniteSet(RotatingIn(k))
  BY <1>1, FS_Subset
<1> QED
  BY <1>2, FS_CardinalityType, FS_EmptySet DEF PermitsInv, LayerInv, Semaphore

\* Who waits in the queue of a layer.
LEMMA QueueFacts ==
  ASSUME PermitsInv, NEW k \in LayerIndex
  PROVE  LET q == layer_queue[k].queue
         IN  /\ q \in Seq([who : Thread, permits : {1}]) /\ Len(q) \in Nat
             /\ Once(q)
             /\ \A i \in 1..Len(q) :
                  /\ q[i].who \in Thread /\ q[i].permits = 1
                  /\ pc[q[i].who] = "layer" /\ QueueIndex(call[q[i].who]) = k
<1> DEFINE q == layer_queue[k].queue
<1>1. q \in Seq([who : Thread, permits : {1}])
  BY RotatingFinite DEF Semaphore
<1>2. Once(q) /\ AwaitedBy(q, k)
  BY DEF PermitsInv, LayerInv
<1> HIDE DEF q
<1>3. \A i \in 1..Len(q) : q[i] \in [who : Thread, permits : {1}]
  BY <1>1, ElementOfSeq
<1> QED
  BY <1>1, <1>2, <1>3, LenProperties DEF AwaitedBy, q

\* They go on waiting there while they do not move and the index stays.
LEMMA StillAwaited ==
  ASSUME PermitsInv, NEW k \in LayerIndex,
         \A u \in Thread : pc[u] = "layer" /\ QueueIndex(call[u]) = k
           => pc'[u] = "layer" /\ QueueIndex(call[u])' = k,
         layer_queue'[k].queue = layer_queue[k].queue
  PROVE  AwaitedBy(layer_queue[k].queue, k)'
BY QueueFacts DEF AwaitedBy

\* The index of a layer is one of a queue.
LEMMA IndexInRange ==
  ASSUME PermitsInv, NEW t \in Thread, call[t].op = "rotate"
  PROVE  QueueIndex(call[t]) \in LayerIndex
<1>1. call[t] \in {Rotation(s, k) : s \in Side, k \in LayerIndex}
  BY CallsAssumption DEF PermitsInv, AxisInv, TypeInv, Show
<1>2. call[t].layer \in LayerIndex
  BY <1>1 DEF Rotation
<1> QED
  BY <1>2, SizeAssumption DEF QueueIndex, LayerIndex

\* A step of one thread outside the layers, before them or after them.
LEMMA OutsideLayers ==
  ASSUME PermitsInv, NEW t \in Thread, NEW to \in Places, Go(t, to),
         pc[t] # "layer", ~Rotating(t),
         to \notin {"layer", "front", "back", "strips", "done"},
         \A u \in Thread \ {t} : call'[u] = call[u],
         to = "index" => call'[t].op = "rotate",
         UNCHANGED <<layer_queue, previous_side>>
  PROVE  LayerInv'
<1>1. pc \in [Thread -> Places] /\ LayerInv
  BY DEF PermitsInv, AxisInv, TypeInv
<1>2. \A u \in Thread \ {t} : QueueIndex(call[u])' = QueueIndex(call[u])
  BY DEF QueueIndex
<1>3. \A k \in LayerIndex : RotatingIn(k)' = RotatingIn(k)
  BY <1>1, <1>2 DEF RotatingIn, Rotating, Go
<1>4. \A k \in LayerIndex : AwaitedBy(layer_queue[k].queue, k)'
  BY <1>1, <1>2, StillAwaited DEF Go
<1>5. \A u \in Thread :
        pc'[u] \in {"index", "layer"} \/ Rotating(u)' => call'[u].op = "rotate"
  BY <1>1 DEF LayerInv, Rotating, Go
<1> QED
  BY <1>1, <1>3, <1>4, <1>5 DEF LayerInv, Once

\* A step of one thread that rotates its layer, within the rotation.
LEMMA RotateLayers ==
  ASSUME PermitsInv, NEW t \in Thread, NEW to \in {"back", "strips", "done"},
         Rotating(t), Go(t, to), UNCHANGED <<call, layer_queue, previous_side>>
  PROVE  LayerInv'
<1>1. pc \in [Thread -> Places] /\ LayerInv
  BY DEF PermitsInv, AxisInv, TypeInv
<1>2. \A u \in Thread : QueueIndex(call[u])' = QueueIndex(call[u])
  BY DEF QueueIndex
<1>3. \A u \in Thread : (Rotating(u)' <=> Rotating(u)) /\ (u # t => pc'[u] = pc[u])
  BY <1>1 DEF Rotating, Go
<1>4. \A k \in LayerIndex : RotatingIn(k)' = RotatingIn(k)
  BY <1>2, <1>3 DEF RotatingIn
<1>5. \A k \in LayerIndex : AwaitedBy(layer_queue[k].queue, k)'
  BY <1>2, <1>3, StillAwaited DEF Rotating
<1>6. \A u \in Thread :
        pc'[u] \in {"index", "layer"} \/ Rotating(u)' => call'[u].op = "rotate"
  BY <1>1, <1>3 DEF LayerInv, Rotating
<1> QED
  BY <1>1, <1>4, <1>5, <1>6 DEF LayerInv, Once

\* A step of thread t at the semaphore of its layer k, which becomes s; only t
\* may be new in the queue.
LayerStep(t, to, k, s) ==
  /\ Go(t, to) /\ call[t].op = "rotate" /\ k = QueueIndex(call[t])
  /\ layer_queue' = [layer_queue EXCEPT ![k] = s]
  /\ UNCHANGED <<call, previous_side>>
  /\ Once(s.queue)
  /\ \A i \in 1..Len(s.queue) :
       \/ s.queue[i].who = t /\ to = "layer"
       \/ /\ s.queue[i].who # t
          /\ \E j \in 1..Len(layer_queue[k].queue) :
               s.queue[i].who = layer_queue[k].queue[j].who
  /\ s.permits + Cardinality(RotatingIn(k)') = 1

LEMMA OneLayer ==
  ASSUME PermitsInv, NEW t \in Thread, NEW to \in Places, NEW k \in LayerIndex,
         NEW s \in Semaphore({1}), LayerStep(t, to, k, s)
  PROVE  LayerInv'
<1> USE DEF LayerStep
<1>1. pc \in [Thread -> Places] /\ LayerInv
  BY DEF PermitsInv, AxisInv, TypeInv
<1>2. \A u \in Thread : QueueIndex(call[u])' = QueueIndex(call[u])
  BY DEF QueueIndex
<1>3. /\ layer_queue' \in [LayerIndex -> Semaphore({1})]
      /\ layer_queue'[k] = s
      /\ \A l \in LayerIndex \ {k} : layer_queue'[l] = layer_queue[l]
  BY <1>1 DEF LayerInv
<1>4. \A u \in Thread \ {t} : pc'[u] = pc[u] /\ (Rotating(u)' <=> Rotating(u))
  BY <1>1 DEF Go, Rotating
<1>5. \A l \in LayerIndex \ {k} : RotatingIn(l)' = RotatingIn(l)
  BY <1>2, <1>4 DEF RotatingIn
<1>6. \A l \in LayerIndex \ {k} : AwaitedBy(layer_queue[l].queue, l)'
  BY <1>2, <1>3, <1>4, StillAwaited
<1>7. AwaitedBy(layer_queue[k].queue, k)'
  <2>1. \A j \in 1..Len(layer_queue[k].queue) :
          LET u == layer_queue[k].queue[j].who
          IN  u \in Thread /\ pc[u] = "layer" /\ QueueIndex(call[u]) = k
    BY QueueFacts
  <2>2. pc'[t] = to
    BY <1>1 DEF Go
  <2>3. \A i \in 1..Len(s.queue) :
          pc'[s.queue[i].who] = "layer" /\ QueueIndex(call[s.queue[i].who])' = k
    BY <1>2, <1>4, <2>1, <2>2
  <2> QED
    BY <1>3, <2>3 DEF AwaitedBy
<1>8. \A u \in Thread :
        pc'[u] \in {"index", "layer"} \/ Rotating(u)' => call'[u].op = "rotate"
  BY <1>1, <1>4 DEF LayerInv
<1>9. \A l \in LayerIndex :
        /\ Once(layer_queue[l].queue)' /\ AwaitedBy(layer_queue[l].queue, l)'
        /\ layer_queue'[l].permits + Cardinality(RotatingIn(l)') = 1
  BY <1>1, <1>3, <1>5, <1>6, <1>7 DEF LayerInv, Once
<1> QED
  BY <1>3, <1>8, <1>9 DEF LayerInv

\* Who goes to wait for a layer is at the end of its queue.
LEMMA JoinLayerLayers ==
  ASSUME PermitsInv, NEW t \in Thread, JoinLayer(t)
  PROVE  LayerInv'
<1>1. PICK k \in LayerIndex : call[t].op = "rotate" /\ k = QueueIndex(call[t])
  BY IndexInRange DEF JoinLayer, PermitsInv, LayerInv
<1> DEFINE q == layer_queue[k].queue
           e == [who |-> t, permits |-> 1]
           s == Join(layer_queue[k], t, 1)
<1>2. /\ pc \in [Thread -> Places] /\ LayerInv /\ pc[t] = "index"
      /\ layer_queue' = [layer_queue EXCEPT ![k] = s]
      /\ Go(t, "layer") /\ UNCHANGED <<call, previous_side>>
  BY <1>1 DEF PermitsInv, AxisInv, TypeInv, JoinLayer, group
<1>3. /\ s \in Semaphore({1}) /\ s.permits = layer_queue[k].permits
      /\ s.queue = Append(q, e)
  BY RotatingFinite, JoinFacts, 1 \in {1}
<1>4. q \in Seq([who : Thread, permits : {1}]) /\ e \in [who : Thread, permits : {1}]
  BY QueueFacts
<1>5. /\ Len(q) \in Nat /\ Len(Append(q, e)) = Len(q) + 1
      /\ \A i \in 1..Len(q) : Append(q, e)[i] = q[i]
      /\ Append(q, e)[Len(q) + 1] = e
  BY <1>4, AppendProperties, LenProperties
<1>6. Once(q) /\ \A i \in 1..Len(q) : q[i].who # t
  BY <1>2, QueueFacts
<1> HIDE DEF s, q
<1>7. Once(s.queue)
  BY <1>3, <1>5, <1>6 DEF Once
<1>8. \A i \in 1..Len(s.queue) :
        s.queue[i].who = t \/ /\ s.queue[i].who # t
                              /\ \E j \in 1..Len(q) : s.queue[i].who = q[j].who
  BY <1>3, <1>5, <1>6
<1>9. s.permits + Cardinality(RotatingIn(k)') = 1
  <2>1. RotatingIn(k)' = RotatingIn(k)
    BY <1>2 DEF RotatingIn, Rotating, Go, QueueIndex
  <2> QED
    BY <1>2, <1>3, <2>1 DEF LayerInv
<1>10. LayerStep(t, "layer", k, s)
  BY <1>1, <1>2, <1>7, <1>8, <1>9 DEF LayerStep, q
<1> QED
  BY <1>3, <1>10, OneLayer DEF Places

\* Who is let into a layer was the first of its queue, and is alone in it.
LEMMA PassLayerLayers ==
  ASSUME PermitsInv, NEW t \in Thread, PassLayer(t)
  PROVE  LayerInv'
<1>1. PICK k \in LayerIndex : /\ CanPass(layer_queue[k], t)
                              /\ layer_queue' = [layer_queue EXCEPT ![k] = Pass(@)]
  BY DEF PassLayer
<1> DEFINE q == layer_queue[k].queue
           s == Pass(layer_queue[k])
<1>2. /\ pc \in [Thread -> Places] /\ LayerInv /\ pc[t] = "layer"
      /\ Go(t, "front") /\ UNCHANGED <<call, previous_side>>
  BY DEF PermitsInv, AxisInv, TypeInv, PassLayer, group
<1>3. layer_queue' = [layer_queue EXCEPT ![k] = s] /\ call[t].op = "rotate"
  BY <1>1, <1>2 DEF LayerInv
<1>4. /\ q \in Seq([who : Thread, permits : {1}]) /\ Len(q) \in Nat /\ Once(q)
      /\ \A i \in 1..Len(q) : q[i].permits = 1 /\ QueueIndex(call[q[i].who]) = k
  BY QueueFacts
<1>5. /\ q # <<>> /\ Head(q).permits = 1 /\ Head(q).who = t
      /\ layer_queue[k].permits - 1 \in Nat /\ s \in Semaphore({1})
      /\ s.permits = layer_queue[k].permits - 1 /\ s.queue = Tail(q)
  BY <1>1, RotatingFinite, PassFacts DEF CanPass
<1> HIDE DEF q, s
<1>6. /\ Len(q) >= 1 /\ q[1].who = t
      /\ Len(Tail(q)) = Len(q) - 1
      /\ \A i \in 1..Len(q) - 1 : Tail(q)[i] = q[i + 1]
  BY <1>4, <1>5, EmptySeq, HeadTailProperties
<1>7. k = QueueIndex(call[t])
  BY <1>4, <1>6
<1>8. Once(s.queue) /\ \A i \in 1..Len(s.queue) :
        s.queue[i].who # t /\ \E j \in 1..Len(q) : s.queue[i].who = q[j].who
  BY <1>4, <1>5, <1>6 DEF Once
<1>9. s.permits + Cardinality(RotatingIn(k)') = 1
  <2>1. layer_queue[k].permits = 1 /\ RotatingIn(k) = {}
    BY <1>2, <1>5, RotatingFinite DEF LayerInv
  <2>2. RotatingIn(k)' = {t}
    BY <1>2, <1>7, <2>1 DEF RotatingIn, Rotating, Go, QueueIndex
  <2>3. s.permits = layer_queue[k].permits - 1
    BY <1>5
  <2>4. s.permits + 1 = 1
    BY <2>1, <2>3
  <2>5. Cardinality({t}) = 1
    BY FS_Singleton
  <2>6. Cardinality(RotatingIn(k)') = 1
    BY <2>2, <2>5, Zenon
  <2> QED
    BY <2>4, <2>6, Zenon
<1>10. LayerStep(t, "front", k, s)
  BY <1>2, <1>3, <1>7, <1>8, <1>9 DEF LayerStep, q
<1> QED
  BY <1>5, <1>10, OneLayer DEF Places

\* Who has rotated a layer gives back the permit of the same layer.
LEMMA ReleaseLayerLayers ==
  ASSUME PermitsInv, NEW t \in Thread, ReleaseLayer(t)
  PROVE  LayerInv'
<1>1. PICK k \in LayerIndex : call[t].op = "rotate" /\ k = QueueIndex(call[t])
  BY IndexInRange DEF ReleaseLayer, Rotating, PermitsInv, LayerInv
<1> DEFINE q == layer_queue[k].queue
           s == Release(layer_queue[k])
<1>2. /\ pc \in [Thread -> Places] /\ LayerInv /\ pc[t] = "done" /\ Rotating(t)
      /\ layer_queue' = [layer_queue EXCEPT ![k] = s]
      /\ Go(t, "leave") /\ UNCHANGED <<call, previous_side>>
  BY <1>1 DEF PermitsInv, AxisInv, TypeInv, ReleaseLayer, group, Rotating
<1>3. /\ s \in Semaphore({1}) /\ s.permits = layer_queue[k].permits + 1
      /\ s.queue = q
  BY RotatingFinite, ReleaseFacts
<1>4. Once(q) /\ \A i \in 1..Len(q) : q[i].who # t
  BY <1>2, QueueFacts
<1>5. s.permits + Cardinality(RotatingIn(k)') = 1
  <2>1. RotatingIn(k)' = RotatingIn(k) \ {t} /\ t \in RotatingIn(k)
    BY <1>1, <1>2 DEF RotatingIn, Rotating, Go, QueueIndex
  <2>2. Cardinality(RotatingIn(k) \ {t}) = Cardinality(RotatingIn(k)) - 1
    BY <2>1, RotatingFinite, FS_RemoveElement
  <2>3. layer_queue[k].permits + Cardinality(RotatingIn(k)) = 1
    BY <1>2 DEF LayerInv
  <2> QED
    BY <1>3, <2>1, <2>2, <2>3, RotatingFinite
<1> HIDE DEF s, q
<1>6. LayerStep(t, "leave", k, s)
  BY <1>1, <1>2, <1>3, <1>4, <1>5 DEF LayerStep, q
<1> QED
  BY <1>3, <1>6, OneLayer DEF Places

\* Who gives up waiting for a layer leaves every queue as it was without it.
LEMMA ThrowLayerLayers ==
  ASSUME PermitsInv, NEW t \in Thread, ThrowLayer(t)
  PROVE  LayerInv'
<1>1. /\ pc \in [Thread -> Places] /\ LayerInv /\ pc[t] \in {"index", "layer"}
      /\ layer_queue' = [k \in LayerIndex |-> GiveUp(layer_queue[k], t)]
      /\ Go(t, "idle") /\ UNCHANGED <<call, previous_side>>
  BY DEF PermitsInv, AxisInv, TypeInv, ThrowLayer, Throw, group
<1>2. \A u \in Thread : QueueIndex(call[u])' = QueueIndex(call[u])
  BY <1>1 DEF QueueIndex
<1>3. \A u \in Thread \ {t} : pc'[u] = pc[u]
  BY <1>1 DEF Go
<1>4. \A k \in LayerIndex : RotatingIn(k)' = RotatingIn(k)
  BY <1>1, <1>2 DEF RotatingIn, Rotating, Go
<1>5. ASSUME NEW k \in LayerIndex
      PROVE  /\ layer_queue'[k] \in Semaphore({1})
             /\ layer_queue'[k].permits = layer_queue[k].permits
             /\ Once(layer_queue[k].queue)' /\ AwaitedBy(layer_queue[k].queue, k)'
  <2> DEFINE q == layer_queue[k].queue
  <2>1. layer_queue[k] \in Semaphore({1}) /\ layer_queue'[k] = GiveUp(layer_queue[k], t)
    BY <1>1 DEF LayerInv
  <2>2. /\ Once(q)
        /\ \A j \in 1..Len(q) : /\ q[j].who \in Thread /\ pc[q[j].who] = "layer"
                                /\ QueueIndex(call[q[j].who]) = k
    BY QueueFacts
  <2>3. PICK s \in Semaphore({1}) :
          /\ layer_queue'[k] = s
          /\ s.permits = layer_queue[k].permits
          /\ Once(s.queue)
          /\ \A i \in 1..Len(s.queue) :
               s.queue[i].who # t /\ \E j \in 1..Len(q) : s.queue[i] = q[j]
    BY <2>1, <2>2, GiveUpFacts
  <2> HIDE DEF q
  <2>4. \A i \in 1..Len(s.queue) :
          pc'[s.queue[i].who] = "layer" /\ QueueIndex(call[s.queue[i].who])' = k
    BY <1>2, <1>3, <2>2, <2>3
  <2>5. Once(layer_queue[k].queue)' /\ AwaitedBy(layer_queue[k].queue, k)'
    BY <2>3, <2>4 DEF Once, AwaitedBy
  <2> QED
    BY <2>3, <2>5
<1>6. layer_queue' \in [LayerIndex -> Semaphore({1})]
  BY <1>1, <1>5
<1>7. \A k \in LayerIndex :
        /\ Once(layer_queue[k].queue)' /\ AwaitedBy(layer_queue[k].queue, k)'
        /\ layer_queue'[k].permits + Cardinality(RotatingIn(k)') = 1
  BY <1>1, <1>4, <1>5 DEF LayerInv
<1>8. \A u \in Thread :
        pc'[u] \in {"index", "layer"} \/ Rotating(u)' => call'[u].op = "rotate"
  BY <1>1, <1>3 DEF LayerInv, Rotating, Go
<1> QED
  BY <1>6, <1>7, <1>8 DEF LayerInv

\* The axis changes when nobody waits for a layer or rotates one.
LEMMA PassGuardianLayers ==
  ASSUME PermitsInv, NEW t \in Thread, PassGuardian(t)
  PROVE  LayerInv'
<1>1. /\ pc \in [Thread -> Places] /\ LayerInv /\ pc[t] = "guardian"
      /\ Go(t, Inside(t)) /\ UNCHANGED <<call, layer_queue>>
  BY DEF PermitsInv, AxisInv, TypeInv, PassGuardian, data
<1>2. Inside(t) \in {"show", "index"}
      /\ (Inside(t) = "index" => call[t].op = "rotate")
  <2>1. call[t] \in {Rotation(s, k) : s \in Side, k \in LayerIndex} \cup {Show}
    BY CallsAssumption DEF PermitsInv, AxisInv, TypeInv
  <2> QED
    BY <2>1 DEF Inside, Rotation, Show
<1>3. \A u \in Thread : ~Admitted(u)
  BY AllHaveLeft DEF PermitsInv, Group
<1>4. \A u \in Thread : pc'[u] # "layer" /\ ~Rotating(u)'
  BY <1>1, <1>2, <1>3 DEF Admitted, Rotating, Go
<1>5. \A k \in LayerIndex : RotatingIn(k)' = {} /\ RotatingIn(k) = {}
  BY <1>3, <1>4 DEF RotatingIn, Admitted
<1>6. \A k \in LayerIndex : AwaitedBy(layer_queue[k].queue, k)'
  BY <1>1, <1>3, StillAwaited DEF Admitted
<1>7. \A u \in Thread :
        pc'[u] \in {"index", "layer"} \/ Rotating(u)' => call'[u].op = "rotate"
  BY <1>1, <1>2, <1>3, <1>4 DEF Admitted, Go
<1> QED
  BY <1>1, <1>5, <1>6, <1>7 DEF LayerInv, Once

\* A step in which nobody moves.
LEMMA StillLayers ==
  ASSUME PermitsInv, UNCHANGED <<pc, call, layer_queue, previous_side>>
  PROVE  LayerInv'
<1>1. \A u \in Thread : QueueIndex(call[u])' = QueueIndex(call[u])
  BY DEF QueueIndex
<1>2. \A k \in LayerIndex : RotatingIn(k)' = RotatingIn(k)
  BY <1>1 DEF RotatingIn, Rotating
<1>3. \A k \in LayerIndex : AwaitedBy(layer_queue[k].queue, k)'
  BY <1>1, StillAwaited
<1> QED
  BY <1>2, <1>3 DEF PermitsInv, LayerInv, Once, Rotating

LEMMA PermitsInit == CubeInit => PermitsInv
<1> SUFFICES ASSUME CubeInit PROVE PermitsInv
  OBVIOUS
<1>1. /\ NewSemaphore(1) \in Semaphore({1})
      /\ NewSemaphore(1).permits = 1 /\ NewSemaphore(1).queue = <<>>
  BY DEF NewSemaphore, Semaphore
<1>2. \A k \in LayerIndex : layer_queue[k] = NewSemaphore(1)
  BY DEF CubeInit
<1>3. \A k \in LayerIndex : RotatingIn(k) = {}
  BY DEF CubeInit, RotatingIn, Rotating
<1>4. \A k \in LayerIndex : Once(layer_queue[k].queue) /\ AwaitedBy(layer_queue[k].queue, k)
  BY <1>1, <1>2 DEF Once, AwaitedBy
<1>5. \A k \in LayerIndex :
        layer_queue[k].permits = 1 /\ Cardinality(RotatingIn(k)) = 0
  BY <1>1, <1>2, <1>3, FS_EmptySet
<1>6. LayerInv
  BY <1>1, <1>4, <1>5 DEF CubeInit, LayerInv, Rotating
<1> QED
  BY <1>6, AxisInit DEF PermitsInv

LEMMA NextPermits ==
  ASSUME "mutex" \notin Interruptible, PermitsInv, [CubeNext]_vars
  PROVE  PermitsInv'
<1>1. AxisInv'
  BY NextAxis DEF PermitsInv
<1>2. pc \in [Thread -> Places] /\ call \in [Thread -> Calls \cup {Show}]
  BY DEF PermitsInv, AxisInv, TypeInv
<1>3. ASSUME NEW t \in Thread, NEW c \in Calls, Call(t, c) PROVE LayerInv'
  <2>1. /\ pc[t] = "idle" /\ Go(t, "mutex") /\ call' = [call EXCEPT ![t] = c]
        /\ UNCHANGED <<layer_queue, previous_side>>
    BY <1>3 DEF Call, group
  <2> QED
    BY <1>2, <2>1, OutsideLayers DEF Places, Rotating
<1>4. ASSUME NEW t \in Thread, pc[t] \in {"idle", "mutex", "guardian", "leave", "show"},
             Go(t, "idle"), UNCHANGED <<call, layer_queue, previous_side>>
      PROVE  LayerInv'
  BY <1>4, OutsideLayers DEF Places, Rotating
<1>5. ASSUME NEW t \in Thread, PassMutex(t) PROVE LayerInv'
  <2>1. CASE JoinGroup(t)
    <3>1. /\ pc[t] = "mutex" /\ Go(t, Inside(t))
          /\ UNCHANGED <<call, layer_queue, previous_side>>
      BY <1>5, <2>1 DEF PassMutex, JoinGroup
    <3>2. Inside(t) \in {"show", "index"}
          /\ (Inside(t) = "index" => call[t].op = "rotate")
      <4>1. call[t] \in {Rotation(s, k) : s \in Side, k \in LayerIndex} \cup {Show}
        BY <1>2, CallsAssumption
      <4> QED
        BY <4>1 DEF Inside, Rotation, Show
    <3> QED
      BY <3>1, <3>2, OutsideLayers DEF Places, Rotating
  <2>2. CASE StartGroup(t)
    <3>1. /\ pc[t] = "mutex" /\ Go(t, "guardian")
          /\ UNCHANGED <<call, layer_queue, previous_side>>
      BY <1>5, <2>2 DEF PassMutex, StartGroup, group
    <3> QED
      BY <3>1, OutsideLayers DEF Places, Rotating
  <2>3. CASE RefuseGroup(t)
    BY <1>4, <1>5, <2>3 DEF PassMutex, RefuseGroup, Throw, group
  <2> QED
    BY <1>5, <2>1, <2>2, <2>3 DEF PassMutex
<1>6. ASSUME NEW t \in Thread,
             ThrowMutex(t) \/ ThrowGuardian(t) \/ Leave(t) \/ Handle(t)
      PROVE  LayerInv'
  BY <1>4, <1>6 DEF ThrowMutex, ThrowGuardian, Leave, Handle, Throw, group, semaphores
<1>7. ASSUME NEW t \in Thread, perform_rotate(t) PROVE LayerInv'
  <2>1. Rotating(t) /\ \E to \in {"back", "strips", "done"} : Go(t, to)
    BY <1>7 DEF perform_rotate, Part, Rotating
  <2>2. UNCHANGED <<call, layer_queue, previous_side>>
    BY <1>7 DEF perform_rotate, Part, semaphores, group
  <2> QED
    BY <2>1, <2>2, RotateLayers
<1>8. ASSUME NEW t \in Thread, perform_show(t) \/ Interrupt(t) PROVE LayerInv'
  BY <1>8, StillLayers DEF perform_show, Interrupt, semaphores, group
<1>9. ASSUME UNCHANGED vars PROVE LayerInv'
  <2>1. UNCHANGED <<pc, call, layer_queue, previous_side>>
    BY <1>9 DEF vars, semaphores, group
  <2> QED
    BY <2>1, StillLayers
<1>10. LayerInv'
  <2>1. ASSUME NEW t \in Thread, Proceed(t) PROVE LayerInv'
    BY <1>5, <1>6, <1>7, <1>8, <2>1, PassGuardianLayers, JoinLayerLayers,
       ThrowLayerLayers, ReleaseLayerLayers DEF Proceed
  <2>2. ASSUME NEW t \in Thread, Disturb(t) PROVE LayerInv'
    BY <1>3, <1>8, <2>2 DEF Disturb
  <2> QED
    BY <1>9, <2>1, <2>2, PassLayerLayers DEF CubeNext
<1> QED
  BY <1>1, <1>10 DEF PermitsInv

\* The permits are those of the invariant.
LEMMA PermitsMeans == PermitsInv => PermitsAccounted
<1> SUFFICES ASSUME PermitsInv PROVE PermitsAccounted
  OBVIOUS
<1>1. guardian.permits + Cardinality({t \in Thread : Admitted(t)})
        = rotating_previous_axis
  BY DEF PermitsInv, AxisInv, CountInv, Group
<1>2. ASSUME NEW k \in LayerIndex
      PROVE  layer_queue[k].permits = 1 - Cardinality(RotatingIn(k))
  BY RotatingFinite DEF PermitsInv, LayerInv
<1> QED
  BY <1>1, <1>2 DEF PermitsAccounted, RotatingIn

\* guardian has one permit for each thread of the group that has left or given
\* up, and a layer has its permit exactly when nobody rotates it, for any number
\* of threads and any size: what acquire and release in rotate and show keep.
THEOREM PermitsKept ==
  ASSUME "mutex" \notin Interruptible
  PROVE  CubeSpec => []PermitsAccounted
<1>1. PermitsInv /\ [CubeNext]_vars => PermitsInv'
  BY NextPermits
<1> QED
  BY <1>1, PermitsInit, PermitsMeans, PTL DEF CubeSpec

-----------------------------------------------------------------------------
(***************************************************************************)
(* The squares.  LayerOf(s, q) is the layer of side s that a square lies   *)
(* in, the inverse of the tables of Cube.java.                             *)
(***************************************************************************)
BelowTop(q) ==
  CASE q[1] = TOP -> 0 [] q[1] = BOTTOM -> size - 1 [] OTHER -> q[2]

FromLeft(q) ==
  CASE q[1] = LEFT -> 0 [] q[1] = RIGHT -> size - 1
    [] q[1] = BACK -> size - 1 - q[3] [] OTHER -> q[3]

BehindFront(q) ==
  CASE q[1] = FRONT -> 0 [] q[1] = BACK -> size - 1
    [] q[1] = TOP -> size - 1 - q[2] [] q[1] = BOTTOM -> q[2]
    [] q[1] = LEFT -> size - 1 - q[3] [] OTHER -> q[3]

LayerOf(s, q) ==
  CASE s = TOP   -> BelowTop(q)    [] s = BOTTOM -> size - 1 - BelowTop(q)
    [] s = LEFT  -> FromLeft(q)    [] s = RIGHT  -> size - 1 - FromLeft(q)
    [] s = FRONT -> BehindFront(q) [] OTHER      -> size - 1 - BehindFront(q)

\* The sides are named by their numbers, and the tables looked up.
LEMMA OppositeLayers ==
  ASSUME NEW s \in Side, NEW q \in Square
  PROVE  /\ LayerOf(s, q) \in LayerIndex
         /\ LayerOf(Opposite(s), q) = size - 1 - LayerOf(s, q)
<1> USE SizeAssumption
    DEF Side, Square, LayerIndex, TOP, LEFT, FRONT, RIGHT, BACK, BOTTOM
<1>1. /\ BelowTop(q) \in LayerIndex
      /\ FromLeft(q) \in LayerIndex
      /\ BehindFront(q) \in LayerIndex
  BY DEF BelowTop, FromLeft, BehindFront
<1>2. /\ Opposite(0) = 5 /\ Opposite(5) = 0
      /\ Opposite(1) = 3 /\ Opposite(3) = 1
      /\ Opposite(2) = 4 /\ Opposite(4) = 2
  BY DEF Opposite, correlations, Neighbours
<1>3. s \in {0, 1, 2, 3, 4, 5}
  OBVIOUS
<1> QED
  BY <1>1, <1>2, <1>3 DEF LayerOf

\* The pieces that get_layer_pieces finds on the four sides around s lie in the
\* layer that was asked for.
LEMMA PiecesInLayer ==
  ASSUME NEW s \in Side, NEW k \in LayerIndex,
         NEW dir \in {LEFT, TOP, RIGHT, BOTTOM}, NEW i \in 1..size
  PROVE  LET q == get_layer_pieces(s, k, dir)[i]
         IN  q \in Square /\ LayerOf(s, q) = k
<1> DEFINE q == get_layer_pieces(s, k, dir)[i]
           line == IF dir \in Mirrored(s) THEN size - k - 1 ELSE k
           place == IF dir \in InOrder(s) THEN i - 1 ELSE size - i
<1>1. q = IF Vertical(s, dir) THEN <<correlations(s, dir), place, line>>
          ELSE <<correlations(s, dir), line, place>>
  BY DEF get_layer_pieces
<1>2. place \in LayerIndex /\ line \in LayerIndex
  BY SizeAssumption DEF LayerIndex
<1> SUFFICES q \in Square /\ LayerOf(s, q) = k
  OBVIOUS
<1> HIDE DEF q, place
<1> USE SizeAssumption
    DEF Side, Square, LayerIndex, TOP, LEFT, FRONT, RIGHT, BACK, BOTTOM
<1>3. CASE s = TOP
  <2>1. /\ correlations(s, TOP) = BACK /\ correlations(s, LEFT) = LEFT
        /\ correlations(s, RIGHT) = RIGHT /\ correlations(s, BOTTOM) = FRONT
    BY <1>3 DEF correlations, Neighbours
  <2> QED
    BY <1>1, <1>2, <1>3, <2>1 DEF Mirrored, Vertical, LayerOf, BelowTop
<1>4. CASE s = BOTTOM
  <2>1. /\ correlations(s, TOP) = FRONT /\ correlations(s, LEFT) = LEFT
        /\ correlations(s, RIGHT) = RIGHT /\ correlations(s, BOTTOM) = BACK
    BY <1>4 DEF correlations, Neighbours
  <2> QED
    BY <1>1, <1>2, <1>4, <2>1 DEF Mirrored, Vertical, LayerOf, BelowTop
<1>5. CASE s = LEFT
  <2>1. /\ correlations(s, TOP) = TOP /\ correlations(s, LEFT) = BACK
        /\ correlations(s, RIGHT) = FRONT /\ correlations(s, BOTTOM) = BOTTOM
    BY <1>5 DEF correlations, Neighbours
  <2> QED
    BY <1>1, <1>2, <1>5, <2>1 DEF Mirrored, Vertical, LayerOf, FromLeft
<1>6. CASE s = RIGHT
  <2>1. /\ correlations(s, TOP) = TOP /\ correlations(s, LEFT) = FRONT
        /\ correlations(s, RIGHT) = BACK /\ correlations(s, BOTTOM) = BOTTOM
    BY <1>6 DEF correlations, Neighbours
  <2> QED
    BY <1>1, <1>2, <1>6, <2>1 DEF Mirrored, Vertical, LayerOf, FromLeft
<1>7. CASE s = FRONT
  <2>1. /\ correlations(s, TOP) = TOP /\ correlations(s, LEFT) = LEFT
        /\ correlations(s, RIGHT) = RIGHT /\ correlations(s, BOTTOM) = BOTTOM
    BY <1>7 DEF correlations, Neighbours
  <2> QED
    BY <1>1, <1>2, <1>7, <2>1 DEF Mirrored, Vertical, LayerOf, BehindFront
<1>8. CASE s = BACK
  <2>1. /\ correlations(s, TOP) = TOP /\ correlations(s, LEFT) = RIGHT
        /\ correlations(s, RIGHT) = LEFT /\ correlations(s, BOTTOM) = BOTTOM
    BY <1>8 DEF correlations, Neighbours
  <2> QED
    BY <1>1, <1>2, <1>8, <2>1 DEF Mirrored, Vertical, LayerOf, BehindFront
<1>9. s \in {TOP, BOTTOM, LEFT, RIGHT, FRONT, BACK}
  OBVIOUS
<1> QED
  BY <1>3, <1>4, <1>5, <1>6, <1>7, <1>8, <1>9

\* So do all squares that a rotation touches, those of its outer sides too.
LEMMA TouchedInLayer ==
  ASSUME NEW s \in Side, NEW k \in LayerIndex, NEW q, q \in Touched(s, k)
  PROVE  q \in Square /\ LayerOf(s, q) = k
<1>1. \/ \E dir \in {LEFT, TOP, RIGHT, BOTTOM}, i \in 1..size :
              q = get_layer_pieces(s, k, dir)[i]
      \/ /\ q \in Square
         /\ \/ k = 0 /\ q[1] = correlations(s, FRONT)
            \/ k = size - 1 /\ q[1] = correlations(s, BACK)
  BY DEF Touched
<1>2. CASE \E dir \in {LEFT, TOP, RIGHT, BOTTOM}, i \in 1..size :
             q = get_layer_pieces(s, k, dir)[i]
  BY <1>2, PiecesInLayer
<1>3. CASE /\ q \in Square
           /\ \/ k = 0 /\ q[1] = correlations(s, FRONT)
              \/ k = size - 1 /\ q[1] = correlations(s, BACK)
  <2>1. /\ q \in Square
        /\ \/ q[1] = s /\ k = 0
           \/ q[1] = Opposite(s) /\ k = size - 1
    <3>1. s \in {0, 1, 2, 3, 4, 5}
      BY DEF Side
    <3>2. correlations(s, FRONT) = s
      <4>1. /\ s = 0 => correlations(s, FRONT) = s
            /\ s = 1 => correlations(s, FRONT) = s
            /\ s = 2 => correlations(s, FRONT) = s
            /\ s = 3 => correlations(s, FRONT) = s
            /\ s = 4 => correlations(s, FRONT) = s
            /\ s = 5 => correlations(s, FRONT) = s
        BY DEF correlations, Neighbours, FRONT
      <4> QED
        BY <3>1, <4>1
    <3> QED
      BY <1>3, <3>2 DEF Opposite
  <2> USE SizeAssumption
      DEF Side, Square, LayerIndex, TOP, LEFT, FRONT, RIGHT, BACK, BOTTOM
  <2>2. /\ Opposite(0) = 5 /\ Opposite(5) = 0
        /\ Opposite(1) = 3 /\ Opposite(3) = 1
        /\ Opposite(2) = 4 /\ Opposite(4) = 2
    BY DEF Opposite, correlations, Neighbours
  <2>3. s \in {0, 1, 2, 3, 4, 5}
    OBVIOUS
  <2> QED
    BY <2>1, <2>2, <2>3 DEF LayerOf, BelowTop, FromLeft, BehindFront
<1> QED
  BY <1>1, <1>2, <1>3

\* A square in two rotations would be in one layer, counted from the side of
\* the group, and two threads would have the permit of that layer.
LEMMA SquaresMean == PermitsInv => DisjointSquares
<1> SUFFICES ASSUME PermitsInv, NEW t \in Thread, NEW u \in Thread, t # u,
                    Rotating(t), Rotating(u),
                    NEW q \in Touched(call[t].side, call[t].layer),
                    q \in Touched(call[u].side, call[u].layer)
             PROVE  FALSE
  BY DEF DisjointSquares
<1> DEFINE k == LayerOf(previous_side, q)
<1>1. ASSUME NEW v \in Thread, Rotating(v), q \in Touched(call[v].side, call[v].layer)
      PROVE  k \in LayerIndex /\ QueueIndex(call[v]) = k
  <2> DEFINE s == call[v].side
  <2>1. call[v].op = "rotate" /\ s \in Side /\ call[v].layer \in LayerIndex
    <3>1. call[v].op = "rotate"
      BY <1>1 DEF PermitsInv, LayerInv
    <3>2. call[v] \in {Rotation(x, y) : x \in Side, y \in LayerIndex}
      BY <3>1, CallsAssumption DEF PermitsInv, AxisInv, TypeInv, Show
    <3> QED
      BY <3>1, <3>2 DEF Rotation
  <2>2. q \in Square /\ LayerOf(s, q) = call[v].layer
    BY <1>1, <2>1, TouchedInLayer
  <2>3. previous_side = s \/ previous_side = Opposite(s)
    BY <1>1, <2>1 DEF PermitsInv, AxisInv, GroupInv, Admitted, OtherGroup
  <2>4. LayerOf(Opposite(s), q) = size - 1 - call[v].layer /\ Opposite(s) \in Side
    BY <2>1, <2>2, OppositeLayers, OppositeSides
  <2> HIDE DEF s
  <2>5. k \in LayerIndex
    BY <2>1, <2>2, <2>3, <2>4, OppositeLayers DEF s
  <2>6. CASE previous_side = s
    BY <2>2, <2>5, <2>6 DEF QueueIndex, s
  <2>7. CASE previous_side # s
    BY <2>1, <2>3, <2>4, <2>5, <2>7, SizeAssumption DEF QueueIndex, LayerIndex, s
  <2> QED
    BY <2>5, <2>6, <2>7
<1>2. k \in LayerIndex /\ t \in RotatingIn(k) /\ u \in RotatingIn(k)
  BY <1>1 DEF RotatingIn
<1> HIDE DEF k
<1>3. Cardinality(RotatingIn(k)) <= 1
  BY <1>2, RotatingFinite DEF PermitsInv, LayerInv
<1>4. IsFiniteSet(RotatingIn(k)) /\ {t, u} \subseteq RotatingIn(k)
  BY <1>2, RotatingFinite
<1>5. Cardinality({t, u}) <= Cardinality(RotatingIn(k))
  BY <1>4, FS_Subset
<1>6. Cardinality({t, u}) = 2
  <2>1. IsFiniteSet({t}) /\ Cardinality({t}) = 1 /\ u \notin {t}
    BY FS_Singleton
  <2>2. Cardinality({t} \cup {u}) = Cardinality({t}) + 1
    BY <2>1, FS_AddElement, Zenon
  <2>3. {t, u} = {t} \cup {u}
    OBVIOUS
  <2> QED
    BY <2>1, <2>2, <2>3
<1>7. Cardinality(RotatingIn(k)) \in Nat
  BY <1>2, RotatingFinite
<1> QED
  BY <1>3, <1>5, <1>6, <1>7

\* The pieces that two rotating threads read and write are different ones, for
\* any number of threads and any size: perform_rotate needs no lock of its own.
THEOREM SquaresApart ==
  ASSUME "mutex" \notin Interruptible
  PROVE  CubeSpec => []DisjointSquares
<1>1. PermitsInv /\ [CubeNext]_vars => PermitsInv'
  BY NextPermits
<1> QED
  BY <1>1, PermitsInit, SquaresMean, PTL DEF CubeSpec

-----------------------------------------------------------------------------
(***************************************************************************)
(* Folds.  What a loop does is proved by induction on the steps it has     *)
(* done.                                                                   *)
(***************************************************************************)
\* Induction on the natural numbers, for a set of them.
Less == {ss \in Nat \X Nat : ss[1] < ss[2]}

LEMMA LessWellFounded == IsWellFoundedOn(Less, Nat)
BY NatLessThanWellFounded DEF OpToRel, Less

LEMMA SetInduction ==
  ASSUME NEW S, 0 \in S, \A n \in Nat : n \in S => n + 1 \in S
  PROVE  Nat \subseteq S
<1> DEFINE T == Nat \ S
<1> SUFFICES ASSUME T # {} PROVE FALSE
  OBVIOUS
<1>1. PICK x \in T : \A y \in T : <<y, x>> \notin Less
  <2>1. T \subseteq Nat
    OBVIOUS
  <2> HIDE DEF T
  <2> QED
    BY <2>1, WFMin, LessWellFounded
<1>2. x # 0 /\ x - 1 \in Nat
  OBVIOUS
<1>3. <<x - 1, x>> \in Less
  BY <1>2 DEF Less
<1>4. x - 1 \in S
  BY <1>1, <1>2, <1>3
<1>5. x - 1 + 1 \in S
  BY <1>2, <1>4
<1> QED
  BY <1>2, <1>5

-----------------------------------------------------------------------------
\* FoldLeft is defined by a function on the sets of positions, that takes away
\* the last position of a set first.
Iterated(f, s, base, quads) ==
  IF s = {} THEN base ELSE rotate_pieces(f[s \ {Max(s)}], quads[Max(s)])

IsFold(f, S, base, quads) == f = [s \in SUBSET S |-> Iterated(f, s, base, quads)]

LEMMA LastOf ==
  ASSUME NEW n \in Nat
  PROVE  /\ \A s \in SUBSET (1..n + 1) : n + 1 \in s => Max(s) = n + 1
         /\ \A s \in SUBSET (1..n) : s \ {Max(s)} \in SUBSET (1..n)
         /\ \A s \in SUBSET (1..n + 1) : n + 1 \in s => s \ {Max(s)} \in SUBSET (1..n)
         /\ \A s \in SUBSET (1..n + 1) : n + 1 \notin s => s \in SUBSET (1..n)
<1>1. ASSUME NEW s \in SUBSET (1..n + 1), n + 1 \in s PROVE Max(s) = n + 1
  <2>1. \A x \in s : (\A y \in s : x >= y) <=> x = n + 1
    BY <1>1
  <2> QED
    BY <1>1, <2>1 DEF Max
<1>2. ASSUME NEW s \in SUBSET (1..n + 1), n + 1 \in s
      PROVE  s \ {Max(s)} \in SUBSET (1..n)
  <2>1. s \ {n + 1} \in SUBSET (1..n)
    OBVIOUS
  <2> QED
    BY <1>1, <1>2, <2>1
<1>3. \A s \in SUBSET (1..n + 1) : n + 1 \notin s => s \in SUBSET (1..n)
  OBVIOUS
<1>4. \A s \in SUBSET (1..n) : s \ {Max(s)} \in SUBSET (1..n)
  OBVIOUS
<1> QED
  BY <1>1, <1>2, <1>3, <1>4

\* There is such a function for the positions up to any n.
LEMMA FoldExists ==
  ASSUME NEW base, NEW quads, NEW m \in Nat
  PROVE  \E f : IsFold(f, 1..m, base, quads)
<1> DEFINE S == {n \in Nat : \E f : IsFold(f, 1..n, base, quads)}
<1>1. 0 \in S
  <2> DEFINE f == [s \in SUBSET (1..0) |-> base]
  <2>1. \A s \in SUBSET (1..0) : s = {}
    OBVIOUS
  <2>2. IsFold(f, 1..0, base, quads)
    BY <2>1 DEF IsFold, Iterated
  <2> QED
    BY <2>2
<1>2. ASSUME NEW n \in Nat, n \in S PROVE n + 1 \in S
  <2>1. PICK g : IsFold(g, 1..n, base, quads)
    BY <1>2
  <2> DEFINE f == [s \in SUBSET (1..n + 1) |->
                     IF n + 1 \in s THEN rotate_pieces(g[s \ {n + 1}], quads[n + 1])
                     ELSE g[s]]
  <2>2. \A s \in SUBSET (1..n) : f[s] = g[s] /\ g[s] = Iterated(g, s, base, quads)
    <3>1. \A s \in SUBSET (1..n) : n + 1 \notin s /\ s \in SUBSET (1..n + 1)
      OBVIOUS
    <3>2. \A s \in SUBSET (1..n) : g[s] = Iterated(g, s, base, quads)
      BY <2>1 DEF IsFold
    <3> QED
      BY <3>1, <3>2
  <2>3. ASSUME NEW s \in SUBSET (1..n + 1) PROVE f[s] = Iterated(f, s, base, quads)
    <3>1. CASE n + 1 \in s
      <4>1. Max(s) = n + 1 /\ s \ {n + 1} \in SUBSET (1..n) /\ s # {}
        BY <3>1, LastOf
      <4>2. f[s \ {n + 1}] = g[s \ {n + 1}]
        BY <2>2, <4>1
      <4>3. f[s] = rotate_pieces(g[s \ {n + 1}], quads[n + 1])
        BY <3>1
      <4> HIDE DEF f
      <4> QED
        BY <4>1, <4>2, <4>3 DEF Iterated
    <3>2. CASE n + 1 \notin s
      <4>1. s \in SUBSET (1..n) /\ s \ {Max(s)} \in SUBSET (1..n)
        BY <3>2, LastOf
      <4>2. f[s] = g[s] /\ g[s] = Iterated(g, s, base, quads)
        BY <2>2, <4>1
      <4>3. f[s \ {Max(s)}] = g[s \ {Max(s)}]
        BY <2>2, <4>1
      <4> HIDE DEF f
      <4> QED
        BY <4>2, <4>3 DEF Iterated
    <3> QED
      BY <3>1, <3>2
  <2>4. IsFold(f, 1..n + 1, base, quads)
    <3>1. f = [s \in SUBSET (1..n + 1) |-> f[s]]
      OBVIOUS
    <3> HIDE DEF f
    <3> QED
      BY <2>3, <3>1 DEF IsFold
  <2> QED
    BY <2>4
<1> HIDE DEF S
<1>3. Nat \subseteq S
  BY <1>1, <1>2, SetInduction
<1> QED
  BY <1>3 DEF S

RotateAll(base, quads) == FoldLeft(rotate_pieces, base, quads)

\* So FoldLeft takes the quads one by one from the first to the last.
LEMMA FoldSteps ==
  ASSUME NEW base, NEW quads, NEW n \in Nat, DOMAIN quads = 1..n
  PROVE  \E f : /\ RotateAll(base, quads) = f[n]
                /\ f[0] = base
                /\ \A i \in 1..n : f[i] = rotate_pieces(f[i - 1], quads[i])
<1> DEFINE g == CHOOSE h : IsFold(h, 1..n, base, quads)
           f == [i \in 0..n |-> g[1..i]]
<1>1. FoldLeft(rotate_pieces, base, quads)
        = (CHOOSE h : h = [s \in SUBSET DOMAIN quads |-> Iterated(h, s, base, quads)])
            [DOMAIN quads]
  BY DEF FoldLeft, MapThenFoldSet, Iterated
<1>2. FoldLeft(rotate_pieces, base, quads) = g[1..n]
  BY <1>1, Zenon DEF IsFold
<1>3. IsFold(g, 1..n, base, quads)
  BY FoldExists
<1> HIDE DEF g
<1>4. \A s \in SUBSET (1..n) : g[s] = Iterated(g, s, base, quads)
  BY <1>3 DEF IsFold
<1>5. f[0] = base
  <2>1. 1..0 = {} /\ 0 \in 0..n
    OBVIOUS
  <2> QED
    BY <1>4, <2>1 DEF Iterated
<1>6. ASSUME NEW i \in 1..n PROVE f[i] = rotate_pieces(f[i - 1], quads[i])
  <2>1. 1..i \in SUBSET (1..n) /\ 1..i # {} /\ i \in 0..n /\ i - 1 \in 0..n
    OBVIOUS
  <2>2. Max(1..i) = i
    <3>1. i - 1 \in Nat /\ i - 1 + 1 = i /\ i \in 1..i /\ 1..i \in SUBSET (1..(i - 1) + 1)
      OBVIOUS
    <3>2. \A s \in SUBSET (1..(i - 1) + 1) : (i - 1) + 1 \in s => Max(s) = (i - 1) + 1
      BY <3>1, LastOf
    <3> QED
      BY <3>1, <3>2
  <2>3. (1..i) \ {i} = 1..(i - 1)
    OBVIOUS
  <2>4. g[1..i] = rotate_pieces(g[1..(i - 1)], quads[i])
    BY <1>4, <2>1, <2>2, <2>3 DEF Iterated
  <2> QED
    BY <2>1, <2>4
<1>7. RotateAll(base, quads) = f[n]
  BY <1>2 DEF RotateAll
<1> HIDE DEF f
<1> QED
  BY <1>5, <1>6, <1>7

-----------------------------------------------------------------------------
\* No square is in two of the quads, or twice in one.
Apart(quads) ==
  \A i, j \in DOMAIN quads, a, b \in 1..4 :
    quads[i][a] = quads[j][b] => i = j /\ a = b

\* Where rotate_pieces gets the colour of a piece from.
Before(a) == IF a = 1 THEN 4 ELSE a - 1

\* The first n quads have been rotated, each once.
Rotated(colours, base, quads, n) ==
  /\ colours \in [Square -> Square]
  /\ \A i \in 1..n, a \in 1..4 : colours[quads[i][a]] = base[quads[i][Before(a)]]
  /\ \A q \in Square :
       (\A i \in 1..n, a \in 1..4 : quads[i][a] # q) => colours[q] = base[q]

LEMMA RotateOne ==
  ASSUME NEW colours \in [Square -> Square], NEW p,
         \A a \in 1..4 : p[a] \in Square,
         \A a, b \in 1..4 : p[a] = p[b] => a = b
  PROVE  /\ rotate_pieces(colours, p) \in [Square -> Square]
         /\ \A a \in 1..4 : rotate_pieces(colours, p)[p[a]] = colours[p[Before(a)]]
         /\ \A q \in Square :
              (\A a \in 1..4 : p[a] # q) => rotate_pieces(colours, p)[q] = colours[q]
<1>1. /\ p[1] \in Square /\ p[2] \in Square /\ p[3] \in Square /\ p[4] \in Square
      /\ p[1] # p[2] /\ p[1] # p[3] /\ p[1] # p[4]
      /\ p[2] # p[3] /\ p[2] # p[4] /\ p[3] # p[4]
  BY 1 \in 1..4, 2 \in 1..4, 3 \in 1..4, 4 \in 1..4
<1> DEFINE r == rotate_pieces(colours, p)
<1>2. /\ r \in [Square -> Square]
      /\ r[p[1]] = colours[p[4]] /\ r[p[2]] = colours[p[1]]
      /\ r[p[3]] = colours[p[2]] /\ r[p[4]] = colours[p[3]]
      /\ \A q \in Square : q \notin {p[1], p[2], p[3], p[4]} => r[q] = colours[q]
  BY <1>1 DEF rotate_pieces
<1> HIDE DEF r
<1>3. Before(1) = 4 /\ Before(2) = 1 /\ Before(3) = 2 /\ Before(4) = 3
  BY DEF Before
<1>4. \A a \in 1..4 : a = 1 \/ a = 2 \/ a = 3 \/ a = 4
  OBVIOUS
<1>5. \A a \in 1..4 : r[p[a]] = colours[p[Before(a)]]
  BY <1>2, <1>3, <1>4
<1>6. \A q \in Square : (\A a \in 1..4 : p[a] # q) => r[q] = colours[q]
  BY <1>2
<1> QED
  BY <1>2, <1>5, <1>6 DEF r

\* What the loops of perform_rotate do to the squares: whatever their order,
\* each square of each quad gets what the one before it in the quad had.
LEMMA FoldRotates ==
  ASSUME NEW base \in [Square -> Square], NEW quads, NEW n \in Nat,
         DOMAIN quads = 1..n, Apart(quads),
         \A i \in 1..n, a \in 1..4 : quads[i][a] \in Square
  PROVE  Rotated(RotateAll(base, quads), base, quads, n)
<1>1. PICK f : /\ RotateAll(base, quads) = f[n]
               /\ f[0] = base
               /\ \A i \in 1..n : f[i] = rotate_pieces(f[i - 1], quads[i])
  BY FoldSteps
<1> DEFINE S == {i \in Nat : i <= n => Rotated(f[i], base, quads, i)}
<1>2. 0 \in S
  BY <1>1 DEF Rotated
<1>3. ASSUME NEW i \in Nat, i \in S PROVE i + 1 \in S
  <2> SUFFICES ASSUME i + 1 <= n PROVE Rotated(f[i + 1], base, quads, i + 1)
    OBVIOUS
  <2> DEFINE p == quads[i + 1]
  <2>1. Rotated(f[i], base, quads, i) /\ i + 1 \in 1..n
    BY <1>3
  <2>2. f[i + 1] = rotate_pieces(f[i], p)
    BY <1>1, <2>1
  <2>3. /\ \A a \in 1..4 : p[a] \in Square
        /\ \A a, b \in 1..4 : p[a] = p[b] => a = b
        /\ \A j \in 1..i, a, b \in 1..4 : quads[j][b] # p[a]
    BY <2>1 DEF Apart
  <2>4. f[i] \in [Square -> Square]
    BY <2>1 DEF Rotated
  <2> HIDE DEF p
  <2>5. /\ f[i + 1] \in [Square -> Square]
        /\ \A a \in 1..4 : f[i + 1][p[a]] = f[i][p[Before(a)]]
        /\ \A q \in Square : (\A a \in 1..4 : p[a] # q) => f[i + 1][q] = f[i][q]
    BY <2>2, <2>3, <2>4, RotateOne
  <2>6. \A a \in 1..4 : Before(a) \in 1..4
    BY DEF Before
  <2>7. \A a \in 1..4 : f[i][p[a]] = base[p[a]]
    BY <2>1, <2>3 DEF Rotated
  <2>8. ASSUME NEW j \in 1..(i + 1), NEW a \in 1..4
        PROVE  f[i + 1][quads[j][a]] = base[quads[j][Before(a)]]
    <3>1. CASE j = i + 1
      BY <2>5, <2>6, <2>7, <3>1 DEF p
    <3>2. CASE j # i + 1
      <4>1. j \in 1..i /\ j \in 1..n
        BY <2>1, <3>2
      <4>2. quads[j][a] \in Square /\ \A b \in 1..4 : p[b] # quads[j][a]
        BY <2>3, <4>1
      <4> QED
        BY <2>1, <2>5, <4>1, <4>2 DEF Rotated
    <3> QED
      BY <3>1, <3>2
  <2>9. ASSUME NEW q \in Square, \A j \in 1..(i + 1), a \in 1..4 : quads[j][a] # q
        PROVE  f[i + 1][q] = base[q]
    <3>1. \A a \in 1..4 : p[a] # q
      BY <2>9 DEF p
    <3>2. \A j \in 1..i, a \in 1..4 : quads[j][a] # q
      BY <2>9
    <3> QED
      BY <2>1, <2>5, <3>1, <3>2 DEF Rotated
  <2> QED
    BY <2>5, <2>8, <2>9 DEF Rotated
<1> HIDE DEF S
<1>4. n \in S
  BY <1>2, <1>3, SetInduction
<1> QED
  BY <1>1, <1>4 DEF S

-----------------------------------------------------------------------------
(***************************************************************************)
(* The solid.  Lands(p, q, s, k) is the relation that QuarterTurn chooses  *)
(* by: a clockwise turn of layer k of s carries square p to square q.      *)
(***************************************************************************)
Lands(p, q, s, k) ==
  IF Depth(Place(p), s) = k
  THEN Place(q) = TurnPlace(Place(p), s) /\ q[1] = TurnFacing(p[1], s)
  ELSE q = p

\* The sides to which a turn about s carries the sides.
LEMMA Facings ==
  ASSUME NEW s \in Side
  PROVE  LET Next(f) == TurnFacing(f, s)
         IN  /\ s = FRONT  => /\ Next(TOP) = RIGHT /\ Next(RIGHT) = BOTTOM
                              /\ Next(BOTTOM) = LEFT /\ Next(LEFT) = TOP
                              /\ Next(FRONT) = FRONT /\ Next(BACK) = BACK
             /\ s = BACK   => /\ Next(TOP) = LEFT /\ Next(LEFT) = BOTTOM
                              /\ Next(BOTTOM) = RIGHT /\ Next(RIGHT) = TOP
                              /\ Next(FRONT) = FRONT /\ Next(BACK) = BACK
             /\ s = RIGHT  => /\ Next(FRONT) = TOP /\ Next(TOP) = BACK
                              /\ Next(BACK) = BOTTOM /\ Next(BOTTOM) = FRONT
                              /\ Next(RIGHT) = RIGHT /\ Next(LEFT) = LEFT
             /\ s = LEFT   => /\ Next(FRONT) = BOTTOM /\ Next(BOTTOM) = BACK
                              /\ Next(BACK) = TOP /\ Next(TOP) = FRONT
                              /\ Next(RIGHT) = RIGHT /\ Next(LEFT) = LEFT
             /\ s = TOP    => /\ Next(FRONT) = LEFT /\ Next(LEFT) = BACK
                              /\ Next(BACK) = RIGHT /\ Next(RIGHT) = FRONT
                              /\ Next(TOP) = TOP /\ Next(BOTTOM) = BOTTOM
             /\ s = BOTTOM => /\ Next(FRONT) = RIGHT /\ Next(RIGHT) = BACK
                              /\ Next(BACK) = LEFT /\ Next(LEFT) = FRONT
                              /\ Next(TOP) = TOP /\ Next(BOTTOM) = BOTTOM
<1> DEFINE a == Around(s)
<1> USE DEF TOP, LEFT, FRONT, RIGHT, BACK, BOTTOM
<1>1. \A i, j \in 1..4 : a[i] = a[j] => i = j
  <2>1. s \in {0, 1, 2, 3, 4, 5}
    BY DEF Side
  <2>2. \A i \in 1..4 : i = 1 \/ i = 2 \/ i = 3 \/ i = 4
    OBVIOUS
  <2> QED
    BY <2>1, <2>2 DEF Around
<1>2. ASSUME NEW i \in 1..4 PROVE TurnFacing(a[i], s) = a[(i % 4) + 1]
  <2>1. (CHOOSE j \in 1..4 : a[j] = a[i]) = i
    BY <1>1
  <2> QED
    BY <2>1 DEF TurnFacing
<1>3. ASSUME NEW f, \A i \in 1..4 : a[i] # f PROVE TurnFacing(f, s) = f
  BY <1>3 DEF TurnFacing
<1>4. /\ TurnFacing(a[1], s) = a[2] /\ TurnFacing(a[2], s) = a[3]
      /\ TurnFacing(a[3], s) = a[4] /\ TurnFacing(a[4], s) = a[1]
  <2>1. TurnFacing(a[1], s) = a[(1 % 4) + 1]
    BY <1>2
  <2>2. TurnFacing(a[2], s) = a[(2 % 4) + 1]
    BY <1>2
  <2>3. TurnFacing(a[3], s) = a[(3 % 4) + 1]
    BY <1>2
  <2>4. TurnFacing(a[4], s) = a[(4 % 4) + 1]
    BY <1>2
  <2> QED
    BY <2>1, <2>2, <2>3, <2>4
<1>5. ASSUME NEW f, f \notin {a[1], a[2], a[3], a[4]} PROVE TurnFacing(f, s) = f
  BY <1>3, <1>5
<1> QED
  BY <1>4, <1>5 DEF Around

\* Places are triples of numbers, and a turn keeps the depth of each.
Triples == Int \X Int \X Int

LEMMA PlaceType == ASSUME NEW q \in Square PROVE Place(q) \in Triples
BY SizeAssumption DEF Place, Triples, Square, Side, LayerIndex, TOP, LEFT, FRONT, RIGHT,
   BACK, BOTTOM

LEMMA TurnKeeps ==
  ASSUME NEW s \in Side, NEW p \in Triples
  PROVE  /\ TurnPlace(p, s) \in Triples
         /\ Depth(TurnPlace(p, s), s) = Depth(p, s)
         /\ \A r \in Triples : TurnPlace(p, s) = TurnPlace(r, s) => p = r
<1> USE SizeAssumption
    DEF Triples, Side, TOP, LEFT, FRONT, RIGHT, BACK, BOTTOM
<1>1. s \in {0, 1, 2, 3, 4, 5}
  OBVIOUS
<1>2. PICK x \in Int, y \in Int, z \in Int : p = <<x, y, z>>
  OBVIOUS
<1>3. TurnPlace(p, s) \in Triples
  BY <1>1, <1>2 DEF TurnPlace
<1>4. Depth(TurnPlace(p, s), s) = Depth(p, s)
  BY <1>1, <1>2 DEF TurnPlace, Depth
<1>5. ASSUME NEW r \in Triples, TurnPlace(p, s) = TurnPlace(r, s) PROVE p = r
  <2>1. PICK u \in Int, v \in Int, w \in Int : r = <<u, v, w>>
    OBVIOUS
  <2> QED
    BY <1>1, <1>2, <1>5, <2>1 DEF TurnPlace
<1> QED
  BY <1>3, <1>4, <1>5

\* On one side no two squares have the same place.
LEMMA PlacesDiffer ==
  ASSUME NEW p \in Square, NEW q \in Square, p[1] = q[1], Place(p) = Place(q)
  PROVE  p = q
<1> USE SizeAssumption
    DEF Square, Side, LayerIndex, TOP, LEFT, FRONT, RIGHT, BACK, BOTTOM
<1>1. PICK f \in 0..5, i \in LayerIndex, j \in LayerIndex : p = <<f, i, j>>
  OBVIOUS
<1>2. PICK m \in LayerIndex, n \in LayerIndex : q = <<f, m, n>>
  BY <1>1
<1>3. /\ f = 0 => <<j, size - 1, i>> = <<n, size - 1, m>>
      /\ f = 1 => <<0, size - 1 - i, j>> = <<0, size - 1 - m, n>>
      /\ f = 2 => <<j, size - 1 - i, size - 1>> = <<n, size - 1 - m, size - 1>>
      /\ f = 3 => <<size - 1, size - 1 - i, size - 1 - j>>
                   = <<size - 1, size - 1 - m, size - 1 - n>>
      /\ f = 4 => <<size - 1 - j, size - 1 - i, 0>> = <<size - 1 - n, size - 1 - m, 0>>
      /\ f = 5 => <<j, 0, size - 1 - i>> = <<n, 0, size - 1 - m>>
  BY <1>1, <1>2 DEF Place
<1>4. i = m /\ j = n
  BY <1>3
<1> QED
  BY <1>1, <1>2, <1>4

LEMMA FacingsDiffer ==
  ASSUME NEW s \in Side, NEW f \in Side, NEW g \in Side,
         TurnFacing(f, s) = TurnFacing(g, s)
  PROVE  f = g
BY Facings DEF Side, TOP, LEFT, FRONT, RIGHT, BACK, BOTTOM

\* So a square has one square that the turn carries to it.
LEMMA TurnedFrom ==
  ASSUME NEW s \in Side, NEW k \in LayerIndex, NEW q \in Square, NEW p \in Square,
         Lands(p, q, s, k)
  PROVE  QuarterTurn[s][k][q] = p
<1>1. ASSUME NEW r \in Square, Lands(r, q, s, k) PROVE r = p
  <2>1. /\ Place(p) \in Triples /\ Place(q) \in Triples /\ Place(r) \in Triples
        /\ p[1] \in Side /\ r[1] \in Side
    BY PlaceType DEF Square
  <2>2. Depth(Place(p), s) = Depth(Place(q), s)
    BY <2>1, TurnKeeps DEF Lands
  <2>3. Depth(Place(r), s) = Depth(Place(q), s)
    BY <1>1, <2>1, TurnKeeps DEF Lands
  <2>4. CASE Depth(Place(q), s) = k
    <3>1. /\ TurnPlace(Place(p), s) = TurnPlace(Place(r), s)
          /\ TurnFacing(p[1], s) = TurnFacing(r[1], s)
      BY <1>1, <2>2, <2>3, <2>4 DEF Lands
    <3>2. Place(p) = Place(r) /\ p[1] = r[1]
      BY <2>1, <3>1, TurnKeeps, FacingsDiffer
    <3> QED
      BY <3>2, PlacesDiffer
  <2>5. CASE Depth(Place(q), s) # k
    BY <1>1, <2>2, <2>3, <2>5 DEF Lands
  <2> QED
    BY <2>4, <2>5
<1>2. (CHOOSE r \in Square : Lands(r, q, s, k)) = p
  BY <1>1
<1>3. QuarterTurn[s][k][q] = CHOOSE r \in Square : Lands(r, q, s, k)
  BY DEF QuarterTurn, Lands
<1> QED
  BY <1>2, <1>3

-----------------------------------------------------------------------------
Ring(a) == IF a = 1 THEN LEFT ELSE IF a = 2 THEN TOP ELSE IF a = 3 THEN RIGHT ELSE BOTTOM

Directions == {LEFT, TOP, RIGHT, BOTTOM}

Piece(s, k, dir, i) == get_layer_pieces(s, k, dir)[i]

\* The squares of the four strips, side by side.
LEMMA PieceIs ==
  ASSUME NEW s \in Side, NEW k \in LayerIndex, NEW i \in 1..size
  PROVE  LET K == size - 1 - k
             j == i - 1
             J == size - i
         IN  /\ s = FRONT => /\ Piece(s, k, LEFT, i) = <<LEFT, J, K>>
                             /\ Piece(s, k, TOP, i) = <<TOP, K, j>>
                             /\ Piece(s, k, RIGHT, i) = <<RIGHT, j, k>>
                             /\ Piece(s, k, BOTTOM, i) = <<BOTTOM, k, J>>
             /\ s = BACK => /\ Piece(s, k, LEFT, i) = <<RIGHT, J, K>>
                            /\ Piece(s, k, TOP, i) = <<TOP, k, J>>
                            /\ Piece(s, k, RIGHT, i) = <<LEFT, j, k>>
                            /\ Piece(s, k, BOTTOM, i) = <<BOTTOM, K, j>>
             /\ s = RIGHT => /\ Piece(s, k, LEFT, i) = <<FRONT, J, K>>
                             /\ Piece(s, k, TOP, i) = <<TOP, J, K>>
                             /\ Piece(s, k, RIGHT, i) = <<BACK, j, k>>
                             /\ Piece(s, k, BOTTOM, i) = <<BOTTOM, J, K>>
             /\ s = LEFT => /\ Piece(s, k, LEFT, i) = <<BACK, J, K>>
                            /\ Piece(s, k, TOP, i) = <<TOP, j, k>>
                            /\ Piece(s, k, RIGHT, i) = <<FRONT, j, k>>
                            /\ Piece(s, k, BOTTOM, i) = <<BOTTOM, j, k>>
             /\ s = TOP => /\ Piece(s, k, LEFT, i) = <<LEFT, k, J>>
                           /\ Piece(s, k, TOP, i) = <<BACK, k, J>>
                           /\ Piece(s, k, RIGHT, i) = <<RIGHT, k, J>>
                           /\ Piece(s, k, BOTTOM, i) = <<FRONT, k, J>>
             /\ s = BOTTOM => /\ Piece(s, k, LEFT, i) = <<LEFT, K, j>>
                              /\ Piece(s, k, TOP, i) = <<FRONT, K, j>>
                              /\ Piece(s, k, RIGHT, i) = <<RIGHT, K, j>>
                              /\ Piece(s, k, BOTTOM, i) = <<BACK, K, j>>
BY SizeAssumption
   DEF Piece, get_layer_pieces, Mirrored, InOrder, Vertical, correlations, Neighbours,
       Side, LayerIndex, TOP, LEFT, FRONT, RIGHT, BACK, BOTTOM

\* A turn carries each strip to the next one, square by square.
LEMMA StripTurns ==
  ASSUME NEW s \in Side, NEW k \in LayerIndex, NEW i \in 1..size
  PROVE  /\ Lands(Piece(s, k, LEFT, i), Piece(s, k, TOP, i), s, k)
         /\ Lands(Piece(s, k, TOP, i), Piece(s, k, RIGHT, i), s, k)
         /\ Lands(Piece(s, k, RIGHT, i), Piece(s, k, BOTTOM, i), s, k)
         /\ Lands(Piece(s, k, BOTTOM, i), Piece(s, k, LEFT, i), s, k)
<1> DEFINE last == size - 1
           K == last - k
           j == i - 1
           J == last - j
<1>0. /\ k \in Int /\ K \in Int /\ j \in Int /\ J \in Int /\ last \in Int
      /\ size - i = J /\ size - 1 = last /\ size - 1 - k = K /\ i - 1 = j
      /\ last - j = J /\ last - J = j /\ last - k = K /\ last - K = k
      /\ last - 0 = last /\ last - last = 0
  BY SizeAssumption DEF LayerIndex
<1> HIDE DEF last, K, j, J
<1>1. CASE s = FRONT
  <2>1. /\ Piece(s, k, LEFT, i) = <<LEFT, J, K>> /\ Piece(s, k, TOP, i) = <<TOP, K, j>>
        /\ Piece(s, k, RIGHT, i) = <<RIGHT, j, k>> /\ Piece(s, k, BOTTOM, i) = <<BOTTOM, k, J>>
    BY <1>0, <1>1, PieceIs
  <2>2. /\ TurnFacing(LEFT, s) = TOP /\ TurnFacing(TOP, s) = RIGHT
        /\ TurnFacing(RIGHT, s) = BOTTOM /\ TurnFacing(BOTTOM, s) = LEFT
    BY <1>1, Facings
  <2>3. /\ Place(<<LEFT, J, K>>) = <<0, j, K>> /\ Place(<<TOP, K, j>>) = <<j, last, K>>
        /\ Place(<<RIGHT, j, k>>) = <<last, J, K>> /\ Place(<<BOTTOM, k, J>>) = <<J, 0, K>>
    BY <1>0 DEF Place, TOP, LEFT, FRONT, RIGHT, BACK, BOTTOM
  <2>4. /\ TurnPlace(<<0, j, K>>, s) = <<j, last, K>>
        /\ TurnPlace(<<j, last, K>>, s) = <<last, J, K>>
        /\ TurnPlace(<<last, J, K>>, s) = <<J, 0, K>>
        /\ TurnPlace(<<J, 0, K>>, s) = <<0, j, K>>
        /\ Depth(<<0, j, K>>, s) = k /\ Depth(<<j, last, K>>, s) = k
        /\ Depth(<<last, J, K>>, s) = k /\ Depth(<<J, 0, K>>, s) = k
    BY <1>0, <1>1 DEF TurnPlace, Depth, TOP, LEFT, FRONT, RIGHT, BACK, BOTTOM
  <2> QED
    BY <2>1, <2>2, <2>3, <2>4 DEF Lands
<1>2. CASE s = BACK
  <2>1. /\ Piece(s, k, LEFT, i) = <<RIGHT, J, K>> /\ Piece(s, k, TOP, i) = <<TOP, k, J>>
        /\ Piece(s, k, RIGHT, i) = <<LEFT, j, k>> /\ Piece(s, k, BOTTOM, i) = <<BOTTOM, K, j>>
    BY <1>0, <1>2, PieceIs
  <2>2. /\ TurnFacing(RIGHT, s) = TOP /\ TurnFacing(TOP, s) = LEFT
        /\ TurnFacing(LEFT, s) = BOTTOM /\ TurnFacing(BOTTOM, s) = RIGHT
    BY <1>2, Facings
  <2>3. /\ Place(<<RIGHT, J, K>>) = <<last, j, k>> /\ Place(<<TOP, k, J>>) = <<J, last, k>>
        /\ Place(<<LEFT, j, k>>) = <<0, J, k>> /\ Place(<<BOTTOM, K, j>>) = <<j, 0, k>>
    BY <1>0 DEF Place, TOP, LEFT, FRONT, RIGHT, BACK, BOTTOM
  <2>4. /\ TurnPlace(<<last, j, k>>, s) = <<J, last, k>>
        /\ TurnPlace(<<J, last, k>>, s) = <<0, J, k>>
        /\ TurnPlace(<<0, J, k>>, s) = <<j, 0, k>>
        /\ TurnPlace(<<j, 0, k>>, s) = <<last, j, k>>
        /\ Depth(<<last, j, k>>, s) = k /\ Depth(<<J, last, k>>, s) = k
        /\ Depth(<<0, J, k>>, s) = k /\ Depth(<<j, 0, k>>, s) = k
    BY <1>0, <1>2 DEF TurnPlace, Depth, TOP, LEFT, FRONT, RIGHT, BACK, BOTTOM
  <2> QED
    BY <2>1, <2>2, <2>3, <2>4 DEF Lands
<1>3. CASE s = RIGHT
  <2>1. /\ Piece(s, k, LEFT, i) = <<FRONT, J, K>> /\ Piece(s, k, TOP, i) = <<TOP, J, K>>
        /\ Piece(s, k, RIGHT, i) = <<BACK, j, k>> /\ Piece(s, k, BOTTOM, i) = <<BOTTOM, J, K>>
    BY <1>0, <1>3, PieceIs
  <2>2. /\ TurnFacing(FRONT, s) = TOP /\ TurnFacing(TOP, s) = BACK
        /\ TurnFacing(BACK, s) = BOTTOM /\ TurnFacing(BOTTOM, s) = FRONT
    BY <1>3, Facings
  <2>3. /\ Place(<<FRONT, J, K>>) = <<K, j, last>> /\ Place(<<TOP, J, K>>) = <<K, last, J>>
        /\ Place(<<BACK, j, k>>) = <<K, J, 0>> /\ Place(<<BOTTOM, J, K>>) = <<K, 0, j>>
    BY <1>0 DEF Place, TOP, LEFT, FRONT, RIGHT, BACK, BOTTOM
  <2>4. /\ TurnPlace(<<K, j, last>>, s) = <<K, last, J>>
        /\ TurnPlace(<<K, last, J>>, s) = <<K, J, 0>>
        /\ TurnPlace(<<K, J, 0>>, s) = <<K, 0, j>>
        /\ TurnPlace(<<K, 0, j>>, s) = <<K, j, last>>
        /\ Depth(<<K, j, last>>, s) = k /\ Depth(<<K, last, J>>, s) = k
        /\ Depth(<<K, J, 0>>, s) = k /\ Depth(<<K, 0, j>>, s) = k
    BY <1>0, <1>3 DEF TurnPlace, Depth, TOP, LEFT, FRONT, RIGHT, BACK, BOTTOM
  <2> QED
    BY <2>1, <2>2, <2>3, <2>4 DEF Lands
<1>4. CASE s = LEFT
  <2>1. /\ Piece(s, k, LEFT, i) = <<BACK, J, K>> /\ Piece(s, k, TOP, i) = <<TOP, j, k>>
        /\ Piece(s, k, RIGHT, i) = <<FRONT, j, k>> /\ Piece(s, k, BOTTOM, i) = <<BOTTOM, j, k>>
    BY <1>0, <1>4, PieceIs
  <2>2. /\ TurnFacing(BACK, s) = TOP /\ TurnFacing(TOP, s) = FRONT
        /\ TurnFacing(FRONT, s) = BOTTOM /\ TurnFacing(BOTTOM, s) = BACK
    BY <1>4, Facings
  <2>3. /\ Place(<<BACK, J, K>>) = <<k, j, 0>> /\ Place(<<TOP, j, k>>) = <<k, last, j>>
        /\ Place(<<FRONT, j, k>>) = <<k, J, last>> /\ Place(<<BOTTOM, j, k>>) = <<k, 0, J>>
    BY <1>0 DEF Place, TOP, LEFT, FRONT, RIGHT, BACK, BOTTOM
  <2>4. /\ TurnPlace(<<k, j, 0>>, s) = <<k, last, j>>
        /\ TurnPlace(<<k, last, j>>, s) = <<k, J, last>>
        /\ TurnPlace(<<k, J, last>>, s) = <<k, 0, J>>
        /\ TurnPlace(<<k, 0, J>>, s) = <<k, j, 0>>
        /\ Depth(<<k, j, 0>>, s) = k /\ Depth(<<k, last, j>>, s) = k
        /\ Depth(<<k, J, last>>, s) = k /\ Depth(<<k, 0, J>>, s) = k
    BY <1>0, <1>4 DEF TurnPlace, Depth, TOP, LEFT, FRONT, RIGHT, BACK, BOTTOM
  <2> QED
    BY <2>1, <2>2, <2>3, <2>4 DEF Lands
<1>5. CASE s = TOP
  <2>1. /\ Piece(s, k, LEFT, i) = <<LEFT, k, J>> /\ Piece(s, k, TOP, i) = <<BACK, k, J>>
        /\ Piece(s, k, RIGHT, i) = <<RIGHT, k, J>> /\ Piece(s, k, BOTTOM, i) = <<FRONT, k, J>>
    BY <1>0, <1>5, PieceIs
  <2>2. /\ TurnFacing(LEFT, s) = BACK /\ TurnFacing(BACK, s) = RIGHT
        /\ TurnFacing(RIGHT, s) = FRONT /\ TurnFacing(FRONT, s) = LEFT
    BY <1>5, Facings
  <2>3. /\ Place(<<LEFT, k, J>>) = <<0, K, J>> /\ Place(<<BACK, k, J>>) = <<j, K, 0>>
        /\ Place(<<RIGHT, k, J>>) = <<last, K, j>> /\ Place(<<FRONT, k, J>>) = <<J, K, last>>
    BY <1>0 DEF Place, TOP, LEFT, FRONT, RIGHT, BACK, BOTTOM
  <2>4. /\ TurnPlace(<<0, K, J>>, s) = <<j, K, 0>>
        /\ TurnPlace(<<j, K, 0>>, s) = <<last, K, j>>
        /\ TurnPlace(<<last, K, j>>, s) = <<J, K, last>>
        /\ TurnPlace(<<J, K, last>>, s) = <<0, K, J>>
        /\ Depth(<<0, K, J>>, s) = k /\ Depth(<<j, K, 0>>, s) = k
        /\ Depth(<<last, K, j>>, s) = k /\ Depth(<<J, K, last>>, s) = k
    BY <1>0, <1>5 DEF TurnPlace, Depth, TOP, LEFT, FRONT, RIGHT, BACK, BOTTOM
  <2> QED
    BY <2>1, <2>2, <2>3, <2>4 DEF Lands
<1>6. CASE s = BOTTOM
  <2>1. /\ Piece(s, k, LEFT, i) = <<LEFT, K, j>> /\ Piece(s, k, TOP, i) = <<FRONT, K, j>>
        /\ Piece(s, k, RIGHT, i) = <<RIGHT, K, j>> /\ Piece(s, k, BOTTOM, i) = <<BACK, K, j>>
    BY <1>0, <1>6, PieceIs
  <2>2. /\ TurnFacing(LEFT, s) = FRONT /\ TurnFacing(FRONT, s) = RIGHT
        /\ TurnFacing(RIGHT, s) = BACK /\ TurnFacing(BACK, s) = LEFT
    BY <1>6, Facings
  <2>3. /\ Place(<<LEFT, K, j>>) = <<0, k, j>> /\ Place(<<FRONT, K, j>>) = <<j, k, last>>
        /\ Place(<<RIGHT, K, j>>) = <<last, k, J>> /\ Place(<<BACK, K, j>>) = <<J, k, 0>>
    BY <1>0 DEF Place, TOP, LEFT, FRONT, RIGHT, BACK, BOTTOM
  <2>4. /\ TurnPlace(<<0, k, j>>, s) = <<j, k, last>>
        /\ TurnPlace(<<j, k, last>>, s) = <<last, k, J>>
        /\ TurnPlace(<<last, k, J>>, s) = <<J, k, 0>>
        /\ TurnPlace(<<J, k, 0>>, s) = <<0, k, j>>
        /\ Depth(<<0, k, j>>, s) = k /\ Depth(<<j, k, last>>, s) = k
        /\ Depth(<<last, k, J>>, s) = k /\ Depth(<<J, k, 0>>, s) = k
    BY <1>0, <1>6 DEF TurnPlace, Depth, TOP, LEFT, FRONT, RIGHT, BACK, BOTTOM
  <2> QED
    BY <2>1, <2>2, <2>3, <2>4 DEF Lands
<1> QED
  BY <1>1, <1>2, <1>3, <1>4, <1>5, <1>6 DEF Side, TOP, LEFT, FRONT, RIGHT, BACK, BOTTOM

-----------------------------------------------------------------------------
\* A turn of layer 0 of s turns the squares of s clockwise.
LEMMA FrontTurns ==
  ASSUME NEW s \in Side, NEW r \in LayerIndex, NEW c \in LayerIndex
  PROVE  Lands(<<s, r, c>>, <<s, c, size - 1 - r>>, s, 0)
<1> DEFINE last == size - 1
           R == last - r
           C == last - c
<1>1. /\ r \in Int /\ c \in Int /\ R \in Int /\ C \in Int /\ last \in Int
      /\ size - 1 = last /\ last - r = R /\ last - R = r /\ last - c = C /\ last - C = c
      /\ last - last = 0 /\ last - 0 = last
  BY SizeAssumption DEF LayerIndex
<1> HIDE DEF last, R, C
<1>2. TurnFacing(s, s) = s
  BY Facings DEF Side, TOP, LEFT, FRONT, RIGHT, BACK, BOTTOM
<1>3. CASE s = TOP
  <2>1. Place(<<s, r, c>>) = <<c, last, r>> /\ Place(<<s, c, R>>) = <<R, last, c>>
    BY <1>1, <1>3 DEF Place, TOP, LEFT, FRONT, RIGHT, BACK, BOTTOM
  <2>2. TurnPlace(<<c, last, r>>, s) = <<R, last, c>> /\ Depth(<<c, last, r>>, s) = 0
    BY <1>1, <1>3 DEF TurnPlace, Depth, TOP, LEFT, FRONT, RIGHT, BACK, BOTTOM
  <2> QED
    BY <1>1, <1>2, <2>1, <2>2 DEF Lands
<1>4. CASE s = LEFT
  <2>1. Place(<<s, r, c>>) = <<0, R, c>> /\ Place(<<s, c, R>>) = <<0, C, R>>
    BY <1>1, <1>4 DEF Place, TOP, LEFT, FRONT, RIGHT, BACK, BOTTOM
  <2>2. TurnPlace(<<0, R, c>>, s) = <<0, C, R>> /\ Depth(<<0, R, c>>, s) = 0
    BY <1>1, <1>4 DEF TurnPlace, Depth, TOP, LEFT, FRONT, RIGHT, BACK, BOTTOM
  <2> QED
    BY <1>1, <1>2, <2>1, <2>2 DEF Lands
<1>5. CASE s = FRONT
  <2>1. Place(<<s, r, c>>) = <<c, R, last>> /\ Place(<<s, c, R>>) = <<R, C, last>>
    BY <1>1, <1>5 DEF Place, TOP, LEFT, FRONT, RIGHT, BACK, BOTTOM
  <2>2. TurnPlace(<<c, R, last>>, s) = <<R, C, last>> /\ Depth(<<c, R, last>>, s) = 0
    BY <1>1, <1>5 DEF TurnPlace, Depth, TOP, LEFT, FRONT, RIGHT, BACK, BOTTOM
  <2> QED
    BY <1>1, <1>2, <2>1, <2>2 DEF Lands
<1>6. CASE s = RIGHT
  <2>1. Place(<<s, r, c>>) = <<last, R, C>> /\ Place(<<s, c, R>>) = <<last, C, r>>
    BY <1>1, <1>6 DEF Place, TOP, LEFT, FRONT, RIGHT, BACK, BOTTOM
  <2>2. TurnPlace(<<last, R, C>>, s) = <<last, C, r>> /\ Depth(<<last, R, C>>, s) = 0
    BY <1>1, <1>6 DEF TurnPlace, Depth, TOP, LEFT, FRONT, RIGHT, BACK, BOTTOM
  <2> QED
    BY <1>1, <1>2, <2>1, <2>2 DEF Lands
<1>7. CASE s = BACK
  <2>1. Place(<<s, r, c>>) = <<C, R, 0>> /\ Place(<<s, c, R>>) = <<r, C, 0>>
    BY <1>1, <1>7 DEF Place, TOP, LEFT, FRONT, RIGHT, BACK, BOTTOM
  <2>2. TurnPlace(<<C, R, 0>>, s) = <<r, C, 0>> /\ Depth(<<C, R, 0>>, s) = 0
    BY <1>1, <1>7 DEF TurnPlace, Depth, TOP, LEFT, FRONT, RIGHT, BACK, BOTTOM
  <2> QED
    BY <1>1, <1>2, <2>1, <2>2 DEF Lands
<1>8. CASE s = BOTTOM
  <2>1. Place(<<s, r, c>>) = <<c, 0, R>> /\ Place(<<s, c, R>>) = <<R, 0, C>>
    BY <1>1, <1>8 DEF Place, TOP, LEFT, FRONT, RIGHT, BACK, BOTTOM
  <2>2. TurnPlace(<<c, 0, R>>, s) = <<R, 0, C>> /\ Depth(<<c, 0, R>>, s) = 0
    BY <1>1, <1>8 DEF TurnPlace, Depth, TOP, LEFT, FRONT, RIGHT, BACK, BOTTOM
  <2> QED
    BY <1>1, <1>2, <2>1, <2>2 DEF Lands
<1> QED
  BY <1>3, <1>4, <1>5, <1>6, <1>7, <1>8 DEF Side, TOP, LEFT, FRONT, RIGHT, BACK, BOTTOM

\* And a turn of the last layer those of the opposite side counterclockwise.
LEMMA BackTurns ==
  ASSUME NEW s \in Side, NEW r \in LayerIndex, NEW c \in LayerIndex
  PROVE  Lands(<<Opposite(s), c, size - 1 - r>>, <<Opposite(s), r, c>>, s, size - 1)
<1> DEFINE last == size - 1
           R == last - r
           C == last - c
<1>1. /\ r \in Int /\ c \in Int /\ R \in Int /\ C \in Int /\ last \in Int
      /\ size - 1 = last /\ last - r = R /\ last - R = r /\ last - c = C /\ last - C = c
      /\ last - last = 0 /\ last - 0 = last
  BY SizeAssumption DEF LayerIndex
<1> HIDE DEF last, R, C
<1>2. TurnFacing(Opposite(s), s) = Opposite(s)
  BY Facings DEF Side, Opposite, correlations, Neighbours, TOP, LEFT, FRONT, RIGHT, BACK, BOTTOM
<1>3. CASE s = TOP
  <2>1. Opposite(s) = BOTTOM
    BY <1>3 DEF Opposite, correlations, Neighbours, TOP, LEFT, FRONT, RIGHT, BACK, BOTTOM
  <2>2. Place(<<BOTTOM, r, c>>) = <<c, 0, R>> /\ Place(<<BOTTOM, c, R>>) = <<R, 0, C>>
    BY <1>1 DEF Place, TOP, LEFT, FRONT, RIGHT, BACK, BOTTOM
  <2>3. TurnPlace(<<R, 0, C>>, s) = <<c, 0, R>> /\ Depth(<<R, 0, C>>, s) = last
    BY <1>1, <1>3 DEF TurnPlace, Depth, TOP, LEFT, FRONT, RIGHT, BACK, BOTTOM
  <2> QED
    BY <1>1, <1>2, <2>1, <2>2, <2>3 DEF Lands
<1>4. CASE s = LEFT
  <2>1. Opposite(s) = RIGHT
    BY <1>4 DEF Opposite, correlations, Neighbours, TOP, LEFT, FRONT, RIGHT, BACK, BOTTOM
  <2>2. Place(<<RIGHT, r, c>>) = <<last, R, C>> /\ Place(<<RIGHT, c, R>>) = <<last, C, r>>
    BY <1>1 DEF Place, TOP, LEFT, FRONT, RIGHT, BACK, BOTTOM
  <2>3. TurnPlace(<<last, C, r>>, s) = <<last, R, C>> /\ Depth(<<last, C, r>>, s) = last
    BY <1>1, <1>4 DEF TurnPlace, Depth, TOP, LEFT, FRONT, RIGHT, BACK, BOTTOM
  <2> QED
    BY <1>1, <1>2, <2>1, <2>2, <2>3 DEF Lands
<1>5. CASE s = FRONT
  <2>1. Opposite(s) = BACK
    BY <1>5 DEF Opposite, correlations, Neighbours, TOP, LEFT, FRONT, RIGHT, BACK, BOTTOM
  <2>2. Place(<<BACK, r, c>>) = <<C, R, 0>> /\ Place(<<BACK, c, R>>) = <<r, C, 0>>
    BY <1>1 DEF Place, TOP, LEFT, FRONT, RIGHT, BACK, BOTTOM
  <2>3. TurnPlace(<<r, C, 0>>, s) = <<C, R, 0>> /\ Depth(<<r, C, 0>>, s) = last
    BY <1>1, <1>5 DEF TurnPlace, Depth, TOP, LEFT, FRONT, RIGHT, BACK, BOTTOM
  <2> QED
    BY <1>1, <1>2, <2>1, <2>2, <2>3 DEF Lands
<1>6. CASE s = RIGHT
  <2>1. Opposite(s) = LEFT
    BY <1>6 DEF Opposite, correlations, Neighbours, TOP, LEFT, FRONT, RIGHT, BACK, BOTTOM
  <2>2. Place(<<LEFT, r, c>>) = <<0, R, c>> /\ Place(<<LEFT, c, R>>) = <<0, C, R>>
    BY <1>1 DEF Place, TOP, LEFT, FRONT, RIGHT, BACK, BOTTOM
  <2>3. TurnPlace(<<0, C, R>>, s) = <<0, R, c>> /\ Depth(<<0, C, R>>, s) = last
    BY <1>1, <1>6 DEF TurnPlace, Depth, TOP, LEFT, FRONT, RIGHT, BACK, BOTTOM
  <2> QED
    BY <1>1, <1>2, <2>1, <2>2, <2>3 DEF Lands
<1>7. CASE s = BACK
  <2>1. Opposite(s) = FRONT
    BY <1>7 DEF Opposite, correlations, Neighbours, TOP, LEFT, FRONT, RIGHT, BACK, BOTTOM
  <2>2. Place(<<FRONT, r, c>>) = <<c, R, last>> /\ Place(<<FRONT, c, R>>) = <<R, C, last>>
    BY <1>1 DEF Place, TOP, LEFT, FRONT, RIGHT, BACK, BOTTOM
  <2>3. TurnPlace(<<R, C, last>>, s) = <<c, R, last>> /\ Depth(<<R, C, last>>, s) = last
    BY <1>1, <1>7 DEF TurnPlace, Depth, TOP, LEFT, FRONT, RIGHT, BACK, BOTTOM
  <2> QED
    BY <1>1, <1>2, <2>1, <2>2, <2>3 DEF Lands
<1>8. CASE s = BOTTOM
  <2>1. Opposite(s) = TOP
    BY <1>8 DEF Opposite, correlations, Neighbours, TOP, LEFT, FRONT, RIGHT, BACK, BOTTOM
  <2>2. Place(<<TOP, r, c>>) = <<c, last, r>> /\ Place(<<TOP, c, R>>) = <<R, last, c>>
    BY <1>1 DEF Place, TOP, LEFT, FRONT, RIGHT, BACK, BOTTOM
  <2>3. TurnPlace(<<R, last, c>>, s) = <<c, last, r>> /\ Depth(<<R, last, c>>, s) = last
    BY <1>1, <1>8 DEF TurnPlace, Depth, TOP, LEFT, FRONT, RIGHT, BACK, BOTTOM
  <2> QED
    BY <1>1, <1>2, <2>1, <2>2, <2>3 DEF Lands
<1> QED
  BY <1>3, <1>4, <1>5, <1>6, <1>7, <1>8 DEF Side, TOP, LEFT, FRONT, RIGHT, BACK, BOTTOM

\* The corners of rotate_front_layer, and the middle of a side of odd size.
Corner == {rc \in LayerIndex \X LayerIndex :
             rc[1] < size \div 2 /\ rc[2] >= rc[1] /\ rc[2] < size - rc[1] - 1}

\* Each square of a side is a quarter of exactly one corner, or the middle.
LEMMA CornersCover ==
  ASSUME NEW f, NEW r \in LayerIndex, NEW c \in LayerIndex
  PROVE  \/ \E rc \in Corner, a \in 1..4 : <<f, r, c>> = Quarters(f, rc[1], rc[2])[a]
         \/ r = c /\ size - 1 - r = r
<1> DEFINE R == size - 1 - r
           C == size - 1 - c
<1> USE SizeAssumption DEF LayerIndex, Corner
<1>1. CASE r < size \div 2 /\ c >= r /\ c < size - r - 1
  <2>1. <<r, c>> \in Corner /\ <<f, r, c>> = Quarters(f, r, c)[1]
    BY <1>1 DEF Quarters
  <2> QED
    BY <2>1
<1>2. CASE C < size \div 2 /\ r >= C /\ r < size - C - 1
  <2>1. <<C, r>> \in Corner /\ <<f, r, c>> = Quarters(f, C, r)[2]
    BY <1>2 DEF Quarters
  <2> QED
    BY <2>1
<1>3. CASE R < size \div 2 /\ C >= R /\ C < size - R - 1
  <2>1. <<R, C>> \in Corner /\ <<f, r, c>> = Quarters(f, R, C)[3]
    BY <1>3 DEF Quarters
  <2> QED
    BY <2>1
<1>4. CASE c < size \div 2 /\ R >= c /\ R < size - c - 1
  <2>1. <<c, R>> \in Corner /\ <<f, r, c>> = Quarters(f, c, R)[4]
    BY <1>4 DEF Quarters
  <2> QED
    BY <2>1
<1>5. (r = c /\ size - 1 - r = r)
      \/ (r < size \div 2 /\ c >= r /\ c < size - r - 1)
      \/ (C < size \div 2 /\ r >= C /\ r < size - C - 1)
      \/ (R < size \div 2 /\ C >= R /\ C < size - R - 1)
      \/ (c < size \div 2 /\ R >= c /\ R < size - c - 1)
  OBVIOUS
<1> QED
  BY <1>1, <1>2, <1>3, <1>4, <1>5

LEMMA CornersApart ==
  ASSUME NEW f, NEW rc \in Corner, NEW mn \in Corner, NEW a \in 1..4, NEW b \in 1..4,
         Quarters(f, rc[1], rc[2])[a] = Quarters(f, mn[1], mn[2])[b]
  PROVE  a = b /\ rc = mn
<1>1. PICK r \in LayerIndex, c \in LayerIndex : rc = <<r, c>>
  BY DEF Corner
<1>2. PICK m \in LayerIndex, n \in LayerIndex : mn = <<m, n>>
  BY DEF Corner
<1>3. /\ r \in Int /\ c \in Int /\ m \in Int /\ n \in Int /\ size \in Int
      /\ 0 <= r /\ r <= c /\ c < size - 1 - r
      /\ 0 <= m /\ m <= n /\ n < size - 1 - m
  BY <1>1, <1>2, SizeAssumption DEF Corner, LayerIndex
<1> DEFINE last == size - 1
<1>4. ASSUME NEW i \in Int, NEW j \in Int
      PROVE  /\ Quarters(f, i, j)[1] = <<f, i, j>>
             /\ Quarters(f, i, j)[2] = <<f, j, last - i>>
             /\ Quarters(f, i, j)[3] = <<f, last - i, last - j>>
             /\ Quarters(f, i, j)[4] = <<f, last - j, i>>
  BY <1>3 DEF Quarters
<1>5. last \in Int /\ r <= c /\ c < last - r /\ m <= n /\ n < last - m
  BY <1>3
<1>6. Quarters(f, r, c)[a] = Quarters(f, m, n)[b]
  BY <1>1, <1>2
<1>7. \A u, v, w, x : <<f, u, v>> = <<f, w, x>> => u = w /\ v = x
  OBVIOUS
<1> HIDE DEF last
<1>8. ASSUME a = 1 PROVE a = b /\ r = m /\ c = n
  <2>1. \/ b = 1 /\ r = m /\ c = n
        \/ b = 2 /\ r = n /\ c = last - m
        \/ b = 3 /\ r = last - m /\ c = last - n
        \/ b = 4 /\ r = last - n /\ c = m
    BY <1>3, <1>4, <1>6, <1>7, <1>8
  <2> QED
    BY <1>3, <1>5, <1>8, <2>1
<1>9. ASSUME a = 2 PROVE a = b /\ r = m /\ c = n
  <2>1. \/ b = 1 /\ c = m /\ last - r = n
        \/ b = 2 /\ c = n /\ last - r = last - m
        \/ b = 3 /\ c = last - m /\ last - r = last - n
        \/ b = 4 /\ c = last - n /\ last - r = m
    BY <1>3, <1>4, <1>6, <1>7, <1>9
  <2> QED
    BY <1>3, <1>5, <1>9, <2>1
<1>10. ASSUME a = 3 PROVE a = b /\ r = m /\ c = n
  <2>1. \/ b = 1 /\ last - r = m /\ last - c = n
        \/ b = 2 /\ last - r = n /\ last - c = last - m
        \/ b = 3 /\ last - r = last - m /\ last - c = last - n
        \/ b = 4 /\ last - r = last - n /\ last - c = m
    BY <1>3, <1>4, <1>6, <1>7, <1>10
  <2> QED
    BY <1>3, <1>5, <1>10, <2>1
<1>11. ASSUME a = 4 PROVE a = b /\ r = m /\ c = n
  <2>1. \/ b = 1 /\ last - c = m /\ r = n
        \/ b = 2 /\ last - c = n /\ r = last - m
        \/ b = 3 /\ last - c = last - m /\ r = last - n
        \/ b = 4 /\ last - c = last - n /\ r = m
    BY <1>3, <1>4, <1>6, <1>7, <1>11
  <2> QED
    BY <1>3, <1>5, <1>11, <2>1
<1>12. a \in {1, 2, 3, 4}
  OBVIOUS
<1>13. a = b /\ r = m /\ c = n
  BY <1>8, <1>9, <1>10, <1>11, <1>12
<1> QED
  BY <1>1, <1>2, <1>13

-----------------------------------------------------------------------------
(***************************************************************************)
(* rotate_front_layer, over the corners of a side in any order.            *)
(***************************************************************************)
\* SetToSeq puts a finite set in some order.
LEMMA SeqOfSet ==
  ASSUME NEW S, IsFiniteSet(S)
  PROVE  /\ Cardinality(S) \in Nat
         /\ DOMAIN SetToSeq(S) = 1..Cardinality(S)
         /\ \A i \in 1..Cardinality(S) : SetToSeq(S)[i] \in S
         /\ \A x \in S : \E i \in 1..Cardinality(S) : SetToSeq(S)[i] = x
         /\ \A i, j \in 1..Cardinality(S) : SetToSeq(S)[i] = SetToSeq(S)[j] => i = j
<1> DEFINE n == Cardinality(S)
           seq == SetToSeq(S)
<1>1. n \in Nat /\ ExistsBijection(1..n, S)
  BY FS_CardinalityType
<1>2. \E f \in [1..n -> S] : IsInjective(f)
  BY <1>1 DEF ExistsBijection, Bijection, Injection
<1>3. seq \in [1..n -> S] /\ IsInjective(seq)
  BY <1>2 DEF SetToSeq
<1> HIDE DEF seq
<1>4. seq \in Injection(1..n, S)
  BY <1>3 DEF Injection
<1>5. Cardinality(1..n) = n
  BY <1>1, FS_Interval
<1> HIDE DEF n
<1>6. seq \in Surjection(1..n, S)
  BY <1>4, <1>5, FS_Injection DEF n
<1> QED
  BY <1>1, <1>3, <1>6 DEF IsInjective, Surjection, n, seq

-----------------------------------------------------------------------------
\* The four pieces that rotate_front_layer turns about the corner rc.
Quad(f, d, rc) == [i \in 1..4 |-> Quarters(f, rc[1], rc[2])[d[i]]]
Quads(f, d) == {Quad(f, d, rc) : rc \in Corner}

LEMMA QuadsFinite ==
  ASSUME NEW f, NEW d
  PROVE  IsFiniteSet(Quads(f, d))
<1>1. IsFiniteSet(LayerIndex)
  BY SizeAssumption, FS_Interval DEF LayerIndex
<1>2. IsFiniteSet(LayerIndex \X LayerIndex)
  BY <1>1, FS_Product
<1>3. IsFiniteSet(Corner)
  BY <1>2, FS_Subset DEF Corner
<1> DEFINE g == [rc \in Corner |-> Quad(f, d, rc)]
<1>4. g \in Surjection(Corner, Quads(f, d))
  BY DEF Surjection, Quads
<1> QED
  BY <1>3, <1>4, FS_Surjection

Order(d) == d = clockwise \/ d = counter_clockwise

LEMMA QuadsApart ==
  ASSUME NEW f \in Side, NEW d, Order(d)
  PROVE  /\ \A p \in Quads(f, d), a \in 1..4 : p[a] \in Square /\ p[a][1] = f
         /\ \A p, r \in Quads(f, d), a, b \in 1..4 : p[a] = r[b] => p = r /\ a = b
<1>1. \A a \in 1..4 : d[a] \in 1..4 /\ \A b \in 1..4 : d[a] = d[b] => a = b
  BY DEF Order, clockwise, counter_clockwise
<1>2. ASSUME NEW rc \in Corner, NEW a \in 1..4
      PROVE  Quarters(f, rc[1], rc[2])[a] \in Square /\ Quarters(f, rc[1], rc[2])[a][1] = f
  BY SizeAssumption DEF Corner, LayerIndex, Quarters, Square
<1>3. ASSUME NEW p \in Quads(f, d), NEW a \in 1..4 PROVE p[a] \in Square /\ p[a][1] = f
  BY <1>1, <1>2 DEF Quads, Quad
<1>4. ASSUME NEW p \in Quads(f, d), NEW r \in Quads(f, d), NEW a \in 1..4, NEW b \in 1..4,
             p[a] = r[b]
      PROVE  p = r /\ a = b
  <2>1. PICK rc \in Corner : p = Quad(f, d, rc)
    BY DEF Quads
  <2>2. PICK mn \in Corner : r = Quad(f, d, mn)
    BY DEF Quads
  <2>3. Quarters(f, rc[1], rc[2])[d[a]] = Quarters(f, mn[1], mn[2])[d[b]]
    BY <1>4, <2>1, <2>2 DEF Quad
  <2>4. d[a] \in 1..4 /\ d[b] \in 1..4
    BY <1>1
  <2>5. d[a] = d[b] /\ rc = mn
    BY <2>3, <2>4, CornersApart
  <2>6. a = b
    BY <1>1, <2>5
  <2> QED
    BY <2>1, <2>2, <2>5, <2>6
<1> QED
  BY <1>3, <1>4

\* So it moves the colours of one side a quarter of a turn, and no others.
LEMMA FrontLayer ==
  ASSUME NEW f \in Side, NEW d, Order(d)
  PROVE  LET turned == rotate_front_layer(Unmoved, f, d)
         IN  /\ turned \in [Square -> Square]
             /\ \A q \in Square : q[1] # f => turned[q] = q
             /\ \A rc \in Corner, a \in 1..4 :
                  turned[Quad(f, d, rc)[a]] = Quad(f, d, rc)[Before(a)]
             /\ \A q \in Square :
                  (\A rc \in Corner, a \in 1..4 : Quad(f, d, rc)[a] # q) => turned[q] = q
<1> DEFINE S == Quads(f, d)
           n == Cardinality(S)
           seq == SetToSeq(S)
           turned == rotate_front_layer(Unmoved, f, d)
<1>1. turned = RotateAll(Unmoved, seq)
  BY DEF rotate_front_layer, RotateAll, Quads, Quad, Corner
<1>2. /\ n \in Nat /\ DOMAIN seq = 1..n
      /\ \A i \in 1..n : seq[i] \in S
      /\ \A x \in S : \E i \in 1..n : seq[i] = x
      /\ \A i, j \in 1..n : seq[i] = seq[j] => i = j
  BY QuadsFinite, SeqOfSet
<1> HIDE DEF n, seq, turned, S
<1>3. /\ \A p \in S, a \in 1..4 : p[a] \in Square /\ p[a][1] = f
      /\ \A p, r \in S, a, b \in 1..4 : p[a] = r[b] => p = r /\ a = b
  BY QuadsApart DEF S
<1>4. Apart(seq)
  BY <1>2, <1>3 DEF Apart
<1>5. \A i \in 1..n, a \in 1..4 : seq[i][a] \in Square
  BY <1>2, <1>3
<1>6. Unmoved \in [Square -> Square] /\ \A q \in Square : Unmoved[q] = q
  BY DEF Unmoved
<1>7. Rotated(turned, Unmoved, seq, n)
  BY <1>1, <1>2, <1>4, <1>5, <1>6, FoldRotates
<1>8. turned \in [Square -> Square]
  BY <1>7 DEF Rotated
<1>9. ASSUME NEW p \in S, NEW a \in 1..4 PROVE turned[p[a]] = p[Before(a)]
  <2>1. PICK i \in 1..n : seq[i] = p
    BY <1>2
  <2>2. Before(a) \in 1..4
    BY DEF Before
  <2> QED
    BY <1>3, <1>6, <1>7, <2>1, <2>2 DEF Rotated
<1>10. ASSUME NEW q \in Square, \A p \in S, a \in 1..4 : p[a] # q PROVE turned[q] = q
  BY <1>2, <1>6, <1>7, <1>10 DEF Rotated
<1>11. \A q \in Square : q[1] # f => turned[q] = q
  BY <1>3, <1>10
<1>12. \A rc \in Corner : Quad(f, d, rc) \in S
  BY DEF S, Quads
<1>13. \A p \in S : \E rc \in Corner : p = Quad(f, d, rc)
  BY DEF S, Quads
<1> QED
  BY <1>8, <1>9, <1>10, <1>11, <1>12, <1>13 DEF turned

\* Every square of a side of a cube is one of a quad, or the middle one.
LEMMA ClockwiseLayer ==
  ASSUME NEW f \in Side, NEW r \in LayerIndex, NEW c \in LayerIndex
  PROVE  /\ rotate_front_layer(Unmoved, f, clockwise)[<<f, c, size - 1 - r>>] = <<f, r, c>>
         /\ rotate_front_layer(Unmoved, f, counter_clockwise)[<<f, r, c>>]
              = <<f, c, size - 1 - r>>
<1> DEFINE cw == rotate_front_layer(Unmoved, f, clockwise)
           ccw == rotate_front_layer(Unmoved, f, counter_clockwise)
           last == size - 1
           After(a) == IF a = 4 THEN 1 ELSE a + 1
           Q(rc) == Quarters(f, rc[1], rc[2])
<1>1. Order(clockwise) /\ Order(counter_clockwise)
  BY DEF Order
<1>2. /\ \A rc \in Corner, a \in 1..4 :
           cw[Quad(f, clockwise, rc)[a]] = Quad(f, clockwise, rc)[Before(a)]
      /\ \A q \in Square :
           (\A rc \in Corner, a \in 1..4 : Quad(f, clockwise, rc)[a] # q) => cw[q] = q
      /\ \A rc \in Corner, a \in 1..4 :
           ccw[Quad(f, counter_clockwise, rc)[a]] = Quad(f, counter_clockwise, rc)[Before(a)]
      /\ \A q \in Square :
           (\A rc \in Corner, a \in 1..4 : Quad(f, counter_clockwise, rc)[a] # q)
             => ccw[q] = q
  BY <1>1, FrontLayer
<1> HIDE DEF cw, ccw
<1>3. ASSUME NEW rc \in Corner
      PROVE  /\ \A a \in 1..4 : Quad(f, clockwise, rc)[a] = Q(rc)[a]
             /\ \A a \in 1..4 : Quad(f, counter_clockwise, rc)[a] = Q(rc)[5 - a]
  BY DEF Quad, clockwise, counter_clockwise
<1>4. ASSUME NEW rc \in Corner, NEW a \in 1..4
      PROVE  cw[Q(rc)[After(a)]] = Q(rc)[a] /\ ccw[Q(rc)[a]] = Q(rc)[After(a)]
  <2>1. After(a) \in 1..4 /\ 5 - a \in 1..4 /\ 5 - (5 - a) = a
    OBVIOUS
  <2>2. Before(After(a)) = a /\ 5 - Before(5 - a) = After(a) /\ Before(5 - a) \in 1..4
    BY DEF Before
  <2> HIDE DEF Q, After
  <2> QED
    BY <1>2, <1>3, <2>1, <2>2
<1>5. CASE \E rc \in Corner, a \in 1..4 : <<f, r, c>> = Q(rc)[a]
  <2>1. PICK rc \in Corner, a \in 1..4 : <<f, r, c>> = Q(rc)[a]
    BY <1>5
  <2>2. Q(rc)[After(a)] = <<f, c, size - 1 - r>>
    <3>1. rc[1] \in Int /\ rc[2] \in Int /\ r \in Int /\ c \in Int /\ size \in Int
      BY SizeAssumption DEF Corner, LayerIndex
    <3>2. a \in {1, 2, 3, 4}
      OBVIOUS
    <3> DEFINE m == rc[1]
               i == rc[2]
    <3>3. /\ Q(rc)[1] = <<f, m, i>> /\ Q(rc)[2] = <<f, i, size - m - 1>>
          /\ Q(rc)[3] = <<f, size - m - 1, size - i - 1>>
          /\ Q(rc)[4] = <<f, size - i - 1, m>>
      BY DEF Quarters
    <3> HIDE DEF m, i, Q
    <3>4. m \in Int /\ i \in Int
      BY <3>1 DEF m, i
    <3>5. \A u, v, w, x : <<f, u, v>> = <<f, w, x>> <=> u = w /\ v = x
      OBVIOUS
    <3>6. CASE a = 1
      <4>1. r = m /\ c = i
        BY <2>1, <3>3, <3>5, <3>6
      <4> QED
        BY <3>1, <3>3, <3>4, <3>6, <4>1
    <3>7. CASE a = 2
      <4>1. r = i /\ c = size - m - 1
        BY <2>1, <3>3, <3>5, <3>7
      <4> QED
        BY <3>1, <3>3, <3>4, <3>7, <4>1
    <3>8. CASE a = 3
      <4>1. r = size - m - 1 /\ c = size - i - 1
        BY <2>1, <3>3, <3>5, <3>8
      <4> QED
        BY <3>1, <3>3, <3>4, <3>8, <4>1
    <3>9. CASE a = 4
      <4>1. r = size - i - 1 /\ c = m
        BY <2>1, <3>3, <3>5, <3>9
      <4> QED
        BY <3>1, <3>3, <3>4, <3>9, <4>1
    <3> QED
      BY <3>2, <3>6, <3>7, <3>8, <3>9
  <2> HIDE DEF Q, After
  <2> QED
    BY <1>4, <2>1, <2>2 DEF cw, ccw
<1>6. CASE \A rc \in Corner, a \in 1..4 : <<f, r, c>> # Q(rc)[a]
  <2>1. r = c /\ size - 1 - r = r
    BY <1>6, CornersCover
  <2>2. <<f, r, c>> \in Square
    BY DEF Square
  <2>3. \A a \in 1..4 : 5 - a \in 1..4
    OBVIOUS
  <2> HIDE DEF Q
  <2>4. cw[<<f, r, c>>] = <<f, r, c>>
    BY <1>2, <1>3, <1>6, <2>2
  <2>5. ccw[<<f, r, c>>] = <<f, r, c>>
    BY <1>2, <1>3, <1>6, <2>2, <2>3
  <2> QED
    BY <2>1, <2>4, <2>5 DEF cw, ccw
<1> QED
  BY <1>5, <1>6

-----------------------------------------------------------------------------
(***************************************************************************)
(* The parts of a rotation, and where the turn carries their squares.      *)
(***************************************************************************)
\* The squares that the three parts of a rotation move.
OnFront(q, s, k) == k = 0 /\ q[1] = s
OnBack(q, s, k) == k = size - 1 /\ q[1] = Opposite(s)
OnStrip(q, s, k) == \E dir \in Directions, i \in 1..size : q = Piece(s, k, dir, i)

\* The side that a direction leads to is not the side itself or its opposite.
LEMMA SidesAround ==
  ASSUME NEW s \in Side
  PROVE  /\ \A dir \in Directions : /\ correlations(s, dir) \in Side
                                    /\ correlations(s, dir) # s
                                    /\ correlations(s, dir) # Opposite(s)
         /\ \A dir, e \in Directions : correlations(s, dir) = correlations(s, e) => dir = e
         /\ \A f \in Side : \/ f = s \/ f = Opposite(s)
                            \/ \E dir \in Directions : f = correlations(s, dir)
         /\ Opposite(s) \in Side /\ Opposite(s) # s
<1>1. s \in {0, 1, 2, 3, 4, 5} /\ \A f \in Side : f \in {0, 1, 2, 3, 4, 5}
  BY DEF Side
<1>2. /\ correlations(s, TOP) = Neighbours[s + 1][1]
      /\ correlations(s, LEFT) = Neighbours[s + 1][2]
      /\ correlations(s, RIGHT) = Neighbours[s + 1][4]
      /\ correlations(s, BOTTOM) = Neighbours[s + 1][6]
      /\ Opposite(s) = Neighbours[s + 1][5]
  BY DEF correlations, Opposite, TOP, LEFT, RIGHT, BACK, BOTTOM
<1> DEFINE A(a, b, c, d, e) ==
             /\ correlations(s, TOP) = a /\ correlations(s, LEFT) = b
             /\ correlations(s, RIGHT) = c /\ correlations(s, BOTTOM) = d
             /\ Opposite(s) = e
<1>3. /\ s = 0 => A(4, 1, 3, 2, 5)
      /\ s = 1 => A(0, 4, 2, 5, 3)
      /\ s = 2 => A(0, 1, 3, 5, 4)
      /\ s = 3 => A(0, 2, 4, 5, 1)
      /\ s = 4 => A(0, 3, 1, 5, 2)
      /\ s = 5 => A(2, 1, 3, 4, 0)
  BY <1>2 DEF Neighbours
<1>4. \A dir \in Directions : dir \in {TOP, LEFT, RIGHT, BOTTOM}
  BY DEF Directions
<1> QED
  BY <1>1, <1>3, <1>4 DEF Directions, TOP, LEFT, RIGHT, BOTTOM, Side

\* A piece of a strip: its side, and its row and column one way or the other.
Line(s, k, dir) == IF dir \in Mirrored(s) THEN size - k - 1 ELSE k
Across(q, s, dir) == IF Vertical(s, dir) THEN q[3] ELSE q[2]
Along(q, s, dir) == IF Vertical(s, dir) THEN q[2] ELSE q[3]
Index(s, dir, i) == IF dir \in InOrder(s) THEN i - 1 ELSE size - i

LEMMA PieceOf ==
  ASSUME NEW s \in Side, NEW k \in LayerIndex, NEW dir \in Directions, NEW i \in 1..size
  PROVE  /\ Piece(s, k, dir, i) \in Square
         /\ Piece(s, k, dir, i)[1] = correlations(s, dir)
         /\ Across(Piece(s, k, dir, i), s, dir) = Line(s, k, dir)
         /\ Along(Piece(s, k, dir, i), s, dir) = Index(s, dir, i)
<1>1. Line(s, k, dir) \in LayerIndex /\ Index(s, dir, i) \in LayerIndex
  BY SizeAssumption DEF Line, Index, LayerIndex
<1>2. correlations(s, dir) \in Side
  BY SidesAround
<1>3. Piece(s, k, dir, i) =
        IF Vertical(s, dir) THEN <<correlations(s, dir), Index(s, dir, i), Line(s, k, dir)>>
        ELSE <<correlations(s, dir), Line(s, k, dir), Index(s, dir, i)>>
  BY DEF Piece, get_layer_pieces, Line, Index
<1> QED
  BY <1>1, <1>2, <1>3 DEF Square, Across, Along

LEMMA PiecesApart ==
  ASSUME NEW s \in Side, NEW k \in LayerIndex, NEW dir \in Directions, NEW e \in Directions,
         NEW i \in 1..size, NEW j \in 1..size, Piece(s, k, dir, i) = Piece(s, k, e, j)
  PROVE  dir = e /\ i = j
<1>1. dir = e
  <2>1. correlations(s, dir) = correlations(s, e)
    BY PieceOf
  <2> QED
    BY <2>1, SidesAround
<1>2. Index(s, dir, i) = Index(s, dir, j)
  BY <1>1, PieceOf
<1>3. size \in Int /\ i \in Int /\ j \in Int
  BY SizeAssumption
<1>4. i = j
  BY <1>2, <1>3 DEF Index
<1> QED
  BY <1>1, <1>4

\* A square that a turn moves is one of its three parts.
LEMMA StripsCover ==
  ASSUME NEW s \in Side, NEW k \in LayerIndex, NEW q \in Square, Depth(Place(q), s) = k
  PROVE  OnFront(q, s, k) \/ OnBack(q, s, k) \/ OnStrip(q, s, k)
<1>1. PICK f \in Side, r \in LayerIndex, c \in LayerIndex : q = <<f, r, c>>
  BY DEF Square
<1>2. /\ r \in Int /\ c \in Int /\ k \in Int /\ size \in Int
      /\ f \in {TOP, LEFT, FRONT, RIGHT, BACK, BOTTOM}
      /\ s \in {TOP, LEFT, FRONT, RIGHT, BACK, BOTTOM}
  BY SizeAssumption DEF LayerIndex, Side, TOP, LEFT, FRONT, RIGHT, BACK, BOTTOM
<1>3. /\ f = TOP => Place(q) = <<c, size - 1, r>>
      /\ f = LEFT => Place(q) = <<0, size - 1 - r, c>>
      /\ f = FRONT => Place(q) = <<c, size - 1 - r, size - 1>>
      /\ f = RIGHT => Place(q) = <<size - 1, size - 1 - r, size - 1 - c>>
      /\ f = BACK => Place(q) = <<size - 1 - c, size - 1 - r, 0>>
      /\ f = BOTTOM => Place(q) = <<c, 0, size - 1 - r>>
  BY <1>1 DEF Place, TOP, LEFT, FRONT, RIGHT, BACK, BOTTOM
<1>4. CASE f = s
  <2>1. k = 0
    BY <1>2, <1>3, <1>4 DEF Depth, TOP, LEFT, FRONT, RIGHT, BACK, BOTTOM
  <2> QED
    BY <1>1, <1>4, <2>1 DEF OnFront
<1>5. CASE f = Opposite(s)
  <2>1. k = size - 1
    BY <1>2, <1>3, <1>5
       DEF Depth, Opposite, correlations, Neighbours, TOP, LEFT, FRONT, RIGHT, BACK, BOTTOM
  <2> QED
    BY <1>1, <1>5, <2>1 DEF OnBack
<1>6. ASSUME NEW dir \in Directions, f = correlations(s, dir) PROVE OnStrip(q, s, k)
  <2>1. Across(q, s, dir) = Line(s, k, dir)
    <3>1. dir \in {TOP, LEFT, RIGHT, BOTTOM}
      BY DEF Directions
    <3> USE <1>1, <1>2, <1>3, <1>6, <3>1
        DEF Depth, Across, Line, Vertical, Mirrored, correlations, Neighbours,
            TOP, LEFT, FRONT, RIGHT, BACK, BOTTOM
    <3>2. CASE s = TOP
      BY <3>2
    <3>3. CASE s = LEFT
      BY <3>3
    <3>4. CASE s = FRONT
      BY <3>4
    <3>5. CASE s = RIGHT
      BY <3>5
    <3>6. CASE s = BACK
      BY <3>6
    <3>7. CASE s = BOTTOM
      BY <3>7
    <3> QED
      BY <3>2, <3>3, <3>4, <3>5, <3>6, <3>7
  <2> DEFINE x == Along(q, s, dir)
             i == IF dir \in InOrder(s) THEN x + 1 ELSE size - x
  <2>2. x \in LayerIndex
    BY <1>1 DEF Along
  <2>3. i \in 1..size /\ Index(s, dir, i) = x
    <3> HIDE DEF x
    <3> QED
      BY <2>2, SizeAssumption DEF LayerIndex, Index
  <2> HIDE DEF i
  <2>4. q = Piece(s, k, dir, i)
    BY <1>1, <1>6, <2>1, <2>3
       DEF Piece, get_layer_pieces, Line, Across, Along, Index
  <2> QED
    BY <2>3, <2>4 DEF OnStrip
<1> QED
  BY <1>4, <1>5, <1>6, SidesAround

\* The front part is the turn of the squares of side s, which stay on it.
LEMMA FrontMoves ==
  ASSUME NEW s \in Side, NEW k \in LayerIndex
  PROVE  /\ FrontPart[s][k] \in [Square -> Square]
         /\ \A q \in Square :
              IF OnFront(q, s, k)
              THEN /\ FrontPart[s][k][q] = QuarterTurn[s][k][q]
                   /\ OnFront(QuarterTurn[s][k][q], s, k)
              ELSE FrontPart[s][k][q] = q
<1> DEFINE cw == rotate_front_layer(Unmoved, s, clockwise)
<1>1. FrontPart[s][k] = IF k = 0 THEN cw ELSE Unmoved
  <2>1. correlations(s, FRONT) = s
    BY DEF correlations, Neighbours, FRONT, Side
  <2> QED
    BY <2>1 DEF FrontPart
<1>2. Unmoved \in [Square -> Square] /\ \A q \in Square : Unmoved[q] = q
  BY DEF Unmoved
<1>3. cw \in [Square -> Square] /\ \A q \in Square : q[1] # s => cw[q] = q
  BY FrontLayer DEF Order
<1> HIDE DEF cw
<1>4. ASSUME NEW q \in Square, OnFront(q, s, k)
      PROVE  FrontPart[s][k][q] = QuarterTurn[s][k][q] /\ OnFront(QuarterTurn[s][k][q], s, k)
  <2>1. PICK i \in LayerIndex, c \in LayerIndex : q = <<s, i, c>>
    <3>1. PICK f \in Side, i \in LayerIndex, c \in LayerIndex : q = <<f, i, c>>
      BY DEF Square
    <3> QED
      BY <1>4, <3>1 DEF OnFront
  <2> DEFINE r == size - 1 - c
             p == <<s, r, i>>
  <2>2. r \in LayerIndex /\ size - 1 - r = c
    BY SizeAssumption DEF LayerIndex
  <2>3. q = <<s, i, size - 1 - r>>
    BY <2>1, <2>2
  <2> HIDE DEF r
  <2>4. cw[q] = p
    BY <2>2, <2>3, ClockwiseLayer DEF cw
  <2>5. Lands(p, q, s, k)
    <3>1. k = 0
      BY <1>4 DEF OnFront
    <3>2. Lands(<<s, r, i>>, <<s, i, size - 1 - r>>, s, 0)
      BY <2>2, FrontTurns
    <3> QED
      BY <2>3, <3>1, <3>2
  <2>6. p \in Square
    BY <2>2 DEF Square
  <2>7. QuarterTurn[s][k][q] = p
    BY <2>5, <2>6, TurnedFrom
  <2> QED
    BY <1>1, <1>4, <2>4, <2>7 DEF OnFront
<1>5. ASSUME NEW q \in Square, ~OnFront(q, s, k) PROVE FrontPart[s][k][q] = q
  BY <1>1, <1>2, <1>3, <1>5 DEF OnFront
<1> QED
  BY <1>1, <1>2, <1>3, <1>4, <1>5

\* The back part is that of the squares of the opposite side.
LEMMA BackMoves ==
  ASSUME NEW s \in Side, NEW k \in LayerIndex
  PROVE  /\ BackPart[s][k] \in [Square -> Square]
         /\ \A q \in Square :
              IF OnBack(q, s, k)
              THEN /\ BackPart[s][k][q] = QuarterTurn[s][k][q]
                   /\ OnBack(QuarterTurn[s][k][q], s, k)
              ELSE BackPart[s][k][q] = q
<1> DEFINE o == Opposite(s)
           ccw == rotate_front_layer(Unmoved, o, counter_clockwise)
<1>1. BackPart[s][k] = IF k = size - 1 THEN ccw ELSE Unmoved
  BY DEF BackPart, Opposite
<1>2. Unmoved \in [Square -> Square] /\ \A q \in Square : Unmoved[q] = q
  BY DEF Unmoved
<1>3. o \in Side
  BY SidesAround
<1> HIDE DEF o
<1>4. ccw \in [Square -> Square] /\ \A q \in Square : q[1] # o => ccw[q] = q
  BY <1>3, FrontLayer DEF Order
<1> HIDE DEF ccw
<1>5. ASSUME NEW q \in Square, OnBack(q, s, k)
      PROVE  BackPart[s][k][q] = QuarterTurn[s][k][q] /\ OnBack(QuarterTurn[s][k][q], s, k)
  <2>1. PICK r \in LayerIndex, c \in LayerIndex : q = <<o, r, c>>
    <3>1. PICK f \in Side, r \in LayerIndex, c \in LayerIndex : q = <<f, r, c>>
      BY DEF Square
    <3> QED
      BY <1>5, <3>1 DEF OnBack, o
  <2> DEFINE p == <<o, c, size - 1 - r>>
  <2>2. ccw[q] = p
    BY <1>3, <2>1, ClockwiseLayer DEF ccw
  <2>3. Lands(p, q, s, k)
    <3>1. k = size - 1
      BY <1>5 DEF OnBack
    <3>2. Lands(<<o, c, size - 1 - r>>, <<o, r, c>>, s, size - 1)
      BY BackTurns DEF o
    <3> QED
      BY <2>1, <3>1, <3>2
  <2>4. p \in Square
    BY <1>3, SizeAssumption DEF Square, LayerIndex
  <2>5. QuarterTurn[s][k][q] = p
    BY <2>3, <2>4, TurnedFrom
  <2> QED
    BY <1>1, <1>5, <2>2, <2>5 DEF OnBack, o
<1>6. ASSUME NEW q \in Square, ~OnBack(q, s, k) PROVE BackPart[s][k][q] = q
  BY <1>1, <1>2, <1>4, <1>6 DEF OnBack, o
<1> QED
  BY <1>1, <1>2, <1>4, <1>5, <1>6

\* The strips part is that of the squares of the strips.
LEMMA StripsMove ==
  ASSUME NEW s \in Side, NEW k \in LayerIndex
  PROVE  /\ rotate_layer_pieces[s][k] \in [Square -> Square]
         /\ \A q \in Square :
              IF OnStrip(q, s, k)
              THEN /\ rotate_layer_pieces[s][k][q] = QuarterTurn[s][k][q]
                   /\ OnStrip(QuarterTurn[s][k][q], s, k)
              ELSE rotate_layer_pieces[s][k][q] = q
<1> DEFINE lanes == [i \in 1..size |-> <<Piece(s, k, LEFT, i), Piece(s, k, TOP, i),
                                         Piece(s, k, RIGHT, i), Piece(s, k, BOTTOM, i)>>]
           moved == RotateAll(Unmoved, lanes)
<1>1. rotate_layer_pieces[s][k] = moved
  BY DEF rotate_layer_pieces, RotateAll, Piece
<1>2. Unmoved \in [Square -> Square] /\ \A q \in Square : Unmoved[q] = q
  BY DEF Unmoved
<1>3. \A a \in 1..4 : Ring(a) \in Directions
  BY DEF Ring, Directions
<1>4. \A a, b \in 1..4 : Ring(a) = Ring(b) => a = b
  BY DEF Ring, LEFT, TOP, RIGHT, BOTTOM
<1>5. \A i \in 1..size, a \in 1..4 : lanes[i][a] = Piece(s, k, Ring(a), i)
  BY DEF Ring
<1>6. DOMAIN lanes = 1..size
  OBVIOUS
<1> HIDE DEF lanes
<1>7. \A i \in 1..size, a \in 1..4 : lanes[i][a] \in Square
  BY <1>3, <1>5, PieceOf
<1>8. Apart(lanes)
  <2>1. ASSUME NEW i \in 1..size, NEW j \in 1..size, NEW a \in 1..4, NEW b \in 1..4,
               lanes[i][a] = lanes[j][b]
        PROVE  i = j /\ a = b
    <3>1. Piece(s, k, Ring(a), i) = Piece(s, k, Ring(b), j)
      BY <1>5, <2>1
    <3>2. Ring(a) \in Directions /\ Ring(b) \in Directions
      BY <1>3
    <3>3. Ring(a) = Ring(b) /\ i = j
      BY <3>1, <3>2, PiecesApart
    <3> QED
      BY <1>4, <3>3
  <2> QED
    BY <1>6, <2>1 DEF Apart
<1>9. Rotated(moved, Unmoved, lanes, size)
  BY <1>2, <1>6, <1>7, <1>8, FoldRotates, SizeAssumption
<1> HIDE DEF moved
<1>10. moved \in [Square -> Square]
  BY <1>9 DEF Rotated
<1>11. ASSUME NEW q \in Square, OnStrip(q, s, k)
       PROVE  moved[q] = QuarterTurn[s][k][q] /\ OnStrip(QuarterTurn[s][k][q], s, k)
  <2>1. PICK a \in 1..4, i \in 1..size : q = Piece(s, k, Ring(a), i)
    <3>1. Ring(1) = LEFT /\ Ring(2) = TOP /\ Ring(3) = RIGHT /\ Ring(4) = BOTTOM
      BY DEF Ring
    <3> QED
      BY <1>11, <3>1 DEF OnStrip, Directions
  <2> DEFINE p == Piece(s, k, Ring(Before(a)), i)
  <2>2. Before(a) \in 1..4
    BY DEF Before
  <2>3. p \in Square /\ OnStrip(p, s, k)
    BY <1>3, <2>2, PieceOf DEF OnStrip
  <2>4. moved[q] = p
    BY <1>2, <1>5, <1>7, <1>9, <2>1, <2>2 DEF Rotated
  <2>5. Lands(p, q, s, k)
    BY <2>1, StripTurns DEF Ring, Before
  <2>6. QuarterTurn[s][k][q] = p
    BY <2>3, <2>5, TurnedFrom
  <2> QED
    BY <2>3, <2>4, <2>6
<1>12. ASSUME NEW q \in Square, ~OnStrip(q, s, k) PROVE moved[q] = q
  BY <1>2, <1>3, <1>5, <1>9, <1>12 DEF Rotated, OnStrip
<1> QED
  BY <1>1, <1>10, <1>11, <1>12

\* The parts have no square in common, and what none of them moves stays.
LEMMA Regions ==
  ASSUME NEW s \in Side, NEW k \in LayerIndex, NEW q \in Square
  PROVE  /\ QuarterTurn[s][k][q] \in Square
         /\ OnFront(q, s, k) => ~OnBack(q, s, k) /\ ~OnStrip(q, s, k)
         /\ OnBack(q, s, k) => ~OnStrip(q, s, k)
         /\ ~OnFront(q, s, k) /\ ~OnBack(q, s, k) /\ ~OnStrip(q, s, k)
              => QuarterTurn[s][k][q] = q
         /\ q \in Touched(s, k) <=> OnFront(q, s, k) \/ OnBack(q, s, k) \/ OnStrip(q, s, k)
<1>1. OnStrip(q, s, k) => q[1] # s /\ q[1] # Opposite(s)
  BY PieceOf, SidesAround DEF OnStrip
<1>2. Opposite(s) # s
  BY SidesAround
<1>3. ~OnFront(q, s, k) /\ ~OnBack(q, s, k) /\ ~OnStrip(q, s, k)
        => QuarterTurn[s][k][q] = q
  <2> SUFFICES ASSUME ~OnFront(q, s, k), ~OnBack(q, s, k), ~OnStrip(q, s, k)
               PROVE  QuarterTurn[s][k][q] = q
    OBVIOUS
  <2>1. Lands(q, q, s, k)
    BY StripsCover DEF Lands
  <2> QED
    BY <2>1, TurnedFrom
<1>4. q \in Touched(s, k) <=> OnFront(q, s, k) \/ OnBack(q, s, k) \/ OnStrip(q, s, k)
  <2>1. correlations(s, FRONT) = s
    BY DEF correlations, Neighbours, FRONT, Side
  <2> QED
    BY <2>1 DEF Touched, OnFront, OnBack, OnStrip, Piece, Directions, Opposite
<1>5. QuarterTurn[s][k][q] \in Square
  BY <1>3, FrontMoves, BackMoves, StripsMove
<1> QED
  BY <1>1, <1>2, <1>3, <1>4, <1>5 DEF OnFront, OnBack

-----------------------------------------------------------------------------
(***************************************************************************)
(* The rotations in progress.  The parts that a thread has still to do are *)
(* those its place in perform_rotate says.                                 *)
(***************************************************************************)
PartNames == {"front", "back", "strips"}

PartOf(part) ==
  IF part = "front" THEN FrontPart
  ELSE IF part = "back" THEN BackPart ELSE rotate_layer_pieces

On(part, q, s, k) ==
  IF part = "front" THEN OnFront(q, s, k)
  ELSE IF part = "back" THEN OnBack(q, s, k) ELSE OnStrip(q, s, k)

PartsLeft(place) ==
  IF place = "front" THEN {"front", "back", "strips"}
  ELSE IF place = "back" THEN {"back", "strips"}
  ELSE IF place = "strips" THEN {"strips"} ELSE {}

\* The turn of the layer of t, and the squares that it has not moved yet.
From(t, q) == QuarterTurn[call[t].side][call[t].layer][q]
Undone(t, q) == \E part \in PartsLeft(pc[t]) : On(part, q, call[t].side, call[t].layer)

\* A square waits for one rotation at most, and shows what the turn of it will
\* bring there; the other squares are as on the solid.
TurnInv ==
  /\ cube \in [Square -> Square] /\ solid \in [Square -> Square]
  /\ \A q \in Square, t \in Thread : Undone(t, q) => solid[q] = cube[From(t, q)]
  /\ \A q \in Square : (\A t \in Thread : ~Undone(t, q)) => solid[q] = cube[q]

\* What perform_show has read is that of the solid.
SideViews == UNION {{get_side(c, s) : s \in Side} : c \in [Square -> Square]}

ViewInv ==
  /\ view \in [Thread -> Seq(SideViews)]
  /\ \A t \in Thread : /\ view[t] # <<>> => pc[t] = "show"
                       /\ pc[t] = "show" => call[t] = Show
                       /\ Len(view[t]) <= 6
  /\ ShowsWholeTurns

SolidInv == PermitsInv /\ TurnInv /\ ViewInv

-----------------------------------------------------------------------------
LEMMA PartMoves ==
  ASSUME NEW s \in Side, NEW k \in LayerIndex, NEW part \in PartNames, NEW q \in Square
  PROVE  /\ PartOf(part)[s][k] \in [Square -> Square]
         /\ On(part, q, s, k) => /\ PartOf(part)[s][k][q] = QuarterTurn[s][k][q]
                                 /\ On(part, QuarterTurn[s][k][q], s, k)
         /\ ~On(part, q, s, k) => PartOf(part)[s][k][q] = q
         /\ QuarterTurn[s][k][q] \in Square
         /\ On(part, q, s, k) => /\ q \in Touched(s, k)
                                 /\ \A p \in PartNames : On(p, q, s, k) => p = part
         /\ q \in Touched(s, k) => \E p \in PartNames : On(p, q, s, k)
         /\ q \notin Touched(s, k) => QuarterTurn[s][k][q] = q
<1>1. part = "front" \/ part = "back" \/ part = "strips"
  BY DEF PartNames
<1>2. /\ PartOf(part)[s][k] \in [Square -> Square]
      /\ On(part, q, s, k) => /\ PartOf(part)[s][k][q] = QuarterTurn[s][k][q]
                              /\ On(part, QuarterTurn[s][k][q], s, k)
      /\ ~On(part, q, s, k) => PartOf(part)[s][k][q] = q
  BY <1>1, FrontMoves, BackMoves, StripsMove DEF PartOf, On
<1> QED
  BY <1>1, <1>2, Regions DEF On, PartNames

\* The call of a thread that rotates.
LEMMA RotatesLayer ==
  ASSUME PermitsInv, NEW t \in Thread, pc[t] = "layer" \/ Rotating(t)
  PROVE  call[t].side \in Side /\ call[t].layer \in LayerIndex /\ call[t].op = "rotate"
<1>1. call[t].op = "rotate"
  BY DEF PermitsInv, LayerInv
<1>2. call[t] \in {Rotation(x, y) : x \in Side, y \in LayerIndex}
  BY <1>1, CallsAssumption DEF PermitsInv, AxisInv, TypeInv, Show
<1> QED
  BY <1>1, <1>2 DEF Rotation

\* A square that waits for a rotation is one that it touches.
LEMMA UndoneTouched ==
  ASSUME PermitsInv, NEW t \in Thread, NEW q \in Square, Undone(t, q)
  PROVE  /\ Rotating(t) /\ q \in Touched(call[t].side, call[t].layer)
         /\ From(t, q) \in Square /\ From(t, q) \in Touched(call[t].side, call[t].layer)
<1>1. PICK part \in PartsLeft(pc[t]) : On(part, q, call[t].side, call[t].layer)
  BY DEF Undone
<1>2. Rotating(t) /\ part \in PartNames
  BY DEF PartsLeft, Rotating, PartNames
<1>3. call[t].side \in Side /\ call[t].layer \in LayerIndex
  BY <1>2, RotatesLayer
<1>4. q \in Touched(call[t].side, call[t].layer) /\ From(t, q) \in Square
  BY <1>1, <1>2, <1>3, PartMoves DEF From
<1>5. On(part, From(t, q), call[t].side, call[t].layer)
  BY <1>1, <1>2, <1>3, PartMoves DEF From
<1>6. From(t, q) \in Touched(call[t].side, call[t].layer)
  BY <1>2, <1>3, <1>4, <1>5, PartMoves
<1> QED
  BY <1>2, <1>4, <1>6

\* So it waits for no other.
LEMMA UndoneOnce ==
  ASSUME PermitsInv, NEW t \in Thread, NEW u \in Thread, Rotating(t),
         NEW q \in Touched(call[t].side, call[t].layer), q \in Square, t # u
  PROVE  ~Undone(u, q)
BY UndoneTouched, SquaresMean DEF DisjointSquares

\* A part of a rotation brings the squares of the part to where the solid has
\* them, and leaves the others alone.
LEMMA PartTurns ==
  ASSUME PermitsInv, TurnInv, NEW t \in Thread, perform_rotate(t), UNCHANGED solid
  PROVE  TurnInv'
<1>1. PICK part \in PartNames :
        /\ pc[t] = part /\ cube' = Moved(cube, PartOf(part)[call[t].side][call[t].layer])
        /\ \E to \in Places : Go(t, to) /\ PartsLeft(to) = PartsLeft(part) \ {part}
        /\ call' = call
  BY DEF perform_rotate, Part, PartNames, PartOf, PartsLeft, Places
<1>2. /\ pc \in [Thread -> Places] /\ Rotating(t) /\ part \in PartsLeft(pc[t])
      /\ PartsLeft(part) \subseteq PartNames
  BY <1>1 DEF PermitsInv, AxisInv, TypeInv, Rotating, PartNames, PartsLeft
<1> DEFINE s == call[t].side
           k == call[t].layer
           m == PartOf(part)[s][k]
<1>3. s \in Side /\ k \in LayerIndex
  BY <1>2, RotatesLayer
<1>4. cube \in [Square -> Square] /\ solid \in [Square -> Square]
  BY DEF TurnInv
<1>5. cube' = [q \in Square |-> cube[m[q]]]
  BY <1>1 DEF Moved
<1>6. \A q \in Square : m[q] \in Square
  BY <1>3, PartMoves
<1>7. /\ \A u \in Thread \ {t} : pc'[u] = pc[u]
      /\ PartsLeft(pc'[t]) = PartsLeft(pc[t]) \ {part}
  BY <1>1, <1>2 DEF Go
<1>8. ASSUME NEW q \in Square
      PROVE  /\ \A u \in Thread \ {t} : Undone(u, q)' <=> Undone(u, q)
             /\ \A u \in Thread : From(u, q)' = From(u, q)
             /\ Undone(t, q)' <=> Undone(t, q) /\ ~On(part, q, s, k)
  <2>1. \A u \in Thread \ {t} : Undone(u, q)' <=> Undone(u, q)
    BY <1>1, <1>7 DEF Undone
  <2>2. \A u \in Thread : From(u, q)' = From(u, q)
    BY <1>1 DEF From
  <2>3. \A p \in PartsLeft(pc[t]) : On(part, q, s, k) /\ On(p, q, s, k) => p = part
    BY <1>1, <1>2, <1>3, PartMoves
  <2>4. Undone(t, q)' <=> \E p \in PartsLeft(pc[t]) \ {part} : On(p, q, s, k)
    BY <1>1, <1>7 DEF Undone
  <2> QED
    BY <2>1, <2>2, <2>3, <2>4 DEF Undone
<1> HIDE DEF s, k, m
<1>9. ASSUME NEW q \in Square, On(part, q, s, k)
      PROVE  cube'[q] = solid[q] /\ \A u \in Thread : ~Undone(u, q)'
  <2>1. Undone(t, q)
    BY <1>2, <1>9 DEF Undone, s, k
  <2>2. cube'[q] = cube[From(t, q)]
    <3>1. m[q] = QuarterTurn[s][k][q]
      BY <1>3, <1>9, PartMoves DEF m
    <3> QED
      BY <1>5, <3>1 DEF From, s, k
  <2>3. q \in Touched(s, k)
    BY <1>3, <1>9, PartMoves
  <2>4. \A u \in Thread \ {t} : ~Undone(u, q)
    BY <1>2, <2>3, UndoneOnce DEF s, k
  <2> QED
    BY <1>8, <1>9, <2>1, <2>2, <2>4 DEF TurnInv
<1>10. ASSUME NEW q \in Square, ~On(part, q, s, k)
       PROVE  cube'[q] = cube[q]
  BY <1>3, <1>5, <1>10, PartMoves DEF m
<1>11. ASSUME NEW q \in Square, NEW u \in Thread, Undone(u, q), ~On(part, q, s, k)
       PROVE  cube'[From(u, q)] = solid[q]
  <2>1. From(u, q) \in Square
    BY <1>11, UndoneTouched
  <2>2. ~On(part, From(u, q), s, k)
    <3>1. CASE u # t
      <4>1. From(u, q) \in Touched(call[u].side, call[u].layer) /\ Rotating(u)
        BY <1>11, UndoneTouched
      <4>2. From(u, q) \notin Touched(s, k)
        BY <1>2, <3>1, <4>1, SquaresMean DEF DisjointSquares, s, k
      <4> QED
        BY <1>3, <2>1, <4>2, PartMoves
    <3>2. CASE u = t
      <4>1. PICK p \in PartsLeft(pc[t]) : On(p, q, s, k) /\ p # part
        BY <1>11, <3>2 DEF Undone, s, k
      <4>2. p \in PartNames
        BY <1>1, <1>2
      <4>3. On(p, From(t, q), s, k)
        BY <1>3, <4>1, <4>2, PartMoves DEF From, s, k
      <4> QED
        BY <1>3, <2>1, <3>2, <4>1, <4>2, <4>3, PartMoves
    <3> QED
      BY <3>1, <3>2
  <2>3. cube'[From(u, q)] = cube[From(u, q)]
    BY <1>10, <2>1, <2>2
  <2> QED
    BY <1>11, <2>3 DEF TurnInv
<1>12. cube' \in [Square -> Square]
  BY <1>4, <1>5, <1>6
<1>13. ASSUME NEW q \in Square, NEW u \in Thread, Undone(u, q)'
       PROVE  solid'[q] = cube'[From(u, q)']
  <2>1. ~On(part, q, s, k)
    BY <1>9, <1>13
  <2>2. Undone(u, q)
    BY <1>8, <1>13
  <2> QED
    BY <1>8, <1>11, <2>1, <2>2
<1>14. ASSUME NEW q \in Square, \A u \in Thread : ~Undone(u, q)'
       PROVE  solid'[q] = cube'[q]
  <2>1. CASE On(part, q, s, k)
    BY <1>9, <2>1
  <2>2. CASE ~On(part, q, s, k)
    <3>1. \A u \in Thread : ~Undone(u, q)
      BY <1>8, <1>14, <2>2
    <3> QED
      BY <1>10, <2>2, <3>1 DEF TurnInv
  <2> QED
    BY <2>1, <2>2
<1> QED
  BY <1>4, <1>12, <1>13, <1>14 DEF TurnInv

\* A step that lets nobody into a layer and moves no square.
LEMMA TurnsStay ==
  ASSUME TurnInv, UNCHANGED <<cube, solid>>,
         \A u \in Thread : /\ PartsLeft(pc'[u]) = PartsLeft(pc[u])
                           /\ PartsLeft(pc[u]) # {} => call'[u] = call[u]
  PROVE  TurnInv'
<1>1. \A u \in Thread, q \in Square : Undone(u, q)' <=> Undone(u, q)
  BY DEF Undone
<1>2. \A u \in Thread, q \in Square : Undone(u, q) => From(u, q)' = From(u, q)
  BY DEF Undone, From
<1> QED
  BY <1>1, <1>2 DEF TurnInv

\* When t is let into its layer the solid turns there, and the squares of the
\* layer wait for t; before that none of them waited for anybody.
LEMMA DisjointNext == PermitsInv' => DisjointSquares'
BY SquaresMean, PTL

LEMMA PassTurns ==
  ASSUME PermitsInv, PermitsInv', TurnInv, NEW t \in Thread,
         PassLayer(t), solid' = Turned(t)
  PROVE  TurnInv'
<1> DEFINE s == call[t].side
           k == call[t].layer
<1>1. /\ pc \in [Thread -> Places] /\ pc[t] = "layer" /\ Go(t, "front")
      /\ cube' = cube /\ call' = call
  BY DEF PermitsInv, AxisInv, TypeInv, PassLayer, data
<1>2. s \in Side /\ k \in LayerIndex
  BY <1>1, RotatesLayer
<1>3. cube \in [Square -> Square] /\ solid \in [Square -> Square]
  BY DEF TurnInv
<1>4. /\ \A u \in Thread \ {t} : pc'[u] = pc[u]
      /\ pc'[t] = "front" /\ PartsLeft(pc'[t]) = PartNames /\ PartsLeft(pc[t]) = {}
  BY <1>1 DEF Go, PartsLeft, PartNames
<1>5. \A q \in Square : From(t, q) \in Square /\ solid'[q] = solid[From(t, q)]
  <2>1. \A q \in Square : QuarterTurn[s][k][q] \in Square
    BY <1>2, PartMoves DEF PartNames
  <2> QED
    BY <2>1 DEF Turned, From
<1>6. solid' \in [Square -> Square]
  BY <1>3, <1>5 DEF Turned, From
<1>7. ASSUME NEW q \in Square
      PROVE  /\ ~Undone(t, q)
             /\ \A u \in Thread \ {t} : Undone(u, q)' <=> Undone(u, q)
             /\ \A u \in Thread : From(u, q)' = From(u, q)
             /\ Undone(t, q)' <=> q \in Touched(s, k)
  <2>1. Undone(t, q)' <=> \E p \in PartNames : On(p, q, s, k)
    BY <1>1, <1>4 DEF Undone
  <2>2. Undone(t, q)' <=> q \in Touched(s, k)
    BY <1>2, <2>1, PartMoves DEF PartNames
  <2> QED
    BY <1>1, <1>4, <2>2 DEF Undone, From
<1>8. ASSUME NEW q \in Square, q \in Touched(s, k), NEW u \in Thread PROVE ~Undone(u, q)
  <2> SUFFICES ASSUME u # t, Undone(u, q) PROVE FALSE
    BY <1>7
  <2>1. Rotating(u) /\ q \in Touched(call[u].side, call[u].layer)
    BY UndoneTouched
  <2>2. Rotating(u)' /\ Rotating(t)'
    BY <1>4, <2>1 DEF Rotating
  <2> QED
    BY <1>1, <1>8, <2>1, <2>2, DisjointNext DEF DisjointSquares
<1> HIDE DEF s, k
<1>9. ASSUME NEW q \in Square, q \in Touched(s, k) PROVE solid'[q] = cube[From(t, q)]
  <2>1. From(t, q) \in Touched(s, k)
    <3>1. PICK p \in PartNames : On(p, q, s, k)
      BY <1>2, <1>9, PartMoves DEF PartNames
    <3>2. On(p, From(t, q), s, k)
      BY <1>2, <3>1, PartMoves DEF From, s, k
    <3> QED
      BY <1>2, <1>5, <3>2, PartMoves
  <2>2. \A u \in Thread : ~Undone(u, From(t, q))
    BY <1>5, <1>8, <2>1
  <2> QED
    BY <1>5, <2>2 DEF TurnInv
<1>10. ASSUME NEW q \in Square, q \notin Touched(s, k) PROVE solid'[q] = solid[q]
  <2>1. From(t, q) = q
    BY <1>2, <1>10, PartMoves DEF PartNames, From, s, k
  <2> QED
    BY <1>5, <2>1
<1>11. ASSUME NEW q \in Square, NEW u \in Thread, Undone(u, q)'
       PROVE  solid'[q] = cube'[From(u, q)']
  <2>1. CASE q \in Touched(s, k)
    <3>1. u = t
      BY <1>7, <1>8, <1>11, <2>1
    <3> QED
      BY <1>1, <1>7, <1>9, <2>1, <3>1
  <2>2. CASE q \notin Touched(s, k)
    <3>1. Undone(u, q)
      BY <1>7, <1>11, <2>2
    <3> QED
      BY <1>1, <1>7, <1>10, <2>2, <3>1 DEF TurnInv
  <2> QED
    BY <2>1, <2>2
<1>12. ASSUME NEW q \in Square, \A u \in Thread : ~Undone(u, q)' PROVE solid'[q] = cube'[q]
  <2>1. q \notin Touched(s, k) /\ \A u \in Thread : ~Undone(u, q)
    BY <1>7, <1>12
  <2> QED
    BY <1>1, <1>10, <2>1 DEF TurnInv
<1> QED
  BY <1>1, <1>3, <1>6, <1>11, <1>12 DEF TurnInv

\* When nobody rotates no square waits.
LEMMA SolidMeans == TurnInv => CubeIsSolid
<1> SUFFICES ASSUME TurnInv, \A t \in Thread : ~Rotating(t) PROVE cube = solid
  BY DEF CubeIsSolid
<1>1. \A q \in Square, t \in Thread : ~Undone(t, q)
  BY DEF Undone, PartsLeft, Rotating
<1> QED
  BY <1>1 DEF TurnInv

-----------------------------------------------------------------------------
\* Who shows the cube has it to itself.
LEMMA ShowsAlone ==
  ASSUME PermitsInv, ViewInv, NEW t \in Thread, pc[t] = "show", NEW u \in Thread
  PROVE  ~Rotating(u)
<1> SUFFICES ASSUME Rotating(u) PROVE FALSE
  OBVIOUS
<1>1. call[t] = Show
  BY DEF ViewInv
<1>2. call[u].side \in Side
  BY RotatesLayer
<1>3. ExclusiveAxis
  BY AxisMeans DEF PermitsInv
<1>4. call[u].side = call[t].side
  BY <1>1, <1>3 DEF ExclusiveAxis, Performing
<1> QED
  BY <1>1, <1>2, <1>4 DEF Show, NoSide, Side

\* A step of a thread that neither shows nor begins or ends a part of a rotation.
Aside(t) ==
  \E to \in Places :
    /\ Go(t, to)
    /\ pc[t] \notin {"front", "back", "strips", "show"}
    /\ to \notin {"front", "back", "strips"}
    /\ to = "show" => call'[t] = Show
    /\ \A u \in Thread \ {t} : call'[u] = call[u]
    /\ UNCHANGED <<cube, view, solid>>

LEMMA AsideSolid ==
  ASSUME PermitsInv, TurnInv, ViewInv, NEW t \in Thread, Aside(t)
  PROVE  TurnInv' /\ ViewInv'
<1>1. PICK to \in Places :
        /\ Go(t, to)
        /\ pc[t] \notin {"front", "back", "strips", "show"}
        /\ to \notin {"front", "back", "strips"}
        /\ to = "show" => call'[t] = Show
        /\ \A u \in Thread \ {t} : call'[u] = call[u]
        /\ UNCHANGED <<cube, view, solid>>
  BY DEF Aside
<1>2. pc \in [Thread -> Places]
  BY DEF PermitsInv, AxisInv, TypeInv
<1>3. pc'[t] = to /\ \A u \in Thread \ {t} : pc'[u] = pc[u]
  BY <1>1, <1>2 DEF Go
<1>4. TurnInv'
  <2>1. PartsLeft(pc'[t]) = {} /\ PartsLeft(pc[t]) = {}
    BY <1>1, <1>3 DEF PartsLeft
  <2>2. \A u \in Thread : /\ PartsLeft(pc'[u]) = PartsLeft(pc[u])
                          /\ PartsLeft(pc[u]) # {} => call'[u] = call[u]
    BY <1>1, <1>3, <2>1
  <2> QED
    BY <1>1, <2>2, TurnsStay
<1>5. ViewInv'
  BY <1>1, <1>3 DEF ViewInv, ShowsWholeTurns
<1> QED
  BY <1>4, <1>5

\* perform_show reads one more side, of a cube that is the solid.
LEMMA ShowSolid ==
  ASSUME PermitsInv, TurnInv, ViewInv, NEW t \in Thread, perform_show(t), UNCHANGED solid
  PROVE  TurnInv' /\ ViewInv'
<1>1. /\ pc[t] = "show" /\ Len(view[t]) < Cardinality(Side)
      /\ view' = [view EXCEPT ![t] = Append(view[t], get_side(cube, Len(view[t])))]
      /\ UNCHANGED <<cube, solid, pc, call>>
  BY DEF perform_show
<1>2. TurnInv'
  BY <1>1, TurnsStay
<1>3. cube = solid
  <2>1. \A u \in Thread : ~Rotating(u)
    BY <1>1, ShowsAlone
  <2> QED
    BY <2>1, SolidMeans DEF CubeIsSolid
<1>4. Cardinality(Side) = 6
  <2>1. 0 \in Int /\ 5 \in Int
    OBVIOUS
  <2>2. Cardinality(0..5) = IF 0 > 5 THEN 0 ELSE 5 - 0 + 1
    BY <2>1, FS_Interval, Zenon
  <2> QED
    BY <2>2 DEF Side
<1> DEFINE v == view[t]
           n == get_side(solid, Len(v))
           w == Append(v, n)
<1>5. v \in Seq(SideViews) /\ Len(v) \in 0..5
  <2>1. v \in Seq(SideViews) /\ Len(v) < 6
    BY <1>1, <1>4 DEF ViewInv
  <2> HIDE DEF v
  <2>2. Len(v) \in Nat
    BY <2>1, LenProperties
  <2>3. \A x \in Nat : x < 6 => x \in 0..5
    OBVIOUS
  <2> QED
    BY <2>1, <2>2, <2>3, Zenon
<1>6. n \in SideViews
  <2>1. solid \in [Square -> Square]
    BY DEF TurnInv
  <2>2. Len(v) \in Side
    BY <1>5 DEF Side
  <2> QED
    BY <2>1, <2>2 DEF SideViews
<1>7. view' = [view EXCEPT ![t] = w]
  BY <1>1, <1>3
<1> HIDE DEF n
<1>8. /\ w \in Seq(SideViews) /\ Len(w) = Len(v) + 1
      /\ \A i \in 1..Len(v) : w[i] = v[i]
      /\ w[Len(v) + 1] = n
  BY <1>5, <1>6, AppendProperties
<1>9. \A i \in 1..Len(v) : v[i] = get_side(solid, i - 1)
  BY DEF ViewInv, ShowsWholeTurns
<1> HIDE DEF v, w
<1>10. \A i \in 1..Len(w) : w[i] = get_side(solid, i - 1)
  <2>1. w[Len(v) + 1] = get_side(solid, (Len(v) + 1) - 1)
    BY <1>5, <1>8 DEF n
  <2> QED
    BY <1>5, <1>8, <1>9, <2>1
<1>11. view' \in [Thread -> Seq(SideViews)]
  BY <1>7, <1>8 DEF ViewInv
<1>12. view'[t] = w /\ \A u \in Thread \ {t} : view'[u] = view[u]
  BY <1>7 DEF ViewInv
<1>13. Len(w) <= 6
  BY <1>5, <1>8
<1>14. ShowsWholeTurns'
  <2> SUFFICES ASSUME NEW u \in Thread, NEW i \in 1..Len(view'[u])
               PROVE  view'[u][i] = get_side(solid, i - 1)
    BY <1>1 DEF ShowsWholeTurns, get_side
  <2>1. CASE u = t
    BY <1>10, <1>12, <2>1
  <2>2. CASE u # t
    BY <1>12, <2>2 DEF ViewInv, ShowsWholeTurns
  <2> QED
    BY <2>1, <2>2
<1> QED
  BY <1>1, <1>2, <1>11, <1>12, <1>13, <1>14 DEF ViewInv

\* Who leaves forgets what it has read.
LEMMA LeaveSolid ==
  ASSUME PermitsInv, TurnInv, ViewInv, NEW t \in Thread, Leave(t), UNCHANGED solid
  PROVE  TurnInv' /\ ViewInv'
<1>1. /\ pc[t] \in {"leave", "show"} /\ Go(t, "idle")
      /\ view' = [view EXCEPT ![t] = <<>>]
      /\ UNCHANGED <<cube, solid, call>>
  BY DEF Leave
<1>2. pc \in [Thread -> Places] /\ view \in [Thread -> Seq(SideViews)]
  BY DEF PermitsInv, AxisInv, TypeInv, ViewInv
<1>3. /\ pc'[t] = "idle" /\ \A u \in Thread \ {t} : pc'[u] = pc[u]
      /\ view'[t] = <<>> /\ \A u \in Thread \ {t} : view'[u] = view[u]
      /\ view' \in [Thread -> Seq(SideViews)]
  BY <1>1, <1>2 DEF Go
<1>4. TurnInv'
  <2>1. PartsLeft(pc'[t]) = PartsLeft(pc[t])
    BY <1>1, <1>3 DEF PartsLeft
  <2> QED
    BY <1>1, <1>3, <2>1, TurnsStay
<1>5. ViewInv'
  BY <1>1, <1>3 DEF ViewInv, ShowsWholeTurns
<1> QED
  BY <1>4, <1>5

\* A rotation begins or goes on while nobody shows the cube.
LEMMA AloneNext ==
  PermitsInv' => ExclusiveAxis'
<1>1. PermitsInv => ExclusiveAxis
  BY AxisMeans DEF PermitsInv
<1> QED
  BY <1>1, PTL

LEMMA RotateViews ==
  ASSUME PermitsInv, PermitsInv', TurnInv, ViewInv, NEW t \in Thread,
         PassLayer(t) \/ (perform_rotate(t) /\ UNCHANGED solid)
  PROVE  ViewInv'
<1>1. /\ pc \in [Thread -> Places] /\ pc[t] # "show" /\ UNCHANGED <<call, view>>
      /\ \E to \in Places : Go(t, to) /\ to \in {"front", "back", "strips", "done"}
      /\ pc[t] = "layer" \/ Rotating(t)
  BY DEF PermitsInv, AxisInv, TypeInv, PassLayer, perform_rotate, Part, data, Places, Rotating
<1>2. /\ \A u \in Thread \ {t} : pc'[u] = pc[u]
      /\ Rotating(t)'
  BY <1>1 DEF Go, Rotating
<1>3. ASSUME NEW u \in Thread PROVE pc[u] # "show"
  <2> SUFFICES ASSUME pc[u] = "show" PROVE FALSE
    OBVIOUS
  <2>1. call[u] = Show /\ pc'[u] = "show"
    BY <1>1, <1>2 DEF ViewInv
  <2>2. call'[u].side = call'[t].side \/ call'[u] # Show
    BY <1>2, <2>1, AloneNext DEF ExclusiveAxis, Performing
  <2>3. call[t].side \in Side
    BY <1>1, RotatesLayer
  <2> QED
    BY <1>1, <2>1, <2>2, <2>3 DEF Show, NoSide, Side
<1>4. \A u \in Thread : view[u] = <<>>
  BY <1>3 DEF ViewInv
<1>5. ShowsWholeTurns'
  BY <1>1, <1>4 DEF ShowsWholeTurns
<1>6. \A u \in Thread : pc'[u] # "show"
  BY <1>2, <1>3 DEF Rotating
<1> QED
  BY <1>1, <1>4, <1>5, <1>6 DEF ViewInv

-----------------------------------------------------------------------------
LEMMA SolidStart == SolidInit => SolidInv
<1> SUFFICES ASSUME SolidInit PROVE SolidInv
  OBVIOUS
<1>1. PermitsInv
  BY PermitsInit DEF SolidInit
<1>2. \A t \in Thread, q \in Square : ~Undone(t, q)
  BY DEF SolidInit, CubeInit, Undone, PartsLeft
<1>3. TurnInv
  BY <1>2 DEF SolidInit, CubeInit, TurnInv
<1>4. ViewInv
  <2>1. view \in [Thread -> Seq(SideViews)]
    BY DEF SolidInit, CubeInit
  <2> QED
    BY <2>1 DEF SolidInit, CubeInit, ViewInv, ShowsWholeTurns
<1> QED
  BY <1>1, <1>3, <1>4 DEF SolidInv

LEMMA NextSolid ==
  ASSUME "mutex" \notin Interruptible, SolidInv, [SolidNext]_solidVars
  PROVE  SolidInv'
<1>1. /\ PermitsInv /\ TurnInv /\ ViewInv /\ pc \in [Thread -> Places]
      /\ call \in [Thread -> Calls \cup {Show}]
  BY DEF SolidInv, PermitsInv, AxisInv, TypeInv
<1>2. PermitsInv'
  <2>1. [CubeNext]_vars
    BY DEF SolidNext, SolidStep, CubeNext, solidVars
  <2> QED
    BY <1>1, <2>1, NextPermits
<1>3. ASSUME NEW t \in Thread
      PROVE  Inside(t) \in {"show", "index"} /\ (Inside(t) = "show" => call[t] = Show)
  <2>1. call[t] \in {Rotation(s, k) : s \in Side, k \in LayerIndex} \cup {Show}
    BY <1>1, CallsAssumption
  <2> QED
    BY <2>1 DEF Inside, Rotation, Show
<1>4. ASSUME NEW t \in Thread, UNCHANGED solid,
             \/ ThrowMutex(t) \/ PassMutex(t) \/ PassGuardian(t) \/ ThrowGuardian(t)
             \/ JoinLayer(t) \/ ThrowLayer(t) \/ ReleaseLayer(t) \/ Handle(t)
             \/ \E c \in Calls : Call(t, c)
      PROVE  Aside(t)
  <2>1. CASE PassMutex(t)
    BY <1>3, <1>4, <2>1
       DEF PassMutex, JoinGroup, StartGroup, RefuseGroup, Throw, Aside, Places, data
  <2>2. CASE PassGuardian(t)
    BY <1>3, <1>4, <2>2 DEF PassGuardian, Aside, Places, data
  <2>3. CASE ThrowMutex(t) \/ ThrowGuardian(t) \/ ThrowLayer(t) \/ Handle(t)
    BY <1>4, <2>3
       DEF ThrowMutex, ThrowGuardian, ThrowLayer, Handle, Throw, Aside, Places, data
  <2>4. CASE JoinLayer(t) \/ ReleaseLayer(t)
    BY <1>4, <2>4 DEF JoinLayer, ReleaseLayer, Aside, Places, data
  <2>5. CASE \E c \in Calls : Call(t, c)
    BY <1>1, <1>4, <2>5 DEF Call, Aside, Places, data
  <2> QED
    BY <1>4, <2>1, <2>2, <2>3, <2>4, <2>5
<1>5. ASSUME NEW t \in Thread, Proceed(t), UNCHANGED solid PROVE TurnInv' /\ ViewInv'
  BY <1>1, <1>2, <1>4, <1>5, AsideSolid, PartTurns, RotateViews, ShowSolid, LeaveSolid
     DEF Proceed
<1>6. ASSUME NEW t \in Thread, PassLayer(t), solid' = Turned(t) PROVE TurnInv' /\ ViewInv'
  BY <1>1, <1>2, <1>6, PassTurns, RotateViews
<1>7. ASSUME UNCHANGED <<cube, view, pc, call, solid>> PROVE TurnInv' /\ ViewInv'
  <2>1. TurnInv'
    BY <1>1, <1>7, TurnsStay
  <2> QED
    BY <1>1, <1>7, <2>1 DEF ViewInv, ShowsWholeTurns
<1>8. ASSUME NEW t \in Thread, Disturb(t), UNCHANGED solid PROVE TurnInv' /\ ViewInv'
  <2>1. CASE Interrupt(t)
    BY <1>7, <1>8, <2>1 DEF Interrupt, data
  <2>2. CASE \E c \in Calls : Call(t, c)
    BY <1>1, <1>4, <1>8, <2>2, AsideSolid
  <2> QED
    BY <1>8, <2>1, <2>2 DEF Disturb
<1>9. ASSUME UNCHANGED solidVars PROVE TurnInv' /\ ViewInv'
  BY <1>7, <1>9 DEF solidVars, vars, data
<1> QED
  BY <1>2, <1>5, <1>6, <1>8, <1>9 DEF SolidNext, SolidStep, SolidInv

\* Whenever nobody rotates the cube is the solid after whole turns, one for each
\* rotation that was let into its layer: for every size and any number of
\* threads the tables of Side.java and Cube.java, rotate_front_layer and the
\* strips add up to quarter turns, whatever the parts of perform_rotate
\* interleave with.
THEOREM TurnsOfSolid ==
  ASSUME "mutex" \notin Interruptible
  PROVE  SolidSpec => []CubeIsSolid
<1>1. SolidInv /\ [SolidNext]_solidVars => SolidInv'
  BY NextSolid
<1>2. SolidInv => CubeIsSolid
  BY SolidMeans DEF SolidInv
<1> QED
  BY <1>1, <1>2, SolidStart, PTL DEF SolidSpec

\* And what perform_show puts together is such a solid, the same for all sides.
THEOREM ShownSolid ==
  ASSUME "mutex" \notin Interruptible
  PROVE  SolidSpec => []ShowsWholeTurns
<1>1. SolidInv /\ [SolidNext]_solidVars => SolidInv'
  BY NextSolid
<1>2. SolidInv => ShowsWholeTurns
  BY DEF SolidInv, ViewInv
<1> QED
  BY <1>1, <1>2, SolidStart, PTL DEF SolidSpec

-----------------------------------------------------------------------------
(***************************************************************************)
(* The calls.  Those of the group and those that wait to be let in were    *)
(* all made, and each waits for the mutex once.                            *)
(***************************************************************************)
Outside == {t \in Thread : pc[t] \in {"mutex", "guardian"}}

CallsInv ==
  /\ calls \in Nat /\ calls <= MaxCalls
  /\ IsFiniteSet(Outside)
  /\ rotating_previous_axis + Cardinality(Outside) <= calls
  /\ Once(mutex.queue)
  /\ \A i \in 1..Len(mutex.queue) : pc[mutex.queue[i].who] = "mutex"
  /\ \A t \in Thread : pc[t] = "idle" \/ call[t] \in Calls
  /\ \A t \in Thread : pc[t] = "leave" => call[t] # Show

\* A thread that moves is outside or not; w is the queue of the mutex after.
CallStep(t, to, w) ==
  /\ Go(t, to)
  /\ mutex'.queue = w /\ Once(w)
  /\ \A i \in 1..Len(w) :
       IF w[i].who = t THEN to = "mutex"
       ELSE \E j \in 1..Len(mutex.queue) : w[i] = mutex.queue[j]
  /\ \A u \in Thread \ {t} : call'[u] = call[u]
  /\ to # "idle" => call'[t] \in Calls
  /\ to = "leave" => call'[t] # Show

LEMMA OutsideMove ==
  ASSUME AxisInv, CallsInv, NEW t \in Thread, NEW to \in Places, Go(t, to)
  PROVE  /\ IsFiniteSet(Outside') /\ Cardinality(Outside) \in Nat
         /\ Cardinality(Outside') =
              Cardinality(Outside)
                + (IF to \in {"mutex", "guardian"} THEN 1 ELSE 0)
                - (IF pc[t] \in {"mutex", "guardian"} THEN 1 ELSE 0)
<1>1. pc \in [Thread -> Places] /\ IsFiniteSet(Outside)
  BY DEF AxisInv, TypeInv, CallsInv
<1>2. Outside' = IF to \in {"mutex", "guardian"} THEN Outside \cup {t} ELSE Outside \ {t}
  BY <1>1 DEF Outside, Go
<1>3. t \in Outside <=> pc[t] \in {"mutex", "guardian"}
  BY DEF Outside
<1>4. /\ Cardinality(Outside) \in Nat
      /\ IsFiniteSet(Outside \cup {t}) /\ IsFiniteSet(Outside \ {t})
      /\ Cardinality(Outside \cup {t}) =
           IF t \in Outside THEN Cardinality(Outside) ELSE Cardinality(Outside) + 1
      /\ Cardinality(Outside \ {t}) =
           IF t \in Outside THEN Cardinality(Outside) - 1 ELSE Cardinality(Outside)
  BY <1>1, FS_CardinalityType, FS_AddElement, FS_RemoveElement
<1>5. CASE to \in {"mutex", "guardian"}
  <2>1. Outside' = Outside \cup {t}
    BY <1>2, <1>5
  <2>2. Cardinality(Outside') = Cardinality(Outside \cup {t}) /\ IsFiniteSet(Outside')
    BY <1>4, <2>1
  <2> QED
    BY <1>3, <1>4, <1>5, <2>2
<1>6. CASE to \notin {"mutex", "guardian"}
  <2>1. Outside' = Outside \ {t}
    BY <1>2, <1>6
  <2>2. Cardinality(Outside') = Cardinality(Outside \ {t}) /\ IsFiniteSet(Outside')
    BY <1>4, <2>1
  <2> QED
    BY <1>3, <1>4, <1>6, <2>2
<1> QED
  BY <1>5, <1>6

LEMMA CallsMove ==
  ASSUME AxisInv, AxisInv', CallsInv, NEW t \in Thread, NEW to \in Places, NEW w,
         CallStep(t, to, w),
         calls' \in Nat, calls' <= MaxCalls,
         rotating_previous_axis' + Cardinality(Outside') <= calls'
  PROVE  CallsInv'
<1>1. pc \in [Thread -> Places] /\ Go(t, to)
  BY DEF AxisInv, TypeInv, CallStep
<1>2. pc'[t] = to /\ \A u \in Thread \ {t} : pc'[u] = pc[u]
  BY <1>1 DEF Go
<1>3. IsFiniteSet(Outside')
  BY <1>1, OutsideMove
<1>4. \A i \in 1..Len(w) : w[i].who \in Thread
  <2>1. w \in Seq([who : Thread, permits : {1}])
    BY DEF AxisInv, TypeInv, Semaphore, CallStep
  <2>2. \A i \in 1..Len(w) : w[i] \in [who : Thread, permits : {1}]
    BY <2>1, ElementOfSeq
  <2> QED
    BY <2>2
<1>5. ASSUME NEW i \in 1..Len(w) PROVE pc'[w[i].who] = "mutex"
  <2>1. IF w[i].who = t THEN to = "mutex"
        ELSE \E j \in 1..Len(mutex.queue) : w[i] = mutex.queue[j]
    BY DEF CallStep
  <2>2. CASE w[i].who = t
    BY <1>2, <2>1, <2>2
  <2>3. CASE w[i].who # t
    <3>1. PICK j \in 1..Len(mutex.queue) : w[i] = mutex.queue[j]
      BY <2>1, <2>3
    <3>2. pc[w[i].who] = "mutex"
      BY <3>1 DEF CallsInv
    <3> QED
      BY <1>2, <1>4, <2>3, <3>2
  <2> QED
    BY <2>2, <2>3
<1>6. \A u \in Thread : pc'[u] = "idle" \/ call'[u] \in Calls
  BY <1>2 DEF CallStep, CallsInv
<1>7. \A u \in Thread : pc'[u] = "leave" => call'[u] # Show
  BY <1>2 DEF CallStep, CallsInv
<1>8. Once(mutex.queue)' /\ \A i \in 1..Len(mutex'.queue) : pc'[mutex'.queue[i].who] = "mutex"
  BY <1>5 DEF CallStep, Once
<1> QED
  BY <1>3, <1>6, <1>7, <1>8 DEF CallsInv

\* A step of a thread that is inside, or outside the calls.
LEMMA InsideCalls ==
  ASSUME AxisInv, AxisInv', CallsInv, NEW t \in Thread, NEW to \in Places, Go(t, to),
         pc[t] \notin {"mutex", "guardian"}, to \notin {"mutex", "guardian"},
         pc[t] = "idle" => to = "idle",
         to = "leave" => call[t] # Show,
         UNCHANGED <<mutex, rotating_previous_axis, call, calls>>
  PROVE  CallsInv'
<1>1. Cardinality(Outside') = Cardinality(Outside)
  BY OutsideMove
<1>2. \A i \in 1..Len(mutex.queue) : mutex.queue[i].who # t
  BY DEF CallsInv
<1>3. CallStep(t, to, mutex.queue)
  BY <1>2 DEF CallStep, CallsInv
<1> QED
  BY <1>1, <1>3, CallsMove DEF CallsInv

LEMMA CallCalls ==
  ASSUME AxisInv, AxisInv', CallsInv, NEW t \in Thread, NEW c \in Calls, Call(t, c)
  PROVE  CallsInv'
<1> DEFINE q == mutex.queue
           e == [who |-> t, permits |-> 1]
<1>1. /\ pc[t] = "idle" /\ Go(t, "mutex") /\ call' = [call EXCEPT ![t] = c]
      /\ calls < MaxCalls /\ calls' = calls + 1 /\ mutex' = Join(mutex, t, 1)
      /\ UNCHANGED rotating_previous_axis
      /\ call \in [Thread -> Calls \cup {Show}] /\ mutex \in Semaphore({1})
      /\ rotating_previous_axis \in Nat
  BY DEF Call, group, AxisInv, TypeInv
<1>2. mutex'.queue = Append(q, e)
  BY <1>1, JoinFacts, 1 \in {1}
<1>3. q \in Seq([who : Thread, permits : {1}]) /\ e \in [who : Thread, permits : {1}]
  BY <1>1 DEF Semaphore
<1>4. /\ Len(q) \in Nat /\ Len(Append(q, e)) = Len(q) + 1
      /\ \A i \in 1..Len(q) : Append(q, e)[i] = q[i]
      /\ Append(q, e)[Len(q) + 1] = e
  BY <1>3, AppendProperties, LenProperties
<1>5. Once(q) /\ \A i \in 1..Len(q) : q[i].who # t
  BY <1>1 DEF CallsInv
<1> HIDE DEF q
<1>6. Once(Append(q, e))
  BY <1>4, <1>5 DEF Once
<1>7. \A i \in 1..Len(Append(q, e)) :
        IF Append(q, e)[i].who = t THEN "mutex" = "mutex"
        ELSE \E j \in 1..Len(q) : Append(q, e)[i] = q[j]
  BY <1>4, <1>5
<1>8. CallStep(t, "mutex", Append(q, e))
  BY <1>1, <1>2, <1>6, <1>7 DEF CallStep, q
<1>9. Cardinality(Outside') = Cardinality(Outside) + 1 /\ Cardinality(Outside) \in Nat
  BY <1>1, OutsideMove DEF Places
<1>10. /\ rotating_previous_axis' + Cardinality(Outside') <= calls'
       /\ calls' \in Nat /\ calls' <= MaxCalls
  <2>1. /\ calls \in Nat /\ calls <= MaxCalls /\ MaxCalls \in Nat
        /\ rotating_previous_axis + Cardinality(Outside) <= calls
    BY CallsAssumption DEF CallsInv
  <2> QED
    BY <1>1, <1>9, <2>1
<1> QED
  BY <1>8, <1>10, CallsMove DEF Places

\* The first of the mutex goes into the group, to collect permits, or out.
LEMMA PassMutexCalls ==
  ASSUME AxisInv, AxisInv', CallsInv, NEW t \in Thread, PassMutex(t)
  PROVE  CallsInv'
<1> DEFINE q == mutex.queue
<1>1. /\ pc[t] = "mutex" /\ CanPass(mutex, t) /\ UNCHANGED <<call, calls>>
      /\ mutex \in Semaphore({1}) /\ rotating_previous_axis \in Nat
      /\ call[t] \in Calls
  BY DEF PassMutex, JoinGroup, StartGroup, RefuseGroup, AxisInv, TypeInv, CallsInv
<1>2. /\ Head(q).who = t /\ Pass(mutex) \in Semaphore({1}) /\ Pass(mutex).queue = Tail(q)
      /\ q # <<>>
  <2>1. {1} \in SUBSET Nat
    OBVIOUS
  <2> QED
    BY <1>1, <2>1, PassFacts DEF CanPass
<1>3. mutex'.queue = Tail(q)
  BY <1>2, ReleaseFacts DEF PassMutex, JoinGroup, StartGroup, RefuseGroup
<1>4. q \in Seq([who : Thread, permits : {1}]) /\ Len(q) \in Nat /\ Once(q)
  BY <1>1, LenProperties DEF Semaphore, CallsInv
<1> HIDE DEF q
<1>5. /\ Len(q) >= 1 /\ q[1].who = t
      /\ Len(Tail(q)) = Len(q) - 1
      /\ \A i \in 1..Len(q) - 1 : Tail(q)[i] = q[i + 1]
  BY <1>2, <1>4, EmptySeq, HeadTailProperties
<1>6. /\ Once(Tail(q))
      /\ \A i \in 1..Len(Tail(q)) :
           Tail(q)[i].who # t /\ \E j \in 1..Len(q) : Tail(q)[i] = q[j]
  <2> DEFINE r == Tail(q)
  <2>1. /\ Len(q) \in Nat /\ Len(r) = Len(q) - 1
        /\ \A i \in 1..Len(q) - 1 : r[i] = q[i + 1]
        /\ Len(q) >= 1 /\ q[1].who = t
    BY <1>4, <1>5
  <2>2. \A i, j \in 1..Len(q) : q[i].who = q[j].who => i = j
    BY <1>4 DEF Once
  <2> HIDE DEF r
  <2>3. Once(r)
    BY <2>1, <2>2 DEF Once
  <2>4. ASSUME NEW i \in 1..Len(r)
        PROVE  r[i].who # t /\ \E j \in 1..Len(q) : r[i] = q[j]
    <3>1. i + 1 \in 1..Len(q) /\ 1 \in 1..Len(q) /\ i + 1 # 1 /\ r[i] = q[i + 1]
      BY <2>1
    <3> QED
      BY <2>1, <2>2, <3>1
  <2> QED
    BY <2>3, <2>4 DEF r
<1>7. /\ calls \in Nat /\ calls <= MaxCalls /\ Cardinality(Outside) \in Nat
      /\ rotating_previous_axis + Cardinality(Outside) <= calls
  BY FS_CardinalityType DEF CallsInv
<1>8. ASSUME NEW to \in {"show", "index", "guardian", "idle"}, Go(t, to)
      PROVE  CallStep(t, to, Tail(q))
  BY <1>1, <1>3, <1>6, <1>8 DEF CallStep, q
<1>9. CASE JoinGroup(t)
  <2>1. PICK to \in {"show", "index"} : Go(t, to)
    BY <1>9 DEF JoinGroup, Inside
  <2>2. Cardinality(Outside') = Cardinality(Outside) - 1
    BY <1>1, <2>1, OutsideMove DEF Places
  <2>3. rotating_previous_axis' = rotating_previous_axis + 1
    BY <1>9 DEF JoinGroup
  <2>4. rotating_previous_axis' + Cardinality(Outside') <= calls'
    BY <1>1, <1>7, <2>2, <2>3
  <2> QED
    BY <1>1, <1>7, <1>8, <2>1, <2>4, CallsMove DEF Places
<1>10. CASE StartGroup(t)
  <2>1. Go(t, "guardian") /\ UNCHANGED rotating_previous_axis
    BY <1>10 DEF StartGroup, group
  <2>2. Cardinality(Outside') = Cardinality(Outside)
    BY <1>1, <1>7, <2>1, OutsideMove DEF Places
  <2>3. rotating_previous_axis' + Cardinality(Outside') <= calls'
    BY <1>1, <1>7, <2>1, <2>2
  <2> QED
    BY <1>1, <1>7, <1>8, <2>1, <2>3, CallsMove DEF Places
<1>11. CASE RefuseGroup(t)
  <2>1. Go(t, "idle") /\ UNCHANGED rotating_previous_axis
    BY <1>11 DEF RefuseGroup, Throw, group
  <2>2. Cardinality(Outside') = Cardinality(Outside) - 1
    BY <1>1, <1>7, <2>1, OutsideMove DEF Places
  <2>3. rotating_previous_axis' + Cardinality(Outside') <= calls'
    BY <1>1, <1>7, <2>1, <2>2
  <2> QED
    BY <1>1, <1>7, <1>8, <2>1, <2>3, CallsMove DEF Places
<1> QED
  BY <1>9, <1>10, <1>11 DEF PassMutex

\* Who has collected the permits is the first of its group, or gives up.
LEMMA GuardianCalls ==
  ASSUME AxisInv, AxisInv', CallsInv, NEW t \in Thread, PassGuardian(t) \/ ThrowGuardian(t)
  PROVE  CallsInv'
<1>1. /\ pc[t] = "guardian" /\ mutex' = Release(mutex) /\ UNCHANGED <<call, calls>>
      /\ mutex \in Semaphore({1}) /\ rotating_previous_axis \in Nat /\ call[t] \in Calls
  BY DEF PassGuardian, ThrowGuardian, AxisInv, TypeInv, CallsInv
<1>2. mutex'.queue = mutex.queue
  BY <1>1, ReleaseFacts
<1>3. \A i \in 1..Len(mutex.queue) : mutex.queue[i].who # t
  BY <1>1 DEF CallsInv
<1>4. PICK to \in {"show", "index", "idle"} : Go(t, to)
  BY DEF PassGuardian, ThrowGuardian, Throw, Inside
<1>5. CallStep(t, to, mutex.queue)
  BY <1>1, <1>2, <1>3, <1>4 DEF CallStep, CallsInv
<1>6. /\ calls \in Nat /\ calls <= MaxCalls /\ Cardinality(Outside) \in Nat
      /\ rotating_previous_axis + Cardinality(Outside) <= calls
  BY FS_CardinalityType DEF CallsInv
<1>7. Cardinality(Outside') = Cardinality(Outside) - 1
  BY <1>1, <1>4, OutsideMove DEF Places
<1>8. rotating_previous_axis' = 1 \/ rotating_previous_axis' = rotating_previous_axis
  BY DEF PassGuardian, ThrowGuardian, group
<1>9. rotating_previous_axis' + Cardinality(Outside') <= calls'
  BY <1>1, <1>6, <1>7, <1>8
<1> QED
  BY <1>1, <1>4, <1>5, <1>6, <1>9, CallsMove DEF Places

LEMMA NextCalls ==
  ASSUME PermitsInv, PermitsInv', CallsInv, [CubeNext]_vars
  PROVE  CallsInv'
<1>1. /\ AxisInv /\ AxisInv' /\ pc \in [Thread -> Places]
      /\ \A t \in Thread : pc[t] = "mutex" => ~interrupted[t]
      /\ \A t \in Thread : pc[t] = "done" => call[t] # Show
  <2>1. \A t \in Thread : pc[t] = "done" => call[t] # Show
    BY DEF PermitsInv, LayerInv, Rotating, Show
  <2> QED
    BY <2>1 DEF PermitsInv, AxisInv, TypeInv, MutexInv
<1>2. ASSUME UNCHANGED <<pc, mutex, rotating_previous_axis, call, calls>> PROVE CallsInv'
  BY <1>2 DEF CallsInv, Outside, Once
<1>3. ASSUME NEW t \in Thread,
             \/ JoinLayer(t) \/ PassLayer(t) \/ perform_rotate(t) \/ ReleaseLayer(t)
             \/ Leave(t) \/ Handle(t) \/ ThrowLayer(t)
      PROVE  CallsInv'
  <2>1. UNCHANGED <<mutex, rotating_previous_axis, call, calls>>
    BY <1>3 DEF JoinLayer, PassLayer, perform_rotate, Part, ReleaseLayer, Leave, Handle,
       ThrowLayer, Throw, group, semaphores
  <2>2. \E to \in Places :
          /\ Go(t, to) /\ pc[t] \notin {"mutex", "guardian"}
          /\ to \notin {"mutex", "guardian"} /\ (pc[t] = "idle" => to = "idle")
          /\ to = "leave" => pc[t] = "done"
    BY <1>3 DEF JoinLayer, PassLayer, perform_rotate, Part, ReleaseLayer, Leave, Handle,
       ThrowLayer, Throw, Places
  <2> QED
    BY <1>1, <2>1, <2>2, InsideCalls
<1>4. ASSUME NEW t \in Thread, perform_show(t) \/ Interrupt(t) PROVE CallsInv'
  BY <1>2, <1>4 DEF perform_show, Interrupt, semaphores, group
<1>5. ASSUME UNCHANGED vars PROVE CallsInv'
  BY <1>2, <1>5 DEF vars, semaphores, group
<1>6. ASSUME NEW t \in Thread, Proceed(t) PROVE CallsInv'
  <2>1. ~ThrowMutex(t)
    BY <1>1 DEF ThrowMutex
  <2> QED
    BY <1>1, <1>3, <1>4, <1>6, <2>1, PassMutexCalls, GuardianCalls DEF Proceed
<1>7. ASSUME NEW t \in Thread, Disturb(t) PROVE CallsInv'
  BY <1>1, <1>4, <1>7, CallCalls DEF Disturb
<1> QED
  BY <1>3, <1>5, <1>6, <1>7 DEF CubeNext

LEMMA CallsStart == CubeInit => CallsInv
<1> SUFFICES ASSUME CubeInit PROVE CallsInv
  OBVIOUS
<1>1. Outside = {} /\ IsFiniteSet({}) /\ Cardinality({}) = 0
  BY FS_EmptySet DEF CubeInit, Outside
<1>2. mutex.queue = <<>> /\ rotating_previous_axis = 0 /\ calls = 0 /\ MaxCalls \in Nat
  BY CallsAssumption DEF CubeInit, NewSemaphore
<1> QED
  BY <1>1, <1>2 DEF CubeInit, CallsInv, Once

\* A semaphore of the invariants is one of the type invariant.
LEMMA SemaphoreTypes ==
  ASSUME NEW n, NEW sem \in Semaphore(n), Once(sem.queue), NEW S, sem.permits \in S
  PROVE  SemaphoreOK(sem, S)
<1>1. sem.queue \in Seq([who : Thread, permits : n])
  BY DEF Semaphore
<1>2. \A i \in 1..Len(sem.queue) : sem.queue[i] \in [who : Thread, permits : n]
  BY <1>1, ElementOfSeq
<1> QED
  BY <1>2 DEF SemaphoreOK, Once

LEMMA TypesMean == SolidInv /\ CallsInv => CubeTypeOK
<1> SUFFICES ASSUME SolidInv, CallsInv PROVE CubeTypeOK
  OBVIOUS
<1>1. PermitsInv /\ AxisInv /\ TypeInv /\ TurnInv /\ ViewInv
  BY DEF SolidInv, PermitsInv, AxisInv
<1>2. \A q \in Square : cube[q] \in Square
  BY <1>1 DEF TurnInv
<1>3. SemaphoreOK(mutex, 0..1)
  <2>1. mutex \in Semaphore({1}) /\ mutex.permits \in 0..1 /\ Once(mutex.queue)
    BY <1>1 DEF TypeInv, AxisInv, MutexInv, CallsInv
  <2> QED
    BY <2>1, SemaphoreTypes
<1>4. rotating_previous_axis \in 0..MaxCalls /\ guardian.permits \in 0..MaxCalls
  <2>1. /\ Cardinality(Outside) \in Nat /\ Cardinality(Group) \in Nat
        /\ guardian.permits \in Nat
    BY <1>1, FS_CardinalityType DEF CallsInv, AxisInv, CountInv, TypeInv, Semaphore
  <2>2. /\ rotating_previous_axis \in Nat /\ calls \in Nat /\ MaxCalls \in Nat
        /\ calls <= MaxCalls
        /\ rotating_previous_axis + Cardinality(Outside) <= calls
        /\ guardian.permits + Cardinality(Group) = rotating_previous_axis
    BY <1>1, CallsAssumption DEF CallsInv, TypeInv, AxisInv, CountInv
  <2> QED
    BY <2>1, <2>2
<1>5. SemaphoreOK(guardian, 0..MaxCalls)
  <2>1. guardian \in Semaphore(Nat)
    BY <1>1 DEF TypeInv
  <2>2. Once(guardian.queue)
    <3>1. CASE \A t \in Thread : ~Collecting(t)
      BY <1>1, <3>1 DEF AxisInv, GuardianInv, Once
    <3>2. CASE \E t \in Thread : Collecting(t)
      <4>1. PICK t \in Thread :
              guardian.queue = <<[who |-> t, permits |-> rotating_previous_axis]>>
        BY <1>1, <3>2 DEF AxisInv, GuardianInv
      <4>2. Len(guardian.queue) = 1
        BY <4>1
      <4> QED
        BY <4>2 DEF Once
    <3> QED
      BY <3>1, <3>2
  <2> QED
    BY <1>4, <2>1, <2>2, SemaphoreTypes
<1>6. ASSUME NEW k \in LayerIndex PROVE SemaphoreOK(layer_queue[k], 0..1)
  <2>1. /\ layer_queue[k] \in Semaphore({1}) /\ Once(layer_queue[k].queue)
        /\ layer_queue[k].permits \in Nat /\ Cardinality(RotatingIn(k)) \in Nat
        /\ layer_queue[k].permits + Cardinality(RotatingIn(k)) = 1
    BY <1>1, RotatingFinite DEF PermitsInv, LayerInv
  <2>2. layer_queue[k].permits \in 0..1
    BY <2>1
  <2> QED
    BY <2>1, <2>2, SemaphoreTypes
<1>7. ASSUME NEW t \in Thread
      PROVE  /\ pc[t] = "idle" \/ call[t] \in Calls
             /\ pc[t] \in {"idle", "mutex", "guardian", "show"} \/ call[t] # Show
             /\ interrupted[t] \in BOOLEAN
             /\ Len(view[t]) \in 0..6
  <2>1. pc[t] \in {"index", "layer"} \/ Rotating(t) => call[t] # Show
    BY <1>1 DEF PermitsInv, LayerInv, Show
  <2>2. pc[t] \in {"idle", "mutex", "guardian", "show"} \/ call[t] # Show
    BY <1>1, <2>1 DEF TypeInv, Places, Rotating, CallsInv
  <2>3. Len(view[t]) \in Nat /\ Len(view[t]) <= 6
    BY <1>1, LenProperties DEF ViewInv
  <2>4. Len(view[t]) \in 0..6
    <3>1. \A x \in Nat : x <= 6 => x \in 0..6
      OBVIOUS
    <3> QED
      BY <2>3, <3>1
  <2>5. (pc[t] = "idle" \/ call[t] \in Calls) /\ interrupted[t] \in BOOLEAN
    BY <1>1 DEF CallsInv, TypeInv
  <2> QED
    BY <2>2, <2>4, <2>5
<1> QED
  BY <1>1, <1>2, <1>3, <1>4, <1>5, <1>6, <1>7 DEF CubeTypeOK, TypeInv

\* Every variable has its type, no thread waits twice in a semaphore, and none
\* has more permits than the use that rotate and show make of it allows.
THEOREM CubeTypes ==
  ASSUME "mutex" \notin Interruptible
  PROVE  SolidSpec => []CubeTypeOK
<1>1. SolidInv /\ CallsInv /\ [SolidNext]_solidVars => SolidInv' /\ CallsInv'
  <2> SUFFICES ASSUME SolidInv, CallsInv, [SolidNext]_solidVars
               PROVE  SolidInv' /\ CallsInv'
    OBVIOUS
  <2>1. SolidInv'
    BY NextSolid
  <2>2. [CubeNext]_vars
    BY DEF SolidNext, SolidStep, CubeNext, solidVars
  <2> QED
    BY <2>1, <2>2, NextCalls DEF SolidInv
<1>2. SolidInit => SolidInv /\ CallsInv
  BY SolidStart, CallsStart DEF SolidInit
<1> QED
  BY <1>1, <1>2, TypesMean, PTL DEF SolidSpec
=============================================================================
