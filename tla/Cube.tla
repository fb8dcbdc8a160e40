-------------------------------- MODULE Cube --------------------------------
(***************************************************************************)
(* concurrentcube.Cube: threads rotate layers of one cube and show it.     *)
(* Rotations about one axis go together, each layer by one thread at a     *)
(* time; shows go together; a thread that wants another axis, or a show    *)
(* after rotations, keeps the mutex and collects from guardian one permit  *)
(* of every thread that was let in before it.                              *)
(*                                                                         *)
(* A thread takes a step per semaphore and per part of perform_rotate and  *)
(* perform_show.  The colour of a square is the square it started on, so   *)
(* that no two rotations look alike.  previous_side = NoSide is the -1 of  *)
(* the code.                                                               *)
(*                                                                         *)
(* Calls is what a thread may ask for, and MaxCalls bounds the calls of    *)
(* all threads together.  Interruptible names the waits during which       *)
(* Thread.interrupt may reach a thread.                                    *)
(***************************************************************************)
EXTENDS CubeGeometry, FairSemaphore, FiniteSets

CONSTANTS Thread, Calls, MaxCalls, Interruptible

NoSide == -1
Rotation(s, k) == [op |-> "rotate", side |-> s, layer |-> k]
Show == [op |-> "show", side |-> NoSide, layer |-> 0]

ASSUME CallsAssumption ==
  /\ Calls \subseteq {Rotation(s, k) : s \in Side, k \in LayerIndex} \cup {Show}
  /\ MaxCalls \in Nat
  /\ Interruptible \subseteq {"mutex", "guardian", "layer"}

VARIABLES
  cube,                    \* the colours of the squares
  mutex, guardian,
  layer_queue,             \* a semaphore for each layer
  previous_side,           \* of the last group let in
  rotating_previous_axis,  \* how many of that group were let in
  pc, call,
  interrupted,             \* the threads' interrupt flags
  view,                    \* the sides that perform_show has read so far
  calls                    \* how many calls were made

data == <<cube, view>>
semaphores == <<mutex, guardian, layer_queue>>
group == <<previous_side, rotating_previous_axis>>
vars == <<data, semaphores, group, pc, call, interrupted, calls>>

CubeInit ==
  /\ cube = [q \in Square |-> q]
  /\ mutex = NewSemaphore(1)
  /\ guardian = NewSemaphore(0)
  /\ layer_queue = [k \in LayerIndex |-> NewSemaphore(1)]
  /\ previous_side = NoSide
  /\ rotating_previous_axis = 0
  /\ pc = [t \in Thread |-> "idle"]
  /\ call = [t \in Thread |-> Show]
  /\ interrupted = [t \in Thread |-> FALSE]
  /\ view = [t \in Thread |-> <<>>]
  /\ calls = 0

Go(t, place) == pc' = [pc EXCEPT ![t] = place]

\* InterruptedException leaves the call with the flag cleared.
Throw(t) == Go(t, "idle") /\ interrupted' = [interrupted EXCEPT ![t] = FALSE]

-----------------------------------------------------------------------------
(***************************************************************************)
(* mutex.acquire, and the two exits of the first try: its finally releases *)
(* the mutex on every one of them, so also when mutex.acquire has thrown.  *)
(***************************************************************************)

\* A caller whose flag is up is thrown out of acquire, as by an interrupt there.
Call(t, c) ==
  /\ pc[t] = "idle"
  /\ "mutex" \in Interruptible \/ ~interrupted[t]
  /\ calls < MaxCalls
  /\ calls' = calls + 1
  /\ call' = [call EXCEPT ![t] = c]
  /\ mutex' = Join(mutex, t, 1)
  /\ Go(t, "mutex")
  /\ UNCHANGED <<data, guardian, layer_queue, group, interrupted>>

ThrowMutex(t) ==
  /\ pc[t] = "mutex" /\ interrupted[t]
  /\ mutex' = Release(GiveUp(mutex, t))
  /\ Throw(t)
  /\ UNCHANGED <<data, guardian, layer_queue, group, call, calls>>

\* A bug: a show does not wait for rotations.
OtherGroup_slip(c) ==
  c.op # "show" /\ previous_side # c.side /\ previous_side # Opposite(c.side)

\* Does the call have to wait for the group before it to leave?
OtherGroup(c) ==
  IF c.op = "show" THEN previous_side # NoSide
  ELSE previous_side # c.side /\ previous_side # Opposite(c.side)

Inside(t) == IF call[t].op = "show" THEN "show" ELSE "index"

JoinGroup(t) ==
  /\ CanPass(mutex, t)
  /\ ~OtherGroup(call[t])
  /\ rotating_previous_axis' = rotating_previous_axis + 1
  /\ mutex' = Release(Pass(mutex))
  /\ Go(t, Inside(t))
  /\ UNCHANGED <<data, guardian, layer_queue, previous_side, call, interrupted,
                 calls>>

\* A bug: one permit is taken for the whole group.
StartGroup_slip(t) ==
  /\ CanPass(mutex, t)
  /\ OtherGroup(call[t]) /\ ~interrupted[t]
  /\ mutex' = Pass(mutex)
  /\ guardian' = Join(guardian, t, 1)
  /\ Go(t, "guardian")
  /\ UNCHANGED <<data, layer_queue, group, call, interrupted, calls>>

StartGroup(t) ==
  /\ CanPass(mutex, t)
  /\ OtherGroup(call[t]) /\ ~interrupted[t]
  /\ mutex' = Pass(mutex)
  /\ guardian' = Join(guardian, t, rotating_previous_axis)
  /\ Go(t, "guardian")
  /\ UNCHANGED <<data, layer_queue, group, call, interrupted, calls>>

\* guardian.acquire throws at once to a thread whose flag is already set.
RefuseGroup(t) ==
  /\ CanPass(mutex, t)
  /\ OtherGroup(call[t]) /\ interrupted[t]
  /\ mutex' = Release(Pass(mutex))
  /\ Throw(t)
  /\ UNCHANGED <<data, guardian, layer_queue, group, call, calls>>

PassMutex(t) ==
  pc[t] = "mutex" /\ (JoinGroup(t) \/ StartGroup(t) \/ RefuseGroup(t))

\* A bug: the count of the group before is not reset.
PassGuardian_slip(t) ==
  /\ pc[t] = "guardian"
  /\ CanPass(guardian, t)
  /\ guardian' = Pass(guardian)
  /\ previous_side' = call[t].side
  /\ rotating_previous_axis' = rotating_previous_axis + 1
  /\ mutex' = Release(mutex)
  /\ Go(t, Inside(t))
  /\ UNCHANGED <<data, layer_queue, call, interrupted, calls>>

PassGuardian(t) ==
  /\ pc[t] = "guardian"
  /\ CanPass(guardian, t)
  /\ guardian' = Pass(guardian)
  /\ previous_side' = call[t].side
  /\ rotating_previous_axis' = 1
  /\ mutex' = Release(mutex)
  /\ Go(t, Inside(t))
  /\ UNCHANGED <<data, layer_queue, call, interrupted, calls>>

\* A bug: the catch releases the mutex, and the finally again.
ThrowGuardian_slip(t) ==
  /\ pc[t] = "guardian" /\ interrupted[t]
  /\ guardian' = GiveUp(guardian, t)
  /\ mutex' = Release(Release(mutex))
  /\ Throw(t)
  /\ UNCHANGED <<data, layer_queue, group, call, calls>>

ThrowGuardian(t) ==
  /\ pc[t] = "guardian" /\ interrupted[t]
  /\ guardian' = GiveUp(guardian, t)
  /\ mutex' = Release(mutex)
  /\ Throw(t)
  /\ UNCHANGED <<data, layer_queue, group, call, calls>>

-----------------------------------------------------------------------------
(***************************************************************************)
(* The second try of rotate.  The index of the layer is computed for the   *)
(* acquire and again for the release, each time from previous_side, which  *)
(* is read without the mutex.                                              *)
(***************************************************************************)

\* A bug: the opposite sides count their layers each from itself.
QueueIndex_slip(c) == c.layer

QueueIndex(c) ==
  IF previous_side = c.side THEN c.layer ELSE size - c.layer - 1

JoinLayer(t) ==
  /\ pc[t] = "index" /\ ~interrupted[t]
  /\ LET k == QueueIndex(call[t])
     IN  layer_queue' = [layer_queue EXCEPT ![k] = Join(@, t, 1)]
  /\ Go(t, "layer")
  /\ UNCHANGED <<data, mutex, guardian, group, call, interrupted, calls>>

PassLayer(t) ==
  /\ pc[t] = "layer"
  /\ \E k \in LayerIndex :
       /\ CanPass(layer_queue[k], t)
       /\ layer_queue' = [layer_queue EXCEPT ![k] = Pass(@)]
  /\ Go(t, "front")
  /\ UNCHANGED <<data, mutex, guardian, group, call, interrupted, calls>>

\* A bug: guardian is released on success only.
ThrowLayer_slip(t) ==
  /\ pc[t] \in {"index", "layer"} /\ interrupted[t]
  /\ layer_queue' = [k \in LayerIndex |-> GiveUp(layer_queue[k], t)]
  /\ Throw(t)
  /\ UNCHANGED <<data, mutex, guardian, group, call, calls>>

ThrowLayer(t) ==
  /\ pc[t] \in {"index", "layer"} /\ interrupted[t]
  /\ layer_queue' = [k \in LayerIndex |-> GiveUp(layer_queue[k], t)]
  /\ guardian' = Release(guardian)
  /\ Throw(t)
  /\ UNCHANGED <<data, mutex, group, call, calls>>

\* perform_rotate
Part(t, place, part, next) ==
  /\ pc[t] = place
  /\ cube' = Moved(cube, part[call[t].side][call[t].layer])
  /\ Go(t, next)
  /\ UNCHANGED <<view, semaphores, group, call, interrupted, calls>>

perform_rotate(t) ==
  \/ Part(t, "front", FrontPart, "back")
  \/ Part(t, "back", BackPart, "strips")
  \/ Part(t, "strips", rotate_layer_pieces, "done")

ReleaseLayer(t) ==
  /\ pc[t] = "done"
  /\ LET k == QueueIndex(call[t])
     IN  layer_queue' = [layer_queue EXCEPT ![k] = Release(@)]
  /\ Go(t, "leave")
  /\ UNCHANGED <<data, mutex, guardian, group, call, interrupted, calls>>

-----------------------------------------------------------------------------

perform_show(t) ==
  /\ pc[t] = "show"
  /\ Len(view[t]) < Cardinality(Side)
  /\ view' = [view EXCEPT ![t] = Append(@, get_side(cube, Len(@)))]
  /\ UNCHANGED <<cube, semaphores, group, pc, call, interrupted, calls>>

Leave(t) ==
  /\ \/ pc[t] = "leave"
     \/ pc[t] = "show" /\ Len(view[t]) = Cardinality(Side)
  /\ guardian' = Release(guardian)
  /\ view' = [view EXCEPT ![t] = <<>>]
  /\ Go(t, "idle")
  /\ UNCHANGED <<cube, mutex, layer_queue, group, call, interrupted, calls>>

\* Between calls a thread that was interrupted handles it.
Handle(t) ==
  /\ pc[t] = "idle" /\ interrupted[t]
  /\ Throw(t)
  /\ UNCHANGED <<data, semaphores, group, call, calls>>

Interrupt(t) ==
  /\ pc[t] \in Interruptible
  /\ ~interrupted[t]
  /\ interrupted' = [interrupted EXCEPT ![t] = TRUE]
  /\ UNCHANGED <<data, semaphores, group, pc, call, calls>>

\* What a thread inside a call does, but for passing into its layer.
Proceed(t) ==
  \/ ThrowMutex(t) \/ PassMutex(t)
  \/ PassGuardian(t) \/ ThrowGuardian(t)
  \/ JoinLayer(t) \/ ThrowLayer(t)
  \/ perform_rotate(t) \/ ReleaseLayer(t)
  \/ perform_show(t) \/ Leave(t) \/ Handle(t)

\* What is done to a thread from outside.
Disturb(t) == Interrupt(t) \/ \E c \in Calls : Call(t, c)

CubeNext == \E t \in Thread : PassLayer(t) \/ Proceed(t) \/ Disturb(t)

CubeSpec == CubeInit /\ [][CubeNext]_vars

-----------------------------------------------------------------------------
(***************************************************************************)
(* Properties                                                              *)
(***************************************************************************)

Rotating(t) == pc[t] \in {"front", "back", "strips", "done"}
Admitted(t) == Rotating(t) \/ pc[t] \in {"index", "layer", "leave", "show"}
Performing(t) == Rotating(t) \/ pc[t] = "show"

SemaphoreOK(sem, permits) ==
  /\ sem.permits \in permits
  /\ \A i, j \in 1..Len(sem.queue) :
       /\ sem.queue[i].who \in Thread
       /\ sem.queue[i].who = sem.queue[j].who => i = j

\* Every variable has its type; a thread waits at most once in a semaphore,
\* and no semaphore has more permits than its use in Cube allows.
CubeTypeOK ==
  /\ \A q \in Square : cube[q] \in Square
  /\ SemaphoreOK(mutex, 0..1)
  /\ SemaphoreOK(guardian, 0..MaxCalls)
  /\ \A k \in LayerIndex : SemaphoreOK(layer_queue[k], 0..1)
  /\ previous_side \in Side \cup {NoSide}
  /\ rotating_previous_axis \in 0..MaxCalls
  /\ \A t \in Thread :
       /\ pc[t] = "idle" \/ call[t] \in Calls
       /\ pc[t] \in {"idle", "mutex", "guardian", "show"} \/ call[t] # Show
       /\ interrupted[t] \in BOOLEAN
       /\ Len(view[t]) \in 0..6

\* Threads that rotate at the same time rotate about the same axis, and nobody
\* rotates while the cube is shown (the purpose of mutex and guardian).
ExclusiveAxis ==
  \A t, u \in Thread :
    Performing(t) /\ Performing(u) =>
      \/ call[u].side = call[t].side
      \/ Show \notin {call[t], call[u]} /\ call[u].side = Opposite(call[t].side)

\* The pieces that two rotating threads read and write are different ones, so
\* their rotations cannot mix (the purpose of layer_queue).
DisjointSquares ==
  \A t, u \in Thread :
    t # u /\ Rotating(t) /\ Rotating(u) =>
      Touched(call[t].side, call[t].layer)
        \cap Touched(call[u].side, call[u].layer) = {}

\* guardian has one permit for each thread of the group that has left or given
\* up, so that the next group starts neither early nor never; a layer has its
\* permit exactly when nobody rotates it.
PermitsAccounted ==
  /\ guardian.permits + Cardinality({t \in Thread : Admitted(t)})
       = rotating_previous_axis
  /\ \A k \in LayerIndex :
       layer_queue[k].permits
         = 1 - Cardinality({t \in Thread :
                              Rotating(t) /\ QueueIndex(call[t]) = k})

\* Every call of rotate or show returns or throws.
CallsEnd == \A t \in Thread : pc[t] # "idle" ~> pc[t] = "idle"
=============================================================================
