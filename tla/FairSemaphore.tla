--------------------------- MODULE FairSemaphore ----------------------------
(***************************************************************************)
(* java.util.concurrent.Semaphore with fair = true, as Cube uses it: the   *)
(* permits left, and the threads whose acquire(n) has not returned, first  *)
(* come, first served.                                                     *)
(***************************************************************************)
EXTENDS Naturals, SequencesExt

NewSemaphore(n) == [permits |-> n, queue |-> <<>>]

Join(sem, t, n) ==
  [sem EXCEPT !.queue = Append(@, [who |-> t, permits |-> n])]

CanPass(sem, t) ==
  /\ sem.queue # <<>>
  /\ Head(sem.queue).who = t
  /\ Head(sem.queue).permits <= sem.permits

Pass(sem) ==
  [permits |-> sem.permits - Head(sem.queue).permits,
   queue   |-> Tail(sem.queue)]

\* acquire throws InterruptedException to a thread that waits in it, once.
Waits(sem, t) == {i \in 1..Len(sem.queue) : sem.queue[i].who = t}

GiveUp(sem, t) ==
  IF Waits(sem, t) = {} THEN sem
  ELSE [sem EXCEPT !.queue = RemoveAt(@, CHOOSE i \in Waits(sem, t) : TRUE)]

Release(sem) == [sem EXCEPT !.permits = @ + 1]
=============================================================================
