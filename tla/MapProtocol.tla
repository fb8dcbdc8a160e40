----------------------------- MODULE MapProtocol -----------------------------
(***************************************************************************)
(* The four entry and exit protocols of a SafeHashMap                      *)
(* (Zaliczeniowe_2/SafeHashMap.c) as operators on the value of its struct. *)
(* A monitor is a record with the fields of the struct that the protocols  *)
(* use; the two condition variables, readers and writers, are the sets of  *)
(* the threads that sleep in pthread_cond_wait on them.  Every operator is *)
(* one critical section of the monitor's mutex: from pthread_mutex_lock,   *)
(* or from the return of pthread_cond_wait, to the next                    *)
(* pthread_cond_wait or pthread_mutex_unlock.                              *)
(*                                                                         *)
(* MapMonitor runs one monitor, the file tree runs one per folder.         *)
(***************************************************************************)
EXTENDS Integers

Monitor(Thread) ==
  [readers_inside : Nat, readers_waiting : Nat, readers : SUBSET Thread,
   writers_inside : Nat, writers_waiting : Nat, writers : SUBSET Thread,
   change : {"READERS", "WRITERS"}]

NewMonitor ==
  [readers_inside |-> 0, readers_waiting |-> 0, readers |-> {},
   writers_inside |-> 0, writers_waiting |-> 0, writers |-> {},
   change |-> "WRITERS"]

\* pthread_cond_signal on a condition variable where the threads q sleep:
\* it wakes one of them, any one, and does nothing when there is none.
Signal(q) == IF q = {} THEN {{}} ELSE {q \ {t} : t \in q}

\* (A definition whose name ends in _slip is a plausible mistake in the code
\* that the definition after it translates.  Nothing refers to it: in place
\* of that definition it shows which property would notice.)
ReaderMustWait_ignores_turn_slip(m) == m.writers_inside > 0

ReaderMustWait(m) ==
  \/ m.writers_inside > 0
  \/ m.writers_waiting > 0 /\ m.change = "WRITERS"

WriterMustWait_ignores_readers_slip(m) ==
  \/ m.writers_inside > 0
  \/ m.readers_waiting > 0 /\ m.change = "READERS"

WriterMustWait(m) ==
  \/ m.writers_inside + m.readers_inside > 0
  \/ m.readers_waiting > 0 /\ m.change = "READERS"

\* The bodies of the two waiting loops, up to the call of pthread_cond_wait.
ReaderSleep(m, t) ==
  [m EXCEPT !.readers_waiting = @ + 1, !.readers = @ \cup {t}]
WriterSleep(m, t) ==
  [m EXCEPT !.writers_waiting = @ + 1, !.writers = @ \cup {t}]

\* A reader that wakes without counting itself out.
ReaderAwake_uncounted_slip(m) == m

\* The rest of a loop's body, after pthread_cond_wait has returned.
ReaderAwake(m) == [m EXCEPT !.readers_waiting = @ - 1]
WriterAwake(m) == [m EXCEPT !.writers_waiting = @ - 1]

\* A reader that enters without passing the wake-up on.
ReaderEnter_silent_slip(m) == {[m EXCEPT !.readers_inside = @ + 1]}

\* The rest of the preliminary protocols: the monitors one may leave behind.
\* A reader passes the wake-up on to the next one, unless a writer waits.
ReaderEnter(m) ==
  {[m EXCEPT !.readers_inside = @ + 1, !.readers = q] :
     q \in IF m.writers_waiting = 0 THEN Signal(m.readers) ELSE {m.readers}}
WriterEnter(m) == {[m EXCEPT !.writers_inside = @ + 1]}

\* A writer that leaves without a signal.
WriterLeave_silent_slip(m) ==
  {[m EXCEPT !.writers_inside = @ - 1, !.change = "READERS"]}

\* The final protocols.
ReaderLeave(m) ==
  {[m EXCEPT !.readers_inside = @ - 1, !.change = "WRITERS", !.writers = q] :
     q \in IF m.readers_inside = 1 THEN Signal(m.writers) ELSE {m.writers}}
WriterLeave(m) ==
  IF m.readers_waiting > 0
  THEN {[m EXCEPT !.writers_inside = @ - 1, !.change = "READERS",
                  !.readers = q] : q \in Signal(m.readers)}
  ELSE {[m EXCEPT !.writers_inside = @ - 1, !.change = "READERS",
                  !.writers = q] : q \in Signal(m.writers)}
=============================================================================
