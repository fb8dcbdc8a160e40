----------------------------- MODULE MapMonitor -----------------------------
(***************************************************************************)
(* The readers-writers monitor of one SafeHashMap: threads that come and   *)
(* go as readers and as writers.  What they do inside is SafeHashMap's     *)
(* business.                                                               *)
(***************************************************************************)
EXTENDS MapProtocol, FiniteSets

CONSTANT Thread

ASSUME ThreadAssumption == IsFiniteSet(Thread)

VARIABLES
  monitor,  \* the counters, flag and condition variables of the struct
  pc        \* where each thread stands in the protocols

mvars == <<monitor, pc>>

States == {"idle", "waitRead", "reading", "waitWrite", "writing"}

MonitorInit ==
  /\ monitor = NewMonitor
  /\ pc = [t \in Thread |-> "idle"]

Goto(t, state) == pc' = [pc EXCEPT ![t] = state]

\* The loop of map_reader_preliminary_protocol on the monitor m, and what
\* follows it.
ReaderLoop(t, m) ==
  \/ /\ ReaderMustWait(m)
     /\ monitor' = ReaderSleep(m, t)
     /\ Goto(t, "waitRead")
  \/ /\ ~ReaderMustWait(m)
     /\ monitor' \in ReaderEnter(m)
     /\ Goto(t, "reading")

WriterLoop(t, m) ==
  \/ /\ WriterMustWait(m)
     /\ monitor' = WriterSleep(m, t)
     /\ Goto(t, "waitWrite")
  \/ /\ ~WriterMustWait(m)
     /\ monitor' \in WriterEnter(m)
     /\ Goto(t, "writing")

\* map_reader_preliminary_protocol, from its call and from its cond_wait.
StartRead(t)  == pc[t] = "idle" /\ ReaderLoop(t, monitor)
ResumeRead(t) ==
  /\ pc[t] = "waitRead"
  /\ t \notin monitor.readers
  /\ ReaderLoop(t, ReaderAwake(monitor))

\* map_writer_preliminary_protocol, likewise.
StartWrite(t)  == pc[t] = "idle" /\ WriterLoop(t, monitor)
ResumeWrite(t) ==
  /\ pc[t] = "waitWrite"
  /\ t \notin monitor.writers
  /\ WriterLoop(t, WriterAwake(monitor))

\* map_reader_final_protocol and map_writer_final_protocol.
EndRead(t) ==
  /\ pc[t] = "reading"
  /\ monitor' \in ReaderLeave(monitor)
  /\ Goto(t, "idle")
EndWrite(t) ==
  /\ pc[t] = "writing"
  /\ monitor' \in WriterLeave(monitor)
  /\ Goto(t, "idle")

\* pthread_cond_wait may return although nobody has signalled.
SpuriousWakeup(t) ==
  /\ t \in monitor.readers \cup monitor.writers
  /\ monitor' = [monitor EXCEPT !.readers = @ \ {t}, !.writers = @ \ {t}]
  /\ UNCHANGED pc

MonitorNext == \E t \in Thread :
  \/ StartRead(t) \/ ResumeRead(t) \/ EndRead(t)
  \/ StartWrite(t) \/ ResumeWrite(t) \/ EndWrite(t)
  \/ SpuriousWakeup(t)

MonitorSpec == MonitorInit /\ [][MonitorNext]_mvars

(***************************************************************************)
(* A thread that has been woken gets the mutex in the end, and a thread    *)
(* inside leaves; nobody is obliged to come, and spurious wake-ups cannot  *)
(* be relied upon.                                                         *)
(***************************************************************************)
MonitorFairness == \A t \in Thread :
  /\ WF_mvars(ResumeRead(t)) /\ WF_mvars(ResumeWrite(t))
  /\ WF_mvars(EndRead(t)) /\ WF_mvars(EndWrite(t))

FairMonitorSpec == MonitorSpec /\ MonitorFairness

-----------------------------------------------------------------------------
At(state) == {t \in Thread : pc[t] = state}

MonitorTypeOK ==
  /\ monitor \in Monitor(Thread)
  /\ pc \in [Thread -> States]

\* A writer inside a map is alone there: no second writer, no reader.
MutualExclusion ==
  \A t, u \in Thread :
    pc[t] = "writing" /\ u # t => pc[u] \notin {"reading", "writing"}

\* The counters that the waiting conditions read are exact whenever the mutex
\* is free: a thread that was woken but has not got the mutex back still
\* counts as waiting, and sleeping threads are exactly where they registered.
CountersAgree ==
  /\ monitor.readers_inside  = Cardinality(At("reading"))
  /\ monitor.writers_inside  = Cardinality(At("writing"))
  /\ monitor.readers_waiting = Cardinality(At("waitRead"))
  /\ monitor.writers_waiting = Cardinality(At("waitWrite"))
  /\ monitor.readers \subseteq At("waitRead")
  /\ monitor.writers \subseteq At("waitWrite")

\* The threads that were woken and could enter, were they next on the mutex.
WokenReaders == {t \in At("waitRead") \ monitor.readers :
                   ~ReaderMustWait(ReaderAwake(monitor))}
WokenWriters == {t \in At("waitWrite") \ monitor.writers :
                   ~WriterMustWait(WriterAwake(monitor))}

\* When somebody sleeps and nobody is inside, somebody who was woken is on the
\* way to the mutex and will not go back to sleep.
EmptyIsOpen ==
  At("reading") \cup At("writing") = {}
    => (monitor.readers \cup monitor.writers = {})
       \/ WokenReaders \cup WokenWriters # {}

\* Readers are not left sleeping while other readers are inside and no writer
\* is there to wait for: the reader that enters passes the wake-up on.
ReadersShare ==
  monitor.readers # {} /\ At("writing") \cup At("waitWrite") = {}
    => At("waitRead") \ monitor.readers # {}

\* No wake-up is lost, although SafeHashMap.c signals only one thread at a time
\* and only some of the exits signal at all: the monitor is never empty and
\* blocked, and readers do not sleep beside readers for want of a signal.
NoLostWakeup == EmptyIsOpen /\ ReadersShare

\* Neither class starves: while some thread waits to write, a writer gets in,
\* whatever the readers do, and the other way round.
NeitherStarves ==
  /\ At("waitWrite") # {} ~> At("writing") # {}
  /\ At("waitRead") # {} ~> At("reading") # {}

Entered(state) == At(state)' \ At(state)
WritersTurnKept ==
  /\ monitor.change = "WRITERS" /\ At("waitWrite") # {} /\ At("writing") = {}
  => \/ Entered("writing") # {}
     \/ /\ Entered("reading") = {}
        /\ monitor'.change = "WRITERS" /\ At("waitWrite")' # {}
ReadersTurnKept ==
  /\ monitor.change = "READERS" /\ At("waitRead") # {} /\ At("reading") = {}
  => \/ Entered("reading") # {}
     \/ /\ Entered("writing") = {}
        /\ monitor'.change = "READERS" /\ At("waitRead")' # {}

\* The classes take turns: from the moment a reader has left while a writer
\* waits, no reader enters until a writer has, however many come, go or wake
\* meanwhile; and the same for writers after a writer has left.
TurnsRespected == [][WritersTurnKept /\ ReadersTurnKept]_mvars
=============================================================================
