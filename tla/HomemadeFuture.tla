--------------------------- MODULE HomemadeFuture ---------------------------
(***************************************************************************)
(* HomemadeFuture.java of Lab_5: a pool whose workers take handles from    *)
(* one queue and answer each through a queue of its own.  put and take of  *)
(* a LinkedBlockingQueue are one step each, and throw when the thread's    *)
(* interrupt flag is set, before they do anything.                         *)
(***************************************************************************)
EXTENDS Naturals, Sequences

CONSTANTS Worker,
          Tasks        \* number of computations

Task == 1..Tasks

VARIABLES program,     \* always this one
          handleQueue,
          channel,     \* of each future; a result is the task it is of
          result,      \* of each future, 0 while null
          submitted,   \* by main, in order
          lost,        \* tasks at whose submit main was interrupted
          missed,      \* tasks at whose get it was
          stopped,     \* workers that shutdown has interrupted
          pc,          \* of each worker
          handle,
          flagged      \* workers with their interrupt flag set

workerVars == <<pc, handle>>
mainVars == <<result, submitted, lost, missed, stopped>>
vars == <<program, handleQueue, channel, mainVars, workerVars, flagged>>

Start == program = "futures" /\ pc = [w \in Worker |-> "check"]

Fresh ==
    /\ handleQueue = <<>>
    /\ channel = [i \in Task |-> <<>>]
    /\ result = [i \in Task |-> 0]
    /\ submitted = 0 /\ lost = {} /\ missed = {} /\ stopped = {}
    /\ handle = [w \in Worker |-> 0]
    /\ flagged = {}

Init == Start /\ Fresh

-----------------------------------------------------------------------------
submit ==
    /\ submitted < Tasks
    /\ submitted' = submitted + 1
    /\ handleQueue' = Append(handleQueue, submitted + 1)
    /\ UNCHANGED <<program, channel, result, lost, missed, stopped, workerVars, flagged>>

\* put throws, which submit catches: it returns a future although the handle is
\* in no queue.
SubmitInterrupted ==
    /\ submitted < Tasks
    /\ submitted' = submitted + 1 /\ lost' = lost \cup {submitted + 1}
    /\ UNCHANGED <<program, handleQueue, channel, result, missed, stopped, workerVars, flagged>>

\* main is through with a future once it has its result, or was interrupted.
Through(i) == result[i] # 0 \/ i \in missed
\* It gets its futures in order.
Turn(i) == submitted = Tasks /\ stopped = {} /\ \A j \in Task : ~Through(j) <=> i <= j

\* Each takes its result from its channel.
get(i) ==
    /\ Turn(i)
    /\ channel[i] # <<>>
    /\ result' = [result EXCEPT ![i] = Head(channel[i])]
    /\ channel' = [channel EXCEPT ![i] = Tail(@)]
    /\ UNCHANGED <<program, handleQueue, submitted, lost, missed, stopped, workerVars, flagged>>

\* take throws, which main catches: it goes on with the next future.
GetInterrupted(i) ==
    /\ Turn(i)
    /\ missed' = missed \cup {i}
    /\ UNCHANGED <<program, handleQueue, channel, result, submitted, lost, stopped,
                   workerVars, flagged>>

\* One interrupt for each thread of the list.
shutdown(w) ==
    /\ submitted = Tasks /\ \A i \in Task : Through(i)
    /\ w \notin stopped
    /\ stopped' = stopped \cup {w} /\ flagged' = flagged \cup {w}
    /\ UNCHANGED <<program, handleQueue, channel, result, submitted, lost, missed, workerVars>>

-----------------------------------------------------------------------------
Goto(w, to) == pc' = [pc EXCEPT ![w] = to]

\* Thread.interrupted() clears the flag.
Check(w) ==
    /\ pc[w] = "check"
    /\ Goto(w, IF w \in flagged THEN "ended" ELSE "take")
    /\ flagged' = flagged \ {w}
    /\ UNCHANGED <<program, handleQueue, channel, mainVars, handle>>

Take(w) ==
    /\ pc[w] = "take" /\ w \notin flagged
    /\ handleQueue # <<>>
    /\ handle' = [handle EXCEPT ![w] = Head(handleQueue)]
    /\ handleQueue' = Tail(handleQueue)
    /\ Goto(w, "call")
    /\ UNCHANGED <<program, channel, mainVars, flagged>>

\* The computation sleeps; it catches an interrupt, which is gone with that.
Call(w) ==
    /\ pc[w] = "call"
    /\ flagged' = flagged \ {w}
    /\ Goto(w, "put")
    /\ UNCHANGED <<program, handleQueue, channel, mainVars, handle>>

Put(w) ==
    /\ pc[w] = "put" /\ w \notin flagged
    /\ channel' = [channel EXCEPT ![handle[w]] = Append(@, handle[w])]
    /\ Goto(w, "check")
    /\ UNCHANGED <<program, handleQueue, mainVars, handle, flagged>>

\* take and put throw InterruptedException: the worker ends.
Throw(w) ==
    /\ pc[w] \in {"take", "put"} /\ w \in flagged
    /\ flagged' = flagged \ {w}
    /\ Goto(w, "ended")
    /\ UNCHANGED <<program, handleQueue, channel, mainVars, handle>>

-----------------------------------------------------------------------------
MainStep == submit \/ (\E i \in Task : get(i)) \/ \E w \in Worker : shutdown(w)
WorkerStep(w) == Check(w) \/ Take(w) \/ Call(w) \/ Put(w) \/ Throw(w)

\* An interrupt of main, which nobody is obliged to send.
InterruptMain == SubmitInterrupted \/ \E i \in Task : GetInterrupted(i)

Next == MainStep \/ InterruptMain \/ \E w \in Worker : WorkerStep(w)

Spec == Init /\ [][Next]_vars /\ WF_vars(MainStep) /\ \A w \in Worker : WF_vars(WorkerStep(w))

-----------------------------------------------------------------------------
\* Unless a handle was lost main gets through, and shuts down; unless it missed
\* a result, all workers end then.  (After the loss of a handle main waits for
\* ever for its future, and a worker that still computes when main shuts down,
\* having missed a result, swallows its interrupt and waits for ever in take.)
FuturesDone ==
    program = "futures" /\ lost = {} =>
      /\ (\A i \in Task : Through(i)) /\ stopped = Worker
      /\ missed = {} => \A w \in Worker : pc[w] = "ended"

\* What a future gives is the result of its own computation.
FuturesRight == \A i \in Task : result[i] \in {0, i}
=============================================================================
