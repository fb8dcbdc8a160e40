---------------------------- MODULE ThreadTeams -----------------------------
(***************************************************************************)
(* TeamNewThreads, TeamConstThreads, TeamPool and TeamAsync of teams.cpp.  *)
(* The main thread starts workers, waits for the futures of their promises *)
(* and joins them; a worker computes its tasks one after another, with     *)
(* sharedCollatz when the team shares its results.                         *)
(*                                                                         *)
(* The pool under TeamPool (lib/pool/cxxpool.h) is a queue of tasks, its   *)
(* workers, which sleep on one condition variable, and the shutdown of the *)
(* destructor.  All tasks have priority 0, so the priority queue is first  *)
(* in, first out.  The code under task_mutex_ is one step; notify_one and  *)
(* notify_all come after the unlock and are steps of their own.            *)
(***************************************************************************)
EXTENDS Team, SharedResults

CONSTANT NoValue     \* of a future that is not ready

VARIABLES tasks_,    \* queued tasks
          done_,     \* shutdown has begun
          asleep     \* workers inside task_cond_var_.wait

poolVars == <<tasks_, done_, asleep>>

PoolInit == tasks_ = <<>> /\ done_ = FALSE /\ asleep = {}

push(task) == tasks_' = Append(tasks_, task) /\ UNCHANGED <<done_, asleep>>

notify_one ==
    /\ \/ asleep = {} /\ UNCHANGED asleep
       \/ \E w \in asleep : asleep' = asleep \ {w}
    /\ UNCHANGED <<tasks_, done_>>

\* A worker that finds neither a task nor the end goes to sleep.
Sleep(w) ==
    /\ w \notin asleep
    /\ tasks_ = <<>> /\ ~done_
    /\ asleep' = asleep \cup {w}
    /\ UNCHANGED <<tasks_, done_>>

Pop(w) ==
    /\ w \notin asleep
    /\ tasks_ # <<>>
    /\ tasks_' = Tail(tasks_)
    /\ UNCHANGED <<done_, asleep>>

\* The worker leaves its loop only when nothing is queued any more.
Quit(w) ==
    /\ w \notin asleep
    /\ done_ /\ tasks_ = <<>>
    /\ UNCHANGED poolVars

SpuriousWake(w) ==
    /\ w \in asleep
    /\ asleep' = asleep \ {w}
    /\ UNCHANGED <<tasks_, done_>>

shutdown == done_' = TRUE /\ UNCHANGED <<tasks_, asleep>>

notify_all == asleep' = {} /\ UNCHANGED <<tasks_, done_>>

-----------------------------------------------------------------------------
VARIABLES future,    \* r_futures of the contest
          thread     \* the threads: where they are, the tasks they hold

threadVars == <<future, thread>>

NewThread == [pc |-> "none", tasks |-> <<>>]

ThreadInit ==
    /\ SharedInit
    /\ PoolInit
    /\ future = <<>>
    /\ thread = [t \in Thread |->
                   IF team = "Pool" /\ t \in 1..Size THEN [NewThread EXCEPT !.pc = "run"]
                   ELSE NewThread]

\* std::thread's constructor, and std::async.
createThread(t, pc) ==
    thread' = [thread EXCEPT ![t] = [pc |-> pc, tasks |-> Work(t)]]

join(t) ==
    /\ thread[t].pc = "ended"
    /\ thread' = [thread EXCEPT ![t].pc = "joined"]

\* future.get() of task i, stored in r.
GetFuture_slip(i) == r' = [r EXCEPT ![i] = future[i]]
GetFuture(i) ==
    /\ future[i] # NoValue
    /\ r' = [r EXCEPT ![i] = future[i]]

BeginContest ==
    /\ team \in ThreadTeam
    /\ main.pc = "idle"
    /\ runContest
    /\ future' = [i \in 1..TaskCount |-> NoValue]
    /\ thread' = IF team = "Pool" THEN thread ELSE [t \in Thread |-> NewThread]
    /\ UNCHANGED <<sharedVars, poolVars>>

-----------------------------------------------------------------------------
(* TeamNewThreads: at most Size threads at once, joined in the order of    *)
(* their creation.  TeamConstThreads: all threads, all futures, all joins. *)

StartThread ==
    /\ Runs({"NewThreads", "ConstThreads"}, "loop")
    /\ ~AllStarted /\ ~Full
    /\ createThread(main.next, "run")
    /\ main' = [main EXCEPT !.next = @ + 1]
    /\ UNCHANGED <<team, share, answers, r, future, sharedVars, poolVars>>

GetOldest ==
    /\ Runs({"NewThreads"}, "loop")
    /\ Full \/ AllStarted
    /\ main.oldest < main.next
    /\ GetFuture(main.oldest)
    /\ Goto("join")
    /\ UNCHANGED <<team, share, answers, threadVars, sharedVars, poolVars>>

JoinOldest ==
    /\ Runs({"NewThreads"}, "join")
    /\ join(main.oldest)
    /\ main' = [main EXCEPT !.pc = "loop", !.oldest = @ + 1]
    /\ UNCHANGED <<team, share, answers, r, future, sharedVars, poolVars>>

GetInOrder ==
    /\ Runs({"ConstThreads", "Pool"}, "loop")
    /\ AllStarted
    /\ main.oldest <= TaskCount
    /\ GetFuture(main.oldest)
    /\ main' = [main EXCEPT !.oldest = @ + 1]
    /\ UNCHANGED <<team, share, answers, threadVars, sharedVars, poolVars>>

JoinFront ==
    /\ Runs({"ConstThreads"}, "loop")
    /\ AllStarted
    /\ main.oldest \in TaskCount + 1 .. TaskCount + Size
    /\ join(main.oldest - TaskCount)
    /\ main' = [main EXCEPT !.oldest = @ + 1]
    /\ UNCHANGED <<team, share, answers, r, future, sharedVars, poolVars>>

-----------------------------------------------------------------------------
(* TeamPool: the tasks are pushed and their futures read in order.  The    *)
(* destructor of the pool runs when main.cpp has no contest left.          *)

PushTask ==
    /\ Runs({"Pool"}, "loop")
    /\ ~AllStarted
    /\ push(main.next)
    /\ Goto("notify")
    /\ UNCHANGED <<team, share, answers, r, threadVars, sharedVars>>

Notify ==
    /\ Runs({"Pool"}, "notify")
    /\ notify_one
    /\ main' = [main EXCEPT !.pc = "loop", !.next = @ + 1]
    /\ UNCHANGED <<team, share, answers, r, threadVars, sharedVars>>

Destroy ==
    /\ Runs({"Pool"}, "idle")
    /\ Len(answers) = Len(Inputs)
    /\ ~done_
    /\ shutdown
    /\ Goto("destroy")
    /\ UNCHANGED <<team, share, answers, r, threadVars, sharedVars>>

WakeAll ==
    /\ Runs({"Pool"}, "destroy")
    /\ notify_all
    /\ Goto("join")
    /\ UNCHANGED <<team, share, answers, r, threadVars, sharedVars>>

JoinWorker ==
    /\ Runs({"Pool"}, "join")
    /\ \E w \in 1..Size : (\A v \in 1..w - 1 : thread[v].pc = "joined") /\ join(w)
    /\ UNCHANGED <<teamVars, future, sharedVars, poolVars>>

\* worker(): the code under task_mutex_, up to the task or to sleep.
TakeTask(w) ==
    /\ team = "Pool"
    /\ thread[w].pc = "run" /\ thread[w].tasks = <<>>
    /\ \/ /\ Pop(w)
          /\ thread' = [thread EXCEPT ![w].tasks = <<Head(tasks_)>>]
       \/ /\ Sleep(w)
          /\ UNCHANGED thread
       \/ /\ Quit(w)
          /\ thread' = [thread EXCEPT ![w].pc = "ended"]
    /\ UNCHANGED <<teamVars, future, sharedVars>>

Awake(w) ==
    /\ SpuriousWake(w)
    /\ UNCHANGED <<teamVars, threadVars, sharedVars>>

-----------------------------------------------------------------------------
(* TeamAsync: std::async may start a thread or defer the task to the get   *)
(* of its future, which then runs it.  get also waits for the thread.      *)

StartAsync ==
    /\ Runs({"Async"}, "loop")
    /\ ~AllStarted
    /\ \E pc \in {"run", "deferred"} : createThread(main.next, pc)
    /\ main' = [main EXCEPT !.next = @ + 1]
    /\ UNCHANGED <<team, share, answers, r, future, sharedVars, poolVars>>

RunDeferred ==
    /\ Runs({"Async"}, "loop")
    /\ AllStarted
    /\ main.oldest <= TaskCount
    /\ thread[main.oldest].pc = "deferred"
    /\ thread' = [thread EXCEPT ![main.oldest].pc = "run"]
    /\ UNCHANGED <<teamVars, future, sharedVars, poolVars>>

GetAsync ==
    /\ Runs({"Async"}, "loop")
    /\ AllStarted
    /\ main.oldest <= TaskCount
    /\ GetFuture(main.oldest)
    /\ join(main.oldest)
    /\ main' = [main EXCEPT !.oldest = @ + 1]
    /\ UNCHANGED <<team, share, answers, future, sharedVars, poolVars>>

-----------------------------------------------------------------------------
(* The lambda F of the four teams, in a worker.                            *)

Holding(t) == thread[t].pc = "run" /\ thread[t].tasks # <<>>

StartTask(t) ==
    /\ Holding(t)
    /\ LET n == contestInput[Head(thread[t].tasks)]
       IN  IF share THEN Enter(t, n) ELSE Calculate(t, n)
    /\ UNCHANGED <<teamVars, threadVars, poolVars>>

ShareStep(t) ==
    /\ Get(t) \/ Insert(t)
    /\ UNCHANGED <<teamVars, threadVars, poolVars>>

\* promise.set_value(result)
SetValue(t) ==
    /\ Leave(t)
    /\ future' = [future EXCEPT ![Head(thread[t].tasks)] = call[t].value]
    /\ thread' = [thread EXCEPT ![t].tasks = Tail(@)]
    /\ UNCHANGED <<teamVars, poolVars>>

EndThread(t) ==
    /\ team # "Pool"
    /\ thread[t].pc = "run" /\ thread[t].tasks = <<>>
    /\ thread' = [thread EXCEPT ![t].pc = "ended"]
    /\ UNCHANGED <<teamVars, future, sharedVars, poolVars>>

-----------------------------------------------------------------------------
Collected ==
    /\ AllStarted
    /\ main.oldest = 1 + IF team = "ConstThreads" THEN TaskCount + Size ELSE TaskCount

ReturnFromThreads_slip ==
    /\ team \in ThreadTeam
    /\ main.pc = "loop" /\ AllStarted /\ main.oldest = TaskCount + 1
    /\ Return
    /\ UNCHANGED <<threadVars, sharedVars, poolVars>>
ReturnFromThreads ==
    /\ team \in ThreadTeam
    /\ main.pc = "loop" /\ Collected
    /\ Return
    /\ UNCHANGED <<threadVars, sharedVars, poolVars>>

ThreadMain ==
    \/ BeginContest \/ ReturnFromThreads
    \/ StartThread \/ GetOldest \/ JoinOldest \/ GetInOrder \/ JoinFront
    \/ PushTask \/ Notify \/ Destroy \/ WakeAll \/ JoinWorker
    \/ StartAsync \/ RunDeferred \/ GetAsync

Worker(t) == StartTask(t) \/ ShareStep(t) \/ SetValue(t) \/ EndThread(t) \/ TakeTask(t)

ThreadNext == ThreadMain \/ \E t \in Thread : Worker(t) \/ Awake(t)
=============================================================================
