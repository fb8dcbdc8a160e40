------------------------------- MODULE Buffers ------------------------------
(***************************************************************************)
(* The five producer and consumer programs, one of them in each behaviour: *)
(* those of SemaphoreBuffer; two with a monitor, BlockingQueue.java, a     *)
(* synchronized class that wakes every waiting thread, and the struct      *)
(* prodcons of producer-consumer.c, with a mutex and two conditions that   *)
(* wake one; and one with a queue of java.util.concurrent.  What a thread  *)
(* does in a monitor between taking the lock and leaving or waiting is one *)
(* step.                                                                   *)
(***************************************************************************)
EXTENDS SemaphoreBuffer

VARIABLES list,      \* list, buffer
          front,     \* front, readpos
          back,      \* (front + count) % capacity, writepos
          count      \* of BlockingQueue

monitorVars == <<list, front, back, count>>

MonitorInit ==
    /\ list = [i \in 0..BufferSize - 1 |-> <<>>]
    /\ front = 0 /\ back = 0 /\ count = 0

InMonitor(t) == program \in {"monitor", "signals"} /\ pc[t] \in {"idle", "awake"}

Full  == IF program = "monitor" THEN count = BufferSize
         ELSE (back + 1) % BufferSize = front
Empty == IF program = "monitor" THEN count = 0 ELSE back = front

\* The conditions of the two while loops, where the lock is taken.
MustWait_slip(t) == pc[t] = "idle" /\ IF t \in Producer THEN Full ELSE Empty
MustWait(t) == IF t \in Producer THEN Full ELSE Empty

\* wait(), pthread_cond_wait()
Wait(t) ==
    /\ InMonitor(t) /\ MustWait(t)
    /\ pc' = [pc EXCEPT ![t] = "waiting"]
    /\ UNCHANGED <<program, left, sent, received, monitorVars>>

\* The round of t ends, and whom it wakes: notifyAll() wakes all, a signal
\* of notempty or notfull one thread of the other kind, if one waits.
LeaveMonitor(t, n) ==
    LET waiting == {u \in User : pc[u] = "waiting"}
        other   == {u \in waiting : u \in Producer <=> t \in Consumer}
        Wake(S) == [u \in User |->
                      CASE u = t -> IF n = 0 THEN "done" ELSE "idle"
                        [] u \in S -> "awake"
                        [] OTHER -> pc[u]]
    IN  /\ left' = [left EXCEPT ![t] = n]
        /\ pc' \in IF program = "monitor" THEN {Wake(waiting)}
                   ELSE IF other = {} THEN {Wake({})}
                   ELSE {Wake({u}) : u \in other}

put(p) ==
    /\ InMonitor(p) /\ ~MustWait(p)
    /\ list' = [list EXCEPT ![back] = Made(p)]
    /\ back' = (back + 1) % BufferSize
    /\ count' = count + 1
    /\ Store(p)
    /\ LeaveMonitor(p, left[p] - 1)
    /\ UNCHANGED <<program, front>>

take(c) ==
    /\ InMonitor(c) /\ ~MustWait(c)
    /\ front' = (front + 1) % BufferSize
    /\ count' = count - 1
    /\ Fetch(list[front])
    /\ LeaveMonitor(c, IF program = "monitor" THEN left[c] - 1
                       ELSE IF OVER(list[front]) THEN 0 ELSE left[c])
    /\ UNCHANGED <<program, list, back>>

\* Either kind of wait may return without a signal.
SpuriousWakeup(t) ==
    /\ pc[t] = "waiting"
    /\ pc' = [pc EXCEPT ![t] = "awake"]
    /\ UNCHANGED <<program, left, sent, received, monitorVars>>

MonitorStep(t) ==
    Wait(t) \/ (t \in Producer /\ put(t)) \/ (t \in Consumer /\ take(t))

-----------------------------------------------------------------------------
bufferVars == <<left, sent, received, semaphoreVars, monitorVars>>
vars == <<userVars, semaphoreVars, monitorVars>>

\* LinkedBlockingQueue of java.util.concurrent, as the Lab_4 program uses it.
Enqueue(p) ==
    /\ program = "queue" /\ pc[p] = "idle"
    /\ Len(sent) - Len(received) < BufferSize
    /\ Store(p) /\ Round(p, left[p] - 1)
    /\ UNCHANGED <<program, semaphoreVars, monitorVars>>

Dequeue(c) ==
    /\ program = "queue" /\ pc[c] = "idle"
    /\ Len(received) < Len(sent)
    /\ Fetch(sent[Len(received) + 1]) /\ Round(c, left[c] - 1)
    /\ UNCHANGED <<program, semaphoreVars, monitorVars>>

Step(t) ==
    \/ SemaphoreStep(t) /\ UNCHANGED monitorVars
    \/ MonitorStep(t) /\ UNCHANGED semaphoreVars
    \/ t \in Producer /\ Enqueue(t)
    \/ t \in Consumer /\ Dequeue(t)

Spurious(t) == SpuriousWakeup(t) /\ UNCHANGED semaphoreVars

Fresh == UsersFresh /\ SemaphoreInit /\ MonitorInit
Init  == UsersStart /\ Fresh

Next == \E t \in User : Step(t) \/ Spurious(t)

\* A thread that can go on does: none is starved by its own program, and the
\* waits that may return at will need not.
Spec == Init /\ [][Next]_vars /\ \A t \in User : WF_vars(Step(t))

-----------------------------------------------------------------------------
\* Whatever the buffer is made of, every item that is fetched is the oldest
\* one that was stored and not fetched yet, and no more than the size of the
\* buffer are stored and not fetched: producer-consumer.c wants every number
\* printed once on each side of the arrow.  (The index arithmetic of put and
\* take, insert and collect, and the re-check of a woken thread.)
FIFO == INSTANCE Channel WITH Capacity <- BufferSize
FirstInFirstOut == FIFO!ChannelSpec

\* With a mutex of its own for each index, a producer and a consumer are in
\* the buffer at once; they never touch the same slot, and two threads of one
\* kind are never there together.  (takenMutex and freeMutex of
\* ProducersConsumers.java, mutex of gifts.c, and the two counts.)
SlotsApart ==
    program \in BufferPrograms =>
    LET Inside(S) == {t \in S : pc[t] \in {"inside", "stored", "over"}}
        Touching(t) == pc[t] = "inside"
    IN  /\ Cardinality(Inside(Producer)) <= 1 /\ Cardinality(Inside(Consumer)) <= 1
        /\ \A p \in Producer, c \in Consumer :
             Touching(p) /\ Touching(c) => firstFree # firstTaken

\* Main, which joins or waits for all threads, returns.
UsersDone == program \in BufferPrograms => \A t \in User : pc[t] = "done"
=============================================================================
