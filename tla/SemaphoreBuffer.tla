-------------------------- MODULE SemaphoreBuffer ---------------------------
(***************************************************************************)
(* The buffer of ProducersConsumers.java and of gifts.c: two semaphores    *)
(* count the taken and the free slots, mutexes guard the two indices.  The *)
(* Java program has fair semaphores and a mutex for each index, gifts.c    *)
(* has process-shared POSIX semaphores and one mutex for both.             *)
(***************************************************************************)
EXTENDS BufferUsers, FairSemaphore

VARIABLES sem,          \* takenCount or gifts, freeCount or free_space, mutexes
          buffer, firstTaken, firstFree,
          total_collected    \* of gifts.c

slotVars == <<buffer, firstTaken, firstFree, total_collected>>
semaphoreVars == <<sem, slotVars>>

Semaphore == {"takenCount", "freeCount", "takenMutex", "freeMutex"}

NoItem == <<>>

SemaphoreInit_slip ==
    /\ sem = [s \in Semaphore |->
                NewSemaphore(CASE s = "takenCount" -> 0
                               [] s = "freeCount"  -> BufferSize + 1
                               [] OTHER            -> 1)]
    /\ buffer = [i \in 0..BufferSize - 1 |-> NoItem]
    /\ firstTaken = 0 /\ firstFree = 0 /\ total_collected = 0
SemaphoreInit ==
    /\ sem = [s \in Semaphore |->
                NewSemaphore(CASE s = "takenCount" -> 0
                               [] s = "freeCount"  -> BufferSize
                               [] OTHER            -> 1)]
    /\ buffer = [i \in 0..BufferSize - 1 |-> NoItem]
    /\ firstTaken = 0 /\ firstFree = 0 /\ total_collected = 0

Semaphored(t, at) == program \in {"semaphores", "gifts"} /\ pc[t] = at

Goto(t, to) == pc' = [pc EXCEPT ![t] = to]

Mutex(t) == IF t \in Consumer \/ program = "gifts" THEN "takenMutex" ELSE "freeMutex"
Mine(t)  == IF t \in Consumer THEN "takenCount" ELSE "freeCount"
Other(t) == IF t \in Consumer THEN "freeCount" ELSE "takenCount"

\* The two semaphores that consume and produce acquire.
Order_slip(t) == <<Mutex(t), Mine(t)>>
Order(t) == <<Mine(t), Mutex(t)>>

-----------------------------------------------------------------------------
(* acquire() of a fair semaphore queues the caller; sem_wait takes any.    *)

Queued(t, s) == \E i \in 1..Len(sem[s].queue) : sem[s].queue[i].who = t

Queue(t, s) ==
    /\ program = "semaphores" /\ ~Queued(t, s)
    /\ sem' = [sem EXCEPT ![s] = Join(@, t, 1)]
    /\ UNCHANGED pc

Acquire(t, s, to) ==
    /\ IF program = "semaphores" THEN CanPass(sem[s], t) ELSE sem[s].permits > 0
    /\ sem' = IF program = "semaphores" THEN [sem EXCEPT ![s] = Pass(@)]
              ELSE [sem EXCEPT ![s].permits = @ - 1]
    /\ Goto(t, to)

WaitCount(t) ==
    /\ Semaphored(t, "idle")
    /\ Queue(t, Order(t)[1]) \/ Acquire(t, Order(t)[1], "counted")
    /\ UNCHANGED <<program, left, sent, received, slotVars>>

WaitMutex(t) ==
    /\ Semaphored(t, "counted")
    /\ Queue(t, Order(t)[2]) \/ Acquire(t, Order(t)[2], "inside")
    /\ UNCHANGED <<program, left, sent, received, slotVars>>

-----------------------------------------------------------------------------
(* produce and consume, insert and collect: the slot, then its index.      *)

StoreSlot(p) ==
    /\ Semaphored(p, "inside")
    /\ buffer' = [buffer EXCEPT ![firstFree] = Made(p)]
    /\ Store(p) /\ Goto(p, "stored")
    /\ UNCHANGED <<program, left, sem, firstTaken, firstFree, total_collected>>

AdvanceFree(p) ==
    /\ Semaphored(p, "stored")
    /\ firstFree' = (firstFree + 1) % BufferSize
    /\ Goto(p, "over")
    /\ UNCHANGED <<program, left, sent, received, sem, buffer, firstTaken, total_collected>>

FetchSlot(c) ==
    /\ Semaphored(c, "inside")
    /\ Fetch(buffer[firstTaken]) /\ Goto(c, "stored")
    /\ UNCHANGED <<program, left, semaphoreVars>>

\* gifts.c ends a reindeer when there is one gift left for each other one.
AdvanceTaken(c) ==
    /\ Semaphored(c, "stored")
    /\ firstTaken' = (firstTaken + 1) % BufferSize
    /\ total_collected' = total_collected + 1
    /\ left' = IF program = "gifts" /\ total_collected' + Cardinality(Consumer) > Total
               THEN [left EXCEPT ![c] = 0] ELSE left
    /\ Goto(c, "over")
    /\ UNCHANGED <<program, sent, received, sem, buffer, firstFree>>

-----------------------------------------------------------------------------
Unlock(t) ==
    /\ Semaphored(t, "over")
    /\ sem' = [sem EXCEPT ![Mutex(t)] = Release(@)]
    /\ Goto(t, "free")
    /\ UNCHANGED <<program, left, sent, received, slotVars>>

Post(t) ==
    /\ Semaphored(t, "free")
    /\ sem' = [sem EXCEPT ![Other(t)] = Release(@)]
    /\ Round(t, IF program = "gifts" /\ t \in Consumer THEN left[t] ELSE left[t] - 1)
    /\ UNCHANGED <<program, sent, received, slotVars>>

SemaphoreStep(t) ==
    \/ WaitCount(t) \/ WaitMutex(t) \/ Unlock(t) \/ Post(t)
    \/ t \in Producer /\ (StoreSlot(t) \/ AdvanceFree(t))
    \/ t \in Consumer /\ (FetchSlot(t) \/ AdvanceTaken(t))
=============================================================================
