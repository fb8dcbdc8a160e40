----------------------------- MODULE LabsProofs -----------------------------
(***************************************************************************)
(* The buffers of labs 3, 4, 6, 9 and 10 are channels, for every number of *)
(* producers, consumers, items and slots; and what the other programs give *)
(* when they end is right: lines, row sums, the array, futures.            *)
(***************************************************************************)
EXTENDS Labs, FiniteSetTheorems, SequenceTheorems, WellFoundedInduction,
        NaturalsInduction, TLAPS

Slot == 0..BufferSize - 1

\* The slot after slot i, and the k-th slot after it.
Succ(i) == (i + 1) % BufferSize
Ring(i, k) == IF i + k < BufferSize THEN i + k ELSE i + k - BufferSize

\* How many items are in the buffer.
Held == Len(sent) - Len(received)

\* The items in the buffer, from slot i on, are those not yet fetched.
Holds(slots, i, in, out) ==
  \A k \in 0..Len(in) - Len(out) - 1 : slots[Ring(i, k)] = in[Len(out) + k + 1]

SemaphorePrograms == {"semaphores", "gifts"}
MonitorPrograms   == {"monitor", "signals"}

Inside == {"inside", "stored", "over"}
Places ==
  IF program \in SemaphorePrograms
  THEN Inside \cup {"idle", "counted", "free", "done"}
  ELSE {"idle", "waiting", "awake", "done"}

UsersInv ==
  /\ pc \in [User -> Places]
  /\ DOMAIN left = User
  /\ \A p \in Producer : /\ left[p] \in 0..Produced
                         /\ pc[p] # "done" => left[p] # 0
  /\ sent \in Seq(Item) /\ received \in Seq(Item)
  /\ Held \in 0..BufferSize

-----------------------------------------------------------------------------
(* Semaphores.                                                             *)

Waiter == [who : User, permits : {1}]
SemaphoreTypes ==
  /\ sem \in [Semaphore -> [permits : Nat, queue : Seq(Waiter)]]
  /\ buffer \in [Slot -> Item \cup {NoItem}]
  /\ firstTaken \in Slot /\ firstFree \in Slot

\* Who has taken a mutex; it has a permit when nobody has.
Holder(m) == {t \in User : pc[t] \in Inside /\ Mutex(t) = m}
MutexInv ==
  \A m \in {"takenMutex", "freeMutex"} :
    /\ sem[m].permits \in {0, 1}
    /\ sem[m].permits = 1 => Holder(m) = {}
    /\ \A t, u \in Holder(m) : t = u

\* A permit of a count is a slot nobody has claimed: the users of one kind
\* have claimed what they will fill or empty, those of the other are yet to
\* give back what they have.
Filling  == {p \in Producer : pc[p] \in {"counted", "inside"}}
Filled   == {p \in Producer : pc[p] \in {"stored", "over", "free"}}
Emptying == {c \in Consumer : pc[c] \in {"counted", "inside"}}
Emptied  == {c \in Consumer : pc[c] \in {"stored", "over", "free"}}
CountInv ==
  /\ sem["freeCount"].permits + Cardinality(Filling) + Held + Cardinality(Emptied)
       = BufferSize
  /\ sem["takenCount"].permits + Cardinality(Emptying) + Cardinality(Filled) = Held

\* Where the indices are or, between the slot and its index, will be.
Between(S) == \E t \in S : pc[t] = "stored"
Oldest == IF Between(Consumer) THEN Succ(firstTaken) ELSE firstTaken
Room   == IF Between(Producer) THEN Succ(firstFree) ELSE firstFree
SlotsInv == Room = Ring(Oldest, Held) /\ Holds(buffer, Oldest, sent, received)

SemaphoreInv == SemaphoreTypes /\ MutexInv /\ CountInv /\ SlotsInv

-----------------------------------------------------------------------------
(* Monitors.                                                               *)

MonitorInv ==
  /\ list \in [Slot -> Item \cup {<<>>}]
  /\ front \in Slot /\ back = Ring(front, Held)
  /\ Holds(list, front, sent, received)
  /\ IF program = "monitor" THEN count = Held ELSE Held < BufferSize

BufferInv ==
  program \in BufferPrograms =>
    /\ UsersInv
    /\ program \in SemaphorePrograms => SemaphoreInv
    /\ program \in MonitorPrograms => MonitorInv

-----------------------------------------------------------------------------
(* The ring of slots.                                                      *)

LEMMA SuccFact ==
  \A i \in Slot : Succ(i) = (IF i + 1 = BufferSize THEN 0 ELSE i + 1)
<1>1. BufferSize \in Nat \ {0}
  BY BufferAssumption
<1>2. ASSUME NEW i \in Slot
      PROVE  Succ(i) = (IF i + 1 = BufferSize THEN 0 ELSE i + 1)
  BY <1>1, SMTT(30) DEF Succ, Slot
<1> QED BY <1>2

LEMMA RingFact ==
  ASSUME NEW i \in Slot
  PROVE  /\ Succ(i) \in Slot
         /\ Ring(i, 0) = i
         /\ \A k \in 0..BufferSize : Ring(i, k) \in Slot
         /\ \A k \in 0..BufferSize - 1 : /\ Succ(Ring(i, k)) = Ring(i, k + 1)
                                         /\ Ring(Succ(i), k) = Ring(i, k + 1)
         /\ \A k, j \in 0..BufferSize - 1 : Ring(i, k) = Ring(i, j) => k = j
<1>1. BufferSize \in Nat \ {0}
  BY BufferAssumption
<1>2. Succ(i) = IF i + 1 = BufferSize THEN 0 ELSE i + 1
  BY SuccFact
<1>3. Ring(i, 0) = i /\ Succ(i) \in Slot
  BY <1>1, <1>2 DEF Ring, Slot
<1>4. \A k \in 0..BufferSize : Ring(i, k) \in Slot
  BY <1>1 DEF Ring, Slot
<1>5. \A k, j \in 0..BufferSize - 1 : Ring(i, k) = Ring(i, j) => k = j
  BY <1>1 DEF Ring, Slot
<1>6. ASSUME NEW k \in 0..BufferSize - 1
      PROVE  Succ(Ring(i, k)) = Ring(i, k + 1) /\ Ring(Succ(i), k) = Ring(i, k + 1)
  <2>1. Ring(i, k) \in Slot
    BY <1>1, <1>4
  <2>2. Succ(Ring(i, k)) = IF Ring(i, k) + 1 = BufferSize THEN 0 ELSE Ring(i, k) + 1
    BY <2>1, SuccFact
  <2> QED BY <1>1, <1>2, <2>2 DEF Ring, Slot
<1> QED BY <1>3, <1>4, <1>5, <1>6

\* An item goes to one slot.
Put(slots, after, i, e) ==
  after[i] = e /\ \A s \in Slot : s # i => after[s] = slots[s]

\* An item goes to the slot after those that are held.
LEMMA StoreHolds ==
  ASSUME sent \in Seq(Item), received \in Seq(Item), Held \in 0..BufferSize - 1,
         NEW i \in Slot, NEW slots, Holds(slots, i, sent, received),
         NEW e \in Item, sent' = Append(sent, e), received' = received,
         NEW after, Put(slots, after, Ring(i, Held), e)
  PROVE  /\ sent' \in Seq(Item) /\ received' \in Seq(Item)
         /\ Held' = Held + 1 /\ Held' \in 0..BufferSize
         /\ Holds(after, i, sent', received')
<1>1. /\ sent' \in Seq(Item) /\ Len(sent') = Len(sent) + 1
      /\ \A j \in 1..Len(sent) : sent'[j] = sent[j]
      /\ sent'[Len(sent) + 1] = e
      /\ Len(sent) \in Nat /\ Len(received) \in Nat
  BY AppendProperties, LenProperties
<1>2. BufferSize \in Nat \ {0}
  BY BufferAssumption
<1>3. Held' = Held + 1 /\ Held' \in 0..BufferSize
  BY <1>1, <1>2 DEF Held
<1>4. Ring(i, Held) \in Slot
  <2>1. \A k \in 0..BufferSize : Ring(i, k) \in Slot
    BY RingFact
  <2> QED BY <1>2, <2>1
<1>5. ASSUME NEW k \in 0..Held' - 1
      PROVE  after[Ring(i, k)] = sent'[Len(received') + k + 1]
  <2>1. CASE k = Held
    <3>1. Len(received') + k + 1 = Len(sent) + 1
      BY <1>1, <2>1 DEF Held
    <3> QED BY <1>1, <1>4, <2>1, <3>1 DEF Put
  <2>2. CASE k # Held
    <3>1. k \in 0..Held - 1 /\ k \in 0..BufferSize - 1
      BY <1>2, <1>3, <2>2
    <3>2. Ring(i, k) # Ring(i, Held) /\ Ring(i, k) \in Slot
      <4>1. /\ \A j \in 0..BufferSize : Ring(i, j) \in Slot
            /\ \A l, j \in 0..BufferSize - 1 : Ring(i, l) = Ring(i, j) => l = j
        BY RingFact
      <4>2. k \in 0..BufferSize
        BY <1>2, <3>1
      <4> QED BY <2>2, <3>1, <4>1, <4>2
    <3>3. Len(received) + k + 1 \in 1..Len(sent)
      BY <1>1, <3>1 DEF Held
    <3>4. after[Ring(i, k)] = slots[Ring(i, k)]
      BY <3>2 DEF Put
    <3> QED BY <1>1, <3>1, <3>3, <3>4 DEF Holds, Held
  <2> QED BY <2>1, <2>2
<1>6. Holds(after, i, sent', received')
  BY <1>5 DEF Holds, Held
<1> QED BY <1>1, <1>3, <1>6

\* The item in the first slot is the oldest, and the others stay.
LEMMA FetchHolds ==
  ASSUME sent \in Seq(Item), received \in Seq(Item), Held \in 1..BufferSize,
         NEW i \in Slot, NEW slots, Holds(slots, i, sent, received),
         sent' = sent, received' = Append(received, slots[i])
  PROVE  /\ slots[i] = sent[Len(received) + 1]
         /\ sent' \in Seq(Item) /\ received' \in Seq(Item)
         /\ Held' = Held - 1 /\ Held' \in 0..BufferSize
         /\ Holds(slots, Succ(i), sent', received')
<1>1. /\ Len(sent) \in Nat /\ Len(received) \in Nat /\ BufferSize \in Nat \ {0}
      /\ \A j \in 1..Len(sent) : sent[j] \in Item
  BY LenProperties, ElementOfSeq, BufferAssumption
<1>2. slots[i] = sent[Len(received) + 1] /\ slots[i] \in Item
  <2>1. 0 \in 0..Held - 1 /\ Len(received) + 1 \in 1..Len(sent)
    BY <1>1 DEF Held
  <2>2. slots[Ring(i, 0)] = sent[Len(received) + 0 + 1]
    BY <2>1 DEF Holds, Held
  <2>3. Len(received) + 0 + 1 = Len(received) + 1
    BY <1>1
  <2> QED BY <1>1, <2>1, <2>2, <2>3, RingFact
<1>3. received' \in Seq(Item) /\ Len(received') = Len(received) + 1
  BY <1>2, AppendProperties
<1>4. Held' = Held - 1 /\ Held' \in 0..BufferSize
  BY <1>1, <1>3 DEF Held
<1>5. ASSUME NEW k \in 0..Held' - 1
      PROVE  slots[Ring(Succ(i), k)] = sent'[Len(received') + k + 1]
  <2>1. k + 1 \in 0..Held - 1 /\ k \in 0..BufferSize - 1
    BY <1>1, <1>4
  <2>2. Ring(Succ(i), k) = Ring(i, k + 1)
    BY <2>1, RingFact
  <2>3. slots[Ring(i, k + 1)] = sent[Len(received) + (k + 1) + 1]
    BY <2>1 DEF Holds, Held
  <2>4. Len(received) + (k + 1) + 1 = Len(received') + k + 1
    BY <1>1, <1>3
  <2> QED BY <2>2, <2>3, <2>4
<1>6. Holds(slots, Succ(i), sent', received')
  BY <1>5 DEF Holds, Held
<1> QED BY <1>2, <1>3, <1>4, <1>6

-----------------------------------------------------------------------------
(* Permits.                                                                *)

LEMMA UsersFinite ==
  /\ IsFiniteSet(Producer) /\ IsFiniteSet(Consumer)
  /\ Producer \cap Consumer = {} /\ User = Producer \cup Consumer
BY BufferAssumption, FS_Subset DEF User

\* A thread that joins a set, or leaves it.
LEMMA JoinCount ==
  ASSUME NEW A, IsFiniteSet(A), NEW t, NEW B, NEW after \in BOOLEAN,
         B = IF after THEN A \cup {t} ELSE A \ {t}
  PROVE  /\ Cardinality(A) \in Nat /\ Cardinality(B) \in Nat
         /\ t \in A => Cardinality(A) > 0
         /\ t \in A /\ after => Cardinality(B) = Cardinality(A)
         /\ t \notin A /\ ~after => Cardinality(B) = Cardinality(A)
         /\ t \notin A /\ after => Cardinality(B) = Cardinality(A) + 1
         /\ t \in A /\ ~after => Cardinality(B) = Cardinality(A) - 1
<1>1. /\ Cardinality(A) \in Nat /\ Cardinality(A \ {t}) \in Nat
      /\ IsFiniteSet(A \ {t})
  BY FS_CardinalityType, FS_Subset
<1>2. /\ Cardinality(A \cup {t}) =
           IF t \in A THEN Cardinality(A) ELSE Cardinality(A) + 1
      /\ Cardinality(A \ {t}) =
           IF t \in A THEN Cardinality(A) - 1 ELSE Cardinality(A)
  BY FS_AddElement, FS_RemoveElement
<1> QED BY <1>1, <1>2

\* The sums of the counts, when each term changes.
LEMMA CountSums ==
  ASSUME CountInv, BufferSize \in Nat, Held \in Nat,
         sem["freeCount"].permits \in Nat, sem["takenCount"].permits \in Nat,
         Cardinality(Filling) \in Nat, Cardinality(Filled) \in Nat,
         Cardinality(Emptying) \in Nat, Cardinality(Emptied) \in Nat,
         NEW f \in Int, Cardinality(Filling') = Cardinality(Filling) + f,
         NEW g \in Int, Cardinality(Filled') = Cardinality(Filled) + g,
         NEW d \in Int, Cardinality(Emptying') = Cardinality(Emptying) + d,
         NEW e \in Int, Cardinality(Emptied') = Cardinality(Emptied) + e,
         NEW h \in Int, Held' = Held + h,
         sem'["freeCount"].permits = sem["freeCount"].permits - f - h - e,
         sem'["takenCount"].permits = sem["takenCount"].permits - d - g + h
  PROVE  CountInv'
BY DEF CountInv

\* Taking a permit, with or without a queue.
LEMMA AcquireFacts ==
  ASSUME NEW t \in User, NEW s \in Semaphore, NEW to, Acquire(t, s, to),
         sem \in [Semaphore -> [permits : Nat, queue : Seq(Waiter)]]
  PROVE  /\ sem' \in [Semaphore -> [permits : Nat, queue : Seq(Waiter)]]
         /\ sem[s].permits > 0
         /\ sem'[s].permits = sem[s].permits - 1
         /\ \A z \in Semaphore \ {s} : sem'[z] = sem[z]
         /\ pc' = [pc EXCEPT ![t] = to]
<1> DEFINE c == sem[s]
<1>1. c \in [permits : Nat, queue : Seq(Waiter)]
  OBVIOUS
<1>2. CASE program = "semaphores"
  <2>1. /\ c.queue # <<>> /\ Head(c.queue).permits <= c.permits
        /\ sem' = [sem EXCEPT ![s] = Pass(c)] /\ pc' = [pc EXCEPT ![t] = to]
    BY <1>2 DEF Acquire, CanPass, Goto
  <2>2. /\ Head(c.queue) \in Waiter /\ Tail(c.queue) \in Seq(Waiter)
    BY <1>1, <2>1, HeadTailProperties
  <2>3. Head(c.queue).permits = 1
    BY <2>2 DEF Waiter
  <2>4. Pass(c) = [permits |-> c.permits - 1, queue |-> Tail(c.queue)]
    BY <2>3 DEF Pass
  <2>5. c.permits > 0 /\ c.permits - 1 \in Nat
    BY <1>1, <2>1, <2>3
  <2> HIDE DEF c
  <2>6. /\ Pass(c) \in [permits : Nat, queue : Seq(Waiter)]
        /\ Pass(c).permits = c.permits - 1
    BY <2>2, <2>4, <2>5
  <2> QED BY <2>1, <2>5, <2>6 DEF c
<1>3. CASE program # "semaphores"
  <2>1. /\ c.permits > 0 /\ pc' = [pc EXCEPT ![t] = to]
        /\ sem' = [sem EXCEPT ![s] = [c EXCEPT !.permits = c.permits - 1]]
    BY <1>3 DEF Acquire, Goto
  <2> QED BY <1>1, <2>1
<1> QED BY <1>2, <1>3

\* Waiting in line.
LEMMA QueueFacts ==
  ASSUME NEW t \in User, NEW s \in Semaphore, Queue(t, s),
         sem \in [Semaphore -> [permits : Nat, queue : Seq(Waiter)]]
  PROVE  /\ sem' \in [Semaphore -> [permits : Nat, queue : Seq(Waiter)]]
         /\ \A z \in Semaphore : sem'[z].permits = sem[z].permits
         /\ pc' = pc
<1> DEFINE c == sem[s]
           q == Append(c.queue, [who |-> t, permits |-> 1])
<1>1. /\ c \in [permits : Nat, queue : Seq(Waiter)]
      /\ sem' = [sem EXCEPT ![s] = [c EXCEPT !.queue = q]] /\ pc' = pc
  BY DEF Queue, Join
<1>2. [who |-> t, permits |-> 1] \in Waiter
  BY DEF Waiter
<1>3. q \in Seq(Waiter)
  BY <1>1, <1>2, AppendProperties
<1> HIDE DEF c, q
<1>4. /\ [c EXCEPT !.queue = q] \in [permits : Nat, queue : Seq(Waiter)]
      /\ [c EXCEPT !.queue = q].permits = c.permits
  BY <1>1, <1>3
<1> QED BY <1>1, <1>4 DEF c

\* Giving a permit back.
LEMMA ReleaseFacts ==
  ASSUME NEW s \in Semaphore, sem' = [sem EXCEPT ![s] = Release(@)],
         sem \in [Semaphore -> [permits : Nat, queue : Seq(Waiter)]]
  PROVE  /\ sem' \in [Semaphore -> [permits : Nat, queue : Seq(Waiter)]]
         /\ sem'[s].permits = sem[s].permits + 1
         /\ \A z \in Semaphore \ {s} : sem'[z] = sem[z]
BY DEF Release

-----------------------------------------------------------------------------
(* The programs with semaphores.                                           *)

SemInv == UsersInv /\ program \in SemaphorePrograms /\ SemaphoreInv

\* What a move of one thread does to the sets of the invariant.
LEMMA SemMove ==
  ASSUME SemInv, program' = program, NEW t \in User, NEW to \in Places,
         pc' = [pc EXCEPT ![t] = to]
  PROVE  /\ pc' \in [User -> Places'] /\ pc'[t] = to
         /\ \A u \in User \ {t} : pc'[u] = pc[u]
BY DEF SemInv, UsersInv, Places

\* A thread that stays inside, or outside, leaves the mutexes alone.
LEMMA StillMutex ==
  ASSUME SemInv, program' = program, NEW t \in User, NEW to \in Places,
         pc' = [pc EXCEPT ![t] = to], pc[t] \in Inside <=> to \in Inside,
         \A m \in {"takenMutex", "freeMutex"} : sem'[m].permits = sem[m].permits
  PROVE  MutexInv'
<1>1. \A u \in User : pc'[u] \in Inside <=> pc[u] \in Inside
  BY SemMove
<1>2. \A m : Holder(m)' = Holder(m)
  BY <1>1 DEF Holder, Mutex
<1> QED BY <1>2 DEF SemInv, SemaphoreInv, MutexInv

\* A thread that does not touch the slots leaves their invariant alone.
LEMMA StillSlots ==
  ASSUME SemInv, program' = program, NEW t \in User, NEW to \in Places,
         pc' = [pc EXCEPT ![t] = to], pc[t] # "stored", to # "stored",
         UNCHANGED <<sent, received, slotVars>>
  PROVE  SlotsInv' /\ Held' = Held
<1>1. \A u \in User : pc'[u] = "stored" <=> pc[u] = "stored"
  BY SemMove
<1>2. /\ Between(Producer)' <=> Between(Producer)
      /\ Between(Consumer)' <=> Between(Consumer)
  BY <1>1, UsersFinite DEF Between
<1>3. Held' = Held
  BY DEF Held
<1> QED
  BY <1>2, <1>3 DEF SemInv, SemaphoreInv, SlotsInv, Room, Oldest, slotVars

LEMMA ClaimsKinds ==
  ASSUME NEW t \in User
  PROVE  /\ t \in Producer => /\ Mine(t) = "freeCount" /\ Other(t) = "takenCount"
                              /\ t \notin Consumer
         /\ t \in Consumer => /\ Mine(t) = "takenCount" /\ Other(t) = "freeCount"
                              /\ t \notin Producer
         /\ t \in Producer \/ t \in Consumer
         /\ Mutex(t) \in {"takenMutex", "freeMutex"}
         /\ Mine(t) \in Semaphore /\ Other(t) \in Semaphore /\ Mutex(t) \in Semaphore
BY UsersFinite DEF Mine, Other, Mutex, Semaphore

\* What a thread does that takes no part in another round.
LEMMA StillUsers ==
  ASSUME SemInv, program' = program, NEW t \in User, NEW to \in Places,
         pc' = [pc EXCEPT ![t] = to], pc[t] # "done",
         UNCHANGED <<left, sent, received>>
  PROVE  UsersInv' /\ program' \in SemaphorePrograms
<1>1. /\ pc' \in [User -> Places'] /\ pc'[t] = to
      /\ \A u \in User \ {t} : pc'[u] = pc[u]
  BY SemMove
<1>2. Held' = Held
  BY DEF Held
<1> QED BY <1>1, <1>2, UsersFinite DEF SemInv, UsersInv

\* The sets of the counts, when one thread moves.
LEMMA ClaimsMove ==
  ASSUME SemInv, program' = program, NEW t \in User, NEW to \in Places,
         pc' = [pc EXCEPT ![t] = to]
  PROVE  /\ IsFiniteSet(Filling) /\ IsFiniteSet(Filled)
         /\ IsFiniteSet(Emptying) /\ IsFiniteSet(Emptied)
         /\ t \in Producer =>
              /\ Emptying' = Emptying /\ Emptied' = Emptied
              /\ Filling' = IF to \in {"counted", "inside"} THEN Filling \cup {t}
                            ELSE Filling \ {t}
              /\ Filled' = IF to \in {"stored", "over", "free"} THEN Filled \cup {t}
                           ELSE Filled \ {t}
         /\ t \in Consumer =>
              /\ Filling' = Filling /\ Filled' = Filled
              /\ Emptying' = IF to \in {"counted", "inside"} THEN Emptying \cup {t}
                             ELSE Emptying \ {t}
              /\ Emptied' = IF to \in {"stored", "over", "free"} THEN Emptied \cup {t}
                            ELSE Emptied \ {t}
<1>1. pc'[t] = to /\ \A u \in User \ {t} : pc'[u] = pc[u]
  BY SemMove
<1>2. /\ IsFiniteSet(Filling) /\ IsFiniteSet(Filled)
      /\ IsFiniteSet(Emptying) /\ IsFiniteSet(Emptied)
  <2>1. /\ Filling \subseteq Producer /\ Filled \subseteq Producer
        /\ Emptying \subseteq Consumer /\ Emptied \subseteq Consumer
    BY DEF Filling, Filled, Emptying, Emptied
  <2> QED BY <2>1, UsersFinite, FS_Subset
<1>3. CASE t \in Producer
  BY <1>1, <1>2, <1>3, UsersFinite DEF Filling, Filled, Emptying, Emptied
<1>4. CASE t \in Consumer
  BY <1>1, <1>2, <1>4, UsersFinite DEF Filling, Filled, Emptying, Emptied
<1> QED BY <1>2, <1>3, <1>4

LEMMA CountNumbers ==
  ASSUME SemInv
  PROVE  /\ CountInv /\ BufferSize \in Nat /\ Held \in Nat
         /\ sem["freeCount"].permits \in Nat /\ sem["takenCount"].permits \in Nat
         /\ IsFiniteSet(Filling) /\ IsFiniteSet(Filled)
         /\ IsFiniteSet(Emptying) /\ IsFiniteSet(Emptied)
         /\ Cardinality(Filling) \in Nat /\ Cardinality(Filled) \in Nat
         /\ Cardinality(Emptying) \in Nat /\ Cardinality(Emptied) \in Nat
<1>1. /\ CountInv /\ BufferSize \in Nat /\ Held \in Nat
  BY BufferAssumption DEF SemInv, SemaphoreInv, UsersInv
<1>2. sem["freeCount"].permits \in Nat /\ sem["takenCount"].permits \in Nat
  BY DEF SemInv, SemaphoreInv, SemaphoreTypes, Semaphore
<1>3. /\ Filling \subseteq Producer /\ Filled \subseteq Producer
      /\ Emptying \subseteq Consumer /\ Emptied \subseteq Consumer
  BY DEF Filling, Filled, Emptying, Emptied
<1>4. /\ IsFiniteSet(Filling) /\ IsFiniteSet(Filled)
      /\ IsFiniteSet(Emptying) /\ IsFiniteSet(Emptied)
  BY <1>3, UsersFinite, FS_Subset
<1> QED BY <1>1, <1>2, <1>4, FS_CardinalityType

\* A thread that keeps its claim and its debt leaves the counts alone.
LEMMA StillCounts ==
  ASSUME SemInv, program' = program, NEW t \in User, NEW to \in Places,
         pc' = [pc EXCEPT ![t] = to], Held' = Held,
         pc[t] \in {"counted", "inside"} <=> to \in {"counted", "inside"},
         pc[t] \in {"stored", "over", "free"} <=> to \in {"stored", "over", "free"},
         \A s \in {"takenCount", "freeCount"} : sem'[s].permits = sem[s].permits
  PROVE  CountInv'
<1>1. \A u \in User : /\ pc'[u] \in {"counted", "inside"} <=> pc[u] \in {"counted", "inside"}
                      /\ pc'[u] \in {"stored", "over", "free"}
                           <=> pc[u] \in {"stored", "over", "free"}
  BY SemMove
<1>2. /\ Filling' = Filling /\ Filled' = Filled
      /\ Emptying' = Emptying /\ Emptied' = Emptied
  BY <1>1, UsersFinite DEF Filling, Filled, Emptying, Emptied
<1>3. /\ sem'["freeCount"].permits = sem["freeCount"].permits
      /\ sem'["takenCount"].permits = sem["takenCount"].permits
  OBVIOUS
<1> HIDE DEF Filling, Filled, Emptying, Emptied, Held
<1> QED BY <1>2, <1>3, CountNumbers DEF CountInv

\* Queueing changes nothing that the invariant is about.
LEMMA QueueKeeps ==
  ASSUME SemInv, NEW t \in User, NEW s \in Semaphore, Queue(t, s),
         UNCHANGED <<program, left, sent, received, slotVars>>
  PROVE  SemInv'
<1>1. /\ sem' \in [Semaphore -> [permits : Nat, queue : Seq(Waiter)]]
      /\ \A z \in Semaphore : sem'[z].permits = sem[z].permits
      /\ pc' = pc
  BY QueueFacts DEF SemInv, SemaphoreInv, SemaphoreTypes
<1>2. UsersInv' /\ program' \in SemaphorePrograms
  BY <1>1 DEF SemInv, UsersInv, Places, Held
<1>3. SemaphoreTypes'
  BY <1>1 DEF SemInv, SemaphoreInv, SemaphoreTypes, slotVars
<1>4. MutexInv'
  BY <1>1 DEF SemInv, SemaphoreInv, MutexInv, Holder, Mutex, Semaphore
<1>5. CountInv'
  <2>1. /\ sem'["freeCount"].permits = sem["freeCount"].permits
        /\ sem'["takenCount"].permits = sem["takenCount"].permits
    BY <1>1 DEF Semaphore
  <2>2. /\ Filling' = Filling /\ Filled' = Filled
        /\ Emptying' = Emptying /\ Emptied' = Emptied /\ Held' = Held
    BY <1>1 DEF Filling, Filled, Emptying, Emptied, Held
  <2> QED BY <2>1, <2>2, CountNumbers DEF CountInv
<1>6. SlotsInv'
  BY <1>1 DEF SemInv, SemaphoreInv, SlotsInv, Held, Room, Oldest, Between, slotVars
<1> QED BY <1>2, <1>3, <1>4, <1>5, <1>6 DEF SemInv, SemaphoreInv

\* The count, the claim of a slot.
LEMMA CountKeeps ==
  ASSUME SemInv, NEW t \in User, WaitCount(t)
  PROVE  SemInv'
<1>1. /\ pc[t] = "idle" /\ Mine(t) \in Semaphore
      /\ Queue(t, Mine(t)) \/ Acquire(t, Mine(t), "counted")
      /\ UNCHANGED <<program, left, sent, received, slotVars>>
  BY ClaimsKinds DEF WaitCount, Semaphored, Order
<1>2. CASE Queue(t, Mine(t))
  BY <1>1, <1>2, QueueKeeps
<1>3. CASE Acquire(t, Mine(t), "counted")
  <2>1. /\ sem' \in [Semaphore -> [permits : Nat, queue : Seq(Waiter)]]
        /\ sem[Mine(t)].permits > 0
        /\ sem'[Mine(t)].permits = sem[Mine(t)].permits - 1
        /\ \A z \in Semaphore \ {Mine(t)} : sem'[z] = sem[z]
        /\ pc' = [pc EXCEPT ![t] = "counted"]
    BY <1>1, <1>3, AcquireFacts DEF SemInv, SemaphoreInv, SemaphoreTypes
  <2>2. "counted" \in Places /\ program' = program
    BY <1>1 DEF SemInv, Places
  <2>3. UsersInv' /\ program' \in SemaphorePrograms
    BY <1>1, <2>1, <2>2, StillUsers
  <2>4. SemaphoreTypes'
    BY <1>1, <2>1 DEF SemInv, SemaphoreInv, SemaphoreTypes, slotVars
  <2>5. MutexInv'
    <3>1. \A m \in {"takenMutex", "freeMutex"} : sem'[m].permits = sem[m].permits
      BY <2>1, ClaimsKinds DEF Semaphore
    <3> QED BY <1>1, <2>1, <2>2, <3>1, StillMutex DEF Inside
  <2>6. SlotsInv' /\ Held' = Held
    BY <1>1, <2>1, <2>2, StillSlots
  <2>7. CountInv'
    <3>1. CASE t \in Producer
      <4>1. /\ Emptying' = Emptying /\ Emptied' = Emptied
            /\ Filling' = Filling \cup {t} /\ Filled' = Filled \ {t}
            /\ t \notin Filling /\ t \notin Filled
        BY <1>1, <2>1, <2>2, <3>1, ClaimsMove DEF Filling, Filled
      <4>2. /\ Cardinality(Filling') = Cardinality(Filling) + 1
            /\ Cardinality(Filled') = Cardinality(Filled)
        BY <4>1, CountNumbers, JoinCount
      <4>3. /\ sem'["freeCount"].permits = sem["freeCount"].permits - 1
            /\ sem'["takenCount"].permits = sem["takenCount"].permits
        BY <2>1, <3>1, ClaimsKinds DEF Semaphore
      <4> QED BY <2>6, <4>1, <4>2, <4>3, CountNumbers DEF CountInv
    <3>2. CASE t \in Consumer
      <4>1. /\ Filling' = Filling /\ Filled' = Filled
            /\ Emptying' = Emptying \cup {t} /\ Emptied' = Emptied \ {t}
            /\ t \notin Emptying /\ t \notin Emptied
        BY <1>1, <2>1, <2>2, <3>2, ClaimsMove DEF Emptying, Emptied
      <4>2. /\ Cardinality(Emptying') = Cardinality(Emptying) + 1
            /\ Cardinality(Emptied') = Cardinality(Emptied)
        BY <4>1, CountNumbers, JoinCount
      <4>3. /\ sem'["takenCount"].permits = sem["takenCount"].permits - 1
            /\ sem'["freeCount"].permits = sem["freeCount"].permits
        BY <2>1, <3>2, ClaimsKinds DEF Semaphore
      <4> QED BY <2>6, <4>1, <4>2, <4>3, CountNumbers DEF CountInv
    <3> QED BY <3>1, <3>2, ClaimsKinds
  <2> QED BY <2>3, <2>4, <2>5, <2>6, <2>7 DEF SemInv, SemaphoreInv
<1> QED BY <1>1, <1>2, <1>3

\* The mutex of the index.
LEMMA MutexKeeps ==
  ASSUME SemInv, NEW t \in User, WaitMutex(t)
  PROVE  SemInv'
<1>1. /\ pc[t] = "counted" /\ Mutex(t) \in Semaphore
      /\ Queue(t, Mutex(t)) \/ Acquire(t, Mutex(t), "inside")
      /\ UNCHANGED <<program, left, sent, received, slotVars>>
  BY ClaimsKinds DEF WaitMutex, Semaphored, Order
<1>2. CASE Queue(t, Mutex(t))
  BY <1>1, <1>2, QueueKeeps
<1>3. CASE Acquire(t, Mutex(t), "inside")
  <2>1. /\ sem' \in [Semaphore -> [permits : Nat, queue : Seq(Waiter)]]
        /\ sem[Mutex(t)].permits > 0
        /\ sem'[Mutex(t)].permits = sem[Mutex(t)].permits - 1
        /\ \A z \in Semaphore \ {Mutex(t)} : sem'[z] = sem[z]
        /\ pc' = [pc EXCEPT ![t] = "inside"]
    BY <1>1, <1>3, AcquireFacts DEF SemInv, SemaphoreInv, SemaphoreTypes
  <2>2. "inside" \in Places /\ program' = program
    BY <1>1 DEF SemInv, Places, Inside
  <2>3. UsersInv' /\ program' \in SemaphorePrograms
    BY <1>1, <2>1, <2>2, StillUsers
  <2>4. SemaphoreTypes'
    BY <1>1, <2>1 DEF SemInv, SemaphoreInv, SemaphoreTypes, slotVars
  <2>5. MutexInv'
    <3>1. /\ Mutex(t) \in {"takenMutex", "freeMutex"}
          /\ sem[Mutex(t)].permits = 1 /\ Holder(Mutex(t)) = {}
          /\ sem'[Mutex(t)].permits = 0
      BY <2>1, ClaimsKinds DEF SemInv, SemaphoreInv, MutexInv
    <3>2. pc'[t] = "inside" /\ \A u \in User \ {t} : pc'[u] = pc[u]
      BY <2>1, <2>2, SemMove
    <3>3. Holder(Mutex(t))' = {t}
      BY <2>2, <3>1, <3>2 DEF Holder, Mutex, Inside
    <3>4. ASSUME NEW m \in {"takenMutex", "freeMutex"}, m # Mutex(t)
          PROVE  sem'[m] = sem[m] /\ Holder(m)' = Holder(m)
      BY <2>1, <2>2, <3>2, <3>4 DEF Holder, Mutex, Semaphore
    <3>5. Mutex(t)' = Mutex(t)
      BY <2>2 DEF Mutex
    <3>6. ASSUME NEW m \in {"takenMutex", "freeMutex"}
          PROVE  /\ sem'[m].permits \in {0, 1}
                 /\ sem'[m].permits = 1 => Holder(m)' = {}
                 /\ \A u, v \in Holder(m)' : u = v
      <4>1. CASE m = Mutex(t)
        <5>1. Holder(m)' = {t}
          BY <2>2, <3>1, <3>2, <4>1 DEF Holder, Mutex, Inside
        <5> QED BY <3>1, <4>1, <5>1
      <4>2. CASE m # Mutex(t)
        BY <3>4, <4>2 DEF SemInv, SemaphoreInv, MutexInv
      <4> QED BY <4>1, <4>2
    <3> QED BY <3>6 DEF MutexInv
  <2>6. SlotsInv' /\ Held' = Held
    BY <1>1, <2>1, <2>2, StillSlots
  <2>7. CountInv'
    <3>1. \A s \in {"takenCount", "freeCount"} : sem'[s].permits = sem[s].permits
      BY <2>1, ClaimsKinds DEF Semaphore
    <3> QED BY <1>1, <2>1, <2>2, <2>6, <3>1, StillCounts
  <2> QED BY <2>3, <2>4, <2>5, <2>6, <2>7 DEF SemInv, SemaphoreInv
<1> QED BY <1>1, <1>2, <1>3

\* Two threads of a kind are never between the same accesses.
LEMMA Alone ==
  ASSUME SemInv, NEW t \in User, NEW u \in User, pc[t] \in Inside, pc[u] \in Inside,
         t \in Producer <=> u \in Producer
  PROVE  t = u
<1>1. Mutex(t) = Mutex(u) /\ Mutex(t) \in {"takenMutex", "freeMutex"}
  BY ClaimsKinds DEF Mutex
<1>2. t \in Holder(Mutex(t)) /\ u \in Holder(Mutex(t))
  BY <1>1 DEF Holder
<1> QED BY <1>1, <1>2 DEF SemInv, SemaphoreInv, MutexInv

LEMMA MadeItem ==
  ASSUME UsersInv, NEW p \in Producer, pc[p] # "done"
  PROVE  Made(p) \in Item
BY BufferAssumption DEF UsersInv, Made, Item

\* The slot that a producer fills.
LEMMA StoreKeeps ==
  ASSUME SemInv, NEW p \in Producer, StoreSlot(p)
  PROVE  SemInv' /\ Held < BufferSize
<1>1. /\ p \in User /\ p \notin Consumer /\ pc[p] = "inside"
      /\ pc' = [pc EXCEPT ![p] = "stored"]
      /\ buffer' = [buffer EXCEPT ![firstFree] = Made(p)]
      /\ sent' = Append(sent, Made(p)) /\ received' = received
      /\ UNCHANGED <<program, left, sem, firstTaken, firstFree>>
  BY UsersFinite DEF StoreSlot, Semaphored, Store, Goto
<1>2. "stored" \in Places /\ program' = program
  BY <1>1 DEF SemInv, Places, Inside
<1>3. /\ pc' \in [User -> Places'] /\ pc'[p] = "stored"
      /\ \A u \in User \ {p} : pc'[u] = pc[u]
  BY <1>1, <1>2, SemMove
<1>4. Held < BufferSize /\ Held \in 0..BufferSize - 1
  <2>1. p \in Filling
    BY <1>1 DEF Filling
  <2>2. Cardinality(Filling) > 0
    BY <2>1, CountNumbers, JoinCount
  <2> QED BY <2>2, CountNumbers DEF CountInv
<1>5. /\ Oldest \in Slot /\ Holds(buffer, Oldest, sent, received) /\ Ring(Oldest, Held) = firstFree
      /\ ~Between(Producer)
  <2>1. ~Between(Producer)
    BY <1>1, Alone, UsersFinite DEF Between, Inside
  <2> QED BY <2>1, RingFact DEF SemInv, SemaphoreInv, SemaphoreTypes, SlotsInv, Oldest, Room
<1>6. /\ sent' \in Seq(Item) /\ received' \in Seq(Item)
      /\ Held' = Held + 1 /\ Held' \in 0..BufferSize
      /\ buffer' \in [Slot -> Item \cup {<<>>}]
      /\ Holds(buffer', Oldest, sent', received')
  <2>1. Made(p) \in Item
    BY <1>1, MadeItem DEF SemInv
  <2>2. /\ sent \in Seq(Item) /\ received \in Seq(Item)
        /\ buffer \in [Slot -> Item \cup {<<>>}] /\ firstFree \in Slot
    BY DEF SemInv, UsersInv, SemaphoreInv, SemaphoreTypes, NoItem
  <2>3. /\ buffer' \in [Slot -> Item \cup {<<>>}]
        /\ Put(buffer, buffer', Ring(Oldest, Held), Made(p))
    BY <1>1, <1>5, <2>1, <2>2 DEF Put
  <2>4. Oldest \in Slot /\ Holds(buffer, Oldest, sent, received)
    BY <1>5
  <2>5. sent' = Append(sent, Made(p)) /\ received' = received
    BY <1>1
  <2> QED BY <1>4, <2>1, <2>2, <2>3, <2>4, <2>5, StoreHolds
<1>7. UsersInv' /\ program' \in SemaphorePrograms
  BY <1>1, <1>3, <1>6, UsersFinite DEF SemInv, UsersInv
<1>8. SemaphoreTypes'
  BY <1>1, <1>6 DEF SemInv, SemaphoreInv, SemaphoreTypes, NoItem
<1>9. MutexInv'
  BY <1>1, <1>2, StillMutex DEF Inside
<1>10. CountInv'
  <2>1. /\ Emptying' = Emptying /\ Emptied' = Emptied
        /\ Filling' = Filling \ {p} /\ Filled' = Filled \cup {p}
        /\ p \in Filling /\ p \notin Filled
    BY <1>1, <1>2, ClaimsMove DEF Filling, Filled
  <2>2. /\ Cardinality(Filling') = Cardinality(Filling) - 1
        /\ Cardinality(Filled') = Cardinality(Filled) + 1
        /\ Cardinality(Filling') \in Nat
        /\ Cardinality(Emptying') = Cardinality(Emptying)
        /\ Cardinality(Emptied') = Cardinality(Emptied)
    BY <2>1, CountNumbers, JoinCount
  <2>3. sem' = sem /\ Held' = Held + 1
    BY <1>1, <1>6
  <2> QED BY <2>2, <2>3, CountNumbers DEF CountInv
<1>11. SlotsInv'
  <2>1. Between(Producer)' /\ (Between(Consumer)' <=> Between(Consumer))
    BY <1>1, <1>3, UsersFinite DEF Between
  <2>2. Oldest' = Oldest /\ Room' = Succ(firstFree)
    BY <1>1, <2>1 DEF Oldest, Room
  <2>3. Succ(firstFree) = Ring(Oldest, Held')
    BY <1>4, <1>5, <1>6, RingFact
  <2> QED BY <1>6, <2>2, <2>3 DEF SlotsInv
<1> QED BY <1>4, <1>7, <1>8, <1>9, <1>10, <1>11 DEF SemInv, SemaphoreInv

\* The index of the free slots.
LEMMA FreeKeeps ==
  ASSUME SemInv, NEW p \in Producer, AdvanceFree(p)
  PROVE  SemInv'
<1>1. /\ p \in User /\ p \notin Consumer /\ pc[p] = "stored"
      /\ pc' = [pc EXCEPT ![p] = "over"] /\ firstFree' = Succ(firstFree)
      /\ UNCHANGED <<program, left, sent, received, sem, buffer, firstTaken>>
  BY UsersFinite DEF AdvanceFree, Semaphored, Goto, Succ
<1>2. "over" \in Places /\ program' = program
  BY <1>1 DEF SemInv, Places, Inside
<1>3. /\ pc' \in [User -> Places'] /\ pc'[p] = "over"
      /\ \A u \in User \ {p} : pc'[u] = pc[u]
  BY <1>1, <1>2, SemMove
<1>4. UsersInv' /\ program' \in SemaphorePrograms
  BY <1>1, <1>2, StillUsers
<1>5. SemaphoreTypes'
  BY <1>1, RingFact DEF SemInv, SemaphoreInv, SemaphoreTypes
<1>6. MutexInv'
  BY <1>1, <1>2, StillMutex DEF Inside
<1>7. Held' = Held
  BY <1>1 DEF Held
<1>8. CountInv'
  <2>1. \A s \in {"takenCount", "freeCount"} : sem'[s].permits = sem[s].permits
    BY <1>1
  <2> QED BY <1>1, <1>2, <1>7, <2>1, StillCounts
<1>9. SlotsInv'
  <2>1. Between(Producer) /\ (Between(Consumer)' <=> Between(Consumer))
    BY <1>1, <1>3, UsersFinite DEF Between
  <2>2. ~Between(Producer)'
    <3>1. ASSUME NEW u \in Producer, pc'[u] = "stored"
          PROVE  FALSE
      BY <1>1, <1>3, <3>1, Alone, UsersFinite DEF Inside
    <3> QED BY <3>1 DEF Between
  <2>3. Oldest' = Oldest /\ Room' = Room
    BY <1>1, <2>1, <2>2 DEF Oldest, Room
  <2> QED BY <1>1, <1>7, <2>3 DEF SemInv, SemaphoreInv, SlotsInv
<1> QED BY <1>4, <1>5, <1>6, <1>8, <1>9 DEF SemInv, SemaphoreInv

\* The slot that a consumer empties.
LEMMA FetchKeeps ==
  ASSUME SemInv, NEW c \in Consumer, FetchSlot(c)
  PROVE  SemInv' /\ received' = Append(received, sent[Len(received) + 1]) /\ Held > 0
<1>1. /\ c \in User /\ c \notin Producer /\ pc[c] = "inside"
      /\ pc' = [pc EXCEPT ![c] = "stored"]
      /\ sent' = sent /\ received' = Append(received, buffer[firstTaken])
      /\ UNCHANGED <<program, left, sem, buffer, firstTaken, firstFree>>
  BY UsersFinite DEF FetchSlot, Semaphored, Fetch, Goto, semaphoreVars, slotVars
<1>2. "stored" \in Places /\ program' = program
  BY <1>1 DEF SemInv, Places, Inside
<1>3. /\ pc' \in [User -> Places'] /\ pc'[c] = "stored"
      /\ \A u \in User \ {c} : pc'[u] = pc[u]
  BY <1>1, <1>2, SemMove
<1>4. Held > 0 /\ Held \in 1..BufferSize
  <2>1. c \in Emptying
    BY <1>1 DEF Emptying
  <2>2. Cardinality(Emptying) > 0
    BY <2>1, CountNumbers, JoinCount
  <2> QED BY <2>2, CountNumbers DEF CountInv
<1>5. /\ Oldest = firstTaken /\ firstTaken \in Slot
      /\ Holds(buffer, firstTaken, sent, received) /\ Room = Ring(firstTaken, Held)
      /\ ~Between(Consumer)
  <2>1. ~Between(Consumer)
    BY <1>1, Alone, UsersFinite DEF Between, Inside
  <2> QED BY <2>1 DEF SemInv, SemaphoreInv, SemaphoreTypes, SlotsInv, Oldest
<1>6. /\ buffer[firstTaken] = sent[Len(received) + 1]
      /\ sent' \in Seq(Item) /\ received' \in Seq(Item)
      /\ Held' = Held - 1 /\ Held' \in 0..BufferSize
      /\ Holds(buffer, Succ(firstTaken), sent', received')
  <2>1. sent \in Seq(Item) /\ received \in Seq(Item)
    BY DEF SemInv, UsersInv
  <2>2. sent' = sent /\ received' = Append(received, buffer[firstTaken])
    BY <1>1
  <2> QED BY <1>4, <1>5, <2>1, <2>2, FetchHolds
<1>7. UsersInv' /\ program' \in SemaphorePrograms
  BY <1>1, <1>3, <1>6, UsersFinite DEF SemInv, UsersInv
<1>8. SemaphoreTypes'
  BY <1>1 DEF SemInv, SemaphoreInv, SemaphoreTypes
<1>9. MutexInv'
  BY <1>1, <1>2, StillMutex DEF Inside
<1>10. CountInv'
  <2>1. /\ Filling' = Filling /\ Filled' = Filled
        /\ Emptying' = Emptying \ {c} /\ Emptied' = Emptied \cup {c}
        /\ c \in Emptying /\ c \notin Emptied
    BY <1>1, <1>2, ClaimsMove DEF Emptying, Emptied
  <2>2. /\ Cardinality(Emptying') = Cardinality(Emptying) - 1
        /\ Cardinality(Emptied') = Cardinality(Emptied) + 1
        /\ Cardinality(Emptying') \in Nat
        /\ Cardinality(Filling') = Cardinality(Filling)
        /\ Cardinality(Filled') = Cardinality(Filled)
    BY <2>1, CountNumbers, JoinCount
  <2>3. /\ sem'["freeCount"].permits = sem["freeCount"].permits
        /\ sem'["takenCount"].permits = sem["takenCount"].permits
        /\ Held' = Held - 1
    BY <1>1, <1>6
  <2>4. /\ sem["freeCount"].permits \in Nat /\ sem["takenCount"].permits \in Nat
        /\ Cardinality(Filling) \in Nat /\ Cardinality(Filled) \in Nat
        /\ Cardinality(Emptying) \in Nat /\ Cardinality(Emptied) \in Nat
        /\ Held \in Nat /\ BufferSize \in Nat /\ CountInv
    BY CountNumbers
  <2> QED BY <2>2, <2>3, <2>4 DEF CountInv
<1>11. SlotsInv'
  <2>1. Between(Consumer)' /\ (Between(Producer)' <=> Between(Producer))
    BY <1>1, <1>3, UsersFinite DEF Between
  <2>2. Oldest' = Succ(firstTaken) /\ Room' = Room
    BY <1>1, <2>1 DEF Oldest, Room
  <2>3. Ring(firstTaken, Held) = Ring(Succ(firstTaken), Held')
    <3>1. Held - 1 \in 0..BufferSize - 1 /\ Held = (Held - 1) + 1
      BY <1>4, BufferAssumption
    <3> QED BY <1>5, <1>6, <3>1, RingFact
  <2> QED BY <1>1, <1>5, <1>6, <2>2, <2>3 DEF SlotsInv
<1> QED BY <1>1, <1>4, <1>6, <1>7, <1>8, <1>9, <1>10, <1>11 DEF SemInv, SemaphoreInv

\* The index of the taken slots.
LEMMA TakenKeeps ==
  ASSUME SemInv, NEW c \in Consumer, AdvanceTaken(c)
  PROVE  SemInv'
<1>1. /\ c \in User /\ c \notin Producer /\ pc[c] = "stored"
      /\ pc' = [pc EXCEPT ![c] = "over"] /\ firstTaken' = Succ(firstTaken)
      /\ left' = [left EXCEPT ![c] = 0] \/ left' = left
      /\ UNCHANGED <<program, sent, received, sem, buffer, firstFree>>
  BY UsersFinite DEF AdvanceTaken, Semaphored, Goto, Succ
<1>2. "over" \in Places /\ program' = program
  BY <1>1 DEF SemInv, Places, Inside
<1>3. /\ pc' \in [User -> Places'] /\ pc'[c] = "over"
      /\ \A u \in User \ {c} : pc'[u] = pc[u]
  BY <1>1, <1>2, SemMove
<1>4. Held' = Held
  BY <1>1 DEF Held
<1>5. UsersInv' /\ program' \in SemaphorePrograms
  <2>1. DOMAIN left' = User /\ \A p \in Producer : left'[p] = left[p]
    BY <1>1, UsersFinite DEF SemInv, UsersInv
  <2> QED BY <1>1, <1>3, <1>4, <2>1, UsersFinite DEF SemInv, UsersInv
<1>6. SemaphoreTypes'
  BY <1>1, RingFact DEF SemInv, SemaphoreInv, SemaphoreTypes
<1>7. MutexInv'
  BY <1>1, <1>2, StillMutex DEF Inside
<1>8. CountInv'
  <2>1. \A s \in {"takenCount", "freeCount"} : sem'[s].permits = sem[s].permits
    BY <1>1
  <2> QED BY <1>1, <1>2, <1>4, <2>1, StillCounts
<1>9. SlotsInv'
  <2>1. Between(Consumer) /\ (Between(Producer)' <=> Between(Producer))
    BY <1>1, <1>3, UsersFinite DEF Between
  <2>2. ~Between(Consumer)'
    <3>1. ASSUME NEW u \in Consumer, pc'[u] = "stored"
          PROVE  FALSE
      BY <1>1, <1>3, <3>1, Alone, UsersFinite DEF Inside
    <3> QED BY <3>1 DEF Between
  <2>3. Oldest' = Oldest /\ Room' = Room
    BY <1>1, <2>1, <2>2 DEF Oldest, Room
  <2> QED BY <1>1, <1>4, <2>3 DEF SemInv, SemaphoreInv, SlotsInv
<1> QED BY <1>5, <1>6, <1>7, <1>8, <1>9 DEF SemInv, SemaphoreInv

\* The mutex is given back.
LEMMA UnlockKeeps ==
  ASSUME SemInv, NEW t \in User, Unlock(t)
  PROVE  SemInv'
<1>1. /\ pc[t] = "over" /\ Mutex(t) \in {"takenMutex", "freeMutex"}
      /\ Mutex(t) \in Semaphore
      /\ pc' = [pc EXCEPT ![t] = "free"]
      /\ sem' = [sem EXCEPT ![Mutex(t)] = Release(@)]
      /\ UNCHANGED <<program, left, sent, received, slotVars>>
  BY ClaimsKinds DEF Unlock, Semaphored, Goto
<1>2. "free" \in Places /\ program' = program
  BY <1>1 DEF SemInv, Places, Inside
<1>3. /\ pc'[t] = "free" /\ \A u \in User \ {t} : pc'[u] = pc[u]
  BY <1>1, <1>2, SemMove
<1>4. /\ sem' \in [Semaphore -> [permits : Nat, queue : Seq(Waiter)]]
      /\ sem'[Mutex(t)].permits = sem[Mutex(t)].permits + 1
      /\ \A z \in Semaphore \ {Mutex(t)} : sem'[z] = sem[z]
  <2>1. sem \in [Semaphore -> [permits : Nat, queue : Seq(Waiter)]]
    BY DEF SemInv, SemaphoreInv, SemaphoreTypes
  <2> QED BY <1>1, <2>1, ReleaseFacts
<1>5. UsersInv' /\ program' \in SemaphorePrograms
  BY <1>1, <1>2, StillUsers
<1>6. SemaphoreTypes'
  BY <1>1, <1>4 DEF SemInv, SemaphoreInv, SemaphoreTypes, slotVars
<1>7. MutexInv'
  <2>1. Holder(Mutex(t)) = {t}
    BY <1>1, Alone DEF Holder, Inside, SemInv, SemaphoreInv, MutexInv
  <2>2. sem[Mutex(t)].permits = 0 /\ sem'[Mutex(t)].permits = 1
    <3>1. /\ sem[Mutex(t)].permits \in {0, 1}
          /\ sem[Mutex(t)].permits = 1 => Holder(Mutex(t)) = {}
      BY <1>1 DEF SemInv, SemaphoreInv, MutexInv
    <3>2. sem[Mutex(t)].permits = 0
      BY <2>1, <3>1
    <3> QED BY <1>4, <3>2
  <2>3. ASSUME NEW m \in {"takenMutex", "freeMutex"}, m = Mutex(t)
        PROVE  Holder(m)' = {}
    BY <1>1, <1>2, <1>3, <2>1, <2>3 DEF Holder, Mutex, Inside
  <2>4. ASSUME NEW m \in {"takenMutex", "freeMutex"}, m # Mutex(t)
        PROVE  sem'[m] = sem[m] /\ Holder(m)' = Holder(m)
    BY <1>1, <1>2, <1>3, <1>4, <2>4 DEF Holder, Mutex, Semaphore, Inside
  <2>5. ASSUME NEW m \in {"takenMutex", "freeMutex"}
        PROVE  /\ sem'[m].permits \in {0, 1}
               /\ sem'[m].permits = 1 => Holder(m)' = {}
               /\ \A u, v \in Holder(m)' : u = v
    <3>1. CASE m = Mutex(t)
      BY <2>2, <2>3, <3>1
    <3>2. CASE m # Mutex(t)
      BY <2>4, <3>2 DEF SemInv, SemaphoreInv, MutexInv
    <3> QED BY <3>1, <3>2
  <2> QED BY <2>5 DEF MutexInv
<1>8. SlotsInv' /\ Held' = Held
  BY <1>1, <1>2, StillSlots
<1>9. CountInv'
  <2>1. \A s \in {"takenCount", "freeCount"} : sem'[s].permits = sem[s].permits
    BY <1>1, <1>4 DEF Semaphore
  <2> QED BY <1>1, <1>2, <1>8, <2>1, StillCounts
<1> QED BY <1>5, <1>6, <1>7, <1>8, <1>9 DEF SemInv, SemaphoreInv

\* The other count is given a permit.
LEMMA PostKeeps ==
  ASSUME SemInv, NEW t \in User, Post(t)
  PROVE  SemInv'
<1> DEFINE n == IF program = "gifts" /\ t \in Consumer THEN left[t] ELSE left[t] - 1
           to == IF n = 0 THEN "done" ELSE "idle"
<1>1. /\ pc[t] = "free" /\ pc' = [pc EXCEPT ![t] = to] /\ left' = [left EXCEPT ![t] = n]
      /\ sem' = [sem EXCEPT ![Other(t)] = Release(@)]
      /\ UNCHANGED <<program, sent, received, slotVars>>
  BY DEF Post, Semaphored, Round
<1>2. to \in Places /\ to \in {"idle", "done"} /\ program' = program
  BY <1>1 DEF SemInv, Places
<1>3. t \in Producer => n = left[t] - 1
  BY UsersFinite
<1>4. to = "done" <=> n = 0
  OBVIOUS
<1> HIDE DEF to, n
<1>5. /\ pc' \in [User -> Places'] /\ pc'[t] = to
      /\ \A u \in User \ {t} : pc'[u] = pc[u]
  BY <1>1, <1>2, SemMove
<1>6. Held' = Held
  BY <1>1 DEF Held
<1>7. UsersInv' /\ program' \in SemaphorePrograms
  <2>1. DOMAIN left' = User
    BY <1>1 DEF SemInv, UsersInv
  <2>2. ASSUME NEW p \in Producer
        PROVE  left'[p] \in 0..Produced /\ (pc'[p] # "done" => left'[p] # 0)
    <3>1. /\ left[p] \in 0..Produced /\ p \in User /\ Produced \in Nat
          /\ pc[p] # "done" => left[p] # 0
      BY UsersFinite, BufferAssumption DEF SemInv, UsersInv
    <3>2. CASE p = t
      <4>1. left'[p] = n /\ n = left[p] - 1 /\ left[p] # 0
        BY <1>1, <1>3, <3>1, <3>2 DEF SemInv, UsersInv
      <4>2. n \in 0..Produced
        BY <3>1, <4>1
      <4> QED BY <1>4, <1>5, <3>2, <4>1, <4>2
    <3>3. CASE p # t
      <4>1. left'[p] = left[p] /\ pc'[p] = pc[p]
        BY <1>1, <1>5, <3>1, <3>3 DEF SemInv, UsersInv
      <4> QED BY <3>1, <4>1
    <3> QED BY <3>2, <3>3
  <2> QED BY <1>1, <1>5, <1>6, <2>1, <2>2 DEF SemInv, UsersInv
<1>8. /\ sem' \in [Semaphore -> [permits : Nat, queue : Seq(Waiter)]]
      /\ sem'[Other(t)].permits = sem[Other(t)].permits + 1
      /\ \A z \in Semaphore \ {Other(t)} : sem'[z] = sem[z]
  <2>1. sem \in [Semaphore -> [permits : Nat, queue : Seq(Waiter)]] /\ Other(t) \in Semaphore
    BY ClaimsKinds DEF SemInv, SemaphoreInv, SemaphoreTypes
  <2> QED BY <1>1, <2>1, ReleaseFacts
<1>9. SemaphoreTypes'
  BY <1>1, <1>8 DEF SemInv, SemaphoreInv, SemaphoreTypes, slotVars
<1>10. MutexInv'
  <2>1. \A m \in {"takenMutex", "freeMutex"} : sem'[m].permits = sem[m].permits
    BY <1>8, ClaimsKinds DEF Semaphore
  <2> QED BY <1>1, <1>2, <2>1, StillMutex DEF Inside
<1>11. SlotsInv'
  BY <1>1, <1>2, StillSlots
<1>12. CountInv'
  <2>1. /\ sem["freeCount"].permits \in Nat /\ sem["takenCount"].permits \in Nat
        /\ Cardinality(Filling) \in Nat /\ Cardinality(Filled) \in Nat
        /\ Cardinality(Emptying) \in Nat /\ Cardinality(Emptied) \in Nat
        /\ Held \in Nat /\ BufferSize \in Nat /\ CountInv
    BY CountNumbers
  <2>2. CASE t \in Producer
    <3>1. /\ Emptying' = Emptying /\ Emptied' = Emptied
          /\ Filling' = Filling \ {t} /\ Filled' = Filled \ {t}
          /\ t \notin Filling /\ t \in Filled
      BY <1>1, <1>2, <2>2, ClaimsMove DEF Filling, Filled
    <3>2. /\ Cardinality(Filling') = Cardinality(Filling)
          /\ Cardinality(Filled') = Cardinality(Filled) - 1
          /\ Cardinality(Filled') \in Nat
          /\ Cardinality(Emptying') = Cardinality(Emptying)
          /\ Cardinality(Emptied') = Cardinality(Emptied)
      BY <3>1, CountNumbers, JoinCount
    <3>3. /\ sem'["takenCount"].permits = sem["takenCount"].permits + 1
          /\ sem'["freeCount"].permits = sem["freeCount"].permits
      BY <1>8, <2>2, ClaimsKinds DEF Semaphore
    <3> QED BY <1>6, <2>1, <3>2, <3>3 DEF CountInv
  <2>3. CASE t \in Consumer
    <3>1. /\ Filling' = Filling /\ Filled' = Filled
          /\ Emptying' = Emptying \ {t} /\ Emptied' = Emptied \ {t}
          /\ t \notin Emptying /\ t \in Emptied
      BY <1>1, <1>2, <2>3, ClaimsMove DEF Emptying, Emptied
    <3>2. /\ Cardinality(Emptying') = Cardinality(Emptying)
          /\ Cardinality(Emptied') = Cardinality(Emptied) - 1
          /\ Cardinality(Emptied') \in Nat
          /\ Cardinality(Filling') = Cardinality(Filling)
          /\ Cardinality(Filled') = Cardinality(Filled)
      BY <3>1, CountNumbers, JoinCount
    <3>3. /\ sem'["freeCount"].permits = sem["freeCount"].permits + 1
          /\ sem'["takenCount"].permits = sem["takenCount"].permits
      BY <1>8, <2>3, ClaimsKinds DEF Semaphore
    <3> QED BY <1>6, <2>1, <3>2, <3>3 DEF CountInv
  <2> QED BY <2>2, <2>3, ClaimsKinds
<1> QED BY <1>7, <1>9, <1>10, <1>11, <1>12 DEF SemInv, SemaphoreInv

\* What a step of a buffer does to the items.
ChannelStep ==
  \/ UNCHANGED <<sent, received>>
  \/ /\ Held < BufferSize /\ received' = received
     /\ \E i \in Item : sent' = Append(sent, i)
  \/ /\ Len(received) < Len(sent) /\ sent' = sent
     /\ received' = Append(received, sent[Len(received) + 1])

LEMMA SomeHeld ==
  ASSUME UsersInv, Held > 0
  PROVE  Len(received) < Len(sent)
<1>1. Len(sent) \in Nat /\ Len(received) \in Nat
  BY LenProperties DEF UsersInv
<1> QED BY <1>1 DEF Held

LEMMA SemaphoreKeeps ==
  ASSUME SemInv, NEW t \in User, SemaphoreStep(t)
  PROVE  SemInv' /\ ChannelStep
<1>1. CASE WaitCount(t)
  BY <1>1, CountKeeps DEF WaitCount, ChannelStep
<1>2. CASE WaitMutex(t)
  BY <1>2, MutexKeeps DEF WaitMutex, ChannelStep
<1>3. CASE Unlock(t)
  BY <1>3, UnlockKeeps DEF Unlock, ChannelStep
<1>4. CASE Post(t)
  BY <1>4, PostKeeps DEF Post, ChannelStep
<1>5. CASE t \in Producer /\ StoreSlot(t)
  <2>1. Made(t) \in Item
    BY <1>5, MadeItem DEF SemInv, StoreSlot, Semaphored
  <2> QED BY <1>5, <2>1, StoreKeeps DEF StoreSlot, Store, ChannelStep
<1>6. CASE t \in Producer /\ AdvanceFree(t)
  BY <1>6, FreeKeeps DEF AdvanceFree, ChannelStep
<1>7. CASE t \in Consumer /\ FetchSlot(t)
  <2>1. /\ SemInv' /\ Held > 0 /\ sent' = sent
        /\ received' = Append(received, sent[Len(received) + 1])
    BY <1>7, FetchKeeps DEF FetchSlot, Fetch
  <2>2. UsersInv
    BY DEF SemInv
  <2> QED BY <2>1, <2>2, SomeHeld DEF ChannelStep
<1>8. CASE t \in Consumer /\ AdvanceTaken(t)
  BY <1>8, TakenKeeps DEF AdvanceTaken, ChannelStep
<1> QED BY <1>1, <1>2, <1>3, <1>4, <1>5, <1>6, <1>7, <1>8 DEF SemaphoreStep

-----------------------------------------------------------------------------
(* The programs with a monitor, and the one with a library's queue.        *)

MonInv == UsersInv /\ program \in MonitorPrograms /\ MonitorInv

\* The end of a round wakes threads and ends t's, and no other.
LEMMA LeaveFacts ==
  ASSUME program \notin SemaphorePrograms, UsersInv, program' = program,
         NEW t \in User, NEW n, pc[t] # "waiting", LeaveMonitor(t, n)
  PROVE  /\ pc' \in [User -> Places'] /\ left' = [left EXCEPT ![t] = n]
         /\ pc'[t] = IF n = 0 THEN "done" ELSE "idle"
         /\ \A u \in User \ {t} : pc'[u] = "done" <=> pc[u] = "done"
<1> DEFINE waiting_ == {u \in User : pc[u] = "waiting"}
           Wake(S) == [u \in User |->
                         CASE u = t -> IF n = 0 THEN "done" ELSE "idle"
                           [] u \in S -> "awake"
                           [] OTHER -> pc[u]]
<1>1. PICK S \in SUBSET waiting_ : pc' = Wake(S)
  BY DEF LeaveMonitor
<1>2. Places' = {"idle", "waiting", "awake", "done"} /\ Places' = Places
  BY DEF Places
<1>3. pc \in [User -> {"idle", "waiting", "awake", "done"}]
  BY <1>2 DEF UsersInv
<1>4. ASSUME NEW u \in User
      PROVE  pc'[u] = IF u = t THEN IF n = 0 THEN "done" ELSE "idle"
                      ELSE IF u \in S THEN "awake" ELSE pc[u]
  <2>1. pc'[u] = CASE u = t -> IF n = 0 THEN "done" ELSE "idle"
                   [] u \in S -> "awake"
                   [] OTHER -> pc[u]
    BY <1>1
  <2>2. CASE u = t
    <3>1. u \notin S
      BY <2>2
    <3> QED BY <2>1, <2>2, <3>1
  <2>3. CASE u # t /\ u \in S
    BY <2>1, <2>3
  <2>4. CASE u # t /\ u \notin S
    BY <2>1, <2>4
  <2> QED BY <2>2, <2>3, <2>4
<1>5. \A u \in S : pc[u] = "waiting"
  OBVIOUS
<1>6. DOMAIN pc' = User /\ pc' = [u \in User |-> pc'[u]]
  BY <1>1
<1> HIDE DEF Wake, waiting_
<1>7. \A u \in User : pc'[u] \in Places'
  BY <1>2, <1>3, <1>4
<1>8. \A u \in User \ {t} : pc'[u] = "done" <=> pc[u] = "done"
  BY <1>4, <1>5
<1> QED BY <1>4, <1>6, <1>7, <1>8 DEF LeaveMonitor

\* A producer's round, and a consumer's.
LEMMA RoundUsers ==
  ASSUME UsersInv, program' = program, NEW t \in User, NEW n, pc[t] # "done",
         pc' \in [User -> Places'], left' = [left EXCEPT ![t] = n],
         t \in Producer => n = left[t] - 1,
         pc'[t] = "done" <=> n = 0,
         \A u \in User \ {t} : pc'[u] = "done" <=> pc[u] = "done",
         sent' \in Seq(Item), received' \in Seq(Item), Held' \in 0..BufferSize
  PROVE  UsersInv'
<1>1. DOMAIN left' = User
  BY DEF UsersInv
<1>2. ASSUME NEW p \in Producer
      PROVE  left'[p] \in 0..Produced /\ (pc'[p] # "done" => left'[p] # 0)
  <2>1. /\ left[p] \in 0..Produced /\ p \in User /\ Produced \in Nat
        /\ pc[p] # "done" => left[p] # 0
    BY UsersFinite, BufferAssumption DEF UsersInv
  <2>2. CASE p = t
    <3>1. left'[p] = n /\ n = left[p] - 1 /\ left[p] # 0
      BY <2>1, <2>2 DEF UsersInv
    <3>2. n \in 0..Produced
      BY <2>1, <3>1
    <3> QED BY <2>2, <3>1, <3>2
  <2>3. CASE p # t
    <3>1. left'[p] = left[p] /\ (pc'[p] = "done" <=> pc[p] = "done")
      BY <2>1, <2>3 DEF UsersInv
    <3> QED BY <2>1, <3>1
  <2> QED BY <2>2, <2>3
<1> QED BY <1>1, <1>2 DEF UsersInv

LEMMA PutKeeps ==
  ASSUME MonInv, NEW p \in Producer, put(p)
  PROVE  MonInv' /\ Held < BufferSize /\ Made(p) \in Item
<1>1. /\ p \in User /\ p \notin Consumer /\ pc[p] # "done" /\ pc[p] # "waiting" /\ ~Full
      /\ list' = [list EXCEPT ![back] = Made(p)] /\ back' = Succ(back)
      /\ count' = count + 1
      /\ sent' = Append(sent, Made(p)) /\ received' = received
      /\ LeaveMonitor(p, left[p] - 1)
      /\ UNCHANGED <<program, front>>
  BY UsersFinite DEF put, InMonitor, MustWait, Store, Succ
<1>2. /\ front \in Slot /\ back = Ring(front, Held) /\ Holds(list, front, sent, received)
      /\ list \in [Slot -> Item \cup {<<>>}]
      /\ sent \in Seq(Item) /\ received \in Seq(Item)
      /\ Held \in 0..BufferSize /\ BufferSize \in Nat \ {0}
  BY BufferAssumption DEF MonInv, MonitorInv, UsersInv
<1>3. /\ Held < BufferSize /\ Held \in 0..BufferSize - 1
      /\ program # "monitor" => Held + 1 < BufferSize
  <2>1. CASE program = "monitor"
    <3>1. count = Held /\ count # BufferSize
      BY <1>1, <2>1 DEF MonInv, MonitorInv, Full
    <3> QED BY <1>2, <2>1, <3>1
  <2>2. CASE program # "monitor"
    <3>1. Held < BufferSize /\ Held \in 0..BufferSize - 1
      BY <1>2, <2>2 DEF MonInv, MonitorInv
    <3>2. Succ(back) # front
      BY <1>1, <2>2 DEF Full, Succ
    <3>3. Succ(back) = Ring(front, Held + 1)
      BY <1>2, <3>1, RingFact
    <3>4. Held + 1 = BufferSize => Ring(front, Held + 1) = front
      BY <1>2 DEF Ring, Slot
    <3> QED BY <1>2, <3>1, <3>2, <3>3, <3>4
  <2> QED BY <2>1, <2>2
<1>4. Made(p) \in Item
  BY <1>1, MadeItem DEF MonInv
<1>5. /\ back \in Slot /\ list' \in [Slot -> Item \cup {<<>>}]
      /\ Put(list, list', Ring(front, Held), Made(p))
  <2>1. back \in Slot
    BY <1>2, RingFact
  <2> QED BY <1>1, <1>2, <1>4, <2>1 DEF Put
<1>6. /\ sent' \in Seq(Item) /\ received' \in Seq(Item)
      /\ Held' = Held + 1 /\ Held' \in 0..BufferSize
      /\ Holds(list', front, sent', received')
  <2>1. sent' = Append(sent, Made(p)) /\ received' = received
    BY <1>1
  <2>2. Held \in 0..BufferSize - 1
    BY <1>3
  <2> QED BY <1>2, <1>4, <1>5, <2>1, <2>2, StoreHolds
<1>7. UsersInv' /\ program' \in MonitorPrograms
  <2>1. /\ program' = program /\ program \notin SemaphorePrograms /\ UsersInv
        /\ program' \in MonitorPrograms
    BY <1>1 DEF MonInv, MonitorPrograms, SemaphorePrograms
  <2>2. /\ pc' \in [User -> Places'] /\ left' = [left EXCEPT ![p] = left[p] - 1]
        /\ pc'[p] = IF left[p] - 1 = 0 THEN "done" ELSE "idle"
        /\ \A u \in User \ {p} : pc'[u] = "done" <=> pc[u] = "done"
    BY <1>1, <2>1, LeaveFacts
  <2>3. pc'[p] = "done" <=> left[p] - 1 = 0
    BY <2>2
  <2> QED BY <1>1, <1>6, <2>1, <2>2, <2>3, RoundUsers
<1>8. MonitorInv'
  <2>1. back' = Ring(front', Held')
    BY <1>1, <1>2, <1>3, <1>6, RingFact
  <2>2. IF program' = "monitor" THEN count' = Held' ELSE Held' < BufferSize
    BY <1>1, <1>3, <1>6 DEF MonInv, MonitorInv
  <2> QED BY <1>1, <1>2, <1>5, <1>6, <2>1, <2>2 DEF MonitorInv
<1> QED BY <1>3, <1>4, <1>7, <1>8 DEF MonInv

LEMMA TakeKeeps ==
  ASSUME MonInv, NEW c \in Consumer, take(c)
  PROVE  /\ MonInv' /\ Held > 0
         /\ received' = Append(received, sent[Len(received) + 1])
<1> DEFINE n == IF program = "monitor" THEN left[c] - 1
                ELSE IF OVER(list[front]) THEN 0 ELSE left[c]
<1>1. /\ c \in User /\ c \notin Producer /\ pc[c] # "done" /\ pc[c] # "waiting" /\ ~Empty
      /\ front' = Succ(front) /\ count' = count - 1
      /\ sent' = sent /\ received' = Append(received, list[front])
      /\ LeaveMonitor(c, n)
      /\ UNCHANGED <<program, list, back>>
  BY UsersFinite DEF take, InMonitor, MustWait, Fetch, Succ
<1> HIDE DEF n
<1>2. /\ front \in Slot /\ back = Ring(front, Held) /\ Holds(list, front, sent, received)
      /\ list \in [Slot -> Item \cup {<<>>}]
      /\ sent \in Seq(Item) /\ received \in Seq(Item)
      /\ Held \in 0..BufferSize /\ BufferSize \in Nat \ {0}
  BY BufferAssumption DEF MonInv, MonitorInv, UsersInv
<1>3. Held > 0 /\ Held \in 1..BufferSize
  <2>1. CASE program = "monitor"
    <3>1. count = Held /\ count # 0
      BY <1>1, <2>1 DEF MonInv, MonitorInv, Empty
    <3> QED BY <1>2, <3>1
  <2>2. CASE program # "monitor"
    <3>1. back # front
      BY <1>1, <2>2 DEF Empty
    <3>2. Ring(front, 0) = front
      BY <1>2, RingFact
    <3> QED BY <1>2, <3>1, <3>2
  <2> QED BY <2>1, <2>2
<1>4. /\ list[front] = sent[Len(received) + 1]
      /\ sent' \in Seq(Item) /\ received' \in Seq(Item)
      /\ Held' = Held - 1 /\ Held' \in 0..BufferSize
      /\ Holds(list, Succ(front), sent', received')
  <2>1. sent' = sent /\ received' = Append(received, list[front])
    BY <1>1
  <2> QED BY <1>2, <1>3, <2>1, FetchHolds
<1>5. UsersInv' /\ program' \in MonitorPrograms
  <2>1. /\ program' = program /\ program \notin SemaphorePrograms /\ UsersInv
        /\ program' \in MonitorPrograms
    BY <1>1 DEF MonInv, MonitorPrograms, SemaphorePrograms
  <2>2. /\ pc' \in [User -> Places'] /\ left' = [left EXCEPT ![c] = n]
        /\ pc'[c] = IF n = 0 THEN "done" ELSE "idle"
        /\ \A u \in User \ {c} : pc'[u] = "done" <=> pc[u] = "done"
    BY <1>1, <2>1, LeaveFacts
  <2>3. pc'[c] = "done" <=> n = 0
    BY <2>2
  <2> QED BY <1>1, <1>4, <2>1, <2>2, <2>3, RoundUsers
<1>6. MonitorInv'
  <2>1. Ring(front, Held) = Ring(Succ(front), Held')
    <3>1. Held - 1 \in 0..BufferSize - 1 /\ Held = (Held - 1) + 1
      BY <1>2, <1>3
    <3> QED BY <1>2, <1>4, <3>1, RingFact
  <2>2. IF program' = "monitor" THEN count' = Held' ELSE Held' < BufferSize
    BY <1>1, <1>2, <1>4 DEF MonInv, MonitorInv
  <2>3. Succ(front) \in Slot
    BY <1>2, RingFact
  <2> QED BY <1>1, <1>2, <1>4, <2>1, <2>2, <2>3 DEF MonitorInv
<1> QED BY <1>1, <1>3, <1>4, <1>5, <1>6 DEF MonInv

\* A thread that only waits, or is woken.
LEMMA WaitKeeps ==
  ASSUME UsersInv, program \notin SemaphorePrograms, program \in MonitorPrograms => MonitorInv,
         NEW t \in User, NEW to \in {"waiting", "awake"},
         pc' = [pc EXCEPT ![t] = to], pc[t] # "done",
         UNCHANGED <<program, left, sent, received, monitorVars>>
  PROVE  UsersInv' /\ (program' \in MonitorPrograms => MonitorInv')
<1>1. pc' \in [User -> Places'] /\ \A p \in User : pc'[p] # "done" => pc[p] # "done"
  BY DEF UsersInv, Places
<1>2. Held' = Held
  BY DEF Held
<1>3. UsersInv'
  BY <1>1, <1>2, UsersFinite DEF UsersInv
<1>4. program' \in MonitorPrograms => MonitorInv'
  BY <1>2 DEF MonitorInv, monitorVars
<1> QED BY <1>3, <1>4

LEMMA MonitorKeeps ==
  ASSUME MonInv, NEW t \in User, MonitorStep(t)
  PROVE  MonInv' /\ ChannelStep
<1>1. program \notin SemaphorePrograms /\ UsersInv /\ MonitorInv
  BY DEF MonInv, MonitorPrograms, SemaphorePrograms
<1>2. CASE Wait(t)
  <2>1. /\ pc' = [pc EXCEPT ![t] = "waiting"] /\ pc[t] # "done"
        /\ UNCHANGED <<program, left, sent, received, monitorVars>>
    BY <1>2 DEF Wait, InMonitor
  <2> QED BY <1>1, <2>1, WaitKeeps DEF MonInv, ChannelStep
<1>3. CASE t \in Producer /\ put(t)
  BY <1>3, PutKeeps DEF put, Store, ChannelStep
<1>4. CASE t \in Consumer /\ take(t)
  <2>1. /\ MonInv' /\ Held > 0 /\ sent' = sent
        /\ received' = Append(received, sent[Len(received) + 1])
    BY <1>4, TakeKeeps DEF take, Fetch
  <2> QED BY <1>1, <2>1, SomeHeld DEF ChannelStep
<1> QED BY <1>2, <1>3, <1>4 DEF MonitorStep

LEMMA QueueStepKeeps ==
  ASSUME UsersInv, NEW t \in User,
         (t \in Producer /\ Enqueue(t)) \/ (t \in Consumer /\ Dequeue(t))
  PROVE  UsersInv' /\ program' = program /\ program = "queue" /\ ChannelStep
<1> DEFINE n == left[t] - 1
           to == IF n = 0 THEN "done" ELSE "idle"
<1>1. /\ program = "queue" /\ program' = program /\ pc[t] = "idle"
      /\ left' = [left EXCEPT ![t] = n] /\ pc' = [pc EXCEPT ![t] = to]
  BY DEF Enqueue, Dequeue, Round
<1>2. to = "done" <=> n = 0
  OBVIOUS
<1>3. to \in {"idle", "done"} /\ n = left[t] - 1
  OBVIOUS
<1> HIDE DEF n, to
<1>4. /\ pc' \in [User -> Places'] /\ pc'[t] = to
      /\ \A u \in User \ {t} : pc'[u] = pc[u]
  BY <1>1, <1>3 DEF UsersInv, Places, SemaphorePrograms
<1>5. /\ sent \in Seq(Item) /\ received \in Seq(Item)
      /\ Len(sent) \in Nat /\ Len(received) \in Nat
      /\ Held \in 0..BufferSize /\ BufferSize \in Nat
  BY BufferAssumption, LenProperties DEF UsersInv
<1>6. /\ ChannelStep
      /\ sent' \in Seq(Item) /\ received' \in Seq(Item) /\ Held' \in 0..BufferSize
  <2>1. CASE t \in Producer /\ Enqueue(t)
    <3>1. /\ Made(t) \in Item /\ sent' = Append(sent, Made(t)) /\ received' = received
          /\ Held < BufferSize
      BY <1>1, <2>1, MadeItem DEF Enqueue, Store, Held
    <3>2. sent' \in Seq(Item) /\ Len(sent') = Len(sent) + 1
      BY <1>5, <3>1, AppendProperties
    <3>3. Held' \in 0..BufferSize
      BY <1>5, <3>1, <3>2 DEF Held
    <3> QED BY <1>5, <3>1, <3>2, <3>3 DEF ChannelStep
  <2>2. CASE t \in Consumer /\ Dequeue(t)
    <3>1. /\ sent' = sent /\ received' = Append(received, sent[Len(received) + 1])
          /\ Len(received) < Len(sent)
      BY <2>2 DEF Dequeue, Fetch
    <3>2. Held > 0 /\ Len(received) + 1 \in 1..Len(sent)
      BY <1>5, <3>1 DEF Held
    <3>3. sent[Len(received) + 1] \in Item
      BY <1>5, <3>2, ElementOfSeq
    <3>4. received' \in Seq(Item) /\ Len(received') = Len(received) + 1
      BY <1>5, <3>1, <3>3, AppendProperties
    <3>5. Held' \in 0..BufferSize
      BY <1>5, <3>1, <3>2, <3>4 DEF Held
    <3> QED BY <1>5, <3>1, <3>4, <3>5 DEF ChannelStep
  <2> QED BY <2>1, <2>2
<1>7. UsersInv'
  BY <1>1, <1>2, <1>3, <1>4, <1>6, RoundUsers
<1> QED BY <1>1, <1>6, <1>7

\* Every step of a program with a buffer keeps the invariant, and is one of
\* a channel.
LEMMA StepKeeps ==
  ASSUME BufferInv, program \in BufferPrograms, NEW t \in User,
         Step(t) \/ Spurious(t)
  PROVE  BufferInv' /\ ChannelStep
<1>1. /\ UsersInv
      /\ program \in SemaphorePrograms => SemInv
      /\ program \in MonitorPrograms => MonInv
      /\ SemaphorePrograms \cap MonitorPrograms = {}
      /\ "queue" \notin SemaphorePrograms \cup MonitorPrograms
  BY DEF BufferInv, SemInv, MonInv, SemaphorePrograms, MonitorPrograms
<1>2. CASE SemaphoreStep(t)
  <2>1. program \in SemaphorePrograms
    BY <1>2 DEF SemaphoreStep, WaitCount, WaitMutex, Unlock, Post, StoreSlot, AdvanceFree,
           FetchSlot, AdvanceTaken, Semaphored, SemaphorePrograms
  <2>2. SemInv' /\ ChannelStep
    BY <1>1, <1>2, <2>1, SemaphoreKeeps
  <2> QED BY <1>1, <2>2 DEF BufferInv, SemInv
<1>3. CASE MonitorStep(t)
  <2>1. program \in MonitorPrograms
    BY <1>3 DEF MonitorStep, Wait, put, take, InMonitor, MonitorPrograms
  <2>2. MonInv' /\ ChannelStep
    BY <1>1, <1>3, <2>1, MonitorKeeps
  <2> QED BY <1>1, <2>2 DEF BufferInv, MonInv
<1>4. CASE (t \in Producer /\ Enqueue(t)) \/ (t \in Consumer /\ Dequeue(t))
  BY <1>1, <1>4, QueueStepKeeps DEF BufferInv
<1>5. CASE Spurious(t)
  <2>1. /\ pc[t] = "waiting" /\ pc' = [pc EXCEPT ![t] = "awake"]
        /\ UNCHANGED <<program, left, sent, received, monitorVars>>
    BY <1>5 DEF Spurious, SpuriousWakeup
  <2>2. program \notin SemaphorePrograms
    BY <1>1, <2>1 DEF UsersInv, Places, Inside
  <2>3. UsersInv' /\ (program' \in MonitorPrograms => MonitorInv')
    <3>1. pc[t] # "done" /\ (program \in MonitorPrograms => MonitorInv)
      BY <1>1, <2>1 DEF MonInv
    <3> QED BY <1>1, <2>1, <2>2, <3>1, WaitKeeps
  <2> QED BY <2>1, <2>2, <2>3 DEF BufferInv, ChannelStep
<1> QED BY <1>2, <1>3, <1>4, <1>5 DEF Step

-----------------------------------------------------------------------------
(* All programs of the labs.                                               *)

LEMMA BufferStart ==
  ASSUME LabsInit
  PROVE  BufferInv
<1>1. SUFFICES ASSUME program \in BufferPrograms PROVE BufferInv
  BY DEF BufferInv
<1>2. UsersStart
  BY <1>1 DEF LabsInit, BufferPrograms, Writers!Start, Writers!Programs, Sums!Start,
         Sums!Programs, Futures!Start
<1>3. UsersFresh /\ SemaphoreInit /\ MonitorInit
  BY DEF LabsInit, Fresh
<1>4. /\ sent = <<>> /\ received = <<>> /\ Held = 0
      /\ BufferSize \in Nat \ {0} /\ Produced \in Nat \ {0}
  BY <1>3, BufferAssumption DEF UsersFresh, Held
<1>5. \A t \in User : pc[t] \in {"idle", "done"}
  BY <1>2 DEF UsersStart
<1>6. UsersInv
  <2>1. pc \in [User -> Places]
    BY <1>2 DEF UsersStart, Places
  <2>2. DOMAIN left = User
    BY <1>3 DEF UsersFresh
  <2>3. ASSUME NEW p \in Producer
        PROVE  left[p] \in 0..Produced /\ (pc[p] # "done" => left[p] # 0)
    <3>1. p \in User
      BY UsersFinite
    <3>2. CASE Runs(p)
      <4>1. left[p] = Produced
        BY <1>3, <3>1, <3>2 DEF UsersFresh
      <4> QED BY <1>4, <4>1
    <3>3. CASE ~Runs(p)
      <4>1. left[p] = 0 /\ pc[p] = "done"
        BY <1>2, <1>3, <3>1, <3>3 DEF UsersFresh, UsersStart
      <4> QED BY <1>4, <4>1
    <3> QED BY <3>2, <3>3
  <2>4. sent \in Seq(Item) /\ received \in Seq(Item) /\ Held \in 0..BufferSize
    BY <1>4
  <2> QED BY <2>1, <2>2, <2>3, <2>4 DEF UsersInv
<1>7. 0 \in Slot /\ Ring(0, 0) = 0
  BY <1>4 DEF Slot, Ring
<1>8. \A slots : Holds(slots, 0, sent, received)
  BY <1>4 DEF Holds
<1>9. SemaphoreInv
  <2>1. /\ sem \in [Semaphore -> [permits : Nat, queue : Seq(Waiter)]]
        /\ sem["takenCount"].permits = 0 /\ sem["freeCount"].permits = BufferSize
        /\ sem["takenMutex"].permits = 1 /\ sem["freeMutex"].permits = 1
    <3>1. ASSUME NEW s \in Semaphore
          PROVE  sem[s] = [permits |-> IF s = "takenCount" THEN 0
                                       ELSE IF s = "freeCount" THEN BufferSize ELSE 1,
                           queue   |-> <<>>]
      BY <1>3 DEF SemaphoreInit, NewSemaphore
    <3>2. sem = [s \in Semaphore |-> sem[s]] /\ <<>> \in Seq(Waiter)
      BY <1>3 DEF SemaphoreInit
    <3>3. ASSUME NEW s \in Semaphore
          PROVE  sem[s] \in [permits : Nat, queue : Seq(Waiter)]
      <4> DEFINE empty == <<>>
      <4>1. PICK n \in Nat : sem[s] = [permits |-> n, queue |-> empty]
        BY <1>4, <3>1
      <4>2. empty \in Seq(Waiter)
        OBVIOUS
      <4> HIDE DEF empty
      <4> QED BY <4>1, <4>2
    <3> QED BY <3>1, <3>2, <3>3 DEF Semaphore
  <2>2. SemaphoreTypes
    <3>1. /\ buffer = [i \in Slot |-> <<>>] /\ firstTaken = 0 /\ firstFree = 0
      BY <1>3 DEF SemaphoreInit, Slot, NoItem
    <3> QED BY <1>7, <2>1, <3>1 DEF SemaphoreTypes, NoItem
  <2>3. MutexInv
    <3>1. \A m \in {"takenMutex", "freeMutex"} : Holder(m) = {}
      BY <1>5 DEF Holder, Inside
    <3> QED BY <2>1, <3>1 DEF MutexInv
  <2>4. CountInv
    <3>1. Filling = {} /\ Filled = {} /\ Emptying = {} /\ Emptied = {}
      BY <1>5, UsersFinite DEF Filling, Filled, Emptying, Emptied
    <3> QED BY <1>4, <2>1, <3>1, FS_EmptySet DEF CountInv
  <2>5. SlotsInv
    <3>1. ~Between(Producer) /\ ~Between(Consumer) /\ firstTaken = 0 /\ firstFree = 0
      BY <1>3, <1>5, UsersFinite DEF Between, SemaphoreInit
    <3> QED BY <1>4, <1>7, <1>8, <3>1 DEF SlotsInv, Room, Oldest
  <2> QED BY <2>2, <2>3, <2>4, <2>5 DEF SemaphoreInv
<1>10. MonitorInv
  <2>1. list = [i \in Slot |-> <<>>] /\ front = 0 /\ back = 0 /\ count = 0
    BY <1>3 DEF MonitorInit, Slot
  <2> QED BY <1>4, <1>7, <1>8, <2>1 DEF MonitorInv
<1> QED BY <1>6, <1>9, <1>10 DEF BufferInv

\* The program stays, and only its own threads move.
LEMMA LabsMoves ==
  ASSUME [LabsNext]_labsVars
  PROVE  /\ program' = program
         /\ \/ program \in BufferPrograms /\ \E t \in User : Step(t) \/ Spurious(t)
            \/ program \in Writers!Programs /\ Writers!Next /\ UNCHANGED bufferVars
            \/ program \notin BufferPrograms \cup Writers!Programs /\ UNCHANGED bufferVars
            \/ UNCHANGED labsVars
<1>1. CASE \E t \in User : BuffersStep(t)
  <2>1. PICK t \in User : program \in BufferPrograms /\ Step(t)
    BY <1>1 DEF BuffersStep
  <2>2. program' = program
    BY <2>1
       DEF Step, SemaphoreStep, WaitCount, WaitMutex, Unlock, Post, StoreSlot, AdvanceFree,
           FetchSlot, AdvanceTaken, MonitorStep, Wait, put, take, Enqueue, Dequeue
  <2> QED BY <2>1, <2>2
<1>2. CASE \E t \in Writers!Writer : WritersStep(t)
  <2>1. PICK t \in Writers!Writer :
          program \in Writers!Programs /\ Writers!Step(t) /\ UNCHANGED bufferVars
    BY <1>2 DEF WritersStep, WritersRun
  <2>2. program' = program
    BY <2>1
       DEF Writers!Step, Writers!AwaitTurn, Writers!busyWork, Writers!Announce,
           Writers!TestInterest, Writers!TestTurn, Writers!PrintChar, Writers!Println,
           Writers!Leave
  <2> QED BY <2>1, <2>2 DEF Writers!Next
<1>3. CASE SumsJoin \/ \E h \in Sums!Helpers("threadsafe") : SumsStep(h)
  BY <1>3
     DEF SumsJoin, SumsStep, SumsRun, Sums!Programs, BufferPrograms, Writers!Programs,
         Sums!Join, Sums!HelperStep, Sums!StoreCell, Sums!SetCell, Sums!ReadOtherEnd,
         Sums!ResetOtherEnd, Sums!Sleep, Sums!Trip, Sums!Throw, Sums!StartTask,
         Sums!computeIfAbsent, Sums!add
<1>4. CASE FuturesMain \/ \E w \in Worker : FuturesStep(w)
  BY <1>4
     DEF FuturesMain, FuturesStep, FuturesRun, BufferPrograms, Writers!Programs,
         Futures!MainStep, Futures!WorkerStep, Futures!submit, Futures!get,
         Futures!shutdown, Futures!Check, Futures!Take, Futures!Call, Futures!Put,
         Futures!Throw
<1>5. CASE Unasked
  <2>1. CASE program \in BufferPrograms /\ (\E t \in User : Spurious(t)) /\ BuffersRun
    BY <2>1 DEF Spurious, SpuriousWakeup
  <2>2. CASE program \in Writers!Programs /\ Writers!InterruptMain /\ WritersRun
    BY <2>2 DEF WritersRun, Writers!InterruptMain, Writers!Next
  <2>3. CASE program \in Sums!Programs /\ Sums!InterruptMain /\ SumsRun
    BY <2>3 DEF SumsRun, Sums!Programs, BufferPrograms, Writers!Programs,
           Sums!InterruptMain
  <2>4. CASE program = "futures" /\ Futures!InterruptMain /\ FuturesRun
    BY <2>4
       DEF FuturesRun, BufferPrograms, Writers!Programs, Futures!InterruptMain,
           Futures!SubmitInterrupted, Futures!GetInterrupted
  <2> QED BY <1>5, <2>1, <2>2, <2>3, <2>4 DEF Unasked
<1>6. CASE UNCHANGED labsVars
  BY <1>6 DEF labsVars, vars, userVars
<1> QED BY <1>1, <1>2, <1>3, <1>4, <1>5, <1>6 DEF LabsNext

LEMMA LabsStep ==
  ASSUME BufferInv, [LabsNext]_labsVars
  PROVE  BufferInv' /\ ChannelStep
<1>1. CASE program \in BufferPrograms /\ \E t \in User : Step(t) \/ Spurious(t)
  BY <1>1, StepKeeps
<1>2. CASE program \notin BufferPrograms /\ UNCHANGED bufferVars /\ program' = program
  BY <1>2 DEF BufferInv, bufferVars, ChannelStep
<1>3. CASE UNCHANGED labsVars
  <2>1. UNCHANGED <<program, pc, left, sent, received, semaphoreVars, monitorVars>>
    BY <1>3 DEF labsVars, vars, userVars
  <2> QED
    BY <2>1
       DEF BufferInv, ChannelStep, UsersInv, Places, Held, SemaphoreInv, SemaphoreTypes,
           MutexInv, Holder, Mutex, CountInv, Filling, Filled, Emptying, Emptied, SlotsInv,
           Oldest, Room, Between, MonitorInv, semaphoreVars, slotVars, monitorVars
<1>4. BufferPrograms \cap Writers!Programs = {}
  BY DEF BufferPrograms, Writers!Programs
<1> QED BY <1>1, <1>2, <1>3, <1>4, LabsMoves

-----------------------------------------------------------------------------
(* What the threads see.                                                   *)

LEMMA AtMostOne ==
  ASSUME NEW S, IsFiniteSet(S), \A t, u \in S : t = u
  PROVE  Cardinality(S) <= 1
<1>1. CASE S = {}
  BY <1>1, FS_EmptySet
<1>2. CASE S # {}
  <2>1. PICK t \in S : S = {t}
    BY <1>2
  <2> QED BY <2>1, FS_Singleton
<1> QED BY <1>1, <1>2

\* A producer and a consumer that touch the buffer are a number of items, not
\* zero and not all of the ring, apart.
LEMMA InvApart ==
  ASSUME BufferInv
  PROVE  SlotsApart
<1>1. SUFFICES ASSUME program \in BufferPrograms PROVE SlotsApart
  BY DEF SlotsApart
<1> DEFINE InsideOf(S) == {t \in S : pc[t] \in {"inside", "stored", "over"}}
<1>2. ASSUME NEW S \in {Producer, Consumer}
      PROVE  Cardinality(InsideOf(S)) <= 1
  <2>1. IsFiniteSet(InsideOf(S))
    <3>1. InsideOf(S) \subseteq S /\ IsFiniteSet(S)
      BY UsersFinite
    <3> QED BY <3>1, FS_Subset
  <2>2. \A t, u \in InsideOf(S) : t = u
    <3>1. CASE program \in SemaphorePrograms
      <4>1. SemInv
        BY <1>1, <3>1 DEF BufferInv, SemInv
      <4>2. ASSUME NEW t \in InsideOf(S), NEW u \in InsideOf(S)
            PROVE  t = u
        <5>1. /\ t \in User /\ u \in User /\ pc[t] \in Inside /\ pc[u] \in Inside
              /\ t \in Producer <=> u \in Producer
          BY UsersFinite DEF Inside
        <5> QED BY <4>1, <5>1, Alone
      <4> QED BY <4>2
    <3>2. CASE program \notin SemaphorePrograms
      <4>1. \A t \in User : pc[t] \in {"idle", "waiting", "awake", "done"}
        BY <1>1, <3>2 DEF BufferInv, UsersInv, Places
      <4> QED BY <4>1, UsersFinite
    <3> QED BY <3>1, <3>2
  <2> HIDE DEF InsideOf
  <2> QED BY <2>1, <2>2, AtMostOne
<1>3. ASSUME NEW p \in Producer, NEW c \in Consumer, pc[p] = "inside", pc[c] = "inside"
      PROVE  firstFree # firstTaken
  <2>1. p \in User /\ c \in User /\ p \notin Consumer /\ c \notin Producer
    BY UsersFinite
  <2>2. SemInv
    <3>1. program \in SemaphorePrograms
      BY <1>1, <1>3, <2>1 DEF BufferInv, UsersInv, Places
    <3> QED BY <1>1, <3>1 DEF BufferInv, SemInv
  <2>3. ~Between(Producer) /\ ~Between(Consumer)
    BY <1>3, <2>1, <2>2, Alone, UsersFinite DEF Between, Inside
  <2>4. firstTaken \in Slot /\ firstFree = Ring(firstTaken, Held)
    BY <2>2, <2>3 DEF SemInv, SemaphoreInv, SemaphoreTypes, SlotsInv, Room, Oldest
  <2>5. p \in Filling /\ c \in Emptying
    BY <1>3 DEF Filling, Emptying
  <2>6. Cardinality(Filling) > 0 /\ Cardinality(Emptying) > 0
    BY <2>2, <2>5, CountNumbers, JoinCount
  <2>7. Held > 0 /\ Held < BufferSize /\ Held \in Nat /\ BufferSize \in Nat
    BY <2>2, <2>6, CountNumbers DEF CountInv
  <2> QED BY <2>4, <2>7 DEF Ring, Slot
<1> QED BY <1>2, <1>3 DEF SlotsApart

\* The buffer's invariant, at every step of whichever program runs.
THEOREM BufferInvariance == LabsSpec => []BufferInv
<1>1. LabsInit => BufferInv
  BY BufferStart
<1>2. BufferInv /\ [LabsNext]_labsVars => BufferInv'
  BY LabsStep
<1> QED BY <1>1, <1>2, PTL DEF LabsSpec

\* A producer and a consumer in the buffer at once never touch the same slot,
\* and two threads of a kind are never in it together: the two counts of
\* ProducersConsumers.java and gifts.c keep their indices apart, the mutexes
\* their own kind.
THEOREM Apart == LabsSpec => []SlotsApart
<1>1. BufferInv => SlotsApart
  BY InvApart
<1> QED BY <1>1, BufferInvariance, PTL

\* Each of the five buffers is a channel: what is fetched is the oldest item
\* stored and not fetched yet, and no more than the buffer's size are.
THEOREM InOrder == LabsSpec => FirstInFirstOut
<1>1. LabsInit => FIFO!ChannelInit
  BY DEF LabsInit, Fresh, UsersFresh, FIFO!ChannelInit
<1>2. ASSUME BufferInv, [LabsNext]_labsVars
      PROVE  [(\E i \in Item : FIFO!Send(i)) \/ FIFO!Receive]_(FIFO!channelVars)
  BY <1>2, LabsStep DEF ChannelStep, Held, FIFO!Send, FIFO!Receive, FIFO!channelVars
<1> QED
  BY <1>1, <1>2, BufferInvariance, PTL DEF LabsSpec, FirstInFirstOut, FIFO!ChannelSpec

-----------------------------------------------------------------------------
(* The two writers of labs 1 and 2, as they are proved to be on their own.  *)

Pair == INSTANCE TwoWritersProofs

LinesInv == program \in Pair!Programs => Pair!WritersInv

LEMMA LinesStart == LabsInit => LinesInv
<1> SUFFICES ASSUME LabsInit, program \in Pair!Programs PROVE Pair!WritersInv
  BY DEF LinesInv
<1>1. Pair!Start
  BY DEF LabsInit, Pair!Start, Pair!Programs, Pair!Writer, Writers!Start,
         Writers!Programs, Writers!Writer, UsersStart, BufferPrograms, Sums!Start,
         Sums!Programs, Futures!Start
<1>2. Pair!Fresh
  BY DEF LabsInit, Pair!Fresh, Pair!Writer, Writers!Fresh, Writers!Writer
<1> QED BY <1>1, <1>2, Pair!InitInv DEF Pair!Init

\* What the writers do here is what they do on their own.
LEMMA LinesMoves ==
  ASSUME [LabsNext]_labsVars, program \in Pair!Programs
  PROVE  [Pair!Next]_(Pair!vars)
<1>1. program \in Writers!Programs /\ program \notin BufferPrograms
  BY DEF Pair!Programs, Writers!Programs, BufferPrograms
<1>2. Writers!Next \/ UNCHANGED labsVars
  BY <1>1, LabsMoves
<1>3. CASE \E t \in Writers!Writer : Writers!Step(t)
  <2>1. PICK t \in Pair!Writer : Writers!Step(t)
    BY <1>3 DEF Writers!Writer, Pair!Writer
  <2>2. Pair!Step(t)
    BY <2>1
       DEF Pair!Step, Pair!AwaitTurn, Pair!busyWork, Pair!Announce,
           Pair!TestInterest, Pair!TestTurn, Pair!PrintChar, Pair!Println,
           Pair!Leave, Pair!Goto, Pair!SetInterested, Pair!SetWaiting,
           Pair!Other, Pair!turnVars, Pair!Written,
           Writers!Step, Writers!AwaitTurn, Writers!busyWork, Writers!Announce,
           Writers!TestInterest, Writers!TestTurn, Writers!PrintChar, Writers!Println,
           Writers!Leave, Writers!Goto, Writers!SetInterested, Writers!SetWaiting,
           Writers!Other, Writers!turnVars, Writers!Written
  <2> QED BY <2>1, <2>2 DEF Pair!Next
<1>4. CASE Writers!InterruptMain
  <2>1. Pair!InterruptMain
    BY <1>4 DEF Pair!InterruptMain, Writers!InterruptMain, Pair!Writer,
           Writers!Writer, Pair!turnVars, Writers!turnVars
  <2> QED BY <2>1 DEF Pair!Next
<1>5. CASE UNCHANGED labsVars
  BY <1>5 DEF labsVars, vars, userVars, writersVars, Pair!vars, Pair!turnVars
<1> QED BY <1>2, <1>3, <1>4, <1>5 DEF Writers!Next

LEMMA LinesStep ==
  ASSUME LinesInv, [LabsNext]_labsVars
  PROVE  LinesInv'
<1>1. program' = program
  BY LabsMoves
<1>2. SUFFICES ASSUME program \in Pair!Programs PROVE Pair!WritersInv'
  BY <1>1 DEF LinesInv, Pair!Programs
<1> QED BY <1>2, LinesMoves, Pair!NextInv DEF LinesInv

LEMMA PrintedStart == LabsInit => Pair!AllPrinted
<1> SUFFICES ASSUME LabsInit, program \in Pair!Programs PROVE Pair!AllPrinted
  BY DEF Pair!AllPrinted
<1>1. pc = [t \in Pair!Writer |-> "idle"]
  BY DEF LabsInit, Pair!Start, Pair!Programs, Pair!Writer, Writers!Start,
         Writers!Programs, Writers!Writer, UsersStart, BufferPrograms, Sums!Start,
         Sums!Programs, Futures!Start
<1> QED BY <1>1 DEF Pair!AllPrinted

LEMMA PrintedKeeps ==
  ASSUME LinesInv, Pair!AllPrinted, [LabsNext]_labsVars
  PROVE  Pair!AllPrinted'
<1>1. program' = program
  BY LabsMoves
<1>2. CASE program \in Pair!Programs
  BY <1>2, LinesMoves, Pair!PrintedStep DEF LinesInv
<1>3. CASE program \notin Pair!Programs
  BY <1>1, <1>3 DEF Pair!AllPrinted, Pair!Programs
<1> QED BY <1>2, <1>3

LEMMA InvLines == LinesInv => LinesWhole
<1> SUFFICES ASSUME LinesInv, program \in Writers!Programs PROVE LinesWhole
  BY DEF LinesWhole, Writers!LinesWhole
<1>1. Pair!LinesWhole /\ program \in Pair!Programs
  BY Pair!InvWhole DEF LinesInv, Pair!Programs, Writers!Programs
<1> QED BY <1>1 DEF LinesWhole, Writers!LinesWhole, Pair!LinesWhole

\* No line of TwoWritersPeterson.java or TwoWritersSynchronized.java mixes the
\* characters of two writers, among the runs of all programs.
THEOREM LinesOfLabs == LabsSpec => []LinesWhole
BY LinesStart, LinesStep, InvLines, PTL DEF LabsSpec

-----------------------------------------------------------------------------
(* Numbers: induction, the sum of a row, the chunks of rows.               *)

Less == {ss \in Nat \X Nat : ss[1] < ss[2]}

\* Less is well-founded, which the induction below needs.
LEMMA LessWellFounded == IsWellFoundedOn(Less, Nat)
BY NatLessThanWellFounded DEF OpToRel, Less

\* Induction over the naturals, said of a set.
LEMMA SetInduction ==
  ASSUME NEW S, 0 \in S, \A n \in Nat : n \in S => n + 1 \in S
  PROVE  Nat \subseteq S
<1> DEFINE T == Nat \ S
<1> SUFFICES ASSUME T # {} PROVE FALSE
  OBVIOUS
<1>1. PICK x \in T : \A y \in T : <<y, x>> \notin Less
  <2>1. T \subseteq Nat
    OBVIOUS
  <2> HIDE DEF T
  <2> QED BY <2>1, LessWellFounded, WFMin
<1>2. x # 0 /\ x - 1 \in Nat /\ x - 1 + 1 = x
  OBVIOUS
<1>3. <<x - 1, x>> \in Less
  BY <1>2 DEF Less
<1>4. x - 1 \in S
  BY <1>1, <1>2, <1>3
<1> QED BY <1>2, <1>4

Columns == Sums!Column

LEMMA Sizes ==
  /\ COLUMNS \in Nat \ {0} /\ ROWS \in Nat \ {0} /\ MAX_ROWS_PER_THREAD \in Nat \ {0}
  /\ Columns = 0..COLUMNS - 1 /\ Sums!Rows = 0..ROWS - 1
BY LabsAssumption DEF Columns, Sums!Column, Sums!Rows

\* Running totals of a row of cells, up to and without each column.
Totals(cell, u) ==
  /\ u \in [0..COLUMNS -> Int]
  /\ u[0] = 0
  /\ \A c \in Columns : u[c + 1] = u[c] + cell[c]

\* There is one way to add up the first n cells.
LEMMA TotalsEqual ==
  ASSUME NEW cell, NEW u, NEW v, Totals(cell, u), Totals(cell, v)
  PROVE  u = v
<1> DEFINE D == {n \in Nat : n \in 0..COLUMNS => u[n] = v[n]}
<1>1. 0 \in D
  BY DEF Totals
<1>2. \A n \in Nat : n \in D => n + 1 \in D
  <2> SUFFICES ASSUME NEW n \in D, n + 1 \in 0..COLUMNS
               PROVE  u[n + 1] = v[n + 1]
    OBVIOUS
  <2>1. n \in Columns /\ n \in 0..COLUMNS
    BY Sizes
  <2> QED BY <2>1 DEF Totals
<1> HIDE DEF D
<1>3. Nat \subseteq D
  BY <1>1, <1>2, SetInduction
<1>4. \A n \in 0..COLUMNS : u[n] = v[n]
  BY <1>3, Sizes DEF D
<1>5. u = [n \in 0..COLUMNS |-> u[n]] /\ v = [n \in 0..COLUMNS |-> v[n]]
  BY DEF Totals
<1> QED BY <1>4, <1>5

\* There are totals of every row.
LEMMA TotalsExist ==
  ASSUME NEW cell, \A c \in Columns : cell[c] \in Int
  PROVE  \E u : Totals(cell, u)
<1> DEFINE Upto(n, u) == /\ u \in [0..COLUMNS -> Int] /\ u[0] = 0
                         /\ \A c \in Columns : c < n => u[c + 1] = u[c] + cell[c]
           D == {n \in Nat : n \in 0..COLUMNS => \E u : Upto(n, u)}
<1>1. 0 \in D
  <2>1. Upto(0, [n \in 0..COLUMNS |-> 0])
    BY Sizes
  <2> QED BY <2>1
<1>2. \A n \in Nat : n \in D => n + 1 \in D
  <2> SUFFICES ASSUME NEW n \in D, n + 1 \in 0..COLUMNS
               PROVE  \E u : Upto(n + 1, u)
    OBVIOUS
  <2>1. n \in Columns /\ n \in 0..COLUMNS
    BY Sizes
  <2>2. PICK u : Upto(n, u)
    BY <2>1
  <2> DEFINE v == [u EXCEPT ![n + 1] = u[n] + cell[n]]
  <2>3. v \in [0..COLUMNS -> Int] /\ v[0] = 0 /\ v[n + 1] = u[n] + cell[n]
    BY <2>1, <2>2
  <2>4. \A c \in Columns : c # n + 1 => v[c] = u[c]
    BY <2>2, Sizes
  <2>5. \A c \in Columns : c # n => v[c + 1] = u[c + 1]
    BY <2>1, <2>2, Sizes
  <2>6. \A c \in Columns : c < n + 1 => v[c + 1] = v[c] + cell[c]
    <3> HIDE DEF v
    <3> SUFFICES ASSUME NEW c \in Columns, c < n + 1 PROVE v[c + 1] = v[c] + cell[c]
      OBVIOUS
    <3>1. c \in Int /\ n \in Int /\ v[c] = u[c]
      BY <2>1, <2>4, Sizes
    <3>2. CASE c = n
      BY <2>3, <3>1, <3>2
    <3>3. CASE c # n
      BY <2>2, <2>5, <3>1, <3>3
    <3> QED BY <3>2, <3>3
  <2>7. Upto(n + 1, v)
    BY <2>3, <2>6
  <2> QED BY <2>7
<1> HIDE DEF D
<1>3. Nat \subseteq D
  BY <1>1, <1>2, SetInduction
<1>4. PICK u : Upto(COLUMNS, u)
  BY <1>3, Sizes DEF D
<1>5. Totals(cell, u)
  BY <1>4, Sizes DEF Totals
<1> QED BY <1>5

\* The loop ends with the last of the totals.
LEMMA RowSumTotals ==
  ASSUME NEW cell, \A c \in Columns : cell[c] \in Int
  PROVE  \E u : Totals(cell, u) /\ Sums!RowSum(cell) = u[COLUMNS]
<1> DEFINE Is(f) == f = [c \in 0..COLUMNS |-> IF c = 0 THEN 0 ELSE f[c - 1] + cell[c - 1]]
<1>1. PICK u : Totals(cell, u)
  BY TotalsExist
<1>2. ASSUME NEW n \in 0..COLUMNS
      PROVE  u[n] = IF n = 0 THEN 0 ELSE u[n - 1] + cell[n - 1]
  <2>1. CASE n = 0
    BY <1>1, <2>1 DEF Totals
  <2>2. CASE n # 0
    <3>1. n - 1 \in Columns /\ n - 1 + 1 = n
      BY <2>2, Sizes
    <3> QED BY <1>1, <2>2, <3>1 DEF Totals
  <2> QED BY <2>1, <2>2
<1>3. Is(u)
  BY <1>1, <1>2 DEF Totals
<1>4. PICK f : Is(f) /\ Sums!RowSum(cell) = f[COLUMNS]
  BY <1>3 DEF Sums!RowSum
<1>5. f[COLUMNS] = u[COLUMNS]
  <2> DEFINE D == {n \in Nat : n \in 0..COLUMNS => f[n] = u[n]}
  <2>1. \A n \in 0..COLUMNS : f[n] = IF n = 0 THEN 0 ELSE f[n - 1] + cell[n - 1]
    BY <1>4
  <2> HIDE DEF Is
  <2>2. 0 \in D
    BY <1>2, <2>1, Sizes
  <2>3. \A n \in Nat : n \in D => n + 1 \in D
    <3> SUFFICES ASSUME NEW n \in D, n + 1 \in 0..COLUMNS
                 PROVE  f[n + 1] = u[n + 1]
      OBVIOUS
    <3>1. n \in 0..COLUMNS /\ n + 1 # 0 /\ n + 1 - 1 = n
      BY Sizes
    <3> QED BY <1>2, <2>1, <3>1
  <2> HIDE DEF D
  <2>4. Nat \subseteq D
    BY <2>2, <2>3, SetInduction
  <2> QED BY <2>4, Sizes DEF D
<1> QED BY <1>1, <1>4, <1>5

\* A row of zeroes.
LEMMA RowSumZero == Sums!RowSum([c \in Columns |-> 0]) = 0
<1> DEFINE zeros == [c \in Columns |-> 0]
           v == [n \in 0..COLUMNS |-> 0]
<1>1. PICK u : Totals(zeros, u) /\ Sums!RowSum(zeros) = u[COLUMNS]
  BY RowSumTotals
<1>2. Totals(zeros, v)
  BY Sizes DEF Totals
<1>3. u = v
  BY <1>1, <1>2, TotalsEqual
<1> QED BY <1>1, <1>3, Sizes

\* One more number in a cell is one more in the sum.
LEMMA RowSumAdd ==
  ASSUME NEW cell \in [Columns -> Int], NEW d \in Columns, NEW x \in Int
  PROVE  Sums!RowSum([cell EXCEPT ![d] = @ + x]) = Sums!RowSum(cell) + x
<1> DEFINE more == [cell EXCEPT ![d] = @ + x]
<1>1. PICK u : Totals(cell, u) /\ Sums!RowSum(cell) = u[COLUMNS]
  BY RowSumTotals
<1>2. /\ more \in [Columns -> Int] /\ more[d] = cell[d] + x
      /\ \A c \in Columns : c # d => more[c] = cell[c]
  OBVIOUS
<1>3. PICK w : Totals(more, w) /\ Sums!RowSum(more) = w[COLUMNS]
  BY <1>2, RowSumTotals
<1> DEFINE v == [n \in 0..COLUMNS |-> IF n > d THEN u[n] + x ELSE u[n]]
<1> HIDE DEF more
<1>4. Totals(more, v)
  <2>1. u \in [0..COLUMNS -> Int] /\ d \in Int /\ 0 <= d /\ d < COLUMNS
    BY <1>1, Sizes DEF Totals
  <2>2. v \in [0..COLUMNS -> Int] /\ v[0] = 0
    BY <1>1, <2>1, Sizes DEF Totals
  <2>3. ASSUME NEW c \in Columns PROVE v[c + 1] = v[c] + more[c]
    <3>0. c \in 0..COLUMNS /\ c + 1 \in 0..COLUMNS /\ cell[c] \in Int /\ more[c] \in Int
      BY <1>2, Sizes
    <3>1. u[c] \in Int /\ u[c + 1] \in Int /\ u[c + 1] = u[c] + cell[c]
      BY <1>1, <2>1, <3>0 DEF Totals
    <3>2. /\ v[c] = (IF c > d THEN u[c] + x ELSE u[c])
          /\ v[c + 1] = (IF c + 1 > d THEN u[c + 1] + x ELSE u[c + 1])
      BY <3>0
    <3> HIDE DEF v
    <3>3. more[c] = IF c = d THEN cell[c] + x ELSE cell[c]
      BY <1>2
    <3>4. c \in Int
      BY Sizes
    <3> QED BY <2>1, <3>0, <3>1, <3>2, <3>3, <3>4
  <2> QED BY <2>2, <2>3 DEF Totals
<1>5. w = v
  BY <1>3, <1>4, TotalsEqual
<1>6. v[COLUMNS] = u[COLUMNS] + x
  BY Sizes
<1> QED BY <1>1, <1>3, <1>5, <1>6 DEF more

-----------------------------------------------------------------------------
(* The chunks of rows of rowSumsThreadsafe.                                *)

\* A product with a sum, and with a positive number.
LEMMA Product ==
  ASSUME NEW m \in Nat \ {0}, NEW a \in Int, NEW b \in Int
  PROVE  /\ m * a \in Int /\ m * b \in Int
         /\ m * (a - b) = m * a - m * b
         /\ a > b => m * (a - b) >= m
<1>1. m * a \in Int /\ m * b \in Int /\ m * (a - b) = m * a - m * b
  OBVIOUS
<1>2. ASSUME a > b PROVE m * (a - b) >= m
  <2>1. a - b - 1 \in Nat
    BY <1>2
  <2>2. m * (a - b - 1) \in Nat
    BY <2>1
  <2>3. m * (a - b) = m * (a - b - 1) + m
    OBVIOUS
  <2> QED BY <2>2, <2>3
<1> QED BY <1>1, <1>2

\* Division has one result.
LEMMA Division ==
  ASSUME NEW m \in Nat \ {0}, NEW a \in Int, NEW b \in Int,
         NEW i \in 0..m - 1, NEW j \in 0..m - 1, m * a + i = m * b + j
  PROVE  a = b /\ i = j
<1>1. ~(a > b)
  BY Product
<1>2. ~(b > a)
  BY Product
<1>3. a = b
  BY <1>1, <1>2
<1> QED BY <1>3, Product

LEMMA Remainder ==
  ASSUME NEW m \in Nat \ {0}, NEW n \in Nat
  PROVE  /\ n \div m \in Nat /\ n % m \in 0..m - 1
         /\ n = m * (n \div m) + (n % m)
OBVIOUS

ChunkOf(r) == MAX_ROWS_PER_THREAD * (r \div MAX_ROWS_PER_THREAD)
Firsts == {first \in 0..ROWS : first % MAX_ROWS_PER_THREAD = 0}

\* Every row is in one chunk.
LEMMA OneChunk ==
  ASSUME NEW r \in 0..ROWS
  PROVE  /\ ChunkOf(r) \in Firsts
         /\ \A first \in Firsts :
              first <= r /\ r < first + MAX_ROWS_PER_THREAD <=> first = ChunkOf(r)
<1> DEFINE m == MAX_ROWS_PER_THREAD
           q == r \div m
<1>1. m \in Nat \ {0} /\ r \in Nat /\ ROWS \in Nat
  BY Sizes
<1> HIDE DEF m
<1>2. q \in Nat /\ r % m \in 0..m - 1 /\ r = m * q + (r % m)
  BY <1>1, Remainder
<1> DEFINE f == m * q
<1> HIDE DEF q
<1>3. f \in Nat
  BY <1>1, <1>2
<1> DEFINE g == f \div m
           s == f % m
<1>4. g \in Nat /\ s \in 0..m - 1 /\ f = m * g + s
  BY <1>1, <1>3, Remainder
<1> HIDE DEF g, s
<1>5. s = 0
  <2>1. /\ q > g => m * (q - g) >= m
        /\ g > q => m * (g - q) >= m
        /\ m * (q - g) = m * q - m * g /\ m * (g - q) = m * g - m * q
        /\ m * q \in Int /\ m * g \in Int
    BY <1>1, <1>2, <1>4, Product
  <2>2. m * q = m * g + s
    BY <1>4
  <2>3. ~(q > g) /\ ~(g > q)
    BY <1>1, <1>4, <2>1, <2>2
  <2>4. q = g
    BY <1>2, <1>4, <2>3
  <2> QED BY <1>4, <2>1, <2>2, <2>4
<1> HIDE DEF f
<1>6. f <= r /\ r < f + m /\ f \in 0..ROWS
  BY <1>1, <1>2, <1>3 DEF f
<1>7. f \in Firsts
  BY <1>5, <1>6 DEF Firsts, m, s
<1>8. ASSUME NEW first \in Firsts, first <= r, r < first + m
      PROVE  first = f
  <2>1. first \in Nat /\ first % m = 0
    BY <1>1 DEF Firsts, m
  <2>2. first \div m \in Nat /\ first = m * (first \div m) + (first % m)
    BY <1>1, <2>1, Remainder
  <2>3. PICK a \in Nat : first = m * a + 0
    BY <2>1, <2>2
  <2>4. m * a \in Int /\ r - first \in 0..m - 1
    BY <1>1, <1>8, <2>1, <2>3
  <2>5. m * a + (r - first) = m * q + (r % m)
    BY <1>1, <1>2, <2>1, <2>3, <2>4
  <2>6. a = q
    BY <1>1, <1>2, <2>3, <2>4, <2>5, Division
  <2> QED BY <2>1, <2>3, <2>4, <2>6 DEF f
<1>9. f = ChunkOf(r)
  BY DEF f, q, m, ChunkOf
<1> QED BY <1>6, <1>7, <1>8, <1>9 DEF m

-----------------------------------------------------------------------------
(* The sums with adders.                                                   *)

AdderPrograms == {"threadsafe", "pool"}

\* The helper that adds the cell of a column to the sum of a row.
HelperOf(r, c) == <<c, IF program = "threadsafe" THEN ChunkOf(r) ELSE 0>>

\* What has been added to the sum of a row so far.
Added(r) == [c \in Columns |-> IF row[HelperOf(r, c)] > r THEN definition(r, c) ELSE 0]

AdderTypes ==
  /\ pc \in [Sums!Helpers(program) -> {"queued", "work", "add", "done"}]
  /\ row \in [Columns \X (0..ROWS) -> Int]
  /\ rowSums \in [0..ROWS -> Int \cup {NONE}]

AdderPlaces ==
  \A h \in Sums!Helpers(program) :
    /\ row[h] \in h[2]..Sums!End(h)
    /\ pc[h] = "done" <=> row[h] = Sums!End(h)
    /\ pc[h] = "add" => rowSums[row[h]] # NONE

AdderSums ==
  \A r \in Sums!Rows :
    IF rowSums[r] = NONE
    THEN \A c \in Columns : row[HelperOf(r, c)] <= r
    ELSE rowSums[r] = Sums!RowSum(Added(r))

AdderInv == AdderTypes /\ AdderPlaces /\ AdderSums

\* A helper is to add its column's cells of its own rows.
LEMMA AdderHelpers ==
  ASSUME program \in AdderPrograms
  PROVE  /\ \A h \in Sums!Helpers(program) :
              /\ h \in Columns \X (0..ROWS) /\ h[1] \in Columns /\ h[2] \in 0..ROWS
              /\ Sums!End(h) \in h[2] + 1..ROWS + 1
              /\ \A r \in Sums!Rows :
                   h[2] <= r /\ r < Sums!End(h) <=> HelperOf(r, h[1]) = h
         /\ \A r \in Sums!Rows, c \in Columns : HelperOf(r, c) \in Sums!Helpers(program)
<1>1. CASE program = "threadsafe"
  <2>1. Sums!Helpers(program) = Columns \X Firsts
    BY <1>1 DEF Sums!Helpers, Columns, Firsts
  <2>2. ASSUME NEW r \in Sums!Rows PROVE r \in 0..ROWS /\ r \in Int /\ r < ROWS
    BY Sizes
  <2>3. ASSUME NEW h \in Columns \X Firsts
        PROVE  /\ h \in Columns \X (0..ROWS) /\ h[1] \in Columns /\ h[2] \in 0..ROWS
               /\ Sums!End(h) \in h[2] + 1..ROWS + 1
               /\ \A r \in Sums!Rows :
                    h[2] <= r /\ r < Sums!End(h) <=> HelperOf(r, h[1]) = h
    <3>1. PICK c \in Columns, first \in Firsts : h = <<c, first>>
      OBVIOUS
    <3>2. first \in 0..ROWS /\ first \in Int
      BY Sizes DEF Firsts
    <3> DEFINE e == Sums!End(h)
    <3>3. e \in {first + MAX_ROWS_PER_THREAD, ROWS + 1}
          /\ e <= first + MAX_ROWS_PER_THREAD /\ e <= ROWS + 1
      <4> DEFINE S == {first + MAX_ROWS_PER_THREAD, ROWS + 1}
      <4>1. e = CHOOSE x \in S : \A y \in S : x =< y
        BY <1>1, <3>1 DEF Sums!End, Sums!Min
      <4>2. \E x \in S : \A y \in S : x =< y
        BY <3>2, Sizes
      <4> HIDE DEF S, e
      <4>3. e \in S /\ \A y \in S : e =< y
        BY <4>1, <4>2
      <4> QED BY <4>3 DEF S
    <3> HIDE DEF e
    <3>4. e \in first + 1..ROWS + 1
      BY <3>2, <3>3, Sizes
    <3>5. ASSUME NEW r \in Sums!Rows
          PROVE  first <= r /\ r < e <=> first = ChunkOf(r)
      <4>1. first <= r /\ r < first + MAX_ROWS_PER_THREAD <=> first = ChunkOf(r)
        BY <2>2, OneChunk
      <4> QED BY <2>2, <3>2, <3>3, <4>1, Sizes
    <3>6. \A r \in Sums!Rows : HelperOf(r, c) = <<c, ChunkOf(r)>>
      BY <1>1 DEF HelperOf
    <3> QED BY <3>1, <3>2, <3>4, <3>5, <3>6 DEF e
  <2>4. ASSUME NEW r \in Sums!Rows, NEW c \in Columns
        PROVE  HelperOf(r, c) \in Columns \X Firsts
    BY <1>1, <2>2, OneChunk DEF HelperOf
  <2> QED BY <2>1, <2>3, <2>4
<1>2. CASE program = "pool"
  <2>1. Sums!Helpers(program) = Columns \X {0}
    BY <1>2 DEF Sums!Helpers, Columns
  <2>2. \A h : Sums!End(h) = ROWS
    BY <1>2 DEF Sums!End
  <2>3. \A r, c : HelperOf(r, c) = <<c, 0>>
    BY <1>2 DEF HelperOf
  <2> QED BY <2>1, <2>2, <2>3, Sizes
<1> QED BY <1>1, <1>2 DEF AdderPrograms

\* The start: nothing is added.
LEMMA AdderStart ==
  ASSUME program \in AdderPrograms, Sums!Start, Sums!Fresh
  PROVE  AdderInv
<1>1. AdderTypes
  BY Sizes DEF AdderTypes, AdderPrograms, Sums!Start, Sums!Fresh, Columns
<1>2. ASSUME NEW h \in Sums!Helpers(program)
      PROVE  row[h] = h[2] /\ pc[h] \in {"queued", "work"}
  BY AdderHelpers DEF Sums!Start, Sums!Fresh, Columns
<1>3. AdderPlaces
  <2> SUFFICES ASSUME NEW h \in Sums!Helpers(program)
               PROVE  /\ row[h] \in h[2]..Sums!End(h)
                      /\ pc[h] = "done" <=> row[h] = Sums!End(h)
                      /\ pc[h] = "add" => rowSums[row[h]] # NONE
    BY DEF AdderPlaces
  <2>1. h[2] \in Int /\ Sums!End(h) \in Int /\ h[2] < Sums!End(h)
    BY AdderHelpers, Sizes
  <2> QED BY <1>2, <2>1
<1>4. AdderSums
  <2>1. ASSUME NEW r \in Sums!Rows PROVE rowSums[r] = NONE
    BY Sizes DEF Sums!Fresh, AdderPrograms
  <2> SUFFICES ASSUME NEW r \in Sums!Rows, NEW c \in Columns
               PROVE  row[HelperOf(r, c)] <= r
    BY <2>1 DEF AdderSums
  <2>2. PICK h \in Sums!Helpers(program) : h = HelperOf(r, c) /\ h[1] = c
    BY AdderHelpers DEF HelperOf
  <2>3. HelperOf(r, h[1]) = h
    BY <2>2
  <2>4. h[2] <= r
    BY <2>3, AdderHelpers
  <2> QED BY <1>2, <2>2, <2>4
<1> QED BY <1>1, <1>3, <1>4 DEF AdderInv

\* A task of the pool begins, or a helper finds or makes the adder of its row.
LEMMA AdderFinds ==
  ASSUME program \in AdderPrograms, AdderInv, NEW h \in Sums!Helpers(program),
         Sums!StartTask(h) \/ Sums!computeIfAbsent(h)
  PROVE  AdderInv'
<1>1. program' = program /\ row' = row /\ pc[h] \in {"queued", "work"}
  BY DEF Sums!StartTask, Sums!computeIfAbsent, Sums!At
<1>2. pc' \in [Sums!Helpers(program) -> {"queued", "work", "add", "done"}]
      /\ pc'[h] \in {"work", "add"} /\ \A u \in Sums!Helpers(program) \ {h} : pc'[u] = pc[u]
  BY DEF AdderInv, AdderTypes, Sums!StartTask, Sums!computeIfAbsent, Sums!Goto
<1>3. /\ h \in Columns \X (0..ROWS) /\ row[h] \in h[2]..Sums!End(h)
      /\ row[h] # Sums!End(h)
  BY <1>1, AdderHelpers DEF AdderInv, AdderPlaces
<1>4. row[h] \in 0..ROWS
  <2>1. h[2] \in 0..ROWS /\ Sums!End(h) \in h[2] + 1..ROWS + 1
    BY AdderHelpers
  <2> QED BY <1>3, <2>1, Sizes
<1>5. /\ rowSums' \in [0..ROWS -> Int \cup {NONE}]
      /\ \A r \in 0..ROWS : rowSums[r] # NONE => rowSums'[r] = rowSums[r]
      /\ \A r \in 0..ROWS : rowSums[r] = NONE =>
           rowSums'[r] = NONE \/ rowSums'[r] = 0
      /\ pc'[h] = "add" => rowSums'[row[h]] # NONE
  <2>1. CASE Sums!StartTask(h)
    <3>1. pc'[h] = "work" /\ rowSums' = rowSums
      BY <2>1 DEF Sums!StartTask, Sums!Goto, AdderInv, AdderTypes
    <3> QED BY <3>1 DEF AdderInv, AdderTypes
  <2>2. CASE Sums!computeIfAbsent(h)
    <3>1. rowSums' = [rowSums EXCEPT ![row[h]] = IF @ = NONE THEN 0 ELSE @]
      BY <2>2 DEF Sums!computeIfAbsent
    <3> QED BY <1>4, <3>1, DefinitionAssumption DEF AdderInv, AdderTypes
  <2> QED BY <2>1, <2>2
<1>6. AdderTypes'
  BY <1>1, <1>2, <1>5 DEF AdderInv, AdderTypes
<1>7. \A u : Sums!End(u)' = Sums!End(u)
  BY <1>1 DEF Sums!End
<1>8. AdderPlaces'
  <2> SUFFICES ASSUME NEW u \in Sums!Helpers(program)
               PROVE  /\ row[u] \in u[2]..Sums!End(u)
                      /\ pc'[u] = "done" <=> row[u] = Sums!End(u)
                      /\ pc'[u] = "add" => rowSums'[row[u]] # NONE
    BY <1>1, <1>7 DEF AdderPlaces
  <2>1. CASE u = h
    BY <1>2, <1>3, <1>5, <2>1
  <2>2. CASE u # h
    <3>1. /\ row[u] \in u[2]..Sums!End(u)
          /\ pc[u] = "done" <=> row[u] = Sums!End(u)
          /\ pc[u] = "add" => rowSums[row[u]] # NONE
      BY DEF AdderInv, AdderPlaces
    <3>2. pc[u] = "add" => row[u] \in 0..ROWS
      <4>1. u[2] \in 0..ROWS /\ Sums!End(u) \in u[2] + 1..ROWS + 1
        BY AdderHelpers
      <4> QED BY <3>1, <4>1, Sizes
    <3> QED BY <1>2, <1>5, <2>2, <3>1, <3>2
  <2> QED BY <2>1, <2>2
<1>9. AdderSums'
  <2> SUFFICES ASSUME NEW r \in Sums!Rows
               PROVE  IF rowSums'[r] = NONE
                      THEN \A c \in Columns : row[HelperOf(r, c)] <= r
                      ELSE rowSums'[r] = Sums!RowSum(Added(r))
    BY <1>1 DEF AdderSums, Added, HelperOf
  <2>1. r \in 0..ROWS /\ 0 # NONE
    BY Sizes, DefinitionAssumption
  <2>2. IF rowSums[r] = NONE
        THEN \A c \in Columns : row[HelperOf(r, c)] <= r
        ELSE rowSums[r] = Sums!RowSum(Added(r))
    BY DEF AdderInv, AdderSums
  <2>3. CASE rowSums[r] = NONE
    <3>1. \A c \in Columns : ~(row[HelperOf(r, c)] > r)
      <4>1. ASSUME NEW c \in Columns PROVE row[HelperOf(r, c)] \in Int /\ r \in Int
        <5>1. HelperOf(r, c) \in Columns \X (0..ROWS)
          BY AdderHelpers
        <5> QED BY <2>1, <5>1 DEF AdderInv, AdderTypes
      <4> QED BY <2>2, <2>3, <4>1
    <3>2. Added(r) = [c \in Columns |-> 0]
      BY <3>1 DEF Added
    <3>3. Sums!RowSum(Added(r)) = 0
      BY <3>2, RowSumZero
    <3> QED BY <1>5, <2>1, <2>2, <2>3, <3>3
  <2>4. CASE rowSums[r] # NONE
    BY <1>5, <2>1, <2>2, <2>4
  <2> QED BY <2>3, <2>4
<1> QED BY <1>6, <1>8, <1>9 DEF AdderInv

\* A helper adds its cell to the sum of its row.
LEMMA AdderAdds ==
  ASSUME program \in AdderPrograms, AdderInv, NEW h \in Sums!Helpers(program),
         Sums!add(h)
  PROVE  AdderInv'
<1>1. /\ program' = program /\ pc[h] = "add"
      /\ rowSums' = [rowSums EXCEPT ![row[h]] = @ + definition(row[h], h[1])]
      /\ row' = [row EXCEPT ![h] = @ + 1]
      /\ pc' = [pc EXCEPT ![h] = IF row[h] + 1 = Sums!End(h) THEN "done" ELSE "work"]
  BY DEF Sums!add, Sums!Goto, Sums!AfterRound
<1>2. /\ h \in Columns \X (0..ROWS) /\ h[1] \in Columns /\ h[2] \in 0..ROWS
      /\ Sums!End(h) \in h[2] + 1..ROWS + 1
  BY AdderHelpers
<1>3. row[h] \in h[2]..Sums!End(h) /\ row[h] # Sums!End(h) /\ rowSums[row[h]] # NONE
  BY <1>1 DEF AdderInv, AdderPlaces
<1> DEFINE r0 == row[h]
           x == definition(row[h], h[1])
<1>4. r0 \in 0..ROWS /\ r0 + 1 \in h[2]..Sums!End(h) /\ h[2] <= r0 /\ r0 < Sums!End(h)
  BY <1>2, <1>3, Sizes
<1>5. x \in Int /\ rowSums[r0] \in Int
  BY <1>2, <1>3, <1>4, DefinitionAssumption, Sizes DEF AdderInv, AdderTypes
<1>6. /\ row' \in [Columns \X (0..ROWS) -> Int] /\ row'[h] = r0 + 1
      /\ \A u \in Columns \X (0..ROWS) : u # h => row'[u] = row[u]
  BY <1>1, <1>2, <1>4 DEF AdderInv, AdderTypes
<1>7. /\ rowSums' \in [0..ROWS -> Int \cup {NONE}]
      /\ rowSums'[r0] = rowSums[r0] + x /\ rowSums'[r0] # NONE
      /\ \A r \in 0..ROWS : r # r0 => rowSums'[r] = rowSums[r]
  BY <1>1, <1>4, <1>5, DefinitionAssumption DEF AdderInv, AdderTypes
<1>8. AdderTypes'
  BY <1>1, <1>6, <1>7 DEF AdderInv, AdderTypes
<1>9. \A u : Sums!End(u)' = Sums!End(u)
  BY <1>1 DEF Sums!End
<1>10. AdderPlaces'
  <2> SUFFICES ASSUME NEW u \in Sums!Helpers(program)
               PROVE  /\ row'[u] \in u[2]..Sums!End(u)
                      /\ pc'[u] = "done" <=> row'[u] = Sums!End(u)
                      /\ pc'[u] = "add" => rowSums'[row'[u]] # NONE
    BY <1>1, <1>9 DEF AdderPlaces
  <2>1. CASE u = h
    <3>1. pc'[h] = IF r0 + 1 = Sums!End(h) THEN "done" ELSE "work"
      BY <1>1 DEF AdderInv, AdderTypes
    <3> QED BY <1>4, <1>6, <2>1, <3>1
  <2>2. CASE u # h
    <3>1. u \in Columns \X (0..ROWS) /\ u[2] \in 0..ROWS /\ Sums!End(u) \in u[2] + 1..ROWS + 1
      BY AdderHelpers
    <3>2. /\ row[u] \in u[2]..Sums!End(u)
          /\ pc[u] = "done" <=> row[u] = Sums!End(u)
          /\ pc[u] = "add" => rowSums[row[u]] # NONE
      BY DEF AdderInv, AdderPlaces
    <3>3. pc'[u] = pc[u] /\ row'[u] = row[u]
      BY <1>1, <1>6, <2>2, <3>1
    <3>4. pc[u] = "add" => row[u] \in 0..ROWS
      BY <3>1, <3>2, Sizes
    <3> QED BY <1>7, <3>2, <3>3, <3>4
  <2> QED BY <2>1, <2>2
<1>11. AdderSums'
  <2> SUFFICES ASSUME NEW r \in Sums!Rows
               PROVE  IF rowSums'[r] = NONE
                      THEN \A c \in Columns : row'[HelperOf(r, c)] <= r
                      ELSE rowSums'[r] = Sums!RowSum(Added(r)')
    BY <1>1 DEF AdderSums, Added, HelperOf
  <2>1. r \in 0..ROWS /\ r \in Int
    BY Sizes
  <2>2. IF rowSums[r] = NONE
        THEN \A c \in Columns : row[HelperOf(r, c)] <= r
        ELSE rowSums[r] = Sums!RowSum(Added(r))
    BY DEF AdderInv, AdderSums
  <2>3. Added(r)' = [c \in Columns |-> IF row'[HelperOf(r, c)] > r THEN definition(r, c) ELSE 0]
    BY <1>1 DEF Added, HelperOf
  <2>4. ASSUME NEW c \in Columns
        PROVE  HelperOf(r, c) \in Columns \X (0..ROWS) /\ HelperOf(r, c)[1] = c
    BY AdderHelpers DEF HelperOf
  <2>5. CASE r = r0
    <3>1. HelperOf(r, h[1]) = h
      BY <1>4, <2>5, AdderHelpers
    <3>2. Added(r) \in [Columns -> Int]
      <4>1. \A c \in Columns : definition(r, c) \in Int
        BY <2>1, DefinitionAssumption, Sizes
      <4> QED BY <4>1 DEF Added
    <3>3. ASSUME NEW c \in Columns
          PROVE  Added(r)'[c] = [Added(r) EXCEPT ![h[1]] = @ + x][c]
      <4>1. CASE c = h[1]
        <5>1. row[h] = r /\ row'[h] = r + 1
          BY <1>6, <2>5
        <5>2. Added(r)[c] = 0 /\ Added(r)'[c] = x
          BY <2>1, <2>3, <2>5, <3>1, <4>1, <5>1 DEF Added
        <5> QED BY <1>5, <3>2, <4>1, <5>2
      <4>2. CASE c # h[1]
        <5>1. row'[HelperOf(r, c)] = row[HelperOf(r, c)]
          BY <1>6, <2>4, <4>2
        <5> QED BY <2>3, <3>2, <4>2, <5>1 DEF Added
      <4> QED BY <4>1, <4>2
    <3>4. Added(r)' = [Added(r) EXCEPT ![h[1]] = @ + x]
      <4>1. DOMAIN Added(r)' = Columns /\ DOMAIN Added(r) = Columns
        BY <2>3 DEF Added
      <4>2. Added(r)' = [c \in Columns |-> Added(r)'[c]]
        BY <2>3
      <4>3. [Added(r) EXCEPT ![h[1]] = @ + x]
              = [c \in Columns |-> [Added(r) EXCEPT ![h[1]] = @ + x][c]]
        BY <3>2
      <4> QED BY <3>3, <4>2, <4>3
    <3>5. Sums!RowSum(Added(r)') = Sums!RowSum(Added(r)) + x
      <4> DEFINE before == Added(r)
                 after == Added(r)'
                 y == x
                 d == h[1]
      <4>1. /\ before \in [Columns -> Int] /\ d \in Columns /\ y \in Int
            /\ after = [before EXCEPT ![d] = @ + y]
        BY <1>2, <1>5, <3>2, <3>4
      <4> HIDE DEF before, after, y, d
      <4>2. Sums!RowSum(after) = Sums!RowSum(before) + y
        BY <4>1, RowSumAdd
      <4> QED BY <4>2 DEF before, after, y
    <3> QED BY <1>3, <1>7, <2>2, <2>5, <3>5
  <2>6. CASE r # r0
    <3>1. ASSUME NEW c \in Columns
          PROVE  row'[HelperOf(r, c)] > r <=> row[HelperOf(r, c)] > r
      <4>1. CASE HelperOf(r, c) = h
        <5>1. row'[h] = r0 + 1 /\ row[h] = r0 /\ r0 \in Int
          BY <1>4, <1>6
        <5> QED BY <2>1, <2>6, <4>1, <5>1
      <4>2. CASE HelperOf(r, c) # h
        BY <1>6, <2>4, <4>2
      <4> QED BY <4>1, <4>2
    <3>2. Added(r)' = Added(r)
      BY <2>3, <3>1 DEF Added
    <3>3. ASSUME NEW c \in Columns
          PROVE  row[HelperOf(r, c)] \in Int /\ row'[HelperOf(r, c)] \in Int
      BY <1>6, <2>4 DEF AdderInv, AdderTypes
    <3>4. rowSums'[r] = rowSums[r]
      BY <1>7, <2>1, <2>6
    <3>5. CASE rowSums[r] = NONE
      BY <2>1, <2>2, <3>1, <3>3, <3>4, <3>5
    <3> QED BY <2>2, <3>2, <3>4, <3>5
  <2> QED BY <2>5, <2>6
<1> QED BY <1>8, <1>10, <1>11 DEF AdderInv

\* When all have done their rows all cells have been added.
LEMMA AdderResult ==
  ASSUME program \in AdderPrograms, AdderInv,
         \A h \in Sums!Helpers(program) : pc[h] = "done",
         NEW r \in Sums!Rows
  PROVE  rowSums[r] = Sums!RowSum([c \in Columns |-> definition(r, c)])
<1>1. ASSUME NEW c \in Columns PROVE row[HelperOf(r, c)] > r /\ ~(row[HelperOf(r, c)] <= r)
  <2>1. PICK h \in Sums!Helpers(program) : h = HelperOf(r, c) /\ h[1] = c
    BY AdderHelpers DEF HelperOf
  <2>2. HelperOf(r, h[1]) = h
    BY <2>1
  <2>3. r < Sums!End(h) /\ Sums!End(h) \in Int
    BY <2>2, AdderHelpers, Sizes
  <2>4. row[h] = Sums!End(h)
    BY DEF AdderInv, AdderPlaces
  <2> QED BY <2>1, <2>3, <2>4, Sizes
<1>2. 0 \in Columns
  BY Sizes
<1>3. Added(r) = [c \in Columns |-> definition(r, c)]
  BY <1>1 DEF Added
<1> QED BY <1>1, <1>2, <1>3 DEF AdderInv, AdderSums

-----------------------------------------------------------------------------
(* The sums and the rearrangement with a barrier.                          *)

BarrierPrograms == {"barrier", "rearrange"}
BarrierHelpers  == Columns \X {0}
Rounds == IF program = "barrier" THEN ROWS ELSE 3

\* The place of a column's helper; the other end of the array.
PlaceOf(c) == pc[<<c, 0>>]
Across(c) == COLUMNS - 1 - c
Arrived(c) == PlaceOf(c) \in {"await", "asleep"}

BarrierPlaces == {"work", "reset", "await", "asleep", "done"}

BarrierTypes ==
  /\ pc \in [BarrierHelpers -> BarrierPlaces]
  /\ row \in [Columns \X (0..ROWS) -> Int]
  /\ rowSums \in [0..ROWS -> Int]
  /\ cells \in [Columns -> Int] /\ value \in [Columns -> Int]
  /\ commandRow \in 0..Rounds

\* All helpers are in the round that the barrier's command counts.
RoundInv ==
  /\ atBarrier = {h \in BarrierHelpers : pc[h] = "asleep"}
  /\ \A h \in BarrierHelpers : /\ row[h] = commandRow
                               /\ pc[h] = "done" <=> commandRow = Rounds

\* Who has arrived has stored its cell of the present row; the rows before it
\* have been summed up.
RowInv ==
  /\ \A r \in 0..ROWS :
       rowSums[r] = IF r < commandRow
                    THEN Sums!RowSum([c \in Columns |-> definition(r, c)]) ELSE 0
  /\ \A c \in Columns : /\ PlaceOf(c) # "reset"
                        /\ Arrived(c) => cells[c] = definition(commandRow, c)

\* How far each helper is with its own cell, or with the one across.
PhaseInv ==
  \A c \in Columns :
    /\ commandRow = 0 => PlaceOf(c) # "reset" /\ (Arrived(c) => cells[c] = c)
    /\ commandRow = 1 => IF PlaceOf(c) = "work" THEN cells[Across(c)] = Across(c)
                         ELSE value[c] = Across(c)
    /\ commandRow = 2 => /\ PlaceOf(c) # "reset" /\ value[c] = Across(c)
                         /\ Arrived(c) => cells[c] = Across(c)
    /\ commandRow = 3 => cells[c] = Across(c)

CellsInv == IF program = "barrier" THEN RowInv ELSE PhaseInv

BarrierInv == BarrierTypes /\ RoundInv /\ CellsInv

LEMMA AcrossFact ==
  \A c \in Columns : Across(c) \in Columns /\ Across(Across(c)) = c
BY Sizes DEF Across

LEMMA BarrierHelper ==
  ASSUME NEW h \in BarrierHelpers
  PROVE  /\ h[1] \in Columns /\ h = <<h[1], 0>> /\ h \in Columns \X (0..ROWS)
         /\ PlaceOf(h[1]) = pc[h]
         /\ Sums!OtherEnd(h) = Across(h[1])
BY Sizes DEF BarrierHelpers, PlaceOf, Across, Sums!OtherEnd

LEMMA RoundsFact ==
  ASSUME program \in BarrierPrograms
  PROVE  /\ Rounds \in Nat \ {0} /\ \A h : Sums!End(h) = Rounds
         /\ program # "barrier" => Rounds = 3
         /\ Sums!Helpers(program) = BarrierHelpers
BY Sizes DEF Rounds, BarrierPrograms, Sums!End, Sums!Helpers, BarrierHelpers, Columns

LEMMA CellOfRow ==
  ASSUME NEW r \in 0..ROWS, NEW c \in Columns PROVE definition(r, c) \in Int
BY Sizes, DefinitionAssumption

LEMMA BarrierStart ==
  ASSUME program \in BarrierPrograms, Sums!Start, Sums!Fresh
  PROVE  BarrierInv
<1>1. /\ pc = [h \in BarrierHelpers |-> "work"]
      /\ row = [h \in Columns \X (0..ROWS) |-> h[2]]
      /\ rowSums = [r \in 0..ROWS |-> 0]
      /\ cells = [c \in Columns |-> 0] /\ value = [c \in Columns |-> 0]
      /\ atBarrier = {} /\ commandRow = 0
  BY RoundsFact DEF Sums!Start, Sums!Fresh, BarrierPrograms, Columns
<1>2. BarrierTypes
  <2>1. \A h \in Columns \X (0..ROWS) : h[2] \in Int
    BY Sizes
  <2> QED BY <1>1, <2>1, RoundsFact DEF BarrierTypes, BarrierPlaces
<1>3. RoundInv
  <2>1. ASSUME NEW h \in BarrierHelpers PROVE row[h] = 0 /\ pc[h] = "work"
    BY <1>1, Sizes DEF BarrierHelpers
  <2> QED BY <1>1, <2>1, RoundsFact DEF RoundInv
<1>4. ASSUME NEW c \in Columns PROVE PlaceOf(c) = "work" /\ ~Arrived(c)
  BY <1>1 DEF PlaceOf, Arrived, BarrierHelpers
<1>5. CellsInv
  <2>1. RowInv
    BY <1>1, <1>4, Sizes DEF RowInv
  <2>2. PhaseInv
    BY <1>1, <1>4, Sizes DEF PhaseInv
  <2> QED BY <2>1, <2>2 DEF CellsInv
<1> QED BY <1>2, <1>3, <1>5 DEF BarrierInv

\* One helper goes on in its round and its column.
LEMMA BarrierGoes ==
  ASSUME program \in BarrierPrograms, BarrierInv, program' = program,
         NEW h \in BarrierHelpers, NEW to \in {"reset", "await"},
         pc[h] \in {"work", "reset"}, pc' = [pc EXCEPT ![h] = to],
         UNCHANGED <<row, rowSums, atBarrier, commandRow>>
  PROVE  /\ commandRow # Rounds
         /\ RoundInv' /\ pc' \in [BarrierHelpers -> BarrierPlaces]
         /\ PlaceOf(h[1])' = to
         /\ \A c \in Columns : c # h[1] => /\ PlaceOf(c)' = PlaceOf(c)
                                           /\ Arrived(c)' = Arrived(c)
         /\ Arrived(h[1])' <=> to = "await"
<1>1. pc \in [BarrierHelpers -> BarrierPlaces]
  BY DEF BarrierInv, BarrierTypes
<1>2. commandRow # Rounds
  BY DEF BarrierInv, RoundInv
<1>3. pc'[h] = to /\ \A u \in BarrierHelpers : u # h => pc'[u] = pc[u]
  BY <1>1
<1>4. RoundInv'
  <2>1. \A u \in BarrierHelpers : pc'[u] = "asleep" <=> pc[u] = "asleep"
    BY <1>3
  <2>2. \A u \in BarrierHelpers : pc'[u] = "done" <=> pc[u] = "done"
    BY <1>3
  <2> QED BY <2>1, <2>2 DEF BarrierInv, RoundInv, Rounds
<1>5. PlaceOf(h[1])' = to /\ \A c \in Columns : c # h[1] => PlaceOf(c)' = PlaceOf(c)
  BY <1>3, BarrierHelper DEF PlaceOf, BarrierHelpers
<1> QED BY <1>1, <1>2, <1>4, <1>5 DEF Arrived, BarrierPlaces

LEMMA StoreCellKeeps ==
  ASSUME program \in BarrierPrograms, BarrierInv, NEW h \in BarrierHelpers,
         Sums!StoreCell(h)
  PROVE  BarrierInv'
<1>1. /\ program = "barrier" /\ program' = program /\ pc[h] = "work"
      /\ pc' = [pc EXCEPT ![h] = "await"]
      /\ cells' = [cells EXCEPT ![h[1]] = definition(row[h], h[1])]
      /\ UNCHANGED <<row, rowSums, value, atBarrier, commandRow>>
  BY DEF Sums!StoreCell, Sums!At, Sums!Goto, Sums!barrierVars
<1>2. /\ commandRow # Rounds
      /\ RoundInv' /\ pc' \in [BarrierHelpers -> BarrierPlaces]
      /\ PlaceOf(h[1])' = "await"
      /\ \A c \in Columns : c # h[1] => /\ PlaceOf(c)' = PlaceOf(c)
                                        /\ Arrived(c)' = Arrived(c)
  BY <1>1, BarrierGoes
<1>3. h[1] \in Columns /\ row[h] = commandRow /\ commandRow \in 0..ROWS
  BY <1>1, BarrierHelper DEF BarrierInv, RoundInv, BarrierTypes, Rounds
<1>4. /\ cells' \in [Columns -> Int] /\ cells'[h[1]] = definition(commandRow, h[1])
      /\ \A c \in Columns : c # h[1] => cells'[c] = cells[c]
  BY <1>1, <1>3, CellOfRow DEF BarrierInv, BarrierTypes
<1>5. BarrierTypes'
  BY <1>1, <1>2, <1>4 DEF BarrierInv, BarrierTypes, Rounds
<1>6. RowInv'
  <2>1. RowInv
    BY <1>1 DEF BarrierInv, CellsInv
  <2>2. ASSUME NEW c \in Columns
        PROVE  PlaceOf(c)' # "reset" /\ (Arrived(c)' => cells'[c] = definition(commandRow, c))
    BY <1>2, <1>4, <2>1 DEF RowInv
  <2> QED BY <1>1, <2>1, <2>2 DEF RowInv
<1> QED BY <1>1, <1>2, <1>5, <1>6 DEF BarrierInv, CellsInv

LEMMA SetCellKeeps ==
  ASSUME program \in BarrierPrograms, BarrierInv, NEW h \in BarrierHelpers,
         Sums!SetCell(h)
  PROVE  BarrierInv'
<1>1. /\ program # "barrier" /\ program' = program /\ pc[h] = "work"
      /\ pc' = [pc EXCEPT ![h] = "await"] /\ row[h] \in {0, 2}
      /\ cells' = [cells EXCEPT ![h[1]] = IF row[h] = 0 THEN h[1] ELSE value[h[1]]]
      /\ UNCHANGED <<row, rowSums, value, atBarrier, commandRow>>
  BY DEF Sums!SetCell, Sums!At, Sums!Goto, Sums!barrierVars
<1>2. /\ commandRow # Rounds
      /\ RoundInv' /\ pc' \in [BarrierHelpers -> BarrierPlaces]
      /\ PlaceOf(h[1])' = "await"
      /\ \A c \in Columns : c # h[1] => /\ PlaceOf(c)' = PlaceOf(c)
                                        /\ Arrived(c)' = Arrived(c)
  BY <1>1, BarrierGoes
<1>3. h[1] \in Columns /\ h[1] \in Int /\ row[h] = commandRow
  BY BarrierHelper, Sizes DEF BarrierInv, RoundInv
<1>4. PhaseInv
  BY <1>1 DEF BarrierInv, CellsInv
<1>5. /\ cells' \in [Columns -> Int]
      /\ cells'[h[1]] = IF commandRow = 0 THEN h[1] ELSE value[h[1]]
      /\ \A c \in Columns : c # h[1] => cells'[c] = cells[c]
  BY <1>1, <1>3 DEF BarrierInv, BarrierTypes
<1>6. BarrierTypes'
  BY <1>1, <1>2, <1>5 DEF BarrierInv, BarrierTypes, Rounds
<1>7. PhaseInv'
  <2>1. ASSUME NEW c \in Columns
        PROVE  /\ commandRow = 0 => PlaceOf(c)' # "reset" /\ (Arrived(c)' => cells'[c] = c)
               /\ commandRow = 2 => /\ PlaceOf(c)' # "reset" /\ value[c] = Across(c)
                                    /\ Arrived(c)' => cells'[c] = Across(c)
    BY <1>2, <1>4, <1>5 DEF PhaseInv
  <2>2. commandRow \in {0, 2}
    BY <1>1, <1>3
  <2> QED BY <1>1, <2>1, <2>2 DEF PhaseInv
<1> QED BY <1>1, <1>2, <1>6, <1>7 DEF BarrierInv, CellsInv

LEMMA ReadKeeps ==
  ASSUME program \in BarrierPrograms, BarrierInv, NEW h \in BarrierHelpers,
         Sums!ReadOtherEnd(h)
  PROVE  BarrierInv'
<1>1. /\ program # "barrier" /\ program' = program /\ pc[h] = "work"
      /\ pc' = [pc EXCEPT ![h] = "reset"] /\ row[h] = 1
      /\ value' = [value EXCEPT ![h[1]] = cells[Across(h[1])]]
      /\ UNCHANGED <<row, rowSums, cells, atBarrier, commandRow>>
  BY BarrierHelper DEF Sums!ReadOtherEnd, Sums!At, Sums!Goto, Sums!barrierVars
<1>2. /\ commandRow # Rounds
      /\ RoundInv' /\ pc' \in [BarrierHelpers -> BarrierPlaces]
      /\ PlaceOf(h[1])' = "reset"
      /\ \A c \in Columns : c # h[1] => /\ PlaceOf(c)' = PlaceOf(c)
                                        /\ Arrived(c)' = Arrived(c)
  BY <1>1, BarrierGoes
<1>3. /\ h[1] \in Columns /\ commandRow = 1 /\ Across(h[1]) \in Columns
      /\ PlaceOf(h[1]) = "work"
  BY <1>1, BarrierHelper, AcrossFact DEF BarrierInv, RoundInv
<1>4. PhaseInv
  BY <1>1 DEF BarrierInv, CellsInv
<1>5. /\ value' \in [Columns -> Int] /\ value'[h[1]] = cells[Across(h[1])]
      /\ \A c \in Columns : c # h[1] => value'[c] = value[c]
  BY <1>1, <1>3 DEF BarrierInv, BarrierTypes
<1>6. BarrierTypes'
  BY <1>1, <1>2, <1>5 DEF BarrierInv, BarrierTypes, Rounds
<1>7. ASSUME NEW c \in Columns
      PROVE  IF PlaceOf(c)' = "work" THEN cells[Across(c)] = Across(c)
             ELSE value'[c] = Across(c)
  BY <1>2, <1>3, <1>4, <1>5 DEF PhaseInv
<1>8. PhaseInv'
  BY <1>1, <1>3, <1>7 DEF PhaseInv
<1> QED BY <1>1, <1>2, <1>6, <1>8 DEF BarrierInv, CellsInv

\* Nobody else reads the cell that a helper resets.
LEMMA ResetKeeps ==
  ASSUME program \in BarrierPrograms, BarrierInv, NEW h \in BarrierHelpers,
         Sums!ResetOtherEnd(h)
  PROVE  BarrierInv'
<1>1. /\ program # "barrier" /\ program' = program /\ pc[h] = "reset"
      /\ pc' = [pc EXCEPT ![h] = "await"]
      /\ cells' = [cells EXCEPT ![Across(h[1])] = -1]
      /\ UNCHANGED <<row, rowSums, value, atBarrier, commandRow>>
  BY BarrierHelper DEF Sums!ResetOtherEnd, Sums!At, Sums!Goto, Sums!barrierVars
<1>2. /\ commandRow # Rounds
      /\ RoundInv' /\ pc' \in [BarrierHelpers -> BarrierPlaces]
      /\ PlaceOf(h[1])' = "await"
      /\ \A c \in Columns : c # h[1] => /\ PlaceOf(c)' = PlaceOf(c)
                                        /\ Arrived(c)' = Arrived(c)
  BY <1>1, BarrierGoes
<1>3. h[1] \in Columns /\ Across(h[1]) \in Columns /\ PlaceOf(h[1]) = "reset"
  BY <1>1, BarrierHelper, AcrossFact
<1>4. PhaseInv
  BY <1>1 DEF BarrierInv, CellsInv
<1>5. commandRow = 1
  <2>1. commandRow \in 0..3 /\ commandRow # 3
    BY <1>1, <1>2, RoundsFact DEF BarrierInv, BarrierTypes
  <2>2. commandRow # 0 /\ commandRow # 2
    BY <1>3, <1>4 DEF PhaseInv
  <2> QED BY <2>1, <2>2
<1>6. /\ cells' \in [Columns -> Int]
      /\ \A c \in Columns : c # Across(h[1]) => cells'[c] = cells[c]
  BY <1>1, <1>3 DEF BarrierInv, BarrierTypes
<1>7. BarrierTypes'
  BY <1>1, <1>2, <1>6 DEF BarrierInv, BarrierTypes, Rounds
<1>8. ASSUME NEW c \in Columns
      PROVE  IF PlaceOf(c)' = "work" THEN cells'[Across(c)] = Across(c)
             ELSE value[c] = Across(c)
  <2>1. IF PlaceOf(c) = "work" THEN cells[Across(c)] = Across(c)
        ELSE value[c] = Across(c)
    BY <1>4, <1>5 DEF PhaseInv
  <2>2. CASE c = h[1]
    BY <1>2, <1>3, <2>1, <2>2
  <2>3. CASE c # h[1]
    <3>1. Across(c) # Across(h[1]) /\ Across(c) \in Columns
      BY <1>3, <2>3, AcrossFact
    <3> QED BY <1>2, <1>6, <2>1, <2>3, <3>1
  <2> QED BY <2>2, <2>3
<1>9. PhaseInv'
  BY <1>1, <1>5, <1>8 DEF PhaseInv
<1> QED BY <1>1, <1>2, <1>7, <1>9 DEF BarrierInv, CellsInv

\* Asleep at the barrier a helper has arrived as before.
LEMMA SleepKeeps ==
  ASSUME program \in BarrierPrograms, BarrierInv, NEW h \in BarrierHelpers,
         Sums!Sleep(h)
  PROVE  BarrierInv'
<1>1. /\ program' = program /\ pc[h] = "await" /\ pc' = [pc EXCEPT ![h] = "asleep"]
      /\ atBarrier' = atBarrier \cup {h}
      /\ UNCHANGED <<row, rowSums, cells, value, commandRow>>
  BY DEF Sums!Sleep, Sums!Passes, Sums!At, Sums!Goto
<1>2. pc \in [BarrierHelpers -> BarrierPlaces]
  BY DEF BarrierInv, BarrierTypes
<1>3. pc'[h] = "asleep" /\ \A u \in BarrierHelpers : u # h => pc'[u] = pc[u]
  BY <1>1, <1>2
<1>4. BarrierTypes'
  BY <1>1, <1>2 DEF BarrierInv, BarrierTypes, Rounds, BarrierPlaces
<1>5. RoundInv'
  <2>1. atBarrier' = {u \in BarrierHelpers : pc'[u] = "asleep"}
    BY <1>1, <1>3 DEF BarrierInv, RoundInv
  <2>2. \A u \in BarrierHelpers : pc'[u] = "done" <=> pc[u] = "done"
    BY <1>1, <1>3
  <2> QED BY <1>1, <2>1, <2>2 DEF BarrierInv, RoundInv, Rounds
<1>6. ASSUME NEW c \in Columns
      PROVE  /\ PlaceOf(c)' = "reset" <=> PlaceOf(c) = "reset"
             /\ PlaceOf(c)' = "work" <=> PlaceOf(c) = "work"
             /\ Arrived(c)' <=> Arrived(c)
  BY <1>1, <1>3 DEF PlaceOf, Arrived, BarrierHelpers
<1>7. CellsInv'
  BY <1>1, <1>6 DEF BarrierInv, CellsInv, RowInv, PhaseInv
<1> QED BY <1>4, <1>5, <1>7 DEF BarrierInv

\* Barriers counts as the theorems about finite sets do.
LEMMA SameCount == \A S : Sums!Cardinality(S) = Cardinality(S)
BY DEF Cardinality, Sums!Cardinality

LEMMA HelpersCount == IsFiniteSet(BarrierHelpers) /\ Cardinality(BarrierHelpers) = COLUMNS
<1> DEFINE f == [c \in Columns |-> <<c, 0>>]
<1>1. f \in Bijection(Columns, BarrierHelpers)
  BY DEF Bijection, Injection, Surjection, IsInjective, BarrierHelpers
<1>2. ExistsBijection(Columns, BarrierHelpers)
  BY <1>1 DEF ExistsBijection
<1>3. IsFiniteSet(Columns) /\ Cardinality(Columns) = COLUMNS
  BY Sizes, FS_Interval
<1> QED BY <1>2, <1>3, FS_Bijection

\* The last to arrive finds all others asleep.
LEMMA AllArrived ==
  ASSUME BarrierInv, NEW h \in BarrierHelpers, pc[h] = "await", Sums!Last(h)
  PROVE  /\ atBarrier \cup {h} = BarrierHelpers
         /\ \A c \in Columns : Arrived(c)
<1>1. atBarrier \cup {h} \in SUBSET BarrierHelpers
  BY DEF BarrierInv, RoundInv
<1>2. atBarrier \cup {h} = BarrierHelpers
  <2> DEFINE here == atBarrier \cup {h}
  <2>1. here \in SUBSET BarrierHelpers /\ Cardinality(here) = COLUMNS
    BY <1>1, SameCount DEF Sums!Last
  <2> HIDE DEF here
  <2>2. here = BarrierHelpers
    BY <2>1, HelpersCount, FS_Subset
  <2> QED BY <2>2 DEF here
<1>3. ASSUME NEW c \in Columns PROVE Arrived(c)
  <2>1. <<c, 0>> \in BarrierHelpers
    BY DEF BarrierHelpers
  <2> QED BY <1>2, <2>1 DEF BarrierInv, RoundInv, Arrived, PlaceOf
<1> QED BY <1>2, <1>3

\* The round is over for all at once.
LEMMA TripKeeps ==
  ASSUME program \in BarrierPrograms, BarrierInv, NEW h \in BarrierHelpers,
         Sums!Trip(h)
  PROVE  BarrierInv'
<1>1. /\ program' = program /\ pc[h] = "await" /\ Sums!Last(h)
      /\ rowSums' = IF program = "barrier"
                    THEN [rowSums EXCEPT ![commandRow] = @ + Sums!RowSum(cells)]
                    ELSE rowSums
      /\ commandRow' = commandRow + 1 /\ atBarrier' = {}
      /\ cells' = cells /\ value' = value
  BY DEF Sums!Trip, Sums!Passes, Sums!At
<1>2. /\ atBarrier \cup {h} = BarrierHelpers
      /\ \A c \in Columns : Arrived(c)
  BY <1>1, AllArrived
<1>3. DOMAIN pc = BarrierHelpers /\ DOMAIN row = Columns \X (0..ROWS)
  BY DEF BarrierInv, BarrierTypes
<1>4. /\ pc' = [u \in BarrierHelpers |-> Sums!AfterRound(u)]
      /\ row' = [u \in Columns \X (0..ROWS) |->
                   IF u \in BarrierHelpers THEN row[u] + 1 ELSE row[u]]
  <2>1. /\ pc' = [u \in Sums!Helper |-> IF u \in atBarrier \cup {h}
                                        THEN Sums!AfterRound(u) ELSE pc[u]]
        /\ row' = [u \in DOMAIN row |-> IF u \in atBarrier \cup {h}
                                        THEN row[u] + 1 ELSE row[u]]
    BY DEF Sums!Trip
  <2> QED BY <1>2, <1>3, <2>1 DEF Sums!Helper
<1>5. /\ commandRow \in Int /\ commandRow \in 0..Rounds /\ commandRow # Rounds
      /\ Rounds \in Nat
  BY <1>1, RoundsFact DEF BarrierInv, BarrierTypes, RoundInv
<1>6. commandRow + 1 \in 0..Rounds
  BY <1>5
<1>7. ASSUME NEW u \in BarrierHelpers
      PROVE  /\ row'[u] = commandRow + 1
             /\ pc'[u] = IF commandRow + 1 = Rounds THEN "done" ELSE "work"
  <2>1. row[u] = commandRow /\ u \in Columns \X (0..ROWS)
    BY BarrierHelper DEF BarrierInv, RoundInv
  <2> QED BY <1>4, <2>1, RoundsFact DEF Sums!AfterRound
<1>8. RoundInv'
  BY <1>1, <1>7 DEF RoundInv, Rounds
<1>9. row' \in [Columns \X (0..ROWS) -> Int]
  BY <1>4 DEF BarrierInv, BarrierTypes
<1>10. pc' \in [BarrierHelpers -> BarrierPlaces]
  BY <1>4, <1>7 DEF BarrierPlaces
<1>11. ASSUME NEW c \in Columns
       PROVE  /\ PlaceOf(c)' = IF commandRow + 1 = Rounds THEN "done" ELSE "work"
              /\ ~Arrived(c)'
  BY <1>7 DEF PlaceOf, Arrived, BarrierHelpers
<1>12. CASE program = "barrier"
  <2> DEFINE sum == Sums!RowSum(cells)
  <2>1. RowInv /\ Rounds = ROWS
    BY <1>12 DEF BarrierInv, CellsInv, Rounds
  <2>2. commandRow \in 0..ROWS
    BY <1>5, <2>1
  <2>3. cells = [c \in Columns |-> definition(commandRow, c)]
    <3>1. cells = [c \in Columns |-> cells[c]]
      BY DEF BarrierInv, BarrierTypes
    <3> QED BY <1>2, <2>1, <3>1 DEF RowInv
  <2>4. sum \in Int
    <3>1. \A c \in Columns : cells[c] \in Int
      BY DEF BarrierInv, BarrierTypes
    <3>2. PICK u : Totals(cells, u) /\ sum = u[COLUMNS]
      BY <3>1, RowSumTotals
    <3> QED BY <3>2, Sizes DEF Totals
  <2>5. rowSums[commandRow] = 0
    <3>1. ASSUME NEW r \in 0..ROWS, r = commandRow PROVE rowSums[r] = 0
      <4>1. ~(r < commandRow)
        BY <1>5, <3>1
      <4> QED BY <2>1, <4>1 DEF RowInv
    <3> QED BY <2>2, <3>1
  <2>6. rowSums' = [rowSums EXCEPT ![commandRow] = sum]
    <3> HIDE DEF sum
    <3>1. rowSums' = [rowSums EXCEPT ![commandRow] = @ + sum]
      BY <1>1, <1>12 DEF sum
    <3> QED BY <2>4, <2>5, <3>1
  <2> HIDE DEF sum
  <2>7. rowSums' \in [0..ROWS -> Int]
    BY <2>4, <2>6 DEF BarrierInv, BarrierTypes
  <2>8. ASSUME NEW r \in 0..ROWS
        PROVE  rowSums'[r] = IF r < commandRow + 1
                             THEN Sums!RowSum([c \in Columns |-> definition(r, c)]) ELSE 0
    <3>1. rowSums[r] = IF r < commandRow
                       THEN Sums!RowSum([c \in Columns |-> definition(r, c)]) ELSE 0
      BY <2>1 DEF RowInv
    <3>2. CASE r = commandRow
      <4>1. rowSums'[r] = sum
        BY <2>2, <2>6, <3>2 DEF BarrierInv, BarrierTypes
      <4> QED BY <1>5, <2>3, <3>2, <4>1 DEF sum
    <3>3. CASE r # commandRow
      <4>1. rowSums'[r] = rowSums[r]
        BY <2>6, <3>3 DEF BarrierInv, BarrierTypes
      <4>2. r < commandRow + 1 <=> r < commandRow
        BY <1>5, <3>3, Sizes
      <4> QED BY <3>1, <4>1, <4>2
    <3> QED BY <3>2, <3>3
  <2>9. RowInv'
    BY <1>1, <1>11, <2>8 DEF RowInv
  <2>10. BarrierTypes'
    BY <1>1, <1>6, <1>9, <1>10, <2>7 DEF BarrierInv, BarrierTypes, Rounds
  <2> QED BY <1>1, <1>8, <1>12, <2>9, <2>10 DEF BarrierInv, CellsInv
<1>13. CASE program # "barrier"
  <2>1. PhaseInv /\ Rounds = 3
    BY <1>13, RoundsFact DEF BarrierInv, CellsInv
  <2>2. commandRow \in {0, 1, 2}
    BY <1>5, <2>1
  <2>3. ASSUME NEW c \in Columns
        PROVE  /\ commandRow + 1 = 0 => PlaceOf(c)' # "reset"
               /\ commandRow + 1 = 1 => PlaceOf(c)' = "work" /\ cells[Across(c)] = Across(c)
               /\ commandRow + 1 = 2 => PlaceOf(c)' # "reset" /\ value[c] = Across(c)
               /\ commandRow + 1 = 3 => cells[c] = Across(c)
    <3>1. Across(c) \in Columns /\ Arrived(c) /\ Arrived(Across(c)) /\ PlaceOf(c) # "work"
      BY <1>2, AcrossFact DEF Arrived
    <3>2. commandRow = 0 => cells[Across(c)] = Across(c)
      BY <2>1, <3>1 DEF PhaseInv
    <3>3. commandRow = 1 => value[c] = Across(c)
      BY <2>1, <3>1 DEF PhaseInv
    <3>4. commandRow = 2 => cells[c] = Across(c)
      BY <2>1, <3>1 DEF PhaseInv
    <3> QED BY <1>11, <2>1, <2>2, <3>2, <3>3, <3>4
  <2>4. PhaseInv'
    BY <1>1, <1>11, <2>2, <2>3 DEF PhaseInv
  <2>5. BarrierTypes'
    BY <1>1, <1>6, <1>9, <1>10, <1>13 DEF BarrierInv, BarrierTypes, Rounds
  <2> QED BY <1>1, <1>8, <1>13, <2>4, <2>5 DEF BarrierInv, CellsInv
<1> QED BY <1>12, <1>13

-----------------------------------------------------------------------------
(* All programs that add up or rearrange, as long as main waits for them.  *)

SumsInv ==
  program \in Sums!Programs /\ mainPc # "interrupted" =>
    /\ flagged = {} /\ ~broken
    /\ mainPc = "joined" => \A h \in Sums!Helpers(program) : pc[h] = "done"
    /\ program \in AdderPrograms => AdderInv
    /\ program \in BarrierPrograms => BarrierInv

LEMMA SumsStart == LabsInit => SumsInv
<1> SUFFICES ASSUME LabsInit, program \in Sums!Programs PROVE SumsInv
  BY DEF SumsInv
<1>1. Sums!Start /\ Sums!Fresh
  BY DEF LabsInit, Sums!Programs, UsersStart, BufferPrograms, Writers!Start,
         Writers!Programs, Futures!Start
<1>2. flagged = {} /\ ~broken /\ mainPc = "join"
  BY <1>1 DEF Sums!Fresh
<1> QED BY <1>1, <1>2, AdderStart, BarrierStart DEF SumsInv

\* A helper's step.
LEMMA HelperKeeps ==
  ASSUME SumsInv, program \in Sums!Programs, mainPc # "interrupted",
         NEW h \in DOMAIN pc, Sums!HelperStep(h)
  PROVE  SumsInv'
<1>1. /\ flagged = {} /\ broken # TRUE
      /\ mainPc = "joined" => \A u \in Sums!Helpers(program) : pc[u] = "done"
      /\ program \in AdderPrograms => AdderInv
      /\ program \in BarrierPrograms => BarrierInv
  BY DEF SumsInv
<1>2. ~Sums!Throw(h)
  BY <1>1 DEF Sums!Throw
<1>3. /\ program' = program /\ mainPc' = mainPc /\ flagged' = flagged /\ broken' = broken
  BY <1>2
     DEF Sums!HelperStep, Sums!StoreCell, Sums!SetCell, Sums!ReadOtherEnd,
         Sums!ResetOtherEnd, Sums!Sleep, Sums!Trip, Sums!StartTask,
         Sums!computeIfAbsent, Sums!add, Sums!barrierVars
<1>4. CASE program \in AdderPrograms
  <2>1. program \notin BarrierPrograms
    BY <1>4 DEF AdderPrograms, BarrierPrograms
  <2>2. h \in Sums!Helpers(program) /\ pc[h] \in {"queued", "work", "add", "done"}
    BY <1>1, <1>4 DEF AdderInv, AdderTypes
  <2>3. Sums!StartTask(h) \/ Sums!computeIfAbsent(h) \/ Sums!add(h)
    BY <1>2, <1>4, <2>2
       DEF Sums!HelperStep, Sums!StoreCell, Sums!SetCell, Sums!ReadOtherEnd,
           Sums!ResetOtherEnd, Sums!Sleep, Sums!Trip, Sums!Passes, Sums!At, AdderPrograms
  <2>4. AdderInv'
    BY <1>1, <1>4, <2>2, <2>3, AdderFinds, AdderAdds
  <2>5. pc[h] # "done"
    BY <2>3 DEF Sums!StartTask, Sums!computeIfAbsent, Sums!add, Sums!At
  <2> QED BY <1>1, <1>3, <2>1, <2>2, <2>4, <2>5 DEF SumsInv
<1>5. CASE program \in BarrierPrograms
  <2>1. program \notin AdderPrograms
    BY <1>5 DEF AdderPrograms, BarrierPrograms
  <2>2. h \in BarrierHelpers /\ pc[h] \in {"work", "reset", "await", "asleep", "done"}
    BY <1>1, <1>5 DEF BarrierInv, BarrierTypes, BarrierPlaces
  <2>3. \/ Sums!StoreCell(h) \/ Sums!SetCell(h) \/ Sums!ReadOtherEnd(h)
        \/ Sums!ResetOtherEnd(h) \/ Sums!Sleep(h) \/ Sums!Trip(h)
    BY <1>2, <2>1, <2>2
       DEF Sums!HelperStep, Sums!StartTask, Sums!computeIfAbsent, Sums!add, Sums!At,
           AdderPrograms
  <2>4. BarrierInv'
    BY <1>1, <1>5, <2>2, <2>3, StoreCellKeeps, SetCellKeeps, ReadKeeps, ResetKeeps,
       SleepKeeps, TripKeeps
  <2>5. pc[h] # "done"
    BY <2>3
       DEF Sums!StoreCell, Sums!SetCell, Sums!ReadOtherEnd, Sums!ResetOtherEnd,
           Sums!Sleep, Sums!Trip, Sums!Passes, Sums!At
  <2>6. Sums!Helpers(program) = BarrierHelpers
    BY <1>5, RoundsFact
  <2> QED BY <1>1, <1>3, <2>1, <2>2, <2>4, <2>5, <2>6 DEF SumsInv
<1>6. program \in AdderPrograms \/ program \in BarrierPrograms
  BY DEF Sums!Programs, AdderPrograms, BarrierPrograms
<1> QED BY <1>4, <1>5, <1>6

\* Nothing changes but main's place, or main does not wait any more.
LEMMA MainKeeps ==
  ASSUME SumsInv, program \in Sums!Programs, Sums!Join \/ Sums!InterruptMain
  PROVE  SumsInv'
<1>1. CASE Sums!Join
  <2>1. /\ UNCHANGED <<program, pc, row, rowSums, cells, value, atBarrier, commandRow,
                       broken, flagged>>
        /\ mainPc = "join" /\ \A h \in DOMAIN pc : pc[h] = "done"
    BY <1>1 DEF Sums!Join, Sums!barrierVars, Sums!Helper
  <2>2. /\ flagged = {} /\ ~broken
        /\ program \in AdderPrograms => AdderInv
        /\ program \in BarrierPrograms => BarrierInv
    BY <2>1 DEF SumsInv
  <2>3. program \in AdderPrograms => AdderInv' /\ DOMAIN pc = Sums!Helpers(program)
    <3>1. AdderInv => AdderInv'
      BY <2>1 DEF AdderInv, AdderTypes, AdderPlaces, AdderSums, Added, HelperOf, Sums!End
    <3>2. AdderInv => DOMAIN pc = Sums!Helpers(program)
      BY DEF AdderInv, AdderTypes
    <3> QED BY <2>2, <3>1, <3>2
  <2>4. program \in BarrierPrograms => BarrierInv' /\ DOMAIN pc = Sums!Helpers(program)
    <3>1. BarrierInv => BarrierInv'
      BY <2>1
         DEF BarrierInv, BarrierTypes, RoundInv, CellsInv, RowInv, PhaseInv, Rounds,
             PlaceOf, Arrived
    <3>2. BarrierInv => DOMAIN pc = BarrierHelpers
      BY DEF BarrierInv, BarrierTypes
    <3> QED BY <2>2, <3>1, <3>2, RoundsFact
  <2>5. program \in AdderPrograms \/ program \in BarrierPrograms
    BY DEF Sums!Programs, AdderPrograms, BarrierPrograms
  <2> QED BY <2>1, <2>2, <2>3, <2>4, <2>5 DEF SumsInv
<1>2. CASE Sums!InterruptMain
  BY <1>2 DEF SumsInv, Sums!InterruptMain
<1> QED BY <1>1, <1>2

\* Whose step it is.
LEMMA SumsMoves ==
  ASSUME [LabsNext]_labsVars
  PROVE  \/ /\ program \notin Sums!Programs \cup {"futures"}
            /\ UNCHANGED <<futuresVars, flagged>>
         \/ /\ program \in Sums!Programs /\ UNCHANGED futuresVars
            /\ \/ \E h \in DOMAIN pc : Sums!HelperStep(h)
               \/ Sums!Join \/ Sums!InterruptMain
         \/ program = "futures" /\ Futures!Next
         \/ UNCHANGED labsVars
<1>1. CASE (\E t \in User : BuffersStep(t)) \/ \E t \in Writers!Writer : WritersStep(t)
  BY <1>1
     DEF BuffersStep, WritersStep, BuffersRun, WritersRun, BufferPrograms,
         Writers!Programs, Sums!Programs
<1>2. CASE SumsJoin \/ \E h \in Sums!Helpers("threadsafe") : SumsStep(h)
  BY <1>2 DEF SumsJoin, SumsStep, SumsRun
<1>3. CASE FuturesMain \/ \E w \in Worker : FuturesStep(w)
  BY <1>3 DEF FuturesMain, FuturesStep, Futures!Next
<1>4. CASE Unasked
  BY <1>4
     DEF Unasked, BuffersRun, WritersRun, SumsRun, BufferPrograms, Writers!Programs,
         Sums!Programs, Futures!Next
<1> QED BY <1>1, <1>2, <1>3, <1>4 DEF LabsNext

LEMMA SumsStepKeeps ==
  ASSUME SumsInv, [LabsNext]_labsVars
  PROVE  SumsInv'
<1>1. program' = program
  BY LabsMoves
<1>2. SUFFICES ASSUME program \in Sums!Programs PROVE SumsInv'
  BY <1>1 DEF SumsInv, Sums!Programs
<1>3. program # "futures"
  BY <1>2 DEF Sums!Programs
<1>4. CASE \E h \in DOMAIN pc : Sums!HelperStep(h)
  <2>1. PICK h \in DOMAIN pc : Sums!HelperStep(h)
    BY <1>4
  <2>2. CASE mainPc # "interrupted"
    BY <1>2, <2>1, <2>2, HelperKeeps
  <2>3. CASE mainPc = "interrupted"
    <3>1. mainPc' = mainPc
      BY <2>1
         DEF Sums!HelperStep, Sums!StoreCell, Sums!SetCell, Sums!ReadOtherEnd,
             Sums!ResetOtherEnd, Sums!Sleep, Sums!Trip, Sums!Throw, Sums!StartTask,
             Sums!computeIfAbsent, Sums!add
    <3> QED BY <2>3, <3>1 DEF SumsInv
  <2> QED BY <2>2, <2>3
<1>5. CASE Sums!Join \/ Sums!InterruptMain
  BY <1>2, <1>5, MainKeeps
<1>6. CASE UNCHANGED labsVars
  <2>1. UNCHANGED <<program, pc, sumsVars, flagged>>
    BY <1>6 DEF labsVars, vars, userVars
  <2> QED
    BY <2>1
       DEF SumsInv, sumsVars, AdderInv, AdderTypes, AdderPlaces, AdderSums, Added,
           HelperOf, Sums!End, BarrierInv, BarrierTypes, RoundInv, CellsInv, RowInv,
           PhaseInv, Rounds, PlaceOf, Arrived
<1> QED BY <1>2, <1>3, <1>4, <1>5, <1>6, SumsMoves

LEMMA InvSums == SumsInv => Sums!SumsRight
<1> SUFFICES ASSUME SumsInv, program \in Sums!Programs, mainPc = "joined"
             PROVE  Sums!SumsRight
  BY DEF Sums!SumsRight
<1>1. /\ \A h \in Sums!Helpers(program) : pc[h] = "done"
      /\ program \in AdderPrograms => AdderInv
      /\ program \in BarrierPrograms => BarrierInv
  BY DEF SumsInv
<1>2. CASE program \in AdderPrograms
  <2>1. \A r \in Sums!Rows : rowSums[r] = Sums!RowSum([c \in Columns |-> definition(r, c)])
    BY <1>1, <1>2, AdderResult
  <2> QED BY <1>2, <2>1 DEF Sums!SumsRight, AdderPrograms, Columns
<1>3. CASE program \in BarrierPrograms
  <2>1. 0 \in Columns /\ <<0, 0>> \in BarrierHelpers
    BY Sizes DEF BarrierHelpers
  <2>2. commandRow = Rounds
    BY <1>1, <1>3, <2>1, RoundsFact DEF BarrierInv, RoundInv
  <2>3. CASE program = "barrier"
    <3>1. RowInv /\ commandRow = ROWS
      BY <1>1, <1>3, <2>2, <2>3 DEF BarrierInv, CellsInv, Rounds
    <3>2. \A r \in Sums!Rows : rowSums[r] = Sums!RowSum([c \in Columns |-> definition(r, c)])
      <4>1. \A r \in Sums!Rows : r \in 0..ROWS /\ r < ROWS
        BY Sizes
      <4> QED BY <3>1, <4>1 DEF RowInv
    <3> QED BY <2>3, <3>2 DEF Sums!SumsRight, Columns
  <2>4. CASE program = "rearrange"
    <3>1. PhaseInv /\ commandRow = 3
      BY <1>1, <1>3, <2>2, <2>4 DEF BarrierInv, CellsInv, Rounds
    <3>2. \A c \in Columns : cells[c] = COLUMNS - 1 - c
      BY <3>1 DEF PhaseInv, Across
    <3> QED BY <2>4, <3>2 DEF Sums!SumsRight, Columns
  <2> QED BY <1>3, <2>3, <2>4 DEF BarrierPrograms
<1>4. program \in AdderPrograms \/ program \in BarrierPrograms
  BY DEF Sums!Programs, AdderPrograms, BarrierPrograms
<1> QED BY <1>2, <1>3, <1>4

-----------------------------------------------------------------------------
(* The futures.                                                            *)

\* What is in a future's channel is its own result, and each worker answers
\* the handle it has taken.
FuturesInv ==
  /\ result \in [Futures!Task -> Nat] /\ \A i \in Futures!Task : result[i] \in {0, i}
  /\ DOMAIN channel = Futures!Task /\ \A i \in Futures!Task : channel[i] \in Seq({i})
  /\ handleQueue \in Seq(Futures!Task)
  /\ submitted \in 0..Tasks
  /\ handle \in [Worker -> 0..Tasks]
  /\ program = "futures" =>
       /\ DOMAIN pc = Worker
       /\ \A w \in Worker : pc[w] \in {"call", "put"} => handle[w] \in Futures!Task

LEMMA TaskFact ==
  /\ Tasks \in Nat \ {0} /\ Futures!Task = 1..Tasks
BY LabsAssumption DEF Futures!Task

LEMMA FuturesStart == LabsInit => FuturesInv
<1> SUFFICES ASSUME LabsInit PROVE FuturesInv
  OBVIOUS
<1>1. Futures!Fresh
  BY DEF LabsInit
<1>2. program = "futures" => pc = [w \in Worker |-> "check"]
  BY DEF LabsInit, UsersStart, BufferPrograms, Writers!Start, Writers!Programs,
         Sums!Start, Sums!Programs, Futures!Start
<1>3. \A i \in Futures!Task : channel[i] \in Seq({i})
  <2>1. ASSUME NEW i \in Futures!Task PROVE channel[i] = <<>>
    BY <1>1 DEF Futures!Fresh
  <2>2. \A S : <<>> \in Seq(S)
    BY EmptySeq
  <2> QED BY <2>1, <2>2
<1> QED BY <1>1, <1>2, <1>3, TaskFact DEF Futures!Fresh, FuturesInv

LEMMA FuturesMainKeeps ==
  ASSUME FuturesInv, Futures!MainStep \/ Futures!InterruptMain
  PROVE  FuturesInv'
<1>1. CASE Futures!submit
  <2>1. submitted + 1 \in Futures!Task /\ submitted + 1 \in 0..Tasks
    BY <1>1, TaskFact DEF Futures!submit, FuturesInv
  <2>2. handleQueue' \in Seq(Futures!Task)
    BY <1>1, <2>1 DEF Futures!submit, FuturesInv
  <2> QED BY <1>1, <2>1, <2>2 DEF Futures!submit, Futures!workerVars, FuturesInv
<1>2. ASSUME NEW i \in Futures!Task, Futures!get(i)
      PROVE  FuturesInv'
  <2>1. channel[i] \in Seq({i}) /\ channel[i] # <<>> /\ i \in Nat
    BY <1>2, TaskFact DEF Futures!get, FuturesInv
  <2>2. Head(channel[i]) = i /\ Tail(channel[i]) \in Seq({i})
    BY <2>1, HeadTailProperties
  <2>3. result' \in [Futures!Task -> Nat] /\ \A j \in Futures!Task : result'[j] \in {0, j}
    BY <1>2, <2>1, <2>2 DEF Futures!get, FuturesInv
  <2>4. DOMAIN channel' = Futures!Task /\ \A j \in Futures!Task : channel'[j] \in Seq({j})
    BY <1>2, <2>2 DEF Futures!get, FuturesInv
  <2> QED BY <1>2, <2>3, <2>4 DEF Futures!get, Futures!workerVars, FuturesInv
<1>3. ASSUME NEW w \in Worker, Futures!shutdown(w)
      PROVE  FuturesInv'
  BY <1>3 DEF Futures!shutdown, Futures!workerVars, FuturesInv
<1>4. CASE Futures!SubmitInterrupted
  <2>1. submitted + 1 \in 0..Tasks
    BY <1>4, TaskFact DEF Futures!SubmitInterrupted, FuturesInv
  <2> QED BY <1>4, <2>1 DEF Futures!SubmitInterrupted, Futures!workerVars, FuturesInv
<1>5. ASSUME NEW i \in Futures!Task, Futures!GetInterrupted(i)
      PROVE  FuturesInv'
  BY <1>5 DEF Futures!GetInterrupted, Futures!workerVars, FuturesInv
<1> QED BY <1>1, <1>2, <1>3, <1>4, <1>5 DEF Futures!MainStep, Futures!InterruptMain

LEMMA FuturesWorkerKeeps ==
  ASSUME FuturesInv, program = "futures", NEW w \in Worker, Futures!WorkerStep(w)
  PROVE  FuturesInv'
<1>1. CASE Futures!Check(w) \/ Futures!Call(w) \/ Futures!Throw(w)
  <2>1. /\ UNCHANGED <<program, handleQueue, channel, result, submitted, handle>>
        /\ \E to \in {"ended", "take", "put"} :
             pc' = [pc EXCEPT ![w] = to] /\ (to = "put" => pc[w] = "call")
    BY <1>1
       DEF Futures!Check, Futures!Call, Futures!Throw, Futures!Goto, Futures!mainVars
  <2>2. PICK to \in {"ended", "take", "put"} :
          pc' = [pc EXCEPT ![w] = to] /\ (to = "put" => pc[w] = "call")
    BY <2>1
  <2>3. /\ DOMAIN pc' = Worker
        /\ \A u \in Worker : pc'[u] \in {"call", "put"} => handle[u] \in Futures!Task
    BY <2>2 DEF FuturesInv
  <2> QED BY <2>1, <2>3 DEF FuturesInv
<1>2. CASE Futures!Take(w)
  <2>1. handleQueue \in Seq(Futures!Task) /\ handleQueue # <<>>
    BY <1>2 DEF Futures!Take, FuturesInv
  <2>2. Head(handleQueue) \in Futures!Task /\ Tail(handleQueue) \in Seq(Futures!Task)
    BY <2>1, HeadTailProperties
  <2>3. \A i \in Futures!Task : i \in 0..Tasks
    BY TaskFact
  <2>4. /\ handle' = [handle EXCEPT ![w] = Head(handleQueue)]
        /\ handleQueue' = Tail(handleQueue)
        /\ pc' = [pc EXCEPT ![w] = "call"]
        /\ UNCHANGED <<program, channel, result, submitted>>
    BY <1>2 DEF Futures!Take, Futures!Goto, Futures!mainVars
  <2>5. /\ handle' \in [Worker -> 0..Tasks] /\ handle'[w] \in Futures!Task
        /\ \A u \in Worker : u # w => handle'[u] = handle[u]
    BY <2>2, <2>3, <2>4 DEF FuturesInv
  <2>6. /\ DOMAIN pc' = Worker
        /\ \A u \in Worker : pc'[u] \in {"call", "put"} => handle'[u] \in Futures!Task
    BY <2>4, <2>5 DEF FuturesInv
  <2> QED BY <2>2, <2>4, <2>5, <2>6 DEF FuturesInv
<1>3. CASE Futures!Put(w)
  <2>1. /\ pc[w] = "put" /\ pc' = [pc EXCEPT ![w] = "check"]
        /\ channel' = [channel EXCEPT ![handle[w]] = Append(@, handle[w])]
        /\ UNCHANGED <<program, handleQueue, result, submitted, handle>>
    BY <1>3 DEF Futures!Put, Futures!Goto, Futures!mainVars
  <2>2. handle[w] \in Futures!Task
    BY <2>1 DEF FuturesInv
  <2>3. ASSUME NEW i \in Futures!Task PROVE channel'[i] \in Seq({i})
    <3>1. channel[i] \in Seq({i})
      BY DEF FuturesInv
    <3>2. Append(channel[i], i) \in Seq({i})
      BY <3>1
    <3>3. channel'[i] = IF i = handle[w] THEN Append(channel[i], i) ELSE channel[i]
      BY <2>1 DEF FuturesInv
    <3> QED BY <3>1, <3>2, <3>3
  <2>4. DOMAIN channel' = Futures!Task
    BY <2>1 DEF FuturesInv
  <2>5. /\ DOMAIN pc' = Worker
        /\ \A u \in Worker : pc'[u] \in {"call", "put"} => handle[u] \in Futures!Task
    BY <2>1 DEF FuturesInv
  <2> QED BY <2>1, <2>3, <2>4, <2>5 DEF FuturesInv
<1> QED BY <1>1, <1>2, <1>3 DEF Futures!WorkerStep

LEMMA FuturesStepKeeps ==
  ASSUME FuturesInv, [LabsNext]_labsVars
  PROVE  FuturesInv'
<1>1. program' = program
  BY LabsMoves
<1>2. CASE program # "futures" /\ UNCHANGED futuresVars
  BY <1>1, <1>2 DEF FuturesInv, futuresVars
<1>3. CASE program = "futures" /\ Futures!Next
  BY <1>3, FuturesMainKeeps, FuturesWorkerKeeps DEF Futures!Next
<1>4. CASE UNCHANGED labsVars
  <2>1. UNCHANGED <<program, pc, futuresVars>>
    BY <1>4 DEF labsVars, vars, userVars
  <2> QED BY <2>1 DEF FuturesInv, futuresVars
<1>5. "futures" \notin Sums!Programs
  BY DEF Sums!Programs
<1> QED BY <1>2, <1>3, <1>4, <1>5, SumsMoves

LEMMA InvFutures == FuturesInv => Futures!FuturesRight
BY DEF FuturesInv, Futures!FuturesRight

-----------------------------------------------------------------------------
\* What the writers, the sums, the rearrangement and the futures give when they
\* end is right, for every number of lines, rows, columns, chunks, tasks and
\* workers: the row sums of labs 3 to 5 are those of rowSums() whatever matrix
\* is summed up, and each cell of the array of ArrayRearrangement.java has what
\* was across from it.
THEOREM RightResults == LabsSpec => []ResultsRight
<1> DEFINE Inv == LinesInv /\ Pair!AllPrinted /\ SumsInv /\ FuturesInv
<1>1. LabsInit => Inv
  BY LinesStart, PrintedStart, SumsStart, FuturesStart
<1>2. Inv /\ [LabsNext]_labsVars => Inv'
  BY LinesStep, PrintedKeeps, SumsStepKeeps, FuturesStepKeeps
<1>3. Inv => ResultsRight
  <2>1. Pair!AllPrinted => Writers!AllPrinted
    BY DEF Pair!AllPrinted, Writers!AllPrinted, Pair!Programs, Writers!Programs,
           Pair!Writer, Writers!Writer
  <2> QED BY <2>1, InvSums, InvFutures DEF ResultsRight
<1> HIDE DEF Inv
<1> QED BY <1>1, <1>2, <1>3, PTL DEF LabsSpec
=============================================================================
