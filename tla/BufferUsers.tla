---------------------------- MODULE BufferUsers -----------------------------
(***************************************************************************)
(* The producers and consumers of five programs with a bounded buffer:     *)
(*   "semaphores"  Lab_3 ProducersConsumers.java                           *)
(*   "queue"       Lab_4 ProducersConsumersQueue.java                      *)
(*   "monitor"     Lab_6 BlockingQueue.java, under the same threads        *)
(*   "signals"     Lab_9 producer-consumer.c                               *)
(*   "gifts"       Lab_10 gifts.c, elves and reindeers                     *)
(* What they share: the loops, and the items that went in and came out.    *)
(***************************************************************************)
EXTENDS Naturals, Sequences, FiniteSets

CONSTANTS Producer, Consumer,
          Produced,     \* PRODUCED_COUNT, LOOPS: items of one producer
          BufferSize    \* BUFFER_SIZE, BUFFSIZE, capacity

User  == Producer \cup Consumer
Total == Cardinality(Producer) * Produced

\* main's assertion of Lab_4; Consumed is CONSUMED_COUNT.
ASSUME BufferAssumption ==
    /\ IsFiniteSet(User) /\ Producer \cap Consumer = {}
    /\ BufferSize \in Nat \ {0} /\ Produced \in Nat \ {0}
    /\ Total % Cardinality(Consumer) = 0

Consumed == Total \div Cardinality(Consumer)

VARIABLES program,
          pc,         \* of every thread
          left,       \* rounds of its loop that a thread still has to do
          sent, received    \* the items stored and fetched so far, in order

userVars == <<program, pc, left, sent, received>>

\* A product, a gift or a number, told apart by who made it and when.
Item    == Producer \X (1..Produced)
Made(p) == <<p, left[p]>>

BufferPrograms == {"semaphores", "queue", "monitor", "signals", "gifts"}

\* producer-consumer.c has one thread of each kind; its last number is OVER.
Runs(t) ==
    program = "signals" =>
      \/ t = CHOOSE p \in Producer : TRUE
      \/ t = CHOOSE c \in Consumer : TRUE
OVER(i) == \E p \in Producer : i = <<p, 1>>

\* A consumer of gifts.c and producer-consumer.c loops until it is told.
UsersStart ==
    /\ program \in BufferPrograms
    /\ pc = [t \in User |-> IF Runs(t) THEN "idle" ELSE "done"]

UsersFresh ==
    /\ left = [t \in User |->
                 IF ~Runs(t) THEN 0
                 ELSE IF t \in Producer THEN Produced
                 ELSE IF program \in {"signals", "gifts"} THEN 1 ELSE Consumed]
    /\ sent = <<>> /\ received = <<>>

\* The item enters or leaves the buffer.
Store(p) == sent' = Append(sent, Made(p)) /\ UNCHANGED received
Fetch(i) == received' = Append(received, i) /\ UNCHANGED sent

\* The end of a round of a loop.
Round(t, n) ==
    /\ left' = [left EXCEPT ![t] = n]
    /\ pc' = [pc EXCEPT ![t] = IF n = 0 THEN "done" ELSE "idle"]
=============================================================================
