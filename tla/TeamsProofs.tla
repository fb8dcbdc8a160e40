----------------------------- MODULE TeamsProofs ----------------------------
(***************************************************************************)
(* The teams of Zaliczeniowe_3, whatever their size, the contests and the  *)
(* order of their workers' steps: the table that threads share is right,   *)
(* every kind of team answers as TeamSolo does, never has more workers     *)
(* than its size, and leaves nothing of a contest behind.                  *)
(***************************************************************************)
EXTENDS Teams, FiniteSetTheorems, SequenceTheorems, WellFoundedInduction, TLAPS

-----------------------------------------------------------------------------
(* The table that the threads share.                                       *)

\* The frames of a recursion: from the innermost number still to be inserted
\* to the argument of the call, each the successor of the next.
Chain(stack, arg) ==
    /\ \A i \in 1..Len(stack) : stack[i] # 1
    /\ \A i \in 1..Len(stack) - 1 : stack[i] = Successor(stack[i + 1])
    /\ stack # <<>> => stack[Len(stack)] = arg

\* m is the number whose result the innermost frame, or the caller, wants.
Wanted(m, stack, arg) == IF stack = <<>> THEN m = arg ELSE m = Successor(stack[1])

Calls == [pc : CallPc, arg : Number, n : Number, stack : Seq(Number), value : Nat]

CallRight(c) ==
    /\ Chain(c.stack, c.arg)
    /\ c.pc = "get" => Wanted(c.n, c.stack, c.arg)
    /\ c.pc = "insert" =>
         c.stack # <<>> /\ c.value = calcCollatz[Successor(c.stack[1])]
    /\ c.pc = "done" => c.value = calcCollatz[c.arg]

Table(f) == \A n \in DOMAIN f : n \in Number /\ f[n] = calcCollatz[n]

\* An entry is right because the call that inserts it knows the result of the
\* successor, whoever computed that.
SharedInv ==
    /\ Table(results)
    /\ call \in [Thread -> Calls]
    /\ \A t \in Thread : CallRight(call[t])

\* A result handed down to the frame that wants it leaves the call right.
LEMMA ReturningRight ==
    ASSUME NEW c \in Calls, NEW stack \in Seq(Number), NEW m \in Number,
           Chain(stack, c.arg), Wanted(m, stack, c.arg)
    PROVE  /\ Returning(c, stack, calcCollatz[m]) \in Calls
           /\ CallRight(Returning(c, stack, calcCollatz[m]))
<1>1. calcCollatz[m] \in Nat
  BY CollatzAssumption
<1>. DEFINE d == Returning(c, stack, calcCollatz[m])
<1>2. /\ d.pc = IF stack = <<>> THEN "done" ELSE "insert"
      /\ d.arg = c.arg /\ d.stack = stack /\ d.value = calcCollatz[m]
  BY DEF Returning, Calls
<1>3. d \in Calls
  BY <1>1 DEF Returning, Calls, CallPc
<1>4. CallRight(d)
  BY <1>2 DEF CallRight, Wanted
<1>. QED
  BY <1>3, <1>4

\* A call on a further number keeps the frames linked.
LEMMA Pushed ==
    ASSUME NEW stack \in Seq(Number), NEW n \in Number, NEW arg \in Number,
           Chain(stack, arg), Wanted(n, stack, arg), n # 1
    PROVE  /\ <<n>> \o stack \in Seq(Number)
           /\ Chain(<<n>> \o stack, arg)
           /\ Wanted(Successor(n), <<n>> \o stack, arg)
<1>. DEFINE s == <<n>> \o stack
<1>1. /\ s \in Seq(Number) /\ Len(s) = Len(stack) + 1 /\ s # <<>> /\ s[1] = n
      /\ \A i \in 2..Len(s) : s[i] = stack[i - 1]
  OBVIOUS
<1>2. Len(stack) \in Nat /\ (stack = <<>> <=> Len(stack) = 0)
  OBVIOUS
<1>3. \A i \in 1..Len(s) : s[i] # 1
  BY <1>1, <1>2 DEF Chain
<1>4. \A i \in 1..Len(s) - 1 : s[i] = Successor(s[i + 1])
  <2>. SUFFICES ASSUME NEW i \in 1..Len(s) - 1 PROVE s[i] = Successor(s[i + 1])
    OBVIOUS
  <2>1. CASE i = 1
    BY <2>1, <1>1, <1>2 DEF Wanted
  <2>2. CASE i # 1
    <3>1. s[i] = stack[i - 1] /\ s[i + 1] = stack[i] /\ i - 1 \in 1..Len(stack) - 1
      BY <2>2, <1>1, <1>2
    <3>. QED
      BY <3>1 DEF Chain
  <2>. QED
    BY <2>1, <2>2
<1>5. s[Len(s)] = arg
  BY <1>1, <1>2 DEF Chain, Wanted
<1>. QED
  BY <1>1, <1>3, <1>4, <1>5 DEF Chain, Wanted

\* When the innermost frame returns, the one below wants its number.
LEMMA Popped ==
    ASSUME NEW stack \in Seq(Number), NEW arg \in Number,
           Chain(stack, arg), stack # <<>>
    PROVE  /\ Head(stack) \in Number /\ Head(stack) = stack[1] /\ Head(stack) # 1
           /\ Tail(stack) \in Seq(Number)
           /\ Chain(Tail(stack), arg)
           /\ Wanted(Head(stack), Tail(stack), arg)
<1>. DEFINE s == Tail(stack)
<1>1. /\ s \in Seq(Number) /\ Len(s) = Len(stack) - 1 /\ Len(stack) \in Nat \ {0}
      /\ \A i \in 1..Len(s) : s[i] = stack[i + 1]
      /\ s = <<>> <=> Len(s) = 0
  <2>1. Len(stack) \in Nat \ {0}
    OBVIOUS
  <2>2. s \in Seq(Number) /\ Len(s) = Len(stack) - 1
    OBVIOUS
  <2>3. \A i \in 1..Len(s) : s[i] = stack[i + 1]
    BY <2>1, <2>2
  <2>4. s = <<>> <=> Len(s) = 0
    BY <2>2, EmptySeq
  <2>. QED
    BY <2>1, <2>2, <2>3, <2>4
<1>2. Head(stack) \in Number /\ Head(stack) = stack[1]
  OBVIOUS
<1>3. Head(stack) # 1
  BY <1>1, <1>2 DEF Chain
<1>4. \A i \in 1..Len(s) : s[i] # 1
  BY <1>1 DEF Chain
<1>5. \A i \in 1..Len(s) - 1 : s[i] = Successor(s[i + 1])
  BY <1>1 DEF Chain
<1>6. s # <<>> => s[Len(s)] = arg
  BY <1>1 DEF Chain
<1>7. Wanted(Head(stack), s, arg)
  BY <1>1, <1>2 DEF Chain, Wanted
<1>. QED
  BY <1>1, <1>2, <1>3, <1>4, <1>5, <1>6, <1>7 DEF Chain

\* What get returns of a right table: nothing, or the right result.
LEMMA GetRight ==
    ASSUME Table(results), NEW n \in Number, n = 1 \/ get(n) # 0
    PROVE  get(n) = calcCollatz[n]
BY CollatzAssumption DEF Table, get

-----------------------------------------------------------------------------
\* A thread that is in no call.
LEMMA IdleRight == Idle \in Calls /\ CallRight(Idle) /\ Idle.stack = <<>> /\ Idle.value = 0
BY NumberAssumption DEF Idle, Calls, CallPc, CallRight, Chain

\* The empty table is right.
LEMMA InitRight == SharedInit => SharedInv
<1>. SUFFICES ASSUME SharedInit PROVE SharedInv
  OBVIOUS
<1>1. Table(results)
  BY DEF SharedInit, Table
<1>. QED
  BY <1>1, IdleRight DEF SharedInit, SharedInv

\* A step that gives one call a right record and keeps the table right.
LEMMA OneCall ==
    ASSUME SharedInv, NEW t \in Thread, NEW c \in Calls, CallRight(c),
           call' = [call EXCEPT ![t] = c], Table(results')
    PROVE  SharedInv'
BY DEF SharedInv

\* A call begins: its first number is its argument.
LEMMA EnterRight ==
    ASSUME SharedInv, NEW t \in Thread, NEW n \in Number, Enter(t, n)
    PROVE  SharedInv'
<1>. DEFINE c == [Idle EXCEPT !.pc = "get", !.arg = n, !.n = n]
<1>1. /\ c \in Calls
      /\ c.pc = "get" /\ c.arg = n /\ c.n = n /\ c.stack = <<>> /\ c.value = 0
  BY IdleRight DEF Calls, CallPc
<1>2. CallRight(c)
  BY <1>1 DEF CallRight, Chain, Wanted
<1>3. Table(results')
  BY DEF Enter, SharedInv
<1>4. call' = [call EXCEPT ![t] = c]
  BY DEF Enter
<1>. HIDE DEF c
<1>. QED
  BY <1>1, <1>2, <1>3, <1>4, OneCall

\* A team that does not share gets the result at once.
LEMMA CalculateRight ==
    ASSUME SharedInv, NEW t \in Thread, NEW n \in Number, Calculate(t, n)
    PROVE  SharedInv'
<1>. DEFINE c == [Idle EXCEPT !.pc = "done", !.arg = n, !.n = n, !.value = calcCollatz[n]]
<1>1. /\ c \in Calls
      /\ c.pc = "done" /\ c.arg = n /\ c.n = n /\ c.stack = <<>> /\ c.value = calcCollatz[n]
  BY IdleRight, CollatzAssumption DEF Calls, CallPc
<1>2. CallRight(c)
  BY <1>1 DEF CallRight, Chain, Wanted
<1>3. Table(results')
  BY DEF Calculate, SharedInv
<1>4. call' = [call EXCEPT ![t] = c]
  BY DEF Calculate
<1>. HIDE DEF c
<1>. QED
  BY <1>1, <1>2, <1>3, <1>4, OneCall

\* A number found in the table, or 1, ends the descent; another goes on the
\* stack.
LEMMA GetStepRight ==
    ASSUME SharedInv, NEW t \in Thread, Get(t)
    PROVE  SharedInv'
<1>. DEFINE c == call[t]
<1>1. /\ c \in Calls /\ c.stack \in Seq(Number) /\ c.n \in Number /\ c.arg \in Number
      /\ Chain(c.stack, c.arg) /\ Wanted(c.n, c.stack, c.arg)
  BY DEF SharedInv, CallRight, Get, Calls
<1>2. Table(results) /\ Table(results')
  BY DEF SharedInv, Get
<1>3. CASE c.n = 1 \/ get(c.n) # 0
  <2>1. get(c.n) = calcCollatz[c.n]
    BY <1>1, <1>2, <1>3, GetRight
  <2>. DEFINE d == Returning(c, c.stack, calcCollatz[c.n])
  <2>2. call' = [call EXCEPT ![t] = d]
    BY <1>3, <2>1 DEF Get
  <2>3. d \in Calls /\ CallRight(d)
    BY <1>1, ReturningRight
  <2>. QED
    BY <1>2, <2>2, <2>3, OneCall
<1>4. CASE ~(c.n = 1 \/ get(c.n) # 0)
  <2>. DEFINE stack == <<c.n>> \o c.stack
  <2>. DEFINE d == [c EXCEPT !.n = Successor(c.n), !.stack = stack]
  <2>1. stack \in Seq(Number) /\ Chain(stack, c.arg) /\ Wanted(Successor(c.n), stack, c.arg)
    BY <1>1, <1>4, Pushed
  <2>2. Successor(c.n) \in Number
    BY <1>1, <1>4, NumberAssumption
  <2>3. c.pc = "get" /\ call' = [call EXCEPT ![t] = d]
    BY <1>4 DEF Get
  <2>. HIDE DEF stack
  <2>4. /\ d \in Calls
        /\ d.pc = "get" /\ d.arg = c.arg /\ d.n = Successor(c.n) /\ d.stack = stack
    BY <1>1, <2>1, <2>2, <2>3 DEF Calls
  <2>5. CallRight(d)
    BY <1>1, <2>1, <2>4 DEF CallRight
  <2>. QED
    BY <1>2, <2>3, <2>4, <2>5, OneCall
<1>. QED
  BY <1>3, <1>4

\* The innermost frame inserts its number, whatever others have inserted
\* since it looked.
LEMMA InsertStepRight ==
    ASSUME SharedInv, NEW t \in Thread, Insert(t)
    PROVE  SharedInv'
<1>. DEFINE c == call[t]
<1>. DEFINE m == Head(c.stack)
<1>1. /\ c \in Calls /\ c.stack \in Seq(Number) /\ c.arg \in Number
      /\ Chain(c.stack, c.arg) /\ c.stack # <<>>
      /\ c.value = calcCollatz[Successor(c.stack[1])]
  BY DEF SharedInv, CallRight, Insert, Calls
<1>2. /\ m \in Number /\ m = c.stack[1] /\ m # 1
      /\ Tail(c.stack) \in Seq(Number) /\ Chain(Tail(c.stack), c.arg)
      /\ Wanted(m, Tail(c.stack), c.arg)
  BY <1>1, Popped
<1>3. c.value + 1 = calcCollatz[m]
  BY <1>1, <1>2, CollatzAssumption
<1>. DEFINE d == Returning(c, Tail(c.stack), calcCollatz[m])
<1>4. call' = [call EXCEPT ![t] = d]
  BY <1>3 DEF Insert
<1>5. d \in Calls /\ CallRight(d)
  BY <1>1, <1>2, ReturningRight
<1>6. Table(results')
  <2>1. insert(m, calcCollatz[m]) /\ Table(results)
    BY <1>3 DEF Insert, SharedInv
  <2>. QED
    BY <1>2, <2>1 DEF insert, Table
<1>. QED
  BY <1>4, <1>5, <1>6, OneCall

\* A call that is over is forgotten.
LEMMA LeaveRight ==
    ASSUME SharedInv, NEW t \in Thread, Leave(t)
    PROVE  SharedInv'
<1>1. Table(results') /\ call' = [call EXCEPT ![t] = Idle]
  BY DEF Leave, SharedInv
<1>. QED
  BY <1>1, IdleRight, OneCall

\* Every step of a call on the shared table keeps the invariant.
LEMMA SharedStep ==
    ASSUME SharedInv, [SharedNext]_sharedVars
    PROVE  SharedInv'
<1>1. CASE UNCHANGED sharedVars
  BY <1>1 DEF sharedVars, SharedInv
<1>2. ASSUME NEW t \in Thread, NEW n \in Number, Enter(t, n) PROVE SharedInv'
  BY <1>2, EnterRight
<1>3. ASSUME NEW t \in Thread, NEW n \in Number, Calculate(t, n) PROVE SharedInv'
  BY <1>3, CalculateRight
<1>4. ASSUME NEW t \in Thread, Get(t) PROVE SharedInv'
  BY <1>4, GetStepRight
<1>5. ASSUME NEW t \in Thread, Insert(t) PROVE SharedInv'
  BY <1>5, InsertStepRight
<1>6. ASSUME NEW t \in Thread, Leave(t) PROVE SharedInv'
  BY <1>6, LeaveRight
<1>. QED
  BY <1>1, <1>2, <1>3, <1>4, <1>5, <1>6 DEF SharedNext

-----------------------------------------------------------------------------
\* The invariant holds in every reachable state of the shared table and the
\* recursions on it.
THEOREM SharedInvariance == SharedSpec => []SharedInv
<1>1. SharedInit => SharedInv
  BY InitRight
<1>2. SharedInv /\ [SharedNext]_sharedVars => SharedInv'
  BY SharedStep
<1>. QED
  BY <1>1, <1>2, PTL DEF SharedSpec

\* For every set of threads and of numbers whose orbits end: no interleaving
\* of get and insert puts a wrong length into the table or returns one.
THEOREM TableAlwaysRight == SharedSpec => []TableRight
<1>1. SharedInv => TableRight
  BY DEF SharedInv, TableRight, Table, CallRight
<1>. QED
  BY <1>1, SharedInvariance, PTL

-----------------------------------------------------------------------------
(* The invariant of the whole program.                                     *)

\* Where the main thread of a team can be.
MainPlaces ==
    CASE team = "NewThreads" -> {"idle", "loop", "join"}
      [] team \in {"ConstThreads", "Async"} -> {"idle", "loop"}
      [] team = "Pool" -> {"idle", "loop", "notify", "destroy", "join"}
      [] OTHER -> {"idle", "loop", "open", "write", "read", "wait"}

\* runContest runs.
Contesting == main.pc \notin {"idle", "destroy"} /\ ~(team = "Pool" /\ main.pc = "join")

TeamInv ==
    /\ team \in TeamKind /\ share \in BOOLEAN
    /\ answers \in Seq(Seq(Nat)) /\ Len(answers) <= Len(Inputs)
    /\ main \in [pc : MainPlaces, next : Nat \ {0}, oldest : Nat \ {0}]
    /\ r \in Seq(Nat)
    /\ Contesting => Len(answers) < Len(Inputs) /\ Len(r) = TaskCount

\* The result of task i is known in r.
Known(i) == r[i] = calcCollatz[contestInput[i]]

-----------------------------------------------------------------------------
(* Threads.                                                                *)

Threads == [pc : {"none", "run", "deferred", "ended", "joined"}, tasks : Seq(Nat)]

\* Only threads that run, or may be asked to, hold tasks, and only of a
\* contest that is going on; a call is about the first of them.
TasksInv ==
    /\ thread \in [Thread -> Threads]
    /\ \A t \in Thread :
         /\ thread[t].tasks # <<>> =>
              Contesting /\ thread[t].pc \in {"run", "deferred"}
         /\ \A k \in 1..Len(thread[t].tasks) : thread[t].tasks[k] \in 1..TaskCount
         /\ call[t].pc # "idle" =>
              /\ thread[t].pc = "run" /\ thread[t].tasks # <<>>
              /\ call[t].arg = contestInput[Head(thread[t].tasks)]

FutureInv ==
    Contesting =>
      /\ DOMAIN future = 1..TaskCount
      /\ \A i \in 1..TaskCount :
           /\ future[i] = NoValue \/ future[i] = calcCollatz[contestInput[i]]
           /\ i < main.oldest \/ (i = main.oldest /\ main.pc = "join") => Known(i)

\* The threads before this one have been joined.
FirstUnjoined ==
    IF team = "ConstThreads" THEN main.oldest - TaskCount ELSE main.oldest

StartedInv ==
    IF Contesting
    THEN /\ main.next <= JobCount + 1
         /\ main.oldest <= main.next + IF team = "ConstThreads" THEN TaskCount ELSE 0
         /\ team = "NewThreads" => main.next - main.oldest <= Size
         /\ team # "NewThreads" => AllStarted \/ main.oldest = 1
         /\ main.pc = "join" => main.oldest < main.next
         /\ \A t \in Thread : /\ t >= main.next => thread[t].pc = "none"
                              /\ t < FirstUnjoined => thread[t].pc = "joined"
    ELSE \A t \in Thread : thread[t].pc \in {"none", "joined"}

\* A task that the pool has been given and that nobody has done.
LastPushed == IF main.pc = "notify" THEN main.next ELSE main.next - 1

Open(i) == i \in 1..LastPushed /\ future[i] = NoValue

PoolTypes ==
    /\ tasks_ \in Seq(Nat)
    /\ \A t \in Thread : t \notin 1..Size => thread[t].pc = "none"
    /\ \A t \in Thread : Len(thread[t].tasks) <= 1

\* What has been pushed and what has been collected.
OrderInv ==
    /\ LastPushed <= TaskCount /\ main.oldest <= main.next
    /\ \A i \in 1..TaskCount : i < main.oldest => future[i] # NoValue
    /\ \A i \in 1..TaskCount : i > LastPushed => future[i] = NoValue

\* A task is in one place only: in the queue, or with one worker.
QueueInv ==
    \A k \in 1..Len(tasks_) :
      /\ Open(tasks_[k])
      /\ \A l \in 1..Len(tasks_) : tasks_[k] = tasks_[l] => k = l
      /\ \A t \in Thread : thread[t].tasks # <<tasks_[k]>>

HeldInv ==
    \A t \in Thread :
      thread[t].tasks # <<>> =>
        /\ Open(thread[t].tasks[1])
        /\ \A u \in Thread : thread[u].tasks = thread[t].tasks => t = u

PoolInv ==
    /\ PoolTypes
    /\ tasks_ # <<>> => Contesting
    /\ Contesting => OrderInv /\ QueueInv /\ HeldInv

ThreadInv ==
    /\ TasksInv /\ FutureInv
    /\ IF team = "Pool" THEN PoolInv ELSE StartedInv

-----------------------------------------------------------------------------
(* Processes.                                                              *)

\* The jobs that have a child, and which of them the parent is busy with.
Active(j) ==
    /\ main.oldest <= j
    /\ j < main.next \/ (j = main.next /\ main.pc \in {"open", "write"})

Sent(j) == IF j < main.next THEN "all" ELSE main.pc

Got(j) == IF j = main.oldest /\ main.pc \in {"read", "wait"} THEN main.pc ELSE "no"

WindowInv ==
    /\ main.oldest <= main.next
    /\ IF Contesting
       THEN main.next - main.oldest <= Size /\ main.next <= JobCount + 1
       ELSE main.oldest = main.next
    /\ main.pc \in {"open", "write"} => main.next <= JobCount /\ main.next - main.oldest < Size
    /\ main.pc \in {"read", "wait"} => main.oldest < main.next

\* s is what t has behind its first a and up to its first b elements.
Part(S, s, t, a, b) ==
    /\ s \in Seq(S) /\ a \in Nat /\ b \in Nat /\ Len(s) = b - a
    /\ \A k \in 1..Len(s) : s[k] = t[a + k]

Messages == [kind : {"count", "digits", "text", "result"}, of : Nat]

\* The numbers of a job, and what its child answers.
Numbers(j) == [k \in 1..Len(Work(j)) |-> contestInput[Work(j)[k]]]
Values(j)  == [k \in 1..Len(Work(j)) |-> calcCollatz[Numbers(j)[k]]]
Replies(j) == [k \in 1..Len(Work(j)) |-> Message("result", Values(j)[k])]

\* How many messages a child of n tasks has read, how many answers it has
\* written, and how many of each the parent has written and read.
HasRead(c, n) ==
    CASE c.pc \in {"start", "count"} -> 0
      [] c.pc = "digits" -> 1 + 2 * Len(c.got)
      [] c.pc = "text" -> 2 + 2 * Len(c.got)
      [] OTHER -> 1 + 2 * n

HasWritten(c, n) ==
    CASE c.pc = "write" -> n - Len(c.results)
      [] c.pc = "zombie" -> n
      [] OTHER -> 0

ParentWrote(sent, left, n) ==
    CASE sent = "open" -> 0
      [] sent = "write" -> 1 + 2 * n - Len(left)
      [] OTHER -> 1 + 2 * n

ParentRead(got, left, n) ==
    CASE got = "no" -> 0
      [] got = "read" -> n - Len(left)
      [] OTHER -> n

\* What a child of n tasks knows.
ChildInv(c, n, numbers, values) ==
    /\ c \in [pc : {"start", "count", "digits", "text", "computed", "write", "zombie"},
              count : Nat, got : Seq(Nat), results : Seq(Nat)]
    /\ c.pc \in {"start", "count"} => c.got = <<>>
    /\ c.pc \in {"digits", "text"} =>
         c.count = n /\ Part(Nat, c.got, numbers, 0, Len(c.got))
    /\ c.pc = "computed" => Len(c.results) = n
    /\ c.pc \in {"computed", "write"} => Part(Nat, c.results, values, n - Len(c.results), n)

\* The pipe by which job j is told its n tasks.
TaskPipe(j, c, q, sent, left, order, n) ==
    /\ q.readers = IF c.pc \in {"count", "digits", "text"} THEN {j} ELSE {}
    /\ q.writers = IF sent = "write" THEN {Parent} ELSE {}
    /\ q.opening = CASE c.pc = "count" /\ sent = "open"  -> {j}
                     [] c.pc = "start" /\ sent = "write" -> {Parent}
                     [] OTHER -> {}
    /\ c.pc = "start" => sent # "all"
    /\ Part(Messages, q.data, order, HasRead(c, n), ParentWrote(sent, left, n))
    /\ sent = "write" => Part(Messages, left, order, ParentWrote(sent, left, n), 1 + 2 * n)
    /\ c.pc = "start" => ParentWrote(sent, left, n) = 0

\* The pipe by which it answers.
ResultPipe(j, c, q, got, left, work, replies, n) ==
    /\ q.readers = IF got = "read" THEN {Parent} ELSE {}
    /\ q.writers = IF c.pc = "write" THEN {j} ELSE {}
    /\ q.opening = CASE got = "no" /\ c.pc = "write" -> {j}
                     [] got = "read" /\ c.pc \notin {"write", "zombie"} -> {Parent}
                     [] OTHER -> {}
    /\ c.pc = "zombie" => got # "no"
    /\ got = "wait" => c.pc \in {"write", "zombie"}
    /\ Part(Messages, q.data, replies, ParentRead(got, left, n), HasWritten(c, n))
    /\ got = "read" => Part(Nat, left, work, ParentRead(got, left, n), n)

JobInv(j) ==
    LET n == Len(Work(j))
    IN  /\ ChildInv(child[j], n, Numbers(j), Values(j))
        /\ TaskPipe(j, child[j], pipe[Task(Slot(j))], Sent(j), io, Order(Work(j)), n)
        /\ ResultPipe(j, child[j], pipe[Result(Slot(j))], Got(j), io, Work(j), Replies(j), n)

ChildrenInv ==
    \A j \in Child : IF Active(j) THEN JobInv(j) ELSE child[j].pc \in {"none", "reaped"}

\* A pipe that belongs to no job is as mkfifo makes it.
Fresh(q) == q.readers = {} /\ q.writers = {} /\ q.opening = {} /\ q.data = <<>>

FreshInv ==
    \A s \in Slots : (\A j \in Child : Active(j) => Slot(j) # s) =>
                       Fresh(pipe[Task(s)]) /\ Fresh(pipe[Result(s)])

\* What is collected is known.
CollectedInv ==
    Contesting =>
      \A j \in 1..JobCount : \A k \in 1..Len(Work(j)) :
        \/ j < main.oldest
        \/ j = main.oldest /\ k <= ParentRead(Got(j), io, Len(Work(j)))
        => Known(Work(j)[k])

\* The names of the pipes of slot s.
ResultNamed(s) == main.oldest <= s /\ s < main.next /\ ~(s = main.oldest /\ main.pc = "wait")

NamedInv ==
    /\ ~Contesting => \A f \in Pipes : ~pipe[f].named
    /\ team = "NewProcesses" =>
         \A s \in Slots : pipe[Task(s)].named = pipe[Result(s)].named
    /\ team = "ConstProcesses" =>
         \A s \in Slots :
           /\ pipe[Task(s)].named => s = main.next /\ main.pc \in {"loop", "open", "write"}
           /\ main.pc \in {"open", "write"} /\ s = main.next => pipe[Task(s)].named
           /\ pipe[Result(s)].named <=> pipe[Task(s)].named \/ ResultNamed(s)

Pipe == [named : BOOLEAN, readers : SUBSET (Child \cup {Parent}),
         writers : SUBSET (Child \cup {Parent}), opening : SUBSET (Child \cup {Parent}),
         data : Seq(Messages)]

Kid == [pc : {"none", "start", "count", "digits", "text", "computed", "write", "zombie",
              "reaped"}, count : Nat, got : Seq(Nat), results : Seq(Nat)]

ProcInv ==
    /\ pipe \in [Pipes -> Pipe] /\ child \in [Child -> Kid] /\ failed = FALSE
    /\ WindowInv /\ ChildrenInv /\ FreshInv /\ CollectedInv /\ NamedInv

TeamsInv ==
    /\ TeamInv /\ SharedInv
    /\ team \in ThreadTeam => ThreadInv /\ pipe = [f \in Pipes |-> NoPipe]
    /\ team \in ProcessTeam => ProcInv

-----------------------------------------------------------------------------
(* How tasks are dealt out.                                                *)

Less == {ss \in Nat \X Nat : ss[1] < ss[2]}

\* Less is well-founded, which the inductions below need.
LEMMA LessWellFounded == IsWellFoundedOn(Less, Nat)
BY NatLessThanWellFounded DEF OpToRel, Less

\* Induction over the naturals, said of a set.
LEMMA SetInduction ==
  ASSUME NEW S, 0 \in S, \A n \in Nat : n \in S => n + 1 \in S
  PROVE  Nat \subseteq S
<1>. DEFINE T == Nat \ S
<1>. SUFFICES ASSUME T # {} PROVE FALSE
  OBVIOUS
<1>1. PICK x \in T : \A y \in T : <<y, x>> \notin Less
  <2>1. T \subseteq Nat
    OBVIOUS
  <2>. HIDE DEF T
  <2>. QED
    BY <2>1, LessWellFounded, WFMin
<1>2. x # 0 /\ x - 1 \in Nat
  OBVIOUS
<1>3. <<x - 1, x>> \in Less
  BY <1>2 DEF Less
<1>4. x - 1 \in S
  BY <1>1, <1>2, <1>3
<1>5. x - 1 + 1 \in S
  BY <1>2, <1>4
<1>. QED
  BY <1>2, <1>5

\* A set that has with a number all before it is an interval.
LEMMA Prefix ==
  ASSUME NEW N \in Nat, NEW S \in SUBSET (1..N),
         \A k \in S, l \in 1..N : l <= k => l \in S
  PROVE  Cardinality(S) \in 0..N /\ S = 1..Cardinality(S)
<1>. DEFINE D == {n \in Nat : n <= N => \E m \in 0..n : S \cap (1..n) = 1..m}
<1>1. 0 \in D
  OBVIOUS
<1>2. ASSUME NEW n \in Nat, n \in D PROVE n + 1 \in D
  <2>. SUFFICES ASSUME n + 1 <= N PROVE \E m \in 0..n + 1 : S \cap (1..n + 1) = 1..m
    OBVIOUS
  <2>1. PICK m \in 0..n : S \cap (1..n) = 1..m
    BY <1>2
  <2>2. CASE n + 1 \in S
    <3>1. S \cap (1..n + 1) = 1..n + 1
      BY <2>2
    <3>. QED
      BY <3>1
  <2>3. CASE n + 1 \notin S
    <3>1. S \cap (1..n + 1) = 1..m
      BY <2>1, <2>3
    <3>. QED
      BY <3>1
  <2>. QED
    BY <2>2, <2>3
<1>. HIDE DEF D
<1>3. N \in D
  BY <1>1, <1>2, SetInduction
<1>4. PICK m \in 0..N : S \cap (1..N) = 1..m
  BY <1>3 DEF D
<1>5. Cardinality(1..m) = m
  BY FS_Interval
<1>. QED
  BY <1>4, <1>5

\* A product of naturals is one, and grows with its factor.
LEMMA Times == \A a, b, c \in Nat : a <= b => a * c \in Nat /\ a * c <= b * c
<1>. SUFFICES ASSUME NEW a \in Nat, NEW b \in Nat, NEW c \in Nat, a <= b
              PROVE a * c \in Nat /\ a * c <= b * c
  OBVIOUS
<1>1. PICK d \in Nat : b = a + d
  <2>1. b - a \in Nat /\ b = a + (b - a)
    OBVIOUS
  <2>. QED
    BY <2>1
<1>2. b * c = a * c + d * c /\ d * c \in Nat /\ a * c \in Nat
  BY <1>1
<1>. QED
  BY <1>2

\* Every task belongs to one of Size jobs.
Dealt(i) == \E job \in 1..Size, k \in Nat \ {0} : i = job + (k - 1) * Size

\* Every task i has i = job + (k - 1) * Size for some job and k.
LEMMA EveryDealt == \A i \in Nat : Dealt(i + 1)
<1>. DEFINE D == {i \in Nat : Dealt(i + 1)}
<1>1. 0 \in D
  <2>1. 1 \in 1..Size /\ 1 \in Nat \ {0} /\ 0 + 1 = 1 + (1 - 1) * Size
    BY TeamAssumption
  <2>. QED
    BY <2>1 DEF Dealt
<1>2. ASSUME NEW i \in Nat, i \in D PROVE i + 1 \in D
  <2>1. PICK job \in 1..Size, k \in Nat \ {0} : i + 1 = job + (k - 1) * Size
    BY <1>2 DEF Dealt
  <2>2. CASE job < Size
    <3>1. job + 1 \in 1..Size
      BY <2>2, TeamAssumption
    <3>2. (i + 1) + 1 = (job + 1) + (k - 1) * Size
      BY <2>1, TeamAssumption
    <3>. QED
      BY <3>1, <3>2 DEF Dealt
  <2>3. CASE job = Size
    <3>1. k * Size = (k - 1) * Size + Size
      BY TeamAssumption
    <3>2. (i + 1) + 1 = 1 + ((k + 1) - 1) * Size
      BY <2>1, <2>3, <3>1, TeamAssumption
    <3>3. k + 1 \in Nat \ {0} /\ 1 \in 1..Size
      BY TeamAssumption
    <3>. QED
      BY <3>2, <3>3 DEF Dealt
  <2>. QED
    BY <2>2, <2>3, TeamAssumption
<1>. HIDE DEF D
<1>3. Nat \subseteq D
  BY <1>1, <1>2, SetInduction
<1>. QED
  BY <1>3 DEF D

\* What Deal deals, said of any number of tasks.
Share(job, k) == job + (k - 1) * Size
HasShare(n, job) == {k \in 1..n : Share(job, k) <= n}

\* The k-th share of a job is a task number of at least k.
LEMMA ShareType ==
  ASSUME NEW job \in Nat \ {0}
  PROVE  \A k \in Nat \ {0} : Share(job, k) \in Nat /\ Share(job, k) >= k
<1>. SUFFICES ASSUME NEW k \in Nat \ {0} PROVE Share(job, k) \in Nat /\ Share(job, k) >= k
  OBVIOUS
<1>1. Size \in Nat /\ 1 <= Size /\ k - 1 \in Nat /\ 1 \in Nat
  BY TeamAssumption
<1>2. (k - 1) * Size \in Nat
  BY <1>1
<1>3. 1 * (k - 1) <= Size * (k - 1)
  BY ONLY <1>1, Times
<1>4. (k - 1) <= (k - 1) * Size
  BY <1>1, <1>3
<1>. QED
  BY <1>2, <1>4 DEF Share

\* The shares that are tasks are the first ones of their job.
LEMMA SharesPrefix ==
  ASSUME NEW n \in Nat, NEW job \in Nat \ {0}
  PROVE  /\ Cardinality(HasShare(n, job)) \in 0..n
         /\ HasShare(n, job) = 1..Cardinality(HasShare(n, job))
<1>1. ASSUME NEW k \in HasShare(n, job), NEW l \in 1..n, l <= k PROVE l \in HasShare(n, job)
  <2>1. k \in 1..n /\ Share(job, k) <= n
    BY DEF HasShare
  <2>2. l - 1 \in Nat /\ k - 1 \in Nat /\ l - 1 <= k - 1 /\ Size \in Nat
    BY <1>1, <2>1, TeamAssumption
  <2>3. (l - 1) * Size <= (k - 1) * Size /\ (l - 1) * Size \in Nat /\ (k - 1) * Size \in Nat
    BY ONLY <2>2, Times
  <2>4. Share(job, l) <= Share(job, k) /\ Share(job, l) \in Nat /\ Share(job, k) \in Nat
    BY <2>3 DEF Share
  <2>. QED
    BY <2>1, <2>4 DEF HasShare
<1>2. HasShare(n, job) \in SUBSET (1..n)
  BY DEF HasShare
<1>. QED
  BY <1>1, <1>2, Prefix

\* Deal in terms of Share.
LEMMA DealIs ==
  ASSUME NEW job \in Nat \ {0}, TaskCount \in Nat
  PROVE  Deal(job) = [k \in 1..Cardinality(HasShare(TaskCount, job)) |-> Share(job, k)]
BY DEF Deal, HasShare, Share

\* The tasks of a job are tasks of the contest, and every task has its job.
LEMMA WorkRight ==
  ASSUME TaskCount \in Nat
  PROVE  /\ \A job \in 1..JobCount :
              /\ Work(job) \in Seq(Nat)
              /\ \A k \in 1..Len(Work(job)) : Work(job)[k] \in 1..TaskCount
         /\ \A i \in 1..TaskCount :
              \E job \in 1..JobCount : \E k \in 1..Len(Work(job)) : Work(job)[k] = i
<1>1. CASE team \in {"ConstThreads", "ConstProcesses"}
  <2>1. JobCount = Size /\ \A job : Work(job) = Deal(job)
    BY <1>1 DEF JobCount, Work
  <2>2. ASSUME NEW job \in 1..Size
        PROVE  /\ Deal(job) \in Seq(Nat)
               /\ Len(Deal(job)) = Cardinality(HasShare(TaskCount, job))
               /\ \A k \in 1..Len(Deal(job)) : Deal(job)[k] = Share(job, k)
               /\ \A k \in 1..Len(Deal(job)) : Deal(job)[k] \in 1..TaskCount
    <3>. DEFINE c == Cardinality(HasShare(TaskCount, job))
    <3>1. job \in Nat \ {0}
      BY TeamAssumption
    <3>2. c \in Nat /\ HasShare(TaskCount, job) = 1..c
      BY <3>1, SharesPrefix
    <3>3. Deal(job) = [k \in 1..c |-> Share(job, k)]
      BY <3>1, DealIs
    <3>4. \A k \in Nat \ {0} : Share(job, k) \in Nat /\ Share(job, k) >= k
      BY <3>1, ShareType
    <3>5. \A k \in 1..c : Share(job, k) \in Nat /\ Share(job, k) \in 1..TaskCount
      BY <3>2, <3>4 DEF HasShare
    <3>. HIDE DEF c
    <3>6. \A f : f = [k \in 1..c |-> Share(job, k)] => f \in Seq(Nat) /\ Len(f) = c
      BY <3>2, <3>5
    <3>. QED
      BY <3>2, <3>3, <3>5, <3>6 DEF c
  <2>3. ASSUME NEW i \in 1..TaskCount
        PROVE  \E job \in 1..Size : \E k \in 1..Len(Deal(job)) : Deal(job)[k] = i
    <3>1. i - 1 \in Nat /\ (i - 1) + 1 = i
      OBVIOUS
    <3>2. PICK job \in 1..Size, k \in Nat \ {0} : i = job + (k - 1) * Size
      BY <3>1, EveryDealt DEF Dealt
    <3>3. job \in Nat \ {0}
      BY TeamAssumption
    <3>4. Share(job, k) = i /\ i >= k
      BY <3>2, <3>3, ShareType DEF Share
    <3>5. k \in HasShare(TaskCount, job)
      BY <3>4 DEF HasShare
    <3>6. k \in 1..Len(Deal(job))
      BY <3>3, <3>5, <2>2, SharesPrefix
    <3>. QED
      BY <3>4, <3>6, <2>2
  <2>. QED
    BY <2>1, <2>2, <2>3
<1>2. CASE team \notin {"ConstThreads", "ConstProcesses"}
  <2>1. JobCount = TaskCount /\ \A job : Work(job) = <<job>>
    BY <1>2 DEF JobCount, Work
  <2>2. \A job \in 1..TaskCount : <<job>> \in Seq(Nat) /\ Len(<<job>>) = 1 /\ <<job>>[1] = job
    OBVIOUS
  <2>. QED
    BY <2>1, <2>2
<1>. QED
  BY <1>1, <1>2

-----------------------------------------------------------------------------
(* What the threads' steps keep.                                           *)

\* The types of the contest that is going on.
LEMMA ContestFacts ==
  ASSUME TeamInv
  PROVE  /\ TaskCount \in Nat /\ JobCount \in Nat
         /\ Contesting =>
              /\ contestInput \in Seq(Number) /\ TaskCount = Len(contestInput)
              /\ \A i \in 1..TaskCount : /\ contestInput[i] \in Number
                                         /\ calcCollatz[contestInput[i]] \in Nat
                                         /\ i \in Thread /\ i \in Child
         /\ 1..JobCount \subseteq Thread /\ 1..JobCount \subseteq Child
<1>1. Len(answers) \in Nat /\ Len(Inputs) \in Nat /\ Len(answers) <= Len(Inputs)
  BY InputsAssumption DEF TeamInv
<1>2. CASE Len(answers) < Len(Inputs)
  <2>1. Len(answers) + 1 \in 1..Len(Inputs)
    BY <1>1, <1>2
  <2>2. contestInput \in Seq(Number) /\ 1..Len(contestInput) \subseteq Thread \cap Child
    BY <2>1, InputsAssumption, WorkersAssumption DEF contestInput
  <2>3. TaskCount = Len(contestInput) /\ TaskCount \in Nat
    BY <1>2, <2>2 DEF TaskCount
  <2>4. \A i \in 1..TaskCount : contestInput[i] \in Number
    BY <2>2, <2>3
  <2>5. JobCount \in Nat /\ 1..JobCount \subseteq Thread \cap Child
    BY <2>2, <2>3, TeamAssumption, WorkersAssumption DEF JobCount
  <2>. QED
    BY <2>2, <2>3, <2>4, <2>5, CollatzAssumption
<1>3. CASE Len(answers) = Len(Inputs)
  <2>1. TaskCount = 0 /\ ~Contesting
    BY <1>1, <1>3 DEF TaskCount, TeamInv
  <2>2. JobCount \in Nat /\ 1..JobCount \subseteq Thread \cap Child
    BY <2>1, TeamAssumption, WorkersAssumption DEF JobCount
  <2>. QED
    BY <2>1, <2>2
<1>. QED
  BY <1>1, <1>2, <1>3

\* The contest is the same as long as its team and answers are.
LEMMA SameContest ==
  ASSUME answers' = answers, team' = team
  PROVE  /\ contestInput' = contestInput /\ TaskCount' = TaskCount /\ JobCount' = JobCount
         /\ MainPlaces' = MainPlaces
         /\ \A job : Work(job)' = Work(job)
BY DEF contestInput, TaskCount, JobCount, MainPlaces, Work, Deal

\* A step that leaves the team, the contest and the main thread alone.
LEMMA SameTeam ==
  ASSUME TeamInv, UNCHANGED teamVars
  PROVE  TeamInv' /\ Contesting' = Contesting
<1>1. UNCHANGED <<team, share, answers, main, r>>
  BY DEF teamVars
<1>2. TaskCount' = TaskCount /\ MainPlaces' = MainPlaces
  BY <1>1, SameContest
<1>3. Contesting' = Contesting
  BY <1>1 DEF Contesting
<1>. QED
  BY <1>1, <1>2, <1>3 DEF TeamInv

\* A step of the main thread within a contest.
LEMMA WithinContest ==
  ASSUME TeamInv, Contesting,
         answers' = answers, team' = team, share' = share,
         main' \in [pc : MainPlaces, next : Nat \ {0}, oldest : Nat \ {0}],
         Contesting',
         r' = r \/ (\E i, v : r' = [r EXCEPT ![i] = v] /\ (i \in 1..TaskCount => v \in Nat))
  PROVE  TeamInv'
<1>1. TaskCount' = TaskCount /\ MainPlaces' = MainPlaces
  BY SameContest
<1>2. r \in Seq(Nat) /\ Len(r) = TaskCount /\ TaskCount \in Nat
  BY ContestFacts DEF TeamInv
<1>3. r' \in Seq(Nat) /\ Len(r') = TaskCount
  <2>1. CASE r' = r
    BY <2>1, <1>2
  <2>2. ASSUME NEW i, NEW v, r' = [r EXCEPT ![i] = v], i \in 1..TaskCount => v \in Nat
        PROVE  r' \in Seq(Nat) /\ Len(r') = TaskCount
    <3>1. r \in [1..TaskCount -> Nat]
      BY <1>2
    <3>2. r' \in [1..TaskCount -> Nat]
      BY <3>1, <2>2
    <3>3. \A f \in [1..TaskCount -> Nat] : f \in Seq(Nat) /\ Len(f) = TaskCount
      BY <1>2
    <3>. QED
      BY <3>2, <3>3
  <2>. QED
    BY <2>1, <2>2
<1>4. Len(answers) < Len(Inputs)
  BY DEF TeamInv
<1>. QED
  BY <1>1, <1>3, <1>4 DEF TeamInv

-----------------------------------------------------------------------------
(* The workers.                                                            *)

\* What a thread that computes relies on.
LEMMA CallFacts ==
  ASSUME TeamInv, SharedInv, TasksInv, NEW t \in Thread
  PROVE  /\ call[t] \in Calls /\ thread[t] \in Threads
         /\ thread[t].tasks # <<>> =>
              /\ Head(thread[t].tasks) \in 1..TaskCount
              /\ Head(thread[t].tasks) = thread[t].tasks[1]
              /\ contestInput[Head(thread[t].tasks)] \in Number
<1>1. call[t] \in Calls /\ thread[t] \in Threads
  BY DEF SharedInv, TasksInv
<1>2. ASSUME thread[t].tasks # <<>>
      PROVE  /\ Head(thread[t].tasks) = thread[t].tasks[1]
             /\ thread[t].tasks[1] \in 1..TaskCount
             /\ contestInput[thread[t].tasks[1]] \in Number
  <2>1. thread[t].tasks \in Seq(Nat)
    BY <1>1 DEF Threads
  <2>2. 1 \in 1..Len(thread[t].tasks) /\ Head(thread[t].tasks) = thread[t].tasks[1]
    BY <2>1, <1>2
  <2>3. thread[t].tasks[1] \in 1..TaskCount /\ Contesting
    BY <2>2, <1>2 DEF TasksInv
  <2>. QED
    BY <2>2, <2>3, ContestFacts
<1>. QED
  BY <1>1, <1>2

\* Steps that change only the calls.
LEMMA OnlyCalls ==
  ASSUME TeamInv, SharedInv, ThreadInv, UNCHANGED <<teamVars, threadVars, poolVars>>,
         \A t \in Thread :
           call'[t].pc # "idle" =>
             \/ call[t].pc # "idle" /\ call'[t].arg = call[t].arg
             \/ Holding(t) /\ call'[t].arg = contestInput[Head(thread[t].tasks)]
  PROVE  TeamInv' /\ ThreadInv'
<1>1. TeamInv' /\ Contesting' = Contesting
  BY SameTeam
<1>2. UNCHANGED <<team, share, answers, main, r, future, thread, tasks_, done_, asleep>>
  BY DEF teamVars, threadVars, poolVars
<1>3. contestInput' = contestInput /\ TaskCount' = TaskCount /\ JobCount' = JobCount
  BY <1>2, SameContest
<1>4. TasksInv'
  BY <1>1, <1>2, <1>3 DEF ThreadInv, TasksInv, Holding
<1>5. FutureInv'
  BY <1>1, <1>2, <1>3 DEF ThreadInv, FutureInv, Known
<1>6. LastPushed' = LastPushed /\ FirstUnjoined' = FirstUnjoined /\ AllStarted' = AllStarted
  BY <1>2, <1>3 DEF LastPushed, FirstUnjoined, AllStarted
<1>7. ASSUME team = "Pool" PROVE PoolInv'
  <2>1. PoolInv
    BY <1>7 DEF ThreadInv
  <2>. QED
    BY <1>1, <1>2, <1>3, <1>6, <2>1
       DEF PoolInv, PoolTypes, OrderInv, QueueInv, HeldInv, Open
<1>8. team # "Pool" => StartedInv'
  BY <1>1, <1>2, <1>3, <1>6 DEF ThreadInv, StartedInv
<1>. QED
  BY <1>1, <1>2, <1>4, <1>5, <1>7, <1>8 DEF ThreadInv

\* A worker starts with a task: it enters the table, or calculates.
LEMMA StartTaskKeeps ==
  ASSUME TeamInv, SharedInv, ThreadInv, NEW t \in Thread, StartTask(t)
  PROVE  TeamInv' /\ SharedInv' /\ ThreadInv'
<1>. DEFINE n == contestInput[Head(thread[t].tasks)]
<1>1. Holding(t) /\ UNCHANGED <<teamVars, threadVars, poolVars>> /\ (Enter(t, n) \/ Calculate(t, n))
  BY DEF StartTask
<1>2. n \in Number
  BY <1>1, CallFacts DEF ThreadInv, Holding
<1>. HIDE DEF n
<1>3. SharedInv'
  BY <1>1, <1>2, EnterRight, CalculateRight
<1>4. call'[t].arg = n /\ \A u \in Thread \ {t} : call'[u] = call[u]
  BY <1>1 DEF Enter, Calculate, SharedInv, Idle
<1>5. \A u \in Thread :
        call'[u].pc # "idle" =>
          \/ call[u].pc # "idle" /\ call'[u].arg = call[u].arg
          \/ Holding(u) /\ call'[u].arg = contestInput[Head(thread[u].tasks)]
  BY <1>1, <1>4 DEF n
<1>. QED
  BY <1>1, <1>3, <1>5, OnlyCalls

\* A worker gets from the shared table or inserts into it.
LEMMA ShareStepKeeps ==
  ASSUME TeamInv, SharedInv, ThreadInv, NEW t \in Thread, ShareStep(t)
  PROVE  TeamInv' /\ SharedInv' /\ ThreadInv'
<1>1. (Get(t) \/ Insert(t)) /\ UNCHANGED <<teamVars, threadVars, poolVars>>
  BY DEF ShareStep
<1>2. SharedInv'
  BY <1>1, GetStepRight, InsertStepRight
<1>3. call[t].pc # "idle"
  BY <1>1 DEF Get, Insert
<1>4. call'[t].arg = call[t].arg /\ \A u \in Thread \ {t} : call'[u] = call[u]
  <2>1. call[t] \in Calls /\ DOMAIN call = Thread
    BY DEF SharedInv
  <2>2. \A c \in Calls : \A s, v : Returning(c, s, v).arg = c.arg
    BY DEF Returning, Calls
  <2>3. \A c \in Calls : \A n, s : [c EXCEPT !.n = n, !.stack = s].arg = c.arg
    BY DEF Calls
  <2>4. \E d : call' = [call EXCEPT ![t] = d] /\ d.arg = call[t].arg
    <3>1. CASE Get(t)
      <4>. DEFINE c == call[t]
                  d == IF c.n = 1 \/ get(c.n) # 0
                       THEN Returning(c, c.stack, get(c.n))
                       ELSE [c EXCEPT !.n = Successor(c.n), !.stack = <<c.n>> \o c.stack]
      <4>1. call' = [call EXCEPT ![t] = d]
        BY <3>1 DEF Get
      <4>2. d.arg = c.arg
        BY <2>1, <2>2, <2>3
      <4>. QED
        BY <4>1, <4>2
    <3>2. CASE Insert(t)
      <4>. DEFINE d == Returning(call[t], Tail(call[t].stack), call[t].value + 1)
      <4>1. call' = [call EXCEPT ![t] = d]
        BY <3>2 DEF Insert
      <4>2. d.arg = call[t].arg
        BY <2>1, <2>2
      <4>. QED
        BY <4>1, <4>2
    <3>. QED
      BY <1>1, <3>1, <3>2
  <2>. QED
    BY <2>1, <2>4
<1>5. \A u \in Thread :
        call'[u].pc # "idle" =>
          \/ call[u].pc # "idle" /\ call'[u].arg = call[u].arg
          \/ Holding(u) /\ call'[u].arg = contestInput[Head(thread[u].tasks)]
  BY <1>3, <1>4
<1>. QED
  BY <1>1, <1>2, <1>5, OnlyCalls

\* What is left of a sequence without its head.
LEMMA TailFacts ==
  ASSUME NEW s \in Seq(Nat), s # <<>>
  PROVE  /\ Tail(s) \in Seq(Nat) /\ Len(Tail(s)) = Len(s) - 1 /\ Len(s) \in Nat \ {0}
         /\ \A k \in 1..Len(Tail(s)) : Tail(s)[k] = s[k + 1] /\ k + 1 \in 1..Len(s)
         /\ Head(s) = s[1]
         /\ Len(s) <= 1 => Tail(s) = <<>>
<1>1. Len(s) \in Nat \ {0} /\ Tail(s) \in Seq(Nat) /\ Len(Tail(s)) = Len(s) - 1
  OBVIOUS
<1>2. \A k \in 1..Len(Tail(s)) : Tail(s)[k] = s[k + 1] /\ k + 1 \in 1..Len(s)
  BY <1>1
<1>3. Len(s) <= 1 => Tail(s) = <<>>
  BY <1>1
<1>. QED
  BY <1>1, <1>2, <1>3

\* A sequence of at most one element is its head.
LEMMA OneTask ==
  ASSUME NEW s \in Seq(Nat), s # <<>>, Len(s) <= 1
  PROVE  s = <<s[1]>>
<1>1. Len(s) \in Nat \ {0}
  OBVIOUS
<1>2. \A n \in Nat \ {0} : n <= 1 => n = 1
  OBVIOUS
<1>3. Len(s) = 1
  BY <1>1, <1>2
<1>. QED
  BY <1>3

\* A promise is kept with the result of its task.
LEMMA SetValueKeeps ==
  ASSUME TeamInv, SharedInv, ThreadInv, NEW t \in Thread, SetValue(t)
  PROVE  TeamInv' /\ SharedInv' /\ ThreadInv'
<1>. DEFINE s == thread[t].tasks
            i == Head(s)
<1>1. Leave(t) /\ UNCHANGED teamVars /\ UNCHANGED poolVars
  BY DEF SetValue
<1>2. TeamInv' /\ Contesting' = Contesting
  BY <1>1, SameTeam
<1>3. SharedInv'
  BY <1>1, LeaveRight
<1>4. UNCHANGED <<team, share, answers, main, r, tasks_, done_, asleep>>
  BY <1>1 DEF teamVars, poolVars
<1>5. contestInput' = contestInput /\ TaskCount' = TaskCount /\ JobCount' = JobCount
  BY <1>4, SameContest
<1>6. /\ call[t] \in Calls /\ thread[t] \in Threads /\ call[t].pc = "done"
      /\ thread[t].pc = "run" /\ s # <<>> /\ call[t].arg = contestInput[i]
      /\ i \in 1..TaskCount /\ i = s[1] /\ Contesting
      /\ s \in Seq(Nat)
  BY <1>1, CallFacts DEF ThreadInv, TasksInv, Leave, Threads
<1>7. call[t].value = calcCollatz[contestInput[i]] /\ call[t].value \in Nat
  BY <1>6 DEF SharedInv, CallRight, Calls
<1>8. DOMAIN thread = Thread /\ DOMAIN call = Thread /\ (Contesting => DOMAIN future = 1..TaskCount)
  BY DEF SharedInv, ThreadInv, TasksInv, FutureInv
<1>9. /\ future' = [future EXCEPT ![i] = call[t].value]
      /\ thread' = [thread EXCEPT ![t].tasks = Tail(s)]
      /\ call' = [call EXCEPT ![t] = Idle]
  BY DEF SetValue, Leave
<1>10. /\ \A u \in Thread : thread'[u].pc = thread[u].pc
       /\ thread'[t].tasks = Tail(s)
       /\ \A u \in Thread \ {t} : thread'[u] = thread[u] /\ call'[u] = call[u]
       /\ call'[t].pc = "idle"
       /\ thread' \in [Thread -> Threads]
  <2>1. thread \in [Thread -> Threads] /\ Tail(s) \in Seq(Nat)
    BY <1>6, TailFacts DEF ThreadInv, TasksInv
  <2>. QED
    BY <1>8, <1>9, <2>1 DEF Threads, Idle
<1>11. /\ DOMAIN future' = 1..TaskCount
       /\ future'[i] = calcCollatz[contestInput[i]]
       /\ \A j \in 1..TaskCount \ {i} : future'[j] = future[j]
  BY <1>6, <1>7, <1>8, <1>9
<1>12. \A k \in 1..Len(Tail(s)) : Tail(s)[k] \in 1..TaskCount
  BY <1>6, TailFacts DEF ThreadInv, TasksInv
<1>. HIDE DEF s, i
<1>13. TasksInv'
  BY <1>2, <1>4, <1>5, <1>6, <1>10, <1>12 DEF ThreadInv, TasksInv
<1>14. FutureInv'
  BY <1>2, <1>4, <1>5, <1>11 DEF ThreadInv, FutureInv, Known
<1>15. ASSUME team = "Pool" PROVE PoolInv'
  <2>1. PoolTypes /\ OrderInv /\ QueueInv /\ HeldInv
    BY <1>6, <1>15 DEF ThreadInv, PoolInv
  <2>2. LastPushed \in Int /\ TaskCount \in Nat /\ LastPushed <= TaskCount
        /\ LastPushed' = LastPushed
    BY <1>4, <2>1, ContestFacts DEF OrderInv, LastPushed, TeamInv
  <2>3. Tail(s) = <<>> /\ thread[t].tasks = <<i>>
    <3>1. Len(s) <= 1 /\ s = thread[t].tasks
      BY <2>1 DEF PoolTypes, s
    <3>. QED
      BY <1>6, <3>1, OneTask, TailFacts
  <2>4. thread[t].tasks # <<>> /\ thread[t].tasks[1] = i
    BY <2>3
  <2>5. Open(i)
    BY <2>1, <2>4 DEF HeldInv
  <2>6. \A k \in 1..Len(tasks_) : tasks_[k] # i
    BY <2>1, <2>3 DEF QueueInv
  <2>7. ASSUME NEW u \in Thread \ {t}, thread[u].tasks # <<>> PROVE thread[u].tasks[1] # i
    <3>. SUFFICES ASSUME thread[u].tasks[1] = i PROVE FALSE
      OBVIOUS
    <3>1. thread[u].tasks \in Seq(Nat) /\ Len(thread[u].tasks) <= 1
      BY <2>1 DEF PoolTypes, ThreadInv, TasksInv, Threads
    <3>2. thread[u].tasks = <<i>>
      BY <2>7, <3>1, OneTask
    <3>. QED
      BY <2>1, <2>3, <2>4, <3>2 DEF HeldInv
  <2>8. calcCollatz[contestInput[i]] # NoValue
    BY <1>7, WorkersAssumption
  <2>9. PoolTypes'
    <3>1. Len(Tail(s)) <= 1
      BY <2>3
    <3>. QED
      BY <1>4, <1>10, <2>1, <3>1 DEF PoolTypes
  <2>10. OrderInv'
    <3>1. ASSUME NEW j \in 1..TaskCount, j < main.oldest PROVE future'[j] # NoValue
      <4>1. future[j] # NoValue
        BY <2>1, <3>1 DEF OrderInv
      <4>2. CASE j = i
        BY <1>11, <2>8, <4>2
      <4>3. CASE j # i
        BY <1>11, <4>1, <4>3
      <4>. QED
        BY <4>2, <4>3
    <3>2. \A j \in 1..TaskCount : j > LastPushed => j # i
      BY <2>2, <2>5 DEF Open
    <3>3. \A j \in 1..TaskCount : j > LastPushed => future'[j] = NoValue
      BY <1>11, <2>1, <3>2 DEF OrderInv
    <3>. QED
      BY <1>4, <1>5, <2>1, <2>2, <3>1, <3>3 DEF OrderInv
  <2>11. \A j \in Nat : Open(j) /\ j # i => j \in 1..LastPushed /\ future'[j] = NoValue
    <3>1. \A j \in 1..LastPushed : j \in 1..TaskCount
      BY <2>2
    <3>. QED
      BY <1>11, <3>1 DEF Open
  <2>12. QueueInv'
    <3>. SUFFICES ASSUME NEW k \in 1..Len(tasks_)
                  PROVE  /\ tasks_[k] \in 1..LastPushed /\ future'[tasks_[k]] = NoValue
                         /\ \A l \in 1..Len(tasks_) : tasks_[k] = tasks_[l] => k = l
                         /\ \A u \in Thread : thread'[u].tasks # <<tasks_[k]>>
      BY <1>4, <2>2 DEF QueueInv, Open
    <3>1. tasks_[k] \in Nat
      BY <2>1 DEF PoolTypes
    <3>2. Open(tasks_[k]) /\ \A l \in 1..Len(tasks_) : tasks_[k] = tasks_[l] => k = l
      BY <2>1 DEF QueueInv
    <3>3. ASSUME NEW u \in Thread PROVE thread'[u].tasks # <<tasks_[k]>>
      <4>1. CASE u = t
        <5>1. \A x : <<>> # <<x>>
          OBVIOUS
        <5>. QED
          BY <1>10, <2>3, <4>1, <5>1
      <4>2. CASE u # t
        <5>1. thread[u].tasks # <<tasks_[k]>>
          BY <2>1 DEF QueueInv
        <5>. QED
          BY <1>10, <4>2, <5>1
      <4>. QED
        BY <4>1, <4>2
    <3>. QED
      BY <2>6, <2>11, <3>1, <3>2, <3>3
  <2>13. HeldInv'
    <3>. SUFFICES ASSUME NEW u \in Thread, thread'[u].tasks # <<>>
                  PROVE  /\ thread'[u].tasks[1] \in 1..LastPushed
                         /\ future'[thread'[u].tasks[1]] = NoValue
                         /\ \A v \in Thread : thread'[v].tasks = thread'[u].tasks => u = v
      BY <2>2 DEF HeldInv, Open
    <3>1. u # t /\ thread'[u] = thread[u]
      BY <1>10, <2>3
    <3>2. /\ Open(thread[u].tasks[1])
          /\ \A v \in Thread : thread[v].tasks = thread[u].tasks => u = v
      BY <2>1, <3>1 DEF HeldInv
    <3>3. thread[u].tasks[1] \in Nat /\ thread[u].tasks[1] # i
      BY <2>7, <3>1, <3>2 DEF Open
    <3>4. \A v \in Thread : thread'[v].tasks = thread[u].tasks => u = v
      BY <1>10, <2>3, <3>1, <3>2
    <3>. QED
      BY <2>11, <3>1, <3>2, <3>3, <3>4
  <2>. QED
    BY <1>2, <1>4, <1>6, <2>9, <2>10, <2>12, <2>13 DEF PoolInv
<1>16. ASSUME team # "Pool" PROVE StartedInv'
  <2>1. FirstUnjoined' = FirstUnjoined /\ AllStarted' = AllStarted
    BY <1>4, <1>5 DEF FirstUnjoined, AllStarted
  <2>2. StartedInv
    BY <1>16 DEF ThreadInv
  <2>. QED
    BY <1>2, <1>4, <1>5, <1>10, <2>1, <2>2 DEF StartedInv
<1>. QED
  BY <1>2, <1>3, <1>4, <1>13, <1>14, <1>15, <1>16 DEF ThreadInv

\* Steps that leave the contest, its futures and the calls alone.
LEMMA SameCalls ==
  ASSUME TeamInv, SharedInv, ThreadInv, UNCHANGED <<teamVars, future, sharedVars>>
  PROVE  /\ TeamInv' /\ SharedInv' /\ FutureInv' /\ Contesting' = Contesting
         /\ UNCHANGED <<team, share, answers, main, r, results, call>>
         /\ contestInput' = contestInput /\ TaskCount' = TaskCount /\ JobCount' = JobCount
         /\ LastPushed' = LastPushed /\ FirstUnjoined' = FirstUnjoined /\ AllStarted' = AllStarted
<1>1. TeamInv' /\ Contesting' = Contesting
  BY SameTeam
<1>2. UNCHANGED <<team, share, answers, main, r, results, call>>
  BY DEF teamVars, sharedVars
<1>3. contestInput' = contestInput /\ TaskCount' = TaskCount /\ JobCount' = JobCount
  BY <1>2, SameContest
<1>4. SharedInv'
  BY <1>2 DEF SharedInv
<1>5. FutureInv'
  BY <1>1, <1>2, <1>3 DEF ThreadInv, FutureInv, Known
<1>6. LastPushed' = LastPushed /\ FirstUnjoined' = FirstUnjoined /\ AllStarted' = AllStarted
  BY <1>2, <1>3 DEF LastPushed, FirstUnjoined, AllStarted
<1>. QED
  BY <1>1, <1>2, <1>3, <1>4, <1>5, <1>6

\* A thread that has no tasks goes from one place to another.
LEMMA MovesThread ==
  ASSUME TasksInv, NEW t \in Thread, NEW p \in {"ended", "joined", "run"},
         thread[t].tasks = <<>> \/ p = "run",
         thread' = [thread EXCEPT ![t].pc = p], UNCHANGED call,
         contestInput' = contestInput, TaskCount' = TaskCount, Contesting' = Contesting
  PROVE  /\ TasksInv'
         /\ \A u \in Thread : thread'[u].tasks = thread[u].tasks
         /\ thread'[t].pc = p
         /\ \A u \in Thread \ {t} : thread'[u] = thread[u]
<1>1. /\ thread' \in [Thread -> Threads]
      /\ \A u \in Thread : thread'[u].tasks = thread[u].tasks
      /\ thread'[t].pc = p
      /\ \A u \in Thread \ {t} : thread'[u] = thread[u]
  BY DEF TasksInv, Threads
<1>2. ASSUME NEW u \in Thread
      PROVE  /\ thread'[u].tasks # <<>> => Contesting /\ thread'[u].pc \in {"run", "deferred"}
             /\ call[u].pc # "idle" => thread'[u].pc = "run"
  <2>1. CASE u = t
    BY <1>1, <2>1 DEF TasksInv
  <2>2. CASE u # t
    BY <1>1, <2>2 DEF TasksInv
  <2>. QED
    BY <2>1, <2>2
<1>. QED
  BY <1>1, <1>2 DEF TasksInv

\* The function of a thread returns.
LEMMA EndThreadKeeps ==
  ASSUME TeamInv, SharedInv, ThreadInv, NEW t \in Thread, EndThread(t)
  PROVE  TeamInv' /\ SharedInv' /\ ThreadInv'
<1>1. /\ team # "Pool" /\ thread[t].pc = "run" /\ thread[t].tasks = <<>>
      /\ thread' = [thread EXCEPT ![t].pc = "ended"]
      /\ UNCHANGED <<teamVars, future, sharedVars>>
  BY DEF EndThread
<1>2. /\ TeamInv' /\ SharedInv' /\ FutureInv' /\ Contesting' = Contesting
      /\ UNCHANGED <<team, answers, main, call>>
      /\ contestInput' = contestInput /\ TaskCount' = TaskCount /\ JobCount' = JobCount
      /\ FirstUnjoined' = FirstUnjoined /\ AllStarted' = AllStarted
  BY <1>1, SameCalls
<1>3. TasksInv /\ StartedInv
  BY <1>1 DEF ThreadInv
<1>4. /\ TasksInv' /\ thread'[t].pc = "ended"
      /\ \A u \in Thread \ {t} : thread'[u] = thread[u]
  BY <1>1, <1>2, <1>3, MovesThread
<1>5. StartedInv'
  BY <1>1, <1>2, <1>3, <1>4 DEF StartedInv
<1>. QED
  BY <1>1, <1>2, <1>4, <1>5 DEF ThreadInv

\* A worker of the pool wakes up without a notification.
LEMMA AwakeKeeps ==
  ASSUME TeamInv, SharedInv, ThreadInv, NEW t \in Thread, Awake(t)
  PROVE  TeamInv' /\ SharedInv' /\ ThreadInv'
<1>1. UNCHANGED <<teamVars, threadVars, sharedVars>> /\ UNCHANGED <<tasks_, done_>>
  BY DEF Awake, SpuriousWake
<1>2. UNCHANGED <<teamVars, future, sharedVars>> /\ UNCHANGED <<future, thread>>
  BY <1>1 DEF threadVars
<1>3. /\ TeamInv' /\ SharedInv' /\ FutureInv' /\ Contesting' = Contesting
      /\ UNCHANGED <<team, answers, main, call>>
      /\ contestInput' = contestInput /\ TaskCount' = TaskCount /\ JobCount' = JobCount
      /\ LastPushed' = LastPushed /\ FirstUnjoined' = FirstUnjoined /\ AllStarted' = AllStarted
  BY <1>2, SameCalls
<1>4. TasksInv'
  BY <1>2, <1>3 DEF ThreadInv, TasksInv
<1>5. team # "Pool" => StartedInv'
  BY <1>2, <1>3 DEF ThreadInv, StartedInv
<1>6. ASSUME team = "Pool" PROVE PoolInv'
  <2>1. PoolInv
    BY <1>6 DEF ThreadInv
  <2>. QED
    BY <1>1, <1>2, <1>3, <2>1 DEF PoolInv, PoolTypes, OrderInv, QueueInv, HeldInv, Open
<1>. QED
  BY <1>3, <1>4, <1>5, <1>6 DEF ThreadInv

\* A worker of the pool takes the oldest task, goes to sleep or ends.
LEMMA TakeTaskKeeps ==
  ASSUME TeamInv, SharedInv, ThreadInv, NEW w \in Thread, TakeTask(w)
  PROVE  TeamInv' /\ SharedInv' /\ ThreadInv'
<1>1. /\ team = "Pool" /\ thread[w].pc = "run" /\ thread[w].tasks = <<>>
      /\ UNCHANGED <<teamVars, future, sharedVars>>
  BY DEF TakeTask
<1>2. /\ TeamInv' /\ SharedInv' /\ FutureInv' /\ Contesting' = Contesting
      /\ UNCHANGED <<team, answers, main, call>> /\ UNCHANGED future
      /\ contestInput' = contestInput /\ TaskCount' = TaskCount
      /\ LastPushed' = LastPushed
  BY <1>1, SameCalls
<1>3. TasksInv /\ PoolInv /\ PoolTypes
  BY <1>1 DEF ThreadInv, PoolInv
<1>4. CASE /\ tasks_ # <<>> /\ tasks_' = Tail(tasks_)
           /\ thread' = [thread EXCEPT ![w].tasks = <<Head(tasks_)>>]
  <2>. DEFINE i == tasks_[1]
  <2>1. Contesting /\ OrderInv /\ QueueInv /\ HeldInv /\ tasks_ \in Seq(Nat)
    BY <1>3, <1>4 DEF PoolInv, PoolTypes
  <2>2. /\ Tail(tasks_) \in Seq(Nat) /\ Head(tasks_) = i
        /\ \A k \in 1..Len(Tail(tasks_)) :
             Tail(tasks_)[k] = tasks_[k + 1] /\ k + 1 \in 1..Len(tasks_)
        /\ 1 \in 1..Len(tasks_) /\ i \in Nat
    BY <1>4, <2>1, TailFacts
  <2>3. LastPushed <= TaskCount /\ LastPushed \in Int /\ TaskCount \in Nat
    BY <1>1, <2>1, ContestFacts DEF OrderInv, LastPushed, TeamInv
  <2>4. Open(i) /\ \A t \in Thread : thread[t].tasks # <<i>>
    BY <2>1, <2>2 DEF QueueInv
  <2>5. /\ thread' \in [Thread -> Threads] /\ thread'[w].tasks = <<i>> /\ thread'[w].pc = "run"
        /\ \A t \in Thread \ {w} : thread'[t] = thread[t]
    <3>1. <<i>> \in Seq(Nat)
      BY <2>2
    <3>. HIDE DEF i
    <3>. QED
      BY <1>1, <1>3, <1>4, <2>2, <3>1 DEF TasksInv, Threads
  <2>. HIDE DEF i
  <2>6. Len(<<i>>) = 1 /\ <<i>>[1] = i /\ <<i>> # <<>> /\ \A k \in 1..1 : k = 1
    OBVIOUS
  <2>7. i \in 1..TaskCount
    BY <2>3, <2>4 DEF Open
  <2>8. call[w].pc = "idle"
    BY <1>1, <1>3 DEF TasksInv
  <2>9. TasksInv'
    <3>. SUFFICES ASSUME NEW t \in Thread
                  PROVE  /\ thread'[t].tasks # <<>> => thread'[t].pc \in {"run", "deferred"}
                         /\ \A k \in 1..Len(thread'[t].tasks) : thread'[t].tasks[k] \in 1..TaskCount
                         /\ call[t].pc # "idle" =>
                              /\ thread'[t].pc = "run" /\ thread'[t].tasks # <<>>
                              /\ call[t].arg = contestInput[Head(thread'[t].tasks)]
      BY <1>2, <2>1, <2>5 DEF TasksInv
    <3>1. CASE t = w
      BY <2>5, <2>6, <2>7, <2>8, <3>1
    <3>2. CASE t # w
      BY <1>3, <2>5, <3>2 DEF TasksInv
    <3>. QED
      BY <3>1, <3>2
  <2>10. PoolTypes'
    BY <1>1, <1>3, <1>4, <2>2, <2>5, <2>6 DEF PoolTypes
  <2>11. OrderInv'
    BY <1>2, <2>1 DEF OrderInv
  <2>12. QueueInv'
    <3>. SUFFICES ASSUME NEW k \in 1..Len(Tail(tasks_))
                  PROVE  /\ Tail(tasks_)[k] \in 1..LastPushed /\ future[Tail(tasks_)[k]] = NoValue
                         /\ \A l \in 1..Len(Tail(tasks_)) :
                              Tail(tasks_)[k] = Tail(tasks_)[l] => k = l
                         /\ \A t \in Thread : thread'[t].tasks # <<Tail(tasks_)[k]>>
      BY <1>2, <1>4 DEF QueueInv, Open
    <3>1. k + 1 \in 1..Len(tasks_) /\ Tail(tasks_)[k] = tasks_[k + 1] /\ k \in Nat \ {0}
      BY <2>2
    <3>2. Open(tasks_[k + 1]) /\ \A t \in Thread : thread[t].tasks # <<tasks_[k + 1]>>
      BY <2>1, <3>1 DEF QueueInv
    <3>3. \A l \in 1..Len(Tail(tasks_)) : tasks_[k + 1] = tasks_[l + 1] => k = l
      <4>. SUFFICES ASSUME NEW l \in 1..Len(Tail(tasks_)), tasks_[k + 1] = tasks_[l + 1]
                    PROVE k = l
        OBVIOUS
      <4>1. l + 1 \in 1..Len(tasks_)
        BY <2>2
      <4>2. k + 1 = l + 1
        BY <2>1, <3>1, <4>1 DEF QueueInv
      <4>. QED
        BY <3>1, <4>2
    <3>4. tasks_[k + 1] # i
      <4>. SUFFICES ASSUME tasks_[k + 1] = tasks_[1] PROVE FALSE
        BY DEF i
      <4>1. k + 1 = 1
        BY <2>1, <2>2, <3>1 DEF QueueInv
      <4>. QED
        BY <3>1, <4>1
    <3>5. \A x, y : <<x>> = <<y>> => x = y
      OBVIOUS
    <3>. QED
      BY <2>2, <2>5, <3>1, <3>2, <3>3, <3>4, <3>5 DEF Open
  <2>13. HeldInv'
    <3>. SUFFICES ASSUME NEW t \in Thread, thread'[t].tasks # <<>>
                  PROVE  /\ thread'[t].tasks[1] \in 1..LastPushed
                         /\ future[thread'[t].tasks[1]] = NoValue
                         /\ \A u \in Thread : thread'[u].tasks = thread'[t].tasks => t = u
      BY <1>2 DEF HeldInv, Open
    <3>1. CASE t = w
      BY <2>4, <2>5, <2>6, <3>1 DEF Open
    <3>2. CASE t # w
      BY <1>1, <2>1, <2>4, <2>5, <3>2 DEF HeldInv, Open
    <3>. QED
      BY <3>1, <3>2
  <2>. QED
    BY <1>1, <1>2, <2>1, <2>9, <2>10, <2>11, <2>12, <2>13 DEF ThreadInv, PoolInv
<1>5. CASE UNCHANGED <<tasks_, thread>>
  <2>1. TasksInv'
    BY <1>2, <1>3, <1>5 DEF TasksInv
  <2>2. PoolInv'
    BY <1>2, <1>3, <1>5 DEF PoolInv, PoolTypes, OrderInv, QueueInv, HeldInv, Open
  <2>. QED
    BY <1>1, <1>2, <2>1, <2>2 DEF ThreadInv
<1>6. CASE UNCHANGED tasks_ /\ thread' = [thread EXCEPT ![w].pc = "ended"]
  <2>1. /\ TasksInv' /\ thread'[w].pc = "ended"
        /\ \A u \in Thread : thread'[u].tasks = thread[u].tasks
        /\ \A u \in Thread \ {w} : thread'[u] = thread[u]
    BY <1>1, <1>2, <1>3, <1>6, MovesThread
  <2>2. \A t \in Thread : t \notin 1..Size => thread'[t].pc = "none"
    BY <1>1, <1>3, <2>1 DEF PoolTypes
  <2>3. PoolInv'
    BY <1>2, <1>3, <1>6, <2>1, <2>2 DEF PoolInv, PoolTypes, OrderInv, QueueInv, HeldInv, Open
  <2>. QED
    BY <1>1, <1>2, <2>1, <2>3 DEF ThreadInv
<1>7. \/ /\ tasks_ # <<>> /\ tasks_' = Tail(tasks_)
         /\ thread' = [thread EXCEPT ![w].tasks = <<Head(tasks_)>>]
      \/ UNCHANGED <<tasks_, thread>>
      \/ UNCHANGED tasks_ /\ thread' = [thread EXCEPT ![w].pc = "ended"]
  BY DEF TakeTask, Pop, Sleep, Quit, poolVars
<1>. QED
  BY <1>4, <1>5, <1>6, <1>7

-----------------------------------------------------------------------------
(* The main thread.                                                        *)

\* What every step of the main thread within a contest leaves alone.
LEMMA MainFrame ==
  ASSUME TeamInv, SharedInv, UNCHANGED <<team, share, answers, results, call>>
  PROVE  /\ SharedInv'
         /\ contestInput' = contestInput /\ TaskCount' = TaskCount /\ JobCount' = JobCount
         /\ MainPlaces' = MainPlaces
         /\ TaskCount \in Nat /\ JobCount \in Nat
         /\ main \in [pc : MainPlaces, next : Nat \ {0}, oldest : Nat \ {0}]
         /\ team \in TeamKind
<1>1. SharedInv'
  BY DEF SharedInv
<1>. QED
  BY <1>1, SameContest, ContestFacts DEF TeamInv

\* The task whose result goes from its future into r.
Gotten == main.oldest \in 1..TaskCount /\ GetFuture(main.oldest)

\* Results that are known in r stay known, and the next becomes known with
\* its future.
LEMMA FutureStep ==
  ASSUME TeamInv, FutureInv, Contesting, UNCHANGED <<team, share, answers, future>>,
         r' = r \/ Gotten,
         \A i \in 1..TaskCount :
           (i < main'.oldest \/ (i = main'.oldest /\ main'.pc = "join")) =>
             \/ i < main.oldest \/ (i = main.oldest /\ main.pc = "join")
             \/ i = main.oldest /\ Gotten,
         main' \in [pc : MainPlaces, next : Nat \ {0}, oldest : Nat \ {0}],
         Contesting'
  PROVE  TeamInv' /\ FutureInv'
<1>1. contestInput' = contestInput /\ TaskCount' = TaskCount
  BY SameContest
<1>2. /\ TaskCount \in Nat /\ r \in Seq(Nat) /\ Len(r) = TaskCount
      /\ \A i \in 1..TaskCount : calcCollatz[contestInput[i]] \in Nat
  BY ContestFacts DEF TeamInv
<1>3. /\ DOMAIN future = 1..TaskCount
      /\ \A i \in 1..TaskCount :
           /\ future[i] = NoValue \/ future[i] = calcCollatz[contestInput[i]]
           /\ i < main.oldest \/ (i = main.oldest /\ main.pc = "join") => Known(i)
  BY DEF FutureInv
<1>4. CASE r' = r
  <2>1. TeamInv'
    BY <1>4, WithinContest
  <2>2. \A i \in 1..TaskCount : i = main.oldest /\ Gotten => Known(i)
    BY <1>3, <1>4, <1>2 DEF Gotten, GetFuture, Known
  <2>3. FutureInv'
    BY <1>1, <1>3, <1>4, <2>2 DEF FutureInv, Known
  <2>. QED
    BY <2>1, <2>3
<1>5. CASE Gotten
  <2>. DEFINE i == main.oldest
  <2>1. /\ i \in 1..TaskCount /\ r' = [r EXCEPT ![i] = future[i]]
        /\ future[i] = calcCollatz[contestInput[i]] /\ future[i] \in Nat
    BY <1>2, <1>3, <1>5 DEF Gotten, GetFuture
  <2>2. TeamInv'
    BY <2>1, WithinContest
  <2>3. r'[i] = calcCollatz[contestInput[i]] /\ \A j \in 1..TaskCount \ {i} : r'[j] = r[j]
    BY <1>2, <2>1
  <2>. HIDE DEF i
  <2>4. \A j \in 1..TaskCount : j = i \/ Known(j) => r'[j] = calcCollatz[contestInput[j]]
    BY <2>3 DEF Known
  <2>5. ASSUME NEW j \in 1..TaskCount, j < main'.oldest \/ (j = main'.oldest /\ main'.pc = "join")
        PROVE  r'[j] = calcCollatz[contestInput[j]]
    BY <1>3, <2>4, <2>5 DEF i
  <2>6. FutureInv'
    BY <1>1, <1>3, <2>5 DEF FutureInv, Known
  <2>. QED
    BY <2>2, <2>6
<1>. QED
  BY <1>4, <1>5

\* TasksInv is not about the main thread, but for whether there is a contest.
LEMMA TasksStay ==
  ASSUME TasksInv, Contesting', UNCHANGED <<call, thread>>,
         contestInput' = contestInput, TaskCount' = TaskCount
  PROVE  TasksInv'
BY DEF TasksInv

\* A new thread has the tasks of its job.
LEMMA StartsThread ==
  ASSUME TasksInv, TeamInv, Contesting, Contesting', UNCHANGED <<call, team, answers>>,
         NEW t \in Thread, t \in 1..JobCount, NEW p \in {"run", "deferred"},
         thread[t].pc = "none", createThread(t, p)
  PROVE  /\ TasksInv'
         /\ thread'[t].pc = p
         /\ \A u \in Thread \ {t} : thread'[u] = thread[u]
<1>1. contestInput' = contestInput /\ TaskCount' = TaskCount
  BY SameContest
<1>2. Work(t) \in Seq(Nat) /\ \A k \in 1..Len(Work(t)) : Work(t)[k] \in 1..TaskCount
  BY ContestFacts, WorkRight
<1>3. thread[t].tasks = <<>> /\ call[t].pc = "idle"
  BY DEF TasksInv
<1>4. /\ thread' \in [Thread -> Threads]
      /\ thread'[t].pc = p /\ thread'[t].tasks = Work(t)
      /\ \A u \in Thread \ {t} : thread'[u] = thread[u]
  BY <1>2 DEF createThread, TasksInv, Threads
<1>5. ASSUME NEW u \in Thread
      PROVE  /\ thread'[u].tasks # <<>> => thread'[u].pc \in {"run", "deferred"}
             /\ \A k \in 1..Len(thread'[u].tasks) : thread'[u].tasks[k] \in 1..TaskCount
             /\ call[u].pc # "idle" =>
                  /\ thread'[u].pc = "run" /\ thread'[u].tasks # <<>>
                  /\ call[u].arg = contestInput[Head(thread'[u].tasks)]
  <2>1. CASE u = t
    BY <1>2, <1>3, <1>4, <2>1
  <2>2. CASE u # t
    BY <1>4, <2>2 DEF TasksInv
  <2>. QED
    BY <2>1, <2>2
<1>. QED
  BY <1>1, <1>4, <1>5 DEF TasksInv

\* The main thread creates the thread of the next job.
LEMMA StartThreadKeeps ==
  ASSUME TeamInv, SharedInv, ThreadInv, StartThread
  PROVE  TeamInv' /\ SharedInv' /\ ThreadInv'
<1>1. /\ team \in {"NewThreads", "ConstThreads"} /\ main.pc = "loop" /\ ~AllStarted /\ ~Full
      /\ createThread(main.next, "run")
      /\ main' = [main EXCEPT !.next = @ + 1]
      /\ UNCHANGED <<team, share, answers, r, future, results, call>>
  BY DEF StartThread, Runs, sharedVars
<1>2. /\ SharedInv' /\ contestInput' = contestInput /\ TaskCount' = TaskCount
      /\ JobCount' = JobCount /\ TaskCount \in Nat /\ JobCount \in Nat
      /\ main \in [pc : MainPlaces, next : Nat \ {0}, oldest : Nat \ {0}]
  BY <1>1, MainFrame
<1>3. /\ main'.pc = "loop" /\ main'.next = main.next + 1 /\ main'.oldest = main.oldest
      /\ main' \in [pc : MainPlaces, next : Nat \ {0}, oldest : Nat \ {0}]
  BY <1>1, <1>2
<1>4. Contesting /\ Contesting'
  BY <1>1, <1>3 DEF Contesting
<1>5. TeamInv' /\ FutureInv'
  BY <1>1, <1>3, <1>4, FutureStep DEF ThreadInv
<1>6. TasksInv /\ StartedInv
  BY <1>1 DEF ThreadInv
<1>7. main.next \in 1..JobCount /\ main.next \in Thread
  BY <1>1, <1>2, ContestFacts DEF AllStarted
<1>8. thread[main.next].pc = "none"
  BY <1>2, <1>4, <1>6, <1>7 DEF StartedInv
<1>9. /\ TasksInv' /\ thread'[main.next].pc = "run"
      /\ \A u \in Thread \ {main.next} : thread'[u] = thread[u]
  BY <1>1, <1>4, <1>6, <1>7, <1>8, StartsThread
<1>10. FirstUnjoined' = FirstUnjoined /\ FirstUnjoined <= main.next
  <2>1. team = "ConstThreads" => main.oldest = 1
    BY <1>1, <1>4, <1>6 DEF StartedInv
  <2>2. team = "NewThreads" => main.oldest <= main.next
    BY <1>1, <1>2, <1>4, <1>6 DEF StartedInv
  <2>. QED
    BY <1>1, <1>2, <1>3, <2>1, <2>2 DEF FirstUnjoined
<1>11. ASSUME NEW t \in Thread
       PROVE  /\ t >= main'.next => thread'[t].pc = "none"
              /\ t < FirstUnjoined => thread'[t].pc = "joined"
  <2>1. t \in Nat /\ FirstUnjoined \in Int
    BY <1>2, WorkersAssumption DEF FirstUnjoined
  <2>2. /\ t >= main.next => thread[t].pc = "none"
        /\ t < FirstUnjoined => thread[t].pc = "joined"
    BY <1>4, <1>6 DEF StartedInv
  <2>. QED
    BY <1>2, <1>3, <1>9, <1>10, <2>1, <2>2
<1>12. /\ main'.next <= JobCount + 1
       /\ main'.oldest <= main'.next + IF team = "ConstThreads" THEN TaskCount ELSE 0
       /\ team = "NewThreads" => main'.next - main'.oldest <= Size
       /\ team # "NewThreads" => main'.oldest = 1
  <2>1. main.next - main.oldest # Size /\ (team = "NewThreads" => main.next - main.oldest <= Size)
    BY <1>1, <1>4, <1>6 DEF StartedInv, Full
  <2>2. /\ main.oldest <= main.next + IF team = "ConstThreads" THEN TaskCount ELSE 0
        /\ team # "NewThreads" => main.oldest = 1
    BY <1>1, <1>4, <1>6 DEF StartedInv
  <2>. QED
    BY <1>2, <1>3, <1>7, <2>1, <2>2, TeamAssumption
<1>13. StartedInv'
  BY <1>1, <1>2, <1>3, <1>4, <1>10, <1>11, <1>12 DEF StartedInv
<1>. QED
  BY <1>1, <1>2, <1>5, <1>9, <1>13 DEF ThreadInv

\* TeamNewThreads gets the result of its oldest thread.
LEMMA GetOldestKeeps ==
  ASSUME TeamInv, SharedInv, ThreadInv, GetOldest
  PROVE  TeamInv' /\ SharedInv' /\ ThreadInv'
<1>1. /\ team = "NewThreads" /\ main.pc = "loop" /\ main.oldest < main.next
      /\ GetFuture(main.oldest)
      /\ main' = [main EXCEPT !.pc = "join"]
      /\ UNCHANGED <<team, share, answers, future, thread, results, call>>
  BY DEF GetOldest, Runs, Goto, sharedVars, threadVars
<1>2. /\ SharedInv' /\ contestInput' = contestInput /\ TaskCount' = TaskCount
      /\ JobCount' = JobCount /\ TaskCount \in Nat /\ JobCount \in Nat
      /\ main \in [pc : MainPlaces, next : Nat \ {0}, oldest : Nat \ {0}]
  BY <1>1, MainFrame
<1>3. /\ main'.pc = "join" /\ main'.next = main.next /\ main'.oldest = main.oldest
      /\ main' \in [pc : MainPlaces, next : Nat \ {0}, oldest : Nat \ {0}]
  BY <1>1, <1>2 DEF MainPlaces
<1>4. Contesting /\ Contesting'
  BY <1>1, <1>3 DEF Contesting
<1>5. TasksInv /\ StartedInv /\ FutureInv
  BY <1>1 DEF ThreadInv
<1>6. JobCount = TaskCount /\ main.next <= TaskCount + 1
  BY <1>1, <1>4, <1>5 DEF StartedInv, JobCount
<1>7. Gotten
  BY <1>1, <1>2, <1>6 DEF Gotten
<1>8. TeamInv' /\ FutureInv'
  BY <1>1, <1>3, <1>4, <1>5, <1>7, FutureStep
<1>9. TasksInv'
  BY <1>1, <1>2, <1>4, <1>5, TasksStay
<1>10. StartedInv'
  BY <1>1, <1>2, <1>3, <1>4, <1>5 DEF StartedInv, FirstUnjoined
<1>. QED
  BY <1>1, <1>2, <1>8, <1>9, <1>10 DEF ThreadInv

\* It joins that thread.
LEMMA JoinOldestKeeps ==
  ASSUME TeamInv, SharedInv, ThreadInv, JoinOldest
  PROVE  TeamInv' /\ SharedInv' /\ ThreadInv'
<1>1. /\ team = "NewThreads" /\ main.pc = "join"
      /\ thread[main.oldest].pc = "ended"
      /\ thread' = [thread EXCEPT ![main.oldest].pc = "joined"]
      /\ main' = [main EXCEPT !.pc = "loop", !.oldest = @ + 1]
      /\ UNCHANGED <<team, share, answers, r, future, results, call>>
  BY DEF JoinOldest, Runs, join, sharedVars
<1>2. /\ SharedInv' /\ contestInput' = contestInput /\ TaskCount' = TaskCount
      /\ JobCount' = JobCount /\ TaskCount \in Nat /\ JobCount \in Nat
      /\ main \in [pc : MainPlaces, next : Nat \ {0}, oldest : Nat \ {0}]
  BY <1>1, MainFrame
<1>3. /\ main'.pc = "loop" /\ main'.next = main.next /\ main'.oldest = main.oldest + 1
      /\ main' \in [pc : MainPlaces, next : Nat \ {0}, oldest : Nat \ {0}]
  <2>. DEFINE m == [main EXCEPT !.pc = "loop"]
  <2>1. "loop" \in MainPlaces
    BY <1>1 DEF MainPlaces
  <2>2. /\ m \in [pc : MainPlaces, next : Nat \ {0}, oldest : Nat \ {0}]
        /\ m.pc = "loop" /\ m.next = main.next /\ m.oldest = main.oldest
    BY <1>2, <2>1
  <2>3. main' = [m EXCEPT !.oldest = main.oldest + 1]
    BY <1>1
  <2>. HIDE DEF m
  <2>. QED
    BY <2>2, <2>3
<1>4. Contesting /\ Contesting' /\ Contesting' = Contesting
  BY <1>1, <1>3 DEF Contesting
<1>5. TasksInv /\ StartedInv /\ FutureInv
  BY <1>1 DEF ThreadInv
<1>6. main.oldest < main.next /\ main.next <= JobCount + 1 /\ main.next - main.oldest <= Size
  BY <1>1, <1>4, <1>5 DEF StartedInv
<1>7. main.oldest \in Thread
  BY <1>2, <1>6, ContestFacts
<1>8. TeamInv' /\ FutureInv'
  <2>1. \A i \in Nat : i < main.oldest + 1 => i < main.oldest \/ i = main.oldest
    BY <1>2
  <2>. QED
    BY <1>1, <1>2, <1>3, <1>4, <1>5, <2>1, FutureStep
<1>9. /\ TasksInv' /\ thread'[main.oldest].pc = "joined"
      /\ \A u \in Thread \ {main.oldest} : thread'[u] = thread[u]
  <2>1. thread[main.oldest].tasks = <<>>
    BY <1>1, <1>5, <1>7 DEF TasksInv
  <2>. QED
    BY <1>1, <1>2, <1>4, <1>5, <1>7, <2>1, MovesThread
<1>10. ASSUME NEW t \in Thread
       PROVE  /\ t >= main'.next => thread'[t].pc = "none"
              /\ t < main'.oldest => thread'[t].pc = "joined"
  <2>1. t \in Nat
    BY WorkersAssumption
  <2>2. /\ t >= main.next => thread[t].pc = "none"
        /\ t < main.oldest => thread[t].pc = "joined"
    BY <1>1, <1>4, <1>5 DEF StartedInv, FirstUnjoined
  <2>. QED
    BY <1>2, <1>3, <1>6, <1>9, <2>1, <2>2
<1>11. StartedInv'
  <2>1. /\ main'.oldest <= main'.next /\ main'.next - main'.oldest <= Size
        /\ main'.next <= JobCount + 1
    BY <1>2, <1>3, <1>6, TeamAssumption
  <2>2. main'.oldest <= main'.next + 0
    BY <1>2, <1>3, <2>1
  <2>. QED
    BY <1>1, <1>2, <1>3, <1>4, <1>10, <2>1, <2>2 DEF StartedInv, FirstUnjoined
<1>. QED
  BY <1>1, <1>2, <1>8, <1>9, <1>11 DEF ThreadInv

\* The next future, of the threads, the pool or the asynchronous tasks.
LEMMA GetInOrderKeeps ==
  ASSUME TeamInv, SharedInv, ThreadInv, GetInOrder
  PROVE  TeamInv' /\ SharedInv' /\ ThreadInv'
<1>1. /\ team \in {"ConstThreads", "Pool"} /\ main.pc = "loop" /\ AllStarted
      /\ main.oldest <= TaskCount
      /\ GetFuture(main.oldest)
      /\ main' = [main EXCEPT !.oldest = @ + 1]
      /\ UNCHANGED <<team, share, answers, future, thread, results, call, tasks_, done_, asleep>>
  BY DEF GetInOrder, Runs, sharedVars, threadVars, poolVars
<1>2. /\ SharedInv' /\ contestInput' = contestInput /\ TaskCount' = TaskCount
      /\ JobCount' = JobCount /\ TaskCount \in Nat /\ JobCount \in Nat
      /\ main \in [pc : MainPlaces, next : Nat \ {0}, oldest : Nat \ {0}]
  BY <1>1, MainFrame
<1>3. /\ main'.pc = "loop" /\ main'.next = main.next /\ main'.oldest = main.oldest + 1
      /\ main' \in [pc : MainPlaces, next : Nat \ {0}, oldest : Nat \ {0}]
  BY <1>1, <1>2
<1>4. Contesting /\ Contesting'
  BY <1>1, <1>3 DEF Contesting
<1>5. TasksInv /\ FutureInv
  BY DEF ThreadInv
<1>6. Gotten
  BY <1>1, <1>2 DEF Gotten
<1>7. TeamInv' /\ FutureInv'
  <2>1. \A i \in Nat : i < main.oldest + 1 => i < main.oldest \/ i = main.oldest
    BY <1>2
  <2>. QED
    BY <1>1, <1>3, <1>4, <1>5, <1>6, <2>1, FutureStep
<1>8. TasksInv'
  BY <1>1, <1>2, <1>4, <1>5, TasksStay
<1>9. AllStarted' /\ main.next > JobCount
  BY <1>1, <1>2, <1>3 DEF AllStarted
<1>10. ASSUME team = "ConstThreads" PROVE StartedInv'
  <2>1. StartedInv /\ JobCount = Size
    BY <1>10 DEF ThreadInv, JobCount
  <2>2. /\ \A t \in Thread : t \in Nat \ {0}
        /\ FirstUnjoined' <= 1
    BY <1>1, <1>2, <1>3, <1>10, WorkersAssumption DEF FirstUnjoined
  <2>3. main'.oldest <= main'.next + TaskCount
    BY <1>1, <1>2, <1>3
  <2>4. FirstUnjoined' \in Int
    BY <1>2, <1>3, <1>10 DEF FirstUnjoined
  <2>5. \A t \in Thread : ~(t < FirstUnjoined')
    BY <2>2, <2>4
  <2>. QED
    BY <1>1, <1>2, <1>3, <1>4, <1>9, <1>10, <2>1, <2>3, <2>5 DEF StartedInv
<1>11. ASSUME team = "Pool" PROVE PoolInv'
  <2>1. PoolInv /\ PoolTypes /\ OrderInv /\ QueueInv /\ HeldInv
    BY <1>4, <1>11 DEF ThreadInv, PoolInv
  <2>2. LastPushed' = LastPushed /\ JobCount = TaskCount
    BY <1>1, <1>3, <1>11 DEF LastPushed, JobCount
  <2>3. OrderInv'
    <3>1. main'.oldest <= main'.next
      BY <1>1, <1>2, <1>3, <1>9, <2>2
    <3>2. ASSUME NEW i \in 1..TaskCount, i < main'.oldest PROVE future[i] # NoValue
      <4>1. CASE i < main.oldest
        BY <2>1, <4>1 DEF OrderInv
      <4>2. CASE i = main.oldest
        BY <1>6, <4>2 DEF Gotten, GetFuture
      <4>. QED
        BY <1>2, <1>3, <3>2, <4>1, <4>2
    <3>. QED
      BY <1>1, <1>2, <2>1, <2>2, <3>1, <3>2 DEF OrderInv
  <2>. QED
    BY <1>1, <1>2, <1>4, <2>1, <2>2, <2>3 DEF PoolInv, PoolTypes, QueueInv, HeldInv, Open
<1>. QED
  BY <1>1, <1>2, <1>7, <1>8, <1>10, <1>11 DEF ThreadInv

\* TeamConstThreads joins its threads, once every result is there.
LEMMA JoinFrontKeeps ==
  ASSUME TeamInv, SharedInv, ThreadInv, JoinFront
  PROVE  TeamInv' /\ SharedInv' /\ ThreadInv'
<1>. DEFINE w == main.oldest - TaskCount
<1>1. /\ team = "ConstThreads" /\ main.pc = "loop" /\ AllStarted
      /\ main.oldest \in TaskCount + 1 .. TaskCount + Size
      /\ thread[w].pc = "ended"
      /\ thread' = [thread EXCEPT ![w].pc = "joined"]
      /\ main' = [main EXCEPT !.oldest = @ + 1]
      /\ UNCHANGED <<team, share, answers, r, future, results, call>>
  BY DEF JoinFront, Runs, join, sharedVars
<1>2. /\ SharedInv' /\ contestInput' = contestInput /\ TaskCount' = TaskCount
      /\ JobCount' = JobCount /\ TaskCount \in Nat /\ JobCount \in Nat
      /\ main \in [pc : MainPlaces, next : Nat \ {0}, oldest : Nat \ {0}]
  BY <1>1, MainFrame
<1>3. /\ main'.pc = "loop" /\ main'.next = main.next /\ main'.oldest = main.oldest + 1
      /\ main' \in [pc : MainPlaces, next : Nat \ {0}, oldest : Nat \ {0}]
  BY <1>1, <1>2
<1>4. Contesting /\ Contesting' /\ Contesting' = Contesting
  BY <1>1, <1>3 DEF Contesting
<1>5. TasksInv /\ StartedInv /\ FutureInv /\ JobCount = Size
  BY <1>1 DEF ThreadInv, JobCount
<1>6. w \in 1..Size /\ w \in Thread
  BY <1>1, <1>2, TeamAssumption, WorkersAssumption
<1>7. TeamInv' /\ FutureInv'
  <2>1. \A i \in 1..TaskCount : i < main.oldest
    BY <1>1, <1>2
  <2>. QED
    BY <1>1, <1>3, <1>4, <1>5, <2>1, FutureStep
<1>8. FirstUnjoined = w /\ FirstUnjoined' = w + 1
  BY <1>1, <1>2, <1>3 DEF FirstUnjoined
<1>. HIDE DEF w
<1>9. /\ TasksInv' /\ thread'[w].pc = "joined"
      /\ \A u \in Thread \ {w} : thread'[u] = thread[u]
  <2>1. thread[w].tasks = <<>>
    BY <1>1, <1>5, <1>6 DEF TasksInv
  <2>. QED
    BY <1>1, <1>2, <1>4, <1>5, <1>6, <2>1, MovesThread
<1>10. main.next > JobCount /\ main'.next > JobCount
  BY <1>1, <1>2, <1>3 DEF AllStarted
<1>11. ASSUME NEW t \in Thread
       PROVE  /\ t >= main'.next => thread'[t].pc = "none"
              /\ t < w + 1 => thread'[t].pc = "joined"
  <2>1. t \in Nat /\ Size \in Nat
    BY WorkersAssumption, TeamAssumption
  <2>2. /\ t >= main.next => thread[t].pc = "none"
        /\ t < w => thread[t].pc = "joined"
    BY <1>4, <1>5, <1>8 DEF StartedInv
  <2>. QED
    BY <1>2, <1>3, <1>5, <1>6, <1>9, <1>10, <2>1, <2>2
<1>12. AllStarted' /\ main'.oldest <= main'.next + TaskCount
  BY <1>1, <1>2, <1>3, <1>5, <1>10, TeamAssumption DEF AllStarted
<1>13. StartedInv'
  BY <1>1, <1>2, <1>3, <1>4, <1>5, <1>8, <1>11, <1>12 DEF StartedInv
<1>. QED
  BY <1>1, <1>2, <1>7, <1>9, <1>13 DEF ThreadInv

\* TeamAsync starts the next task, in a thread or deferred.
LEMMA StartAsyncKeeps ==
  ASSUME TeamInv, SharedInv, ThreadInv, StartAsync
  PROVE  TeamInv' /\ SharedInv' /\ ThreadInv'
<1>1. PICK p \in {"run", "deferred"} : createThread(main.next, p)
  BY DEF StartAsync
<1>2. /\ team = "Async" /\ main.pc = "loop" /\ ~AllStarted
      /\ main' = [main EXCEPT !.next = @ + 1]
      /\ UNCHANGED <<team, share, answers, r, future, results, call>>
  BY DEF StartAsync, Runs, sharedVars
<1>3. /\ SharedInv' /\ contestInput' = contestInput /\ TaskCount' = TaskCount
      /\ JobCount' = JobCount /\ TaskCount \in Nat /\ JobCount \in Nat
      /\ main \in [pc : MainPlaces, next : Nat \ {0}, oldest : Nat \ {0}]
  BY <1>2, MainFrame
<1>4. /\ main'.pc = "loop" /\ main'.next = main.next + 1 /\ main'.oldest = main.oldest
      /\ main' \in [pc : MainPlaces, next : Nat \ {0}, oldest : Nat \ {0}]
  BY <1>2, <1>3
<1>5. Contesting /\ Contesting'
  BY <1>2, <1>4 DEF Contesting
<1>6. TasksInv /\ StartedInv /\ FutureInv
  BY <1>2 DEF ThreadInv
<1>7. TeamInv' /\ FutureInv'
  BY <1>2, <1>4, <1>5, <1>6, FutureStep
<1>8. main.next \in 1..JobCount /\ main.next \in Thread
  BY <1>2, <1>3, ContestFacts DEF AllStarted
<1>9. main.oldest = 1 /\ thread[main.next].pc = "none"
  BY <1>2, <1>3, <1>5, <1>6, <1>8 DEF StartedInv
<1>10. /\ TasksInv'
       /\ \A u \in Thread \ {main.next} : thread'[u] = thread[u]
  BY <1>1, <1>2, <1>5, <1>6, <1>8, <1>9, StartsThread
<1>11. ASSUME NEW t \in Thread
       PROVE  /\ t >= main'.next => thread'[t].pc = "none"
              /\ ~(t < main'.oldest)
  <2>1. t \in Nat \ {0}
    BY WorkersAssumption
  <2>2. t >= main.next => thread[t].pc = "none"
    BY <1>5, <1>6 DEF StartedInv
  <2>. QED
    BY <1>3, <1>4, <1>9, <1>10, <2>1, <2>2
<1>12. main'.next <= JobCount + 1 /\ main'.oldest = 1 /\ main'.oldest <= main'.next + 0
  BY <1>3, <1>4, <1>8, <1>9
<1>13. StartedInv'
  BY <1>2, <1>3, <1>4, <1>5, <1>11, <1>12 DEF StartedInv, FirstUnjoined
<1>. QED
  BY <1>2, <1>3, <1>7, <1>10, <1>13 DEF ThreadInv

\* get runs a deferred task.
LEMMA RunDeferredKeeps ==
  ASSUME TeamInv, SharedInv, ThreadInv, RunDeferred
  PROVE  TeamInv' /\ SharedInv' /\ ThreadInv'
<1>. DEFINE w == main.oldest
<1>1. /\ team = "Async" /\ main.pc = "loop" /\ w <= TaskCount
      /\ thread[w].pc = "deferred"
      /\ thread' = [thread EXCEPT ![w].pc = "run"]
      /\ UNCHANGED <<teamVars, future, sharedVars>>
  BY DEF RunDeferred, Runs
<1>2. /\ TeamInv' /\ SharedInv' /\ FutureInv' /\ Contesting' = Contesting
      /\ UNCHANGED <<team, answers, main, call>>
      /\ contestInput' = contestInput /\ TaskCount' = TaskCount /\ JobCount' = JobCount
      /\ FirstUnjoined' = FirstUnjoined /\ AllStarted' = AllStarted
  BY <1>1, SameCalls
<1>3. Contesting /\ TasksInv /\ StartedInv
  BY <1>1 DEF ThreadInv, Contesting
<1>4. w \in Thread
  BY <1>1, <1>3, ContestFacts DEF TeamInv
<1>. HIDE DEF w
<1>5. /\ TasksInv' /\ thread'[w].pc = "run"
      /\ \A u \in Thread \ {w} : thread'[u] = thread[u]
  BY <1>1, <1>2, <1>3, <1>4, MovesThread
<1>6. StartedInv'
  BY <1>1, <1>2, <1>3, <1>4, <1>5 DEF StartedInv
<1>. QED
  BY <1>1, <1>2, <1>5, <1>6 DEF ThreadInv

\* get waits for a task, whose thread has then ended.
LEMMA GetAsyncKeeps ==
  ASSUME TeamInv, SharedInv, ThreadInv, GetAsync
  PROVE  TeamInv' /\ SharedInv' /\ ThreadInv'
<1>. DEFINE w == main.oldest
<1>1. /\ team = "Async" /\ main.pc = "loop" /\ AllStarted /\ main.oldest <= TaskCount
      /\ GetFuture(main.oldest)
      /\ thread[w].pc = "ended"
      /\ thread' = [thread EXCEPT ![w].pc = "joined"]
      /\ main' = [main EXCEPT !.oldest = @ + 1]
      /\ UNCHANGED <<team, share, answers, future, results, call>>
  BY DEF GetAsync, Runs, join, sharedVars
<1>2. /\ SharedInv' /\ contestInput' = contestInput /\ TaskCount' = TaskCount
      /\ JobCount' = JobCount /\ TaskCount \in Nat /\ JobCount \in Nat
      /\ main \in [pc : MainPlaces, next : Nat \ {0}, oldest : Nat \ {0}]
  BY <1>1, MainFrame
<1>3. /\ main'.pc = "loop" /\ main'.next = main.next /\ main'.oldest = main.oldest + 1
      /\ main' \in [pc : MainPlaces, next : Nat \ {0}, oldest : Nat \ {0}]
  BY <1>1, <1>2
<1>4. Contesting /\ Contesting' /\ Contesting' = Contesting
  BY <1>1, <1>3 DEF Contesting
<1>5. TasksInv /\ StartedInv /\ FutureInv /\ JobCount = TaskCount
  BY <1>1 DEF ThreadInv, JobCount
<1>6. Gotten /\ w \in Thread
  BY <1>1, <1>2, <1>4, ContestFacts DEF Gotten
<1>7. TeamInv' /\ FutureInv'
  <2>1. \A i \in Nat : i < main.oldest + 1 => i < main.oldest \/ i = main.oldest
    BY <1>2
  <2>. QED
    BY <1>1, <1>3, <1>4, <1>5, <1>6, <2>1, FutureStep
<1>8. /\ TasksInv' /\ thread'[w].pc = "joined"
      /\ \A u \in Thread \ {w} : thread'[u] = thread[u]
  <2>1. thread[w].tasks = <<>>
    BY <1>1, <1>5, <1>6 DEF TasksInv
  <2>. QED
    BY <1>1, <1>2, <1>4, <1>5, <1>6, <2>1, MovesThread
<1>9. main.next > JobCount /\ main'.next > JobCount
  BY <1>1, <1>2, <1>3 DEF AllStarted
<1>10. ASSUME NEW t \in Thread
       PROVE  /\ t >= main'.next => thread'[t].pc = "none"
              /\ t < main'.oldest => thread'[t].pc = "joined"
  <2>1. t \in Nat
    BY WorkersAssumption
  <2>2. /\ t >= main.next => thread[t].pc = "none"
        /\ t < main.oldest => thread[t].pc = "joined"
    BY <1>1, <1>4, <1>5 DEF StartedInv, FirstUnjoined
  <2>. QED
    BY <1>1, <1>2, <1>3, <1>5, <1>8, <1>9, <2>1, <2>2
<1>11. AllStarted' /\ main'.oldest <= main'.next + 0
  BY <1>1, <1>2, <1>3, <1>5, <1>9 DEF AllStarted
<1>12. StartedInv'
  BY <1>1, <1>2, <1>3, <1>4, <1>5, <1>10, <1>11 DEF StartedInv, FirstUnjoined
<1>. QED
  BY <1>1, <1>2, <1>7, <1>8, <1>12 DEF ThreadInv

\* A step of the main thread of a pool that leaves its contest and its
\* workers alone.
LEMMA PoolFrame ==
  ASSUME TeamInv, SharedInv, ThreadInv, Contesting, team = "Pool",
         NEW p \in {"loop", "notify"}, NEW n \in Nat \ {0},
         main' = [pc |-> p, next |-> n, oldest |-> main.oldest],
         UNCHANGED <<team, share, answers, r, future, thread, results, call>>
  PROVE  /\ TeamInv' /\ SharedInv' /\ TasksInv' /\ FutureInv' /\ Contesting'
         /\ contestInput' = contestInput /\ TaskCount' = TaskCount /\ TaskCount \in Nat
         /\ JobCount = TaskCount
         /\ PoolTypes /\ OrderInv /\ QueueInv /\ HeldInv
<1>1. /\ SharedInv' /\ contestInput' = contestInput /\ TaskCount' = TaskCount /\ TaskCount \in Nat
      /\ main \in [pc : MainPlaces, next : Nat \ {0}, oldest : Nat \ {0}]
  BY MainFrame
<1>2. /\ main'.pc = p /\ main'.next = n /\ main'.oldest = main.oldest
      /\ main' \in [pc : MainPlaces, next : Nat \ {0}, oldest : Nat \ {0}]
  <2>1. p \in MainPlaces
    BY DEF MainPlaces
  <2>. QED
    BY <1>1, <2>1
<1>3. Contesting' /\ main.pc # "join"
  BY <1>2 DEF Contesting
<1>4. TeamInv' /\ FutureInv'
  BY <1>2, <1>3, FutureStep DEF ThreadInv
<1>5. TasksInv'
  BY <1>1, <1>3, TasksStay DEF ThreadInv
<1>6. PoolTypes /\ OrderInv /\ QueueInv /\ HeldInv
  BY DEF ThreadInv, PoolInv
<1>. QED
  BY <1>1, <1>3, <1>4, <1>5, <1>6 DEF JobCount

\* TeamPool pushes its next task into the queue of the pool.
LEMMA PushTaskKeeps ==
  ASSUME TeamInv, SharedInv, ThreadInv, PushTask
  PROVE  TeamInv' /\ SharedInv' /\ ThreadInv'
<1>. DEFINE n == main.next
<1>1. /\ team = "Pool" /\ main.pc = "loop" /\ ~AllStarted
      /\ tasks_' = Append(tasks_, n)
      /\ main' = [main EXCEPT !.pc = "notify"]
      /\ UNCHANGED <<team, share, answers, r, future, thread, results, call>>
  BY DEF PushTask, push, Runs, Goto, sharedVars, threadVars
<1>2. Contesting
  BY <1>1 DEF Contesting
<1>3. main \in [pc : MainPlaces, next : Nat \ {0}, oldest : Nat \ {0}]
  BY DEF TeamInv
<1>4. main' = [pc |-> "notify", next |-> n, oldest |-> main.oldest] /\ n \in Nat \ {0}
  BY <1>1, <1>3
<1>5. /\ TeamInv' /\ SharedInv' /\ TasksInv' /\ FutureInv' /\ Contesting'
      /\ contestInput' = contestInput /\ TaskCount' = TaskCount /\ TaskCount \in Nat
      /\ JobCount = TaskCount
      /\ PoolTypes /\ OrderInv /\ QueueInv /\ HeldInv
  BY <1>1, <1>2, <1>4, PoolFrame
<1>6. LastPushed = n - 1 /\ LastPushed' = n /\ n <= TaskCount
  BY <1>1, <1>3, <1>4, <1>5 DEF LastPushed, AllStarted
<1>7. future[n] = NoValue
  BY <1>3, <1>4, <1>5, <1>6 DEF OrderInv
<1>8. tasks_ \in Seq(Nat)
  BY <1>5 DEF PoolTypes
<1>9. /\ tasks_' \in Seq(Nat) /\ Len(tasks_') = Len(tasks_) + 1 /\ Len(tasks_) \in Nat
      /\ \A k \in 1..Len(tasks_) : tasks_'[k] = tasks_[k]
      /\ tasks_'[Len(tasks_) + 1] = n
  BY <1>1, <1>4, <1>8
<1>. HIDE DEF n
<1>10. \A i \in Nat : Open(i) => i \in 1..n /\ future[i] = NoValue /\ i # n
  BY <1>4, <1>6 DEF Open
<1>11. PoolTypes'
  BY <1>1, <1>5, <1>9 DEF PoolTypes
<1>12. OrderInv'
  <2>1. \A i \in 1..TaskCount : i > n => future[i] = NoValue
    BY <1>4, <1>5, <1>6 DEF OrderInv
  <2>2. main'.oldest <= main'.next
    BY <1>4, <1>5 DEF OrderInv, n
  <2>3. main'.oldest = main.oldest
    BY <1>4
  <2>. QED
    BY <1>1, <1>5, <1>6, <2>1, <2>2, <2>3 DEF OrderInv
<1>13. QueueInv'
  <2>. SUFFICES ASSUME NEW k \in 1..Len(tasks_')
                PROVE  /\ tasks_'[k] \in 1..n /\ future[tasks_'[k]] = NoValue
                       /\ \A l \in 1..Len(tasks_') : tasks_'[k] = tasks_'[l] => k = l
                       /\ \A t \in Thread : thread[t].tasks # <<tasks_'[k]>>
    BY <1>1, <1>6 DEF QueueInv, Open
  <2>1. ASSUME NEW l \in 1..Len(tasks_)
        PROVE  /\ Open(tasks_[l]) /\ tasks_[l] \in Nat /\ tasks_'[l] = tasks_[l]
               /\ tasks_[l] \in 1..n /\ future[tasks_[l]] = NoValue /\ tasks_[l] # n
    BY <1>5, <1>8, <1>9, <1>10 DEF QueueInv
  <2>2. CASE k \in 1..Len(tasks_)
    <3>1. ASSUME NEW l \in 1..Len(tasks_'), tasks_'[k] = tasks_'[l] PROVE k = l
      <4>1. l # Len(tasks_) + 1
        BY <1>9, <2>1, <2>2, <3>1
      <4>2. l \in 1..Len(tasks_)
        BY <1>9, <4>1
      <4>. QED
        BY <1>5, <2>1, <2>2, <3>1, <4>2 DEF QueueInv
    <3>2. \A t \in Thread : thread[t].tasks # <<tasks_[k]>>
      BY <1>5, <2>2 DEF QueueInv
    <3>. QED
      BY <2>1, <2>2, <3>1, <3>2
  <2>3. CASE k = Len(tasks_) + 1
    <3>1. ASSUME NEW l \in 1..Len(tasks_'), tasks_'[k] = tasks_'[l] PROVE k = l
      <4>1. l \notin 1..Len(tasks_)
        BY <1>9, <2>1, <2>3, <3>1
      <4>. QED
        BY <1>9, <2>3, <4>1
    <3>2. ASSUME NEW t \in Thread PROVE thread[t].tasks # <<n>>
      <4>. SUFFICES ASSUME thread[t].tasks = <<n>> PROVE FALSE
        OBVIOUS
      <4>1. thread[t].tasks # <<>> /\ thread[t].tasks[1] = n
        OBVIOUS
      <4>2. Open(n)
        BY <1>5, <4>1 DEF HeldInv
      <4>. QED
        BY <1>4, <1>10, <4>2
    <3>. QED
      BY <1>4, <1>7, <1>9, <2>3, <3>1, <3>2
  <2>. QED
    BY <1>9, <2>2, <2>3
<1>14. HeldInv'
  <2>1. ASSUME NEW t \in Thread, thread[t].tasks # <<>>
        PROVE  thread[t].tasks[1] \in 1..n /\ future[thread[t].tasks[1]] = NoValue
    <3>1. Open(thread[t].tasks[1])
      BY <1>5, <2>1 DEF HeldInv
    <3>. QED
      BY <1>10, <3>1 DEF Open
  <2>. QED
    BY <1>1, <1>5, <1>6, <2>1 DEF HeldInv, Open
<1>. QED
  BY <1>1, <1>5, <1>11, <1>12, <1>13, <1>14 DEF ThreadInv, PoolInv

\* It notifies a worker of it.
LEMMA NotifyKeeps ==
  ASSUME TeamInv, SharedInv, ThreadInv, Notify
  PROVE  TeamInv' /\ SharedInv' /\ ThreadInv'
<1>1. /\ team = "Pool" /\ main.pc = "notify"
      /\ main' = [main EXCEPT !.pc = "loop", !.next = @ + 1]
      /\ UNCHANGED <<team, share, answers, r, future, thread, results, call, tasks_>>
  BY DEF Notify, notify_one, Runs, sharedVars, threadVars
<1>2. Contesting
  BY <1>1 DEF Contesting
<1>3. main \in [pc : MainPlaces, next : Nat \ {0}, oldest : Nat \ {0}]
  BY DEF TeamInv
<1>4. /\ main' = [pc |-> "loop", next |-> main.next + 1, oldest |-> main.oldest]
      /\ main.next + 1 \in Nat \ {0}
  <2>. DEFINE m == [main EXCEPT !.pc = "loop"]
  <2>1. m = [pc |-> "loop", next |-> main.next, oldest |-> main.oldest]
    BY <1>3
  <2>2. main' = [m EXCEPT !.next = main.next + 1]
    BY <1>1
  <2>. HIDE DEF m
  <2>. QED
    BY <1>3, <2>1, <2>2
<1>5. /\ TeamInv' /\ SharedInv' /\ TasksInv' /\ FutureInv' /\ Contesting'
      /\ contestInput' = contestInput /\ TaskCount' = TaskCount /\ TaskCount \in Nat
      /\ PoolTypes /\ OrderInv /\ QueueInv /\ HeldInv
  BY <1>1, <1>2, <1>4, PoolFrame
<1>6. LastPushed' = LastPushed
  BY <1>1, <1>3, <1>4 DEF LastPushed
<1>7. PoolTypes' /\ QueueInv' /\ HeldInv'
  BY <1>1, <1>5, <1>6 DEF PoolTypes, QueueInv, HeldInv, Open
<1>8. OrderInv'
  <2>1. main'.oldest = main.oldest /\ main'.oldest <= main'.next
    BY <1>3, <1>4, <1>5 DEF OrderInv
  <2>. QED
    BY <1>1, <1>5, <1>6, <2>1 DEF OrderInv
<1>. QED
  BY <1>1, <1>5, <1>7, <1>8 DEF ThreadInv, PoolInv

\* The end of the pool.
LEMMA PoolEndKeeps ==
  ASSUME TeamInv, SharedInv, ThreadInv, Destroy \/ WakeAll \/ JoinWorker
  PROVE  TeamInv' /\ SharedInv' /\ ThreadInv'
<1>1. /\ team = "Pool" /\ ~Contesting
      /\ UNCHANGED <<team, share, answers, r, future, results, call, tasks_>>
  BY DEF Destroy, WakeAll, JoinWorker, shutdown, notify_all, Runs, Goto,
         sharedVars, threadVars, teamVars, poolVars, Contesting
<1>2. main \in [pc : MainPlaces, next : Nat \ {0}, oldest : Nat \ {0}]
  BY DEF TeamInv
<1>3. ~Contesting' /\ main' \in [pc : MainPlaces, next : Nat \ {0}, oldest : Nat \ {0}]
  <2>1. main' = main \/ main' = [main EXCEPT !.pc = "destroy"] \/ main' = [main EXCEPT !.pc = "join"]
    BY DEF Destroy, WakeAll, JoinWorker, Goto, teamVars
  <2>2. "destroy" \in MainPlaces /\ "join" \in MainPlaces
    BY <1>1 DEF MainPlaces
  <2>. QED
    BY <1>1, <1>2, <2>1, <2>2 DEF Contesting
<1>4. contestInput' = contestInput /\ TaskCount' = TaskCount /\ MainPlaces' = MainPlaces
  BY <1>1, SameContest
<1>5. TeamInv' /\ SharedInv'
  BY <1>1, <1>3, <1>4 DEF TeamInv, SharedInv
<1>6. FutureInv'
  BY <1>3 DEF FutureInv
<1>7. TasksInv /\ PoolInv /\ PoolTypes /\ \A t \in Thread : thread[t].tasks = <<>>
  BY <1>1 DEF ThreadInv, PoolInv, TasksInv
<1>8. /\ thread' \in [Thread -> Threads]
      /\ \A t \in Thread : thread'[t].tasks = <<>>
      /\ \A t \in Thread : t \notin 1..Size => thread'[t].pc = "none"
  <2>1. CASE thread' = thread
    BY <1>7, <2>1 DEF PoolTypes, TasksInv
  <2>2. ASSUME NEW w \in 1..Size, thread' = [thread EXCEPT ![w].pc = "joined"]
        PROVE  /\ thread' \in [Thread -> Threads]
               /\ \A t \in Thread : thread'[t].tasks = <<>>
               /\ \A t \in Thread : t \notin 1..Size => thread'[t].pc = "none"
    <3>1. thread \in [Thread -> Threads]
      BY <1>7 DEF TasksInv
    <3>2. /\ thread' \in [Thread -> Threads]
          /\ \A t \in Thread : thread'[t].tasks = thread[t].tasks
          /\ \A t \in Thread : t # w => thread'[t] = thread[t]
      BY <2>2, <3>1 DEF Threads
    <3>. QED
      BY <1>7, <3>2 DEF PoolTypes
  <2>. QED
    BY <2>1, <2>2 DEF Destroy, WakeAll, JoinWorker, join, threadVars
<1>9. TasksInv'
  BY <1>1, <1>7, <1>8 DEF TasksInv
<1>10. PoolInv'
  <2>1. \A t \in Thread : Len(thread'[t].tasks) <= 1
    BY <1>8
  <2>. QED
    BY <1>1, <1>3, <1>7, <1>8, <2>1 DEF PoolInv, PoolTypes
<1>. QED
  BY <1>1, <1>5, <1>6, <1>9, <1>10 DEF ThreadInv

\* A contest begins: the team is as the last contest has left it.
LEMMA ContestBegins ==
  ASSUME TeamInv, ~Contesting, runContest, UNCHANGED <<team, share, answers>>
  PROVE  /\ TeamInv' /\ Contesting'
         /\ main'.pc = "loop" /\ main'.next = 1 /\ main'.oldest = 1
         /\ contestInput' = contestInput /\ TaskCount' = TaskCount /\ JobCount' = JobCount
         /\ TaskCount \in Nat /\ JobCount \in Nat
<1>1. /\ Len(answers) < Len(Inputs)
      /\ main' = [pc |-> "loop", next |-> 1, oldest |-> 1]
      /\ r' = [i \in 1..TaskCount |-> 0]
  BY DEF runContest
<1>2. contestInput' = contestInput /\ TaskCount' = TaskCount /\ JobCount' = JobCount
      /\ MainPlaces' = MainPlaces
  BY SameContest
<1>3. TaskCount \in Nat /\ JobCount \in Nat
  BY ContestFacts
<1>4. main' \in [pc : MainPlaces, next : Nat \ {0}, oldest : Nat \ {0}]
  <2>1. "loop" \in MainPlaces
    BY DEF MainPlaces
  <2>. QED
    BY <1>1, <2>1
<1>5. r' \in Seq(Nat) /\ Len(r') = TaskCount
  BY <1>1, <1>3
<1>6. Contesting'
  BY <1>1 DEF Contesting
<1>. QED
  BY <1>1, <1>2, <1>3, <1>4, <1>5, <1>6 DEF TeamInv

\* runContest of a team of threads begins.
LEMMA BeginContestKeeps ==
  ASSUME TeamInv, SharedInv, ThreadInv, BeginContest
  PROVE  TeamInv' /\ SharedInv' /\ ThreadInv'
<1>1. /\ main.pc = "idle" /\ runContest
      /\ UNCHANGED <<team, share, answers>>
      /\ UNCHANGED <<results, call, tasks_>>
      /\ future' = [i \in 1..TaskCount |-> NoValue]
      /\ thread' = IF team = "Pool" THEN thread ELSE [t \in Thread |-> NewThread]
  BY DEF BeginContest, runContest, sharedVars, poolVars
<1>2. ~Contesting
  BY <1>1 DEF Contesting
<1>3. /\ TeamInv' /\ Contesting'
      /\ main'.pc = "loop" /\ main'.next = 1 /\ main'.oldest = 1
      /\ contestInput' = contestInput /\ TaskCount' = TaskCount /\ JobCount' = JobCount
      /\ TaskCount \in Nat /\ JobCount \in Nat
  BY <1>1, <1>2, ContestBegins
<1>4. SharedInv'
  BY <1>1 DEF SharedInv
<1>5. FutureInv'
  BY <1>1, <1>3 DEF FutureInv
<1>6. TasksInv /\ \A t \in Thread : thread[t].tasks = <<>> /\ call[t].pc = "idle"
  BY <1>2 DEF ThreadInv, TasksInv
<1>7. ASSUME team # "Pool" PROVE TasksInv' /\ StartedInv'
  <2>1. /\ thread' \in [Thread -> Threads]
        /\ \A t \in Thread : thread'[t].tasks = <<>> /\ thread'[t].pc = "none"
    BY <1>1, <1>7 DEF NewThread, Threads
  <2>2. TasksInv'
    BY <1>1, <1>6, <2>1 DEF TasksInv
  <2>3. \A t \in Thread : ~(t < FirstUnjoined')
    BY <1>3, WorkersAssumption DEF FirstUnjoined
  <2>4. /\ main'.next <= JobCount + 1
        /\ main'.oldest <= main'.next + IF team = "ConstThreads" THEN TaskCount ELSE 0
        /\ main'.next - main'.oldest <= Size
    BY <1>3, TeamAssumption
  <2>5. StartedInv'
    BY <1>1, <1>3, <2>1, <2>3, <2>4 DEF StartedInv
  <2>. QED
    BY <2>2, <2>5
<1>8. ASSUME team = "Pool" PROVE TasksInv' /\ PoolInv'
  <2>1. PoolTypes /\ tasks_ = <<>>
    BY <1>2, <1>8 DEF ThreadInv, PoolInv
  <2>2. TasksInv'
    BY <1>1, <1>3, <1>6, <1>8 DEF TasksInv
  <2>3. LastPushed' = 0
    BY <1>3 DEF LastPushed
  <2>4. PoolTypes'
    BY <1>1, <1>8, <2>1 DEF PoolTypes
  <2>5. OrderInv'
    BY <1>1, <1>3, <2>3 DEF OrderInv
  <2>6. QueueInv' /\ HeldInv'
    BY <1>1, <1>6, <1>8, <2>1 DEF QueueInv, HeldInv
  <2>. QED
    BY <1>1, <1>3, <2>1, <2>2, <2>4, <2>5, <2>6 DEF PoolInv
<1>. QED
  BY <1>1, <1>3, <1>4, <1>5, <1>7, <1>8 DEF ThreadInv

\* The result of a contest is that of TeamSolo.
LEMMA SoloResultIs ==
  ASSUME TeamInv, Contesting, \A i \in 1..TaskCount : Known(i)
  PROVE  r = TheContest!SoloResult(contestInput)
<1>1. /\ contestInput \in Seq(Number) /\ TaskCount = Len(contestInput) /\ TaskCount \in Nat
      /\ \A i \in 1..TaskCount : contestInput[i] \in Number
  BY ContestFacts
<1>2. r \in Seq(Nat) /\ Len(r) = TaskCount
  BY DEF TeamInv
<1>3. r = [i \in 1..TaskCount |-> calcCollatz[contestInput[i]]]
  BY <1>2 DEF Known
<1>4. \A n \in Number : TheContest!calcCollatz[n] = calcCollatz[n]
  BY DEF calcCollatz, TheContest!calcCollatz, Successor, TheContest!Successor
<1>5. DOMAIN contestInput = 1..TaskCount
  BY <1>1
<1>. QED
  BY <1>1, <1>3, <1>4, <1>5 DEF TheContest!SoloResult

\* A contest returns.
LEMMA ContestReturns ==
  ASSUME TeamInv, Contesting, \A i \in 1..TaskCount : Known(i), Return
  PROVE  /\ TeamInv' /\ ~Contesting' /\ main'.pc = "idle" /\ TheContest!runContest
         /\ main'.next = main.next /\ main'.oldest = main.oldest
<1>1. /\ answers' = Append(answers, r)
      /\ main' = [main EXCEPT !.pc = "idle"]
      /\ UNCHANGED <<team, share, r>>
  BY DEF Return
<1>2. /\ main \in [pc : MainPlaces, next : Nat \ {0}, oldest : Nat \ {0}]
      /\ r \in Seq(Nat) /\ answers \in Seq(Seq(Nat)) /\ Len(answers) < Len(Inputs)
  BY DEF TeamInv
<1>3. Len(Inputs) \in Nat
  BY InputsAssumption
<1>4. answers' \in Seq(Seq(Nat)) /\ Len(answers') = Len(answers) + 1 /\ Len(answers) \in Nat
  BY <1>1, <1>2
<1>5. MainPlaces' = MainPlaces /\ "idle" \in MainPlaces
  BY <1>1 DEF MainPlaces
<1>6. main'.pc = "idle" /\ main' \in [pc : MainPlaces, next : Nat \ {0}, oldest : Nat \ {0}]
      /\ main'.next = main.next /\ main'.oldest = main.oldest
  BY <1>1, <1>2, <1>5
<1>7. ~Contesting'
  BY <1>6 DEF Contesting
<1>8. TeamInv'
  <2>1. Len(answers') <= Len(Inputs)
    BY <1>2, <1>3, <1>4
  <2>. QED
    BY <1>1, <1>2, <1>4, <1>5, <1>6, <1>7, <2>1 DEF TeamInv
<1>9. TheContest!runContest
  <2>1. r = TheContest!SoloResult(contestInput)
    BY SoloResultIs
  <2>. QED
    BY <1>1, <1>2, <2>1 DEF TheContest!runContest, contestInput
<1>. QED
  BY <1>6, <1>7, <1>8, <1>9

\* It returns, with every result known and every thread joined.
LEMMA ReturnFromThreadsKeeps ==
  ASSUME TeamInv, SharedInv, ThreadInv, team \in ThreadTeam, ReturnFromThreads
  PROVE  TeamInv' /\ SharedInv' /\ ThreadInv' /\ TheContest!runContest
<1>1. /\ main.pc = "loop" /\ AllStarted /\ Return /\ Contesting
      /\ UNCHANGED <<team, future, thread, results, call, tasks_>>
      /\ main.oldest = 1 + IF team = "ConstThreads" THEN TaskCount + Size ELSE TaskCount
  BY DEF ReturnFromThreads, Collected, Return, threadVars, sharedVars, poolVars, Contesting
<1>2. /\ TaskCount \in Nat /\ JobCount \in Nat /\ main.oldest \in Nat \ {0} /\ main.next \in Nat \ {0}
      /\ Size \in Nat /\ \A t \in Thread : t \in Nat
  BY ContestFacts, TeamAssumption, WorkersAssumption DEF TeamInv
<1>3. main.next > JobCount
  BY <1>1 DEF AllStarted
<1>4. \A i \in 1..TaskCount : Known(i)
  <2>1. \A i \in 1..TaskCount : i < main.oldest
    BY <1>1, <1>2
  <2>. QED
    BY <1>1, <2>1 DEF ThreadInv, FutureInv
<1>5. TeamInv' /\ ~Contesting' /\ TheContest!runContest
  BY <1>1, <1>4, ContestReturns
<1>6. SharedInv' /\ FutureInv'
  BY <1>1, <1>5 DEF SharedInv, FutureInv
<1>7. TasksInv
  BY DEF ThreadInv
<1>8. ASSUME team # "Pool" PROVE TasksInv' /\ StartedInv'
  <2>1. StartedInv /\ FirstUnjoined = JobCount + 1
    BY <1>1, <1>2, <1>8 DEF ThreadInv, FirstUnjoined, JobCount, ThreadTeam
  <2>2. ASSUME NEW t \in Thread PROVE thread[t].pc \in {"none", "joined"}
    <3>1. main.next <= JobCount + 1
      BY <1>1, <2>1 DEF StartedInv
    <3>2. t < FirstUnjoined \/ t >= main.next
      BY <1>2, <2>1, <3>1
    <3>. QED
      BY <1>1, <2>1, <3>2 DEF StartedInv
  <2>3. \A t \in Thread : thread[t].tasks = <<>> /\ call[t].pc = "idle"
    BY <1>7, <2>2 DEF TasksInv
  <2>. QED
    BY <1>1, <1>5, <1>7, <2>2, <2>3 DEF TasksInv, StartedInv
<1>9. ASSUME team = "Pool" PROVE TasksInv' /\ PoolInv'
  <2>1. PoolTypes /\ OrderInv /\ QueueInv /\ HeldInv
    BY <1>1, <1>9 DEF ThreadInv, PoolInv
  <2>2. LastPushed <= TaskCount /\ LastPushed \in Int
    BY <1>1, <1>2, <2>1 DEF OrderInv, LastPushed
  <2>3. \A i \in 1..TaskCount : future[i] # NoValue
    <3>1. \A i \in 1..TaskCount : i < main.oldest
      BY <1>1, <1>2, <1>9
    <3>. QED
      BY <2>1, <3>1 DEF OrderInv
  <2>4. \A i : ~Open(i)
    BY <1>2, <2>2, <2>3 DEF Open
  <2>5. \A t \in Thread : thread[t].tasks = <<>>
    BY <2>1, <2>4 DEF HeldInv
  <2>6. tasks_ = <<>>
    <3>1. tasks_ \in Seq(Nat)
      BY <2>1 DEF PoolTypes
    <3>2. \A k \in 1..Len(tasks_) : FALSE
      BY <2>1, <2>4 DEF QueueInv
    <3>3. Len(tasks_) = 0
      BY <3>1, <3>2
    <3>. QED
      BY <3>1, <3>3
  <2>7. \A t \in Thread : call[t].pc = "idle"
    BY <1>7, <2>5 DEF TasksInv
  <2>8. TasksInv'
    BY <1>1, <1>7, <2>5, <2>7 DEF TasksInv
  <2>9. PoolInv'
    BY <1>1, <1>5, <2>1, <2>6 DEF PoolInv, PoolTypes
  <2>. QED
    BY <2>8, <2>9
<1>. QED
  BY <1>1, <1>5, <1>6, <1>8, <1>9 DEF ThreadInv

-----------------------------------------------------------------------------
\* Every step of a team of threads keeps the invariant, and answers a
\* contest as TeamSolo does or none.
LEMMA ThreadStep ==
  ASSUME TeamInv, SharedInv, ThreadInv, team \in ThreadTeam, ThreadNext
  PROVE  /\ TeamInv' /\ SharedInv' /\ ThreadInv' /\ team' = team
         /\ answers' = answers \/ TheContest!runContest
<1>1. CASE ReturnFromThreads
  BY <1>1, ReturnFromThreadsKeeps DEF ReturnFromThreads, Return
<1>2. CASE ThreadMain /\ ~ReturnFromThreads
  <2>1. answers' = answers /\ team' = team
    BY <1>2 DEF ThreadMain, BeginContest, runContest, StartThread, GetOldest, JoinOldest, GetInOrder,
                JoinFront, PushTask, Notify, Destroy, WakeAll, JoinWorker, StartAsync,
                RunDeferred, GetAsync, teamVars
  <2>2. TeamInv' /\ SharedInv' /\ ThreadInv'
    BY <1>2, BeginContestKeeps, StartThreadKeeps, GetOldestKeeps, JoinOldestKeeps,
       GetInOrderKeeps, JoinFrontKeeps, PushTaskKeeps, NotifyKeeps, PoolEndKeeps,
       StartAsyncKeeps, RunDeferredKeeps, GetAsyncKeeps DEF ThreadMain
  <2>. QED
    BY <2>1, <2>2
<1>3. ASSUME NEW t \in Thread, Worker(t) \/ Awake(t)
      PROVE  TeamInv' /\ SharedInv' /\ ThreadInv' /\ answers' = answers /\ team' = team
  <2>1. answers' = answers /\ team' = team
    BY <1>3 DEF Worker, StartTask, ShareStep, SetValue, EndThread, TakeTask, Awake, teamVars
  <2>2. TeamInv' /\ SharedInv' /\ ThreadInv'
    BY <1>3, StartTaskKeeps, ShareStepKeeps, SetValueKeeps, EndThreadKeeps, TakeTaskKeeps,
       AwakeKeeps DEF Worker
  <2>. QED
    BY <2>1, <2>2
<1>. QED
  BY <1>1, <1>2, <1>3 DEF ThreadNext

-----------------------------------------------------------------------------
(* Parts of a sequence.                                                    *)

\* A part lies between its bounds.
LEMMA PartBounds ==
  ASSUME NEW S, NEW s, NEW t, NEW a, NEW b, Part(S, s, t, a, b)
  PROVE  a \in Nat /\ b \in Nat /\ a <= b /\ Len(s) = b - a /\ (s = <<>> <=> a = b)
BY DEF Part

\* Taking the first element of a part moves its lower bound.
LEMMA PartTail ==
  ASSUME NEW S, NEW s, NEW t, NEW a, NEW b, Part(S, s, t, a, b), s # <<>>
  PROVE  /\ Head(s) = t[a + 1] /\ Head(s) \in S
         /\ Part(S, Tail(s), t, a + 1, b) /\ Len(Tail(s)) = Len(s) - 1
<1>1. /\ s \in Seq(S) /\ a \in Nat /\ b \in Nat /\ Len(s) = b - a
      /\ \A k \in 1..Len(s) : s[k] = t[a + k]
  BY DEF Part
<1>2. /\ Head(s) = s[1] /\ Tail(s) \in Seq(S) /\ Len(Tail(s)) = Len(s) - 1
      /\ 1 \in 1..Len(s)
      /\ \A k \in 1..Len(Tail(s)) : Tail(s)[k] = s[k + 1]
  BY <1>1
<1>3. ASSUME NEW k \in 1..Len(Tail(s)) PROVE Tail(s)[k] = t[(a + 1) + k]
  <2>1. k + 1 \in 1..Len(s) /\ a + (k + 1) = (a + 1) + k
    BY <1>1, <1>2
  <2>. QED
    BY <1>1, <1>2, <2>1
<1>. QED
  BY <1>1, <1>2, <1>3 DEF Part

\* Appending the next element moves its upper bound.
LEMMA PartAppend ==
  ASSUME NEW S, NEW s, NEW t, NEW a, NEW b, Part(S, s, t, a, b), NEW e \in S, e = t[b + 1]
  PROVE  Part(S, Append(s, e), t, a, b + 1)
<1>1. /\ s \in Seq(S) /\ a \in Nat /\ b \in Nat /\ Len(s) = b - a
      /\ \A k \in 1..Len(s) : s[k] = t[a + k]
  BY DEF Part
<1>2. /\ Append(s, e) \in Seq(S) /\ Len(Append(s, e)) = Len(s) + 1
      /\ \A k \in 1..Len(s) : Append(s, e)[k] = s[k]
      /\ Append(s, e)[Len(s) + 1] = e
  BY <1>1
<1>3. ASSUME NEW k \in 1..Len(s) + 1 PROVE Append(s, e)[k] = t[a + k]
  <2>1. k \in 1..Len(s) \/ (k = Len(s) + 1 /\ a + k = b + 1)
    BY <1>1
  <2>. QED
    BY <1>1, <1>2, <2>1
<1>. QED
  BY <1>1, <1>2, <1>3 DEF Part

\* A part that has both bounds of the whole is the whole.
LEMMA PartEnds ==
  ASSUME NEW S, NEW t
  PROVE  /\ \A a \in Nat : Part(S, <<>>, t, a, a)
         /\ t \in Seq(S) => Part(S, t, t, 0, Len(t))
BY DEF Part

-----------------------------------------------------------------------------
(* What parent and child write each other.                                 *)

\* The elements of a concatenation.
LEMMA Joined ==
  ASSUME NEW S, NEW s \in Seq(S), NEW t \in Seq(S)
  PROVE  /\ s \o t \in Seq(S) /\ Len(s \o t) = Len(s) + Len(t)
         /\ \A k \in 1..Len(s) : (s \o t)[k] = s[k]
         /\ \A k \in 1..Len(t) : (s \o t)[Len(s) + k] = t[k]
OBVIOUS

\* What the parent writes to a child: the count, then two messages a number.
LEMMA OrderIs ==
  ASSUME NEW work \in Seq(Nat), \A k \in 1..Len(work) : contestInput[work[k]] \in Nat
  PROVE  /\ Order(work) \in Seq(Messages) /\ Len(Order(work)) = 1 + 2 * Len(work)
         /\ Order(work)[1] = Message("count", Len(work))
         /\ \A q \in 0..Len(work) - 1 :
              /\ Order(work)[2 + 2 * q].kind = "digits"
              /\ Order(work)[3 + 2 * q] = Message("text", contestInput[work[q + 1]])
<1>. DEFINE n == Len(work)
            body == [k \in 1..2 * n |->
                       Message(IF k % 2 = 1 THEN "digits" ELSE "text",
                               contestInput[work[(k + 1) \div 2]])]
            head == <<Message("count", n)>>
<1>1. n \in Nat
  OBVIOUS
<1>. HIDE DEF n
<1>2. \A k \in 1..2 * n : (k + 1) \div 2 \in 1..n
  BY <1>1
<1>3. head \in Seq(Messages) /\ Len(head) = 1 /\ head[1] = Message("count", n)
  BY <1>1 DEF Message, Messages
<1>4. body \in Seq(Messages) /\ Len(body) = 2 * n
  <2>1. \A k \in 1..2 * n : contestInput[work[(k + 1) \div 2]] \in Nat
    BY <1>2 DEF n
  <2>2. \A k \in 1..2 * n : body[k] \in Messages
    BY <2>1 DEF Message, Messages
  <2>3. body = [k \in 1..2 * n |-> body[k]] /\ 2 * n \in Nat
    BY <1>1
  <2>. HIDE DEF body
  <2>. QED
    BY <2>2, <2>3
<1>5. Order(work) = head \o body
  BY DEF Order, n
<1>6. \A k \in 1..2 * n : body[k] = Message(IF k % 2 = 1 THEN "digits" ELSE "text",
                                             contestInput[work[(k + 1) \div 2]])
  OBVIOUS
<1>. HIDE DEF head, body
<1>7. /\ Order(work) \in Seq(Messages) /\ Len(Order(work)) = 1 + 2 * n
      /\ Order(work)[1] = Message("count", n)
      /\ \A k \in 1..2 * n : Order(work)[1 + k] = body[k]
  <2>. DEFINE joined == head \o body
  <2>1. /\ joined \in Seq(Messages) /\ Len(joined) = Len(head) + Len(body)
        /\ \A k \in 1..Len(head) : joined[k] = head[k]
        /\ \A k \in 1..Len(body) : joined[Len(head) + k] = body[k]
    <3>1. head \in Seq(Messages) /\ body \in Seq(Messages)
      BY <1>3, <1>4
    <3>. QED
      BY ONLY <3>1, Joined
  <2>2. Order(work) = joined
    BY <1>5
  <2>. HIDE DEF joined
  <2>3. 1 \in 1..Len(head)
    BY <1>3
  <2>4. joined[1] = Message("count", n)
    BY <1>3, <2>1, <2>3
  <2>. QED
    BY <1>3, <1>4, <2>1, <2>2, <2>4
<1>8. ASSUME NEW q \in 0..n - 1
      PROVE  /\ Order(work)[2 + 2 * q].kind = "digits"
             /\ Order(work)[3 + 2 * q] = Message("text", contestInput[work[q + 1]])
  <2>1. /\ 1 + 2 * q \in 1..2 * n /\ (1 + 2 * q) % 2 = 1 /\ 1 + (1 + 2 * q) = 2 + 2 * q
        /\ 2 + 2 * q \in 1..2 * n /\ (2 + 2 * q) % 2 = 0 /\ 1 + (2 + 2 * q) = 3 + 2 * q
        /\ ((2 + 2 * q) + 1) \div 2 = q + 1
    BY <1>1
  <2>2. body[1 + 2 * q] = Message("digits", contestInput[work[((1 + 2 * q) + 1) \div 2]])
    BY <1>6, <2>1
  <2>3. body[2 + 2 * q] = Message("text", contestInput[work[((2 + 2 * q) + 1) \div 2]])
    BY <1>6, <2>1
  <2>4. /\ Order(work)[2 + 2 * q] = body[1 + 2 * q]
        /\ Order(work)[3 + 2 * q] = body[2 + 2 * q]
    BY <1>7, <2>1
  <2>. QED
    BY <2>1, <2>2, <2>3, <2>4 DEF Message
<1>. QED
  BY <1>7, <1>8 DEF n

\* A job has a slot.
LEMMA SlotType == \A j \in Nat \ {0} : Slot(j) \in Slots
BY TeamAssumption DEF Slot, Slots

\* Jobs that share a slot are at least Size apart.
LEMMA SlotsDiffer ==
  ASSUME NEW i \in Nat \ {0}, NEW j \in Nat \ {0}, i < j, j - i < Size
  PROVE  Slot(i) # Slot(j)
<1>. DEFINE d == (i - 1) \div Size
            e == (j - 1) \div Size
            m == (i - 1) % Size
<1>. SUFFICES ASSUME (j - 1) % Size = m PROVE FALSE
  BY TeamAssumption DEF Slot
<1>1. /\ i - 1 = Size * d + m /\ d \in Nat /\ m \in Nat /\ Size \in Nat
      /\ j - 1 = Size * e + m /\ e \in Nat
  BY TeamAssumption
<1>. HIDE DEF d, e, m
<1>2. CASE e <= d
  <2>1. e * Size <= d * Size
    BY ONLY <1>1, <1>2, Times
  <2>2. Size * e = e * Size /\ Size * d = d * Size
    BY ONLY <1>1
  <2>. QED
    BY <1>1, <2>1, <2>2
<1>3. CASE d + 1 <= e
  <2>1. d + 1 \in Nat
    BY <1>1
  <2>2. (d + 1) * Size <= e * Size
    BY ONLY <1>1, <1>3, <2>1, Times
  <2>3. Size * e = e * Size /\ (d + 1) * Size = Size * d + Size
    BY ONLY <1>1
  <2>. QED
    BY <1>1, <2>2, <2>3
<1>. QED
  BY <1>1, <1>2, <1>3

-----------------------------------------------------------------------------
(* The jobs that have a child.                                             *)

\* The types of a job that has a child.
LEMMA JobFacts ==
  ASSUME TeamInv, WindowInv, team \in ProcessTeam, NEW j \in Child, Active(j)
  PROVE  /\ Contesting /\ j \in 1..JobCount /\ j \in Nat
         /\ Slot(j) \in Slots /\ Task(Slot(j)) \in Pipes /\ Result(Slot(j)) \in Pipes
         /\ Work(j) \in Seq(Nat) /\ Len(Work(j)) \in Nat
         /\ \A k \in 1..Len(Work(j)) :
              Work(j)[k] \in 1..TaskCount /\ contestInput[Work(j)[k]] \in Nat
         /\ Numbers(j) \in Seq(Nat) /\ Len(Numbers(j)) = Len(Work(j))
         /\ Values(j) \in Seq(Nat) /\ Len(Values(j)) = Len(Work(j))
         /\ \A k \in 1..Len(Work(j)) : Numbers(j)[k] = contestInput[Work(j)[k]]
         /\ \A k \in 1..Len(Work(j)) :
              /\ Values(j)[k] = calcCollatz[contestInput[Work(j)[k]]]
              /\ Replies(j)[k] = Message("result", Values(j)[k])
<1>. DEFINE n == Len(Work(j))
<1>1. j \in Nat \ {0} /\ main.next \in Nat /\ main.oldest \in Nat
  BY WorkersAssumption DEF TeamInv
<1>2. Contesting /\ j \in 1..JobCount /\ TaskCount \in Nat
  <2>1. Contesting
    BY <1>1 DEF WindowInv, Active, Contesting, ProcessTeam
  <2>2. JobCount \in Nat /\ main.next <= JobCount + 1 /\ TaskCount \in Nat
    BY <2>1, ContestFacts DEF WindowInv
  <2>3. j <= JobCount
    BY <1>1, <2>2 DEF WindowInv, Active
  <2>. QED
    BY <1>1, <2>1, <2>2, <2>3
<1>3. /\ Slot(j) \in Slots /\ Task(Slot(j)) \in Pipes /\ Result(Slot(j)) \in Pipes
  <2>1. Slot(j) \in Slots
    BY <1>1, SlotType
  <2>. QED
    BY <2>1 DEF Task, Result, Pipes
<1>4. Work(j) \in Seq(Nat) /\ \A k \in 1..n : Work(j)[k] \in 1..TaskCount
  BY <1>2, WorkRight
<1>5. n \in Nat
  BY <1>4
<1>6. \A k \in 1..n : /\ contestInput[Work(j)[k]] \in Number
                      /\ calcCollatz[contestInput[Work(j)[k]]] \in Nat
  BY <1>2, <1>4, ContestFacts
<1>7. \A k \in 1..n : contestInput[Work(j)[k]] \in Nat
  BY <1>6, NumberAssumption
<1>8. /\ Numbers(j) = [k \in 1..n |-> contestInput[Work(j)[k]]]
      /\ Values(j) = [k \in 1..n |-> calcCollatz[Numbers(j)[k]]]
      /\ Replies(j) = [k \in 1..n |-> Message("result", Values(j)[k])]
  BY DEF Numbers, Values, Replies
<1>. HIDE DEF n
<1>9. \A k \in 1..n : Numbers(j)[k] = contestInput[Work(j)[k]]
  BY <1>8
<1>10. \A k \in 1..n : /\ Values(j)[k] = calcCollatz[contestInput[Work(j)[k]]]
                       /\ Replies(j)[k] = Message("result", Values(j)[k])
  BY <1>8, <1>9
<1>11. Numbers(j) \in Seq(Nat) /\ Len(Numbers(j)) = n
  BY <1>5, <1>7, <1>8, <1>9
<1>12. Values(j) \in Seq(Nat) /\ Len(Values(j)) = n
  BY <1>5, <1>6, <1>8, <1>9, <1>10
<1>. QED
  BY <1>1, <1>2, <1>3, <1>4, <1>5, <1>7, <1>9, <1>10, <1>11, <1>12 DEF n

\* No two jobs in the window share a slot, and so a pair of pipes.
LEMMA OneInSlot ==
  ASSUME TeamInv, WindowInv, NEW i \in Child, NEW j \in Child, Active(i), Active(j),
         Slot(i) = Slot(j)
  PROVE  i = j
<1>1. /\ i \in Nat \ {0} /\ j \in Nat \ {0} /\ main.next \in Nat /\ main.oldest \in Nat
      /\ Size \in Nat
  BY WorkersAssumption, TeamAssumption DEF TeamInv
<1>2. i - j < Size /\ j - i < Size
  <2>1. Contesting => main.next - main.oldest <= Size
    BY DEF WindowInv
  <2>2. ~Contesting => main.next = main.oldest
    BY DEF WindowInv
  <2>. QED
    BY <1>1, <2>1, <2>2, TeamAssumption DEF WindowInv, Active
<1>3. ~(i < j)
  BY <1>1, <1>2, SlotsDiffer
<1>4. ~(j < i)
  BY <1>1, <1>2, SlotsDiffer
<1>. QED
  BY <1>1, <1>3, <1>4

-----------------------------------------------------------------------------
(* What the calls make of a pipe.                                          *)

\* open and close of a pipe change its ends and who waits for them.
LEMMA PipeOperations ==
  ASSUME NEW q \in Pipe, NEW p \in Child \cup {Parent}
  PROVE  /\ LET o == OpenToRead(q, p)
            IN  /\ o \in Pipe /\ o.named = q.named /\ o.data = q.data
                /\ o.readers = q.readers \cup {p} /\ o.writers = q.writers
                /\ o.opening = IF q.writers = {} THEN q.opening \cup {p} ELSE q.opening \ q.writers
         /\ LET o == OpenToWrite(q, p)
            IN  /\ o \in Pipe /\ o.named = q.named /\ o.data = q.data
                /\ o.writers = q.writers \cup {p} /\ o.readers = q.readers
                /\ o.opening = IF q.readers = {} THEN q.opening \cup {p} ELSE q.opening \ q.readers
         /\ LET o == close(q, p)
            IN  /\ o \in Pipe /\ o.named = q.named /\ o.data = q.data /\ o.opening = q.opening
                /\ o.readers = q.readers \ {p} /\ o.writers = q.writers \ {p}
<1>1. /\ q.named \in BOOLEAN /\ q.data \in Seq(Messages)
      /\ q.readers \subseteq Child \cup {Parent} /\ q.writers \subseteq Child \cup {Parent}
      /\ q.opening \subseteq Child \cup {Parent}
      /\ q = [named |-> q.named, readers |-> q.readers, writers |-> q.writers,
              opening |-> q.opening, data |-> q.data]
  BY DEF Pipe
<1>. QED
  BY <1>1 DEF Pipe, OpenToRead, OpenToWrite, close

\* unlink takes the name only.
LEMMA UnlinkIs ==
  ASSUME NEW q \in Pipe
  PROVE  LET o == unlink(q)
         IN  /\ o \in Pipe /\ o.named = FALSE /\ o.data = q.data /\ o.opening = q.opening
             /\ o.readers = q.readers /\ o.writers = q.writers
BY DEF Pipe, unlink

\* write appends a message.
LEMMA WriteIs ==
  ASSUME NEW q \in Pipe, NEW m \in Messages
  PROVE  LET o == write(q, m)
         IN  /\ o \in Pipe /\ o.named = q.named /\ o.opening = q.opening
             /\ o.readers = q.readers /\ o.writers = q.writers
             /\ o.data = Append(q.data, m)
<1>1. q.data \in Seq(Messages)
  BY DEF Pipe
<1>2. Append(q.data, m) \in Seq(Messages)
  BY <1>1
<1>. QED
  BY <1>2 DEF Pipe, write

\* read takes the first one.
LEMMA ReadIs ==
  ASSUME NEW q \in Pipe, ~AtEnd(q)
  PROVE  LET o == read(q)
         IN  /\ o \in Pipe /\ o.named = q.named /\ o.opening = q.opening
             /\ o.readers = q.readers /\ o.writers = q.writers
             /\ o.data = Tail(q.data)
<1>1. q.data \in Seq(Messages) /\ q.data # <<>>
  BY DEF Pipe, AtEnd
<1>2. Tail(q.data) \in Seq(Messages)
  BY <1>1
<1>. QED
  BY <1>2 DEF Pipe, read

-----------------------------------------------------------------------------
(* What a step of a child makes of its job.                                *)

SentValues == {"open", "write", "all"}
GotValues  == {"no", "read", "wait"}

\* The result pipe does not tell how far a child is before it opens it.
LEMMA EarlyResult ==
  ASSUME NEW j, NEW c, NEW d, NEW p, NEW got, NEW left, NEW work, NEW replies, NEW n,
         c.pc \in {"start", "count", "digits", "text", "computed"},
         d.pc \in {"start", "count", "digits", "text", "computed"},
         ResultPipe(j, c, p, got, left, work, replies, n)
  PROVE  ResultPipe(j, d, p, got, left, work, replies, n)
BY DEF ResultPipe, HasWritten

\* Nor the task pipe what it does afterwards.
LEMMA LateTask ==
  ASSUME NEW j, NEW c, NEW d, NEW q, NEW sent, NEW left, NEW order, NEW n,
         c.pc \in {"computed", "write", "zombie"}, d.pc \in {"computed", "write", "zombie"},
         TaskPipe(j, c, q, sent, left, order, n)
  PROVE  TaskPipe(j, d, q, sent, left, order, n)
BY DEF TaskPipe, HasRead

\* A child opens its task pipe for reading.
LEMMA KidOpensTask ==
  ASSUME NEW j \in Child, NEW c \in Kid, NEW q \in Pipe, NEW sent \in SentValues, NEW left,
         NEW order, NEW n \in Nat, NEW numbers, NEW values,
         ChildInv(c, n, numbers, values), TaskPipe(j, c, q, sent, left, order, n),
         c.pc = "start"
  PROVE  LET d == [c EXCEPT !.pc = "count"]
         IN  /\ d \in Kid /\ ChildInv(d, n, numbers, values)
             /\ TaskPipe(j, d, OpenToRead(q, j), sent, left, order, n)
<1>. DEFINE d == [c EXCEPT !.pc = "count"]
            o == OpenToRead(q, j)
<1>1. /\ d \in Kid /\ d.pc = "count" /\ d.got = c.got /\ d.results = c.results /\ d.count = c.count
      /\ d \in [pc : {"start", "count", "digits", "text", "computed", "write", "zombie"},
                count : Nat, got : Seq(Nat), results : Seq(Nat)]
  BY DEF Kid
<1>2. /\ o.data = q.data /\ o.readers = q.readers \cup {j} /\ o.writers = q.writers
      /\ o.opening = IF q.writers = {} THEN q.opening \cup {j} ELSE q.opening \ q.writers
  BY PipeOperations
<1>. HIDE DEF d, o
<1>3. ChildInv(d, n, numbers, values)
  BY <1>1 DEF ChildInv
<1>4. HasRead(d, n) = HasRead(c, n)
  BY <1>1 DEF HasRead
<1>5. /\ q.readers = {} /\ q.writers = IF sent = "write" THEN {Parent} ELSE {}
      /\ q.opening = IF sent = "write" THEN {Parent} ELSE {}
      /\ sent # "all"
  BY DEF TaskPipe, SentValues
<1>6. o.opening = IF sent = "open" THEN {j} ELSE {}
  BY <1>2, <1>5 DEF SentValues
<1>7. TaskPipe(j, d, o, sent, left, order, n)
  BY <1>1, <1>2, <1>4, <1>5, <1>6 DEF TaskPipe
<1>. QED
  BY <1>1, <1>3, <1>7 DEF d, o

\* A child that reads finds the message it is meant for.
LEMMA KidFinds ==
  ASSUME NEW j \in Child, NEW c \in Kid, NEW q \in Pipe, NEW sent \in SentValues, NEW left,
         NEW order, NEW n \in Nat, NEW numbers, NEW values,
         ChildInv(c, n, numbers, values), TaskPipe(j, c, q, sent, left, order, n),
         c.pc \in {"count", "digits", "text"}, c.pc = "digits" => Len(c.got) < c.count,
         j \notin q.opening, Readable(q),
         order[1] = Message("count", n),
         \A k \in 0..n - 1 : /\ order[2 + 2 * k].kind = "digits"
                             /\ order[3 + 2 * k] = Message("text", numbers[k + 1])
  PROVE  /\ ~AtEnd(q) /\ Head(q.data).kind = c.pc
         /\ c.pc = "count" => Head(q.data).of = n
         /\ c.pc = "text" => Head(q.data).of = numbers[Len(c.got) + 1]
         /\ c.pc = "text" => Len(c.got) < n
<1>1. /\ Part(Messages, q.data, order, HasRead(c, n), ParentWrote(sent, left, n))
      /\ q.writers = IF sent = "write" THEN {Parent} ELSE {}
      /\ c.pc = "count" /\ sent = "open" => q.opening = {j}
  BY DEF TaskPipe
<1>2. HasRead(c, n) \in Nat /\ ParentWrote(sent, left, n) \in Nat
      /\ HasRead(c, n) <= ParentWrote(sent, left, n)
      /\ (q.data = <<>> <=> HasRead(c, n) = ParentWrote(sent, left, n))
  BY <1>1, PartBounds
<1>3. Len(c.got) \in Nat /\ c.count \in Nat /\ (c.pc \in {"digits", "text"} => c.count = n)
  BY DEF Kid, ChildInv
<1>4. sent = "write" => ParentWrote(sent, left, n) <= 1 + 2 * n
  BY PartBounds DEF TaskPipe
<1>5. ParentWrote(sent, left, n) <= 1 + 2 * n
  BY <1>4 DEF ParentWrote, SentValues
<1>6. c.pc = "text" => Len(c.got) < n
  BY <1>2, <1>3, <1>5 DEF HasRead
<1>7. q.data # <<>>
  <2>. SUFFICES ASSUME q.data = <<>> PROVE FALSE
    OBVIOUS
  <2>1. sent # "write"
    BY <1>1 DEF Readable
  <2>2. HasRead(c, n) = ParentWrote(sent, left, n)
    BY <1>2
  <2>3. CASE sent = "open"
    <3>1. HasRead(c, n) = 0
      BY <2>2, <2>3 DEF ParentWrote
    <3>2. c.pc = "count"
      BY <1>3, <3>1 DEF HasRead
    <3>. QED
      BY <1>1, <2>3, <3>2
  <2>4. CASE sent = "all"
    <3>1. HasRead(c, n) = 1 + 2 * n
      BY <2>2, <2>4 DEF ParentWrote
    <3>. QED
      BY <1>3, <1>6, <3>1 DEF HasRead
  <2>. QED
    BY <2>1, <2>3, <2>4 DEF SentValues
<1>8. Head(q.data) = order[HasRead(c, n) + 1]
  <2>. DEFINE data == q.data
              a == HasRead(c, n)
              b == ParentWrote(sent, left, n)
  <2>1. Part(Messages, data, order, a, b) /\ data # <<>>
    BY <1>1, <1>7
  <2>. HIDE DEF data, a, b
  <2>2. a \in Nat /\ b \in Nat
    BY <2>1, PartBounds
  <2>3. /\ Head(data) = order[a + 1] /\ Head(data) \in Messages
        /\ Part(Messages, Tail(data), order, a + 1, b) /\ Len(Tail(data)) = Len(data) - 1
    BY ONLY <2>1, <2>2, PartTail
  <2>. QED
    BY <2>3 DEF data, a
<1>9. CASE c.pc = "count"
  BY <1>7, <1>8, <1>9 DEF HasRead, AtEnd, Message
<1>10. CASE c.pc = "digits"
  <2>1. Len(c.got) \in 0..n - 1 /\ HasRead(c, n) + 1 = 2 + 2 * Len(c.got)
    BY <1>3, <1>10 DEF HasRead
  <2>2. order[2 + 2 * Len(c.got)].kind = "digits"
    BY <2>1
  <2>. QED
    BY <1>7, <1>8, <1>10, <2>1, <2>2 DEF AtEnd
<1>11. CASE c.pc = "text"
  <2>1. Len(c.got) \in 0..n - 1 /\ HasRead(c, n) + 1 = 3 + 2 * Len(c.got)
    BY <1>3, <1>6, <1>11 DEF HasRead
  <2>2. order[3 + 2 * Len(c.got)] = Message("text", numbers[Len(c.got) + 1])
    BY <2>1
  <2>. QED
    BY <1>6, <1>7, <1>8, <1>11, <2>1, <2>2 DEF AtEnd, Message
<1>. QED
  BY <1>9, <1>10, <1>11

KidAfter(c, m) ==
    CASE c.pc = "count"  -> [c EXCEPT !.pc = "digits", !.count = m.of]
      [] c.pc = "digits" -> [c EXCEPT !.pc = "text"]
      [] c.pc = "text"   -> [c EXCEPT !.pc = "digits", !.got = Append(@, m.of)]

\* A child reads the message that comes next, which is of the kind it expects.
LEMMA KidReads ==
  ASSUME NEW j \in Child, NEW c \in Kid, NEW q \in Pipe, NEW sent \in SentValues, NEW left,
         NEW order, NEW n \in Nat, NEW numbers \in Seq(Nat), NEW values, Len(numbers) = n,
         ChildInv(c, n, numbers, values), TaskPipe(j, c, q, sent, left, order, n),
         c.pc \in {"count", "digits", "text"}, ~AtEnd(q),
         c.pc = "count" => Head(q.data).of = n,
         c.pc = "text" => Head(q.data).of = numbers[Len(c.got) + 1] /\ Len(c.got) < n
  PROVE  LET d == KidAfter(c, Head(q.data))
         IN  /\ d \in Kid /\ ChildInv(d, n, numbers, values) /\ d.pc \in {"digits", "text"}
             /\ TaskPipe(j, d, read(q), sent, left, order, n)
<1>. DEFINE d == KidAfter(c, Head(q.data))
            o == read(q)
            w == ParentWrote(sent, left, n)
<1>1. /\ Part(Messages, q.data, order, HasRead(c, n), w)
      /\ q.readers = {j} /\ q.writers = IF sent = "write" THEN {Parent} ELSE {}
      /\ q.opening = IF c.pc = "count" /\ sent = "open" THEN {j} ELSE {}
      /\ sent = "write" => Part(Messages, left, order, w, 1 + 2 * n)
  BY DEF TaskPipe
<1>2. /\ o.opening = q.opening /\ o.readers = q.readers /\ o.writers = q.writers
      /\ o.data = Tail(q.data)
  BY ReadIs
<1>3. Part(Messages, o.data, order, HasRead(c, n) + 1, w)
  BY <1>1, <1>2, PartTail DEF AtEnd
<1>4. /\ c.got \in Seq(Nat) /\ c.results \in Seq(Nat) /\ c.count \in Nat
      /\ c = [pc |-> c.pc, count |-> c.count, got |-> c.got, results |-> c.results]
      /\ (c.pc = "count" => c.got = <<>>)
      /\ (c.pc # "count" => c.count = n /\ Part(Nat, c.got, numbers, 0, Len(c.got)))
  BY DEF Kid, ChildInv
<1>5. c.pc = "count" /\ sent = "open" => FALSE
  <2>1. HasRead(c, n) + 1 <= w
    BY <1>3, PartBounds
  <2>. QED
    BY <2>1 DEF HasRead, ParentWrote
<1>6. /\ d \in Kid /\ d.pc \in {"digits", "text"} /\ ChildInv(d, n, numbers, values)
      /\ HasRead(d, n) = HasRead(c, n) + 1
  <2>1. CASE c.pc = "count"
    <3>1. /\ d.pc = "digits" /\ d.count = n /\ d.got = <<>> /\ d.results = c.results
          /\ d = [pc |-> d.pc, count |-> d.count, got |-> d.got, results |-> d.results]
      BY <1>4, <2>1 DEF KidAfter
    <3>2. Part(Nat, <<>>, numbers, 0, 0) /\ Len(<<>>) = 0
      BY PartEnds
    <3>. HIDE DEF d
    <3>3. d \in Kid /\ ChildInv(d, n, numbers, values)
      <4>1. <<>> \in Seq(Nat)
        OBVIOUS
      <4>2. Part(Nat, d.got, numbers, 0, Len(d.got))
        BY <3>1, <3>2
      <4>. QED
        BY <1>4, <3>1, <4>1, <4>2 DEF Kid, ChildInv
    <3>. QED
      BY <2>1, <3>1, <3>2, <3>3 DEF HasRead
  <2>2. CASE c.pc = "digits"
    <3>1. /\ d.pc = "text" /\ d.count = n /\ d.got = c.got /\ d.results = c.results
          /\ d = [pc |-> d.pc, count |-> d.count, got |-> d.got, results |-> d.results]
      BY <1>4, <2>2 DEF KidAfter
    <3>. HIDE DEF d
    <3>2. d \in Kid /\ ChildInv(d, n, numbers, values)
      BY <1>4, <2>2, <3>1 DEF Kid, ChildInv
    <3>3. HasRead(d, n) = HasRead(c, n) + 1
      BY <1>4, <2>2, <3>1 DEF HasRead
    <3>. QED
      BY <3>1, <3>2, <3>3
  <2>3. CASE c.pc = "text"
    <3>. DEFINE e == numbers[Len(c.got) + 1]
                g == Append(c.got, e)
    <3>1. /\ d.pc = "digits" /\ d.count = n /\ d.got = g /\ d.results = c.results
          /\ d = [pc |-> d.pc, count |-> d.count, got |-> d.got, results |-> d.results]
      BY <1>4, <2>3 DEF KidAfter
    <3>2. Len(c.got) + 1 \in 1..Len(numbers) /\ Len(c.got) \in Nat
      BY <1>4, <2>3
    <3>3. e \in Nat
      BY <3>2
    <3>. HIDE DEF d, e
    <3>4. g \in Seq(Nat) /\ Len(g) = Len(c.got) + 1
      BY <1>4, <3>3
    <3>5. Part(Nat, g, numbers, 0, Len(c.got) + 1)
      BY <1>4, <2>3, <3>3, PartAppend DEF e
    <3>. HIDE DEF g
    <3>6. d \in Kid /\ ChildInv(d, n, numbers, values)
      BY <1>4, <3>1, <3>4, <3>5 DEF Kid, ChildInv
    <3>7. HasRead(d, n) = HasRead(c, n) + 1
      BY <2>3, <3>1, <3>2, <3>4 DEF HasRead
    <3>. QED
      BY <3>1, <3>6, <3>7
  <2>. QED
    BY <2>1, <2>2, <2>3
<1>. HIDE DEF d, o, w
<1>7. TaskPipe(j, d, o, sent, left, order, n)
  <2>1. /\ o.readers = {j} /\ o.writers = (IF sent = "write" THEN {Parent} ELSE {})
        /\ o.opening = {} /\ Part(Messages, o.data, order, HasRead(d, n), w)
    BY <1>1, <1>2, <1>3, <1>5, <1>6
  <2>. QED
    BY <1>1, <1>6, <2>1 DEF TaskPipe, w
<1>. QED
  BY <1>6, <1>7 DEF d, o

CalcAll(numbers, n) == [k \in 1..n |-> calcCollatz[numbers[k]]]

\* A child that has read all its numbers computes their results.
LEMMA KidComputes ==
  ASSUME NEW j \in Child, NEW c \in Kid, NEW q \in Pipe, NEW sent \in SentValues, NEW left,
         NEW order, NEW n \in Nat, NEW numbers \in Seq(Nat), NEW values \in Seq(Nat),
         Len(numbers) = n, Len(values) = n,
         ChildInv(c, n, numbers, values), TaskPipe(j, c, q, sent, left, order, n),
         c.pc = "digits", Len(c.got) = c.count,
         values = CalcAll(numbers, n)
  PROVE  LET d == [c EXCEPT !.pc = "computed", !.results = CalcAll(c.got, c.count)]
         IN  /\ d \in Kid /\ ChildInv(d, n, numbers, values)
             /\ TaskPipe(j, d, close(q, j), sent, left, order, n)
<1>. DEFINE result == CalcAll(c.got, c.count)
            d == [c EXCEPT !.pc = "computed", !.results = result]
            o == close(q, j)
<1>1. c.count = n /\ Part(Nat, c.got, numbers, 0, n) /\ Len(c.got) = n
  BY DEF ChildInv
<1>2. result = values
  <2>1. \A k \in 1..n : c.got[k] = numbers[k]
    <3>1. \A k \in 1..n : c.got[k] = numbers[0 + k]
      BY <1>1 DEF Part
    <3>. QED
      BY <3>1
  <2>. QED
    BY <1>1, <2>1 DEF CalcAll
<1>3. /\ d \in Kid /\ d.pc = "computed" /\ d.got = c.got /\ d.results = values /\ d.count = c.count
      /\ d \in [pc : {"start", "count", "digits", "text", "computed", "write", "zombie"},
                count : Nat, got : Seq(Nat), results : Seq(Nat)]
  BY <1>2 DEF Kid
<1>4. /\ o.data = q.data /\ o.readers = q.readers \ {j} /\ o.writers = q.writers \ {j}
      /\ o.opening = q.opening
  BY PipeOperations
<1>. HIDE DEF d, o
<1>5. Part(Nat, values, values, 0, n) /\ n - Len(d.results) = 0
  BY <1>3, PartEnds
<1>6. ChildInv(d, n, numbers, values)
  BY <1>3, <1>5 DEF ChildInv
<1>7. HasRead(d, n) = 1 + 2 * n /\ HasRead(c, n) = 1 + 2 * n
  BY <1>1, <1>3 DEF HasRead
<1>8. /\ q.readers = {j} /\ q.writers = (IF sent = "write" THEN {Parent} ELSE {})
      /\ q.opening = {}
  BY DEF TaskPipe
<1>9. o.readers = {} /\ o.writers = q.writers
  BY <1>4, <1>8, WorkersAssumption
<1>10. TaskPipe(j, d, o, sent, left, order, n)
  BY <1>3, <1>4, <1>7, <1>8, <1>9 DEF TaskPipe
<1>. QED
  BY <1>3, <1>6, <1>10 DEF d, o

\* A child opens its result pipe for writing.
LEMMA KidOpensResult ==
  ASSUME NEW j \in Child, NEW c \in Kid, NEW p \in Pipe, NEW got \in GotValues, NEW left,
         NEW work, NEW replies, NEW n \in Nat, NEW numbers, NEW values,
         ChildInv(c, n, numbers, values), ResultPipe(j, c, p, got, left, work, replies, n),
         c.pc = "computed"
  PROVE  LET d == [c EXCEPT !.pc = "write"]
         IN  /\ d \in Kid /\ ChildInv(d, n, numbers, values)
             /\ ResultPipe(j, d, OpenToWrite(p, j), got, left, work, replies, n)
<1>. DEFINE d == [c EXCEPT !.pc = "write"]
            o == OpenToWrite(p, j)
<1>1. /\ d \in Kid /\ d.pc = "write" /\ d.got = c.got /\ d.results = c.results /\ d.count = c.count
      /\ d \in [pc : {"start", "count", "digits", "text", "computed", "write", "zombie"},
                count : Nat, got : Seq(Nat), results : Seq(Nat)]
  BY DEF Kid
<1>2. /\ o.data = p.data /\ o.writers = p.writers \cup {j} /\ o.readers = p.readers
      /\ o.opening = IF p.readers = {} THEN p.opening \cup {j} ELSE p.opening \ p.readers
  BY PipeOperations
<1>. HIDE DEF d, o
<1>3. ChildInv(d, n, numbers, values)
  BY <1>1 DEF ChildInv
<1>4. HasWritten(d, n) = HasWritten(c, n)
  <2>1. Len(c.results) = n
    BY DEF ChildInv
  <2>. QED
    BY <1>1, <2>1 DEF HasWritten
<1>5. /\ p.readers = (IF got = "read" THEN {Parent} ELSE {}) /\ p.writers = {}
      /\ p.opening = (IF got = "read" THEN {Parent} ELSE {}) /\ got # "wait"
  BY DEF ResultPipe
<1>6. /\ o.opening = (IF got = "no" THEN {j} ELSE {}) /\ o.writers = {j}
      /\ o.readers = (IF got = "read" THEN {Parent} ELSE {})
  BY <1>2, <1>5 DEF GotValues
<1>7. ResultPipe(j, d, o, got, left, work, replies, n)
  BY <1>1, <1>2, <1>4, <1>5, <1>6 DEF ResultPipe
<1>. QED
  BY <1>1, <1>3, <1>7 DEF d, o

\* A child writes its next result, with the parent there to read it.
LEMMA KidWrites ==
  ASSUME NEW j \in Child, NEW c \in Kid, NEW p \in Pipe, NEW got \in GotValues, NEW left,
         NEW work, NEW replies, NEW n \in Nat, NEW numbers, NEW values \in Seq(Nat), Len(values) = n,
         ChildInv(c, n, numbers, values), ResultPipe(j, c, p, got, left, work, replies, n),
         c.pc = "write", c.results # <<>>, j \notin p.opening,
         \A k \in 1..n : replies[k] = Message("result", values[k])
  PROVE  LET d == [c EXCEPT !.results = Tail(@)]
             m == Message("result", Head(c.results))
         IN  /\ d \in Kid /\ ChildInv(d, n, numbers, values) /\ m \in Messages /\ ~Broken(p)
             /\ ResultPipe(j, d, write(p, m), got, left, work, replies, n)
<1>. DEFINE d == [c EXCEPT !.results = Tail(@)]
            m == Message("result", Head(c.results))
            o == write(p, m)
            v == n - Len(c.results)
<1>1. /\ Part(Nat, c.results, values, v, n) /\ c.results \in Seq(Nat)
  BY DEF ChildInv, Kid
<1>2. v \in Nat /\ v < n /\ v + 1 \in 1..n /\ Len(c.results) \in Nat
  BY <1>1, PartBounds
<1>3. /\ Head(c.results) = values[v + 1] /\ Head(c.results) \in Nat
      /\ Part(Nat, Tail(c.results), values, v + 1, n) /\ Len(Tail(c.results)) = Len(c.results) - 1
  <2>1. Part(Nat, c.results, values, v, n) /\ v \in Nat /\ n \in Nat /\ c.results # <<>>
    BY <1>1, <1>2
  <2>. HIDE DEF v
  <2>. QED
    BY ONLY <2>1, PartTail
<1>4. Tail(c.results) \in Seq(Nat)
  BY <1>1
<1>5. /\ d \in Kid /\ d.pc = "write" /\ d.got = c.got /\ d.results = Tail(c.results)
      /\ d.count = c.count
      /\ d \in [pc : {"start", "count", "digits", "text", "computed", "write", "zombie"},
                count : Nat, got : Seq(Nat), results : Seq(Nat)]
  BY <1>4 DEF Kid
<1>6. m \in Messages /\ m = replies[v + 1]
  BY <1>2, <1>3 DEF Message, Messages
<1>7. /\ o.data = Append(p.data, m) /\ o.writers = p.writers /\ o.readers = p.readers
      /\ o.opening = p.opening
  BY <1>6, WriteIs
<1>8. /\ p.readers = (IF got = "read" THEN {Parent} ELSE {}) /\ p.writers = {j}
      /\ p.opening = {} /\ got # "no"
      /\ Part(Messages, p.data, replies, ParentRead(got, left, n), v)
      /\ got = "read" => Part(Nat, left, work, ParentRead(got, left, n), n)
  BY DEF ResultPipe, HasWritten
<1>9. got = "read"
  <2>1. got = "wait" => ParentRead(got, left, n) = n
    BY DEF ParentRead
  <2>. HIDE DEF v
  <2>2. ParentRead(got, left, n) <= v
    BY <1>8, PartBounds
  <2>3. v \in Nat /\ v < n
    BY <1>2
  <2>4. got # "wait"
    BY <2>1, <2>2, <2>3
  <2>. QED
    BY <1>8, <2>4 DEF GotValues
<1>10. HasWritten(d, n) = v + 1
  <2>1. HasWritten(d, n) = n - Len(Tail(c.results))
    <3>1. d.pc = "write" /\ d.results = Tail(c.results)
      BY <1>5
    <3>. HIDE DEF d
    <3>. QED
      BY ONLY <3>1 DEF HasWritten
  <2>2. Len(Tail(c.results)) = Len(c.results) - 1 /\ Len(c.results) \in Nat /\ n \in Nat
    BY <1>2, <1>3
  <2>. QED
    BY ONLY <2>1, <2>2
<1>. HIDE DEF d, m, o, v
<1>11. ChildInv(d, n, numbers, values)
  <2>1. n - Len(d.results) = v + 1
    BY <1>2, <1>3, <1>5 DEF v
  <2>. QED
    BY <1>3, <1>5, <2>1 DEF ChildInv
<1>12. ResultPipe(j, d, o, got, left, work, replies, n)
  <2>1. Part(Messages, o.data, replies, ParentRead(got, left, n), v + 1)
    BY <1>6, <1>7, <1>8, PartAppend
  <2>. QED
    BY <1>5, <1>7, <1>8, <1>9, <1>10, <2>1 DEF ResultPipe
<1>13. ~Broken(p)
  BY <1>8, <1>9 DEF Broken
<1>. QED
  BY <1>5, <1>6, <1>11, <1>12, <1>13 DEF d, m, o

\* A child that has written all its results closes the pipe and exits.
LEMMA KidExits ==
  ASSUME NEW j \in Child, NEW c \in Kid, NEW p \in Pipe, NEW got \in GotValues, NEW left,
         NEW work, NEW replies, NEW n \in Nat, NEW numbers, NEW values,
         ChildInv(c, n, numbers, values), ResultPipe(j, c, p, got, left, work, replies, n),
         c.pc = "write", c.results = <<>>, j \notin p.opening
  PROVE  LET d == [c EXCEPT !.pc = "zombie"]
         IN  /\ d \in Kid /\ ChildInv(d, n, numbers, values)
             /\ ResultPipe(j, d, close(p, j), got, left, work, replies, n)
<1>. DEFINE d == [c EXCEPT !.pc = "zombie"]
            o == close(p, j)
<1>1. /\ d \in Kid /\ d.pc = "zombie" /\ d.got = c.got /\ d.results = c.results /\ d.count = c.count
      /\ d \in [pc : {"start", "count", "digits", "text", "computed", "write", "zombie"},
                count : Nat, got : Seq(Nat), results : Seq(Nat)]
  BY DEF Kid
<1>2. /\ o.data = p.data /\ o.writers = p.writers \ {j} /\ o.readers = p.readers \ {j}
      /\ o.opening = p.opening
  BY PipeOperations
<1>. HIDE DEF d, o
<1>3. ChildInv(d, n, numbers, values)
  BY <1>1 DEF ChildInv
<1>4. HasWritten(d, n) = HasWritten(c, n)
  <2>1. Len(c.results) = 0
    OBVIOUS
  <2>. QED
    BY <1>1, <2>1 DEF HasWritten
<1>5. /\ p.readers = (IF got = "read" THEN {Parent} ELSE {}) /\ p.writers = {j}
      /\ p.opening = {} /\ got # "no"
  BY DEF ResultPipe
<1>6. o.writers = {} /\ o.readers = p.readers
  BY <1>2, <1>5, WorkersAssumption
<1>7. ResultPipe(j, d, o, got, left, work, replies, n)
  BY <1>1, <1>2, <1>4, <1>5, <1>6 DEF ResultPipe
<1>. QED
  BY <1>1, <1>3, <1>7 DEF d, o

-----------------------------------------------------------------------------
(* What a step of the parent makes of the job it is busy with.             *)

\* A child that has been forked and a pipe that nobody has opened.
LEMMA ForkedJob ==
  ASSUME NEW j \in Child, NEW q \in Pipe, NEW p \in Pipe, NEW left, NEW order, NEW work,
         NEW replies, NEW n \in Nat, NEW numbers, NEW values, Fresh(q), Fresh(p)
  PROVE  LET d == [NoChild EXCEPT !.pc = "start"]
         IN  /\ d \in Kid /\ ChildInv(d, n, numbers, values)
             /\ TaskPipe(j, d, q, "open", left, order, n)
             /\ ResultPipe(j, d, p, "no", left, work, replies, n)
<1>. DEFINE d == [NoChild EXCEPT !.pc = "start"]
<1>1. /\ d = [pc |-> "start", count |-> 0, got |-> <<>>, results |-> <<>>]
      /\ <<>> \in Seq(Nat) /\ 0 \in Nat
  BY DEF NoChild
<1>2. Part(Messages, <<>>, order, 0, 0) /\ Part(Messages, <<>>, replies, 0, 0)
  BY PartEnds
<1>. HIDE DEF d
<1>3. d \in Kid /\ ChildInv(d, n, numbers, values)
  BY <1>1 DEF Kid, ChildInv
<1>4. HasRead(d, n) = 0 /\ HasWritten(d, n) = 0 /\ ParentWrote("open", left, n) = 0
      /\ ParentRead("no", left, n) = 0
  BY <1>1 DEF HasRead, HasWritten, ParentWrote, ParentRead
<1>5. TaskPipe(j, d, q, "open", left, order, n)
  BY <1>1, <1>2, <1>4 DEF TaskPipe, Fresh
<1>6. ResultPipe(j, d, p, "no", left, work, replies, n)
  BY <1>1, <1>2, <1>4 DEF ResultPipe, Fresh
<1>. QED
  BY <1>3, <1>5, <1>6 DEF d

\* The parent opens a task pipe for writing.
LEMMA ParentOpensTask ==
  ASSUME NEW j \in Child, NEW c \in Kid, NEW q \in Pipe, NEW left, NEW n \in Nat,
         NEW order \in Seq(Messages), Len(order) = 1 + 2 * n, NEW numbers, NEW values,
         ChildInv(c, n, numbers, values), TaskPipe(j, c, q, "open", left, order, n)
  PROVE  TaskPipe(j, c, OpenToWrite(q, Parent), "write", order, order, n)
<1>. DEFINE o == OpenToWrite(q, Parent)
<1>1. /\ o.data = q.data /\ o.writers = q.writers \cup {Parent} /\ o.readers = q.readers
      /\ o.opening = IF q.readers = {} THEN q.opening \cup {Parent} ELSE q.opening \ q.readers
  BY PipeOperations
<1>. HIDE DEF o
<1>2. /\ q.readers = (IF c.pc \in {"count", "digits", "text"} THEN {j} ELSE {})
      /\ q.writers = {} /\ q.opening = (IF c.pc = "count" THEN {j} ELSE {})
      /\ Part(Messages, q.data, order, HasRead(c, n), 0)
  BY DEF TaskPipe, ParentWrote
<1>3. c.pc \in {"start", "count"}
  <2>1. HasRead(c, n) = 0
    BY <1>2, PartBounds
  <2>2. Len(c.got) \in Nat
    BY DEF Kid
  <2>. QED
    BY <2>1, <2>2 DEF HasRead, ChildInv
<1>4. ParentWrote("write", order, n) = 0
  BY DEF ParentWrote
<1>5. Part(Messages, order, order, 0, 1 + 2 * n)
  BY PartEnds
<1>6. /\ o.writers = {Parent} /\ o.readers = q.readers
      /\ o.opening = IF c.pc = "start" THEN {Parent} ELSE {}
  BY <1>1, <1>2, <1>3
<1>. QED
  BY <1>1, <1>2, <1>3, <1>4, <1>5, <1>6 DEF TaskPipe, o

\* The parent writes the next message of the order.
LEMMA ParentWritesTask ==
  ASSUME NEW j \in Child, NEW c \in Kid, NEW q \in Pipe, NEW left, NEW n \in Nat,
         NEW order, NEW numbers, NEW values,
         ChildInv(c, n, numbers, values), TaskPipe(j, c, q, "write", left, order, n),
         left # <<>>, Parent \notin q.opening
  PROVE  /\ ~Broken(q) /\ Head(left) \in Messages
         /\ TaskPipe(j, c, write(q, Head(left)), "write", Tail(left), order, n)
<1>. DEFINE w == ParentWrote("write", left, n)
            o == write(q, Head(left))
<1>1. /\ q.readers = (IF c.pc \in {"count", "digits", "text"} THEN {j} ELSE {})
      /\ q.writers = {Parent} /\ q.opening = (IF c.pc = "start" THEN {Parent} ELSE {})
      /\ Part(Messages, q.data, order, HasRead(c, n), w)
      /\ Part(Messages, left, order, w, 1 + 2 * n)
  BY DEF TaskPipe
<1>2. w = 1 + 2 * n - Len(left)
  BY DEF ParentWrote
<1>3. w \in Nat /\ w < 1 + 2 * n /\ HasRead(c, n) <= w
  <2>1. w \in Nat /\ w <= 1 + 2 * n /\ w # 1 + 2 * n
    BY <1>1, PartBounds
  <2>2. HasRead(c, n) <= w
    BY <1>1, PartBounds
  <2>. QED
    BY <2>1, <2>2
<1>. HIDE DEF w
<1>4. /\ Head(left) = order[w + 1] /\ Head(left) \in Messages
      /\ Part(Messages, Tail(left), order, w + 1, 1 + 2 * n) /\ Len(Tail(left)) = Len(left) - 1
  BY <1>1, <1>3, PartTail
<1>5. c.pc # "start"
  BY <1>1
<1>6. c.pc \in {"count", "digits", "text"}
  BY <1>3, <1>5 DEF HasRead, ChildInv
<1>7. /\ o.data = Append(q.data, Head(left)) /\ o.writers = q.writers /\ o.readers = q.readers
      /\ o.opening = q.opening
  BY <1>4, WriteIs
<1>. HIDE DEF o
<1>8. Part(Messages, o.data, order, HasRead(c, n), w + 1)
  BY <1>1, <1>4, <1>7, PartAppend
<1>9. ParentWrote("write", Tail(left), n) = w + 1
  <2>1. Len(left) \in Nat
    BY <1>1 DEF Part
  <2>. QED
    BY <1>2, <1>4, <2>1 DEF ParentWrote
<1>10. TaskPipe(j, c, o, "write", Tail(left), order, n)
  BY <1>1, <1>4, <1>5, <1>6, <1>7, <1>8, <1>9 DEF TaskPipe
<1>. QED
  BY <1>1, <1>4, <1>6, <1>10 DEF Broken, o

\* The parent has written the whole order and closes the pipe.
LEMMA ParentClosesTask ==
  ASSUME NEW j \in Child, NEW c \in Kid, NEW q \in Pipe, NEW left, NEW n \in Nat,
         NEW order, NEW rest,
         TaskPipe(j, c, q, "write", left, order, n), left = <<>>, Parent \notin q.opening
  PROVE  TaskPipe(j, c, close(q, Parent), "all", rest, order, n)
<1>. DEFINE o == close(q, Parent)
<1>1. /\ o.data = q.data /\ o.writers = q.writers \ {Parent} /\ o.readers = q.readers \ {Parent}
      /\ o.opening = q.opening
  BY PipeOperations
<1>. HIDE DEF o
<1>2. /\ q.readers = (IF c.pc \in {"count", "digits", "text"} THEN {j} ELSE {})
      /\ q.writers = {Parent} /\ q.opening = (IF c.pc = "start" THEN {Parent} ELSE {})
  BY DEF TaskPipe
<1>3. c.pc # "start" /\ q.opening = {}
  BY <1>2
<1>4. ParentWrote("write", left, n) = 1 + 2 * n /\ ParentWrote("all", rest, n) = 1 + 2 * n
  <2>1. Len(left) = 0
    OBVIOUS
  <2>. QED
    BY <2>1 DEF ParentWrote
<1>5. o.writers = {} /\ o.readers = q.readers
  BY <1>1, <1>2, WorkersAssumption
<1>. QED
  BY <1>1, <1>2, <1>3, <1>4, <1>5 DEF TaskPipe, o

\* The parent opens a result pipe for reading.
LEMMA ParentOpensResult ==
  ASSUME NEW j \in Child, NEW c \in Kid, NEW p \in Pipe, NEW left, NEW n \in Nat,
         NEW work \in Seq(Nat), Len(work) = n, NEW replies,
         ResultPipe(j, c, p, "no", left, work, replies, n)
  PROVE  ResultPipe(j, c, OpenToRead(p, Parent), "read", work, work, replies, n)
<1>. DEFINE o == OpenToRead(p, Parent)
<1>1. /\ o.data = p.data /\ o.readers = p.readers \cup {Parent} /\ o.writers = p.writers
      /\ o.opening = IF p.writers = {} THEN p.opening \cup {Parent} ELSE p.opening \ p.writers
  BY PipeOperations
<1>. HIDE DEF o
<1>2. /\ p.readers = {} /\ p.writers = (IF c.pc = "write" THEN {j} ELSE {}) /\ c.pc # "zombie"
      /\ p.opening = (IF c.pc = "write" THEN {j} ELSE {})
  BY DEF ResultPipe
<1>3. ParentRead("no", left, n) = 0 /\ ParentRead("read", work, n) = 0
  BY DEF ParentRead
<1>4. Part(Nat, work, work, 0, n)
  BY PartEnds
<1>5. /\ o.readers = {Parent} /\ o.opening = (IF c.pc = "write" THEN {} ELSE {Parent})
  BY <1>1, <1>2
<1>. QED
  BY <1>1, <1>2, <1>3, <1>4, <1>5 DEF ResultPipe, o

AreReplies(replies, values, n) == \A k \in 1..n : replies[k] = Message("result", values[k])

\* The parent reads the next result, which is that of the task it is for.
LEMMA ParentReads ==
  ASSUME NEW j \in Child, NEW c \in Kid, NEW p \in Pipe, NEW left, NEW n \in Nat,
         NEW work, NEW replies, NEW numbers, NEW values,
         ChildInv(c, n, numbers, values), ResultPipe(j, c, p, "read", left, work, replies, n),
         left # <<>>, Parent \notin p.opening, Readable(p),
         AreReplies(replies, values, n), NEW k, k = ParentRead("read", left, n) + 1
  PROVE  /\ ~AtEnd(p) /\ Head(p.data).kind = "result" /\ Head(p.data).of = values[k]
         /\ k \in 1..n /\ Head(left) = work[k]
         /\ ParentRead("read", Tail(left), n) = k
         /\ ResultPipe(j, c, read(p), "read", Tail(left), work, replies, n)
<1>. DEFINE a == ParentRead("read", left, n)
            v == HasWritten(c, n)
            o == read(p)
            rest == Tail(left)
            data == p.data
<1>1. /\ p.readers = {Parent} /\ p.writers = (IF c.pc = "write" THEN {j} ELSE {})
      /\ p.opening = (IF c.pc \notin {"write", "zombie"} THEN {Parent} ELSE {})
      /\ Part(Messages, data, replies, a, v)
      /\ Part(Nat, left, work, a, n)
  BY DEF ResultPipe
<1>2. a = n - Len(left)
  BY DEF ParentRead
<1>3. a \in Nat /\ v \in Nat /\ a <= v /\ (data = <<>> <=> a = v)
  BY <1>1, PartBounds
<1>4. a < n
  <2>1. a <= n /\ a # n
    BY <1>1, PartBounds
  <2>. QED
    BY <1>3, <2>1
<1>5. data # <<>>
  <2>1. c.pc \in {"write", "zombie"}
    BY <1>1
  <2>2. ASSUME data = <<>> PROVE FALSE
    <3>1. c.pc = "zombie"
      BY <1>1, <2>1, <2>2 DEF Readable
    <3>2. v = n
      BY <3>1 DEF HasWritten
    <3>. QED
      BY <1>3, <1>4, <2>2, <3>2
  <2>. QED
    BY <2>2
<1>6. /\ o.readers = p.readers /\ o.writers = p.writers /\ o.opening = p.opening
      /\ o.data = Tail(data)
  BY <1>5, ReadIs DEF AtEnd
<1>. HIDE DEF a, v, o, rest, data
<1>7. /\ Head(data) = replies[a + 1] /\ Part(Messages, Tail(data), replies, a + 1, v)
  <2>1. /\ Head(data) = replies[a + 1] /\ Head(data) \in Messages
        /\ Part(Messages, Tail(data), replies, a + 1, v) /\ Len(Tail(data)) = Len(data) - 1
    BY ONLY <1>1, <1>3, <1>5, PartTail
  <2>. QED
    BY <2>1
<1>8. /\ Head(left) = work[a + 1] /\ Part(Nat, rest, work, a + 1, n) /\ Len(rest) = Len(left) - 1
  <2>1. /\ Head(left) = work[a + 1] /\ Head(left) \in Nat
        /\ Part(Nat, Tail(left), work, a + 1, n) /\ Len(Tail(left)) = Len(left) - 1
    BY ONLY <1>1, <1>3, left # <<>>, PartTail
  <2>. QED
    BY <2>1 DEF rest
<1>9. a + 1 \in 1..n
  BY <1>3, <1>4
<1>10. ParentRead("read", rest, n) = a + 1
  <2>1. Len(left) \in Nat
    BY <1>1 DEF Part
  <2>. QED
    BY <1>2, <1>8, <2>1 DEF ParentRead
<1>11. Head(data).kind = "result" /\ Head(data).of = values[a + 1]
  <2>1. replies[a + 1] = Message("result", values[a + 1])
    BY <1>9 DEF AreReplies
  <2>. QED
    BY <1>7, <2>1 DEF Message
<1>12. ResultPipe(j, c, o, "read", rest, work, replies, n)
  <2>1. Part(Messages, o.data, replies, a + 1, HasWritten(c, n))
    BY <1>6, <1>7 DEF v
  <2>. QED
    BY <1>1, <1>6, <1>8, <1>10, <2>1 DEF ResultPipe
<1>. QED
  BY <1>5, <1>8, <1>9, <1>10, <1>11, <1>12 DEF a, o, rest, data, AtEnd

\* The parent has read all results and closes the pipe.
LEMMA ParentClosesResult ==
  ASSUME NEW j \in Child, NEW c \in Kid, NEW p \in Pipe, NEW left, NEW n \in Nat,
         NEW work, NEW replies, NEW rest,
         ResultPipe(j, c, p, "read", left, work, replies, n), left = <<>>, Parent \notin p.opening
  PROVE  /\ ParentRead("read", left, n) = n
         /\ ResultPipe(j, c, close(p, Parent), "wait", rest, work, replies, n)
<1>. DEFINE o == close(p, Parent)
<1>1. /\ o.data = p.data /\ o.writers = p.writers \ {Parent} /\ o.readers = p.readers \ {Parent}
      /\ o.opening = p.opening
  BY PipeOperations
<1>. HIDE DEF o
<1>2. /\ p.readers = {Parent} /\ p.writers = (IF c.pc = "write" THEN {j} ELSE {})
      /\ p.opening = (IF c.pc \notin {"write", "zombie"} THEN {Parent} ELSE {})
  BY DEF ResultPipe
<1>3. c.pc \in {"write", "zombie"} /\ p.opening = {}
  BY <1>2
<1>4. ParentRead("read", left, n) = n /\ ParentRead("wait", rest, n) = n
  <2>1. Len(left) = 0
    OBVIOUS
  <2>. QED
    BY <2>1 DEF ParentRead
<1>5. o.readers = {} /\ o.writers = p.writers
  BY <1>1, <1>2, WorkersAssumption
<1>. QED
  BY <1>1, <1>2, <1>3, <1>4, <1>5 DEF ResultPipe, o

\* A child that has ended leaves nothing in its pipes.
LEMMA JobEnds ==
  ASSUME NEW j, NEW c \in Kid, NEW q, NEW p, NEW left, NEW n \in Nat, NEW order, NEW work,
         NEW replies, c.pc = "zombie",
         TaskPipe(j, c, q, "all", left, order, n),
         ResultPipe(j, c, p, "wait", left, work, replies, n)
  PROVE  Fresh(q) /\ Fresh(p)
<1>1. Part(Messages, q.data, order, 1 + 2 * n, 1 + 2 * n)
  BY DEF TaskPipe, HasRead, ParentWrote
<1>2. Part(Messages, p.data, replies, n, n)
  BY DEF ResultPipe, HasWritten, ParentRead
<1>3. q.data = <<>> /\ p.data = <<>>
  BY <1>1, <1>2, PartBounds
<1>. QED
  BY <1>3 DEF TaskPipe, ResultPipe, Fresh

\* The invariant does not look at the names.
LEMMA SamePipe ==
  ASSUME NEW q, NEW o, o.readers = q.readers, o.writers = q.writers, o.opening = q.opening,
         o.data = q.data
  PROVE  /\ Fresh(q) => Fresh(o)
         /\ \A j, c, sent, left, order, n :
              TaskPipe(j, c, q, sent, left, order, n) => TaskPipe(j, c, o, sent, left, order, n)
         /\ \A j, c, got, left, work, replies, n :
              ResultPipe(j, c, q, got, left, work, replies, n)
                => ResultPipe(j, c, o, got, left, work, replies, n)
BY DEF Fresh, TaskPipe, ResultPipe

-----------------------------------------------------------------------------
(* Steps that concern one job leave the others alone.                      *)

\* The work of the jobs is the same as long as team and answers are.
LEMMA SameWork ==
  ASSUME answers' = answers, team' = team
  PROVE  /\ \A j : /\ Work(j)' = Work(j) /\ Numbers(j)' = Numbers(j)
                   /\ Values(j)' = Values(j) /\ Replies(j)' = Replies(j)
                   /\ Order(Work(j))' = Order(Work(j))
         /\ \A i : r' = r => Known(i)' = Known(i)
<1>1. contestInput' = contestInput /\ \A j : Work(j)' = Work(j)
  BY SameContest
<1>2. \A j : Numbers(j)' = Numbers(j)
  BY <1>1 DEF Numbers
<1>3. \A j : Values(j)' = Values(j)
  BY <1>1, <1>2 DEF Values
<1>4. \A j : Replies(j)' = Replies(j)
  BY <1>1, <1>3 DEF Replies
<1>5. \A j : Order(Work(j))' = Order(Work(j))
  BY <1>1 DEF Order
<1>6. \A i : r' = r => Known(i)' = Known(i)
  BY <1>1 DEF Known
<1>. QED
  BY <1>1, <1>2, <1>3, <1>4, <1>5, <1>6

\* The two pipes are open to the same processes, with the same data.
Alike(o, q) ==
    /\ o.readers = q.readers /\ o.writers = q.writers
    /\ o.opening = q.opening /\ o.data = q.data

\* The invariant of a job that a step does not touch.
LEMMA OtherJob ==
  ASSUME answers' = answers, team' = team, NEW i, JobInv(i), child'[i] = child[i],
         Alike(pipe'[Task(Slot(i))], pipe[Task(Slot(i))]),
         Alike(pipe'[Result(Slot(i))], pipe[Result(Slot(i))]),
         Sent(i)' = Sent(i), Got(i)' = Got(i),
         io' = io \/ (Sent(i) # "write" /\ Got(i) # "read")
  PROVE  JobInv(i)'
<1>. DEFINE n == Len(Work(i))
            q == pipe[Task(Slot(i))]
            o == pipe'[Task(Slot(i))]
            p == pipe[Result(Slot(i))]
            v == pipe'[Result(Slot(i))]
<1>1. /\ Work(i)' = Work(i) /\ Numbers(i)' = Numbers(i) /\ Values(i)' = Values(i)
      /\ Replies(i)' = Replies(i) /\ Order(Work(i))' = Order(Work(i)) /\ Slot(i)' = Slot(i)
  BY SameWork DEF Slot
<1>2. /\ ChildInv(child[i], n, Numbers(i), Values(i))
      /\ TaskPipe(i, child[i], q, Sent(i), io, Order(Work(i)), n)
      /\ ResultPipe(i, child[i], p, Got(i), io, Work(i), Replies(i), n)
  BY DEF JobInv
<1>3. TaskPipe(i, child[i], o, Sent(i), io, Order(Work(i)), n)
      /\ ResultPipe(i, child[i], v, Got(i), io, Work(i), Replies(i), n)
  <2>1. Alike(o, q) /\ Alike(v, p)
    OBVIOUS
  <2>. HIDE DEF n, q, o, p, v
  <2>. QED
    BY <1>2, <2>1, SamePipe DEF Alike
<1>4. TaskPipe(i, child[i], o, Sent(i), io', Order(Work(i)), n)
  <2>1. CASE io' = io
    BY <1>3, <2>1
  <2>2. CASE Sent(i) # "write"
    BY <1>3, <2>2 DEF TaskPipe, ParentWrote
  <2>. QED
    BY <2>1, <2>2
<1>5. ResultPipe(i, child[i], v, Got(i), io', Work(i), Replies(i), n)
  <2>1. CASE io' = io
    BY <1>3, <2>1
  <2>2. CASE Got(i) # "read"
    BY <1>3, <2>2 DEF ResultPipe, ParentRead
  <2>. QED
    BY <2>1, <2>2
<1>. HIDE DEF q, o, p, v
<1>. QED
  BY <1>1, <1>2, <1>4, <1>5 DEF JobInv, o, v

\* Only job j is concerned.
OthersStay(j) ==
    /\ \A i \in Child \ {j} : child'[i] = child[i] /\ Active(i)' = Active(i)
    /\ \A i \in Child \ {j} : Active(i) =>
         /\ Slot(i) # Slot(j) /\ Sent(i)' = Sent(i) /\ Got(i)' = Got(i)
         /\ io' = io \/ (Sent(i) # "write" /\ Got(i) # "read")
    /\ \A f \in Pipes : f \notin {Task(Slot(j)), Result(Slot(j))} => pipe'[f] = pipe[f]

\* Different slots have different pipes.
LEMMA PipesDiffer ==
  ASSUME NEW s \in Slots, NEW t \in Slots
  PROVE  /\ Task(s) \in Pipes /\ Result(s) \in Pipes /\ Task(s) # Result(t)
         /\ s # t => Task(s) # Task(t) /\ Result(s) # Result(t)
BY DEF Task, Result, Pipes

\* A step that concerns job j only, and keeps its invariant, keeps all.
LEMMA JobsKeep ==
  ASSUME TeamInv, ChildrenInv, FreshInv, answers' = answers, team' = team,
         NEW j \in Child, OthersStay(j),
         Active(j)' => JobInv(j)',
         ~Active(j)' => /\ child'[j].pc \in {"none", "reaped"}
                        /\ Fresh(pipe'[Task(Slot(j))]) /\ Fresh(pipe'[Result(Slot(j))])
  PROVE  ChildrenInv' /\ FreshInv'
<1>1. \A i \in Child : Slot(i) \in Slots
  BY SlotType, WorkersAssumption
<1>2. ASSUME NEW s \in Slots, s # Slot(j)
      PROVE  pipe'[Task(s)] = pipe[Task(s)] /\ pipe'[Result(s)] = pipe[Result(s)]
  <2>1. Task(s) \notin {Task(Slot(j)), Result(Slot(j))} /\ Task(s) \in Pipes
    BY <1>1, <1>2, PipesDiffer
  <2>2. Result(s) \notin {Task(Slot(j)), Result(Slot(j))} /\ Result(s) \in Pipes
    BY <1>1, <1>2, PipesDiffer
  <2>. QED
    BY <2>1, <2>2 DEF OthersStay
<1>3. ASSUME NEW i \in Child, i # j
      PROVE  IF Active(i)' THEN JobInv(i)' ELSE child'[i].pc \in {"none", "reaped"}
  <2>1. child'[i] = child[i] /\ Active(i)' = Active(i)
    BY <1>3 DEF OthersStay
  <2>2. CASE Active(i)
    <3>1. /\ Slot(i) # Slot(j) /\ Sent(i)' = Sent(i) /\ Got(i)' = Got(i)
          /\ io' = io \/ (Sent(i) # "write" /\ Got(i) # "read")
      BY <1>3, <2>2 DEF OthersStay
    <3>2. /\ pipe'[Task(Slot(i))] = pipe[Task(Slot(i))]
          /\ pipe'[Result(Slot(i))] = pipe[Result(Slot(i))]
      BY <1>1, <1>2, <3>1
    <3>3. JobInv(i)
      BY <2>2 DEF ChildrenInv
    <3>4. JobInv(i)'
      BY <2>1, <3>1, <3>2, <3>3, OtherJob DEF Alike
    <3>. QED
      BY <2>1, <2>2, <3>4
  <2>3. CASE ~Active(i)
    BY <2>1, <2>3 DEF ChildrenInv
  <2>. QED
    BY <2>2, <2>3
<1>4. ChildrenInv'
  BY <1>3 DEF ChildrenInv
<1>5. ASSUME NEW s \in Slots, \A i \in Child : Active(i)' => Slot(i) # s
      PROVE  Fresh(pipe'[Task(s)]) /\ Fresh(pipe'[Result(s)])
  <2>1. CASE s = Slot(j)
    BY <1>5, <2>1
  <2>2. CASE s # Slot(j)
    <3>1. \A i \in Child : Active(i) => Slot(i) # s
      BY <1>5, <2>2 DEF OthersStay
    <3>2. Fresh(pipe[Task(s)]) /\ Fresh(pipe[Result(s)])
      BY <3>1 DEF FreshInv
    <3>. QED
      BY <1>2, <2>2, <3>2
  <2>. QED
    BY <2>1, <2>2
<1>6. FreshInv'
  <2>1. \A i : Slot(i)' = Slot(i)
    BY DEF Slot
  <2>2. \A s : Task(s)' = Task(s) /\ Result(s)' = Result(s)
    BY DEF Task, Result
  <2>. QED
    BY <1>5, <2>1, <2>2 DEF FreshInv
<1>. QED
  BY <1>4, <1>6

\* A step of a child: nothing of the parent changes.
LEMMA ParentRests ==
  ASSUME TeamInv, UNCHANGED <<teamVars, io>>
  PROVE  /\ TeamInv' /\ (WindowInv => WindowInv') /\ Contesting' = Contesting
         /\ \A i : /\ Active(i)' = Active(i) /\ Sent(i)' = Sent(i) /\ Got(i)' = Got(i)
                   /\ ResultNamed(i)' = ResultNamed(i)
         /\ CollectedInv => CollectedInv'
<1>1. UNCHANGED <<team, share, answers, main, r, io>>
  BY DEF teamVars
<1>2. TeamInv' /\ Contesting' = Contesting
  BY SameTeam DEF teamVars
<1>3. \A i : /\ Active(i)' = Active(i) /\ Sent(i)' = Sent(i) /\ Got(i)' = Got(i)
             /\ ResultNamed(i)' = ResultNamed(i)
  BY <1>1 DEF Active, Sent, Got, ResultNamed
<1>4. JobCount' = JobCount /\ TaskCount' = TaskCount
  BY <1>1, SameContest
<1>5. WindowInv => WindowInv'
  BY <1>1, <1>2, <1>4 DEF WindowInv
<1>6. \A j : Work(j)' = Work(j)
  BY <1>1, SameWork
<1>7. \A i : Known(i)' = Known(i)
  BY <1>1, SameWork
<1>8. CollectedInv => CollectedInv'
  BY <1>1, <1>2, <1>3, <1>4, <1>6, <1>7 DEF CollectedInv
<1>. QED
  BY <1>2, <1>3, <1>5, <1>8

\* The names of the pipes do not change.
LEMMA NamesStay ==
  ASSUME NamedInv, team' = team, main' = main, Contesting' = Contesting,
         \A f \in Pipes : pipe'[f].named = pipe[f].named
  PROVE  NamedInv'
<1>1. \A s : ResultNamed(s)' = ResultNamed(s)
  BY DEF ResultNamed
<1>2. \A s \in Slots : Task(s) \in Pipes /\ Result(s) \in Pipes
  BY PipesDiffer
<1>3. \A s : Task(s)' = Task(s) /\ Result(s)' = Result(s)
  BY DEF Task, Result
<1>. QED
  BY <1>1, <1>2, <1>3 DEF NamedInv

\* The step of a child, from what it makes of its job.
LEMMA KidSteps ==
  ASSUME TeamInv, ProcInv, team \in ProcessTeam, NEW j \in Child, Active(j),
         NEW f \in {Task(Slot(j)), Result(Slot(j))}, NEW d \in Kid, NEW o \in Pipe,
         o.named = pipe[f].named, UNCHANGED <<teamVars, io>>, failed' = FALSE,
         child' = [child EXCEPT ![j] = d], pipe' = [pipe EXCEPT ![f] = o],
         ChildInv(d, Len(Work(j)), Numbers(j), Values(j)),
         TaskPipe(j, d, pipe'[Task(Slot(j))], Sent(j), io, Order(Work(j)), Len(Work(j))),
         ResultPipe(j, d, pipe'[Result(Slot(j))], Got(j), io, Work(j), Replies(j), Len(Work(j)))
  PROVE  TeamInv' /\ ProcInv'
<1>1. /\ pipe \in [Pipes -> Pipe] /\ child \in [Child -> Kid]
      /\ WindowInv /\ ChildrenInv /\ FreshInv /\ CollectedInv /\ NamedInv
  BY DEF ProcInv
<1>2. f \in Pipes
  BY <1>1, JobFacts
<1>3. pipe' \in [Pipes -> Pipe] /\ child' \in [Child -> Kid] /\ child'[j] = d
      /\ pipe'[f] = o /\ \A g \in Pipes \ {f} : pipe'[g] = pipe[g]
  BY <1>1, <1>2
<1>4. UNCHANGED <<team, share, answers, main, r, io>>
  BY DEF teamVars
<1>5. /\ TeamInv' /\ WindowInv' /\ Contesting' = Contesting /\ CollectedInv'
      /\ \A i : Active(i)' = Active(i) /\ Sent(i)' = Sent(i) /\ Got(i)' = Got(i)
  BY <1>1, ParentRests
<1>6. OthersStay(j)
  <2>1. \A i \in Child \ {j} : child'[i] = child[i]
    BY <1>1
  <2>2. \A i \in Child \ {j} : Active(i) => Slot(i) # Slot(j)
    BY <1>1, OneInSlot
  <2>. QED
    BY <1>3, <1>4, <1>5, <2>1, <2>2 DEF OthersStay
<1>7. JobInv(j)'
  <2>1. /\ Work(j)' = Work(j) /\ Numbers(j)' = Numbers(j) /\ Values(j)' = Values(j)
        /\ Replies(j)' = Replies(j) /\ Order(Work(j))' = Order(Work(j)) /\ Slot(j)' = Slot(j)
    BY <1>4, SameWork DEF Slot
  <2>2. Sent(j)' = Sent(j) /\ Got(j)' = Got(j)
    BY <1>5
  <2>. QED
    BY <1>3, <1>4, <2>1, <2>2 DEF JobInv
<1>8. ChildrenInv' /\ FreshInv'
  BY <1>1, <1>4, <1>5, <1>6, <1>7, JobsKeep
<1>9. NamedInv'
  BY <1>1, <1>3, <1>4, <1>5, NamesStay
<1>. QED
  BY <1>3, <1>5, <1>8, <1>9 DEF ProcInv

-----------------------------------------------------------------------------
(* The steps of the children.                                              *)

\* The parts of the invariant of a job, with their types.
LEMMA JobParts ==
  ASSUME TeamInv, ProcInv, team \in ProcessTeam, NEW j \in Child, Active(j)
  PROVE  /\ child[j] \in Kid
         /\ Task(Slot(j)) \in Pipes /\ pipe[Task(Slot(j))] \in Pipe
         /\ Result(Slot(j)) \in Pipes /\ pipe[Result(Slot(j))] \in Pipe
         /\ Task(Slot(j)) # Result(Slot(j))
         /\ Sent(j) \in SentValues /\ Got(j) \in GotValues
         /\ ChildInv(child[j], Len(Work(j)), Numbers(j), Values(j))
         /\ TaskPipe(j, child[j], pipe[Task(Slot(j))], Sent(j), io, Order(Work(j)), Len(Work(j)))
         /\ ResultPipe(j, child[j], pipe[Result(Slot(j))], Got(j), io, Work(j), Replies(j),
                       Len(Work(j)))
<1>1. /\ pipe \in [Pipes -> Pipe] /\ child \in [Child -> Kid] /\ WindowInv /\ ChildrenInv
  BY DEF ProcInv
<1>2. Slot(j) \in Slots /\ Task(Slot(j)) \in Pipes /\ Result(Slot(j)) \in Pipes
  BY <1>1, JobFacts
<1>3. JobInv(j)
  BY <1>1 DEF ChildrenInv
<1>4. Sent(j) \in SentValues
  BY WorkersAssumption DEF Sent, Active, SentValues, TeamInv
<1>5. Got(j) \in GotValues
  BY DEF Got, GotValues
<1>. QED
  BY <1>1, <1>2, <1>3, <1>4, <1>5, PipesDiffer DEF JobInv

\* Whoever is not blocked waits for no opening.
LEMMA NotBlocked ==
  ASSUME NEW p, ~Blocked(p)
  PROVE  \A f \in Pipes : p \notin pipe[f].opening
BY DEF Blocked

\* A child that lives belongs to a job in the window.
LEMMA LiveKid ==
  ASSUME TeamInv, ProcInv, NEW j \in Child, child[j].pc \notin {"none", "reaped"}
  PROVE  Active(j)
BY DEF ProcInv, ChildrenInv

\* The child opens its task pipe.
LEMMA ChildOpensTaskKeeps ==
  ASSUME TeamInv, ProcInv, team \in ProcessTeam, NEW j \in Child, ChildOpensTask(j),
         UNCHANGED <<teamVars, io>>
  PROVE  TeamInv' /\ ProcInv'
<1>. DEFINE c == child[j]
            q == pipe[Task(Slot(j))]
            d == [c EXCEPT !.pc = "count"]
            o == OpenToRead(q, j)
            n == Len(Work(j))
<1>1. /\ c.pc = "start" /\ pipe' = [pipe EXCEPT ![Task(Slot(j))] = o]
      /\ child' = [child EXCEPT ![j] = d] /\ failed' = FALSE
  BY DEF ChildOpensTask, SetChild, ProcInv
<1>2. Active(j)
  BY <1>1, LiveKid
<1>3. /\ c \in Kid /\ Task(Slot(j)) \in Pipes /\ q \in Pipe /\ Sent(j) \in SentValues
      /\ Task(Slot(j)) # Result(Slot(j)) /\ Result(Slot(j)) \in Pipes
      /\ ChildInv(c, n, Numbers(j), Values(j))
      /\ TaskPipe(j, c, q, Sent(j), io, Order(Work(j)), n)
      /\ ResultPipe(j, c, pipe[Result(Slot(j))], Got(j), io, Work(j), Replies(j), n)
  BY <1>2, JobParts
<1>4. n \in Nat
  BY <1>2, JobFacts DEF ProcInv
<1>5. o \in Pipe /\ o.named = q.named
  BY <1>3, PipeOperations
<1>6. /\ d \in Kid /\ ChildInv(d, n, Numbers(j), Values(j))
      /\ TaskPipe(j, d, o, Sent(j), io, Order(Work(j)), n)
  BY <1>1, <1>3, <1>4, KidOpensTask
<1>7. ResultPipe(j, d, pipe[Result(Slot(j))], Got(j), io, Work(j), Replies(j), n)
  <2>1. d.pc = "count"
    BY <1>3 DEF Kid
  <2>. HIDE DEF d, c
  <2>. QED
    BY <1>1, <1>3, <2>1, EarlyResult
<1>8. /\ pipe'[Task(Slot(j))] = o /\ pipe'[Result(Slot(j))] = pipe[Result(Slot(j))]
  BY <1>1, <1>3 DEF ProcInv
<1>. HIDE DEF c, q, d, o
<1>9. o.named = pipe[Task(Slot(j))].named
  BY <1>5 DEF q
<1>. QED
  BY <1>1, <1>2, <1>5, <1>6, <1>7, <1>8, <1>9, KidSteps DEF n

\* The child reads from its task pipe.
LEMMA ChildReadsKeeps ==
  ASSUME TeamInv, ProcInv, team \in ProcessTeam, NEW j \in Child, ChildReads(j),
         UNCHANGED <<teamVars, io>>
  PROVE  TeamInv' /\ ProcInv'
<1>. DEFINE c == child[j]
            q == pipe[Task(Slot(j))]
            m == Head(q.data)
            d == KidAfter(c, m)
            o == read(q)
            n == Len(Work(j))
<1>1. /\ c.pc \in {"count", "digits", "text"} /\ (c.pc = "digits" => Len(c.got) < c.count)
      /\ Reads(j, Task(Slot(j)), c.pc)
  BY DEF ChildReads
<1>2. Active(j)
  BY <1>1, LiveKid
<1>3. /\ c \in Kid /\ Task(Slot(j)) \in Pipes /\ q \in Pipe /\ Sent(j) \in SentValues
      /\ Task(Slot(j)) # Result(Slot(j)) /\ Result(Slot(j)) \in Pipes
      /\ ChildInv(c, n, Numbers(j), Values(j))
      /\ TaskPipe(j, c, q, Sent(j), io, Order(Work(j)), n)
      /\ ResultPipe(j, c, pipe[Result(Slot(j))], Got(j), io, Work(j), Replies(j), n)
  BY <1>2, JobParts
<1>4. /\ n \in Nat /\ Numbers(j) \in Seq(Nat) /\ Len(Numbers(j)) = n
      /\ Work(j) \in Seq(Nat)
      /\ \A k \in 1..n : Numbers(j)[k] = contestInput[Work(j)[k]]
      /\ \A k \in 1..n : contestInput[Work(j)[k]] \in Nat
  BY <1>2, JobFacts DEF ProcInv
<1>5. /\ Order(Work(j))[1] = Message("count", n)
      /\ \A k \in 0..n - 1 : /\ Order(Work(j))[2 + 2 * k].kind = "digits"
                             /\ Order(Work(j))[3 + 2 * k] = Message("text", Numbers(j)[k + 1])
  <2>1. /\ Order(Work(j))[1] = Message("count", n)
        /\ \A k \in 0..n - 1 :
             /\ Order(Work(j))[2 + 2 * k].kind = "digits"
             /\ Order(Work(j))[3 + 2 * k] = Message("text", contestInput[Work(j)[k + 1]])
    BY <1>4, OrderIs
  <2>2. \A k \in 0..n - 1 : k + 1 \in 1..n
    BY <1>4
  <2>. QED
    BY <1>4, <2>1, <2>2
<1>6. j \notin q.opening /\ Readable(q)
  BY <1>1, <1>3, NotBlocked DEF Reads
<1>7. /\ ~AtEnd(q) /\ m.kind = c.pc
      /\ c.pc = "count" => m.of = n
      /\ c.pc = "text" => m.of = Numbers(j)[Len(c.got) + 1]
      /\ c.pc = "text" => Len(c.got) < n
  <2>. HIDE DEF c, q
  <2>. QED
    BY <1>1, <1>3, <1>4, <1>5, <1>6, KidFinds
<1>8. /\ failed' = FALSE /\ pipe' = [pipe EXCEPT ![Task(Slot(j))] = o]
      /\ child' = [child EXCEPT ![j] = d]
  BY <1>1, <1>7 DEF ChildReads, Reads, SetChild, KidAfter
<1>9. o \in Pipe /\ o.named = q.named
  BY <1>3, <1>7, ReadIs
<1>10. /\ d \in Kid /\ ChildInv(d, n, Numbers(j), Values(j)) /\ d.pc \in {"digits", "text"}
       /\ TaskPipe(j, d, o, Sent(j), io, Order(Work(j)), n)
  <2>. HIDE DEF c, q, n
  <2>. QED
    BY <1>1, <1>3, <1>4, <1>7, KidReads
<1>11. /\ pipe'[Task(Slot(j))] = o /\ pipe'[Result(Slot(j))] = pipe[Result(Slot(j))]
  BY <1>3, <1>8 DEF ProcInv
<1>12. o.named = pipe[Task(Slot(j))].named
  BY <1>9
<1>. HIDE DEF c, q, m, d, o
<1>13. ResultPipe(j, d, pipe[Result(Slot(j))], Got(j), io, Work(j), Replies(j), n)
  BY <1>1, <1>3, <1>10, EarlyResult
<1>. QED
  BY <1>2, <1>3, <1>8, <1>9, <1>10, <1>11, <1>12, <1>13, KidSteps DEF n

\* The child computes its results.
LEMMA ChildComputesKeeps ==
  ASSUME TeamInv, ProcInv, team \in ProcessTeam, NEW j \in Child, ChildComputes(j),
         UNCHANGED <<teamVars, io>>
  PROVE  TeamInv' /\ ProcInv'
<1>. DEFINE c == child[j]
            q == pipe[Task(Slot(j))]
            d == [c EXCEPT !.pc = "computed", !.results = CalcAll(c.got, c.count)]
            o == close(q, j)
            n == Len(Work(j))
<1>1. /\ c.pc = "digits" /\ Len(c.got) = c.count
      /\ failed' = FALSE /\ pipe' = [pipe EXCEPT ![Task(Slot(j))] = o]
      /\ child' = [child EXCEPT ![j] = d]
  BY DEF ChildComputes, Closes, SetChild, CalcAll
<1>2. Active(j)
  BY <1>1, LiveKid
<1>3. /\ c \in Kid /\ Task(Slot(j)) \in Pipes /\ q \in Pipe /\ Sent(j) \in SentValues
      /\ Task(Slot(j)) # Result(Slot(j)) /\ Result(Slot(j)) \in Pipes
      /\ ChildInv(c, n, Numbers(j), Values(j))
      /\ TaskPipe(j, c, q, Sent(j), io, Order(Work(j)), n)
      /\ ResultPipe(j, c, pipe[Result(Slot(j))], Got(j), io, Work(j), Replies(j), n)
  BY <1>2, JobParts
<1>4. /\ n \in Nat /\ Numbers(j) \in Seq(Nat) /\ Len(Numbers(j)) = n
      /\ Values(j) \in Seq(Nat) /\ Len(Values(j)) = n
      /\ Values(j) = CalcAll(Numbers(j), n)
  BY <1>2, JobFacts DEF ProcInv, Values, CalcAll
<1>5. o \in Pipe /\ o.named = q.named
  BY <1>3, PipeOperations
<1>6. /\ d \in Kid /\ ChildInv(d, n, Numbers(j), Values(j))
      /\ TaskPipe(j, d, o, Sent(j), io, Order(Work(j)), n)
  <2>. HIDE DEF c, q, n
  <2>. QED
    BY <1>1, <1>3, <1>4, KidComputes
<1>7. d.pc = "computed"
  BY <1>3 DEF Kid
<1>8. /\ pipe'[Task(Slot(j))] = o /\ pipe'[Result(Slot(j))] = pipe[Result(Slot(j))]
  BY <1>1, <1>3 DEF ProcInv
<1>9. o.named = pipe[Task(Slot(j))].named
  BY <1>5
<1>. HIDE DEF c, q, d, o
<1>10. ResultPipe(j, d, pipe[Result(Slot(j))], Got(j), io, Work(j), Replies(j), n)
  BY <1>1, <1>3, <1>7, EarlyResult
<1>. QED
  BY <1>1, <1>2, <1>5, <1>6, <1>8, <1>9, <1>10, KidSteps DEF n

\* The child opens its result pipe.
LEMMA ChildOpensResultKeeps ==
  ASSUME TeamInv, ProcInv, team \in ProcessTeam, NEW j \in Child, ChildOpensResult(j),
         UNCHANGED <<teamVars, io>>
  PROVE  TeamInv' /\ ProcInv'
<1>. DEFINE c == child[j]
            p == pipe[Result(Slot(j))]
            d == [c EXCEPT !.pc = "write"]
            o == OpenToWrite(p, j)
            n == Len(Work(j))
<1>1. /\ c.pc = "computed" /\ pipe' = [pipe EXCEPT ![Result(Slot(j))] = o]
      /\ child' = [child EXCEPT ![j] = d] /\ failed' = FALSE
  BY DEF ChildOpensResult, SetChild, ProcInv
<1>2. Active(j)
  BY <1>1, LiveKid
<1>3. /\ c \in Kid /\ Task(Slot(j)) \in Pipes /\ p \in Pipe /\ Got(j) \in GotValues
      /\ Task(Slot(j)) # Result(Slot(j)) /\ Result(Slot(j)) \in Pipes
      /\ ChildInv(c, n, Numbers(j), Values(j))
      /\ TaskPipe(j, c, pipe[Task(Slot(j))], Sent(j), io, Order(Work(j)), n)
      /\ ResultPipe(j, c, p, Got(j), io, Work(j), Replies(j), n)
  BY <1>2, JobParts
<1>4. n \in Nat
  BY <1>2, JobFacts DEF ProcInv
<1>5. o \in Pipe /\ o.named = p.named
  BY <1>3, PipeOperations
<1>6. /\ d \in Kid /\ ChildInv(d, n, Numbers(j), Values(j))
      /\ ResultPipe(j, d, o, Got(j), io, Work(j), Replies(j), n)
  <2>. HIDE DEF c, p, n
  <2>. QED
    BY <1>1, <1>3, <1>4, KidOpensResult
<1>7. d.pc = "write"
  BY <1>3 DEF Kid
<1>8. /\ pipe'[Result(Slot(j))] = o /\ pipe'[Task(Slot(j))] = pipe[Task(Slot(j))]
  BY <1>1, <1>3 DEF ProcInv
<1>9. o.named = pipe[Result(Slot(j))].named
  BY <1>5
<1>. HIDE DEF c, p, d, o
<1>10. TaskPipe(j, d, pipe[Task(Slot(j))], Sent(j), io, Order(Work(j)), n)
  BY <1>1, <1>3, <1>7, LateTask
<1>. QED
  BY <1>1, <1>2, <1>5, <1>6, <1>8, <1>9, <1>10, KidSteps DEF n

\* The child writes a result.
LEMMA ChildWritesKeeps ==
  ASSUME TeamInv, ProcInv, team \in ProcessTeam, NEW j \in Child, ChildWrites(j),
         UNCHANGED <<teamVars, io>>
  PROVE  TeamInv' /\ ProcInv'
<1>. DEFINE c == child[j]
            p == pipe[Result(Slot(j))]
            m == Message("result", Head(c.results))
            d == [c EXCEPT !.results = Tail(@)]
            o == write(p, m)
            n == Len(Work(j))
<1>1. /\ c.pc = "write" /\ c.results # <<>> /\ pipe' = [pipe EXCEPT ![Result(Slot(j))] = o]
      /\ child' = [child EXCEPT ![j] = d] /\ failed' = Broken(p) /\ ~Blocked(j)
  BY DEF ChildWrites, Writes, SetChild
<1>2. Active(j)
  BY <1>1, LiveKid
<1>3. /\ c \in Kid /\ Task(Slot(j)) \in Pipes /\ p \in Pipe /\ Got(j) \in GotValues
      /\ Task(Slot(j)) # Result(Slot(j)) /\ Result(Slot(j)) \in Pipes
      /\ ChildInv(c, n, Numbers(j), Values(j))
      /\ TaskPipe(j, c, pipe[Task(Slot(j))], Sent(j), io, Order(Work(j)), n)
      /\ ResultPipe(j, c, p, Got(j), io, Work(j), Replies(j), n)
  BY <1>2, JobParts
<1>4. /\ n \in Nat /\ Values(j) \in Seq(Nat) /\ Len(Values(j)) = n
      /\ \A k \in 1..n : Replies(j)[k] = Message("result", Values(j)[k])
  BY <1>2, JobFacts DEF ProcInv
<1>5. j \notin p.opening
  BY <1>1, <1>3, NotBlocked
<1>6. /\ d \in Kid /\ ChildInv(d, n, Numbers(j), Values(j)) /\ m \in Messages /\ ~Broken(p)
      /\ ResultPipe(j, d, o, Got(j), io, Work(j), Replies(j), n)
  <2>. HIDE DEF c, p, n
  <2>. QED
    BY <1>1, <1>3, <1>4, <1>5, KidWrites
<1>7. d.pc = "write"
  BY <1>1, <1>3 DEF Kid
<1>8. o \in Pipe /\ o.named = p.named
  <2>. HIDE DEF m, p
  <2>. QED
    BY <1>3, <1>6, WriteIs
<1>9. /\ pipe'[Result(Slot(j))] = o /\ pipe'[Task(Slot(j))] = pipe[Task(Slot(j))]
  BY <1>1, <1>3 DEF ProcInv
<1>10. o.named = pipe[Result(Slot(j))].named /\ failed' = FALSE
  <2>1. Broken(p) \in BOOLEAN
    BY DEF Broken
  <2>. QED
    BY <1>1, <1>6, <1>8, <2>1
<1>. HIDE DEF c, p, d, o, m
<1>11. TaskPipe(j, d, pipe[Task(Slot(j))], Sent(j), io, Order(Work(j)), n)
  BY <1>1, <1>3, <1>7, LateTask
<1>. QED
  BY <1>1, <1>2, <1>6, <1>8, <1>9, <1>10, <1>11, KidSteps DEF n

\* The child exits.
LEMMA ChildExitsKeeps ==
  ASSUME TeamInv, ProcInv, team \in ProcessTeam, NEW j \in Child, ChildExits(j),
         UNCHANGED <<teamVars, io>>
  PROVE  TeamInv' /\ ProcInv'
<1>. DEFINE c == child[j]
            p == pipe[Result(Slot(j))]
            d == [c EXCEPT !.pc = "zombie"]
            o == close(p, j)
            n == Len(Work(j))
<1>1. /\ c.pc = "write" /\ c.results = <<>> /\ pipe' = [pipe EXCEPT ![Result(Slot(j))] = o]
      /\ child' = [child EXCEPT ![j] = d] /\ failed' = FALSE /\ ~Blocked(j)
  BY DEF ChildExits, Closes, SetChild
<1>2. Active(j)
  BY <1>1, LiveKid
<1>3. /\ c \in Kid /\ Task(Slot(j)) \in Pipes /\ p \in Pipe /\ Got(j) \in GotValues
      /\ Task(Slot(j)) # Result(Slot(j)) /\ Result(Slot(j)) \in Pipes
      /\ ChildInv(c, n, Numbers(j), Values(j))
      /\ TaskPipe(j, c, pipe[Task(Slot(j))], Sent(j), io, Order(Work(j)), n)
      /\ ResultPipe(j, c, p, Got(j), io, Work(j), Replies(j), n)
  BY <1>2, JobParts
<1>4. n \in Nat
  BY <1>2, JobFacts DEF ProcInv
<1>5. j \notin p.opening
  BY <1>1, <1>3, NotBlocked
<1>6. /\ d \in Kid /\ ChildInv(d, n, Numbers(j), Values(j))
      /\ ResultPipe(j, d, o, Got(j), io, Work(j), Replies(j), n)
  <2>. HIDE DEF c, p, n
  <2>. QED
    BY <1>1, <1>3, <1>4, <1>5, KidExits
<1>7. d.pc = "zombie"
  BY <1>3 DEF Kid
<1>8. o \in Pipe /\ o.named = p.named
  BY <1>3, PipeOperations
<1>9. /\ pipe'[Result(Slot(j))] = o /\ pipe'[Task(Slot(j))] = pipe[Task(Slot(j))]
  BY <1>1, <1>3 DEF ProcInv
<1>10. o.named = pipe[Result(Slot(j))].named
  BY <1>8
<1>. HIDE DEF c, p, d, o
<1>11. TaskPipe(j, d, pipe[Task(Slot(j))], Sent(j), io, Order(Work(j)), n)
  BY <1>1, <1>3, <1>7, LateTask
<1>. QED
  BY <1>1, <1>2, <1>6, <1>8, <1>9, <1>10, <1>11, KidSteps DEF n

-----------------------------------------------------------------------------
(* The steps of the parent.                                                *)

\* Where the parent is.
LEMMA ParentFacts ==
  ASSUME TeamInv, team \in ProcessTeam
  PROVE  /\ main.next \in Nat \ {0} /\ main.oldest \in Nat \ {0} /\ Size \in Nat \ {0}
         /\ main = [pc |-> main.pc, next |-> main.next, oldest |-> main.oldest]
         /\ MainPlaces = {"idle", "loop", "open", "write", "read", "wait"}
         /\ main.pc \in MainPlaces /\ (Contesting <=> main.pc # "idle")
         /\ JobCount \in Nat /\ TaskCount \in Nat /\ 1..JobCount \subseteq Child
         /\ team = "ConstProcesses" => JobCount = Size
<1>1. /\ main \in [pc : MainPlaces, next : Nat \ {0}, oldest : Nat \ {0}]
  BY DEF TeamInv
<1>2. MainPlaces = {"idle", "loop", "open", "write", "read", "wait"}
  BY DEF MainPlaces, ProcessTeam
<1>3. Contesting <=> main.pc # "idle"
  BY <1>1, <1>2 DEF Contesting, ProcessTeam
<1>. QED
  BY <1>1, <1>2, <1>3, ContestFacts, TeamAssumption DEF JobCount

\* A step of the parent within a contest.
LEMMA ParentGoes ==
  ASSUME TeamInv, team \in ProcessTeam, Contesting, UNCHANGED <<team, share, answers, r>>,
         NEW p \in {"loop", "open", "write", "read", "wait"},
         NEW x \in Nat \ {0}, NEW o \in Nat \ {0},
         main' = [pc |-> p, next |-> x, oldest |-> o]
  PROVE  /\ TeamInv' /\ Contesting'
         /\ main'.pc = p /\ main'.next = x /\ main'.oldest = o
         /\ JobCount' = JobCount /\ TaskCount' = TaskCount
<1>1. MainPlaces = {"idle", "loop", "open", "write", "read", "wait"}
  BY ParentFacts
<1>2. main' \in [pc : MainPlaces, next : Nat \ {0}, oldest : Nat \ {0}] /\ main'.pc = p
      /\ main'.next = x /\ main'.oldest = o
  BY <1>1
<1>3. Contesting'
  BY <1>2 DEF Contesting, ProcessTeam
<1>4. TeamInv'
  BY <1>2, <1>3, WithinContest
<1>. QED
  BY <1>2, <1>3, <1>4, SameContest

\* Nothing but job j is touched.
Elsewhere(j) ==
    /\ \A i \in Child \ {j} : child'[i] = child[i]
    /\ \A f \in Pipes : f \notin {Task(Slot(j)), Result(Slot(j))} => pipe'[f] = pipe[f]

\* A step of the parent on the newest job leaves the others in peace.
LEMMA SendingAlone ==
  ASSUME TeamInv, WindowInv, team \in ProcessTeam, main.pc \in {"loop", "open", "write"},
         main.next <= JobCount, main.next - main.oldest < Size, Elsewhere(main.next),
         main'.oldest = main.oldest,
         \/ main'.pc \in {"open", "write"} /\ main'.next = main.next
         \/ main'.pc = "loop" /\ main'.next = main.next + 1
  PROVE  main.next \in Child /\ OthersStay(main.next)
<1>1. /\ main.next \in Nat \ {0} /\ main.oldest \in Nat \ {0} /\ Size \in Nat
      /\ 1..JobCount \subseteq Child /\ JobCount \in Nat
  BY ParentFacts
<1>2. main.next \in Child
  BY <1>1
<1>3. ASSUME NEW i \in Child \ {main.next}
      PROVE  Active(i)' = Active(i) /\ (Active(i) <=> main.oldest <= i /\ i < main.next)
  <2>1. i \in Nat
    BY WorkersAssumption
  <2>2. Active(i) <=> main.oldest <= i /\ i < main.next
    BY <1>1, <2>1 DEF Active
  <2>3. Active(i)' <=> main.oldest <= i /\ i < main.next
    BY <1>1, <2>1 DEF Active
  <2>. QED
    BY <2>2, <2>3 DEF Active
<1>4. ASSUME NEW i \in Child \ {main.next}, Active(i)
      PROVE  /\ Slot(i) # Slot(main.next) /\ Sent(i)' = Sent(i) /\ Got(i)' = Got(i)
             /\ Sent(i) # "write" /\ Got(i) # "read"
  <2>1. i \in Nat \ {0} /\ main.oldest <= i /\ i < main.next
    BY <1>3, <1>4, WorkersAssumption
  <2>2. Slot(i) # Slot(main.next)
    <3>1. main.next - i < Size
      BY <1>1, <2>1
    <3>. QED
      BY <1>1, <2>1, <3>1, SlotsDiffer
  <2>3. Sent(i) = "all" /\ Sent(i)' = "all"
    BY <1>1, <2>1 DEF Sent
  <2>4. Got(i) = "no" /\ Got(i)' = "no"
    BY DEF Got
  <2>. QED
    BY <2>2, <2>3, <2>4
<1>. QED
  BY <1>2, <1>3, <1>4 DEF OthersStay, Elsewhere

\* So does one on the oldest job.
LEMMA CollectingAlone ==
  ASSUME TeamInv, WindowInv, team \in ProcessTeam, main.pc \in {"loop", "read", "wait"},
         main.oldest < main.next, Elsewhere(main.oldest), main'.next = main.next,
         \/ main'.pc \in {"read", "wait"} /\ main'.oldest = main.oldest
         \/ main'.pc = "loop" /\ main'.oldest = main.oldest + 1
  PROVE  main.oldest \in Child /\ Active(main.oldest) /\ OthersStay(main.oldest)
<1>1. /\ main.next \in Nat \ {0} /\ main.oldest \in Nat \ {0}
      /\ 1..JobCount \subseteq Child /\ JobCount \in Nat /\ Contesting
  BY ParentFacts
<1>2. main.oldest \in Child /\ Active(main.oldest)
  BY <1>1 DEF WindowInv, Active
<1>3. ASSUME NEW i \in Child \ {main.oldest}
      PROVE  Active(i)' = Active(i) /\ (Active(i) <=> main.oldest <= i /\ i < main.next)
  <2>1. i \in Nat
    BY WorkersAssumption
  <2>2. Active(i) <=> main.oldest <= i /\ i < main.next
    BY <1>1, <2>1 DEF Active
  <2>3. Active(i)' <=> main.oldest <= i /\ i < main.next
    BY <1>1, <2>1 DEF Active
  <2>. QED
    BY <2>2, <2>3 DEF Active
<1>4. ASSUME NEW i \in Child \ {main.oldest}, Active(i)
      PROVE  /\ Slot(i) # Slot(main.oldest) /\ Sent(i)' = Sent(i) /\ Got(i)' = Got(i)
             /\ Sent(i) # "write" /\ Got(i) # "read"
  <2>1. i \in Nat \ {0} /\ main.oldest <= i /\ i < main.next
    BY <1>3, <1>4, WorkersAssumption
  <2>2. Slot(i) # Slot(main.oldest)
    BY <1>2, <1>4, OneInSlot
  <2>3. Sent(i) = "all" /\ Sent(i)' = "all"
    BY <1>1, <2>1 DEF Sent
  <2>4. Got(i) = "no" /\ Got(i)' = "no"
    BY <1>1, <2>1 DEF Got
  <2>. QED
    BY <2>2, <2>3, <2>4
<1>. QED
  BY <1>2, <1>3, <1>4 DEF OthersStay, Elsewhere

\* What is collected, when no result is being read.
LEMMA NothingRead ==
  ASSUME TeamInv, CollectedInv, UNCHANGED <<team, answers, r>>, main'.oldest = main.oldest,
         Contesting, Contesting', main.pc \notin {"read", "wait"}, main'.pc \notin {"read", "wait"}
  PROVE  CollectedInv'
<1>1. /\ JobCount' = JobCount /\ \A j : Work(j)' = Work(j)
      /\ \A i : Known(i)' = Known(i)
  BY SameContest, SameWork
<1>2. /\ \A j : ParentRead(Got(j), io, Len(Work(j))) = 0
      /\ \A j : ParentRead(Got(j)', io', Len(Work(j))) = 0
  BY DEF Got, ParentRead
<1>. QED
  BY <1>1, <1>2 DEF CollectedInv

\* A slot of ConstProcesses has the number of its job.
LEMMA OwnSlot == \A j \in 1..Size : Slot(j) = j
BY TeamAssumption DEF Slot

\* The parent forks the child of the next job.
LEMMA ForkKeeps ==
  ASSUME TeamInv, ProcInv, team \in ProcessTeam, Fork
  PROVE  TeamInv' /\ ProcInv'
<1>. DEFINE j == main.next
            d == [NoChild EXCEPT !.pc = "start"]
<1>1. /\ main.pc = "loop" /\ ~AllStarted /\ ~Full
      /\ \A s \in (IF team = "NewProcesses" THEN Slots ELSE {j}) : pipe[Task(s)].named
      /\ child' = [child EXCEPT ![j] = d] /\ main' = [main EXCEPT !.pc = "open"]
      /\ UNCHANGED <<team, share, answers, r, pipe, io, failed>>
  BY DEF Fork, SetChild, Goto
<1>2. /\ main.next \in Nat \ {0} /\ main.oldest \in Nat \ {0} /\ Size \in Nat \ {0}
      /\ main = [pc |-> main.pc, next |-> main.next, oldest |-> main.oldest]
      /\ Contesting /\ JobCount \in Nat /\ 1..JobCount \subseteq Child
      /\ team = "ConstProcesses" => JobCount = Size
  BY <1>1, ParentFacts
<1>3. /\ pipe \in [Pipes -> Pipe] /\ child \in [Child -> Kid] /\ failed = FALSE
      /\ WindowInv /\ ChildrenInv /\ FreshInv /\ CollectedInv /\ NamedInv
  BY DEF ProcInv
<1>4. main.next <= JobCount /\ main.next - main.oldest < Size /\ main.oldest <= main.next
  BY <1>1, <1>2, <1>3 DEF AllStarted, Full, WindowInv
<1>5. main' = [pc |-> "open", next |-> main.next, oldest |-> main.oldest]
  BY <1>1, <1>2
<1>6. /\ TeamInv' /\ Contesting' /\ main'.pc = "open" /\ main'.next = main.next
      /\ main'.oldest = main.oldest /\ JobCount' = JobCount
  BY <1>1, <1>2, <1>5, ParentGoes
<1>7. j \in Child /\ OthersStay(j)
  <2>1. Elsewhere(j)
    BY <1>1, <1>3 DEF Elsewhere
  <2>. QED
    BY <1>1, <1>3, <1>4, <1>6, <2>1, SendingAlone
<1>8. Active(j)' /\ Sent(j)' = "open" /\ Got(j)' = "no"
  BY <1>2, <1>4, <1>6 DEF Active, Sent, Got
<1>9. Fresh(pipe[Task(Slot(j))]) /\ Fresh(pipe[Result(Slot(j))])
      /\ pipe[Task(Slot(j))] \in Pipe /\ pipe[Result(Slot(j))] \in Pipe
  <2>1. Slot(j) \in Slots
    BY <1>2, SlotType
  <2>2. ~Active(j)
    BY <1>1, <1>2 DEF Active
  <2>3. \A i \in Child : Active(i) => Slot(i) # Slot(j)
    BY <1>7, <2>2 DEF OthersStay
  <2>. QED
    BY <1>3, <2>1, <2>3, PipesDiffer DEF FreshInv
<1>10. Len(Work(j)) \in Nat
  BY <1>2, <1>4, WorkRight, ContestFacts
<1>11. JobInv(j)' /\ d \in Kid
  <2>. DEFINE n == Len(Work(j))
              q == pipe[Task(Slot(j))]
              p == pipe[Result(Slot(j))]
  <2>1. /\ d \in Kid /\ ChildInv(d, n, Numbers(j), Values(j))
        /\ TaskPipe(j, d, q, "open", io, Order(Work(j)), n)
        /\ ResultPipe(j, d, p, "no", io, Work(j), Replies(j), n)
    <3>1. /\ q \in Pipe /\ p \in Pipe /\ Fresh(q) /\ Fresh(p) /\ n \in Nat /\ j \in Child
      BY <1>7, <1>9, <1>10
    <3>. HIDE DEF q, p, n, j
    <3>. QED
      BY <3>1, ForkedJob
  <2>2. /\ Work(j)' = Work(j) /\ Numbers(j)' = Numbers(j) /\ Values(j)' = Values(j)
        /\ Replies(j)' = Replies(j) /\ Order(Work(j))' = Order(Work(j)) /\ Slot(j)' = Slot(j)
    BY <1>1, <1>6, SameWork DEF Slot
  <2>3. child'[j] = d /\ pipe' = pipe /\ io' = io /\ j' = j
    BY <1>1, <1>3, <1>6, <1>7
  <2>. HIDE DEF d
  <2>. QED
    BY <1>8, <2>1, <2>2, <2>3 DEF JobInv
<1>12. ChildrenInv' /\ FreshInv'
  BY <1>1, <1>3, <1>7, <1>8, <1>11, JobsKeep
<1>13. WindowInv'
  BY <1>2, <1>4, <1>6 DEF WindowInv
<1>14. CollectedInv'
  BY <1>1, <1>2, <1>3, <1>6, NothingRead
<1>15. NamedInv'
  <2>1. \A s : ResultNamed(s)' = ResultNamed(s)
    BY <1>1, <1>6 DEF ResultNamed
  <2>2. \A s \in Slots : Task(s)' = Task(s) /\ Result(s)' = Result(s)
    BY DEF Task, Result
  <2>3. team = "ConstProcesses" => pipe[Task(main.next)].named
    BY <1>1
  <2>. QED
    BY <1>1, <1>3, <1>6, <2>1, <2>2, <2>3 DEF NamedInv
<1>16. pipe' \in [Pipes -> Pipe] /\ child' \in [Child -> Kid] /\ failed' = FALSE
  BY <1>1, <1>3, <1>11
<1>. QED
  BY <1>6, <1>12, <1>13, <1>14, <1>15, <1>16 DEF ProcInv

\* The invariant of a job after a step, from its three parts.
LEMMA JobBecomes ==
  ASSUME answers' = answers, team' = team, NEW j, NEW sent, NEW got,
         Sent(j)' = sent, Got(j)' = got,
         ChildInv(child'[j], Len(Work(j)), Numbers(j), Values(j)),
         TaskPipe(j, child'[j], pipe'[Task(Slot(j))], sent, io', Order(Work(j)), Len(Work(j))),
         ResultPipe(j, child'[j], pipe'[Result(Slot(j))], got, io', Work(j), Replies(j),
                    Len(Work(j)))
  PROVE  JobInv(j)'
<1>1. /\ Work(j)' = Work(j) /\ Numbers(j)' = Numbers(j) /\ Values(j)' = Values(j)
      /\ Replies(j)' = Replies(j) /\ Order(Work(j))' = Order(Work(j)) /\ Slot(j)' = Slot(j)
  BY SameWork DEF Slot
<1>. QED
  BY <1>1 DEF JobInv

\* What the parent still has to do matters only to the pipe it has open.
LEMMA LeftAside ==
  ASSUME NEW left, NEW rest
  PROVE  /\ \A j, c, q, sent, order, n :
              sent # "write" /\ TaskPipe(j, c, q, sent, left, order, n)
                => TaskPipe(j, c, q, sent, rest, order, n)
         /\ \A j, c, p, got, work, replies, n :
              got # "read" /\ ResultPipe(j, c, p, got, left, work, replies, n)
                => ResultPipe(j, c, p, got, rest, work, replies, n)
<1>1. \A j, c, q, sent, order, n :
        sent # "write" /\ TaskPipe(j, c, q, sent, left, order, n)
          => TaskPipe(j, c, q, sent, rest, order, n)
  BY DEF TaskPipe, ParentWrote
<1>2. \A j, c, p, got, work, replies, n :
        got # "read" /\ ResultPipe(j, c, p, got, left, work, replies, n)
          => ResultPipe(j, c, p, got, rest, work, replies, n)
  BY DEF ResultPipe, ParentRead
<1>. QED
  BY <1>1, <1>2

\* A step of the parent that writes to a child, or opens or closes its pipe.
LEMMA TaskSteps ==
  ASSUME TeamInv, ProcInv, team \in ProcessTeam, main.pc \in {"open", "write"},
         UNCHANGED <<team, share, answers, r, child>>, failed' = FALSE,
         NEW j \in Nat \ {0}, j = main.next,
         NEW p \in {"write", "loop"},
         NEW x \in Nat \ {0}, x = IF p = "loop" THEN j + 1 ELSE j,
         main' = [pc |-> p, next |-> x, oldest |-> main.oldest],
         NEW o \in Pipe, pipe' = [pipe EXCEPT ![Task(Slot(j))] = o],
         TaskPipe(j, child[j], o, IF p = "loop" THEN "all" ELSE p, io', Order(Work(j)),
                  Len(Work(j))),
         o.named = IF p = "loop" /\ team = "ConstProcesses" THEN FALSE
                   ELSE pipe[Task(Slot(j))].named
  PROVE  TeamInv' /\ ProcInv'
<1>. DEFINE f == Task(Slot(j))
<1>1. /\ main.next \in Nat \ {0} /\ main.oldest \in Nat \ {0} /\ Size \in Nat \ {0}
      /\ Contesting /\ JobCount \in Nat /\ 1..JobCount \subseteq Child
      /\ team = "ConstProcesses" => JobCount = Size
  BY ParentFacts
<1>2. /\ pipe \in [Pipes -> Pipe] /\ child \in [Child -> Kid] /\ failed = FALSE
      /\ WindowInv /\ ChildrenInv /\ FreshInv /\ CollectedInv /\ NamedInv
  BY DEF ProcInv
<1>3. main.next <= JobCount /\ main.next - main.oldest < Size /\ main.oldest <= main.next
  BY <1>1, <1>2 DEF WindowInv
<1>4. /\ TeamInv' /\ Contesting' /\ main'.pc = p /\ main'.next = x
      /\ main'.oldest = main.oldest /\ JobCount' = JobCount
  BY <1>1, ParentGoes
<1>5. j \in Child /\ Active(j)
  BY <1>1, <1>3 DEF Active
<1>6. /\ f \in Pipes /\ Result(Slot(j)) \in Pipes /\ f # Result(Slot(j)) /\ Slot(j) \in Slots
      /\ ChildInv(child[j], Len(Work(j)), Numbers(j), Values(j))
      /\ ResultPipe(j, child[j], pipe[Result(Slot(j))], Got(j), io, Work(j), Replies(j),
                    Len(Work(j)))
  BY <1>2, <1>5, JobParts, JobFacts
<1>7. /\ pipe' \in [Pipes -> Pipe] /\ pipe'[f] = o
      /\ \A g \in Pipes \ {f} : pipe'[g] = pipe[g]
  BY <1>2, <1>6
<1>8. OthersStay(j)
  <2>1. Elsewhere(j)
    BY <1>7 DEF Elsewhere
  <2>. QED
    BY <1>2, <1>3, <1>4, <2>1, SendingAlone
<1>9. /\ Active(j)' /\ Sent(j)' = (IF p = "loop" THEN "all" ELSE p)
      /\ Got(j)' = "no" /\ Got(j) = "no"
  <2>1. CASE p = "write"
    BY <1>1, <1>3, <1>4, <2>1 DEF Active, Sent, Got
  <2>2. CASE p = "loop"
    BY <1>1, <1>3, <1>4, <2>2 DEF Active, Sent, Got
  <2>. QED
    BY <2>1, <2>2
<1>10. JobInv(j)'
  <2>1. ResultPipe(j, child[j], pipe[Result(Slot(j))], "no", io', Work(j), Replies(j),
                   Len(Work(j)))
    BY <1>6, <1>9, LeftAside
  <2>2. pipe'[Result(Slot(j))] = pipe[Result(Slot(j))]
    BY <1>6, <1>7
  <2>. QED
    BY <1>6, <1>7, <1>9, <2>1, <2>2, JobBecomes
<1>11. ChildrenInv' /\ FreshInv'
  BY <1>2, <1>5, <1>8, <1>9, <1>10, JobsKeep
<1>12. WindowInv'
  BY <1>1, <1>3, <1>4 DEF WindowInv
<1>13. CollectedInv'
  BY <1>1, <1>2, <1>4, NothingRead
<1>14. NamedInv'
  <2>1. \A s \in Slots : Task(s)' = Task(s) /\ Result(s)' = Result(s)
    BY DEF Task, Result
  <2>2. CASE team = "NewProcesses"
    <3>1. \A g \in Pipes : pipe'[g].named = pipe[g].named
      BY <1>7, <2>2
    <3>2. \A s \in Slots : Task(s) \in Pipes /\ Result(s) \in Pipes
      BY PipesDiffer
    <3>. QED
      BY <1>2, <1>4, <2>1, <2>2, <3>1, <3>2 DEF NamedInv
  <2>3. CASE team = "ConstProcesses"
    <3>1. Slot(j) = j
      BY <1>1, <1>3, <2>3, OwnSlot
    <3>2. ASSUME NEW s \in Slots
          PROVE  /\ pipe'[Task(s)].named => s = main'.next /\ main'.pc \in {"loop", "open", "write"}
                 /\ main'.pc \in {"open", "write"} /\ s = main'.next => pipe'[Task(s)].named
                 /\ pipe'[Result(s)].named <=> pipe'[Task(s)].named \/ ResultNamed(s)'
      <4>1. /\ pipe[Task(s)].named => s = j
            /\ s = j => pipe[Task(s)].named
            /\ pipe[Result(s)].named <=> pipe[Task(s)].named \/ ResultNamed(s)
        BY <1>2, <2>3 DEF NamedInv
      <4>2. pipe'[Result(s)] = pipe[Result(s)]
        BY <1>6, <1>7, PipesDiffer
      <4>3. s # j => pipe'[Task(s)] = pipe[Task(s)]
        BY <1>6, <1>7, <3>1, PipesDiffer
      <4>4. s = j => pipe'[Task(s)] = o
        BY <1>7, <3>1
      <4>5. s \in Nat /\ (ResultNamed(s) <=> main.oldest <= s /\ s < main.next)
        BY DEF ResultNamed, Slots
      <4>6. ResultNamed(s)' <=> main.oldest <= s /\ s < x
        BY <1>4 DEF ResultNamed
      <4>7. CASE p = "write"
        BY <1>4, <2>3, <3>1, <4>1, <4>2, <4>3, <4>4, <4>5, <4>6, <4>7
      <4>8. CASE p = "loop"
        <5>1. x = main.next + 1 /\ o.named = FALSE
          BY <2>3, <4>8
        <5>2. CASE s = j
          <6>1. pipe'[Task(s)].named = FALSE
            BY <4>4, <5>1, <5>2
          <6>2. pipe'[Result(s)].named
            BY <4>1, <4>2, <5>2
          <6>3. ResultNamed(s)'
            BY <1>1, <1>3, <4>6, <5>1, <5>2
          <6>4. ~(main'.pc \in {"open", "write"})
            BY <1>4, <4>8
          <6>. QED
            BY <6>1, <6>2, <6>3, <6>4
        <5>3. CASE s # j
          BY <1>1, <1>4, <4>1, <4>2, <4>3, <4>5, <4>6, <4>8, <5>1, <5>3
        <5>. QED
          BY <5>2, <5>3
      <4>. QED
        BY <4>7, <4>8
    <3>. QED
      BY <1>4, <2>1, <2>3, <3>2 DEF NamedInv
  <2>. QED
    BY <2>2, <2>3 DEF ProcessTeam
<1>. QED
  BY <1>2, <1>4, <1>7, <1>11, <1>12, <1>13, <1>14 DEF ProcInv

\* The job that the parent writes to, with its invariant.
LEMMA NextJob ==
  ASSUME TeamInv, ProcInv, team \in ProcessTeam, main.pc \in {"open", "write"}
  PROVE  /\ main.next \in Child /\ Active(main.next) /\ Sent(main.next) = main.pc
         /\ main.next \in Nat \ {0} /\ main.oldest \in Nat \ {0}
         /\ main = [pc |-> main.pc, next |-> main.next, oldest |-> main.oldest]
         /\ Task(Slot(main.next)) \in Pipes /\ pipe[Task(Slot(main.next))] \in Pipe
         /\ child[main.next] \in Kid /\ Len(Work(main.next)) \in Nat
         /\ ChildInv(child[main.next], Len(Work(main.next)), Numbers(main.next), Values(main.next))
         /\ TaskPipe(main.next, child[main.next], pipe[Task(Slot(main.next))], main.pc, io,
                     Order(Work(main.next)), Len(Work(main.next)))
         /\ Order(Work(main.next)) \in Seq(Messages)
         /\ Len(Order(Work(main.next))) = 1 + 2 * Len(Work(main.next))
<1>. DEFINE j == main.next
<1>1. /\ j \in Nat \ {0} /\ main.oldest \in Nat \ {0} /\ WindowInv
      /\ main = [pc |-> main.pc, next |-> j, oldest |-> main.oldest]
      /\ JobCount \in Nat /\ 1..JobCount \subseteq Child
  BY ParentFacts DEF ProcInv
<1>2. j \in Child /\ Active(j) /\ Sent(j) = main.pc
  BY <1>1 DEF WindowInv, Active, Sent
<1>3. /\ Work(j) \in Seq(Nat) /\ Len(Work(j)) \in Nat
      /\ \A k \in 1..Len(Work(j)) : contestInput[Work(j)[k]] \in Nat
  BY <1>1, <1>2, JobFacts
<1>4. /\ Order(Work(j)) \in Seq(Messages) /\ Len(Order(Work(j))) = 1 + 2 * Len(Work(j))
  BY <1>3, OrderIs
<1>. QED
  BY <1>1, <1>2, <1>3, <1>4, JobParts

\* The parent opens the task pipe of the newest job.
LEMMA OpenTaskKeeps ==
  ASSUME TeamInv, ProcInv, team \in ProcessTeam, OpenTask
  PROVE  TeamInv' /\ ProcInv'
<1>. DEFINE j == main.next
            q == pipe[Task(Slot(j))]
            o == OpenToWrite(q, Parent)
            n == Len(Work(j))
            order == Order(Work(j))
<1>1. /\ main.pc = "open" /\ pipe' = [pipe EXCEPT ![Task(Slot(j))] = o]
      /\ io' = order /\ main' = [main EXCEPT !.pc = "write"]
      /\ UNCHANGED <<team, share, answers, r, child>> /\ failed' = FALSE
  BY DEF OpenTask, Goto, ProcInv
<1>2. /\ j \in Child /\ j \in Nat \ {0}
      /\ main = [pc |-> main.pc, next |-> j, oldest |-> main.oldest]
      /\ q \in Pipe /\ child[j] \in Kid /\ n \in Nat
      /\ ChildInv(child[j], n, Numbers(j), Values(j))
      /\ TaskPipe(j, child[j], q, "open", io, order, n)
      /\ order \in Seq(Messages) /\ Len(order) = 1 + 2 * n
  BY <1>1, NextJob
<1>3. o \in Pipe /\ o.named = q.named
  BY <1>2, PipeOperations
<1>4. TaskPipe(j, child[j], o, "write", order, order, n)
  <2>. HIDE DEF j, q, n, order
  <2>. QED
    BY <1>2, ParentOpensTask
<1>5. main' = [pc |-> "write", next |-> j, oldest |-> main.oldest]
  BY <1>1, <1>2
<1>. HIDE DEF o
<1>6. /\ "write" \in {"write", "loop"}
      /\ j = (IF "write" = "loop" THEN j + 1 ELSE j)
      /\ TaskPipe(j, child[j], o, IF "write" = "loop" THEN "all" ELSE "write", io', order, n)
      /\ o.named = IF "write" = "loop" /\ team = "ConstProcesses" THEN FALSE
                   ELSE q.named
  BY <1>1, <1>3, <1>4
<1>. QED
  BY <1>1, <1>2, <1>3, <1>5, <1>6, TaskSteps

\* The parent writes to it.
LEMMA WriteTaskKeeps ==
  ASSUME TeamInv, ProcInv, team \in ProcessTeam, WriteTask
  PROVE  TeamInv' /\ ProcInv'
<1>. DEFINE j == main.next
            q == pipe[Task(Slot(j))]
            o == write(q, Head(io))
            n == Len(Work(j))
            order == Order(Work(j))
<1>1. /\ main.pc = "write" /\ io # <<>> /\ pipe' = [pipe EXCEPT ![Task(Slot(j))] = o]
      /\ io' = Tail(io) /\ ~Blocked(Parent) /\ failed' = Broken(q)
      /\ UNCHANGED <<team, share, answers, main, r, child>>
  BY DEF WriteTask, Writes, teamVars
<1>2. /\ j \in Child /\ j \in Nat \ {0} /\ Task(Slot(j)) \in Pipes
      /\ main = [pc |-> main.pc, next |-> j, oldest |-> main.oldest]
      /\ q \in Pipe /\ child[j] \in Kid /\ n \in Nat
      /\ ChildInv(child[j], n, Numbers(j), Values(j))
      /\ TaskPipe(j, child[j], q, "write", io, order, n)
  BY <1>1, NextJob
<1>3. Parent \notin q.opening
  BY <1>1, <1>2, NotBlocked
<1>4. /\ ~Broken(q) /\ Head(io) \in Messages
      /\ TaskPipe(j, child[j], o, "write", Tail(io), order, n)
  <2>. HIDE DEF j, q, n, order
  <2>. QED
    BY <1>1, <1>2, <1>3, ParentWritesTask
<1>5. o \in Pipe /\ o.named = q.named
  BY <1>2, <1>4, WriteIs
<1>6. failed' = FALSE
  <2>1. Broken(q) \in BOOLEAN
    BY DEF Broken
  <2>. QED
    BY <1>1, <1>4, <2>1
<1>7. main' = [pc |-> "write", next |-> j, oldest |-> main.oldest]
  BY <1>1, <1>2
<1>. HIDE DEF o
<1>8. /\ "write" \in {"write", "loop"}
      /\ j = (IF "write" = "loop" THEN j + 1 ELSE j)
      /\ TaskPipe(j, child[j], o, IF "write" = "loop" THEN "all" ELSE "write", io', order, n)
      /\ o.named = IF "write" = "loop" /\ team = "ConstProcesses" THEN FALSE
                   ELSE q.named
  BY <1>1, <1>4, <1>5
<1>. QED
  BY <1>1, <1>2, <1>5, <1>6, <1>7, <1>8, TaskSteps

\* The parent closes it; TeamConstProcesses unlinks it too.
LEMMA CloseTaskKeeps ==
  ASSUME TeamInv, ProcInv, team \in ProcessTeam, CloseTask
  PROVE  TeamInv' /\ ProcInv'
<1>. DEFINE j == main.next
            f == Task(Slot(j))
            q == pipe[f]
            v == close(q, Parent)
            o == IF team = "ConstProcesses" THEN unlink(v) ELSE v
            n == Len(Work(j))
            order == Order(Work(j))
<1>1. /\ main.pc = "write" /\ io = <<>> /\ ~Blocked(Parent)
      /\ pipe' = [pipe EXCEPT ![f] = o]
      /\ failed' = (team = "ConstProcesses" /\ ~q.named)
      /\ main' = [main EXCEPT !.pc = "loop", !.next = @ + 1]
      /\ UNCHANGED <<team, share, answers, r, child>>
  BY DEF CloseTask, Closes
<1>2. /\ j \in Child /\ j \in Nat \ {0} /\ f \in Pipes
      /\ main = [pc |-> main.pc, next |-> j, oldest |-> main.oldest]
      /\ q \in Pipe /\ child[j] \in Kid /\ n \in Nat
      /\ TaskPipe(j, child[j], q, "write", io, order, n)
  BY <1>1, NextJob
<1>3. Parent \notin q.opening
  BY <1>1, <1>2, NotBlocked
<1>4. TaskPipe(j, child[j], v, "all", io', order, n)
  <2>. HIDE DEF j, q, n, order
  <2>. QED
    BY <1>1, <1>2, <1>3, ParentClosesTask
<1>5. v \in Pipe /\ v.named = q.named
  BY <1>2, PipeOperations
<1>. HIDE DEF v
<1>6. /\ unlink(v) \in Pipe /\ unlink(v).named = FALSE /\ Alike(unlink(v), v)
  BY <1>5, UnlinkIs DEF Alike
<1>7. /\ o \in Pipe /\ o.named = IF team = "ConstProcesses" THEN FALSE ELSE q.named
      /\ Alike(o, v)
  BY <1>5, <1>6 DEF Alike
<1>. HIDE DEF o
<1>8. TaskPipe(j, child[j], o, "all", io', order, n)
  <2>. HIDE DEF j, q, n, order
  <2>. QED
    BY <1>4, <1>7, SamePipe DEF Alike
<1>9. failed' = FALSE
  <2>1. ASSUME team = "ConstProcesses" PROVE q.named
    <3>1. JobCount = Size /\ WindowInv /\ NamedInv /\ JobCount \in Nat
      BY <2>1, ParentFacts DEF ProcInv, ProcessTeam
    <3>2. j \in 1..Size
      BY <1>1, <1>2, <3>1 DEF WindowInv
    <3>3. Slot(j) = j /\ j \in Slots
      BY <3>2, OwnSlot DEF Slots
    <3>. QED
      BY <1>1, <2>1, <3>1, <3>3 DEF NamedInv
  <2>2. q.named \in BOOLEAN
    BY <1>2 DEF Pipe
  <2>. QED
    BY <1>1, <2>1, <2>2
<1>10. main' = [pc |-> "loop", next |-> j + 1, oldest |-> main.oldest] /\ j + 1 \in Nat \ {0}
  <2>. DEFINE m == [main EXCEPT !.pc = "loop"]
  <2>1. m = [pc |-> "loop", next |-> j, oldest |-> main.oldest]
    BY <1>2
  <2>2. main' = [m EXCEPT !.next = @ + 1]
    BY <1>1
  <2>. HIDE DEF m
  <2>. QED
    BY <1>2, <2>1, <2>2
<1>11. /\ "loop" \in {"write", "loop"}
       /\ j + 1 = (IF "loop" = "loop" THEN j + 1 ELSE j)
       /\ TaskPipe(j, child[j], o, IF "loop" = "loop" THEN "all" ELSE "loop", io', order, n)
       /\ o.named = IF "loop" = "loop" /\ team = "ConstProcesses" THEN FALSE
                    ELSE q.named
  BY <1>7, <1>8
<1>. QED
  BY <1>1, <1>2, <1>7, <1>9, <1>10, <1>11, TaskSteps

\* What is collected, when no further result becomes known.
LEMMA NothingNew ==
  ASSUME CollectedInv, UNCHANGED <<team, answers, r>>, Contesting, Contesting',
         NEW j, j = main.oldest, main'.oldest = j,
         ParentRead(Got(j)', io', Len(Work(j))) = ParentRead(Got(j), io, Len(Work(j)))
  PROVE  CollectedInv'
<1>1. /\ JobCount' = JobCount /\ \A i : Work(i)' = Work(i)
      /\ \A i : Known(i)' = Known(i)
  BY SameContest, SameWork
<1>2. ASSUME NEW i \in 1..JobCount, NEW k \in 1..Len(Work(i)),
             i < j \/ (i = j /\ k <= ParentRead(Got(i)', io', Len(Work(i))))
      PROVE  Known(Work(i)[k])
  BY <1>2 DEF CollectedInv
<1>. QED
  BY <1>1, <1>2 DEF CollectedInv

\* A step of the parent that reads from a child, or opens or closes its pipe.
LEMMA ResultSteps ==
  ASSUME TeamInv, ProcInv, TeamInv', team \in ProcessTeam, main.pc \in {"loop", "read"},
         main.pc = "loop" => AllStarted \/ Full, main.oldest < main.next,
         UNCHANGED <<team, share, answers, child>>, failed' = FALSE,
         NEW j \in Nat \ {0}, j = main.oldest, NEW p \in {"read", "wait"},
         main' = [pc |-> p, next |-> main.next, oldest |-> j],
         NEW o \in Pipe, pipe' = [pipe EXCEPT ![Result(Slot(j))] = o],
         ResultPipe(j, child[j], o, p, io', Work(j), Replies(j), Len(Work(j))),
         o.named = IF p = "wait" /\ team = "ConstProcesses" THEN FALSE
                   ELSE pipe[Result(Slot(j))].named,
         CollectedInv'
  PROVE  ProcInv'
<1>. DEFINE f == Result(Slot(j))
<1>1. /\ main.next \in Nat \ {0} /\ main.oldest \in Nat \ {0} /\ Size \in Nat \ {0}
      /\ Contesting /\ JobCount \in Nat /\ 1..JobCount \subseteq Child
      /\ team = "ConstProcesses" => JobCount = Size
  BY ParentFacts
<1>2. /\ pipe \in [Pipes -> Pipe] /\ child \in [Child -> Kid] /\ failed = FALSE
      /\ WindowInv /\ ChildrenInv /\ FreshInv /\ CollectedInv /\ NamedInv
  BY DEF ProcInv
<1>3. main.next - main.oldest <= Size /\ main.next <= JobCount + 1
  BY <1>1, <1>2 DEF WindowInv
<1>4. /\ main'.pc = p /\ main'.next = main.next /\ main'.oldest = j /\ JobCount' = JobCount
  BY SameContest
<1>5. Contesting'
  BY <1>4 DEF Contesting
<1>6. Elsewhere(j)
  BY <1>2 DEF Elsewhere
<1>7. j \in Child /\ Active(j) /\ OthersStay(j)
  BY <1>2, <1>4, <1>6, CollectingAlone
<1>8. /\ f \in Pipes /\ Task(Slot(j)) \in Pipes /\ f # Task(Slot(j)) /\ Slot(j) \in Slots
      /\ ChildInv(child[j], Len(Work(j)), Numbers(j), Values(j))
      /\ TaskPipe(j, child[j], pipe[Task(Slot(j))], Sent(j), io, Order(Work(j)), Len(Work(j)))
  BY <1>2, <1>7, JobParts, JobFacts
<1>9. /\ pipe' \in [Pipes -> Pipe] /\ pipe'[f] = o
      /\ \A g \in Pipes \ {f} : pipe'[g] = pipe[g]
  BY <1>2, <1>8
<1>10. /\ Active(j)' /\ Sent(j)' = "all" /\ Sent(j) = "all" /\ Got(j)' = p
  BY <1>1, <1>4 DEF Active, Sent, Got
<1>11. JobInv(j)'
  <2>1. TaskPipe(j, child[j], pipe[Task(Slot(j))], "all", io', Order(Work(j)), Len(Work(j)))
    BY <1>8, <1>10, LeftAside
  <2>2. pipe'[Task(Slot(j))] = pipe[Task(Slot(j))]
    BY <1>8, <1>9
  <2>. QED
    BY <1>8, <1>9, <1>10, <2>1, <2>2, JobBecomes
<1>12. ChildrenInv' /\ FreshInv'
  BY <1>2, <1>7, <1>10, <1>11, JobsKeep
<1>13. WindowInv'
  BY <1>1, <1>3, <1>4, <1>5 DEF WindowInv
<1>14. NamedInv'
  <2>1. \A s \in Slots : Task(s)' = Task(s) /\ Result(s)' = Result(s)
    BY DEF Task, Result
  <2>2. CASE team = "NewProcesses"
    <3>1. \A g \in Pipes : pipe'[g].named = pipe[g].named
      BY <1>9, <2>2
    <3>2. \A s \in Slots : Task(s) \in Pipes /\ Result(s) \in Pipes
      BY PipesDiffer
    <3>. QED
      BY <1>2, <1>4, <1>5, <2>1, <2>2, <3>1, <3>2 DEF NamedInv
  <2>3. CASE team = "ConstProcesses"
    <3>1. Slot(j) = j
      <4>1. j \in 1..Size
        BY <1>1, <1>3, <2>3
      <4>. QED
        BY <4>1, OwnSlot
    <3>2. main.pc = "loop" => main.next > Size
      <4>1. AllStarted => main.next > Size
        BY <1>1, <2>3 DEF AllStarted
      <4>2. Full => main.next > Size
        BY <1>1 DEF Full
      <4>. QED
        BY <4>1, <4>2
    <3>3. ASSUME NEW s \in Slots
          PROVE  /\ ~pipe'[Task(s)].named
                 /\ pipe'[Result(s)].named <=> ResultNamed(s)'
      <4>1. /\ pipe[Task(s)].named => s = main.next /\ main.pc = "loop"
            /\ pipe[Result(s)].named <=> pipe[Task(s)].named \/ ResultNamed(s)
        BY <1>2, <2>3 DEF NamedInv
      <4>2. s \in Nat /\ s <= Size
        BY <1>1 DEF Slots
      <4>3. ~pipe[Task(s)].named
        BY <1>1, <3>2, <4>1, <4>2
      <4>4. pipe'[Task(s)] = pipe[Task(s)]
        BY <1>8, <1>9, PipesDiffer
      <4>5. s # j => pipe'[Result(s)] = pipe[Result(s)]
        BY <1>8, <1>9, <3>1, PipesDiffer
      <4>6. s = j => pipe'[Result(s)] = o
        BY <1>9, <3>1
      <4>7. ResultNamed(s) <=> main.oldest <= s /\ s < main.next
        BY DEF ResultNamed
      <4>8. ResultNamed(s)' <=> main.oldest <= s /\ s < main.next /\ ~(s = j /\ p = "wait")
        BY <1>4 DEF ResultNamed
      <4>9. pipe[Result(s)].named <=> ResultNamed(s)
        BY <4>1, <4>3
      <4>10. CASE s # j
        BY <4>3, <4>4, <4>5, <4>7, <4>8, <4>9, <4>10
      <4>11. CASE s = j /\ p = "wait"
        <5>1. o.named = FALSE
          BY <2>3, <4>11
        <5>. QED
          BY <4>3, <4>4, <4>6, <4>8, <4>11, <5>1
      <4>12. CASE s = j /\ p = "read"
        <5>1. o.named = pipe[Result(s)].named
          BY <3>1, <4>12
        <5>. QED
          BY <4>3, <4>4, <4>6, <4>7, <4>8, <4>9, <4>12, <5>1
      <4>. QED
        BY <4>10, <4>11, <4>12
    <3>. QED
      BY <1>4, <1>5, <2>1, <2>3, <3>3 DEF NamedInv
  <2>. QED
    BY <2>2, <2>3 DEF ProcessTeam
<1>. QED
  BY <1>2, <1>9, <1>12, <1>13, <1>14 DEF ProcInv

\* The job that the parent reads from, with its invariant.
LEMMA OldestJob ==
  ASSUME TeamInv, ProcInv, team \in ProcessTeam, Contesting, main.oldest < main.next
  PROVE  /\ main.oldest \in Child /\ Active(main.oldest) /\ Sent(main.oldest) = "all"
         /\ main.next \in Nat \ {0} /\ main.oldest \in Nat \ {0} /\ main.oldest \in 1..JobCount
         /\ main = [pc |-> main.pc, next |-> main.next, oldest |-> main.oldest]
         /\ Result(Slot(main.oldest)) \in Pipes /\ pipe[Result(Slot(main.oldest))] \in Pipe
         /\ child[main.oldest] \in Kid /\ Len(Work(main.oldest)) \in Nat
         /\ Work(main.oldest) \in Seq(Nat)
         /\ ChildInv(child[main.oldest], Len(Work(main.oldest)), Numbers(main.oldest),
                     Values(main.oldest))
         /\ ResultPipe(main.oldest, child[main.oldest], pipe[Result(Slot(main.oldest))],
                       Got(main.oldest), io, Work(main.oldest), Replies(main.oldest),
                       Len(Work(main.oldest)))
<1>. DEFINE j == main.oldest
<1>1. /\ j \in Nat \ {0} /\ main.next \in Nat \ {0} /\ WindowInv
      /\ main = [pc |-> main.pc, next |-> main.next, oldest |-> main.oldest]
      /\ JobCount \in Nat /\ 1..JobCount \subseteq Child
  BY ParentFacts DEF ProcInv
<1>2. j \in Child /\ Active(j) /\ Sent(j) = "all" /\ j \in 1..JobCount
  BY <1>1 DEF WindowInv, Active, Sent
<1>3. /\ Work(j) \in Seq(Nat) /\ Len(Work(j)) \in Nat
  BY <1>1, <1>2, JobFacts
<1>. QED
  BY <1>1, <1>2, <1>3, JobParts

\* The parent opens the result pipe of the oldest job.
LEMMA OpenResultKeeps ==
  ASSUME TeamInv, ProcInv, team \in ProcessTeam, OpenResult
  PROVE  TeamInv' /\ ProcInv'
<1>. DEFINE j == main.oldest
            p == pipe[Result(Slot(j))]
            o == OpenToRead(p, Parent)
            n == Len(Work(j))
            work == Work(j)
<1>1. /\ main.pc = "loop" /\ j < main.next /\ (AllStarted \/ Full)
      /\ pipe' = [pipe EXCEPT ![Result(Slot(j))] = o]
      /\ io' = work /\ main' = [main EXCEPT !.pc = "read"]
      /\ UNCHANGED <<team, share, answers, r, child>> /\ failed' = FALSE /\ Contesting
  BY DEF OpenResult, Goto, ProcInv, Contesting, ProcessTeam
<1>2. /\ j \in Child /\ j \in Nat \ {0} /\ main.next \in Nat \ {0}
      /\ main = [pc |-> main.pc, next |-> main.next, oldest |-> j]
      /\ p \in Pipe /\ child[j] \in Kid /\ n \in Nat /\ work \in Seq(Nat)
      /\ ResultPipe(j, child[j], p, Got(j), io, work, Replies(j), n)
  BY <1>1, OldestJob
<1>3. o \in Pipe /\ o.named = p.named
  BY <1>2, PipeOperations
<1>4. ResultPipe(j, child[j], o, "read", work, work, Replies(j), n)
  <2>1. Got(j) = "no" /\ Len(work) = n
    BY <1>1 DEF Got
  <2>. HIDE DEF j, p, n, work
  <2>. QED
    BY <1>2, <2>1, ParentOpensResult
<1>5. main' = [pc |-> "read", next |-> main.next, oldest |-> j]
  BY <1>1, <1>2
<1>6. TeamInv' /\ Contesting' /\ main'.oldest = j /\ main'.pc = "read"
  BY <1>1, <1>2, <1>5, ParentGoes
<1>7. CollectedInv'
  <2>1. PICK k : k = j
    OBVIOUS
  <2>2. Got(k) = "no" /\ Got(k)' = "read"
    BY <1>1, <1>6, <2>1 DEF Got
  <2>3. ParentRead("no", io, Len(Work(k))) = 0 /\ ParentRead("read", io', Len(Work(k))) = 0
    BY <1>1, <1>2, <2>1 DEF ParentRead
  <2>4. ParentRead(Got(k)', io', Len(Work(k))) = ParentRead(Got(k), io, Len(Work(k)))
    BY <2>2, <2>3
  <2>5. CollectedInv /\ k = main.oldest /\ main'.oldest = k
    BY <1>6, <2>1 DEF ProcInv
  <2>. QED
    BY <1>1, <1>6, <2>4, <2>5, NothingNew
<1>. HIDE DEF o
<1>8. /\ "read" \in {"read", "wait"}
      /\ ResultPipe(j, child[j], o, "read", io', Work(j), Replies(j), Len(Work(j)))
      /\ o.named = IF "read" = "wait" /\ team = "ConstProcesses" THEN FALSE
                   ELSE pipe[Result(Slot(j))].named
  BY <1>1, <1>3, <1>4
<1>. QED
  BY <1>1, <1>2, <1>3, <1>5, <1>6, <1>7, <1>8, ResultSteps

\* The parent reads a result from it.
LEMMA ReadResultKeeps ==
  ASSUME TeamInv, ProcInv, team \in ProcessTeam, ReadResult
  PROVE  TeamInv' /\ ProcInv'
<1>. DEFINE j == main.oldest
            p == pipe[Result(Slot(j))]
            o == read(p)
            n == Len(Work(j))
            work == Work(j)
            k == ParentRead("read", io, n) + 1
<1>1. /\ main.pc = "read" /\ io # <<>> /\ ~Blocked(Parent) /\ Readable(p)
      /\ pipe' = [pipe EXCEPT ![Result(Slot(j))] = o]
      /\ failed' = (AtEnd(p) \/ Head(p.data).kind # "result")
      /\ r' = IF AtEnd(p) THEN r ELSE [r EXCEPT ![Head(io)] = Head(p.data).of]
      /\ io' = Tail(io)
      /\ UNCHANGED <<team, share, answers, main, child>> /\ Contesting
  BY DEF ReadResult, Reads, Contesting, ProcessTeam
<1>2. j < main.next
  BY <1>1 DEF ProcInv, WindowInv
<1>3. /\ j \in Child /\ j \in Nat \ {0} /\ main.next \in Nat \ {0} /\ Active(j)
      /\ main = [pc |-> main.pc, next |-> main.next, oldest |-> j] /\ j \in 1..JobCount
      /\ Result(Slot(j)) \in Pipes
      /\ p \in Pipe /\ child[j] \in Kid /\ n \in Nat /\ work \in Seq(Nat)
      /\ ChildInv(child[j], n, Numbers(j), Values(j))
      /\ ResultPipe(j, child[j], p, Got(j), io, work, Replies(j), n)
  BY <1>1, <1>2, OldestJob
<1>4. Got(j) = "read"
  BY <1>1 DEF Got
<1>5. Parent \notin p.opening
  BY <1>1, <1>3, NotBlocked
<1>6. /\ \A i \in 1..n : /\ Replies(j)[i] = Message("result", Values(j)[i])
                         /\ Values(j)[i] = calcCollatz[contestInput[work[i]]]
                         /\ work[i] \in 1..TaskCount
      /\ Values(j) \in Seq(Nat) /\ Len(Values(j)) = n
  BY <1>3, JobFacts DEF ProcInv
<1>7. /\ ~AtEnd(p) /\ Head(p.data).kind = "result" /\ Head(p.data).of = Values(j)[k]
      /\ k \in 1..n /\ Head(io) = work[k]
      /\ ParentRead("read", io', n) = k
      /\ ResultPipe(j, child[j], o, "read", io', work, Replies(j), n)
  <2>1. AreReplies(Replies(j), Values(j), n)
    BY <1>6 DEF AreReplies
  <2>2. ResultPipe(j, child[j], p, "read", io, work, Replies(j), n)
    BY <1>3, <1>4
  <2>3. k = ParentRead("read", io, n) + 1
    OBVIOUS
  <2>. HIDE DEF j, p, n, work, k
  <2>. QED
    BY <1>1, <1>3, <1>5, <2>1, <2>2, <2>3, ParentReads
<1>. HIDE DEF k
<1>8. /\ r' = [r EXCEPT ![work[k]] = calcCollatz[contestInput[work[k]]]] /\ failed' = FALSE
      /\ work[k] \in 1..TaskCount /\ calcCollatz[contestInput[work[k]]] \in Nat
  <2>1. Values(j)[k] = calcCollatz[contestInput[work[k]]] /\ work[k] \in 1..TaskCount
    BY <1>6, <1>7
  <2>2. Values(j)[k] \in Nat
    BY <1>6, <1>7
  <2>. QED
    BY <1>1, <1>7, <2>1, <2>2
<1>9. TeamInv' /\ Contesting'
  <2>1. Contesting' /\ main' \in [pc : MainPlaces, next : Nat \ {0}, oldest : Nat \ {0}]
    BY <1>1 DEF Contesting, TeamInv
  <2>. QED
    BY <1>1, <1>8, <2>1, WithinContest
<1>10. CollectedInv'
  <2>1. /\ JobCount' = JobCount /\ contestInput' = contestInput /\ \A i : Work(i)' = Work(i)
        /\ JobCount \in Nat /\ TaskCount \in Nat
    BY <1>1, SameContest, ContestFacts
  <2>2. /\ r \in Seq(Nat) /\ Len(r) = TaskCount
    BY <1>1 DEF TeamInv
  <2>3. ASSUME NEW i \in 1..TaskCount, Known(i) \/ i = work[k]
        PROVE  r'[i] = calcCollatz[contestInput[i]]
    BY <1>8, <2>2, <2>3 DEF Known
  <2>4. \A i : Got(i)' = Got(i)
    BY <1>1 DEF Got
  <2>5. ParentRead("read", io, n) = k - 1
    <3>1. Part(Nat, io, work, ParentRead("read", io, n), n)
      BY <1>3, <1>4 DEF ResultPipe
    <3>2. ParentRead("read", io, n) \in Nat
      BY <3>1, PartBounds
    <3>. QED
      BY <3>2 DEF k
  <2>6. ASSUME NEW i \in 1..JobCount, NEW l \in 1..Len(Work(i)),
               \/ i < main'.oldest
               \/ i = main'.oldest /\ l <= ParentRead(Got(i)', io', Len(Work(i)))
        PROVE  r'[Work(i)[l]] = calcCollatz[contestInput[Work(i)[l]]]
    <3>1. Work(i) \in Seq(Nat) /\ Work(i)[l] \in 1..TaskCount
      BY <2>1, WorkRight
    <3>2. l \in Nat /\ k \in Nat
      BY <1>7, <3>1
    <3>3. i < j \/ (i = j /\ l <= k)
      BY <1>1, <1>4, <1>7, <2>4, <2>6
    <3>4. CASE i = j /\ l = k
      BY <2>3, <3>1, <3>4
    <3>5. CASE i < j \/ (i = j /\ l < k)
      <4>1. i = j => l <= ParentRead(Got(i), io, Len(Work(i)))
        BY <1>4, <2>5, <3>2, <3>5
      <4>2. Known(Work(i)[l])
        BY <1>1, <3>5, <4>1 DEF ProcInv, CollectedInv
      <4>. QED
        BY <2>3, <3>1, <4>2
    <3>. QED
      BY <3>2, <3>3, <3>4, <3>5
  <2>. QED
    BY <1>9, <2>1, <2>6 DEF CollectedInv, Known
<1>11. o \in Pipe /\ o.named = p.named
  BY <1>3, <1>7, ReadIs
<1>12. main' = [pc |-> "read", next |-> main.next, oldest |-> j]
  BY <1>1, <1>3
<1>. HIDE DEF o
<1>13. /\ "read" \in {"read", "wait"}
       /\ ResultPipe(j, child[j], o, "read", io', Work(j), Replies(j), Len(Work(j)))
       /\ o.named = IF "read" = "wait" /\ team = "ConstProcesses" THEN FALSE
                    ELSE pipe[Result(Slot(j))].named
  BY <1>7, <1>11
<1>. QED
  BY <1>1, <1>2, <1>3, <1>8, <1>9, <1>10, <1>11, <1>12, <1>13, ResultSteps

\* The parent closes it; TeamConstProcesses unlinks it, by its name.
LEMMA CloseResultKeeps ==
  ASSUME TeamInv, ProcInv, team \in ProcessTeam, CloseResult
  PROVE  TeamInv' /\ ProcInv'
<1>. DEFINE j == main.oldest
            f == Result(Slot(j))
            p == pipe[f]
            v == close(p, Parent)
            o == IF team = "ConstProcesses" THEN unlink(v) ELSE v
            n == Len(Work(j))
            work == Work(j)
<1>1. /\ main.pc = "read" /\ io = <<>> /\ ~Blocked(Parent)
      /\ pipe' = [pipe EXCEPT ![f] = o]
      /\ failed' = (team = "ConstProcesses" /\ ~p.named)
      /\ main' = [main EXCEPT !.pc = "wait"]
      /\ UNCHANGED <<team, share, answers, r, child>> /\ io' = io /\ Contesting
  BY DEF CloseResult, Closes, Goto, Contesting, ProcessTeam
<1>2. j < main.next
  BY <1>1 DEF ProcInv, WindowInv
<1>3. /\ j \in Child /\ j \in Nat \ {0} /\ main.next \in Nat \ {0} /\ Active(j)
      /\ main = [pc |-> main.pc, next |-> main.next, oldest |-> j] /\ j \in 1..JobCount
      /\ f \in Pipes /\ p \in Pipe /\ child[j] \in Kid /\ n \in Nat
      /\ ResultPipe(j, child[j], p, Got(j), io, work, Replies(j), n)
  BY <1>1, <1>2, OldestJob
<1>4. Got(j) = "read" /\ Parent \notin p.opening
  BY <1>1, <1>3, NotBlocked DEF Got
<1>5. /\ ParentRead("read", io, n) = n
      /\ ResultPipe(j, child[j], v, "wait", io', work, Replies(j), n)
  <2>1. ResultPipe(j, child[j], p, "read", io, work, Replies(j), n)
    BY <1>3, <1>4
  <2>. HIDE DEF j, p, n, work
  <2>. QED
    BY <1>1, <1>3, <1>4, <2>1, ParentClosesResult
<1>6. v \in Pipe /\ v.named = p.named
  BY <1>3, PipeOperations
<1>. HIDE DEF v
<1>7. /\ unlink(v) \in Pipe /\ unlink(v).named = FALSE /\ Alike(unlink(v), v)
  BY <1>6, UnlinkIs DEF Alike
<1>8. /\ o \in Pipe /\ o.named = IF team = "ConstProcesses" THEN FALSE ELSE p.named
      /\ Alike(o, v)
  BY <1>6, <1>7 DEF Alike
<1>. HIDE DEF o
<1>9. ResultPipe(j, child[j], o, "wait", io', work, Replies(j), n)
  <2>. HIDE DEF j, p, n, work
  <2>. QED
    BY <1>5, <1>8, SamePipe DEF Alike
<1>10. failed' = FALSE
  <2>1. ASSUME team = "ConstProcesses" PROVE p.named
    <3>1. JobCount = Size /\ NamedInv
      BY <2>1, ParentFacts DEF ProcInv, ProcessTeam
    <3>2. Slot(j) = j /\ j \in Slots
      BY <1>3, <3>1, OwnSlot DEF Slots
    <3>3. ResultNamed(j)
      BY <1>1, <1>2, <1>3 DEF ResultNamed
    <3>. QED
      BY <2>1, <3>1, <3>2, <3>3 DEF NamedInv
  <2>2. p.named \in BOOLEAN
    BY <1>3 DEF Pipe
  <2>. QED
    BY <1>1, <2>1, <2>2
<1>11. main' = [pc |-> "wait", next |-> main.next, oldest |-> j]
  BY <1>1, <1>3
<1>12. TeamInv' /\ Contesting' /\ main'.oldest = j /\ main'.pc = "wait"
  BY <1>1, <1>3, <1>11, ParentGoes
<1>13. CollectedInv'
  <2>1. PICK k : k = j
    OBVIOUS
  <2>2. Got(k) = "read" /\ Got(k)' = "wait"
    BY <1>4, <1>12, <2>1 DEF Got
  <2>3. ParentRead("read", io, Len(Work(k))) = Len(Work(k))
    BY <1>5, <2>1
  <2>4. ParentRead("wait", io', Len(Work(k))) = Len(Work(k))
    BY DEF ParentRead
  <2>5. ParentRead(Got(k)', io', Len(Work(k))) = ParentRead(Got(k), io, Len(Work(k)))
    BY <2>2, <2>3, <2>4
  <2>6. CollectedInv /\ k = main.oldest /\ main'.oldest = k
    BY <1>12, <2>1 DEF ProcInv
  <2>. QED
    BY <1>1, <1>12, <2>5, <2>6, NothingNew
<1>14. /\ "wait" \in {"read", "wait"}
       /\ ResultPipe(j, child[j], o, "wait", io', Work(j), Replies(j), Len(Work(j)))
       /\ o.named = IF "wait" = "wait" /\ team = "ConstProcesses" THEN FALSE
                    ELSE pipe[Result(Slot(j))].named
  BY <1>8, <1>9
<1>. QED
  BY <1>1, <1>2, <1>3, <1>8, <1>10, <1>11, <1>12, <1>13, <1>14, ResultSteps

\* wait takes a child that has ended: it is that of the oldest job.
LEMMA WaitKeeps ==
  ASSUME TeamInv, ProcInv, team \in ProcessTeam, Wait
  PROVE  TeamInv' /\ ProcInv'
<1>1. PICK j \in Child : /\ child[j].pc = "zombie"
                         /\ child' = [child EXCEPT ![j] = [child[j] EXCEPT !.pc = "reaped"]]
  BY DEF Wait, SetChild
<1>2. /\ main.pc = "wait" /\ main' = [main EXCEPT !.pc = "loop", !.oldest = @ + 1]
      /\ UNCHANGED <<team, share, answers, r, pipe, io, failed>>
      /\ Contesting
  BY DEF Wait, Contesting, ProcessTeam
<1>3. /\ pipe \in [Pipes -> Pipe] /\ child \in [Child -> Kid] /\ failed = FALSE
      /\ WindowInv /\ ChildrenInv /\ FreshInv /\ CollectedInv /\ NamedInv
  BY DEF ProcInv
<1>4. Active(j)
  BY <1>1, LiveKid
<1>5. /\ child[j] \in Kid
      /\ TaskPipe(j, child[j], pipe[Task(Slot(j))], Sent(j), io, Order(Work(j)), Len(Work(j)))
      /\ ResultPipe(j, child[j], pipe[Result(Slot(j))], Got(j), io, Work(j), Replies(j),
                    Len(Work(j)))
  BY <1>4, JobParts
<1>6. Len(Work(j)) \in Nat
  BY <1>3, <1>4, JobFacts
<1>7. Got(j) # "no"
  BY <1>1, <1>5 DEF ResultPipe
<1>8. j = main.oldest /\ Got(j) = "wait"
  BY <1>2, <1>7 DEF Got
<1>9. /\ main.next \in Nat \ {0} /\ j \in Nat \ {0} /\ j < main.next /\ JobCount \in Nat
      /\ main = [pc |-> main.pc, next |-> main.next, oldest |-> j] /\ Size \in Nat
      /\ main.next - j <= Size /\ main.next <= JobCount + 1
  BY <1>2, <1>3, <1>8, ParentFacts DEF WindowInv
<1>10. Sent(j) = "all"
  BY <1>9 DEF Sent
<1>11. Fresh(pipe[Task(Slot(j))]) /\ Fresh(pipe[Result(Slot(j))])
  BY <1>1, <1>5, <1>6, <1>8, <1>10, JobEnds
<1>12. main' = [pc |-> "loop", next |-> main.next, oldest |-> j + 1] /\ j + 1 \in Nat \ {0}
  <2>. DEFINE m == [main EXCEPT !.pc = "loop"]
  <2>1. m = [pc |-> "loop", next |-> main.next, oldest |-> j]
    BY <1>9
  <2>2. main' = [m EXCEPT !.oldest = @ + 1]
    BY <1>2
  <2>. HIDE DEF m
  <2>. QED
    BY <1>9, <2>1, <2>2
<1>13. /\ TeamInv' /\ Contesting' /\ main'.pc = "loop" /\ main'.next = main.next
       /\ main'.oldest = j + 1 /\ JobCount' = JobCount
  BY <1>2, <1>9, <1>12, ParentGoes
<1>14. OthersStay(j)
  <2>1. Elsewhere(j)
    BY <1>1, <1>2, <1>3 DEF Elsewhere
  <2>. QED
    BY <1>2, <1>3, <1>8, <1>9, <1>13, <2>1, CollectingAlone
<1>15. ~Active(j)'
  BY <1>9, <1>13 DEF Active
<1>16. child'[j].pc = "reaped" /\ child' \in [Child -> Kid]
  <2>1. /\ [child[j] EXCEPT !.pc = "reaped"] \in Kid
        /\ [child[j] EXCEPT !.pc = "reaped"].pc = "reaped"
    BY <1>5 DEF Kid
  <2>. QED
    BY <1>1, <1>3, <2>1
<1>17. ChildrenInv' /\ FreshInv'
  BY <1>2, <1>3, <1>11, <1>14, <1>15, <1>16, JobsKeep
<1>18. WindowInv'
  BY <1>9, <1>13 DEF WindowInv
<1>19. CollectedInv'
  <2>1. /\ \A i : Work(i)' = Work(i) /\ Known(i)' = Known(i)
    BY <1>2, SameWork
  <2>2. /\ \A i : ParentRead(Got(i)', io', Len(Work(i))) = 0
        /\ ParentRead("wait", io, Len(Work(j))) = Len(Work(j))
    BY <1>13 DEF Got, ParentRead
  <2>3. JobCount \in Nat /\ TaskCount \in Nat
    BY ContestFacts
  <2>4. ASSUME NEW i \in 1..JobCount, NEW k \in 1..Len(Work(i)),
               i < j + 1 \/ (i = j + 1 /\ k <= 0)
        PROVE  Known(Work(i)[k])
    <3>1. Work(i) \in Seq(Nat) /\ k \in Nat /\ k > 0 /\ k <= Len(Work(i))
      BY <2>3, WorkRight
    <3>2. i < j \/ i = j
      BY <1>9, <2>3, <2>4, <3>1
    <3>3. i = j => k <= ParentRead(Got(i), io, Len(Work(i)))
      BY <1>8, <2>2, <3>1
    <3>. QED
      BY <1>2, <1>3, <1>8, <3>2, <3>3 DEF CollectedInv
  <2>. QED
    BY <1>13, <2>1, <2>2, <2>4 DEF CollectedInv
<1>20. NamedInv'
  <2>1. \A s \in Slots : Task(s)' = Task(s) /\ Result(s)' = Result(s)
    BY DEF Task, Result
  <2>2. ASSUME NEW s \in Slots PROVE ResultNamed(s)' <=> ResultNamed(s)
    BY <1>2, <1>8, <1>9, <1>13 DEF ResultNamed, Slots
  <2>3. ASSUME team = "ConstProcesses", NEW s \in Slots PROVE ~pipe[Task(s)].named
    BY <1>2, <1>3, <2>3 DEF NamedInv
  <2>4. ASSUME team = "ConstProcesses", NEW s \in Slots
        PROVE  pipe[Result(s)].named <=> ResultNamed(s)'
    BY <1>3, <2>2, <2>3, <2>4 DEF NamedInv
  <2>. QED
    BY <1>2, <1>3, <1>13, <2>1, <2>3, <2>4 DEF NamedInv
<1>. QED
  BY <1>2, <1>3, <1>13, <1>16, <1>17, <1>18, <1>19, <1>20 DEF ProcInv

-----------------------------------------------------------------------------
(* The pipes of a team are made, and unlinked.                             *)

\* A step that makes or unlinks pipes nobody uses.
LEMMA PipeSteps ==
  ASSUME TeamInv, ProcInv, team \in ProcessTeam, UNCHANGED <<teamVars, child, io, failed>>,
         NEW s \in Slots, NEW o \in Pipe, NEW v \in Pipe,
         Alike(o, pipe[Task(s)]), Alike(v, pipe[Result(s)]),
         pipe' = [pipe EXCEPT ![Task(s)] = o, ![Result(s)] = v], NamedInv'
  PROVE  TeamInv' /\ ProcInv'
<1>1. /\ pipe \in [Pipes -> Pipe] /\ child \in [Child -> Kid] /\ failed = FALSE
      /\ WindowInv /\ ChildrenInv /\ FreshInv /\ CollectedInv /\ NamedInv
  BY DEF ProcInv
<1>2. Task(s) \in Pipes /\ Result(s) \in Pipes /\ Task(s) # Result(s)
  BY PipesDiffer
<1>3. /\ pipe' \in [Pipes -> Pipe]
      /\ \A f \in Pipes : pipe'[f] = IF f = Task(s) THEN o ELSE IF f = Result(s) THEN v ELSE pipe[f]
  BY <1>1, <1>2
<1>4. \A f \in Pipes : Alike(pipe'[f], pipe[f])
  BY <1>3 DEF Alike
<1>5. UNCHANGED <<team, share, answers, main, r, io>>
  BY DEF teamVars
<1>6. /\ TeamInv' /\ WindowInv' /\ CollectedInv'
      /\ \A i : Active(i)' = Active(i) /\ Sent(i)' = Sent(i) /\ Got(i)' = Got(i)
  BY <1>1, ParentRests
<1>7. ASSUME NEW j \in Child PROVE IF Active(j) THEN JobInv(j)' ELSE child'[j].pc \in {"none", "reaped"}
  <2>1. CASE Active(j)
    <3>1. Task(Slot(j)) \in Pipes /\ Result(Slot(j)) \in Pipes /\ JobInv(j)
      BY <1>1, <2>1, JobParts DEF ChildrenInv
    <3>. QED
      BY <1>4, <1>5, <1>6, <2>1, <3>1, OtherJob
  <2>2. CASE ~Active(j)
    BY <1>1, <2>2 DEF ChildrenInv
  <2>. QED
    BY <2>1, <2>2
<1>8. ChildrenInv'
  BY <1>6, <1>7 DEF ChildrenInv
<1>9. FreshInv'
  <2>1. \A j : Slot(j)' = Slot(j)
    BY DEF Slot
  <2>2. \A t : Task(t)' = Task(t) /\ Result(t)' = Result(t)
    BY DEF Task, Result
  <2>3. \A t \in Slots : Fresh(pipe[Task(t)]) /\ Fresh(pipe[Result(t)])
                           => Fresh(pipe'[Task(t)]) /\ Fresh(pipe'[Result(t)])
    BY <1>4, PipesDiffer DEF Fresh, Alike
  <2>. QED
    BY <1>1, <1>6, <2>1, <2>2, <2>3 DEF FreshInv
<1>. QED
  BY <1>1, <1>3, <1>6, <1>8, <1>9 DEF ProcInv

\* A pipe as mkfifo makes it.
LEMMA MkfifoIs == mkfifo \in Pipe /\ mkfifo.named = TRUE /\ Fresh(mkfifo)
<1>1. <<>> \in Seq(Messages)
  OBVIOUS
<1>. QED
  BY <1>1 DEF mkfifo, NoPipe, Pipe, Fresh

\* The parent makes the pipes of a slot, which nobody uses.
LEMMA MakesPipesKeeps ==
  ASSUME TeamInv, ProcInv, team \in ProcessTeam, NewMakesPipes \/ ConstMakesPipes
  PROVE  TeamInv' /\ ProcInv'
<1>1. PICK s : /\ s \in Nat /\ MakePipes(s) /\ main.pc = "loop"
               /\ \/ team = "NewProcesses" /\ main.next = 1 /\ s \in Slots
                  \/ team = "ConstProcesses" /\ ~AllStarted /\ s = main.next
  BY ParentFacts DEF NewMakesPipes, ConstMakesPipes, Runs, Slots
<1>2. /\ ~pipe[Task(s)].named /\ ~pipe[Result(s)].named
      /\ pipe' = [pipe EXCEPT ![Task(s)] = mkfifo, ![Result(s)] = mkfifo]
      /\ UNCHANGED <<teamVars, child, io, failed>>
  BY <1>1 DEF MakePipes
<1>3. /\ pipe \in [Pipes -> Pipe] /\ WindowInv /\ ChildrenInv /\ FreshInv /\ NamedInv
  BY DEF ProcInv
<1>4. /\ main.next \in Nat \ {0} /\ main.oldest \in Nat \ {0} /\ Size \in Nat \ {0}
      /\ Contesting /\ JobCount \in Nat /\ (team = "ConstProcesses" => JobCount = Size)
      /\ main.oldest <= main.next
  BY <1>1, <1>3, ParentFacts DEF WindowInv
<1>5. s \in Slots /\ \A j \in Child : Active(j) => Slot(j) # s
  <2>1. CASE team = "NewProcesses"
    <3>1. \A j \in Child : ~Active(j)
      BY <1>1, <1>4, <2>1, WorkersAssumption DEF Active
    <3>. QED
      BY <1>1, <2>1, <3>1
  <2>2. CASE team = "ConstProcesses"
    <3>1. s \in 1..Size
      BY <1>1, <1>4, <2>2 DEF AllStarted
    <3>2. ASSUME NEW j \in Child, Active(j) PROVE Slot(j) # s
      <4>1. j \in 1..Size /\ j < main.next
        BY <1>1, <1>4, <2>2, <3>1, <3>2, WorkersAssumption DEF Active
      <4>. QED
        BY <1>1, <1>4, <2>2, <4>1, OwnSlot
    <3>. QED
      BY <3>1, <3>2 DEF Slots
  <2>. QED
    BY <2>1, <2>2 DEF ProcessTeam
<1>6. Fresh(pipe[Task(s)]) /\ Fresh(pipe[Result(s)])
  BY <1>3, <1>5 DEF FreshInv
<1>7. Alike(mkfifo, pipe[Task(s)]) /\ Alike(mkfifo, pipe[Result(s)])
  BY <1>6, MkfifoIs DEF Alike, Fresh
<1>8. NamedInv'
  <2>1. /\ \A t \in Slots : Task(t)' = Task(t) /\ Result(t)' = Result(t)
        /\ \A t : ResultNamed(t)' = ResultNamed(t)
        /\ UNCHANGED <<team, main>> /\ Contesting'
    BY <1>1, <1>2, <1>4 DEF Task, Result, ResultNamed, teamVars, Contesting
  <2>2. ASSUME NEW t \in Slots
        PROVE  /\ t # s => /\ pipe'[Task(t)] = pipe[Task(t)]
                           /\ pipe'[Result(t)] = pipe[Result(t)]
               /\ t = s => pipe'[Task(t)].named = TRUE /\ pipe'[Result(t)].named = TRUE
    <3>1. /\ Task(s) \in Pipes /\ Result(s) \in Pipes /\ Task(s) # Result(s)
          /\ Task(t) # Result(s) /\ Result(t) # Task(s)
          /\ Task(t) \in Pipes /\ Result(t) \in Pipes
          /\ t # s => Task(t) # Task(s) /\ Result(t) # Result(s)
      BY <1>5, PipesDiffer
    <3>2. \A f \in Pipes : pipe'[f] = IF f \in {Task(s), Result(s)} THEN mkfifo ELSE pipe[f]
      BY <1>2, <1>3, <3>1
    <3>. QED
      BY <3>1, <3>2, MkfifoIs
  <2>3. CASE team = "NewProcesses"
    <3>1. ASSUME NEW t \in Slots PROVE pipe'[Task(t)].named = pipe'[Result(t)].named
      <4>1. pipe[Task(t)].named = pipe[Result(t)].named
        BY <1>3, <2>3 DEF NamedInv
      <4>2. t = s \/ t # s
        OBVIOUS
      <4>. QED
        BY <2>2, <4>1, <4>2
    <3>. QED
      BY <2>1, <2>3, <3>1 DEF NamedInv
  <2>4. CASE team = "ConstProcesses"
    BY <1>1, <1>3, <2>1, <2>2, <2>4 DEF NamedInv
  <2>. QED
    BY <2>3, <2>4 DEF ProcessTeam
<1>. QED
  BY <1>2, <1>5, <1>7, <1>8, MkfifoIs, PipeSteps

\* TeamNewProcesses unlinks the pipes of a slot in the end.
LEMMA UnlinkPipesKeeps ==
  ASSUME TeamInv, ProcInv, team \in ProcessTeam, UnlinkPipes
  PROVE  TeamInv' /\ ProcInv'
<1>1. PICK s \in Slots :
        pipe' = [pipe EXCEPT ![Task(s)] = unlink(pipe[Task(s)]), ![Result(s)] = unlink(pipe[Result(s)])]
  <2>1. PICK s \in Slots :
          pipe' = [pipe EXCEPT ![Task(s)] = unlink(@), ![Result(s)] = unlink(@)]
    BY DEF UnlinkPipes
  <2>2. Task(s) # Result(s)
    BY PipesDiffer
  <2>. QED
    BY <2>1, <2>2
<1>2. /\ team = "NewProcesses" /\ main.pc = "loop" /\ UNCHANGED <<teamVars, child, io, failed>>
  BY DEF UnlinkPipes, Runs
<1>3. /\ pipe \in [Pipes -> Pipe] /\ NamedInv /\ Contesting
  BY <1>2 DEF ProcInv, Contesting
<1>4. Task(s) \in Pipes /\ Result(s) \in Pipes /\ Task(s) # Result(s)
  BY PipesDiffer
<1>5. /\ unlink(pipe[Task(s)]) \in Pipe /\ unlink(pipe[Task(s)]).named = FALSE
      /\ Alike(unlink(pipe[Task(s)]), pipe[Task(s)])
      /\ unlink(pipe[Result(s)]) \in Pipe /\ unlink(pipe[Result(s)]).named = FALSE
      /\ Alike(unlink(pipe[Result(s)]), pipe[Result(s)])
  BY <1>3, <1>4, UnlinkIs DEF Alike
<1>6. NamedInv'
  <2>1. /\ \A t \in Slots : Task(t)' = Task(t) /\ Result(t)' = Result(t)
        /\ UNCHANGED <<team, main>> /\ Contesting'
    BY <1>2, <1>3 DEF Task, Result, teamVars, Contesting
  <2>2. ASSUME NEW t \in Slots PROVE pipe'[Task(t)].named = pipe'[Result(t)].named
    <3>1. /\ Task(t) # Result(s) /\ Result(t) # Task(s)
          /\ Task(t) \in Pipes /\ Result(t) \in Pipes
          /\ t # s => Task(t) # Task(s) /\ Result(t) # Result(s)
      BY PipesDiffer
    <3>2. \A f \in Pipes : pipe'[f] = IF f = Task(s) THEN unlink(pipe[Task(s)])
                                       ELSE IF f = Result(s) THEN unlink(pipe[Result(s)]) ELSE pipe[f]
      BY <1>1, <1>3, <1>4
    <3>3. pipe[Task(t)].named = pipe[Result(t)].named
      BY <1>2, <1>3 DEF NamedInv
    <3>. QED
      BY <1>4, <1>5, <3>1, <3>2, <3>3
  <2>. QED
    BY <1>2, <2>1, <2>2 DEF NamedInv
<1>. QED
  BY <1>1, <1>2, <1>5, <1>6, PipeSteps

-----------------------------------------------------------------------------
(* A contest of a process team begins and returns.                         *)

\* Between two contests, and before the first job, no job has a child.
LEMMA NobodyActive ==
  ASSUME TeamInv, ProcInv, team \in ProcessTeam, main.oldest = main.next,
         main.pc \in {"idle", "loop"}
  PROVE  /\ \A j \in Child : ~Active(j) /\ child[j].pc \in {"none", "reaped"}
         /\ \A s \in Slots : Fresh(pipe[Task(s)]) /\ Fresh(pipe[Result(s)])
<1>1. main.next \in Nat /\ \A j \in Child : j \in Nat
  BY ParentFacts, WorkersAssumption
<1>2. \A j \in Child : ~Active(j)
  BY <1>1 DEF Active
<1>. QED
  BY <1>2 DEF ProcInv, ChildrenInv, FreshInv

\* Every pipe is the task or the result pipe of a slot.
LEMMA PipeOfSlot == \A f \in Pipes : \E s \in Slots : f = Task(s) \/ f = Result(s)
<1>. TAKE f \in Pipes
<1>1. PICK k \in {"task", "result"}, s \in Slots : f = <<k, s>>
  BY DEF Pipes
<1>. QED
  BY <1>1 DEF Task, Result

\* runContest of a team of processes begins.
LEMMA BeginProcessesKeeps ==
  ASSUME TeamInv, ProcInv, team \in ProcessTeam, BeginProcesses
  PROVE  TeamInv' /\ ProcInv'
<1>1. /\ main.pc = "idle" /\ ~Contesting /\ runContest /\ UNCHANGED <<team, share, answers>>
      /\ child' = [j \in Child |-> NoChild] /\ UNCHANGED <<pipe, io, failed>>
  BY DEF BeginProcesses, Contesting, runContest
<1>2. /\ TeamInv' /\ Contesting' /\ main'.pc = "loop" /\ main'.next = 1 /\ main'.oldest = 1
      /\ JobCount' = JobCount /\ JobCount \in Nat
  BY <1>1, ContestBegins
<1>3. /\ pipe \in [Pipes -> Pipe] /\ failed = FALSE /\ WindowInv /\ NamedInv
  BY DEF ProcInv
<1>4. main.oldest = main.next /\ Size \in Nat \ {0} /\ \A j \in Child : j \in Nat \ {0}
  BY <1>1, <1>3, TeamAssumption, WorkersAssumption DEF WindowInv
<1>5. \A s \in Slots : Fresh(pipe[Task(s)]) /\ Fresh(pipe[Result(s)])
  BY <1>1, <1>4, NobodyActive
<1>6. WindowInv'
  BY <1>2, <1>4 DEF WindowInv
<1>7. \A j \in Child : ~Active(j)'
  BY <1>2, <1>4 DEF Active
<1>8. child' \in [Child -> Kid] /\ \A j \in Child : child'[j].pc = "none"
  BY <1>1 DEF NoChild, Kid
<1>9. ChildrenInv'
  BY <1>7, <1>8 DEF ChildrenInv
<1>10. \A s \in Slots : /\ Task(s)' = Task(s) /\ Result(s)' = Result(s)
                        /\ Task(s) \in Pipes /\ Result(s) \in Pipes
  BY PipesDiffer DEF Task, Result
<1>11. FreshInv'
  BY <1>1, <1>5, <1>10 DEF FreshInv
<1>12. CollectedInv'
  <2>1. \A j : ParentRead(Got(j)', io', Len(Work(j)')) = 0
    BY <1>2 DEF Got, ParentRead
  <2>2. ASSUME NEW j \in 1..JobCount PROVE Work(j) \in Seq(Nat) /\ ~(j < 1)
    BY <1>2, ContestFacts, WorkRight
  <2>3. \A j : Work(j)' = Work(j)
    BY <1>1, SameWork
  <2>4. ASSUME NEW j \in 1..JobCount, NEW k \in 1..Len(Work(j)),
               j < 1 \/ (j = 1 /\ k <= 0)
        PROVE  FALSE
    BY <2>2, <2>4
  <2>. QED
    BY <1>2, <2>1, <2>3, <2>4 DEF CollectedInv
<1>13. NamedInv'
  <2>1. \A s \in Slots : ~ResultNamed(s)'
    BY <1>2, <1>4 DEF ResultNamed, Slots
  <2>2. \A f \in Pipes : pipe'[f].named = FALSE
    <3>1. \A f \in Pipes : pipe[f].named \in BOOLEAN /\ ~pipe[f].named
      BY <1>1, <1>3 DEF NamedInv, Pipe
    <3>. QED
      BY <1>1, <3>1
  <2>3. \A s \in Slots : pipe'[Task(s)'].named = FALSE /\ pipe'[Result(s)'].named = FALSE
    BY <1>10, <2>2
  <2>. QED
    BY <1>2, <2>1, <2>3 DEF NamedInv
<1>. QED
  BY <1>1, <1>2, <1>3, <1>6, <1>8, <1>9, <1>11, <1>12, <1>13 DEF ProcInv

\* It returns, with every result known and every child waited for.
LEMMA ReturnFromProcessesKeeps ==
  ASSUME TeamInv, ProcInv, team \in ProcessTeam, ReturnFromProcesses
  PROVE  TeamInv' /\ ProcInv' /\ TheContest!runContest
<1>1. /\ main.pc = "loop" /\ AllCollected /\ Return /\ Contesting
      /\ team = "NewProcesses" => \A s \in Slots : ~pipe[Task(s)].named
      /\ UNCHANGED <<team, pipe, child, io, failed>>
  BY DEF ReturnFromProcesses, Return, processVars, Contesting, ProcessTeam
<1>2. /\ pipe \in [Pipes -> Pipe] /\ child \in [Child -> Kid] /\ failed = FALSE
      /\ WindowInv /\ CollectedInv /\ NamedInv
  BY DEF ProcInv
<1>3. /\ main.oldest = main.next /\ main.next > JobCount /\ main.next \in Nat \ {0}
      /\ JobCount \in Nat /\ TaskCount \in Nat /\ Size \in Nat \ {0}
      /\ team = "ConstProcesses" => JobCount = Size
  BY <1>1, ParentFacts DEF AllCollected, AllStarted
<1>4. /\ \A j \in Child : ~Active(j) /\ child[j].pc \in {"none", "reaped"}
      /\ \A s \in Slots : Fresh(pipe[Task(s)]) /\ Fresh(pipe[Result(s)])
  BY <1>1, <1>3, NobodyActive
<1>5. \A i \in 1..TaskCount : Known(i)
  <2>1. ASSUME NEW i \in 1..TaskCount PROVE Known(i)
    <3>1. PICK j \in 1..JobCount : \E k \in 1..Len(Work(j)) : Work(j)[k] = i
      BY <1>3, WorkRight
    <3>2. PICK k \in 1..Len(Work(j)) : Work(j)[k] = i
      BY <3>1
    <3>3. j < main.oldest
      BY <1>3, <3>1
    <3>4. Known(Work(j)[k])
      BY <1>1, <1>2, <3>3 DEF CollectedInv
    <3>. QED
      BY <3>2, <3>4
  <2>. QED
    BY <2>1
<1>6. /\ TeamInv' /\ ~Contesting' /\ main'.pc = "idle" /\ TheContest!runContest
      /\ main'.next = main.next /\ main'.oldest = main.oldest
  BY <1>1, <1>5, ContestReturns
<1>7. WindowInv'
  BY <1>3, <1>6 DEF WindowInv
<1>8. \A j \in Child : ~Active(j)'
  BY <1>4, <1>6 DEF Active
<1>9. ChildrenInv'
  BY <1>1, <1>4, <1>8 DEF ChildrenInv
<1>10. \A s \in Slots : /\ Task(s)' = Task(s) /\ Result(s)' = Result(s)
                        /\ Task(s) \in Pipes /\ Result(s) \in Pipes
  BY PipesDiffer DEF Task, Result
<1>11. FreshInv'
  BY <1>1, <1>4, <1>10 DEF FreshInv
<1>12. CollectedInv'
  BY <1>6 DEF CollectedInv
<1>13. NamedInv'
  <2>1. \A s \in Slots : ~ResultNamed(s) /\ ~ResultNamed(s)'
    BY <1>3, <1>6 DEF ResultNamed, Slots
  <2>2. ASSUME NEW s \in Slots PROVE pipe[Task(s)].named = FALSE /\ pipe[Result(s)].named = FALSE
    <3>1. pipe[Task(s)].named \in BOOLEAN /\ pipe[Result(s)].named \in BOOLEAN
      BY <1>2, <1>10 DEF Pipe
    <3>2. ~pipe[Task(s)].named
      <4>1. CASE team = "NewProcesses"
        BY <1>1, <4>1
      <4>2. CASE team = "ConstProcesses"
        <5>1. s < main.next
          BY <1>3, <4>2 DEF Slots
        <5>. QED
          BY <1>2, <1>3, <4>2, <5>1 DEF NamedInv, Slots
      <4>. QED
        BY <4>1, <4>2 DEF ProcessTeam
    <3>3. CASE team = "NewProcesses"
      BY <1>2, <3>1, <3>2, <3>3 DEF NamedInv
    <3>4. CASE team = "ConstProcesses"
      BY <1>2, <2>1, <3>1, <3>2, <3>4 DEF NamedInv
    <3>. QED
      BY <3>3, <3>4 DEF ProcessTeam
  <2>3. \A f \in Pipes : ~pipe[f].named
    BY <2>2, PipeOfSlot
  <2>4. \A s \in Slots : pipe'[Task(s)'].named = FALSE /\ pipe'[Result(s)'].named = FALSE
    BY <1>1, <1>10, <2>2
  <2>5. \A f \in Pipes : ~pipe'[f].named
    BY <1>1, <2>3
  <2>. QED
    BY <1>1, <1>6, <2>1, <2>4, <2>5 DEF NamedInv
<1>. QED
  BY <1>1, <1>2, <1>6, <1>7, <1>9, <1>11, <1>12, <1>13 DEF ProcInv

\* Every step of a team of processes keeps the invariant, and answers a
\* contest as TeamSolo does or none.
LEMMA ProcessStep ==
  ASSUME TeamInv, ProcInv, team \in ProcessTeam, ProcessNext
  PROVE  /\ TeamInv' /\ ProcInv' /\ team' = team
         /\ answers' = answers \/ TheContest!runContest
<1>1. CASE ReturnFromProcesses
  BY <1>1, ReturnFromProcessesKeeps DEF ReturnFromProcesses, Return
<1>2. CASE ProcessMain /\ ~ReturnFromProcesses
  <2>1. answers' = answers /\ team' = team
    BY <1>2 DEF ProcessMain, BeginProcesses, runContest, NewMakesPipes, ConstMakesPipes, MakePipes,
                Fork, OpenTask, WriteTask, CloseTask, OpenResult, ReadResult, CloseResult, Wait,
                UnlinkPipes, teamVars
  <2>2. TeamInv' /\ ProcInv'
    BY <1>2, BeginProcessesKeeps, MakesPipesKeeps, ForkKeeps, OpenTaskKeeps, WriteTaskKeeps,
       CloseTaskKeeps, OpenResultKeeps, ReadResultKeeps, CloseResultKeeps, WaitKeeps,
       UnlinkPipesKeeps DEF ProcessMain
  <2>. QED
    BY <2>1, <2>2
<1>3. ASSUME NEW j \in Child, NewProcess(j)
      PROVE  TeamInv' /\ ProcInv' /\ answers' = answers /\ team' = team
  <2>1. UNCHANGED <<teamVars, io>> /\ answers' = answers /\ team' = team
    BY <1>3 DEF NewProcess, teamVars
  <2>2. TeamInv' /\ ProcInv'
    BY <1>3, <2>1, ChildOpensTaskKeeps, ChildReadsKeeps, ChildComputesKeeps,
       ChildOpensResultKeeps, ChildWritesKeeps, ChildExitsKeeps DEF NewProcess
  <2>. QED
    BY <2>1, <2>2
<1>. QED
  BY <1>1, <1>2, <1>3 DEF ProcessNext

-----------------------------------------------------------------------------
(* The invariant holds.                                                    *)

\* The constructors: the threads of a pool run, and no others.
LEMMA InitThreads ==
  ASSUME Init, team \in ThreadTeam
  PROVE  ThreadInv
<1>1. /\ future = <<>> /\ tasks_ = <<>> /\ ~Contesting
      /\ \A t \in Thread : call[t] = Idle
      /\ thread = [t \in Thread |->
                     IF team = "Pool" /\ t \in 1..Size THEN [NewThread EXCEPT !.pc = "run"]
                     ELSE NewThread]
  BY DEF Init, TeamInit, ThreadInit, PoolInit, SharedInit, Contesting
<1>2. ASSUME NEW t \in Thread
      PROVE  /\ thread[t] \in Threads /\ thread[t].tasks = <<>> /\ call[t].pc = "idle"
             /\ ~(team = "Pool" /\ t \in 1..Size) => thread[t].pc = "none"
  <2>1. <<>> \in Seq(Nat)
    OBVIOUS
  <2>2. NewThread \in Threads /\ NewThread.tasks = <<>> /\ NewThread.pc = "none"
    BY <2>1 DEF NewThread, Threads
  <2>3. /\ [NewThread EXCEPT !.pc = "run"] \in Threads
        /\ [NewThread EXCEPT !.pc = "run"].tasks = <<>>
    BY <2>1 DEF NewThread, Threads
  <2>4. call[t].pc = "idle"
    BY <1>1 DEF Idle
  <2>5. thread[t] = IF team = "Pool" /\ t \in 1..Size THEN [NewThread EXCEPT !.pc = "run"]
                    ELSE NewThread
    BY <1>1
  <2>. QED
    BY <2>2, <2>3, <2>4, <2>5
<1>3. thread \in [Thread -> Threads]
  BY <1>1, <1>2
<1>4. TasksInv
  <2>1. \A t \in Thread : Len(thread[t].tasks) = 0
    BY <1>2
  <2>2. \A t \in Thread : \A k \in 1..Len(thread[t].tasks) : FALSE
    BY <2>1
  <2>. QED
    BY <1>2, <1>3, <2>2 DEF TasksInv
<1>5. FutureInv
  BY <1>1 DEF FutureInv
<1>6. ASSUME team = "Pool" PROVE PoolInv
  <2>1. \A t \in Thread : Len(thread[t].tasks) <= 1
    BY <1>2
  <2>2. tasks_ \in Seq(Nat)
    BY <1>1
  <2>. QED
    BY <1>1, <1>2, <2>1, <2>2 DEF PoolInv, PoolTypes
<1>7. ASSUME team # "Pool" PROVE StartedInv
  BY <1>1, <1>2, <1>7 DEF StartedInv
<1>. QED
  BY <1>4, <1>5, <1>6, <1>7 DEF ThreadInv

\* A team of processes has no child and no pipe at first.
LEMMA InitProcesses ==
  ASSUME Init, team \in ProcessTeam
  PROVE  ProcInv
<1>1. /\ pipe = [f \in Pipes |-> NoPipe] /\ child = [j \in Child |-> NoChild] /\ failed = FALSE
      /\ main = [pc |-> "idle", next |-> 1, oldest |-> 1] /\ ~Contesting
  BY DEF Init, TeamInit, ProcessInit, Contesting
<1>2. \A j \in Child : j \in Nat \ {0}
  BY WorkersAssumption
<1>3. /\ NoPipe \in Pipe /\ Fresh(NoPipe) /\ NoPipe.named = FALSE
      /\ NoChild \in Kid /\ NoChild.pc = "none"
  <2>1. <<>> \in Seq(Messages) /\ <<>> \in Seq(Nat)
    OBVIOUS
  <2>. QED
    BY <2>1 DEF NoPipe, Pipe, Fresh, NoChild, Kid
<1>4. /\ pipe \in [Pipes -> Pipe] /\ child \in [Child -> Kid]
      /\ \A f \in Pipes : Fresh(pipe[f]) /\ pipe[f].named = FALSE
      /\ \A j \in Child : child[j].pc = "none"
  BY <1>1, <1>3
<1>5. \A j \in Child : ~Active(j)
  BY <1>1, <1>2 DEF Active
<1>6. \A s \in Slots : Task(s) \in Pipes /\ Result(s) \in Pipes /\ s \in Nat \ {0}
  BY PipesDiffer, TeamAssumption DEF Slots
<1>7. WindowInv
  BY <1>1 DEF WindowInv
<1>8. NamedInv
  <2>1. \A s \in Slots : ~ResultNamed(s)
    BY <1>1, <1>6 DEF ResultNamed
  <2>2. \A s \in Slots : pipe[Task(s)].named = FALSE /\ pipe[Result(s)].named = FALSE
    BY <1>4, <1>6
  <2>. QED
    BY <1>1, <1>4, <2>1, <2>2 DEF NamedInv
<1>. QED
  BY <1>1, <1>4, <1>5, <1>6, <1>7, <1>8 DEF ProcInv, ChildrenInv, FreshInv, CollectedInv

\* The invariant holds when main has made its team.
LEMMA InitTeams == Init => TeamsInv
<1>. SUFFICES ASSUME Init PROVE TeamsInv
  OBVIOUS
<1>1. /\ team \in TeamKind /\ share \in BOOLEAN /\ answers = <<>> /\ r = <<>>
      /\ main = [pc |-> "idle", next |-> 1, oldest |-> 1]
      /\ pipe = [f \in Pipes |-> NoPipe] /\ SharedInit
  BY DEF Init, TeamInit, ThreadInit, ProcessInit
<1>2. TeamInv
  <2>1. ~Contesting /\ "idle" \in MainPlaces
    BY <1>1 DEF Contesting, MainPlaces
  <2>2. Len(Inputs) \in Nat
    BY InputsAssumption
  <2>. QED
    BY <1>1, <2>1, <2>2 DEF TeamInv
<1>3. SharedInv
  BY <1>1, InitRight
<1>. QED
  BY <1>1, <1>2, <1>3, InitThreads, InitProcesses DEF TeamsInv

\* Steps that leave all variables alone.
LEMMA StutterThreads ==
  ASSUME TeamInv, ThreadInv, UNCHANGED <<team, share, answers, main, r, future, thread, call, tasks_>>
  PROVE  ThreadInv'
<1>1. /\ Contesting' = Contesting /\ AllStarted' = AllStarted /\ LastPushed' = LastPushed
      /\ contestInput' = contestInput /\ TaskCount' = TaskCount /\ JobCount' = JobCount
      /\ FirstUnjoined' = FirstUnjoined
  BY DEF Contesting, AllStarted, LastPushed, contestInput, TaskCount, JobCount, FirstUnjoined
<1>2. \A i : Known(i)' = Known(i) /\ Open(i)' = Open(i)
  BY <1>1 DEF Known, Open
<1>3. TasksInv' = TasksInv /\ FutureInv' = FutureInv
  BY <1>1, <1>2 DEF TasksInv, FutureInv
<1>4. StartedInv' = StartedInv
  BY <1>1 DEF StartedInv
<1>5. PoolInv' = PoolInv
  BY <1>1, <1>2 DEF PoolInv, PoolTypes, OrderInv, QueueInv, HeldInv
<1>. QED
  BY <1>3, <1>4, <1>5 DEF ThreadInv

\* Likewise for the processes.
LEMMA StutterProcesses ==
  ASSUME TeamInv, ProcInv, UNCHANGED <<team, share, answers, main, r, pipe, child, io, failed>>
  PROVE  ProcInv'
<1>1. /\ WindowInv' /\ CollectedInv' /\ Contesting' = Contesting
      /\ \A i : Active(i)' = Active(i) /\ Sent(i)' = Sent(i) /\ Got(i)' = Got(i)
  BY ParentRests DEF teamVars, ProcInv
<1>2. \A s : Task(s)' = Task(s) /\ Result(s)' = Result(s) /\ Slot(s)' = Slot(s)
  BY DEF Task, Result, Slot
<1>3. NamedInv' /\ FreshInv'
  <2>1. NamedInv'
    BY <1>1, NamesStay DEF ProcInv
  <2>2. FreshInv'
    BY <1>1, <1>2 DEF ProcInv, FreshInv
  <2>. QED
    BY <2>1, <2>2
<1>4. ChildrenInv'
  <2>1. ASSUME NEW j \in Child, Active(j) PROVE JobInv(j)'
    <3>1. JobInv(j)
      BY <2>1 DEF ProcInv, ChildrenInv
    <3>. QED
      BY <1>1, <3>1, OtherJob DEF Alike
  <2>2. ASSUME NEW j \in Child, ~Active(j) PROVE child[j].pc \in {"none", "reaped"}
    BY <2>2 DEF ProcInv, ChildrenInv
  <2>. QED
    BY <1>1, <2>1, <2>2 DEF ChildrenInv
<1>. QED
  BY <1>1, <1>3, <1>4 DEF ProcInv

\* Every step keeps the invariant, and answers a contest as TeamSolo does or
\* none.
LEMMA TeamsStep ==
  ASSUME TeamsInv, [Next]_vars
  PROVE  TeamsInv' /\ (answers' = answers \/ TheContest!runContest)
<1>1. TeamInv /\ SharedInv
  BY DEF TeamsInv
<1>2. CASE ThreadsRun
  <2>1. team \in ThreadTeam /\ ThreadNext /\ UNCHANGED pipe
    BY <1>2 DEF ThreadsRun, processVars
  <2>2. ThreadInv /\ pipe = [f \in Pipes |-> NoPipe] /\ team \notin ProcessTeam
    BY <2>1 DEF TeamsInv, ThreadTeam, ProcessTeam
  <2>3. /\ TeamInv' /\ SharedInv' /\ ThreadInv' /\ team' = team
        /\ answers' = answers \/ TheContest!runContest
    BY <1>1, <2>1, <2>2, ThreadStep
  <2>. QED
    BY <2>1, <2>2, <2>3 DEF TeamsInv
<1>3. CASE ProcessesRun
  <2>1. team \in ProcessTeam /\ ProcessNext /\ UNCHANGED <<results, call>>
    BY <1>3 DEF ProcessesRun, sharedVars
  <2>2. ProcInv /\ team \notin ThreadTeam
    BY <2>1 DEF TeamsInv, ThreadTeam, ProcessTeam
  <2>3. /\ TeamInv' /\ ProcInv' /\ team' = team
        /\ answers' = answers \/ TheContest!runContest
    BY <1>1, <2>1, <2>2, ProcessStep
  <2>4. SharedInv'
    BY <1>1, <2>1 DEF SharedInv
  <2>. QED
    BY <2>2, <2>3, <2>4 DEF TeamsInv
<1>4. CASE UNCHANGED vars
  <2>1. UNCHANGED <<team, share, answers, main, r, future, thread, results, call, tasks_,
                    pipe, child, io, failed>>
    BY <1>4 DEF vars, teamVars, threadVars, sharedVars, poolVars, processVars
  <2>2. UNCHANGED <<teamVars, io>>
    BY <2>1 DEF teamVars
  <2>3. TeamInv'
    BY <1>1, <2>2, ParentRests
  <2>4. SharedInv'
    BY <1>1, <2>1 DEF SharedInv
  <2>5. ASSUME team \in ThreadTeam PROVE ThreadInv'
    BY <2>1, <2>5, StutterThreads DEF TeamsInv
  <2>6. ASSUME team \in ProcessTeam PROVE ProcInv'
    BY <2>1, <2>6, StutterProcesses DEF TeamsInv
  <2>. QED
    BY <2>1, <2>3, <2>4, <2>5, <2>6 DEF TeamsInv
<1>. QED
  BY <1>2, <1>3, <1>4 DEF Next

\* In every reachable state of a program with any kind of team, any size of
\* it and any contests, the main thread, the workers, the queue, the pipes
\* and the results fit together as TeamsInv says.
THEOREM TeamsInvariance == Spec => []TeamsInv
<1>1. TeamsInv /\ [Next]_vars => TeamsInv'
  BY TeamsStep
<1>. QED
  BY <1>1, InitTeams, PTL DEF Spec

-----------------------------------------------------------------------------
(* The properties of the teams.                                            *)

\* A window of at most Size numbers has at most Size members.
LEMMA WindowSize ==
  ASSUME NEW a \in Int, NEW b \in Int, b - a < Size, NEW S \in SUBSET (a..b)
  PROVE  Cardinality(S) <= Size
<1>1. IsFiniteSet(a..b) /\ Cardinality(a..b) = IF a > b THEN 0 ELSE b - a + 1
  BY FS_Interval
<1>2. /\ IsFiniteSet(S) /\ Cardinality(S) <= Cardinality(a..b)
      /\ Cardinality(S) \in Nat /\ Cardinality(a..b) \in Nat
  BY <1>1, FS_Subset, FS_CardinalityType
<1>3. Cardinality(a..b) <= Size
  BY <1>1, TeamAssumption
<1>. QED
  BY <1>2, <1>3, TeamAssumption

\* The threads that live are numbered within a window of Size numbers.
LEMMA ThreadsLimited ==
  ASSUME TeamInv, ThreadInv, team \in ThreadTeam, team # "Async"
  PROVE  Cardinality(LiveWorkers) <= Size
<1>1. LiveWorkers = {t \in Thread : thread[t].pc \in {"run", "ended"}}
  BY DEF LiveWorkers
<1>2. /\ Size \in Nat \ {0} /\ Thread \subseteq Nat \ {0}
      /\ main.next \in Nat /\ main.oldest \in Nat
  BY TeamAssumption, WorkersAssumption DEF TeamInv
<1>3. 1 \in Int /\ Size \in Int /\ Size - 1 < Size
  BY <1>2
<1>4. CASE team = "Pool"
  <2>1. LiveWorkers \in SUBSET (1..Size)
    BY <1>1, <1>4 DEF ThreadInv, PoolInv, PoolTypes
  <2>. QED
    BY <1>3, <2>1, WindowSize
<1>5. CASE team # "Pool" /\ ~Contesting
  <2>1. LiveWorkers \in SUBSET (1..Size)
    BY <1>1, <1>5 DEF ThreadInv, StartedInv
  <2>. QED
    BY <1>3, <2>1, WindowSize
<1>6. CASE team = "NewThreads" /\ Contesting
  <2>1. main.next - main.oldest <= Size
    BY <1>6 DEF ThreadInv, StartedInv
  <2>2. \A t \in Thread : /\ t >= main.next => thread[t].pc = "none"
                          /\ t < main.oldest => thread[t].pc = "joined"
    BY <1>6 DEF ThreadInv, StartedInv, FirstUnjoined
  <2>3. ASSUME NEW t \in LiveWorkers PROVE t \in main.oldest .. main.next - 1
    <3>1. t \in Nat /\ ~(t >= main.next) /\ ~(t < main.oldest)
      BY <1>1, <1>2, <2>2
    <3>. QED
      BY <1>2, <3>1
  <2>4. main.oldest \in Int /\ main.next - 1 \in Int /\ (main.next - 1) - main.oldest < Size
    BY <1>2, <2>1
  <2>5. LiveWorkers \in SUBSET (main.oldest .. (main.next - 1))
    BY <2>3
  <2>. QED
    BY <2>4, <2>5, WindowSize
<1>7. CASE team = "ConstThreads" /\ Contesting
  <2>1. main.next <= Size + 1
    BY <1>7 DEF ThreadInv, StartedInv, JobCount
  <2>2. \A t \in Thread : t >= main.next => thread[t].pc = "none"
    BY <1>7 DEF ThreadInv, StartedInv
  <2>3. ASSUME NEW t \in LiveWorkers PROVE t \in 1..Size
    <3>1. t \in Nat \ {0} /\ ~(t >= main.next)
      BY <1>1, <1>2, <2>2
    <3>. QED
      BY <1>2, <2>1, <3>1
  <2>4. LiveWorkers \in SUBSET (1..Size)
    BY <2>3
  <2>. QED
    BY <1>3, <2>4, WindowSize
<1>. QED
  BY <1>4, <1>5, <1>6, <1>7 DEF ThreadTeam

\* So are the children that live.
LEMMA ProcessesLimited ==
  ASSUME TeamInv, ProcInv, team \in ProcessTeam
  PROVE  /\ Cardinality(LiveWorkers) <= Size
         /\ \A i, j \in LiveWorkers : Slot(i) = Slot(j) => i = j
<1>1. LiveWorkers = {j \in Child : child[j].pc \notin {"none", "reaped"}}
  BY DEF LiveWorkers, ThreadTeam, ProcessTeam
<1>2. \A j \in LiveWorkers : j \in Child /\ Active(j)
  BY <1>1, LiveKid
<1>3. /\ Size \in Nat \ {0} /\ Child \subseteq Nat \ {0} /\ JobCount \in Nat
      /\ main.next \in Nat /\ main.oldest \in Nat /\ WindowInv
  BY ParentFacts, WorkersAssumption DEF ProcInv
<1>4. ASSUME main.pc \in {"open", "write"} PROVE Cardinality(LiveWorkers) <= Size
  <2>1. main.next - main.oldest < Size
    BY <1>3, <1>4 DEF WindowInv
  <2>2. main.oldest \in Int /\ main.next \in Int
    BY <1>3
  <2>3. ASSUME NEW j \in LiveWorkers PROVE j \in main.oldest .. main.next
    <3>1. main.oldest <= j /\ (j < main.next \/ j = main.next) /\ j \in Nat
      BY <1>2, <1>3 DEF Active
    <3>. QED
      BY <1>3, <3>1
  <2>4. LiveWorkers \in SUBSET (main.oldest .. main.next)
    BY <2>3
  <2>. QED
    BY <2>1, <2>2, <2>4, WindowSize
<1>5. ASSUME main.pc \notin {"open", "write"} PROVE Cardinality(LiveWorkers) <= Size
  <2>1. main.next - main.oldest <= Size
    BY <1>3 DEF WindowInv
  <2>2. ASSUME NEW j \in LiveWorkers PROVE j \in main.oldest .. (main.next - 1)
    <3>1. main.oldest <= j /\ j < main.next /\ j \in Nat
      BY <1>2, <1>3, <1>5 DEF Active
    <3>. QED
      BY <1>3, <3>1
  <2>3. main.oldest \in Int /\ main.next - 1 \in Int /\ (main.next - 1) - main.oldest < Size
    BY <1>3, <2>1
  <2>4. LiveWorkers \in SUBSET (main.oldest .. (main.next - 1))
    BY <2>2
  <2>. QED
    BY <2>3, <2>4, WindowSize
<1>6. \A i, j \in LiveWorkers : Slot(i) = Slot(j) => i = j
  BY <1>2, <1>3, OneInSlot
<1>. QED
  BY <1>4, <1>5, <1>6

\* Whatever the size and the contests: a team but TeamAsync never has more
\* than size workers at once, and no slot of a process team ever has two
\* children that would read each other's tasks.
THEOREM WorkersLimited == Spec => []WorkersBounded
<1>1. TeamsInv => WorkersBounded
  BY ThreadsLimited, ProcessesLimited DEF TeamsInv, WorkersBounded, TeamInv, TeamKind
<1>. QED
  BY <1>1, TeamsInvariance, PTL

\* When runContest has returned, no thread, child, task or pipe of the
\* contest is left.
THEOREM NothingLeft == Spec => []NothingLeftBehind
<1>1. TeamsInv => NothingLeftBehind
  <2>. SUFFICES ASSUME TeamsInv, main.pc = "idle"
                PROVE  /\ team \notin {"Pool"} \cup ProcessTeam => LiveWorkers = {}
                       /\ team = "Pool" => tasks_ = <<>> /\ \A t \in Thread : call[t].pc = "idle"
                       /\ team \in ProcessTeam => LiveWorkers = {}
                       /\ \A f \in Pipes : ~pipe[f].named /\ ~InUse(pipe[f])
    BY DEF NothingLeftBehind
  <2>1. TeamInv /\ ~Contesting /\ team \in ThreadTeam \cup ProcessTeam
    BY DEF TeamsInv, TeamInv, Contesting, TeamKind
  <2>2. CASE team \in ThreadTeam
    <3>1. ThreadInv /\ pipe = [f \in Pipes |-> NoPipe] /\ team \notin ProcessTeam
      BY <2>2 DEF TeamsInv, ThreadTeam, ProcessTeam
    <3>2. \A f \in Pipes : ~pipe[f].named /\ ~InUse(pipe[f])
      BY <3>1 DEF NoPipe, InUse
    <3>3. \A t \in Thread : call[t].pc = "idle"
      BY <2>1, <3>1 DEF ThreadInv, TasksInv
    <3>4. team = "Pool" => tasks_ = <<>>
      BY <2>1, <3>1 DEF ThreadInv, PoolInv
    <3>5. team # "Pool" => LiveWorkers = {}
      BY <2>1, <2>2, <3>1 DEF ThreadInv, StartedInv, LiveWorkers
    <3>. QED
      BY <3>1, <3>2, <3>3, <3>4, <3>5
  <2>3. CASE team \in ProcessTeam
    <3>1. ProcInv /\ team \notin ThreadTeam
      BY <2>3 DEF TeamsInv, ThreadTeam, ProcessTeam
    <3>2. main.oldest = main.next
      BY <2>1, <3>1 DEF ProcInv, WindowInv
    <3>3. /\ \A j \in Child : child[j].pc \in {"none", "reaped"}
          /\ \A s \in Slots : Fresh(pipe[Task(s)]) /\ Fresh(pipe[Result(s)])
      BY <2>1, <2>3, <3>1, <3>2, NobodyActive
    <3>4. \A f \in Pipes : Fresh(pipe[f])
      BY <3>3, PipeOfSlot
    <3>5. \A f \in Pipes : ~pipe[f].named
      BY <2>1, <3>1 DEF ProcInv, NamedInv
    <3>6. LiveWorkers = {}
      BY <3>1, <3>3 DEF LiveWorkers
    <3>. QED
      BY <2>3, <3>4, <3>5, <3>6 DEF Fresh, InUse, ProcessTeam
  <2>. QED
    BY <2>1, <2>2, <2>3
<1>. QED
  BY <1>1, TeamsInvariance, PTL

\* The table of results that the threads of a whole program share is right,
\* across all its contests.
THEOREM TableOfTeams == Spec => []TableRight
<1>1. TeamsInv => TableRight
  BY DEF TeamsInv, SharedInv, TableRight, Table, CallRight
<1>. QED
  BY <1>1, TeamsInvariance, PTL

\* Every team implements Contest: it answers the contests one after another,
\* each as TeamSolo does, in whatever order its workers finish.
THEOREM Answers == Spec => AnswersContests
<1>1. Init => TheContest!ContestInit
  BY DEF Init, TeamInit, TheContest!ContestInit
<1>2. TeamsInv /\ [Next]_vars => [TheContest!runContest]_answers
  BY TeamsStep
<1>. QED
  BY <1>1, <1>2, TeamsInvariance, PTL DEF Spec, AnswersContests, TheContest!ContestSpec
=============================================================================
