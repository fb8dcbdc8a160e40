# Verification of MIMUW-PW-Tasks

TLA+ models, TLC configurations and TLAPS proofs for the solutions of the
Concurrent Programming tasks. Paths below are relative to `src/`; every
definition that models code is mapped to its lines in `PROJECT.json`, whose
`hazards` list names, line by line, what is hard to test here.

## 1. Inventory

| Part | State | Operations | What is hard |
|---|---|---|---|
| **Zaliczeniowe_1**, concurrent cube (Java): `Cube`, `Side`, `Piece` | pieces of six sides; semaphores `mutex`, `guardian`, one per layer; `previous_side`, `rotating_previous_axis` | `rotate`, `show` | group exclusion by axis, permits handed from group to group, interrupts in three different `acquire`s, tables that say which piece goes where |
| **Zaliczeniowe_2**, concurrent file tree (C): `HashMap` | bucket lists, size | insert, remove, get, size, iterate | nothing in it is synchronised |
| `SafeHashMap` | counters, turn flag and two condition variables around a `HashMap` | the same, as readers or writers | lost wake-ups, turns, counters kept by the sleepers |
| `Node` | per folder: reader/writer counters and turn flag, `subtree_threads`, private access, `emergency_pass`, count of users of its map | the readers' and writers' protocols, discard, notification of the parents | memory reclaimed by hand, waiting for a subtree, chains of wake-ups |
| `Tree` | folders linked through their maps and parent pointers | list, create, remove, move | linearizability, deadlock between moves, a different undoing in every early return |
| `Tree_sequential` | folders with their parent and name, linked through their maps | list, create, remove, move | each folder is described twice, by itself and by its parent's map: a call that lets the two part is noticed by a later one only |
| `path_utils`, `err`, `main` | – | paths; errors; demo | – |
| **Zaliczeniowe_3**, Collatz teams (C++): `teams`, `new_process` | promises, futures, threads, child processes, named pipes, results by index | `runContest` of six kinds of team, the program a child executes | a bounded set of workers, results collected in order, opens that wait for one another |
| `sharedresults`, `collatz` | a table under a shared mutex | `get`, `insert`, the recursion over them | what happens between `get` and `insert` |
| `cxxpool.h` | queue of tasks, sleeping workers, end flag | push, worker, shutdown | a wake-up between deciding to sleep and sleeping |
| `InfInt.h` | sign and elements in base 10^9 | arithmetic, comparison, text, conversion, root | borrows, carries, digits, widths of C types |
| `contest`, `main`, generators, `rtimers` | the inputs | contests one after another, compared with `TeamSolo` | every team must give the same answer |
| **Labs 3, 4, 6, 9, 10**, bounded buffers (Java, C) | a ring of slots, two indices, semaphores, a monitor or conditions | put and take, to the end of both loops | two mutexes for one buffer, whom a wake-up reaches, how the last consumers stop |
| **Lab 9**, `readers-writers-template.c` | four counters and a turn, a book | read, write | one condition that mixes who is inside with whose turn it is |
| **Labs 1, 2**, two writers (Java) | volatile turn, interest flags | print lines, alternately or under Peterson's lock | the order of two volatile writes and two reads; interrupts |
| **Labs 3, 4, 5**, row sums and the rearrangement (Java) | a buffer with a `CyclicBarrier`; a concurrent map of adders; a pool | a helper per column, per chunk of rows, or a task per column | who may touch a cell in which phase; a barrier broken by an interrupt; the last chunk |
| **Lab 5**, `HomemadeFuture` (Java) | a queue of handles, a queue per future, the interrupt flags | submit, get, shutdown | shutdown interrupts workers wherever they are: in `take`, and, once `main` has missed a result, computing or about to put |
| other labs | | starting threads, counters, bank accounts that are only increased, `Vector`, `BankDatabase`, `Swapper`, fork/exec/pipes, signals | short demonstrations |

How they interact. The tree calls `SafeHashMap` for each folder's children and
takes a map as a writer of its monitor when it moves folders; a tree call walks
down from the root, entering each folder as a reader (`process_path`), enters
the last one as reader or writer, and tells every folder on the way back that
its thread has left the subtree (`notify_parent_nodes`). The cube is separate:
its threads meet only in the semaphores. In Zaliczeniowe_3 `main` gives every
team the same contests; the thread teams reach the pool and the table of shared
results, the process teams reach their children through named pipes, on which
numbers travel as the text of an `InfInt`. The labs are independent programs.

What makes each correct:

- monitor of a map: writers alone, readers together, counters exact, no lost
  wake-up, turns, neither class starves;
- `SafeHashMap`: whole under concurrency, and equal to an atomic map;
- tree: no access to freed folders, always a tree, a remover or mover has the
  subtree to itself (but for a mover on its way out), each call takes effect at one
  instant, every call returns and leaves nothing behind;
- cube: one axis at a time, no piece in two rotations, no permit lost, shows
  only whole turns, the turn is the geometric one, every call ends;
- teams: each contest answered as `TeamSolo` answers it, never more workers than
  the limit, nothing left of a contest that has returned, every contest returns;
- shared results: no wrong length in the table, however threads meet on it;
- sequential tree: whatever calls came before, each does and answers what the
  concurrent tree promises, and no folder is lost that was not freed;
- `InfInt`: what the integers give, and a text that reads back as the number;
- buffers: each item delivered once and in order, no slot touched by two
  threads, every thread ends;
- two writers: whole lines, all of them, and nobody spins for ever;
- row sums, rearrangement, futures: the result of the sequential program at the
  end, and every thread ends, but for what an interrupted `main` leaves behind;
- library: a reader sees a whole book.

## 2. Modules

| Module | Models | Kind |
|---|---|---|
| `MapProtocol` | the four protocols of `SafeHashMap.c`, as operators on the struct's counters | component |
| `MapMonitor` | threads that use them | component |
| `HashMap` | `HashMap.c`, sequential | component |
| `SafeHashMap` | the `safe_hmap_*` operations: `MapMonitor` with `HashMap` inside | composition |
| `AtomicMap` | a map whose calls take effect at one instant | abstract |
| `SafeHashMapProofs` | the monitor; the map alone; the map inside the monitor | proofs |
| `Node` | `Node.c`: what the protocols do to a folder | component |
| `Tree` | `Tree.c`: the four calls, over `Node` | composition |
| `FileTree` | a file tree whose calls take effect at one instant | abstract |
| `TreeHistory` | `Tree` with the answers it would have given so far, and its properties | refinement |
| `TreeInvariant` | the inductive invariant of the tree, and what keeps each of its parts | proofs |
| `TreeSteps` | that the steps of a call on its way keep it | proofs |
| `TreeProofs` | that the steps of a call on its way back keep it, and what it implies | proofs |
| `FairSemaphore` | `java.util.concurrent.Semaphore`, fair (external) | library |
| `CubeGeometry` | the tables and the three parts of a rotation | component |
| `Cube` | `rotate` and `show` | composition |
| `CubeSolid` | turns of a solid in space, and the cube beside it | reference |
| `CubeProofs` | who rotates when; what a rotation makes of the cube | proofs |
| `Collatz` | `collatz.hpp`: the length of an orbit | component |
| `SharedResults` | `sharedresults.hpp`: threads at one table | component |
| `Contest` | contests answered one after another, by `TeamSolo` | abstract |
| `Team` | what the teams have in common: `runContest`'s locals and the answers | component |
| `ThreadTeams` | the four teams of threads over `SharedResults`, and what they use of `cxxpool.h` | composition |
| `ProcessTeams` | the two teams of processes and `new_process.cpp`, with the named pipes of the operating system (external) | composition |
| `Teams` | one `Team` object of any kind, and the properties | composition |
| `TeamsProofs` | the shared table, the four teams of threads, the two of processes | proofs |
| `SequentialTree` | `Tree_sequential.c` | component |
| `InfInt` | `InfInt.h` | component |
| `Channel` | a bounded first-in first-out channel | abstract |
| `BufferUsers` | the loops of producers and consumers | component |
| `SemaphoreBuffer` | buffers of counting semaphores | component |
| `Buffers` | buffers of a monitor or of conditions; the five programs with a buffer, and the properties | composition |
| `TwoWriters` | `TwoWritersSynchronized.java`, `TwoWritersPeterson.java` | component |
| `TwoWritersProofs` | | proofs |
| `Barriers` | `MatrixRowSums*.java`, `ArrayRearrangement.java` | component |
| `HomemadeFuture` | `HomemadeFuture.java` | component |
| `Labs` | the programs of the labs whose threads end: `Buffers` and the three above | composition |
| `LabsProofs` | the programs of `Labs`, buffers and the others | proofs |
| `Library` | `readers-writers-template.c` | component |
| `MC*` | constants for TLC; `MCSequential` puts `InfInt` and `SequentialTree` side by side | |

Definitions with `_slip` in their names are wrong on purpose: each is a plausible
bug in the definition that follows it, and each property listed in
`PROJECT.json` is known to fail when it takes that definition's place. Nothing
else uses them.

### Map monitor: `MapProtocol`, `MapMonitor`

One record holds the fields of `struct SafeHashMap` and the sets of threads that
sleep on its two condition variables. An action is a critical section: from a
`pthread_mutex_lock`, or from the return of `pthread_cond_wait`, to the next wait
or unlock. `pthread_cond_signal` wakes any one sleeper; a woken thread still
counts as waiting (`r_wait`, `w_wait`) until it runs (`ReaderAwake`,
`WriterAwake`), as it does in the code, and newcomers may come before it.
`SpuriousWakeup` lets a sleeper wake unasked.

### SafeHashMap

`InsertFind`, `InsertLink`, `InsertCount`, `RemoveUnlink`, `RemoveCount`, `Size`,
`ContentsAllocate` and `ContentsNext` are the steps of `hmap_insert`,
`hmap_remove`, `hmap_size` and `make_map_contents_array`, split where another
thread would see the map half changed. They have no guard but their place in
the code; that they do not meet is the monitor's doing.

### Tree: `Node`, `Tree`

A folder is a record with the fields of `struct Node`; `memory` says whether its
address is unused, live or freed. A frame holds the locals of a call and its
place in it. Since each of the many early returns of `Tree.c` undoes the steps
before it in its own order, a frame has a list `todo` of what is left once the
outcome is known, written out as the code writes it; `Leave…`, `NotifyParent`,
`RenameMoved`, `FreeRemoved` and `ReturnResult` work it off one by one.
`notify_parent_nodes` is a loop: `NotifyParent` is one round of it, which leaves
the item on the list with the next folder, and `NotifyEnd` drops an item that is
`Over`, at its last node or above the root. `Create` takes any address that is
unused; a call that needs one when there is none waits, which no run comes to.

An operation on a folder's map is one step: that is what the `safe_hash_map` run
shows of it (`ImplementsAtomicMap`). A map taken for good by a mover is
`map_writer`. Two merges keep the state small: `node_new` is one step with the
insertion (the new folder is not reachable before), and the mutex that protects
the taking of several maps is released with the last of them.

`FileTree` is the promise: a call takes effect at one instant between its
invocation and its return. A call that changes nothing may have its answer from
any instant that passed; `readings` collects those answers, and `TreeHistory`
computes them beside `Tree`.

### Cube: `Cube`, `CubeGeometry`, `CubeSolid`

An action reaches from one `acquire` to the next; `perform_rotate` is three steps
(front side, back side, the four strips) and `perform_show` six, a side each. A
waiting thread is in the semaphore's queue, in order of arrival. `Interrupt` sets
a thread's flag while it waits; `ThrowMutex`, `ThrowGuardian` and `ThrowLayer`
are the `InterruptedException`s with the `finally` blocks they pass through.
`Interruptible` says in which waits an interrupt may come; a thread that calls with
its flag up is thrown out of `mutex.acquire`, so only where `mutex` is among them may
it call like that.

The code's six colours become as many as there are squares, so that no two rotations
look alike: the code moves colours and never looks at them. The first half of
`CubeSolid` knows nothing of the tables: squares have coordinates, a turn is a
rotation of the space. `solid` is turned by it in one step when a rotation gets into
its layer.

### Teams: `Team`, `ThreadTeams`, `ProcessTeams`, `SharedResults`

`team` is the class of the `Team` object that `main` runs; all contests go
through it, one after another, so that what one contest leaves behind would meet
the next. `main` (the variable) is where the main thread is in `runContest`: how
many workers it has started and how many it has collected. A worker of a thread
team is a record with its place and the tasks it still has.

- A call of `SharedResults` takes one step per critical section: `Get` and
  `Insert`; the recursion of `sharedCollatz` is a stack of numbers whose results
  are still to be inserted. Without sharing, `calcCollatz` is one step.
- The pool's code under `task_mutex_` is one step, and the notification that
  follows the unlock is another: between them anybody may run. A worker that
  sleeps may wake unasked.
- `TeamAsync` may start each task as a thread or leave it to `get`, as
  `std::async` may without a policy.
- In a process team every system call is one step. An `open` of a pipe puts the
  process among those that wait until the other end is opened; the children of
  `TeamNewProcesses` use the two pipes of a slot one after another. `failed` is
  set when a write finds no reader; a message carries what kind it is and whose,
  so that a stale or crossed pipe is seen in the answers.

### Sequential tree: `SequentialTree`

`node` maps the addresses in use to folders; an address leaves its domain when
its folder is freed. An action is a call, from the arguments to the return, with
the checks in the order of the code. `Tree` is the set of paths that can be
reached, which the refinement of `FileTree` compares. The order of the checks of
`tree_move` is not that of the concurrent tree: a move below itself is refused
last here and first there, so of a call with two faults either may be reported.

### InfInt

The `const` members are operators on a sign and a sequence of elements; the
members that change their object are actions on `x`, and `ref` is the integer
that `x` should stand for. Elements are cut to the width of `int`, products to
that of `long long`, both scaled with the base: base 10^2, 9 and 18 bits stand
for base 10^9, 32 and 64. What the actions keep is that a number has no leading
zeros but for one element of zero.

### Buffers: `BufferUsers`, `SemaphoreBuffer`, `Buffers`

`program` says which of the five programs runs. Touching the slot and advancing
the index are two steps in those that hold a mutex, so that a missing mutex would
be seen. A semaphore of Java is fair where it is made so and hands out permits in
order of arrival; `sem_wait` lets any waiter through. A critical section of
`BlockingQueue` or of `producer-consumer.c` is one step; `notifyAll` wakes all,
`pthread_cond_signal` any one of the other kind. `BlockingQueue` comes without
threads: it gets the ones of Lab 3. `producer-consumer.c` has one thread of each
kind, and the last item of its producer is `OVER`. A thread of `gifts.c` stops by
the code's own counting.

`sent` and `received` are histories: they give the refinement of `Channel` and
are read by no guard but that of the library's queue.

### Labs: `TwoWriters`, `Barriers`, `HomemadeFuture`

`program` names the program that runs, and `Labs` starts one of the twelve: a
behaviour is one run of one program, and the variables of the others stay at
their initial values, so that the state space is the sum of theirs.

- A writer takes a step for each access to a volatile variable and for each
  character. `interrupted` says that `main` has interrupted both.
- `await` of a `CyclicBarrier` runs under the barrier's lock, and so does its
  command, `BufferReader.run`, while all other helpers sleep: one step, `Trip`.
  An interrupt, before `await` or in it, breaks the barrier for all (`Throw`). An
  addition to a `LongAdder` and `computeIfAbsent` are atomic by their contract,
  and are a step each; the fixed pool starts its tasks in order, as many at once
  as it has threads.
- `put` and `take` of a `LinkedBlockingQueue` are one step each, and throw to a
  thread whose interrupt flag is set. `shutdown` sets it. `main` may be interrupted
  too: in `submit`, which loses the handle (`lost`), and in `get`, whose result it
  then goes on without (`missed`), as its `catch` blocks have it.

### Library

One step per critical section; the six copies of the number in the book are two,
written and read one by one. `Close` is the end of `main`'s nap, after which
nobody begins another round.

## 3. Runs

| Run | Question | Bounds |
|---|---|---|
| `map_monitor` | exclusion, exact counters, no lost wake-up and readers that share, turns, progress of both classes | 4 threads, spurious wake-ups |
| `safe_hash_map` | `SafeHashMap`: the map stays whole, iterators valid, refinement of `AtomicMap`, calls return | 3 threads, 2 keys that collide and an empty bucket before them |
| `tree` | memory safety, shape, privacy, clean end, refinement of `FileTree`, every call returns | 5 folders, 8 addresses, depth 4; all pairs of 12 calls, 9 calls that return early with 6 that disturb them, 3 triples, 1 pair of nested moves |
| `nested_moves` | finding, see below | 2 threads |
| `cube` | one axis, disjoint pieces, permits, shows | 3 threads, 3 calls of 5, size 2 |
| `cube_turns` | the geometry; nothing interleaves here | 1 thread, size 3, all rotations of all sides, in pairs one after the other |
| `cube_calls` | every call ends | 3 threads, 3 calls of 4, size 1 |
| `cube_interrupted` | finding, see below | 3 threads, 4 calls, size 2 |
| `teams` | workers within the limit, nothing left behind, table right, refinement of `Contest`, every contest ends | limit 2, contests of 3 and of 1 numbers, 3 threads or children; 6 kinds, shared or not |
| `sequential` | `InfInt`: each operation against the integers; text; comparisons, conversions, roots. `SequentialTree`: refinement of `FileTree` over any sequence of calls | base 100, 9 and 18 bits, 55 operands, results below 10^9; 4 addresses, 2 names, paths up to 3 |
| `labs` | buffers: slots, refinement of `Channel`; two writers: whole lines; sums, rearrangement, futures: the right results; every thread of all of them ends | 2 producers of 3 items, 3 consumers, 2 slots; 3 lines of 2 characters; 3 columns, 3 rows in chunks of 2, a pool of 2; 2 workers, 4 tasks |
| `library` | finding, see below | 2 readers, 2 writers, 2 numbers |

Why the bounds are enough to see the interesting cases:

- *map_monitor*: with four threads a writer inside, a waiting reader, a waiting
  writer and a newcomer exist at once, and two readers with two writers; the
  protocol looks only at counters being zero or not.
- *safe_hash_map*: two keys in one list let an insertion and a removal meet at
  the same link; the empty bucket makes the iterator skip.
- *tree*: the folders are a branch of depth three, one of depth two and places for
  new ones, so that walks share a prefix or not, the source is first or the target
  is, the shared folder is the root, the parent or the source itself; the pairs take
  every early return that the model has, the undoing of `tree_move` included where
  the target is the source or lies above it, where a folder on the way is missing or
  goes away, and the calls that are refused at once (the root, a move below itself;
  `EINVAL` is not modelled). Triples add a folder that goes away under readers and
  writers at once, and movers that want each other's maps.
- *cube*: both sides of one axis, a side of another axis and a show: the group
  before, the group that waits and the newcomer are one thread each; `FRONT 1`
  and `BACK 0` are the same layer. The code treats sides alike but for the
  tables, which `cube_turns` goes through entirely: with all squares different,
  one turn of the untouched cube shows the whole permutation, and the second
  shows that parts compose. Size 3 has a middle layer and a centre.
  `cube_calls` has one layer only, to keep the liveness check affordable: how
  threads wait for one another does not depend on the number of layers, and that
  the permits of several layers come back is part of `cube`.

- *teams*: three numbers and a limit of two, so that a team must wait for its
  oldest worker while a younger one may have ended, a pool has a queue, a dealt
  share has one task or two, and a slot of pipes is used twice; a second contest
  meets what the first left. The orbits of 3, 5 and 10 run into one another, so
  that threads insert the same numbers and find each other's. There are as many
  threads as the widest team starts.
- *sequential*: the operands lie at the ends of one, two and three elements and of
  the C types, so that carries and borrows cross one element and several, and
  quotients have digits of 0 and of 99. The base is even smaller relative to the
  types than in the code: twice the base fits `int`, its square `long long`, and not
  much more, which is the relation `WidthAssumption` states. With four folders, one
  of them the root, a branch of depth three can be moved about, a folder can be
  moved over, beside, above and below another, and a freed address is used again;
  paths of three reach one level below every folder that can be moved.
- *labs*: two slots go round three times; both producers can wait at a full
  buffer, all consumers at an empty one, and with three consumers for six items
  the gifts run out between the reindeers in every order. Thread counts that do
  not divide the items are excluded by the assertion of Lab 4's `main`.
  Three lines let each writer overtake the other, be overtaken, and find it gone;
  two characters are enough to mix a line. Three rows in chunks of two give a full
  chunk, a short one and the row that the loop in the code computes beyond the
  last; three columns for a pool of two leave a task that waits. Four tasks for two
  workers: each may take a second one. If `main` was not interrupted, every result is
  there at `shutdown`, and the workers are before `take` or inside it; if it has
  missed one, they may also be computing or about to `put`.

Bounds are named: `MaxCalls`, `Limit`, `Samples`, `Inputs`, `Size`, `Produced`,
`LINES_COUNT`, `LINE_LENGTH`, `ROWS`, `COLUMNS`, `Tasks`, `MaxLength`, `MaxDepth`,
`Workloads` (which thread makes which call), the sets of addresses, keys, workers
and threads. Runs in which calls are
finite in number end, so they do not check deadlock; there `CallsReturn` and
`CallsEnd` see a thread that hangs.

### Fairness

- `MapMonitor`: weak fairness for each thread that was woken or is inside. The
  mutex is not modelled as starving a thread forever; nobody has to call.
  Sleepers have none: they depend on being signalled.
- `SafeHashMap`: weak fairness of `Resume`, `Work` and `Return` of each thread,
  not of `Call` and not of spurious wake-ups.
- `Tree`: weak fairness of the whole next-state relation only. Each call is
  finite, so this is enough, and it is the least a scheduler gives.
- `Cube`: weak fairness of each thread's own steps; not of calls or interrupts.
- `Teams`: weak fairness of the main thread, of each worker and of each child,
  nothing more than that the system runs every thread and process; none of
  spurious wake-ups, which therefore cannot stand in for a lost notification.
- `Labs`: weak fairness of each thread of each program, `main`'s `join` and
  futures included, not of spurious wake-ups and not of the interrupts that `main`
  may get: nobody has to interrupt it. In a
  program whose semaphores are not fair a thread may be overtaken, but only as
  often as the others have rounds left.
- `InfInt`, `SequentialTree` and `Library` have safety properties only.

### Findings

- `nested_moves` (`Zaliczeniowe_2/Tree.c:410-412`): `tree_move` notifies the
  folders above before it has left, so a second move of a folder above can begin
  while the first is still inside; `Node.h:66-69` says that writers wait for the
  threads of the subtree. The other properties hold all the same, this run's
  scenario included in `tree`: `SubtreePrivate` says exactly which thread may be
  left below.
- `cube_interrupted` (`Zaliczeniowe_1/.../Cube.java:179`, and 208): a thread
  interrupted in `mutex.acquire` releases the mutex it never got. Four calls of
  three threads then rotate two axes at once. The `cube` and `cube_calls` runs
  assume that no thread is interrupted there, and only there; `cube_turns` allows
  it, since with one thread it does no harm.
- `library` (`Lab_9/readers-writers-template.c:64`): a reader waits only while
  `wcount + wwait > 0 && change == 1`. With `change` 0, as at the start and after
  each writer, it enters beside a writer and reads half of the old book and half
  of the new, where `readers-writers-template.c:132` prints six times one number.

Seen while modelling, and not the subject of a run:

- `Lab_3/src/ProducersConsumers.java:116-117` asserts that the producers make
  `CONSUMED_COUNT * CONSUMED_COUNT` items; the same line of Lab 4 has
  `CONSUMERS_COUNT * CONSUMED_COUNT`, which is what both programs mean.
- `InfInt::fromString` takes the sign of a number from its highest element, so a
  negative text with an element of leading zeros would lose it; no text that
  `toString` writes has one. Unary minus of zero gives a zero with a minus sign,
  which compares unequal to zero, and `x /= x` clears its own divisor: no caller
  does either.
- `HomemadeFuture.java:80-82`: an interrupt of `main` in `submit` is swallowed, the
  handle is in no queue, and the future that `submit` returns is never answered:
  `main` waits for it for ever. After an interrupt in `get` (lines 144-146) `main`
  comes to `shutdown` while that computation may still run; the computation catches
  the interrupt (131-133) and its worker then waits in `take` for ever. Nothing in
  the repository interrupts this `main`; `AllEnd` promises what is left: without the
  first interrupt `main` ends, without both the workers do too.
- `gifts.c` lets reindeers beyond the number of gifts return at once; with the
  program's own constants there are none.
- A child whose `execl` fails never opens its pipe, and its parent waits in
  `open` for good; the pipes have fixed names below `/tmp`, so two of these
  programs at a time would share them.

## 4. Proofs

### The monitor of a map

About `MapMonitor`, for every finite set of threads; the only assumption is
`ThreadAssumption`.

- `Invariance`: `MonitorSpec => []MonitorInv`. `MonitorInv` is the types, the
  equality of each counter with the number of threads at the place it counts,
  and the exclusion said of the *counters* (`r_inside` and `w_inside`). Exclusion
  of threads alone is not inductive: the waiting conditions read counters, so the
  counters must be known to be exact, and that a count of zero means nobody needs
  finiteness. `Recount` carries the counts from step to step; each action has a
  lemma.
- `TypesAndCounters` (the types and `CountersAgree`) and `Exclusion`
  (`MutualExclusion`) follow from it.
- `NoWakeupLost` (`NoLostWakeup`, sleeping readers beside readers included): needs
  `WakeInv`, which follows a signal from the thread that gives it to the thread that
  takes it: when a class sleeps though it could enter, somebody is awake and on the
  way, and whoever comes in between takes the duty over or makes the sleep right.
- `Turns` (`TurnsRespected`): the turn was given by the last thread that left the
  other class, and the waiting conditions of the others read it together with the
  count of those it was given to, which is exact.

Lemmas about the protocols' operators (which fields each changes, and how) come
first in `SafeHashMapProofs`, and are cited in place of the definitions.

### The map inside its monitor

About `SafeHashMap`, for every finite set of threads, every set of keys and values,
every number of buckets and every hash function into them. The first lemmas know
only `HashMap`: what lookup, insertion and removal do to a map whose lists are
whole, how many entries it has, and that an iterator passes each key once.

- `MapInvariance`: `MapInv` holds. The lists are whole at every step, since each is
  written in one access; the count lags by one while a writer is between its two
  accesses, and by nothing otherwise. What a thread remembers of the map (the list
  it is about to link to, its iterator, what it has collected) is what the map
  still is, because a thread that remembers something is inside, and inside is
  what `MonitorInv` is about: each step of the map is a step, or none, of the
  monitor.
- `MapTypes` (`TypeOK`), `Whole` (`MapWhole`), `Iteration` (`IteratorValid`).
- `Atomicity` (`ImplementsAtomicMap`): a call takes effect where it writes the
  count or, for a reader, where it has its answer; every other step stutters.

### The file tree

About `HSpec`, and `Spec` of `Tree`: for every finite set of threads and of
addresses, every set of names, every tree at the start and all calls of the threads,
one each. Assumed are `TreeAssumption` and `InitialTreeAssumption` (the folders of
the initial tree hang together).

`Invariance`: `Spec => []IInv`. That no folder is used after it is freed rests on
counters, and what a counter should be is not a function of the state: where a
thread counts in `subtree_threads` was settled when it walked down, and the folders
may have been moved since, by somebody it did not wait for. So `IInv` says that
there are, for each thread, *chains* `K[t]`: the sets of folders where it has counted
itself and has not yet taken that back, one for each notification that it will send,
and a depth `dp[n]` for each folder; and that with these `Inv` holds:

- for each thread (`Local`): its frame is one that the code can have there
  (`FrameOK`, the list of what is left to do included), each chain follows the parent
  pointers from its lowest folder to where its notification ends, chains do not
  overlap (`ChainsOK`), and the maps it has are those it thinks it has (`MapsOK`);
- for all together (`Global`), from a `Summary` of each thread, the sets of folders
  where it reads, writes, sleeps, counts, is about to count, owns, takes away: each
  counter is the number of threads whose summary has the folder (`Counters`),
  sleepers and maps likewise (`Sleepers`, `Maps`); readers and writers exclude one
  another unless the folder goes away (`Exclusion`, `Emergency`); whoever else still
  counts at a folder that is owned is leaving it because of the flag (`Privacy`),
  nobody uses one that is freed (`Memory`, `Vacant`, `Takers`); entries, parents and
  names agree but for the folder on its way (`Shape`, `Transfers`), and every parent
  is less deep than its child (`Depths`), so that no chain comes back to where it
  began.

The summaries are what makes this manageable: a step of one thread changes its own
summary and one folder or two, and a lemma for each part says when that part stays
(`TreeInvariant`). The many early returns are dealt with at once: a list is a *plan*
of what it undoes, and `TodoSummary` and `TodoLocal` say what is left of the plan
after its first item. Then there is a lemma for each action (`…Step`, in `TreeSteps`
for calls on their way and in `TreeProofs` for the items of a list), one that puts
it in place of the thread's frame (`…Kept`), and the initial states. It follows
that

- no counter becomes negative (`TreeTyped`: `TypeOK`);
- no call refers to a freed folder (`TreePointers`: `NoUseAfterFree`): a folder that a
  thread refers to is one where it counts, is about to count, or that it owns;
- `TreeIsATree` (`TreeShape`) and `TreeQuiescent` (`QuiescentClean`): a thread that has
  returned has no chains, and its summary is empty;
- `TreePrivate` (`SubtreePrivate`). The invariant says who counts *at* an owned
  folder; the property speaks of all that is below. A chain is closed under parents up
  to its end, so whoever has been let in below the folder, and has that notification
  still to send, has the folder itself on a chain.

### The teams

About `Teams`, for every size of the team, all contests of numbers whose orbits
end, and any kind of team. Assumed are `TeamAssumption` and `InputsAssumption`,
`WorkersAssumption` (there are names for as many threads and children as a team
may start, and the parent's is not one of them), `NumberAssumption` (the numbers
are positive and closed under the successor) and `CollatzAssumption` (each orbit
ends, and `calcCollatz` satisfies its own equation, which unfolding a recursive
function would need an induction for).

`TeamsInvariance`: `Spec => []TeamsInv`. The parts of `TeamsInv` are these.

- `SharedInv`: that the table is right is not inductive, because what is inserted
  comes from a frame of somebody's recursion. `Chain` says that each number in the
  stack is the successor of the one above it, down to the argument, and
  `CallRight` that the number being looked up or the value being handed up is the
  one the innermost frame wants. `SharedInvariance` has it for `SharedSpec`, where
  any thread enters the table with any number at any time; `TableAlwaysRight` and
  `TableOfTeams` are the property `TableRight`, of the table alone and in a whole
  program.
- `TasksInv`, `FutureInv`: who holds a task runs or may be asked to, and is on the
  first of its tasks; a future has no value or the right one, and `r` has the
  value of each that was collected.
- `StartedInv`: of the threads a contest starts, those from `main.next` on do not
  exist and those before the oldest uncollected one have been joined.
- `PoolInv`: an open task (pushed, and not done) is in the queue once, or with one
  worker, and in no other place.
- `WindowInv`, `NamedInv`: the jobs with a child are the ones from `main.oldest` to
  `main.next`, at most as many as there are slots, so that no two share one; and
  which pipes have a name when.
- `JobInv`, for every such job: what is in its task pipe is `Order(Work(j))` from the
  message its child reads next to the one its parent writes next, what is in its
  result pipe is `Replies(j)` from the one to the other; who has which end open and
  who waits in `open` follows from where the two of them are. This is what makes
  every read find a message of its kind, every write a reader, and every
  `wait` the child of the oldest job. `FreshInv`: all other pipes are as `mkfifo`
  makes them.
- `CollectedInv`: what the parent has read from its children is in `r`.

The proof that a step keeps it goes by the operations of a pipe (`KidReads`,
`ParentWritesTask` and the like say what a call makes of one job), then by
`OtherJob` and `JobsKeep` for the jobs the step does not concern, then action by
action. How tasks are dealt out (`EveryDealt`: every task is somebody's) takes an
induction, done over a set with the well-foundedness of the naturals. From
`TeamsInv` follow

- `WorkersLimited` (`WorkersBounded`): never more workers than the size of the team,
  and never two children on the pipes of one slot;
- `NothingLeft` (`NothingLeftBehind`): no thread, child, task or pipe is left of a
  contest that has returned;
- `Answers` (`AnswersContests`): every kind of team implements `Contest`. The step
  that returns is a step of `TeamSolo`, and every other one stutters.

### The cube

About `CubeSpec`, for every set of threads, every size and any number of calls.
Assumed are `CallsAssumption`, `SizeAssumption`, and that nobody is interrupted
while it waits for the mutex: with such interrupts `OneAxis` is false, as the run
`cube_interrupted` shows, and the others rest on the same counting. Interrupts at
`guardian` and at the layers are allowed.

- `OneAxis` (`ExclusiveAxis`). Where threads are says little by itself; what
  separates two groups is a number of permits. `AxisInv` says that the mutex is
  with the thread that collects permits of `guardian`, that there is one such
  thread at most and that it waits for as many permits as the group has members
  (the group cannot grow, since that takes the mutex), that `guardian` holds a
  permit for each member that has left (`CountInv`), and that each member's axis
  is that of `previous_side`. So a thread gets its permits only when the group is
  empty: `AllHaveLeft`.
- `PermitsKept` (`PermitsAccounted`). Its first part is `CountInv`. For the layers
  `LayerInv` adds that nobody waits twice in a queue, and that who waits in the
  queue of a layer still waits for that layer: its index is computed from
  `previous_side` without the mutex, and again for the release. It stays because
  `previous_side` changes only when the group is empty, and then every queue is.
- `SquaresApart` (`DisjointSquares`). `LayerOf(s, q)` computes from a square the
  layer of side `s` it lies in; `PiecesInLayer` and `TouchedInLayer` show, side by
  side, that the tables of the code pick only squares of the layer asked for,
  `OppositeLayers` that opposite sides count the same layers backwards. A square
  in two rotations would put two threads in the layer that it lies in, counted
  from `previous_side`, and by `LayerInv` that layer has one permit.

### What a rotation makes of the cube

About `SolidSpec`, under the same assumptions; the second half of `CubeProofs`.

- *Loops.* The loops of `perform_rotate` are folds (`FoldLeft`) of quads of
  squares that rotate among themselves. `FoldSteps` takes the library's definition
  of the fold apart by an induction (`SetInduction`, from the well-founded order of
  the naturals), and `FoldRotates` says what a loop does: if no two quads share a
  square, each square has the colour that the one before it in its quad had, and
  all others keep theirs. That they do not share any is `PiecesApart` for the
  strips and `ClockwiseLayer` for the rings of a side, for every size.
- *Geometry.* `StripsMove`, `FrontMoves` and `BackMoves`: the four tables and
  `rotate_front_layer`, translated square by square, are the turn of the solid, side
  by side and for every size. `Regions`: the three parts of a rotation, and the
  rotations of different layers, touch different squares.
- `TurnsOfSolid` (`CubeIsSolid`) needs more than the cube at rest. `SolidInv` says
  of every square that one rotation at most is still to move it, and that it will
  have then what it has in `solid`: `solid[q] = cube[From(t, q)]` for the thread
  `t` that still has to move `q`, and `solid[q] = cube[q]` if there is none.
- `ShownSolid` (`ShowsWholeTurns`): nobody rotates while a show copies (`OneAxis`),
  so that what was copied earlier is still so.
- `CubeTypes` (`CubeTypeOK`): that `guardian` and the size of the group stay within
  `MaxCalls` needs `CallsInv`, that the members of the group and those who wait
  outside it are different threads with a call each, and that nobody waits for the
  mutex twice.

### The programs of the labs

About `Labs`, one of whose programs runs; `LabsProofs`, over `TwoWritersProofs`.

- `BufferInvariance`: `BufferInv`, for every number of producers, consumers, items
  and slots. With semaphores: the permits of a count, those who took one to fill
  (empty) a slot, those who have not given back what they took, and the items held
  add up to the number of slots; a mutex has its permit exactly when nobody holds
  it; the slots from the oldest on hold the items that are not fetched, with an
  index that lags while its user is between the slot and the index. With a monitor:
  the same ring, and for the conditions of `producer-consumer.c` one slot that
  stays free.
- `Apart` (`SlotsApart`): a producer and a consumer that touch a slot at once have
  `0 < Held < BufferSize`, so that the ends of the ring are different slots.
- `InOrder` (`FirstInFirstOut`): each of the five programs implements `Channel`,
  step by step.
- `WholeLines` and `LinesOfLabs` (`LinesWhole`): no line has characters of two
  writers and, where they alternate, neither is two lines ahead. For Peterson's
  lock the invariant says that whoever competes with a writer that is inside has
  given way to it since: that is what the order of the two assignments is for. For
  the alternation it says that the turn tells how many lines there are.
- `RightResults` (`ResultsRight`), with `AllLines` for the writers. The matrix, the
  rows and the columns, the rows in a chunk, the threads of the pool, the tasks and
  the workers are arbitrary; `DefinitionAssumption` says that the matrix has
  integers, as an `IntBinaryOperator` does (the code's `int` wraps, which changes
  no order and no equality of sums), and that no number is the absence of an adder.
  - `RowSum` is the loop of `rowSums()`, a recursive function: `RowSumTotals` gives
    it running totals, `RowSumAdd` says that one more number in a cell is one more
    in the sum, wherever the cell is in the row.
  - *With adders* (`AdderInv`): the sum of a row is that of the cells of those
    columns whose helper is past the row. Which helper that is, is arithmetic with
    remainders (`OneChunk`: every row is in one chunk).
  - *With a barrier* (`BarrierInv`): all helpers are in the round that the
    barrier's command counts; who has arrived has stored its cell of this round,
    and the rows before it are summed up. The last to arrive finds all others
    asleep (`AllArrived`, by counting). In the rearrangement a helper that has not
    read the cell across finds it as it was, for its owner waits and nobody else
    resets it.
  - All this is while `main` waits: an interrupt of `main` ends the claim.
  - *The futures* (`FuturesInv`): a channel only holds the result of its future.

### Only model-checked

Liveness (out of the prover's reach); that the concurrent tree implements `FileTree`;
the sequential tree. What the recursive functions of `InfInt` compute would need
inductions over their digits, which are not carried out. `CubeIsSolid` is the other
way round: its run goes through the tables with one thread, and only its theorem
speaks of rotations that interleave.

## 5. Not modelled, and why

- Validation of paths (`EINVAL`), failing allocation, `syserr`, formatting.
- `tree_new`, `tree_free`, `safe_hmap_free`: they run alone.
- Spurious wake-ups in `Tree`: `MapMonitor` has them for the same waiting loops.
- More than one `Cube` at a time, although its semaphores are static; callbacks
  that throw.
- Colours being written without atomicity below the three parts of a rotation:
  `DisjointSquares` is what makes it harmless.
- Zaliczeniowe_3: the generators and `rtimers` (test data, measurement of time);
  threads that cannot be created, tasks that throw, children that do not start or
  die, messages read in pieces (they are shorter than what a pipe writes whole);
  what of `cxxpool.h` the teams do not use (pause, priorities, `clear`, adding
  threads); streams, exceptions and `size` of `InfInt`.
- The rest of labs 1 to 6: threads started and interrupted one by one, counters
  and bank accounts that are only increased, with and without atomicity, to show
  the difference, an array shared by an atomic index, `Vector`, `BankDatabase`,
  `Swapper`.
  Labs 7, 8, 11 and the shared memory demonstrations of Lab 10: calls shown one by
  one, without a protocol to get wrong.
- Interrupts of the Java producers and consumers, which only end the program. What
  `main` shows after it was interrupted in `join` or `invokeAll`, perhaps of rows
  that nobody has begun (`MatrixRowSumsThreadsafe.java:163`,
  `MatrixRowSumsThreadPool.java:210`).

## 6. Plan

Done in this order: map monitor with proofs, `SafeHashMap`, the tree, the cube
with proofs, the teams with their table proved, `InfInt`, the buffers, the
library, the two writers with proofs, the barriers, the futures, the sequential
tree; then the proofs about the map, the buffers, the turns of the cube, the
teams, the other programs of the labs and the safety of the tree. Left:

1. Proofs: that the calls of the concurrent tree are those of `FileTree`.
2. `Swapper` and `Vector` of the labs; the database of Lab 5.
3. A fault model for the process teams: a child that does not start or dies.
