------------------------------ MODULE Barriers ------------------------------
(***************************************************************************)
(* Programs whose threads add up or rearrange an array together:           *)
(*   "barrier"     rowSumsConcurrent of MatrixRowSums.java, a row at a     *)
(*                 time, with a CyclicBarrier                              *)
(*   "threadsafe"  rowSumsThreadsafe of MatrixRowSumsThreadsafe.java, a    *)
(*                 thread for each column and chunk of rows                *)
(*   "pool"        RowSumsThreadPool of MatrixRowSumsThreadPool.java       *)
(*   "rearrange"   ArrayRearrangement.java, three phases, same barrier     *)
(* A helper is the pair of its column, or id, and its first row.           *)
(***************************************************************************)
EXTENDS Integers, FiniteSetsExt

CONSTANTS COLUMNS,        \* THREADS_COUNT of the rearrangement
          ROWS,
          MAX_ROWS_PER_THREAD,
          PoolSize,
          definition(_, _),
          NONE            \* no adder yet

Column == 0..COLUMNS - 1
Rows   == 0..ROWS - 1

VARIABLES program,
          pc,           \* of every helper
          row,          \* of every helper; its phase when it rearranges
          rowSums,
          buffer,       \* buffer; data
          value,        \* read by a helper that rearranges
          atBarrier,    \* helpers asleep in await
          commandRow,   \* row of BufferReader; counter of printData
          broken,       \* the barrier is
          flagged,      \* helpers with their interrupt flag set
          mainPc

barrierVars == <<atBarrier, commandRow, broken, flagged>>
vars == <<program, pc, row, rowSums, buffer, value, barrierVars, mainPc>>

\* main's loop over chunks goes up to the row after the last.
Helpers(kind) ==
    IF kind = "threadsafe"
    THEN Column \X {first \in 0..ROWS : first % MAX_ROWS_PER_THREAD = 0}
    ELSE Column \X {0}
Helper == DOMAIN pc

End(h) ==
    CASE program = "threadsafe" ->
           Min({h[2] + MAX_ROWS_PER_THREAD, ROWS + 1})
      [] program = "rearrange" -> 3
      [] OTHER -> ROWS

Programs == {"barrier", "threadsafe", "pool", "rearrange"}

Start ==
    /\ program \in Programs
    /\ pc = [h \in Helpers(program) |-> IF program = "pool" THEN "queued" ELSE "work"]

Fresh ==
    /\ row = [h \in Column \X (0..ROWS) |-> h[2]]
    /\ rowSums = [r \in 0..ROWS |-> IF program \in {"threadsafe", "pool"} THEN NONE ELSE 0]
    /\ buffer = [c \in Column |-> 0]
    /\ value = [c \in Column |-> 0]
    /\ atBarrier = {} /\ commandRow = 0 /\ broken = FALSE /\ flagged = {}
    /\ mainPc = "join"

Init == Start /\ Fresh

\* The loops of rowSums() and BufferReader.run.
RowSum(cell) ==
    LET upTo[c \in 0..COLUMNS] == IF c = 0 THEN 0 ELSE upTo[c - 1] + cell[c - 1]
    IN  upTo[COLUMNS]

At(h, kinds, from) == program \in kinds /\ pc[h] = from
Goto(h, to) == pc' = [pc EXCEPT ![h] = to]

-----------------------------------------------------------------------------
(* What the helpers do between barriers.                                   *)

\* definition.applyAsInt(row, column) into the column's cell.
StoreCell(h) ==
    /\ At(h, {"barrier"}, "work")
    /\ buffer' = [buffer EXCEPT ![h[1]] = definition(row[h], h[1])]
    /\ Goto(h, "await")
    /\ UNCHANGED <<program, row, rowSums, value, barrierVars, mainPc>>

OtherEnd(h) == COLUMNS - 1 - h[1]

SetCell(h) ==
    /\ At(h, {"rearrange"}, "work") /\ row[h] \in {0, 2}
    /\ buffer' = [buffer EXCEPT ![h[1]] = IF row[h] = 0 THEN h[1] ELSE value[h[1]]]
    /\ Goto(h, "await")
    /\ UNCHANGED <<program, row, rowSums, value, barrierVars, mainPc>>

ReadOtherEnd(h) ==
    /\ At(h, {"rearrange"}, "work") /\ row[h] = 1
    /\ value' = [value EXCEPT ![h[1]] = buffer[OtherEnd(h)]]
    /\ Goto(h, "reset")
    /\ UNCHANGED <<program, row, rowSums, buffer, barrierVars, mainPc>>

ResetOtherEnd(h) ==
    /\ At(h, {"rearrange"}, "reset")
    /\ buffer' = [buffer EXCEPT ![OtherEnd(h)] = -1]
    /\ Goto(h, "await")
    /\ UNCHANGED <<program, row, rowSums, value, barrierVars, mainPc>>

-----------------------------------------------------------------------------
(* CyclicBarrier.await, under the lock of the barrier: the last to arrive  *)
(* runs the command while all others sleep, and lets them go.              *)

AfterRound(h) == IF row[h] + 1 = End(h) THEN "done" ELSE "work"

Last(h) == Cardinality(atBarrier \cup {h}) = COLUMNS

Passes(h) ==
    /\ At(h, {"barrier", "rearrange"}, "await")
    /\ h \notin flagged /\ ~broken

Sleep(h) ==
    /\ Passes(h) /\ ~Last(h)
    /\ atBarrier' = atBarrier \cup {h}
    /\ Goto(h, "asleep")
    /\ UNCHANGED <<program, row, rowSums, buffer, value, commandRow, broken, flagged, mainPc>>

\* BufferReader.run sums up the row; printData only counts.
Trip(h) ==
    /\ Passes(h) /\ Last(h)
    /\ rowSums' = IF program = "barrier"
                  THEN [rowSums EXCEPT ![commandRow] =
                          @ + RowSum(buffer)]
                  ELSE rowSums
    /\ commandRow' = commandRow + 1
    /\ LET going == atBarrier \cup {h}
       IN  /\ pc' = [u \in Helper |-> IF u \in going THEN AfterRound(u) ELSE pc[u]]
           /\ row' = [u \in DOMAIN row |-> IF u \in going THEN row[u] + 1 ELSE row[u]]
    /\ atBarrier' = {}
    /\ UNCHANGED <<program, buffer, value, broken, flagged, mainPc>>

\* A helper that was interrupted, before it came or in its sleep, or that
\* finds the barrier broken, breaks it for all and interrupts all, or itself.
Throw(h) ==
    /\ pc[h] \in {"await", "asleep"}
    /\ h \in flagged \/ broken
    /\ broken' = TRUE
    /\ flagged' = IF program = "rearrange" THEN flagged \cup {h} ELSE Helper
    /\ atBarrier' = atBarrier \ {h}
    /\ Goto(h, "done")
    /\ UNCHANGED <<program, row, rowSums, buffer, value, commandRow, mainPc>>

-----------------------------------------------------------------------------
(* The sums in a ConcurrentHashMap of LongAdders.                          *)

\* The pool takes the tasks in the order of invokeAll.
StartTask(h) ==
    /\ pc[h] = "queued"
    /\ \A u \in Helper : pc[u] = "queued" => h[1] <= u[1]
    /\ Cardinality({u \in Helper : pc[u] \in {"work", "add"}}) < PoolSize
    /\ Goto(h, "work")
    /\ UNCHANGED <<program, row, rowSums, buffer, value, barrierVars, mainPc>>

computeIfAbsent_slip(h) ==
    /\ At(h, {"threadsafe", "pool"}, "work")
    /\ rowSums' = [rowSums EXCEPT ![row[h]] = 0]
    /\ Goto(h, "add")
    /\ UNCHANGED <<program, row, buffer, value, barrierVars, mainPc>>
computeIfAbsent(h) ==
    /\ At(h, {"threadsafe", "pool"}, "work")
    /\ rowSums' = [rowSums EXCEPT ![row[h]] = IF @ = NONE THEN 0 ELSE @]
    /\ Goto(h, "add")
    /\ UNCHANGED <<program, row, buffer, value, barrierVars, mainPc>>

add(h) ==
    /\ pc[h] = "add"
    /\ rowSums' = [rowSums EXCEPT ![row[h]] = @ + definition(row[h], h[1])]
    /\ row' = [row EXCEPT ![h] = @ + 1]
    /\ Goto(h, AfterRound(h))
    /\ UNCHANGED <<program, buffer, value, barrierVars, mainPc>>

-----------------------------------------------------------------------------
Join ==
    /\ mainPc = "join" /\ \A h \in Helper : pc[h] = "done"
    /\ mainPc' = "joined"
    /\ UNCHANGED <<program, pc, row, rowSums, buffer, value, barrierVars>>

\* main is interrupted and goes on without the helpers.  It interrupts them,
\* which only a barrier notices; invokeAll cancels what has not begun; main of
\* the rearrangement interrupts nobody.  What main shows then, perhaps of rows
\* that nobody has begun, is left out.
InterruptMain ==
    /\ mainPc = "join"
    /\ mainPc' = "interrupted"
    /\ flagged' = IF program = "rearrange" THEN {} ELSE Helper
    /\ pc' = [h \in Helper |-> IF pc[h] = "queued" THEN "done" ELSE pc[h]]
    /\ UNCHANGED <<program, row, rowSums, buffer, value, atBarrier, commandRow, broken>>

HelperStep(h) ==
    \/ StoreCell(h) \/ SetCell(h) \/ ReadOtherEnd(h) \/ ResetOtherEnd(h)
    \/ Sleep(h) \/ Trip(h) \/ Throw(h)
    \/ StartTask(h) \/ computeIfAbsent(h) \/ add(h)

Next == Join \/ InterruptMain \/ \E h \in Helper : HelperStep(h)

Spec ==
    /\ Init /\ [][Next]_vars
    /\ WF_vars(Join)
    /\ \A h \in Helpers("threadsafe") :
         WF_vars(h \in Helper /\ HelperStep(h))

-----------------------------------------------------------------------------
HelpersDone ==
    program \in Programs =>
      mainPc \in {"joined", "interrupted"} /\ \A h \in Helper : pc[h] = "done"

\* When main has joined the helpers every row has the sum that rowSums() finds
\* alone, or the array is reversed: no helper has started its next row in the
\* buffer before the last one was summed up, no phase before all were through
\* the one before.
SumsRight ==
    program \in Programs /\ mainPc = "joined" =>
      IF program = "rearrange"
      THEN \A c \in Column : buffer[c] = COLUMNS - 1 - c
      ELSE \A r \in Rows :
             rowSums[r] = RowSum([c \in Column |-> definition(r, c)])
=============================================================================
