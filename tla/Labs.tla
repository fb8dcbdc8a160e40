-------------------------------- MODULE Labs --------------------------------
(***************************************************************************)
(* The programs of the labs whose threads end, side by side: a behaviour   *)
(* is one run of one of them, and what belongs to the others stays as it   *)
(* was at the start.                                                       *)
(***************************************************************************)
EXTENDS Buffers

CONSTANTS LINES_COUNT, LINE_LENGTH,                              \* TwoWriters
          COLUMNS, ROWS, MAX_ROWS_PER_THREAD, PoolSize,          \* Barriers
          definition(_, _), NONE,
          Worker, Tasks                                          \* HomemadeFuture

ASSUME LabsAssumption ==
    /\ {LINES_COUNT, LINE_LENGTH, COLUMNS, ROWS, MAX_ROWS_PER_THREAD,
        PoolSize, Tasks} \subseteq Nat \ {0}
    /\ IsFiniteSet(Worker) /\ Worker # {}

\* An IntBinaryOperator, and the absence of a LongAdder.
ASSUME DefinitionAssumption ==
    /\ \A r \in 0..ROWS, c \in 0..COLUMNS - 1 : definition(r, c) \in Int
    /\ NONE \notin Int

VARIABLES lines, line, interested, waiting, interrupted,
          row, rowSums, cells, value, atBarrier, commandRow, broken, mainPc,
          handleQueue, channel, result, submitted, lost, missed, stopped, handle,
          flagged

writersVars == <<lines, line, interested, waiting, interrupted>>
sumsVars    == <<row, rowSums, cells, value, atBarrier, commandRow, broken, mainPc>>
futuresVars == <<handleQueue, channel, result, submitted, lost, missed, stopped, handle>>
labsVars    == <<vars, writersVars, sumsVars, futuresVars, flagged>>

Writers == INSTANCE TwoWriters
Sums    == INSTANCE Barriers WITH buffer <- cells
Futures == INSTANCE HomemadeFuture

LabsInit ==
    /\ UsersStart \/ Writers!Start \/ Sums!Start \/ Futures!Start
    /\ Fresh /\ Writers!Fresh /\ Sums!Fresh /\ Futures!Fresh

BuffersRun == UNCHANGED <<writersVars, sumsVars, futuresVars, flagged>>
WritersRun == UNCHANGED <<bufferVars, sumsVars, futuresVars, flagged>>
SumsRun    == UNCHANGED <<bufferVars, writersVars, futuresVars>>
FuturesRun == UNCHANGED <<bufferVars, writersVars, sumsVars>>

BuffersStep(t) == program \in BufferPrograms /\ Step(t) /\ BuffersRun
WritersStep(t) == program \in Writers!Programs /\ Writers!Step(t) /\ WritersRun
SumsStep(h) ==
    program \in Sums!Programs /\ h \in DOMAIN pc /\ Sums!HelperStep(h) /\ SumsRun
SumsJoin == program \in Sums!Programs /\ Sums!Join /\ SumsRun
FuturesMain == program = "futures" /\ Futures!MainStep /\ FuturesRun
FuturesStep(w) == program = "futures" /\ Futures!WorkerStep(w) /\ FuturesRun

\* What no thread is obliged to do.
Unasked ==
    \/ program \in BufferPrograms /\ (\E t \in User : Spurious(t)) /\ BuffersRun
    \/ program \in Writers!Programs /\ Writers!InterruptMain /\ WritersRun
    \/ program \in Sums!Programs /\ Sums!InterruptMain /\ SumsRun
    \/ program = "futures" /\ Futures!InterruptMain /\ FuturesRun

LabsNext ==
    \/ \E t \in User : BuffersStep(t)
    \/ \E t \in Writers!Writer : WritersStep(t)
    \/ SumsJoin \/ \E h \in Sums!Helpers("threadsafe") : SumsStep(h)
    \/ FuturesMain \/ \E w \in Worker : FuturesStep(w)
    \/ Unasked

\* Each thread of each program goes on when it can.
LabsSpec ==
    /\ LabsInit /\ [][LabsNext]_labsVars
    /\ \A t \in User : WF_labsVars(BuffersStep(t))
    /\ \A t \in Writers!Writer : WF_labsVars(WritersStep(t))
    /\ WF_labsVars(SumsJoin)
    /\ \A h \in Sums!Helpers("threadsafe") : WF_labsVars(SumsStep(h))
    /\ WF_labsVars(FuturesMain)
    /\ \A w \in Worker : WF_labsVars(FuturesStep(w))

-----------------------------------------------------------------------------
(* SlotsApart and FirstInFirstOut are those of Buffers.                    *)

\* No line mixes two writers, in whatever order the accesses to the volatile
\* variables of TwoWritersPeterson.java and TwoWritersSynchronized.java come.
LinesWhole == Writers!LinesWhole

\* What a program gives when it ends is right: the lines are all there, the
\* row sums of labs 3 to 5 are those of rowSums(), the array is rearranged,
\* and every future of HomemadeFuture.java gets the result of its own
\* computation.
ResultsRight == Writers!AllPrinted /\ Sums!SumsRight /\ Futures!FuturesRight

\* Every thread of every program ends.  None is left waiting for an item or
\* for room in a buffer, and the reindeers of gifts.c, who divide the gifts
\* among them as they come, find one more and none too many; no writer spins
\* for ever on what the other does not change any more; no helper waits at a
\* barrier for helpers that were interrupted; no worker of the pool sleeps
\* through its interrupt or loses a result to it.  (Of HomemadeFuture.java that
\* is so if main itself is not interrupted in submit or in get: see FuturesDone.)
AllEnd == <>(UsersDone /\ Writers!WritersDone /\ Sums!HelpersDone /\ Futures!FuturesDone)
=============================================================================
