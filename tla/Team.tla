-------------------------------- MODULE Team --------------------------------
(***************************************************************************)
(* What the teams of Zaliczeniowe_3 (teams.hpp, teams.cpp) have in common: *)
(* the contest being run, its results so far, and where the main thread is *)
(* in runContest.  main.cpp keeps each Team object for all its contests.   *)
(***************************************************************************)
EXTENDS Naturals, Sequences, FiniteSets

CONSTANTS Inputs,    \* the contests, each a sequence of numbers
          Size       \* the team's limit of workers

ASSUME TeamAssumption == Size \in Nat \ {0}

VARIABLES team,      \* the class of the Team object
          share,     \* it was made with shareResults
          answers,   \* what its runContest returned so far
          main,      \* the main thread: pc, jobs started, jobs collected
          r          \* ContestResult r

teamVars == <<team, share, answers, main, r>>

ThreadTeam  == {"NewThreads", "ConstThreads", "Pool", "Async"}
ProcessTeam == {"NewProcesses", "ConstProcesses"}
TeamKind    == ThreadTeam \cup ProcessTeam

contestInput == Inputs[Len(answers) + 1]
InContest    == main.pc # "idle"
TaskCount    == IF Len(answers) < Len(Inputs) THEN Len(contestInput) ELSE 0

TeamInit ==
    /\ team \in TeamKind
    /\ share \in BOOLEAN
    /\ team \in ProcessTeam => ~share
    /\ answers = <<>>
    /\ main = [pc |-> "idle", next |-> 1, oldest |-> 1]
    /\ r = <<>>

Runs(kinds, pc) == team \in kinds /\ main.pc = pc

Goto(pc) == main' = [main EXCEPT !.pc = pc]

\* A team gives each task a worker, or deals the tasks out to Size workers.
JobCount == IF team \in {"ConstThreads", "ConstProcesses"} THEN Size ELSE TaskCount

\* The tasks i with i % Size = job, in the order of the input.
Deal(job) ==
    LET share_of(k) == job + (k - 1) * Size
        n == Cardinality({k \in 1..TaskCount : share_of(k) <= TaskCount})
    IN  [k \in 1..n |-> share_of(k)]

Work(job) == IF team \in {"ConstThreads", "ConstProcesses"} THEN Deal(job) ELSE <<job>>

AllStarted == main.next > JobCount
Full == main.next - main.oldest = Size

runContest ==
    /\ Len(answers) < Len(Inputs)
    /\ main' = [pc |-> "loop", next |-> 1, oldest |-> 1]
    /\ r' = [i \in 1..TaskCount |-> 0]
    /\ UNCHANGED <<team, share, answers>>

Return ==
    /\ answers' = Append(answers, r)
    /\ main' = [main EXCEPT !.pc = "idle"]
    /\ UNCHANGED <<team, share, r>>
=============================================================================
