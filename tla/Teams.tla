------------------------------- MODULE Teams --------------------------------
(***************************************************************************)
(* main.cpp of Zaliczeniowe_3 for one Team object: any kind of team runs   *)
(* all the contests.                                                       *)
(***************************************************************************)
EXTENDS ThreadTeams, ProcessTeams

ASSUME InputsAssumption == Inputs \in Seq(Seq(Number))

\* Threads and children have the numbers of their jobs, and there are as many
\* as a team may start.
ASSUME WorkersAssumption ==
    /\ Thread \subseteq Nat \ {0} /\ Child \subseteq Nat \ {0}
    /\ 1..Size \subseteq Thread \cap Child
    /\ \A c \in 1..Len(Inputs) : 1..Len(Inputs[c]) \subseteq Thread \cap Child
    /\ Parent \notin Child
    /\ NoValue \notin Nat

vars == <<teamVars, threadVars, sharedVars, poolVars, processVars>>

Init == TeamInit /\ ThreadInit /\ ProcessInit

ThreadsRun == team \in ThreadTeam /\ ThreadNext /\ UNCHANGED processVars
ProcessesRun ==
    team \in ProcessTeam /\ ProcessNext /\ UNCHANGED <<threadVars, sharedVars, poolVars>>

Next == ThreadsRun \/ ProcessesRun

MainStep ==
    \/ team \in ThreadTeam /\ ThreadMain /\ UNCHANGED processVars
    \/ team \in ProcessTeam /\ ProcessMain /\ UNCHANGED <<threadVars, sharedVars, poolVars>>
WorkerStep(t) == team \in ThreadTeam /\ Worker(t) /\ UNCHANGED processVars
ChildStep(j) ==
    team \in ProcessTeam /\ NewProcess(j) /\ UNCHANGED <<threadVars, sharedVars, poolVars>>

Fairness ==
    /\ WF_vars(MainStep)
    /\ \A t \in Thread : WF_vars(WorkerStep(t))
    /\ \A j \in Child : WF_vars(ChildStep(j))

Spec == Init /\ [][Next]_vars /\ Fairness

-----------------------------------------------------------------------------
(* Properties                                                              *)

\* The threads that exist, and the children not yet waited for.
LiveWorkers ==
    IF team \in ThreadTeam
    THEN {t \in Thread : thread[t].pc \in {"run", "ended"}}
    ELSE {j \in Child : child[j].pc \notin {"none", "reaped"}}

\* A team never has more workers than its size, and a slot of the process
\* teams never two children, which would take each other's tasks.  The size
\* does not limit TeamAsync.
WorkersBounded ==
    /\ team # "Async" => Cardinality(LiveWorkers) <= Size
    /\ team \in ProcessTeam =>
         \A i, j \in LiveWorkers : Slot(i) = Slot(j) => i = j

\* When a contest has returned nothing of it is left: no thread that could
\* touch the promises and tasks of the frame that is gone, no child that is
\* not waited for, no pipe that is named or open.  (A worker of the pool
\* keeps its packaged task, never the frame.)
NothingLeftBehind ==
    main.pc = "idle" =>
       /\ team \notin {"Pool"} \cup ProcessTeam => LiveWorkers = {}
       /\ team = "Pool" => tasks_ = <<>> /\ \A t \in Thread : call[t].pc = "idle"
       /\ team \in ProcessTeam => LiveWorkers = {}
       /\ \A f \in Pipes : ~pipe[f].named /\ ~InUse(pipe[f])

\* Every team answers every contest as TeamSolo does, in whatever order its
\* workers finish (the assertion of main.cpp).
TheContest == INSTANCE Contest
AnswersContests == TheContest!ContestSpec

\* Every contest returns, and the workers of a pool end with its destructor:
\* nobody waits for a notification, an opening of a pipe or an exit of a
\* child that never comes.
ContestsEnd ==
    <>[](/\ Len(answers) = Len(Inputs)
         /\ \A t \in Thread : thread[t].pc \notin {"run", "ended"})
=============================================================================
