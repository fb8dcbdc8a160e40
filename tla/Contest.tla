------------------------------ MODULE Contest -------------------------------
(***************************************************************************)
(* What a team promises, whatever it is made of: it answers the contests   *)
(* one after another, each with the results of TeamSolo, the team that     *)
(* main.cpp runs first and compares all the others with.                   *)
(***************************************************************************)
EXTENDS Collatz, Sequences

CONSTANT Inputs      \* the contests, each a sequence of numbers
VARIABLE answers     \* the ContestResults returned so far

\* TeamSolo::runContest
SoloResult(input) == [i \in DOMAIN input |-> calcCollatz[input[i]]]

ContestInit == answers = <<>>

runContest ==
    /\ Len(answers) < Len(Inputs)
    /\ answers' = Append(answers, SoloResult(Inputs[Len(answers) + 1]))

ContestSpec == ContestInit /\ [][runContest]_answers
=============================================================================
