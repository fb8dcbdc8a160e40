------------------------------ MODULE TwoWriters ----------------------------
(***************************************************************************)
(* Two threads that print whole lines without a lock of the library:       *)
(*   "synchronized"  Lab_1 TwoWritersSynchronized.java, strictly in turn   *)
(*   "peterson"      Lab_2 TwoWritersPeterson.java, Peterson's algorithm   *)
(* Each access to a volatile variable is a step, and so is each character. *)
(***************************************************************************)
EXTENDS Naturals, Sequences

CONSTANTS LINES_COUNT, LINE_LENGTH

Writer == {0, 1}
Other(t) == 1 - t

VARIABLES program,
          pc,
          lines,         \* printed by each writer
          line,          \* who printed the characters of the present line
          interested,    \* lettersIsInterested, digitsIsInterested
          waiting,       \* of Peterson; currentId of the other program
          interrupted    \* main was, and interrupted both writers

turnVars == <<interested, waiting>>
vars == <<program, pc, lines, line, turnVars, interrupted>>

Programs == {"synchronized", "peterson"}

Start ==
    /\ program \in Programs
    /\ pc = [t \in Writer |-> "idle"]

Fresh ==
    /\ lines = [t \in Writer |-> 0]
    /\ line = <<>>
    /\ interested = [t \in Writer |-> FALSE]
    /\ waiting = 0
    /\ interrupted = {}

Init == Start /\ Fresh

Goto(t, from, to) == pc[t] = from /\ pc' = [pc EXCEPT ![t] = to]

\* while (currentId != id)
AwaitTurn(t) ==
    /\ program = "synchronized"
    /\ waiting = t
    /\ Goto(t, "idle", "print")
    /\ UNCHANGED <<program, lines, line, turnVars, interrupted>>

-----------------------------------------------------------------------------
(* Peterson's algorithm.  An interrupt ends a writer in its next sleep.    *)

busyWork(t) ==
    /\ program = "peterson"
    /\ Goto(t, "idle", IF t \in interrupted THEN "done" ELSE "interest")
    /\ UNCHANGED <<program, lines, line, turnVars, interrupted>>

\* The two assignments before the loop, in this order.
SetInterested(t) == interested' = [interested EXCEPT ![t] = TRUE] /\ UNCHANGED waiting
SetWaiting(t)    == waiting' = t /\ UNCHANGED interested

Announce_slip(t) ==
    /\ \/ Goto(t, "interest", "yield") /\ SetWaiting(t)
       \/ Goto(t, "yield", "test") /\ SetInterested(t)
    /\ UNCHANGED <<program, lines, line, interrupted>>
Announce(t) ==
    /\ \/ Goto(t, "interest", "yield") /\ SetInterested(t)
       \/ Goto(t, "yield", "test") /\ SetWaiting(t)
    /\ UNCHANGED <<program, lines, line, interrupted>>

TestInterest(t) ==
    /\ Goto(t, "test", IF interested[Other(t)] THEN "testTurn" ELSE "print")
    /\ UNCHANGED <<program, lines, line, turnVars, interrupted>>

TestTurn(t) ==
    /\ Goto(t, "testTurn", IF waiting = t THEN "test" ELSE "print")
    /\ UNCHANGED <<program, lines, line, turnVars, interrupted>>

\* main waits in join until the writers have ended; interrupted, it interrupts
\* both, in one step, since neither looks at the flag of the other.
InterruptMain ==
    /\ program = "peterson" /\ interrupted = {}
    /\ \E t \in Writer : pc[t] # "done"
    /\ interrupted' = Writer
    /\ UNCHANGED <<program, pc, lines, line, turnVars>>

-----------------------------------------------------------------------------
Written(t) == Len(SelectSeq(line, LAMBDA u : u = t))

PrintChar(t) ==
    /\ pc[t] = "print" /\ Written(t) < LINE_LENGTH
    /\ line' = Append(line, t)
    /\ UNCHANGED <<program, pc, lines, turnVars, interrupted>>

Println(t) ==
    /\ Written(t) = LINE_LENGTH
    /\ Goto(t, "print", "exit")
    /\ line' = <<>>
    /\ lines' = [lines EXCEPT ![t] = @ + 1]
    /\ UNCHANGED <<program, turnVars, interrupted>>

\* currentId is read and written in one step: nobody else writes it then.
Leave(t) ==
    /\ Goto(t, "exit", IF lines[t] = LINES_COUNT THEN "done" ELSE "idle")
    /\ IF program = "peterson"
       THEN interested' = [interested EXCEPT ![t] = FALSE] /\ UNCHANGED waiting
       ELSE waiting' = Other(waiting) /\ UNCHANGED interested
    /\ UNCHANGED <<program, lines, line, interrupted>>

Step(t) ==
    \/ AwaitTurn(t)
    \/ busyWork(t) \/ Announce(t) \/ TestInterest(t) \/ TestTurn(t)
    \/ PrintChar(t) \/ Println(t) \/ Leave(t)

Next == InterruptMain \/ \E t \in Writer : Step(t)

\* Each thread runs; nobody has to interrupt.
Spec == Init /\ [][Next]_vars /\ \A t \in Writer : WF_vars(Step(t))

-----------------------------------------------------------------------------
\* No line mixes the characters of the two writers, and in the program where
\* they take turns neither is ever two lines ahead.
LinesWhole ==
    program \in Programs =>
    /\ \A i, j \in 1..Len(line) : line[i] = line[j]
    /\ program = "synchronized" => lines[1] <= lines[0] /\ lines[0] <= lines[1] + 1

WritersDone == program \in Programs => \A t \in Writer : pc[t] = "done"

\* A writer that was not interrupted ends with all its lines printed.
AllPrinted ==
    program \in Programs =>
      \A t \in Writer : pc[t] = "done" => t \in interrupted \/ lines[t] = LINES_COUNT
=============================================================================
