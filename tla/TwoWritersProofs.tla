-------------------------- MODULE TwoWritersProofs --------------------------
(***************************************************************************)
(* The lines of two writers stay whole, however long the lines are and     *)
(* however many, and none is missing at the end.                           *)
(***************************************************************************)
EXTENDS TwoWriters, SequenceTheorems, TLAPS

Places == {"idle", "interest", "yield", "test", "testTurn", "print", "exit", "done"}

\* From its second assignment on a writer competes, until it has left.
Competing == {"test", "testTurn", "print", "exit"}
Inside    == {"print", "exit"}

TypeOK ==
    /\ program \in Programs
    /\ pc \in [Writer -> Places]
    /\ lines \in [Writer -> Nat]
    /\ line \in Seq(Writer)
    /\ interested \in [Writer -> BOOLEAN]
    /\ waiting \in Writer

\* Whose characters stand in the line is not through with it.
LineOwned == \A i \in 1..Len(line) : pc[line[i]] = "print"

\* The writer inside is the one whose turn it is, and its turn says how many
\* lines there are.
TurnsInv ==
    program = "synchronized" =>
      /\ \A t \in Writer : pc[t] \in Inside \cup {"idle", "done"}
      /\ \A t \in Writer : pc[t] \in Inside => waiting = t
      /\ waiting = 0 => lines[0] = lines[1] + (IF pc[0] = "exit" THEN 1 ELSE 0)
      /\ waiting = 1 => lines[0] = lines[1] + (IF pc[1] = "exit" THEN 0 ELSE 1)

\* A writer that competes has said so; and who competes with the one inside
\* has given way to it.
PetersonInv ==
    program = "peterson" =>
      /\ \A t \in Writer : interested[t] <=> pc[t] \in Competing \cup {"yield"}
      /\ \A t, u \in Writer :
           t # u /\ pc[t] \in Inside /\ pc[u] \in Competing => waiting = u

WritersInv == TypeOK /\ LineOwned /\ TurnsInv /\ PetersonInv

-----------------------------------------------------------------------------
\* The volatile variables and the counters at the start.
LEMMA InitInv == Init => WritersInv
<1> SUFFICES ASSUME Init PROVE WritersInv
  OBVIOUS
<1> USE DEF Init, Start, Fresh, Programs, Writer
<1>1. TypeOK
  BY DEF TypeOK, Places
<1>2. LineOwned
  BY DEF LineOwned
<1>3. TurnsInv
  BY DEF TurnsInv, Inside
<1>4. PetersonInv
  BY DEF PetersonInv, Inside, Competing
<1> QED
  BY <1>1, <1>2, <1>3, <1>4 DEF WritersInv

\* One writer changes its place, and the line stays.
LEMMA LineOwnedMove ==
  ASSUME WritersInv, NEW t \in Writer, NEW from, NEW to,
         Goto(t, from, to), from # "print", UNCHANGED line
  PROVE  LineOwned'
<1>1. ASSUME NEW i \in 1..Len(line) PROVE line[i] \in Writer /\ pc[line[i]] = "print"
  BY DEF WritersInv, TypeOK, LineOwned
<1> QED
  BY <1>1 DEF LineOwned, Goto, WritersInv, TypeOK

\* The writers that take turns.
LEMMA AwaitTurnInv ==
  ASSUME WritersInv, NEW t \in Writer, AwaitTurn(t)
  PROVE  WritersInv'
<1> USE DEF AwaitTurn, turnVars
<1>1. LineOwned'
  BY LineOwnedMove
<1>2. TypeOK'
  BY DEF WritersInv, TypeOK, Goto, Places
<1>3. TurnsInv' /\ PetersonInv'
  BY DEF WritersInv, TypeOK, TurnsInv, PetersonInv, Goto, Inside, Writer
<1> QED
  BY <1>1, <1>2, <1>3 DEF WritersInv

\* Peterson's steps before the critical section: only what the writer that
\* steps has read of the other matters.
LEMMA CompeteInv ==
  ASSUME WritersInv, NEW t \in Writer,
         busyWork(t) \/ Announce(t) \/ TestInterest(t) \/ TestTurn(t)
  PROVE  WritersInv'
<1> USE DEF turnVars
<1>0. program = "peterson" /\ program' = program
  <2>1. program = "peterson" \/ pc[t] \in {"interest", "yield", "test", "testTurn"}
    BY DEF busyWork, Announce, TestInterest, TestTurn, Goto
  <2>2. program \in {"synchronized", "peterson"}
    BY DEF WritersInv, TypeOK, Programs
  <2> QED
    BY <2>1, <2>2
       DEF WritersInv, TurnsInv, Inside, busyWork, Announce, TestInterest, TestTurn
<1>1. LineOwned'
  BY LineOwnedMove DEF busyWork, Announce, TestInterest, TestTurn
<1>2. TypeOK'
  BY DEF WritersInv, TypeOK, Goto, Places, busyWork, Announce, SetInterested,
         SetWaiting, TestInterest, TestTurn
<1>3. TurnsInv'
  BY <1>0 DEF TurnsInv
<1>4. ASSUME busyWork(t) PROVE PetersonInv'
  BY <1>0, <1>4 DEF WritersInv, TypeOK, PetersonInv, busyWork, Goto, Inside, Competing
<1>5. ASSUME Goto(t, "interest", "yield") /\ SetInterested(t) PROVE PetersonInv'
  BY <1>0, <1>5 DEF WritersInv, TypeOK, PetersonInv, SetInterested, Goto, Inside, Competing
<1>6. ASSUME Goto(t, "yield", "test") /\ SetWaiting(t) PROVE PetersonInv'
  BY <1>0, <1>6
     DEF WritersInv, TypeOK, PetersonInv, SetWaiting, Goto, Inside, Competing, Writer
<1>7. ASSUME TestInterest(t) PROVE PetersonInv'
  BY <1>0, <1>7
     DEF WritersInv, TypeOK, PetersonInv, TestInterest, Goto, Inside, Competing, Other,
         Writer
<1>8. ASSUME TestTurn(t) PROVE PetersonInv'
  BY <1>0, <1>8
     DEF WritersInv, TypeOK, PetersonInv, TestTurn, Goto, Inside, Competing, Writer
<1>9. PetersonInv'
  BY <1>4, <1>5, <1>6, <1>7, <1>8, <1>0
     DEF Announce
<1> QED
  BY <1>1, <1>2, <1>3, <1>9 DEF WritersInv

\* Characters and lines.
LEMMA PrintInv ==
  ASSUME WritersInv, NEW t \in Writer, PrintChar(t) \/ Println(t)
  PROVE  WritersInv'
<1> USE DEF turnVars
<1>1. CASE PrintChar(t)
  <2>1. line \in Seq(Writer) /\ line' = Append(line, t)
    BY <1>1 DEF PrintChar, WritersInv, TypeOK
  <2>2. /\ line' \in Seq(Writer) /\ Len(line') = Len(line) + 1
        /\ \A i \in 1..Len(line) : line'[i] = line[i]
        /\ line'[Len(line) + 1] = t
    BY <2>1, AppendProperties
  <2>3. TypeOK'
    BY <1>1, <2>2 DEF PrintChar, WritersInv, TypeOK
  <2>4. LineOwned'
    BY <1>1, <2>1, <2>2, LenProperties DEF PrintChar, WritersInv, LineOwned
  <2>5. TurnsInv' /\ PetersonInv'
    BY <1>1 DEF PrintChar, WritersInv, TurnsInv, PetersonInv
  <2> QED
    BY <2>3, <2>4, <2>5 DEF WritersInv
<1>2. CASE Println(t)
  <2>1. TypeOK'
    BY <1>2 DEF Println, WritersInv, TypeOK, Goto, Places
  <2>2. LineOwned'
    BY <1>2 DEF Println, LineOwned
  <2>3. TurnsInv'
    BY <1>2 DEF Println, WritersInv, TypeOK, TurnsInv, Goto, Inside, Writer
  <2>4. PetersonInv'
    BY <1>2 DEF Println, WritersInv, TypeOK, PetersonInv, Goto, Inside, Competing
  <2> QED
    BY <2>1, <2>2, <2>3, <2>4 DEF WritersInv
<1> QED
  BY <1>1, <1>2

\* The end of a round: the turn is handed over, or the interest is given up.
LEMMA LeaveInv ==
  ASSUME WritersInv, NEW t \in Writer, Leave(t)
  PROVE  WritersInv'
<1> DEFINE to == IF lines[t] = LINES_COUNT THEN "done" ELSE "idle"
<1>1. /\ Goto(t, "exit", to) /\ to \in {"done", "idle"}
      /\ UNCHANGED <<program, lines, line>>
  BY DEF Leave
<1> HIDE DEF to
<1>2. LineOwned'
  BY <1>1, LineOwnedMove
<1>3. TypeOK'
  BY <1>1 DEF Leave, WritersInv, TypeOK, Goto, Places, Writer, Other
<1>4. TurnsInv'
  BY <1>1 DEF Leave, WritersInv, TypeOK, TurnsInv, Goto, Inside, Writer, Other
<1>5. PetersonInv'
  BY <1>1 DEF Leave, WritersInv, TypeOK, PetersonInv, Goto, Inside, Competing
<1> QED
  BY <1>2, <1>3, <1>4, <1>5 DEF WritersInv

\* Every step of the two programs keeps the invariant.
LEMMA NextInv == WritersInv /\ [Next]_vars => WritersInv'
<1> SUFFICES ASSUME WritersInv, [Next]_vars PROVE WritersInv'
  OBVIOUS
<1> USE DEF WritersInv, TypeOK, LineOwned, TurnsInv, PetersonInv
<1>1. CASE InterruptMain
  BY <1>1 DEF InterruptMain, turnVars
<1>2. CASE UNCHANGED vars
  BY <1>2 DEF vars, turnVars
<1>3. ASSUME NEW t \in Writer, Step(t) PROVE WritersInv'
  BY <1>3, AwaitTurnInv, CompeteInv, PrintInv, LeaveInv DEF Step
<1> QED
  BY <1>1, <1>2, <1>3 DEF Next

\* Two writers with characters in the line would both be inside, and each
\* would have given way to the other.
LEMMA InvWhole == WritersInv => LinesWhole
<1> SUFFICES ASSUME WritersInv PROVE LinesWhole
  OBVIOUS
<1>1. \A t, u \in Writer : pc[t] = "print" /\ pc[u] = "print" => t = u
  BY DEF WritersInv, TypeOK, Programs, TurnsInv, PetersonInv, Inside, Competing
<1>2. \A i, j \in 1..Len(line) : line[i] = line[j]
  <2> SUFFICES ASSUME NEW i \in 1..Len(line), NEW j \in 1..Len(line)
               PROVE  line[i] = line[j]
    OBVIOUS
  <2>1. line[i] \in Writer /\ line[j] \in Writer
    BY DEF WritersInv, TypeOK
  <2> QED
    BY <1>1, <2>1 DEF WritersInv, LineOwned
<1>3. program = "synchronized" => lines[1] <= lines[0] /\ lines[0] <= lines[1] + 1
  BY DEF WritersInv, TypeOK, TurnsInv, Writer
<1> QED
  BY <1>2, <1>3 DEF LinesWhole

\* No line of TwoWritersPeterson.java or TwoWritersSynchronized.java mixes the
\* characters of the two writers, and in the latter they take turns, whatever
\* the length and the number of the lines.
THEOREM WholeLines == Spec => []LinesWhole
BY InitInv, NextInv, InvWhole, PTL DEF Spec

\* A writer ends with all its lines printed, or in its sleep when it has been
\* interrupted; interrupted it stays, and at its end it prints no more.
LEMMA PrintedStep == WritersInv /\ AllPrinted /\ [Next]_vars => AllPrinted'
<1> SUFFICES ASSUME WritersInv, AllPrinted, [Next]_vars PROVE AllPrinted'
  OBVIOUS
<1> USE DEF turnVars
<1>1. /\ program \in Programs /\ pc \in [Writer -> Places] /\ lines \in [Writer -> Nat]
      /\ \A u \in Writer : pc[u] = "done" => u \in interrupted \/ lines[u] = LINES_COUNT
  BY DEF WritersInv, TypeOK, AllPrinted
<1>2. ASSUME NEW t \in Writer, Step(t) PROVE AllPrinted'
  <2>1. CASE Leave(t)
    BY <1>1, <2>1 DEF AllPrinted, Leave, Goto
  <2>2. CASE busyWork(t)
    BY <1>1, <2>2 DEF AllPrinted, busyWork, Goto
  <2>3. CASE Println(t)
    BY <1>1, <2>3 DEF AllPrinted, Println, Goto
  <2>4. CASE AwaitTurn(t) \/ Announce(t) \/ TestInterest(t) \/ TestTurn(t) \/ PrintChar(t)
    BY <1>1, <2>4
       DEF AllPrinted, AwaitTurn, Announce, TestInterest, TestTurn, PrintChar, Goto
  <2> QED BY <1>2, <2>1, <2>2, <2>3, <2>4 DEF Step
<1>3. CASE InterruptMain
  BY <1>1, <1>3 DEF AllPrinted, InterruptMain
<1>4. CASE UNCHANGED vars
  BY <1>4 DEF AllPrinted, vars
<1> QED BY <1>2, <1>3, <1>4 DEF Next

LEMMA InitPrinted == Init => AllPrinted
BY DEF Init, Start, Fresh, AllPrinted

\* When the writers of the two programs end their lines are all there, but for
\* those of a writer that main has interrupted.
THEOREM AllLines == Spec => []AllPrinted
<1>1. Init => WritersInv /\ AllPrinted
  BY InitInv, InitPrinted
<1>2. WritersInv /\ AllPrinted /\ [Next]_vars => WritersInv' /\ AllPrinted'
  BY NextInv, PrintedStep
<1> QED BY <1>1, <1>2, PTL DEF Spec
=============================================================================
