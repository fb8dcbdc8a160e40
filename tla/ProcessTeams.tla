---------------------------- MODULE ProcessTeams ----------------------------
(***************************************************************************)
(* TeamNewProcesses and TeamConstProcesses of teams.cpp, with the program  *)
(* new_process that their children execute.  Slot s has two named pipes,   *)
(* /tmp/task-s and /tmp/result-s.  A job is one child: one task in a slot  *)
(* that is used again (NewProcesses), or all tasks of a slot               *)
(* (ConstProcesses).                                                       *)
(*                                                                         *)
(* Each call of the operating system that another process can notice is a  *)
(* step.  A call that fails, and a read that meets the end of the stream   *)
(* or another kind of message than it is meant for, sets failed: the code  *)
(* exits there, or goes on with what it has not read.                      *)
(***************************************************************************)
EXTENDS Team, Collatz

CONSTANTS Child,     \* the children of a contest, numbered by their jobs
          Parent     \* the process of main.cpp

VARIABLES pipe,      \* pipe[kind, slot]
          child,     \* child[j]
          io,        \* what the parent still writes, or reads, of this job
          failed

processVars == <<pipe, child, io, failed>>

-----------------------------------------------------------------------------
(* The named pipes of the operating system, as far as teams.cpp and        *)
(* new_process.cpp use them.  A pipe lives on after its name is unlinked,  *)
(* as long as someone has it open.  open blocks until the other end is     *)
(* opened too; whoever opens second wakes the one that waits.              *)

NoPipe == [named |-> FALSE, readers |-> {}, writers |-> {}, opening |-> {}, data |-> <<>>]

mkfifo == [NoPipe EXCEPT !.named = TRUE]

unlink(fifo) == [fifo EXCEPT !.named = FALSE]

OpenToRead(fifo, p) ==
    [fifo EXCEPT !.readers = @ \cup {p},
                 !.opening = IF fifo.writers = {} THEN @ \cup {p} ELSE @ \ fifo.writers]

OpenToWrite(fifo, p) ==
    [fifo EXCEPT !.writers = @ \cup {p},
                 !.opening = IF fifo.readers = {} THEN @ \cup {p} ELSE @ \ fifo.readers]

\* read has something to return: a message, or the end of the stream.
Readable(fifo) == fifo.data # <<>> \/ fifo.writers = {}
AtEnd(fifo) == fifo.data = <<>>

read(fifo) == IF AtEnd(fifo) THEN fifo ELSE [fifo EXCEPT !.data = Tail(@)]

\* A write that nobody can read any more ends its writer (SIGPIPE).
Broken(fifo) == fifo.readers = {}

write(fifo, message) == [fifo EXCEPT !.data = Append(@, message)]

close(fifo, p) == [fifo EXCEPT !.readers = @ \ {p}, !.writers = @ \ {p}]

InUse(fifo) == fifo.readers \cup fifo.writers # {}

-----------------------------------------------------------------------------
Slots   == 1..Size
Slot(j) == 1 + ((j - 1) % Size)
Task(s) == <<"task", s>>
Result(s) == <<"result", s>>
Pipes   == {"task", "result"} \X Slots

NoChild == [pc |-> "none", count |-> 0, got |-> <<>>, results |-> <<>>]

ProcessInit ==
    /\ pipe = [f \in Pipes |-> NoPipe]
    /\ child = [j \in Child |-> NoChild]
    /\ io = <<>>
    /\ failed = FALSE

Message(kind, n) == [kind |-> kind, of |-> n]

\* What new_process reads: how many numbers, then the digits and the text
\* of each.
Order_slip(work) ==
    <<Message("count", Len(work) + 1)>> \o
    [k \in 1..2 * Len(work) |->
        Message(IF k % 2 = 1 THEN "digits" ELSE "text", contestInput[work[(k + 1) \div 2]])]
Order(work) ==
    <<Message("count", Len(work))>> \o
    [k \in 1..2 * Len(work) |->
        Message(IF k % 2 = 1 THEN "digits" ELSE "text", contestInput[work[(k + 1) \div 2]])]

Blocked(p) == \E f \in Pipes : p \in pipe[f].opening

\* A read of a message of this kind by p, that keeps nothing else.
Reads(p, f, kind) ==
    /\ ~Blocked(p)
    /\ Readable(pipe[f])
    /\ failed' = (AtEnd(pipe[f]) \/ Head(pipe[f].data).kind # kind)
    /\ pipe' = [pipe EXCEPT ![f] = read(@)]

Writes(p, f, message) ==
    /\ ~Blocked(p)
    /\ failed' = Broken(pipe[f])
    /\ pipe' = [pipe EXCEPT ![f] = write(@, message)]

Closes(p, f, unlinked) ==
    /\ ~Blocked(p)
    /\ failed' = (unlinked /\ ~pipe[f].named)
    /\ pipe' = [pipe EXCEPT ![f] = LET q == close(@, p)
                                   IN  IF unlinked THEN unlink(q) ELSE q]

-----------------------------------------------------------------------------
(* new_process                                                             *)

SetChild(j, c) == child' = [child EXCEPT ![j] = c]

ChildOpensTask(j) ==
    /\ child[j].pc = "start"
    /\ pipe' = [pipe EXCEPT ![Task(Slot(j))] = OpenToRead(@, j)]
    /\ SetChild(j, [child[j] EXCEPT !.pc = "count"])
    /\ UNCHANGED failed

ChildReads(j) ==
    LET c == child[j]
        f == Task(Slot(j))
        m == Head(pipe[f].data)
    IN  /\ c.pc \in {"count", "digits", "text"}
        /\ c.pc = "digits" => Len(c.got) < c.count
        /\ Reads(j, f, c.pc)
        /\ SetChild(j, IF failed' THEN c
                       ELSE CASE c.pc = "count"  -> [c EXCEPT !.pc = "digits", !.count = m.of]
                              [] c.pc = "digits" -> [c EXCEPT !.pc = "text"]
                              [] c.pc = "text"   -> [c EXCEPT !.pc = "digits",
                                                              !.got = Append(@, m.of)])

\* close, and calcCollatz of each of the numbers
ChildComputes(j) ==
    LET c == child[j]
    IN  /\ c.pc = "digits" /\ Len(c.got) = c.count
        /\ Closes(j, Task(Slot(j)), FALSE)
        /\ SetChild(j, [c EXCEPT !.pc = "computed",
                                 !.results = [k \in 1..c.count |-> calcCollatz[c.got[k]]]])

ChildOpensResult(j) ==
    /\ child[j].pc = "computed"
    /\ pipe' = [pipe EXCEPT ![Result(Slot(j))] = OpenToWrite(@, j)]
    /\ SetChild(j, [child[j] EXCEPT !.pc = "write"])
    /\ UNCHANGED failed

ChildWrites(j) ==
    LET c == child[j]
    IN  /\ c.pc = "write" /\ c.results # <<>>
        /\ Writes(j, Result(Slot(j)), Message("result", Head(c.results)))
        /\ SetChild(j, [c EXCEPT !.results = Tail(@)])

ChildExits(j) ==
    LET c == child[j]
    IN  /\ c.pc = "write" /\ c.results = <<>>
        /\ Closes(j, Result(Slot(j)), FALSE)
        /\ SetChild(j, [c EXCEPT !.pc = "zombie"])

NewProcess(j) ==
    /\ ~failed
    /\ \/ ChildOpensTask(j) \/ ChildReads(j) \/ ChildComputes(j)
       \/ ChildOpensResult(j) \/ ChildWrites(j) \/ ChildExits(j)
    /\ UNCHANGED <<teamVars, io>>

-----------------------------------------------------------------------------
(* runContest in the parent                                                *)

BeginProcesses ==
    /\ team \in ProcessTeam
    /\ main.pc = "idle"
    /\ runContest
    /\ child' = [j \in Child |-> NoChild]
    /\ UNCHANGED <<pipe, io, failed>>

\* remove, which does not mind a missing file, and mkfifo, for both pipes of
\* the slot: of every slot before the first job, or of the slot of each job.
\* (There is never a file to remove: the contest before has left none behind.)
MakePipes(slot) ==
    /\ ~pipe[Task(slot)].named /\ ~pipe[Result(slot)].named
    /\ pipe' = [pipe EXCEPT ![Task(slot)] = mkfifo, ![Result(slot)] = mkfifo]
    /\ UNCHANGED <<teamVars, child, io, failed>>

NewMakesPipes ==
    /\ Runs({"NewProcesses"}, "loop") /\ main.next = 1
    /\ \E s \in Slots : (\A q \in 1..s - 1 : pipe[Task(q)].named) /\ MakePipes(s)

ConstMakesPipes ==
    /\ Runs({"ConstProcesses"}, "loop") /\ ~AllStarted
    /\ MakePipes(main.next)

Fork ==
    /\ main.pc = "loop" /\ ~AllStarted /\ ~Full
    /\ \A s \in (IF team = "NewProcesses" THEN Slots ELSE {main.next}) : pipe[Task(s)].named
    /\ SetChild(main.next, [NoChild EXCEPT !.pc = "start"])
    /\ Goto("open")
    /\ UNCHANGED <<team, share, answers, r, pipe, io, failed>>

OpenTask ==
    /\ main.pc = "open"
    /\ LET f == Task(Slot(main.next)) IN pipe' = [pipe EXCEPT ![f] = OpenToWrite(@, Parent)]
    /\ io' = Order(Work(main.next))
    /\ Goto("write")
    /\ UNCHANGED <<team, share, answers, r, child, failed>>

WriteTask ==
    /\ main.pc = "write" /\ io # <<>>
    /\ Writes(Parent, Task(Slot(main.next)), Head(io))
    /\ io' = Tail(io)
    /\ UNCHANGED <<teamVars, child>>

\* ConstProcesses also unlinks the pipe, which no one opens any more.
CloseTask ==
    /\ main.pc = "write" /\ io = <<>>
    /\ Closes(Parent, Task(Slot(main.next)), team = "ConstProcesses")
    /\ main' = [main EXCEPT !.pc = "loop", !.next = @ + 1]
    /\ UNCHANGED <<team, share, answers, r, child, io>>

OpenResult ==
    /\ main.pc = "loop" /\ main.oldest < main.next
    /\ AllStarted \/ Full
    /\ LET f == Result(Slot(main.oldest)) IN pipe' = [pipe EXCEPT ![f] = OpenToRead(@, Parent)]
    /\ io' = Work(main.oldest)
    /\ Goto("read")
    /\ UNCHANGED <<team, share, answers, r, child, failed>>

\* At the end of the stream read leaves r as it is, and nobody notices.
ReadResult ==
    LET f == Result(Slot(main.oldest))
    IN  /\ main.pc = "read" /\ io # <<>>
        /\ Reads(Parent, f, "result")
        /\ r' = IF AtEnd(pipe[f]) THEN r ELSE [r EXCEPT ![Head(io)] = Head(pipe[f].data).of]
        /\ io' = Tail(io)
        /\ UNCHANGED <<team, share, answers, main, child>>

CloseResult ==
    /\ main.pc = "read" /\ io = <<>>
    /\ Closes(Parent, Result(Slot(main.oldest)), team = "ConstProcesses")
    /\ Goto("wait")
    /\ UNCHANGED <<team, share, answers, r, child, io>>

\* wait(0) takes any child that has ended.
Wait_slip ==
    /\ main.pc = "wait"
    /\ main' = [main EXCEPT !.pc = "loop", !.oldest = @ + 1]
    /\ UNCHANGED <<team, share, answers, r, pipe, child, io, failed>>
Wait ==
    /\ main.pc = "wait"
    /\ \E j \in Child : /\ child[j].pc = "zombie"
                        /\ SetChild(j, [child[j] EXCEPT !.pc = "reaped"])
    /\ main' = [main EXCEPT !.pc = "loop", !.oldest = @ + 1]
    /\ UNCHANGED <<team, share, answers, r, pipe, io, failed>>

AllCollected == AllStarted /\ main.oldest = main.next

UnlinkPipes ==
    /\ Runs({"NewProcesses"}, "loop") /\ AllCollected
    /\ \E s \in Slots :
         /\ pipe[Task(s)].named /\ \A q \in 1..s - 1 : ~pipe[Task(q)].named
         /\ pipe' = [pipe EXCEPT ![Task(s)] = unlink(@), ![Result(s)] = unlink(@)]
    /\ UNCHANGED <<teamVars, child, io, failed>>

ReturnFromProcesses ==
    /\ team \in ProcessTeam
    /\ main.pc = "loop" /\ AllCollected
    /\ team = "NewProcesses" => \A s \in Slots : ~pipe[Task(s)].named
    /\ Return
    /\ UNCHANGED processVars

ProcessMain ==
    /\ ~failed
    /\ \/ BeginProcesses \/ NewMakesPipes \/ ConstMakesPipes \/ Fork
       \/ OpenTask \/ WriteTask \/ CloseTask
       \/ OpenResult \/ ReadResult \/ CloseResult \/ Wait
       \/ UnlinkPipes \/ ReturnFromProcesses

ProcessNext == ProcessMain \/ \E j \in Child : NewProcess(j)
=============================================================================
