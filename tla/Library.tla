------------------------------ MODULE Library -------------------------------
(***************************************************************************)
(* readers-writers-template.c of Lab_9: readers and writers of one book,   *)
(* who count themselves under one mutex and pass the turn with "change".   *)
(* What a thread does under the mutex is one step.  The six copies of the  *)
(* number in the book are two here: a text is read and written piecewise.  *)
(***************************************************************************)
EXTENDS Naturals, Sequences

CONSTANTS Reader, Writer,
          Number      \* what rand() % 10 can return

VARIABLES rcount, wcount, rwait, wwait, change,   \* library
          pc,         \* of every thread
          book, working,
          seen        \* what a reader's printf has read of the book

counts == <<rcount, wcount, rwait, wwait, change>>
vars == <<counts, pc, book, working, seen>>

\* init leaves change as it is, the zero of a global variable.
Init ==
    /\ rcount = 0 /\ wcount = 0 /\ rwait = 0 /\ wwait = 0 /\ change = 0
    /\ pc = [t \in Reader \cup Writer |-> "idle"]
    /\ book = <<0, 0>> /\ working = TRUE
    /\ seen = [r \in Reader |-> <<>>]

Arrives(t) == (pc[t] = "idle" /\ working) \/ pc[t] = "awake"
Woken(t)   == IF pc[t] = "awake" THEN 1 ELSE 0

\* t goes to "to" and pthread_cond_signal wakes one of the waiting in Set.
Signal(Set, t, to) ==
    LET waiting == {u \in Set : pc[u] = "waiting"}
    IN  pc' \in IF waiting = {} THEN {[pc EXCEPT ![t] = to]}
                ELSE {[pc EXCEPT ![t] = to, ![u] = "awake"] : u \in waiting}

Goto(t, to) == pc' = [pc EXCEPT ![t] = to]

-----------------------------------------------------------------------------
ReaderMustWait == wcount + wwait > 0 /\ change = 1
WriterMustWait ==
    wcount + rcount > 0 \/ (rwait > 0 /\ change = 0)

WaitToRead(r) ==
    /\ Arrives(r) /\ ReaderMustWait
    /\ rwait' = rwait + 1 - Woken(r)
    /\ Goto(r, "waiting")
    /\ UNCHANGED <<rcount, wcount, wwait, change, book, working, seen>>

StartRead(r) ==
    /\ Arrives(r) /\ ~ReaderMustWait
    /\ rwait' = rwait - Woken(r)
    /\ rcount' = rcount + 1
    /\ IF wwait = 0 THEN Signal(Reader \ {r}, r, "reading") ELSE Goto(r, "reading")
    /\ seen' = [seen EXCEPT ![r] = <<>>]
    /\ UNCHANGED <<wcount, wwait, change, book, working>>

ReadPart(r) ==
    /\ pc[r] = "reading" /\ Len(seen[r]) < Len(book)
    /\ seen' = [seen EXCEPT ![r] = Append(@, book[Len(@) + 1])]
    /\ UNCHANGED <<counts, pc, book, working>>

EndRead(r) ==
    /\ pc[r] = "reading" /\ Len(seen[r]) = Len(book)
    /\ rcount' = rcount - 1
    /\ change' = 1
    /\ IF rcount' = 0 THEN Signal(Writer, r, "idle") ELSE Goto(r, "idle")
    /\ UNCHANGED <<wcount, rwait, wwait, book, working, seen>>

-----------------------------------------------------------------------------
WaitToWrite(w) ==
    /\ Arrives(w) /\ WriterMustWait
    /\ wwait' = wwait + 1 - Woken(w)
    /\ Goto(w, "waiting")
    /\ UNCHANGED <<rcount, wcount, rwait, change, book, working, seen>>

StartWrite(w) ==
    /\ Arrives(w) /\ ~WriterMustWait
    /\ wwait' = wwait - Woken(w)
    /\ wcount' = wcount + 1
    /\ Goto(w, "writing")
    /\ UNCHANGED <<rcount, rwait, change, book, working, seen>>

WriteFirst(w) ==
    /\ pc[w] = "writing"
    /\ \E l \in Number : book' = [book EXCEPT ![1] = l]
    /\ Goto(w, "halfway")
    /\ UNCHANGED <<counts, working, seen>>

WriteSecond(w) ==
    /\ pc[w] = "halfway"
    /\ book' = [book EXCEPT ![2] = book[1]]
    /\ Goto(w, "written")
    /\ UNCHANGED <<counts, working, seen>>

EndWrite(w) ==
    /\ pc[w] = "written"
    /\ wcount' = wcount - 1
    /\ change' = 0
    /\ Signal(IF rwait > 0 THEN Reader ELSE Writer, w, "idle")
    /\ UNCHANGED <<rcount, rwait, wwait, book, working, seen>>

-----------------------------------------------------------------------------
\* pthread_cond_wait may return without a signal.
SpuriousWakeup(t) ==
    /\ pc[t] = "waiting"
    /\ Goto(t, "awake")
    /\ UNCHANGED <<counts, book, working, seen>>

\* main, after its nap.
Close ==
    /\ working
    /\ working' = FALSE
    /\ UNCHANGED <<counts, pc, book, seen>>

Next ==
    \/ \E r \in Reader : WaitToRead(r) \/ StartRead(r) \/ ReadPart(r) \/ EndRead(r)
    \/ \E w \in Writer : WaitToWrite(w) \/ StartWrite(w)
                         \/ WriteFirst(w) \/ WriteSecond(w) \/ EndWrite(w)
    \/ \E t \in Reader \cup Writer : SpuriousWakeup(t)
    \/ Close

Spec == Init /\ [][Next]_vars

-----------------------------------------------------------------------------
\* What a reader has read of the book is copies of one number: the text a
\* writer composes, "6 times a number", is never read while it is written.
BookWhole == \A r \in Reader : \A i, j \in 1..Len(seen[r]) : seen[r][i] = seen[r][j]
=============================================================================
