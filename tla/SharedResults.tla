--------------------------- MODULE SharedResults ----------------------------
(***************************************************************************)
(* The table of results that the threads of one team share, and the        *)
(* recursive sharedCollatz that reads and fills it                         *)
(* (Zaliczeniowe_3/sharedresults.hpp).                                     *)
(*                                                                         *)
(* get holds the shared mutex shared, insert holds it exclusively, and     *)
(* each looks at the table once inside: they are one step each.  Between   *)
(* them any other thread may run.  A recursion that has not returned is    *)
(* the stack of the numbers still to be inserted.                          *)
(***************************************************************************)
EXTENDS Collatz, Sequences

CONSTANT Thread

VARIABLES results,   \* _results: a function from the numbers inserted so far
          call       \* call[t] : the sharedCollatz that t is in

sharedVars == <<results, call>>

CallPc == {"idle", "get", "insert", "done"}

Idle == [pc |-> "idle", arg |-> 1, n |-> 1, stack |-> <<>>, value |-> 0]

SharedInit == /\ results = [n \in {} |-> 0]
              /\ call = [t \in Thread |-> Idle]

\* get(key): 0 stands for a number that is not in the table.
get(key) == IF key \in DOMAIN results THEN results[key] ELSE 0

\* insert(key, value): unordered_map::insert leaves an entry that is there.
insert_slip(key, value) ==
    results' = [k \in DOMAIN results \cup {key} |->
                   IF k = key THEN value - 1 ELSE results[k]]
insert(key, value) ==
    results' = [k \in DOMAIN results \cup {key} |->
                   IF k \in DOMAIN results THEN results[k] ELSE value]

\* A call returns value to the frame below it, the last one to its thread.
Returning(c, stack, value) ==
    [c EXCEPT !.pc = IF stack = <<>> THEN "done" ELSE "insert",
              !.stack = stack, !.value = value]

Enter(t, n) ==
    /\ call[t].pc = "idle"
    /\ call' = [call EXCEPT ![t] = [Idle EXCEPT !.pc = "get", !.arg = n, !.n = n]]
    /\ UNCHANGED results

\* calcCollatz, by a thread of a team that does not share its results.
Calculate(t, n) ==
    /\ call[t].pc = "idle"
    /\ call' = [call EXCEPT ![t] = [Idle EXCEPT !.pc = "done", !.arg = n, !.n = n,
                                                !.value = calcCollatz[n]]]
    /\ UNCHANGED results

Get(t) ==
    LET c == call[t]
        score == get(c.n)
    IN  /\ c.pc = "get"
        /\ call' = [call EXCEPT ![t] =
                      IF c.n = 1 \/ score # 0
                      THEN Returning(c, c.stack, score)
                      ELSE [c EXCEPT !.n = Successor(c.n),
                                     !.stack = <<c.n>> \o c.stack]]
        /\ UNCHANGED results

Insert(t) ==
    LET c == call[t]
    IN  /\ c.pc = "insert"
        /\ insert(Head(c.stack), c.value + 1)
        /\ call' = [call EXCEPT ![t] = Returning(c, Tail(c.stack), c.value + 1)]

Leave(t) ==
    /\ call[t].pc = "done"
    /\ call' = [call EXCEPT ![t] = Idle]
    /\ UNCHANGED results

SharedNext ==
    \E t \in Thread :
        \/ \E n \in Number : Enter(t, n) \/ Calculate(t, n)
        \/ Get(t) \/ Insert(t) \/ Leave(t)

SharedSpec == SharedInit /\ [][SharedNext]_sharedVars

-----------------------------------------------------------------------------
(* Properties                                                              *)

\* Whatever the interleaving of threads that meet on their orbits, an entry
\* of the table is the length of the orbit of its number, and the call that
\* is over returns that of its argument.
TableRight ==
    /\ \A n \in DOMAIN results : n \in Number /\ results[n] = calcCollatz[n]
    /\ \A t \in Thread :
         call[t].pc = "done" => call[t].value = calcCollatz[call[t].arg]
=============================================================================
