------------------------------ MODULE FileTree ------------------------------
(***************************************************************************)
(* What the file tree promises to the threads that share it: each call     *)
(* takes effect at one instant between its invocation and its return, and  *)
(* its answer is the one of that instant.  A call that changes nothing may *)
(* choose among the instants that passed: readings collects what it would  *)
(* have answered at each of them.                                          *)
(*                                                                         *)
(* The tree is the set of its paths; a path is the sequence of its names.  *)
(* Each thread makes at most one call: call \in Workloads says which.       *)
(***************************************************************************)
EXTENDS Sequences, SequencesExt

CONSTANTS Thread, InitialPaths, Workloads

VARIABLES paths, call, status, readings, answer

vars == <<paths, call, status, readings, answer>>

Result(code) == [code |-> code, names |-> {}]
Listing(names) == [code |-> "names", names |-> names]
None == Result("none")

Children(p, tree) == {Last(q) : q \in {r \in tree : r # <<>> /\ Front(r) = p}}

\* The answers with which a call leaves the tree as it is: one, or none when
\* it changes the tree.
Refusal(c, tree) ==
  CASE c.op = "list" ->
         {IF c.path \in tree THEN Listing(Children(c.path, tree))
          ELSE Result("NULL")}
    [] c.op = "create" ->
         IF c.path = <<>> THEN {Result("EEXIST")}
         ELSE IF Front(c.path) \notin tree THEN {Result("ENOENT")}
         ELSE IF c.path \in tree THEN {Result("EEXIST")}
         ELSE {}
    [] c.op = "remove" ->
         IF c.path = <<>> THEN {Result("EBUSY")}
         ELSE IF c.path \notin tree THEN {Result("ENOENT")}
         ELSE IF Children(c.path, tree) # {} THEN {Result("ENOTEMPTY")}
         ELSE {}
    [] c.op = "move" ->
         IF c.source = <<>> THEN {Result("EBUSY")}
         ELSE IF c.target = <<>> THEN {Result("EEXIST")}
         ELSE IF IsStrictPrefix(c.source, c.target) THEN {Result("EBADMOVE")}
         ELSE IF c.source \notin tree \/ Front(c.target) \notin tree
              THEN {Result("ENOENT")}
         ELSE IF c.target \in tree THEN {Result("EEXIST")}
         ELSE {}

Moved(p, source, target) ==
  IF IsPrefix(source, p) THEN target \o SubSeq(p, Len(source) + 1, Len(p)) ELSE p

After(c, tree) ==
  CASE c.op = "create" -> tree \cup {c.path}
    [] c.op = "remove" -> tree \ {c.path}
    [] c.op = "move" -> {Moved(p, c.source, c.target) : p \in tree}

Init ==
  /\ paths = InitialPaths
  /\ call \in Workloads
  /\ status = [t \in Thread |-> "before"]
  /\ readings = [t \in Thread |-> {}]
  /\ answer = [t \in Thread |-> None]

Invoke(t) ==
  /\ t \in DOMAIN call /\ status[t] = "before"
  /\ status' = [status EXCEPT ![t] = "active"]
  /\ readings' = [readings EXCEPT ![t] = Refusal(call[t], paths)]
  /\ UNCHANGED <<paths, call, answer>>

Change(t) ==
  /\ status[t] = "active" /\ Refusal(call[t], paths) = {}
  /\ paths' = After(call[t], paths)
  /\ status' = [status EXCEPT ![t] = "changed"]
  /\ readings' = [u \in Thread |->
       IF u = t THEN {}
       ELSE IF status[u] = "active" THEN readings[u] \cup Refusal(call[u], paths')
       ELSE readings[u]]
  /\ UNCHANGED <<call, answer>>

Return(t) ==
  /\ \/ status[t] = "active"  /\ \E r \in readings[t] : answer' = [answer EXCEPT ![t] = r]
     \/ status[t] = "changed" /\ answer' = [answer EXCEPT ![t] = Result("OK")]
  /\ status' = [status EXCEPT ![t] = "after"]
  /\ readings' = [readings EXCEPT ![t] = {}]
  /\ UNCHANGED <<paths, call>>

Next == \E t \in Thread : Invoke(t) \/ Change(t) \/ Return(t)

Spec == Init /\ [][Next]_vars
=============================================================================
