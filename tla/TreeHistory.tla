----------------------------- MODULE TreeHistory -----------------------------
(***************************************************************************)
(* Tree with its properties, and the history that relates it to FileTree.  *)
(***************************************************************************)
EXTENDS Tree

CONSTANT MaxDepth   \* bound on the length of the paths looked at

VARIABLE readings   \* what each active call would have answered so far

hvars == <<vars, readings>>

-----------------------------------------------------------------------------
(* The folders from above: as paths, following the children's maps.        *)

AllPaths == BoundedSeq(Name, MaxDepth)

\* The folder with this path, if any.
Lookup(path) ==
  LET at[i \in 0 .. Len(path)] ==
        IF i = 0 THEN Root
        ELSE IF at[i - 1] = NULL THEN NULL ELSE node[at[i - 1]].children[path[i]]
  IN  at[Len(path)]

Paths == {p \in AllPaths : Lookup(p) # NULL}

InitialPaths ==
  {p \in AllPaths :
     \E w \in [0 .. Len(p) -> {Root} \cup DOMAIN InitialTree] :
       /\ w[0] = Root
       /\ \A i \in DOMAIN p : w[i] = InitialChild(w[i - 1], p[i])}

\* A call has changed the tree once the maps say so, which is before it leaves.
Changed(f) ==
  \/ f.at \in {"discard", "discarding", "calm"}
  \/ f.at = "todo" /\ Last(f.todo) = Return(Result("OK"))

Status == [t \in Thread |->
  CASE answer[t] # None -> "after"
    [] answer[t] = None /\ frame[t].at = "idle" -> "before"
    [] frame[t].at # "idle" /\ Changed(frame[t]) -> "changed"
    [] OTHER -> "active"]

Abstract == INSTANCE FileTree WITH
  paths <- Paths, status <- Status

HInit == Init /\ readings = [t \in Thread |-> {}]
HNext ==
  /\ Next
  /\ readings' = [t \in Thread |->
       IF Status'[t] = "active"
       THEN readings[t] \cup Abstract!Refusal(call[t], Paths') ELSE {}]
HSpec == HInit /\ [][HNext]_hvars

\* While any thread can go on, some thread does: all that the calls need to
\* return.
FairHSpec == HSpec /\ WF_vars(Next)

-----------------------------------------------------------------------------
Live == {n \in NodeId : node[n].memory = "live"}

TypeOK ==
  /\ \A n \in NodeId :
       LET m == node[n]
       IN  /\ m.parent \in NodeId \cup {NULL} /\ m.name \in Name \cup {NULL}
           /\ m.memory \in {"unused", "live", "freed"}
           /\ m.children \in [Name -> NodeId \cup {NULL}]
           /\ {m.map_writer, m.move_map_writers_access} \subseteq Thread \cup {NULL}
           /\ {m.readers_inside, m.readers_waiting, m.writers_inside, m.writers_waiting,
               m.subtree_threads, m.safe_hmap_get_count} \subseteq Nat
           /\ m.readers \cup m.writers \cup m.private_access \subseteq Thread
           /\ m.emergency_pass \in BOOLEAN
  /\ \A t \in Thread :
       /\ frame[t].rest \in Seq(Name)
       /\ {frame[t].cur, frame[t].next, frame[t].shared, frame[t].source,
           frame[t].target_parent} \subseteq NodeId \cup {NULL}

\* The folders whose memory the rest of a thread's call refers to.
Holds(f) ==
  IF f.at = "todo"
  THEN {i[2] : i \in {j \in ToSet(f.todo) : j[1] # "return" /\ ~Over(j)}}
         \cup {f.target_parent : i \in {j \in ToSet(f.todo) : j[1] = "rename"}}
  ELSE {f.cur, f.next, f.shared, f.source, f.target_parent} \ {NULL}

\* tree_remove frees a folder although nothing but the counters tells it that
\* no other thread holds a pointer to it: no call ever refers to freed memory.
NoUseAfterFree == \A t \in Thread : Holds(frame[t]) \subseteq Live

\* The folder that a thread is taking from its place or has taken, and has not
\* put at its new one.
InTransit(n) == \E t \in Thread :
  LET f == frame[t]
  IN  \/ f.at \in {"discard", "discarding", "calm"} /\ Discarded(t) = n
      \/ f.at = "todo" /\ {<<"rename", n>>, <<"free", n>>} \cap ToSet(f.todo) # {}

\* The tree stays a tree: a folder has one entry, in the map of its parent and
\* under its name, except while its remover or mover is at work.
TreeShape ==
  LET entries == {e \in Live \X Name : node[e[1]].children[e[2]] # NULL}
      Child(e) == node[e[1]].children[e[2]]
  IN  /\ \A d, e \in entries : Child(d) = Child(e) /\ d # e => InTransit(Child(e))
      /\ \A e \in entries :
           Child(e) \in Live /\
           (InTransit(Child(e)) \/ e = <<node[Child(e)].parent, node[Child(e)].name>>)
      /\ \A n \in Live \ {Root} :
           InTransit(n) \/ <<node[n].parent, node[n].name>> \in entries

\* The folders at and below n, as the parent pointers have it.
Above(n) == LET up[i \in 0 .. Cardinality(NodeId)] ==
                  IF i = 0 THEN n
                  ELSE IF up[i - 1] = NULL THEN NULL ELSE node[up[i - 1]].parent
            IN  {up[i] : i \in DOMAIN up} \ {NULL}

InLock(f) == f.at \in {"lock", "sleep", "count", "private", "flag"}
Going(f)  == f.at \notin {"idle", "todo"}
Moving(f) == f.walk \in {"source", "target"}

\* tree_move has acquired its source.
HasSource(f) ==
  Moving(f) /\ f.source # f.shared /\ ~(InLock(f) /\ f.role = "source")

\* The folder of a remover or a mover is its own from the moment when its
\* protocol has let it in, whatever it does elsewhere meanwhile, until it gives
\* up or has given the folder its new place or freed it.
OwnsFolder(t) ==
  LET f == frame[t]
  IN  \/ f.at \in {"body", "unlink", "discard", "discarding", "calm"} /\ f.role = "remove"
      \/ Going(f) /\ HasSource(f)
      \/ f.at = "todo" /\ \E i \in ToSet(f.todo) : i[1] \in {"rename", "free"}

\* Where a call under way has been let in.  When it asks to be let in at cur,
\* that is where it came from.
LetIn(f) ==
  (IF InLock(f)
   THEN {node[f.cur].parent} \cup ({f.shared, f.source, f.target_parent} \ {f.cur})
   ELSE {f.cur, f.shared, f.source, f.target_parent}) \ {NULL}

\* The folders whose subtrees it is in.  Once only its list is left, those are
\* the folders above the ones that it will notify next.
Inhabits(f) ==
  CASE Going(f)      -> UNION {Above(n) : n \in LetIn(f)}
    [] f.at = "todo" ->
         UNION {Above(node[i[2]].parent) \ Above(i[3]) :
                  i \in {j \in ToSet(f.todo) : j[1] = "notify" /\ ~Over(j)}}
    [] OTHER         -> {}

\* A remover or mover has its folder's subtree for itself: nobody else walks
\* or waits there, holds a folder or a map, or has not been undone yet.  At the
\* folder itself another thread may wait, or leave because of the flag.  One
\* thread may be left below all the same: a mover that has notified the nodes
\* above its shared_node, and has yet to leave the folders and maps below,
\* which is why Inhabits ends at the last node of a notification, and what
\* WaitsForSubtree is about.
SubtreePrivate ==
  \A t, u \in Thread : OwnsFolder(t) /\ u # t => Discarded(t) \notin Inhabits(frame[u])

\* Node.h: the writers' protocols wait "for subtree threads to return before
\* (re)moving any nodes": when a folder has just been taken from its parent's
\* map, no other thread is still inside a folder below it.
WaitsForSubtree ==
  \A t, u \in Thread :
    frame[t].at = "discard" /\ u # t =>
      \A i \in ToSet(frame[u].todo) :
        i[1] \in {"readerFinal", "writerFinal"} => Discarded(t) \notin Above(i[2])

AllAnswered == \A t \in DOMAIN call : answer[t] # None

\* When all calls are over every counter is back at zero, nobody sleeps, no
\* lock or flag is left behind: every path through the code, the early returns
\* included, undoes exactly what it did.
QuiescentClean ==
  AllAnswered => \A n \in Live :
    [node[n] EXCEPT !.children = [a \in Name |-> NULL], !.change = "WRITERS"]
      = node_new(node[n].parent, node[n].name)

\* Every call takes effect at one instant, with the answer of that instant.
ImplementsFileTree == Abstract!Spec

\* Every call returns.
CallsReturn == <>AllAnswered
=============================================================================
