---------------------------- MODULE TreeInvariant ----------------------------
(***************************************************************************)
(* The inductive invariant of Tree.                                        *)
(*                                                                         *)
(* Two things of it no variable shows.  The chains of a thread are the     *)
(* folders where it counts as a subtree thread, split into the parts that  *)
(* it will notify one by one; a folder may be moved meanwhile, so they are *)
(* not a function of the state.  The depth of a folder shows that no chain *)
(* and no row of children's maps comes back to where it began.             *)
(***************************************************************************)
EXTENDS TreeHistory, FiniteSetTheorems, SequenceTheorems, WellFoundedInduction, TLAPS

-----------------------------------------------------------------------------
(* What a thread does, from its frame f, its call c and its chains k.      *)

Ahead(f)   == f.at \in {"lock", "sleep", "count"}
Leading(f) == f.at \in {"get", "leave"} \/ (InLock(f) /\ f.role = "step")
Gone(f)    == f.at \in {"discard", "discarding", "calm"}

\* It has passed the preliminary protocol of f.cur, and not the final one.
Inside(f) ==
  \/ f.at \in {"count", "private", "flag", "leave", "body"}
  \/ f.at = "get" /\ ~f.skip
  \/ f.at \in {"unlink", "discard", "discarding", "calm"} /\ f.role = "remove"

\* tree_move has acquired the parent of its target.
HasTarget(f) ==
  Moving(f) /\ f.target_parent # f.shared /\ ~(InLock(f) /\ f.role = "target")

\* The folders for which an item of this kind is on its list.
Listed(f, kind) == {n \in NodeId : \E i \in DOMAIN f.todo : f.todo[i] = <<kind, n>>}

\* Where it is inside as a reader and as a writer.
Reads(f) ==
  IF f.at = "todo" THEN Listed(f, "readerFinal")
  ELSE {n \in NodeId :
          \/ n = f.cur /\ Inside(f) /\ ~IsWriter(f)
          \/ n = f.shared /\ Going(f) /\ Moving(f)
          \/ n = f.target_parent /\ Going(f) /\ HasTarget(f)}
Writes(f) ==
  IF f.at = "todo" THEN Listed(f, "writerFinal")
  ELSE {n \in NodeId :
          \/ n = f.cur /\ Inside(f) /\ IsWriter(f)
          \/ n = f.source /\ Going(f) /\ HasSource(f)}

\* The folder to which safe_hmap_get has led it and where it does not count yet.
Pending(f) ==
  IF Ahead(f) THEN f.cur ELSE IF f.at = "leave" THEN f.next ELSE NULL

\* Where it sleeps.
SleepsAsReader(f) == IF f.at = "sleep" /\ ~IsWriter(f) THEN {f.cur} ELSE {}
SleepsAsWriter(f) == IF f.at = "sleep" /\ IsWriter(f) THEN {f.cur} ELSE {}
SleepsInPrivate(f) ==
  CASE f.at = "private" -> {f.cur}
    [] f.at = "discarding" -> {IF Moving(f) THEN f.source ELSE f.cur}
    [] OTHER -> {}

\* The folder it is taking away, once the maps say so, until the end.
Moves(f) ==
  (IF Gone(f) /\ Moving(f) THEN {f.source} ELSE {})
    \cup (IF f.at = "todo" THEN Listed(f, "rename") ELSE {})
Removes(f) ==
  (IF Gone(f) /\ ~Moving(f) THEN {f.cur} ELSE {})
    \cup (IF f.at = "todo" THEN Listed(f, "free") ELSE {})
Unlinks(f) == Removes(f) \cup IF f.at = "unlink" THEN {f.cur} ELSE {}

\* ... while its emergency flag is up, and when nobody else is there any more.
Flags(f) ==
  IF f.at \in {"discarding", "calm"}
  THEN {IF Moving(f) THEN f.source ELSE f.cur} ELSE {}
Vacates(f) ==
  IF f.at = "calm" THEN {IF Moving(f) THEN f.source ELSE f.cur}
  ELSE IF f.at = "todo" THEN Listed(f, "rename") \cup Listed(f, "free") ELSE {}

\* The folder that it has as a writer for itself, and the one where it has been
\* let in as such and looks whether that was by the flag.
Owns(f) ==
  (IF f.at \in {"body", "unlink", "discard", "discarding", "calm"} /\ f.role = "remove"
   THEN {f.cur} ELSE {})
    \cup (IF Going(f) /\ HasSource(f) THEN {f.source} ELSE {})
Acquires(f) == IF f.at = "flag" /\ IsWriter(f) THEN {f.cur} ELSE {}

\* The folders where it counts.
Counts(k) == UNION {k.chain[i] : i \in DOMAIN k.chain}

\* Where it will stop counting before anything else is notified; where it will
\* first be let out.
GoesAway(f, k) ==
  IF f.at = "todo"
  THEN {n \in NodeId : \E j \in DOMAIN f.todo :
          f.todo[j][1] = "notify" /\ f.todo[j][2] = n /\ n \in k.chain[j]}
  ELSE IF f.at = "flag" THEN {f.cur} ELSE {}
PassesOn(f, k) ==
  IF f.at = "todo"
  THEN {n \in NodeId : \E i, j \in DOMAIN f.todo :
          /\ i < j /\ f.todo[i] \in {ReaderFinal(n), WriterFinal(n)}
          /\ f.todo[j][1] = "notify" /\ f.todo[j][2] = n /\ n \in k.chain[j]}
  ELSE IF f.at \in {"count", "flag"} THEN {f.cur} ELSE {}

Summary(c, f, k) ==
  [reads |-> Reads(f), writes |-> Writes(f), counts |-> Counts(k),
   pending |-> Pending(f), maps |-> k.maps,
   moveLock |-> IF f.at \in {"left", "right"} THEN {f.shared} ELSE {},
   asReader |-> SleepsAsReader(f), asWriter |-> SleepsAsWriter(f),
   inPrivate |-> SleepsInPrivate(f),
   moves |-> Moves(f), removes |-> Removes(f), unlinks |-> Unlinks(f),
   flags |-> Flags(f), vacates |-> Vacates(f),
   owns |-> Owns(f), acquires |-> Acquires(f),
   goesAway |-> GoesAway(f, k), passesOn |-> PassesOn(f, k),
   place |-> <<f.target_parent, TargetName(c.target)>>]

-----------------------------------------------------------------------------
(* What the frame of a thread can be.                                      *)

Walks == {"list", "create", "remove", "shared", "source", "target"}

\* What a call answers.
Codes == {"OK", "NULL", "ENOENT", "EEXIST", "EBUSY", "EBADMOVE", "ENOTEMPTY", "names"}

Items ==
  ({"readerFinal", "writerFinal", "mapFinal", "rename", "free"} \X NodeId)
    \cup ({"notify"} \X (NodeId \cup {NULL}) \X (NodeId \cup {NULL}))
    \cup ({"return"} \X [code : Codes, names : SUBSET Name])

FrameType ==
  [at : {"idle", "lock", "sleep", "count", "private", "flag", "get", "leave",
         "body", "unlink", "maps", "left", "right", "transfer", "discard",
         "discarding", "calm", "todo"},
   role : Walks \cup {"none", "step"}, walk : Walks \cup {"none"},
   cur : NodeId \cup {NULL}, next : NodeId \cup {NULL}, rest : Seq(Name),
   skip : BOOLEAN, shared : NodeId \cup {NULL}, source : NodeId \cup {NULL},
   target_parent : NodeId \cup {NULL}, todo : Seq(Items)]

\* The part of the walk that a call of process_path makes from shared_node.
PathBeyond(c, walk) ==
  IF walk = "source" THEN Beyond(c.source, Shared(c))
  ELSE Beyond(PathToParent(c.target), Shared(c))

\* A call under way, up to the point where only its list is left.
GoingOK(c, f) ==
  /\ f.walk \in Walks /\ Rejected(c) = <<>> /\ f.cur \in NodeId
  /\ c.op = IF f.walk \in {"list", "create", "remove"} THEN f.walk ELSE "move"
  /\ f.skip => f.at = "get"
  /\ f.at # "leave" => f.next = NULL
  /\ f.at \in {"get", "leave"} => f.rest # <<>>
  /\ f.at = "leave" \/ (f.at = "get" /\ ~f.skip) => f.role = "step"
  /\ InLock(f) =>
       /\ IF f.role = "step" THEN f.rest # <<>> ELSE f.role = f.walk
       /\ f.role = "shared" =>
            f.cur = f.shared /\ f.cur = f.source /\ f.cur = f.target_parent
       /\ f.role = "source" => f.cur = f.source /\ f.cur # f.shared
       /\ f.role = "target" => f.cur = f.target_parent /\ f.cur # f.shared
       /\ f.role = "remove" => f.cur # Root
  /\ f.at = "private" => IsWriter(f)
  /\ f.at = "body" => f.role \in {"list", "create", "remove"} /\ f.role = f.walk
  /\ f.at = "unlink" => f.role = "remove" /\ f.walk = "remove"
  /\ f.at \in {"body", "unlink", "discard", "discarding", "calm"} /\ f.role = "remove"
       => f.cur # Root
  /\ f.at \in {"maps", "left", "right", "transfer"} => HasSource(f)
  /\ Gone(f) => HasSource(f) \/ (f.role = "remove" /\ f.walk = "remove")
  /\ Moving(f) =>
       /\ {f.shared, f.source, f.target_parent} \subseteq NodeId
       /\ f.role \notin {"list", "create", "remove", "none"}
       /\ f.source # f.shared => f.source # Root
       /\ f.skip =>
            f.cur = f.shared /\ f.rest = PathBeyond(c, f.walk)
       /\ SourceFirst(c) /\ f.walk = "source" => f.target_parent = f.shared
       /\ SourceFirst(c) /\ f.walk = "target" => f.source # f.shared
       /\ ~SourceFirst(c) /\ f.walk = "target" => f.source = f.shared
       /\ Leading(f) => IF f.walk = "source" THEN f.source = f.shared
                        ELSE f.target_parent = f.shared
       /\ Leading(f) /\ ~f.skip => f.cur # f.shared
       /\ ~Leading(f) /\ f.walk = "target" => f.target_parent # f.shared
       /\ f.walk = "target" \/ f.target_parent # f.shared
            => PathBeyond(c, "target") # <<>>
  /\ ~Moving(f) =>
       /\ ~f.skip
       /\ f.role # "shared" =>
            f.shared = NULL /\ f.source = NULL /\ f.target_parent = NULL

Final == {"readerFinal", "writerFinal"}
Taking == {"rename", "free"}

\* A list: the order that matters, and no item twice.
ListOK(c, f) ==
  LET s == f.todo IN
  /\ Len(s) > 0
  /\ \A i \in DOMAIN s :
       /\ s[i][1] = "return" <=> i = Len(s)
       /\ s[i][1] = "rename" =>
            c.op = "move" /\ s[i][2] = f.source /\ f.source # Root
              /\ f.target_parent \in NodeId
       /\ s[i][1] = "free" => c.op = "remove" /\ s[i][2] = f.cur /\ f.cur # Root
  /\ \A i, j \in DOMAIN s :
       /\ i # j /\ s[i][1] \in Final /\ s[j][1] \in Final => s[i][2] # s[j][2]
       /\ i # j /\ s[i][1] = "mapFinal" /\ s[j][1] = "mapFinal" => s[i][2] # s[j][2]
       /\ i < j /\ s[j][1] \in Taking => s[i][1] \in {"writerFinal", "notify"}
       /\ i < j /\ s[i][1] = "free" => s[j][1] = "return"

FrameOK(c, f) ==
  /\ f \in FrameType
  /\ f.at = "idle" => f = NoFrame
  /\ Going(f) => c \in Calls /\ GoingOK(c, f)
  /\ f.at = "todo" => c \in Calls /\ ListOK(c, f)

-----------------------------------------------------------------------------
(* The chains of a thread.  A move has three: from its source, and from its *)
(* target's parent, up to below shared_node, and from there to the root.    *)

Slots(f) == IF f.at = "todo" THEN DOMAIN f.todo ELSE 1 .. 3

\* The slot of the chain that its walk makes longer.
WalkSlot(f) == IF f.walk = "source" THEN 1 ELSE IF f.walk = "target" THEN 2 ELSE 3

\* The last folder where its walk has counted it.
Here(nd, f) == IF Ahead(f) THEN nd[f.cur].parent ELSE f.cur

\* The first folder of a chain, and the one where it stops.
Bottom(nd, f, i) ==
  CASE f.at = "todo" -> IF f.todo[i][1] = "notify" THEN f.todo[i][2] ELSE NULL
    [] Going(f) /\ ~Moving(f) -> IF i = 3 THEN Here(nd, f) ELSE NULL
    [] Going(f) /\ Moving(f) /\ i = 1 ->
         IF HasSource(f) THEN f.source
         ELSE IF f.walk = "source" THEN Here(nd, f) ELSE f.shared
    [] Going(f) /\ Moving(f) /\ i = 2 ->
         IF HasTarget(f) THEN f.target_parent
         ELSE IF f.walk = "target" THEN Here(nd, f) ELSE f.shared
    [] Going(f) /\ Moving(f) /\ i = 3 -> f.shared
    [] OTHER -> NULL
Top(f, i) ==
  CASE f.at = "todo" -> IF f.todo[i][1] = "notify" THEN f.todo[i][3] ELSE NULL
    [] Going(f) /\ Moving(f) /\ i \in {1, 2} -> f.shared
    [] OTHER -> NULL

IsChain(nd, C, bottom, top) ==
  /\ C \subseteq NodeId /\ top \notin C /\ bottom \in C \cup {top}
  /\ bottom = top => C = {}
  /\ \A n \in C : nd[n].parent \in C \cup {top}
  /\ \A n \in C \ {bottom} : \E m \in C : nd[m].parent = n
  /\ C # {} => \E m \in C : nd[m].parent = top

Branch(c, i) == (IF i = 1 THEN c.source ELSE PathToParent(c.target))[Len(Shared(c)) + 1]

ChainsOK(nd, c, f, k) ==
  /\ DOMAIN k.chain = Slots(f)
  /\ \A i \in Slots(f) : IsChain(nd, k.chain[i], Bottom(nd, f, i), Top(f, i))
  /\ \A i, j \in Slots(f) : i # j => k.chain[i] \cap k.chain[j] = {}
  /\ Pending(f) \notin Counts(k)
  /\ f.at = "leave" /\ f.next # NULL => nd[f.next].parent = f.cur
  \* The two ways from shared_node begin differently.
  /\ Going(f) /\ Moving(f) => \A i \in {1, 2} : \A n \in k.chain[i] :
       nd[n].parent = f.shared => nd[n].name = Branch(c, i)
  /\ Going(f) /\ Moving(f) /\ Pending(f) # NULL
       => (nd[Pending(f)].parent = f.shared
             => nd[Pending(f)].name = Branch(c, WalkSlot(f)))
  \* It does not count in a folder any more when it puts or throws it away.
  /\ f.at = "todo" => \A i, j \in DOMAIN f.todo :
       f.todo[i][1] \in Taking /\ f.todo[i][2] \in k.chain[j] => j < i

\* The maps it has as a writer.
MapsOK(nd, c, f, k) ==
  LET p == nd[f.source].parent
      both == Moving(f) /\ f.at \in {"transfer", "discard", "discarding", "calm"}
  IN  /\ f.at = "todo" => k.maps = Listed(f, "mapFinal")
      /\ f.at = "right" => /\ p # f.target_parent
                           /\ k.maps = {IF SourceFirst(c) THEN p ELSE f.target_parent}
      /\ both => k.maps = {p, f.target_parent}
      /\ f.at \notin {"todo", "right"} /\ ~both => k.maps = {}

Local(nd, c, f, k) ==
  /\ FrameOK(c, f)
  /\ ChainsOK(nd, c, f, k)
  /\ MapsOK(nd, c, f, k)

-----------------------------------------------------------------------------
(* What the folders have to do with the threads: nd gives the folders, S the *)
(* summary of each thread.                                                 *)

ThreadSets == SUBSET Thread

NodeType ==
  [parent : NodeId \cup {NULL}, name : Name \cup {NULL},
   memory : {"unused", "live", "freed"}, children : [Name -> NodeId \cup {NULL}],
   map_writer : Thread \cup {NULL}, readers_inside : Nat, readers_waiting : Nat,
   readers : ThreadSets, writers_inside : Nat, writers_waiting : Nat,
   writers : ThreadSets, change : {"READERS", "WRITERS"},
   subtree_threads : Nat, safe_hmap_get_count : Nat, private_access : ThreadSets,
   emergency_pass : BOOLEAN, move_map_writers_access : Thread \cup {NULL}]

SummaryType ==
  [reads : SUBSET NodeId, writes : SUBSET NodeId, counts : SUBSET NodeId,
   pending : NodeId \cup {NULL}, maps : SUBSET NodeId, moveLock : SUBSET NodeId,
   asReader : SUBSET NodeId, asWriter : SUBSET NodeId, inPrivate : SUBSET NodeId,
   moves : SUBSET NodeId, removes : SUBSET NodeId, unlinks : SUBSET NodeId,
   flags : SUBSET NodeId, vacates : SUBSET NodeId, owns : SUBSET NodeId,
   acquires : SUBSET NodeId, goesAway : SUBSET NodeId, passesOn : SUBSET NodeId]

LiveIn(nd) == {n \in NodeId : nd[n].memory = "live"}

\* The counters of a folder count.
CountersOf(m, n, S) ==
  /\ m.readers_inside = Cardinality({t \in Thread : n \in S[t].reads})
  /\ m.writers_inside = Cardinality({t \in Thread : n \in S[t].writes})
  /\ m.readers_waiting = Cardinality({t \in Thread : n \in S[t].asReader})
  /\ m.writers_waiting = Cardinality({t \in Thread : n \in S[t].asWriter})
  /\ m.subtree_threads = Cardinality({t \in Thread : n \in S[t].counts})
  /\ m.safe_hmap_get_count = IF n = Root THEN 0
       ELSE Cardinality({t \in Thread : n \in S[t].counts})
              + Cardinality({t \in Thread : n = S[t].pending})
SleepersOf(m, n, S) ==
  /\ m.readers \subseteq {t \in Thread : n \in S[t].asReader}
  /\ m.writers \subseteq {t \in Thread : n \in S[t].asWriter}
  /\ m.private_access \subseteq {t \in Thread : n \in S[t].inPrivate}
Counters(nd, S) == \A n \in NodeId : CountersOf(nd[n], n, S)
Sleepers(nd, S) == \A n \in NodeId : SleepersOf(nd[n], n, S)

\* Maps and the mutex of the movers.
Maps(nd, S) == \A n \in NodeId, t \in Thread :
  /\ nd[n].map_writer = t <=> n \in S[t].maps
  /\ nd[n].move_map_writers_access = t <=> n \in S[t].moveLock

\* Readers and writers exclude each other, but for the flag.
Exclusion(nd, S) == \A n \in NodeId : ~nd[n].emergency_pass =>
  \A t, u \in Thread : n \in S[t].writes =>
    /\ n \notin S[u].reads
    /\ t # u => n \notin S[u].writes

Emergency(nd, S) == \A n \in NodeId :
  nd[n].emergency_pass <=> \E t \in Thread : n \in S[t].flags

\* Whoever is still in a folder that another thread has for itself is there
\* because of the flag, and on its way out.
OwnedBy(nd, S, t, n) ==
  n \in S[t].owns \/ (n \in S[t].acquires /\ ~nd[n].emergency_pass)
Privacy(nd, S) == \A t, u \in Thread, n \in NodeId :
  t # u /\ OwnedBy(nd, S, t, n) =>
    /\ n \in S[u].counts => nd[n].emergency_pass /\ n \in S[u].goesAway
    /\ n \in S[u].reads \cup S[u].writes
         => nd[n].emergency_pass /\ n \in S[u].passesOn

Vacant(S) == \A t, u \in Thread : t # u => \A n \in S[t].vacates :
  n \notin S[u].counts \cup S[u].reads \cup S[u].writes /\ n # S[u].pending

Takers(S) == \A t, u \in Thread : t # u =>
  (S[t].moves \cup S[t].removes) \cap (S[u].moves \cup S[u].removes) = {}

\* The maps are a tree, and the parents say so.
Shape(nd, S) ==
  /\ nd[Root].parent = NULL /\ Root \in LiveIn(nd)
  /\ \A n \in LiveIn(nd) \ {Root} : nd[n].parent \in NodeId /\ nd[n].name \in Name
  /\ \A n \in NodeId : nd[n].parent # NULL => nd[nd[n].parent].memory # "unused"
  /\ \A d \in NodeId, a \in Name : nd[d].children[a] # NULL =>
       LET n == nd[d].children[a] IN
       /\ d \in LiveIn(nd) /\ n \in LiveIn(nd) \ {Root}
       /\ \A t \in Thread : n \notin S[t].removes /\ (n \in S[t].moves => S[t].place = <<d, a>>)
       /\ (\A t \in Thread : n \notin S[t].moves) => d = nd[n].parent /\ a = nd[n].name
  /\ \A n \in LiveIn(nd) \ {Root} :
       (\A t \in Thread : n \notin S[t].moves \cup S[t].removes)
         => nd[nd[n].parent].children[nd[n].name] = n

\* What a thread takes away.
Transfers(nd, S) == \A t \in Thread :
  /\ \A n \in S[t].moves :
       /\ S[t].place[1] \in S[t].maps /\ S[t].place[2] \in Name
       /\ nd[S[t].place[1]].children[S[t].place[2]] = n
  /\ \A n \in S[t].unlinks : nd[n].map_writer = NULL /\ Names(nd[n]) = {}

Memory(nd, S) ==
  \A t \in Thread :
    /\ S[t].counts \cup S[t].reads \cup S[t].writes \cup S[t].maps
         \cup S[t].moves \cup S[t].removes \subseteq LiveIn(nd)
    /\ S[t].pending # NULL => S[t].pending \in LiveIn(nd)

Depths(nd, S, dp) ==
  /\ dp \in [NodeId -> Nat]
  /\ \E top \in Nat : \A n \in NodeId : dp[n] <= top
  /\ \A d \in NodeId, a \in Name :
       nd[d].children[a] # NULL => dp[d] < dp[nd[d].children[a]]
  /\ \A t \in Thread : \A n \in NodeId :
       (n \in S[t].counts \/ n = S[t].pending) /\ nd[n].parent # NULL
         => dp[nd[n].parent] < dp[n]

Global(nd, S, dp) ==
  /\ Counters(nd, S) /\ Sleepers(nd, S) /\ Maps(nd, S) /\ Exclusion(nd, S)
  /\ Emergency(nd, S) /\ Privacy(nd, S) /\ Vacant(S) /\ Takers(S)
  /\ Shape(nd, S) /\ Transfers(nd, S) /\ Memory(nd, S) /\ Depths(nd, S, dp)

Summaries(cl, fr, K) == [t \in Thread |-> Summary(cl[t], fr[t], K[t])]

Inv(nd, cl, fr, an, K, dp) ==
  /\ nd \in [NodeId -> NodeType]
  /\ fr \in [Thread -> FrameType] /\ cl \in Workloads
  /\ \A t \in Thread : fr[t].at # "idle" => t \in DOMAIN cl /\ an[t] = None
  /\ \A t \in Thread : Local(nd, cl[t], fr[t], K[t])
  /\ Global(nd, Summaries(cl, fr, K), dp)

\* Once nothing is left to be walked, a mover stands at one of its folders.
Stands(f) ==
  Moving(f) /\ (f.at \in {"maps", "left", "right", "transfer"} \/ Gone(f))
    => f.cur \in {f.source, f.target_parent}

IInv ==
  /\ DOMAIN answer = Thread /\ \A t \in Thread : Stands(frame[t])
  /\ \E K, dp : Inv(node, call, frame, answer, K, dp)

-----------------------------------------------------------------------------
(* Chains of folders, and how many threads use one.                        *)

Less == {p \in Nat \X Nat : p[1] < p[2]}

LEMMA LessWellFounded == IsWellFoundedOn(Less, Nat)
BY NatLessThanWellFounded DEF OpToRel, Less

\* Numbers with a bound have a greatest one.
LEMMA Greatest ==
  ASSUME NEW C, NEW dp, \A n \in C : dp[n] \in Nat,
         NEW top \in Nat, \A n \in C : dp[n] <= top, C # {}
  PROVE  \E n \in C : \A m \in C : dp[m] <= dp[n]
<1> DEFINE T == {top - dp[n] : n \in C}
<1>1. T \subseteq Nat /\ T # {}
  OBVIOUS
<1>2. PICK x \in T : \A y \in T : <<y, x>> \notin Less
  <2> HIDE DEF T
  <2> QED BY <1>1, LessWellFounded, WFMin
<1>3. PICK n \in C : x = top - dp[n]
  BY <1>2
<1>4. ASSUME NEW m \in C PROVE dp[m] <= dp[n]
  <2>1. top - dp[m] \in T /\ top - dp[m] \in Nat /\ x \in Nat
    BY <1>1, <1>2
  <2>2. ~(top - dp[m] < x)
    BY <2>1, <1>2 DEF Less
  <2> QED BY <2>2, <1>3
<1> QED BY <1>4

\* What is true of depths along a set of folders.
Deeper(nd, C, dp) ==
  /\ \A n \in C : dp[n] \in Nat
  /\ \E top \in Nat : \A n \in C : dp[n] <= top
  /\ \A n \in C : nd[n].parent \in C => dp[nd[n].parent] < dp[n]

\* The first folder of a chain is the deepest.
LEMMA ChainDeepest ==
  ASSUME NEW nd, NEW C, NEW bottom, NEW top, NEW dp,
         IsChain(nd, C, bottom, top), Deeper(nd, C, dp)
  PROVE  \A n \in C : n # bottom => dp[n] < dp[bottom]
<1>1. SUFFICES ASSUME C # {} PROVE \A n \in C : n # bottom => dp[n] < dp[bottom]
  OBVIOUS
<1>2. PICK x \in C : \A m \in C : dp[m] <= dp[x]
  BY <1>1, Greatest DEF Deeper
<1>3. x = bottom
  <2> SUFFICES ASSUME x # bottom PROVE FALSE
    OBVIOUS
  <2>1. PICK m \in C : nd[m].parent = x
    BY DEF IsChain
  <2> QED BY <2>1, <1>2 DEF Deeper
<1>4. ASSUME NEW n \in C, n # bottom PROVE dp[n] < dp[bottom]
  <2>1. PICK m \in C : nd[m].parent = n
    BY <1>4 DEF IsChain
  <2>2. dp[n] < dp[m] /\ dp[m] <= dp[bottom] /\ dp[n] \in Nat /\ dp[m] \in Nat /\ dp[bottom] \in Nat
    BY <2>1, <1>2, <1>3 DEF Deeper
  <2> QED BY <2>2
<1> QED BY <1>4

\* A folder above which a chain begins is not in it.
LEMMA ChainNotBelow ==
  ASSUME NEW nd, NEW C, NEW bottom, NEW top, NEW dp, NEW n,
         IsChain(nd, C, bottom, top), Deeper(nd, C, dp),
         nd[n].parent = bottom
  PROVE  n \notin C
<1> SUFFICES ASSUME n \in C PROVE FALSE
  OBVIOUS
<1>1. bottom \in C
  BY DEF IsChain
<1>2. dp[bottom] < dp[n] /\ (n # bottom => dp[n] < dp[bottom]) /\ dp[n] \in Nat /\ dp[bottom] \in Nat
  BY <1>1, ChainDeepest DEF Deeper
<1> QED BY <1>2

\* One folder more, one less, and two chains that meet.
LEMMA ChainAdd ==
  ASSUME NEW nd, NEW C, NEW bottom, NEW top, NEW n \in NodeId,
         IsChain(nd, C, bottom, top), nd[n].parent = bottom, n \notin C, n # top
  PROVE  IsChain(nd, C \cup {n}, n, top)
<1>1. \A m \in (C \cup {n}) \ {n} : \E x \in C \cup {n} : nd[x].parent = m
  BY DEF IsChain
<1>2. \E m \in C \cup {n} : nd[m].parent = top
  BY DEF IsChain
<1> QED BY <1>1, <1>2 DEF IsChain

LEMMA ChainDrop ==
  ASSUME NEW nd, NEW C, NEW bottom, NEW top, NEW dp,
         IsChain(nd, C, bottom, top), Deeper(nd, C, dp), bottom \in C
  PROVE  IsChain(nd, C \ {bottom}, nd[bottom].parent, top)
<1> DEFINE B == C \ {bottom}
           p == nd[bottom].parent
<1>1. \A n \in B : dp[n] < dp[bottom]
  BY ChainDeepest
<1>2. \A n \in C : nd[n].parent # bottom
  BY ChainNotBelow
<1>3. B \subseteq NodeId /\ top \notin B /\ p \in B \cup {top}
  BY <1>2 DEF IsChain
<1>4. ASSUME p = top PROVE B = {}
  <2> SUFFICES ASSUME B # {} PROVE FALSE
    OBVIOUS
  <2>1. PICK top_ \in Nat : \A n \in B : dp[n] <= top_
    BY DEF Deeper
  <2>2. PICK x \in B : \A m \in B : dp[m] <= dp[x]
    <3>1. \A n \in B : dp[n] \in Nat
      BY DEF Deeper
    <3> HIDE DEF B
    <3> QED BY <2>1, <3>1, Greatest
  <2>3. PICK m \in C : nd[m].parent = x
    BY <2>2 DEF IsChain
  <2>4. m \in B
    BY <2>3, <2>2, <1>4 DEF IsChain
  <2> QED BY <2>2, <2>3, <2>4 DEF Deeper
<1>5. \A n \in B : nd[n].parent \in B \cup {top}
  BY <1>2 DEF IsChain
<1>6. ASSUME NEW n \in B \ {p} PROVE \E m \in B : nd[m].parent = n
  BY <1>6 DEF IsChain
<1>7. ASSUME B # {} PROVE \E m \in B : nd[m].parent = top
  BY <1>4, <1>7 DEF IsChain
<1> QED BY <1>3, <1>4, <1>5, <1>6, <1>7 DEF IsChain

LEMMA ChainJoin ==
  ASSUME NEW nd, NEW C, NEW B, NEW bottom, NEW middle, NEW top,
         IsChain(nd, C, bottom, middle), IsChain(nd, B, middle, top),
         C \cap B = {}, middle # top, top \notin C
  PROVE  IsChain(nd, C \cup B, bottom, top)
<1>1. middle \in B
  BY DEF IsChain
<1>2. bottom \in C \cup B /\ bottom # top
  BY <1>1 DEF IsChain
<1>3. \A n \in C \cup B : nd[n].parent \in C \cup B \cup {top}
  BY <1>1 DEF IsChain
<1>4. ASSUME NEW n \in (C \cup B) \ {bottom} PROVE \E m \in C \cup B : nd[m].parent = n
  <2>1. CASE n = middle
    <3>1. C # {}
      BY <2>1 DEF IsChain
    <3> QED BY <2>1, <3>1 DEF IsChain
  <2>2. CASE n # middle
    BY <2>2 DEF IsChain
  <2> QED BY <2>1, <2>2
<1>5. \E m \in C \cup B : nd[m].parent = top
  BY <1>1 DEF IsChain
<1> QED BY <1>1, <1>2, <1>3, <1>4, <1>5 DEF IsChain

LEMMA ChainEmpty ==
  ASSUME NEW nd, NEW b PROVE IsChain(nd, {}, b, b)
BY DEF IsChain

LEMMA ChainStable ==
  ASSUME NEW nd, NEW nd2, NEW C, NEW bottom, NEW top,
         IsChain(nd, C, bottom, top), \A n \in C : nd2[n].parent = nd[n].parent
  PROVE  IsChain(nd2, C, bottom, top)
BY DEF IsChain

-----------------------------------------------------------------------------
(* Counting the threads of which something is true.                        *)

LEMMA ThreadFinite == IsFiniteSet(Thread)
BY TreeAssumption

\* One thread more, or less.
LEMMA CountChange ==
  ASSUME NEW A, NEW B, A \subseteq Thread, B \subseteq Thread, NEW t \in Thread,
         A \ {t} = B \ {t}
  PROVE  /\ Cardinality(A) \in Nat /\ Cardinality(B) \in Nat
         /\ (t \in A <=> t \in B) => Cardinality(B) = Cardinality(A)
         /\ t \in B /\ t \notin A => Cardinality(B) = Cardinality(A) + 1
         /\ t \in A /\ t \notin B => Cardinality(B) = Cardinality(A) - 1 /\ Cardinality(A) >= 1
<1>1. IsFiniteSet(A) /\ IsFiniteSet(B)
  BY ThreadFinite, FS_Subset
<1>2. Cardinality(A) \in Nat /\ Cardinality(B) \in Nat
  BY <1>1, FS_CardinalityType
<1>3. (t \in A <=> t \in B) => A = B
  OBVIOUS
<1>4. ASSUME t \in B, t \notin A PROVE Cardinality(B) = Cardinality(A) + 1
  <2>1. B = A \cup {t}
    BY <1>4
  <2> QED BY <1>1, <1>4, <2>1, FS_AddElement
<1>5. ASSUME t \in A, t \notin B PROVE Cardinality(A) = Cardinality(B) + 1
  <2>1. A = B \cup {t}
    BY <1>5
  <2> QED BY <1>1, <1>5, <2>1, FS_AddElement
<1> QED BY <1>2, <1>3, <1>4, <1>5

\* A count says whether there is anybody, and anybody else.
LEMMA CountNone ==
  ASSUME NEW A, A \subseteq Thread
  PROVE  /\ Cardinality(A) \in Nat
         /\ Cardinality(A) = 0 <=> A = {}
<1>1. IsFiniteSet(A)
  BY ThreadFinite, FS_Subset
<1> QED BY <1>1, FS_CardinalityType, FS_EmptySet

LEMMA CountOne ==
  ASSUME NEW A, A \subseteq Thread, NEW t \in A, Cardinality(A) <= 1
  PROVE  A = {t}
<1>1. IsFiniteSet(A \ {t}) /\ IsFiniteSet(A)
  BY ThreadFinite, FS_Subset
<1>2. Cardinality(A) = Cardinality(A \ {t}) + 1
  BY <1>1, CountChange, FS_CardinalityType
<1>3. Cardinality(A \ {t}) = 0
  BY <1>1, <1>2, FS_CardinalityType
<1> QED BY <1>1, <1>3, FS_EmptySet

-----------------------------------------------------------------------------
(* The counters of a folder when one thread changes what it uses.          *)

\* Facts about one summary.
One(s) ==
  /\ s.passesOn \subseteq s.counts \cup {s.pending}
  /\ s.owns \subseteq s.counts \cap s.writes
  /\ s.acquires \subseteq s.counts \cap s.writes
  /\ s.pending \notin s.counts
  /\ s.flags \subseteq s.owns \cap (s.moves \cup s.removes)
  /\ \A n \in s.moves \cup s.unlinks : n \in s.vacates \/ (n \in s.owns /\ s.goesAway = {})
  /\ s.vacates \subseteq s.moves \cup s.removes
  /\ s.removes \subseteq s.unlinks
  /\ Root \notin s.moves \cup s.unlinks
  /\ s.moves \cup s.unlinks # {} => s.pending = NULL
  /\ s.asReader \cup s.asWriter \subseteq {s.pending}
  /\ s.moveLock \subseteq s.counts

Others(S, S2, t) == \A u \in Thread : u # t => S2[u] = S[u]

Bit(b) == IF b THEN 1 ELSE 0

\* How a count changes when one thread does.
LEMMA Recounted ==
  ASSUME NEW t \in Thread, NEW A, NEW B, A \subseteq Thread, B \subseteq Thread,
         \A u \in Thread : u # t => (u \in A <=> u \in B)
  PROVE  /\ Cardinality(A) \in Nat /\ Cardinality(B) \in Nat
         /\ Cardinality(B) = Cardinality(A) + Bit(t \in B) - Bit(t \in A)
<1>1. A \ {t} = B \ {t}
  OBVIOUS
<1> QED BY <1>1, CountChange DEF Bit

\* The counters of a folder follow what one thread does there.
CountersFollow(m, m2, n, s, s2) ==
  /\ m2.readers_inside = m.readers_inside + Bit(n \in s2.reads) - Bit(n \in s.reads)
  /\ m2.writers_inside = m.writers_inside + Bit(n \in s2.writes) - Bit(n \in s.writes)
  /\ m2.readers_waiting = m.readers_waiting + Bit(n \in s2.asReader) - Bit(n \in s.asReader)
  /\ m2.writers_waiting = m.writers_waiting + Bit(n \in s2.asWriter) - Bit(n \in s.asWriter)
  /\ m2.subtree_threads = m.subtree_threads + Bit(n \in s2.counts) - Bit(n \in s.counts)
  /\ m2.safe_hmap_get_count = IF n = Root THEN m.safe_hmap_get_count
       ELSE m.safe_hmap_get_count + Bit(n \in s2.counts) - Bit(n \in s.counts)
              + Bit(n = s2.pending) - Bit(n = s.pending)

LEMMA CountersStep ==
  ASSUME NEW S, NEW S2, NEW t \in Thread, Others(S, S2, t), NEW n, NEW m, NEW m2,
         CountersOf(m, n, S), CountersFollow(m, m2, n, S[t], S2[t])
  PROVE  CountersOf(m2, n, S2)
<1>1. m2.readers_inside = Cardinality({u \in Thread : n \in S2[u].reads})
  <2> DEFINE A == {u \in Thread : n \in S[u].reads}
             B == {u \in Thread : n \in S2[u].reads}
  <2>1. Cardinality(A) \in Nat /\ Cardinality(B) = Cardinality(A) + Bit(t \in B) - Bit(t \in A)
    BY Recounted DEF Others
  <2> QED BY <2>1 DEF CountersOf, CountersFollow
<1>2. m2.writers_inside = Cardinality({u \in Thread : n \in S2[u].writes})
  <2> DEFINE A == {u \in Thread : n \in S[u].writes}
             B == {u \in Thread : n \in S2[u].writes}
  <2>1. Cardinality(A) \in Nat /\ Cardinality(B) = Cardinality(A) + Bit(t \in B) - Bit(t \in A)
    BY Recounted DEF Others
  <2> QED BY <2>1 DEF CountersOf, CountersFollow
<1>3. m2.readers_waiting = Cardinality({u \in Thread : n \in S2[u].asReader})
  <2> DEFINE A == {u \in Thread : n \in S[u].asReader}
             B == {u \in Thread : n \in S2[u].asReader}
  <2>1. Cardinality(A) \in Nat /\ Cardinality(B) = Cardinality(A) + Bit(t \in B) - Bit(t \in A)
    BY Recounted DEF Others
  <2> QED BY <2>1 DEF CountersOf, CountersFollow
<1>4. m2.writers_waiting = Cardinality({u \in Thread : n \in S2[u].asWriter})
  <2> DEFINE A == {u \in Thread : n \in S[u].asWriter}
             B == {u \in Thread : n \in S2[u].asWriter}
  <2>1. Cardinality(A) \in Nat /\ Cardinality(B) = Cardinality(A) + Bit(t \in B) - Bit(t \in A)
    BY Recounted DEF Others
  <2> QED BY <2>1 DEF CountersOf, CountersFollow
<1>5. /\ m2.subtree_threads = Cardinality({u \in Thread : n \in S2[u].counts})
      /\ m2.safe_hmap_get_count = IF n = Root THEN 0
            ELSE Cardinality({u \in Thread : n \in S2[u].counts})
                   + Cardinality({u \in Thread : n = S2[u].pending})
  <2> DEFINE A == {u \in Thread : n \in S[u].counts}
             B == {u \in Thread : n \in S2[u].counts}
             C == {u \in Thread : n = S[u].pending}
             D == {u \in Thread : n = S2[u].pending}
  <2>1. Cardinality(A) \in Nat /\ Cardinality(B) = Cardinality(A) + Bit(t \in B) - Bit(t \in A)
    BY Recounted DEF Others
  <2>2. Cardinality(C) \in Nat /\ Cardinality(D) = Cardinality(C) + Bit(t \in D) - Bit(t \in C)
    BY Recounted DEF Others
  <2>3. /\ t \in A <=> n \in S[t].counts
        /\ t \in B <=> n \in S2[t].counts
        /\ t \in C <=> n = S[t].pending
        /\ t \in D <=> n = S2[t].pending
    OBVIOUS
  <2>4. /\ m.subtree_threads = Cardinality(A)
        /\ m.safe_hmap_get_count = IF n = Root THEN 0 ELSE Cardinality(A) + Cardinality(C)
    BY DEF CountersOf
  <2> HIDE DEF A, B, C, D
  <2>5. /\ m2.subtree_threads = Cardinality(B)
        /\ m2.safe_hmap_get_count = IF n = Root THEN 0 ELSE Cardinality(B) + Cardinality(D)
    BY <2>1, <2>2, <2>3, <2>4 DEF CountersFollow, Bit
  <2> QED BY <2>5 DEF B, D
<1> QED BY <1>1, <1>2, <1>3, <1>4, <1>5 DEF CountersOf

\* What a counter says of a thread.
LEMMA CountersAtLeast ==
  ASSUME NEW S, NEW n, NEW m, CountersOf(m, n, S), NEW t \in Thread
  PROVE  /\ m.readers_inside \in Nat /\ m.writers_inside \in Nat
         /\ m.readers_waiting \in Nat /\ m.writers_waiting \in Nat
         /\ m.subtree_threads \in Nat /\ m.safe_hmap_get_count \in Nat
         /\ n \in S[t].reads => m.readers_inside > 0
         /\ n \in S[t].writes => m.writers_inside > 0
         /\ n \in S[t].asReader => m.readers_waiting > 0
         /\ n \in S[t].asWriter => m.writers_waiting > 0
         /\ n \in S[t].counts => m.subtree_threads > 0
         /\ n \in S[t].counts /\ n # Root => m.safe_hmap_get_count > 0
<1> DEFINE A(x) == {u \in Thread : n \in x[u]}
<1>1. /\ m.readers_inside \in Nat
      /\ n \in S[t].reads => m.readers_inside > 0
  <2> DEFINE B == {u \in Thread : n \in S[u].reads}
  <2>1. Cardinality(B) \in Nat /\ (Cardinality(B) = 0 <=> B = {})
    BY CountNone
  <2> QED BY <2>1 DEF CountersOf
<1>2. /\ m.writers_inside \in Nat
      /\ n \in S[t].writes => m.writers_inside > 0
  <2> DEFINE B == {u \in Thread : n \in S[u].writes}
  <2>1. Cardinality(B) \in Nat /\ (Cardinality(B) = 0 <=> B = {})
    BY CountNone
  <2> QED BY <2>1 DEF CountersOf
<1>3. /\ m.readers_waiting \in Nat
      /\ n \in S[t].asReader => m.readers_waiting > 0
  <2> DEFINE B == {u \in Thread : n \in S[u].asReader}
  <2>1. Cardinality(B) \in Nat /\ (Cardinality(B) = 0 <=> B = {})
    BY CountNone
  <2> QED BY <2>1 DEF CountersOf
<1>4. /\ m.writers_waiting \in Nat
      /\ n \in S[t].asWriter => m.writers_waiting > 0
  <2> DEFINE B == {u \in Thread : n \in S[u].asWriter}
  <2>1. Cardinality(B) \in Nat /\ (Cardinality(B) = 0 <=> B = {})
    BY CountNone
  <2> QED BY <2>1 DEF CountersOf
<1>5. /\ m.subtree_threads \in Nat /\ m.safe_hmap_get_count \in Nat
      /\ n \in S[t].counts => m.subtree_threads > 0
      /\ n \in S[t].counts /\ n # Root => m.safe_hmap_get_count > 0
  <2> DEFINE B == {u \in Thread : n \in S[u].counts}
             C == {u \in Thread : n = S[u].pending}
  <2>1. Cardinality(B) \in Nat /\ (Cardinality(B) = 0 <=> B = {}) /\ Cardinality(C) \in Nat
    BY CountNone
  <2> QED BY <2>1 DEF CountersOf
<1> QED BY <1>1, <1>2, <1>3, <1>4, <1>5

\* The only thread that counts, and the only one that can come.
LEMMA CountersAlone ==
  ASSUME NEW S, NEW n, NEW m, CountersOf(m, n, S), NEW t \in Thread, n \in S[t].counts
  PROVE  /\ m.subtree_threads <= 1 => \A u \in Thread : u # t => n \notin S[u].counts
         /\ m.safe_hmap_get_count <= 1 /\ n # Root =>
              \A u \in Thread : u # t => n \notin S[u].counts /\ n # S[u].pending
<1> DEFINE B == {u \in Thread : n \in S[u].counts}
           C == {u \in Thread : n = S[u].pending}
<1>1. t \in B /\ B \subseteq Thread /\ C \subseteq Thread
  OBVIOUS
<1>2. Cardinality(B) \in Nat /\ Cardinality(C) \in Nat
      /\ (Cardinality(B) = 0 <=> B = {}) /\ (Cardinality(C) = 0 <=> C = {})
  BY CountNone
<1>3. m.subtree_threads = Cardinality(B) /\ (n # Root => m.safe_hmap_get_count = Cardinality(B) + Cardinality(C))
  BY DEF CountersOf
<1>4. Cardinality(B) <= 1 => B = {t}
  BY <1>1, CountOne
<1>5. \A u \in Thread : (u \in B <=> n \in S[u].counts) /\ (u \in C <=> n = S[u].pending)
  OBVIOUS
<1> HIDE DEF B, C
<1> QED BY <1>1, <1>2, <1>3, <1>4, <1>5

-----------------------------------------------------------------------------
(* What stays true while the folders it speaks of stay.                    *)

\* What a step leaves alone in the folders.
SameTree(nd, nd2) == \A n \in NodeId :
  /\ nd2[n].parent = nd[n].parent /\ nd2[n].name = nd[n].name
  /\ nd2[n].memory = nd[n].memory /\ nd2[n].children = nd[n].children
SameMaps(nd, nd2) == \A n \in NodeId :
  /\ nd2[n].map_writer = nd[n].map_writer
  /\ nd2[n].move_map_writers_access = nd[n].move_map_writers_access
SameFlags(nd, nd2) == \A n \in NodeId : nd2[n].emergency_pass = nd[n].emergency_pass

SameTaking(s, s2) ==
  s2.moves = s.moves /\ s2.removes = s.removes /\ (s.moves = {} \/ s2.place = s.place)

\* Summaries that make no new demands: of the folders' counters, ...
NoNewUse(s, s2) ==
  /\ s2.counts \cup {s2.pending} \subseteq s.counts \cup {s.pending, NULL}
  /\ NULL \notin s2.counts
  /\ s2.reads \cup s2.writes \subseteq s.reads \cup s.writes \cup ({s.pending} \ {NULL})

LEMMA MapsStable ==
  ASSUME NEW nd, NEW nd2, NEW S, NEW S2, NEW t \in Thread, Others(S, S2, t),
         Maps(nd, S), SameMaps(nd, nd2), S2[t].maps = S[t].maps, S2[t].moveLock = S[t].moveLock
  PROVE  Maps(nd2, S2)
<1>1. \A u \in Thread : S2[u].maps = S[u].maps /\ S2[u].moveLock = S[u].moveLock
  BY DEF Others
<1> QED BY <1>1 DEF Maps, SameMaps

LEMMA ExclusionStable ==
  ASSUME NEW nd, NEW nd2, NEW S, NEW S2, NEW t \in Thread, Others(S, S2, t),
         Exclusion(nd, S), SameFlags(nd, nd2),
         S2[t].reads \subseteq S[t].reads, S2[t].writes \subseteq S[t].writes
  PROVE  Exclusion(nd2, S2)
<1>1. \A u \in Thread : S2[u].reads \subseteq S[u].reads /\ S2[u].writes \subseteq S[u].writes
  BY DEF Others
<1> QED BY <1>1 DEF Exclusion, SameFlags

LEMMA EmergencyStable ==
  ASSUME NEW nd, NEW nd2, NEW S, NEW S2, NEW t \in Thread, Others(S, S2, t),
         Emergency(nd, S), SameFlags(nd, nd2), S2[t].flags = S[t].flags
  PROVE  Emergency(nd2, S2)
<1>1. \A u \in Thread : S2[u].flags = S[u].flags
  BY DEF Others
<1> QED BY <1>1 DEF Emergency, SameFlags

\* A thread becomes no owner, and is not less on its way out.
LEMMA PrivacyStable ==
  ASSUME NEW nd, NEW nd2, NEW S, NEW S2, NEW t \in Thread, Others(S, S2, t),
         Privacy(nd, S), SameFlags(nd, nd2),
         \A n \in NodeId : OwnedBy(nd, S2, t, n) => OwnedBy(nd, S, t, n),
         S2[t].reads \subseteq S[t].reads, S2[t].writes \subseteq S[t].writes,
         S2[t].counts \subseteq S[t].counts,
         \A n \in NodeId : nd[n].emergency_pass =>
           /\ n \in S2[t].counts /\ n \in S[t].goesAway => n \in S2[t].goesAway
           /\ n \in S2[t].reads \cup S2[t].writes /\ n \in S[t].passesOn => n \in S2[t].passesOn
  PROVE  Privacy(nd2, S2)
<1> SUFFICES ASSUME NEW v \in Thread, NEW u \in Thread, NEW n \in NodeId,
                    v # u, OwnedBy(nd2, S2, v, n)
             PROVE  /\ n \in S2[u].counts => nd2[n].emergency_pass /\ n \in S2[u].goesAway
                    /\ n \in S2[u].reads \cup S2[u].writes
                         => nd2[n].emergency_pass /\ n \in S2[u].passesOn
  BY DEF Privacy
<1>1. nd2[n].emergency_pass = nd[n].emergency_pass
  BY DEF SameFlags
<1>2. OwnedBy(nd, S, v, n)
  <2>1. CASE v = t
    BY <2>1, <1>1 DEF OwnedBy
  <2>2. CASE v # t
    BY <2>2, <1>1 DEF OwnedBy, Others
  <2> QED BY <2>1, <2>2
<1>3. /\ n \in S[u].counts => nd[n].emergency_pass /\ n \in S[u].goesAway
      /\ n \in S[u].reads \cup S[u].writes => nd[n].emergency_pass /\ n \in S[u].passesOn
  BY <1>2 DEF Privacy
<1>4. CASE u = t
  BY <1>1, <1>3, <1>4
<1>5. CASE u # t
  <2>1. S2[u] = S[u]
    BY <1>5 DEF Others
  <2> QED BY <2>1, <1>1, <1>3
<1> QED BY <1>4, <1>5

LEMMA VacantStable ==
  ASSUME NEW S, NEW S2, NEW t \in Thread, Others(S, S2, t), Vacant(S),
         S2[t].vacates \subseteq S[t].vacates, NoNewUse(S[t], S2[t]),
         NULL \notin UNION {S[u].vacates : u \in Thread}
  PROVE  Vacant(S2)
<1> SUFFICES ASSUME NEW v \in Thread, NEW u \in Thread, v # u, NEW n \in S2[v].vacates
             PROVE  n \notin S2[u].counts \cup S2[u].reads \cup S2[u].writes /\ n # S2[u].pending
  BY DEF Vacant
<1>1. n \in S[v].vacates /\ n # NULL
  BY DEF Others
<1>2. n \notin S[u].counts \cup S[u].reads \cup S[u].writes /\ n # S[u].pending
  BY <1>1 DEF Vacant
<1>3. CASE u = t
  BY <1>1, <1>2, <1>3 DEF NoNewUse
<1>4. CASE u # t
  BY <1>2, <1>4 DEF Others
<1> QED BY <1>3, <1>4

LEMMA TakersStable ==
  ASSUME NEW S, NEW S2, NEW t \in Thread, Others(S, S2, t), Takers(S),
         S2[t].moves \subseteq S[t].moves, S2[t].removes \subseteq S[t].removes
  PROVE  Takers(S2)
<1>1. \A u \in Thread : S2[u].moves \subseteq S[u].moves /\ S2[u].removes \subseteq S[u].removes
  BY DEF Others
<1> QED BY <1>1 DEF Takers

LEMMA ShapeStable ==
  ASSUME NEW nd, NEW nd2, NEW S, NEW S2, NEW t \in Thread, Others(S, S2, t),
         nd \in [NodeId -> NodeType],
         Shape(nd, S), SameTree(nd, nd2), SameTaking(S[t], S2[t])
  PROVE  Shape(nd2, S2)
<1>1. \A u \in Thread : SameTaking(S[u], S2[u])
  BY DEF Others, SameTaking
<1>2. LiveIn(nd2) = LiveIn(nd)
  BY DEF SameTree, LiveIn
<1>3. Root \in NodeId
  BY TreeAssumption
<1>4. /\ nd2[Root].parent = NULL /\ Root \in LiveIn(nd2)
      /\ \A n \in LiveIn(nd2) \ {Root} : nd2[n].parent \in NodeId /\ nd2[n].name \in Name
      /\ \A n \in NodeId : nd2[n].parent # NULL => nd2[nd2[n].parent].memory # "unused"
  <2>1. \A n \in NodeId : nd[n].parent \in NodeId \cup {NULL}
    BY DEF NodeType
  <2> QED BY <1>2, <1>3, <2>1 DEF Shape, SameTree, LiveIn
<1>5. ASSUME NEW d \in NodeId, NEW a \in Name, nd2[d].children[a] # NULL
      PROVE  LET n == nd2[d].children[a] IN
             /\ d \in LiveIn(nd2) /\ n \in LiveIn(nd2) \ {Root}
             /\ \A u \in Thread : n \notin S2[u].removes /\ (n \in S2[u].moves => S2[u].place = <<d, a>>)
             /\ (\A u \in Thread : n \notin S2[u].moves) => d = nd2[n].parent /\ a = nd2[n].name
  <2> DEFINE n == nd[d].children[a]
  <2>1. nd2[d].children[a] = n /\ n # NULL
    BY <1>5 DEF SameTree
  <2>2. /\ d \in LiveIn(nd) /\ n \in LiveIn(nd) \ {Root}
        /\ \A u \in Thread : n \notin S[u].removes /\ (n \in S[u].moves => S[u].place = <<d, a>>)
        /\ (\A u \in Thread : n \notin S[u].moves) => d = nd[n].parent /\ a = nd[n].name
    BY <2>1 DEF Shape
  <2>3. n \in NodeId
    BY <2>2 DEF LiveIn
  <2> HIDE DEF n
  <2> QED BY <2>1, <2>2, <2>3, <1>1, <1>2 DEF SameTree, SameTaking
<1>6. ASSUME NEW n \in LiveIn(nd2) \ {Root},
             \A u \in Thread : n \notin S2[u].moves \cup S2[u].removes
      PROVE  nd2[nd2[n].parent].children[nd2[n].name] = n
  <2>1. n \in LiveIn(nd) \ {Root} /\ n \in NodeId /\ nd[n].parent \in NodeId
    BY <1>2 DEF Shape, LiveIn
  <2>2. \A u \in Thread : n \notin S[u].moves \cup S[u].removes
    BY <1>1, <1>6 DEF SameTaking
  <2>3. nd[nd[n].parent].children[nd[n].name] = n
    BY <2>1, <2>2 DEF Shape
  <2> QED BY <2>1, <2>3 DEF SameTree
<1> QED BY <1>4, <1>5, <1>6 DEF Shape

LEMMA TransfersStable ==
  ASSUME NEW nd, NEW nd2, NEW S, NEW S2, NEW t \in Thread, Others(S, S2, t),
         Transfers(nd, S), SameTree(nd, nd2), SameMaps(nd, nd2),
         \A u \in Thread : S[u].unlinks \subseteq NodeId /\ S[u].maps \subseteq NodeId,
         SameTaking(S[t], S2[t]), S[t].moves = {} \/ S2[t].maps = S[t].maps,
         \A n \in S2[t].unlinks : n \in S[t].unlinks
           \/ (n \in NodeId /\ nd[n].map_writer = NULL /\ Names(nd[n]) = {})
  PROVE  Transfers(nd2, S2)
<1>1. \A u \in Thread : SameTaking(S[u], S2[u]) /\ (S[u].moves = {} \/ S2[u].maps = S[u].maps)
  BY DEF Others, SameTaking
<1>2. ASSUME NEW u \in Thread, NEW n \in S2[u].moves
      PROVE  /\ S2[u].place[1] \in S2[u].maps /\ S2[u].place[2] \in Name
             /\ nd2[S2[u].place[1]].children[S2[u].place[2]] = n
  <2>1. n \in S[u].moves /\ S2[u].place = S[u].place /\ S2[u].maps = S[u].maps
    BY <1>1, <1>2 DEF SameTaking
  <2>2. /\ S[u].place[1] \in S[u].maps /\ S[u].place[2] \in Name
        /\ nd[S[u].place[1]].children[S[u].place[2]] = n
    BY <2>1 DEF Transfers
  <2>3. S[u].place[1] \in NodeId
    BY <2>2
  <2> QED BY <2>1, <2>2, <2>3 DEF SameTree
<1>3. ASSUME NEW u \in Thread, NEW n \in S2[u].unlinks
      PROVE  nd2[n].map_writer = NULL /\ Names(nd2[n]) = {}
  <2>1. n \in NodeId /\ nd[n].map_writer = NULL /\ Names(nd[n]) = {}
    BY <1>3 DEF Others, Transfers
  <2> QED BY <2>1 DEF SameTree, SameMaps, Names
<1> QED BY <1>2, <1>3 DEF Transfers

LEMMA MemoryStable ==
  ASSUME NEW nd, NEW nd2, NEW S, NEW S2, NEW t \in Thread, Others(S, S2, t),
         Memory(nd, S), SameTree(nd, nd2), NoNewUse(S[t], S2[t]),
         S2[t].maps \subseteq S[t].maps,
         S2[t].moves \subseteq S[t].moves, S2[t].removes \subseteq S[t].removes
  PROVE  Memory(nd2, S2)
<1>1. LiveIn(nd2) = LiveIn(nd)
  BY DEF SameTree, LiveIn
<1>2. \A u \in Thread : u # t => S2[u] = S[u]
  BY DEF Others
<1>3. ASSUME NEW u \in Thread
      PROVE  /\ S2[u].counts \cup S2[u].reads \cup S2[u].writes \cup S2[u].maps
                  \cup S2[u].moves \cup S2[u].removes \subseteq LiveIn(nd)
             /\ S2[u].pending # NULL => S2[u].pending \in LiveIn(nd)
  <2>1. CASE u = t
    BY <2>1 DEF Memory, NoNewUse
  <2>2. CASE u # t
    BY <2>2, <1>2 DEF Memory
  <2> QED BY <2>1, <2>2
<1> QED BY <1>1, <1>3 DEF Memory

LEMMA DepthsStable ==
  ASSUME NEW nd, NEW nd2, NEW S, NEW S2, NEW t \in Thread, Others(S, S2, t), NEW dp,
         Depths(nd, S, dp), SameTree(nd, nd2), S2[t].counts \cup {S2[t].pending} \subseteq S[t].counts \cup {S[t].pending, NULL}
  PROVE  Depths(nd2, S2, dp)
<1>1. \A u \in Thread : \A n \in NodeId :
        n \in S2[u].counts \/ n = S2[u].pending => n \in S[u].counts \/ n = S[u].pending
  BY TreeAssumption DEF Others
<1>2. \A u \in Thread : \A n \in NodeId :
        (n \in S2[u].counts \/ n = S2[u].pending) /\ nd2[n].parent # NULL
           => dp[nd2[n].parent] < dp[n]
  BY <1>1 DEF Depths, SameTree
<1>3. \A d \in NodeId, a \in Name :
        nd2[d].children[a] # NULL => dp[d] < dp[nd2[d].children[a]]
  BY DEF Depths, SameTree
<1> QED BY <1>2, <1>3 DEF Depths

\* The counters and the sleepers, when the folders with other counters are m
\* at n only.
LEMMA CountersStable ==
  ASSUME NEW nd, NEW nd2, NEW S, NEW S2, NEW t \in Thread, Others(S, S2, t),
         Counters(nd, S), \A n \in NodeId : CountersFollow(nd[n], nd2[n], n, S[t], S2[t])
  PROVE  Counters(nd2, S2)
BY CountersStep DEF Counters

SleepersFollow(m, m2, n, t, s2) ==
  /\ m2.readers \subseteq m.readers \cup {t} /\ (t \in m2.readers => n \in s2.asReader)
  /\ m2.writers \subseteq m.writers \cup {t} /\ (t \in m2.writers => n \in s2.asWriter)
  /\ m2.private_access \subseteq m.private_access \cup {t}
  /\ t \in m2.private_access => n \in s2.inPrivate

LEMMA SleepersStable ==
  ASSUME NEW nd, NEW nd2, NEW S, NEW S2, NEW t \in Thread, Others(S, S2, t),
         Sleepers(nd, S), \A n \in NodeId : SleepersFollow(nd[n], nd2[n], n, t, S2[t])
  PROVE  Sleepers(nd2, S2)
<1> SUFFICES ASSUME NEW n \in NodeId PROVE SleepersOf(nd2[n], n, S2)
  BY DEF Sleepers
<1>1. SleepersOf(nd[n], n, S) /\ SleepersFollow(nd[n], nd2[n], n, t, S2[t])
  BY DEF Sleepers
<1>2. \A u \in Thread : u # t => S2[u] = S[u]
  BY DEF Others
<1> QED BY <1>1, <1>2 DEF SleepersOf, SleepersFollow

-----------------------------------------------------------------------------
(* A step that no folder notices, and a step at the counters of some.      *)

Typed(s) ==
  /\ s.counts \cup s.reads \cup s.writes \cup s.maps \cup s.moveLock \cup s.asReader \cup s.asWriter
       \cup s.inPrivate \cup s.moves \cup s.removes \cup s.unlinks \cup s.flags
       \cup s.vacates \cup s.owns \cup s.acquires \subseteq NodeId
  /\ s.pending \in NodeId \cup {NULL}
  /\ Root \notin s.moves \cup s.removes \cup s.unlinks \cup s.vacates

\* The invariant about the folders nd and the summaries S.
Good(nd, S, dp) ==
  nd \in [NodeId -> NodeType] /\ (\A u \in Thread : Typed(S[u])) /\ Global(nd, S, dp)

SameUse(s, s2) ==
  s2.reads = s.reads /\ s2.writes = s.writes /\ s2.counts = s.counts
SameSleep(s, s2) ==
  s2.asReader = s.asReader /\ s2.asWriter = s.asWriter /\ s2.inPrivate = s.inPrivate
SameHeld(s, s2) ==
  /\ s2.maps = s.maps /\ s2.moveLock = s.moveLock /\ s2.flags = s.flags
  /\ s2.vacates = s.vacates /\ SameTaking(s, s2)

\* It becomes no owner, and is not less on its way out.
OwnedIn(nd, s, n) ==
  n \in s.owns \/ (n \in s.acquires /\ ~nd[n].emergency_pass)
KeepsPrivacy(nd, s, s2) == \A n \in NodeId :
  /\ OwnedIn(nd, s2, n) => OwnedIn(nd, s, n)
  /\ nd[n].emergency_pass =>
       /\ n \in s2.counts /\ n \in s.goesAway => n \in s2.goesAway
       /\ n \in s2.reads \cup s2.writes /\ n \in s.passesOn => n \in s2.passesOn

LEMMA PrivacyKept ==
  ASSUME NEW nd, NEW nd2, NEW S, NEW S2, NEW t \in Thread, Others(S, S2, t),
         Privacy(nd, S), SameFlags(nd, nd2), KeepsPrivacy(nd, S[t], S2[t]),
         S2[t].reads \subseteq S[t].reads, S2[t].writes \subseteq S[t].writes,
         S2[t].counts \subseteq S[t].counts
  PROVE  Privacy(nd2, S2)
<1>1. \A n \in NodeId : OwnedBy(nd, S2, t, n) => OwnedBy(nd, S, t, n)
  BY DEF OwnedBy, OwnedIn, KeepsPrivacy
<1>2. \A n \in NodeId : nd[n].emergency_pass =>
           /\ n \in S2[t].counts /\ n \in S[t].goesAway => n \in S2[t].goesAway
           /\ n \in S2[t].reads \cup S2[t].writes /\ n \in S[t].passesOn => n \in S2[t].passesOn
  BY DEF KeepsPrivacy
<1> QED BY <1>1, <1>2, PrivacyStable

LEMMA NoNullVacates ==
  ASSUME NEW S, \A u \in Thread : Typed(S[u])
  PROVE  /\ NULL \notin UNION {S[u].vacates : u \in Thread} 
         /\ \A u \in Thread : S[u].unlinks \subseteq NodeId /\ S[u].maps \subseteq NodeId
BY TreeAssumption DEF Typed

\* A step that no folder notices.
Quiet(nd, s, s2) ==
  /\ SameUse(s, s2) /\ SameSleep(s, s2) /\ SameHeld(s, s2) /\ KeepsPrivacy(nd, s, s2)
  /\ s2.pending = s.pending \/ (s.pending = NULL /\ s2.pending = Root)
  /\ \A n \in s2.unlinks : n \in s.unlinks
       \/ (n \in NodeId /\ nd[n].map_writer = NULL /\ Names(nd[n]) = {})

LEMMA GQuiet ==
  ASSUME NEW nd, NEW S, NEW S2, NEW t \in Thread, NEW dp, Good(nd, S, dp),
         Others(S, S2, t), Quiet(nd, S[t], S2[t])
  PROVE  Global(nd, S2, dp)
<1> USE DEF Good, Global
<1>1. SameTree(nd, nd) /\ SameMaps(nd, nd) /\ SameFlags(nd, nd)
  BY DEF SameTree, SameMaps, SameFlags
<1>2. Maps(nd, S2)
  BY <1>1, MapsStable DEF Quiet, SameHeld
<1>3. Exclusion(nd, S2)
  BY <1>1, ExclusionStable DEF Quiet, SameUse
<1>4. Emergency(nd, S2)
  BY <1>1, EmergencyStable DEF Quiet, SameHeld
<1>5. Privacy(nd, S2)
  BY <1>1, PrivacyKept DEF Quiet, SameUse
<1>6. Takers(S2)
  BY TakersStable DEF Quiet, SameHeld, SameTaking
<1>7. Shape(nd, S2)
  BY <1>1, ShapeStable DEF Quiet, SameHeld
<1>8. Transfers(nd, S2)
  BY <1>1, NoNullVacates, TransfersStable DEF Quiet, SameHeld
<1>9. Counters(nd, S2)
  <2>1. ASSUME NEW n \in NodeId PROVE CountersFollow(nd[n], nd[n], n, S[t], S2[t])
    <3>1. n = Root \/ Bit(n = S2[t].pending) = Bit(n = S[t].pending)
      BY TreeAssumption DEF Quiet, Bit
    <3>2. nd[n] \in NodeType
      OBVIOUS
    <3> QED BY <3>1, <3>2 DEF Quiet, CountersFollow, SameUse, SameSleep, Bit, NodeType
  <2> QED BY <2>1, CountersStable
<1>10. Sleepers(nd, S2)
  <2>1. ASSUME NEW n \in NodeId PROVE SleepersFollow(nd[n], nd[n], n, t, S2[t])
    BY DEF Sleepers, SleepersOf, SleepersFollow, Quiet, SameSleep
  <2> QED BY <2>1, SleepersStable
<1>11. Root \in NodeId /\ Root \in LiveIn(nd) /\ nd[Root].parent = NULL
  BY TreeAssumption DEF Shape
<1>12. Vacant(S2) /\ Memory(nd, S2) /\ Depths(nd, S2, dp)
  <2>1. CASE S2[t].pending = S[t].pending
    <3>1. NoNewUse(S[t], S2[t])
      BY <2>1, TreeAssumption DEF NoNewUse, Quiet, SameUse, Typed
    <3>2. Vacant(S2)
      BY <3>1, NoNullVacates, VacantStable DEF Quiet, SameHeld
    <3>3. Memory(nd, S2)
      BY <3>1, <1>1, MemoryStable DEF Quiet, SameHeld, SameTaking
    <3>4. Depths(nd, S2, dp)
      BY <3>1, <1>1, DepthsStable DEF NoNewUse
    <3> QED BY <3>2, <3>3, <3>4
  <2>2. CASE S[t].pending = NULL /\ S2[t].pending = Root
    <3>1. ASSUME NEW v \in Thread, NEW u \in Thread, v # u, NEW n \in S2[v].vacates
          PROVE  n \notin S2[u].counts \cup S2[u].reads \cup S2[u].writes /\ n # S2[u].pending
      <4>1. n \in S[v].vacates /\ n # Root
        BY DEF Others, Typed, Quiet, SameHeld
      <4>2. n \notin S[u].counts \cup S[u].reads \cup S[u].writes /\ n # S[u].pending
        BY <3>1, <4>1 DEF Vacant
      <4>3. CASE u = t
        BY <4>1, <4>2, <4>3, <2>2 DEF Quiet, SameUse
      <4>4. CASE u # t
        BY <4>2, <4>4 DEF Others
      <4> QED BY <4>3, <4>4
    <3>2. Memory(nd, S2)
      <4>1. \A u \in Thread : u # t => S2[u] = S[u]
        BY DEF Others
      <4>2. ASSUME NEW u \in Thread
            PROVE  /\ S2[u].counts \cup S2[u].reads \cup S2[u].writes \cup S2[u].maps
                        \cup S2[u].moves \cup S2[u].removes \subseteq LiveIn(nd)
                   /\ S2[u].pending # NULL => S2[u].pending \in LiveIn(nd)
        <5>1. CASE u = t
          BY <5>1, <2>2, <1>11 DEF Memory, Quiet, SameUse, SameHeld, SameTaking
        <5>2. CASE u # t
          BY <5>2, <4>1 DEF Memory
        <5> QED BY <5>1, <5>2
      <4> QED BY <4>2 DEF Memory
    <3>3. Depths(nd, S2, dp)
      <4>1. \A u \in Thread : \A n \in NodeId :
              n \in S2[u].counts \/ n = S2[u].pending
                => n \in S[u].counts \/ n = S[u].pending \/ n = Root
        BY <2>2 DEF Quiet, SameUse, Others
      <4>2. \A u \in Thread : \A n \in NodeId :
              (n \in S2[u].counts \/ n = S2[u].pending) /\ nd[n].parent # NULL
                 => dp[nd[n].parent] < dp[n]
        BY <4>1, <1>11 DEF Depths
      <4> QED BY <4>2 DEF Depths
    <3> QED BY <3>1, <3>2, <3>3 DEF Vacant
  <2> QED BY <2>1, <2>2 DEF Quiet
<1> QED BY <1>2, <1>3, <1>4, <1>5, <1>6, <1>7, <1>8, <1>9, <1>10, <1>12

\* A step that only its counters and sleepers show.
LEMMA GStep ==
  ASSUME NEW nd, NEW nd2, NEW S, NEW S2, NEW t \in Thread, NEW dp, Good(nd, S, dp),
         Others(S, S2, t), SameTree(nd, nd2), SameMaps(nd, nd2), SameFlags(nd, nd2),
         \A n \in NodeId : CountersFollow(nd[n], nd2[n], n, S[t], S2[t]),
         \A n \in NodeId : SleepersFollow(nd[n], nd2[n], n, t, S2[t]),
         SameHeld(S[t], S2[t]), S2[t].unlinks = S[t].unlinks, NoNewUse(S[t], S2[t]),
         Exclusion(nd2, S2), Privacy(nd2, S2)
  PROVE  Global(nd2, S2, dp)
<1> USE DEF Good, Global
<1>2. Maps(nd2, S2)
  BY MapsStable DEF SameHeld
<1>4. Emergency(nd2, S2)
  BY EmergencyStable DEF SameHeld
<1>6. Takers(S2)
  BY TakersStable DEF SameHeld, SameTaking
<1>7. Shape(nd2, S2)
  BY ShapeStable DEF SameHeld
<1>8. Transfers(nd2, S2)
  BY NoNullVacates, TransfersStable DEF SameHeld
<1>9. Counters(nd2, S2)
  BY CountersStable
<1>10. Sleepers(nd2, S2)
  BY SleepersStable
<1>11. Vacant(S2)
  BY NoNullVacates, VacantStable DEF SameHeld
<1>12. Memory(nd2, S2)
  BY MemoryStable DEF SameHeld, SameTaking
<1>13. Depths(nd2, S2, dp)
  BY DepthsStable DEF NoNewUse
<1> QED BY <1>2, <1>4, <1>6, <1>7, <1>8, <1>9, <1>10, <1>11, <1>12, <1>13

\* One folder changes, and of it only what the mutexes protect.
LockFields(m, m2) ==
  /\ m2.parent = m.parent /\ m2.name = m.name /\ m2.memory = m.memory
  /\ m2.children = m.children /\ m2.map_writer = m.map_writer
  /\ m2.move_map_writers_access = m.move_map_writers_access
  /\ m2.emergency_pass = m.emergency_pass

LEMMA LockFieldsSame ==
  ASSUME NEW nd, NEW nd2, NEW n \in NodeId, NEW m2, nd \in [NodeId -> NodeType],
         nd2 = [nd EXCEPT ![n] = m2], LockFields(nd[n], m2)
  PROVE  SameTree(nd, nd2) /\ SameMaps(nd, nd2) /\ SameFlags(nd, nd2)
<1>1. \A x \in NodeId : nd2[x] = IF x = n THEN m2 ELSE nd[x]
  OBVIOUS
<1> QED BY <1>1 DEF SameTree, SameMaps, SameFlags, LockFields

\* At the other folders nothing changes.
LEMMA FollowElsewhere ==
  ASSUME NEW nd, NEW nd2, NEW S, NEW S2, NEW t \in Thread, NEW n \in NodeId, NEW m2,
         nd \in [NodeId -> NodeType], nd2 = [nd EXCEPT ![n] = m2],
         Counters(nd, S), Sleepers(nd, S),
         \A x \in NodeId \ {n} :
           /\ x \in S2[t].reads <=> x \in S[t].reads
           /\ x \in S2[t].writes <=> x \in S[t].writes
           /\ x \in S2[t].counts <=> x \in S[t].counts
           /\ x \in S2[t].asReader <=> x \in S[t].asReader
           /\ x \in S2[t].asWriter <=> x \in S[t].asWriter
           /\ x \in S2[t].inPrivate <=> x \in S[t].inPrivate
           /\ x = S2[t].pending <=> x = S[t].pending,
         CountersFollow(nd[n], m2, n, S[t], S2[t]),
         SleepersFollow(nd[n], m2, n, t, S2[t])
  PROVE  /\ \A x \in NodeId : CountersFollow(nd[x], nd2[x], x, S[t], S2[t])
         /\ \A x \in NodeId : SleepersFollow(nd[x], nd2[x], x, t, S2[t])
<1> SUFFICES ASSUME NEW x \in NodeId, x # n
             PROVE  CountersFollow(nd[x], nd2[x], x, S[t], S2[t]) /\ SleepersFollow(nd[x], nd2[x], x, t, S2[t])
  OBVIOUS
<1>1. nd2[x] = nd[x] /\ nd[x] \in NodeType
  OBVIOUS
<1>2. CountersFollow(nd[x], nd2[x], x, S[t], S2[t])
  <2>1. /\ nd[x].readers_inside \in Int /\ nd[x].writers_inside \in Int
        /\ nd[x].readers_waiting \in Int /\ nd[x].writers_waiting \in Int
        /\ nd[x].subtree_threads \in Int /\ nd[x].safe_hmap_get_count \in Int
    BY <1>1 DEF NodeType
  <2>0. /\ x \in S2[t].reads <=> x \in S[t].reads
        /\ x \in S2[t].writes <=> x \in S[t].writes
        /\ x \in S2[t].counts <=> x \in S[t].counts
        /\ x \in S2[t].asReader <=> x \in S[t].asReader
        /\ x \in S2[t].asWriter <=> x \in S[t].asWriter
        /\ x = S2[t].pending <=> x = S[t].pending
    <3>1. x \in NodeId \ {n}
      OBVIOUS
    <3> QED BY <3>1
  <2>2. /\ nd[x].readers_inside = nd[x].readers_inside + Bit(x \in S2[t].reads) - Bit(x \in S[t].reads)
        /\ nd[x].writers_inside = nd[x].writers_inside + Bit(x \in S2[t].writes) - Bit(x \in S[t].writes)
    BY <2>0, <2>1 DEF Bit
  <2>3. /\ nd[x].readers_waiting = nd[x].readers_waiting + Bit(x \in S2[t].asReader) - Bit(x \in S[t].asReader)
        /\ nd[x].writers_waiting = nd[x].writers_waiting + Bit(x \in S2[t].asWriter) - Bit(x \in S[t].asWriter)
    BY <2>0, <2>1 DEF Bit
  <2>4. /\ nd[x].subtree_threads = nd[x].subtree_threads + Bit(x \in S2[t].counts) - Bit(x \in S[t].counts)
        /\ nd[x].safe_hmap_get_count = nd[x].safe_hmap_get_count + Bit(x \in S2[t].counts) - Bit(x \in S[t].counts)
              + Bit(x = S2[t].pending) - Bit(x = S[t].pending)
    BY <2>0, <2>1 DEF Bit
  <2> QED BY <1>1, <2>2, <2>3, <2>4 DEF CountersFollow
<1>3. SleepersFollow(nd[x], nd2[x], x, t, S2[t])
  BY <1>1 DEF SleepersFollow, Sleepers, SleepersOf
<1> QED BY <1>2, <1>3

-----------------------------------------------------------------------------
(* The mutexes of one folder: sleep, wake, enter, count, leave, notify.    *)

LEMMA SignalSubset ==
  ASSUME NEW q, NEW r \in Signal(q)
  PROVE  r \subseteq q
BY DEF Signal

\* What every step of a thread at a folder's mutexes starts from.
At(nd, nd2, S, S2, t, n, m2, dp) ==
  /\ Good(nd, S, dp) /\ Others(S, S2, t) /\ nd2 = [nd EXCEPT ![n] = m2]
  /\ SameHeld(S[t], S2[t]) /\ S2[t].unlinks = S[t].unlinks

\* The step is one if it keeps the counters of the folder and what they are for.
LEMMA GAt ==
  ASSUME NEW nd, NEW nd2, NEW S, NEW S2, NEW t \in Thread, NEW dp, NEW n \in NodeId, NEW m2,
         At(nd, nd2, S, S2, t, n, m2, dp), LockFields(nd[n], m2), m2 \in NodeType,
         \A x \in NodeId \ {n} :
           /\ x \in S2[t].reads <=> x \in S[t].reads
           /\ x \in S2[t].writes <=> x \in S[t].writes
           /\ x \in S2[t].counts <=> x \in S[t].counts
           /\ x \in S2[t].asReader <=> x \in S[t].asReader
           /\ x \in S2[t].asWriter <=> x \in S[t].asWriter
           /\ x \in S2[t].inPrivate <=> x \in S[t].inPrivate
           /\ x = S2[t].pending <=> x = S[t].pending,
         CountersFollow(nd[n], m2, n, S[t], S2[t]),
         SleepersFollow(nd[n], m2, n, t, S2[t]),
         NoNewUse(S[t], S2[t]), Exclusion(nd, S2), Privacy(nd, S2)
  PROVE  Global(nd2, S2, dp) /\ nd2 \in [NodeId -> NodeType] /\ SameTree(nd, nd2)
<1>1. nd \in [NodeId -> NodeType] /\ Counters(nd, S) /\ Sleepers(nd, S)
      /\ nd2 = [nd EXCEPT ![n] = m2]
  BY DEF At, Good, Global
<1>2. SameTree(nd, nd2) /\ SameMaps(nd, nd2) /\ SameFlags(nd, nd2)
  BY <1>1, LockFieldsSame
<1>3. /\ \A x \in NodeId : CountersFollow(nd[x], nd2[x], x, S[t], S2[t])
      /\ \A x \in NodeId : SleepersFollow(nd[x], nd2[x], x, t, S2[t])
  <2>1. Others(S, S2, t)
    BY DEF At
  <2> QED BY <1>1, <2>1, FollowElsewhere
<1>4. Exclusion(nd2, S2) /\ Privacy(nd2, S2)
  BY <1>2 DEF Exclusion, Privacy, SameFlags, OwnedBy
<1>5. Global(nd2, S2, dp)
  BY <1>2, <1>3, <1>4, GStep DEF At
<1> QED BY <1>1, <1>2, <1>5

\* The four ways to fall asleep and to wake.
LEMMA GSleepReader ==
  ASSUME NEW nd, NEW nd2, NEW S, NEW S2, NEW t \in Thread, NEW dp, NEW n \in NodeId, NEW m2,
         At(nd, nd2, S, S2, t, n, m2, dp), m2 = ReaderSleep(nd[n], t),
         SameUse(S[t], S2[t]), S2[t].pending = S[t].pending, KeepsPrivacy(nd, S[t], S2[t]),
         S[t].asReader = {}, S2[t].asReader = {n},
         S2[t].asWriter = S[t].asWriter, S2[t].inPrivate = S[t].inPrivate
  PROVE  Global(nd2, S2, dp) /\ nd2 \in [NodeId -> NodeType] /\ SameTree(nd, nd2)
<1> DEFINE m == nd[n]
           s == S[t]
           s2 == S2[t]
<1>1. nd \in [NodeId -> NodeType] /\ m \in NodeType /\ Global(nd, S, dp) /\ Others(S, S2, t)
      /\ \A u \in Thread : Typed(S[u])
  BY DEF At, Good
<1>2. CountersOf(m, n, S) /\ SleepersOf(m, n, S)
  BY <1>1 DEF Global, Counters, Sleepers
<1>3. /\ m.readers_inside \in Nat /\ m.writers_inside \in Nat
      /\ m.readers_waiting \in Nat /\ m.writers_waiting \in Nat
      /\ m.subtree_threads \in Nat /\ m.safe_hmap_get_count \in Nat
      /\ n \in s.reads => m.readers_inside > 0
      /\ n \in s.writes => m.writers_inside > 0
      /\ n \in s.asReader => m.readers_waiting > 0
      /\ n \in s.asWriter => m.writers_waiting > 0
      /\ n \in s.counts => m.subtree_threads > 0
      /\ n \in s.counts /\ n # Root => m.safe_hmap_get_count > 0
  BY <1>2, CountersAtLeast
<1>5. \E q \in ThreadSets : q = m.readers \cup {t} /\ m2 = [m EXCEPT !.readers_waiting = @ + 1, !.readers = q]
  <2>1. m.readers \cup {t} \in ThreadSets
    BY <1>1 DEF NodeType, ThreadSets
  <2> QED BY <2>1, <1>1 DEF ReaderSleep
<1>6. PICK q \in ThreadSets : q = m.readers \cup {t} /\ m2 = [m EXCEPT !.readers_waiting = @ + 1, !.readers = q]
  BY <1>5
<1>7. m.readers_waiting + 1 \in Nat
  BY <1>1, <1>3
<1>10. LockFields(m, m2)
  BY <1>1, <1>6 DEF LockFields, NodeType
<1>11. m2 \in NodeType
  BY <1>1, <1>7, <1>6 DEF NodeType
<1>12. CountersFollow(m, m2, n, s, s2)
  BY <1>1, <1>3, <1>6 DEF CountersFollow, Bit, NodeType, SameUse, SameSleep
<1>13. SleepersFollow(m, m2, n, t, s2)
  BY <1>1, <1>2, <1>6 DEF SleepersFollow, SleepersOf, NodeType, SameSleep
<1>20. Exclusion(nd, S2)
  BY <1>1, ExclusionStable DEF Global, SameFlags, SameUse
<1>21. Privacy(nd, S2)
  BY <1>1, PrivacyKept DEF Global, SameFlags, SameUse
<1>22. NoNewUse(s, s2)
  BY <1>1, TreeAssumption DEF NoNewUse, SameUse, Typed
<1>23. \A x \in NodeId \ {n} :
         /\ x \in s2.reads <=> x \in s.reads
         /\ x \in s2.writes <=> x \in s.writes
         /\ x \in s2.counts <=> x \in s.counts
         /\ x \in s2.asReader <=> x \in s.asReader
         /\ x \in s2.asWriter <=> x \in s.asWriter
         /\ x \in s2.inPrivate <=> x \in s.inPrivate
         /\ x = s2.pending <=> x = s.pending
  BY TreeAssumption DEF SameUse, SameSleep
<1> HIDE DEF m, s, s2
<1> QED BY <1>10, <1>11, <1>12, <1>13, <1>20, <1>21, <1>22, <1>23, GAt DEF m, s, s2

\* The same for a writer.
LEMMA GSleepWriter ==
  ASSUME NEW nd, NEW nd2, NEW S, NEW S2, NEW t \in Thread, NEW dp, NEW n \in NodeId, NEW m2,
         At(nd, nd2, S, S2, t, n, m2, dp), m2 = WriterSleep(nd[n], t),
         SameUse(S[t], S2[t]), S2[t].pending = S[t].pending, KeepsPrivacy(nd, S[t], S2[t]),
         S[t].asWriter = {}, S2[t].asWriter = {n},
         S2[t].asReader = S[t].asReader, S2[t].inPrivate = S[t].inPrivate
  PROVE  Global(nd2, S2, dp) /\ nd2 \in [NodeId -> NodeType] /\ SameTree(nd, nd2)
<1> DEFINE m == nd[n]
           s == S[t]
           s2 == S2[t]
<1>1. nd \in [NodeId -> NodeType] /\ m \in NodeType /\ Global(nd, S, dp) /\ Others(S, S2, t)
      /\ \A u \in Thread : Typed(S[u])
  BY DEF At, Good
<1>2. CountersOf(m, n, S) /\ SleepersOf(m, n, S)
  BY <1>1 DEF Global, Counters, Sleepers
<1>3. /\ m.readers_inside \in Nat /\ m.writers_inside \in Nat
      /\ m.readers_waiting \in Nat /\ m.writers_waiting \in Nat
      /\ m.subtree_threads \in Nat /\ m.safe_hmap_get_count \in Nat
      /\ n \in s.reads => m.readers_inside > 0
      /\ n \in s.writes => m.writers_inside > 0
      /\ n \in s.asReader => m.readers_waiting > 0
      /\ n \in s.asWriter => m.writers_waiting > 0
      /\ n \in s.counts => m.subtree_threads > 0
      /\ n \in s.counts /\ n # Root => m.safe_hmap_get_count > 0
  BY <1>2, CountersAtLeast
<1>5. \E q \in ThreadSets : q = m.writers \cup {t} /\ m2 = [m EXCEPT !.writers_waiting = @ + 1, !.writers = q]
  <2>1. m.writers \cup {t} \in ThreadSets
    BY <1>1 DEF NodeType, ThreadSets
  <2> QED BY <2>1, <1>1 DEF WriterSleep
<1>6. PICK q \in ThreadSets : q = m.writers \cup {t} /\ m2 = [m EXCEPT !.writers_waiting = @ + 1, !.writers = q]
  BY <1>5
<1>7. m.writers_waiting + 1 \in Nat
  BY <1>1, <1>3
<1>10. LockFields(m, m2)
  BY <1>1, <1>6 DEF LockFields, NodeType
<1>11. m2 \in NodeType
  BY <1>1, <1>7, <1>6 DEF NodeType
<1>12. CountersFollow(m, m2, n, s, s2)
  BY <1>1, <1>3, <1>6 DEF CountersFollow, Bit, NodeType, SameUse, SameSleep
<1>13. SleepersFollow(m, m2, n, t, s2)
  BY <1>1, <1>2, <1>6 DEF SleepersFollow, SleepersOf, NodeType, SameSleep
<1>20. Exclusion(nd, S2)
  BY <1>1, ExclusionStable DEF Global, SameFlags, SameUse
<1>21. Privacy(nd, S2)
  BY <1>1, PrivacyKept DEF Global, SameFlags, SameUse
<1>22. NoNewUse(s, s2)
  BY <1>1, TreeAssumption DEF NoNewUse, SameUse, Typed
<1>23. \A x \in NodeId \ {n} :
         /\ x \in s2.reads <=> x \in s.reads
         /\ x \in s2.writes <=> x \in s.writes
         /\ x \in s2.counts <=> x \in s.counts
         /\ x \in s2.asReader <=> x \in s.asReader
         /\ x \in s2.asWriter <=> x \in s.asWriter
         /\ x \in s2.inPrivate <=> x \in s.inPrivate
         /\ x = s2.pending <=> x = s.pending
  BY TreeAssumption DEF SameUse, SameSleep
<1> HIDE DEF m, s, s2
<1> QED BY <1>10, <1>11, <1>12, <1>13, <1>20, <1>21, <1>22, <1>23, GAt DEF m, s, s2

\* A reader that was woken.
LEMMA GAwakeReader ==
  ASSUME NEW nd, NEW nd2, NEW S, NEW S2, NEW t \in Thread, NEW dp, NEW n \in NodeId, NEW m2,
         At(nd, nd2, S, S2, t, n, m2, dp), m2 = ReaderAwake(nd[n]),
         SameUse(S[t], S2[t]), S2[t].pending = S[t].pending, KeepsPrivacy(nd, S[t], S2[t]),
         S[t].asReader = {n}, S2[t].asReader = {}, t \notin nd[n].readers,
         S2[t].asWriter = S[t].asWriter, S2[t].inPrivate = S[t].inPrivate
  PROVE  Global(nd2, S2, dp) /\ nd2 \in [NodeId -> NodeType] /\ SameTree(nd, nd2)
<1> DEFINE m == nd[n]
           s == S[t]
           s2 == S2[t]
<1>1. nd \in [NodeId -> NodeType] /\ m \in NodeType /\ Global(nd, S, dp) /\ Others(S, S2, t)
      /\ \A u \in Thread : Typed(S[u])
  BY DEF At, Good
<1>2. CountersOf(m, n, S) /\ SleepersOf(m, n, S)
  BY <1>1 DEF Global, Counters, Sleepers
<1>3. /\ m.readers_inside \in Nat /\ m.writers_inside \in Nat
      /\ m.readers_waiting \in Nat /\ m.writers_waiting \in Nat
      /\ m.subtree_threads \in Nat /\ m.safe_hmap_get_count \in Nat
      /\ n \in s.reads => m.readers_inside > 0
      /\ n \in s.writes => m.writers_inside > 0
      /\ n \in s.asReader => m.readers_waiting > 0
      /\ n \in s.asWriter => m.writers_waiting > 0
      /\ n \in s.counts => m.subtree_threads > 0
      /\ n \in s.counts /\ n # Root => m.safe_hmap_get_count > 0
  BY <1>2, CountersAtLeast
<1>7. m.readers_waiting - 1 \in Nat
  BY <1>1, <1>3
<1>10. LockFields(m, m2)
  BY <1>1, <1>1 DEF LockFields, NodeType, ReaderAwake
<1>11. m2 \in NodeType
  BY <1>1, <1>7, <1>1 DEF NodeType, ReaderAwake
<1>12. CountersFollow(m, m2, n, s, s2)
  BY <1>1, <1>3, <1>1 DEF CountersFollow, Bit, NodeType, SameUse, SameSleep, ReaderAwake
<1>13. SleepersFollow(m, m2, n, t, s2)
  BY <1>1, <1>2, <1>1 DEF SleepersFollow, SleepersOf, NodeType, SameSleep, ReaderAwake
<1>20. Exclusion(nd, S2)
  BY <1>1, ExclusionStable DEF Global, SameFlags, SameUse
<1>21. Privacy(nd, S2)
  BY <1>1, PrivacyKept DEF Global, SameFlags, SameUse
<1>22. NoNewUse(s, s2)
  BY <1>1, TreeAssumption DEF NoNewUse, SameUse, Typed
<1>23. \A x \in NodeId \ {n} :
         /\ x \in s2.reads <=> x \in s.reads
         /\ x \in s2.writes <=> x \in s.writes
         /\ x \in s2.counts <=> x \in s.counts
         /\ x \in s2.asReader <=> x \in s.asReader
         /\ x \in s2.asWriter <=> x \in s.asWriter
         /\ x \in s2.inPrivate <=> x \in s.inPrivate
         /\ x = s2.pending <=> x = s.pending
  BY TreeAssumption DEF SameUse, SameSleep
<1> HIDE DEF m, s, s2
<1> QED BY <1>10, <1>11, <1>12, <1>13, <1>20, <1>21, <1>22, <1>23, GAt DEF m, s, s2

\* A writer that was woken.
LEMMA GAwakeWriter ==
  ASSUME NEW nd, NEW nd2, NEW S, NEW S2, NEW t \in Thread, NEW dp, NEW n \in NodeId, NEW m2,
         At(nd, nd2, S, S2, t, n, m2, dp), m2 = WriterAwake(nd[n]),
         SameUse(S[t], S2[t]), S2[t].pending = S[t].pending, KeepsPrivacy(nd, S[t], S2[t]),
         S[t].asWriter = {n}, S2[t].asWriter = {}, t \notin nd[n].writers,
         S2[t].asReader = S[t].asReader, S2[t].inPrivate = S[t].inPrivate
  PROVE  Global(nd2, S2, dp) /\ nd2 \in [NodeId -> NodeType] /\ SameTree(nd, nd2)
<1> DEFINE m == nd[n]
           s == S[t]
           s2 == S2[t]
<1>1. nd \in [NodeId -> NodeType] /\ m \in NodeType /\ Global(nd, S, dp) /\ Others(S, S2, t)
      /\ \A u \in Thread : Typed(S[u])
  BY DEF At, Good
<1>2. CountersOf(m, n, S) /\ SleepersOf(m, n, S)
  BY <1>1 DEF Global, Counters, Sleepers
<1>3. /\ m.readers_inside \in Nat /\ m.writers_inside \in Nat
      /\ m.readers_waiting \in Nat /\ m.writers_waiting \in Nat
      /\ m.subtree_threads \in Nat /\ m.safe_hmap_get_count \in Nat
      /\ n \in s.reads => m.readers_inside > 0
      /\ n \in s.writes => m.writers_inside > 0
      /\ n \in s.asReader => m.readers_waiting > 0
      /\ n \in s.asWriter => m.writers_waiting > 0
      /\ n \in s.counts => m.subtree_threads > 0
      /\ n \in s.counts /\ n # Root => m.safe_hmap_get_count > 0
  BY <1>2, CountersAtLeast
<1>7. m.writers_waiting - 1 \in Nat
  BY <1>1, <1>3
<1>10. LockFields(m, m2)
  BY <1>1, <1>1 DEF LockFields, NodeType, WriterAwake
<1>11. m2 \in NodeType
  BY <1>1, <1>7, <1>1 DEF NodeType, WriterAwake
<1>12. CountersFollow(m, m2, n, s, s2)
  BY <1>1, <1>3, <1>1 DEF CountersFollow, Bit, NodeType, SameUse, SameSleep, WriterAwake
<1>13. SleepersFollow(m, m2, n, t, s2)
  BY <1>1, <1>2, <1>1 DEF SleepersFollow, SleepersOf, NodeType, SameSleep, WriterAwake
<1>20. Exclusion(nd, S2)
  BY <1>1, ExclusionStable DEF Global, SameFlags, SameUse
<1>21. Privacy(nd, S2)
  BY <1>1, PrivacyKept DEF Global, SameFlags, SameUse
<1>22. NoNewUse(s, s2)
  BY <1>1, TreeAssumption DEF NoNewUse, SameUse, Typed
<1>23. \A x \in NodeId \ {n} :
         /\ x \in s2.reads <=> x \in s.reads
         /\ x \in s2.writes <=> x \in s.writes
         /\ x \in s2.counts <=> x \in s.counts
         /\ x \in s2.asReader <=> x \in s.asReader
         /\ x \in s2.asWriter <=> x \in s.asWriter
         /\ x \in s2.inPrivate <=> x \in s.inPrivate
         /\ x = s2.pending <=> x = s.pending
  BY TreeAssumption DEF SameUse, SameSleep
<1> HIDE DEF m, s, s2
<1> QED BY <1>10, <1>11, <1>12, <1>13, <1>20, <1>21, <1>22, <1>23, GAt DEF m, s, s2

\* A reader is let in: by the protocol, or by the flag.
LEMMA GEnterReader ==
  ASSUME NEW nd, NEW nd2, NEW S, NEW S2, NEW t \in Thread, NEW dp, NEW n \in NodeId, NEW m2,
         At(nd, nd2, S, S2, t, n, m2, dp), m2 \in ReaderEnter(nd[n]),
         \A u \in Thread : u # t => One(S[u]), ~NodeReaderMustWait(nd[n]),
         S2[t].reads = S[t].reads \cup {n}, n \notin S[t].reads, S2[t].writes = S[t].writes,
         S2[t].counts = S[t].counts, S2[t].pending = S[t].pending, S[t].pending = n,
         SameSleep(S[t], S2[t]), n \notin S[t].writes, KeepsPrivacy(nd, S[t], S2[t]), n \in S2[t].passesOn
  PROVE  Global(nd2, S2, dp) /\ nd2 \in [NodeId -> NodeType] /\ SameTree(nd, nd2)
<1> DEFINE m == nd[n]
           s == S[t]
           s2 == S2[t]
<1>1. nd \in [NodeId -> NodeType] /\ m \in NodeType /\ Global(nd, S, dp) /\ Others(S, S2, t)
      /\ \A u \in Thread : Typed(S[u])
  BY DEF At, Good
<1>2. CountersOf(m, n, S) /\ SleepersOf(m, n, S)
  BY <1>1 DEF Global, Counters, Sleepers
<1>3. /\ m.readers_inside \in Nat /\ m.writers_inside \in Nat
      /\ m.readers_waiting \in Nat /\ m.writers_waiting \in Nat
      /\ m.subtree_threads \in Nat /\ m.safe_hmap_get_count \in Nat
      /\ n \in s.reads => m.readers_inside > 0
      /\ n \in s.writes => m.writers_inside > 0
      /\ n \in s.asReader => m.readers_waiting > 0
      /\ n \in s.asWriter => m.writers_waiting > 0
      /\ n \in s.counts => m.subtree_threads > 0
      /\ n \in s.counts /\ n # Root => m.safe_hmap_get_count > 0
  BY <1>2, CountersAtLeast
<1>5. \E q \in ThreadSets : q \subseteq m.readers /\ m2 = [m EXCEPT !.readers_inside = @ + 1, !.readers = q]
  <2>1. m.readers \in ThreadSets
    BY <1>1 DEF NodeType
  <2> QED BY <2>1, <1>1, SignalSubset DEF ReaderEnter, ThreadSets
<1>6. PICK q \in ThreadSets : q \subseteq m.readers /\ m2 = [m EXCEPT !.readers_inside = @ + 1, !.readers = q]
  BY <1>5
<1>7. m.readers_inside + 1 \in Nat
  BY <1>1, <1>3
<1>10. LockFields(m, m2)
  BY <1>1, <1>6 DEF LockFields, NodeType
<1>11. m2 \in NodeType
  BY <1>1, <1>7, <1>6 DEF NodeType
<1>12. CountersFollow(m, m2, n, s, s2)
  BY <1>1, <1>3, <1>6 DEF CountersFollow, Bit, NodeType, SameUse, SameSleep
<1>13. SleepersFollow(m, m2, n, t, s2)
  BY <1>1, <1>2, <1>6 DEF SleepersFollow, SleepersOf, NodeType, SameSleep
<1>20. Exclusion(nd, S2)
  <2>1. nd[n].emergency_pass \/ \A u \in Thread : n \notin S[u].writes
    <3>1. SUFFICES ASSUME ~nd[n].emergency_pass, NEW u \in Thread, n \in S[u].writes PROVE FALSE
      OBVIOUS
    <3>2. m.writers_inside > 0
      BY <3>1, <1>2, CountersAtLeast
    <3> QED BY <3>1, <3>2 DEF NodeReaderMustWait, ReaderMustWait
  <2>2. \A u \in Thread : S2[u].reads \subseteq S[u].reads \cup {n} /\ S2[u].writes = S[u].writes
    BY <1>1 DEF Others
  <2>3. Exclusion(nd, S)
    BY <1>1 DEF Global
  <2> QED BY <2>1, <2>2, <2>3 DEF Exclusion
<1>21. Privacy(nd, S2)
  <2> SUFFICES ASSUME NEW v \in Thread, NEW u \in Thread, NEW x \in NodeId,
                      v # u, OwnedBy(nd, S2, v, x)
               PROVE  /\ x \in S2[u].counts => nd[x].emergency_pass /\ x \in S2[u].goesAway
                      /\ x \in S2[u].reads \cup S2[u].writes
                           => nd[x].emergency_pass /\ x \in S2[u].passesOn
    BY DEF Privacy
  <2>1. OwnedBy(nd, S, v, x)
    BY <1>1 DEF OwnedBy, OwnedIn, KeepsPrivacy, Others
  <2>2. /\ x \in S[u].counts => nd[x].emergency_pass /\ x \in S[u].goesAway
        /\ x \in S[u].reads \cup S[u].writes => nd[x].emergency_pass /\ x \in S[u].passesOn
    BY <2>1, <1>1 DEF Global, Privacy
  <2>3. CASE u # t
    BY <2>2, <2>3, <1>1 DEF Others
  <2>4. CASE u = t /\ x # n
    BY <2>2, <2>4 DEF KeepsPrivacy, SameUse
  <2>5. CASE u = t /\ x = n
    <3>1. v # t /\ n \in S[v].writes
      BY <2>1, <2>5 DEF OwnedBy, One
    <3>2. m.writers_inside > 0
      BY <3>1, <1>2, CountersAtLeast
    <3>3. nd[n].emergency_pass
      BY <3>2 DEF NodeReaderMustWait, ReaderMustWait
    <3> QED BY <2>2, <2>5, <3>3 DEF KeepsPrivacy, SameUse
  <2> QED BY <2>3, <2>4, <2>5
<1>22. NoNewUse(s, s2)
  BY <1>1, TreeAssumption DEF NoNewUse, SameUse, Typed
<1>23. \A x \in NodeId \ {n} :
         /\ x \in s2.reads <=> x \in s.reads
         /\ x \in s2.writes <=> x \in s.writes
         /\ x \in s2.counts <=> x \in s.counts
         /\ x \in s2.asReader <=> x \in s.asReader
         /\ x \in s2.asWriter <=> x \in s.asWriter
         /\ x \in s2.inPrivate <=> x \in s.inPrivate
         /\ x = s2.pending <=> x = s.pending
  BY TreeAssumption DEF SameUse, SameSleep
<1> HIDE DEF m, s, s2
<1> QED BY <1>10, <1>11, <1>12, <1>13, <1>20, <1>21, <1>22, <1>23, GAt DEF m, s, s2

\* A writer is let in.
LEMMA GEnterWriter ==
  ASSUME NEW nd, NEW nd2, NEW S, NEW S2, NEW t \in Thread, NEW dp, NEW n \in NodeId, NEW m2,
         At(nd, nd2, S, S2, t, n, m2, dp), m2 \in WriterEnter(nd[n]),
         \A u \in Thread : u # t => One(S[u]), ~NodeWriterMustWait(nd[n]),
         S2[t].writes = S[t].writes \cup {n}, n \notin S[t].writes, S2[t].reads = S[t].reads,
         S2[t].counts = S[t].counts, S2[t].pending = S[t].pending, S[t].pending = n,
         SameSleep(S[t], S2[t]), KeepsPrivacy(nd, S[t], S2[t]), n \in S2[t].passesOn
  PROVE  Global(nd2, S2, dp) /\ nd2 \in [NodeId -> NodeType] /\ SameTree(nd, nd2)
<1> DEFINE m == nd[n]
           s == S[t]
           s2 == S2[t]
<1>1. nd \in [NodeId -> NodeType] /\ m \in NodeType /\ Global(nd, S, dp) /\ Others(S, S2, t)
      /\ \A u \in Thread : Typed(S[u])
  BY DEF At, Good
<1>2. CountersOf(m, n, S) /\ SleepersOf(m, n, S)
  BY <1>1 DEF Global, Counters, Sleepers
<1>3. /\ m.readers_inside \in Nat /\ m.writers_inside \in Nat
      /\ m.readers_waiting \in Nat /\ m.writers_waiting \in Nat
      /\ m.subtree_threads \in Nat /\ m.safe_hmap_get_count \in Nat
      /\ n \in s.reads => m.readers_inside > 0
      /\ n \in s.writes => m.writers_inside > 0
      /\ n \in s.asReader => m.readers_waiting > 0
      /\ n \in s.asWriter => m.writers_waiting > 0
      /\ n \in s.counts => m.subtree_threads > 0
      /\ n \in s.counts /\ n # Root => m.safe_hmap_get_count > 0
  BY <1>2, CountersAtLeast
<1>7. m.writers_inside + 1 \in Nat
  BY <1>1, <1>3
<1>10. LockFields(m, m2)
  BY <1>1, <1>1 DEF LockFields, NodeType, WriterEnter
<1>11. m2 \in NodeType
  BY <1>1, <1>7, <1>1 DEF NodeType, WriterEnter
<1>12. CountersFollow(m, m2, n, s, s2)
  BY <1>1, <1>3, <1>1 DEF CountersFollow, Bit, NodeType, SameUse, SameSleep, WriterEnter
<1>13. SleepersFollow(m, m2, n, t, s2)
  BY <1>1, <1>2, <1>1 DEF SleepersFollow, SleepersOf, NodeType, SameSleep, WriterEnter
<1>20. Exclusion(nd, S2)
  <2>1. nd[n].emergency_pass \/ \A u \in Thread : n \notin S[u].writes \cup S[u].reads
    <3>1. SUFFICES ASSUME ~nd[n].emergency_pass, NEW u \in Thread, n \in S[u].writes \cup S[u].reads PROVE FALSE
      OBVIOUS
    <3>2. m.writers_inside > 0 \/ m.readers_inside > 0
      BY <3>1, <1>2, CountersAtLeast
    <3> QED BY <1>3, <3>1, <3>2 DEF NodeWriterMustWait, WriterMustWait
  <2>2. \A u \in Thread : S2[u].writes \subseteq S[u].writes \cup {n} /\ S2[u].reads = S[u].reads
    BY <1>1 DEF Others
  <2>3. \A u \in Thread : u # t => S2[u].writes = S[u].writes
    BY <1>1 DEF Others
  <2>4. Exclusion(nd, S)
    BY <1>1 DEF Global
  <2> QED BY <2>1, <2>2, <2>3, <2>4 DEF Exclusion
<1>21. Privacy(nd, S2)
  <2> SUFFICES ASSUME NEW v \in Thread, NEW u \in Thread, NEW x \in NodeId,
                      v # u, OwnedBy(nd, S2, v, x)
               PROVE  /\ x \in S2[u].counts => nd[x].emergency_pass /\ x \in S2[u].goesAway
                      /\ x \in S2[u].reads \cup S2[u].writes
                           => nd[x].emergency_pass /\ x \in S2[u].passesOn
    BY DEF Privacy
  <2>1. OwnedBy(nd, S, v, x)
    BY <1>1 DEF OwnedBy, OwnedIn, KeepsPrivacy, Others
  <2>2. /\ x \in S[u].counts => nd[x].emergency_pass /\ x \in S[u].goesAway
        /\ x \in S[u].reads \cup S[u].writes => nd[x].emergency_pass /\ x \in S[u].passesOn
    BY <2>1, <1>1 DEF Global, Privacy
  <2>3. CASE u # t
    BY <2>2, <2>3, <1>1 DEF Others
  <2>4. CASE u = t /\ x # n
    BY <2>2, <2>4 DEF KeepsPrivacy, SameUse
  <2>5. CASE u = t /\ x = n
    <3>1. v # t /\ n \in S[v].writes
      BY <2>1, <2>5 DEF OwnedBy, One
    <3>2. m.writers_inside > 0
      BY <3>1, <1>2, CountersAtLeast
    <3>3. nd[n].emergency_pass
      BY <1>3, <3>2 DEF NodeWriterMustWait, WriterMustWait
    <3> QED BY <2>2, <2>5, <3>3 DEF KeepsPrivacy, SameUse
  <2> QED BY <2>3, <2>4, <2>5
<1>22. NoNewUse(s, s2)
  BY <1>1, TreeAssumption DEF NoNewUse, SameUse, Typed
<1>23. \A x \in NodeId \ {n} :
         /\ x \in s2.reads <=> x \in s.reads
         /\ x \in s2.writes <=> x \in s.writes
         /\ x \in s2.counts <=> x \in s.counts
         /\ x \in s2.asReader <=> x \in s.asReader
         /\ x \in s2.asWriter <=> x \in s.asWriter
         /\ x \in s2.inPrivate <=> x \in s.inPrivate
         /\ x = s2.pending <=> x = s.pending
  BY TreeAssumption DEF SameUse, SameSleep
<1> HIDE DEF m, s, s2
<1> QED BY <1>10, <1>11, <1>12, <1>13, <1>20, <1>21, <1>22, <1>23, GAt DEF m, s, s2

\* It counts in the folder now; in one that somebody owns the flag tells it to leave.
LEMMA GCount ==
  ASSUME NEW nd, NEW nd2, NEW S, NEW S2, NEW t \in Thread, NEW dp, NEW n \in NodeId, NEW m2,
         At(nd, nd2, S, S2, t, n, m2, dp), m2 = CountIn(nd[n]),
         S2[t].counts = S[t].counts \cup {n}, S[t].pending = n, S2[t].pending = NULL, n \notin S[t].counts,
         S2[t].reads = S[t].reads, S2[t].writes = S[t].writes, n \in S[t].reads \cup S[t].writes,
         SameSleep(S[t], S2[t]), KeepsPrivacy(nd, S[t], S2[t]), nd[n].emergency_pass => n \in S2[t].goesAway
  PROVE  Global(nd2, S2, dp) /\ nd2 \in [NodeId -> NodeType] /\ SameTree(nd, nd2)
<1> DEFINE m == nd[n]
           s == S[t]
           s2 == S2[t]
<1>1. nd \in [NodeId -> NodeType] /\ m \in NodeType /\ Global(nd, S, dp) /\ Others(S, S2, t)
      /\ \A u \in Thread : Typed(S[u])
  BY DEF At, Good
<1>2. CountersOf(m, n, S) /\ SleepersOf(m, n, S)
  BY <1>1 DEF Global, Counters, Sleepers
<1>3. /\ m.readers_inside \in Nat /\ m.writers_inside \in Nat
      /\ m.readers_waiting \in Nat /\ m.writers_waiting \in Nat
      /\ m.subtree_threads \in Nat /\ m.safe_hmap_get_count \in Nat
      /\ n \in s.reads => m.readers_inside > 0
      /\ n \in s.writes => m.writers_inside > 0
      /\ n \in s.asReader => m.readers_waiting > 0
      /\ n \in s.asWriter => m.writers_waiting > 0
      /\ n \in s.counts => m.subtree_threads > 0
      /\ n \in s.counts /\ n # Root => m.safe_hmap_get_count > 0
  BY <1>2, CountersAtLeast
<1>7. m.subtree_threads + 1 \in Nat
  BY <1>1, <1>3, TreeAssumption
<1>10. LockFields(m, m2)
  BY <1>1, <1>1 DEF LockFields, NodeType, CountIn
<1>11. m2 \in NodeType
  BY <1>1, <1>7, <1>1 DEF NodeType, CountIn
<1>12. CountersFollow(m, m2, n, s, s2)
  BY <1>1, <1>3, <1>1, TreeAssumption DEF CountersFollow, Bit, NodeType, SameUse, SameSleep,
      CountIn
<1>13. SleepersFollow(m, m2, n, t, s2)
  BY <1>1, <1>2, <1>1 DEF SleepersFollow, SleepersOf, NodeType, SameSleep, CountIn
<1>20. Exclusion(nd, S2)
  BY <1>1, ExclusionStable DEF Global, SameFlags, SameUse
<1>21. Privacy(nd, S2)
  <2> SUFFICES ASSUME NEW v \in Thread, NEW u \in Thread, NEW x \in NodeId,
                      v # u, OwnedBy(nd, S2, v, x)
               PROVE  /\ x \in S2[u].counts => nd[x].emergency_pass /\ x \in S2[u].goesAway
                      /\ x \in S2[u].reads \cup S2[u].writes
                           => nd[x].emergency_pass /\ x \in S2[u].passesOn
    BY DEF Privacy
  <2>1. OwnedBy(nd, S, v, x)
    BY <1>1 DEF OwnedBy, OwnedIn, KeepsPrivacy, Others
  <2>2. /\ x \in S[u].counts => nd[x].emergency_pass /\ x \in S[u].goesAway
        /\ x \in S[u].reads \cup S[u].writes => nd[x].emergency_pass /\ x \in S[u].passesOn
    BY <2>1, <1>1 DEF Global, Privacy
  <2>3. CASE u # t
    BY <2>2, <2>3, <1>1 DEF Others
  <2>4. CASE u = t /\ x # n
    BY <2>2, <2>4 DEF KeepsPrivacy, SameUse
  <2>5. CASE u = t /\ x = n
    BY <2>2, <2>5 DEF KeepsPrivacy
  <2> QED BY <2>3, <2>4, <2>5
<1>22. NoNewUse(s, s2)
  BY <1>1, TreeAssumption DEF NoNewUse, SameUse, Typed
<1>23. \A x \in NodeId \ {n} :
         /\ x \in s2.reads <=> x \in s.reads
         /\ x \in s2.writes <=> x \in s.writes
         /\ x \in s2.counts <=> x \in s.counts
         /\ x \in s2.asReader <=> x \in s.asReader
         /\ x \in s2.asWriter <=> x \in s.asWriter
         /\ x \in s2.inPrivate <=> x \in s.inPrivate
         /\ x = s2.pending <=> x = s.pending
  BY TreeAssumption DEF SameUse, SameSleep
<1> HIDE DEF m, s, s2
<1> QED BY <1>10, <1>11, <1>12, <1>13, <1>20, <1>21, <1>22, <1>23, GAt DEF m, s, s2

\* The final protocols.
LEMMA GLeaveReader ==
  ASSUME NEW nd, NEW nd2, NEW S, NEW S2, NEW t \in Thread, NEW dp, NEW n \in NodeId, NEW m2,
         At(nd, nd2, S, S2, t, n, m2, dp), m2 \in ReaderLeave(nd[n]),
         S2[t].reads = S[t].reads \ {n}, n \in S[t].reads, S2[t].writes = S[t].writes,
         S2[t].counts = S[t].counts, S2[t].pending = S[t].pending,
         SameSleep(S[t], S2[t]), KeepsPrivacy(nd, S[t], S2[t])
  PROVE  Global(nd2, S2, dp) /\ nd2 \in [NodeId -> NodeType] /\ SameTree(nd, nd2)
<1> DEFINE m == nd[n]
           s == S[t]
           s2 == S2[t]
<1>1. nd \in [NodeId -> NodeType] /\ m \in NodeType /\ Global(nd, S, dp) /\ Others(S, S2, t)
      /\ \A u \in Thread : Typed(S[u])
  BY DEF At, Good
<1>2. CountersOf(m, n, S) /\ SleepersOf(m, n, S)
  BY <1>1 DEF Global, Counters, Sleepers
<1>3. /\ m.readers_inside \in Nat /\ m.writers_inside \in Nat
      /\ m.readers_waiting \in Nat /\ m.writers_waiting \in Nat
      /\ m.subtree_threads \in Nat /\ m.safe_hmap_get_count \in Nat
      /\ n \in s.reads => m.readers_inside > 0
      /\ n \in s.writes => m.writers_inside > 0
      /\ n \in s.asReader => m.readers_waiting > 0
      /\ n \in s.asWriter => m.writers_waiting > 0
      /\ n \in s.counts => m.subtree_threads > 0
      /\ n \in s.counts /\ n # Root => m.safe_hmap_get_count > 0
  BY <1>2, CountersAtLeast
<1>5. \E q \in ThreadSets : q \subseteq m.writers /\ m2 = [m EXCEPT !.readers_inside = @ - 1, !.change = "WRITERS", !.writers = q]
  <2>1. m.writers \in ThreadSets
    BY <1>1 DEF NodeType
  <2> QED BY <2>1, <1>1, SignalSubset DEF ReaderLeave, ThreadSets
<1>6. PICK q \in ThreadSets : q \subseteq m.writers /\ m2 = [m EXCEPT !.readers_inside = @ - 1, !.change = "WRITERS", !.writers = q]
  BY <1>5
<1>7. m.readers_inside - 1 \in Nat
  BY <1>1, <1>3
<1>10. LockFields(m, m2)
  BY <1>1, <1>6 DEF LockFields, NodeType
<1>11. m2 \in NodeType
  BY <1>1, <1>7, <1>6 DEF NodeType
<1>12. CountersFollow(m, m2, n, s, s2)
  BY <1>1, <1>3, <1>6 DEF CountersFollow, Bit, NodeType, SameUse, SameSleep
<1>13. SleepersFollow(m, m2, n, t, s2)
  BY <1>1, <1>2, <1>6 DEF SleepersFollow, SleepersOf, NodeType, SameSleep
<1>20. Exclusion(nd, S2)
  BY <1>1, ExclusionStable DEF Global, SameFlags, SameUse
<1>21. Privacy(nd, S2)
  BY <1>1, PrivacyKept DEF Global, SameFlags, SameUse
<1>22. NoNewUse(s, s2)
  BY <1>1, TreeAssumption DEF NoNewUse, SameUse, Typed
<1>23. \A x \in NodeId \ {n} :
         /\ x \in s2.reads <=> x \in s.reads
         /\ x \in s2.writes <=> x \in s.writes
         /\ x \in s2.counts <=> x \in s.counts
         /\ x \in s2.asReader <=> x \in s.asReader
         /\ x \in s2.asWriter <=> x \in s.asWriter
         /\ x \in s2.inPrivate <=> x \in s.inPrivate
         /\ x = s2.pending <=> x = s.pending
  BY TreeAssumption DEF SameUse, SameSleep
<1> HIDE DEF m, s, s2
<1> QED BY <1>10, <1>11, <1>12, <1>13, <1>20, <1>21, <1>22, <1>23, GAt DEF m, s, s2

\* The same for a writer.
LEMMA GLeaveWriter ==
  ASSUME NEW nd, NEW nd2, NEW S, NEW S2, NEW t \in Thread, NEW dp, NEW n \in NodeId, NEW m2,
         At(nd, nd2, S, S2, t, n, m2, dp), m2 \in WriterLeave(nd[n]),
         S2[t].writes = S[t].writes \ {n}, n \in S[t].writes, S2[t].reads = S[t].reads,
         S2[t].counts = S[t].counts, S2[t].pending = S[t].pending,
         SameSleep(S[t], S2[t]), KeepsPrivacy(nd, S[t], S2[t])
  PROVE  Global(nd2, S2, dp) /\ nd2 \in [NodeId -> NodeType] /\ SameTree(nd, nd2)
<1> DEFINE m == nd[n]
           s == S[t]
           s2 == S2[t]
<1>1. nd \in [NodeId -> NodeType] /\ m \in NodeType /\ Global(nd, S, dp) /\ Others(S, S2, t)
      /\ \A u \in Thread : Typed(S[u])
  BY DEF At, Good
<1>2. CountersOf(m, n, S) /\ SleepersOf(m, n, S)
  BY <1>1 DEF Global, Counters, Sleepers
<1>3. /\ m.readers_inside \in Nat /\ m.writers_inside \in Nat
      /\ m.readers_waiting \in Nat /\ m.writers_waiting \in Nat
      /\ m.subtree_threads \in Nat /\ m.safe_hmap_get_count \in Nat
      /\ n \in s.reads => m.readers_inside > 0
      /\ n \in s.writes => m.writers_inside > 0
      /\ n \in s.asReader => m.readers_waiting > 0
      /\ n \in s.asWriter => m.writers_waiting > 0
      /\ n \in s.counts => m.subtree_threads > 0
      /\ n \in s.counts /\ n # Root => m.safe_hmap_get_count > 0
  BY <1>2, CountersAtLeast
<1>5. \E q, r \in ThreadSets : q \subseteq m.writers /\ r \subseteq m.readers /\ m2 = [m EXCEPT !.writers_inside = @ - 1, !.change = "READERS", !.writers = q, !.readers = r]
  <2>1. m.readers \in ThreadSets /\ m.writers \in ThreadSets
    BY <1>1 DEF NodeType
  <2>2. CASE m.readers_waiting > 0
    <3>1. PICK q \in Signal(m.readers) : m2 = [m EXCEPT !.writers_inside = @ - 1, !.change = "READERS", !.readers = q]
      BY <2>2 DEF WriterLeave
    <3>2. m2 = [m EXCEPT !.writers_inside = @ - 1, !.change = "READERS", !.writers = m.writers, !.readers = q]
      BY <3>1, <1>1 DEF NodeType
    <3> QED BY <2>1, <3>2, SignalSubset DEF ThreadSets
  <2>3. CASE ~(m.readers_waiting > 0)
    <3>1. PICK q \in Signal(m.writers) : m2 = [m EXCEPT !.writers_inside = @ - 1, !.change = "READERS", !.writers = q]
      BY <2>3 DEF WriterLeave
    <3>2. m2 = [m EXCEPT !.writers_inside = @ - 1, !.change = "READERS", !.writers = q, !.readers = m.readers]
      BY <3>1, <1>1 DEF NodeType
    <3> QED BY <2>1, <3>2, SignalSubset DEF ThreadSets
  <2> QED BY <2>2, <2>3
<1>6. PICK q, r \in ThreadSets : q \subseteq m.writers /\ r \subseteq m.readers /\ m2 = [m EXCEPT !.writers_inside = @ - 1, !.change = "READERS", !.writers = q, !.readers = r]
  BY <1>5
<1>7. m.writers_inside - 1 \in Nat
  BY <1>1, <1>3
<1>10. LockFields(m, m2)
  BY <1>1, <1>6 DEF LockFields, NodeType
<1>11. m2 \in NodeType
  BY <1>1, <1>7, <1>6 DEF NodeType
<1>12. CountersFollow(m, m2, n, s, s2)
  BY <1>1, <1>3, <1>6 DEF CountersFollow, Bit, NodeType, SameUse, SameSleep
<1>13. SleepersFollow(m, m2, n, t, s2)
  BY <1>1, <1>2, <1>6 DEF SleepersFollow, SleepersOf, NodeType, SameSleep
<1>20. Exclusion(nd, S2)
  BY <1>1, ExclusionStable DEF Global, SameFlags, SameUse
<1>21. Privacy(nd, S2)
  BY <1>1, PrivacyKept DEF Global, SameFlags, SameUse
<1>22. NoNewUse(s, s2)
  BY <1>1, TreeAssumption DEF NoNewUse, SameUse, Typed
<1>23. \A x \in NodeId \ {n} :
         /\ x \in s2.reads <=> x \in s.reads
         /\ x \in s2.writes <=> x \in s.writes
         /\ x \in s2.counts <=> x \in s.counts
         /\ x \in s2.asReader <=> x \in s.asReader
         /\ x \in s2.asWriter <=> x \in s.asWriter
         /\ x \in s2.inPrivate <=> x \in s.inPrivate
         /\ x = s2.pending <=> x = s.pending
  BY TreeAssumption DEF SameUse, SameSleep
<1> HIDE DEF m, s, s2
<1> QED BY <1>10, <1>11, <1>12, <1>13, <1>20, <1>21, <1>22, <1>23, GAt DEF m, s, s2

\* One round of notify_parent_nodes.
LEMMA GNotified ==
  ASSUME NEW nd, NEW nd2, NEW S, NEW S2, NEW t \in Thread, NEW dp, NEW n \in NodeId, NEW m2,
         At(nd, nd2, S, S2, t, n, m2, dp), m2 \in Notified(nd[n]),
         S2[t].counts = S[t].counts \ {n}, n \in S[t].counts,
         S2[t].writes = S[t].writes, S2[t].reads = S[t].reads,
         S2[t].pending = S[t].pending, S[t].pending = NULL,
         SameSleep(S[t], S2[t]), KeepsPrivacy(nd, S[t], S2[t])
  PROVE  Global(nd2, S2, dp) /\ nd2 \in [NodeId -> NodeType] /\ SameTree(nd, nd2)
<1> DEFINE m == nd[n]
           s == S[t]
           s2 == S2[t]
<1>1. nd \in [NodeId -> NodeType] /\ m \in NodeType /\ Global(nd, S, dp) /\ Others(S, S2, t)
      /\ \A u \in Thread : Typed(S[u])
  BY DEF At, Good
<1>2. CountersOf(m, n, S) /\ SleepersOf(m, n, S)
  BY <1>1 DEF Global, Counters, Sleepers
<1>3. /\ m.readers_inside \in Nat /\ m.writers_inside \in Nat
      /\ m.readers_waiting \in Nat /\ m.writers_waiting \in Nat
      /\ m.subtree_threads \in Nat /\ m.safe_hmap_get_count \in Nat
      /\ n \in s.reads => m.readers_inside > 0
      /\ n \in s.writes => m.writers_inside > 0
      /\ n \in s.asReader => m.readers_waiting > 0
      /\ n \in s.asWriter => m.writers_waiting > 0
      /\ n \in s.counts => m.subtree_threads > 0
      /\ n \in s.counts /\ n # Root => m.safe_hmap_get_count > 0
  BY <1>2, CountersAtLeast
<1>9. m.parent = NULL <=> n = Root
  <2>1. n \in LiveIn(nd) /\ Shape(nd, S)
    BY <1>1 DEF Global, Memory
  <2> QED BY <2>1, TreeAssumption DEF Shape
<1>5. \E q \in ThreadSets : q \subseteq m.private_access /\ m2 = [m EXCEPT !.subtree_threads = @ - 1, !.safe_hmap_get_count = IF m.parent = NULL THEN @ ELSE @ - 1, !.private_access = q]
  <2>1. m.private_access \in ThreadSets
    BY <1>1 DEF NodeType
  <2> QED BY <2>1, <1>1, SignalSubset DEF Notified, ThreadSets
<1>6. PICK q \in ThreadSets : q \subseteq m.private_access /\ m2 = [m EXCEPT !.subtree_threads = @ - 1, !.safe_hmap_get_count = IF m.parent = NULL THEN @ ELSE @ - 1, !.private_access = q]
  BY <1>5
<1>7. m.subtree_threads - 1 \in Nat /\ (m.parent # NULL => m.safe_hmap_get_count - 1 \in Nat)
  BY <1>1, <1>3, <1>9, TreeAssumption
<1>10. LockFields(m, m2)
  BY <1>1, <1>6 DEF LockFields, NodeType
<1>11. m2 \in NodeType
  BY <1>1, <1>7, <1>6 DEF NodeType
<1>12. CountersFollow(m, m2, n, s, s2)
  BY <1>1, <1>3, <1>6, <1>9, TreeAssumption DEF CountersFollow, Bit, NodeType, SameUse,
      SameSleep
<1>13. SleepersFollow(m, m2, n, t, s2)
  BY <1>1, <1>2, <1>6 DEF SleepersFollow, SleepersOf, NodeType, SameSleep
<1>20. Exclusion(nd, S2)
  BY <1>1, ExclusionStable DEF Global, SameFlags, SameUse
<1>21. Privacy(nd, S2)
  BY <1>1, PrivacyKept DEF Global, SameFlags, SameUse
<1>22. NoNewUse(s, s2)
  BY <1>1, TreeAssumption DEF NoNewUse, SameUse, Typed
<1>23. \A x \in NodeId \ {n} :
         /\ x \in s2.reads <=> x \in s.reads
         /\ x \in s2.writes <=> x \in s.writes
         /\ x \in s2.counts <=> x \in s.counts
         /\ x \in s2.asReader <=> x \in s.asReader
         /\ x \in s2.asWriter <=> x \in s.asWriter
         /\ x \in s2.inPrivate <=> x \in s.inPrivate
         /\ x = s2.pending <=> x = s.pending
  BY TreeAssumption DEF SameUse, SameSleep
<1> HIDE DEF m, s, s2
<1> QED BY <1>10, <1>11, <1>12, <1>13, <1>20, <1>21, <1>22, <1>23, GAt DEF m, s, s2

\* A writer waits until it is alone.
LEMMA GPrivate ==
  ASSUME NEW nd, NEW nd2, NEW S, NEW S2, NEW t \in Thread, NEW dp, NEW n \in NodeId, NEW m2,
         At(nd, nd2, S, S2, t, n, m2, dp), m2 = SleepPrivate(nd[n], t),
         SameUse(S[t], S2[t]), S2[t].pending = S[t].pending, KeepsPrivacy(nd, S[t], S2[t]),
         S[t].inPrivate \subseteq {n}, S2[t].inPrivate = {n},
         S2[t].asReader = S[t].asReader, S2[t].asWriter = S[t].asWriter
  PROVE  Global(nd2, S2, dp) /\ nd2 \in [NodeId -> NodeType] /\ SameTree(nd, nd2)
<1> DEFINE m == nd[n]
           s == S[t]
           s2 == S2[t]
<1>1. nd \in [NodeId -> NodeType] /\ m \in NodeType /\ Global(nd, S, dp) /\ Others(S, S2, t)
      /\ \A u \in Thread : Typed(S[u])
  BY DEF At, Good
<1>2. CountersOf(m, n, S) /\ SleepersOf(m, n, S)
  BY <1>1 DEF Global, Counters, Sleepers
<1>3. /\ m.readers_inside \in Nat /\ m.writers_inside \in Nat
      /\ m.readers_waiting \in Nat /\ m.writers_waiting \in Nat
      /\ m.subtree_threads \in Nat /\ m.safe_hmap_get_count \in Nat
      /\ n \in s.reads => m.readers_inside > 0
      /\ n \in s.writes => m.writers_inside > 0
      /\ n \in s.asReader => m.readers_waiting > 0
      /\ n \in s.asWriter => m.writers_waiting > 0
      /\ n \in s.counts => m.subtree_threads > 0
      /\ n \in s.counts /\ n # Root => m.safe_hmap_get_count > 0
  BY <1>2, CountersAtLeast
<1>5. \E q \in ThreadSets : q = m.private_access \cup {t} /\ m2 = [m EXCEPT !.private_access = q]
  <2>1. m.private_access \cup {t} \in ThreadSets
    BY <1>1 DEF NodeType, ThreadSets
  <2> QED BY <2>1, <1>1 DEF SleepPrivate
<1>6. PICK q \in ThreadSets : q = m.private_access \cup {t} /\ m2 = [m EXCEPT !.private_access = q]
  BY <1>5
<1>7. TRUE
  BY <1>1, <1>3
<1>10. LockFields(m, m2)
  BY <1>1, <1>6 DEF LockFields, NodeType
<1>11. m2 \in NodeType
  BY <1>1, <1>7, <1>6 DEF NodeType
<1>12. CountersFollow(m, m2, n, s, s2)
  BY <1>1, <1>3, <1>6 DEF CountersFollow, Bit, NodeType, SameUse, SameSleep
<1>13. SleepersFollow(m, m2, n, t, s2)
  BY <1>1, <1>2, <1>6 DEF SleepersFollow, SleepersOf, NodeType, SameSleep
<1>20. Exclusion(nd, S2)
  BY <1>1, ExclusionStable DEF Global, SameFlags, SameUse
<1>21. Privacy(nd, S2)
  BY <1>1, PrivacyKept DEF Global, SameFlags, SameUse
<1>22. NoNewUse(s, s2)
  BY <1>1, TreeAssumption DEF NoNewUse, SameUse, Typed
<1>23. \A x \in NodeId \ {n} :
         /\ x \in s2.reads <=> x \in s.reads
         /\ x \in s2.writes <=> x \in s.writes
         /\ x \in s2.counts <=> x \in s.counts
         /\ x \in s2.asReader <=> x \in s.asReader
         /\ x \in s2.asWriter <=> x \in s.asWriter
         /\ x \in s2.inPrivate <=> x \in s.inPrivate
         /\ x = s2.pending <=> x = s.pending
  BY TreeAssumption DEF SameUse, SameSleep
<1> HIDE DEF m, s, s2
<1> QED BY <1>10, <1>11, <1>12, <1>13, <1>20, <1>21, <1>22, <1>23, GAt DEF m, s, s2

-----------------------------------------------------------------------------
(* A writer that has been let in, and the look at the children's map.      *)

\* A folder that a thread owns, it owns alone but for those on their way out.
LEMMA OwnerWrites ==
  ASSUME NEW nd, NEW S, NEW t \in Thread, NEW n \in NodeId, One(S[t]), OwnedBy(nd, S, t, n)
  PROVE  n \in S[t].writes /\ n \in S[t].counts
BY DEF OwnedBy, One

\* It has been let in and goes on: a writer, when it counts alone.
LEMMA GAcquire ==
  ASSUME NEW nd, NEW S, NEW S2, NEW t \in Thread, NEW dp, NEW n \in NodeId,
         Good(nd, S, dp), Others(S, S2, t),
         SameUse(S[t], S2[t]), S2[t].pending = S[t].pending, SameHeld(S[t], S2[t]),
         S2[t].unlinks = S[t].unlinks,
         S2[t].asReader = S[t].asReader, S2[t].asWriter = S[t].asWriter,
         S[t].inPrivate \subseteq {n}, S2[t].inPrivate = {}, t \notin nd[n].private_access,
         S2[t].owns = S[t].owns, S2[t].acquires \subseteq {n},
         S2[t].acquires = {n} => n \in S[t].counts /\ n \in S[t].writes /\ ~SubtreeBusy(nd[n]),
         \A x \in NodeId :
           /\ x \in S[t].goesAway => x \in S2[t].goesAway
           /\ x \in S[t].passesOn => x \in S2[t].passesOn
  PROVE  Global(nd, S2, dp)
<1> USE DEF Good
<1>1. SameTree(nd, nd) /\ SameMaps(nd, nd) /\ SameFlags(nd, nd)
  BY DEF SameTree, SameMaps, SameFlags
<1>2. Exclusion(nd, S) /\ Privacy(nd, S) /\ Counters(nd, S) /\ Sleepers(nd, S)
  BY DEF Global
<1>3. Exclusion(nd, S2)
  BY <1>1, <1>2, ExclusionStable DEF SameUse
<1>4. Privacy(nd, S2)
  <2> SUFFICES ASSUME NEW v \in Thread, NEW u \in Thread, NEW x \in NodeId,
                      v # u, OwnedBy(nd, S2, v, x)
               PROVE  /\ x \in S2[u].counts => nd[x].emergency_pass /\ x \in S2[u].goesAway
                      /\ x \in S2[u].reads \cup S2[u].writes
                           => nd[x].emergency_pass /\ x \in S2[u].passesOn
    BY DEF Privacy
  <2>1. \A w \in Thread : w # t => S2[w] = S[w]
    BY DEF Others
  <2>2. CASE OwnedBy(nd, S, v, x)
    <3>1. /\ x \in S[u].counts => nd[x].emergency_pass /\ x \in S[u].goesAway
          /\ x \in S[u].reads \cup S[u].writes => nd[x].emergency_pass /\ x \in S[u].passesOn
      BY <2>2, <1>2 DEF Privacy
    <3>2. CASE u = t
      BY <3>1, <3>2 DEF SameUse
    <3>3. CASE u # t
      BY <3>1, <3>3, <2>1
    <3> QED BY <3>2, <3>3
  <2>3. CASE ~OwnedBy(nd, S, v, x)
    <3>1. v = t /\ x = n /\ S2[t].acquires = {n} /\ ~nd[n].emergency_pass
      BY <2>1, <2>3 DEF OwnedBy
    <3>2. nd[n].subtree_threads \in Nat /\ CountersOf(nd[n], n, S)
      BY <1>2, CountersAtLeast DEF Counters
    <3>3. nd[n].subtree_threads <= 1
      BY <3>1, <3>2 DEF SubtreeBusy
    <3>4. n \notin S[u].counts /\ u # t
      BY <3>1, <3>2, <3>3, CountersAlone
    <3>5. n \notin S[u].reads \cup S[u].writes
      BY <3>1, <3>4, <1>2 DEF Exclusion
    <3> QED BY <3>1, <3>4, <3>5, <2>1
  <2> QED BY <2>2, <2>3
<1>5. \A x \in NodeId : CountersFollow(nd[x], nd[x], x, S[t], S2[t])
  <2> TAKE x \in NodeId
  <2>1. nd[x] \in NodeType
    OBVIOUS
  <2> QED BY <2>1 DEF CountersFollow, SameUse, Bit, NodeType
<1>6. \A x \in NodeId : SleepersFollow(nd[x], nd[x], x, t, S2[t])
  BY <1>2 DEF Sleepers, SleepersOf, SleepersFollow
<1>7. NoNewUse(S[t], S2[t])
  BY TreeAssumption DEF NoNewUse, SameUse, Typed
<1> QED BY <1>1, <1>3, <1>4, <1>5, <1>6, <1>7, GStep

\* What safe_hmap_get finds in a map that nobody has is in its place.
LEMMA EntryFree ==
  ASSUME NEW nd, NEW S, NEW dp, Good(nd, S, dp), NEW d \in NodeId, NEW a \in Name,
         nd[d].map_writer = NULL, nd[d].children[a] # NULL
  PROVE  LET n == nd[d].children[a] IN
         /\ d \in LiveIn(nd) /\ n \in NodeId /\ n \in LiveIn(nd) /\ n # Root
         /\ nd[n].parent = d /\ nd[n].name = a /\ dp[d] < dp[n]
         /\ \A u \in Thread : n \notin S[u].moves \cup S[u].removes
<1> DEFINE n == nd[d].children[a]
<1>1. Shape(nd, S) /\ Transfers(nd, S) /\ Maps(nd, S) /\ Depths(nd, S, dp)
  BY DEF Good, Global
<1>2. /\ d \in LiveIn(nd) /\ n \in LiveIn(nd) \ {Root}
      /\ \A u \in Thread : n \notin S[u].removes /\ (n \in S[u].moves => S[u].place = <<d, a>>)
      /\ (\A u \in Thread : n \notin S[u].moves) => d = nd[n].parent /\ a = nd[n].name
  BY <1>1 DEF Shape
<1>3. ASSUME NEW u \in Thread PROVE n \notin S[u].moves
  <2> SUFFICES ASSUME n \in S[u].moves PROVE FALSE
    OBVIOUS
  <2>1. S[u].place = <<d, a>> /\ S[u].place[1] \in S[u].maps
    BY <1>1, <1>2 DEF Transfers
  <2>2. nd[d].map_writer = u
    BY <2>1, <1>1 DEF Maps
  <2> QED BY <2>2, TreeAssumption
<1>4. n \in NodeId /\ dp[d] < dp[n]
  BY <1>1, <1>2 DEF LiveIn, Depths
<1> HIDE DEF n
<1>5. /\ d \in LiveIn(nd) /\ n \in NodeId /\ n \in LiveIn(nd) /\ n # Root
      /\ nd[n].parent = d /\ nd[n].name = a /\ dp[d] < dp[n]
      /\ \A u \in Thread : n \notin S[u].moves \cup S[u].removes
  BY <1>2, <1>3, <1>4
<1> QED BY <1>5 DEF n

\* safe_hmap_get.
LEMMA GLook ==
  ASSUME NEW nd, NEW nd2, NEW S, NEW S2, NEW t \in Thread, NEW dp, NEW n \in NodeId,
         Good(nd, S, dp), Others(S, S2, t), \A u \in Thread : u # t => One(S[u]),
         NEW d \in NodeId, NEW a \in Name, nd[d].map_writer = NULL,
         nd[d].children[a] = n,
         nd2 = [nd EXCEPT ![n].safe_hmap_get_count = @ + 1],
         S[t].vacates = {}, S[t].pending = NULL, S2[t].pending = n,
         SameUse(S[t], S2[t]), SameSleep(S[t], S2[t]), SameHeld(S[t], S2[t]),
         S2[t].unlinks = S[t].unlinks, KeepsPrivacy(nd, S[t], S2[t])
  PROVE  Global(nd2, S2, dp) /\ nd2 \in [NodeId -> NodeType] /\ SameTree(nd, nd2)
<1> DEFINE m2 == [nd[n] EXCEPT !.safe_hmap_get_count = @ + 1]
<1>1. nd \in [NodeId -> NodeType] /\ nd[n] \in NodeType /\ Global(nd, S, dp)
      /\ \A u \in Thread : Typed(S[u])
  BY DEF Good
<1>2. nd2 = [nd EXCEPT ![n] = m2]
  BY <1>1
<1>3. nd[n].safe_hmap_get_count + 1 \in Nat
  BY <1>1 DEF NodeType
<1>4. m2 \in NodeType /\ LockFields(nd[n], m2)
  BY <1>1, <1>3 DEF NodeType, LockFields
<1>5. /\ n \in LiveIn(nd) /\ n # Root /\ nd[n].parent = d /\ dp[d] < dp[n]
      /\ \A u \in Thread : n \notin S[u].moves \cup S[u].removes
  BY EntryFree, TreeAssumption
<1>6. CountersFollow(nd[n], m2, n, S[t], S2[t])
  BY <1>1, <1>5, TreeAssumption DEF CountersFollow, SameUse, SameSleep, Bit, NodeType
<1>7. SleepersFollow(nd[n], m2, n, t, S2[t])
  BY <1>1 DEF SleepersFollow, SameSleep, NodeType, Global, Sleepers, SleepersOf
<1>8. \A x \in NodeId \ {n} :
         /\ x \in S2[t].reads <=> x \in S[t].reads
         /\ x \in S2[t].writes <=> x \in S[t].writes
         /\ x \in S2[t].counts <=> x \in S[t].counts
         /\ x \in S2[t].asReader <=> x \in S[t].asReader
         /\ x \in S2[t].asWriter <=> x \in S[t].asWriter
         /\ x \in S2[t].inPrivate <=> x \in S[t].inPrivate
         /\ x = S2[t].pending <=> x = S[t].pending
  BY TreeAssumption DEF SameUse, SameSleep
<1>9. SameTree(nd, nd2) /\ SameMaps(nd, nd2) /\ SameFlags(nd, nd2)
  <2> HIDE DEF m2
  <2> QED BY <1>1, <1>2, <1>4, LockFieldsSame
<1>10. Counters(nd, S) /\ Sleepers(nd, S)
  BY <1>1 DEF Global
<1>11. /\ \A x \in NodeId : CountersFollow(nd[x], nd2[x], x, S[t], S2[t])
       /\ \A x \in NodeId : SleepersFollow(nd[x], nd2[x], x, t, S2[t])
  <2> HIDE DEF m2
  <2>1. Others(S, S2, t) /\ t \in Thread /\ n \in NodeId /\ nd \in [NodeId -> NodeType]
    BY <1>1
  <2> QED BY ONLY <2>1, <1>2, <1>6, <1>7, <1>8, <1>10, FollowElsewhere
<1>12. nd2 \in [NodeId -> NodeType]
  <2> HIDE DEF m2
  <2> QED BY <1>1, <1>2, <1>4
<1> HIDE DEF m2
<1>13. Counters(nd2, S2) /\ Sleepers(nd2, S2)
  BY <1>10, <1>11, CountersStable, SleepersStable
<1>14. Maps(nd2, S2)
  BY <1>1, <1>9, MapsStable DEF SameHeld, Global
<1>15. Exclusion(nd2, S2) /\ Emergency(nd2, S2) /\ Privacy(nd2, S2)
  BY <1>1, <1>9, ExclusionStable, EmergencyStable, PrivacyKept DEF SameHeld, SameUse, Global
<1>16. Takers(S2) /\ Shape(nd2, S2) /\ Transfers(nd2, S2)
  BY <1>1, <1>9, NoNullVacates, TakersStable, ShapeStable, TransfersStable
      DEF SameHeld, SameTaking, Global
<1>17. \A u \in Thread : u # t => S2[u] = S[u]
  BY DEF Others
<1>18. Vacant(S2)
  <2> SUFFICES ASSUME NEW v \in Thread, NEW u \in Thread, v # u, NEW x \in S2[v].vacates
               PROVE  x \notin S2[u].counts \cup S2[u].reads \cup S2[u].writes /\ x # S2[u].pending
    BY DEF Vacant
  <2>1. v # t /\ x \in S[v].vacates
    BY <1>17 DEF SameHeld
  <2>2. x \notin S[u].counts \cup S[u].reads \cup S[u].writes /\ x # S[u].pending
    BY <2>1, <1>1 DEF Global, Vacant
  <2>3. x # n
    BY <2>1, <1>5 DEF One
  <2> QED BY <2>2, <2>3, <1>17 DEF SameUse
<1>19. Memory(nd2, S2)
  <2>1. LiveIn(nd2) = LiveIn(nd)
    BY <1>9 DEF SameTree, LiveIn
  <2>2. ASSUME NEW u \in Thread
        PROVE  /\ S2[u].counts \cup S2[u].reads \cup S2[u].writes \cup S2[u].maps
                    \cup S2[u].moves \cup S2[u].removes \subseteq LiveIn(nd)
               /\ S2[u].pending # NULL => S2[u].pending \in LiveIn(nd)
    <3>1. CASE u = t
      BY <3>1, <1>1, <1>5 DEF Global, Memory, SameUse, SameHeld, SameTaking
    <3>2. CASE u # t
      BY <3>2, <1>1, <1>17 DEF Global, Memory
    <3> QED BY <3>1, <3>2
  <2> QED BY <2>1, <2>2 DEF Memory
<1>20. Depths(nd2, S2, dp)
  <2>1. Depths(nd, S, dp)
    BY <1>1 DEF Global
  <2>2. \A u \in Thread : \A x \in NodeId :
          x \in S2[u].counts \/ x = S2[u].pending
            => x \in S[u].counts \/ x = S[u].pending \/ x = n
    BY <1>17 DEF SameUse
  <2>3. \A u \in Thread : \A x \in NodeId :
          (x \in S2[u].counts \/ x = S2[u].pending) /\ nd[x].parent # NULL
             => dp[nd[x].parent] < dp[x]
    BY <2>1, <2>2, <1>5 DEF Depths
  <2> QED BY <2>1, <2>3, <1>9 DEF Depths, SameTree
<1>21. Global(nd2, S2, dp)
  BY <1>13, <1>14, <1>15, <1>16, <1>18, <1>19, <1>20 DEF Global
<1> QED BY <1>9, <1>12, <1>21

-----------------------------------------------------------------------------
(* Taking and releasing maps, and the mutex of the movers.                 *)

\* The counters of the folders stay, and nobody falls asleep.
SameCounts(nd, nd2) == \A x \in NodeId :
  /\ nd2[x].readers_inside = nd[x].readers_inside
  /\ nd2[x].writers_inside = nd[x].writers_inside
  /\ nd2[x].readers_waiting = nd[x].readers_waiting
  /\ nd2[x].writers_waiting = nd[x].writers_waiting
  /\ nd2[x].subtree_threads = nd[x].subtree_threads
  /\ nd2[x].safe_hmap_get_count = nd[x].safe_hmap_get_count
  /\ nd2[x].readers \subseteq nd[x].readers
  /\ nd2[x].writers \subseteq nd[x].writers
  /\ nd2[x].private_access \subseteq nd[x].private_access

LEMMA CountsKept ==
  ASSUME NEW nd, NEW nd2, NEW S, NEW S2, NEW t \in Thread, Others(S, S2, t),
         nd \in [NodeId -> NodeType], Counters(nd, S), Sleepers(nd, S),
         SameCounts(nd, nd2), SameUse(S[t], S2[t]), SameSleep(S[t], S2[t]),
         S2[t].pending = S[t].pending
  PROVE  Counters(nd2, S2) /\ Sleepers(nd2, S2)
<1>1. ASSUME NEW x \in NodeId PROVE CountersFollow(nd[x], nd2[x], x, S[t], S2[t])
  <2>1. nd[x] \in NodeType
    OBVIOUS
  <2> QED BY <2>1 DEF CountersFollow, SameCounts, SameUse, SameSleep, Bit, NodeType
<1>2. ASSUME NEW x \in NodeId PROVE SleepersFollow(nd[x], nd2[x], x, t, S2[t])
  <2>1. SleepersOf(nd[x], x, S)
    BY DEF Sleepers
  <2> QED BY <2>1 DEF SleepersOf, SleepersFollow, SameCounts, SameSleep
<1> QED BY <1>1, <1>2, CountersStable, SleepersStable

\* A step that no counter and no flag shows.
LEMMA GHeld ==
  ASSUME NEW nd, NEW nd2, NEW S, NEW S2, NEW t \in Thread, NEW dp, NEW dp2, Good(nd, S, dp),
         Others(S, S2, t), SameCounts(nd, nd2), SameFlags(nd, nd2),
         SameUse(S[t], S2[t]), SameSleep(S[t], S2[t]), S2[t].pending = S[t].pending,
         S2[t].flags = S[t].flags, S2[t].vacates \subseteq S[t].vacates,
         KeepsPrivacy(nd, S[t], S2[t]),
         Maps(nd2, S2), Takers(S2), Shape(nd2, S2), Transfers(nd2, S2),
         Memory(nd2, S2), Depths(nd2, S2, dp2)
  PROVE  Global(nd2, S2, dp2)
<1>1. nd \in [NodeId -> NodeType] /\ Global(nd, S, dp) /\ \A u \in Thread : Typed(S[u])
  BY DEF Good
<1>2. Counters(nd2, S2) /\ Sleepers(nd2, S2)
  BY <1>1, CountsKept DEF Global
<1>3. Exclusion(nd2, S2)
  BY <1>1, ExclusionStable DEF Global, SameUse
<1>4. Emergency(nd2, S2)
  BY <1>1, EmergencyStable DEF Global
<1>5. Privacy(nd2, S2)
  BY <1>1, PrivacyKept DEF Global, SameUse
<1>6. NoNewUse(S[t], S2[t])
  BY <1>1, TreeAssumption DEF NoNewUse, SameUse, Typed
<1>7. Vacant(S2)
  BY <1>1, <1>6, NoNullVacates, VacantStable DEF Global
<1> QED BY <1>2, <1>3, <1>4, <1>5, <1>7 DEF Global

LEMMA MemoryKept ==
  ASSUME NEW nd, NEW nd2, NEW S, NEW S2, NEW t \in Thread, Others(S, S2, t),
         Memory(nd, S), LiveIn(nd) \subseteq LiveIn(nd2), SameUse(S[t], S2[t]),
         S2[t].pending = S[t].pending,
         S2[t].maps \cup S2[t].moves \cup S2[t].removes \subseteq LiveIn(nd)
  PROVE  Memory(nd2, S2)
<1>2. \A u \in Thread : u # t => S2[u] = S[u]
  BY DEF Others
<1>3. ASSUME NEW u \in Thread
      PROVE  /\ S2[u].counts \cup S2[u].reads \cup S2[u].writes \cup S2[u].maps
                  \cup S2[u].moves \cup S2[u].removes \subseteq LiveIn(nd)
             /\ S2[u].pending # NULL => S2[u].pending \in LiveIn(nd)
  <2>1. CASE u = t
    BY <2>1 DEF Memory, SameUse
  <2>2. CASE u # t
    BY <2>2, <1>2 DEF Memory
  <2> QED BY <2>1, <2>2
<1> QED BY <1>3 DEF Memory

\* What a thread has that stays with it while it takes and releases maps.
SameBut(nd, s, s2) ==
  /\ SameUse(s, s2) /\ SameSleep(s, s2) /\ s2.pending = s.pending
  /\ s2.flags = s.flags /\ s2.vacates = s.vacates /\ SameTaking(s, s2)
  /\ s2.unlinks = s.unlinks /\ KeepsPrivacy(nd, s, s2)

\* One folder changes, and of it only the holders of its map and its mutex.
WithMap(nd, n, w, a) ==
  [nd EXCEPT ![n] = [nd[n] EXCEPT !.map_writer = w, !.move_map_writers_access = a]]

LEMMA GMaps ==
  ASSUME NEW nd, NEW nd2, NEW S, NEW S2, NEW t \in Thread, NEW dp, Good(nd, S, dp),
         Others(S, S2, t), NEW n \in NodeId, NEW w \in Thread \cup {NULL}, NEW a \in Thread \cup {NULL},
         nd2 = WithMap(nd, n, w, a),
         SameBut(nd, S[t], S2[t]), Maps(nd2, S2), Transfers(nd2, S2), S2[t].maps \subseteq LiveIn(nd)
  PROVE  Global(nd2, S2, dp) /\ nd2 \in [NodeId -> NodeType] /\ SameTree(nd, nd2)
<1>1. nd \in [NodeId -> NodeType] /\ nd[n] \in NodeType /\ Global(nd, S, dp)
  BY DEF Good
<1>2. nd2 \in [NodeId -> NodeType]
  BY <1>1 DEF NodeType, WithMap
<1>3. \A x \in NodeId : nd2[x] = IF x = n THEN [nd[n] EXCEPT !.map_writer = w, !.move_map_writers_access = a]
                                 ELSE nd[x]
  BY <1>1 DEF WithMap
<1>4. SameTree(nd, nd2)
  BY <1>1, <1>3 DEF SameTree, NodeType, WithMap
<1>5. SameCounts(nd, nd2)
  BY <1>1, <1>3 DEF SameCounts, NodeType, WithMap
<1>6. SameFlags(nd, nd2)
  BY <1>1, <1>3 DEF SameFlags, NodeType, WithMap
<1>7. Takers(S2)
  BY <1>1, TakersStable DEF Global, SameBut, SameTaking
<1>8. Shape(nd2, S2)
  BY <1>1, <1>4, ShapeStable DEF Global, SameBut
<1>9. Memory(nd2, S2)
  <2>1. LiveIn(nd) \subseteq LiveIn(nd2)
    BY <1>4 DEF SameTree, LiveIn
  <2>2. S2[t].maps \cup S2[t].moves \cup S2[t].removes \subseteq LiveIn(nd)
    BY <1>1 DEF Global, Memory, SameBut, SameTaking
  <2> QED BY <1>1, <2>1, <2>2, MemoryKept DEF Global, SameBut
<1>10. Depths(nd2, S2, dp)
  <2>1. S2[t].counts \cup {S2[t].pending} \subseteq S[t].counts \cup {S[t].pending, NULL}
    BY DEF SameUse, SameBut
  <2> QED BY <1>1, <1>4, <2>1, DepthsStable DEF Global
<1>11. Global(nd2, S2, dp)
  BY <1>5, <1>6, <1>7, <1>8, <1>9, <1>10, GHeld DEF SameBut
<1> QED BY <1>2, <1>4, <1>11

\* A folder that is being taken away: nobody else who goes on is there.
LEMMA NotTaken ==
  ASSUME NEW nd, NEW S, NEW dp, Good(nd, S, dp), NEW t \in Thread, NEW u \in Thread, u # t,
         One(S[u]), NEW n \in S[t].counts, n \notin S[t].goesAway
  PROVE  n \notin S[u].moves \cup S[u].removes \cup S[u].unlinks \cup S[u].owns
<1>1. Vacant(S) /\ Privacy(nd, S) /\ Typed(S[u]) /\ Typed(S[t]) /\ Memory(nd, S)
  BY DEF Good, Global
<1>2. n \in NodeId
  BY <1>1 DEF Typed
<1>3. n \notin S[u].vacates
  BY <1>1 DEF Vacant
<1>4. n \notin S[u].owns
  BY <1>1, <1>2 DEF Privacy, OwnedBy
<1> QED BY <1>3, <1>4 DEF One

WithMoveLock(nd, n, v) == [nd EXCEPT ![n] = [nd[n] EXCEPT !.move_map_writers_access = v]]
WithMapWriter(nd, n, v) == [nd EXCEPT ![n] = [nd[n] EXCEPT !.map_writer = v]]

LEMMA GMoveLock ==
  ASSUME NEW nd, NEW nd2, NEW S, NEW S2, NEW t \in Thread, NEW dp, Good(nd, S, dp),
         Others(S, S2, t), NEW n \in NodeId, SameBut(nd, S[t], S2[t]), S2[t].maps = S[t].maps,
         nd[n].move_map_writers_access = NULL, S2[t].moveLock = S[t].moveLock \cup {n},
         nd2 = WithMoveLock(nd, n, t)
  PROVE  Global(nd2, S2, dp) /\ nd2 \in [NodeId -> NodeType] /\ SameTree(nd, nd2)
<1>1. nd \in [NodeId -> NodeType] /\ nd[n] \in NodeType /\ Global(nd, S, dp)
  BY DEF Good
<1>2. nd2 = WithMap(nd, n, nd[n].map_writer, t)
  BY <1>1 DEF NodeType, WithMap, WithMoveLock, WithMapWriter
<1>3. \A x \in NodeId : /\ nd2[x].map_writer = nd[x].map_writer
                        /\ nd2[x].move_map_writers_access = IF x = n THEN t ELSE nd[x].move_map_writers_access
                        /\ nd2[x].children = nd[x].children
  BY <1>1 DEF NodeType, WithMoveLock, WithMapWriter
<1>4. Maps(nd2, S2)
  BY <1>1, <1>3, TreeAssumption DEF Global, Maps, Others
<1>5. Transfers(nd2, S2)
  <2>1. \A u \in Thread : /\ S2[u].moves = S[u].moves /\ S2[u].maps = S[u].maps /\ S2[u].unlinks = S[u].unlinks
                          /\ S[u].moves = {} \/ S2[u].place = S[u].place
    BY DEF Others, SameBut, SameTaking
  <2>2. \A u \in Thread : S[u].maps \subseteq NodeId /\ S[u].unlinks \subseteq NodeId
    BY DEF Good, Typed
  <2> QED BY <1>1, <1>3, <2>1, <2>2 DEF Global, Transfers, Names
<1>6. S2[t].maps \subseteq LiveIn(nd)
  BY <1>1 DEF Global, Memory
<1>7. nd[n].map_writer \in Thread \cup {NULL}
  BY <1>1 DEF NodeType
<1> QED BY <1>2, <1>4, <1>5, <1>6, <1>7, GMaps

LEMMA GMoveUnlock ==
  ASSUME NEW nd, NEW nd2, NEW S, NEW S2, NEW t \in Thread, NEW dp, Good(nd, S, dp),
         Others(S, S2, t), NEW n \in NodeId, SameBut(nd, S[t], S2[t]), S2[t].maps = S[t].maps,
         n \in S[t].moveLock, S2[t].moveLock = S[t].moveLock \ {n},
         nd2 = WithMoveLock(nd, n, NULL)
  PROVE  Global(nd2, S2, dp) /\ nd2 \in [NodeId -> NodeType] /\ SameTree(nd, nd2)
<1>1. nd \in [NodeId -> NodeType] /\ nd[n] \in NodeType /\ Global(nd, S, dp)
  BY DEF Good
<1>2. nd2 = WithMap(nd, n, nd[n].map_writer, NULL)
  BY <1>1 DEF NodeType, WithMap, WithMoveLock, WithMapWriter
<1>3. \A x \in NodeId : /\ nd2[x].map_writer = nd[x].map_writer
                        /\ nd2[x].move_map_writers_access = IF x = n THEN NULL ELSE nd[x].move_map_writers_access
                        /\ nd2[x].children = nd[x].children
  BY <1>1 DEF NodeType, WithMoveLock, WithMapWriter
<1>4. Maps(nd2, S2)
  BY <1>1, <1>3, TreeAssumption DEF Global, Maps, Others
<1>5. Transfers(nd2, S2)
  <2>1. \A u \in Thread : /\ S2[u].moves = S[u].moves /\ S2[u].maps = S[u].maps /\ S2[u].unlinks = S[u].unlinks
                          /\ S[u].moves = {} \/ S2[u].place = S[u].place
    BY DEF Others, SameBut, SameTaking
  <2>2. \A u \in Thread : S[u].maps \subseteq NodeId /\ S[u].unlinks \subseteq NodeId
    BY DEF Good, Typed
  <2> QED BY <1>1, <1>3, <2>1, <2>2 DEF Global, Transfers, Names
<1>6. S2[t].maps \subseteq LiveIn(nd)
  BY <1>1 DEF Global, Memory
<1>7. nd[n].map_writer \in Thread \cup {NULL}
  BY <1>1 DEF NodeType
<1> QED BY <1>2, <1>4, <1>5, <1>6, <1>7, GMaps

LEMMA GMapTake ==
  ASSUME NEW nd, NEW nd2, NEW S, NEW S2, NEW t \in Thread, NEW dp, Good(nd, S, dp),
         \A u \in Thread : u # t => One(S[u]),
         Others(S, S2, t), NEW n \in NodeId, SameBut(nd, S[t], S2[t]), S2[t].moveLock = S[t].moveLock,
         nd[n].map_writer = NULL, S2[t].maps = S[t].maps \cup {n}, n \in S[t].counts,
         S[t].goesAway = {}, S[t].unlinks = {}, S[t].moves = {},
         nd2 = WithMapWriter(nd, n, t)
  PROVE  Global(nd2, S2, dp) /\ nd2 \in [NodeId -> NodeType] /\ SameTree(nd, nd2)
<1>1. nd \in [NodeId -> NodeType] /\ nd[n] \in NodeType /\ Global(nd, S, dp)
  BY DEF Good
<1>2. nd2 = WithMap(nd, n, t, nd[n].move_map_writers_access)
  BY <1>1 DEF NodeType, WithMap, WithMoveLock, WithMapWriter
<1>3. \A x \in NodeId : /\ nd2[x].map_writer = IF x = n THEN t ELSE nd[x].map_writer
                        /\ nd2[x].move_map_writers_access = nd[x].move_map_writers_access
                        /\ nd2[x].children = nd[x].children
  BY <1>1 DEF NodeType, WithMoveLock, WithMapWriter
<1>4. Maps(nd2, S2)
  BY <1>1, <1>3, TreeAssumption DEF Global, Maps, Others
<1>5. Transfers(nd2, S2)
  <2>1. \A u \in Thread : /\ S2[u].moves = S[u].moves /\ S[u].maps \subseteq S2[u].maps /\ S2[u].unlinks = S[u].unlinks
                          /\ S[u].moves = {} \/ S2[u].place = S[u].place
    BY DEF Others, SameBut, SameTaking
  <2>2. \A u \in Thread : S[u].maps \subseteq NodeId /\ S[u].unlinks \subseteq NodeId
    BY DEF Good, Typed
  <2>3. \A u \in Thread : n \notin S[u].unlinks
    BY NotTaken
  <2> QED BY <1>1, <1>3, <2>1, <2>2, <2>3 DEF Global, Transfers, Names
<1>6. S2[t].maps \subseteq LiveIn(nd)
  BY <1>1 DEF Global, Memory
<1>7. nd[n].move_map_writers_access \in Thread \cup {NULL}
  BY <1>1 DEF NodeType
<1> DEFINE a == nd[n].move_map_writers_access
<1>8. nd2 = WithMap(nd, n, t, a) /\ a \in Thread \cup {NULL} /\ t \in Thread \cup {NULL}
  BY <1>2, <1>7
<1> HIDE DEF a
<1>9. Good(nd, S, dp) /\ Others(S, S2, t) /\ SameBut(nd, S[t], S2[t]) /\ t \in Thread /\ n \in NodeId
  OBVIOUS
<1> QED BY ONLY <1>4, <1>5, <1>6, <1>8, <1>9, GMaps

LEMMA GMapRelease ==
  ASSUME NEW nd, NEW nd2, NEW S, NEW S2, NEW t \in Thread, NEW dp, Good(nd, S, dp),
         Others(S, S2, t), NEW n \in NodeId, SameBut(nd, S[t], S2[t]), S2[t].moveLock = S[t].moveLock,
         n \in S[t].maps, S2[t].maps = S[t].maps \ {n}, S[t].moves = {},
         nd2 = WithMapWriter(nd, n, NULL)
  PROVE  Global(nd2, S2, dp) /\ nd2 \in [NodeId -> NodeType] /\ SameTree(nd, nd2)
<1>1. nd \in [NodeId -> NodeType] /\ nd[n] \in NodeType /\ Global(nd, S, dp)
  BY DEF Good
<1>2. nd2 = WithMap(nd, n, NULL, nd[n].move_map_writers_access)
  BY <1>1 DEF NodeType, WithMap, WithMoveLock, WithMapWriter
<1>3. \A x \in NodeId : /\ nd2[x].map_writer = IF x = n THEN NULL ELSE nd[x].map_writer
                        /\ nd2[x].move_map_writers_access = nd[x].move_map_writers_access
                        /\ nd2[x].children = nd[x].children
  BY <1>1 DEF NodeType, WithMoveLock, WithMapWriter
<1>4. Maps(nd2, S2)
  BY <1>1, <1>3, TreeAssumption DEF Global, Maps, Others
<1>5. Transfers(nd2, S2)
  <2>1. \A u \in Thread : /\ S2[u].moves = S[u].moves /\ S2[u].unlinks = S[u].unlinks
                          /\ S[u].moves = {} \/ (S2[u].place = S[u].place /\ S2[u].maps = S[u].maps)
    BY DEF Others, SameBut, SameTaking
  <2>2. \A u \in Thread : S[u].maps \subseteq NodeId /\ S[u].unlinks \subseteq NodeId
    BY DEF Good, Typed
  <2> QED BY <1>1, <1>3, <2>1, <2>2 DEF Global, Transfers, Names
<1>6. S2[t].maps \subseteq LiveIn(nd)
  BY <1>1 DEF Global, Memory
<1>7. nd[n].move_map_writers_access \in Thread \cup {NULL}
  BY <1>1 DEF NodeType
<1> DEFINE a == nd[n].move_map_writers_access
<1>8. nd2 = WithMap(nd, n, NULL, a) /\ a \in Thread \cup {NULL} /\ NULL \in Thread \cup {NULL}
  BY <1>2, <1>7
<1> HIDE DEF a
<1>9. Good(nd, S, dp) /\ Others(S, S2, t) /\ SameBut(nd, S[t], S2[t]) /\ t \in Thread /\ n \in NodeId
  OBVIOUS
<1> QED BY ONLY <1>4, <1>5, <1>6, <1>8, <1>9, GMaps

-----------------------------------------------------------------------------
(* tree_remove takes a folder from its parent's map.                       *)

\* Folders with new entries in two maps.
SameButChildren(nd, nd2) == \A x \in NodeId :
  nd2[x] = [nd[x] EXCEPT !.children = nd2[x].children]

LEMMA ChildrenOnly ==
  ASSUME NEW nd, NEW nd2, nd \in [NodeId -> NodeType], SameButChildren(nd, nd2)
  PROVE  /\ SameCounts(nd, nd2) /\ SameFlags(nd, nd2) /\ SameMaps(nd, nd2) /\ LiveIn(nd2) = LiveIn(nd)
         /\ \A x \in NodeId : nd2[x].parent = nd[x].parent /\ nd2[x].name = nd[x].name
                              /\ nd2[x].memory = nd[x].memory
<1>1. \A x \in NodeId : nd[x] \in NodeType
  OBVIOUS
<1>2. \A x \in NodeId :
        /\ nd2[x].readers_inside = nd[x].readers_inside
        /\ nd2[x].writers_inside = nd[x].writers_inside
        /\ nd2[x].readers_waiting = nd[x].readers_waiting
        /\ nd2[x].writers_waiting = nd[x].writers_waiting
        /\ nd2[x].subtree_threads = nd[x].subtree_threads
        /\ nd2[x].safe_hmap_get_count = nd[x].safe_hmap_get_count
        /\ nd2[x].readers = nd[x].readers /\ nd2[x].writers = nd[x].writers
        /\ nd2[x].private_access = nd[x].private_access
        /\ nd2[x].emergency_pass = nd[x].emergency_pass
        /\ nd2[x].map_writer = nd[x].map_writer
        /\ nd2[x].move_map_writers_access = nd[x].move_map_writers_access
        /\ nd2[x].parent = nd[x].parent /\ nd2[x].name = nd[x].name /\ nd2[x].memory = nd[x].memory
  <2> SUFFICES ASSUME NEW x \in NodeId
      PROVE  /\ nd2[x].readers_inside = nd[x].readers_inside
             /\ nd2[x].writers_inside = nd[x].writers_inside
             /\ nd2[x].readers_waiting = nd[x].readers_waiting
             /\ nd2[x].writers_waiting = nd[x].writers_waiting
             /\ nd2[x].subtree_threads = nd[x].subtree_threads
             /\ nd2[x].safe_hmap_get_count = nd[x].safe_hmap_get_count
             /\ nd2[x].readers = nd[x].readers /\ nd2[x].writers = nd[x].writers
             /\ nd2[x].private_access = nd[x].private_access
             /\ nd2[x].emergency_pass = nd[x].emergency_pass
             /\ nd2[x].map_writer = nd[x].map_writer
             /\ nd2[x].move_map_writers_access = nd[x].move_map_writers_access
             /\ nd2[x].parent = nd[x].parent /\ nd2[x].name = nd[x].name
             /\ nd2[x].memory = nd[x].memory
    OBVIOUS
  <2>1. PICK m : m = nd[x]
    OBVIOUS
  <2>2. PICK m2 : m2 = nd2[x]
    OBVIOUS
  <2>3. PICK c : c = nd2[x].children
    OBVIOUS
  <2>4. m \in NodeType
    BY ONLY <1>1, <2>1, x \in NodeId
  <2>5. nd2[x] = [nd[x] EXCEPT !.children = nd2[x].children]
    BY DEF SameButChildren
  <2>6. m2 = [m EXCEPT !.children = c]
    BY ONLY <2>1, <2>2, <2>3, <2>5
  <2>7. /\ m2.readers_inside = m.readers_inside
        /\ m2.writers_inside = m.writers_inside
        /\ m2.readers_waiting = m.readers_waiting
        /\ m2.writers_waiting = m.writers_waiting
        /\ m2.subtree_threads = m.subtree_threads
        /\ m2.safe_hmap_get_count = m.safe_hmap_get_count
        /\ m2.readers = m.readers /\ m2.writers = m.writers
        /\ m2.private_access = m.private_access
        /\ m2.emergency_pass = m.emergency_pass
        /\ m2.map_writer = m.map_writer
        /\ m2.move_map_writers_access = m.move_map_writers_access
        /\ m2.parent = m.parent /\ m2.name = m.name /\ m2.memory = m.memory
    BY ONLY <2>4, <2>6 DEF NodeType
  <2> QED BY ONLY <2>1, <2>2, <2>7
<1> QED BY <1>2 DEF SameCounts, SameFlags, SameMaps, LiveIn

\* One entry of one map.
WithChild(nd, d, a, v) == [nd EXCEPT ![d].children[a] = v]

LEMMA SetChild ==
  ASSUME NEW nd, NEW nd2, nd \in [NodeId -> NodeType], NEW d \in NodeId, NEW a \in Name,
         NEW v \in NodeId \cup {NULL},
         nd2 = WithChild(nd, d, a, v)
  PROVE  /\ nd2 \in [NodeId -> NodeType] /\ SameButChildren(nd, nd2)
         /\ \A e \in NodeId, b \in Name :
              nd2[e].children[b] = IF e = d /\ b = a THEN v ELSE nd[e].children[b]
<1> DEFINE ch == [nd[d].children EXCEPT ![a] = v]
<1>1. nd[d] \in NodeType /\ nd[d].children \in [Name -> NodeId \cup {NULL}]
  BY DEF NodeType
<1>2. ch \in [Name -> NodeId \cup {NULL}] /\ ch[a] = v
      /\ \A c \in Name : c # a => ch[c] = nd[d].children[c]
  BY <1>1
<1>3. nd2 = [nd EXCEPT ![d] = [nd[d] EXCEPT !.children = ch]]
  BY DEF WithChild
<1> HIDE DEF ch
<1>4. [nd[d] EXCEPT !.children = ch] \in NodeType
  BY <1>1, <1>2 DEF NodeType
<1>5. nd2 \in [NodeId -> NodeType]
  BY <1>3, <1>4
<1>6. ASSUME NEW x \in NodeId
      PROVE  /\ nd2[x] = [nd[x] EXCEPT !.children = nd2[x].children]
             /\ nd2[x].children = IF x = d THEN ch ELSE nd[x].children
  <2>1. nd[x] \in NodeType
    OBVIOUS
  <2>2. CASE x = d
    BY <2>1, <2>2, <1>3 DEF NodeType
  <2>3. CASE x # d
    <3>1. nd2[x] = nd[x]
      BY <2>3, <1>3
    <3> QED BY <3>1, <2>1, <2>3 DEF NodeType
  <2> QED BY <2>2, <2>3
<1>7. SameButChildren(nd, nd2)
  BY <1>6 DEF SameButChildren
<1> QED BY <1>2, <1>5, <1>6, <1>7

\* The entry of a folder that its remover or mover has found in its place.
LEMMA EntryOf ==
  ASSUME NEW nd, NEW S, NEW dp, Good(nd, S, dp), NEW n \in LiveIn(nd), n # Root,
         \A u \in Thread : n \notin S[u].moves \cup S[u].removes
  PROVE  /\ nd[n].parent \in NodeId /\ nd[n].name \in Name
         /\ nd[nd[n].parent].children[nd[n].name] = n
         /\ \A d \in NodeId, a \in Name :
              nd[d].children[a] = n => d = nd[n].parent /\ a = nd[n].name
         /\ nd[n].parent \in LiveIn(nd)
<1>1. Shape(nd, S) /\ n \in NodeId /\ n # NULL
  BY TreeAssumption DEF Good, Global, LiveIn
<1>2. /\ nd[n].parent \in NodeId /\ nd[n].name \in Name
      /\ nd[nd[n].parent].children[nd[n].name] = n
  BY <1>1 DEF Shape
<1>3. ASSUME NEW d \in NodeId, NEW a \in Name, nd[d].children[a] = n
      PROVE  d = nd[n].parent /\ a = nd[n].name
  BY <1>1, <1>3 DEF Shape
<1>4. nd[n].parent \in LiveIn(nd)
  BY <1>1, <1>2 DEF Shape
<1> QED BY <1>2, <1>3, <1>4

WithoutEntry(nd, n) == [nd EXCEPT ![nd[n].parent].children[nd[n].name] = NULL]

\* hmap_remove of tree_remove.
LEMMA GUnlink ==
  ASSUME NEW nd, NEW nd2, NEW S, NEW S2, NEW t \in Thread, NEW dp, Good(nd, S, dp),
         \A u \in Thread : One(S[u]), Others(S, S2, t), NEW n \in S[t].counts,
         nd[nd[n].parent].map_writer = NULL, n # Root,
         S[t].unlinks = {n}, S[t].removes = {}, S[t].moves = {}, S[t].goesAway = {},
         S2[t].removes = {n}, S2[t].moves = {}, S2[t].unlinks = {n},
         SameUse(S[t], S2[t]), SameSleep(S[t], S2[t]), S2[t].pending = S[t].pending,
         S2[t].flags = S[t].flags, S2[t].vacates = S[t].vacates, S2[t].maps = S[t].maps,
         S2[t].moveLock = S[t].moveLock, KeepsPrivacy(nd, S[t], S2[t]),
         nd2 = WithoutEntry(nd, n)
  PROVE  Global(nd2, S2, dp) /\ nd2 \in [NodeId -> NodeType]
         /\ \A x \in NodeId : nd2[x].parent = nd[x].parent /\ nd2[x].name = nd[x].name
<1> DEFINE d == nd[n].parent
           a == nd[n].name
<1>1. /\ nd \in [NodeId -> NodeType] /\ Global(nd, S, dp) /\ \A u \in Thread : Typed(S[u])
      /\ n \in LiveIn(nd) /\ n \in NodeId /\ n # NULL
  BY TreeAssumption DEF Good, Global, Memory, LiveIn
<1>2. \A u \in Thread : u # t => n \notin S[u].moves \cup S[u].removes
  BY NotTaken
<1>3. \A u \in Thread : n \notin S[u].moves \cup S[u].removes
  BY <1>2
<1>4. /\ d \in NodeId /\ a \in Name /\ nd[d].children[a] = n /\ d \in LiveIn(nd)
      /\ \A e \in NodeId, b \in Name : nd[e].children[b] = n => e = d /\ b = a
  BY <1>1, <1>3, EntryOf
<1> HIDE DEF d, a
<1>5. nd[d].map_writer = NULL /\ nd2 = WithChild(nd, d, a, NULL)
  BY DEF d, a, WithChild, WithoutEntry
<1>7. /\ nd2 \in [NodeId -> NodeType] /\ SameButChildren(nd, nd2)
      /\ \A e \in NodeId, b \in Name :
           nd2[e].children[b] = IF e = d /\ b = a THEN NULL ELSE nd[e].children[b]
  <2>1. NULL \in NodeId \cup {NULL}
    OBVIOUS
  <2> QED BY ONLY <2>1, <1>1, <1>4, <1>5, SetChild
<1>9. /\ SameCounts(nd, nd2) /\ SameFlags(nd, nd2) /\ SameMaps(nd, nd2) /\ LiveIn(nd2) = LiveIn(nd)
      /\ \A x \in NodeId : nd2[x].parent = nd[x].parent /\ nd2[x].name = nd[x].name
                           /\ nd2[x].memory = nd[x].memory
  BY <1>1, <1>7, ChildrenOnly
<1>10. Maps(nd2, S2)
  BY <1>1, <1>9, MapsStable DEF Global
<1>11. \A u \in Thread : u # t => S2[u] = S[u]
  BY DEF Others
<1>12. Takers(S2)
  BY <1>1, <1>2, <1>11 DEF Global, Takers
<1>13. Shape(nd2, S2)
  <2>0. Shape(nd, S) /\ Root \in NodeId
    BY <1>1, TreeAssumption DEF Global
  <2>1. /\ nd2[Root].parent = NULL /\ Root \in LiveIn(nd2)
        /\ \A x \in LiveIn(nd2) \ {Root} : nd2[x].parent \in NodeId /\ nd2[x].name \in Name
        /\ \A x \in NodeId : nd2[x].parent # NULL => nd2[nd2[x].parent].memory # "unused"
    <3>1. \A x \in NodeId : nd[x].parent \in NodeId \cup {NULL}
      BY <1>1 DEF NodeType
    <3> QED BY <2>0, <3>1, <1>9 DEF Shape, LiveIn
  <2>2. ASSUME NEW e \in NodeId, NEW b \in Name, nd2[e].children[b] # NULL
        PROVE  LET x == nd2[e].children[b] IN
               /\ e \in LiveIn(nd2) /\ x \in LiveIn(nd2) \ {Root}
               /\ \A u \in Thread : x \notin S2[u].removes /\ (x \in S2[u].moves => S2[u].place = <<e, b>>)
               /\ (\A u \in Thread : x \notin S2[u].moves) => e = nd2[x].parent /\ b = nd2[x].name
    <3> DEFINE x == nd[e].children[b]
    <3>1. nd2[e].children[b] = x /\ x # NULL /\ x # n
      BY <2>2, <1>4, <1>7
    <3>2. /\ e \in LiveIn(nd) /\ x \in LiveIn(nd) \ {Root}
          /\ \A u \in Thread : x \notin S[u].removes /\ (x \in S[u].moves => S[u].place = <<e, b>>)
          /\ (\A u \in Thread : x \notin S[u].moves) => e = nd[x].parent /\ b = nd[x].name
      BY <3>1, <2>0 DEF Shape
    <3>3. x \in NodeId
      BY <3>2 DEF LiveIn
    <3> HIDE DEF x
    <3> QED BY <3>1, <3>2, <3>3, <1>9, <1>11
  <2>3. ASSUME NEW x \in LiveIn(nd2) \ {Root},
               \A u \in Thread : x \notin S2[u].moves \cup S2[u].removes
        PROVE  nd2[nd2[x].parent].children[nd2[x].name] = x
    <3>1. x # n
      BY <2>3
    <3>2. x \in LiveIn(nd) \ {Root} /\ x \in NodeId /\ nd[x].parent \in NodeId /\ nd[x].name \in Name
      BY <1>9, <2>0 DEF Shape, LiveIn
    <3>3. \A u \in Thread : x \notin S[u].moves \cup S[u].removes
      BY <1>11, <2>3
    <3>4. nd[nd[x].parent].children[nd[x].name] = x
      BY <3>2, <3>3, <2>0 DEF Shape
    <3> QED BY <3>1, <3>2, <3>4, <1>4, <1>7, <1>9
  <2> QED BY <2>1, <2>2, <2>3 DEF Shape
<1>14. Transfers(nd2, S2)
  <2>0. Transfers(nd, S) /\ Maps(nd, S)
    BY <1>1 DEF Global
  <2>1. ASSUME NEW u \in Thread, NEW x \in S2[u].moves
        PROVE  /\ S2[u].place[1] \in S2[u].maps /\ S2[u].place[2] \in Name
               /\ nd2[S2[u].place[1]].children[S2[u].place[2]] = x
    <3>1. u # t /\ S2[u] = S[u]
      BY <2>1, <1>11
    <3>2. /\ S[u].place[1] \in S[u].maps /\ S[u].place[2] \in Name
          /\ nd[S[u].place[1]].children[S[u].place[2]] = x
      BY <3>1, <2>0 DEF Transfers
    <3>3. S[u].place[1] \in NodeId
      BY <3>2, <1>1 DEF Typed
    <3>4. nd[S[u].place[1]].map_writer = u
      BY <3>2, <3>3, <2>0 DEF Maps
    <3>5. S[u].place[1] # d
      BY <3>4, <1>5, TreeAssumption
    <3> QED BY <3>1, <3>2, <3>3, <3>5, <1>7
  <2>2. ASSUME NEW u \in Thread, NEW x \in S2[u].unlinks
        PROVE  nd2[x].map_writer = NULL /\ Names(nd2[x]) = {}
    <3>1. x \in S[u].unlinks /\ x \in NodeId
      BY <1>1, <1>11 DEF Typed
    <3>2. nd[x].map_writer = NULL /\ Names(nd[x]) = {}
      BY <3>1, <2>0 DEF Transfers
    <3> QED BY <3>1, <3>2, <1>7, <1>9 DEF SameMaps, Names
  <2> QED BY <2>1, <2>2 DEF Transfers
<1>15. Memory(nd2, S2)
  <2>1. S2[t].maps \cup S2[t].moves \cup S2[t].removes \subseteq LiveIn(nd)
    BY <1>1 DEF Global, Memory
  <2> QED BY <1>1, <1>9, <2>1, MemoryKept DEF Global
<1>16. Depths(nd2, S2, dp)
  <2>1. Depths(nd, S, dp)
    BY <1>1 DEF Global
  <2>2. \A u \in Thread : \A x \in NodeId :
          (x \in S2[u].counts \/ x = S2[u].pending) /\ nd2[x].parent # NULL
             => dp[nd2[x].parent] < dp[x]
    BY <2>1, <1>9, <1>11 DEF Depths, SameUse
  <2>3. \A e \in NodeId, b \in Name :
          nd2[e].children[b] # NULL => dp[e] < dp[nd2[e].children[b]]
    BY <2>1, <1>7 DEF Depths
  <2> QED BY <2>1, <2>2, <2>3 DEF Depths
<1>17. Global(nd2, S2, dp)
  BY <1>9, <1>10, <1>12, <1>13, <1>14, <1>15, <1>16, GHeld
<1> QED BY <1>7, <1>9, <1>17

-----------------------------------------------------------------------------
(* tree_move takes a folder to its new place in the maps.                  *)

\* The folder that is moved goes below a folder outside its subtree: all that
\* is not on the chain of that one becomes deeper.
Sunk(dp, C, h) == [x \in NodeId |-> IF x \in C THEN dp[x] ELSE dp[x] + h]

LEMMA SunkDepths ==
  ASSUME NEW nd, NEW S, NEW dp, Good(nd, S, dp), NEW C \in SUBSET NodeId, NEW q \in C,
         \A x \in C : nd[x].parent \in C \cup {NULL},
         \A x \in C, u \in Thread : x \notin S[u].moves \cup S[u].removes
  PROVE  LET e == Sunk(dp, C, dp[q] + 1) IN
         /\ e \in [NodeId -> Nat] /\ \E top \in Nat : \A x \in NodeId : e[x] <= top
         /\ \A d \in NodeId, a \in Name : nd[d].children[a] # NULL => e[d] < e[nd[d].children[a]]
         /\ \A u \in Thread : \A x \in NodeId :
              (x \in S[u].counts \/ x = S[u].pending) /\ nd[x].parent # NULL
                => e[nd[x].parent] < e[x]
         /\ \A x \in NodeId \ C : e[q] < e[x]
<1> DEFINE h == dp[q] + 1
           e == Sunk(dp, C, h)
<1>1. Depths(nd, S, dp) /\ Shape(nd, S) /\ nd \in [NodeId -> NodeType]
  BY DEF Good, Global
<1>2. dp \in [NodeId -> Nat] /\ h \in Nat /\ h = dp[q] + 1 /\ q \in NodeId
  BY <1>1 DEF Depths
<1> HIDE DEF h
<1>3. \A x \in NodeId : /\ e[x] = IF x \in C THEN dp[x] ELSE dp[x] + h
                        /\ dp[x] \in Nat /\ e[x] \in Nat
  BY <1>2 DEF Sunk
<1>4. e \in [NodeId -> Nat]
  BY <1>2 DEF Sunk
<1>5. PICK top \in Nat : \A x \in NodeId : dp[x] <= top
  BY <1>1 DEF Depths
<1> HIDE DEF e
<1>6. \A x \in NodeId : e[x] <= top + h
  BY <1>2, <1>3, <1>5
<1>7. top + h \in Nat
  BY <1>2
<1>8. ASSUME NEW d \in NodeId, NEW x \in NodeId, dp[d] < dp[x], x \in C => d \in C
      PROVE  e[d] < e[x]
  BY <1>2, <1>3, <1>8
<1>9. ASSUME NEW d \in NodeId, NEW a \in Name, nd[d].children[a] # NULL
      PROVE  e[d] < e[nd[d].children[a]]
  <2> DEFINE x == nd[d].children[a]
  <2>1. /\ x \in LiveIn(nd) \ {Root} /\ dp[d] < dp[x]
        /\ (\A u \in Thread : x \notin S[u].moves) => d = nd[x].parent /\ a = nd[x].name
    BY <1>1, <1>9 DEF Shape, Depths
  <2>2. x \in NodeId
    BY <2>1 DEF LiveIn
  <2>3. x \in C => d \in C
    BY <2>1, TreeAssumption
  <2> QED BY <2>1, <2>2, <2>3, <1>8
<1>10. ASSUME NEW u \in Thread, NEW x \in NodeId, x \in S[u].counts \/ x = S[u].pending,
              nd[x].parent # NULL
       PROVE  e[nd[x].parent] < e[x]
  <2>1. nd[x].parent \in NodeId /\ dp[nd[x].parent] < dp[x]
    BY <1>1, <1>10 DEF Depths, NodeType
  <2>2. x \in C => nd[x].parent \in C
    BY <1>10
  <2> QED BY <2>1, <2>2, <1>8
<1>11. \A x \in NodeId \ C : e[q] < e[x]
  BY <1>2, <1>3
<1> QED BY <1>4, <1>6, <1>7, <1>9, <1>10, <1>11 DEF e, h

LEMMA SameButTwice ==
  ASSUME NEW nd, NEW nd1, NEW nd2, nd \in [NodeId -> NodeType],
         SameButChildren(nd, nd1), SameButChildren(nd1, nd2)
  PROVE  SameButChildren(nd, nd2)
<1> SUFFICES ASSUME NEW x \in NodeId
             PROVE  nd2[x] = [nd[x] EXCEPT !.children = nd2[x].children]
  BY DEF SameButChildren
<1>1. nd[x] \in NodeType
  OBVIOUS
<1>2. nd1[x] = [nd[x] EXCEPT !.children = nd1[x].children]
  BY DEF SameButChildren
<1>3. nd2[x] = [nd1[x] EXCEPT !.children = nd2[x].children]
  BY DEF SameButChildren
<1> QED BY ONLY <1>1, <1>2, <1>3 DEF NodeType

\* transfer of tree_move: what is so before, and what changes of the thread.
BeforeTransfer(nd, s, n, q, b, C) ==
  /\ n \in s.counts /\ q \in NodeId /\ b \in Name /\ n # Root
  /\ s.place = <<q, b>> /\ s.maps = {nd[n].parent, q} /\ nd[q].children[b] = NULL
  /\ C \subseteq s.counts /\ q \in C /\ n \notin C
  /\ \A x \in C : nd[x].parent \in C \cup {NULL}
  /\ s.unlinks = {} /\ s.removes = {} /\ s.moves = {} /\ s.goesAway = {}
Transferred(nd, s, s2, n) ==
  /\ s2.place = s.place /\ s2.maps = s.maps /\ s2.moveLock = s.moveLock
  /\ s2.unlinks = {} /\ s2.removes = {} /\ s2.moves = {n}
  /\ SameUse(s, s2) /\ SameSleep(s, s2) /\ s2.pending = s.pending
  /\ s2.flags = s.flags /\ s2.vacates = s.vacates /\ KeepsPrivacy(nd, s, s2)

WithMoved(nd, n, q, b) ==
  [nd EXCEPT ![q].children[b] = n, ![nd[n].parent].children[nd[n].name] = NULL]

LEMMA GTransfer ==
  ASSUME NEW nd, NEW nd2, NEW S, NEW S2, NEW t \in Thread, NEW dp, NEW n, NEW q, NEW b, NEW C,
         Good(nd, S, dp), \A u \in Thread : One(S[u]), Others(S, S2, t),
         BeforeTransfer(nd, S[t], n, q, b, C), Transferred(nd, S[t], S2[t], n),
         nd2 = WithMoved(nd, n, q, b)
  PROVE  /\ Global(nd2, S2, Sunk(dp, C, dp[q] + 1)) /\ nd2 \in [NodeId -> NodeType]
         /\ \A x \in NodeId : nd2[x].parent = nd[x].parent /\ nd2[x].name = nd[x].name
<1> DEFINE d == nd[n].parent
           a == nd[n].name
<1>1. /\ nd \in [NodeId -> NodeType] /\ Global(nd, S, dp) /\ \A u \in Thread : Typed(S[u])
      /\ n \in LiveIn(nd) /\ n \in NodeId /\ n # NULL /\ n # Root
  BY TreeAssumption DEF Good, Global, Memory, LiveIn, BeforeTransfer
<1>32. q \in NodeId /\ b \in Name
  BY DEF BeforeTransfer
<1>33. q \in C /\ n \notin C /\ C \subseteq S[t].counts
  BY DEF BeforeTransfer
<1>30. /\ n \in S[t].counts /\ S[t].goesAway = {} /\ S[t].moves = {} /\ S[t].removes = {}
       /\ nd[q].children[b] = NULL
  BY DEF BeforeTransfer
<1>2. \A u \in Thread : u # t => n \notin S[u].moves \cup S[u].removes
  BY <1>30, NotTaken
<1>3. \A u \in Thread : n \notin S[u].moves \cup S[u].removes
  BY <1>2, <1>30
<1>4. /\ d \in NodeId /\ a \in Name /\ nd[d].children[a] = n /\ d \in LiveIn(nd)
      /\ \A e \in NodeId, c \in Name : nd[e].children[c] = n => e = d /\ c = a
  BY <1>1, <1>3, EntryOf
<1>20. \A x \in C, u \in Thread : x \notin S[u].moves \cup S[u].removes
  <2> TAKE x \in C, u \in Thread
  <2>1. x \in S[t].counts /\ x \notin S[t].goesAway
    BY <1>33, <1>30
  <2>2. CASE u = t
    BY <2>2, <1>30
  <2>3. CASE u # t
    BY <2>1, <2>3, NotTaken
  <2> QED BY <2>2, <2>3
<1> HIDE DEF d, a
<1>5. /\ S[t].maps = {d, q}
      /\ nd2 = WithChild(WithChild(nd, q, b, n), d, a, NULL)
  BY DEF d, a, BeforeTransfer, WithChild, WithMoved
<1>21. nd[d].map_writer = t /\ nd[q].map_writer = t /\ q \in LiveIn(nd)
  BY <1>1, <1>4, <1>5, <1>32 DEF Global, Maps, Memory
<1>22. ~(d = q /\ a = b)
  BY <1>4, <1>1, <1>30
<1>27. PICK nd1 : nd1 = WithChild(nd, q, b, n)
  OBVIOUS
<1>23. nd2 = WithChild(nd1, d, a, NULL)
  BY <1>5, <1>27
<1>24. /\ nd1 \in [NodeId -> NodeType] /\ SameButChildren(nd, nd1)
       /\ \A e \in NodeId, c \in Name :
            nd1[e].children[c] = IF e = q /\ c = b THEN n ELSE nd[e].children[c]
  <2>1. n \in NodeId \cup {NULL}
    BY <1>1
  <2> QED BY ONLY <2>1, <1>1, <1>27, <1>32, SetChild
<1>25. /\ nd2 \in [NodeId -> NodeType] /\ SameButChildren(nd1, nd2)
       /\ \A e \in NodeId, c \in Name :
            nd2[e].children[c] = IF e = d /\ c = a THEN NULL ELSE nd1[e].children[c]
  <2>1. NULL \in NodeId \cup {NULL}
    OBVIOUS
  <2>2. nd1 \in [NodeId -> NodeType] /\ d \in NodeId /\ a \in Name
    BY <1>4, <1>24
  <2> QED BY ONLY <2>1, <2>2, <1>23, SetChild
<1>7. \A e \in NodeId, c \in Name :
        nd2[e].children[c] = IF e = d /\ c = a THEN NULL
                             ELSE IF e = q /\ c = b THEN n ELSE nd[e].children[c]
  BY ONLY <1>24, <1>25
<1>8. SameButChildren(nd, nd2)
  BY ONLY <1>1, <1>24, <1>25, SameButTwice
<1>9. /\ SameCounts(nd, nd2) /\ SameFlags(nd, nd2) /\ SameMaps(nd, nd2) /\ LiveIn(nd2) = LiveIn(nd)
      /\ \A x \in NodeId : nd2[x].parent = nd[x].parent /\ nd2[x].name = nd[x].name
                           /\ nd2[x].memory = nd[x].memory
  BY ONLY <1>1, <1>8, ChildrenOnly
<1>10. Maps(nd2, S2)
  BY <1>1, <1>9, MapsStable DEF Global, Transferred
<1>11. \A u \in Thread : u # t => S2[u] = S[u]
  BY DEF Others
<1>31. /\ S2[t].removes = {} /\ S2[t].unlinks = {} /\ S2[t].moves = {n}
       /\ S2[t].place = <<q, b>> /\ S2[t].maps = {d, q} /\ SameUse(S[t], S2[t])
       /\ S2[t].pending = S[t].pending
  BY <1>5 DEF Transferred, BeforeTransfer
<1>12. Takers(S2)
  BY <1>1, <1>2, <1>11, <1>31 DEF Global, Takers
<1>13. Shape(nd2, S2)
  <2>0. Shape(nd, S) /\ Root \in NodeId
    BY <1>1, TreeAssumption DEF Global
  <2>1. /\ nd2[Root].parent = NULL /\ Root \in LiveIn(nd2)
        /\ \A x \in LiveIn(nd2) \ {Root} : nd2[x].parent \in NodeId /\ nd2[x].name \in Name
        /\ \A x \in NodeId : nd2[x].parent # NULL => nd2[nd2[x].parent].memory # "unused"
    <3>1. \A x \in NodeId : nd[x].parent \in NodeId \cup {NULL}
      BY <1>1 DEF NodeType
    <3> QED BY ONLY <2>0, <3>1, <1>9 DEF Shape, LiveIn
  <2>2. ASSUME NEW e \in NodeId, NEW c \in Name, nd2[e].children[c] # NULL
        PROVE  LET x == nd2[e].children[c] IN
               /\ e \in LiveIn(nd2) /\ x \in LiveIn(nd2) \ {Root}
               /\ \A u \in Thread : x \notin S2[u].removes /\ (x \in S2[u].moves => S2[u].place = <<e, c>>)
               /\ (\A u \in Thread : x \notin S2[u].moves) => e = nd2[x].parent /\ c = nd2[x].name
    <3>0. CASE e = q /\ c = b
      <4>1. nd2[e].children[c] = n
        BY <3>0, <1>32, <1>7, <1>22
      <4>2. \A u \in Thread : n \notin S2[u].removes /\ (n \in S2[u].moves => u = t)
        BY <1>2, <1>11, <1>31
      <4> QED BY <4>1, <4>2, <3>0, <1>1, <1>9, <1>21, <1>31
    <3>4. CASE ~(e = q /\ c = b)
      <4> DEFINE x == nd[e].children[c]
      <4>1. nd2[e].children[c] = x /\ x # NULL /\ x # n
        BY ONLY <2>2, <3>4, <1>4, <1>7
      <4>2. /\ e \in LiveIn(nd) /\ x \in LiveIn(nd) \ {Root}
            /\ \A u \in Thread : x \notin S[u].removes /\ (x \in S[u].moves => S[u].place = <<e, c>>)
            /\ (\A u \in Thread : x \notin S[u].moves) => e = nd[x].parent /\ c = nd[x].name
        BY <4>1, <2>0 DEF Shape
      <4>3. x \in NodeId
        BY <4>2 DEF LiveIn
      <4> HIDE DEF x
      <4> QED BY <4>1, <4>2, <4>3, <1>9, <1>11, <1>30, <1>31
    <3> QED BY <3>0, <3>4
  <2>3. ASSUME NEW x \in LiveIn(nd2) \ {Root},
               \A u \in Thread : x \notin S2[u].moves \cup S2[u].removes
        PROVE  nd2[nd2[x].parent].children[nd2[x].name] = x
    <3>1. x # n
      BY <2>3, <1>31
    <3>2. x \in LiveIn(nd) \ {Root} /\ x \in NodeId /\ nd[x].parent \in NodeId /\ nd[x].name \in Name
          /\ x # NULL
      BY <1>9, <2>0, TreeAssumption DEF Shape, LiveIn
    <3>3. \A u \in Thread : x \notin S[u].moves \cup S[u].removes
      BY <1>11, <2>3, <1>30
    <3>4. nd[nd[x].parent].children[nd[x].name] = x
      BY <3>2, <3>3, <2>0 DEF Shape
    <3>5. ~(nd[x].parent = d /\ nd[x].name = a) /\ ~(nd[x].parent = q /\ nd[x].name = b)
      BY <3>1, <3>2, <3>4, <1>4, <1>1, <1>30
    <3> QED BY ONLY <3>2, <3>4, <3>5, <1>7, <1>9
  <2> QED BY <2>1, <2>2, <2>3 DEF Shape
<1>14. Transfers(nd2, S2)
  <2>0. Transfers(nd, S) /\ Maps(nd, S)
    BY <1>1 DEF Global
  <2>1. ASSUME NEW u \in Thread, NEW x \in S2[u].moves
        PROVE  /\ S2[u].place[1] \in S2[u].maps /\ S2[u].place[2] \in Name
               /\ nd2[S2[u].place[1]].children[S2[u].place[2]] = x
    <3>0. CASE u = t
      <4>1. x = n /\ S2[u].place[1] = q /\ S2[u].place[2] = b /\ q \in S2[u].maps
        BY <3>0, <2>1, <1>31
      <4>2. nd2[q].children[b] = n
        BY <1>32, <1>7, <1>22
      <4> QED BY <4>1, <4>2, <1>32
    <3>9. CASE u # t
      <4>1. S2[u] = S[u]
        BY <3>9, <1>11
      <4>2. /\ S[u].place[1] \in S[u].maps /\ S[u].place[2] \in Name
            /\ nd[S[u].place[1]].children[S[u].place[2]] = x
        BY <4>1, <2>0, <2>1 DEF Transfers
      <4>3. S[u].place[1] \in NodeId
        BY <4>2, <1>1 DEF Typed
      <4>4. nd[S[u].place[1]].map_writer = u
        BY <4>2, <4>3, <2>0 DEF Maps
      <4>5. S[u].place[1] # d /\ S[u].place[1] # q
        BY <4>4, <1>21, <3>9
      <4> QED BY <4>1, <4>2, <4>3, <4>5, <1>7
    <3> QED BY <3>0, <3>9
  <2>2. ASSUME NEW u \in Thread, NEW x \in S2[u].unlinks
        PROVE  nd2[x].map_writer = NULL /\ Names(nd2[x]) = {}
    <3>1. x \in S[u].unlinks /\ x \in NodeId
      BY <1>1, <1>11, <1>31, <2>2 DEF Typed
    <3>2. nd[x].map_writer = NULL /\ Names(nd[x]) = {}
      BY <3>1, <2>0 DEF Transfers
    <3>3. x # q
      BY <3>2, <1>21, TreeAssumption
    <3> QED BY <3>1, <3>2, <3>3, <1>7, <1>9 DEF SameMaps, Names
  <2> QED BY <2>1, <2>2 DEF Transfers
<1>15. Memory(nd2, S2)
  <2>1. S2[t].maps \cup S2[t].moves \cup S2[t].removes \subseteq LiveIn(nd)
    BY <1>1, <1>4, <1>21, <1>31, <1>32 DEF Global, Memory
  <2> QED BY <1>1, <1>9, <1>31, <2>1, MemoryKept DEF Global
<1> DEFINE e == Sunk(dp, C, dp[q] + 1)
<1>26. /\ e \in [NodeId -> Nat] /\ \E top \in Nat : \A x \in NodeId : e[x] <= top
       /\ \A f \in NodeId, c \in Name : nd[f].children[c] # NULL => e[f] < e[nd[f].children[c]]
       /\ \A u \in Thread : \A x \in NodeId :
            (x \in S[u].counts \/ x = S[u].pending) /\ nd[x].parent # NULL
              => e[nd[x].parent] < e[x]
       /\ \A x \in NodeId \ C : e[q] < e[x]
  <2>1. C \in SUBSET NodeId /\ q \in C
    BY <1>1, <1>33 DEF Typed
  <2>2. \A x \in C : nd[x].parent \in C \cup {NULL}
    BY DEF BeforeTransfer
  <2> QED BY <2>1, <2>2, <1>20, SunkDepths
<1> HIDE DEF e
<1>16. Depths(nd2, S2, e)
  <2>1. \A u \in Thread : S2[u] = S[u] \/ u = t
    BY <1>11
  <2>2. \A u \in Thread : \A x \in NodeId :
          (x \in S2[u].counts \/ x = S2[u].pending) /\ nd2[x].parent # NULL
             => e[nd2[x].parent] < e[x]
    BY ONLY <1>26, <1>9, <2>1, <1>31 DEF SameUse
  <2>3. ASSUME NEW f \in NodeId, NEW c \in Name, nd2[f].children[c] # NULL
        PROVE  e[f] < e[nd2[f].children[c]]
    <3>1. n \in NodeId \ C
      BY <1>1, <1>33
    <3>2. nd2[f].children[c] = nd[f].children[c] \/ (f = q /\ nd2[f].children[c] = n)
      BY ONLY <1>7, <2>3
    <3> QED BY <3>1, <3>2, <2>3, <1>26
  <2> QED BY <1>26, <2>2, <2>3 DEF Depths
<1>17. Global(nd2, S2, e)
  BY <1>9, <1>10, <1>12, <1>13, <1>14, <1>15, <1>16, GHeld DEF Transferred
<1> QED BY <1>25, <1>9, <1>17 DEF e

-----------------------------------------------------------------------------
(* tree_create inserts a folder.                                           *)

\* Nobody has anything to do with a folder.
Absent(s, n) ==
  /\ n \notin s.reads \cup s.writes \cup s.counts \cup s.asReader \cup s.asWriter
  /\ n \notin s.maps \cup s.moveLock \cup s.flags \cup s.owns \cup s.acquires \cup s.moves
  /\ n # s.pending

LEMMA AbsentUnlessLive ==
  ASSUME NEW nd, NEW S, NEW dp, Good(nd, S, dp), NEW n \in NodeId, n \notin LiveIn(nd),
         NEW u \in Thread, One(S[u])
  PROVE  Absent(S[u], n) /\ n \notin S[u].removes
<1>1. /\ S[u].counts \cup S[u].reads \cup S[u].writes \cup S[u].maps
           \cup S[u].moves \cup S[u].removes \subseteq LiveIn(nd)
      /\ S[u].pending # NULL => S[u].pending \in LiveIn(nd)
  BY DEF Good, Global, Memory
<1>2. n # NULL
  BY TreeAssumption
<1> QED BY <1>1, <1>2 DEF One, Absent

\* The counters of such a folder.
Blank(m) ==
  /\ m.readers_inside = 0 /\ m.writers_inside = 0 /\ m.readers_waiting = 0
  /\ m.writers_waiting = 0 /\ m.subtree_threads = 0 /\ m.safe_hmap_get_count = 0
  /\ m.readers = {} /\ m.writers = {} /\ m.private_access = {}
  /\ m.map_writer = NULL /\ m.move_map_writers_access = NULL /\ m.emergency_pass = FALSE

LEMMA BlankCounters ==
  ASSUME NEW S, NEW n, NEW m, Blank(m),
         \A u \in Thread : /\ n \notin S[u].reads \cup S[u].writes \cup S[u].counts
                          /\ n \notin S[u].asReader \cup S[u].asWriter /\ n # S[u].pending
  PROVE  CountersOf(m, n, S) /\ SleepersOf(m, n, S)
<1>1. /\ {u \in Thread : n \in S[u].reads} = {} /\ {u \in Thread : n \in S[u].writes} = {}
      /\ {u \in Thread : n \in S[u].counts} = {} /\ {u \in Thread : n = S[u].pending} = {}
      /\ {u \in Thread : n \in S[u].asReader} = {} /\ {u \in Thread : n \in S[u].asWriter} = {}
  OBVIOUS
<1>2. Cardinality({}) = 0
  BY FS_EmptySet
<1>3. /\ Cardinality({u \in Thread : n \in S[u].reads}) = 0
      /\ Cardinality({u \in Thread : n \in S[u].writes}) = 0
      /\ Cardinality({u \in Thread : n \in S[u].counts}) = 0
      /\ Cardinality({u \in Thread : n = S[u].pending}) = 0
      /\ Cardinality({u \in Thread : n \in S[u].asReader}) = 0
      /\ Cardinality({u \in Thread : n \in S[u].asWriter}) = 0
  BY ONLY <1>1, <1>2
<1>4. CountersOf(m, n, S)
  BY <1>3 DEF CountersOf, Blank
<1> QED BY <1>4 DEF SleepersOf, Blank

LEMMA OthersKept ==
  ASSUME NEW nd, NEW nd2, NEW S, NEW S2, NEW t \in Thread, Others(S, S2, t),
         nd \in [NodeId -> NodeType], NEW n \in NodeId, Counters(nd, S), Sleepers(nd, S),
         SameUse(S[t], S2[t]), SameSleep(S[t], S2[t]), S2[t].pending = S[t].pending,
         \A u \in Thread : Absent(S[u], n), Blank(nd2[n]), NEW nd1,
         SameCounts(nd, nd1), \A x \in NodeId \ {n} : nd2[x] = nd1[x]
  PROVE  Counters(nd2, S2) /\ Sleepers(nd2, S2)
<1>1. Counters(nd1, S2) /\ Sleepers(nd1, S2)
  BY CountsKept
<1>2. \A u \in Thread : /\ n \notin S2[u].reads \cup S2[u].writes \cup S2[u].counts
                        /\ n \notin S2[u].asReader \cup S2[u].asWriter /\ n # S2[u].pending
  BY DEF Absent, Others, SameUse, SameSleep
<1>3. CountersOf(nd2[n], n, S2) /\ SleepersOf(nd2[n], n, S2)
  BY <1>2, BlankCounters
<1>4. ASSUME NEW x \in NodeId PROVE CountersOf(nd2[x], x, S2) /\ SleepersOf(nd2[x], x, S2)
  <2>1. CASE x = n
    BY <2>1, <1>3
  <2>2. CASE x # n
    BY <2>2, <1>1 DEF Counters, Sleepers
  <2> QED BY <2>1, <2>2
<1> QED BY <1>4 DEF Counters, Sleepers

\* What a thread has that stays with it while it creates a folder.
Stays(nd, s, s2) ==
  /\ SameUse(s, s2) /\ SameSleep(s, s2) /\ SameHeld(s, s2)
  /\ s2.pending = s.pending /\ s2.unlinks = s.unlinks /\ KeepsPrivacy(nd, s, s2)

Creating(nd, s, d, a, n) ==
  /\ d \in s.counts /\ a \in Name /\ n \in NodeId /\ nd[n].memory = "unused"
  /\ nd[d].children[a] = NULL
  /\ s.goesAway = {} /\ s.unlinks = {} /\ s.moves = {} /\ s.removes = {}

\* hmap_insert of tree_create.
LEMMA GCreate ==
  ASSUME NEW nd, NEW nd2, NEW S, NEW S2, NEW t \in Thread, NEW dp, NEW d, NEW a, NEW n,
         Good(nd, S, dp), \A u \in Thread : One(S[u]), Others(S, S2, t),
         Creating(nd, S[t], d, a, n), Stays(nd, S[t], S2[t]),
         nd2 = [nd EXCEPT ![d].children[a] = n, ![n] = node_new(d, a)]
  PROVE  /\ Global(nd2, S2, [dp EXCEPT ![n] = dp[d] + 1]) /\ nd2 \in [NodeId -> NodeType]
         /\ \A x \in LiveIn(nd) : nd2[x].parent = nd[x].parent /\ nd2[x].name = nd[x].name
<1>1. /\ nd \in [NodeId -> NodeType] /\ Global(nd, S, dp) /\ \A u \in Thread : Typed(S[u])
  BY DEF Good
<1>2. /\ d \in LiveIn(nd) /\ d \in NodeId /\ a \in Name /\ n \in NodeId /\ n \notin LiveIn(nd) /\ d # n
      /\ n # NULL
  BY <1>1, TreeAssumption DEF Creating, Global, Memory, LiveIn
<1>3. \A u \in Thread : Absent(S[u], n) /\ n \notin S[u].removes
  BY <1>2, AbsentUnlessLive
<1>4. \A u \in Thread : d \notin S[u].unlinks
  <2> TAKE u \in Thread
  <2>1. d \in S[t].counts /\ d \notin S[t].goesAway /\ S[t].unlinks = {}
    BY DEF Creating
  <2> QED BY <2>1, NotTaken
<1>5. PICK nd1 : nd1 = WithChild(nd, d, a, n)
  OBVIOUS
<1>6. /\ nd1 \in [NodeId -> NodeType] /\ SameButChildren(nd, nd1)
      /\ \A e \in NodeId, b \in Name :
           nd1[e].children[b] = IF e = d /\ b = a THEN n ELSE nd[e].children[b]
  <2>1. n \in NodeId \cup {NULL}
    BY <1>2
  <2> QED BY ONLY <2>1, <1>1, <1>2, <1>5, SetChild
<1>7. /\ SameCounts(nd, nd1) /\ SameFlags(nd, nd1) /\ SameMaps(nd, nd1) /\ LiveIn(nd1) = LiveIn(nd)
      /\ \A x \in NodeId : nd1[x].parent = nd[x].parent /\ nd1[x].name = nd[x].name
                           /\ nd1[x].memory = nd[x].memory
  BY ONLY <1>1, <1>6, ChildrenOnly
<1>8. nd2 = [nd1 EXCEPT ![n] = node_new(d, a)]
  BY <1>5 DEF WithChild
<1>9. node_new(d, a) \in NodeType
  <2>1. {} \in ThreadSets /\ [b \in Name |-> NULL] \in [Name -> NodeId \cup {NULL}]
    BY DEF ThreadSets
  <2> QED BY <2>1, <1>2 DEF node_new, NodeType
<1>10. nd2 \in [NodeId -> NodeType] /\ nd2[n] = node_new(d, a)
       /\ \A x \in NodeId \ {n} : nd2[x] = nd1[x]
  BY ONLY <1>2, <1>6, <1>8, <1>9
<1>11. /\ nd2[n].parent = d /\ nd2[n].name = a /\ nd2[n].memory = "live"
       /\ \A b \in Name : nd2[n].children[b] = NULL
       /\ Blank(nd2[n])
  BY <1>10 DEF node_new, Blank
<1>12. \A e \in NodeId, b \in Name :
         nd2[e].children[b] = IF e = n THEN NULL ELSE IF e = d /\ b = a THEN n ELSE nd[e].children[b]
  BY ONLY <1>2, <1>6, <1>10, <1>11
<1>13. \A x \in NodeId \ {n} :
         /\ nd2[x].parent = nd[x].parent /\ nd2[x].name = nd[x].name /\ nd2[x].memory = nd[x].memory
         /\ nd2[x].map_writer = nd[x].map_writer /\ nd2[x].emergency_pass = nd[x].emergency_pass
         /\ nd2[x].move_map_writers_access = nd[x].move_map_writers_access
  BY ONLY <1>7, <1>10 DEF SameMaps, SameFlags
<1>14. LiveIn(nd2) = LiveIn(nd) \cup {n}
  BY ONLY <1>2, <1>11, <1>13 DEF LiveIn
<1>15. \A u \in Thread : S2[u] = S[u] \/ (u = t /\ Stays(nd, S[u], S2[u]))
  BY DEF Others
<1>16. \A u \in Thread :
         /\ SameUse(S[u], S2[u]) /\ S2[u].pending = S[u].pending /\ S2[u].maps = S[u].maps
         /\ S2[u].moveLock = S[u].moveLock /\ S2[u].flags = S[u].flags
         /\ S2[u].vacates = S[u].vacates /\ SameTaking(S[u], S2[u]) /\ S2[u].unlinks = S[u].unlinks
  BY ONLY <1>15 DEF Stays, SameHeld, SameUse, SameTaking
<1>20. Counters(nd2, S2) /\ Sleepers(nd2, S2)
  <2>1. Counters(nd, S) /\ Sleepers(nd, S) /\ nd \in [NodeId -> NodeType]
    BY <1>1 DEF Global
  <2>2. SameUse(S[t], S2[t]) /\ SameSleep(S[t], S2[t]) /\ S2[t].pending = S[t].pending
    BY DEF Stays
  <2>3. Others(S, S2, t) /\ t \in Thread /\ n \in NodeId
    BY <1>2
  <2>4. \A u \in Thread : Absent(S[u], n)
    BY <1>3
  <2>5. Blank(nd2[n]) /\ SameCounts(nd, nd1) /\ \A x \in NodeId \ {n} : nd2[x] = nd1[x]
    BY <1>7, <1>10, <1>11
  <2> QED BY ONLY <2>1, <2>2, <2>3, <2>4, <2>5, OthersKept
<1>21. Maps(nd2, S2)
  <2> SUFFICES ASSUME NEW x \in NodeId, NEW u \in Thread
               PROVE  /\ nd2[x].map_writer = u <=> x \in S2[u].maps
                      /\ nd2[x].move_map_writers_access = u <=> x \in S2[u].moveLock
    BY DEF Maps
  <2>1. CASE x = n
    <3>1. n \notin S2[u].maps /\ n \notin S2[u].moveLock
      BY <1>3, <1>16 DEF Absent
    <3>2. nd2[n].map_writer = NULL /\ nd2[n].move_map_writers_access = NULL /\ u # NULL
      BY <1>11, TreeAssumption DEF Blank
    <3> QED BY ONLY <3>1, <3>2, <2>1
  <2>2. CASE x # n
    BY <2>2, <1>1, <1>13, <1>16 DEF Global, Maps
  <2> QED BY <2>1, <2>2
<1>22. Exclusion(nd2, S2)
  <2>1. \A x \in NodeId, u \in Thread : x \in S2[u].writes \cup S2[u].reads => x # n
    BY <1>3, <1>16 DEF SameUse, Absent
  <2>2. Exclusion(nd, S)
    BY <1>1 DEF Global
  <2> QED BY ONLY <2>1, <2>2, <1>13, <1>16 DEF Exclusion, SameUse
<1>23. Emergency(nd2, S2)
  <2>1. Emergency(nd, S)
    BY <1>1 DEF Global
  <2>2. \A u \in Thread : n \notin S2[u].flags
    BY <1>3, <1>16 DEF Absent
  <2>3. nd2[n].emergency_pass = FALSE
    BY <1>11 DEF Blank
  <2> QED BY ONLY <2>1, <2>2, <2>3, <1>13, <1>16 DEF Emergency
<1>24. Privacy(nd2, S2)
  <2>1. Privacy(nd, S2)
    <3>1. SameFlags(nd, nd) /\ KeepsPrivacy(nd, S[t], S2[t]) /\ Privacy(nd, S)
      BY <1>1 DEF SameFlags, Stays, Global
    <3> QED BY <3>1, <1>16, PrivacyKept DEF SameUse
  <2>2. \A u \in Thread : n \notin S2[u].counts \cup S2[u].reads \cup S2[u].writes
    BY <1>3, <1>16 DEF SameUse, Absent
  <2>3. \A x \in NodeId \ {n} : nd2[x].emergency_pass = nd[x].emergency_pass
    BY <1>13
  <2> QED BY ONLY <2>1, <2>2, <2>3 DEF Privacy, OwnedBy
<1>25. Vacant(S2) /\ Takers(S2)
  BY <1>1, <1>16 DEF Global, Vacant, Takers, SameUse, SameTaking
<1>26. Shape(nd2, S2)
  <2>0. Shape(nd, S) /\ Root \in NodeId /\ Root # n
    BY <1>1, <1>2, TreeAssumption DEF Global, Shape
  <2>1. /\ nd2[Root].parent = NULL /\ Root \in LiveIn(nd2)
        /\ \A x \in LiveIn(nd2) \ {Root} : nd2[x].parent \in NodeId /\ nd2[x].name \in Name
        /\ \A x \in NodeId : nd2[x].parent # NULL => nd2[nd2[x].parent].memory # "unused"
    <3>1. \A x \in NodeId : nd[x].parent \in NodeId \cup {NULL}
      BY <1>1 DEF NodeType
    <3>2. /\ nd2[Root].parent = NULL /\ Root \in LiveIn(nd2)
      BY <2>0, <1>13, <1>14 DEF Shape
    <3>3. ASSUME NEW x \in LiveIn(nd2) \ {Root} PROVE nd2[x].parent \in NodeId /\ nd2[x].name \in Name
      <4>1. CASE x = n
        BY <4>1, <1>2, <1>11
      <4>2. CASE x # n
        BY <4>2, <3>3, <2>0, <1>13, <1>14 DEF Shape, LiveIn
      <4> QED BY <4>1, <4>2
    <3>4. ASSUME NEW x \in NodeId, nd2[x].parent # NULL PROVE nd2[nd2[x].parent].memory # "unused"
      <4>1. CASE x = n
        <5>1. nd2[x].parent = d /\ d \in NodeId \ {n} /\ nd[d].memory = "live"
          BY <4>1, <1>2, <1>11 DEF LiveIn
        <5> QED BY ONLY <5>1, <1>13
      <4>2. CASE x # n
        <5>1. nd2[x].parent = nd[x].parent /\ nd[x].parent \in NodeId /\ nd[nd[x].parent].memory # "unused"
          BY <4>2, <3>1, <3>4, <2>0, <1>13 DEF Shape
        <5> QED BY <5>1, <1>11, <1>13
      <4> QED BY <4>1, <4>2
    <3> QED BY <3>2, <3>3, <3>4
  <2>2. ASSUME NEW e \in NodeId, NEW c \in Name, nd2[e].children[c] # NULL
        PROVE  LET x == nd2[e].children[c] IN
               /\ e \in LiveIn(nd2) /\ x \in LiveIn(nd2) \ {Root}
               /\ \A u \in Thread : x \notin S2[u].removes /\ (x \in S2[u].moves => S2[u].place = <<e, c>>)
               /\ (\A u \in Thread : x \notin S2[u].moves) => e = nd2[x].parent /\ c = nd2[x].name
    <3>0. CASE e = d /\ c = a
      <4>1. nd2[e].children[c] = n
        BY <3>0, <1>2, <1>12
      <4>2. \A u \in Thread : n \notin S2[u].removes /\ n \notin S2[u].moves
        BY <1>3, <1>16 DEF SameTaking, Absent
      <4>3. n \in LiveIn(nd2) \ {Root} /\ d \in LiveIn(nd2)
        BY <1>2, <1>14, <2>0
      <4> QED BY <4>1, <4>2, <4>3, <3>0, <1>11
    <3>4. CASE ~(e = d /\ c = a)
      <4> DEFINE x == nd[e].children[c]
      <4>1. nd2[e].children[c] = x /\ x # NULL
        BY ONLY <2>2, <3>4, <1>12
      <4>2. /\ e \in LiveIn(nd) /\ x \in LiveIn(nd) \ {Root}
            /\ \A u \in Thread : x \notin S[u].removes /\ (x \in S[u].moves => S[u].place = <<e, c>>)
            /\ (\A u \in Thread : x \notin S[u].moves) => e = nd[x].parent /\ c = nd[x].name
        BY <4>1, <2>0 DEF Shape
      <4>3. x \in NodeId \ {n}
        BY <4>2, <1>2 DEF LiveIn
      <4> HIDE DEF x
      <4> QED BY <4>1, <4>2, <4>3, <1>13, <1>14, <1>16 DEF SameTaking
    <3> QED BY <3>0, <3>4
  <2>3. ASSUME NEW x \in LiveIn(nd2) \ {Root},
               \A u \in Thread : x \notin S2[u].moves \cup S2[u].removes
        PROVE  nd2[nd2[x].parent].children[nd2[x].name] = x
    <3>1. CASE x = n
      <4>1. nd2[x].parent = d /\ nd2[x].name = a /\ nd2[d].children[a] = n
        BY <3>1, <1>2, <1>11, <1>12
      <4> QED BY ONLY <4>1, <3>1
    <3>2. CASE x # n
      <4>1. x \in LiveIn(nd) \ {Root} /\ x \in NodeId \ {n} /\ nd[x].parent \in NodeId /\ nd[x].name \in Name
            /\ x # NULL
        BY <3>2, <1>14, <2>0, TreeAssumption DEF Shape, LiveIn
      <4>2. \A u \in Thread : x \notin S[u].moves \cup S[u].removes
        BY <1>16, <2>3 DEF SameTaking
      <4>3. nd[nd[x].parent].children[nd[x].name] = x
        BY <4>1, <4>2, <2>0 DEF Shape
      <4>4. nd[x].parent \in LiveIn(nd)
        BY <4>1, <4>3, <2>0 DEF Shape
      <4>5. nd[x].parent # n /\ ~(nd[x].parent = d /\ nd[x].name = a)
        <5>1. nd[d].children[a] = NULL
          BY DEF Creating
        <5>2. nd[x].parent # n
          BY ONLY <4>4, <1>2
        <5>3. ASSUME nd[x].parent = d, nd[x].name = a PROVE FALSE
          BY ONLY <5>1, <5>3, <4>1, <4>3
        <5> QED BY <5>2, <5>3
      <4>6. nd2[x].parent = nd[x].parent /\ nd2[x].name = nd[x].name
        BY ONLY <4>1, <1>13
      <4>7. nd2[nd[x].parent].children[nd[x].name] = nd[nd[x].parent].children[nd[x].name]
        BY ONLY <4>1, <4>5, <1>12
      <4> QED BY ONLY <4>3, <4>6, <4>7
    <3> QED BY <3>1, <3>2
  <2> QED BY <2>1, <2>2, <2>3 DEF Shape
<1>27. Transfers(nd2, S2)
  <2>0. Transfers(nd, S)
    BY <1>1 DEF Global
  <2>1. ASSUME NEW u \in Thread, NEW x \in S2[u].moves
        PROVE  /\ S2[u].place[1] \in S2[u].maps /\ S2[u].place[2] \in Name
               /\ nd2[S2[u].place[1]].children[S2[u].place[2]] = x
    <3>1. x \in S[u].moves /\ S2[u].place = S[u].place /\ S2[u].maps = S[u].maps
      BY <2>1, <1>16 DEF SameTaking
    <3>2. /\ S[u].place[1] \in S[u].maps /\ S[u].place[2] \in Name
          /\ nd[S[u].place[1]].children[S[u].place[2]] = x
      BY <3>1, <2>0 DEF Transfers
    <3>3. S[u].place[1] \in NodeId /\ S[u].place[1] # n /\ x # NULL
      BY <3>1, <3>2, <1>1, <1>3, TreeAssumption DEF Typed, Absent
    <3>4. ~(S[u].place[1] = d /\ S[u].place[2] = a)
      BY <3>2, <3>3 DEF Creating
    <3> QED BY ONLY <3>1, <3>2, <3>3, <3>4, <1>12
  <2>2. ASSUME NEW u \in Thread, NEW x \in S2[u].unlinks
        PROVE  nd2[x].map_writer = NULL /\ Names(nd2[x]) = {}
    <3>1. x \in S[u].unlinks /\ x \in NodeId /\ x # d
      BY <1>1, <1>4, <1>16, <2>2 DEF Typed
    <3>2. nd[x].map_writer = NULL /\ Names(nd[x]) = {}
      BY <3>1, <2>0 DEF Transfers
    <3>3. CASE x = n
      BY <3>3, <1>11 DEF Blank, Names
    <3>4. CASE x # n
      BY <3>1, <3>2, <3>4, <1>12, <1>13 DEF Names
    <3> QED BY <3>3, <3>4
  <2> QED BY <2>1, <2>2 DEF Transfers
<1>28. Memory(nd2, S2)
  <2>1. LiveIn(nd) \subseteq LiveIn(nd2)
    BY <1>14
  <2>2. SameUse(S[t], S2[t]) /\ S2[t].pending = S[t].pending /\ Memory(nd, S) /\ Others(S, S2, t)
    BY <1>1 DEF Stays, Global
  <2>3. S2[t].maps \cup S2[t].moves \cup S2[t].removes \subseteq LiveIn(nd)
    BY <2>2, <1>16 DEF Memory, SameTaking
  <2> QED BY ONLY <2>1, <2>2, <2>3, t \in Thread, MemoryKept
<1> DEFINE e == [dp EXCEPT ![n] = dp[d] + 1]
<1>29. Depths(nd2, S2, e)
  <2>1. Depths(nd, S, dp) /\ dp \in [NodeId -> Nat] /\ Shape(nd, S)
    BY <1>1 DEF Global, Depths
  <2>2. /\ e \in [NodeId -> Nat] /\ e[n] = dp[d] + 1 /\ e[d] = dp[d]
        /\ \A x \in NodeId \ {n} : e[x] = dp[x]
    BY <1>2, <2>1
  <2> HIDE DEF e
  <2>3. \E top \in Nat : \A x \in NodeId : e[x] <= top
    <3>1. PICK top \in Nat : \A x \in NodeId : dp[x] <= top
      BY <2>1 DEF Depths
    <3>2. ASSUME NEW x \in NodeId PROVE e[x] <= top + 1
      <4>1. dp[d] <= top /\ dp[d] \in Nat /\ dp[x] <= top /\ dp[x] \in Nat
        BY <3>1, <2>1, <1>2
      <4>2. CASE x = n
        BY <4>1, <4>2, <2>2
      <4>3. CASE x # n
        <5>1. e[x] = dp[x]
          BY <4>3, <2>2
        <5> QED BY <5>1, <4>1
      <4> QED BY <4>2, <4>3
    <3>3. top + 1 \in Nat
      OBVIOUS
    <3> QED BY <3>2, <3>3
  <2>4. ASSUME NEW f \in NodeId, NEW c \in Name, nd2[f].children[c] # NULL
        PROVE  e[f] < e[nd2[f].children[c]]
    <3>1. CASE f = d /\ c = a
      <4>1. nd2[f].children[c] = n
        BY <3>1, <1>2, <1>12
      <4>2. dp[d] \in Nat
        BY <2>1, <1>2
      <4> QED BY <4>1, <4>2, <3>1, <2>2
    <3>2. CASE ~(f = d /\ c = a)
      <4>1. nd2[f].children[c] = nd[f].children[c] /\ nd[f].children[c] # NULL
        BY ONLY <2>4, <3>2, <1>12
      <4>2. f \in LiveIn(nd) /\ nd[f].children[c] \in LiveIn(nd) /\ dp[f] < dp[nd[f].children[c]]
        BY <4>1, <2>1 DEF Shape, Depths
      <4>3. f \in NodeId \ {n} /\ nd[f].children[c] \in NodeId \ {n}
        BY <4>2, <1>2 DEF LiveIn
      <4> QED BY <4>1, <4>2, <4>3, <2>2
    <3> QED BY <3>1, <3>2
  <2>5. ASSUME NEW u \in Thread, NEW x \in NodeId, x \in S2[u].counts \/ x = S2[u].pending,
               nd2[x].parent # NULL
        PROVE  e[nd2[x].parent] < e[x]
    <3>1. (x \in S[u].counts \/ x = S[u].pending) /\ x \in NodeId \ {n}
      BY <2>5, <1>3, <1>16 DEF SameUse, Absent
    <3>2. nd2[x].parent = nd[x].parent
      BY <3>1, <1>13
    <3>3. nd[x].parent \in NodeId
      BY <2>5, <3>2, <1>1 DEF NodeType
    <3>4. dp[nd[x].parent] < dp[x]
      BY <3>1, <3>2, <2>1, <2>5 DEF Depths
    <3>5. nd[x].parent # n
      BY <2>5, <3>2, <2>1 DEF Creating, Shape
    <3> QED BY <3>1, <3>2, <3>3, <3>4, <3>5, <2>2
  <2> QED BY <2>2, <2>3, <2>4, <2>5 DEF Depths
<1> HIDE DEF e
<1>30. Global(nd2, S2, e)
  BY ONLY <1>20, <1>21, <1>22, <1>23, <1>24, <1>25, <1>26, <1>27, <1>28, <1>29 DEF Global
<1>31. \A x \in LiveIn(nd) : nd2[x].parent = nd[x].parent /\ nd2[x].name = nd[x].name
  BY <1>2, <1>13 DEF LiveIn
<1> QED BY <1>10, <1>30, <1>31 DEF e

-----------------------------------------------------------------------------
(* The emergency flag goes up and down.                                    *)

\* A step that shows in the flags and in what is vacated.
SameRest(nd, s, s2) ==
  /\ SameUse(s, s2) /\ s2.pending = s.pending /\ s2.maps = s.maps /\ s2.moveLock = s.moveLock
  /\ SameTaking(s, s2) /\ s2.unlinks = s.unlinks /\ KeepsPrivacy(nd, s, s2)

\* node_discard_waiting, its first part.
LEMMA GFlagOn ==
  ASSUME NEW nd, NEW nd2, NEW S, NEW S2, NEW t \in Thread, NEW dp, NEW n \in NodeId,
         NEW m2 \in EmergencyOn(nd[n]),
         Good(nd, S, dp), Others(S, S2, t), SameRest(nd, S[t], S2[t]), SameSleep(S[t], S2[t]),
         S2[t].flags = S[t].flags \cup {n}, S2[t].vacates = S[t].vacates,
         nd2 = [nd EXCEPT ![n] = m2]
  PROVE  Global(nd2, S2, dp) /\ nd2 \in [NodeId -> NodeType] /\ SameTree(nd, nd2)
<1>1. /\ nd \in [NodeId -> NodeType] /\ nd[n] \in NodeType /\ Global(nd, S, dp)
      /\ \A u \in Thread : Typed(S[u])
  BY DEF Good
<1>19. PICK m : m = nd[n]
  OBVIOUS
<1>20. m \in NodeType
  BY <1>1, <1>19
<1>21. m2 \in EmergencyOn(m)
  BY <1>19
<1>2. PICK r \in Signal(m.readers), w \in Signal(m.writers), p \in Signal(m.private_access) :
        m2 = Raised(m, r, w, p)
  BY ONLY <1>21, SMT DEF EmergencyOn
<1>22. m2 = [m EXCEPT !.emergency_pass = TRUE, !.readers = r, !.writers = w, !.private_access = p]
  BY ONLY <1>2 DEF Raised
<1>3. /\ r \in ThreadSets /\ w \in ThreadSets /\ p \in ThreadSets
      /\ r \subseteq m.readers /\ w \subseteq m.writers /\ p \subseteq m.private_access
  <2>1. m.readers \in ThreadSets /\ m.writers \in ThreadSets /\ m.private_access \in ThreadSets
    BY <1>20 DEF NodeType
  <2> QED BY <2>1, SignalSubset DEF ThreadSets
<1>4. m2 \in NodeType
  BY <1>20, <1>22, <1>3 DEF NodeType
<1>5. nd2 \in [NodeId -> NodeType] /\ \A x \in NodeId : nd2[x] = IF x = n THEN m2 ELSE nd[x]
  <2>1. nd2 = [nd EXCEPT ![n] = m2] /\ n \in NodeId
    OBVIOUS
  <2> QED BY ONLY <2>1, <1>1, <1>4
<1>6. /\ SameTree(nd, nd2) /\ SameMaps(nd, nd2) /\ SameCounts(nd, nd2)
      /\ \A x \in NodeId : nd2[x].emergency_pass = IF x = n THEN TRUE ELSE nd[x].emergency_pass
  <2>1. /\ m2.parent = m.parent /\ m2.name = m.name /\ m2.memory = m.memory
        /\ m2.children = m.children /\ m2.map_writer = m.map_writer
        /\ m2.move_map_writers_access = m.move_map_writers_access
        /\ m2.emergency_pass = TRUE
        /\ m2.readers_inside = m.readers_inside /\ m2.writers_inside = m.writers_inside
        /\ m2.readers_waiting = m.readers_waiting /\ m2.writers_waiting = m.writers_waiting
        /\ m2.subtree_threads = m.subtree_threads
        /\ m2.safe_hmap_get_count = m.safe_hmap_get_count
        /\ m2.readers = r /\ m2.writers = w /\ m2.private_access = p
    BY ONLY <1>20, <1>22 DEF NodeType
  <2> QED BY ONLY <2>1, <1>3, <1>5, <1>19 DEF SameTree, SameMaps, SameCounts
<1>7. Counters(nd2, S2) /\ Sleepers(nd2, S2)
  BY <1>1, <1>6, CountsKept DEF Global, SameRest
<1>8. Maps(nd2, S2)
  BY <1>1, <1>6, MapsStable DEF Global, SameRest
<1>9. \A u \in Thread : S2[u] = S[u] \/ u = t
  BY DEF Others
<1>10. Exclusion(nd2, S2)
  <2>1. Exclusion(nd, S)
    BY <1>1 DEF Global
  <2>2. \A u \in Thread : S2[u].reads = S[u].reads /\ S2[u].writes = S[u].writes
    BY <1>9 DEF SameRest, SameUse
  <2> QED BY ONLY <2>1, <2>2, <1>6 DEF Exclusion
<1>11. Emergency(nd2, S2)
  <2>1. Emergency(nd, S)
    BY <1>1 DEF Global
  <2>3. ASSUME NEW x \in NodeId
        PROVE  nd2[x].emergency_pass <=> \E u \in Thread : x \in S2[u].flags
    <3>1. CASE x = n
      BY <3>1, <1>6
    <3>2. CASE x # n
      <4>1. \A u \in Thread : x \in S2[u].flags <=> x \in S[u].flags
        BY <3>2, <1>9
      <4> QED BY <4>1, <3>2, <2>1, <1>6 DEF Emergency
    <3> QED BY <3>1, <3>2
  <2> QED BY <2>3 DEF Emergency
<1>12. Privacy(nd2, S2)
  <2>1. Privacy(nd, S2)
    <3>1. SameFlags(nd, nd) /\ KeepsPrivacy(nd, S[t], S2[t]) /\ Privacy(nd, S)
      BY <1>1 DEF SameFlags, SameRest, Global
    <3> QED BY <3>1, PrivacyKept DEF SameUse, SameRest
  <2> QED BY ONLY <2>1, <1>6 DEF Privacy, OwnedBy
<1>13. NoNewUse(S[t], S2[t])
  BY <1>1, TreeAssumption DEF NoNewUse, SameUse, SameRest, Typed
<1>14. Vacant(S2) /\ Takers(S2)
  <2>1. Vacant(S2)
    BY <1>1, <1>13, NoNullVacates, VacantStable DEF Global
  <2>2. Takers(S2)
    BY <1>1, TakersStable DEF Global, SameRest, SameTaking
  <2> QED BY <2>1, <2>2
<1>15. Shape(nd2, S2)
  BY <1>1, <1>6, ShapeStable DEF Global, SameRest
<1>16. Transfers(nd2, S2)
  BY <1>1, <1>6, NoNullVacates, TransfersStable DEF Global, SameRest
<1>17. Memory(nd2, S2)
  BY <1>1, <1>6, <1>13, MemoryStable DEF Global, SameRest, SameTaking
<1>18. Depths(nd2, S2, dp)
  BY <1>1, <1>6, <1>13, DepthsStable DEF Global, NoNewUse
<1> QED BY <1>5, <1>6, <1>7, <1>8, <1>10, <1>11, <1>12, <1>14, <1>15, <1>16, <1>17, <1>18
    DEF Global

\* Nobody refers to the folder any more.
LEMMA GVacate ==
  ASSUME NEW nd, NEW S, NEW S2, NEW t \in Thread, NEW dp, NEW n \in NodeId,
         Good(nd, S, dp), \A u \in Thread : One(S[u]), Others(S, S2, t), SameRest(nd, S[t], S2[t]),
         S2[t].asReader = S[t].asReader, S2[t].asWriter = S[t].asWriter,
         S[t].inPrivate \subseteq {n}, S2[t].inPrivate = {}, t \notin nd[n].private_access,
         S2[t].flags = S[t].flags, S2[t].vacates = S[t].vacates \cup {n},
         n \in S[t].owns, n # Root, ~StillReferenced(nd[n])
  PROVE  Global(nd, S2, dp)
<1>1. /\ nd \in [NodeId -> NodeType] /\ Global(nd, S, dp) /\ \A u \in Thread : Typed(S[u])
  BY DEF Good
<1>2. SameTree(nd, nd) /\ SameMaps(nd, nd) /\ SameFlags(nd, nd)
  BY DEF SameTree, SameMaps, SameFlags
<1>3. n \in S[t].counts
  BY DEF One
<1>4. \A u \in Thread : u # t => n \notin S[u].counts /\ n # S[u].pending
  <2>1. CountersOf(nd[n], n, S)
    BY <1>1 DEF Global, Counters
  <2>2. nd[n].safe_hmap_get_count \in Nat
    BY <1>1 DEF NodeType
  <2>3. nd[n].safe_hmap_get_count <= 1
    BY <2>2 DEF StillReferenced
  <2> QED BY <1>3, <2>1, <2>3, CountersAlone
<1>5. \A u \in Thread : u # t => n \notin S[u].reads \cup S[u].writes
  <2> TAKE u \in Thread
  <2> HAVE u # t
  <2>1. n \in S[u].reads \cup S[u].writes => n \in S[u].passesOn
    BY <1>1 DEF Global, Privacy, OwnedBy
  <2>2. S[u].passesOn \subseteq S[u].counts \cup {S[u].pending}
    BY DEF One
  <2> QED BY <2>1, <2>2, <1>4
<1>6. \A u \in Thread : u # t => S2[u] = S[u]
  BY DEF Others
<1>7. Vacant(S2)
  <2> SUFFICES ASSUME NEW v \in Thread, NEW u \in Thread, v # u, NEW x \in S2[v].vacates
               PROVE  x \notin S2[u].counts \cup S2[u].reads \cup S2[u].writes /\ x # S2[u].pending
    BY DEF Vacant
  <2>1. x \notin S[u].counts \cup S[u].reads \cup S[u].writes /\ x # S[u].pending
    <3>1. CASE x \in S[v].vacates
      BY <3>1, <1>1 DEF Global, Vacant
    <3>2. CASE x \notin S[v].vacates
      BY <3>2, <1>4, <1>5, <1>6
    <3> QED BY <3>1, <3>2
  <2>2. SameUse(S[t], S2[t]) /\ S2[t].pending = S[t].pending
    BY DEF SameRest
  <2> QED BY <2>1, <2>2, <1>6 DEF SameUse
<1>8. NoNewUse(S[t], S2[t])
  BY <1>1, TreeAssumption DEF NoNewUse, SameUse, SameRest, Typed
<1>9. \A x \in NodeId : CountersFollow(nd[x], nd[x], x, S[t], S2[t])
  <2> TAKE x \in NodeId
  <2>1. nd[x] \in NodeType
    BY <1>1
  <2>2. /\ SameUse(S[t], S2[t]) /\ S2[t].pending = S[t].pending
        /\ S2[t].asReader = S[t].asReader /\ S2[t].asWriter = S[t].asWriter
    BY DEF SameRest
  <2> QED BY ONLY <2>1, <2>2 DEF CountersFollow, SameUse, Bit, NodeType
<1>10. \A x \in NodeId : SleepersFollow(nd[x], nd[x], x, t, S2[t])
  <2>1. Sleepers(nd, S)
    BY <1>1 DEF Global
  <2> QED BY <2>1 DEF Sleepers, SleepersOf, SleepersFollow
<1>11. Counters(nd, S2) /\ Sleepers(nd, S2)
  BY <1>1, <1>9, <1>10, CountersStable, SleepersStable DEF Global
<1>12. Maps(nd, S2) /\ Exclusion(nd, S2) /\ Emergency(nd, S2)
  <2>1. Maps(nd, S2)
    BY <1>1, <1>2, MapsStable DEF Global, SameRest
  <2>2. Exclusion(nd, S2)
    BY <1>1, <1>2, ExclusionStable DEF Global, SameRest, SameUse
  <2>3. Emergency(nd, S2)
    BY <1>1, <1>2, EmergencyStable DEF Global
  <2> QED BY <2>1, <2>2, <2>3
<1>13. Privacy(nd, S2) /\ Takers(S2)
  <2>1. Privacy(nd, S2)
    BY <1>1, <1>2, PrivacyKept DEF Global, SameRest, SameUse
  <2>2. Takers(S2)
    BY <1>1, TakersStable DEF Global, SameRest, SameTaking
  <2> QED BY <2>1, <2>2
<1>14. Shape(nd, S2) /\ Transfers(nd, S2)
  <2>1. Shape(nd, S2)
    BY <1>1, <1>2, ShapeStable DEF Global, SameRest
  <2>2. Transfers(nd, S2)
    BY <1>1, <1>2, NoNullVacates, TransfersStable DEF Global, SameRest
  <2> QED BY <2>1, <2>2
<1>15. Memory(nd, S2)
  BY <1>1, <1>2, <1>8, MemoryStable DEF Global, SameRest, SameTaking
<1>16. Depths(nd, S2, dp)
  BY <1>1, <1>2, <1>8, DepthsStable DEF Global, NoNewUse
<1> QED BY <1>7, <1>11, <1>12, <1>13, <1>14, <1>15, <1>16 DEF Global

\* node_discard_waiting, its end: the flag is down again.
LEMMA GFlagOff ==
  ASSUME NEW nd, NEW nd2, NEW S, NEW S2, NEW t \in Thread, NEW dp, NEW n \in NodeId,
         Good(nd, S, dp), \A u \in Thread : One(S[u]), Others(S, S2, t), SameRest(nd, S[t], S2[t]),
         SameSleep(S[t], S2[t]), S[t].flags = {n}, S2[t].flags = {}, S2[t].vacates = S[t].vacates,
         S2[t].owns = {}, S2[t].acquires = {}, n \in S[t].vacates, n \notin S[t].reads,
         nd2 = [nd EXCEPT ![n] = EmergencyOff(nd[n])]
  PROVE  Global(nd2, S2, dp) /\ nd2 \in [NodeId -> NodeType] /\ SameTree(nd, nd2)
<1>1. /\ nd \in [NodeId -> NodeType] /\ nd[n] \in NodeType /\ Global(nd, S, dp)
      /\ \A u \in Thread : Typed(S[u])
  BY DEF Good
<1> DEFINE m2 == EmergencyOff(nd[n])
<1>4. m2 \in NodeType
  BY <1>1 DEF NodeType, EmergencyOff
<1>6. /\ SameTree(nd, nd2) /\ SameMaps(nd, nd2) /\ SameCounts(nd, nd2)
      /\ \A x \in NodeId : nd2[x].emergency_pass = IF x = n THEN FALSE ELSE nd[x].emergency_pass
  <2>1. /\ m2.parent = nd[n].parent /\ m2.name = nd[n].name /\ m2.memory = nd[n].memory
        /\ m2.children = nd[n].children /\ m2.map_writer = nd[n].map_writer
        /\ m2.move_map_writers_access = nd[n].move_map_writers_access
        /\ m2.emergency_pass = FALSE
        /\ m2.readers_inside = nd[n].readers_inside /\ m2.writers_inside = nd[n].writers_inside
        /\ m2.readers_waiting = nd[n].readers_waiting /\ m2.writers_waiting = nd[n].writers_waiting
        /\ m2.subtree_threads = nd[n].subtree_threads
        /\ m2.safe_hmap_get_count = nd[n].safe_hmap_get_count
        /\ m2.readers = nd[n].readers /\ m2.writers = nd[n].writers
        /\ m2.private_access = nd[n].private_access
    BY ONLY <1>1 DEF NodeType, EmergencyOff
  <2>2. \A x \in NodeId : nd2[x] = IF x = n THEN m2 ELSE nd[x]
    BY <1>1
  <2> HIDE DEF m2
  <2> QED BY ONLY <2>1, <2>2 DEF SameTree, SameMaps, SameCounts
<1>5. nd2 \in [NodeId -> NodeType]
  <2> HIDE DEF m2
  <2>1. nd2 = [nd EXCEPT ![n] = m2]
    BY DEF m2
  <2> QED BY ONLY <2>1, <1>1, <1>4
<1> HIDE DEF m2
<1>7. Counters(nd2, S2) /\ Sleepers(nd2, S2)
  BY <1>1, <1>6, CountsKept DEF Global, SameRest
<1>8. Maps(nd2, S2)
  BY <1>1, <1>6, MapsStable DEF Global, SameRest
<1>9. \A u \in Thread : S2[u] = S[u] \/ u = t
  BY DEF Others
<1>20. \A u \in Thread : u # t => n \notin S[u].counts \cup S[u].reads \cup S[u].writes
  BY <1>1 DEF Global, Vacant
<1>21. \A u \in Thread : S2[u].reads = S[u].reads /\ S2[u].writes = S[u].writes /\ S2[u].counts = S[u].counts
  BY <1>9 DEF SameRest, SameUse
<1>10. Exclusion(nd2, S2)
  <2>1. Exclusion(nd, S)
    BY <1>1 DEF Global
  <2> SUFFICES ASSUME NEW x \in NodeId, ~nd2[x].emergency_pass, NEW v \in Thread, NEW u \in Thread,
                      x \in S2[v].writes
               PROVE  x \notin S2[u].reads /\ (v # u => x \notin S2[u].writes)
    BY DEF Exclusion
  <2>2. CASE x = n
    BY <2>2, <1>20, <1>21
  <2>3. CASE x # n
    BY <2>1, <2>3, <1>6, <1>21 DEF Exclusion
  <2> QED BY <2>2, <2>3
<1>11. Emergency(nd2, S2)
  <2>1. Emergency(nd, S) /\ Takers(S)
    BY <1>1 DEF Global
  <2>2. \A u \in Thread : u # t => n \notin S[u].flags
    BY <2>1 DEF One, Takers
  <2>3. ASSUME NEW x \in NodeId
        PROVE  nd2[x].emergency_pass <=> \E u \in Thread : x \in S2[u].flags
    <3>1. CASE x = n
      BY <3>1, <2>2, <1>6, <1>9
    <3>2. CASE x # n
      <4>1. \A u \in Thread : x \in S2[u].flags <=> x \in S[u].flags
        BY <3>2, <1>9
      <4> QED BY <4>1, <3>2, <2>1, <1>6 DEF Emergency
    <3> QED BY <3>1, <3>2
  <2> QED BY <2>3 DEF Emergency
<1>12. Privacy(nd2, S2)
  <2>1. Privacy(nd, S2)
    <3>1. SameFlags(nd, nd) /\ KeepsPrivacy(nd, S[t], S2[t]) /\ Privacy(nd, S)
      BY <1>1 DEF SameFlags, SameRest, Global
    <3> QED BY <3>1, PrivacyKept DEF SameUse, SameRest
  <2>2. \A u \in Thread : n \notin S2[u].owns \cup S2[u].acquires
    BY <1>9, <1>20 DEF One
  <2> SUFFICES ASSUME NEW v \in Thread, NEW u \in Thread, NEW x \in NodeId,
                      v # u, OwnedBy(nd2, S2, v, x)
               PROVE  /\ x \in S2[u].counts => nd2[x].emergency_pass /\ x \in S2[u].goesAway
                      /\ x \in S2[u].reads \cup S2[u].writes
                           => nd2[x].emergency_pass /\ x \in S2[u].passesOn
    BY DEF Privacy
  <2>3. x # n
    BY <2>2 DEF OwnedBy
  <2>4. nd2[x].emergency_pass = nd[x].emergency_pass
    BY <2>3, <1>6
  <2>5. OwnedBy(nd, S2, v, x)
    BY <2>4 DEF OwnedBy
  <2> QED BY <2>1, <2>4, <2>5 DEF Privacy
<1>13. NoNewUse(S[t], S2[t])
  BY <1>1, TreeAssumption DEF NoNewUse, SameUse, SameRest, Typed
<1>14. Vacant(S2) /\ Takers(S2)
  <2>1. Vacant(S2)
    BY <1>1, <1>13, NoNullVacates, VacantStable DEF Global
  <2>2. Takers(S2)
    BY <1>1, TakersStable DEF Global, SameRest, SameTaking
  <2> QED BY <2>1, <2>2
<1>15. Shape(nd2, S2)
  BY <1>1, <1>6, ShapeStable DEF Global, SameRest
<1>16. Transfers(nd2, S2)
  BY <1>1, <1>6, NoNullVacates, TransfersStable DEF Global, SameRest
<1>17. Memory(nd2, S2)
  BY <1>1, <1>6, <1>13, MemoryStable DEF Global, SameRest, SameTaking
<1>18. Depths(nd2, S2, dp)
  BY <1>1, <1>6, <1>13, DepthsStable DEF Global, NoNewUse
<1> QED BY <1>5, <1>6, <1>7, <1>8, <1>10, <1>11, <1>12, <1>14, <1>15, <1>16, <1>17, <1>18
    DEF Global

-----------------------------------------------------------------------------
(* A moved folder gets its new parent, a removed one is freed.             *)

\* A folder with a new parent and a new name.
WithPlace(nd, n, q, b) == [nd EXCEPT ![n] = [nd[n] EXCEPT !.parent = q, !.name = b]]
Renaming(s, s2, n, q, b) ==
  /\ s.moves = {n} /\ n \in s.vacates /\ n \notin s.counts /\ s.place = <<q, b>>
  /\ s2.moves = {} /\ s2.removes = s.removes /\ s2.unlinks = s.unlinks
  /\ s2.flags = s.flags /\ s2.vacates \subseteq s.vacates
  /\ SameUse(s, s2) /\ SameSleep(s, s2) /\ s2.pending = s.pending
  /\ s2.maps = s.maps /\ s2.moveLock = s.moveLock

LEMMA GRename ==
  ASSUME NEW nd, NEW nd2, NEW S, NEW S2, NEW t \in Thread, NEW dp, NEW n, NEW q, NEW b,
         Good(nd, S, dp), \A u \in Thread : One(S[u]), Others(S, S2, t),
         Renaming(S[t], S2[t], n, q, b), KeepsPrivacy(nd, S[t], S2[t]),
         nd2 = WithPlace(nd, n, q, b)
  PROVE  /\ Global(nd2, S2, dp) /\ nd2 \in [NodeId -> NodeType]
         /\ \A x \in NodeId \ {n} : nd2[x].parent = nd[x].parent /\ nd2[x].name = nd[x].name
<1>1. /\ nd \in [NodeId -> NodeType] /\ Global(nd, S, dp) /\ \A u \in Thread : Typed(S[u])
  BY DEF Good
<1>2. /\ S[t].moves = {n} /\ n \in S[t].vacates /\ n \notin S[t].counts /\ S[t].place = <<q, b>>
      /\ S2[t].moves = {} /\ S2[t].removes = S[t].removes /\ S2[t].unlinks = S[t].unlinks
      /\ S2[t].flags = S[t].flags /\ S2[t].vacates \subseteq S[t].vacates
      /\ SameUse(S[t], S2[t]) /\ SameSleep(S[t], S2[t]) /\ S2[t].pending = S[t].pending
      /\ S2[t].maps = S[t].maps /\ S2[t].moveLock = S[t].moveLock
  BY DEF Renaming
<1>3. n \in NodeId /\ n # Root
  BY <1>1, <1>2 DEF Typed
<1>4. q \in LiveIn(nd) /\ q \in NodeId /\ b \in Name /\ nd[q].children[b] = n
  BY <1>1, <1>2 DEF Global, Transfers, Memory, LiveIn
<1>5. nd[n] \in NodeType
  BY <1>1, <1>3
<1>6. PICK m2 : m2 = [nd[n] EXCEPT !.parent = q, !.name = b]
  OBVIOUS
<1>7. m2 \in NodeType
  BY ONLY <1>4, <1>5, <1>6 DEF NodeType
<1>8. /\ m2.memory = nd[n].memory /\ m2.children = nd[n].children
      /\ m2.map_writer = nd[n].map_writer
      /\ m2.move_map_writers_access = nd[n].move_map_writers_access
      /\ m2.emergency_pass = nd[n].emergency_pass
      /\ m2.readers_inside = nd[n].readers_inside /\ m2.writers_inside = nd[n].writers_inside
      /\ m2.readers_waiting = nd[n].readers_waiting /\ m2.writers_waiting = nd[n].writers_waiting
      /\ m2.subtree_threads = nd[n].subtree_threads
      /\ m2.safe_hmap_get_count = nd[n].safe_hmap_get_count
      /\ m2.readers = nd[n].readers /\ m2.writers = nd[n].writers
      /\ m2.private_access = nd[n].private_access
      /\ m2.parent = q /\ m2.name = b
  BY ONLY <1>5, <1>6 DEF NodeType
<1>9. nd2 = [nd EXCEPT ![n] = m2]
  BY <1>6 DEF WithPlace
<1>10. nd2 \in [NodeId -> NodeType] /\ \A x \in NodeId : nd2[x] = IF x = n THEN m2 ELSE nd[x]
  BY ONLY <1>1, <1>3, <1>7, <1>9
<1>11. \A x \in NodeId \ {n} : nd2[x].parent = nd[x].parent /\ nd2[x].name = nd[x].name
  BY <1>10
<1>12. nd2[n].parent = q /\ nd2[n].name = b
  BY ONLY <1>10, <1>8, <1>3
<1>13. \A x \in NodeId : nd2[x].memory = nd[x].memory /\ nd2[x].children = nd[x].children
                         /\ nd2[x].map_writer = nd[x].map_writer
  BY ONLY <1>10, <1>8
<1>14. SameCounts(nd, nd2) /\ SameFlags(nd, nd2) /\ SameMaps(nd, nd2)
  BY ONLY <1>10, <1>8 DEF SameCounts, SameFlags, SameMaps
<1>15. LiveIn(nd2) = LiveIn(nd)
  BY <1>13 DEF LiveIn
<1>16. \A u \in Thread : S2[u] = S[u] \/ u = t
  BY DEF Others
<1>17. Maps(nd2, S2) /\ Takers(S2)
  <2>1. Maps(nd2, S2)
    BY <1>1, <1>2, <1>14, MapsStable DEF Global
  <2>2. Takers(S2)
    BY <1>1, <1>2, TakersStable DEF Global
  <2> QED BY <2>1, <2>2
<1>18. Shape(nd2, S2)
  <2>1. Shape(nd, S)
    BY <1>1 DEF Global
  <2>2. nd2[Root].parent = NULL /\ Root \in LiveIn(nd2)
    BY <2>1, <1>3, <1>11, <1>15, TreeAssumption DEF Shape
  <2>3. \A x \in LiveIn(nd2) \ {Root} : nd2[x].parent \in NodeId /\ nd2[x].name \in Name
    <3> TAKE x \in LiveIn(nd2) \ {Root}
    <3>1. x \in NodeId /\ nd[x].parent \in NodeId /\ nd[x].name \in Name
      BY <2>1, <1>15 DEF Shape, LiveIn
    <3> QED BY <3>1, <1>4, <1>11, <1>12
  <2>4. \A x \in NodeId : nd2[x].parent # NULL => nd2[nd2[x].parent].memory # "unused"
    <3> TAKE x \in NodeId
    <3>1. nd[q].memory # "unused"
      BY <1>4 DEF LiveIn
    <3>2. nd[x].parent # NULL => nd[nd[x].parent].memory # "unused"
      BY <2>1 DEF Shape
    <3>3. nd[x].parent \in NodeId \cup {NULL}
      BY <1>1 DEF NodeType
    <3> QED BY <3>1, <3>2, <3>3, <1>4, <1>11, <1>12, <1>13
  <2>5. ASSUME NEW d \in NodeId, NEW a \in Name, nd2[d].children[a] # NULL
        PROVE  LET x == nd2[d].children[a] IN
               /\ d \in LiveIn(nd2) /\ x \in LiveIn(nd2) \ {Root}
               /\ \A u \in Thread : x \notin S2[u].removes /\ (x \in S2[u].moves => S2[u].place = <<d, a>>)
               /\ (\A u \in Thread : x \notin S2[u].moves) => d = nd2[x].parent /\ a = nd2[x].name
    <3>1. PICK x : x = nd[d].children[a]
      OBVIOUS
    <3>2. nd2[d].children[a] = x /\ x # NULL
      BY <3>1, <2>5, <1>13
    <3>3. /\ d \in LiveIn(nd) /\ x \in LiveIn(nd) \ {Root}
          /\ \A u \in Thread : x \notin S[u].removes /\ (x \in S[u].moves => S[u].place = <<d, a>>)
          /\ (\A u \in Thread : x \notin S[u].moves) => d = nd[x].parent /\ a = nd[x].name
      BY <3>1, <3>2, <2>1 DEF Shape
    <3>4. \A u \in Thread : x \notin S2[u].removes /\ (x \in S2[u].moves => S2[u].place = <<d, a>>)
      BY <3>3, <1>2, <1>16
    <3>5. (\A u \in Thread : x \notin S2[u].moves) => d = nd2[x].parent /\ a = nd2[x].name
      <4>1. CASE x = n
        <5>1. <<d, a>> = <<q, b>>
          BY <4>1, <3>3, <1>2
        <5> QED BY <5>1, <4>1, <1>12
      <4>2. CASE x # n
        <5>1. x \in NodeId /\ nd2[x].parent = nd[x].parent /\ nd2[x].name = nd[x].name
          BY <4>2, <3>3, <1>11 DEF LiveIn
        <5>2. (\A u \in Thread : x \notin S2[u].moves) => (\A u \in Thread : x \notin S[u].moves)
          BY <4>2, <1>2, <1>16
        <5> QED BY <5>1, <5>2, <3>3
      <4> QED BY <4>1, <4>2
    <3> QED BY <3>2, <3>3, <3>4, <3>5, <1>15
  <2>6. ASSUME NEW x \in LiveIn(nd2) \ {Root}, \A u \in Thread : x \notin S2[u].moves \cup S2[u].removes
        PROVE  nd2[nd2[x].parent].children[nd2[x].name] = x
    <3>1. CASE x = n
      BY <3>1, <1>4, <1>12, <1>13
    <3>2. CASE x # n
      <4>1. x \in NodeId /\ x \in LiveIn(nd) \ {Root}
        BY <1>15 DEF LiveIn
      <4>2. \A u \in Thread : x \notin S[u].moves \cup S[u].removes
        BY <3>2, <2>6, <1>2, <1>16
      <4>3. nd[nd[x].parent].children[nd[x].name] = x /\ nd[x].parent \in NodeId
        BY <4>1, <4>2, <2>1 DEF Shape
      <4> QED BY <4>1, <4>3, <3>2, <1>11, <1>13
    <3> QED BY <3>1, <3>2
  <2> QED BY <2>2, <2>3, <2>4, <2>5, <2>6 DEF Shape
<1>19. Transfers(nd2, S2)
  <2>1. Transfers(nd, S) /\ \A u \in Thread : S[u].unlinks \subseteq NodeId /\ S[u].maps \subseteq NodeId
    BY <1>1 DEF Global, Typed
  <2> SUFFICES ASSUME NEW u \in Thread
               PROVE  /\ \A x \in S2[u].moves :
                           /\ S2[u].place[1] \in S2[u].maps /\ S2[u].place[2] \in Name
                           /\ nd2[S2[u].place[1]].children[S2[u].place[2]] = x
                      /\ \A x \in S2[u].unlinks : nd2[x].map_writer = NULL /\ Names(nd2[x]) = {}
    BY DEF Transfers
  <2>2. \A x \in S2[u].moves : u # t /\ S2[u] = S[u]
    BY <1>2, <1>16
  <2>3. \A x \in S2[u].moves :
           /\ S2[u].place[1] \in S2[u].maps /\ S2[u].place[2] \in Name
           /\ nd2[S2[u].place[1]].children[S2[u].place[2]] = x
    BY <2>1, <2>2, <1>13 DEF Transfers
  <2>4. S2[u].unlinks = S[u].unlinks
    BY <1>2, <1>16
  <2>5. \A x \in S2[u].unlinks : nd2[x].map_writer = NULL /\ Names(nd2[x]) = {}
    BY <2>1, <2>4, <1>13 DEF Transfers, Names
  <2> QED BY <2>3, <2>5
<1>20. Memory(nd2, S2)
  <2>1. Memory(nd, S)
    BY <1>1 DEF Global
  <2>2. S2[t].maps \cup S2[t].moves \cup S2[t].removes \subseteq LiveIn(nd)
    BY <2>1, <1>2 DEF Memory
  <2> QED BY <2>1, <2>2, <1>2, <1>15, MemoryKept
<1>21. Depths(nd2, S2, dp)
  <2>1. Depths(nd, S, dp) /\ Vacant(S) /\ nd[n].memory = "live"
    BY <1>1, <1>2 DEF Global, Memory, LiveIn
  <2>2. S[t].pending = NULL
    BY <1>2 DEF One
  <2>3. \A u \in Thread : n \notin S2[u].counts /\ n # S2[u].pending
    <3>1. \A u \in Thread : u # t => n \notin S[u].counts /\ n # S[u].pending
      BY <2>1, <1>2 DEF Vacant
    <3>2. n \notin S2[t].counts /\ n # S2[t].pending
      BY <2>2, <1>2, <1>3, TreeAssumption DEF SameUse
    <3> QED BY <3>1, <3>2, <1>16
  <2>4. \A u \in Thread : S2[u].counts = S[u].counts /\ S2[u].pending = S[u].pending
    BY <1>2, <1>16 DEF SameUse
  <2>5. \A d \in NodeId, a \in Name :
           nd2[d].children[a] # NULL => dp[d] < dp[nd2[d].children[a]]
    BY <2>1, <1>13 DEF Depths
  <2>6. ASSUME NEW u \in Thread, NEW x \in NodeId,
               x \in S2[u].counts \/ x = S2[u].pending, nd2[x].parent # NULL
        PROVE  dp[nd2[x].parent] < dp[x]
    <3>1. x # n
      BY <2>6, <2>3
    <3> QED BY <2>6, <3>1, <2>1, <2>4, <1>11 DEF Depths
  <2> QED BY <2>1, <2>5, <2>6 DEF Depths
<1>22. Global(nd2, S2, dp)
  BY ONLY <1>2, <1>14, <1>17, <1>18, <1>19, <1>20, <1>21, GHeld,
     Good(nd, S, dp), Others(S, S2, t), t \in Thread, KeepsPrivacy(nd, S[t], S2[t])
<1> QED BY <1>10, <1>11, <1>22

-----------------------------------------------------------------------------
Freeing(s, s2, n) ==
  /\ s.removes = {n} /\ s.unlinks = {n} /\ s.vacates = {n} /\ s.moves = {} /\ s.flags = {}
  /\ n \notin s.counts /\ n \notin s.reads \cup s.writes
  /\ s2.moves = {} /\ s2.removes = {} /\ s2.unlinks = {} /\ s2.flags = {} /\ s2.vacates = {}
  /\ SameUse(s, s2) /\ SameSleep(s, s2) /\ s2.pending = s.pending
  /\ s2.maps = s.maps /\ s2.moveLock = s.moveLock

LEMMA GFree ==
  ASSUME NEW nd, NEW nd2, NEW S, NEW S2, NEW t \in Thread, NEW dp, NEW n,
         Good(nd, S, dp), \A u \in Thread : One(S[u]), Others(S, S2, t),
         Freeing(S[t], S2[t], n), KeepsPrivacy(nd, S[t], S2[t]),
         nd2 = [nd EXCEPT ![n] = node_free]
  PROVE  /\ Global(nd2, S2, dp) /\ nd2 \in [NodeId -> NodeType]
         /\ \A x \in NodeId \ {n} : nd2[x] = nd[x]
<1>1. /\ nd \in [NodeId -> NodeType] /\ Global(nd, S, dp) /\ \A u \in Thread : Typed(S[u])
  BY DEF Good
<1>2. /\ S[t].removes = {n} /\ S[t].unlinks = {n} /\ S[t].vacates = {n} /\ S[t].moves = {}
      /\ S[t].flags = {} /\ n \notin S[t].counts /\ n \notin S[t].reads \cup S[t].writes
      /\ S2[t].moves = {} /\ S2[t].removes = {} /\ S2[t].unlinks = {} /\ S2[t].flags = {}
      /\ S2[t].vacates = {}
      /\ SameUse(S[t], S2[t]) /\ SameSleep(S[t], S2[t]) /\ S2[t].pending = S[t].pending
      /\ S2[t].maps = S[t].maps /\ S2[t].moveLock = S[t].moveLock
  BY DEF Freeing
<1>3. n \in NodeId /\ n # Root
  BY <1>1, <1>2 DEF Typed
<1>4. nd[n].map_writer = NULL /\ Names(nd[n]) = {}
  BY <1>1, <1>2 DEF Global, Transfers
<1>5. node_free \in NodeType
  BY TreeAssumption DEF node_free, node_new, NodeType, ThreadSets
<1>6. nd2 \in [NodeId -> NodeType] /\ nd2[n] = node_free /\ \A x \in NodeId \ {n} : nd2[x] = nd[x]
  BY ONLY <1>1, <1>3, <1>5, nd2 = [nd EXCEPT ![n] = node_free]
<1>7. Blank(nd2[n]) /\ nd2[n].memory = "freed" /\ nd2[n].parent = NULL
      /\ \A a \in Name : nd2[n].children[a] = NULL
  BY <1>6 DEF Blank, node_free, node_new
<1>8. \A u \in Thread : S2[u] = S[u] \/ u = t
  BY DEF Others
<1>9. \A u \in Thread : Absent(S[u], n)
  <2> TAKE u \in Thread
  <2>1. One(S[u])
    OBVIOUS
  <2>2. n \notin S[u].counts /\ n \notin S[u].reads \cup S[u].writes /\ n # S[u].pending
    <3>1. CASE u = t
      <4>1. S[t].pending = NULL
        BY <1>2, <2>1, <3>1 DEF One
      <4> QED BY <4>1, <1>2, <1>3, <3>1, TreeAssumption
    <3>2. CASE u # t
      BY <3>2, <1>1, <1>2 DEF Global, Vacant
    <3> QED BY <3>1, <3>2
  <2>3. n \notin S[u].maps
    <3>1. nd[n].map_writer = u <=> n \in S[u].maps
      BY <1>1, <1>3 DEF Global, Maps
    <3> QED BY <3>1, <1>4, TreeAssumption
  <2>4. n \notin S[u].moves
    <3>1. CASE u = t
      BY <3>1, <1>2
    <3>2. CASE u # t
      BY <3>2, <1>1, <1>2 DEF Global, Takers
    <3> QED BY <3>1, <3>2
  <2> QED BY <2>1, <2>2, <2>3, <2>4 DEF One, Absent
<1>10. \A u \in Thread : Absent(S2[u], n) /\ n \notin S2[u].removes
  <2> TAKE u \in Thread
  <2>1. Absent(S[u], n)
    BY <1>9
  <2>2. CASE u = t
    <3>1. /\ n \notin S2[t].owns \cup S2[t].acquires
      <4>1. OwnedIn(nd, S2[t], n) => OwnedIn(nd, S[t], n)
        BY <1>3 DEF KeepsPrivacy
      <4>2. ~nd[n].emergency_pass
        <5>1. \A v \in Thread : n \notin S[v].flags
          BY <1>9 DEF Absent
        <5> QED BY <5>1, <1>1, <1>3 DEF Global, Emergency
      <4>3. ~OwnedIn(nd, S[t], n)
        BY <2>1, <2>2 DEF Absent, OwnedIn
      <4> QED BY <4>1, <4>2, <4>3 DEF OwnedIn
    <3> QED BY <3>1, <2>1, <2>2, <1>2 DEF Absent, SameUse, SameSleep
  <2>3. CASE u # t
    <3>1. S2[u] = S[u]
      BY <2>3, <1>8
    <3>2. n \notin S[u].removes
      BY <2>3, <1>1, <1>2 DEF Global, Takers
    <3> QED BY <3>1, <3>2, <2>1
  <2> QED BY <2>2, <2>3
<1>11. Counters(nd2, S2) /\ Sleepers(nd2, S2)
  <2>1. SameCounts(nd, nd)
    BY DEF SameCounts
  <2>2. Counters(nd, S) /\ Sleepers(nd, S)
    BY <1>1 DEF Global
  <2> QED BY ONLY <2>1, <2>2, <1>1, <1>2, <1>3, <1>6, <1>7, <1>9, OthersKept,
          Others(S, S2, t), t \in Thread
<1>12. Maps(nd2, S2)
  <2> SUFFICES ASSUME NEW x \in NodeId, NEW u \in Thread
               PROVE  /\ nd2[x].map_writer = u <=> x \in S2[u].maps
                      /\ nd2[x].move_map_writers_access = u <=> x \in S2[u].moveLock
    BY DEF Maps
  <2>1. CASE x = n
    <3>1. n \notin S2[u].maps /\ n \notin S2[u].moveLock
      BY <1>10 DEF Absent
    <3>2. nd2[n].map_writer = NULL /\ nd2[n].move_map_writers_access = NULL
      BY <1>7 DEF Blank
    <3> QED BY <3>1, <3>2, <2>1, TreeAssumption
  <2>2. CASE x # n
    <3>1. S2[u].maps = S[u].maps /\ S2[u].moveLock = S[u].moveLock
      BY <1>2, <1>8
    <3>2. nd2[x] = nd[x]
      BY <2>2, <1>6
    <3> QED BY <3>1, <3>2, <1>1 DEF Global, Maps
  <2> QED BY <2>1, <2>2
<1>13. \A u \in Thread : S2[u].reads = S[u].reads /\ S2[u].writes = S[u].writes /\ S2[u].counts = S[u].counts
                          /\ S2[u].flags = S[u].flags /\ S2[u].moves = S[u].moves
                          /\ S2[u].pending = S[u].pending /\ S2[u].maps = S[u].maps
  BY <1>2, <1>8 DEF SameUse
<1>14. Exclusion(nd2, S2)
  <2> SUFFICES ASSUME NEW x \in NodeId, ~nd2[x].emergency_pass, NEW v \in Thread, NEW u \in Thread,
                      x \in S2[v].writes
               PROVE  x \notin S2[u].reads /\ (v # u => x \notin S2[u].writes)
    BY DEF Exclusion
  <2>1. x # n
    BY <1>10 DEF Absent
  <2>2. nd2[x] = nd[x]
    BY <2>1, <1>6
  <2> QED BY <2>2, <1>1, <1>13 DEF Global, Exclusion
<1>15. Emergency(nd2, S2)
  <2>1. ASSUME NEW x \in NodeId
        PROVE  nd2[x].emergency_pass <=> \E u \in Thread : x \in S2[u].flags
    <3>1. CASE x = n
      <4>1. ~nd2[n].emergency_pass
        BY <1>7 DEF Blank
      <4>2. \A u \in Thread : n \notin S2[u].flags
        BY <1>10 DEF Absent
      <4> QED BY <3>1, <4>1, <4>2
    <3>2. CASE x # n
      <4>1. nd2[x] = nd[x]
        BY <3>2, <1>6
      <4> QED BY <4>1, <1>1, <1>13 DEF Global, Emergency
    <3> QED BY <3>1, <3>2
  <2> QED BY <2>1 DEF Emergency
<1>16. Privacy(nd2, S2)
  <2>1. Privacy(nd, S2)
    <3>1. SameFlags(nd, nd) /\ KeepsPrivacy(nd, S[t], S2[t]) /\ Privacy(nd, S)
      BY <1>1 DEF SameFlags, Global
    <3> QED BY <3>1, <1>2, PrivacyKept DEF SameUse
  <2> SUFFICES ASSUME NEW v \in Thread, NEW u \in Thread, NEW x \in NodeId,
                      v # u, OwnedBy(nd2, S2, v, x)
               PROVE  /\ x \in S2[u].counts => nd2[x].emergency_pass /\ x \in S2[u].goesAway
                      /\ x \in S2[u].reads \cup S2[u].writes
                           => nd2[x].emergency_pass /\ x \in S2[u].passesOn
    BY DEF Privacy
  <2>2. x # n
    BY <1>10 DEF OwnedBy, Absent
  <2>3. nd2[x] = nd[x]
    BY <2>2, <1>6
  <2> QED BY <2>1, <2>3 DEF Privacy, OwnedBy
<1>17. Vacant(S2) /\ Takers(S2)
  <2>1. NoNewUse(S[t], S2[t])
    BY <1>1, <1>2, TreeAssumption DEF NoNewUse, SameUse, Typed
  <2>2. Vacant(S2)
    BY <1>1, <1>2, <2>1, NoNullVacates, VacantStable DEF Global
  <2>3. Takers(S2)
    BY <1>1, <1>2, TakersStable DEF Global
  <2> QED BY <2>2, <2>3
<1>18. \A x \in LiveIn(nd2) : x \in LiveIn(nd) /\ x # n
  BY <1>6, <1>7 DEF LiveIn
<1>19. \A x \in LiveIn(nd) : x # n => x \in LiveIn(nd2)
  BY <1>6 DEF LiveIn
<1>20. Shape(nd2, S2)
  <2>1. Shape(nd, S)
    BY <1>1 DEF Global
  <2>2. nd2[Root].parent = NULL /\ Root \in LiveIn(nd2)
    BY <2>1, <1>3, <1>6, <1>19, TreeAssumption DEF Shape
  <2>3. \A x \in LiveIn(nd2) \ {Root} : nd2[x].parent \in NodeId /\ nd2[x].name \in Name
    <3> TAKE x \in LiveIn(nd2) \ {Root}
    <3>1. x \in LiveIn(nd) /\ x # n /\ x \in NodeId
      BY <1>18 DEF LiveIn
    <3>2. nd2[x] = nd[x]
      BY <3>1, <1>6
    <3> QED BY <3>1, <3>2, <2>1 DEF Shape
  <2>4. \A x \in NodeId : nd2[x].parent # NULL => nd2[nd2[x].parent].memory # "unused"
    <3> TAKE x \in NodeId
    <3> HAVE nd2[x].parent # NULL
    <3>1. x # n
      BY <1>7
    <3>2. nd2[x] = nd[x] /\ nd[x].parent \in NodeId
      <4>1. nd2[x] = nd[x]
        BY <3>1, <1>6
      <4> QED BY <4>1, <1>1 DEF NodeType
    <3>3. nd[nd[x].parent].memory # "unused"
      BY <3>2, <2>1 DEF Shape
    <3>4. CASE nd[x].parent = n
      BY <3>2, <3>4, <1>7
    <3>5. CASE nd[x].parent # n
      <4>1. nd2[nd[x].parent] = nd[nd[x].parent]
        BY <3>2, <3>5, <1>6
      <4> QED BY <4>1, <3>2, <3>3
    <3> QED BY <3>4, <3>5
  <2>5. ASSUME NEW d \in NodeId, NEW a \in Name, nd2[d].children[a] # NULL
        PROVE  LET x == nd2[d].children[a] IN
               /\ d \in LiveIn(nd2) /\ x \in LiveIn(nd2) \ {Root}
               /\ \A u \in Thread : x \notin S2[u].removes /\ (x \in S2[u].moves => S2[u].place = <<d, a>>)
               /\ (\A u \in Thread : x \notin S2[u].moves) => d = nd2[x].parent /\ a = nd2[x].name
    <3>1. d # n
      BY <2>5, <1>7
    <3>2. nd2[d] = nd[d]
      BY <3>1, <1>6
    <3>3. PICK x : x = nd[d].children[a]
      OBVIOUS
    <3>4. /\ d \in LiveIn(nd) /\ x \in LiveIn(nd) \ {Root}
          /\ \A u \in Thread : x \notin S[u].removes /\ (x \in S[u].moves => S[u].place = <<d, a>>)
          /\ (\A u \in Thread : x \notin S[u].moves) => d = nd[x].parent /\ a = nd[x].name
      BY <3>2, <3>3, <2>1, <2>5 DEF Shape
    <3>5. x # n /\ x \in NodeId
      BY <3>4, <1>2 DEF LiveIn
    <3>6. nd2[x] = nd[x]
      BY <3>5, <1>6
    <3>7. \A u \in Thread : x \notin S2[u].removes /\ (x \in S2[u].moves => S2[u].place = <<d, a>>)
      BY <3>4, <1>2, <1>8
    <3>8. (\A u \in Thread : x \notin S2[u].moves) => (\A u \in Thread : x \notin S[u].moves)
      BY <1>13
    <3>9. nd2[d].children[a] = x /\ d \in LiveIn(nd2) /\ x \in LiveIn(nd2) \ {Root}
      BY <3>1, <3>2, <3>3, <3>4, <3>5, <1>19
    <3>10. (\A u \in Thread : x \notin S2[u].moves) => d = nd2[x].parent /\ a = nd2[x].name
      BY <3>4, <3>6, <3>8
    <3> QED BY ONLY <3>7, <3>9, <3>10
  <2>6. ASSUME NEW x \in LiveIn(nd2) \ {Root}, \A u \in Thread : x \notin S2[u].moves \cup S2[u].removes
        PROVE  nd2[nd2[x].parent].children[nd2[x].name] = x
    <3>1. x \in LiveIn(nd) /\ x # n /\ x \in NodeId
      BY <1>18 DEF LiveIn
    <3>2. nd2[x] = nd[x]
      BY <3>1, <1>6
    <3>3. \A u \in Thread : x \notin S[u].moves \cup S[u].removes
      BY <3>1, <2>6, <1>2, <1>8
    <3>4. nd[x].parent \in NodeId /\ nd[x].name \in Name /\ nd[nd[x].parent].children[nd[x].name] = x
      BY <3>1, <3>3, <2>1 DEF Shape
    <3>5. nd[x].parent # n
      <4>1. x # NULL
        BY <3>1, TreeAssumption
      <4> QED BY <4>1, <3>4, <1>4 DEF Names
    <3>6. nd2[nd[x].parent] = nd[nd[x].parent]
      BY <3>4, <3>5, <1>6
    <3> QED BY <3>2, <3>4, <3>6
  <2> QED BY <2>2, <2>3, <2>4, <2>5, <2>6 DEF Shape
<1>21. Transfers(nd2, S2)
  <2>1. Transfers(nd, S) /\ \A u \in Thread : S[u].unlinks \subseteq NodeId /\ S[u].maps \subseteq NodeId
    BY <1>1 DEF Global, Typed
  <2> SUFFICES ASSUME NEW u \in Thread
               PROVE  /\ \A x \in S2[u].moves :
                           /\ S2[u].place[1] \in S2[u].maps /\ S2[u].place[2] \in Name
                           /\ nd2[S2[u].place[1]].children[S2[u].place[2]] = x
                      /\ \A x \in S2[u].unlinks : nd2[x].map_writer = NULL /\ Names(nd2[x]) = {}
    BY DEF Transfers
  <2>2. CASE u = t
    BY <2>2, <1>2
  <2>3. CASE u # t
    <3>1. S2[u] = S[u]
      BY <2>3, <1>8
    <3>2. ASSUME NEW x \in S2[u].moves
          PROVE  /\ S2[u].place[1] \in S2[u].maps /\ S2[u].place[2] \in Name
                 /\ nd2[S2[u].place[1]].children[S2[u].place[2]] = x
      <4>1. S2[u].place[1] \in S2[u].maps /\ S2[u].place[2] \in Name
            /\ nd[S2[u].place[1]].children[S2[u].place[2]] = x
        BY <3>1, <3>2, <2>1 DEF Transfers
      <4>2. S2[u].place[1] # n /\ S2[u].place[1] \in NodeId
        BY <4>1, <3>1, <2>1, <1>9 DEF Absent
      <4>3. nd2[S2[u].place[1]] = nd[S2[u].place[1]]
        BY <4>2, <1>6
      <4> QED BY <4>1, <4>3
    <3>3. ASSUME NEW x \in S2[u].unlinks
          PROVE  nd2[x].map_writer = NULL /\ Names(nd2[x]) = {}
      <4>1. CASE x = n
        BY <4>1, <1>7 DEF Blank, Names
      <4>2. CASE x # n
        <5>1. nd2[x] = nd[x]
          BY <4>2, <3>1, <3>3, <2>1, <1>6
        <5> QED BY <5>1, <3>1, <3>3, <2>1 DEF Transfers
      <4> QED BY <4>1, <4>2
    <3> QED BY <3>2, <3>3
  <2> QED BY <2>2, <2>3
<1>22. Memory(nd2, S2)
  <2> SUFFICES ASSUME NEW u \in Thread
               PROVE  /\ S2[u].counts \cup S2[u].reads \cup S2[u].writes \cup S2[u].maps
                           \cup S2[u].moves \cup S2[u].removes \subseteq LiveIn(nd2)
                      /\ S2[u].pending # NULL => S2[u].pending \in LiveIn(nd2)
    BY DEF Memory
  <2>1. /\ S[u].counts \cup S[u].reads \cup S[u].writes \cup S[u].maps
                           \cup S[u].moves \cup S[u].removes \subseteq LiveIn(nd)
        /\ S[u].pending # NULL => S[u].pending \in LiveIn(nd)
    BY <1>1 DEF Global, Memory
  <2>2. S2[u].removes \subseteq S[u].removes
    BY <1>2, <1>8
  <2>3. Absent(S2[u], n) /\ n \notin S2[u].removes
    BY <1>10
  <2> QED BY <2>1, <2>2, <2>3, <1>13, <1>19 DEF Absent
<1>23. Depths(nd2, S2, dp)
  <2>1. Depths(nd, S, dp)
    BY <1>1 DEF Global
  <2>2. ASSUME NEW d \in NodeId, NEW a \in Name, nd2[d].children[a] # NULL
        PROVE  dp[d] < dp[nd2[d].children[a]]
    <3>1. d # n
      BY <2>2, <1>7
    <3>2. nd2[d] = nd[d]
      BY <3>1, <1>6
    <3> QED BY <3>2, <2>1, <2>2 DEF Depths
  <2>3. ASSUME NEW u \in Thread, NEW x \in NodeId,
               x \in S2[u].counts \/ x = S2[u].pending, nd2[x].parent # NULL
        PROVE  dp[nd2[x].parent] < dp[x]
    <3>1. x # n
      BY <2>3, <1>7
    <3>2. nd2[x] = nd[x]
      BY <3>1, <1>6
    <3> QED BY <3>2, <2>1, <2>3, <1>13 DEF Depths
  <2> QED BY <2>1, <2>2, <2>3 DEF Depths
<1>24. Global(nd2, S2, dp)
  BY ONLY <1>11, <1>12, <1>14, <1>15, <1>16, <1>17, <1>20, <1>21, <1>22, <1>23 DEF Global
<1> QED BY <1>6, <1>24

-----------------------------------------------------------------------------
(* Paths.                                                                  *)

LEMMA PrefixElements ==
  ASSUME NEW S, NEW s \in Seq(S), NEW p \in Seq(S)
  PROVE  IsPrefix(s, p) <=> Len(s) <= Len(p) /\ \A i \in 1 .. Len(s) : s[i] = p[i]
<1>1. Len(s) \in Nat /\ Len(p) \in Nat /\ DOMAIN s = 1 .. Len(s) /\ DOMAIN p = 1 .. Len(p)
  BY LenProperties
<1>2. ASSUME Len(s) <= Len(p)
      PROVE  /\ SubSeq(s, 1, Len(s)) \in Seq(S) /\ SubSeq(p, 1, Len(s)) \in Seq(S)
             /\ Len(SubSeq(s, 1, Len(s))) = Len(s) /\ Len(SubSeq(p, 1, Len(s))) = Len(s)
             /\ \A i \in 1 .. Len(s) : SubSeq(s, 1, Len(s))[i] = s[i]
             /\ \A i \in 1 .. Len(s) : SubSeq(p, 1, Len(s))[i] = p[i]
  <2>1. \A i \in 1 .. Len(s) : s[i] \in S /\ p[i] \in S
    BY <1>1, <1>2, ElementOfSeq
  <2>2. Len(s) \in Int /\ 1 \in Int
    BY <1>1
  <2>3. /\ SubSeq(s, 1, Len(s)) \in Seq(S)
        /\ Len(SubSeq(s, 1, Len(s))) = IF 1 <= Len(s) THEN Len(s) - 1 + 1 ELSE 0
        /\ \A i \in 1 .. Len(s) - 1 + 1 : SubSeq(s, 1, Len(s))[i] = s[1 + i - 1]
    BY <2>1, <2>2, SubSeqProperties
  <2>4. /\ SubSeq(p, 1, Len(s)) \in Seq(S)
        /\ Len(SubSeq(p, 1, Len(s))) = IF 1 <= Len(s) THEN Len(s) - 1 + 1 ELSE 0
        /\ \A i \in 1 .. Len(s) - 1 + 1 : SubSeq(p, 1, Len(s))[i] = p[1 + i - 1]
    BY <2>1, <2>2, SubSeqProperties
  <2> QED BY <2>3, <2>4, <1>1
<1>3. CASE Len(s) <= Len(p)
  <2>1. SubSeq(s, 1, Len(s)) = SubSeq(p, 1, Len(s)) <=> \A i \in 1 .. Len(s) : s[i] = p[i]
    <3>1. ASSUME \A i \in 1 .. Len(s) : s[i] = p[i]
          PROVE  SubSeq(s, 1, Len(s)) = SubSeq(p, 1, Len(s))
      BY <3>1, <1>2, <1>3, SeqEqual
    <3>2. ASSUME SubSeq(s, 1, Len(s)) = SubSeq(p, 1, Len(s))
          PROVE  \A i \in 1 .. Len(s) : s[i] = p[i]
      BY <3>2, <1>2, <1>3
    <3> QED BY <3>1, <3>2
  <2> QED BY <2>1, <1>3 DEF IsPrefix
<1>4. CASE ~(Len(s) <= Len(p))
  BY <1>4 DEF IsPrefix
<1> QED BY <1>3, <1>4

\* What SubSeq(p, m, Len(p)) is.
LEMMA Suffix ==
  ASSUME NEW S, NEW p \in Seq(S), NEW m \in Nat
  PROVE  /\ SubSeq(p, m + 1, Len(p)) \in Seq(S)
         /\ SubSeq(p, m + 1, Len(p)) # <<>> <=> m < Len(p)
         /\ m < Len(p) => Head(SubSeq(p, m + 1, Len(p))) = p[m + 1]
<1>1. Len(p) \in Nat /\ m + 1 \in Int /\ Len(p) \in Int
  BY LenProperties
<1>2. \A i \in m + 1 .. Len(p) : p[i] \in S
  BY <1>1, ElementOfSeq
<1>3. /\ SubSeq(p, m + 1, Len(p)) \in Seq(S)
      /\ Len(SubSeq(p, m + 1, Len(p))) = IF m + 1 <= Len(p) THEN Len(p) - (m + 1) + 1 ELSE 0
      /\ \A i \in 1 .. Len(p) - (m + 1) + 1 : SubSeq(p, m + 1, Len(p))[i] = p[m + 1 + i - 1]
  BY <1>1, <1>2, SubSeqProperties
<1>4. CASE m < Len(p)
  <2>1. Len(SubSeq(p, m + 1, Len(p))) > 0
    BY <1>1, <1>3, <1>4
  <2>2. SubSeq(p, m + 1, Len(p)) # <<>>
    BY <2>1, EmptySeq
  <2>3. SubSeq(p, m + 1, Len(p))[1] = p[m + 1]
    BY <1>1, <1>3, <1>4
  <2>4. Head(SubSeq(p, m + 1, Len(p))) = p[m + 1]
    BY <1>1, <1>2, <1>4, HeadTailOfSubSeq
  <2> QED BY <1>3, <1>4, <2>2, <2>4
<1>5. CASE ~(m < Len(p))
  <2>1. Len(p) < m + 1
    BY <1>1, <1>5
  <2>2. SubSeq(p, m + 1, Len(p)) = <<>>
    BY <2>1, <1>1, SubSeqEmpty
  <2> QED BY <2>2, <1>3, <1>5
<1> QED BY <1>4, <1>5

\* SharedPath is a common prefix, after which the two paths differ.
LEMMA SharedPathIs ==
  ASSUME NEW p \in Seq(Name), NEW q \in Seq(Name), NEW s, s = SharedPath(p, q)
  PROVE  /\ s \in Seq(Name) /\ Len(s) \in Nat /\ Len(s) <= Len(p) /\ Len(s) <= Len(q)
         /\ \A i \in 1 .. Len(s) : s[i] = p[i] /\ s[i] = q[i]
         /\ Len(s) < Len(p) /\ Len(s) < Len(q) => p[Len(s) + 1] # q[Len(s) + 1]
<1>0. Len(p) \in Nat /\ Len(q) \in Nat
  BY LenProperties
<1>1. ASSUME NEW r \in {p, q}, NEW l \in 0 .. Len(r)
      PROVE  /\ SubSeq(r, 1, l) \in Seq(Name) /\ Len(SubSeq(r, 1, l)) = l
             /\ \A i \in 1 .. l : SubSeq(r, 1, l)[i] = r[i]
  <2>1. r \in Seq(Name) /\ l \in Nat /\ l <= Len(r) /\ l \in Int /\ 1 \in Int
    BY <1>0
  <2>2. \A i \in 1 .. l : r[i] \in Name
    BY <2>1, <1>0, ElementOfSeq
  <2>3. /\ SubSeq(r, 1, l) \in Seq(Name)
        /\ Len(SubSeq(r, 1, l)) = IF 1 <= l THEN l - 1 + 1 ELSE 0
        /\ \A i \in 1 .. l - 1 + 1 : SubSeq(r, 1, l)[i] = r[1 + i - 1]
    BY <2>1, <2>2, SubSeqProperties
  <2> QED BY <2>1, <2>3
<1> DEFINE CP == CommonPrefixes({p, q})
<1>2. \A x : x \in CP <=> x \in Prefixes(p) \cup Prefixes(q) /\ IsPrefix(x, p) /\ IsPrefix(x, q)
  BY DEF CommonPrefixes
<1>3. \A x \in CP : x \in Seq(Name)
  BY <1>1, <1>2 DEF Prefixes
<1>4. \A x \in CP : /\ Len(x) \in Nat /\ Len(x) <= Len(p) /\ Len(x) <= Len(q)
                    /\ \A i \in 1 .. Len(x) : x[i] = p[i] /\ x[i] = q[i]
  <2> TAKE x \in CP
  <2>1. x \in Seq(Name) /\ IsPrefix(x, p) /\ IsPrefix(x, q)
    BY <1>2, <1>3
  <2>2. Len(x) \in Nat
    BY <2>1, LenProperties
  <2>3. Len(x) <= Len(p) /\ \A i \in 1 .. Len(x) : x[i] = p[i]
    BY ONLY <2>1, p \in Seq(Name), PrefixElements
  <2>4. Len(x) <= Len(q) /\ \A i \in 1 .. Len(x) : x[i] = q[i]
    BY ONLY <2>1, q \in Seq(Name), PrefixElements
  <2> QED BY ONLY <2>2, <2>3, <2>4
<1>5. SubSeq(p, 1, 0) \in CP
  <2>1. SubSeq(p, 1, 0) \in Seq(Name) /\ Len(SubSeq(p, 1, 0)) = 0
    BY <1>0, <1>1
  <2>2. SubSeq(p, 1, 0) \in Prefixes(p)
    BY <1>0 DEF Prefixes
  <2>3. IsPrefix(SubSeq(p, 1, 0), p) /\ IsPrefix(SubSeq(p, 1, 0), q)
    <3> PICK e : e = SubSeq(p, 1, 0)
      OBVIOUS
    <3>1. e \in Seq(Name) /\ Len(e) = 0
      BY <2>1
    <3>2. 0 <= Len(p) /\ 0 <= Len(q) /\ \A i \in 1 .. 0 : e[i] = p[i] /\ e[i] = q[i]
      BY <1>0
    <3>3. IsPrefix(e, p)
      BY ONLY <3>1, <3>2, p \in Seq(Name), PrefixElements
    <3>4. IsPrefix(e, q)
      BY ONLY <3>1, <3>2, q \in Seq(Name), PrefixElements
    <3> QED BY <3>3, <3>4
  <2> QED BY <2>2, <2>3, <1>2
<1>6. \E x \in CP : \A y \in CP : Len(y) <= Len(x)
  <2> DEFINE dp == [x \in CP |-> Len(x)]
  <2> HIDE DEF CP
  <2>1. (\A x \in CP : dp[x] \in Nat) /\ (\A x \in CP : dp[x] <= Len(p)) /\ CP # {}
    BY <1>4, <1>5
  <2> HIDE DEF dp
  <2>2. \E x \in CP : \A y \in CP : dp[y] <= dp[x]
    BY <2>1, <1>0, Greatest
  <2> QED BY <2>2 DEF dp
<1>7. s \in CP /\ \A y \in CP : Len(y) <= Len(s)
  <2>1. s = CHOOSE longest \in CP : \A other \in CP : Len(other) <= Len(longest)
    BY DEF SharedPath, LongestCommonPrefix
  <2> HIDE DEF CP
  <2> QED BY <2>1, <1>6
<1>8. ASSUME Len(s) < Len(p), Len(s) < Len(q), p[Len(s) + 1] = q[Len(s) + 1]
      PROVE  FALSE
  <2> DEFINE l == Len(s) + 1
             y == SubSeq(p, 1, l)
  <2>1. l \in 0 .. Len(p) /\ l \in Nat /\ l <= Len(q)
    BY <1>0, <1>4, <1>7, <1>8
  <2>2. y \in Seq(Name) /\ Len(y) = l /\ \A i \in 1 .. l : y[i] = p[i]
    <3> HIDE DEF l
    <3> QED BY <2>1, <1>1
  <2>3. \A i \in 1 .. l : y[i] = q[i]
    <3> SUFFICES ASSUME NEW i \in 1 .. l PROVE y[i] = q[i]
      OBVIOUS
    <3>1. y[i] = p[i]
      BY <2>2
    <3> HIDE DEF y
    <3>2. CASE i = l
      BY <3>1, <3>2, <1>8
    <3>3. CASE i # l
      <4>1. i \in 1 .. Len(s)
        BY <3>3, <1>4, <1>7
      <4> QED BY <4>1, <3>1, <1>4, <1>7
    <3> QED BY <3>2, <3>3
  <2>4. IsPrefix(y, p) /\ IsPrefix(y, q)
    <3>1. Len(y) <= Len(p) /\ Len(y) <= Len(q)
      BY <2>1, <2>2
    <3> HIDE DEF y, l
    <3> QED BY <3>1, <2>2, <2>3, PrefixElements
  <2>5. y \in Prefixes(p)
    BY <2>1 DEF Prefixes
  <2>6. Len(y) <= Len(s)
    BY <2>4, <2>5, <1>2, <1>7
  <2> QED BY <2>6, <2>2, <1>4, <1>7
<1> HIDE DEF CP
<1> QED BY <1>3, <1>4, <1>7, <1>8

\* The paths of a call that goes to the tree.
LEMMA Paths1 ==
  ASSUME NEW c \in Calls, Rejected(c) = <<>>
  PROVE  /\ c.op \in {"list", "create", "remove", "move"}
         /\ FirstPath(c) \in Seq(Name)
         /\ c.op \in {"list", "create", "remove"} => c.path \in Seq(Name)
         /\ c.op \in {"create", "remove"} => c.path # <<>>
         /\ c.op = "create" => TargetName(c.path) \in Name
         /\ c.op = "move" => c.source \in Seq(Name) /\ c.target \in Seq(Name)
         /\ c.op = "move" => c.source # <<>> /\ c.target # <<>> /\ ~IsStrictPrefix(c.source, c.target)
         /\ c.op = "move" => TargetName(c.target) \in Name
         /\ c.op = "move" => PathToParent(c.target) \in Seq(Name)
         /\ c.op = "move" => Len(PathToParent(c.target)) = Len(c.target) - 1
         /\ c.op = "move" => \A i \in 1 .. Len(c.target) - 1 : PathToParent(c.target)[i] = c.target[i]
<1>1. \/ c.op \in {"list", "create", "remove"} /\ c.path \in Seq(Name)
      \/ c.op = "move" /\ c.source \in Seq(Name) /\ c.target \in Seq(Name)
  BY DEF Calls
<1>2. \A r : <<Return(r)>> # <<>>
  OBVIOUS
<1>3. c.op \in {"create", "remove"} => c.path # <<>>
  BY <1>2 DEF Rejected
<1>4. c.op = "move" => c.source # <<>> /\ c.target # <<>> /\ ~IsStrictPrefix(c.source, c.target)
  BY <1>2 DEF Rejected
<1>5. ASSUME NEW p \in Seq(Name), p # <<>>
      PROVE  /\ TargetName(p) \in Name /\ PathToParent(p) \in Seq(Name)
             /\ Len(PathToParent(p)) = Len(p) - 1
             /\ \A i \in 1 .. Len(p) - 1 : PathToParent(p)[i] = p[i]
  <2>1. Len(p) \in Nat \ {0}
    BY <1>5, EmptySeq
  <2>2. \A i \in 1 .. Len(p) : p[i] \in Name
    BY ElementOfSeq
  <2>3. 1 \in Int /\ Len(p) - 1 \in Int /\ \A i \in 1 .. Len(p) - 1 : p[i] \in Name
    BY <2>1, <2>2
  <2>4. /\ SubSeq(p, 1, Len(p) - 1) \in Seq(Name)
        /\ Len(SubSeq(p, 1, Len(p) - 1)) = IF 1 <= Len(p) - 1 THEN Len(p) - 1 - 1 + 1 ELSE 0
        /\ \A i \in 1 .. Len(p) - 1 - 1 + 1 : SubSeq(p, 1, Len(p) - 1)[i] = p[1 + i - 1]
    BY <2>3, SubSeqProperties
  <2>5. p[Len(p)] \in Name
    BY <2>1, <2>2
  <2>6. TargetName(p) = p[Len(p)] /\ PathToParent(p) = SubSeq(p, 1, Len(p) - 1)
    BY DEF TargetName, PathToParent, Front, Last
  <2>7. Len(SubSeq(p, 1, Len(p) - 1)) = Len(p) - 1
    <3> PICK l : l = Len(SubSeq(p, 1, Len(p) - 1))
      OBVIOUS
    <3>1. l = IF 1 <= Len(p) - 1 THEN Len(p) - 1 - 1 + 1 ELSE 0
      BY <2>4
    <3>2. l = Len(p) - 1
      <4> PICK m : m = Len(p)
        OBVIOUS
      <4>1. m \in Nat /\ m >= 1
        BY <2>1
      <4>2. l = IF 1 <= m - 1 THEN m - 1 - 1 + 1 ELSE 0
        BY <3>1
      <4>3. l = m - 1
        BY ONLY <4>1, <4>2
      <4> QED BY <4>3
    <3> QED BY <3>2
  <2>8. \A i \in 1 .. Len(p) - 1 : SubSeq(p, 1, Len(p) - 1)[i] = p[i]
    <3> TAKE i \in 1 .. Len(p) - 1
    <3>1. i \in 1 .. Len(p) - 1 - 1 + 1 /\ 1 + i - 1 = i
      BY <2>1
    <3>2. SubSeq(p, 1, Len(p) - 1)[i] = p[1 + i - 1]
      BY <2>4, <3>1
    <3> QED BY <3>1, <3>2
  <2> QED BY <2>4, <2>5, <2>6, <2>7, <2>8
<1>6. FirstPath(c) \in Seq(Name)
  <2>1. CASE c.op \in {"list", "remove"}
    BY <2>1, <1>1 DEF FirstPath
  <2>2. CASE c.op = "create"
    BY <2>2, <1>1, <1>3, <1>5 DEF FirstPath
  <2>3. CASE c.op = "move"
    <3>1. SharedPath(c.source, PathToParent(c.target)) \in Seq(Name)
      BY <2>3, <1>1, <1>4, <1>5, SharedPathIs
    <3>2. FirstPath(c) = SharedPath(c.source, PathToParent(c.target))
      BY <2>3 DEF FirstPath, Shared
    <3> QED BY <3>1, <3>2
  <2> QED BY <1>1, <2>1, <2>2, <2>3
<1> QED BY <1>1, <1>3, <1>4, <1>5, <1>6

\* The two ways of a mover part at shared_node.
LEMMA Paths2 ==
  ASSUME NEW c \in Calls, Rejected(c) = <<>>, c.op = "move", NEW walk \in {"source", "target"}
  PROVE  /\ PathBeyond(c, walk) \in Seq(Name)
         /\ PathBeyond(c, "source") # <<>>
         /\ PathBeyond(c, walk) # <<>> =>
              Head(PathBeyond(c, walk)) = Branch(c, IF walk = "source" THEN 1 ELSE 2)
         /\ PathBeyond(c, "target") # <<>> => Branch(c, 1) # Branch(c, 2)
<1> DEFINE p == c.source
           q == PathToParent(c.target)
           s == Shared(c)
<1>1. /\ p \in Seq(Name) /\ q \in Seq(Name) /\ c.target \in Seq(Name) /\ c.target # <<>>
      /\ ~IsStrictPrefix(p, c.target) /\ Len(q) = Len(c.target) - 1
      /\ \A i \in 1 .. Len(c.target) - 1 : q[i] = c.target[i]
  BY Paths1
<1>2. /\ s \in Seq(Name) /\ Len(s) \in Nat /\ Len(s) <= Len(p) /\ Len(s) <= Len(q)
      /\ \A i \in 1 .. Len(s) : s[i] = p[i] /\ s[i] = q[i]
      /\ Len(s) < Len(p) /\ Len(s) < Len(q) => p[Len(s) + 1] # q[Len(s) + 1]
  <2>1. s = SharedPath(p, q)
    BY DEF Shared
  <2> HIDE DEF p, q, s
  <2> QED BY <2>1, <1>1, SharedPathIs
<1>3. Len(p) \in Nat /\ Len(q) \in Nat /\ Len(c.target) \in Nat
  BY <1>1, LenProperties
<1>4. Len(s) < Len(p)
  <2> SUFFICES ASSUME Len(s) >= Len(p) PROVE FALSE
    BY <1>2, <1>3
  <2>1. Len(s) = Len(p)
    BY <1>2, <1>3
  <2>2. Len(p) <= Len(c.target) /\ \A i \in 1 .. Len(p) : p[i] = c.target[i]
    <3>1. Len(p) <= Len(c.target) - 1
      BY <2>1, <1>1, <1>2
    <3> HIDE DEF p, q, s
    <3>2. Len(p) <= Len(c.target)
      BY <3>1, <1>3
    <3>3. ASSUME NEW i \in 1 .. Len(p) PROVE p[i] = c.target[i]
      <4>1. i \in 1 .. Len(s) /\ i \in 1 .. Len(c.target) - 1
        BY <3>1, <2>1, <1>3
      <4> QED BY <4>1, <1>1, <1>2
    <3> QED BY <3>2, <3>3
  <2>3. IsPrefix(p, c.target)
    <3> HIDE DEF p
    <3> QED BY <2>2, <1>1, PrefixElements
  <2>4. Len(p) # Len(c.target)
    BY <2>1, <1>1, <1>2, <1>3
  <2>5. p # c.target
    BY <2>4
  <2> QED BY <2>3, <2>5, <1>1 DEF IsStrictPrefix
<1>5. /\ PathBeyond(c, "source") = SubSeq(p, Len(s) + 1, Len(p))
      /\ PathBeyond(c, "target") = SubSeq(q, Len(s) + 1, Len(q))
      /\ Branch(c, 1) = p[Len(s) + 1] /\ Branch(c, 2) = q[Len(s) + 1]
  BY DEF PathBeyond, Beyond, Branch
<1> HIDE DEF p, q, s
<1>6. /\ SubSeq(p, Len(s) + 1, Len(p)) \in Seq(Name)
      /\ SubSeq(p, Len(s) + 1, Len(p)) # <<>> <=> Len(s) < Len(p)
      /\ Len(s) < Len(p) => Head(SubSeq(p, Len(s) + 1, Len(p))) = p[Len(s) + 1]
  BY <1>1, <1>2, Suffix
<1>7. /\ SubSeq(q, Len(s) + 1, Len(q)) \in Seq(Name)
      /\ SubSeq(q, Len(s) + 1, Len(q)) # <<>> <=> Len(s) < Len(q)
      /\ Len(s) < Len(q) => Head(SubSeq(q, Len(s) + 1, Len(q))) = q[Len(s) + 1]
  BY <1>1, <1>2, Suffix
<1> QED BY <1>2, <1>4, <1>5, <1>6, <1>7

-----------------------------------------------------------------------------
(* Lists of things to do, and the same with one more at the front.         *)

\* The sequence s2 is s with x before it.
Prepends(s2, x, s, n) ==
  /\ n \in Nat /\ DOMAIN s = 1 .. n /\ DOMAIN s2 = 1 .. (n + 1)
  /\ s2[1] = x /\ \A i \in 1 .. n : s2[i + 1] = s[i]

\* The list of g2 is x, with the chain B, and then what is on the list of g.
Then(g2, k2, x, B, g, k, n) ==
  /\ g.at = "todo" /\ g2.at = "todo"
  /\ g2.cur = g.cur /\ g2.source = g.source /\ g2.target_parent = g.target_parent
  /\ Prepends(g2.todo, x, g.todo, n) /\ Prepends(k2.chain, B, k.chain, n)

LEMMA IndexSplit ==
  ASSUME NEW n \in Nat, NEW i \in 1 .. (n + 1), i # 1
  PROVE  i - 1 \in 1 .. n /\ (i - 1) + 1 = i
OBVIOUS

LEMMA IndexShift ==
  ASSUME NEW n \in Nat, NEW i \in 1 .. n
  PROVE  i + 1 \in 1 .. (n + 1) /\ i + 1 # 1 /\ (i + 1) - 1 = i
OBVIOUS

LEMMA ListedThen ==
  ASSUME NEW g2, NEW k2, NEW x, NEW B, NEW g, NEW k, NEW n, Then(g2, k2, x, B, g, k, n), NEW kind
  PROVE  Listed(g2, kind) = Listed(g, kind) \cup {m \in NodeId : x = <<kind, m>>}
<1>1. /\ n \in Nat /\ DOMAIN g.todo = 1 .. n /\ DOMAIN g2.todo = 1 .. (n + 1)
      /\ g2.todo[1] = x /\ \A i \in 1 .. n : g2.todo[i + 1] = g.todo[i]
  BY DEF Then, Prepends
<1> SUFFICES ASSUME NEW m \in NodeId
             PROVE  (\E i \in 1 .. (n + 1) : g2.todo[i] = <<kind, m>>)
                      <=> (\E i \in 1 .. n : g.todo[i] = <<kind, m>>) \/ x = <<kind, m>>
  BY <1>1 DEF Listed
<1>2. ASSUME NEW i \in 1 .. (n + 1), g2.todo[i] = <<kind, m>>, x # <<kind, m>>
      PROVE  \E j \in 1 .. n : g.todo[j] = <<kind, m>>
  <2>1. i # 1
    BY <1>1, <1>2
  <2>2. i - 1 \in 1 .. n /\ (i - 1) + 1 = i
    BY <2>1, <1>1, IndexSplit
  <2>3. g.todo[i - 1] = g2.todo[(i - 1) + 1]
    BY <2>2, <1>1
  <2> QED BY <2>2, <2>3, <1>2
<1>3. ASSUME NEW i \in 1 .. n, g.todo[i] = <<kind, m>>
      PROVE  \E j \in 1 .. (n + 1) : g2.todo[j] = <<kind, m>>
  BY <1>1, <1>3, IndexShift
<1>4. 1 \in 1 .. (n + 1)
  BY <1>1
<1> QED BY <1>1, <1>2, <1>3, <1>4

LEMMA CountsThen ==
  ASSUME NEW g2, NEW k2, NEW x, NEW B, NEW g, NEW k, NEW n, Then(g2, k2, x, B, g, k, n)
  PROVE  Counts(k2) = Counts(k) \cup B
<1>1. /\ n \in Nat /\ DOMAIN k.chain = 1 .. n /\ DOMAIN k2.chain = 1 .. (n + 1)
      /\ k2.chain[1] = B /\ \A i \in 1 .. n : k2.chain[i + 1] = k.chain[i]
  BY DEF Then, Prepends
<1>2. ASSUME NEW i \in 1 .. (n + 1), NEW m \in k2.chain[i], m \notin B
      PROVE  \E j \in 1 .. n : m \in k.chain[j]
  <2>1. i # 1
    BY <1>1, <1>2
  <2>2. i - 1 \in 1 .. n /\ (i - 1) + 1 = i
    BY <2>1, <1>1, IndexSplit
  <2>3. k.chain[i - 1] = k2.chain[(i - 1) + 1]
    BY <2>2, <1>1
  <2> QED BY <2>2, <2>3, <1>2
<1>3. ASSUME NEW i \in 1 .. n, NEW m \in k.chain[i]
      PROVE  \E j \in 1 .. (n + 1) : m \in k2.chain[j]
  BY <1>1, <1>3, IndexShift
<1>4. 1 \in 1 .. (n + 1)
  BY <1>1
<1> QED BY <1>1, <1>2, <1>3, <1>4 DEF Counts

LEMMA GoesAwayThen ==
  ASSUME NEW g2, NEW k2, NEW x, NEW B, NEW g, NEW k, NEW n, Then(g2, k2, x, B, g, k, n)
  PROVE  GoesAway(g2, k2) = GoesAway(g, k)
           \cup {m \in NodeId : x[1] = "notify" /\ x[2] = m /\ m \in B}
<1>1. /\ n \in Nat /\ DOMAIN g.todo = 1 .. n /\ DOMAIN g2.todo = 1 .. (n + 1)
      /\ g2.todo[1] = x /\ \A i \in 1 .. n : g2.todo[i + 1] = g.todo[i]
      /\ k2.chain[1] = B /\ \A i \in 1 .. n : k2.chain[i + 1] = k.chain[i]
      /\ g.at = "todo" /\ g2.at = "todo"
  BY DEF Then, Prepends
<1> SUFFICES ASSUME NEW m \in NodeId
             PROVE  (\E j \in 1 .. (n + 1) :
                       g2.todo[j][1] = "notify" /\ g2.todo[j][2] = m /\ m \in k2.chain[j])
                      <=> \/ \E j \in 1 .. n :
                               g.todo[j][1] = "notify" /\ g.todo[j][2] = m /\ m \in k.chain[j]
                          \/ x[1] = "notify" /\ x[2] = m /\ m \in B
  BY <1>1 DEF GoesAway
<1>2. ASSUME NEW j \in 1 .. (n + 1),
             g2.todo[j][1] = "notify" /\ g2.todo[j][2] = m /\ m \in k2.chain[j],
             ~(x[1] = "notify" /\ x[2] = m /\ m \in B)
      PROVE  \E i \in 1 .. n : g.todo[i][1] = "notify" /\ g.todo[i][2] = m /\ m \in k.chain[i]
  <2>1. j # 1
    BY <1>1, <1>2
  <2>2. j - 1 \in 1 .. n /\ (j - 1) + 1 = j
    BY <2>1, <1>1, IndexSplit
  <2>3. g.todo[j - 1] = g2.todo[(j - 1) + 1] /\ k.chain[j - 1] = k2.chain[(j - 1) + 1]
    BY <2>2, <1>1
  <2> QED BY <2>2, <2>3, <1>2
<1>3. ASSUME NEW i \in 1 .. n, g.todo[i][1] = "notify" /\ g.todo[i][2] = m /\ m \in k.chain[i]
      PROVE  \E j \in 1 .. (n + 1) :
               g2.todo[j][1] = "notify" /\ g2.todo[j][2] = m /\ m \in k2.chain[j]
  BY <1>1, <1>3, IndexShift
<1>4. 1 \in 1 .. (n + 1)
  BY <1>1
<1> QED BY <1>1, <1>2, <1>3, <1>4

LEMMA PassesOnThen ==
  ASSUME NEW g2, NEW k2, NEW x, NEW B, NEW g, NEW k, NEW n, Then(g2, k2, x, B, g, k, n)
  PROVE  PassesOn(g2, k2) = PassesOn(g, k)
           \cup {m \in GoesAway(g, k) : x \in {ReaderFinal(m), WriterFinal(m)}}
<1>1. /\ n \in Nat /\ DOMAIN g.todo = 1 .. n /\ DOMAIN g2.todo = 1 .. (n + 1)
      /\ g2.todo[1] = x /\ \A i \in 1 .. n : g2.todo[i + 1] = g.todo[i]
      /\ k2.chain[1] = B /\ \A i \in 1 .. n : k2.chain[i + 1] = k.chain[i]
      /\ g.at = "todo" /\ g2.at = "todo"
  BY DEF Then, Prepends
<1> DEFINE A(m) == \E i, j \in 1 .. n :
                     /\ i < j /\ g.todo[i] \in {ReaderFinal(m), WriterFinal(m)}
                     /\ g.todo[j][1] = "notify" /\ g.todo[j][2] = m /\ m \in k.chain[j]
           A2(m) == \E i, j \in 1 .. (n + 1) :
                     /\ i < j /\ g2.todo[i] \in {ReaderFinal(m), WriterFinal(m)}
                     /\ g2.todo[j][1] = "notify" /\ g2.todo[j][2] = m /\ m \in k2.chain[j]
           Z(m) == \E j \in 1 .. n :
                     g.todo[j][1] = "notify" /\ g.todo[j][2] = m /\ m \in k.chain[j]
<1>2. PassesOn(g, k) = {m \in NodeId : A(m)} /\ PassesOn(g2, k2) = {m \in NodeId : A2(m)}
      /\ GoesAway(g, k) = {m \in NodeId : Z(m)}
  BY <1>1 DEF PassesOn, GoesAway
<1>3. ASSUME NEW m \in NodeId
      PROVE  A2(m) <=> A(m) \/ (Z(m) /\ x \in {ReaderFinal(m), WriterFinal(m)})
  <2>1. ASSUME A2(m)
        PROVE  A(m) \/ (Z(m) /\ x \in {ReaderFinal(m), WriterFinal(m)})
    <3>1. PICK i \in 1 .. (n + 1), j \in 1 .. (n + 1) :
            /\ i < j /\ g2.todo[i] \in {ReaderFinal(m), WriterFinal(m)}
            /\ g2.todo[j][1] = "notify" /\ g2.todo[j][2] = m /\ m \in k2.chain[j]
      BY <2>1
    <3>2. j # 1
      BY <3>1, <1>1
    <3>3. j - 1 \in 1 .. n /\ (j - 1) + 1 = j
      BY <3>2, <1>1, IndexSplit
    <3>4. g.todo[j - 1] = g2.todo[(j - 1) + 1] /\ k.chain[j - 1] = k2.chain[(j - 1) + 1]
      BY <3>3, <1>1
    <3>5. g.todo[j - 1][1] = "notify" /\ g.todo[j - 1][2] = m /\ m \in k.chain[j - 1]
      BY <3>1, <3>3, <3>4
    <3>6. CASE i = 1
      BY <3>1, <3>3, <3>5, <3>6, <1>1
    <3>7. CASE i # 1
      <4>1. i - 1 \in 1 .. n /\ (i - 1) + 1 = i
        BY <3>7, <1>1, IndexSplit
      <4>2. g.todo[i - 1] = g2.todo[(i - 1) + 1]
        BY <4>1, <1>1
      <4>3. i - 1 < j - 1
        BY <3>1, <1>1
      <4> QED BY <4>1, <4>2, <4>3, <3>1, <3>3, <3>5
    <3> QED BY <3>6, <3>7
  <2>2. ASSUME A(m) PROVE A2(m)
    <3>1. PICK i \in 1 .. n, j \in 1 .. n :
            /\ i < j /\ g.todo[i] \in {ReaderFinal(m), WriterFinal(m)}
            /\ g.todo[j][1] = "notify" /\ g.todo[j][2] = m /\ m \in k.chain[j]
      BY <2>2
    <3>2. i + 1 \in 1 .. (n + 1) /\ j + 1 \in 1 .. (n + 1) /\ i + 1 < j + 1
      BY <3>1, <1>1
    <3>3. g2.todo[i + 1] = g.todo[i] /\ g2.todo[j + 1] = g.todo[j] /\ k2.chain[j + 1] = k.chain[j]
      BY <1>1
    <3> QED BY <3>1, <3>2, <3>3
  <2>3. ASSUME Z(m), x \in {ReaderFinal(m), WriterFinal(m)} PROVE A2(m)
    <3>1. PICK j \in 1 .. n : g.todo[j][1] = "notify" /\ g.todo[j][2] = m /\ m \in k.chain[j]
      BY <2>3
    <3>2. 1 \in 1 .. (n + 1) /\ j + 1 \in 1 .. (n + 1) /\ 1 < j + 1
      BY <3>1, <1>1
    <3>3. g2.todo[1] = x /\ g2.todo[j + 1] = g.todo[j] /\ k2.chain[j + 1] = k.chain[j]
      BY <1>1
    <3> QED BY <3>1, <3>2, <3>3, <2>3
  <2> QED BY <2>1, <2>2, <2>3
<1> HIDE DEF A, A2, Z
<1> QED BY <1>2, <1>3

-----------------------------------------------------------------------------
\* When x can come before the list of g.
CanPrecede(c, x, g) ==
  /\ x[1] # "return"
  /\ x[1] = "rename" => c.op = "move" /\ x[2] = g.source /\ g.source # Root
                          /\ g.target_parent \in NodeId
  /\ x[1] = "free" => c.op = "remove" /\ x[2] = g.cur /\ g.cur # Root
  /\ \A j \in DOMAIN g.todo :
       /\ x[1] \in Final /\ g.todo[j][1] \in Final => x[2] # g.todo[j][2]
       /\ x[1] = "mapFinal" /\ g.todo[j][1] = "mapFinal" => x[2] # g.todo[j][2]
       /\ g.todo[j][1] \in Taking => x[1] \in {"writerFinal", "notify"}
       /\ x[1] = "free" => g.todo[j][1] = "return"

LEMMA ListThen ==
  ASSUME NEW c, NEW g2, NEW k2, NEW x, NEW B, NEW g, NEW k, NEW n, Then(g2, k2, x, B, g, k, n),
         g.todo \in Seq(Items), g2.todo \in Seq(Items), ListOK(c, g), CanPrecede(c, x, g)
  PROVE  ListOK(c, g2)
<1>1. /\ n \in Nat /\ DOMAIN g.todo = 1 .. n /\ DOMAIN g2.todo = 1 .. (n + 1)
      /\ g2.todo[1] = x /\ \A i \in 1 .. n : g2.todo[i + 1] = g.todo[i]
      /\ g2.cur = g.cur /\ g2.source = g.source /\ g2.target_parent = g.target_parent
  BY DEF Then, Prepends
<1>2. Len(g.todo) = n /\ Len(g2.todo) = n + 1 /\ n > 0
  BY <1>1, LenProperties DEF ListOK
<1>3. \A i \in 1 .. (n + 1) : i # 1 => i - 1 \in 1 .. n /\ g2.todo[i] = g.todo[i - 1]
  <2> SUFFICES ASSUME NEW i \in 1 .. (n + 1), i # 1
               PROVE  i - 1 \in 1 .. n /\ g2.todo[i] = g.todo[i - 1]
    OBVIOUS
  <2>1. i - 1 \in 1 .. n /\ (i - 1) + 1 = i
    BY <1>1, IndexSplit
  <2>2. g.todo[i - 1] = g2.todo[(i - 1) + 1]
    BY <2>1, <1>1
  <2> QED BY <2>1, <2>2
<1>4. ASSUME NEW i \in 1 .. (n + 1)
      PROVE  /\ g2.todo[i][1] = "return" <=> i = n + 1
             /\ g2.todo[i][1] = "rename" =>
                  c.op = "move" /\ g2.todo[i][2] = g2.source /\ g2.source # Root
                    /\ g2.target_parent \in NodeId
             /\ g2.todo[i][1] = "free" => c.op = "remove" /\ g2.todo[i][2] = g2.cur /\ g2.cur # Root
  <2>1. CASE i = 1
    BY <2>1, <1>1, <1>2 DEF CanPrecede
  <2>2. CASE i # 1
    <3>1. i - 1 \in 1 .. n /\ g2.todo[i] = g.todo[i - 1] /\ (i - 1 = n <=> i = n + 1)
      BY <2>2, <1>1, <1>3
    <3>2. /\ g.todo[i - 1][1] = "return" <=> i - 1 = n
          /\ g.todo[i - 1][1] = "rename" =>
               c.op = "move" /\ g.todo[i - 1][2] = g.source /\ g.source # Root
                 /\ g.target_parent \in NodeId
          /\ g.todo[i - 1][1] = "free" =>
               c.op = "remove" /\ g.todo[i - 1][2] = g.cur /\ g.cur # Root
      BY <3>1, <1>1, <1>2 DEF ListOK
    <3> QED BY <3>1, <3>2, <1>1
  <2> QED BY <2>1, <2>2
<1>5. ASSUME NEW i \in 1 .. (n + 1), NEW j \in 1 .. (n + 1)
      PROVE  /\ i # j /\ g2.todo[i][1] \in Final /\ g2.todo[j][1] \in Final
                  => g2.todo[i][2] # g2.todo[j][2]
             /\ i # j /\ g2.todo[i][1] = "mapFinal" /\ g2.todo[j][1] = "mapFinal"
                  => g2.todo[i][2] # g2.todo[j][2]
             /\ i < j /\ g2.todo[j][1] \in Taking => g2.todo[i][1] \in {"writerFinal", "notify"}
             /\ i < j /\ g2.todo[i][1] = "free" => g2.todo[j][1] = "return"
  <2>1. CASE i = 1 /\ j = 1
    BY <2>1
  <2>2. CASE i = 1 /\ j # 1
    <3>1. j - 1 \in 1 .. n /\ g2.todo[j] = g.todo[j - 1]
      BY <2>2, <1>3
    <3> PICK b \in 1 .. n : b = j - 1
      BY <3>1
    <3>2. g2.todo[j] = g.todo[b] /\ g2.todo[i] = x /\ b \in DOMAIN g.todo
      BY <3>1, <2>2, <1>1
    <3>3. x[1] # "return" /\ x[1] \in Final /\ g.todo[b][1] \in Final => x[2] # g.todo[b][2]
      BY <3>2 DEF CanPrecede
    <3>4. x[1] = "mapFinal" /\ g.todo[b][1] = "mapFinal" => x[2] # g.todo[b][2]
      BY <3>2 DEF CanPrecede
    <3>5. g.todo[b][1] \in Taking => x[1] \in {"writerFinal", "notify"}
      BY <3>2 DEF CanPrecede
    <3>6. x[1] = "free" => g.todo[b][1] = "return"
      BY <3>2 DEF CanPrecede
    <3>7. x[1] \in Final => x[1] # "return"
      BY DEF Final
    <3> QED BY ONLY <3>2, <3>3, <3>4, <3>5, <3>6, <3>7
  <2>3. CASE i # 1 /\ j = 1
    <3>1. ~(i < j)
      BY <2>3
    <3> QED BY <3>1, <2>3, <1>1, <1>3 DEF CanPrecede
  <2>4. CASE i # 1 /\ j # 1
    <3>1. /\ i - 1 \in 1 .. n /\ g2.todo[i] = g.todo[i - 1]
          /\ j - 1 \in 1 .. n /\ g2.todo[j] = g.todo[j - 1]
          /\ (i # j <=> i - 1 # j - 1) /\ (i < j <=> i - 1 < j - 1)
      BY <2>4, <1>1, <1>3
    <3> PICK a, b : a = i - 1 /\ b = j - 1
      OBVIOUS
    <3>2. /\ a \in DOMAIN g.todo /\ g2.todo[i] = g.todo[a]
          /\ b \in DOMAIN g.todo /\ g2.todo[j] = g.todo[b]
          /\ (i # j <=> a # b) /\ (i < j <=> a < b)
      BY <3>1, <1>1
    <3>3. /\ a # b /\ g.todo[a][1] \in Final /\ g.todo[b][1] \in Final
                  => g.todo[a][2] # g.todo[b][2]
          /\ a # b /\ g.todo[a][1] = "mapFinal" /\ g.todo[b][1] = "mapFinal"
                  => g.todo[a][2] # g.todo[b][2]
          /\ a < b /\ g.todo[b][1] \in Taking => g.todo[a][1] \in {"writerFinal", "notify"}
          /\ a < b /\ g.todo[a][1] = "free" => g.todo[b][1] = "return"
      BY <3>2 DEF ListOK
    <3> QED BY <3>2, <3>3
  <2> QED BY <2>1, <2>2, <2>3, <2>4
<1> QED BY <1>1, <1>2, <1>4, <1>5 DEF ListOK

\* And the other way round.
LEMMA ListThenTail ==
  ASSUME NEW c, NEW g2, NEW k2, NEW x, NEW B, NEW g, NEW k, NEW n, Then(g2, k2, x, B, g, k, n),
         g.todo \in Seq(Items), g2.todo \in Seq(Items), ListOK(c, g2), n > 0
  PROVE  ListOK(c, g) /\ CanPrecede(c, x, g)
<1>1. /\ n \in Nat /\ DOMAIN g.todo = 1 .. n /\ DOMAIN g2.todo = 1 .. (n + 1)
      /\ g2.todo[1] = x /\ \A i \in 1 .. n : g2.todo[i + 1] = g.todo[i]
      /\ g2.cur = g.cur /\ g2.source = g.source /\ g2.target_parent = g.target_parent
  BY DEF Then, Prepends
<1>2. Len(g.todo) = n /\ Len(g2.todo) = n + 1
  BY <1>1, LenProperties
<1>3. \A i \in 1 .. n : i + 1 \in DOMAIN g2.todo /\ i + 1 # 1 /\ 1 < i + 1 /\ (i + 1 = n + 1 <=> i = n)
  BY <1>1
<1>4. 1 \in DOMAIN g2.todo /\ 1 # n + 1
  BY <1>1
<1>5. CanPrecede(c, x, g)
  <2>1. /\ x[1] # "return"
        /\ x[1] = "rename" => c.op = "move" /\ x[2] = g.source /\ g.source # Root
                          /\ g.target_parent \in NodeId
        /\ x[1] = "free" => c.op = "remove" /\ x[2] = g.cur /\ g.cur # Root
    BY <1>1, <1>2, <1>4 DEF ListOK
  <2>2. ASSUME NEW j \in 1 .. n
        PROVE  /\ x[1] \in Final /\ g.todo[j][1] \in Final => x[2] # g.todo[j][2]
               /\ x[1] = "mapFinal" /\ g.todo[j][1] = "mapFinal" => x[2] # g.todo[j][2]
               /\ g.todo[j][1] \in Taking => x[1] \in {"writerFinal", "notify"}
               /\ x[1] = "free" => g.todo[j][1] = "return"
    <3> PICK b : b = j + 1
      OBVIOUS
    <3>1. b \in DOMAIN g2.todo /\ 1 # b /\ 1 < b /\ g2.todo[b] = g.todo[j]
      BY <1>1, <1>3
    <3>2. /\ g2.todo[1][1] \in Final /\ g2.todo[b][1] \in Final => g2.todo[1][2] # g2.todo[b][2]
          /\ g2.todo[1][1] = "mapFinal" /\ g2.todo[b][1] = "mapFinal"
                  => g2.todo[1][2] # g2.todo[b][2]
          /\ g2.todo[b][1] \in Taking => g2.todo[1][1] \in {"writerFinal", "notify"}
          /\ g2.todo[1][1] = "free" => g2.todo[b][1] = "return"
      BY <3>1, <1>4 DEF ListOK
    <3> QED BY <3>1, <3>2, <1>1
  <2> QED BY <2>1, <2>2, <1>1 DEF CanPrecede
<1>6. ASSUME NEW i \in 1 .. n
      PROVE  /\ g.todo[i][1] = "return" <=> i = n
             /\ g.todo[i][1] = "rename" =>
                  c.op = "move" /\ g.todo[i][2] = g.source /\ g.source # Root
                    /\ g.target_parent \in NodeId
             /\ g.todo[i][1] = "free" => c.op = "remove" /\ g.todo[i][2] = g.cur /\ g.cur # Root
  <2> PICK b : b = i + 1
    OBVIOUS
  <2>1. b \in DOMAIN g2.todo /\ g2.todo[b] = g.todo[i] /\ (b = n + 1 <=> i = n)
    BY <1>1, <1>3
  <2>2. /\ g2.todo[b][1] = "return" <=> b = n + 1
        /\ g2.todo[b][1] = "rename" =>
             c.op = "move" /\ g2.todo[b][2] = g2.source /\ g2.source # Root
               /\ g2.target_parent \in NodeId
        /\ g2.todo[b][1] = "free" => c.op = "remove" /\ g2.todo[b][2] = g2.cur /\ g2.cur # Root
    BY <2>1, <1>2 DEF ListOK
  <2> QED BY <2>1, <2>2, <1>1
<1>7. ASSUME NEW i \in 1 .. n, NEW j \in 1 .. n
      PROVE  /\ i # j /\ g.todo[i][1] \in Final /\ g.todo[j][1] \in Final
                  => g.todo[i][2] # g.todo[j][2]
             /\ i # j /\ g.todo[i][1] = "mapFinal" /\ g.todo[j][1] = "mapFinal"
                  => g.todo[i][2] # g.todo[j][2]
             /\ i < j /\ g.todo[j][1] \in Taking => g.todo[i][1] \in {"writerFinal", "notify"}
             /\ i < j /\ g.todo[i][1] = "free" => g.todo[j][1] = "return"
  <2> PICK a, b : a = i + 1 /\ b = j + 1
    OBVIOUS
  <2>1. /\ a \in DOMAIN g2.todo /\ g2.todo[a] = g.todo[i]
        /\ b \in DOMAIN g2.todo /\ g2.todo[b] = g.todo[j]
        /\ (i # j <=> a # b) /\ (i < j <=> a < b)
    BY <1>1, <1>3
  <2>2. /\ a # b /\ g2.todo[a][1] \in Final /\ g2.todo[b][1] \in Final
                  => g2.todo[a][2] # g2.todo[b][2]
        /\ a # b /\ g2.todo[a][1] = "mapFinal" /\ g2.todo[b][1] = "mapFinal"
                  => g2.todo[a][2] # g2.todo[b][2]
        /\ a < b /\ g2.todo[b][1] \in Taking => g2.todo[a][1] \in {"writerFinal", "notify"}
        /\ a < b /\ g2.todo[a][1] = "free" => g2.todo[b][1] = "return"
    BY <2>1 DEF ListOK
  <2> QED BY <2>1, <2>2
<1>8. ListOK(c, g)
  <2>1. DOMAIN g.todo = 1 .. n /\ Len(g.todo) = n /\ Len(g.todo) > 0
    BY <1>1, <1>2
  <2> QED BY <2>1, <1>6, <1>7 DEF ListOK
<1> QED BY <1>5, <1>8

-----------------------------------------------------------------------------
(* What a thread with a list is, and its chains.                           *)

LEMMA ItemIs ==
  ASSUME NEW x \in Items
  PROVE  /\ x[1] \in {"readerFinal", "writerFinal", "mapFinal", "rename", "free"}
              => x = <<x[1], x[2]>> /\ x[2] \in NodeId
         /\ x[1] = "notify" => /\ x = <<"notify", x[2], x[3]>>
                               /\ x[2] \in NodeId \cup {NULL} /\ x[3] \in NodeId \cup {NULL}
         /\ x[1] = "return" => x = <<"return", x[2]>>
         /\ x[1] \in {"readerFinal", "writerFinal", "mapFinal", "rename", "free", "notify", "return"}
BY DEF Items

LEMMA ItemsAre ==
  /\ \A n \in NodeId : /\ ReaderFinal(n) \in Items /\ WriterFinal(n) \in Items
                       /\ MapFinal(n) \in Items /\ Rename(n) \in Items /\ Free(n) \in Items
  /\ \A a, b \in NodeId \cup {NULL} : Notify(a, b) \in Items
  /\ \A code \in Codes, names \in SUBSET Name : Return([code |-> code, names |-> names]) \in Items
<1>1. \A n \in NodeId : /\ ReaderFinal(n) \in Items /\ WriterFinal(n) \in Items
                        /\ MapFinal(n) \in Items /\ Rename(n) \in Items /\ Free(n) \in Items
  BY DEF Items, ReaderFinal, WriterFinal, MapFinal, Rename, Free
<1>2. \A a, b \in NodeId \cup {NULL} : Notify(a, b) \in Items
  BY DEF Items, Notify
<1>3. \A code \in Codes, names \in SUBSET Name : Return([code |-> code, names |-> names]) \in Items
  BY DEF Items, Return
<1> QED BY <1>1, <1>2, <1>3

LEMMA ListedIs ==
  ASSUME NEW g, g.todo \in Seq(Items), NEW j \in DOMAIN g.todo
  PROVE  /\ g.todo[j] \in Items
         /\ g.todo[j][1] \in {"readerFinal", "writerFinal", "mapFinal", "rename", "free"}
              => g.todo[j][2] \in Listed(g, g.todo[j][1])
<1>1. g.todo[j] \in Items
  BY LenProperties, ElementOfSeq
<1> PICK x : x = g.todo[j]
  OBVIOUS
<1>2. ASSUME x[1] \in {"readerFinal", "writerFinal", "mapFinal", "rename", "free"}
      PROVE  x[2] \in Listed(g, x[1])
  <2>1. x = <<x[1], x[2]>> /\ x[2] \in NodeId
    BY <1>1, <1>2, ItemIs
  <2> QED BY <2>1 DEF Listed
<1> QED BY <1>1, <1>2

-----------------------------------------------------------------------------
(* The chains of a list. *)

ItemBottom(x) == IF x[1] = "notify" THEN x[2] ELSE NULL
ItemTop(x)    == IF x[1] = "notify" THEN x[3] ELSE NULL

TodoChains(nd, g, k) ==
  /\ DOMAIN k.chain = DOMAIN g.todo
  /\ \A i \in DOMAIN g.todo :
       IsChain(nd, k.chain[i], ItemBottom(g.todo[i]), ItemTop(g.todo[i]))
  /\ \A i, j \in DOMAIN g.todo : i # j => k.chain[i] \cap k.chain[j] = {}
  /\ \A i, j \in DOMAIN g.todo :
       g.todo[i][1] \in Taking /\ g.todo[i][2] \in k.chain[j] => j < i

TodoLocal(nd, c, g, k) ==
  /\ g \in FrameType /\ g.at = "todo" /\ c \in Calls /\ ListOK(c, g)
  /\ TodoChains(nd, g, k)
  /\ k.maps = Listed(g, "mapFinal")

LEMMA TodoLocalIs ==
  ASSUME NEW nd, NEW c, NEW g, NEW k, g.at = "todo"
  PROVE  Local(nd, c, g, k) <=> TodoLocal(nd, c, g, k)
<1>1. ~Going(g) /\ Pending(g) = NULL /\ Slots(g) = DOMAIN g.todo
  BY DEF Going, Pending, Slots, Ahead
<1>2. \A i : Bottom(nd, g, i) = ItemBottom(g.todo[i]) /\ Top(g, i) = ItemTop(g.todo[i])
  BY <1>1 DEF Bottom, Top, ItemBottom, ItemTop
<1>3. ASSUME TodoChains(nd, g, k) PROVE Pending(g) \notin Counts(k)
  <2>1. \A i \in DOMAIN k.chain : k.chain[i] \subseteq NodeId
    BY <1>3 DEF TodoChains, IsChain
  <2> QED BY <2>1, <1>1, TreeAssumption DEF Counts
<1>4. ChainsOK(nd, c, g, k) <=> TodoChains(nd, g, k)
  <2>1. ASSUME ChainsOK(nd, c, g, k) PROVE TodoChains(nd, g, k)
    BY <2>1, <1>1, <1>2 DEF ChainsOK, TodoChains
  <2>2. ASSUME TodoChains(nd, g, k) PROVE ChainsOK(nd, c, g, k)
    BY <2>2, <1>1, <1>2, <1>3 DEF ChainsOK, TodoChains
  <2> QED BY <2>1, <2>2
<1>5. MapsOK(nd, c, g, k) <=> k.maps = Listed(g, "mapFinal")
  <2>1. g.at # "right" /\ g.at \notin {"transfer", "discard", "discarding", "calm"}
    OBVIOUS
  <2> QED BY <2>1 DEF MapsOK
<1>6. FrameOK(c, g) <=> g \in FrameType /\ c \in Calls /\ ListOK(c, g)
  BY <1>1 DEF FrameOK
<1> QED BY <1>4, <1>5, <1>6 DEF Local, TodoLocal

LEMMA ChainsThen ==
  ASSUME NEW nd, NEW g2, NEW k2, NEW x, NEW B, NEW g, NEW k, NEW n, Then(g2, k2, x, B, g, k, n),
         TodoChains(nd, g, k), IsChain(nd, B, ItemBottom(x), ItemTop(x)),
         B \cap Counts(k) = {}, x[1] \in Taking => x[2] \notin Counts(k) \cup B
  PROVE  TodoChains(nd, g2, k2)
<1>1. /\ n \in Nat /\ DOMAIN g.todo = 1 .. n /\ DOMAIN g2.todo = 1 .. (n + 1)
      /\ g2.todo[1] = x /\ \A i \in 1 .. n : g2.todo[i + 1] = g.todo[i]
      /\ DOMAIN k.chain = 1 .. n /\ DOMAIN k2.chain = 1 .. (n + 1)
      /\ k2.chain[1] = B /\ \A i \in 1 .. n : k2.chain[i + 1] = k.chain[i]
  BY DEF Then, Prepends
<1>2. ASSUME NEW i \in 1 .. (n + 1), i # 1
      PROVE  /\ i - 1 \in DOMAIN g.todo /\ g2.todo[i] = g.todo[i - 1] /\ k2.chain[i] = k.chain[i - 1]
             /\ k2.chain[i] \subseteq Counts(k)
  <2>1. i - 1 \in 1 .. n /\ (i - 1) + 1 = i
    BY <1>1, <1>2, IndexSplit
  <2>2. g.todo[i - 1] = g2.todo[(i - 1) + 1] /\ k.chain[i - 1] = k2.chain[(i - 1) + 1]
    BY <2>1, <1>1
  <2> QED BY <2>1, <2>2, <1>1 DEF Counts
<1>3. ASSUME NEW i \in 1 .. (n + 1)
      PROVE  IsChain(nd, k2.chain[i], ItemBottom(g2.todo[i]), ItemTop(g2.todo[i]))
  <2>1. CASE i = 1
    BY <2>1, <1>1
  <2>2. CASE i # 1
    <3>1. IsChain(nd, k.chain[i - 1], ItemBottom(g.todo[i - 1]), ItemTop(g.todo[i - 1]))
      BY <2>2, <1>2 DEF TodoChains
    <3> QED BY <3>1, <2>2, <1>2
  <2> QED BY <2>1, <2>2
<1>4. ASSUME NEW i \in 1 .. (n + 1), NEW j \in 1 .. (n + 1)
      PROVE  /\ i # j => k2.chain[i] \cap k2.chain[j] = {}
             /\ g2.todo[i][1] \in Taking /\ g2.todo[i][2] \in k2.chain[j] => j < i
  <2>1. CASE i = 1 /\ j = 1
    BY <2>1, <1>1
  <2>2. CASE i = 1 /\ j # 1
    BY <2>2, <1>1, <1>2
  <2>3. CASE i # 1 /\ j = 1
    <3>1. j < i
      BY <2>3, <1>1
    <3>2. k2.chain[i] \cap k2.chain[j] = {}
      BY <2>3, <1>1, <1>2
    <3> QED BY <3>1, <3>2
  <2>4. CASE i # 1 /\ j # 1
    <3> PICK a, b : a = i - 1 /\ b = j - 1
      OBVIOUS
    <3>1. /\ a \in DOMAIN g.todo /\ g2.todo[i] = g.todo[a] /\ k2.chain[i] = k.chain[a]
          /\ b \in DOMAIN g.todo /\ g2.todo[j] = g.todo[b] /\ k2.chain[j] = k.chain[b]
      BY <2>4, <1>2
    <3>2. (i # j => a # b) /\ (b < a => j < i)
      BY <1>1
    <3>3. /\ a # b => k.chain[a] \cap k.chain[b] = {}
          /\ g.todo[a][1] \in Taking /\ g.todo[a][2] \in k.chain[b] => b < a
      BY <3>1 DEF TodoChains
    <3> QED BY <3>1, <3>2, <3>3
  <2> QED BY <2>1, <2>2, <2>3, <2>4
<1> QED BY <1>1, <1>3, <1>4 DEF TodoChains

LEMMA ChainsThenTail ==
  ASSUME NEW nd, NEW g2, NEW k2, NEW x, NEW B, NEW g, NEW k, NEW n, Then(g2, k2, x, B, g, k, n),
         TodoChains(nd, g2, k2)
  PROVE  /\ TodoChains(nd, g, k) /\ IsChain(nd, B, ItemBottom(x), ItemTop(x))
         /\ B \cap Counts(k) = {} /\ (x[1] \in Taking => x[2] \notin Counts(k) \cup B)
<1>1. /\ n \in Nat /\ DOMAIN g.todo = 1 .. n /\ DOMAIN g2.todo = 1 .. (n + 1)
      /\ g2.todo[1] = x /\ \A i \in 1 .. n : g2.todo[i + 1] = g.todo[i]
      /\ DOMAIN k.chain = 1 .. n /\ DOMAIN k2.chain = 1 .. (n + 1)
      /\ k2.chain[1] = B /\ \A i \in 1 .. n : k2.chain[i + 1] = k.chain[i]
  BY DEF Then, Prepends
<1>2. 1 \in DOMAIN g2.todo
  BY <1>1
<1>3. \A i \in 1 .. n : i + 1 \in DOMAIN g2.todo /\ i + 1 # 1 /\ ~(i + 1 < 1)
  BY <1>1
<1>4. IsChain(nd, B, ItemBottom(x), ItemTop(x))
  BY <1>1, <1>2 DEF TodoChains
<1>5. B \cap Counts(k) = {}
  <2> SUFFICES ASSUME NEW i \in 1 .. n PROVE B \cap k.chain[i] = {}
    BY <1>1 DEF Counts
  <2> QED BY <1>1, <1>2, <1>3 DEF TodoChains
<1>6. x[1] \in Taking => x[2] \notin Counts(k) \cup B
  <2>1. x[1] \in Taking => x[2] \notin B
    <3>1. ~(1 < 1)
      OBVIOUS
    <3> QED BY <3>1, <1>1, <1>2 DEF TodoChains
  <2>2. ASSUME NEW i \in 1 .. n, x[1] \in Taking PROVE x[2] \notin k.chain[i]
    <3> PICK b : b = i + 1
      OBVIOUS
    <3>1. b \in DOMAIN g2.todo /\ ~(b < 1) /\ k2.chain[b] = k.chain[i]
      BY <1>1, <1>3
    <3> QED BY <3>1, <2>2, <1>1, <1>2 DEF TodoChains
  <2> QED BY <2>1, <2>2, <1>1 DEF Counts
<1>7. ASSUME NEW i \in 1 .. n
      PROVE  IsChain(nd, k.chain[i], ItemBottom(g.todo[i]), ItemTop(g.todo[i]))
  <2> PICK a : a = i + 1
    OBVIOUS
  <2>1. a \in DOMAIN g2.todo /\ g2.todo[a] = g.todo[i] /\ k2.chain[a] = k.chain[i]
    BY <1>1, <1>3
  <2>2. IsChain(nd, k2.chain[a], ItemBottom(g2.todo[a]), ItemTop(g2.todo[a]))
    BY <2>1 DEF TodoChains
  <2> QED BY <2>1, <2>2
<1>8. ASSUME NEW i \in 1 .. n, NEW j \in 1 .. n
      PROVE  /\ i # j => k.chain[i] \cap k.chain[j] = {}
             /\ g.todo[i][1] \in Taking /\ g.todo[i][2] \in k.chain[j] => j < i
  <2> PICK a, b : a = i + 1 /\ b = j + 1
    OBVIOUS
  <2>1. /\ a \in DOMAIN g2.todo /\ g2.todo[a] = g.todo[i] /\ k2.chain[a] = k.chain[i]
        /\ b \in DOMAIN g2.todo /\ g2.todo[b] = g.todo[j] /\ k2.chain[b] = k.chain[j]
    BY <1>1, <1>3
  <2>2. (i # j => a # b) /\ (b < a => j < i)
    BY <1>1
  <2>3. /\ a # b => k2.chain[a] \cap k2.chain[b] = {}
        /\ g2.todo[a][1] \in Taking /\ g2.todo[a][2] \in k2.chain[b] => b < a
    BY <2>1 DEF TodoChains
  <2> QED BY <2>1, <2>2, <2>3
<1>9. TodoChains(nd, g, k)
  BY <1>1, <1>7, <1>8 DEF TodoChains
<1> QED BY <1>4, <1>5, <1>6, <1>9

-----------------------------------------------------------------------------
(* Plans: what a list is for, built from its end.                          *)

LEMMA DoIs ==
  ASSUME NEW f \in FrameType, NEW s \in Seq(Items), NEW g, g = Do(f, s)
  PROVE  /\ g \in FrameType /\ g.at = "todo" /\ g.todo = s
         /\ g.cur = f.cur /\ g.source = f.source /\ g.target_parent = f.target_parent
         /\ g.role = f.role /\ g.walk = f.walk /\ g.shared = f.shared /\ g.next = f.next
         /\ g.rest = f.rest /\ g.skip = f.skip
BY DEF Do, FrameType

LEMMA Prepended ==
  ASSUME NEW nd, NEW c, NEW f \in FrameType, NEW s \in Seq(Items), NEW k,
         TodoLocal(nd, c, Do(f, s), k), NEW s2 \in Seq(Items), NEW x, NEW n,
         Prepends(s2, x, s, n), CanPrecede(c, x, Do(f, s)), NEW B,
         IsChain(nd, B, ItemBottom(x), ItemTop(x)), B \cap Counts(k) = {},
         x[1] \in Taking => x[2] \notin Counts(k) \cup B
  PROVE  \E k2 : TodoLocal(nd, c, Do(f, s2), k2) /\ Then(Do(f, s2), k2, x, B, Do(f, s), k, n)
<1> PICK g, g2 : g = Do(f, s) /\ g2 = Do(f, s2)
  OBVIOUS
<1>1. /\ g.at = "todo" /\ g.todo = s
      /\ g.cur = f.cur /\ g.source = f.source /\ g.target_parent = f.target_parent
  BY ONLY g = Do(f, s), s \in Seq(Items), f \in FrameType, DoIs
<1>2. /\ g2 \in FrameType /\ g2.at = "todo" /\ g2.todo = s2
      /\ g2.cur = f.cur /\ g2.source = f.source /\ g2.target_parent = f.target_parent
  BY ONLY g2 = Do(f, s2), s2 \in Seq(Items), f \in FrameType, DoIs
<1> DEFINE ch == [i \in 1 .. (n + 1) |-> IF i = 1 THEN B ELSE k.chain[i - 1]]
<1> PICK k2 : k2 = [chain |-> ch, maps |-> Listed(g2, "mapFinal")]
  OBVIOUS
<1>3. n \in Nat /\ DOMAIN g.todo = 1 .. n /\ DOMAIN k.chain = 1 .. n
  BY <1>1 DEF Prepends, TodoLocal, TodoChains
<1>4. Prepends(ch, B, k.chain, n)
  <2>1. DOMAIN ch = 1 .. (n + 1) /\ 1 \in 1 .. (n + 1) /\ ch[1] = B
    BY <1>3
  <2>2. \A i \in 1 .. n : ch[i + 1] = k.chain[i]
    BY <1>3, IndexShift
  <2> HIDE DEF ch
  <2> QED BY <2>1, <2>2, <1>3 DEF Prepends
<1>5. k2.chain = ch /\ k2.maps = Listed(g2, "mapFinal")
  OBVIOUS
<1> HIDE DEF ch
<1>6. Then(g2, k2, x, B, g, k, n)
  BY <1>1, <1>2, <1>4, <1>5 DEF Then
<1>7. TodoLocal(nd, c, g, k) /\ CanPrecede(c, x, g)
  OBVIOUS
<1>8. c \in Calls /\ ListOK(c, g) /\ TodoChains(nd, g, k)
  BY <1>7 DEF TodoLocal
<1>9. ListOK(c, g2)
  BY ONLY <1>1, <1>2, <1>6, <1>7, <1>8, s \in Seq(Items), s2 \in Seq(Items), ListThen
<1>10. TodoChains(nd, g2, k2)
  BY <1>6, <1>8, ChainsThen
<1>11. TodoLocal(nd, c, g2, k2)
  BY <1>2, <1>5, <1>8, <1>9, <1>10 DEF TodoLocal
<1> QED BY <1>6, <1>11

-----------------------------------------------------------------------------
\* A list, with chains, that will leave these folders, and so on.
Account(g, k, R, W, C, N, D, G, P) ==
  /\ Reads(g) = R /\ Writes(g) = W /\ Counts(k) = C
  /\ Listed(g, "rename") = N /\ Listed(g, "free") = D
  /\ G \subseteq GoesAway(g, k) /\ P \subseteq PassesOn(g, k)

Plan(nd, c, f, s, R, W, M, C, N, D, G, P) ==
  /\ s \in Seq(Items)
  /\ \E k : /\ TodoLocal(nd, c, Do(f, s), k) /\ k.maps = M
            /\ Account(Do(f, s), k, R, W, C, N, D, G, P)

\* What is on a list of a plan.
LEMMA PlanItems ==
  ASSUME NEW g, g.at = "todo", g.todo \in Seq(Items), NEW j \in DOMAIN g.todo
  PROVE  /\ g.todo[j][1] \in Final => g.todo[j][2] \in Reads(g) \cup Writes(g)
         /\ g.todo[j][1] = "mapFinal" => g.todo[j][2] \in Listed(g, "mapFinal")
         /\ g.todo[j][1] \in Taking => g.todo[j][2] \in Listed(g, "rename") \cup Listed(g, "free")
         /\ g.todo[j][1] = "return" <=> ~(g.todo[j][1] \in Final \cup Taking \cup {"mapFinal", "notify"})
<1>1. /\ g.todo[j] \in Items
      /\ g.todo[j][1] \in {"readerFinal", "writerFinal", "mapFinal", "rename", "free"}
              => g.todo[j][2] \in Listed(g, g.todo[j][1])
  BY ListedIs
<1>2. Reads(g) = Listed(g, "readerFinal") /\ Writes(g) = Listed(g, "writerFinal")
  BY DEF Reads, Writes
<1> PICK a : a = g.todo[j][1]
  OBVIOUS
<1>3. a \in {"readerFinal", "writerFinal", "mapFinal", "rename", "free", "notify", "return"}
  BY <1>1, ItemIs
<1>4. a \in Final => a \in {"readerFinal", "writerFinal"}
  BY DEF Final
<1>5. a \in Taking => a \in {"rename", "free"}
  BY DEF Taking
<1>6. a = "return" <=> ~(a \in Final \cup Taking \cup {"mapFinal", "notify"})
  BY <1>3 DEF Final, Taking
<1> QED BY <1>1, <1>2, <1>4, <1>5, <1>6

\* The sets of a plan with one thing more to do.
LEMMA AccountThen ==
  ASSUME NEW g2, NEW k2, NEW x, NEW B, NEW g, NEW k, NEW n, Then(g2, k2, x, B, g, k, n),
         NEW R, NEW W, NEW C, NEW N, NEW D, NEW G, NEW P, Account(g, k, R, W, C, N, D, G, P)
  PROVE  Account(g2, k2, R \cup {m \in NodeId : x = ReaderFinal(m)},
                 W \cup {m \in NodeId : x = WriterFinal(m)}, C \cup B,
                 N \cup {m \in NodeId : x = Rename(m)}, D \cup {m \in NodeId : x = Free(m)},
                 G \cup {m \in NodeId \cap B : x[1] = "notify" /\ x[2] = m},
                 P \cup {m \in G : x \in {ReaderFinal(m), WriterFinal(m)}})
<1>1. g.at = "todo" /\ g2.at = "todo"
  BY DEF Then
<1>2. /\ Reads(g) = Listed(g, "readerFinal") /\ Writes(g) = Listed(g, "writerFinal")
      /\ Reads(g2) = Listed(g2, "readerFinal") /\ Writes(g2) = Listed(g2, "writerFinal")
  BY <1>1 DEF Reads, Writes
<1>3. \A kind : Listed(g2, kind) = Listed(g, kind) \cup {m \in NodeId : x = <<kind, m>>}
  BY ListedThen
<1>4. /\ Reads(g) = R /\ Writes(g) = W /\ Counts(k) = C
      /\ Listed(g, "rename") = N /\ Listed(g, "free") = D
      /\ G \subseteq GoesAway(g, k) /\ P \subseteq PassesOn(g, k)
  BY DEF Account
<1>5. Reads(g2) = R \cup {m \in NodeId : x = ReaderFinal(m)}
      /\ Writes(g2) = W \cup {m \in NodeId : x = WriterFinal(m)}
  BY <1>2, <1>3, <1>4 DEF ReaderFinal, WriterFinal
<1>6. Counts(k2) = C \cup B
  BY <1>4, CountsThen
<1>7. Listed(g2, "rename") = N \cup {m \in NodeId : x = Rename(m)}
      /\ Listed(g2, "free") = D \cup {m \in NodeId : x = Free(m)}
  BY <1>3, <1>4 DEF Rename, Free
<1>8. GoesAway(g2, k2) = GoesAway(g, k)
           \cup {m \in NodeId : x[1] = "notify" /\ x[2] = m /\ m \in B}
  BY GoesAwayThen
<1>9. PassesOn(g2, k2) = PassesOn(g, k)
           \cup {m \in GoesAway(g, k) : x \in {ReaderFinal(m), WriterFinal(m)}}
  BY PassesOnThen
<1>10. G \cup {m \in NodeId \cap B : x[1] = "notify" /\ x[2] = m} \subseteq GoesAway(g2, k2)
  BY <1>4, <1>8
<1>11. P \cup {m \in G : x \in {ReaderFinal(m), WriterFinal(m)}} \subseteq PassesOn(g2, k2)
  BY <1>4, <1>9
<1> QED BY <1>5, <1>6, <1>7, <1>10, <1>11 DEF Account

-----------------------------------------------------------------------------
(* Plans, item by item.                                                    *)

\* The list s2 is x and then s.
Before(s2, x, s) ==
  s \in Seq(Items) /\ s2 \in Seq(Items) /\ Prepends(s2, x, s, Len(s))

LEMMA BeforeOne ==
  ASSUME NEW x \in Items, NEW s \in Seq(Items)
  PROVE  Before(<<x>> \o s, x, s)
<1>1. <<x>> \in Seq(Items) /\ Len(<<x>>) = 1 /\ Len(s) \in Nat /\ DOMAIN s = 1 .. Len(s)
  BY LenProperties
<1> PICK y, n : y = <<x>> /\ n = Len(s)
  OBVIOUS
<1>2. y \in Seq(Items) /\ Len(y) = 1 /\ n \in Nat /\ y[1] = x
  BY <1>1
<1> PICK s2 : s2 = y \o s
  OBVIOUS
<1>3. /\ s2 \in Seq(Items) /\ Len(s2) = 1 + n
      /\ \A i \in 1 .. 1 + n : s2[i] = IF i <= 1 THEN y[i] ELSE s[i - 1]
  <2>1. /\ y \o s \in Seq(Items)
        /\ Len(y \o s) = Len(y) + Len(s)
        /\ \A i \in 1 .. Len(y) + Len(s) : (y \o s)[i] = IF i <= Len(y) THEN y[i] ELSE s[i - Len(y)]
    BY ONLY <1>2, s \in Seq(Items), ConcatProperties
  <2> QED BY <2>1, <1>2
<1>4. DOMAIN s2 = 1 .. (n + 1)
  BY <1>2, <1>3, LenProperties
<1>5. s2[1] = x
  BY <1>2, <1>3
<1>6. ASSUME NEW i \in 1 .. n PROVE s2[i + 1] = s[i]
  <2>1. i + 1 \in 1 .. 1 + n /\ ~(i + 1 <= 1) /\ (i + 1) - 1 = i
    BY <1>2
  <2> PICK j : j = i + 1
    OBVIOUS
  <2>2. j \in 1 .. 1 + n /\ ~(j <= 1) /\ j - 1 = i
    BY <2>1
  <2>3. s2[j] = s[j - 1]
    BY <2>2, <1>3
  <2> QED BY <2>2, <2>3
<1>7. Prepends(s2, x, s, n)
  BY <1>1, <1>2, <1>4, <1>5, <1>6 DEF Prepends
<1> QED BY <1>3, <1>7 DEF Before

\* There is one such list.
LEMMA BeforeOnly ==
  ASSUME NEW x, NEW s, NEW s2, NEW s3, Before(s2, x, s), Before(s3, x, s)
  PROVE  s2 = s3
<1>1. /\ s2 \in Seq(Items) /\ s3 \in Seq(Items) /\ Len(s) \in Nat
      /\ DOMAIN s2 = 1 .. (Len(s) + 1) /\ DOMAIN s3 = 1 .. (Len(s) + 1)
      /\ s2[1] = x /\ s3[1] = x
      /\ \A i \in 1 .. Len(s) : s2[i + 1] = s[i] /\ s3[i + 1] = s[i]
  BY DEF Before, Prepends
<1>2. ASSUME NEW i \in 1 .. (Len(s) + 1) PROVE s2[i] = s3[i]
  <2>1. CASE i = 1
    BY <2>1, <1>1
  <2>2. CASE i # 1
    <3> PICK j : j = i - 1
      OBVIOUS
    <3>1. j \in 1 .. Len(s) /\ j + 1 = i
      BY <2>2, <1>1, IndexSplit
    <3>2. s2[j + 1] = s[j] /\ s3[j + 1] = s[j]
      BY <3>1, <1>1
    <3> QED BY <3>1, <3>2
  <2> QED BY <2>1, <2>2
<1>3. Len(s2) = Len(s) + 1 /\ Len(s3) = Len(s) + 1
  BY <1>1, LenProperties
<1> QED BY <1>1, <1>2, <1>3, SeqEqual

LEMMA BeforeCat ==
  ASSUME NEW a, NEW x, NEW b, Before(a, x, b), NEW s \in Seq(Items), x \in Items
  PROVE  Before(a \o s, x, b \o s)
<1>1. a = <<x>> \o b /\ b \in Seq(Items)
  <2>1. b \in Seq(Items)
    BY DEF Before
  <2>2. Before(<<x>> \o b, x, b)
    BY <2>1, BeforeOne
  <2>3. a = <<x>> \o b
    BY ONLY <2>2, BeforeOnly, Before(a, x, b)
  <2> QED BY <2>1, <2>3
<1>2. b \o s \in Seq(Items)
  BY <1>1, ConcatProperties
<1>3. Before(<<x>> \o (b \o s), x, b \o s)
  BY <1>2, BeforeOne
<1> PICK y : y = <<x>>
  OBVIOUS
<1>4. y \in Seq(Items)
  OBVIOUS
<1>5. (y \o b) \o s = y \o (b \o s)
  BY ONLY <1>1, <1>4, s \in Seq(Items), ConcatAssociative
<1> QED BY <1>1, <1>3, <1>5

LEMMA BeforeTuple ==
  ASSUME NEW a \in Items, NEW b \in Items, NEW c \in Items, NEW d \in Items,
         NEW e \in Items, NEW f \in Items
  PROVE  /\ Before(<<a, b>>, a, <<b>>)
         /\ Before(<<a, b, c>>, a, <<b, c>>)
         /\ Before(<<a, b, c, d>>, a, <<b, c, d>>)
         /\ Before(<<a, b, c, d, e>>, a, <<b, c, d, e>>)
         /\ Before(<<a, b, c, d, e, f>>, a, <<b, c, d, e, f>>)
<1>1. Before(<<a, b>>, a, <<b>>)
  <2>1. /\ <<b>> \in Seq(Items) /\ <<a, b>> \in Seq(Items) /\ Len(<<b>>) = 1
        /\ DOMAIN <<b>> = 1 .. 1 /\ DOMAIN <<a, b>> = 1 .. 1 + 1
    OBVIOUS
  <2>2. \A i \in 1 .. 1 : <<a, b>>[i + 1] = <<b>>[i]
    OBVIOUS
  <2> QED BY <2>1, <2>2 DEF Before, Prepends
<1>2. Before(<<a, b, c>>, a, <<b, c>>)
  <2>1. /\ <<b, c>> \in Seq(Items) /\ <<a, b, c>> \in Seq(Items) /\ Len(<<b, c>>) = 2
        /\ DOMAIN <<b, c>> = 1 .. 2 /\ DOMAIN <<a, b, c>> = 1 .. 2 + 1
    OBVIOUS
  <2>2. \A i \in 1 .. 2 : <<a, b, c>>[i + 1] = <<b, c>>[i]
    OBVIOUS
  <2> QED BY <2>1, <2>2 DEF Before, Prepends
<1>3. Before(<<a, b, c, d>>, a, <<b, c, d>>)
  <2>1. /\ <<b, c, d>> \in Seq(Items) /\ <<a, b, c, d>> \in Seq(Items) /\ Len(<<b, c, d>>) = 3
        /\ DOMAIN <<b, c, d>> = 1 .. 3 /\ DOMAIN <<a, b, c, d>> = 1 .. 3 + 1
    OBVIOUS
  <2>2. \A i \in 1 .. 3 : <<a, b, c, d>>[i + 1] = <<b, c, d>>[i]
    OBVIOUS
  <2> QED BY <2>1, <2>2 DEF Before, Prepends
<1>4. Before(<<a, b, c, d, e>>, a, <<b, c, d, e>>)
  <2>1. /\ <<b, c, d, e>> \in Seq(Items) /\ <<a, b, c, d, e>> \in Seq(Items) /\ Len(<<b, c, d, e>>) = 4
        /\ DOMAIN <<b, c, d, e>> = 1 .. 4 /\ DOMAIN <<a, b, c, d, e>> = 1 .. 4 + 1
    OBVIOUS
  <2>2. \A i \in 1 .. 4 : <<a, b, c, d, e>>[i + 1] = <<b, c, d, e>>[i]
    OBVIOUS
  <2> QED BY <2>1, <2>2 DEF Before, Prepends
<1>5. Before(<<a, b, c, d, e, f>>, a, <<b, c, d, e, f>>)
  <2>1. /\ <<b, c, d, e, f>> \in Seq(Items) /\ <<a, b, c, d, e, f>> \in Seq(Items) /\ Len(<<b, c, d, e, f>>) = 5
        /\ DOMAIN <<b, c, d, e, f>> = 1 .. 5 /\ DOMAIN <<a, b, c, d, e, f>> = 1 .. 5 + 1
    OBVIOUS
  <2>2. \A i \in 1 .. 5 : <<a, b, c, d, e, f>>[i + 1] = <<b, c, d, e, f>>[i]
    OBVIOUS
  <2> QED BY <2>1, <2>2 DEF Before, Prepends
<1> QED BY <1>1, <1>2, <1>3, <1>4, <1>5

-----------------------------------------------------------------------------
(* Plans, from their end. *)

LEMMA PlanReturn ==
  ASSUME NEW nd, NEW c \in Calls, NEW f \in FrameType, NEW r, Return(r) \in Items
  PROVE  Plan(nd, c, f, <<Return(r)>>, {}, {}, {}, {}, {}, {}, {}, {})
<1> PICK s, k, g : s = <<Return(r)>> /\ k = [chain |-> <<{}>>, maps |-> {}] /\ g = Do(f, s)
  OBVIOUS
<1>1. s \in Seq(Items) /\ Len(s) = 1 /\ DOMAIN s = {1} /\ s[1] = Return(r)
  OBVIOUS
<1>2. k.chain = <<{}>> /\ k.maps = {} /\ DOMAIN k.chain = {1} /\ k.chain[1] = {}
  OBVIOUS
<1>3. g \in FrameType /\ g.at = "todo" /\ g.todo = s
  BY ONLY <1>1, g = Do(f, s), f \in FrameType, DoIs
<1>4. Return(r)[1] = "return"
  BY DEF Return
<1>5. \A kind \in {"readerFinal", "writerFinal", "mapFinal", "rename", "free"} : Listed(g, kind) = {}
  BY <1>1, <1>3 DEF Listed, Return
<1>6. ListOK(c, g)
  <2>1. Len(s) > 0
    BY <1>1
  <2> QED BY <2>1, <1>1, <1>3, <1>4 DEF ListOK, Final, Taking
<1>7. TodoChains(nd, g, k)
  BY <1>1, <1>2, <1>3, <1>4 DEF TodoChains, IsChain, ItemBottom, ItemTop, Taking
<1>8. TodoLocal(nd, c, g, k) /\ k.maps = {}
  BY <1>2, <1>3, <1>5, <1>6, <1>7 DEF TodoLocal
<1>9. Account(g, k, {}, {}, {}, {}, {}, {}, {})
  <2>1. Counts(k) = {}
    BY <1>2 DEF Counts
  <2> QED BY <2>1, <1>3, <1>5 DEF Account, Reads, Writes
<1> QED BY <1>1, <1>8, <1>9 DEF Plan

LEMMA PlanReader ==
  ASSUME NEW nd, NEW c, NEW f \in FrameType, NEW s, NEW s2,
         NEW R, NEW W, NEW M, NEW C, NEW N, NEW D, NEW G, NEW P,
         NEW n \in NodeId, n \notin R \cup W, N = {}, D = {},
         Plan(nd, c, f, s, R, W, M, C, N, D, G, P), Before(s2, ReaderFinal(n), s)
  PROVE  Plan(nd, c, f, s2, R \cup {n}, W, M, C, {}, {}, G, P \cup (G \cap {n}))
<1> PICK x : x = ReaderFinal(n)
  OBVIOUS
<1>1. PICK k : /\ TodoLocal(nd, c, Do(f, s), k) /\ k.maps = M
               /\ Account(Do(f, s), k, R, W, C, N, D, G, P)
  BY DEF Plan
<1>2. s \in Seq(Items) /\ s2 \in Seq(Items) /\ Prepends(s2, x, s, Len(s))
  BY DEF Before
<1> PICK g : g = Do(f, s)
  OBVIOUS
<1>3. g.at = "todo" /\ g.todo = s /\ g.cur = f.cur /\ g.source = f.source
      /\ g.target_parent = f.target_parent
  BY ONLY <1>2, g = Do(f, s), f \in FrameType, DoIs
<1>4. /\ Reads(g) = R /\ Writes(g) = W /\ Counts(k) = C /\ Listed(g, "mapFinal") = M
      /\ Listed(g, "rename") = N /\ Listed(g, "free") = D
  BY <1>1 DEF Account, TodoLocal
<1>5. \A j \in DOMAIN g.todo :
        /\ g.todo[j][1] \in Final => g.todo[j][2] \in R \cup W
        /\ g.todo[j][1] = "mapFinal" => g.todo[j][2] \in M
        /\ g.todo[j][1] \in Taking => g.todo[j][2] \in N \cup D
        /\ g.todo[j][1] = "return" <=> ~(g.todo[j][1] \in Final \cup Taking \cup {"mapFinal", "notify"})
  BY <1>2, <1>3, <1>4, PlanItems
<1>6. CanPrecede(c, x, g)
  <2>1. x[1] = "readerFinal" /\ x[2] = n
    BY DEF ReaderFinal, WriterFinal, MapFinal, Rename, Free
  <2>2. \A j \in DOMAIN g.todo :
       /\ x[1] \in Final /\ g.todo[j][1] \in Final => x[2] # g.todo[j][2]
       /\ x[1] = "mapFinal" /\ g.todo[j][1] = "mapFinal" => x[2] # g.todo[j][2]
       /\ g.todo[j][1] \in Taking => x[1] \in {"writerFinal", "notify"}
       /\ x[1] = "free" => g.todo[j][1] = "return"
    BY <2>1, <1>5 DEF Final, Taking
  <2> QED BY <2>1, <2>2, <1>3 DEF CanPrecede
<1> PICK B : B = {}
  OBVIOUS
<1>7. IsChain(nd, B, ItemBottom(x), ItemTop(x))
  <2>1. ItemBottom(x) = NULL /\ ItemTop(x) = NULL
    BY DEF ItemBottom, ItemTop, ReaderFinal, WriterFinal, MapFinal, Rename, Free
  <2> QED BY <2>1 DEF IsChain
<1>8. B \cap Counts(k) = {} /\ (x[1] \in Taking => x[2] \notin Counts(k) \cup B)
  BY <1>4 DEF Taking, ReaderFinal, WriterFinal, MapFinal, Notify, Rename, Free
<1>9. PICK k2 : TodoLocal(nd, c, Do(f, s2), k2) /\ Then(Do(f, s2), k2, x, B, Do(f, s), k, Len(s))
  BY ONLY <1>1, <1>2, <1>6, <1>7, <1>8, f \in FrameType, g = Do(f, s), Prepended
<1>10. Account(Do(f, s2), k2, R \cup {m \in NodeId : x = ReaderFinal(m)},
                 W \cup {m \in NodeId : x = WriterFinal(m)}, C \cup B,
                 N \cup {m \in NodeId : x = Rename(m)}, D \cup {m \in NodeId : x = Free(m)},
                 G \cup {m \in NodeId \cap B : x[1] = "notify" /\ x[2] = m},
                 P \cup {m \in G : x \in {ReaderFinal(m), WriterFinal(m)}})
  BY ONLY <1>1, <1>9, AccountThen
<1>11. /\ {m \in NodeId : x = ReaderFinal(m)} = {n}
       /\ {m \in NodeId : x = WriterFinal(m)} = {}
       /\ {m \in NodeId : x = MapFinal(m)} = {}
       /\ {m \in NodeId : x = Rename(m)} = {}
       /\ {m \in NodeId : x = Free(m)} = {}
       /\ {m \in NodeId \cap B : x[1] = "notify" /\ x[2] = m} = {}
       /\ {m \in G : x \in {ReaderFinal(m), WriterFinal(m)}} = G \cap {n}
  BY DEF ReaderFinal, WriterFinal, MapFinal, Notify, Rename, Free
<1>12. k2.maps = M \cup {m \in NodeId : x = MapFinal(m)}
  <2>1. Listed(Do(f, s2), "mapFinal") = Listed(g, "mapFinal") \cup {m \in NodeId : x = <<"mapFinal", m>>}
    BY <1>9, ListedThen
  <2> QED BY <2>1, <1>4, <1>9 DEF TodoLocal, MapFinal
<1> QED BY <1>2, <1>9, <1>10, <1>11, <1>12 DEF Plan

LEMMA PlanWriter ==
  ASSUME NEW nd, NEW c, NEW f \in FrameType, NEW s, NEW s2,
         NEW R, NEW W, NEW M, NEW C, NEW N, NEW D, NEW G, NEW P,
         NEW n \in NodeId, n \notin R \cup W,
         Plan(nd, c, f, s, R, W, M, C, N, D, G, P), Before(s2, WriterFinal(n), s)
  PROVE  Plan(nd, c, f, s2, R, W \cup {n}, M, C, N, D, G, P \cup (G \cap {n}))
<1> PICK x : x = WriterFinal(n)
  OBVIOUS
<1>1. PICK k : /\ TodoLocal(nd, c, Do(f, s), k) /\ k.maps = M
               /\ Account(Do(f, s), k, R, W, C, N, D, G, P)
  BY DEF Plan
<1>2. s \in Seq(Items) /\ s2 \in Seq(Items) /\ Prepends(s2, x, s, Len(s))
  BY DEF Before
<1> PICK g : g = Do(f, s)
  OBVIOUS
<1>3. g.at = "todo" /\ g.todo = s /\ g.cur = f.cur /\ g.source = f.source
      /\ g.target_parent = f.target_parent
  BY ONLY <1>2, g = Do(f, s), f \in FrameType, DoIs
<1>4. /\ Reads(g) = R /\ Writes(g) = W /\ Counts(k) = C /\ Listed(g, "mapFinal") = M
      /\ Listed(g, "rename") = N /\ Listed(g, "free") = D
  BY <1>1 DEF Account, TodoLocal
<1>5. \A j \in DOMAIN g.todo :
        /\ g.todo[j][1] \in Final => g.todo[j][2] \in R \cup W
        /\ g.todo[j][1] = "mapFinal" => g.todo[j][2] \in M
        /\ g.todo[j][1] \in Taking => g.todo[j][2] \in N \cup D
        /\ g.todo[j][1] = "return" <=> ~(g.todo[j][1] \in Final \cup Taking \cup {"mapFinal", "notify"})
  BY <1>2, <1>3, <1>4, PlanItems
<1>6. CanPrecede(c, x, g)
  <2>1. x[1] = "writerFinal" /\ x[2] = n
    BY DEF ReaderFinal, WriterFinal, MapFinal, Rename, Free
  <2>2. \A j \in DOMAIN g.todo :
       /\ x[1] \in Final /\ g.todo[j][1] \in Final => x[2] # g.todo[j][2]
       /\ x[1] = "mapFinal" /\ g.todo[j][1] = "mapFinal" => x[2] # g.todo[j][2]
       /\ g.todo[j][1] \in Taking => x[1] \in {"writerFinal", "notify"}
       /\ x[1] = "free" => g.todo[j][1] = "return"
    BY <2>1, <1>5 DEF Final, Taking
  <2> QED BY <2>1, <2>2, <1>3 DEF CanPrecede
<1> PICK B : B = {}
  OBVIOUS
<1>7. IsChain(nd, B, ItemBottom(x), ItemTop(x))
  <2>1. ItemBottom(x) = NULL /\ ItemTop(x) = NULL
    BY DEF ItemBottom, ItemTop, ReaderFinal, WriterFinal, MapFinal, Rename, Free
  <2> QED BY <2>1 DEF IsChain
<1>8. B \cap Counts(k) = {} /\ (x[1] \in Taking => x[2] \notin Counts(k) \cup B)
  BY <1>4 DEF Taking, ReaderFinal, WriterFinal, MapFinal, Notify, Rename, Free
<1>9. PICK k2 : TodoLocal(nd, c, Do(f, s2), k2) /\ Then(Do(f, s2), k2, x, B, Do(f, s), k, Len(s))
  BY ONLY <1>1, <1>2, <1>6, <1>7, <1>8, f \in FrameType, g = Do(f, s), Prepended
<1>10. Account(Do(f, s2), k2, R \cup {m \in NodeId : x = ReaderFinal(m)},
                 W \cup {m \in NodeId : x = WriterFinal(m)}, C \cup B,
                 N \cup {m \in NodeId : x = Rename(m)}, D \cup {m \in NodeId : x = Free(m)},
                 G \cup {m \in NodeId \cap B : x[1] = "notify" /\ x[2] = m},
                 P \cup {m \in G : x \in {ReaderFinal(m), WriterFinal(m)}})
  BY ONLY <1>1, <1>9, AccountThen
<1>11. /\ {m \in NodeId : x = ReaderFinal(m)} = {}
       /\ {m \in NodeId : x = WriterFinal(m)} = {n}
       /\ {m \in NodeId : x = MapFinal(m)} = {}
       /\ {m \in NodeId : x = Rename(m)} = {}
       /\ {m \in NodeId : x = Free(m)} = {}
       /\ {m \in NodeId \cap B : x[1] = "notify" /\ x[2] = m} = {}
       /\ {m \in G : x \in {ReaderFinal(m), WriterFinal(m)}} = G \cap {n}
  BY DEF ReaderFinal, WriterFinal, MapFinal, Notify, Rename, Free
<1>12. k2.maps = M \cup {m \in NodeId : x = MapFinal(m)}
  <2>1. Listed(Do(f, s2), "mapFinal") = Listed(g, "mapFinal") \cup {m \in NodeId : x = <<"mapFinal", m>>}
    BY <1>9, ListedThen
  <2> QED BY <2>1, <1>4, <1>9 DEF TodoLocal, MapFinal
<1> QED BY <1>2, <1>9, <1>10, <1>11, <1>12 DEF Plan

LEMMA PlanMap ==
  ASSUME NEW nd, NEW c, NEW f \in FrameType, NEW s, NEW s2,
         NEW R, NEW W, NEW M, NEW C, NEW N, NEW D, NEW G, NEW P,
         NEW n \in NodeId, n \notin M, N = {}, D = {},
         Plan(nd, c, f, s, R, W, M, C, N, D, G, P), Before(s2, MapFinal(n), s)
  PROVE  Plan(nd, c, f, s2, R, W, M \cup {n}, C, {}, {}, G, P)
<1> PICK x : x = MapFinal(n)
  OBVIOUS
<1>1. PICK k : /\ TodoLocal(nd, c, Do(f, s), k) /\ k.maps = M
               /\ Account(Do(f, s), k, R, W, C, N, D, G, P)
  BY DEF Plan
<1>2. s \in Seq(Items) /\ s2 \in Seq(Items) /\ Prepends(s2, x, s, Len(s))
  BY DEF Before
<1> PICK g : g = Do(f, s)
  OBVIOUS
<1>3. g.at = "todo" /\ g.todo = s /\ g.cur = f.cur /\ g.source = f.source
      /\ g.target_parent = f.target_parent
  BY ONLY <1>2, g = Do(f, s), f \in FrameType, DoIs
<1>4. /\ Reads(g) = R /\ Writes(g) = W /\ Counts(k) = C /\ Listed(g, "mapFinal") = M
      /\ Listed(g, "rename") = N /\ Listed(g, "free") = D
  BY <1>1 DEF Account, TodoLocal
<1>5. \A j \in DOMAIN g.todo :
        /\ g.todo[j][1] \in Final => g.todo[j][2] \in R \cup W
        /\ g.todo[j][1] = "mapFinal" => g.todo[j][2] \in M
        /\ g.todo[j][1] \in Taking => g.todo[j][2] \in N \cup D
        /\ g.todo[j][1] = "return" <=> ~(g.todo[j][1] \in Final \cup Taking \cup {"mapFinal", "notify"})
  BY <1>2, <1>3, <1>4, PlanItems
<1>6. CanPrecede(c, x, g)
  <2>1. x[1] = "mapFinal" /\ x[2] = n
    BY DEF ReaderFinal, WriterFinal, MapFinal, Rename, Free
  <2>2. \A j \in DOMAIN g.todo :
       /\ x[1] \in Final /\ g.todo[j][1] \in Final => x[2] # g.todo[j][2]
       /\ x[1] = "mapFinal" /\ g.todo[j][1] = "mapFinal" => x[2] # g.todo[j][2]
       /\ g.todo[j][1] \in Taking => x[1] \in {"writerFinal", "notify"}
       /\ x[1] = "free" => g.todo[j][1] = "return"
    BY <2>1, <1>5 DEF Final, Taking
  <2> QED BY <2>1, <2>2, <1>3 DEF CanPrecede
<1> PICK B : B = {}
  OBVIOUS
<1>7. IsChain(nd, B, ItemBottom(x), ItemTop(x))
  <2>1. ItemBottom(x) = NULL /\ ItemTop(x) = NULL
    BY DEF ItemBottom, ItemTop, ReaderFinal, WriterFinal, MapFinal, Rename, Free
  <2> QED BY <2>1 DEF IsChain
<1>8. B \cap Counts(k) = {} /\ (x[1] \in Taking => x[2] \notin Counts(k) \cup B)
  BY <1>4 DEF Taking, ReaderFinal, WriterFinal, MapFinal, Notify, Rename, Free
<1>9. PICK k2 : TodoLocal(nd, c, Do(f, s2), k2) /\ Then(Do(f, s2), k2, x, B, Do(f, s), k, Len(s))
  BY ONLY <1>1, <1>2, <1>6, <1>7, <1>8, f \in FrameType, g = Do(f, s), Prepended
<1>10. Account(Do(f, s2), k2, R \cup {m \in NodeId : x = ReaderFinal(m)},
                 W \cup {m \in NodeId : x = WriterFinal(m)}, C \cup B,
                 N \cup {m \in NodeId : x = Rename(m)}, D \cup {m \in NodeId : x = Free(m)},
                 G \cup {m \in NodeId \cap B : x[1] = "notify" /\ x[2] = m},
                 P \cup {m \in G : x \in {ReaderFinal(m), WriterFinal(m)}})
  BY ONLY <1>1, <1>9, AccountThen
<1>11. /\ {m \in NodeId : x = ReaderFinal(m)} = {}
       /\ {m \in NodeId : x = WriterFinal(m)} = {}
       /\ {m \in NodeId : x = MapFinal(m)} = {n}
       /\ {m \in NodeId : x = Rename(m)} = {}
       /\ {m \in NodeId : x = Free(m)} = {}
       /\ {m \in NodeId \cap B : x[1] = "notify" /\ x[2] = m} = {}
       /\ {m \in G : x \in {ReaderFinal(m), WriterFinal(m)}} = {}
  BY DEF ReaderFinal, WriterFinal, MapFinal, Notify, Rename, Free
<1>12. k2.maps = M \cup {m \in NodeId : x = MapFinal(m)}
  <2>1. Listed(Do(f, s2), "mapFinal") = Listed(g, "mapFinal") \cup {m \in NodeId : x = <<"mapFinal", m>>}
    BY <1>9, ListedThen
  <2> QED BY <2>1, <1>4, <1>9 DEF TodoLocal, MapFinal
<1> QED BY <1>2, <1>9, <1>10, <1>11, <1>12 DEF Plan

LEMMA PlanRename ==
  ASSUME NEW nd, NEW c, NEW f \in FrameType, NEW s, NEW s2,
         NEW R, NEW W, NEW M, NEW C, NEW N, NEW D, NEW G, NEW P,
         NEW n \in NodeId, n \notin C, N = {}, D = {}, c.op = "move",
         n = f.source, n # Root, f.target_parent \in NodeId,
         Plan(nd, c, f, s, R, W, M, C, N, D, G, P), Before(s2, Rename(n), s)
  PROVE  Plan(nd, c, f, s2, R, W, M, C, {n}, {}, G, P)
<1> PICK x : x = Rename(n)
  OBVIOUS
<1>1. PICK k : /\ TodoLocal(nd, c, Do(f, s), k) /\ k.maps = M
               /\ Account(Do(f, s), k, R, W, C, N, D, G, P)
  BY DEF Plan
<1>2. s \in Seq(Items) /\ s2 \in Seq(Items) /\ Prepends(s2, x, s, Len(s))
  BY DEF Before
<1> PICK g : g = Do(f, s)
  OBVIOUS
<1>3. g.at = "todo" /\ g.todo = s /\ g.cur = f.cur /\ g.source = f.source
      /\ g.target_parent = f.target_parent
  BY ONLY <1>2, g = Do(f, s), f \in FrameType, DoIs
<1>4. /\ Reads(g) = R /\ Writes(g) = W /\ Counts(k) = C /\ Listed(g, "mapFinal") = M
      /\ Listed(g, "rename") = N /\ Listed(g, "free") = D
  BY <1>1 DEF Account, TodoLocal
<1>5. \A j \in DOMAIN g.todo :
        /\ g.todo[j][1] \in Final => g.todo[j][2] \in R \cup W
        /\ g.todo[j][1] = "mapFinal" => g.todo[j][2] \in M
        /\ g.todo[j][1] \in Taking => g.todo[j][2] \in N \cup D
        /\ g.todo[j][1] = "return" <=> ~(g.todo[j][1] \in Final \cup Taking \cup {"mapFinal", "notify"})
  BY <1>2, <1>3, <1>4, PlanItems
<1>6. CanPrecede(c, x, g)
  <2>1. x[1] = "rename" /\ x[2] = n
    BY DEF ReaderFinal, WriterFinal, MapFinal, Rename, Free
  <2>2. \A j \in DOMAIN g.todo :
       /\ x[1] \in Final /\ g.todo[j][1] \in Final => x[2] # g.todo[j][2]
       /\ x[1] = "mapFinal" /\ g.todo[j][1] = "mapFinal" => x[2] # g.todo[j][2]
       /\ g.todo[j][1] \in Taking => x[1] \in {"writerFinal", "notify"}
       /\ x[1] = "free" => g.todo[j][1] = "return"
    BY <2>1, <1>5 DEF Final, Taking
  <2> QED BY <2>1, <2>2, <1>3 DEF CanPrecede
<1> PICK B : B = {}
  OBVIOUS
<1>7. IsChain(nd, B, ItemBottom(x), ItemTop(x))
  <2>1. ItemBottom(x) = NULL /\ ItemTop(x) = NULL
    BY DEF ItemBottom, ItemTop, ReaderFinal, WriterFinal, MapFinal, Rename, Free
  <2> QED BY <2>1 DEF IsChain
<1>8. B \cap Counts(k) = {} /\ (x[1] \in Taking => x[2] \notin Counts(k) \cup B)
  BY <1>4 DEF Taking, ReaderFinal, WriterFinal, MapFinal, Notify, Rename, Free
<1>9. PICK k2 : TodoLocal(nd, c, Do(f, s2), k2) /\ Then(Do(f, s2), k2, x, B, Do(f, s), k, Len(s))
  BY ONLY <1>1, <1>2, <1>6, <1>7, <1>8, f \in FrameType, g = Do(f, s), Prepended
<1>10. Account(Do(f, s2), k2, R \cup {m \in NodeId : x = ReaderFinal(m)},
                 W \cup {m \in NodeId : x = WriterFinal(m)}, C \cup B,
                 N \cup {m \in NodeId : x = Rename(m)}, D \cup {m \in NodeId : x = Free(m)},
                 G \cup {m \in NodeId \cap B : x[1] = "notify" /\ x[2] = m},
                 P \cup {m \in G : x \in {ReaderFinal(m), WriterFinal(m)}})
  BY ONLY <1>1, <1>9, AccountThen
<1>11. /\ {m \in NodeId : x = ReaderFinal(m)} = {}
       /\ {m \in NodeId : x = WriterFinal(m)} = {}
       /\ {m \in NodeId : x = MapFinal(m)} = {}
       /\ {m \in NodeId : x = Rename(m)} = {n}
       /\ {m \in NodeId : x = Free(m)} = {}
       /\ {m \in NodeId \cap B : x[1] = "notify" /\ x[2] = m} = {}
       /\ {m \in G : x \in {ReaderFinal(m), WriterFinal(m)}} = {}
  BY DEF ReaderFinal, WriterFinal, MapFinal, Notify, Rename, Free
<1>12. k2.maps = M \cup {m \in NodeId : x = MapFinal(m)}
  <2>1. Listed(Do(f, s2), "mapFinal") = Listed(g, "mapFinal") \cup {m \in NodeId : x = <<"mapFinal", m>>}
    BY <1>9, ListedThen
  <2> QED BY <2>1, <1>4, <1>9 DEF TodoLocal, MapFinal
<1> QED BY <1>2, <1>9, <1>10, <1>11, <1>12 DEF Plan

LEMMA PlanFree ==
  ASSUME NEW nd, NEW c, NEW f \in FrameType, NEW s, NEW s2,
         NEW R, NEW W, NEW M, NEW C, NEW N, NEW D, NEW G, NEW P,
         NEW n \in NodeId, n \notin C, N = {}, D = {}, c.op = "remove",
         n = f.cur, n # Root, \E r : s = <<Return(r)>>,
         Plan(nd, c, f, s, R, W, M, C, N, D, G, P), Before(s2, Free(n), s)
  PROVE  Plan(nd, c, f, s2, R, W, M, C, {}, {n}, G, P)
<1> PICK x : x = Free(n)
  OBVIOUS
<1>1. PICK k : /\ TodoLocal(nd, c, Do(f, s), k) /\ k.maps = M
               /\ Account(Do(f, s), k, R, W, C, N, D, G, P)
  BY DEF Plan
<1>2. s \in Seq(Items) /\ s2 \in Seq(Items) /\ Prepends(s2, x, s, Len(s))
  BY DEF Before
<1> PICK g : g = Do(f, s)
  OBVIOUS
<1>3. g.at = "todo" /\ g.todo = s /\ g.cur = f.cur /\ g.source = f.source
      /\ g.target_parent = f.target_parent
  BY ONLY <1>2, g = Do(f, s), f \in FrameType, DoIs
<1>4. /\ Reads(g) = R /\ Writes(g) = W /\ Counts(k) = C /\ Listed(g, "mapFinal") = M
      /\ Listed(g, "rename") = N /\ Listed(g, "free") = D
  BY <1>1 DEF Account, TodoLocal
<1>5. \A j \in DOMAIN g.todo :
        /\ g.todo[j][1] \in Final => g.todo[j][2] \in R \cup W
        /\ g.todo[j][1] = "mapFinal" => g.todo[j][2] \in M
        /\ g.todo[j][1] \in Taking => g.todo[j][2] \in N \cup D
        /\ g.todo[j][1] = "return" <=> ~(g.todo[j][1] \in Final \cup Taking \cup {"mapFinal", "notify"})
  BY <1>2, <1>3, <1>4, PlanItems
<1>6. CanPrecede(c, x, g)
  <2>1. x[1] = "free" /\ x[2] = n
    BY DEF ReaderFinal, WriterFinal, MapFinal, Rename, Free
  <2>2. \A j \in DOMAIN g.todo :
       /\ x[1] \in Final /\ g.todo[j][1] \in Final => x[2] # g.todo[j][2]
       /\ x[1] = "mapFinal" /\ g.todo[j][1] = "mapFinal" => x[2] # g.todo[j][2]
       /\ g.todo[j][1] \in Taking => x[1] \in {"writerFinal", "notify"}
       /\ x[1] = "free" => g.todo[j][1] = "return"
    BY <2>1, <1>3, <1>5 DEF Final, Taking, Return
  <2> QED BY <2>1, <2>2, <1>3 DEF CanPrecede
<1> PICK B : B = {}
  OBVIOUS
<1>7. IsChain(nd, B, ItemBottom(x), ItemTop(x))
  <2>1. ItemBottom(x) = NULL /\ ItemTop(x) = NULL
    BY DEF ItemBottom, ItemTop, ReaderFinal, WriterFinal, MapFinal, Rename, Free
  <2> QED BY <2>1 DEF IsChain
<1>8. B \cap Counts(k) = {} /\ (x[1] \in Taking => x[2] \notin Counts(k) \cup B)
  BY <1>4 DEF Taking, ReaderFinal, WriterFinal, MapFinal, Notify, Rename, Free
<1>9. PICK k2 : TodoLocal(nd, c, Do(f, s2), k2) /\ Then(Do(f, s2), k2, x, B, Do(f, s), k, Len(s))
  BY ONLY <1>1, <1>2, <1>6, <1>7, <1>8, f \in FrameType, g = Do(f, s), Prepended
<1>10. Account(Do(f, s2), k2, R \cup {m \in NodeId : x = ReaderFinal(m)},
                 W \cup {m \in NodeId : x = WriterFinal(m)}, C \cup B,
                 N \cup {m \in NodeId : x = Rename(m)}, D \cup {m \in NodeId : x = Free(m)},
                 G \cup {m \in NodeId \cap B : x[1] = "notify" /\ x[2] = m},
                 P \cup {m \in G : x \in {ReaderFinal(m), WriterFinal(m)}})
  BY ONLY <1>1, <1>9, AccountThen
<1>11. /\ {m \in NodeId : x = ReaderFinal(m)} = {}
       /\ {m \in NodeId : x = WriterFinal(m)} = {}
       /\ {m \in NodeId : x = MapFinal(m)} = {}
       /\ {m \in NodeId : x = Rename(m)} = {}
       /\ {m \in NodeId : x = Free(m)} = {n}
       /\ {m \in NodeId \cap B : x[1] = "notify" /\ x[2] = m} = {}
       /\ {m \in G : x \in {ReaderFinal(m), WriterFinal(m)}} = {}
  BY DEF ReaderFinal, WriterFinal, MapFinal, Notify, Rename, Free
<1>12. k2.maps = M \cup {m \in NodeId : x = MapFinal(m)}
  <2>1. Listed(Do(f, s2), "mapFinal") = Listed(g, "mapFinal") \cup {m \in NodeId : x = <<"mapFinal", m>>}
    BY <1>9, ListedThen
  <2> QED BY <2>1, <1>4, <1>9 DEF TodoLocal, MapFinal
<1> QED BY <1>2, <1>9, <1>10, <1>11, <1>12 DEF Plan

LEMMA PlanNotify ==
  ASSUME NEW nd, NEW c, NEW f \in FrameType, NEW s, NEW s2,
         NEW R, NEW W, NEW M, NEW C, NEW N, NEW D, NEW G, NEW P,
         NEW a \in NodeId \cup {NULL}, NEW b \in NodeId \cup {NULL}, NEW B,
         IsChain(nd, B, a, b), B \cap C = {},
         Plan(nd, c, f, s, R, W, M, C, N, D, G, P), Before(s2, Notify(a, b), s)
  PROVE  Plan(nd, c, f, s2, R, W, M, C \cup B, N, D, G \cup (B \cap {a}), P)
<1> PICK x : x = Notify(a, b)
  OBVIOUS
<1>1. PICK k : /\ TodoLocal(nd, c, Do(f, s), k) /\ k.maps = M
               /\ Account(Do(f, s), k, R, W, C, N, D, G, P)
  BY DEF Plan
<1>2. s \in Seq(Items) /\ s2 \in Seq(Items) /\ Prepends(s2, x, s, Len(s))
  BY DEF Before
<1> PICK g : g = Do(f, s)
  OBVIOUS
<1>3. g.at = "todo" /\ g.todo = s /\ g.cur = f.cur /\ g.source = f.source
      /\ g.target_parent = f.target_parent
  BY ONLY <1>2, g = Do(f, s), f \in FrameType, DoIs
<1>4. /\ Reads(g) = R /\ Writes(g) = W /\ Counts(k) = C /\ Listed(g, "mapFinal") = M
      /\ Listed(g, "rename") = N /\ Listed(g, "free") = D
  BY <1>1 DEF Account, TodoLocal
<1>5. \A j \in DOMAIN g.todo :
        /\ g.todo[j][1] \in Final => g.todo[j][2] \in R \cup W
        /\ g.todo[j][1] = "mapFinal" => g.todo[j][2] \in M
        /\ g.todo[j][1] \in Taking => g.todo[j][2] \in N \cup D
        /\ g.todo[j][1] = "return" <=> ~(g.todo[j][1] \in Final \cup Taking \cup {"mapFinal", "notify"})
  BY <1>2, <1>3, <1>4, PlanItems
<1>6. CanPrecede(c, x, g)
  <2>1. x[1] = "notify"
    BY DEF Notify
  <2> QED BY <2>1 DEF CanPrecede, Final
<1>7. IsChain(nd, B, ItemBottom(x), ItemTop(x))
  <2>1. ItemBottom(x) = a /\ ItemTop(x) = b
    BY DEF ItemBottom, ItemTop, Notify
  <2> QED BY <2>1
<1>8. B \cap Counts(k) = {} /\ (x[1] \in Taking => x[2] \notin Counts(k) \cup B)
  BY <1>4 DEF Taking, ReaderFinal, WriterFinal, MapFinal, Notify, Rename, Free
<1>9. PICK k2 : TodoLocal(nd, c, Do(f, s2), k2) /\ Then(Do(f, s2), k2, x, B, Do(f, s), k, Len(s))
  BY ONLY <1>1, <1>2, <1>6, <1>7, <1>8, f \in FrameType, g = Do(f, s), Prepended
<1>10. Account(Do(f, s2), k2, R \cup {m \in NodeId : x = ReaderFinal(m)},
                 W \cup {m \in NodeId : x = WriterFinal(m)}, C \cup B,
                 N \cup {m \in NodeId : x = Rename(m)}, D \cup {m \in NodeId : x = Free(m)},
                 G \cup {m \in NodeId \cap B : x[1] = "notify" /\ x[2] = m},
                 P \cup {m \in G : x \in {ReaderFinal(m), WriterFinal(m)}})
  BY ONLY <1>1, <1>9, AccountThen
<1>11. /\ {m \in NodeId : x = ReaderFinal(m)} = {}
       /\ {m \in NodeId : x = WriterFinal(m)} = {}
       /\ {m \in NodeId : x = MapFinal(m)} = {}
       /\ {m \in NodeId : x = Rename(m)} = {}
       /\ {m \in NodeId : x = Free(m)} = {}
       /\ {m \in NodeId \cap B : x[1] = "notify" /\ x[2] = m} = B \cap {a}
       /\ {m \in G : x \in {ReaderFinal(m), WriterFinal(m)}} = {}
  BY <1>7 DEF IsChain, ReaderFinal, WriterFinal, MapFinal, Notify, Rename, Free
<1>12. k2.maps = M \cup {m \in NodeId : x = MapFinal(m)}
  <2>1. Listed(Do(f, s2), "mapFinal") = Listed(g, "mapFinal") \cup {m \in NodeId : x = <<"mapFinal", m>>}
    BY <1>9, ListedThen
  <2> QED BY <2>1, <1>4, <1>9 DEF TodoLocal, MapFinal
<1> QED BY <1>2, <1>9, <1>10, <1>11, <1>12 DEF Plan

-----------------------------------------------------------------------------
(* Where a call under way is, in its chains. *)

\* Of what a frame says of a call under way, what its places depend on.
LEMMA GoingIs ==
  ASSUME NEW c, NEW f, FrameOK(c, f), Going(f)
  PROVE  /\ c \in Calls /\ f \in FrameType /\ GoingOK(c, f)
         /\ f.at \notin {"idle", "todo"} /\ f.cur \in NodeId
         /\ ~Ahead(f) => f.at \notin {"lock", "sleep", "count"}
BY DEF FrameOK, Going, GoingOK, Ahead

LEMMA BottomsStill ==
  ASSUME NEW nd, NEW f, Going(f), ~Moving(f)
  PROVE  /\ Bottom(nd, f, 1) = NULL /\ Bottom(nd, f, 2) = NULL /\ Bottom(nd, f, 3) = Here(nd, f)
         /\ Top(f, 1) = NULL /\ Top(f, 2) = NULL /\ Top(f, 3) = NULL /\ Slots(f) = 1 .. 3
         /\ WalkSlot(f) = 3
BY DEF Bottom, Top, Slots, Going, Moving, WalkSlot

LEMMA BottomsMoving ==
  ASSUME NEW nd, NEW f, Going(f), Moving(f)
  PROVE  /\ Bottom(nd, f, 1) = IF HasSource(f) THEN f.source
                               ELSE IF f.walk = "source" THEN Here(nd, f) ELSE f.shared
         /\ Bottom(nd, f, 2) = IF HasTarget(f) THEN f.target_parent
                               ELSE IF f.walk = "target" THEN Here(nd, f) ELSE f.shared
         /\ Bottom(nd, f, 3) = f.shared
         /\ Top(f, 1) = f.shared /\ Top(f, 2) = f.shared /\ Top(f, 3) = NULL /\ Slots(f) = 1 .. 3
         /\ WalkSlot(f) = IF f.walk = "source" THEN 1 ELSE 2
BY DEF Bottom, Top, Slots, Going, Moving, WalkSlot

LEMMA GoingChains ==
  ASSUME NEW nd, NEW c, NEW f, NEW k, ChainsOK(nd, c, f, k), Going(f)
  PROVE  /\ DOMAIN k.chain = 1 .. 3
         /\ Counts(k) = k.chain[1] \cup k.chain[2] \cup k.chain[3]
         /\ \A i \in 1 .. 3 : IsChain(nd, k.chain[i], Bottom(nd, f, i), Top(f, i))
         /\ \A i \in 1 .. 3 : k.chain[i] \subseteq NodeId
         /\ k.chain[1] \cap k.chain[2] = {} /\ k.chain[1] \cap k.chain[3] = {}
         /\ k.chain[2] \cap k.chain[3] = {}
         /\ Pending(f) \notin Counts(k)
<1>1. DOMAIN k.chain = 1 .. 3 /\ Slots(f) = 1 .. 3
  BY DEF ChainsOK, Slots, Going
<1>2. Counts(k) = k.chain[1] \cup k.chain[2] \cup k.chain[3]
  BY <1>1 DEF Counts
<1>3. \A i \in 1 .. 3 : IsChain(nd, k.chain[i], Bottom(nd, f, i), Top(f, i))
  BY <1>1 DEF ChainsOK
<1>4. \A i \in 1 .. 3 : k.chain[i] \subseteq NodeId
  BY <1>3 DEF IsChain
<1>5. \A i, j \in 1 .. 3 : i # j => k.chain[i] \cap k.chain[j] = {}
  BY <1>1 DEF ChainsOK
<1>6. k.chain[1] \cap k.chain[2] = {} /\ k.chain[1] \cap k.chain[3] = {}
         /\ k.chain[2] \cap k.chain[3] = {}
  BY <1>5
<1> QED BY <1>1, <1>2, <1>3, <1>4, <1>6 DEF ChainsOK

\* A call that is not a move has one chain, from where it is.
LEMMA StillPlaces ==
  ASSUME NEW nd, NEW c, NEW f, NEW k, FrameOK(c, f), ChainsOK(nd, c, f, k), Going(f), ~Moving(f)
  PROVE  /\ k.chain[1] = {} /\ k.chain[2] = {} /\ Counts(k) = k.chain[3]
         /\ IsChain(nd, k.chain[3], Here(nd, f), NULL)
         /\ ~Ahead(f) => f.cur \in Counts(k) /\ Here(nd, f) = f.cur
<1>1. /\ Counts(k) = k.chain[1] \cup k.chain[2] \cup k.chain[3]
      /\ \A i \in 1 .. 3 : IsChain(nd, k.chain[i], Bottom(nd, f, i), Top(f, i))
  BY GoingChains
<1>2. /\ IsChain(nd, k.chain[1], NULL, NULL) /\ IsChain(nd, k.chain[2], NULL, NULL)
      /\ IsChain(nd, k.chain[3], Here(nd, f), NULL)
  BY <1>1, BottomsStill
<1>3. k.chain[1] = {} /\ k.chain[2] = {}
  BY <1>2 DEF IsChain
<1>4. ~Ahead(f) => f.cur \in k.chain[3] /\ Here(nd, f) = f.cur
  <2>1. f.cur \in NodeId /\ NULL \notin NodeId
    BY GoingIs, TreeAssumption
  <2> QED BY <1>2, <2>1 DEF IsChain, Here
<1> QED BY <1>1, <1>2, <1>3, <1>4

LEMMA MovingPlaces ==
  ASSUME NEW nd, NEW c, NEW f, NEW k, FrameOK(c, f), ChainsOK(nd, c, f, k), Going(f), Moving(f)
  PROVE  /\ f.shared \in k.chain[3] /\ IsChain(nd, k.chain[3], f.shared, NULL)
         /\ HasSource(f) => f.source \in k.chain[1] /\ IsChain(nd, k.chain[1], f.source, f.shared)
         /\ HasTarget(f) => f.target_parent \in k.chain[2]
                              /\ IsChain(nd, k.chain[2], f.target_parent, f.shared)
         /\ ~HasSource(f) /\ f.walk # "source" => k.chain[1] = {}
         /\ ~HasTarget(f) /\ f.walk # "target" => k.chain[2] = {}
<1>1. \A i \in 1 .. 3 : IsChain(nd, k.chain[i], Bottom(nd, f, i), Top(f, i))
  BY GoingChains
<1>2. {f.shared, f.source, f.target_parent} \subseteq NodeId /\ NULL \notin NodeId
  BY GoingIs, TreeAssumption DEF GoingOK
<1>3. /\ IsChain(nd, k.chain[1], Bottom(nd, f, 1), f.shared)
      /\ IsChain(nd, k.chain[2], Bottom(nd, f, 2), f.shared)
      /\ IsChain(nd, k.chain[3], f.shared, NULL)
  BY <1>1, BottomsMoving
<1>4. f.shared \in k.chain[3]
  BY <1>2, <1>3 DEF IsChain
<1>5. ASSUME HasSource(f)
      PROVE  f.source \in k.chain[1] /\ IsChain(nd, k.chain[1], f.source, f.shared)
  <2>1. Bottom(nd, f, 1) = f.source /\ f.source # f.shared
    BY <1>5, BottomsMoving DEF HasSource
  <2> QED BY <2>1, <1>3 DEF IsChain
<1>6. ASSUME HasTarget(f)
      PROVE  f.target_parent \in k.chain[2] /\ IsChain(nd, k.chain[2], f.target_parent, f.shared)
  <2>1. Bottom(nd, f, 2) = f.target_parent /\ f.target_parent # f.shared
    BY <1>6, BottomsMoving DEF HasTarget
  <2> QED BY <2>1, <1>3 DEF IsChain
<1>7. ASSUME ~HasSource(f), f.walk # "source" PROVE k.chain[1] = {}
  <2>1. Bottom(nd, f, 1) = f.shared
    BY <1>7, BottomsMoving
  <2> QED BY <2>1, <1>3 DEF IsChain
<1>8. ASSUME ~HasTarget(f), f.walk # "target" PROVE k.chain[2] = {}
  <2>1. Bottom(nd, f, 2) = f.shared
    BY <1>8, BottomsMoving
  <2> QED BY <2>1, <1>3 DEF IsChain
<1> QED BY <1>3, <1>4, <1>5, <1>6, <1>7, <1>8

\* Where the walk of a move is: below shared_node, or there if it begins.
LEMMA WalkPlaces ==
  ASSUME NEW nd, NEW c, NEW f, NEW k, FrameOK(c, f), ChainsOK(nd, c, f, k), Going(f), Moving(f),
         ~Ahead(f), InLock(f) \/ Leading(f)
  PROVE  /\ f.skip => f.cur = f.shared /\ k.chain[WalkSlot(f)] = {}
         /\ ~f.skip => f.cur \in k.chain[WalkSlot(f)]
         /\ IsChain(nd, k.chain[WalkSlot(f)], f.cur, f.shared)
         /\ f.walk = "source" => ~HasSource(f)
         /\ f.walk = "target" => ~HasTarget(f)
<1>1. GoingOK(c, f) /\ f \in FrameType /\ f.at \notin {"lock", "sleep", "count"}
  BY GoingIs
<1>2. \A i \in 1 .. 3 : IsChain(nd, k.chain[i], Bottom(nd, f, i), Top(f, i))
  BY GoingChains
<1>3. f.walk = "source" => ~HasSource(f) /\ WalkSlot(f) = 1 /\ Bottom(nd, f, 1) = f.cur /\ Top(f, 1) = f.shared
  <2>1. f.walk = "source" => ~HasSource(f)
    BY <1>1 DEF GoingOK, HasSource, Leading, Moving, InLock
  <2> QED BY <2>1, BottomsMoving DEF Here
<1>4. f.walk = "target" => ~HasTarget(f) /\ WalkSlot(f) = 2 /\ Bottom(nd, f, 2) = f.cur /\ Top(f, 2) = f.shared
  <2>1. f.walk = "target" => ~HasTarget(f)
    BY <1>1 DEF GoingOK, HasTarget, Leading, Moving, InLock
  <2> QED BY <2>1, BottomsMoving DEF Here
<1>5. IsChain(nd, k.chain[WalkSlot(f)], f.cur, f.shared)
  BY <1>2, <1>3, <1>4 DEF Moving
<1>6. f.skip => f.cur = f.shared
  BY <1>1 DEF GoingOK
<1>7. ~f.skip => f.cur # f.shared
  <2>1. CASE Leading(f)
    BY <2>1, <1>1 DEF GoingOK
  <2>2. CASE ~Leading(f)
    <3>1. InLock(f) /\ f.role # "step"
      BY <2>2 DEF Leading
    <3> QED BY <3>1, <1>1 DEF GoingOK, Moving
  <2> QED BY <2>1, <2>2
<1> QED BY <1>3, <1>4, <1>5, <1>6, <1>7 DEF IsChain, Moving

\* A call counts in the folder where it is.
LEMMA CurCounts ==
  ASSUME NEW nd, NEW c, NEW f, NEW k, FrameOK(c, f), ChainsOK(nd, c, f, k), Going(f), ~Ahead(f),
         InLock(f) \/ Leading(f) \/ ~Moving(f)
  PROVE  f.cur \in Counts(k)
<1>1. CASE ~Moving(f)
  BY <1>1, StillPlaces
<1>2. CASE Moving(f)
  <2>1. f.cur \in k.chain[WalkSlot(f)] \cup k.chain[3]
    BY <1>2, WalkPlaces, MovingPlaces
  <2> QED BY <1>2, <2>1, GoingChains, BottomsMoving
<1> QED BY <1>1, <1>2

-----------------------------------------------------------------------------
(* Summaries.                                                              *)

LEMMA SummaryIs ==
  ASSUME NEW c, NEW f, NEW k, NEW s, s = Summary(c, f, k)
  PROVE  /\ s.reads = Reads(f) /\ s.writes = Writes(f) /\ s.counts = Counts(k)
         /\ s.pending = Pending(f) /\ s.maps = k.maps
         /\ f.at \in {"left", "right"} => s.moveLock = {f.shared}
         /\ f.at \notin {"left", "right"} => s.moveLock = {}
         /\ s.asReader = SleepsAsReader(f) /\ s.asWriter = SleepsAsWriter(f)
         /\ s.inPrivate = SleepsInPrivate(f)
         /\ s.moves = Moves(f) /\ s.removes = Removes(f) /\ s.unlinks = Unlinks(f)
         /\ s.flags = Flags(f) /\ s.vacates = Vacates(f)
         /\ s.owns = Owns(f) /\ s.acquires = Acquires(f)
         /\ s.goesAway = GoesAway(f, k) /\ s.passesOn = PassesOn(f, k)
         /\ s.place = <<f.target_parent, TargetName(c.target)>>
BY DEF Summary

\* The summary of a thread that has only its list left.
TodoSummary(s, R, W, M, C, N, D, G, P) ==
  /\ s.reads = R /\ s.writes = W /\ s.counts = C /\ s.pending = NULL /\ s.maps = M
  /\ s.moveLock = {} /\ s.asReader = {} /\ s.asWriter = {} /\ s.inPrivate = {}
  /\ s.moves = N /\ s.removes = D /\ s.unlinks = D /\ s.flags = {} /\ s.vacates = N \cup D
  /\ s.owns = {} /\ s.acquires = {} /\ G \subseteq s.goesAway /\ P \subseteq s.passesOn

LEMMA TodoSummaryIs ==
  ASSUME NEW nd, NEW c, NEW g, NEW k, NEW s, s = Summary(c, g, k), TodoLocal(nd, c, g, k)
  PROVE  /\ TodoSummary(s, Listed(g, "readerFinal"), Listed(g, "writerFinal"),
              Listed(g, "mapFinal"), Counts(k), Listed(g, "rename"), Listed(g, "free"),
              GoesAway(g, k), PassesOn(g, k))
         /\ s.goesAway = GoesAway(g, k) /\ s.passesOn = PassesOn(g, k)
         /\ s.place = <<g.target_parent, TargetName(c.target)>>
<1>1. g.at = "todo" /\ k.maps = Listed(g, "mapFinal")
  BY DEF TodoLocal
<1>2. ~Going(g) /\ ~Gone(g) /\ ~Ahead(g)
  BY <1>1 DEF Going, Gone, Ahead
<1>3. /\ Reads(g) = Listed(g, "readerFinal") /\ Writes(g) = Listed(g, "writerFinal")
      /\ Pending(g) = NULL
  BY <1>1, <1>2 DEF Reads, Writes, Pending
<1>4. /\ SleepsAsReader(g) = {} /\ SleepsAsWriter(g) = {} /\ SleepsInPrivate(g) = {}
  BY <1>1 DEF SleepsAsReader, SleepsAsWriter, SleepsInPrivate
<1>5. /\ Moves(g) = Listed(g, "rename") /\ Removes(g) = Listed(g, "free")
      /\ Unlinks(g) = Listed(g, "free") /\ Flags(g) = {}
      /\ Vacates(g) = Listed(g, "rename") \cup Listed(g, "free")
  BY <1>1, <1>2 DEF Moves, Removes, Unlinks, Flags, Vacates
<1>6. Owns(g) = {} /\ Acquires(g) = {}
  BY <1>1, <1>2 DEF Owns, Acquires
<1>7. /\ s.reads = Reads(g) /\ s.writes = Writes(g) /\ s.counts = Counts(k)
      /\ s.pending = Pending(g) /\ s.maps = k.maps
      /\ g.at \notin {"left", "right"} => s.moveLock = {}
      /\ s.asReader = SleepsAsReader(g) /\ s.asWriter = SleepsAsWriter(g)
      /\ s.inPrivate = SleepsInPrivate(g)
      /\ s.moves = Moves(g) /\ s.removes = Removes(g) /\ s.unlinks = Unlinks(g)
      /\ s.flags = Flags(g) /\ s.vacates = Vacates(g)
      /\ s.owns = Owns(g) /\ s.acquires = Acquires(g)
      /\ s.goesAway = GoesAway(g, k) /\ s.passesOn = PassesOn(g, k)
      /\ s.place = <<g.target_parent, TargetName(c.target)>>
  BY ONLY s = Summary(c, g, k), SummaryIs
<1>8. s.moveLock = {}
  BY <1>1, <1>7
<1> QED BY ONLY <1>1, <1>3, <1>4, <1>5, <1>6, <1>7, <1>8 DEF TodoSummary

\* What a plan says of the thread that follows it.
LEMMA Planned ==
  ASSUME NEW nd, NEW c, NEW f \in FrameType, NEW s,
         NEW R, NEW W, NEW M, NEW C, NEW N, NEW D, NEW G, NEW P,
         Plan(nd, c, f, s, R, W, M, C, N, D, G, P)
  PROVE  \E k : /\ Local(nd, c, Do(f, s), k)
                /\ TodoSummary(Summary(c, Do(f, s), k), R, W, M, C, N, D, G, P)
                /\ Summary(c, Do(f, s), k).place = <<f.target_parent, TargetName(c.target)>>
<1>1. PICK k : /\ TodoLocal(nd, c, Do(f, s), k) /\ k.maps = M
               /\ Account(Do(f, s), k, R, W, C, N, D, G, P)
  BY DEF Plan
<1>2. s \in Seq(Items)
  BY DEF Plan
<1> PICK g : g = Do(f, s)
  OBVIOUS
<1>3. g.at = "todo" /\ g.target_parent = f.target_parent
  BY ONLY <1>2, g = Do(f, s), f \in FrameType, DoIs
<1>4. TodoLocal(nd, c, g, k) /\ Account(g, k, R, W, C, N, D, G, P)
  BY <1>1
<1>5. Local(nd, c, g, k)
  BY <1>3, <1>4, TodoLocalIs
<1> PICK z : z = Summary(c, g, k)
  OBVIOUS
<1>6. /\ TodoSummary(z, Listed(g, "readerFinal"), Listed(g, "writerFinal"),
              Listed(g, "mapFinal"), Counts(k), Listed(g, "rename"), Listed(g, "free"),
              GoesAway(g, k), PassesOn(g, k))
      /\ z.place = <<g.target_parent, TargetName(c.target)>>
  BY ONLY <1>4, z = Summary(c, g, k), TodoSummaryIs
<1>7. /\ Listed(g, "readerFinal") = R /\ Listed(g, "writerFinal") = W
      /\ Listed(g, "mapFinal") = M /\ Counts(k) = C /\ Listed(g, "rename") = N
      /\ Listed(g, "free") = D /\ G \subseteq GoesAway(g, k) /\ P \subseteq PassesOn(g, k)
  BY <1>1, <1>3, <1>4 DEF Account, Reads, Writes, TodoLocal
<1>8. TodoSummary(z, R, W, M, C, N, D, G, P)
  BY <1>6, <1>7 DEF TodoSummary
<1> QED BY <1>3, <1>5, <1>6, <1>8

-----------------------------------------------------------------------------
(* What is always so of a summary. *)

OneAndTyped(s) == One(s) /\ Typed(s)

LEMMA TodoOne ==
  ASSUME NEW nd, NEW c, NEW g, NEW k, TodoLocal(nd, c, g, k)
  PROVE  OneAndTyped(Summary(c, g, k))
<1> PICK s : s = Summary(c, g, k)
  OBVIOUS
<1>1. /\ TodoSummary(s, Listed(g, "readerFinal"), Listed(g, "writerFinal"),
              Listed(g, "mapFinal"), Counts(k), Listed(g, "rename"), Listed(g, "free"),
              GoesAway(g, k), PassesOn(g, k))
      /\ s.goesAway = GoesAway(g, k) /\ s.passesOn = PassesOn(g, k)
  BY TodoSummaryIs
<1>2. \A kind : Listed(g, kind) \subseteq NodeId
  BY DEF Listed
<1>3. Counts(k) \subseteq NodeId /\ NULL \notin NodeId
  BY TreeAssumption DEF TodoLocal, TodoChains, IsChain, Counts
<1>4. PassesOn(g, k) \subseteq Counts(k)
  BY DEF TodoLocal, TodoChains, PassesOn, Counts
<1>5. Root \notin Listed(g, "rename") \cup Listed(g, "free")
  <2>1. ListOK(c, g)
    BY DEF TodoLocal
  <2>2. \A i \in DOMAIN g.todo : /\ g.todo[i][1] = "rename" => g.todo[i][2] # Root
                                 /\ g.todo[i][1] = "free" => g.todo[i][2] # Root
    BY <2>1 DEF ListOK
  <2>3. Root \notin Listed(g, "rename")
    BY <2>2 DEF Listed
  <2>4. Root \notin Listed(g, "free")
    BY <2>2 DEF Listed
  <2> QED BY <2>3, <2>4
<1>6. One(s)
  BY <1>1, <1>3, <1>4, <1>5 DEF TodoSummary, One
<1>7. Typed(s)
  BY <1>1, <1>2, <1>3, <1>5 DEF TodoSummary, Typed
<1> QED BY <1>6, <1>7 DEF OneAndTyped

LEMMA IdleSummary ==
  ASSUME NEW nd, NEW c, NEW k, Local(nd, c, NoFrame, k), NEW s, s = Summary(c, NoFrame, k)
  PROVE  /\ TodoSummary(s, {}, {}, {}, {}, {}, {}, {}, {}) /\ s.goesAway = {} /\ s.passesOn = {}
         /\ k.maps = {}
<1> PICK f : f = NoFrame
  OBVIOUS
<1>1. f.at = "idle" /\ f.walk = "none" /\ f.role = "none" /\ Local(nd, c, f, k) /\ s = Summary(c, f, k)
  BY DEF NoFrame
<1>2. ~Going(f) /\ ~Gone(f) /\ ~Ahead(f) /\ ~Moving(f) /\ ~Inside(f)
  BY <1>1 DEF Going, Gone, Ahead, Moving, Inside
<1>3. /\ Reads(f) = {} /\ Writes(f) = {} /\ Pending(f) = NULL
      /\ SleepsAsReader(f) = {} /\ SleepsAsWriter(f) = {} /\ SleepsInPrivate(f) = {}
  BY <1>1, <1>2 DEF Reads, Writes, Pending, SleepsAsReader, SleepsAsWriter, SleepsInPrivate
<1>4. /\ Moves(f) = {} /\ Removes(f) = {} /\ Unlinks(f) = {} /\ Flags(f) = {}
      /\ Vacates(f) = {} /\ Owns(f) = {} /\ Acquires(f) = {}
      /\ GoesAway(f, k) = {} /\ PassesOn(f, k) = {}
  BY <1>1, <1>2 DEF Moves, Removes, Unlinks, Flags, Vacates, Owns, Acquires, GoesAway, PassesOn
<1>5. /\ DOMAIN k.chain = 1 .. 3
      /\ \A i \in 1 .. 3 : IsChain(nd, k.chain[i], Bottom(nd, f, i), Top(f, i))
      /\ k.maps = {}
  BY <1>1, <1>2 DEF Local, ChainsOK, Slots, MapsOK
<1>6. \A i \in 1 .. 3 : k.chain[i] = {}
  <2>1. \A i \in 1 .. 3 : Bottom(nd, f, i) = NULL /\ Top(f, i) = NULL
    BY <1>1, <1>2 DEF Bottom, Top
  <2> QED BY <2>1, <1>5 DEF IsChain
<1>7. Counts(k) = {}
  BY <1>5, <1>6 DEF Counts
<1>8. s.moveLock = {}
  BY <1>1, SummaryIs
<1> QED BY <1>1, <1>3, <1>4, <1>5, <1>7, <1>8, SummaryIs DEF TodoSummary

-----------------------------------------------------------------------------
(* The parent of a source, and that every thread alone is in order.        *)

\* tree_move and the parent of its source.
LEMMA SourceParent ==
  ASSUME NEW nd, NEW c, NEW f, NEW k, FrameOK(c, f), ChainsOK(nd, c, f, k), Going(f), Moving(f),
         HasSource(f)
  PROVE  /\ nd[f.source].parent \in k.chain[1] \cup {f.shared} /\ f.source \in k.chain[1]
         /\ nd[f.source].parent \in NodeId /\ nd[f.source].parent \in Counts(k)
<1>1. f.source \in k.chain[1] /\ IsChain(nd, k.chain[1], f.source, f.shared) /\ f.shared \in k.chain[3]
  BY MovingPlaces
<1>2. nd[f.source].parent \in k.chain[1] \cup {f.shared}
  BY <1>1 DEF IsChain
<1>3. Counts(k) = k.chain[1] \cup k.chain[2] \cup k.chain[3] /\ k.chain[1] \subseteq NodeId /\ k.chain[3] \subseteq NodeId
  BY GoingChains
<1> QED BY <1>1, <1>2, <1>3

LEMMA GoingMaps ==
  ASSUME NEW nd, NEW c, NEW f, NEW k, Local(nd, c, f, k), Going(f)
  PROVE  /\ k.maps \subseteq NodeId
         /\ f.at \notin {"right", "transfer", "discard", "discarding", "calm"} => k.maps = {}
         /\ ~Moving(f) => k.maps = {}
<1>0. FrameOK(c, f) /\ ChainsOK(nd, c, f, k) /\ MapsOK(nd, c, f, k)
  BY DEF Local
<1>1. GoingOK(c, f) /\ f.at # "todo"
  BY <1>0, GoingIs
<1>2. f.at = "right" => HasSource(f) /\ Moving(f)
  BY <1>1 DEF GoingOK, HasSource
<1>3. f.at \in {"transfer", "discard", "discarding", "calm"} /\ Moving(f) => HasSource(f)
  BY <1>1 DEF GoingOK, Gone, Moving
<1>4. HasSource(f) => nd[f.source].parent \in NodeId /\ f.target_parent \in NodeId
  BY <1>0, <1>1, SourceParent DEF HasSource, GoingOK
<1>5. CASE f.at = "right"
  <2>1. f.at \notin {"transfer", "discard", "discarding", "calm"}
    BY <1>5
  <2> QED BY <2>1, <1>0, <1>2, <1>4, <1>5 DEF MapsOK
<1>6. CASE f.at \in {"transfer", "discard", "discarding", "calm"} /\ Moving(f)
  BY <1>0, <1>3, <1>4, <1>6 DEF MapsOK
<1>7. CASE f.at # "right" /\ ~(f.at \in {"transfer", "discard", "discarding", "calm"} /\ Moving(f))
  BY <1>0, <1>1, <1>7 DEF MapsOK
<1> QED BY <1>2, <1>5, <1>6, <1>7

LEMMA GoingOne ==
  ASSUME NEW nd, NEW c, NEW f, NEW k, Local(nd, c, f, k), Going(f)
  PROVE  OneAndTyped(Summary(c, f, k))
<1> PICK s : s = Summary(c, f, k)
  OBVIOUS
<1>0. FrameOK(c, f) /\ ChainsOK(nd, c, f, k) /\ MapsOK(nd, c, f, k)
  BY DEF Local
<1>1. GoingOK(c, f) /\ f \in FrameType /\ f.cur \in NodeId /\ f.at \notin {"idle", "todo"}
  BY <1>0, GoingIs
<1>2. NULL \notin NodeId
  BY TreeAssumption
<1>3. Counts(k) \subseteq NodeId /\ Pending(f) \notin Counts(k)
  BY <1>0, GoingChains
<1>4. Moving(f) => {f.shared, f.source, f.target_parent} \subseteq NodeId /\ f.shared \in Counts(k)
                     /\ f.role \notin {"list", "create", "remove"}
  <2>1. Moving(f) => f.shared \in k.chain[3] /\ Counts(k) = k.chain[1] \cup k.chain[2] \cup k.chain[3]
    BY <1>0, MovingPlaces, GoingChains
  <2> QED BY <2>1, <1>1 DEF GoingOK
<1>5. HasSource(f) => Moving(f) /\ f.source \in Counts(k) /\ f.source # Root
  <2>1. HasSource(f) => Moving(f) /\ f.source # f.shared
    BY DEF HasSource
  <2>2. HasSource(f) => f.source \in k.chain[1] /\ Counts(k) = k.chain[1] \cup k.chain[2] \cup k.chain[3]
    BY <2>1, <1>0, MovingPlaces, GoingChains
  <2> QED BY <2>1, <2>2, <1>1 DEF GoingOK
<1>6. f.at \in {"private", "flag", "get", "leave"} => f.cur \in Counts(k)
  <2>1. f.at \in {"private", "flag", "get", "leave"} => ~Ahead(f) /\ (InLock(f) \/ Leading(f))
    BY DEF Ahead, InLock, Leading
  <2> QED BY <2>1, <1>0, CurCounts
<1>7. ~Moving(f) /\ ~Ahead(f) => f.cur \in Counts(k)
  BY <1>0, CurCounts
<1>8. Gone(f) => (Moving(f) /\ HasSource(f)) \/ (~Moving(f) /\ f.role = "remove" /\ f.cur # Root)
  BY <1>1, <1>4, <1>5 DEF GoingOK, Gone
<1>9. PassesOn(f, k) \subseteq Counts(k) \cup {Pending(f)}
  <2>1. CASE f.at = "count"
    BY <2>1, <1>1 DEF PassesOn, Pending, Ahead
  <2>2. CASE f.at = "flag"
    BY <2>2, <1>1, <1>6 DEF PassesOn
  <2>3. CASE f.at \notin {"count", "flag"}
    BY <2>3, <1>1 DEF PassesOn
  <2> QED BY <2>1, <2>2, <2>3
<1>10. Owns(f) \subseteq Counts(k) \cap Writes(f)
  <2>1. ASSUME f.at \in {"body", "unlink", "discard", "discarding", "calm"}, f.role = "remove"
        PROVE  f.cur \in Counts(k) \cap Writes(f)
    <3>1. ~Moving(f) /\ ~Ahead(f) /\ IsWriter(f) /\ Inside(f)
      BY <2>1, <1>4 DEF Ahead, IsWriter, Inside
    <3> QED BY <3>1, <1>1, <1>7 DEF Writes
  <2>2. ASSUME HasSource(f) PROVE f.source \in Counts(k) \cap Writes(f)
    BY <2>2, <1>1, <1>3, <1>5 DEF Writes, Going
  <2> QED BY <2>1, <2>2 DEF Owns
<1>11. Acquires(f) \subseteq Counts(k) \cap Writes(f)
  <2>1. ASSUME f.at = "flag", IsWriter(f) PROVE f.cur \in Counts(k) \cap Writes(f)
    BY <2>1, <1>1, <1>6 DEF Writes, Inside
  <2> QED BY <2>1 DEF Acquires
<1>12. /\ Moves(f) = IF Gone(f) /\ Moving(f) THEN {f.source} ELSE {}
       /\ Removes(f) = IF Gone(f) /\ ~Moving(f) THEN {f.cur} ELSE {}
       /\ Unlinks(f) = Removes(f) \cup IF f.at = "unlink" THEN {f.cur} ELSE {}
       /\ GoesAway(f, k) = IF f.at = "flag" THEN {f.cur} ELSE {}
  BY <1>1 DEF Moves, Removes, Unlinks, GoesAway
<1>13. Moves(f) \cup Unlinks(f) \subseteq Owns(f)
  <2>1. Gone(f) => f.at \in {"discard", "discarding", "calm"}
    BY DEF Gone
  <2>2. f.at = "unlink" => f.role = "remove"
    BY <1>1 DEF GoingOK
  <2> QED BY <2>1, <2>2, <1>8, <1>12 DEF Owns
<1>14. Moves(f) \cup Unlinks(f) # {} => GoesAway(f, k) = {} /\ Pending(f) = NULL
  <2>1. Moves(f) \cup Unlinks(f) # {} => f.at \in {"discard", "discarding", "calm", "unlink"}
    BY <1>12 DEF Gone
  <2> QED BY <2>1, <1>12 DEF Pending, Ahead
<1>15. Root \notin Moves(f) \cup Unlinks(f)
  <2>1. f.at = "unlink" => f.cur # Root
    BY <1>1 DEF GoingOK
  <2> QED BY <2>1, <1>5, <1>8, <1>12
<1>16. Flags(f) \subseteq Moves(f) \cup Removes(f) /\ Vacates(f) \subseteq Moves(f) \cup Removes(f)
  <2>1. f.at \in {"discarding", "calm"} => Gone(f)
    BY DEF Gone
  <2>2. f.at \in {"discarding", "calm"} =>
          {IF Moving(f) THEN f.source ELSE f.cur} \subseteq Moves(f) \cup Removes(f)
    BY <2>1, <1>12
  <2> QED BY <2>2, <1>1 DEF Flags, Vacates
<1>17. SleepsAsReader(f) \cup SleepsAsWriter(f) \subseteq {Pending(f)}
  BY DEF SleepsAsReader, SleepsAsWriter, Pending, Ahead
<1>18. f.at \in {"left", "right"} => Moving(f)
  BY <1>1 DEF GoingOK, HasSource
<1>19. Pending(f) \in NodeId \cup {NULL}
  <2>1. f.next \in NodeId \cup {NULL}
    BY <1>1 DEF FrameType
  <2> QED BY <2>1, <1>1 DEF Pending
<1>20. SleepsInPrivate(f) \subseteq NodeId
  <2>1. CASE f.at = "private"
    BY <2>1, <1>1 DEF SleepsInPrivate
  <2>2. CASE f.at = "discarding"
    BY <2>2, <1>1, <1>4 DEF SleepsInPrivate
  <2>3. CASE f.at # "private" /\ f.at # "discarding"
    BY <2>3 DEF SleepsInPrivate
  <2> QED BY <2>1, <2>2, <2>3
<1>21. s.moveLock \subseteq Counts(k)
  BY <1>4, <1>18, SummaryIs
<1>22. Removes(f) \subseteq Unlinks(f)
  BY DEF Unlinks
<1>23. /\ s.reads = Reads(f) /\ s.writes = Writes(f) /\ s.counts = Counts(k)
       /\ s.pending = Pending(f) /\ s.maps = k.maps
       /\ s.asReader = SleepsAsReader(f) /\ s.asWriter = SleepsAsWriter(f)
       /\ s.inPrivate = SleepsInPrivate(f)
       /\ s.moves = Moves(f) /\ s.removes = Removes(f) /\ s.unlinks = Unlinks(f)
       /\ s.flags = Flags(f) /\ s.vacates = Vacates(f)
       /\ s.owns = Owns(f) /\ s.acquires = Acquires(f)
       /\ s.goesAway = GoesAway(f, k) /\ s.passesOn = PassesOn(f, k)
  BY SummaryIs
<1>24. One(s)
  BY ONLY <1>3, <1>9, <1>10, <1>11, <1>13, <1>14, <1>15, <1>16, <1>17, <1>21, <1>22,
      <1>23 DEF One
<1>25. Reads(f) \subseteq NodeId /\ Writes(f) \subseteq NodeId
  BY <1>1 DEF Reads, Writes
<1>26. k.maps \subseteq NodeId
  BY GoingMaps
<1>27. SleepsAsReader(f) \cup SleepsAsWriter(f) \subseteq NodeId
  BY <1>1 DEF SleepsAsReader, SleepsAsWriter
<1>28. Typed(s)
  BY ONLY <1>3, <1>10, <1>11, <1>13, <1>15, <1>16, <1>19, <1>20, <1>21, <1>22, <1>23, <1>25,
      <1>26, <1>27 DEF Typed
<1> QED BY <1>24, <1>28 DEF OneAndTyped

LEMMA LocalOne ==
  ASSUME NEW nd, NEW c, NEW f, NEW k, Local(nd, c, f, k)
  PROVE  One(Summary(c, f, k)) /\ Typed(Summary(c, f, k))
<1>1. FrameOK(c, f)
  BY DEF Local
<1>2. CASE f.at = "idle"
  <2> PICK s : s = Summary(c, f, k)
    OBVIOUS
  <2>1. f = NoFrame
    BY <1>1, <1>2 DEF FrameOK
  <2>2. TodoSummary(s, {}, {}, {}, {}, {}, {}, {}, {}) /\ s.goesAway = {} /\ s.passesOn = {}
    BY <2>1, IdleSummary
  <2> QED BY <2>2, TreeAssumption DEF TodoSummary, One, Typed
<1>3. CASE f.at = "todo"
  BY <1>3, TodoLocalIs, TodoOne DEF OneAndTyped
<1>4. CASE Going(f)
  BY <1>4, GoingOne DEF OneAndTyped
<1> QED BY <1>2, <1>3, <1>4 DEF Going

-----------------------------------------------------------------------------
(* From one thread to the invariant.                                       *)

\* The folders of X have the parents and names they had.
SamePlaces(nd, nd2, X) ==
  \A x \in X \cap NodeId : nd2[x].parent = nd[x].parent /\ nd2[x].name = nd[x].name

\* What is so of a thread stays so while the folders where it counts, and the
\* one it is about to count in, keep their places.
LEMMA LocalStable ==
  ASSUME NEW nd, NEW nd2, NEW c, NEW f, NEW k, Local(nd, c, f, k),
         SamePlaces(nd, nd2, Counts(k) \cup {Pending(f)})
  PROVE  Local(nd2, c, f, k)
<1>1. FrameOK(c, f) /\ ChainsOK(nd, c, f, k) /\ MapsOK(nd, c, f, k)
  BY DEF Local
<1>2. \A i \in Slots(f) : IsChain(nd, k.chain[i], Bottom(nd, f, i), Top(f, i)) /\ k.chain[i] \subseteq Counts(k)
  BY <1>1 DEF ChainsOK, Counts
<1>3. \A i \in Slots(f) : k.chain[i] \subseteq NodeId
  BY <1>2 DEF IsChain
<1>4. \A i \in Slots(f) : \A x \in k.chain[i] : nd2[x].parent = nd[x].parent /\ nd2[x].name = nd[x].name
  BY <1>2, <1>3 DEF SamePlaces
<1>5. Pending(f) \in NodeId =>
        nd2[Pending(f)].parent = nd[Pending(f)].parent /\ nd2[Pending(f)].name = nd[Pending(f)].name
  BY DEF SamePlaces
<1>6. Going(f) => Here(nd2, f) = Here(nd, f)
  <2>1. Going(f) => f.cur \in NodeId
    BY <1>1, GoingIs
  <2>2. Ahead(f) => Pending(f) = f.cur
    BY DEF Pending
  <2> QED BY <2>1, <2>2, <1>5 DEF Here
<1>7. \A i : Bottom(nd2, f, i) = Bottom(nd, f, i)
  <2> SUFFICES ASSUME NEW i PROVE Bottom(nd2, f, i) = Bottom(nd, f, i)
    OBVIOUS
  <2>1. CASE f.at = "todo"
    <3>1. ~Going(f)
      BY <2>1 DEF Going
    <3> QED BY <2>1, <3>1 DEF Bottom
  <2>2. CASE f.at # "todo" /\ ~Going(f)
    BY <2>2 DEF Bottom
  <2>3. CASE Going(f) /\ ~Moving(f)
    <3>1. f.at # "todo"
      BY <2>3 DEF Going
    <3> QED BY <2>3, <3>1, <1>6 DEF Bottom
  <2>4. CASE Going(f) /\ Moving(f)
    <3>1. f.at # "todo"
      BY <2>4 DEF Going
    <3> QED BY <2>4, <3>1, <1>6 DEF Bottom
  <2> QED BY <2>1, <2>2, <2>3, <2>4
<1>8. \A i \in Slots(f) : IsChain(nd2, k.chain[i], Bottom(nd2, f, i), Top(f, i))
  <2> SUFFICES ASSUME NEW i \in Slots(f)
               PROVE  IsChain(nd2, k.chain[i], Bottom(nd, f, i), Top(f, i))
    BY <1>7
  <2>1. IsChain(nd, k.chain[i], Bottom(nd, f, i), Top(f, i))
        /\ \A x \in k.chain[i] : nd2[x].parent = nd[x].parent
    BY <1>2, <1>4
  <2> QED BY <2>1, ChainStable
<1>9. f.at = "leave" /\ f.next # NULL => nd2[f.next].parent = f.cur
  <2>1. f.at = "leave" => Pending(f) = f.next /\ f.next \in NodeId \cup {NULL}
    BY <1>1 DEF Pending, Ahead, FrameOK, FrameType
  <2> QED BY <2>1, <1>1, <1>5 DEF ChainsOK
<1>10. Going(f) /\ Moving(f) =>
         /\ \A i \in {1, 2} : \A n \in k.chain[i] :
              nd2[n].parent = f.shared => nd2[n].name = Branch(c, i)
         /\ Pending(f) # NULL
              => (nd2[Pending(f)].parent = f.shared
                    => nd2[Pending(f)].name = Branch(c, WalkSlot(f)))
  <2>1. Going(f) => Slots(f) = 1 .. 3
    BY DEF Slots, Going
  <2>2. Pending(f) \in NodeId \cup {NULL}
    BY <1>1, LocalOne, SummaryIs DEF Typed
  <2>3. Going(f) /\ Moving(f) => \A i \in {1, 2} : \A n \in k.chain[i] :
              nd2[n].parent = f.shared => nd2[n].name = Branch(c, i)
    BY <2>1, <1>1, <1>4 DEF ChainsOK
  <2>4. Going(f) /\ Moving(f) /\ Pending(f) # NULL
              => (nd2[Pending(f)].parent = f.shared
                    => nd2[Pending(f)].name = Branch(c, WalkSlot(f)))
    BY <2>2, <1>1, <1>5 DEF ChainsOK
  <2> QED BY <2>3, <2>4
<1>11. ChainsOK(nd2, c, f, k)
  BY <1>1, <1>8, <1>9, <1>10 DEF ChainsOK
<1>12. f.at \in {"right", "transfer", "discard", "discarding", "calm"} /\ Moving(f)
         => nd2[f.source].parent = nd[f.source].parent
  <2>1. ASSUME f.at \in {"right", "transfer", "discard", "discarding", "calm"}, Moving(f)
        PROVE  HasSource(f) /\ Going(f)
    <3>1. Going(f)
      BY <2>1 DEF Going
    <3> QED BY <3>1, <2>1, <1>1, GoingIs DEF GoingOK, Gone, Moving
  <2>2. HasSource(f) /\ Going(f) => f.source \in k.chain[1] /\ 1 \in Slots(f)
    BY <1>1, SourceParent DEF HasSource, Slots, Going
  <2> QED BY <2>1, <2>2, <1>4
<1>13. f.at = "right" => Moving(f)
  BY <1>1 DEF FrameOK, GoingOK, HasSource, Going
<1>14. MapsOK(nd2, c, f, k)
  BY <1>1, <1>12, <1>13 DEF MapsOK
<1> QED BY <1>1, <1>11, <1>14 DEF Local

-----------------------------------------------------------------------------
\* The summaries when that of t has become s.
With(S, t, s) == [S EXCEPT ![t] = s]

LEMMA InvGood ==
  ASSUME NEW nd, NEW cl, NEW fr, NEW an, NEW K, NEW dp, Inv(nd, cl, fr, an, K, dp),
         NEW S, S = Summaries(cl, fr, K)
  PROVE  /\ Good(nd, S, dp) /\ \A u \in Thread : One(S[u])
         /\ \A u \in Thread : S[u] = Summary(cl[u], fr[u], K[u]) /\ Local(nd, cl[u], fr[u], K[u])
<1>1. \A u \in Thread : S[u] = Summary(cl[u], fr[u], K[u])
  BY DEF Summaries
<1>2. \A u \in Thread : Local(nd, cl[u], fr[u], K[u])
  BY DEF Inv
<1>3. \A u \in Thread : One(S[u]) /\ Typed(S[u])
  BY <1>1, <1>2, LocalOne
<1>4. nd \in [NodeId -> NodeType] /\ Global(nd, S, dp)
  BY DEF Inv
<1> QED BY <1>1, <1>2, <1>3, <1>4 DEF Good

LEMMA WithIs ==
  ASSUME NEW cl, NEW fr, NEW K, NEW S, S = Summaries(cl, fr, K), NEW t \in Thread, NEW s
  PROVE  Others(S, With(S, t, s), t) /\ With(S, t, s)[t] = s
BY DEF Summaries, With, Others

LEMMA Assemble ==
  ASSUME NEW nd, NEW cl, NEW fr, NEW an, NEW K, NEW dp, Inv(nd, cl, fr, an, K, dp),
         NEW t \in Thread, NEW nd2, NEW an2, NEW g, NEW k, NEW dp2,
         g.at # "idle" => t \in DOMAIN cl /\ an2[t] = None,
         \A u \in Thread \ {t} : an2[u] = an[u],
         nd2 \in [NodeId -> NodeType], Local(nd2, cl[t], g, k),
         \A u \in Thread \ {t} : SamePlaces(nd, nd2, Counts(K[u]) \cup {Pending(fr[u])}),
         Global(nd2, With(Summaries(cl, fr, K), t, Summary(cl[t], g, k)), dp2)
  PROVE  \E K2, e : Inv(nd2, cl, [fr EXCEPT ![t] = g], an2, K2, e)
<1> PICK fr2, K2 : fr2 = [fr EXCEPT ![t] = g] /\ K2 = [u \in Thread |-> IF u = t THEN k ELSE K[u]]
  OBVIOUS
<1>1. fr \in [Thread -> FrameType] /\ g \in FrameType
  BY DEF Inv, Local, FrameOK
<1>2. /\ fr2 \in [Thread -> FrameType] /\ fr2[t] = g
      /\ \A u \in Thread \ {t} : fr2[u] = fr[u]
  BY <1>1
<1>3. K2[t] = k /\ \A u \in Thread \ {t} : K2[u] = K[u]
  OBVIOUS
<1>4. \A u \in Thread : Local(nd2, cl[u], fr2[u], K2[u])
  <2> SUFFICES ASSUME NEW u \in Thread, u # t PROVE Local(nd2, cl[u], fr2[u], K2[u])
    BY <1>2, <1>3
  <2>1. Local(nd, cl[u], fr[u], K[u]) /\ SamePlaces(nd, nd2, Counts(K[u]) \cup {Pending(fr[u])})
    BY DEF Inv
  <2> QED BY <2>1, <1>2, <1>3, LocalStable
<1>5. Summaries(cl, fr2, K2) = With(Summaries(cl, fr, K), t, Summary(cl[t], g, k))
  <2> PICK S, z : S = Summaries(cl, fr, K) /\ z = Summary(cl[t], g, k)
    OBVIOUS
  <2>1. With(S, t, z) = [u \in Thread |-> IF u = t THEN z ELSE S[u]]
    BY DEF With, Summaries
  <2>2. \A u \in Thread : S[u] = Summary(cl[u], fr[u], K[u])
    BY DEF Summaries
  <2>3. Summaries(cl, fr2, K2) = [u \in Thread |-> IF u = t THEN z ELSE S[u]]
    <3>1. Summaries(cl, fr2, K2) = [u \in Thread |-> Summary(cl[u], fr2[u], K2[u])]
      BY DEF Summaries
    <3>2. \A u \in Thread : Summary(cl[u], fr2[u], K2[u]) = IF u = t THEN z ELSE S[u]
      BY <1>2, <1>3, <2>2
    <3> QED BY <3>1, <3>2
  <2> QED BY <2>1, <2>3
<1>6. \A u \in Thread : fr2[u].at # "idle" => u \in DOMAIN cl /\ an2[u] = None
  <2>1. \A u \in Thread : fr[u].at # "idle" => u \in DOMAIN cl /\ an[u] = None
    BY DEF Inv
  <2> QED BY <2>1, <1>2
<1>7. cl \in Workloads
  BY DEF Inv
<1>8. Global(nd2, Summaries(cl, fr2, K2), dp2)
  BY <1>5
<1> HIDE DEF Inv
<1>9. Inv(nd2, cl, fr2, an2, K2, dp2)
  BY ONLY nd2 \in [NodeId -> NodeType], <1>2, <1>4, <1>6, <1>7, <1>8 DEF Inv
<1> QED BY <1>9

-----------------------------------------------------------------------------
(* The lists at the returns of tree_list, tree_create and tree_remove.     *)

\* tree_move: A from its source to below shared_node, B from its target's parent,
\* D from shared_node to the root.
Ways(nd, f, A, B, D) ==
  /\ {f.shared, f.source, f.target_parent} \subseteq NodeId
  /\ IsChain(nd, A, f.source, f.shared) /\ IsChain(nd, B, f.target_parent, f.shared)
  /\ IsChain(nd, D, f.shared, NULL)
  /\ A \cap B = {} /\ A \cap D = {} /\ B \cap D = {}

LEMMA WaysIs ==
  ASSUME NEW nd, NEW f, NEW A, NEW B, NEW D, Ways(nd, f, A, B, D)
  PROVE  /\ f.shared \in NodeId /\ f.source \in NodeId /\ f.target_parent \in NodeId
         /\ NULL \notin NodeId /\ A \subseteq NodeId /\ B \subseteq NodeId /\ D \subseteq NodeId
         /\ f.shared \in D
         /\ f.source # f.shared => f.source \in A
         /\ f.source = f.shared => A = {}
         /\ f.target_parent # f.shared => f.target_parent \in B
         /\ f.target_parent = f.shared => B = {}
         /\ IsChain(nd, A \cup D, f.source, NULL) /\ IsChain(nd, B \cup D, f.target_parent, NULL)
         /\ f.source # f.shared => f.source # f.target_parent
<1>1. f.shared \in NodeId /\ f.source \in NodeId /\ f.target_parent \in NodeId /\ NULL \notin NodeId
  BY TreeAssumption DEF Ways
<1>2. A \subseteq NodeId /\ B \subseteq NodeId /\ D \subseteq NodeId
  BY DEF Ways, IsChain
<1>3. f.shared \in D
  BY <1>1 DEF Ways, IsChain
<1>4. f.source # f.shared => f.source \in A
  BY DEF Ways, IsChain
<1>5. f.source = f.shared => A = {}
  BY DEF Ways, IsChain
<1>6. f.target_parent # f.shared => f.target_parent \in B
  BY DEF Ways, IsChain
<1>7. f.target_parent = f.shared => B = {}
  BY DEF Ways, IsChain
<1>8. IsChain(nd, A \cup D, f.source, NULL)
  <2>1. CASE f.source = f.shared
    <3>1. A \cup D = D
      BY <2>1, <1>5
    <3> QED BY <3>1, <2>1 DEF Ways
  <2>2. CASE f.source # f.shared
    <3>1. NULL \notin A /\ f.shared # NULL
      BY <1>1, <1>2
    <3>2. IsChain(nd, A, f.source, f.shared) /\ IsChain(nd, D, f.shared, NULL) /\ A \cap D = {}
      BY DEF Ways
    <3> QED BY <3>1, <3>2, ChainJoin
  <2> QED BY <2>1, <2>2
<1>9. IsChain(nd, B \cup D, f.target_parent, NULL)
  <2>1. CASE f.target_parent = f.shared
    <3>1. B \cup D = D
      BY <2>1, <1>7
    <3> QED BY <3>1, <2>1 DEF Ways
  <2>2. CASE f.target_parent # f.shared
    <3>1. NULL \notin B /\ f.shared # NULL
      BY <1>1, <1>2
    <3>2. IsChain(nd, B, f.target_parent, f.shared) /\ IsChain(nd, D, f.shared, NULL) /\ B \cap D = {}
      BY DEF Ways
    <3> QED BY <3>1, <3>2, ChainJoin
  <2> QED BY <2>1, <2>2
<1>10. f.source # f.shared => f.source # f.target_parent
  BY <1>4, <1>6 DEF Ways
<1> QED BY <1>1, <1>2, <1>3, <1>4, <1>5, <1>6, <1>7, <1>8, <1>9, <1>10

\* Leave a folder, and notify from there to the root.
LEMMA LeaveReaderPlan ==
  ASSUME NEW nd, NEW c \in Calls, NEW f \in FrameType, NEW r, Return(r) \in Items,
         NEW n \in NodeId, NEW a \in NodeId, NEW B, IsChain(nd, B, a, NULL)
  PROVE  Plan(nd, c, f, <<ReaderFinal(n), Notify(a, NULL), Return(r)>>,
              {n}, {}, {}, B, {}, {}, {a}, {a} \cap {n})
<1> PICK x1, x2, x3 : x1 = ReaderFinal(n) /\ x2 = Notify(a, NULL) /\ x3 = Return(r)
  OBVIOUS
<1>1. x1 \in Items /\ x2 \in Items /\ x3 \in Items
  BY ItemsAre
<1>2. Before(<<x2, x3>>, x2, <<x3>>) /\ Before(<<x1, x2, x3>>, x1, <<x2, x3>>)
  BY <1>1, BeforeTuple
<1>3. Plan(nd, c, f, <<x3>>, {}, {}, {}, {}, {}, {}, {}, {})
  BY PlanReturn
<1>4. B \cap {} = {} /\ a \in B
  BY TreeAssumption DEF IsChain
<1>5. Plan(nd, c, f, <<x2, x3>>, {}, {}, {}, {} \cup B, {}, {}, {} \cup (B \cap {a}), {})
  BY <1>2, <1>3, <1>4, PlanNotify
<1>6. {} \cup B = B /\ {} \cup (B \cap {a}) = {a}
  BY <1>4
<1>7. Plan(nd, c, f, <<x2, x3>>, {}, {}, {}, B, {}, {}, {a}, {})
  BY <1>5, <1>6
<1>8. n \notin {} \cup {}
  OBVIOUS
<1>9. Plan(nd, c, f, <<x1, x2, x3>>, {} \cup {n}, {}, {}, B, {}, {}, {a}, {} \cup ({a} \cap {n}))
  BY <1>2, <1>7, <1>8, PlanReader
<1>10. {} \cup {n} = {n} /\ {} \cup ({a} \cap {n}) = {a} \cap {n}
  OBVIOUS
<1> QED BY <1>9, <1>10

LEMMA LeaveWriterPlan ==
  ASSUME NEW nd, NEW c \in Calls, NEW f \in FrameType, NEW r, Return(r) \in Items,
         NEW n \in NodeId, NEW B, IsChain(nd, B, n, NULL)
  PROVE  Plan(nd, c, f, <<WriterFinal(n), Notify(n, NULL), Return(r)>>,
              {}, {n}, {}, B, {}, {}, {n}, {n})
<1> PICK x1, x2, x3 : x1 = WriterFinal(n) /\ x2 = Notify(n, NULL) /\ x3 = Return(r)
  OBVIOUS
<1>1. x1 \in Items /\ x2 \in Items /\ x3 \in Items
  BY ItemsAre
<1>2. Before(<<x2, x3>>, x2, <<x3>>) /\ Before(<<x1, x2, x3>>, x1, <<x2, x3>>)
  BY <1>1, BeforeTuple
<1>3. Plan(nd, c, f, <<x3>>, {}, {}, {}, {}, {}, {}, {}, {})
  BY PlanReturn
<1>4. B \cap {} = {} /\ n \in B
  BY TreeAssumption DEF IsChain
<1>5. Plan(nd, c, f, <<x2, x3>>, {}, {}, {}, {} \cup B, {}, {}, {} \cup (B \cap {n}), {})
  BY <1>2, <1>3, <1>4, PlanNotify
<1>6. {} \cup B = B /\ {} \cup (B \cap {n}) = {n}
  BY <1>4
<1>7. Plan(nd, c, f, <<x2, x3>>, {}, {}, {}, B, {}, {}, {n}, {})
  BY <1>5, <1>6
<1>8. n \notin {} \cup {}
  OBVIOUS
<1>9. Plan(nd, c, f, <<x1, x2, x3>>, {}, {} \cup {n}, {}, B, {}, {}, {n}, {} \cup ({n} \cap {n}))
  BY <1>2, <1>7, <1>8, PlanWriter
<1>10. {} \cup {n} = {n} /\ {} \cup ({n} \cap {n}) = {n}
  OBVIOUS
<1> QED BY <1>9, <1>10

\* tree_remove's end.
LEMMA RemovePlan ==
  ASSUME NEW nd, NEW c \in Calls, NEW f \in FrameType, NEW r, Return(r) \in Items,
         c.op = "remove", f.cur \in NodeId, f.cur # Root, NEW B, IsChain(nd, B, f.cur, NULL)
  PROVE  Plan(nd, c, f, <<WriterFinal(f.cur), Notify(f.cur, NULL), Free(f.cur), Return(r)>>,
              {}, {f.cur}, {}, B, {}, {f.cur}, {f.cur}, {f.cur})
<1> PICK n : n = f.cur
  OBVIOUS
<1>0. n \in NodeId /\ n # Root /\ IsChain(nd, B, n, NULL)
  OBVIOUS
<1> PICK x1, x2, x3, x4 :
      x1 = WriterFinal(n) /\ x2 = Notify(n, NULL) /\ x3 = Free(n) /\ x4 = Return(r)
  OBVIOUS
<1>1. x1 \in Items /\ x2 \in Items /\ x3 \in Items /\ x4 \in Items
  BY <1>0, ItemsAre
<1>2. /\ Before(<<x3, x4>>, x3, <<x4>>) /\ Before(<<x2, x3, x4>>, x2, <<x3, x4>>)
      /\ Before(<<x1, x2, x3, x4>>, x1, <<x2, x3, x4>>)
  BY <1>1, BeforeTuple
<1>3. Plan(nd, c, f, <<x4>>, {}, {}, {}, {}, {}, {}, {}, {})
  BY PlanReturn
<1>4. B \cap {} = {} /\ n \in B
  BY <1>0, TreeAssumption DEF IsChain
<1>5. \E q : <<x4>> = <<Return(q)>>
  OBVIOUS
<1>6. n \notin {}
  OBVIOUS
<1>7. Plan(nd, c, f, <<x3, x4>>, {}, {}, {}, {}, {}, {n}, {}, {})
  BY <1>0, <1>2, <1>3, <1>5, <1>6, PlanFree
<1>8. Plan(nd, c, f, <<x2, x3, x4>>, {}, {}, {}, {} \cup B, {}, {n}, {} \cup (B \cap {n}), {})
  BY <1>0, <1>2, <1>4, <1>7, PlanNotify
<1>9. {} \cup B = B /\ {} \cup (B \cap {n}) = {n}
  BY <1>4
<1>10. Plan(nd, c, f, <<x2, x3, x4>>, {}, {}, {}, B, {}, {n}, {n}, {})
  BY <1>8, <1>9
<1>11. n \notin {} \cup {}
  OBVIOUS
<1>12. Plan(nd, c, f, <<x1, x2, x3, x4>>, {}, {} \cup {n}, {}, B, {}, {n}, {n}, {} \cup ({n} \cap {n}))
  BY <1>0, <1>2, <1>10, <1>11, PlanWriter
<1>13. {} \cup {n} = {n} /\ {} \cup ({n} \cap {n}) = {n}
  OBVIOUS
<1> QED BY <1>12, <1>13

-----------------------------------------------------------------------------
(* The lists at the early returns of tree_move.                            *)

\* The end of tree_move when its source is not shared_node.
LEMMA LeaveSourcePlan ==
  ASSUME NEW nd, NEW c \in Calls, NEW f \in FrameType, NEW r, Return(r) \in Items,
         NEW A, NEW B, NEW D, Ways(nd, f, A, B, D), f.source # f.shared
  PROVE  Plan(nd, c, f, <<WriterFinal(f.source), ReaderFinal(f.shared),
                          Notify(f.source, NULL), Return(r)>>,
              {f.shared}, {f.source}, {}, A \cup D, {}, {}, {f.source}, {f.source})
<1> PICK m, n : m = f.source /\ n = f.shared
  OBVIOUS
<1>0. m \in NodeId /\ n \in NodeId /\ m # n /\ IsChain(nd, A \cup D, m, NULL)
  BY WaysIs
<1> PICK x1, x2, x3, x4 :
      x1 = WriterFinal(m) /\ x2 = ReaderFinal(n) /\ x3 = Notify(m, NULL) /\ x4 = Return(r)
  OBVIOUS
<1>1. x1 \in Items /\ x2 \in Items /\ x3 \in Items /\ x4 \in Items
  BY <1>0, ItemsAre
<1>2. Before(<<x1, x2, x3, x4>>, x1, <<x2, x3, x4>>)
  BY <1>1, BeforeTuple
<1>3. Plan(nd, c, f, <<x2, x3, x4>>, {n}, {}, {}, A \cup D, {}, {}, {m}, {m} \cap {n})
  BY <1>0, LeaveReaderPlan
<1>4. m \notin {n} \cup {}
  BY <1>0
<1>5. Plan(nd, c, f, <<x1, x2, x3, x4>>, {n}, {} \cup {m}, {}, A \cup D, {}, {}, {m},
           ({m} \cap {n}) \cup ({m} \cap {m}))
  BY <1>0, <1>2, <1>3, <1>4, PlanWriter
<1>6. {} \cup {m} = {m} /\ ({m} \cap {n}) \cup ({m} \cap {m}) = {m}
  OBVIOUS
<1> QED BY <1>5, <1>6

\* tree_move's reading of its target's parent, before s.
LEMMA LeaveTargetPlan ==
  ASSUME NEW nd, NEW c \in Calls, NEW f \in FrameType, NEW s,
         NEW R, NEW W, NEW M, NEW C, NEW G, NEW P,
         Plan(nd, c, f, s, R, W, M, C, {}, {}, G, P),
         f.target_parent \in NodeId, f.shared \in R, f.target_parent \notin W,
         f.target_parent # f.shared => f.target_parent \notin R
  PROVE  /\ Plan(nd, c, f, LeaveTarget(f) \o s, R \cup {f.target_parent}, W, M, C, {}, {}, G,
                 P \cup IF f.target_parent # f.shared THEN G \cap {f.target_parent} ELSE {})
         /\ LeaveTarget(f) \in Seq(Items)
<1>1. s \in Seq(Items)
  BY DEF Plan
<1>2. CASE f.target_parent = f.shared
  <2>1. LeaveTarget(f) = <<>>
    BY <1>2 DEF LeaveTarget, When
  <2>2. <<>> \o s = s /\ <<>> \in Seq(Items)
    BY <1>1, ConcatEmptySeq, EmptySeq
  <2>3. R \cup {f.target_parent} = R /\ P \cup (IF f.target_parent # f.shared THEN G \cap {f.target_parent} ELSE {}) = P
    BY <1>2
  <2> QED BY <2>1, <2>2, <2>3
<1>3. CASE f.target_parent # f.shared
  <2> PICK n : n = f.target_parent
    OBVIOUS
  <2>1. LeaveTarget(f) = <<ReaderFinal(n)>>
    BY <1>3 DEF LeaveTarget, When
  <2>2. n \in NodeId /\ n \notin R \cup W /\ ReaderFinal(n) \in Items
    BY <1>3, ItemsAre
  <2>3. Before(<<ReaderFinal(n)>> \o s, ReaderFinal(n), s)
    BY <1>1, <2>2, BeforeOne
  <2>4. Plan(nd, c, f, <<ReaderFinal(n)>> \o s, R \cup {n}, W, M, C, {}, {}, G, P \cup (G \cap {n}))
    BY <2>2, <2>3, PlanReader
  <2>5. <<ReaderFinal(n)>> \in Seq(Items)
    BY <2>2
  <2> QED BY <1>3, <2>1, <2>4, <2>5
<1> QED BY <1>2, <1>3

LEMMA LeaveParentPlan ==
  ASSUME NEW nd, NEW c \in Calls, NEW f \in FrameType, NEW r, Return(r) \in Items,
         NEW A, NEW B, NEW D, Ways(nd, f, A, B, D)
  PROVE  Plan(nd, c, f, LeaveTarget(f) \o <<ReaderFinal(f.shared), Notify(f.target_parent, NULL), Return(r)>>,
              {f.shared, f.target_parent}, {}, {}, B \cup D, {}, {}, {f.target_parent}, {f.target_parent})
<1> PICK m, n : m = f.target_parent /\ n = f.shared
  OBVIOUS
<1>0. m \in NodeId /\ n \in NodeId /\ IsChain(nd, B \cup D, m, NULL)
  BY WaysIs
<1> PICK s : s = <<ReaderFinal(n), Notify(m, NULL), Return(r)>>
  OBVIOUS
<1>1. Plan(nd, c, f, s, {n}, {}, {}, B \cup D, {}, {}, {m}, {m} \cap {n})
  BY <1>0, LeaveReaderPlan
<1>2. n \in {n} /\ m \notin {} /\ (m # n => m \notin {n})
  OBVIOUS
<1>3. Plan(nd, c, f, LeaveTarget(f) \o s, {n} \cup {m}, {}, {}, B \cup D, {}, {}, {m},
           ({m} \cap {n}) \cup IF m # n THEN {m} \cap {m} ELSE {})
  BY <1>0, <1>1, <1>2, LeaveTargetPlan
<1>4. {n} \cup {m} = {n, m} /\ ({m} \cap {n}) \cup (IF m # n THEN {m} \cap {m} ELSE {}) = {m}
  OBVIOUS
<1> QED BY <1>3, <1>4

\* ... in both of its folders.
LEMMA LeaveBothPlan ==
  ASSUME NEW nd, NEW c \in Calls, NEW f \in FrameType, NEW r, Return(r) \in Items,
         NEW A, NEW B, NEW D, Ways(nd, f, A, B, D), f.source # f.shared
  PROVE  LET s == <<WriterFinal(f.source)>> \o LeaveTarget(f) \o
                  <<ReaderFinal(f.shared), Notify(f.source, NULL),
                    Notify(f.target_parent, f.shared), Return(r)>>
         IN  Plan(nd, c, f, s, {f.shared, f.target_parent}, {f.source}, {}, (A \cup B) \cup D, {}, {},
                  {f.source} \cup (B \cap {f.target_parent}), {f.source} \cup (B \cap {f.target_parent}))
<1> PICK m, n, q : m = f.source /\ n = f.shared /\ q = f.target_parent
  OBVIOUS
<1>0. /\ m \in NodeId /\ n \in NodeId /\ q \in NodeId /\ m # n /\ m # q
      /\ IsChain(nd, A \cup D, m, NULL) /\ IsChain(nd, B, q, n) /\ m \in A
      /\ n \in D /\ B \cap D = {} /\ A \cap B = {} /\ (q # n => q \in B)
  BY WaysIs DEF Ways
<1> PICK x1, x3, x4, x5, x6 :
      /\ x1 = WriterFinal(m) /\ x3 = ReaderFinal(n) /\ x4 = Notify(m, NULL)
      /\ x5 = Notify(q, n) /\ x6 = Return(r)
  OBVIOUS
<1>1. x1 \in Items /\ x3 \in Items /\ x4 \in Items /\ x5 \in Items /\ x6 \in Items
  BY <1>0, ItemsAre
<1>2. /\ Before(<<x5, x6>>, x5, <<x6>>) /\ Before(<<x4, x5, x6>>, x4, <<x5, x6>>)
      /\ Before(<<x3, x4, x5, x6>>, x3, <<x4, x5, x6>>)
  BY <1>1, BeforeTuple
<1>3. Plan(nd, c, f, <<x6>>, {}, {}, {}, {}, {}, {}, {}, {})
  BY PlanReturn
<1>4. Plan(nd, c, f, <<x5, x6>>, {}, {}, {}, {} \cup B, {}, {}, {} \cup (B \cap {q}), {})
  <2>1. B \cap {} = {}
    OBVIOUS
  <2> QED BY <2>1, <1>0, <1>2, <1>3, PlanNotify
<1>5. {} \cup B = B /\ {} \cup (B \cap {q}) = B \cap {q} /\ (A \cup D) \cap B = {} /\ m \in A \cup D
  BY <1>0
<1>6. Plan(nd, c, f, <<x5, x6>>, {}, {}, {}, B, {}, {}, B \cap {q}, {})
  BY <1>4, <1>5
<1>7. Plan(nd, c, f, <<x4, x5, x6>>, {}, {}, {}, B \cup (A \cup D), {}, {}, (B \cap {q}) \cup ((A \cup D) \cap {m}), {})
  BY <1>0, <1>2, <1>5, <1>6, PlanNotify
<1> PICK G : G = {m} \cup (B \cap {q})
  OBVIOUS
<1>8. B \cup (A \cup D) = (A \cup B) \cup D /\ (B \cap {q}) \cup ((A \cup D) \cap {m}) = G
  BY <1>5
<1>9. Plan(nd, c, f, <<x4, x5, x6>>, {}, {}, {}, (A \cup B) \cup D, {}, {}, G, {})
  BY <1>7, <1>8
<1> PICK s3, C : s3 = <<x3, x4, x5, x6>> /\ C = (A \cup B) \cup D
  OBVIOUS
<1>10. Plan(nd, c, f, s3, {n}, {}, {}, C, {}, {}, G, {})
  <2>1. n \notin {} \cup {} /\ {} \cup {n} = {n} /\ {} \cup (G \cap {n}) = {}
    BY <1>0
  <2>2. Plan(nd, c, f, s3, {} \cup {n}, {}, {}, C, {}, {}, G, {} \cup (G \cap {n}))
    BY <2>1, <1>0, <1>2, <1>9, PlanReader
  <2> QED BY <2>1, <2>2
<1>11. Plan(nd, c, f, LeaveTarget(f) \o s3, {n, q}, {}, {}, C, {}, {}, G, B \cap {q})
        /\ LeaveTarget(f) \in Seq(Items)
  <2>1. n \in {n} /\ q \notin {} /\ (q # n => q \notin {n}) /\ {n} \cup {q} = {n, q}
    OBVIOUS
  <2>2. {} \cup (IF q # n THEN G \cap {q} ELSE {}) = B \cap {q}
    <3>1. CASE q # n
      BY <3>1, <1>0
    <3>2. CASE q = n
      BY <3>2, <1>0
    <3> QED BY <3>1, <3>2
  <2>3. Plan(nd, c, f, LeaveTarget(f) \o s3, {n} \cup {q}, {}, {}, C, {}, {}, G,
             {} \cup IF q # n THEN G \cap {q} ELSE {}) /\ LeaveTarget(f) \in Seq(Items)
    BY <1>0, <1>10, <2>1, LeaveTargetPlan
  <2> QED BY <2>1, <2>2, <2>3
<1>12. Before(<<x1>> \o LeaveTarget(f) \o s3, x1, LeaveTarget(f) \o s3)
  <2>1. s3 \in Seq(Items)
    BY <1>10 DEF Plan
  <2>2. Before(<<x1>> \o LeaveTarget(f), x1, LeaveTarget(f))
    BY <1>1, <1>11, BeforeOne
  <2> QED BY <1>1, <2>1, <2>2, BeforeCat
<1>13. m \notin {n, q} \cup {} /\ {} \cup {m} = {m} /\ (B \cap {q}) \cup (G \cap {m}) = G
  BY <1>0
<1>14. Plan(nd, c, f, <<x1>> \o LeaveTarget(f) \o s3, {n, q}, {} \cup {m}, {}, C, {}, {}, G,
            (B \cap {q}) \cup (G \cap {m}))
  BY <1>0, <1>11, <1>12, <1>13, PlanWriter
<1> QED BY <1>13, <1>14

-----------------------------------------------------------------------------
(* The lists at the end of tree_move.                                      *)

LEMMA FinalMapsIs ==
  ASSUME NEW c, NEW f, NEW p, p = node[f.source].parent
  PROVE  /\ p = f.target_parent => FinalMaps(c, f) = <<MapFinal(p)>>
         /\ p # f.target_parent /\ SourceFirst(c) =>
              FinalMaps(c, f) = <<MapFinal(p), MapFinal(f.target_parent)>>
         /\ p # f.target_parent /\ ~SourceFirst(c) =>
              FinalMaps(c, f) = <<MapFinal(f.target_parent), MapFinal(p)>>
<1> PICK q : q = f.target_parent
  OBVIOUS
<1>1. \A a : [i \in DOMAIN <<a>> |-> MapFinal(<<a>>[i])] = <<MapFinal(a)>>
  OBVIOUS
<1>2. \A a, b : [i \in DOMAIN <<a, b>> |-> MapFinal(<<a, b>>[i])] = <<MapFinal(a), MapFinal(b)>>
  OBVIOUS
<1>3. p = q => MapsInOrder(c, f) = <<p>>
  BY DEF MapsInOrder
<1>4. p # q /\ SourceFirst(c) => MapsInOrder(c, f) = <<p, q>>
  BY DEF MapsInOrder
<1>5. p # q /\ ~SourceFirst(c) => MapsInOrder(c, f) = <<q, p>>
  BY DEF MapsInOrder
<1>6. FinalMaps(c, f) = [i \in DOMAIN MapsInOrder(c, f) |-> MapFinal(MapsInOrder(c, f)[i])]
  BY DEF FinalMaps
<1> PICK maps : maps = MapsInOrder(c, f)
  OBVIOUS
<1>7. FinalMaps(c, f) = [i \in DOMAIN maps |-> MapFinal(maps[i])]
  BY <1>6
<1>8. CASE p = q
  BY <1>1, <1>3, <1>7, <1>8
<1>9. CASE p # q /\ SourceFirst(c)
  BY <1>2, <1>4, <1>7, <1>9
<1>10. CASE p # q /\ ~SourceFirst(c)
  BY <1>2, <1>5, <1>7, <1>10
<1> QED BY <1>8, <1>9, <1>10

\* The release of the maps, before s.
LEMMA LeaveMapsPlan ==
  ASSUME NEW nd, NEW c \in Calls, NEW f \in FrameType, NEW s,
         NEW R, NEW W, NEW C, NEW G, NEW P, NEW p \in NodeId, p = node[f.source].parent,
         Plan(nd, c, f, s, R, W, {}, C, {}, {}, G, P), f.target_parent \in NodeId
  PROVE  /\ Plan(nd, c, f, FinalMaps(c, f) \o s, R, W, {p, f.target_parent}, C, {}, {}, G, P)
         /\ FinalMaps(c, f) \in Seq(Items)
<1>1. s \in Seq(Items)
  BY DEF Plan
<1>2. \A a \in NodeId : Plan(nd, c, f, <<MapFinal(a)>> \o s, R, W, {a}, C, {}, {}, G, P)
                          /\ <<MapFinal(a)>> \o s \in Seq(Items) /\ MapFinal(a) \in Items
  <2> SUFFICES ASSUME NEW a \in NodeId
               PROVE  Plan(nd, c, f, <<MapFinal(a)>> \o s, R, W, {a}, C, {}, {}, G, P)
                        /\ <<MapFinal(a)>> \o s \in Seq(Items) /\ MapFinal(a) \in Items
    OBVIOUS
  <2>1. MapFinal(a) \in Items
    BY ItemsAre
  <2>2. Before(<<MapFinal(a)>> \o s, MapFinal(a), s)
    BY <1>1, <2>1, BeforeOne
  <2>3. Plan(nd, c, f, <<MapFinal(a)>> \o s, R, W, {} \cup {a}, C, {}, {}, G, P)
    <3>1. a \notin {}
      OBVIOUS
    <3> QED BY <2>2, <3>1, PlanMap
  <2>4. {} \cup {a} = {a}
    OBVIOUS
  <2> QED BY <2>1, <2>2, <2>3, <2>4 DEF Before
<1>3. \A a, b \in NodeId : a # b =>
        Plan(nd, c, f, <<MapFinal(a), MapFinal(b)>> \o s, R, W, {a, b}, C, {}, {}, G, P)
  <2> SUFFICES ASSUME NEW a \in NodeId, NEW b \in NodeId, a # b
               PROVE  Plan(nd, c, f, <<MapFinal(a), MapFinal(b)>> \o s, R, W, {a, b}, C, {}, {}, G, P)
    OBVIOUS
  <2> PICK x, y : x = MapFinal(a) /\ y = MapFinal(b)
    OBVIOUS
  <2>1. /\ x \in Items /\ y \in Items
        /\ Plan(nd, c, f, <<y>> \o s, R, W, {b}, C, {}, {}, G, P)
    BY <1>2
  <2>2. Before(<<x, y>>, x, <<y>>)
    BY <2>1, BeforeTuple
  <2>3. Before(<<x, y>> \o s, MapFinal(a), <<y>> \o s)
    BY <1>1, <2>1, <2>2, BeforeCat
  <2>4. Plan(nd, c, f, <<x, y>> \o s, R, W, {b} \cup {a}, C, {}, {}, G, P)
    <3>1. a \notin {b}
      OBVIOUS
    <3> QED BY <2>1, <2>3, <3>1, PlanMap
  <2>5. {b} \cup {a} = {a, b}
    OBVIOUS
  <2> QED BY <2>4, <2>5
<1> PICK q : q = f.target_parent
  OBVIOUS
<1>4. CASE p = q
  <2>1. FinalMaps(c, f) = <<MapFinal(p)>> /\ {p} = {p, q}
    BY <1>4, FinalMapsIs
  <2>2. <<MapFinal(p)>> \in Seq(Items)
    <3>1. MapFinal(p) \in Items /\ MapFinal(q) \in Items
      BY <1>2
    <3> PICK x, y : x = MapFinal(p) /\ y = MapFinal(q)
      OBVIOUS
    <3>2. x \in Items /\ y \in Items
      BY <3>1
    <3> QED BY ONLY <3>2, x = MapFinal(p), y = MapFinal(q)
  <2> QED BY <2>1, <2>2, <1>2
<1>5. CASE p # q /\ SourceFirst(c)
  <2>1. FinalMaps(c, f) = <<MapFinal(p), MapFinal(q)>>
    BY <1>5, FinalMapsIs
  <2>2. <<MapFinal(p), MapFinal(q)>> \in Seq(Items)
    <3>1. MapFinal(p) \in Items /\ MapFinal(q) \in Items
      BY <1>2
    <3> PICK x, y : x = MapFinal(p) /\ y = MapFinal(q)
      OBVIOUS
    <3>2. x \in Items /\ y \in Items
      BY <3>1
    <3> QED BY ONLY <3>2, x = MapFinal(p), y = MapFinal(q)
  <2> QED BY <2>1, <2>2, <1>3, <1>5
<1>6. CASE p # q /\ ~SourceFirst(c)
  <2>1. FinalMaps(c, f) = <<MapFinal(q), MapFinal(p)>> /\ {q, p} = {p, q}
    BY <1>6, FinalMapsIs
  <2>2. <<MapFinal(q), MapFinal(p)>> \in Seq(Items)
    <3>1. MapFinal(p) \in Items /\ MapFinal(q) \in Items
      BY <1>2
    <3> PICK x, y : x = MapFinal(p) /\ y = MapFinal(q)
      OBVIOUS
    <3>2. x \in Items /\ y \in Items
      BY <3>1
    <3> QED BY ONLY <3>2, x = MapFinal(p), y = MapFinal(q)
  <2> QED BY <2>1, <2>2, <1>3, <1>6
<1> QED BY <1>4, <1>5, <1>6

\* tree_move's end, when it has moved its source.
LEMMA MovePlan ==
  ASSUME NEW nd, NEW c \in Calls, NEW f \in FrameType, NEW r, Return(r) \in Items, c.op = "move",
         NEW A, NEW B, NEW D, Ways(nd, f, A, B, D), f.source # f.shared, f.source # Root,
         NEW p \in NodeId, p = node[f.source].parent
  PROVE  LET s == <<WriterFinal(f.source), Notify(f.source, NULL), Rename(f.source)>>
                    \o FinalMaps(c, f) \o LeaveTarget(f) \o
                  <<ReaderFinal(f.shared), Notify(f.target_parent, f.shared), Return(r)>>
         IN  Plan(nd, c, f, s, {f.shared, f.target_parent}, {f.source}, {p, f.target_parent},
                  (A \cup B) \cup D, {f.source}, {}, {f.source}, {f.source})
<1> PICK m, n, q : m = f.source /\ n = f.shared /\ q = f.target_parent
  OBVIOUS
<1>0. /\ m \in NodeId /\ n \in NodeId /\ q \in NodeId /\ m # n /\ m # q /\ m # Root
      /\ IsChain(nd, A \cup D, m, NULL) /\ IsChain(nd, B, q, n) /\ m \in A
      /\ n \in D /\ B \cap D = {} /\ A \cap B = {} /\ (q # n => q \in B)
  BY WaysIs DEF Ways
<1> PICK x1, x2, x3, x4, x5, x6 :
      /\ x1 = WriterFinal(m) /\ x2 = Notify(m, NULL) /\ x3 = Rename(m)
      /\ x4 = ReaderFinal(n) /\ x5 = Notify(q, n) /\ x6 = Return(r)
  OBVIOUS
<1>1. x1 \in Items /\ x2 \in Items /\ x3 \in Items /\ x4 \in Items /\ x5 \in Items /\ x6 \in Items
  BY <1>0, ItemsAre
<1>2. /\ Before(<<x5, x6>>, x5, <<x6>>) /\ Before(<<x4, x5, x6>>, x4, <<x5, x6>>)
      /\ Before(<<x1, x2, x3>>, x1, <<x2, x3>>) /\ Before(<<x2, x3>>, x2, <<x3>>)
  BY <1>1, BeforeTuple
<1>3. Plan(nd, c, f, <<x6>>, {}, {}, {}, {}, {}, {}, {}, {})
  BY PlanReturn
<1>4. Plan(nd, c, f, <<x5, x6>>, {}, {}, {}, {} \cup B, {}, {}, {} \cup (B \cap {q}), {})
  <2>1. B \cap {} = {}
    OBVIOUS
  <2> QED BY <2>1, <1>0, <1>2, <1>3, PlanNotify
<1> PICK G : G = B \cap {q}
  OBVIOUS
<1>5. {} \cup B = B /\ {} \cup (B \cap {q}) = G
  OBVIOUS
<1>6. Plan(nd, c, f, <<x5, x6>>, {}, {}, {}, B, {}, {}, G, {})
  BY <1>4, <1>5
<1> PICK s4 : s4 = <<x4, x5, x6>>
  OBVIOUS
<1>7. Plan(nd, c, f, s4, {n}, {}, {}, B, {}, {}, G, {} \cup (G \cap {n}))
  <2>1. n \notin {} \cup {} /\ {} \cup {n} = {n}
    OBVIOUS
  <2>2. Plan(nd, c, f, s4, {} \cup {n}, {}, {}, B, {}, {}, G, {} \cup (G \cap {n}))
    BY <2>1, <1>0, <1>2, <1>6, PlanReader
  <2> QED BY <2>1, <2>2
<1> PICK Q, s5 :
      /\ Q = ({} \cup (G \cap {n})) \cup IF q # n THEN G \cap {q} ELSE {}
      /\ s5 = LeaveTarget(f) \o s4
  OBVIOUS
<1>8. Plan(nd, c, f, s5, {n, q}, {}, {}, B, {}, {}, G, Q) /\ LeaveTarget(f) \in Seq(Items)
  <2>1. n \in {n} /\ q \notin {} /\ (q # n => q \notin {n}) /\ {n} \cup {q} = {n, q}
    OBVIOUS
  <2>2. Plan(nd, c, f, LeaveTarget(f) \o s4, {n} \cup {q}, {}, {}, B, {}, {}, G,
             ({} \cup (G \cap {n})) \cup IF q # n THEN G \cap {q} ELSE {})
          /\ LeaveTarget(f) \in Seq(Items)
    BY <1>0, <1>7, <2>1, LeaveTargetPlan
  <2> QED BY <2>1, <2>2
<1> PICK s6, M : s6 = FinalMaps(c, f) \o s5 /\ M = {p, q}
  OBVIOUS
<1>9. Plan(nd, c, f, s6, {n, q}, {}, M, B, {}, {}, G, Q) /\ FinalMaps(c, f) \in Seq(Items)
  <2>1. Plan(nd, c, f, FinalMaps(c, f) \o s5, {n, q}, {}, {p, q}, B, {}, {}, G, Q)
          /\ FinalMaps(c, f) \in Seq(Items)
    BY <1>0, <1>8, LeaveMapsPlan
  <2> QED BY <2>1
<1>10. s6 \in Seq(Items) /\ s5 \in Seq(Items) /\ s4 \in Seq(Items)
  BY <1>7, <1>8, <1>9 DEF Plan
<1>11. Before(<<x3>> \o s6, x3, s6)
  BY <1>1, <1>10, BeforeOne
<1>12. Plan(nd, c, f, <<x3>> \o s6, {n, q}, {}, M, B, {m}, {}, G, Q)
  <2>1. m \notin B
    BY <1>0
  <2> QED BY <2>1, <1>0, <1>9, <1>11, PlanRename
<1>13. Before(<<x2, x3>> \o s6, x2, <<x3>> \o s6) /\ Before(<<x1, x2, x3>> \o s6, x1, <<x2, x3>> \o s6)
  BY <1>1, <1>2, <1>10, BeforeCat
<1>14. Plan(nd, c, f, <<x2, x3>> \o s6, {n, q}, {}, M, B \cup (A \cup D), {m}, {},
            G \cup ((A \cup D) \cap {m}), Q)
  <2>1. (A \cup D) \cap B = {} /\ NULL \in NodeId \cup {NULL} /\ m \in NodeId \cup {NULL}
    BY <1>0
  <2> QED BY <2>1, <1>0, <1>12, <1>13, PlanNotify
<1> PICK C, H : C = (A \cup B) \cup D /\ H = G \cup {m}
  OBVIOUS
<1>15. Plan(nd, c, f, <<x2, x3>> \o s6, {n, q}, {}, M, C, {m}, {}, H, Q)
  <2>1. B \cup (A \cup D) = C /\ G \cup ((A \cup D) \cap {m}) = H
    BY <1>0
  <2> QED BY <2>1, <1>14
<1>16. Plan(nd, c, f, <<x1, x2, x3>> \o s6, {n, q}, {m}, M, C, {m}, {}, H, Q \cup {m})
  <2> PICK T, U, R, O, N : /\ T = <<x1, x2, x3>> \o s6 /\ U = <<x2, x3>> \o s6
                           /\ R = {n, q} /\ O = {} /\ N = {m}
    OBVIOUS
  <2>1. m \notin R \cup O /\ O \cup {m} = N /\ Q \cup (H \cap {m}) = Q \cup N
    BY <1>0
  <2>2. Plan(nd, c, f, U, R, O, M, C, N, O, H, Q) /\ Before(T, WriterFinal(m), U)
    BY <1>13, <1>15
  <2>3. Plan(nd, c, f, T, R, O \cup {m}, M, C, N, O, H, Q \cup (H \cap {m}))
    BY ONLY <2>1, <2>2, f \in FrameType, <1>0, PlanWriter
  <2> QED BY <2>1, <2>3
<1>17. <<x1, x2, x3>> \o s6 = <<x1, x2, x3>> \o FinalMaps(c, f) \o LeaveTarget(f) \o s4
  <2> PICK y, u, v : y = <<x1, x2, x3>> /\ u = FinalMaps(c, f) /\ v = LeaveTarget(f)
    OBVIOUS
  <2>1. y \in Seq(Items) /\ u \in Seq(Items) /\ v \in Seq(Items) /\ s4 \in Seq(Items)
    BY <1>1, <1>8, <1>9, <1>10
  <2>2. (y \o u) \o v = y \o (u \o v) /\ u \o v \in Seq(Items) /\ y \o u \in Seq(Items)
    BY ONLY <2>1, ConcatAssociative, ConcatProperties
  <2> PICK w : w = u \o v
    OBVIOUS
  <2>3. (y \o w) \o s4 = y \o (w \o s4) /\ w \o s4 = u \o (v \o s4)
    <3>1. w \in Seq(Items)
      BY <2>2
    <3>2. (y \o w) \o s4 = y \o (w \o s4)
      BY ONLY <3>1, <2>1, ConcatAssociative
    <3>3. (u \o v) \o s4 = u \o (v \o s4)
      BY ONLY <2>1, ConcatAssociative
    <3> QED BY <3>2, <3>3
  <2>4. y \o s6 = y \o (u \o (v \o s4))
    OBVIOUS
  <2> QED BY <2>2, <2>3, <2>4
<1>18. Plan(nd, c, f, <<x1, x2, x3>> \o s6, {n, q}, {m}, M, C, {m}, {}, {m}, {m})
  <2>1. {m} \subseteq H /\ {m} \subseteq Q \cup {m}
    OBVIOUS
  <2> QED BY <1>16, <2>1 DEF Plan, Account
<1> QED BY <1>17, <1>18

-----------------------------------------------------------------------------
(* What a call under way reads, writes and has counted.                    *)

\* Where it stays a reader or a writer, whatever becomes of the folder it is at.
KeptReads(f) == {n \in NodeId :
  (n = f.shared /\ Moving(f)) \/ (n = f.target_parent /\ HasTarget(f))}
KeptWrites(f) == {n \in NodeId : n = f.source /\ HasSource(f)}

LEMMA UsesAre ==
  ASSUME NEW f, Going(f), f.cur \in NodeId
  PROVE  /\ Inside(f) /\ ~IsWriter(f) => Reads(f) = KeptReads(f) \cup {f.cur} /\ Writes(f) = KeptWrites(f)
         /\ Inside(f) /\ IsWriter(f) => Reads(f) = KeptReads(f) /\ Writes(f) = KeptWrites(f) \cup {f.cur}
         /\ ~Inside(f) => Reads(f) = KeptReads(f) /\ Writes(f) = KeptWrites(f)
BY DEF Reads, Writes, Going, KeptReads, KeptWrites

LEMMA KeptStill ==
  ASSUME NEW f, ~Moving(f) PROVE KeptReads(f) = {} /\ KeptWrites(f) = {}
BY DEF KeptReads, KeptWrites, HasTarget, HasSource

LEMMA KeptMoving ==
  ASSUME NEW f, Moving(f), {f.shared, f.source, f.target_parent} \subseteq NodeId
  PROVE  /\ f.target_parent = f.shared \/ ~HasTarget(f) => KeptReads(f) = {f.shared}
         /\ HasTarget(f) => KeptReads(f) = {f.shared, f.target_parent}
         /\ HasSource(f) => KeptWrites(f) = {f.source}
         /\ ~HasSource(f) => KeptWrites(f) = {}
BY DEF KeptReads, KeptWrites

\* Where it has been, and where its walk has not begun.
LEMMA WaysDone ==
  ASSUME NEW nd, NEW c, NEW f, NEW k, FrameOK(c, f), ChainsOK(nd, c, f, k), Going(f), Moving(f),
         ~Ahead(f), ~Leading(f)
  PROVE  Ways(nd, f, k.chain[1], k.chain[2], k.chain[3])
<1>1. GoingOK(c, f) /\ f.at \notin {"lock", "sleep", "count"} /\ {f.shared, f.source, f.target_parent} \subseteq NodeId
  BY GoingIs DEF GoingOK
<1>2. \A i \in 1 .. 3 : IsChain(nd, k.chain[i], Bottom(nd, f, i), Top(f, i))
  BY GoingChains
<1>3. Here(nd, f) = f.cur
  BY DEF Here
<1>4. Bottom(nd, f, 1) = f.source
  <2>1. CASE HasSource(f)
    BY <2>1, BottomsMoving
  <2>2. CASE InLock(f) /\ f.role = "source"
    <3>1. f.walk = "source" /\ f.cur = f.source /\ ~HasSource(f)
      BY <2>2, <1>1 DEF GoingOK, HasSource
    <3> QED BY <3>1, <1>3, BottomsMoving
  <2>3. CASE f.source = f.shared /\ ~(InLock(f) /\ f.role = "source")
    <3>1. ~HasSource(f)
      BY <2>3 DEF HasSource
    <3>2. f.walk # "source"
      <4>1. CASE InLock(f)
        BY <4>1, <2>3, <1>1 DEF GoingOK, Leading
      <4>2. CASE ~InLock(f)
        <5>1. f.at \in {"body", "unlink", "maps", "left", "right", "transfer", "discard", "discarding", "calm"}
          BY <4>2, <1>1, GoingIs DEF InLock, Leading, Going, FrameType
        <5> QED BY <5>1, <3>1, <1>1 DEF GoingOK, Gone, Moving
      <4> QED BY <4>1, <4>2
    <3> QED BY <2>3, <3>1, <3>2, BottomsMoving
  <2> QED BY <2>1, <2>2, <2>3 DEF HasSource
<1>5. Bottom(nd, f, 2) = f.target_parent
  <2>1. CASE HasTarget(f)
    BY <2>1, BottomsMoving
  <2>2. CASE InLock(f) /\ f.role = "target"
    <3>1. f.walk = "target" /\ f.cur = f.target_parent /\ ~HasTarget(f)
      BY <2>2, <1>1 DEF GoingOK, HasTarget
    <3> QED BY <3>1, <1>3, BottomsMoving
  <2>3. CASE f.target_parent = f.shared /\ ~(InLock(f) /\ f.role = "target")
    <3>1. ~HasTarget(f)
      BY <2>3 DEF HasTarget
    <3>2. f.walk # "target"
      BY <2>3, <1>1 DEF GoingOK
    <3> QED BY <2>3, <3>1, <3>2, BottomsMoving
  <2> QED BY <2>1, <2>2, <2>3 DEF HasTarget
<1>6. /\ IsChain(nd, k.chain[1], f.source, f.shared) /\ IsChain(nd, k.chain[2], f.target_parent, f.shared)
      /\ IsChain(nd, k.chain[3], f.shared, NULL)
  BY <1>2, <1>4, <1>5, BottomsMoving
<1>7. k.chain[1] \cap k.chain[2] = {} /\ k.chain[1] \cap k.chain[3] = {}
         /\ k.chain[2] \cap k.chain[3] = {}
  BY GoingChains
<1> QED BY <1>1, <1>6, <1>7 DEF Ways

LEMMA WaysLeading ==
  ASSUME NEW nd, NEW c, NEW f, NEW k, FrameOK(c, f), ChainsOK(nd, c, f, k), Going(f), Moving(f),
         ~Ahead(f), Leading(f)
  PROVE  /\ f.walk = "source" =>
              f.source = f.shared /\ Ways(nd, f, {}, k.chain[2], k.chain[3]) /\ WalkSlot(f) = 1
         /\ f.walk = "target" =>
              f.target_parent = f.shared /\ Ways(nd, f, k.chain[1], {}, k.chain[3]) /\ WalkSlot(f) = 2
<1>1. GoingOK(c, f) /\ {f.shared, f.source, f.target_parent} \subseteq NodeId
  BY GoingIs DEF GoingOK
<1>2. \A i \in 1 .. 3 : IsChain(nd, k.chain[i], Bottom(nd, f, i), Top(f, i))
  BY GoingChains
<1>3. k.chain[1] \cap k.chain[2] = {} /\ k.chain[1] \cap k.chain[3] = {}
         /\ k.chain[2] \cap k.chain[3] = {}
  BY GoingChains
<1>4. IsChain(nd, {}, f.shared, f.shared)
  BY ChainEmpty
<1>5. ASSUME f.walk = "source"
      PROVE  f.source = f.shared /\ Ways(nd, f, {}, k.chain[2], k.chain[3]) /\ WalkSlot(f) = 1
  <2>1. f.source = f.shared /\ WalkSlot(f) = 1
    BY <1>1, <1>5, BottomsMoving DEF GoingOK
  <2>2. Bottom(nd, f, 2) = f.target_parent
    <3>1. HasTarget(f) \/ f.target_parent = f.shared
      BY <1>1, <1>5 DEF HasTarget, Leading, InLock, GoingOK
    <3> QED BY <3>1, <1>5, BottomsMoving
  <2>3. IsChain(nd, k.chain[2], f.target_parent, f.shared) /\ IsChain(nd, k.chain[3], f.shared, NULL)
    BY <1>2, <2>2, BottomsMoving
  <2> QED BY <1>1, <1>3, <1>4, <2>1, <2>3 DEF Ways
<1>6. ASSUME f.walk = "target"
      PROVE  f.target_parent = f.shared /\ Ways(nd, f, k.chain[1], {}, k.chain[3]) /\ WalkSlot(f) = 2
  <2>1. f.target_parent = f.shared /\ WalkSlot(f) = 2
    BY <1>1, <1>6, BottomsMoving DEF GoingOK
  <2>2. Bottom(nd, f, 1) = f.source
    <3>1. HasSource(f) \/ f.source = f.shared
      BY <1>1, <1>6 DEF HasSource, Leading, InLock, GoingOK
    <3> QED BY <3>1, <1>6, BottomsMoving
  <2>3. IsChain(nd, k.chain[1], f.source, f.shared) /\ IsChain(nd, k.chain[3], f.shared, NULL)
    BY <1>2, <2>2, BottomsMoving
  <2> QED BY <1>1, <1>3, <1>4, <2>1, <2>3 DEF Ways
<1> QED BY <1>5, <1>6

LEMMA PlanLess ==
  ASSUME NEW nd, NEW c, NEW f, NEW s,
         NEW R, NEW W, NEW M, NEW C, NEW N, NEW D, NEW G, NEW P,
         Plan(nd, c, f, s, R, W, M, C, N, D, G, P), NEW G2 \in SUBSET G, NEW P2 \in SUBSET P
  PROVE  Plan(nd, c, f, s, R, W, M, C, N, D, G2, P2)
BY DEF Plan, Account

LEMMA CodesAre ==
  /\ \A code \in Codes : Return(Result(code)) \in Items
  /\ \A names \in SUBSET Name : Return(Listing(names)) \in Items
<1>1. \A code \in Codes : Return(Result(code)) \in Items
  BY DEF Items, Return, Result, Codes
<1>2. \A names \in SUBSET Name : Return(Listing(names)) \in Items
  <2> SUFFICES ASSUME NEW names \in SUBSET Name PROVE Return(Listing(names)) \in Items
    OBVIOUS
  <2>1. Listing(names) \in [code : Codes, names : SUBSET Name]
    BY DEF Listing, Codes
  <2> QED BY <2>1 DEF Items, Return
<1> QED BY <1>1, <1>2

-----------------------------------------------------------------------------
(* The lists of a call that has found no folder.                           *)

LEMMA OnNoEntryPlan ==
  ASSUME NEW nd, NEW c, NEW f, NEW k, FrameOK(c, f), ChainsOK(nd, c, f, k), Going(f),
         ~Ahead(f), Leading(f)
  PROVE  Plan(nd, c, f, OnNoEntry(c, f), KeptReads(f), KeptWrites(f), {},
              Counts(k) \ k.chain[WalkSlot(f)], {}, {}, {}, {})
<1>1. c \in Calls /\ f \in FrameType /\ GoingOK(c, f)
  BY GoingIs
<1>2. Return(Result("NULL")) \in Items /\ Return(Result("ENOENT")) \in Items
  BY CodesAre DEF Codes
<1>3. CASE ~Moving(f)
  <2>1. KeptReads(f) = {} /\ KeptWrites(f) = {} /\ Counts(k) \ k.chain[WalkSlot(f)] = {}
    BY <1>3, KeptStill, StillPlaces, BottomsStill
  <2>2. CASE f.walk = "list"
    <3>1. OnNoEntry(c, f) = <<Return(Result("NULL"))>>
      BY <2>2 DEF OnNoEntry
    <3> QED BY <3>1, <2>1, <1>1, <1>2, PlanReturn
  <2>3. CASE f.walk \in {"create", "remove", "shared"}
    <3>1. OnNoEntry(c, f) = <<Return(Result("ENOENT"))>>
      BY <2>3 DEF OnNoEntry
    <3> QED BY <3>1, <2>1, <1>1, <1>2, PlanReturn
  <2> QED BY <2>2, <2>3, <1>1, <1>3 DEF Moving, GoingOK, Walks
<1>4. CASE Moving(f)
  <2>1. {f.shared, f.source, f.target_parent} \subseteq NodeId
    BY <1>1, <1>4 DEF GoingOK
  <2>2. /\ Counts(k) = k.chain[1] \cup k.chain[2] \cup k.chain[3]
        /\ k.chain[1] \cap k.chain[2] = {} /\ k.chain[1] \cap k.chain[3] = {}
        /\ k.chain[2] \cap k.chain[3] = {}
    BY GoingChains
  <2>3. /\ IsChain(nd, k.chain[3], f.shared, NULL)
        /\ ~HasSource(f) /\ f.walk # "source" => k.chain[1] = {}
        /\ ~HasTarget(f) /\ f.walk # "target" => k.chain[2] = {}
    BY <1>4, MovingPlaces
  <2>4. /\ f.walk = "source" =>
              f.source = f.shared /\ Ways(nd, f, {}, k.chain[2], k.chain[3]) /\ WalkSlot(f) = 1
        /\ f.walk = "target" =>
              f.target_parent = f.shared /\ Ways(nd, f, k.chain[1], {}, k.chain[3]) /\ WalkSlot(f) = 2
    BY <1>4, WaysLeading
  <2>5. /\ f.target_parent = f.shared \/ ~HasTarget(f) => KeptReads(f) = {f.shared}
        /\ HasTarget(f) => KeptReads(f) = {f.shared, f.target_parent}
        /\ HasSource(f) => KeptWrites(f) = {f.source}
        /\ ~HasSource(f) => KeptWrites(f) = {}
    BY <1>4, <2>1, KeptMoving
  <2> PICK r : r = Result("ENOENT")
    OBVIOUS
  <2>6. Plan(nd, c, f, <<ReaderFinal(f.shared), Notify(f.shared, NULL), Return(r)>>,
             {f.shared}, {}, {}, k.chain[3], {}, {}, {}, {})
    <3>1. Plan(nd, c, f, <<ReaderFinal(f.shared), Notify(f.shared, NULL), Return(r)>>,
               {f.shared}, {}, {}, k.chain[3], {}, {}, {f.shared}, {f.shared} \cap {f.shared})
      BY <1>1, <1>2, <2>1, <2>3, LeaveReaderPlan
    <3> QED BY <3>1, PlanLess
  <2>7. CASE f.walk = "source" /\ SourceFirst(c)
    <3>1. f.source = f.shared /\ f.target_parent = f.shared /\ ~HasSource(f) /\ ~HasTarget(f)
      BY <2>4, <2>7, <1>1, <1>4 DEF GoingOK, HasSource, HasTarget
    <3>2. KeptReads(f) = {f.shared} /\ KeptWrites(f) = {} /\ Counts(k) \ k.chain[WalkSlot(f)] = k.chain[3]
      BY <3>1, <2>2, <2>3, <2>4, <2>5, <2>7
    <3>3. OnNoEntry(c, f) = <<ReaderFinal(f.shared), Notify(f.shared, NULL), Return(r)>>
      BY <2>7 DEF OnNoEntry
    <3> QED BY <2>6, <3>2, <3>3
  <2>8. CASE f.walk = "target" /\ ~SourceFirst(c)
    <3>1. f.source = f.shared /\ f.target_parent = f.shared /\ ~HasSource(f) /\ ~HasTarget(f)
      BY <2>4, <2>8, <1>1, <1>4 DEF GoingOK, HasSource, HasTarget
    <3>2. KeptReads(f) = {f.shared} /\ KeptWrites(f) = {} /\ Counts(k) \ k.chain[WalkSlot(f)] = k.chain[3]
      BY <3>1, <2>2, <2>3, <2>4, <2>5, <2>8
    <3>3. OnNoEntry(c, f) = <<ReaderFinal(f.shared), Notify(f.shared, NULL), Return(r)>>
      BY <2>8 DEF OnNoEntry
    <3> QED BY <2>6, <3>2, <3>3
  <2>9. CASE f.walk = "target" /\ SourceFirst(c)
    <3>1. f.source # f.shared /\ f.target_parent = f.shared /\ HasSource(f) /\ ~HasTarget(f)
      BY <2>4, <2>9, <1>1, <1>4 DEF GoingOK, HasSource, HasTarget, Leading, InLock
    <3>2. /\ KeptReads(f) = {f.shared} /\ KeptWrites(f) = {f.source}
          /\ Counts(k) \ k.chain[WalkSlot(f)] = k.chain[1] \cup k.chain[3]
      BY <3>1, <2>2, <2>4, <2>5, <2>9
    <3>3. OnNoEntry(c, f) = <<WriterFinal(f.source), ReaderFinal(f.shared),
                              Notify(f.source, NULL), Return(r)>>
      BY <2>9 DEF OnNoEntry
    <3> PICK A, B, D : A = k.chain[1] /\ B = {} /\ D = k.chain[3]
      OBVIOUS
    <3>4. Ways(nd, f, A, B, D)
      BY <2>4, <2>9
    <3>5. Plan(nd, c, f, <<WriterFinal(f.source), ReaderFinal(f.shared), Notify(f.source, NULL), Return(r)>>,
               {f.shared}, {f.source}, {}, A \cup D, {}, {}, {f.source}, {f.source})
      BY <1>1, <1>2, <3>1, <3>4, LeaveSourcePlan
    <3>6. Plan(nd, c, f, <<WriterFinal(f.source), ReaderFinal(f.shared), Notify(f.source, NULL), Return(r)>>,
               {f.shared}, {f.source}, {}, A \cup D, {}, {}, {}, {})
      BY <3>5, PlanLess
    <3> QED BY <3>2, <3>3, <3>6
  <2>10. CASE f.walk = "source" /\ ~SourceFirst(c)
    <3>1. f.source = f.shared /\ ~HasSource(f) /\ (HasTarget(f) \/ f.target_parent = f.shared)
      BY <2>4, <2>10, <1>1, <1>4 DEF GoingOK, HasSource, HasTarget, Leading, InLock
    <3>2. /\ KeptReads(f) = {f.shared, f.target_parent} /\ KeptWrites(f) = {}
          /\ Counts(k) \ k.chain[WalkSlot(f)] = k.chain[2] \cup k.chain[3]
      BY <3>1, <2>2, <2>4, <2>5, <2>10
    <3>3. OnNoEntry(c, f) = LeaveTarget(f) \o
             <<ReaderFinal(f.shared), Notify(f.target_parent, NULL), Return(r)>>
      BY <2>10 DEF OnNoEntry
    <3> PICK A, B, D, s : A = {} /\ B = k.chain[2] /\ D = k.chain[3] /\ s = OnNoEntry(c, f)
      OBVIOUS
    <3>4. Ways(nd, f, A, B, D)
      BY <2>4, <2>10
    <3>5. Plan(nd, c, f, s, {f.shared, f.target_parent}, {}, {}, B \cup D, {}, {}, {f.target_parent}, {f.target_parent})
      <4>1. Plan(nd, c, f, LeaveTarget(f) \o <<ReaderFinal(f.shared), Notify(f.target_parent, NULL), Return(r)>>,
                 {f.shared, f.target_parent}, {}, {}, B \cup D, {}, {}, {f.target_parent}, {f.target_parent})
        <5>1. Return(r) \in Items
          BY <1>2
        <5> QED BY ONLY <1>1, <5>1, <3>4, LeaveParentPlan
      <4> QED BY ONLY <4>1, <3>3, s = OnNoEntry(c, f)
    <3>6. Plan(nd, c, f, s, {f.shared, f.target_parent}, {}, {}, B \cup D, {}, {}, {}, {})
      BY <3>5, PlanLess
    <3>7. B \cup D = Counts(k) \ k.chain[WalkSlot(f)]
      BY <3>2
    <3> QED BY ONLY <3>2, <3>6, <3>7, s = OnNoEntry(c, f)
  <2> QED BY <2>7, <2>8, <2>9, <2>10, <1>4 DEF Moving
<1> QED BY <1>3, <1>4

\* process_path gives up at a folder that it has left.
LEMMA StepPlan ==
  ASSUME NEW nd, NEW c, NEW f, NEW k, FrameOK(c, f), ChainsOK(nd, c, f, k), Going(f),
         ~Ahead(f), Leading(f)
  PROVE  Plan(nd, c, f, <<Notify(f.cur, LastToNotify(f))>> \o OnNoEntry(c, f),
              KeptReads(f), KeptWrites(f), {}, Counts(k), {}, {},
              k.chain[WalkSlot(f)] \cap {f.cur}, {})
<1>1. c \in Calls /\ f \in FrameType /\ GoingOK(c, f) /\ f.cur \in NodeId
  BY GoingIs
<1> PICK B, C, s, last :
      /\ B = k.chain[WalkSlot(f)] /\ C = Counts(k) \ B /\ s = OnNoEntry(c, f) /\ last = LastToNotify(f)
  OBVIOUS
<1>2. Plan(nd, c, f, s, KeptReads(f), KeptWrites(f), {}, C, {}, {}, {}, {}) /\ s \in Seq(Items)
  BY OnNoEntryPlan DEF Plan
<1>3. IsChain(nd, B, f.cur, last) /\ B \subseteq Counts(k) /\ last \in NodeId \cup {NULL}
  <2>1. CASE Moving(f)
    <3>1. last = f.shared /\ f.shared \in NodeId /\ WalkSlot(f) \in {1, 2}
      BY <2>1, <1>1, BottomsMoving DEF LastToNotify, Moving, GoingOK
    <3>2. IsChain(nd, B, f.cur, f.shared)
      BY <2>1, WalkPlaces
    <3> QED BY <3>1, <3>2, GoingChains
  <2>2. CASE ~Moving(f)
    <3>1. last = NULL /\ WalkSlot(f) = 3
      BY <2>2, BottomsStill DEF LastToNotify, Moving
    <3>2. IsChain(nd, k.chain[3], f.cur, NULL)
      BY <2>2, StillPlaces
    <3> QED BY <3>1, <3>2, GoingChains
  <2> QED BY <2>1, <2>2
<1>4. Notify(f.cur, last) \in Items
  BY <1>1, <1>3, ItemsAre
<1>5. Before(<<Notify(f.cur, last)>> \o s, Notify(f.cur, last), s)
  BY <1>2, <1>4, BeforeOne
<1>6. B \cap C = {} /\ C \cup B = Counts(k) /\ {} \cup (B \cap {f.cur}) = B \cap {f.cur}
  BY <1>3
<1>7. Plan(nd, c, f, <<Notify(f.cur, last)>> \o s, KeptReads(f), KeptWrites(f), {}, C \cup B, {}, {},
           {} \cup (B \cap {f.cur}), {})
  <2>1. f.cur \in NodeId \cup {NULL}
    BY <1>1
  <2> QED BY <2>1, <1>1, <1>2, <1>3, <1>5, <1>6, PlanNotify
<1> QED BY <1>6, <1>7

\* ... at a folder whose flag it has met.
LEMMA EmergencyStepPlan ==
  ASSUME NEW nd, NEW c, NEW f, NEW k, FrameOK(c, f), ChainsOK(nd, c, f, k), Going(f),
         f.at = "flag", f.role = "step"
  PROVE  Plan(nd, c, f, <<ReaderFinal(f.cur), Notify(f.cur, LastToNotify(f))>> \o OnNoEntry(c, f),
              Reads(f), Writes(f), {}, Counts(k), {}, {}, {f.cur}, {f.cur})
<1>1. c \in Calls /\ f \in FrameType /\ GoingOK(c, f) /\ f.cur \in NodeId
  BY GoingIs
<1>2. Leading(f) /\ ~Ahead(f) /\ InLock(f) /\ ~f.skip
  BY <1>1 DEF Leading, InLock, Ahead, GoingOK
<1>3. /\ Reads(f) = KeptReads(f) \cup {f.cur} /\ Writes(f) = KeptWrites(f)
  <2>1. Inside(f) /\ ~IsWriter(f)
    BY DEF Inside, IsWriter
  <2> QED BY <2>1, <1>1, UsesAre
<1> PICK B, s, last :
      /\ B = k.chain[WalkSlot(f)] /\ s = OnNoEntry(c, f) /\ last = LastToNotify(f)
  OBVIOUS
<1>4. f.cur \in B
  <2>1. CASE Moving(f)
    BY <2>1, <1>2, WalkPlaces
  <2>2. CASE ~Moving(f)
    BY <2>2, <1>2, StillPlaces, BottomsStill
  <2> QED BY <2>1, <2>2
<1>5. f.cur \notin KeptReads(f) \cup KeptWrites(f)
  <2>1. CASE ~Moving(f)
    BY <2>1, KeptStill
  <2>2. CASE Moving(f)
    <3>1. /\ f.shared \in k.chain[3] /\ (HasSource(f) => f.source \in k.chain[1])
          /\ HasTarget(f) => f.target_parent \in k.chain[2]
      BY <2>2, MovingPlaces
    <3>2. /\ f.walk = "source" => ~HasSource(f) /\ WalkSlot(f) = 1
          /\ f.walk = "target" => ~HasTarget(f) /\ WalkSlot(f) = 2
      BY <2>2, <1>2, WalkPlaces, BottomsMoving
    <3>3. k.chain[1] \cap k.chain[2] = {} /\ k.chain[1] \cap k.chain[3] = {}
          /\ k.chain[2] \cap k.chain[3] = {}
      BY GoingChains
    <3>4. f.cur # f.shared
      BY <3>1, <3>2, <3>3, <1>4, <2>2 DEF Moving
    <3>5. HasTarget(f) => f.cur # f.target_parent
      BY <3>1, <3>2, <3>3, <1>4, <2>2 DEF Moving
    <3>6. HasSource(f) => f.cur # f.source
      BY <3>1, <3>2, <3>3, <1>4, <2>2 DEF Moving
    <3> QED BY <3>4, <3>5, <3>6 DEF KeptReads, KeptWrites
  <2> QED BY <2>1, <2>2
<1>6. last \in NodeId \cup {NULL}
  BY <1>1 DEF LastToNotify, FrameType
<1> PICK x, y : x = ReaderFinal(f.cur) /\ y = Notify(f.cur, last)
  OBVIOUS
<1>7. x \in Items /\ y \in Items
  BY <1>1, <1>6, ItemsAre
<1>8. B \cap {f.cur} = {f.cur}
  BY <1>4
<1>9. Plan(nd, c, f, <<y>> \o s, KeptReads(f), KeptWrites(f), {}, Counts(k), {}, {}, {f.cur}, {})
  BY <1>2, <1>8, StepPlan
<1>10. Before(<<x, y>> \o s, x, <<y>> \o s)
  <2>1. Before(<<x, y>>, x, <<y>>)
    BY <1>7, BeforeTuple
  <2>2. s \in Seq(Items)
    BY <1>2, OnNoEntryPlan DEF Plan
  <2> QED BY <1>7, <2>1, <2>2, BeforeCat
<1> PICK R, W, C, n : R = KeptReads(f) /\ W = KeptWrites(f) /\ C = Counts(k) /\ n = f.cur
  OBVIOUS
<1>11. Plan(nd, c, f, <<x, y>> \o s, R \cup {n}, W, {}, C, {}, {}, {n}, {} \cup ({n} \cap {n}))
  <2>1. n \in NodeId /\ n \notin R \cup W /\ Before(<<x, y>> \o s, ReaderFinal(n), <<y>> \o s)
    BY <1>1, <1>5, <1>10
  <2>2. Plan(nd, c, f, <<y>> \o s, R, W, {}, C, {}, {}, {n}, {})
    BY <1>9
  <2> QED BY ONLY <1>1, <2>1, <2>2, PlanReader
<1>12. {} \cup ({n} \cap {n}) = {n}
  OBVIOUS
<1> QED BY <1>3, <1>11, <1>12

-----------------------------------------------------------------------------
(* The lists of a call that the flag sends home.                           *)

LEMMA PairsJoin ==
  ASSUME NEW b \in Items, NEW c \in Items, NEW d \in Items, NEW e \in Items
  PROVE  <<b>> \o <<c, d, e>> = <<b, c, d, e>>
<1>1. Before(<<b, c, d, e>>, b, <<c, d, e>>)
  BY BeforeTuple
<1> PICK s : s = <<c, d, e>>
  OBVIOUS
<1>2. s \in Seq(Items)
  BY <1>1 DEF Before
<1>3. Before(<<b>> \o s, b, s)
  BY <1>2, BeforeOne
<1> QED BY <1>1, <1>3, BeforeOnly

LEMMA TuplesJoin ==
  ASSUME NEW a \in Items, NEW b \in Items, NEW c \in Items, NEW d \in Items, NEW e \in Items, NEW f \in Items
  PROVE  <<a>> \o <<b>> \o <<c, d, e, f>> = <<a, b, c, d, e, f>>
<1>1. /\ Before(<<a, b, c, d, e, f>>, a, <<b, c, d, e, f>>) /\ Before(<<b, c, d, e, f>>, b, <<c, d, e, f>>)
      /\ Before(<<a, b>>, a, <<b>>)
  BY BeforeTuple
<1> PICK u : u = <<c, d, e, f>>
  OBVIOUS
<1>2. u \in Seq(Items) /\ <<b>> \in Seq(Items)
  BY <1>1 DEF Before
<1>4. <<b>> \o u = <<b, c, d, e, f>>
  <2>1. Before(<<b>> \o u, b, u)
    BY <1>2, BeforeOne
  <2> QED BY <2>1, <1>1, BeforeOnly
<1>5. <<a, b>> \o u = <<a, b, c, d, e, f>>
  <2>1. Before(<<a, b>> \o u, a, <<b>> \o u)
    BY <1>1, <1>2, BeforeCat
  <2>2. Before(<<a, b>> \o u, a, <<b, c, d, e, f>>)
    BY <2>1, <1>4
  <2> QED BY <2>2, <1>1, BeforeOnly
<1>6. <<a>> \o <<b>> = <<a, b>>
  <2>1. Before(<<a>> \o <<b>>, a, <<b>>)
    BY <1>2, BeforeOne
  <2> QED BY <2>1, <1>1, BeforeOnly
<1> QED BY <1>5, <1>6

\* What a move, at the flag of a folder that it wants, will do if it is up.
LEMMA EmergencyMovePlan ==
  ASSUME NEW nd, NEW c, NEW f, NEW k, FrameOK(c, f), ChainsOK(nd, c, f, k), Going(f),
         f.at = "flag", f.role \in {"source", "target"}
  PROVE  Plan(nd, c, f, OnEmergency(c, f), Reads(f), Writes(f), {}, Counts(k), {}, {}, {f.cur}, {f.cur})
<1>1. c \in Calls /\ f \in FrameType /\ GoingOK(c, f) /\ f.cur \in NodeId
  BY GoingIs
<1>2. ~Leading(f) /\ ~Ahead(f) /\ InLock(f) /\ Inside(f) /\ f.role = f.walk /\ Moving(f)
  BY <1>1 DEF Leading, InLock, Ahead, GoingOK, Inside, Moving
<1> PICK A, B, D, m, n, q, r :
      /\ A = k.chain[1] /\ B = k.chain[2] /\ D = k.chain[3]
      /\ m = f.source /\ n = f.shared /\ q = f.target_parent /\ r = Result("ENOENT")
  OBVIOUS
<1>3. Ways(nd, f, A, B, D) /\ Counts(k) = (A \cup B) \cup D
  BY <1>2, WaysDone, GoingChains
<1>4. Return(r) \in Items
  BY CodesAre DEF Codes
<1>5. {n, m, q} \subseteq NodeId
  BY <1>3 DEF Ways
<1>6. CASE f.role = "source"
  <2>1. m # n /\ f.cur = m /\ ~HasSource(f) /\ (HasTarget(f) <=> q # n) /\ IsWriter(f)
    <3>1. m # n /\ f.cur = m
      BY <1>1, <1>2, <1>6 DEF GoingOK
    <3>2. f.role # "target"
      BY <1>6
    <3> QED BY <3>1, <3>2, <1>2, <1>6 DEF HasSource, HasTarget, IsWriter
  <2>2. Reads(f) = {n, q} /\ Writes(f) = {m}
    <3>1. KeptReads(f) = {n, q} /\ KeptWrites(f) = {}
      BY <2>1, <1>2, <1>5, KeptMoving
    <3> QED BY <3>1, <2>1, <1>1, <1>2, UsesAre
  <2>3. CASE SourceFirst(c)
    <3>1. q = n /\ B = {}
      <4>1. q = n
        BY <2>3, <1>1, <1>2, <1>6 DEF GoingOK
      <4> QED BY <4>1, <1>3, WaysIs
    <3>2. OnEmergency(c, f) = <<WriterFinal(f.source), ReaderFinal(f.shared), Notify(f.source, NULL), Return(r)>>
      BY <2>3, <1>6 DEF OnEmergency
    <3>3. Plan(nd, c, f, <<WriterFinal(f.source), ReaderFinal(f.shared), Notify(f.source, NULL), Return(r)>>,
               {f.shared}, {f.source}, {}, A \cup D, {}, {}, {f.source}, {f.source})
      BY <1>1, <1>3, <1>4, <2>1, LeaveSourcePlan
    <3>4. {f.shared} = Reads(f) /\ {f.source} = Writes(f) /\ A \cup D = Counts(k) /\ f.source = f.cur
      BY <3>1, <2>1, <2>2, <1>3
    <3> QED BY ONLY <3>2, <3>3, <3>4
  <2>4. CASE ~SourceFirst(c)
    <3> PICK s : s = <<WriterFinal(f.source)>> \o LeaveTarget(f) \o
             <<ReaderFinal(f.shared), Notify(f.source, NULL), Notify(f.target_parent, f.shared), Return(r)>>
      OBVIOUS
    <3>2. OnEmergency(c, f) = s
      BY <2>4, <1>6 DEF OnEmergency
    <3> PICK G : G = {f.source} \cup (B \cap {f.target_parent})
      OBVIOUS
    <3>3. Plan(nd, c, f, s, {f.shared, f.target_parent}, {f.source}, {}, (A \cup B) \cup D, {}, {}, G, G)
      BY <1>1, <1>3, <1>4, <2>1, LeaveBothPlan
    <3> PICK X : X = {f.cur}
      OBVIOUS
    <3>4. X \in SUBSET G
      BY <2>1
    <3>5. Plan(nd, c, f, s, {f.shared, f.target_parent}, {f.source}, {}, (A \cup B) \cup D, {}, {}, X, X)
      BY ONLY <3>3, <3>4, PlanLess
    <3>6. {f.shared, f.target_parent} = Reads(f) /\ {f.source} = Writes(f)
      BY <2>1, <2>2
    <3> QED BY ONLY <3>2, <3>5, <3>6, <1>3, X = {f.cur}
  <2> QED BY <2>3, <2>4
<1>7. CASE f.role = "target"
  <2>1. q # n /\ f.cur = q /\ ~HasTarget(f) /\ (HasSource(f) <=> m # n) /\ ~IsWriter(f) /\ KeptReads(f) = {n}
    <3>1. q # n /\ f.cur = q /\ ~HasTarget(f) /\ (HasSource(f) <=> m # n) /\ ~IsWriter(f)
      <4>1. q # n /\ f.cur = q
        BY <1>1, <1>2, <1>7 DEF GoingOK
      <4>2. f.role # "source" /\ f.role # "remove"
        BY <1>7
      <4> QED BY <4>1, <4>2, <1>2, <1>7 DEF HasSource, HasTarget, IsWriter
    <3> QED BY <3>1, <1>2, <1>5, KeptMoving
  <2>2. Reads(f) = {n, q} /\ Writes(f) = KeptWrites(f)
    <3>1. Reads(f) = {n} \cup {q}
      BY <2>1, <1>1, <1>2, UsesAre
    <3> QED BY <3>1, <2>1, <1>1, <1>2, UsesAre
  <2> PICK x1, x2, x3, x4, x5, x6, x7 :
        /\ x1 = WriterFinal(f.source) /\ x2 = ReaderFinal(f.target_parent) /\ x3 = ReaderFinal(f.shared)
        /\ x4 = Notify(f.source, NULL) /\ x5 = Notify(f.target_parent, f.shared) /\ x6 = Return(r)
        /\ x7 = Notify(f.target_parent, NULL)
    OBVIOUS
  <2>5. LeaveTarget(f) = <<x2>>
    BY <2>1 DEF LeaveTarget, When
  <2>6. /\ x1 \in Items /\ x2 \in Items /\ x3 \in Items /\ x4 \in Items /\ x5 \in Items /\ x6 \in Items
        /\ x7 \in Items
    BY <1>4, <1>5, ItemsAre
  <2>3. CASE SourceFirst(c)
    <3>1. m # n /\ Writes(f) = {m}
      <4>1. m # n
        BY <2>3, <1>1, <1>2, <1>7 DEF GoingOK
      <4> QED BY <4>1, <2>1, <2>2, <1>2, <1>5, KeptMoving
    <3> PICK s : s = <<WriterFinal(f.source)>> \o LeaveTarget(f) \o
             <<ReaderFinal(f.shared), Notify(f.source, NULL), Notify(f.target_parent, f.shared), Return(r)>>
      OBVIOUS
    <3>2. OnEmergency(c, f) = s
      <4>1. OnEmergency(c, f) = <<x1, x2, x3, x4, x5, x6>>
        BY <2>3, <1>7 DEF OnEmergency
      <4>2. <<x1>> \o <<x2>> \o <<x3, x4, x5, x6>> = <<x1, x2, x3, x4, x5, x6>>
        BY ONLY <2>6, TuplesJoin
      <4> QED BY <4>1, <4>2, <2>5
    <3> PICK G : G = {f.source} \cup (B \cap {f.target_parent})
      OBVIOUS
    <3>3. Plan(nd, c, f, s, {f.shared, f.target_parent}, {f.source}, {}, (A \cup B) \cup D, {}, {}, G, G)
      BY <1>1, <1>3, <1>4, <3>1, LeaveBothPlan
    <3> PICK X : X = {f.cur}
      OBVIOUS
    <3>4. X \in SUBSET G
      <4>1. q \in B
        BY <2>1, <1>3 DEF Ways, IsChain
      <4> QED BY <4>1, <2>1
    <3>5. Plan(nd, c, f, s, {f.shared, f.target_parent}, {f.source}, {}, (A \cup B) \cup D, {}, {}, X, X)
      BY ONLY <3>3, <3>4, PlanLess
    <3>6. {f.shared, f.target_parent} = Reads(f) /\ {f.source} = Writes(f)
      BY <3>1, <2>2
    <3> QED BY ONLY <3>2, <3>5, <3>6, <1>3, X = {f.cur}
  <2>4. CASE ~SourceFirst(c)
    <3>1. m = n /\ Writes(f) = {} /\ A = {}
      <4>1. m = n
        BY <2>4, <1>1, <1>2, <1>7 DEF GoingOK
      <4>2. A = {}
        BY <4>1, <1>3, WaysIs
      <4> QED BY <4>1, <4>2, <2>1, <2>2, <1>2, <1>5, KeptMoving
    <3> PICK s : s = LeaveTarget(f) \o <<ReaderFinal(f.shared), Notify(f.target_parent, NULL), Return(r)>>
      OBVIOUS
    <3>2. OnEmergency(c, f) = s
      <4>1. OnEmergency(c, f) = <<x2, x3, x7, x6>>
        BY <2>4, <1>7 DEF OnEmergency
      <4>2. <<x2>> \o <<x3, x7, x6>> = <<x2, x3, x7, x6>>
        BY ONLY <2>6, PairsJoin
      <4> QED BY <4>1, <4>2, <2>5
    <3>3. Plan(nd, c, f, s, {f.shared, f.target_parent}, {}, {}, B \cup D, {}, {}, {f.target_parent}, {f.target_parent})
      BY <1>1, <1>3, <1>4, LeaveParentPlan
    <3>6. {f.shared, f.target_parent} = Reads(f) /\ {} = Writes(f) /\ B \cup D = Counts(k) /\ f.target_parent = f.cur
      BY <3>1, <2>1, <2>2, <1>3
    <3> QED BY ONLY <3>2, <3>3, <3>6
  <2> QED BY <2>3, <2>4
<1> QED BY <1>6, <1>7

\* ... and any call.
LEMMA EmergencyPlan ==
  ASSUME NEW nd, NEW c, NEW f, NEW k, FrameOK(c, f), ChainsOK(nd, c, f, k), Going(f), f.at = "flag"
  PROVE  Plan(nd, c, f, OnEmergency(c, f), Reads(f), Writes(f), {}, Counts(k), {}, {}, {f.cur}, {f.cur})
<1>1. c \in Calls /\ f \in FrameType /\ GoingOK(c, f) /\ f.cur \in NodeId
  BY GoingIs
<1>2. ~Ahead(f) /\ InLock(f) /\ Inside(f) /\ (f.role = "step" \/ (f.role = f.walk /\ f.role \in Walks))
  BY <1>1 DEF InLock, Ahead, GoingOK, Inside
<1>3. CASE f.role = "step"
  <2>1. OnEmergency(c, f) = <<ReaderFinal(f.cur), Notify(f.cur, LastToNotify(f))>> \o OnNoEntry(c, f)
    BY <1>3 DEF OnEmergency
  <2> QED BY <1>3, <2>1, EmergencyStepPlan
<1>4. CASE f.role \in {"source", "target"}
  BY <1>4, EmergencyMovePlan
<1>5. CASE f.role \in {"list", "create", "shared", "remove"}
  <2>1. ~Moving(f)
    BY <1>2, <1>5 DEF Moving
  <2>2. IsChain(nd, k.chain[3], f.cur, NULL) /\ Counts(k) = k.chain[3]
    BY <2>1, <1>2, StillPlaces
  <2>3. KeptReads(f) = {} /\ KeptWrites(f) = {}
    BY <2>1, KeptStill
  <2>4. Return(Result("NULL")) \in Items /\ Return(Result("ENOENT")) \in Items
    BY CodesAre DEF Codes
  <2> PICK B, n : B = k.chain[3] /\ n = f.cur
    OBVIOUS
  <2>6. CASE f.role = "remove"
    <3>1. Reads(f) = {} /\ Writes(f) = {n}
      BY <2>3, <2>6, <1>1, <1>2, UsesAre DEF IsWriter
    <3> PICK r : r = Result("ENOENT")
      OBVIOUS
    <3>2. OnEmergency(c, f) = <<WriterFinal(n), Notify(n, NULL), Return(r)>>
      BY <2>6 DEF OnEmergency
    <3>3. Plan(nd, c, f, <<WriterFinal(n), Notify(n, NULL), Return(r)>>, {}, {n}, {}, B, {}, {}, {n}, {n})
      BY <1>1, <2>2, <2>4, LeaveWriterPlan
    <3> QED BY <3>1, <3>2, <3>3, <2>2
  <2>7. CASE f.role # "remove"
    <3>1. Reads(f) = {n} /\ Writes(f) = {}
      BY <2>3, <2>7, <1>5, <1>1, <1>2, UsesAre DEF IsWriter
    <3> PICK r : Return(r) \in Items /\ OnEmergency(c, f) = <<ReaderFinal(n), Notify(n, NULL), Return(r)>>
      BY <2>4, <2>7, <1>5 DEF OnEmergency
    <3>3. Plan(nd, c, f, <<ReaderFinal(n), Notify(n, NULL), Return(r)>>, {n}, {}, {}, B, {}, {}, {n}, {n} \cap {n})
      BY <1>1, <2>2, LeaveReaderPlan
    <3>4. {n} \cap {n} = {n}
      OBVIOUS
    <3> QED BY <3>1, <3>3, <3>4, <2>2
  <2> QED BY <2>6, <2>7
<1> QED BY <1>2, <1>3, <1>4, <1>5 DEF Walks
=============================================================================
