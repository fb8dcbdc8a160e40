-------------------------------- MODULE Tree --------------------------------
(***************************************************************************)
(* The concurrent file tree, Zaliczeniowe_2/Tree.c: threads that call      *)
(* tree_list, tree_create, tree_remove and tree_move.  An action is one    *)
(* critical section of a folder's mutexes, one operation of a children's   *)
(* map, or one access to a field that no mutex protects.                   *)
(*                                                                         *)
(* A path is the sequence of its names; names are numbers, which gives     *)
(* them their alphabetical order.  What a call still has to do after its   *)
(* outcome is known (leave folders, notify their parents, return) is the   *)
(* list todo of the thread, as the code writes it out at every return.     *)
(***************************************************************************)
EXTENDS Node, Sequences, SequencesExt

CONSTANTS
  Thread,
  NodeId,      \* addresses for folders; a freed one is not used again
  Root,
  InitialTree, \* the folders at the start: [parent, name] for some addresses
  Workloads    \* which thread makes which call: functions on subsets of Thread

\* The calls with paths that the functions of path_utils.c find valid.
Calls ==
  [op : {"list", "create", "remove"}, path : Seq(Name)]
    \cup [op : {"move"}, source : Seq(Name), target : Seq(Name)]

ASSUME TreeAssumption ==
  /\ IsFiniteSet(Thread) /\ IsFiniteSet(NodeId) /\ Name \subseteq Nat
  /\ NULL \notin Thread \cup NodeId \cup Name
  /\ Root \in NodeId
  /\ \A calls \in Workloads :
       DOMAIN calls \subseteq Thread /\ \A t \in DOMAIN calls : calls[t] \in Calls

\* InitialTree is a tree below Root.
ASSUME InitialTreeAssumption ==
  LET folders == DOMAIN InitialTree
  IN  /\ folders \subseteq NodeId \ {Root}
      /\ \A n \in folders :
           InitialTree[n] \in [parent : folders \cup {Root}, name : Name]
      /\ \A m, n \in folders : InitialTree[m] = InitialTree[n] => m = n
      /\ \E depth \in [folders \cup {Root} -> 0 .. Cardinality(folders)] :
           \A n \in folders : depth[InitialTree[n].parent] < depth[n]

VARIABLES
  node,    \* the folders
  frame,   \* the locals of each thread's call
  call,    \* the call each thread makes
  answer   \* what it returned

vars == <<node, frame, call, answer>>

Result(code) == [code |-> code, names |-> {}]
Listing(names) == [code |-> "names", names |-> names]
None == Result("none")

\* The paths of path_utils.c.
PathToParent(path) == Front(path)
TargetName(path) == Last(path)
SharedPath(p, q) == LongestCommonPrefix({p, q})
Beyond(p, shared) == SubSeq(p, Len(shared) + 1, Len(p))

\* compare_paths(p, q) <= 0: the order of a walk through the tree that visits
\* a folder after everything below it.
NotAfter(p, q) ==
  \/ IsPrefix(q, p)
  \/ \E i \in DOMAIN p \cap DOMAIN q :
       p[i] < q[i] /\ SubSeq(p, 1, i - 1) = SubSeq(q, 1, i - 1)

SourceFirst(c) == NotAfter(c.source, c.target)
Shared(c) == SharedPath(c.source, PathToParent(c.target))

NoFrame ==
  [at |-> "idle", role |-> "none", walk |-> "none", cur |-> NULL,
   next |-> NULL, rest |-> <<>>, skip |-> FALSE,
   shared |-> NULL, source |-> NULL, target_parent |-> NULL, todo |-> <<>>]

\* The folder that the initial tree has under this parent and name.
InitialChild(parent, name) ==
  LET here == {n \in DOMAIN InitialTree :
                 InitialTree[n] = [parent |-> parent, name |-> name]}
  IN  IF here = {} THEN NULL ELSE CHOOSE n \in here : TRUE

Init ==
  /\ node = [n \in NodeId |->
       IF n # Root /\ n \notin DOMAIN InitialTree THEN Unused
       ELSE [(IF n = Root THEN node_new(NULL, NULL)
              ELSE node_new(InitialTree[n].parent, InitialTree[n].name))
             EXCEPT !.children = [a \in Name |-> InitialChild(n, a)]]]
  /\ frame = [t \in Thread |-> NoFrame]
  /\ call \in Workloads
  /\ answer = [t \in Thread |-> None]

-----------------------------------------------------------------------------
(* The things a thread still has to do. *)

ReaderFinal(n)      == <<"readerFinal", n>>
WriterFinal(n)      == <<"writerFinal", n>>
MapFinal(n)         == <<"mapFinal", n>>
Notify(first, last) == <<"notify", first, last>>
Rename(n)           == <<"rename", n>>
Free(n)             == <<"free", n>>
Return(result)      == <<"return", result>>

\* A walk of notify_parent_nodes that is over.
Over(item) == item[1] = "notify" /\ item[2] = item[3]

Do(f, todo) == [f EXCEPT !.at = "todo", !.todo = todo]
When(condition, todo) == IF condition THEN todo ELSE <<>>

\* tree_move still reads target_parent, unless it is shared_node itself.
LeaveTarget(f) ==
  When(f.target_parent # f.shared, <<ReaderFinal(f.target_parent)>>)

\* What follows a process_path that has failed, in its caller.
OnNoEntry(c, f) ==
  CASE f.walk = "list" -> <<Return(Result("NULL"))>>
    [] f.walk \in {"create", "remove", "shared"} -> <<Return(Result("ENOENT"))>>
    [] f.walk = "source" /\ SourceFirst(c) ->
         <<ReaderFinal(f.shared), Notify(f.shared, NULL),
           Return(Result("ENOENT"))>>
    [] f.walk = "target" /\ SourceFirst(c) ->
         <<WriterFinal(f.source), ReaderFinal(f.shared),
           Notify(f.source, NULL), Return(Result("ENOENT"))>>
    [] f.walk = "target" /\ ~SourceFirst(c) ->
         <<ReaderFinal(f.shared), Notify(f.shared, NULL),
           Return(Result("ENOENT"))>>
    [] f.walk = "source" /\ ~SourceFirst(c) ->
         LeaveTarget(f) \o
         <<ReaderFinal(f.shared), Notify(f.target_parent, NULL),
           Return(Result("ENOENT"))>>

\* Where process_path stops notifying.
LastToNotify(f) == IF f.walk \in {"source", "target"} THEN f.shared ELSE NULL

\* What follows a preliminary protocol that returned true, for each folder.
OnEmergency(c, f) ==
  CASE f.role = "step" ->
         <<ReaderFinal(f.cur), Notify(f.cur, LastToNotify(f))>>
           \o OnNoEntry(c, f)
    [] f.role = "list" ->
         <<ReaderFinal(f.cur), Notify(f.cur, NULL), Return(Result("NULL"))>>
    [] f.role \in {"create", "shared"} ->
         <<ReaderFinal(f.cur), Notify(f.cur, NULL), Return(Result("ENOENT"))>>
    [] f.role = "remove" ->
         <<WriterFinal(f.cur), Notify(f.cur, NULL), Return(Result("ENOENT"))>>
    [] f.role = "source" /\ SourceFirst(c) ->
         <<WriterFinal(f.source), ReaderFinal(f.shared),
           Notify(f.source, NULL), Return(Result("ENOENT"))>>
    [] f.role = "target" /\ SourceFirst(c) ->
         <<WriterFinal(f.source), ReaderFinal(f.target_parent),
           ReaderFinal(f.shared), Notify(f.source, NULL),
           Notify(f.target_parent, f.shared), Return(Result("ENOENT"))>>
    [] f.role = "target" /\ ~SourceFirst(c) ->
         <<ReaderFinal(f.target_parent), ReaderFinal(f.shared),
           Notify(f.target_parent, NULL), Return(Result("ENOENT"))>>
    [] f.role = "source" /\ ~SourceFirst(c) ->
         <<WriterFinal(f.source)>> \o LeaveTarget(f) \o
         <<ReaderFinal(f.shared), Notify(f.source, NULL),
           Notify(f.target_parent, f.shared), Return(Result("ENOENT"))>>

TargetExists_slip(f) ==
  <<WriterFinal(f.source)>> \o LeaveTarget(f) \o
  <<ReaderFinal(f.shared), Notify(f.source, NULL), Return(Result("EEXIST"))>>

\* tree_move gives up because the target exists, holding no map.
TargetExists(f) ==
  <<WriterFinal(f.source)>> \o LeaveTarget(f) \o
  <<ReaderFinal(f.shared), Notify(f.source, NULL),
    Notify(f.target_parent, f.shared), Return(Result("EEXIST"))>>

-----------------------------------------------------------------------------
(* The way from one folder to the next. *)

\* A call of a preliminary protocol.
Enter(f, n, role) == [f EXCEPT !.at = "lock", !.cur = n, !.role = role]

\* process_path from shared_node, whose protocol has been done.
WalkFromShared(f, path, walk) ==
  [f EXCEPT !.at = "get", !.cur = f.shared, !.rest = path, !.skip = TRUE,
            !.walk = walk]

SeekSource(c, f) == WalkFromShared(f, Beyond(c.source, Shared(c)), "source")

\* target_node_parent has been acquired, and then source_node.
TargetAcquired(c, f) ==
  IF SourceFirst(c) THEN [f EXCEPT !.at = "maps"] ELSE SeekSource(c, f)

TargetReached(c, f, n) ==
  LET g == [f EXCEPT !.target_parent = n]
  IN  IF n = f.shared THEN TargetAcquired(c, g) ELSE Enter(g, n, "target")

SeekTarget(c, f) ==
  LET path == Beyond(PathToParent(c.target), Shared(c))
  IN  IF path = <<>> THEN TargetReached(c, f, f.shared)
      ELSE WalkFromShared(f, path, "target")

SourceAcquired(c, f) ==
  IF ~SourceFirst(c) THEN [f EXCEPT !.at = "maps"]
  ELSE IF IsPrefix(c.target, c.source)
  THEN Do(f, <<WriterFinal(f.source), ReaderFinal(f.shared),
               Notify(f.source, NULL), Return(Result("EEXIST"))>>)
  ELSE SeekTarget(c, f)

\* A preliminary protocol has returned false.
Entered(c, f) ==
  CASE f.role = "step" -> [f EXCEPT !.at = "get"]
    [] f.role \in {"list", "create", "remove"} -> [f EXCEPT !.at = "body"]
    [] f.role = "shared" ->
         IF SourceFirst(c) THEN SeekSource(c, f) ELSE SeekTarget(c, f)
    [] f.role = "target" -> TargetAcquired(c, f)
    [] f.role = "source" -> SourceAcquired(c, f)

\* process_path has returned 0 with *node = n.
Arrive(c, f, n) ==
  CASE f.walk \in {"list", "create", "remove"} -> Enter(f, n, f.walk)
    [] f.walk = "shared" ->
         Enter([f EXCEPT !.shared = n, !.source = n, !.target_parent = n],
               n, "shared")
    [] f.walk = "source" -> Enter([f EXCEPT !.source = n], n, "source")
    [] f.walk = "target" -> TargetReached(c, f, n)

\* The head of process_path's loop, at folder n.
Walk(c, f, n) ==
  IF f.rest = <<>> THEN Arrive(c, f, n) ELSE Enter(f, n, "step")

\* safe_hmap_get has returned f.next, and the folder f.cur has been left.
Step(c, f) ==
  IF f.next = NULL
  THEN Do(f, <<Notify(f.cur, LastToNotify(f))>> \o OnNoEntry(c, f))
  ELSE Walk(c, [f EXCEPT !.rest = Tail(@), !.skip = FALSE, !.next = NULL],
            f.next)

\* The answers that do not depend on the tree.
Rejected(c) ==
  CASE c.op = "create" /\ c.path = <<>> -> <<Return(Result("EEXIST"))>>
    [] c.op = "remove" /\ c.path = <<>> -> <<Return(Result("EBUSY"))>>
    [] c.op = "move" /\ c.source = <<>> -> <<Return(Result("EBUSY"))>>
    [] c.op = "move" /\ c.source # <<>> /\ c.target = <<>> ->
         <<Return(Result("EEXIST"))>>
    [] c.op = "move" /\ c.source # <<>> /\ IsStrictPrefix(c.source, c.target) ->
         <<Return(Result("EBADMOVE"))>>
    [] OTHER -> <<>>

\* The path that a call follows from the root.
FirstPath(c) ==
  CASE c.op \in {"list", "remove"} -> c.path
    [] c.op = "create" -> PathToParent(c.path)
    [] c.op = "move" -> Shared(c)

-----------------------------------------------------------------------------
(* The actions of a thread.  The record f is its frame, n the folder where  *)
(* it stands.                                                              *)

SetNode(n, m) == node' = [node EXCEPT ![n] = m]
SetFrame(t, f) ==
  /\ frame' = [frame EXCEPT ![t] = f]
  /\ UNCHANGED <<call, answer>>

\* A map is free for one operation, and for other writers.
MapFree(n) == node[n].map_writer = NULL

Invoke(t) ==
  LET c == call[t]
      f == [frame[t] EXCEPT !.rest = FirstPath(c),
                            !.walk = IF c.op = "move" THEN "shared" ELSE c.op]
  IN  /\ t \in DOMAIN call /\ frame[t].at = "idle" /\ answer[t] = None
      /\ SetFrame(t, IF Rejected(c) # <<>> THEN Do(f, Rejected(c))
                     ELSE Walk(c, f, Root))
      /\ UNCHANGED node

IsWriter(f) == f.role \in {"remove", "source"}

\* The preliminary protocols.  First the readers-writers protocol, under lock.
TryEnter(t, m) ==
  LET f == frame[t]
      n == f.cur
  IN  \/ /\ IF IsWriter(f) THEN NodeWriterMustWait(m) ELSE NodeReaderMustWait(m)
         /\ SetNode(n, IF IsWriter(f) THEN WriterSleep(m, t) ELSE ReaderSleep(m, t))
         /\ SetFrame(t, [f EXCEPT !.at = "sleep"])
      \/ /\ ~IF IsWriter(f) THEN NodeWriterMustWait(m) ELSE NodeReaderMustWait(m)
         /\ \E k \in IF IsWriter(f) THEN WriterEnter(m) ELSE ReaderEnter(m) :
              SetNode(n, k)
         /\ SetFrame(t, [f EXCEPT !.at = "count"])

Lock(t) == frame[t].at = "lock" /\ TryEnter(t, node[frame[t].cur])

Wake(t) ==
  LET m == node[frame[t].cur]
  IN  /\ frame[t].at = "sleep"
      /\ t \notin m.readers \cup m.writers
      /\ TryEnter(t, IF IsWriter(frame[t]) THEN WriterAwake(m) ELSE ReaderAwake(m))

\* Then, under thread_counter, the count of threads; a writer wants to be the
\* only one.
AwaitPrivacy(t, m) ==
  LET f == frame[t]
      waits == IsWriter(f) /\ SubtreeBusy(m)
  IN  /\ SetNode(f.cur, IF waits THEN SleepPrivate(m, t) ELSE m)
      /\ SetFrame(t, [f EXCEPT !.at = IF waits THEN "private" ELSE "flag"])

Count(t) ==
  /\ frame[t].at = "count"
  /\ AwaitPrivacy(t, CountIn(node[frame[t].cur]))

Recount(t) ==
  LET m == node[frame[t].cur]
  IN  frame[t].at = "private" /\ t \notin m.private_access /\ AwaitPrivacy(t, m)

\* At last the flag is read, under no mutex, and the caller tests it.
ReadFlag(t) ==
  LET f == frame[t]
      c == call[t]
  IN  /\ f.at = "flag"
      /\ SetFrame(t, IF node[f.cur].emergency_pass THEN Do(f, OnEmergency(c, f))
                     ELSE Entered(c, f))
      /\ UNCHANGED node

\* process_path: safe_hmap_get, then the final protocol of the folder it was
\* called on, unless that is the shared_node of tree_move.
Get(t) ==
  LET f == frame[t]
      child == node[f.cur].children[Head(f.rest)]
      g == [f EXCEPT !.next = child]
  IN  /\ f.at = "get" /\ MapFree(f.cur)
      /\ node' = IF child = NULL THEN node
                 ELSE [node EXCEPT ![child].safe_hmap_get_count = @ + 1]
      /\ SetFrame(t, IF f.skip THEN Step(call[t], g) ELSE [g EXCEPT !.at = "leave"])

Leave(t) ==
  LET f == frame[t]
  IN  /\ f.at = "leave"
      /\ \E m \in ReaderLeave(node[f.cur]) : SetNode(f.cur, m)
      /\ SetFrame(t, Step(call[t], f))

-----------------------------------------------------------------------------
(* What the four functions do at the folder they were called for.          *)

List(t) ==
  LET f == frame[t]
  IN  /\ f.at = "body" /\ f.role = "list" /\ MapFree(f.cur)
      /\ SetFrame(t, Do(f, <<ReaderFinal(f.cur), Notify(f.cur, NULL),
                             Return(Listing(Names(node[f.cur])))>>))
      /\ UNCHANGED node

\* The new folder is private until it is inserted: node_new comes with that.
Create(t) ==
  LET f == frame[t]
      name == TargetName(call[t].path)
      exists == node[f.cur].children[name] # NULL
      end(code) == Do(f, <<ReaderFinal(f.cur), Notify(f.cur, NULL),
                           Return(Result(code))>>)
      new == CHOOSE n \in NodeId : node[n].memory = "unused"
  IN  /\ f.at = "body" /\ f.role = "create" /\ MapFree(f.cur)
      /\ exists \/ \E n \in NodeId : node[n].memory = "unused"
      /\ node' = IF exists THEN node
                 ELSE [node EXCEPT ![f.cur].children[name] = new,
                                   ![new] = node_new(f.cur, name)]
      /\ SetFrame(t, end(IF exists THEN "EEXIST" ELSE "OK"))

\* tree_remove without its test of the children's map.
RemoveSize_slip(t) ==
  /\ frame[t].at = "body" /\ frame[t].role = "remove" /\ MapFree(frame[t].cur)
  /\ SetFrame(t, [frame[t] EXCEPT !.at = "unlink"])
  /\ UNCHANGED node

RemoveSize(t) ==
  LET f == frame[t]
  IN  /\ f.at = "body" /\ f.role = "remove" /\ MapFree(f.cur)
      /\ SetFrame(t, IF Names(node[f.cur]) = {} THEN [f EXCEPT !.at = "unlink"]
                     ELSE Do(f, <<WriterFinal(f.cur), Notify(f.cur, NULL),
                                  Return(Result("ENOTEMPTY"))>>))
      /\ UNCHANGED node

RemoveUnlink(t) ==
  LET f == frame[t]
      n == node[f.cur]
  IN  /\ f.at = "unlink" /\ MapFree(n.parent)
      /\ node' = [node EXCEPT ![n.parent].children[n.name] = NULL]
      /\ SetFrame(t, [f EXCEPT !.at = "discard"])

\* tree_move: the maps of the two parents, in the order of the paths, and one
\* mover at a time below the same shared_node.
MapsInOrder(c, f) ==
  LET p == node[f.source].parent
  IN  IF p = f.target_parent THEN <<p>>
      ELSE IF SourceFirst(c) THEN <<p, f.target_parent>> ELSE <<f.target_parent, p>>

LockMoves(t) ==
  LET f == frame[t]
  IN  /\ f.at = "maps" /\ node[f.shared].move_map_writers_access = NULL
      /\ node' = [node EXCEPT ![f.shared].move_map_writers_access = t]
      /\ SetFrame(t, [f EXCEPT !.at = "left"])

\* The mutex is released together with the last map's acquisition.
AcquireMap(t) ==
  LET f == frame[t]
      maps == MapsInOrder(call[t], f)
      n == maps[IF f.at = "left" THEN 1 ELSE 2]
      last == n = Last(maps)
      taken == [node EXCEPT ![n].map_writer = t]
  IN  /\ f.at \in {"left", "right"} /\ MapFree(n)
      /\ node' = IF last THEN [taken EXCEPT ![f.shared].move_map_writers_access = NULL]
                 ELSE taken
      /\ SetFrame(t, [f EXCEPT !.at = IF last THEN "transfer" ELSE "right"])

FinalMaps(c, f) ==
  LET maps == MapsInOrder(c, f) IN [i \in DOMAIN maps |-> MapFinal(maps[i])]

Transfer(t) ==
  LET f == frame[t]
      c == call[t]
      s == node[f.source]
      exists == node[f.target_parent].children[TargetName(c.target)] # NULL
  IN  /\ f.at = "transfer"
      /\ node' = IF exists THEN node
                 ELSE [node EXCEPT
                   ![f.target_parent].children[TargetName(c.target)] = f.source,
                   ![s.parent].children[s.name] = NULL]
      /\ SetFrame(t, IF exists THEN Do(f, FinalMaps(c, f) \o TargetExists(f))
                     ELSE [f EXCEPT !.at = "discard"])

\* node_discard_waiting, and what remains to be done after it.
Discarded(t) == IF call[t].op = "move" THEN frame[t].source ELSE frame[t].cur

AwaitDiscarded(t, m) ==
  /\ SetNode(Discarded(t), IF StillReferenced(m) THEN SleepPrivate(m, t) ELSE m)
  /\ SetFrame(t, [frame[t] EXCEPT
                    !.at = IF StillReferenced(m) THEN "discarding" ELSE "calm"])

Discard(t) ==
  /\ frame[t].at = "discard"
  /\ \E m \in EmergencyOn(node[Discarded(t)]) : AwaitDiscarded(t, m)

DiscardAgain(t) ==
  LET m == node[Discarded(t)]
  IN  frame[t].at = "discarding" /\ t \notin m.private_access /\ AwaitDiscarded(t, m)

AfterDiscard(c, f) ==
  IF c.op = "remove"
  THEN <<WriterFinal(f.cur), Notify(f.cur, NULL), Free(f.cur), Return(Result("OK"))>>
  ELSE <<WriterFinal(f.source), Notify(f.source, NULL), Rename(f.source)>>
         \o FinalMaps(c, f) \o LeaveTarget(f) \o
       <<ReaderFinal(f.shared), Notify(f.target_parent, f.shared),
         Return(Result("OK"))>>

Calm(t) ==
  /\ frame[t].at = "calm"
  /\ SetNode(Discarded(t), EmergencyOff(node[Discarded(t)]))
  /\ SetFrame(t, Do(frame[t], AfterDiscard(call[t], frame[t])))

-----------------------------------------------------------------------------
(* The todo list. *)

\* The first thing to do is of this kind, and will have been done.
Doing(t, kind) == frame[t].at = "todo" /\ Head(frame[t].todo)[1] = kind
Item(t) == Head(frame[t].todo)[2]
Done(t) == SetFrame(t, Do(frame[t], Tail(frame[t].todo)))

LeaveReader(t) ==
  /\ Doing(t, "readerFinal") /\ Done(t)
  /\ \E m \in ReaderLeave(node[Item(t)]) : SetNode(Item(t), m)

LeaveWriter(t) ==
  /\ Doing(t, "writerFinal") /\ Done(t)
  /\ \E m \in WriterLeave(node[Item(t)]) : SetNode(Item(t), m)

LeaveMap(t) ==
  /\ Doing(t, "mapFinal") /\ Done(t)
  /\ SetNode(Item(t), [node[Item(t)] EXCEPT !.map_writer = NULL])

\* One round of the loop of notify_parent_nodes, and its end.
NotifyParent(t) ==
  LET todo == frame[t].todo
      n == Item(t)
  IN  /\ Doing(t, "notify") /\ ~Over(Head(todo))
      /\ \E m \in Notified(node[n]) : SetNode(n, m)
      /\ SetFrame(t, Do(frame[t],
           <<Notify(node[n].parent, Head(todo)[3])>> \o Tail(todo)))

NotifyEnd(t) ==
  /\ Doing(t, "notify") /\ Over(Head(frame[t].todo)) /\ Done(t)
  /\ UNCHANGED node

RenameMoved_slip(t) ==
  /\ Doing(t, "rename") /\ Done(t)
  /\ SetNode(Item(t), [node[Item(t)] EXCEPT !.parent = frame[t].target_parent])

RenameMoved(t) ==
  /\ Doing(t, "rename") /\ Done(t)
  /\ SetNode(Item(t), [node[Item(t)] EXCEPT
                         !.parent = frame[t].target_parent,
                         !.name = TargetName(call[t].target)])

FreeRemoved(t) ==
  /\ Doing(t, "free") /\ Done(t)
  /\ SetNode(Item(t), node_free)

ReturnResult(t) ==
  /\ Doing(t, "return")
  /\ answer' = [answer EXCEPT ![t] = Item(t)]
  /\ frame' = [frame EXCEPT ![t] = NoFrame]
  /\ UNCHANGED <<node, call>>

Protocol(t) == \/ Lock(t) \/ Wake(t) \/ Count(t) \/ Recount(t) \/ ReadFlag(t)
Body(t) ==
  \/ List(t) \/ Create(t) \/ RemoveSize(t) \/ RemoveUnlink(t)
  \/ LockMoves(t) \/ AcquireMap(t) \/ Transfer(t)
  \/ Discard(t) \/ DiscardAgain(t) \/ Calm(t)
Finish(t) ==
  \/ LeaveReader(t) \/ LeaveWriter(t) \/ LeaveMap(t)
  \/ NotifyParent(t) \/ NotifyEnd(t) \/ RenameMoved(t) \/ FreeRemoved(t) \/ ReturnResult(t)

ThreadStep(t) ==
  Invoke(t) \/ Protocol(t) \/ Get(t) \/ Leave(t) \/ Body(t) \/ Finish(t)

Next == \E t \in Thread : ThreadStep(t)

Spec == Init /\ [][Next]_vars
=============================================================================
