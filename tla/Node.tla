-------------------------------- MODULE Node --------------------------------
(***************************************************************************)
(* A folder of the file tree (Zaliczeniowe_2/Node.c) as operators on the   *)
(* value of its struct.  Its lock is the monitor of MapProtocol with two   *)
(* additions: a writer also waits until it is the only thread active in    *)
(* the folder's subtree, and a thread that is about to take the folder     *)
(* away may tell everybody who waits there to give up (emergency_pass).    *)
(*                                                                         *)
(* The children's map is an AtomicMap here: SafeHashMap is shown to be     *)
(* one.  tree_move takes maps for longer than one operation, as a writer:  *)
(* map_writer is the thread that has the map, if any.                      *)
(***************************************************************************)
EXTENDS MapProtocol

CONSTANTS Name, NULL

node_new(parent, name) ==
  [parent |-> parent, name |-> name, memory |-> "live",
   children |-> [a \in Name |-> NULL], map_writer |-> NULL,
   readers_inside |-> 0, readers_waiting |-> 0, readers |-> {},
   writers_inside |-> 0, writers_waiting |-> 0, writers |-> {},
   change |-> "WRITERS",
   subtree_threads |-> 0, safe_hmap_get_count |-> 0, private_access |-> {},
   emergency_pass |-> FALSE, move_map_writers_access |-> NULL]

\* The memory of a folder before node_new and after node_free.
Unused == [node_new(NULL, NULL) EXCEPT !.memory = "unused"]
node_free == [node_new(NULL, NULL) EXCEPT !.memory = "freed"]

\* The names in the children's map.
Names(n) == {a \in Name : n.children[a] # NULL}

\* The conditions of the waiting loops.
NodeReaderMustWait(n) == ReaderMustWait(n) /\ ~n.emergency_pass
NodeWriterMustWait(n) == WriterMustWait(n) /\ ~n.emergency_pass
SubtreeBusy_slip(n) == n.subtree_threads > 2 /\ ~n.emergency_pass
SubtreeBusy(n) == n.subtree_threads > 1 /\ ~n.emergency_pass
StillReferenced_slip(n) == n.safe_hmap_get_count > 2
StillReferenced(n) == n.safe_hmap_get_count > 1

CountIn(n) == [n EXCEPT !.subtree_threads = @ + 1]

SleepPrivate(n, t) == [n EXCEPT !.private_access = @ \cup {t}]

\* notify_parent_nodes without its test for the root, and without its signal.
Notified_root_slip(n) ==
  {[n EXCEPT !.subtree_threads = @ - 1, !.safe_hmap_get_count = @ - 1,
             !.private_access = q] : q \in Signal(n.private_access)}
Notified_silent_slip(n) ==
  {[n EXCEPT !.subtree_threads = @ - 1,
             !.safe_hmap_get_count = IF n.parent = NULL THEN @ ELSE @ - 1]}

\* One folder's share of notify_parent_nodes.
Notified(n) ==
  {[n EXCEPT !.subtree_threads = @ - 1,
             !.safe_hmap_get_count = IF n.parent = NULL THEN @ ELSE @ - 1,
             !.private_access = q] : q \in Signal(n.private_access)}

\* node_discard_waiting, up to its waiting loop: those of r, w and p sleep on.
Raised(n, r, w, p) ==
  [n EXCEPT !.emergency_pass = TRUE,
            !.readers = r, !.writers = w, !.private_access = p]
EmergencyOn(n) ==
  {Raised(n, r, w, p) : r \in Signal(n.readers), w \in Signal(n.writers),
                        p \in Signal(n.private_access)}

EmergencyOff(n) == [n EXCEPT !.emergency_pass = FALSE]
=============================================================================
