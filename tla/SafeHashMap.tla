----------------------------- MODULE SafeHashMap -----------------------------
(***************************************************************************)
(* Zaliczeniowe_2/SafeHashMap.c: a hash map behind the readers-writers     *)
(* monitor.  Threads call safe_hmap_insert, safe_hmap_remove,              *)
(* safe_hmap_size and safe_make_map_contents_string; inside the monitor    *)
(* the sequential code runs unprotected, one access to the map per step,   *)
(* so that what it computes depends on the monitor keeping others out.     *)
(***************************************************************************)
EXTENDS MapMonitor, HashMap

CONSTANT NULL

Calls ==
  [op : {"insert"}, key : Key, value : Value \cup {NULL}]
    \cup [op : {"remove"}, key : Key]
    \cup [op : {"size", "contents"}]

NoCall == [op |-> "none"]

VARIABLES
  map,    \* the HashMap
  frame   \* the locals of the call each thread is in

vars == <<monitor, pc, map, frame>>

NoFrame ==
  [call |-> NoCall, step |-> "begin",
   next |-> <<>>,                             \* hmap_insert: new_p->next
   n_keys |-> 0, keys |-> <<>>,               \* make_map_contents_array
   it |-> [bucket |-> 0, pair |-> <<>>],
   result |-> <<>>]                           \* <<r>> once it is known

Init ==
  /\ MonitorInit
  /\ map = hmap_new
  /\ frame = [t \in Thread |-> NoFrame]

\* The call reaches the preliminary protocol of its class.
Call(t, c) ==
  /\ IF c.op \in {"insert", "remove"} THEN StartWrite(t) ELSE StartRead(t)
  /\ frame' = [frame EXCEPT ![t].call = c]
  /\ UNCHANGED map

Resume(t) == (ResumeRead(t) \/ ResumeWrite(t)) /\ UNCHANGED <<map, frame>>
Spurious(t) == SpuriousWakeup(t) /\ UNCHANGED <<map, frame>>

\* Thread t, inside the monitor, is at this step of this operation.
Inside(t, op, step) ==
  /\ pc[t] \in {"reading", "writing"}
  /\ frame[t].call.op = op
  /\ frame[t].step = step
  /\ UNCHANGED mvars

Finish(t, r) ==
  frame' = [frame EXCEPT ![t].step = "done", ![t].result = <<r>>]

\* hmap_insert without the call of hmap_find.
InsertFind_slip(t) ==
  /\ Inside(t, "insert", "begin")
  /\ UNCHANGED map
  /\ LET c == frame[t].call
     IN  IF c.value = NULL THEN Finish(t, FALSE)
         ELSE frame' = [frame EXCEPT ![t].step = "link",
                                     ![t].next = List(map, c.key)]

\* hmap_insert: look for the key, and read the head of its list.
InsertFind(t) ==
  /\ Inside(t, "insert", "begin")
  /\ UNCHANGED map
  /\ LET c == frame[t].call
     IN  IF c.value = NULL \/ hmap_find(map, c.key) # 0
         THEN Finish(t, FALSE)
         ELSE frame' = [frame EXCEPT ![t].step = "link",
                                     ![t].next = List(map, c.key)]

InsertLink(t) ==
  /\ Inside(t, "insert", "link")
  /\ LET c == frame[t].call
     IN  map' = hmap_link(map, c.key, c.value, frame[t].next)
  /\ frame' = [frame EXCEPT ![t].step = "count", ![t].result = <<TRUE>>]

\* hmap_remove's count in place of hmap_insert's.
InsertCount_slip(t) ==
  /\ Inside(t, "insert", "count")
  /\ map' = hmap_count_down(map)
  /\ frame' = [frame EXCEPT ![t].step = "done"]

InsertCount(t) ==
  /\ Inside(t, "insert", "count")
  /\ map' = hmap_count_up(map)
  /\ frame' = [frame EXCEPT ![t].step = "done"]

\* hmap_remove.
RemoveUnlink(t) ==
  /\ Inside(t, "remove", "begin")
  /\ LET k == frame[t].call.key
     IN  IF hmap_find(map, k) = 0
         THEN Finish(t, FALSE) /\ UNCHANGED map
         ELSE /\ map' = hmap_unlink(map, k)
              /\ frame' = [frame EXCEPT ![t].step = "count",
                                        ![t].result = <<TRUE>>]

RemoveCount(t) ==
  /\ Inside(t, "remove", "count")
  /\ map' = hmap_count_down(map)
  /\ frame' = [frame EXCEPT ![t].step = "done"]

\* hmap_size.
Size(t) ==
  /\ Inside(t, "size", "begin")
  /\ Finish(t, hmap_size(map))
  /\ UNCHANGED map

\* make_map_contents_string: an array for as many keys as the map counts,
\* then the keys, one per call of hmap_next.  Sorting and joining them is
\* left out: the result is the set of keys.
ContentsAllocate(t) ==
  /\ Inside(t, "contents", "begin")
  /\ frame' = [frame EXCEPT ![t].step = "iterate",
                            ![t].n_keys = hmap_size(map),
                            ![t].it = hmap_iterator(map)]
  /\ UNCHANGED map

ContentsNext(t) ==
  /\ Inside(t, "contents", "iterate")
  /\ LET it == frame[t].it
     IN  IF hmap_has_next(map, it)
         THEN frame' = [frame EXCEPT
                          ![t].keys = Append(@, hmap_next_key(map, it)),
                          ![t].it = hmap_next_it(map, it)]
         ELSE Finish(t, ToSet(frame[t].keys))
  /\ UNCHANGED map

\* The final protocol, and the return to the caller.
Return(t) ==
  /\ frame[t].step = "done"
  /\ EndRead(t) \/ EndWrite(t)
  /\ frame' = [frame EXCEPT ![t] = NoFrame]
  /\ UNCHANGED map

Work(t) ==
  \/ InsertFind(t) \/ InsertLink(t) \/ InsertCount(t)
  \/ RemoveUnlink(t) \/ RemoveCount(t)
  \/ Size(t)
  \/ ContentsAllocate(t) \/ ContentsNext(t)

Next == \E t \in Thread :
  \/ \E c \in Calls : Call(t, c)
  \/ Resume(t) \/ Spurious(t) \/ Work(t) \/ Return(t)

Spec == Init /\ [][Next]_vars

\* As in MapMonitor: a woken thread gets the mutex, a thread inside goes on.
FairSpec == Spec /\ \A t \in Thread :
  WF_vars(Resume(t)) /\ WF_vars(Work(t)) /\ WF_vars(Return(t))

-----------------------------------------------------------------------------
TypeOK ==
  /\ MonitorTypeOK
  /\ map.buckets \in [Bucket -> Seq(Pair)]
  /\ map.size \in Nat
  /\ \A t \in Thread :
       /\ frame[t].call \in Calls \cup {NoCall}
       /\ frame[t].step \in {"begin", "link", "count", "iterate", "done"}
       /\ frame[t].n_keys \in Nat
       /\ frame[t].keys \in Seq(Key)
       /\ frame[t].it \in Iterator

\* Between two writers the map is whole: every key is linked once, in its own
\* list, and the count is the number of entries.
MapWhole ==
  At("writing") = {} =>
    /\ \A e \in Entries(map) : get_hash[PairAt(map, e).key] = e[1]
    /\ \A e, f \in Entries(map) :
         PairAt(map, e).key = PairAt(map, f).key => e = f
    /\ map.size = Cardinality(Entries(map))

\* HashMap.h: "The map cannot be modified between calls to `hmap_iterator` and
\* `hmap_next`": while a thread iterates, its iterator stays in a list that is
\* really there, no key that it has passed can come again or was missed, and
\* the keys still to come fit in the array of make_map_contents_array, whose
\* length was taken from the count before the walk began.
IteratorValid ==
  \A t \in Thread : frame[t].step = "iterate" =>
    LET it == frame[t].it
        ahead == ToSet(it.pair) \cup
                 UNION {ToSet(map.buckets[b]) : b \in it.bucket + 1 .. N_BUCKETS - 1}
    IN  /\ IsSuffix(it.pair, map.buckets[it.bucket])
        /\ {p.key : p \in ahead} =
             {PairAt(map, e).key : e \in Entries(map)} \ ToSet(frame[t].keys)
        /\ Len(frame[t].keys) + Cardinality(ahead) <= frame[t].n_keys

\* Every call is atomic: the mapping that the lists stand for, the pending
\* calls and their results are those of an AtomicMap.
Mapping ==
  LET present == {PairAt(map, e).key : e \in Entries(map)}
  IN  [k \in present |-> List(map, k)[hmap_find(map, k)].value]

Pending  == [t \in Thread |-> frame[t].call]
Response == [t \in Thread |-> frame[t].result]

Atomic == INSTANCE AtomicMap WITH
  mapping <- Mapping, pending <- Pending, response <- Response
ImplementsAtomicMap == Atomic!Spec

\* The map never stalls: either calls keep returning, or nobody is in a call.
CallsKeepReturning ==
  []<>(\A t \in Thread : pc[t] = "idle")
    \/ []<><<\E t \in Thread : Return(t)>>_vars
=============================================================================
