------------------------------- MODULE HashMap -------------------------------
(***************************************************************************)
(* The sequential hash map of Zaliczeniowe_2/HashMap.c, as operators on    *)
(* its value: an array of linked lists of pairs, each list a sequence, and *)
(* a separate count of the entries.  The mutating functions are given in   *)
(* the steps in which they read and write the map, so that a caller who    *)
(* does not keep other threads out sees what C would show.                 *)
(***************************************************************************)
EXTENDS Integers, Sequences, SequencesExt

CONSTANTS
  Key, Value,
  N_BUCKETS,
  get_hash     \* the bucket of each key

ASSUME HashAssumption ==
  /\ N_BUCKETS \in Nat \ {0}
  /\ get_hash \in [Key -> 0 .. N_BUCKETS - 1]

Bucket == 0 .. N_BUCKETS - 1
Pair == [key : Key, value : Value]

hmap_new == [buckets |-> [h \in Bucket |-> <<>>], size |-> 0]

List(map, key) == map.buckets[get_hash[key]]

\* The position of a key in its list, 0 when it is absent (hmap_find).
hmap_find(map, key) == SelectInSeq(List(map, key), LAMBDA p : p.key = key)

hmap_size(map) == map.size

\* hmap_insert: a new pair in front of a list read before, then the count.
hmap_link(map, key, value, next) ==
  [map EXCEPT !.buckets[get_hash[key]] =
                <<[key |-> key, value |-> value]>> \o next]
hmap_count_up(map) == [map EXCEPT !.size = @ + 1]

hmap_count_down_slip(map) == map

\* hmap_remove: the list without the pair, then the count.
hmap_unlink(map, key) ==
  [map EXCEPT !.buckets[get_hash[key]] = RemoveAt(@, hmap_find(map, key))]
hmap_count_down(map) == [map EXCEPT !.size = @ - 1]

\* An iterator: a bucket number and the rest of a list, from the pair that
\* comes next.
Iterator == [bucket : Bucket, pair : Seq(Pair)]

hmap_iterator(map) == [bucket |-> 0, pair |-> map.buckets[0]]

\* The loop of hmap_next: on to the next list that is not empty, if any.
hmap_seek(map, it) ==
  LET later == {b \in Bucket : b > it.bucket /\ map.buckets[b] # <<>>}
  IN  IF it.pair # <<>> THEN it
      ELSE IF later = {} THEN [bucket |-> N_BUCKETS - 1, pair |-> <<>>]
      ELSE [bucket |-> Min(later), pair |-> map.buckets[Min(later)]]

hmap_has_next(map, it) == hmap_seek(map, it).pair # <<>>
hmap_next_key(map, it) == Head(hmap_seek(map, it).pair).key
hmap_next_it(map, it)  == [hmap_seek(map, it) EXCEPT !.pair = Tail(@)]

\* Every pair of the map, wherever it is linked.
Entries(map) ==
  UNION {{<<h, i>> : i \in DOMAIN map.buckets[h]} : h \in Bucket}
PairAt(map, e) == map.buckets[e[1]][e[2]]
=============================================================================
