-------------------------- MODULE SafeHashMapProofs --------------------------
(***************************************************************************)
(* A SafeHashMap, for every finite set of threads, every set of keys and   *)
(* values, every number of buckets and every hash function.  First what    *)
(* the operators of HashMap return and preserve; then the safety of the    *)
(* readers-writers monitor; then that the calls are atomic: the monitor    *)
(* makes the threads alone with the map they change, and alone the         *)
(* operators do what the first part says.                                  *)
(***************************************************************************)
EXTENDS SafeHashMap, FiniteSetTheorems, SequenceTheorems, WellFoundedInduction,
        TLAPS

Maps == [buckets : [Bucket -> Seq(Pair)], size : Nat]

\* Every pair is in the list of its key, and no list has two with one key.
Linked(m) ==
  /\ \A h \in Bucket : \A i \in DOMAIN m.buckets[h] :
       get_hash[m.buckets[h][i].key] = h
  /\ \A h \in Bucket : \A i, j \in DOMAIN m.buckets[h] :
       m.buckets[h][i].key = m.buckets[h][j].key => i = j

Present(m) == {PairAt(m, e).key : e \in Entries(m)}
ValueOf(m, k) == List(m, k)[hmap_find(m, k)].value

(***************************************************************************)
(* Sequences and sets.                                                     *)
(***************************************************************************)

\* A set of naturals that is not empty has a least element.
LEMMA MinExists ==
  ASSUME NEW S \in SUBSET Nat, S # {}
  PROVE  Min(S) \in S /\ \A y \in S : Min(S) <= y
<1>1. IsWellFoundedOn(OpToRel(<, Nat), Nat)
  BY NatLessThanWellFounded
<1>2. PICK x \in S : \A y \in S : ~(<<y, x>> \in OpToRel(<, Nat))
  BY <1>1, WFMin
<1>3. ASSUME NEW y \in S PROVE x <= y
  <2>1. <<y, x>> \in OpToRel(<, Nat) <=> y < x
    BY DEF OpToRel
  <2>2. ~(y < x)
    BY <1>2, <2>1, Zenon
  <2> QED BY <2>2
<1> QED BY <1>3 DEF Min

LEMMA InToSet ==
  ASSUME NEW S, NEW s \in Seq(S)
  PROVE  /\ \A x : x \in ToSet(s) <=> \E i \in 1 .. Len(s) : x = s[i]
         /\ ToSet(s) \subseteq S
BY LenProperties DEF ToSet

LEMMA ToSetAppend ==
  ASSUME NEW S, NEW s \in Seq(S), NEW e \in S
  PROVE  ToSet(Append(s, e)) = ToSet(s) \cup {e}
<1> DEFINE a == Append(s, e)
<1>1. /\ a \in Seq(S) /\ Len(a) = Len(s) + 1 /\ a[Len(s) + 1] = e
      /\ \A i \in 1 .. Len(s) : a[i] = s[i]
      /\ Len(s) \in Nat
  BY AppendProperties, LenProperties
<1> HIDE DEF a
<1>2. ASSUME NEW x PROVE x \in ToSet(a) <=> x \in ToSet(s) \cup {e}
  BY <1>1, InToSet
<1> QED BY <1>2 DEF a

\* A suffix, element by element.
LEMMA SuffixSpec ==
  ASSUME NEW S, NEW s \in Seq(S), NEW t \in Seq(S)
  PROVE  IsSuffix(s, t) <=>
           /\ Len(s) <= Len(t)
           /\ \A i \in 1 .. Len(s) : s[i] = t[Len(t) - Len(s) + i]
<1> DEFINE rs == Reverse(s)
           rt == Reverse(t)
<1>1. Len(s) \in Nat /\ Len(t) \in Nat
  BY LenProperties
<1>2. /\ rs \in Seq(S) /\ Len(rs) = Len(s)
      /\ \A i \in 1 .. Len(s) : rs[i] = s[Len(s) - i + 1]
  BY <1>1, ElementOfSeq DEF Reverse
<1>3. /\ rt \in Seq(S) /\ Len(rt) = Len(t)
      /\ \A i \in 1 .. Len(t) : rt[i] = t[Len(t) - i + 1]
  BY <1>1, ElementOfSeq DEF Reverse
<1> HIDE DEF rs, rt
<1>4. CASE Len(s) <= Len(t)
  <2> DEFINE ps == SubSeq(rs, 1, Len(rs))
             pt == SubSeq(rt, 1, Len(rs))
  <2>1. /\ ps \in Seq(S) /\ Len(ps) = Len(s)
        /\ \A i \in 1 .. Len(s) : ps[i] = rs[i]
    <3>1. \A i \in 1 .. Len(rs) : rs[i] \in S
      BY <1>2, ElementOfSeq
    <3> QED BY <3>1, <1>1, <1>2, SubSeqProperties
  <2>2. /\ pt \in Seq(S) /\ Len(pt) = Len(s)
        /\ \A i \in 1 .. Len(s) : pt[i] = rt[i]
    <3>1. \A i \in 1 .. Len(rs) : rt[i] \in S
      BY <1>1, <1>2, <1>3, <1>4, ElementOfSeq
    <3> QED BY <3>1, <1>1, <1>2, SubSeqProperties
  <2> HIDE DEF ps, pt
  <2>3. ps = pt <=> \A i \in 1 .. Len(s) : rs[i] = rt[i]
    <3>1. ASSUME \A i \in 1 .. Len(s) : rs[i] = rt[i] PROVE ps = pt
      BY <2>1, <2>2, <3>1, SeqEqual
    <3>2. ASSUME ps = pt PROVE \A i \in 1 .. Len(s) : rs[i] = rt[i]
      BY <2>1, <2>2, <3>2
    <3> QED BY <3>1, <3>2
  <2>4. (\A i \in 1 .. Len(s) : rs[i] = rt[i])
          <=> \A i \in 1 .. Len(s) : s[i] = t[Len(t) - Len(s) + i]
    <3>1. ASSUME \A i \in 1 .. Len(s) : rs[i] = rt[i], NEW i \in 1 .. Len(s)
          PROVE  s[i] = t[Len(t) - Len(s) + i]
      <4> DEFINE j == Len(s) - i + 1
      <4>1. /\ j \in 1 .. Len(s) /\ j \in 1 .. Len(t)
            /\ Len(s) - j + 1 = i /\ Len(t) - j + 1 = Len(t) - Len(s) + i
        BY <1>1, <1>4
      <4> HIDE DEF j
      <4> QED BY <4>1, <3>1, <1>2, <1>3
    <3>2. ASSUME \A i \in 1 .. Len(s) : s[i] = t[Len(t) - Len(s) + i],
                 NEW i \in 1 .. Len(s)
          PROVE  rs[i] = rt[i]
      <4> DEFINE j == Len(s) - i + 1
      <4>1. /\ j \in 1 .. Len(s) /\ i \in 1 .. Len(t)
            /\ Len(t) - i + 1 = Len(t) - Len(s) + j
        BY <1>1, <1>4
      <4>2. rs[i] = s[j] /\ rt[i] = t[Len(t) - Len(s) + j]
        BY <4>1, <1>2, <1>3
      <4> HIDE DEF j
      <4> QED BY <4>1, <4>2, <3>2
    <3> QED BY <3>1, <3>2
  <2> QED BY <1>2, <1>3, <1>4, <2>3, <2>4 DEF IsSuffix, IsPrefix, ps, pt, rs, rt
<1>5. CASE ~(Len(s) <= Len(t))
  BY <1>2, <1>3, <1>5 DEF IsSuffix, IsPrefix, rs, rt
<1> QED BY <1>4, <1>5

\* A sequence without the element at one position.
LEMMA RemoveAtSpec ==
  ASSUME NEW S, NEW s \in Seq(S), NEW f \in 1 .. Len(s)
  PROVE  LET r == RemoveAt(s, f)
         IN  /\ r \in Seq(S) /\ Len(r) = Len(s) - 1
             /\ \A i \in 1 .. Len(r) : r[i] = IF i < f THEN s[i] ELSE s[i + 1]
<1> DEFINE a == SubSeq(s, 1, f - 1)
           b == SubSeq(s, f + 1, Len(s))
<1>1. Len(s) \in Nat /\ \A i \in 1 .. Len(s) : s[i] \in S
  BY LenProperties, ElementOfSeq
<1>2. /\ a \in Seq(S) /\ Len(a) = f - 1
      /\ \A i \in 1 .. f - 1 : a[i] = s[i]
  <2>1. \A i \in 1 .. f - 1 : s[i] \in S
    BY <1>1
  <2>2. 1 \in Int /\ f - 1 \in Int
    BY <1>1
  <2>3. /\ a \in Seq(S)
        /\ Len(a) = IF 1 <= f - 1 THEN (f - 1) - 1 + 1 ELSE 0
        /\ \A i \in 1 .. (f - 1) - 1 + 1 : a[i] = s[1 + i - 1]
    BY <2>1, <2>2, SubSeqProperties
  <2> HIDE DEF a
  <2> QED BY <2>3, <1>1
<1>3. /\ b \in Seq(S) /\ Len(b) = Len(s) - f
      /\ \A i \in 1 .. Len(s) - f : b[i] = s[f + i]
  <2>1. \A i \in f + 1 .. Len(s) : s[i] \in S
    BY <1>1
  <2>2. f + 1 \in Int /\ Len(s) \in Int
    BY <1>1
  <2>3. /\ b \in Seq(S)
        /\ Len(b) = IF f + 1 <= Len(s) THEN Len(s) - (f + 1) + 1 ELSE 0
        /\ \A i \in 1 .. Len(s) - (f + 1) + 1 : b[i] = s[(f + 1) + i - 1]
    BY <2>1, <2>2, SubSeqProperties
  <2> HIDE DEF b
  <2> QED BY <2>3, <1>1
<1> HIDE DEF a, b
<1>4. /\ a \o b \in Seq(S) /\ Len(a \o b) = Len(a) + Len(b)
      /\ \A i \in 1 .. Len(a) + Len(b) :
           (a \o b)[i] = IF i <= Len(a) THEN a[i] ELSE b[i - Len(a)]
  BY <1>2, <1>3, ConcatProperties
<1>5. RemoveAt(s, f) = a \o b
  BY DEF RemoveAt, a, b
<1> DEFINE r == a \o b
<1>6. Len(r) = Len(s) - 1
  BY <1>1, <1>2, <1>3, <1>4
<1>7. ASSUME NEW i \in 1 .. Len(r)
      PROVE  r[i] = IF i < f THEN s[i] ELSE s[i + 1]
  <2>1. CASE i < f
    BY <1>1, <1>2, <1>3, <1>4, <2>1
  <2>2. CASE ~(i < f)
    <3>1. i \in 1 .. Len(a) + Len(b) /\ ~(i <= Len(a)) /\ i - Len(a) \in 1 .. Len(s) - f
          /\ f + (i - Len(a)) = i + 1
      BY <1>1, <1>2, <1>3, <1>4, <2>2
    <3> QED BY <3>1, <1>3, <1>4, <2>2
  <2> QED BY <2>1, <2>2
<1> QED BY <1>4, <1>5, <1>6, <1>7

(***************************************************************************)
(* Finding a key.                                                          *)
(***************************************************************************)

LEMMA ListType ==
  ASSUME NEW m \in Maps, NEW k \in Key
  PROVE  get_hash[k] \in Bucket /\ List(m, k) \in Seq(Pair)
BY HashAssumption DEF Maps, Bucket, List

LEMMA PairAtType ==
  ASSUME NEW m \in Maps, NEW h \in Bucket, NEW i \in DOMAIN m.buckets[h]
  PROVE  /\ m.buckets[h] \in Seq(Pair)
         /\ Len(m.buckets[h]) \in Nat
         /\ DOMAIN m.buckets[h] = 1 .. Len(m.buckets[h])
         /\ m.buckets[h][i] \in Pair
         /\ m.buckets[h][i].key \in Key
         /\ m.buckets[h][i].value \in Value
<1>1. m.buckets[h] \in Seq(Pair)
  BY DEF Maps
<1>2. /\ Len(m.buckets[h]) \in Nat
      /\ DOMAIN m.buckets[h] = 1 .. Len(m.buckets[h])
  BY <1>1, LenProperties
<1>3. m.buckets[h][i] \in Pair
  BY <1>1, <1>2, ElementOfSeq
<1> QED BY <1>1, <1>2, <1>3 DEF Pair

\* hmap_find returns the position of the key, or 0 when the list has none.
LEMMA FindSpec ==
  ASSUME NEW m \in Maps, NEW k \in Key
  PROVE  LET f == hmap_find(m, k)
             s == List(m, k)
         IN  \/ f = 0 /\ \A i \in 1 .. Len(s) : s[i].key # k
             \/ f \in 1 .. Len(s) /\ s[f].key = k
<1> DEFINE s == List(m, k)
           I == {i \in 1 .. Len(s) : s[i].key = k}
<1>1. hmap_find(m, k) = IF I # {} THEN Min(I) ELSE 0
  BY DEF hmap_find, SelectInSeq
<1>2. I # {} => Min(I) \in I
  <2>1. I \in SUBSET Nat
    BY ListType, LenProperties
  <2> QED BY <2>1, MinExists
<1> QED BY <1>1, <1>2

\* In a linked map, hmap_find is the only position of the key anywhere.
LEMMA FindUnique ==
  ASSUME NEW m \in Maps, Linked(m),
         NEW h \in Bucket, NEW i \in DOMAIN m.buckets[h]
  PROVE  LET k == m.buckets[h][i].key
         IN  /\ h = get_hash[k] /\ i = hmap_find(m, k)
             /\ i \in 1 .. Len(List(m, k))
             /\ ValueOf(m, k) = m.buckets[h][i].value
<1> DEFINE k == m.buckets[h][i].key
<1>1. k \in Key /\ DOMAIN m.buckets[h] = 1 .. Len(m.buckets[h])
  BY PairAtType
<1>2. h = get_hash[k] /\ List(m, k) = m.buckets[h]
  BY DEF Linked, List
<1>3. /\ hmap_find(m, k) \in 1 .. Len(List(m, k))
      /\ List(m, k)[hmap_find(m, k)].key = k
  BY <1>1, <1>2, FindSpec
<1>4. i = hmap_find(m, k)
  BY <1>1, <1>2, <1>3 DEF Linked
<1> QED BY <1>1, <1>2, <1>4 DEF ValueOf

LEMMA InEntries ==
  ASSUME NEW m
  PROVE  \A e : e \in Entries(m) <=>
           \E h \in Bucket : \E i \in DOMAIN m.buckets[h] : e = <<h, i>>
BY DEF Entries

LEMMA InPresent ==
  ASSUME NEW m
  PROVE  \A k : k \in Present(m) <=>
           \E h \in Bucket : \E i \in DOMAIN m.buckets[h] :
             k = m.buckets[h][i].key
<1>1. ASSUME NEW k \in Present(m)
      PROVE  \E h \in Bucket : \E i \in DOMAIN m.buckets[h] :
               k = m.buckets[h][i].key
  <2>1. PICK e \in Entries(m) : k = PairAt(m, e).key
    BY DEF Present
  <2>2. PICK h \in Bucket : \E i \in DOMAIN m.buckets[h] : e = <<h, i>>
    BY InEntries
  <2>3. PICK i \in DOMAIN m.buckets[h] : e = <<h, i>>
    BY <2>2
  <2> QED BY <2>1, <2>3 DEF PairAt
<1>2. ASSUME NEW h \in Bucket, NEW i \in DOMAIN m.buckets[h]
      PROVE  m.buckets[h][i].key \in Present(m)
  <2>1. <<h, i>> \in Entries(m)
    BY InEntries
  <2>2. PairAt(m, <<h, i>>).key = m.buckets[h][i].key
    BY DEF PairAt
  <2> QED BY <2>1, <2>2 DEF Present
<1> QED BY <1>1, <1>2

\* A key is present when hmap_find finds it.
LEMMA PresentFind ==
  ASSUME NEW m \in Maps, Linked(m)
  PROVE  /\ Present(m) \subseteq Key
         /\ \A k \in Key : k \in Present(m) <=> hmap_find(m, k) # 0
         /\ \A k \in Present(m) : ValueOf(m, k) \in Value
<1>1. ASSUME NEW k \in Present(m)
      PROVE  k \in Key /\ hmap_find(m, k) # 0 /\ ValueOf(m, k) \in Value
  <2>1. PICK h \in Bucket : \E i \in DOMAIN m.buckets[h] :
                             k = m.buckets[h][i].key
    BY InPresent
  <2>2. PICK i \in DOMAIN m.buckets[h] : k = m.buckets[h][i].key
    BY <2>1
  <2> QED BY <2>2, PairAtType, FindUnique
<1>2. ASSUME NEW k \in Key, hmap_find(m, k) # 0 PROVE k \in Present(m)
  <2> DEFINE h == get_hash[k]
             i == hmap_find(m, k)
  <2>1. /\ h \in Bucket /\ m.buckets[h] \in Seq(Pair)
        /\ i \in 1 .. Len(m.buckets[h]) /\ m.buckets[h][i].key = k
    BY <1>2, ListType, FindSpec DEF List
  <2>2. i \in DOMAIN m.buckets[h]
    BY <2>1, LenProperties
  <2> QED BY <2>1, <2>2, InPresent
<1> QED BY <1>1, <1>2

\* A map has finitely many entries, in a linked map as many as keys.
LEMMA EntriesFinite ==
  ASSUME NEW m \in Maps
  PROVE  IsFiniteSet(Entries(m)) /\ IsFiniteSet(Present(m))
<1> DEFINE In(h) == {<<h, i>> : i \in DOMAIN m.buckets[h]}
<1>1. IsFiniteSet({In(h) : h \in Bucket})
  <2>1. IsFiniteSet(Bucket)
    BY HashAssumption, FS_Interval DEF Bucket
  <2> DEFINE f == [h \in Bucket |-> In(h)]
             T == {In(h) : h \in Bucket}
  <2>2. f \in Surjection(Bucket, T)
    BY DEF Surjection
  <2> QED BY <2>1, <2>2, FS_Surjection
<1>2. ASSUME NEW h \in Bucket PROVE IsFiniteSet(In(h))
  <2> DEFINE f == [i \in DOMAIN m.buckets[h] |-> <<h, i>>]
  <2>1. IsFiniteSet(DOMAIN m.buckets[h])
    <3>1. m.buckets[h] \in Seq(Pair)
      BY DEF Maps
    <3>2. /\ Len(m.buckets[h]) \in Nat
          /\ DOMAIN m.buckets[h] = 1..Len(m.buckets[h])
      BY <3>1, LenProperties
    <3>3. IsFiniteSet(1..Len(m.buckets[h]))
      BY <3>2, FS_Interval
    <3> QED BY <3>2, <3>3
  <2>2. f \in Surjection(DOMAIN m.buckets[h], In(h))
    BY DEF Surjection
  <2> QED BY <2>1, <2>2, FS_Surjection
<1>3. IsFiniteSet(Entries(m))
  <2>1. \A T \in {In(h) : h \in Bucket} : IsFiniteSet(T)
    BY <1>2
  <2>2. Entries(m) = UNION {In(h) : h \in Bucket}
    BY DEF Entries
  <2> HIDE DEF In
  <2> QED BY <1>1, <2>1, <2>2, FS_UNION
<1>4. IsFiniteSet(Present(m))
  <2> DEFINE f == [e \in Entries(m) |-> PairAt(m, e).key]
  <2>1. f \in Surjection(Entries(m), Present(m))
    BY DEF Surjection, Present
  <2> QED BY <1>3, <2>1, FS_Surjection
<1> QED BY <1>3, <1>4

LEMMA EntriesPresent ==
  ASSUME NEW m \in Maps, Linked(m)
  PROVE  /\ \A e, f \in Entries(m) : PairAt(m, e).key = PairAt(m, f).key => e = f
         /\ \A e \in Entries(m) : get_hash[PairAt(m, e).key] = e[1]
         /\ Cardinality(Entries(m)) = Cardinality(Present(m))
<1>1. ASSUME NEW e \in Entries(m)
      PROVE  LET k == PairAt(m, e).key
             IN  get_hash[k] = e[1] /\ e = <<get_hash[k], hmap_find(m, k)>>
  <2>1. PICK h \in Bucket : \E i \in DOMAIN m.buckets[h] : e = <<h, i>>
    BY InEntries
  <2>2. PICK i \in DOMAIN m.buckets[h] : e = <<h, i>>
    BY <2>1
  <2>3. PairAt(m, e).key = m.buckets[h][i].key /\ e[1] = h
    BY <2>2 DEF PairAt
  <2> QED BY <2>2, <2>3, FindUnique
<1>2. \A e, f \in Entries(m) : PairAt(m, e).key = PairAt(m, f).key => e = f
  BY <1>1
<1> DEFINE f == [e \in Entries(m) |-> PairAt(m, e).key]
<1>3. f \in Bijection(Entries(m), Present(m))
  <2>1. f \in [Entries(m) -> Present(m)]
    BY DEF Present
  <2>2. f \in Injection(Entries(m), Present(m))
    BY <1>2, <2>1 DEF Injection, IsInjective
  <2>3. f \in Surjection(Entries(m), Present(m))
    BY <2>1 DEF Surjection, Present
  <2> QED BY <2>2, <2>3 DEF Bijection
<1>4. Cardinality(Entries(m)) = Cardinality(Present(m))
  BY <1>3, EntriesFinite, FS_Bijection DEF ExistsBijection
<1> QED BY <1>1, <1>2, <1>4

(***************************************************************************)
(* The mutating steps.                                                     *)
(***************************************************************************)

LEMMA NewSpec ==
  /\ hmap_new \in Maps /\ Linked(hmap_new) /\ hmap_new.size = 0
  /\ Present(hmap_new) = {} /\ Entries(hmap_new) = {}
<1>1. /\ hmap_new \in Maps /\ hmap_new.size = 0
      /\ \A h \in Bucket : DOMAIN hmap_new.buckets[h] = {}
  BY DEF hmap_new, Maps
<1> QED BY <1>1, InPresent, InEntries DEF Linked

\* Counting changes nothing else.
LEMMA CountSpec ==
  ASSUME NEW m \in Maps, NEW n \in {hmap_count_up(m), hmap_count_down(m)}
  PROVE  /\ n.buckets = m.buckets
         /\ Linked(n) <=> Linked(m)
         /\ Present(n) = Present(m) /\ Entries(n) = Entries(m)
         /\ \A k : hmap_find(n, k) = hmap_find(m, k)
         /\ \A k : ValueOf(n, k) = ValueOf(m, k)
         /\ n.size \in Nat => n \in Maps
<1>1. n.buckets = m.buckets /\ (n.size \in Nat => n \in Maps)
  BY DEF Maps, hmap_count_up, hmap_count_down
<1> QED BY <1>1 DEF Linked, Present, Entries, PairAt, ValueOf, hmap_find, List

\* Linking a key that is absent adds it, in front of its list.
LEMMA LinkSpec ==
  ASSUME NEW m \in Maps, Linked(m), NEW k \in Key, NEW v \in Value,
         hmap_find(m, k) = 0
  PROVE  LET n == hmap_link(m, k, v, List(m, k))
         IN  /\ n \in Maps /\ Linked(n) /\ n.size = m.size
             /\ Present(n) = Present(m) \cup {k}
             /\ ValueOf(n, k) = v
             /\ \A j \in Present(m) : ValueOf(n, j) = ValueOf(m, j)
             /\ Cardinality(Present(n)) = Cardinality(Present(m)) + 1
<1> DEFINE g == get_hash[k]
           p == [key |-> k, value |-> v]
           s == List(m, k)
           r == <<p>> \o s
           n == hmap_link(m, k, v, s)
<1>1. g \in Bucket /\ s \in Seq(Pair) /\ s = m.buckets[g] /\ p \in Pair
  BY ListType DEF List, Pair
<1>2. /\ r \in Seq(Pair) /\ Len(r) = Len(s) + 1 /\ Len(s) \in Nat
      /\ r[1] = p /\ \A i \in DOMAIN r \ {1} : i - 1 \in DOMAIN s /\ r[i] = s[i - 1]
      /\ \A i \in DOMAIN s : i + 1 \in DOMAIN r /\ r[i + 1] = s[i]
      /\ DOMAIN r = 1 .. Len(r) /\ DOMAIN s = 1 .. Len(s)
  <2>1. <<p>> \in Seq(Pair) /\ Len(<<p>>) = 1 /\ <<p>>[1] = p
    BY <1>1
  <2>2. /\ r \in Seq(Pair) /\ Len(r) = 1 + Len(s)
        /\ \A i \in 1 .. 1 + Len(s) :
             r[i] = IF i <= 1 THEN <<p>>[i] ELSE s[i - 1]
    BY <1>1, <2>1, ConcatProperties
  <2>3. Len(s) \in Nat /\ DOMAIN r = 1 .. Len(r) /\ DOMAIN s = 1 .. Len(s)
    BY <1>1, <2>2, LenProperties
  <2> HIDE DEF r, p
  <2> QED BY <2>1, <2>2, <2>3
<1>3. /\ n \in Maps /\ n.size = m.size /\ n.buckets[g] = r
      /\ \A h \in Bucket \ {g} : n.buckets[h] = m.buckets[h]
  BY <1>1, <1>2 DEF Maps, hmap_link
<1> HIDE DEF n, r, s, g
<1>4. \A i \in DOMAIN s : s[i].key # k
  <2>1. \A i \in 1 .. Len(List(m, k)) : List(m, k)[i].key # k
    <3>1. m \in Maps /\ k \in Key /\ hmap_find(m, k) = 0
      OBVIOUS
    <3>2. \A f : f \in 1 .. Len(List(m, k)) => f # 0
      OBVIOUS
    <3> QED BY ONLY <3>1, <3>2, FindSpec
  <2>2. DOMAIN s = 1 .. Len(s)
    BY <1>2
  <2> QED BY ONLY <2>1, <2>2 DEF s
<1>5. p.key = k /\ p.value = v
  OBVIOUS
<1> HIDE DEF p
<1>6. Linked(n)
  <2>1. ASSUME NEW h \in Bucket, NEW i \in DOMAIN n.buckets[h]
        PROVE  get_hash[n.buckets[h][i].key] = h
    <3>1. CASE h # g
      BY <1>3, <3>1 DEF Linked
    <3>2. CASE h = g /\ i = 1
      BY <1>2, <1>3, <1>5, <3>2 DEF g
    <3>3. CASE h = g /\ i # 1
      <4>1. n.buckets[h][i] = m.buckets[g][i - 1] /\ i - 1 \in DOMAIN m.buckets[g]
        BY <1>1, <1>2, <1>3, <3>3
      <4> QED BY <1>1, <3>3, <4>1 DEF Linked
    <3> QED BY <3>1, <3>2, <3>3
  <2>2. ASSUME NEW h \in Bucket, NEW i \in DOMAIN n.buckets[h],
               NEW j \in DOMAIN n.buckets[h],
               n.buckets[h][i].key = n.buckets[h][j].key
        PROVE  i = j
    <3>1. CASE h # g
      BY <1>3, <2>2, <3>1 DEF Linked
    <3>2. CASE h = g
      <4>1. /\ n.buckets[g] = r /\ i \in DOMAIN r /\ j \in DOMAIN r
            /\ r[i].key = r[j].key
        BY <1>3, <2>2, <3>2
      <4>2. \A x \in DOMAIN r \ {1} : x - 1 \in DOMAIN s /\ r[x] = s[x - 1]
        BY <1>2
      <4>3. \A x, y \in DOMAIN s : s[x].key = s[y].key => x = y
        BY <1>1 DEF Linked
      <4>4. CASE i = 1 \/ j = 1
        BY <1>2, <1>4, <1>5, <4>1, <4>2, <4>4
      <4>5. CASE i # 1 /\ j # 1
        <5>1. i - 1 = j - 1
          BY <4>1, <4>2, <4>3, <4>5
        <5> QED BY <4>1, <5>1, <1>2
      <4> QED BY <4>4, <4>5
    <3> QED BY <3>1, <3>2
  <2> QED BY <2>1, <2>2 DEF Linked
<1>7. ASSUME NEW h \in Bucket, NEW i \in DOMAIN m.buckets[h]
      PROVE  \E j \in DOMAIN n.buckets[h] : n.buckets[h][j] = m.buckets[h][i]
  <2>1. CASE h # g
    BY <1>3, <2>1
  <2>2. CASE h = g
    <3>1. i + 1 \in DOMAIN n.buckets[h] /\ n.buckets[h][i + 1] = m.buckets[h][i]
      BY <1>1, <1>2, <1>3, <2>2
    <3> QED BY <3>1
  <2> QED BY <2>1, <2>2
<1>8. ASSUME NEW h \in Bucket, NEW i \in DOMAIN n.buckets[h]
      PROVE  \/ n.buckets[h][i] = p
             \/ \E j \in DOMAIN m.buckets[h] : n.buckets[h][i] = m.buckets[h][j]
  <2>1. CASE h # g
    BY <1>3, <2>1
  <2>2. CASE h = g /\ i = 1
    BY <1>2, <1>3, <2>2
  <2>3. CASE h = g /\ i # 1
    <3>1. n.buckets[h][i] = m.buckets[h][i - 1] /\ i - 1 \in DOMAIN m.buckets[h]
      BY <1>1, <1>2, <1>3, <2>3
    <3> QED BY <3>1
  <2> QED BY <2>1, <2>2, <2>3
<1>9. n.buckets[g][1] = p /\ 1 \in DOMAIN n.buckets[g]
  BY <1>2, <1>3
<1>10. Present(n) = Present(m) \cup {k}
  <2>1. ASSUME NEW j \in Present(n) PROVE j \in Present(m) \cup {k}
    <3>1. PICK h \in Bucket : \E i \in DOMAIN n.buckets[h] :
                               j = n.buckets[h][i].key
      BY InPresent
    <3>2. PICK i \in DOMAIN n.buckets[h] : j = n.buckets[h][i].key
      BY <3>1
    <3> QED BY <3>2, <1>5, <1>8, InPresent
  <2>2. ASSUME NEW j \in Present(m) PROVE j \in Present(n)
    <3>1. PICK h \in Bucket : \E i \in DOMAIN m.buckets[h] :
                               j = m.buckets[h][i].key
      BY InPresent
    <3>2. PICK i \in DOMAIN m.buckets[h] : j = m.buckets[h][i].key
      BY <3>1
    <3> QED BY <3>2, <1>7, InPresent
  <2>3. k \in Present(n)
    BY <1>1, <1>5, <1>9, InPresent
  <2> QED BY <2>1, <2>2, <2>3
<1>11. ValueOf(n, k) = v
  BY <1>1, <1>3, <1>5, <1>6, <1>9, FindUnique
<1>12. ASSUME NEW j \in Present(m) PROVE ValueOf(n, j) = ValueOf(m, j)
  <2>1. PICK h \in Bucket : \E i \in DOMAIN m.buckets[h] :
                             j = m.buckets[h][i].key
    BY InPresent
  <2>2. PICK i \in DOMAIN m.buckets[h] : j = m.buckets[h][i].key
    BY <2>1
  <2>3. PICK x \in DOMAIN n.buckets[h] : n.buckets[h][x] = m.buckets[h][i]
    BY <1>7
  <2>4. ValueOf(m, j) = m.buckets[h][i].value
    BY <2>2, FindUnique
  <2>5. ValueOf(n, j) = n.buckets[h][x].value
    BY <1>3, <1>6, <2>2, <2>3, FindUnique
  <2> QED BY <2>3, <2>4, <2>5
<1>13. Cardinality(Present(n)) = Cardinality(Present(m)) + 1
  <2>1. k \notin Present(m)
    BY PresentFind
  <2> QED BY <2>1, <1>10, EntriesFinite, FS_AddElement
<1> QED BY <1>3, <1>6, <1>10, <1>11, <1>12, <1>13 DEF n, s

\* Unlinking a key that is there removes it and touches no other.
LEMMA UnlinkSpec ==
  ASSUME NEW m \in Maps, Linked(m), NEW k \in Key, hmap_find(m, k) # 0
  PROVE  LET n == hmap_unlink(m, k)
         IN  /\ n \in Maps /\ Linked(n) /\ n.size = m.size
             /\ Present(n) = Present(m) \ {k}
             /\ \A j \in Present(n) : ValueOf(n, j) = ValueOf(m, j)
             /\ Cardinality(Present(m)) = Cardinality(Present(n)) + 1
<1> DEFINE g == get_hash[k]
           s == List(m, k)
           f == hmap_find(m, k)
           r == RemoveAt(s, f)
           n == hmap_unlink(m, k)
           Old(i) == IF i < f THEN i ELSE i + 1
           New(j) == IF j < f THEN j ELSE j - 1
<1>1. /\ g \in Bucket /\ s \in Seq(Pair) /\ s = m.buckets[g]
      /\ f \in 1 .. Len(s) /\ s[f].key = k
  BY ListType, FindSpec DEF List
<1>2. /\ r \in Seq(Pair) /\ Len(r) = Len(s) - 1 /\ Len(s) \in Nat
      /\ \A i \in 1 .. Len(r) : r[i] = s[Old(i)]
      /\ DOMAIN r = 1 .. Len(r) /\ DOMAIN s = 1 .. Len(s)
  <2>1. /\ r \in Seq(Pair) /\ Len(r) = Len(s) - 1
        /\ \A i \in 1 .. Len(r) : r[i] = IF i < f THEN s[i] ELSE s[i + 1]
    BY <1>1, RemoveAtSpec
  <2> HIDE DEF r, s, f
  <2> QED BY <1>1, <2>1, LenProperties
<1>3. /\ n \in Maps /\ n.size = m.size /\ n.buckets[g] = r
      /\ \A h \in Bucket \ {g} : n.buckets[h] = m.buckets[h]
  BY <1>1, <1>2 DEF Maps, hmap_unlink, List
<1> HIDE DEF n, r, s, g, f
<1>4. /\ \A i \in DOMAIN r : Old(i) \in DOMAIN s \ {f} /\ r[i] = s[Old(i)]
      /\ \A i, j \in DOMAIN r : Old(i) = Old(j) => i = j
  <2>1. ASSUME NEW i \in DOMAIN r
        PROVE  Old(i) \in DOMAIN s \ {f} /\ r[i] = s[Old(i)]
    BY <1>1, <1>2
  <2>2. ASSUME NEW i \in DOMAIN r, NEW j \in DOMAIN r, Old(i) = Old(j)
        PROVE  i = j
    <3>1. i \in Nat /\ j \in Nat /\ f \in Nat
      BY <1>1, <1>2
    <3> QED BY <3>1, <2>2
  <2> HIDE DEF Old
  <2> QED BY <2>1, <2>2
<1>5. \A j \in DOMAIN s \ {f} : New(j) \in DOMAIN r /\ r[New(j)] = s[j]
  BY <1>1, <1>2
<1> HIDE DEF Old, New
<1>6. \A i, j \in DOMAIN s : s[i].key = s[j].key => i = j
  BY <1>1 DEF Linked
<1>7. ASSUME NEW h \in Bucket, NEW i \in DOMAIN n.buckets[h]
      PROVE  \E j \in DOMAIN m.buckets[h] :
               /\ n.buckets[h][i] = m.buckets[h][j]
               /\ h = g => j = Old(i) /\ j # f
               /\ h # g => j = i
  <2>1. CASE h # g
    BY <1>3, <2>1
  <2>2. CASE h = g
    BY <1>1, <1>3, <1>4, <2>2
  <2> QED BY <2>1, <2>2
<1>8. Linked(n)
  <2>1. ASSUME NEW h \in Bucket, NEW i \in DOMAIN n.buckets[h]
        PROVE  get_hash[n.buckets[h][i].key] = h
    BY <1>7 DEF Linked
  <2>2. ASSUME NEW h \in Bucket, NEW i \in DOMAIN n.buckets[h],
               NEW j \in DOMAIN n.buckets[h],
               n.buckets[h][i].key = n.buckets[h][j].key
        PROVE  i = j
    <3>1. PICK x \in DOMAIN m.buckets[h] :
                 /\ n.buckets[h][i] = m.buckets[h][x]
                 /\ h = g => x = Old(i)
                 /\ h # g => x = i
      BY <1>7
    <3>2. PICK y \in DOMAIN m.buckets[h] :
                 /\ n.buckets[h][j] = m.buckets[h][y]
                 /\ h = g => y = Old(j)
                 /\ h # g => y = j
      BY <1>7
    <3>3. x = y
      BY <2>2, <3>1, <3>2 DEF Linked
    <3>4. h = g => i = j
      BY <1>3, <1>4, <3>1, <3>2, <3>3
    <3> QED BY <3>1, <3>2, <3>3, <3>4
  <2> QED BY <2>1, <2>2 DEF Linked
<1>9. ASSUME NEW h \in Bucket, NEW i \in DOMAIN m.buckets[h],
             m.buckets[h][i].key # k
      PROVE  \E j \in DOMAIN n.buckets[h] : n.buckets[h][j] = m.buckets[h][i]
  <2>1. CASE h # g
    BY <1>3, <2>1
  <2>2. CASE h = g
    BY <1>1, <1>3, <1>5, <1>9, <2>2
  <2> QED BY <2>1, <2>2
<1>10. \A h \in Bucket : \A i \in DOMAIN n.buckets[h] : n.buckets[h][i].key # k
  <2>1. SUFFICES ASSUME NEW h \in Bucket, NEW i \in DOMAIN n.buckets[h],
                        n.buckets[h][i].key = k
                 PROVE  FALSE
    OBVIOUS
  <2>2. PICK j \in DOMAIN m.buckets[h] :
               n.buckets[h][i] = m.buckets[h][j] /\ (h = g => j # f)
    BY <1>7
  <2>3. h = g
    BY <2>1, <2>2 DEF Linked, g
  <2> QED BY <1>1, <1>6, <2>1, <2>2, <2>3
<1>11. Present(n) = Present(m) \ {k}
  <2>1. ASSUME NEW j \in Present(n) PROVE j \in Present(m) \ {k}
    <3>1. PICK h \in Bucket : \E i \in DOMAIN n.buckets[h] :
                               j = n.buckets[h][i].key
      BY InPresent
    <3>2. PICK i \in DOMAIN n.buckets[h] : j = n.buckets[h][i].key
      BY <3>1
    <3> QED BY <3>2, <1>7, <1>10, InPresent
  <2>2. ASSUME NEW j \in Present(m) \ {k} PROVE j \in Present(n)
    <3>1. PICK h \in Bucket : \E i \in DOMAIN m.buckets[h] :
                               j = m.buckets[h][i].key
      BY InPresent
    <3>2. PICK i \in DOMAIN m.buckets[h] : j = m.buckets[h][i].key
      BY <3>1
    <3> QED BY <3>2, <1>9, InPresent
  <2> QED BY <2>1, <2>2
<1>12. ASSUME NEW j \in Present(n) PROVE ValueOf(n, j) = ValueOf(m, j)
  <2>1. PICK h \in Bucket : \E i \in DOMAIN n.buckets[h] :
                             j = n.buckets[h][i].key
    BY InPresent
  <2>2. PICK i \in DOMAIN n.buckets[h] : j = n.buckets[h][i].key
    BY <2>1
  <2>3. PICK x \in DOMAIN m.buckets[h] : n.buckets[h][i] = m.buckets[h][x]
    BY <1>7
  <2>4. ValueOf(n, j) = n.buckets[h][i].value
    BY <1>3, <1>8, <2>2, FindUnique
  <2>5. ValueOf(m, j) = m.buckets[h][x].value
    BY <2>2, <2>3, FindUnique
  <2> QED BY <2>3, <2>4, <2>5
<1>13. Cardinality(Present(m)) = Cardinality(Present(n)) + 1
  <2>1. k \in Present(m) /\ IsFiniteSet(Present(m)) /\ IsFiniteSet(Present(n))
    BY <1>1, <1>3, PresentFind, EntriesFinite DEF f
  <2>2. Cardinality(Present(n)) = Cardinality(Present(m)) - 1
    BY <1>11, <2>1, FS_RemoveElement
  <2> QED BY <2>1, <2>2, FS_CardinalityType
<1> QED BY <1>3, <1>8, <1>11, <1>12, <1>13 DEF n

(***************************************************************************)
(* Iterating.                                                              *)
(***************************************************************************)

\* The pairs that an iterator has yet to come to.
Ahead(m, it) ==
  ToSet(it.pair) \cup
    UNION {ToSet(m.buckets[b]) : b \in it.bucket + 1 .. N_BUCKETS - 1}
KeysAhead(m, it) == {p.key : p \in Ahead(m, it)}

\* The rest of a list that an iterator holds is the end of that list.
Valid(m, it) == IsSuffix(it.pair, m.buckets[it.bucket])

LEMMA InAhead ==
  ASSUME NEW m \in Maps, NEW it \in Iterator, Valid(m, it)
  PROVE  \A p : p \in Ahead(m, it) <=>
           \/ \E i \in 1 .. Len(m.buckets[it.bucket]) :
                /\ i > Len(m.buckets[it.bucket]) - Len(it.pair)
                /\ p = m.buckets[it.bucket][i]
           \/ \E b \in Bucket : \E i \in 1 .. Len(m.buckets[b]) :
                b > it.bucket /\ p = m.buckets[b][i]
<1> DEFINE g == it.bucket
           s == it.pair
           t == m.buckets[g]
<1>1. /\ g \in Bucket /\ s \in Seq(Pair) /\ t \in Seq(Pair)
      /\ Len(s) \in Nat /\ Len(t) \in Nat
      /\ \A b \in Bucket : m.buckets[b] \in Seq(Pair)
  <2>1. g \in Bucket /\ s \in Seq(Pair) /\ t \in Seq(Pair)
    BY DEF Iterator, Maps
  <2> QED BY <2>1, LenProperties DEF Maps
<1>2. /\ Len(s) <= Len(t)
      /\ \A i \in 1 .. Len(s) : s[i] = t[Len(t) - Len(s) + i]
  BY <1>1, SuffixSpec DEF Valid
<1>3. \A p : p \in Ahead(m, it) <=>
        \/ p \in ToSet(s)
        \/ \E b \in g + 1 .. N_BUCKETS - 1 : p \in ToSet(m.buckets[b])
  BY DEF Ahead
<1> HIDE DEF s, t, g
<1>4. \A p : p \in ToSet(s) <=>
        \E i \in 1 .. Len(t) : i > Len(t) - Len(s) /\ p = t[i]
  <2>1. ASSUME NEW i \in 1 .. Len(s)
        PROVE  \E j \in 1 .. Len(t) : j > Len(t) - Len(s) /\ s[i] = t[j]
    <3>1. /\ Len(t) - Len(s) + i \in 1 .. Len(t)
          /\ Len(t) - Len(s) + i > Len(t) - Len(s)
      BY <1>1, <1>2
    <3> QED BY <1>2, <3>1
  <2>2. ASSUME NEW i \in 1 .. Len(t), i > Len(t) - Len(s)
        PROVE  \E j \in 1 .. Len(s) : t[i] = s[j]
    <3> DEFINE j == i - (Len(t) - Len(s))
    <3>1. j \in 1 .. Len(s) /\ Len(t) - Len(s) + j = i
      BY <1>1, <1>2, <2>2
    <3> HIDE DEF j
    <3> QED BY <1>2, <3>1
  <2>3. \A p : p \in ToSet(s) <=> \E i \in 1 .. Len(s) : p = s[i]
    BY <1>1, InToSet
  <2>4. ASSUME NEW p, p \in ToSet(s)
        PROVE  \E i \in 1 .. Len(t) : i > Len(t) - Len(s) /\ p = t[i]
    <3>1. PICK i \in 1 .. Len(s) : p = s[i]
      BY <2>3, <2>4
    <3> QED BY <2>1, <3>1
  <2>5. ASSUME NEW p, NEW i \in 1 .. Len(t), i > Len(t) - Len(s), p = t[i]
        PROVE  p \in ToSet(s)
    <3>1. PICK j \in 1 .. Len(s) : t[i] = s[j]
      BY <2>2, <2>5
    <3> QED BY <2>3, <2>5, <3>1
  <2> QED BY <2>4, <2>5
<1>5. \A b : b \in g + 1 .. N_BUCKETS - 1 <=> b \in Bucket /\ b > g
  BY <1>1, HashAssumption DEF Bucket
<1>6. \A b \in Bucket : \A p : p \in ToSet(m.buckets[b]) <=>
        \E i \in 1 .. Len(m.buckets[b]) : p = m.buckets[b][i]
  BY <1>1, InToSet
<1>7. \A p : (\E b \in g + 1 .. N_BUCKETS - 1 : p \in ToSet(m.buckets[b])) <=>
        \E b \in Bucket : \E i \in 1 .. Len(m.buckets[b]) :
          b > g /\ p = m.buckets[b][i]
  <2> SUFFICES ASSUME NEW p
               PROVE  (\E b \in g + 1 .. N_BUCKETS - 1 : p \in ToSet(m.buckets[b]))
                        <=> \E b \in Bucket : \E i \in 1 .. Len(m.buckets[b]) :
                              b > g /\ p = m.buckets[b][i]
    OBVIOUS
  <2>1. ASSUME NEW b \in g + 1 .. N_BUCKETS - 1, p \in ToSet(m.buckets[b])
        PROVE  \E c \in Bucket : \E i \in 1 .. Len(m.buckets[c]) :
                 c > g /\ p = m.buckets[c][i]
    <3>1. b \in Bucket /\ b > g
      BY <1>5
    <3>2. \E i \in 1 .. Len(m.buckets[b]) : p = m.buckets[b][i]
      BY <1>6, <2>1, <3>1
    <3> QED BY <3>1, <3>2
  <2>2. ASSUME NEW b \in Bucket, NEW i \in 1 .. Len(m.buckets[b]),
               b > g /\ p = m.buckets[b][i]
        PROVE  \E c \in g + 1 .. N_BUCKETS - 1 : p \in ToSet(m.buckets[c])
    BY <1>5, <1>6, <2>2
  <2> QED BY <2>1, <2>2
<1> QED BY <1>3, <1>4, <1>7 DEF s, t, g

\* The entry at position i of list b is still to come.
ToCome(m, it, b, i) ==
  \/ b > it.bucket
  \/ b = it.bucket /\ i > Len(m.buckets[b]) - Len(it.pair)

LEMMA InKeysAhead ==
  ASSUME NEW m \in Maps, NEW it \in Iterator, Valid(m, it)
  PROVE  \A k : k \in KeysAhead(m, it) <=>
           \E b \in Bucket : \E i \in DOMAIN m.buckets[b] :
             ToCome(m, it, b, i) /\ k = m.buckets[b][i].key
<1>0. \A p : p \in Ahead(m, it) <=>
        \/ \E i \in 1 .. Len(m.buckets[it.bucket]) :
             /\ i > Len(m.buckets[it.bucket]) - Len(it.pair)
             /\ p = m.buckets[it.bucket][i]
        \/ \E b \in Bucket : \E i \in 1 .. Len(m.buckets[b]) :
             b > it.bucket /\ p = m.buckets[b][i]
  BY InAhead
<1>1. \A b \in Bucket : DOMAIN m.buckets[b] = 1 .. Len(m.buckets[b])
  <2>1. \A b \in Bucket : m.buckets[b] \in Seq(Pair)
    BY DEF Maps
  <2> QED BY <2>1, LenProperties
<1>2. it.bucket \in Bucket
  BY DEF Iterator
<1>3. \A p : p \in Ahead(m, it) <=>
        \E b \in Bucket : \E i \in DOMAIN m.buckets[b] :
          ToCome(m, it, b, i) /\ p = m.buckets[b][i]
  <2>1. ASSUME NEW p \in Ahead(m, it)
        PROVE  \E b \in Bucket : \E i \in DOMAIN m.buckets[b] :
                 ToCome(m, it, b, i) /\ p = m.buckets[b][i]
    <3>1. CASE \E i \in 1 .. Len(m.buckets[it.bucket]) :
                 /\ i > Len(m.buckets[it.bucket]) - Len(it.pair)
                 /\ p = m.buckets[it.bucket][i]
      BY <1>1, <1>2, <3>1 DEF ToCome
    <3>2. CASE \E b \in Bucket : \E i \in 1 .. Len(m.buckets[b]) :
                 b > it.bucket /\ p = m.buckets[b][i]
      BY <1>1, <3>2 DEF ToCome
    <3> QED BY <1>0, <3>1, <3>2
  <2>2. ASSUME NEW b \in Bucket, NEW i \in DOMAIN m.buckets[b],
               ToCome(m, it, b, i)
        PROVE  m.buckets[b][i] \in Ahead(m, it)
    <3>1. CASE b > it.bucket
      BY <1>0, <1>1, <3>1
    <3>2. CASE b = it.bucket /\ i > Len(m.buckets[b]) - Len(it.pair)
      BY <1>0, <1>1, <3>2
    <3> QED BY <2>2, <3>1, <3>2 DEF ToCome
  <2> QED BY <2>1, <2>2
<1>4. ASSUME NEW k \in KeysAhead(m, it)
      PROVE  \E b \in Bucket : \E i \in DOMAIN m.buckets[b] :
               ToCome(m, it, b, i) /\ k = m.buckets[b][i].key
  <2>1. PICK p \in Ahead(m, it) : k = p.key
    BY DEF KeysAhead
  <2> QED BY <2>1, <1>3
<1>5. ASSUME NEW b \in Bucket, NEW i \in DOMAIN m.buckets[b],
             ToCome(m, it, b, i)
      PROVE  m.buckets[b][i].key \in KeysAhead(m, it)
  <2>1. m.buckets[b][i] \in Ahead(m, it)
    BY <1>3, <1>5
  <2> QED BY <2>1 DEF KeysAhead
<1> QED BY <1>4, <1>5

\* A new iterator has every key ahead of it.
LEMMA IteratorSpec ==
  ASSUME NEW m \in Maps
  PROVE  LET it == hmap_iterator(m)
         IN  it \in Iterator /\ Valid(m, it) /\ KeysAhead(m, it) = Present(m)
<1> DEFINE it == hmap_iterator(m)
<1>1. 0 \in Bucket /\ m.buckets[0] \in Seq(Pair)
  BY HashAssumption DEF Bucket, Maps
<1>2. it \in Iterator /\ it.bucket = 0 /\ it.pair = m.buckets[0]
  BY <1>1 DEF hmap_iterator, Iterator
<1> HIDE DEF it
<1>3. Valid(m, it)
  <2>1. Len(m.buckets[0]) \in Nat
    BY <1>1, LenProperties
  <2>2. /\ Len(m.buckets[0]) <= Len(m.buckets[0])
        /\ \A i \in 1 .. Len(m.buckets[0]) :
             m.buckets[0][i] = m.buckets[0][Len(m.buckets[0]) - Len(m.buckets[0]) + i]
    BY <2>1
  <2>3. IsSuffix(m.buckets[0], m.buckets[0])
    BY <1>1, <2>2, SuffixSpec
  <2> QED BY <1>2, <2>3 DEF Valid
<1>4. ASSUME NEW b \in Bucket, NEW i \in DOMAIN m.buckets[b]
      PROVE  ToCome(m, it, b, i)
  <2>1. b > 0 \/ b = 0
    BY HashAssumption DEF Bucket
  <2>2. i \in Nat \ {0} /\ Len(m.buckets[b]) \in Nat
    BY PairAtType
  <2>3. CASE b = 0
    <3>1. Len(m.buckets[b]) - Len(it.pair) = 0
      BY <1>2, <2>2, <2>3
    <3> QED BY <1>2, <2>2, <2>3, <3>1 DEF ToCome
  <2>4. CASE b > 0
    BY <1>2, <2>4 DEF ToCome
  <2> QED BY <2>1, <2>3, <2>4
<1>5. ASSUME NEW k PROVE k \in KeysAhead(m, it) <=> k \in Present(m)
  BY <1>2, <1>3, <1>4, InKeysAhead, InPresent
<1> QED BY <1>2, <1>3, <1>5 DEF it

\* The loop of hmap_next passes only empty lists.
LEMMA SeekSpec ==
  ASSUME NEW m \in Maps, NEW it \in Iterator, Valid(m, it)
  PROVE  LET s == hmap_seek(m, it)
         IN  /\ s \in Iterator /\ Valid(m, s)
             /\ \A b \in Bucket : \A i \in DOMAIN m.buckets[b] :
                  ToCome(m, s, b, i) <=> ToCome(m, it, b, i)
             /\ s.pair = <<>> => \A b \in Bucket : \A i \in DOMAIN m.buckets[b] :
                                  ~ToCome(m, s, b, i)
<1> DEFINE later == {b \in Bucket : b > it.bucket /\ m.buckets[b] # <<>>}
           s == hmap_seek(m, it)
<1>1. /\ it.bucket \in Bucket /\ it.pair \in Seq(Pair)
      /\ \A b \in Bucket : m.buckets[b] \in Seq(Pair)
      /\ Bucket \subseteq Nat
  BY HashAssumption DEF Iterator, Maps, Bucket
<1>2. \A b \in Bucket : /\ Len(m.buckets[b]) \in Nat
                        /\ DOMAIN m.buckets[b] = 1 .. Len(m.buckets[b])
  BY <1>1, LenProperties
<1>3. CASE it.pair # <<>>
  <2>1. s = it
    BY <1>3 DEF hmap_seek
  <2> QED BY <1>3, <2>1
<1>4. CASE it.pair = <<>> /\ later = {}
  <2>1. s = [bucket |-> N_BUCKETS - 1, pair |-> <<>>]
    BY <1>4 DEF hmap_seek
  <2>2. s \in Iterator /\ s.bucket = N_BUCKETS - 1 /\ s.pair = <<>>
    BY <2>1, HashAssumption, EmptySeq DEF Iterator, Bucket
  <2> HIDE DEF s
  <2>3. Valid(m, s)
    <3>1. PICK l : l = m.buckets[s.bucket]
      OBVIOUS
    <3>2. l \in Seq(Pair)
      BY <1>1, <2>2, <3>1 DEF Iterator
    <3>3. PICK e : e = <<>>
      OBVIOUS
    <3>4. e \in Seq(Pair) /\ Len(e) = 0 /\ Len(l) \in Nat
      BY ONLY <3>2, <3>3, EmptySeq, LenProperties
    <3>5. IsSuffix(e, l) <=> /\ Len(e) <= Len(l)
                             /\ \A i \in 1 .. Len(e) : e[i] = l[Len(l) - Len(e) + i]
      BY ONLY <3>2, <3>4, SuffixSpec
    <3>6. IsSuffix(e, l)
      BY ONLY <3>4, <3>5
    <3> QED BY ONLY <2>2, <3>1, <3>3, <3>6 DEF Valid
  <2>4. ASSUME NEW b \in Bucket, NEW i \in DOMAIN m.buckets[b]
        PROVE  ~ToCome(m, s, b, i) /\ ~ToCome(m, it, b, i)
    <3>1. b <= N_BUCKETS - 1 /\ i <= Len(m.buckets[b]) /\ i \in Nat \ {0}
      BY <1>2, HashAssumption DEF Bucket
    <3>2. Len(<<>>) = 0
      BY EmptySeq
    <3>3. ~(b > it.bucket)
      <4>1. m.buckets[b] # <<>>
        BY <3>1, <3>2, <1>2
      <4> QED BY <1>4, <4>1
    <3> QED BY <1>1, <1>2, <1>4, <2>2, <3>1, <3>2, <3>3, HashAssumption DEF ToCome
  <2> QED BY <2>2, <2>3, <2>4 DEF s
<1>5. CASE it.pair = <<>> /\ later # {}
  <2> DEFINE c == Min(later)
  <2>1. c \in later /\ \A b \in later : c <= b
    <3>1. later \in SUBSET Nat
      BY <1>1
    <3> QED BY <1>5, <3>1, MinExists
  <2>2. s = [bucket |-> c, pair |-> m.buckets[c]]
    BY <1>5 DEF hmap_seek
  <2> HIDE DEF c
  <2>3. /\ s \in Iterator /\ s.bucket = c /\ s.pair = m.buckets[c]
        /\ c \in Bucket /\ c > it.bucket /\ m.buckets[c] # <<>>
    BY <1>1, <2>1, <2>2 DEF Iterator
  <2> HIDE DEF s
  <2>4. Valid(m, s)
    <3>1. \A i \in 1 .. Len(m.buckets[c]) :
            m.buckets[c][i] = m.buckets[c][Len(m.buckets[c]) - Len(m.buckets[c]) + i]
      BY <1>2, <2>3
    <3>2. IsSuffix(m.buckets[c], m.buckets[c])
      BY <1>1, <1>2, <2>3, <3>1, SuffixSpec
    <3> QED BY <2>3, <3>2 DEF Valid
  <2>5. ASSUME NEW b \in Bucket, NEW i \in DOMAIN m.buckets[b]
        PROVE  ToCome(m, s, b, i) <=> ToCome(m, it, b, i)
    <3>1. i <= Len(m.buckets[b]) /\ i \in Nat \ {0} /\ Len(<<>>) = 0
      BY <1>2, EmptySeq
    <3>2. b > it.bucket => c <= b
      <4>1. m.buckets[b] # <<>>
        BY <3>1, <1>2
      <4> QED BY <2>1, <4>1
    <3>3. ToCome(m, it, b, i) <=> b > it.bucket
      BY <1>2, <1>5, <3>1 DEF ToCome
    <3>4. ToCome(m, s, b, i) <=> b >= c
      <4>1. CASE b = c
        <5>1. Len(m.buckets[b]) - Len(s.pair) = 0
          BY <1>2, <2>3, <4>1
        <5> QED BY <1>1, <2>3, <3>1, <4>1, <5>1 DEF ToCome
      <4>2. CASE b # c
        <5>1. b \in Nat /\ c \in Nat
          BY <1>1, <2>3
        <5>2. ToCome(m, s, b, i) <=> b > c
          BY <2>3, <4>2 DEF ToCome
        <5> QED BY <4>2, <5>1, <5>2
      <4> QED BY <4>1, <4>2
    <3>5. b \in Nat /\ c \in Nat /\ it.bucket \in Nat
      BY <1>1, <2>3
    <3> QED BY <2>3, <3>2, <3>3, <3>4, <3>5
  <2> QED BY <2>3, <2>4, <2>5 DEF s
<1> QED BY <1>3, <1>4, <1>5

\* hmap_next returns a key that is ahead and leaves the others ahead; when it
\* returns none, none was.
LEMMA NextSpec ==
  ASSUME NEW m \in Maps, Linked(m), NEW it \in Iterator, Valid(m, it)
  PROVE  IF hmap_has_next(m, it)
         THEN LET n == hmap_next_it(m, it)
                  k == hmap_next_key(m, it)
              IN  /\ n \in Iterator /\ Valid(m, n)
                  /\ k \in KeysAhead(m, it) /\ k \in Key
                  /\ KeysAhead(m, n) = KeysAhead(m, it) \ {k}
         ELSE KeysAhead(m, it) = {}
<1> DEFINE s == hmap_seek(m, it)
           c == s.bucket
           t == m.buckets[c]
           q == s.pair
<1>1. /\ s \in Iterator /\ Valid(m, s)
      /\ \A b \in Bucket : \A i \in DOMAIN m.buckets[b] :
           ToCome(m, s, b, i) <=> ToCome(m, it, b, i)
      /\ q = <<>> => \A b \in Bucket : \A i \in DOMAIN m.buckets[b] :
                      ~ToCome(m, s, b, i)
  BY SeekSpec
<1>2. hmap_has_next(m, it) <=> q # <<>>
  BY DEF hmap_has_next
<1>3. hmap_next_key(m, it) = Head(q).key /\ hmap_next_it(m, it) = [s EXCEPT !.pair = Tail(@)]
  BY DEF hmap_next_key, hmap_next_it
<1> HIDE DEF s
<1>4. KeysAhead(m, it) = KeysAhead(m, s)
  <2>1. \A k : k \in KeysAhead(m, it) <=>
          \E b \in Bucket : \E i \in DOMAIN m.buckets[b] :
            ToCome(m, it, b, i) /\ k = m.buckets[b][i].key
    BY InKeysAhead
  <2>2. \A k : k \in KeysAhead(m, s) <=>
          \E b \in Bucket : \E i \in DOMAIN m.buckets[b] :
            ToCome(m, s, b, i) /\ k = m.buckets[b][i].key
    BY <1>1, InKeysAhead
  <2>3. \A k : k \in KeysAhead(m, it) <=> k \in KeysAhead(m, s)
    BY <1>1, <2>1, <2>2
  <2> QED BY <2>3
<1>5. CASE q = <<>>
  <2>1. KeysAhead(m, s) = {}
    BY <1>1, <1>5, InKeysAhead
  <2> QED BY <1>2, <1>4, <1>5, <2>1
<1>6. CASE q # <<>>
  <2> DEFINE n == [s EXCEPT !.pair = Tail(@)]
             z == Len(t) - Len(q) + 1
             k == Head(q).key
  <2>1. /\ c \in Bucket /\ q \in Seq(Pair) /\ t \in Seq(Pair)
        /\ Len(q) \in Nat \ {0} /\ Len(t) \in Nat /\ DOMAIN t = 1 .. Len(t)
    <3>1. c \in Bucket /\ q \in Seq(Pair) /\ t \in Seq(Pair)
      BY <1>1 DEF Iterator, Maps
    <3> QED BY <1>6, <3>1, LenProperties, EmptySeq
  <2>0. IsSuffix(q, t) /\ q = s.pair /\ c = s.bucket /\ t = m.buckets[c]
    BY <1>1 DEF Valid
  <2> HIDE DEF q, t, c
  <2>2. /\ Len(q) <= Len(t)
        /\ \A i \in 1 .. Len(q) : q[i] = t[Len(t) - Len(q) + i]
    <3>1. IsSuffix(q, t) <=>
            /\ Len(q) <= Len(t)
            /\ \A i \in 1 .. Len(q) : q[i] = t[Len(t) - Len(q) + i]
      BY <2>1, SuffixSpec
    <3> QED BY <2>0, <3>1
  <2>3. /\ Tail(q) \in Seq(Pair) /\ Len(Tail(q)) = Len(q) - 1
        /\ \A i \in 1 .. Len(Tail(q)) : Tail(q)[i] = q[i + 1]
    BY <1>6, <2>1, HeadTailProperties
  <2>4. n \in Iterator /\ n.bucket = c /\ n.pair = Tail(q)
    BY <1>1, <2>0, <2>3 DEF Iterator
  <2>5. Valid(m, n)
    <3>1. ASSUME NEW i \in 1 .. Len(Tail(q))
          PROVE  Tail(q)[i] = t[Len(t) - Len(Tail(q)) + i]
      <4>1. i + 1 \in 1 .. Len(q)
            /\ Len(t) - Len(q) + (i + 1) = Len(t) - Len(Tail(q)) + i
        BY <2>1, <2>3
      <4> QED BY <2>2, <2>3, <4>1
    <3>2. Len(Tail(q)) <= Len(t)
      BY <2>1, <2>2, <2>3
    <3>3. IsSuffix(Tail(q), t)
      BY <2>1, <2>3, <3>1, <3>2, SuffixSpec
    <3> QED BY <2>0, <2>4, <3>3 DEF Valid
  <2>6. /\ z \in DOMAIN t /\ Head(q) = t[z] /\ ToCome(m, s, c, z)
        /\ k = m.buckets[c][z].key
    <3>1. 1 \in 1 .. Len(q) /\ z \in 1 .. Len(t) /\ z > Len(t) - Len(q)
      BY <2>1, <2>2
    <3>2. q[1] = t[z] /\ Head(q) = q[1]
      BY <1>6, <2>1, <2>2, <3>1
    <3> QED BY <2>0, <2>1, <3>1, <3>2 DEF ToCome
  <2>7. ASSUME NEW b \in Bucket, NEW i \in DOMAIN m.buckets[b]
        PROVE  ToCome(m, n, b, i) <=> ToCome(m, s, b, i) /\ ~(b = c /\ i = z)
    <3>1. CASE b # c
      BY <2>0, <2>4, <3>1 DEF ToCome
    <3>2. CASE b = c
      <4>1. i \in Nat /\ ~(b > c)
        BY <2>0, <2>1, <3>2, HashAssumption DEF Bucket
      <4>2. i > Len(t) - (Len(q) - 1) <=> i > Len(t) - Len(q) /\ i # z
        BY <2>1, <4>1
      <4> HIDE DEF z, n
      <4>3. ToCome(m, n, b, i) <=> i > Len(t) - (Len(q) - 1)
        BY <2>0, <2>3, <2>4, <3>2, <4>1 DEF ToCome
      <4>4. ToCome(m, s, b, i) <=> i > Len(t) - Len(q)
        BY <2>0, <3>2, <4>1 DEF ToCome
      <4> QED BY <3>2, <4>2, <4>3, <4>4
    <3> QED BY <3>1, <3>2
  <2> HIDE DEF n, z, k
  <2>8. ASSUME NEW b \in Bucket, NEW i \in DOMAIN m.buckets[b]
        PROVE  m.buckets[b][i].key = k <=> b = c /\ i = z
    BY <2>0, <2>1, <2>6 DEF Linked
  <2>9. KeysAhead(m, n) = KeysAhead(m, s) \ {k}
    <3>1. ASSUME NEW j \in KeysAhead(m, n) PROVE j \in KeysAhead(m, s) \ {k}
      <4>1. PICK b \in Bucket : \E i \in DOMAIN m.buckets[b] :
                   ToCome(m, n, b, i) /\ j = m.buckets[b][i].key
        BY <2>4, <2>5, InKeysAhead
      <4>2. PICK i \in DOMAIN m.buckets[b] :
                   ToCome(m, n, b, i) /\ j = m.buckets[b][i].key
        BY <4>1
      <4> QED BY <1>1, <2>7, <2>8, <4>2, InKeysAhead
    <3>2. ASSUME NEW j \in KeysAhead(m, s), j # k PROVE j \in KeysAhead(m, n)
      <4>1. PICK b \in Bucket : \E i \in DOMAIN m.buckets[b] :
                   ToCome(m, s, b, i) /\ j = m.buckets[b][i].key
        BY <1>1, InKeysAhead
      <4>2. PICK i \in DOMAIN m.buckets[b] :
                   ToCome(m, s, b, i) /\ j = m.buckets[b][i].key
        BY <4>1
      <4> QED BY <2>4, <2>5, <2>7, <2>8, <3>2, <4>2, InKeysAhead
    <3> QED BY <3>1, <3>2
  <2>10. k \in KeysAhead(m, s)
    BY <1>1, <2>0, <2>1, <2>6, InKeysAhead
  <2>11. k \in Key
    BY <2>0, <2>1, <2>6, PairAtType
  <2> QED BY <1>2, <1>3, <1>4, <1>6, <2>4, <2>5, <2>9, <2>10, <2>11 DEF n, k, q
<1> QED BY <1>5, <1>6

\* As many pairs are ahead as keys, and no more than the map has.
LEMMA AheadCard ==
  ASSUME NEW m \in Maps, Linked(m), NEW it \in Iterator, Valid(m, it)
  PROVE  /\ Cardinality(Ahead(m, it)) = Cardinality(KeysAhead(m, it))
         /\ KeysAhead(m, it) \subseteq Present(m)
<1>0. \A p \in Ahead(m, it) :
        \E b \in Bucket : \E i \in 1 .. Len(m.buckets[b]) : p = m.buckets[b][i]
  <2>1. \A p : p \in Ahead(m, it) <=>
          \/ \E i \in 1 .. Len(m.buckets[it.bucket]) :
               /\ i > Len(m.buckets[it.bucket]) - Len(it.pair)
               /\ p = m.buckets[it.bucket][i]
          \/ \E b \in Bucket : \E i \in 1 .. Len(m.buckets[b]) :
               b > it.bucket /\ p = m.buckets[b][i]
    BY InAhead
  <2>2. it.bucket \in Bucket
    BY DEF Iterator
  <2> QED BY <2>1, <2>2
<1>1. KeysAhead(m, it) \subseteq Present(m)
  BY InKeysAhead, InPresent
<1>2. IsFiniteSet(KeysAhead(m, it))
  BY <1>1, EntriesFinite, FS_Subset
<1>3. ASSUME NEW p \in Ahead(m, it), NEW q \in Ahead(m, it), p.key = q.key
      PROVE  p = q
  <2>1. PICK b \in Bucket : \E i \in 1 .. Len(m.buckets[b]) : p = m.buckets[b][i]
    BY <1>0
  <2>2. PICK i \in 1 .. Len(m.buckets[b]) : p = m.buckets[b][i]
    BY <2>1
  <2>3. PICK c \in Bucket : \E j \in 1 .. Len(m.buckets[c]) : q = m.buckets[c][j]
    BY <1>0
  <2>4. PICK j \in 1 .. Len(m.buckets[c]) : q = m.buckets[c][j]
    BY <2>3
  <2>5. i \in DOMAIN m.buckets[b] /\ j \in DOMAIN m.buckets[c]
    <3>1. m.buckets[b] \in Seq(Pair) /\ m.buckets[c] \in Seq(Pair)
      BY DEF Maps
    <3> QED BY <3>1, LenProperties
  <2> QED BY <1>3, <2>2, <2>4, <2>5 DEF Linked
<1> DEFINE f == [p \in Ahead(m, it) |-> p.key]
<1>4. f \in Injection(Ahead(m, it), KeysAhead(m, it))
  <2>1. f \in [Ahead(m, it) -> KeysAhead(m, it)]
    BY DEF KeysAhead
  <2> QED BY <1>3, <2>1 DEF Injection, IsInjective
<1>5. f \in Surjection(Ahead(m, it), KeysAhead(m, it))
  BY DEF Surjection, KeysAhead
<1> HIDE DEF f
<1> QED BY <1>1, <1>2, <1>4, <1>5, FS_Injection

-----------------------------------------------------------------------------
(***************************************************************************)
(* What each critical section of the protocols does to the fields of a     *)
(* monitor: cited below instead of the definitions.                        *)
(***************************************************************************)

\* The fields of a monitor: first the readers', then the writers', then the
\* turn.
Fields(m, ri, rw, rs, wi, ww, ws, c) ==
  /\ m.readers_inside = ri /\ m.readers_waiting = rw /\ m.readers = rs
  /\ m.writers_inside = wi /\ m.writers_waiting = ww /\ m.writers = ws
  /\ m.change = c

\* pthread_cond_signal only removes a sleeper, and does when there is one.
LEMMA SignalWakes ==
  ASSUME NEW q, NEW r \in Signal(q)
  PROVE  r \subseteq q /\ (q # {} => q \ r # {})
BY DEF Signal

\* pthread_cond_wait as a reader, entered and left.
LEMMA ReaderSleepFields ==
  ASSUME NEW m \in Monitor(Thread), NEW t \in Thread
  PROVE  LET n == ReaderSleep(m, t)
         IN  /\ n \in Monitor(Thread)
             /\ Fields(n, m.readers_inside, m.readers_waiting + 1,
                       m.readers \cup {t},
                       m.writers_inside, m.writers_waiting, m.writers,
                       m.change)
<1> DEFINE n == ReaderSleep(m, t)
           p == [m EXCEPT !.readers_waiting = @ + 1]
<1>1. p \in Monitor(Thread) /\ p.readers = m.readers
  BY DEF Monitor
<1>2. n = [p EXCEPT !.readers = m.readers \cup {t}]
  BY DEF ReaderSleep, Monitor
<1> HIDE DEF p
<1>3. n \in Monitor(Thread)
  BY <1>1, <1>2 DEF Monitor
<1> QED
  BY <1>3 DEF ReaderSleep, Monitor, Fields

\* After pthread_cond_wait a reader no longer counts as waiting.
LEMMA ReaderAwakeFields ==
  ASSUME NEW m \in Monitor(Thread), m.readers_waiting > 0
  PROVE  LET n == ReaderAwake(m)
         IN  /\ n \in Monitor(Thread)
             /\ Fields(n, m.readers_inside, m.readers_waiting - 1, m.readers,
                       m.writers_inside, m.writers_waiting, m.writers,
                       m.change)
BY DEF ReaderAwake, Monitor, Fields

\* The same as a writer.
LEMMA WriterSleepFields ==
  ASSUME NEW m \in Monitor(Thread), NEW t \in Thread
  PROVE  LET n == WriterSleep(m, t)
         IN  /\ n \in Monitor(Thread)
             /\ Fields(n, m.readers_inside, m.readers_waiting, m.readers,
                       m.writers_inside, m.writers_waiting + 1,
                       m.writers \cup {t}, m.change)
<1> DEFINE n == WriterSleep(m, t)
           p == [m EXCEPT !.writers_waiting = @ + 1]
<1>1. p \in Monitor(Thread) /\ p.writers = m.writers
  BY DEF Monitor
<1>2. n = [p EXCEPT !.writers = m.writers \cup {t}]
  BY DEF WriterSleep, Monitor
<1> HIDE DEF p
<1>3. n \in Monitor(Thread)
  BY <1>1, <1>2 DEF Monitor
<1> QED
  BY <1>3 DEF WriterSleep, Monitor, Fields

\* After pthread_cond_wait a writer no longer counts as waiting.
LEMMA WriterAwakeFields ==
  ASSUME NEW m \in Monitor(Thread), m.writers_waiting > 0
  PROVE  LET n == WriterAwake(m)
         IN  /\ n \in Monitor(Thread)
             /\ Fields(n, m.readers_inside, m.readers_waiting, m.readers,
                       m.writers_inside, m.writers_waiting - 1, m.writers,
                       m.change)
BY DEF WriterAwake, Monitor, Fields

\* Entering as a reader may wake one more reader, and does when readers sleep
\* and no writer waits.
LEMMA ReaderEnterFields ==
  ASSUME NEW m \in Monitor(Thread), NEW n \in ReaderEnter(m)
  PROVE  \E q \in SUBSET m.readers :
           /\ n \in Monitor(Thread)
           /\ Fields(n, m.readers_inside + 1, m.readers_waiting, q,
                     m.writers_inside, m.writers_waiting, m.writers, m.change)
           /\ m.writers_waiting = 0 /\ m.readers # {} => m.readers \ q # {}
<1>1. PICK q \in SUBSET m.readers :
        /\ n = [m EXCEPT !.readers_inside = @ + 1, !.readers = q]
        /\ m.writers_waiting = 0 /\ m.readers # {} => m.readers \ q # {}
  BY DEF ReaderEnter, Signal
<1> DEFINE p == [m EXCEPT !.readers_inside = @ + 1]
<1>2. p \in Monitor(Thread)
  BY DEF Monitor
<1>3. n = [p EXCEPT !.readers = q]
  BY <1>1 DEF Monitor
<1>4. q \subseteq Thread
  BY <1>1 DEF Monitor
<1> HIDE DEF p
<1>5. n \in Monitor(Thread)
  BY <1>2, <1>3, <1>4 DEF Monitor
<1>6. Fields(n, m.readers_inside + 1, m.readers_waiting, q,
             m.writers_inside, m.writers_waiting, m.writers, m.change)
  BY <1>1 DEF Monitor, Fields
<1> QED
  BY <1>1, <1>5, <1>6

\* Entering as a writer wakes nobody.
LEMMA WriterEnterFields ==
  ASSUME NEW m \in Monitor(Thread), NEW n \in WriterEnter(m)
  PROVE  /\ n \in Monitor(Thread)
         /\ Fields(n, m.readers_inside, m.readers_waiting, m.readers,
                   m.writers_inside + 1, m.writers_waiting, m.writers,
                   m.change)
BY DEF WriterEnter, Monitor, Fields

\* The last reader to leave wakes a writer, if one sleeps.
LEMMA ReaderLeaveFields ==
  ASSUME NEW m \in Monitor(Thread), NEW n \in ReaderLeave(m),
         m.readers_inside > 0
  PROVE  \E q \in SUBSET m.writers :
           /\ n \in Monitor(Thread)
           /\ Fields(n, m.readers_inside - 1, m.readers_waiting, m.readers,
                     m.writers_inside, m.writers_waiting, q, "WRITERS")
           /\ m.readers_inside = 1 /\ m.writers # {} => m.writers \ q # {}
<1>1. PICK q \in SUBSET m.writers :
        /\ n = [m EXCEPT !.readers_inside = @ - 1, !.change = "WRITERS",
                         !.writers = q]
        /\ m.readers_inside = 1 /\ m.writers # {} => m.writers \ q # {}
  BY DEF ReaderLeave, Signal
<1> DEFINE p == [m EXCEPT !.readers_inside = @ - 1]
           r == [p EXCEPT !.change = "WRITERS"]
<1>2. p \in Monitor(Thread)
  BY DEF Monitor
<1>3. r \in Monitor(Thread)
  BY <1>2 DEF Monitor
<1>4. n = [r EXCEPT !.writers = q]
  BY <1>1 DEF Monitor
<1>5. q \subseteq Thread
  BY <1>1 DEF Monitor
<1> HIDE DEF r
<1>6. n \in Monitor(Thread)
  BY <1>3, <1>4, <1>5 DEF Monitor
<1>7. Fields(n, m.readers_inside - 1, m.readers_waiting, m.readers,
             m.writers_inside, m.writers_waiting, q, "WRITERS")
  BY <1>1 DEF Monitor, Fields
<1> QED
  BY <1>1, <1>6, <1>7

\* A writer that leaves wakes a reader when readers wait, else a writer.
LEMMA WriterLeaveFields ==
  ASSUME NEW m \in Monitor(Thread), NEW n \in WriterLeave(m),
         m.writers_inside > 0
  PROVE  \E q \in SUBSET m.readers, w \in SUBSET m.writers :
           /\ n \in Monitor(Thread)
           /\ Fields(n, m.readers_inside, m.readers_waiting, q,
                     m.writers_inside - 1, m.writers_waiting, w, "READERS")
           /\ m.readers_waiting > 0 /\ m.readers # {} => m.readers \ q # {}
           /\ m.readers_waiting = 0 /\ m.writers # {} => m.writers \ w # {}
<1> DEFINE p == [m EXCEPT !.writers_inside = @ - 1]
           r == [p EXCEPT !.change = "READERS"]
<1>1. p \in Monitor(Thread)
  BY DEF Monitor
<1>2. r \in Monitor(Thread)
  BY <1>1 DEF Monitor
<1>3. CASE m.readers_waiting > 0
  <2>1. PICK q \in SUBSET m.readers :
          /\ n = [m EXCEPT !.writers_inside = @ - 1, !.change = "READERS",
                           !.readers = q]
          /\ m.readers # {} => m.readers \ q # {}
    BY <1>3 DEF WriterLeave, Signal
  <2>2. n = [r EXCEPT !.readers = q] /\ q \subseteq Thread
    BY <2>1 DEF Monitor
  <2> HIDE DEF r
  <2>3. n \in Monitor(Thread)
    BY <1>2, <2>2 DEF Monitor
  <2>4. Fields(n, m.readers_inside, m.readers_waiting, q,
               m.writers_inside - 1, m.writers_waiting, m.writers, "READERS")
    BY <2>1 DEF Monitor, Fields
  <2> QED
    BY <1>3, <2>1, <2>3, <2>4
<1>4. CASE ~(m.readers_waiting > 0)
  <2>1. PICK w \in SUBSET m.writers :
          /\ n = [m EXCEPT !.writers_inside = @ - 1, !.change = "READERS",
                           !.writers = w]
          /\ m.writers # {} => m.writers \ w # {}
    BY <1>4 DEF WriterLeave, Signal
  <2>2. n = [r EXCEPT !.writers = w] /\ w \subseteq Thread
    BY <2>1 DEF Monitor
  <2> HIDE DEF r
  <2>3. n \in Monitor(Thread)
    BY <1>2, <2>2 DEF Monitor
  <2>4. Fields(n, m.readers_inside, m.readers_waiting, m.readers,
               m.writers_inside - 1, m.writers_waiting, w, "READERS")
    BY <2>1 DEF Monitor, Fields
  <2> QED
    BY <1>4, <2>1, <2>3, <2>4
<1> QED
  BY <1>3, <1>4

-----------------------------------------------------------------------------
(***************************************************************************)
(* The invariant.                                                          *)
(***************************************************************************)

\* The exclusion in terms of the counters that the waiting conditions read.
CountersExclude ==
  /\ monitor.writers_inside <= 1
  /\ monitor.writers_inside = 1 => monitor.readers_inside = 0

\* The inductive invariant: MutualExclusion speaks of where threads are, the
\* code only of counters, so the two have to be tied together.
MonitorInv == MonitorTypeOK /\ CountersAgree /\ CountersExclude

-----------------------------------------------------------------------------
\* Sets of threads are finite and counted by a natural number.
LEMMA AtFinite ==
  ASSUME NEW s
  PROVE  /\ IsFiniteSet(At(s))
         /\ Cardinality(At(s)) \in Nat
         /\ Cardinality(At(s)) = 0 <=> At(s) = {}
<1>1. At(s) \in SUBSET Thread
  BY DEF At
<1>2. IsFiniteSet(At(s))
  BY <1>1, ThreadAssumption, FS_Subset
<1> QED
  BY <1>2, FS_CardinalityType, FS_EmptySet

\* A thread that moves leaves one set and joins another.
LEMMA AtMove ==
  ASSUME pc \in [Thread -> States], NEW t \in Thread, NEW to \in States,
         Goto(t, to), NEW s \in States
  PROVE  At(s)' = IF s = to THEN At(s) \cup {t} ELSE At(s) \ {t}
BY DEF At, Goto

\* The counts of the sets follow.
LEMMA CountMove ==
  ASSUME pc \in [Thread -> States], NEW t \in Thread, NEW to \in States,
         Goto(t, to), pc[t] # to, NEW s \in States
  PROVE  Cardinality(At(s))' =
           IF s = to THEN Cardinality(At(s)) + 1
           ELSE IF s = pc[t] THEN Cardinality(At(s)) - 1
           ELSE Cardinality(At(s))
<1>1. At(s)' = IF s = to THEN At(s) \cup {t} ELSE At(s) \ {t}
  BY AtMove
<1>2. t \in At(s) <=> s = pc[t]
  BY DEF At
<1>3. IsFiniteSet(At(s))
  BY AtFinite
<1>4. CASE s = to
  BY <1>1, <1>2, <1>3, <1>4, FS_AddElement
<1>5. CASE s # to
  BY <1>1, <1>2, <1>3, <1>5, FS_RemoveElement
<1> QED
  BY <1>4, <1>5

\* A thread that stays where it is changes no set.
LEMMA CountStay ==
  ASSUME pc \in [Thread -> States], NEW t \in Thread, Goto(t, pc[t]),
         NEW s \in States
  PROVE  At(s)' = At(s)
BY DEF At, Goto

\* CountersAgree before a move, in terms of the sets after it.
Moved(from, to, s) ==
  Cardinality(At(s)) + (IF s = to THEN 1 ELSE 0) - (IF s = from THEN 1 ELSE 0)

\* The counters agree after a move of one thread if they changed by as much.
LEMMA Recount ==
  ASSUME MonitorTypeOK, NEW t \in Thread, NEW to \in States, Goto(t, to)
  PROVE  /\ Cardinality(At("reading"))' = Moved(pc[t], to, "reading")
         /\ Cardinality(At("writing"))' = Moved(pc[t], to, "writing")
         /\ Cardinality(At("waitRead"))' = Moved(pc[t], to, "waitRead")
         /\ Cardinality(At("waitWrite"))' = Moved(pc[t], to, "waitWrite")
         /\ \A s \in States : Cardinality(At(s)) \in Nat
<1>1. \A s \in States : Cardinality(At(s)) \in Nat
  BY AtFinite
<1>2. ASSUME NEW s \in States
      PROVE  Cardinality(At(s))' = Moved(pc[t], to, s)
  <2>1. CASE pc[t] = to
    BY <1>1, <2>1, CountStay DEF MonitorTypeOK, Moved
  <2>2. CASE pc[t] # to
    BY <1>1, <2>2, CountMove DEF MonitorTypeOK, Moved
  <2> QED
    BY <2>1, <2>2
<1>3. {"reading", "writing", "waitRead", "waitWrite"} \subseteq States
  BY DEF States
<1> QED
  BY <1>1, <1>2, <1>3

-----------------------------------------------------------------------------
\* The invariant holds at the start, and every action preserves it.
LEMMA InitInv == MonitorInit => MonitorInv
<1> SUFFICES ASSUME MonitorInit PROVE MonitorInv
  OBVIOUS
<1>1. MonitorTypeOK
  BY DEF MonitorInit, NewMonitor, MonitorTypeOK, Monitor, States
<1>2. \A s \in States \ {"idle"} : At(s) = {}
  BY DEF MonitorInit, At, States
<1>3. CountersAgree
  BY <1>2, FS_EmptySet DEF MonitorInit, NewMonitor, CountersAgree, States
<1>4. CountersExclude
  BY DEF MonitorInit, NewMonitor, CountersExclude
<1> QED
  BY <1>1, <1>3, <1>4 DEF MonitorInv

\* A reader that is in its loop, on the monitor m that it sees there: it has
\* just arrived, or it has just stopped waiting.
LEMMA ReaderLoopInv ==
  ASSUME MonitorInv, NEW t \in Thread, NEW m \in Monitor(Thread),
         Fields(m, monitor.readers_inside, m.readers_waiting, monitor.readers,
                monitor.writers_inside, monitor.writers_waiting,
                monitor.writers, monitor.change),
         \/ pc[t] = "idle" /\ m.readers_waiting = monitor.readers_waiting
         \/ pc[t] = "waitRead" /\ m.readers_waiting = monitor.readers_waiting - 1
            /\ t \notin monitor.readers,
         ReaderLoop(t, m)
  PROVE  MonitorInv'
<1> USE DEF MonitorInv, MonitorTypeOK, States, Fields
<1>1. CASE ReaderMustWait(m) /\ monitor' = ReaderSleep(m, t)
             /\ Goto(t, "waitRead")
  <2>1. /\ monitor' \in Monitor(Thread)
        /\ Fields(monitor', m.readers_inside, m.readers_waiting + 1,
                  m.readers \cup {t},
                  m.writers_inside, m.writers_waiting, m.writers, m.change)
    BY <1>1, ReaderSleepFields
  <2>2. MonitorTypeOK'
    BY <1>1, <2>1 DEF Goto
  <2>3. CountersAgree'
    <3>1. /\ monitor'.readers_inside  = Cardinality(At("reading"))'
          /\ monitor'.writers_inside  = Cardinality(At("writing"))'
          /\ monitor'.readers_waiting = Cardinality(At("waitRead"))'
          /\ monitor'.writers_waiting = Cardinality(At("waitWrite"))'
      BY <1>1, <2>1, Recount DEF CountersAgree, Moved
    <3>2. /\ monitor'.readers \subseteq At("waitRead")'
          /\ monitor'.writers \subseteq At("waitWrite")'
      BY <1>1, <2>1 DEF CountersAgree, At, Goto
    <3> QED
      BY <3>1, <3>2 DEF CountersAgree
  <2>4. CountersExclude'
    BY <2>1 DEF CountersExclude
  <2> QED
    BY <2>2, <2>3, <2>4
<1>2. CASE ~ReaderMustWait(m) /\ monitor' \in ReaderEnter(m)
             /\ Goto(t, "reading")
  <2>1. PICK q \in SUBSET m.readers :
          /\ monitor' \in Monitor(Thread)
          /\ Fields(monitor', m.readers_inside + 1, m.readers_waiting, q,
                    m.writers_inside, m.writers_waiting, m.writers, m.change)
    BY <1>2, ReaderEnterFields
  <2>2. MonitorTypeOK'
    BY <1>2, <2>1 DEF Goto
  <2>3. CountersAgree'
    <3>1. /\ monitor'.readers_inside  = Cardinality(At("reading"))'
          /\ monitor'.writers_inside  = Cardinality(At("writing"))'
          /\ monitor'.readers_waiting = Cardinality(At("waitRead"))'
          /\ monitor'.writers_waiting = Cardinality(At("waitWrite"))'
      BY <1>2, <2>1, Recount DEF CountersAgree, Moved
    <3>2. /\ monitor'.readers \subseteq At("waitRead")'
          /\ monitor'.writers \subseteq At("waitWrite")'
      BY <1>2, <2>1 DEF CountersAgree, At, Goto
    <3> QED
      BY <3>1, <3>2 DEF CountersAgree
  <2>4. CountersExclude'
    BY <1>2, <2>1 DEF ReaderMustWait, CountersExclude, Monitor
  <2> QED
    BY <2>2, <2>3, <2>4
<1> QED
  BY <1>1, <1>2 DEF ReaderLoop

\* The same for a writer.
LEMMA WriterLoopInv ==
  ASSUME MonitorInv, NEW t \in Thread, NEW m \in Monitor(Thread),
         Fields(m, monitor.readers_inside, monitor.readers_waiting,
                monitor.readers, monitor.writers_inside, m.writers_waiting,
                monitor.writers, monitor.change),
         \/ pc[t] = "idle" /\ m.writers_waiting = monitor.writers_waiting
         \/ pc[t] = "waitWrite" /\ m.writers_waiting = monitor.writers_waiting - 1
            /\ t \notin monitor.writers,
         WriterLoop(t, m)
  PROVE  MonitorInv'
<1> USE DEF MonitorInv, MonitorTypeOK, States, Fields
<1>1. CASE WriterMustWait(m) /\ monitor' = WriterSleep(m, t)
             /\ Goto(t, "waitWrite")
  <2>1. /\ monitor' \in Monitor(Thread)
        /\ Fields(monitor', m.readers_inside, m.readers_waiting, m.readers,
                  m.writers_inside, m.writers_waiting + 1,
                  m.writers \cup {t}, m.change)
    BY <1>1, WriterSleepFields
  <2>2. MonitorTypeOK'
    BY <1>1, <2>1 DEF Goto
  <2>3. CountersAgree'
    <3>1. /\ monitor'.readers_inside  = Cardinality(At("reading"))'
          /\ monitor'.writers_inside  = Cardinality(At("writing"))'
          /\ monitor'.readers_waiting = Cardinality(At("waitRead"))'
          /\ monitor'.writers_waiting = Cardinality(At("waitWrite"))'
      BY <1>1, <2>1, Recount DEF CountersAgree, Moved
    <3>2. /\ monitor'.readers \subseteq At("waitRead")'
          /\ monitor'.writers \subseteq At("waitWrite")'
      BY <1>1, <2>1 DEF CountersAgree, At, Goto
    <3> QED
      BY <3>1, <3>2 DEF CountersAgree
  <2>4. CountersExclude'
    BY <2>1 DEF CountersExclude
  <2> QED
    BY <2>2, <2>3, <2>4
<1>2. CASE ~WriterMustWait(m) /\ monitor' \in WriterEnter(m)
             /\ Goto(t, "writing")
  <2>1. /\ monitor' \in Monitor(Thread)
        /\ Fields(monitor', m.readers_inside, m.readers_waiting, m.readers,
                  m.writers_inside + 1, m.writers_waiting, m.writers,
                  m.change)
    BY <1>2, WriterEnterFields
  <2>2. MonitorTypeOK'
    BY <1>2, <2>1 DEF Goto
  <2>3. CountersAgree'
    <3>1. /\ monitor'.readers_inside  = Cardinality(At("reading"))'
          /\ monitor'.writers_inside  = Cardinality(At("writing"))'
          /\ monitor'.readers_waiting = Cardinality(At("waitRead"))'
          /\ monitor'.writers_waiting = Cardinality(At("waitWrite"))'
      BY <1>2, <2>1, Recount DEF CountersAgree, Moved
    <3>2. /\ monitor'.readers \subseteq At("waitRead")'
          /\ monitor'.writers \subseteq At("waitWrite")'
      BY <1>2, <2>1 DEF CountersAgree, At, Goto
    <3> QED
      BY <3>1, <3>2 DEF CountersAgree
  <2>4. CountersExclude'
    BY <1>2, <2>1 DEF WriterMustWait, CountersExclude, Monitor
  <2> QED
    BY <2>2, <2>3, <2>4
<1> QED
  BY <1>1, <1>2 DEF WriterLoop

\* A thread that is inside was counted there.
LEMMA InsideCounted ==
  ASSUME MonitorInv, NEW t \in Thread
  PROVE  /\ pc[t] = "reading" => monitor.readers_inside > 0
         /\ pc[t] = "writing" => monitor.writers_inside > 0
         /\ pc[t] = "waitRead" => monitor.readers_waiting > 0
         /\ pc[t] = "waitWrite" => monitor.writers_waiting > 0
<1>1. \A s \in States : pc[t] = s => At(s) # {}
  BY DEF At
<1>2. \A s \in States : Cardinality(At(s)) = 0 <=> At(s) = {}
  BY AtFinite
<1>3. \A s \in States : Cardinality(At(s)) \in Nat
  BY AtFinite
<1> QED
  BY <1>1, <1>2, <1>3 DEF MonitorInv, CountersAgree, States

\* map_reader_final_protocol keeps the invariant.
LEMMA EndReadInv ==
  ASSUME MonitorInv, NEW t \in Thread, EndRead(t)
  PROVE  MonitorInv'
<1> USE DEF MonitorInv, MonitorTypeOK, States, Fields
<1>1. PICK q \in SUBSET monitor.writers :
        /\ monitor' \in Monitor(Thread)
        /\ Fields(monitor', monitor.readers_inside - 1,
                  monitor.readers_waiting, monitor.readers,
                  monitor.writers_inside, monitor.writers_waiting, q,
                  "WRITERS")
  BY InsideCounted, ReaderLeaveFields DEF EndRead
<1>2. MonitorTypeOK'
  BY <1>1 DEF EndRead, Goto
<1>3. /\ monitor'.readers_inside  = Cardinality(At("reading"))'
      /\ monitor'.writers_inside  = Cardinality(At("writing"))'
      /\ monitor'.readers_waiting = Cardinality(At("waitRead"))'
      /\ monitor'.writers_waiting = Cardinality(At("waitWrite"))'
  BY <1>1, Recount DEF EndRead, CountersAgree, Moved
<1>4. /\ monitor'.readers \subseteq At("waitRead")'
      /\ monitor'.writers \subseteq At("waitWrite")'
  BY <1>1 DEF EndRead, CountersAgree, At, Goto
<1>5. CountersExclude'
  BY <1>1, InsideCounted DEF EndRead, CountersExclude, Monitor
<1> QED
  BY <1>2, <1>3, <1>4, <1>5 DEF CountersAgree

\* map_writer_final_protocol keeps the invariant.
LEMMA EndWriteInv ==
  ASSUME MonitorInv, NEW t \in Thread, EndWrite(t)
  PROVE  MonitorInv'
<1> USE DEF MonitorInv, MonitorTypeOK, States, Fields
<1>1. PICK q \in SUBSET monitor.readers, w \in SUBSET monitor.writers :
        /\ monitor' \in Monitor(Thread)
        /\ Fields(monitor', monitor.readers_inside,
                  monitor.readers_waiting, q,
                  monitor.writers_inside - 1, monitor.writers_waiting, w,
                  "READERS")
  BY InsideCounted, WriterLeaveFields DEF EndWrite
<1>2. MonitorTypeOK'
  BY <1>1 DEF EndWrite, Goto
<1>3. /\ monitor'.readers_inside  = Cardinality(At("reading"))'
      /\ monitor'.writers_inside  = Cardinality(At("writing"))'
      /\ monitor'.readers_waiting = Cardinality(At("waitRead"))'
      /\ monitor'.writers_waiting = Cardinality(At("waitWrite"))'
  BY <1>1, Recount DEF EndWrite, CountersAgree, Moved
<1>4. /\ monitor'.readers \subseteq At("waitRead")'
      /\ monitor'.writers \subseteq At("waitWrite")'
  BY <1>1 DEF EndWrite, CountersAgree, At, Goto
<1>5. CountersExclude'
  BY <1>1, InsideCounted DEF EndWrite, CountersExclude, Monitor
<1> QED
  BY <1>2, <1>3, <1>4, <1>5 DEF CountersAgree

\* A thread woken for no reason leaves its condition variable, nothing else.
LEMMA SpuriousFields ==
  ASSUME monitor \in Monitor(Thread), NEW t \in Thread, SpuriousWakeup(t)
  PROVE  /\ monitor' \in Monitor(Thread)
         /\ Fields(monitor', monitor.readers_inside, monitor.readers_waiting,
                   monitor.readers \ {t},
                   monitor.writers_inside, monitor.writers_waiting,
                   monitor.writers \ {t}, monitor.change)
<1> DEFINE p == [monitor EXCEPT !.readers = @ \ {t}]
<1>1. p \in Monitor(Thread) /\ p.writers = monitor.writers
  BY DEF Monitor
<1>2. monitor' = [p EXCEPT !.writers = monitor.writers \ {t}]
  BY DEF SpuriousWakeup, Monitor
<1> HIDE DEF p
<1>3. monitor' \in Monitor(Thread)
  BY <1>1, <1>2 DEF Monitor
<1> QED
  BY <1>3 DEF SpuriousWakeup, Monitor, Fields

\* Every step of the monitor keeps the invariant.
LEMMA NextInv == MonitorInv /\ [MonitorNext]_mvars => MonitorInv'
<1> SUFFICES ASSUME MonitorInv, [MonitorNext]_mvars PROVE MonitorInv'
  OBVIOUS
<1>0. monitor \in Monitor(Thread) /\ pc \in [Thread -> States]
  BY DEF MonitorInv, MonitorTypeOK
<1>1. ASSUME NEW t \in Thread, StartRead(t) PROVE MonitorInv'
  BY <1>0, <1>1, ReaderLoopInv DEF StartRead, Fields
<1>2. ASSUME NEW t \in Thread, ResumeRead(t) PROVE MonitorInv'
  <2>1. /\ ReaderAwake(monitor) \in Monitor(Thread)
        /\ Fields(ReaderAwake(monitor), monitor.readers_inside,
                  monitor.readers_waiting - 1, monitor.readers,
                  monitor.writers_inside, monitor.writers_waiting,
                  monitor.writers, monitor.change)
    BY <1>0, <1>2, InsideCounted, ReaderAwakeFields DEF ResumeRead
  <2> QED
    BY <1>2, <2>1, ReaderLoopInv DEF ResumeRead, Fields
<1>3. ASSUME NEW t \in Thread, StartWrite(t) PROVE MonitorInv'
  BY <1>0, <1>3, WriterLoopInv DEF StartWrite, Fields
<1>4. ASSUME NEW t \in Thread, ResumeWrite(t) PROVE MonitorInv'
  <2>1. /\ WriterAwake(monitor) \in Monitor(Thread)
        /\ Fields(WriterAwake(monitor), monitor.readers_inside,
                  monitor.readers_waiting, monitor.readers,
                  monitor.writers_inside, monitor.writers_waiting - 1,
                  monitor.writers, monitor.change)
    BY <1>0, <1>4, InsideCounted, WriterAwakeFields DEF ResumeWrite
  <2> QED
    BY <1>4, <2>1, WriterLoopInv DEF ResumeWrite, Fields
<1>5. ASSUME NEW t \in Thread, EndRead(t) PROVE MonitorInv'
  BY <1>5, EndReadInv
<1>6. ASSUME NEW t \in Thread, EndWrite(t) PROVE MonitorInv'
  BY <1>6, EndWriteInv
<1>7. ASSUME NEW t \in Thread, SpuriousWakeup(t) PROVE MonitorInv'
  BY <1>0, <1>7, SpuriousFields
     DEF SpuriousWakeup, MonitorInv, MonitorTypeOK, CountersAgree, At,
         CountersExclude, Fields
<1>8. CASE UNCHANGED mvars
  BY <1>8 DEF mvars, MonitorInv, MonitorTypeOK, CountersAgree, At,
              CountersExclude
<1> QED
  BY <1>1, <1>2, <1>3, <1>4, <1>5, <1>6, <1>7, <1>8 DEF MonitorNext

-----------------------------------------------------------------------------
\* In every reachable state the invariant holds.
THEOREM Invariance == MonitorSpec => []MonitorInv
BY InitInv, NextInv, PTL DEF MonitorSpec

\* The types of the state, and the counters of SafeHashMap.c being exact.
THEOREM TypesAndCounters ==
  MonitorSpec => [](MonitorTypeOK /\ CountersAgree)
BY Invariance, PTL DEF MonitorInv

\* The counters exclude, and they count the threads: so the threads exclude.
LEMMA InvExcludes == MonitorInv => MutualExclusion
<1> SUFFICES ASSUME MonitorInv, NEW t \in Thread, NEW u \in Thread,
                    pc[t] = "writing", u # t
             PROVE  pc[u] \notin {"reading", "writing"}
  BY DEF MutualExclusion
<1>1. monitor.writers_inside = 1 /\ monitor.readers_inside = 0
  BY InsideCounted DEF MonitorInv, CountersExclude, MonitorTypeOK, Monitor
<1>2. pc[u] # "reading"
  BY <1>1, InsideCounted
<1>3. Cardinality(At("writing")) = 1 /\ IsFiniteSet(At("writing"))
  BY <1>1, AtFinite DEF MonitorInv, CountersAgree
<1>4. PICK x : At("writing") = {x}
  BY <1>3, FS_Singleton
<1>5. pc[u] # "writing"
  BY <1>4 DEF At
<1> QED
  BY <1>2, <1>5

\* A writer inside a map is alone there.
THEOREM Exclusion == MonitorSpec => []MutualExclusion
BY Invariance, InvExcludes, PTL

-----------------------------------------------------------------------------
(***************************************************************************)
(* No wake-up is lost.  The two properties need each other: the last       *)
(* reader to leave signals writers only, so when no writer is there a      *)
(* reader must be awake already (Share); and Share is kept because every   *)
(* reader that enters without a writer waiting wakes the next one.  Both   *)
(* are stated here on the counters, which is what the code tests.          *)
(***************************************************************************)
AwakeReader == \E u \in At("waitRead") : u \notin monitor.readers
AwakeWriter == \E u \in At("waitWrite") : u \notin monitor.writers

Handover ==
  /\ monitor.readers_inside = 0 /\ monitor.writers_inside = 0
  /\ monitor.readers # {} \/ monitor.writers # {}
  => \/ AwakeReader /\ ~ReaderMustWait(monitor)
     \/ AwakeWriter /\ ~WriterMustWait(monitor)

Share ==
  /\ monitor.readers # {}
  /\ monitor.writers_inside = 0 /\ monitor.writers_waiting = 0
  => AwakeReader

WakeInv == MonitorInv /\ Handover /\ Share

\* The counters are zero exactly when nobody is there.
LEMMA CountZero ==
  ASSUME MonitorInv
  PROVE  /\ monitor.readers_inside = 0 <=> At("reading") = {}
         /\ monitor.writers_inside = 0 <=> At("writing") = {}
         /\ monitor.readers_waiting = 0 <=> At("waitRead") = {}
         /\ monitor.writers_waiting = 0 <=> At("waitWrite") = {}
BY AtFinite DEF MonitorInv, CountersAgree

\* Where the threads are after a move.
LEMMA AtAfter ==
  ASSUME MonitorTypeOK, NEW t \in Thread, NEW to \in States, Goto(t, to)
  PROVE  \A s \in States, u \in Thread :
           u \in At(s)' <=> IF u = t THEN s = to ELSE u \in At(s)
BY DEF MonitorTypeOK, At, Goto

\* A reader in its loop keeps the hand-over.
LEMMA ReaderLoopWake ==
  ASSUME WakeInv, NEW t \in Thread, NEW m \in Monitor(Thread),
         Fields(m, monitor.readers_inside, m.readers_waiting, monitor.readers,
                monitor.writers_inside, monitor.writers_waiting,
                monitor.writers, monitor.change),
         \/ pc[t] = "idle" /\ m.readers_waiting = monitor.readers_waiting
         \/ pc[t] = "waitRead" /\ m.readers_waiting = monitor.readers_waiting - 1
            /\ t \notin monitor.readers,
         ReaderLoop(t, m)
  PROVE  Handover' /\ Share'
<1> USE DEF Fields
<1>0. /\ MonitorTypeOK /\ CountersAgree
      /\ monitor.readers_inside \in Nat /\ monitor.readers_waiting \in Nat
      /\ monitor.writers_inside \in Nat /\ monitor.writers_waiting \in Nat
      /\ monitor.change \in {"READERS", "WRITERS"}
  BY DEF WakeInv, MonitorInv, MonitorTypeOK, Monitor
<1>1. CASE ReaderMustWait(m) /\ monitor' = ReaderSleep(m, t)
             /\ Goto(t, "waitRead")
  <2>1. Fields(monitor', m.readers_inside, m.readers_waiting + 1,
               m.readers \cup {t},
               m.writers_inside, m.writers_waiting, m.writers, m.change)
    BY <1>1, ReaderSleepFields
  <2>2. \A u \in Thread : u \in At("waitWrite")' <=> u \in At("waitWrite")
    BY <1>0, <1>1, AtAfter DEF States, At
  <2>3. Share'
    BY <1>0, <1>1, <2>1 DEF ReaderMustWait, Share
  <2>4. Handover'
    <3>1. SUFFICES ASSUME monitor'.readers_inside = 0,
                          monitor'.writers_inside = 0
                   PROVE  AwakeWriter' /\ ~WriterMustWait(monitor)'
      BY DEF Handover
    <3>2. monitor.writers_waiting > 0 /\ monitor.change = "WRITERS"
      BY <1>1, <2>1, <3>1, <1>0 DEF ReaderMustWait
    <3>3. ~WriterMustWait(monitor)'
      BY <2>1, <3>1, <3>2 DEF WriterMustWait
    <3>4. AwakeWriter
      <4>1. PICK u \in At("waitWrite") : TRUE
        BY <3>2, <1>0, CountZero DEF WakeInv
      <4> QED
        BY <4>1, <2>1, <3>1, <3>2 DEF WakeInv, Handover, ReaderMustWait, AwakeWriter
    <3>5. AwakeWriter'
      BY <2>1, <2>2, <3>4 DEF AwakeWriter, At
    <3> QED
      BY <3>3, <3>5
  <2> QED
    BY <2>3, <2>4
<1>2. CASE ~ReaderMustWait(m) /\ monitor' \in ReaderEnter(m)
             /\ Goto(t, "reading")
  <2>1. PICK q \in SUBSET m.readers :
          /\ Fields(monitor', m.readers_inside + 1, m.readers_waiting, q,
                    m.writers_inside, m.writers_waiting, m.writers, m.change)
          /\ m.writers_waiting = 0 /\ m.readers # {} => m.readers \ q # {}
    BY <1>2, ReaderEnterFields
  <2>2. Handover'
    BY <1>0, <2>1 DEF Handover
  <2>3. Share'
    <3>1. SUFFICES ASSUME monitor'.readers # {}, monitor'.writers_waiting = 0
                   PROVE  AwakeReader'
      BY DEF Share
    <3>2. PICK u \in monitor.readers : u \notin q
      BY <2>1, <3>1
    <3>3. u \in At("waitRead") /\ u # t /\ u \in Thread
      BY <1>0, <3>2 DEF CountersAgree, At
    <3>4. u \in At("waitRead")'
      BY <1>0, <1>2, <3>3, AtAfter DEF States
    <3> QED
      BY <2>1, <3>2, <3>4 DEF AwakeReader
  <2> QED
    BY <2>2, <2>3
<1> QED
  BY <1>1, <1>2 DEF ReaderLoop

\* A writer in its loop keeps it: it goes to sleep in an empty map only to
\* let a reader pass that is awake.
LEMMA WriterLoopWake ==
  ASSUME WakeInv, NEW t \in Thread, NEW m \in Monitor(Thread),
         Fields(m, monitor.readers_inside, monitor.readers_waiting,
                monitor.readers, monitor.writers_inside, m.writers_waiting,
                monitor.writers, monitor.change),
         \/ pc[t] = "idle" /\ m.writers_waiting = monitor.writers_waiting
         \/ pc[t] = "waitWrite" /\ m.writers_waiting = monitor.writers_waiting - 1
            /\ t \notin monitor.writers,
         WriterLoop(t, m)
  PROVE  Handover' /\ Share'
<1> USE DEF Fields
<1>0. /\ MonitorTypeOK /\ CountersAgree
      /\ monitor.readers_inside \in Nat /\ monitor.readers_waiting \in Nat
      /\ monitor.writers_inside \in Nat /\ m.writers_waiting \in Nat
      /\ monitor.change \in {"READERS", "WRITERS"}
  BY DEF WakeInv, MonitorInv, MonitorTypeOK, Monitor
<1>1. CASE WriterMustWait(m) /\ monitor' = WriterSleep(m, t)
             /\ Goto(t, "waitWrite")
  <2>1. Fields(monitor', m.readers_inside, m.readers_waiting, m.readers,
               m.writers_inside, m.writers_waiting + 1,
               m.writers \cup {t}, m.change)
    BY <1>1, WriterSleepFields
  <2>2. \A u \in Thread : u \in At("waitRead")' <=> u \in At("waitRead")
    BY <1>0, <1>1, AtAfter DEF States, At
  <2>3. Share'
    BY <1>0, <2>1 DEF Share
  <2>4. Handover'
    <3>1. SUFFICES ASSUME monitor'.readers_inside = 0,
                          monitor'.writers_inside = 0
                   PROVE  AwakeReader' /\ ~ReaderMustWait(monitor)'
      BY DEF Handover
    <3>2. monitor.readers_waiting > 0 /\ monitor.change = "READERS"
      BY <1>1, <2>1, <3>1, <1>0 DEF WriterMustWait
    <3>3. ~ReaderMustWait(monitor)'
      BY <2>1, <3>1, <3>2 DEF ReaderMustWait
    <3>4. AwakeReader
      <4>1. PICK u \in At("waitRead") : TRUE
        BY <3>2, <1>0, CountZero DEF WakeInv
      <4> QED
        BY <4>1, <2>1, <3>1, <3>2 DEF WakeInv, Handover, WriterMustWait, AwakeReader
    <3>5. AwakeReader'
      BY <2>1, <2>2, <3>4 DEF AwakeReader, At
    <3> QED
      BY <3>3, <3>5
  <2> QED
    BY <2>3, <2>4
<1>2. CASE ~WriterMustWait(m) /\ monitor' \in WriterEnter(m)
             /\ Goto(t, "writing")
  <2>1. Fields(monitor', m.readers_inside, m.readers_waiting, m.readers,
               m.writers_inside + 1, m.writers_waiting, m.writers, m.change)
    BY <1>2, WriterEnterFields
  <2> QED
    BY <1>0, <2>1 DEF Handover, Share
<1> QED
  BY <1>1, <1>2 DEF WriterLoop

\* The last reader to leave hands over to a writer, or, when there is none,
\* leaves it to the reader that Share says is awake.
LEMMA EndReadWake ==
  ASSUME WakeInv, NEW t \in Thread, EndRead(t)
  PROVE  Handover' /\ Share'
<1> USE DEF Fields
<1>0. /\ MonitorTypeOK /\ CountersAgree /\ monitor \in Monitor(Thread)
      /\ monitor.readers_inside \in Nat \ {0} /\ monitor.writers_inside = 0
      /\ monitor.writers_waiting \in Nat
  BY InsideCounted
     DEF WakeInv, MonitorInv, MonitorTypeOK, Monitor, CountersExclude, EndRead
<1>1. PICK q \in SUBSET monitor.writers :
        /\ Fields(monitor', monitor.readers_inside - 1,
                  monitor.readers_waiting, monitor.readers,
                  monitor.writers_inside, monitor.writers_waiting, q,
                  "WRITERS")
        /\ monitor.readers_inside = 1 /\ monitor.writers # {}
             => monitor.writers \ q # {}
  BY <1>0, ReaderLeaveFields DEF EndRead
<1>2. /\ \A u \in Thread : u \in At("waitRead")' <=> u \in At("waitRead")
      /\ \A u \in Thread : u \in At("waitWrite")' <=> u \in At("waitWrite")
  BY <1>0, AtAfter DEF EndRead, States, At
<1>3. Share'
  BY <1>0, <1>1, <1>2 DEF WakeInv, Share, AwakeReader, At
<1>4. Handover'
  <2>1. SUFFICES ASSUME monitor'.readers_inside = 0,
                        monitor'.readers # {} \/ monitor'.writers # {}
                 PROVE  \/ AwakeReader' /\ ~ReaderMustWait(monitor)'
                        \/ AwakeWriter' /\ ~WriterMustWait(monitor)'
    BY DEF Handover
  <2>2. monitor.readers_inside = 1
    BY <1>0, <1>1, <2>1
  <2>3. CASE monitor.writers_waiting = 0
    <3>1. monitor.writers = {}
      BY <2>3, CountZero, <1>0 DEF WakeInv, CountersAgree
    <3> QED
      BY <1>0, <1>1, <1>2, <2>1, <2>3, <3>1
         DEF WakeInv, Share, AwakeReader, At, ReaderMustWait
  <2>4. CASE monitor.writers_waiting > 0
    <3>1. PICK u \in At("waitWrite") : u \notin q
      BY <1>0, <1>1, <2>2, <2>4, CountZero DEF WakeInv, CountersAgree
    <3> QED
      BY <1>0, <1>1, <1>2, <2>1, <3>1 DEF AwakeWriter, At, WriterMustWait
  <2> QED
    BY <1>0, <2>3, <2>4
<1> QED
  BY <1>3, <1>4

\* A writer that leaves hands over to a reader if one waits, else a writer.
LEMMA EndWriteWake ==
  ASSUME WakeInv, NEW t \in Thread, EndWrite(t)
  PROVE  Handover' /\ Share'
<1> USE DEF Fields
<1>0. /\ MonitorTypeOK /\ CountersAgree /\ monitor \in Monitor(Thread)
      /\ monitor.readers_inside = 0 /\ monitor.writers_inside = 1
      /\ monitor.writers_waiting \in Nat /\ monitor.readers_waiting \in Nat
  BY InsideCounted
     DEF WakeInv, MonitorInv, MonitorTypeOK, Monitor, CountersExclude, EndWrite
<1>1. PICK q \in SUBSET monitor.readers, w \in SUBSET monitor.writers :
        /\ Fields(monitor', monitor.readers_inside,
                  monitor.readers_waiting, q,
                  monitor.writers_inside - 1, monitor.writers_waiting, w,
                  "READERS")
        /\ monitor.readers_waiting > 0 /\ monitor.readers # {}
             => monitor.readers \ q # {}
        /\ monitor.readers_waiting = 0 /\ monitor.writers # {}
             => monitor.writers \ w # {}
  BY <1>0, WriterLeaveFields DEF EndWrite
<1>2. /\ \A u \in Thread : u \in At("waitRead")' <=> u \in At("waitRead")
      /\ \A u \in Thread : u \in At("waitWrite")' <=> u \in At("waitWrite")
  BY <1>0, AtAfter DEF EndWrite, States, At
<1>3. CASE monitor.readers_waiting > 0
  <2>1. PICK u \in At("waitRead") : u \notin q
    BY <1>0, <1>1, <1>3, CountZero DEF WakeInv, CountersAgree
  <2> QED
    BY <1>0, <1>1, <1>2, <2>1
       DEF Handover, Share, AwakeReader, At, ReaderMustWait
<1>4. CASE monitor.readers_waiting = 0
  <2>1. monitor.readers = {}
    BY <1>4, <1>0, CountZero DEF WakeInv, CountersAgree
  <2>2. Share'
    BY <1>1, <2>1 DEF Share
  <2>3. ASSUME monitor'.writers # {} PROVE AwakeWriter'
    BY <1>0, <1>1, <1>2, <1>4, <2>3 DEF CountersAgree, AwakeWriter, At
  <2> QED
    BY <1>0, <1>1, <1>4, <2>1, <2>2, <2>3 DEF Handover, WriterMustWait
<1> QED
  BY <1>0, <1>3, <1>4

\* Every step keeps the hand-over.
LEMMA NextWake == WakeInv /\ [MonitorNext]_mvars => WakeInv'
<1> SUFFICES ASSUME WakeInv, [MonitorNext]_mvars PROVE WakeInv'
  OBVIOUS
<1>0. MonitorInv /\ monitor \in Monitor(Thread)
  BY DEF WakeInv, MonitorInv, MonitorTypeOK
<1>1. MonitorInv'
  BY <1>0, NextInv
<1>2. ASSUME NEW t \in Thread, StartRead(t) PROVE Handover' /\ Share'
  BY <1>0, <1>2, ReaderLoopWake DEF StartRead, Fields
<1>3. ASSUME NEW t \in Thread, ResumeRead(t) PROVE Handover' /\ Share'
  <2>1. /\ ReaderAwake(monitor) \in Monitor(Thread)
        /\ Fields(ReaderAwake(monitor), monitor.readers_inside,
                  monitor.readers_waiting - 1, monitor.readers,
                  monitor.writers_inside, monitor.writers_waiting,
                  monitor.writers, monitor.change)
    BY <1>0, <1>3, InsideCounted, ReaderAwakeFields DEF ResumeRead
  <2> QED
    BY <1>3, <2>1, ReaderLoopWake DEF ResumeRead, Fields
<1>4. ASSUME NEW t \in Thread, StartWrite(t) PROVE Handover' /\ Share'
  BY <1>0, <1>4, WriterLoopWake DEF StartWrite, Fields
<1>5. ASSUME NEW t \in Thread, ResumeWrite(t) PROVE Handover' /\ Share'
  <2>1. /\ WriterAwake(monitor) \in Monitor(Thread)
        /\ Fields(WriterAwake(monitor), monitor.readers_inside,
                  monitor.readers_waiting, monitor.readers,
                  monitor.writers_inside, monitor.writers_waiting - 1,
                  monitor.writers, monitor.change)
    BY <1>0, <1>5, InsideCounted, WriterAwakeFields DEF ResumeWrite
  <2> QED
    BY <1>5, <2>1, WriterLoopWake DEF ResumeWrite, Fields
<1>6. ASSUME NEW t \in Thread, EndRead(t) PROVE Handover' /\ Share'
  BY <1>6, EndReadWake
<1>7. ASSUME NEW t \in Thread, EndWrite(t) PROVE Handover' /\ Share'
  BY <1>7, EndWriteWake
<1>8. ASSUME NEW t \in Thread, SpuriousWakeup(t) PROVE Handover' /\ Share'
  BY <1>0, <1>8, SpuriousFields
     DEF SpuriousWakeup, WakeInv, Handover, Share, AwakeReader, AwakeWriter,
         ReaderMustWait, WriterMustWait, At, Fields
<1>9. ASSUME UNCHANGED mvars PROVE Handover' /\ Share'
  BY <1>9 DEF mvars, WakeInv, Handover, Share, AwakeReader, AwakeWriter,
              ReaderMustWait, WriterMustWait, At
<1>10. Handover' /\ Share'
  BY <1>2, <1>3, <1>4, <1>5, <1>6, <1>7, <1>8, <1>9 DEF MonitorNext
<1> QED
  BY <1>1, <1>10 DEF WakeInv

\* In terms of threads, as MapMonitor states it: the thread that is awake can
\* enter, for waiting itself is not what makes it wait.
LEMMA WakeMeans == WakeInv => NoLostWakeup
<1> SUFFICES ASSUME WakeInv PROVE NoLostWakeup
  OBVIOUS
<1>0. MonitorInv /\ monitor \in Monitor(Thread)
  BY DEF WakeInv, MonitorInv, MonitorTypeOK
<1>1. /\ ReaderMustWait(ReaderAwake(monitor)) <=> ReaderMustWait(monitor)
      /\ WriterMustWait(WriterAwake(monitor)) <=> WriterMustWait(monitor)
  BY <1>0 DEF ReaderAwake, WriterAwake, ReaderMustWait, WriterMustWait, Monitor
<1>2. EmptyIsOpen
  BY <1>0, <1>1, CountZero
     DEF WakeInv, Handover, AwakeReader, AwakeWriter, EmptyIsOpen,
         WokenReaders, WokenWriters
<1>3. ReadersShare
  BY <1>0, CountZero DEF WakeInv, Share, AwakeReader, ReadersShare
<1> QED
  BY <1>2, <1>3 DEF NoLostWakeup

\* The monitor is never empty and blocked, and sleeping readers always have
\* somebody to wait for or somebody awake among them.
THEOREM NoWakeupLost == MonitorSpec => []NoLostWakeup
<1>1. MonitorInit => WakeInv
  <2> SUFFICES ASSUME MonitorInit PROVE WakeInv
    OBVIOUS
  <2>1. monitor.readers = {} /\ monitor.writers = {}
    BY DEF MonitorInit, NewMonitor
  <2> QED
    BY <2>1, InitInv DEF WakeInv, Handover, Share
<1> QED
  BY <1>1, NextWake, WakeMeans, PTL DEF MonitorSpec

-----------------------------------------------------------------------------
(***************************************************************************)
(* The turns.  That somebody waits is, by the counters, exactly what the   *)
(* newcomers of the other class see in their waiting conditions; and the   *)
(* ones who wait for their turn only leave the wait by entering.           *)
(***************************************************************************)

\* A reader in its loop respects the writers' turn, and takes its own.
LEMMA ReaderLoopTurn ==
  ASSUME MonitorInv, NEW t \in Thread, NEW m \in Monitor(Thread),
         m.writers_inside = monitor.writers_inside,
         m.writers_waiting = monitor.writers_waiting,
         m.change = monitor.change,
         pc[t] \in {"idle", "waitRead"}, ReaderLoop(t, m)
  PROVE  WritersTurnKept /\ ReadersTurnKept
<1>0. /\ MonitorTypeOK /\ monitor.writers_waiting \in Nat
      /\ {"reading", "writing", "waitRead", "waitWrite"} \subseteq States
  BY DEF MonitorInv, MonitorTypeOK, Monitor, States
<1>1. CASE ReaderMustWait(m) /\ monitor' = ReaderSleep(m, t)
             /\ Goto(t, "waitRead")
  <2>1. monitor'.change = monitor.change
    BY <1>1, ReaderSleepFields DEF Fields
  <2>2. /\ Entered("reading") = {} /\ Entered("writing") = {}
        /\ At("waitWrite")' = At("waitWrite") /\ At("waitRead")' # {}
    BY <1>0, <1>1, AtMove DEF MonitorTypeOK, Entered, At
  <2> QED
    BY <2>1, <2>2 DEF WritersTurnKept, ReadersTurnKept
<1>2. CASE ~ReaderMustWait(m) /\ monitor' \in ReaderEnter(m)
             /\ Goto(t, "reading")
  <2>1. t \in Entered("reading")
    BY <1>0, <1>2, AtAfter DEF Entered, At
  <2>2. ~(monitor.change = "WRITERS" /\ At("waitWrite") # {})
    BY <1>0, <1>2, CountZero DEF ReaderMustWait
  <2> QED
    BY <2>1, <2>2 DEF WritersTurnKept, ReadersTurnKept
<1> QED
  BY <1>1, <1>2 DEF ReaderLoop

\* A writer in its loop respects the readers' turn, and takes its own.
LEMMA WriterLoopTurn ==
  ASSUME MonitorInv, NEW t \in Thread, NEW m \in Monitor(Thread),
         m.readers_waiting = monitor.readers_waiting,
         m.change = monitor.change,
         pc[t] \in {"idle", "waitWrite"}, WriterLoop(t, m)
  PROVE  WritersTurnKept /\ ReadersTurnKept
<1>0. /\ MonitorTypeOK /\ monitor.readers_waiting \in Nat
      /\ {"reading", "writing", "waitRead", "waitWrite"} \subseteq States
  BY DEF MonitorInv, MonitorTypeOK, Monitor, States
<1>1. CASE WriterMustWait(m) /\ monitor' = WriterSleep(m, t)
             /\ Goto(t, "waitWrite")
  <2>1. monitor'.change = monitor.change
    BY <1>1, WriterSleepFields DEF Fields
  <2>2. /\ Entered("reading") = {} /\ Entered("writing") = {}
        /\ At("waitRead")' = At("waitRead") /\ At("waitWrite")' # {}
    BY <1>0, <1>1, AtMove DEF MonitorTypeOK, Entered, At
  <2> QED
    BY <2>1, <2>2 DEF WritersTurnKept, ReadersTurnKept
<1>2. CASE ~WriterMustWait(m) /\ monitor' \in WriterEnter(m)
             /\ Goto(t, "writing")
  <2>1. t \in Entered("writing")
    BY <1>0, <1>2, AtAfter DEF Entered, At
  <2>2. ~(monitor.change = "READERS" /\ At("waitRead") # {})
    BY <1>0, <1>2, CountZero DEF WriterMustWait
  <2> QED
    BY <2>1, <2>2 DEF WritersTurnKept, ReadersTurnKept
<1> QED
  BY <1>1, <1>2 DEF WriterLoop

\* Every step respects the turns.
LEMMA NextTurn ==
  ASSUME MonitorInv, [MonitorNext]_mvars
  PROVE  [WritersTurnKept /\ ReadersTurnKept]_mvars
<1>0. /\ MonitorTypeOK /\ monitor \in Monitor(Thread)
      /\ {"idle", "reading", "writing", "waitRead", "waitWrite"} \subseteq States
  BY DEF MonitorInv, MonitorTypeOK, States
<1>1. ASSUME NEW t \in Thread, StartRead(t)
      PROVE  WritersTurnKept /\ ReadersTurnKept
  BY <1>0, <1>1, ReaderLoopTurn DEF StartRead
<1>2. ASSUME NEW t \in Thread, ResumeRead(t)
      PROVE  WritersTurnKept /\ ReadersTurnKept
  BY <1>0, <1>2, InsideCounted, ReaderAwakeFields, ReaderLoopTurn
     DEF ResumeRead, Fields
<1>3. ASSUME NEW t \in Thread, StartWrite(t)
      PROVE  WritersTurnKept /\ ReadersTurnKept
  BY <1>0, <1>3, WriterLoopTurn DEF StartWrite
<1>4. ASSUME NEW t \in Thread, ResumeWrite(t)
      PROVE  WritersTurnKept /\ ReadersTurnKept
  BY <1>0, <1>4, InsideCounted, WriterAwakeFields, WriterLoopTurn
     DEF ResumeWrite, Fields
<1>5. ASSUME NEW t \in Thread, EndRead(t)
      PROVE  WritersTurnKept /\ ReadersTurnKept
  <2>1. monitor'.change = "WRITERS"
    BY <1>0, <1>5, InsideCounted, ReaderLeaveFields DEF EndRead, Fields
  <2>2. /\ Entered("reading") = {} /\ At("waitWrite")' = At("waitWrite")
        /\ At("reading") # {}
    BY <1>0, <1>5, AtMove DEF EndRead, MonitorTypeOK, Entered, At
  <2> QED
    BY <2>1, <2>2 DEF WritersTurnKept, ReadersTurnKept
<1>6. ASSUME NEW t \in Thread, EndWrite(t)
      PROVE  WritersTurnKept /\ ReadersTurnKept
  <2>1. monitor'.change = "READERS"
    BY <1>0, <1>6, InsideCounted, WriterLeaveFields DEF EndWrite, Fields
  <2>2. /\ Entered("writing") = {} /\ At("waitRead")' = At("waitRead")
        /\ At("writing") # {}
    BY <1>0, <1>6, AtMove DEF EndWrite, MonitorTypeOK, Entered, At
  <2> QED
    BY <2>1, <2>2 DEF WritersTurnKept, ReadersTurnKept
<1>7. ASSUME NEW t \in Thread, SpuriousWakeup(t)
      PROVE  WritersTurnKept /\ ReadersTurnKept
  <2>1. monitor'.change = monitor.change /\ pc' = pc
    BY <1>0, <1>7, SpuriousFields DEF SpuriousWakeup, Fields
  <2> QED
    BY <2>1 DEF WritersTurnKept, ReadersTurnKept, Entered, At
<1> QED
  BY <1>1, <1>2, <1>3, <1>4, <1>5, <1>6, <1>7 DEF MonitorNext

\* The classes take turns, however many threads there are.
THEOREM Turns == MonitorSpec => TurnsRespected
BY Invariance, NextTurn, PTL DEF MonitorSpec, TurnsRespected

-------------------------------------------------------------------------------

(***************************************************************************)
(* The invariant.  The lists are whole at every step, since each is        *)
(* written in one access; the count lags behind them between the two       *)
(* accesses of a writer.  What a thread remembers of the map is what the   *)
(* map still is, because a thread that remembers something is inside.      *)
(***************************************************************************)
Results == {<<>>} \cup {<<r>> : r \in BOOLEAN \cup Nat \cup SUBSET Key}
Steps == {"begin", "link", "count", "iterate", "done"}
Frame == [call : Calls \cup {NoCall}, step : Steps, next : Seq(Pair),
          n_keys : Nat, keys : Seq(Key), it : Iterator, result : Results]

\* The class of a call decides in which protocol its thread is.
InProtocol(p, f) ==
  /\ p = "idle" => f = NoFrame
  /\ p \in {"waitRead", "reading"} => f.call.op \in {"size", "contents"}
  /\ p \in {"waitWrite", "writing"} => f.call.op \in {"insert", "remove"}
  /\ p \in {"waitRead", "waitWrite"} => f.step = "begin"

\* Before a call has taken effect it has no result, and none of its keys.
ResultKnown(f) ==
  /\ f.step \in {"begin", "link", "iterate"} => f.result = <<>>
  /\ f.step = "begin" => f.keys = <<>>
  /\ f.step = "count" => f.result = <<TRUE>>
  /\ f.step = "done" => f.result # <<>>

\* What the steps after the first rely on.
LinkReady(f, m) ==
  f.step = "link" =>
    /\ f.call.op = "insert" /\ f.call.value # NULL
    /\ hmap_find(m, f.call.key) = 0
    /\ f.next = List(m, f.call.key)
CountReady(f, m) ==
  f.step = "count" =>
    \/ f.call.op = "insert" /\ m.size + 1 = Cardinality(Present(m))
    \/ f.call.op = "remove" /\ m.size = Cardinality(Present(m)) + 1
IterateReady(f, m) ==
  f.step = "iterate" =>
    /\ f.call.op = "contents"
    /\ Valid(m, f.it)
    /\ ToSet(f.keys) \subseteq Present(m)
    /\ KeysAhead(m, f.it) = Present(m) \ ToSet(f.keys)
    /\ Len(f.keys) + Cardinality(KeysAhead(m, f.it)) <= f.n_keys

FrameOK(p, f, m) ==
  /\ InProtocol(p, f) /\ ResultKnown(f)
  /\ LinkReady(f, m) /\ CountReady(f, m) /\ IterateReady(f, m)

Counting == \E t \in Thread : frame[t].step = "count"

MapInv ==
  /\ MonitorInv
  /\ frame \in [Thread -> Frame]
  /\ map \in Maps
  /\ Linked(map)
  /\ \A t \in Thread : FrameOK(pc[t], frame[t], map)
  /\ ~Counting => map.size = Cardinality(Present(map))
-----------------------------------------------------------------------------
(***************************************************************************)
(* Where threads are, and who is inside.                                   *)
(***************************************************************************)

\* Only the thread that moves changes its place.
LEMMA Moves ==
  ASSUME pc \in [Thread -> States], NEW t \in Thread
  PROVE  /\ \A p : Goto(t, p) => /\ pc'[t] = p
                                 /\ \A u \in Thread \ {t} : pc'[u] = pc[u]
         /\ StartRead(t) => pc[t] = "idle" /\ pc'[t] \in {"waitRead", "reading"}
         /\ StartWrite(t) => pc[t] = "idle" /\ pc'[t] \in {"waitWrite", "writing"}
         /\ ResumeRead(t) => /\ pc[t] = "waitRead"
                             /\ pc'[t] \in {"waitRead", "reading"}
         /\ ResumeWrite(t) => /\ pc[t] = "waitWrite"
                              /\ pc'[t] \in {"waitWrite", "writing"}
         /\ EndRead(t) => pc[t] = "reading" /\ pc'[t] = "idle"
         /\ EndWrite(t) => pc[t] = "writing" /\ pc'[t] = "idle"
         /\ StartRead(t) \/ StartWrite(t) \/ ResumeRead(t) \/ ResumeWrite(t)
              \/ EndRead(t) \/ EndWrite(t)
              => \A u \in Thread \ {t} : pc'[u] = pc[u]
<1>1. ASSUME NEW p, Goto(t, p)
      PROVE  pc'[t] = p /\ \A u \in Thread \ {t} : pc'[u] = pc[u]
  BY <1>1 DEF Goto
<1>2. ASSUME NEW m, ReaderLoop(t, m)
      PROVE  /\ pc'[t] \in {"waitRead", "reading"}
             /\ \A u \in Thread \ {t} : pc'[u] = pc[u]
  BY <1>1, <1>2 DEF ReaderLoop
<1>3. ASSUME NEW m, WriterLoop(t, m)
      PROVE  /\ pc'[t] \in {"waitWrite", "writing"}
             /\ \A u \in Thread \ {t} : pc'[u] = pc[u]
  BY <1>1, <1>3 DEF WriterLoop
<1> QED BY <1>1, <1>2, <1>3
       DEF StartRead, StartWrite, ResumeRead, ResumeWrite, EndRead, EndWrite

LEMMA PcType == MapInv => pc \in [Thread -> States]
BY DEF MapInv, MonitorInv, MonitorTypeOK

\* A thread past its first step is inside.
LEMMA PastFirst ==
  ASSUME MapInv, NEW t \in Thread, frame[t].step # "begin"
  PROVE  pc[t] \in {"reading", "writing"}
BY PcType DEF MapInv, FrameOK, InProtocol, NoFrame, States

\* A writer inside finds every other thread before its first step.
LEMMA WriterAlone ==
  ASSUME MapInv, NEW t \in Thread, pc[t] = "writing",
         NEW u \in Thread \ {t}
  PROVE  frame[u].step = "begin" /\ pc[u] \notin {"reading", "writing"}
<1>1. pc[u] \notin {"reading", "writing"}
  BY InvExcludes DEF MapInv, MutualExclusion
<1> QED BY <1>1, PastFirst

\* While a reader is inside, the count is exact.
LEMMA ReaderCounts ==
  ASSUME MapInv, NEW t \in Thread, pc[t] = "reading"
  PROVE  ~Counting /\ map.size = Cardinality(Present(map))
<1>1. SUFFICES ASSUME NEW u \in Thread, frame[u].step = "count" PROVE FALSE
  BY DEF MapInv, Counting
<1>2. frame[u].call.op \in {"insert", "remove"}
  BY <1>1 DEF MapInv, FrameOK, CountReady
<1>3. pc[u] \in {"reading", "writing"}
  BY <1>1, PastFirst
<1>4. pc[u] = "writing"
  BY <1>2, <1>3 DEF MapInv, FrameOK, InProtocol
<1> QED BY <1>4, WriterAlone

\* The class of the call says how the thread is inside.
LEMMA InsideClass ==
  ASSUME MapInv, NEW t \in Thread, NEW op, NEW step, Inside(t, op, step)
  PROVE  /\ frame[t] \in Frame /\ frame[t].call \in Calls
         /\ op \in {"insert", "remove"} => pc[t] = "writing"
         /\ op \in {"size", "contents"} => pc[t] = "reading"
         /\ pc' = pc /\ monitor' = monitor
<1>1. pc[t] \in {"reading", "writing"} /\ frame[t].call.op = op
      /\ pc' = pc /\ monitor' = monitor
  BY DEF Inside, mvars
<1>2. frame[t] \in Frame /\ InProtocol(pc[t], frame[t])
  BY DEF MapInv, FrameOK
<1>3. frame[t].call \in Calls
  <2>1. frame[t].call \in Calls \cup {NoCall}
    BY <1>2 DEF Frame
  <2>2. frame[t].call.op # "none"
    BY <1>1, <1>2 DEF InProtocol
  <2> QED BY <2>1, <2>2 DEF NoCall
<1> QED BY <1>1, <1>2, <1>3 DEF InProtocol

LEMMA CallFields ==
  ASSUME NEW c \in Calls
  PROVE  /\ c # NoCall
         /\ c.op \in {"insert", "remove", "size", "contents"}
         /\ c.op \in {"insert", "remove"} => c.key \in Key
         /\ c.op = "insert" /\ c.value # NULL => c.value \in Value
BY DEF Calls, NoCall

(***************************************************************************)
(* A step of one thread keeps the invariant if it leaves that thread in    *)
(* order, the map whole, and the map alone unless the thread writes.       *)
(***************************************************************************)
LEMMA StepKeeps ==
  ASSUME MapInv, MonitorInv', NEW t \in Thread, NEW g \in Frame,
         frame' = [frame EXCEPT ![t] = g],
         \A u \in Thread \ {t} : pc'[u] = pc[u],
         map' \in Maps, Linked(map'),
         FrameOK(pc'[t], g, map'),
         map' = map \/ pc[t] = "writing",
         g.step # "count" =>
           \/ frame[t].step # "count" /\ map' = map
           \/ map'.size = Cardinality(Present(map'))
  PROVE  MapInv'
<1>1. frame' \in [Thread -> Frame] /\ frame'[t] = g
      /\ \A u \in Thread \ {t} : frame'[u] = frame[u]
  BY DEF MapInv
<1>2. ASSUME NEW u \in Thread \ {t} PROVE FrameOK(pc'[u], frame'[u], map')
  <2>1. FrameOK(pc[u], frame[u], map)
    BY DEF MapInv
  <2>2. CASE map' = map
    BY <1>1, <2>1, <2>2
  <2>3. CASE pc[t] = "writing"
    <3>1. frame[u].step = "begin"
      BY <2>3, WriterAlone
    <3>2. FrameOK(pc[u], frame[u], map')
      BY <2>1, <3>1 DEF FrameOK, LinkReady, CountReady, IterateReady
    <3> QED BY <1>1, <3>2
  <2> QED BY <2>2, <2>3
<1>3. ASSUME ~Counting' PROVE map'.size = Cardinality(Present(map'))
  <2>1. g.step # "count" /\ \A u \in Thread \ {t} : frame[u].step # "count"
    BY <1>1, <1>3 DEF Counting
  <2>2. CASE frame[t].step # "count" /\ map' = map
    <3>1. ~Counting
      BY <2>1, <2>2 DEF Counting
    <3> QED BY <2>2, <3>1 DEF MapInv
  <2> QED BY <2>1, <2>2
<1>4. \A u \in Thread : FrameOK(pc'[u], frame'[u], map')
  BY <1>1, <1>2
<1> QED BY <1>1, <1>3, <1>4 DEF MapInv

-----------------------------------------------------------------------------
(***************************************************************************)
(* The invariant is inductive: one lemma per action.                       *)
(***************************************************************************)

LEMMA MapInit == Init => MapInv
<1> SUFFICES ASSUME Init PROVE MapInv
  OBVIOUS
<1>1. MonitorInv /\ pc = [t \in Thread |-> "idle"]
  BY InitInv DEF Init, MonitorInit
<1>2. NoFrame \in Frame
  <2>1. NoFrame.it \in Iterator /\ <<>> \in Seq(Pair) /\ <<>> \in Seq(Key)
    BY HashAssumption, EmptySeq DEF NoFrame, Iterator, Bucket
  <2>2. <<>> \in Results
    BY DEF Results
  <2> QED BY <2>1, <2>2 DEF NoFrame, Frame, Steps
<1>3. map \in Maps /\ Linked(map) /\ map.size = Cardinality(Present(map))
  BY NewSpec, FS_EmptySet DEF Init
<1>4. ASSUME NEW t \in Thread PROVE FrameOK(pc[t], frame[t], map)
  <2>1. pc[t] = "idle" /\ frame[t] = NoFrame
    BY <1>1 DEF Init
  <2> QED BY <2>1 DEF FrameOK, InProtocol, ResultKnown, LinkReady, CountReady,
                      IterateReady, NoFrame
<1> QED BY <1>1, <1>2, <1>3, <1>4 DEF MapInv, Init

LEMMA CallKeeps ==
  ASSUME MapInv, MonitorInv', NEW t \in Thread, NEW c \in Calls, Call(t, c)
  PROVE  MapInv'
<1> DEFINE f == frame[t]
           g == [f EXCEPT !.call = c]
<1>1. /\ pc[t] = "idle" /\ map' = map /\ frame' = [frame EXCEPT ![t].call = c]
      /\ \A u \in Thread \ {t} : pc'[u] = pc[u]
      /\ c.op \in {"insert", "remove"} => pc'[t] \in {"waitWrite", "writing"}
      /\ c.op \notin {"insert", "remove"} => pc'[t] \in {"waitRead", "reading"}
  BY PcType, Moves DEF Call
<1>2. f \in Frame /\ f = NoFrame
  BY <1>1 DEF MapInv, FrameOK, InProtocol
<1>3. g \in Frame /\ frame' = [frame EXCEPT ![t] = g]
  BY <1>1, <1>2 DEF Frame, MapInv
<1>4. /\ g.call = c /\ g.step = "begin" /\ g.result = <<>> /\ g.keys = <<>>
      /\ f.step = "begin"
  BY <1>2 DEF NoFrame
<1> HIDE DEF g, f
<1>5. FrameOK(pc'[t], g, map')
  BY <1>1, <1>4, CallFields
     DEF FrameOK, InProtocol, ResultKnown, LinkReady, CountReady, IterateReady
<1> QED BY <1>1, <1>3, <1>4, <1>5, StepKeeps DEF MapInv, f

LEMMA ResumeKeeps ==
  ASSUME MapInv, MonitorInv', NEW t \in Thread, Resume(t)
  PROVE  MapInv'
<1>1. /\ pc[t] \in {"waitRead", "waitWrite"} /\ map' = map /\ frame' = frame
      /\ \A u \in Thread \ {t} : pc'[u] = pc[u]
      /\ pc[t] = "waitRead" => pc'[t] \in {"waitRead", "reading"}
      /\ pc[t] = "waitWrite" => pc'[t] \in {"waitWrite", "writing"}
  BY PcType, Moves DEF Resume
<1>2. frame[t] \in Frame /\ frame[t].step = "begin" /\ FrameOK(pc[t], frame[t], map)
  BY <1>1 DEF MapInv, FrameOK, InProtocol
<1>3. FrameOK(pc'[t], frame[t], map')
  BY <1>1, <1>2 DEF FrameOK, InProtocol
<1>4. frame' = [frame EXCEPT ![t] = frame[t]]
  BY <1>1 DEF MapInv
<1> QED BY <1>1, <1>2, <1>3, <1>4, StepKeeps DEF MapInv

LEMMA SpuriousKeeps ==
  ASSUME MapInv, MonitorInv', NEW t \in Thread, Spurious(t)
  PROVE  MapInv'
BY DEF Spurious, SpuriousWakeup, MapInv, Counting

LEMMA ReturnKeeps ==
  ASSUME MapInv, MonitorInv', NEW t \in Thread, Return(t)
  PROVE  MapInv'
<1>1. /\ frame[t].step = "done" /\ map' = map /\ pc'[t] = "idle"
      /\ frame' = [frame EXCEPT ![t] = NoFrame]
      /\ \A u \in Thread \ {t} : pc'[u] = pc[u]
  BY PcType, Moves DEF Return
<1>2. NoFrame \in Frame /\ NoFrame.step = "begin"
  <2>1. NoFrame.it \in Iterator /\ <<>> \in Seq(Pair) /\ <<>> \in Seq(Key)
    BY HashAssumption, EmptySeq DEF NoFrame, Iterator, Bucket
  <2>2. <<>> \in Results
    BY DEF Results
  <2> QED BY <2>1, <2>2 DEF NoFrame, Frame, Steps
<1>3. FrameOK(pc'[t], NoFrame, map')
  BY <1>1 DEF FrameOK, InProtocol, ResultKnown, LinkReady, CountReady, IterateReady,
              NoFrame
<1> QED BY <1>1, <1>2, <1>3, StepKeeps DEF MapInv

\* A step inside that ends with a result and leaves the map as it was.
LEMMA FinishKeeps ==
  ASSUME MapInv, MonitorInv', NEW t \in Thread, NEW op, NEW step,
         Inside(t, op, step), step # "count",
         NEW r \in BOOLEAN \cup Nat \cup SUBSET Key, Finish(t, r), map' = map
  PROVE  MapInv'
<1> DEFINE f == frame[t]
           g == [f EXCEPT !.step = "done", !.result = <<r>>]
<1>1. f \in Frame /\ pc' = pc /\ f.step = step
  BY InsideClass DEF Inside
<1>2. <<r>> \in Results /\ <<r>> # <<>>
  BY DEF Results
<1>3. g \in Frame /\ g.step = "done" /\ g.result = <<r>> /\ g.call = f.call
  BY <1>1, <1>2 DEF Frame, Steps
<1>4. frame' = [frame EXCEPT ![t] = g]
  BY DEF Finish, MapInv
<1> HIDE DEF g
<1>5. pc[t] \in {"reading", "writing"} /\ FrameOK(pc[t], f, map)
  BY DEF Inside, MapInv
<1>6. FrameOK(pc'[t], g, map')
  BY <1>1, <1>2, <1>3, <1>5
     DEF FrameOK, InProtocol, ResultKnown, LinkReady, CountReady, IterateReady
<1> QED BY <1>1, <1>3, <1>4, <1>6, StepKeeps DEF MapInv

LEMMA InsertFindKeeps ==
  ASSUME MapInv, MonitorInv', NEW t \in Thread, InsertFind(t)
  PROVE  MapInv'
<1> DEFINE f == frame[t]
           c == f.call
           g == [f EXCEPT !.step = "link", !.next = List(map, c.key)]
<1>1. Inside(t, "insert", "begin") /\ map' = map
  BY DEF InsertFind
<1>2. /\ f \in Frame /\ c \in Calls /\ pc' = pc /\ pc[t] = "writing"
      /\ f.step = "begin" /\ c.op = "insert"
  BY <1>1, InsideClass DEF Inside
<1>3. CASE c.value = NULL \/ hmap_find(map, c.key) # 0
  <2>1. Finish(t, FALSE)
    BY <1>3 DEF InsertFind
  <2> QED BY <1>1, <2>1, FinishKeeps
<1>4. CASE ~(c.value = NULL \/ hmap_find(map, c.key) # 0)
  <2>1. frame' = [frame EXCEPT ![t].step = "link", ![t].next = List(map, c.key)]
    BY <1>4 DEF InsertFind
  <2>2. List(map, c.key) \in Seq(Pair)
    BY <1>2, CallFields, ListType DEF MapInv
  <2>3. /\ g \in Frame /\ g.step = "link" /\ g.result = f.result /\ g.call = c
        /\ g.next = List(map, c.key)
    BY <1>2, <2>2 DEF Frame, Steps
  <2>4. frame' = [frame EXCEPT ![t] = g]
    BY <2>1 DEF MapInv
  <2> HIDE DEF g
  <2>5. FrameOK(pc[t], f, map)
    BY DEF MapInv
  <2>6. FrameOK(pc'[t], g, map')
    BY <1>1, <1>2, <1>4, <2>3, <2>5
       DEF FrameOK, InProtocol, ResultKnown, LinkReady, CountReady, IterateReady
  <2> QED BY <1>1, <1>2, <2>3, <2>4, <2>6, StepKeeps DEF MapInv
<1> QED BY <1>3, <1>4

\* What hmap_link and the frame are after an InsertLink.
LEMMA InsertLinkStep ==
  ASSUME MapInv, NEW t \in Thread, InsertLink(t)
  PROVE  LET c == frame[t].call
         IN  /\ c.key \in Key /\ c.value \in Value /\ c.op = "insert"
             /\ c.value # NULL /\ hmap_find(map, c.key) = 0
             /\ frame[t].result = <<>>
             /\ map' = hmap_link(map, c.key, c.value, List(map, c.key))
             /\ frame' = [frame EXCEPT ![t].step = "count",
                                        ![t].result = <<TRUE>>]
<1>1. Inside(t, "insert", "link")
  BY DEF InsertLink
<1>2. frame[t].call \in Calls /\ frame[t].call.op = "insert" /\ frame[t].step = "link"
  BY <1>1, InsideClass DEF Inside
<1>3. FrameOK(pc[t], frame[t], map)
  BY DEF MapInv
<1> QED BY <1>2, <1>3, CallFields DEF FrameOK, LinkReady, ResultKnown, InsertLink

LEMMA InsertLinkKeeps ==
  ASSUME MapInv, MonitorInv', NEW t \in Thread, InsertLink(t)
  PROVE  MapInv'
<1> DEFINE f == frame[t]
           c == f.call
           g == [f EXCEPT !.step = "count", !.result = <<TRUE>>]
<1>1. Inside(t, "insert", "link")
  BY DEF InsertLink
<1>2. /\ f \in Frame /\ pc' = pc /\ pc[t] = "writing" /\ f.step = "link"
  BY <1>1, InsideClass DEF Inside
<1>3. /\ c.key \in Key /\ c.value \in Value /\ c.op = "insert"
      /\ hmap_find(map, c.key) = 0
      /\ map' = hmap_link(map, c.key, c.value, List(map, c.key))
      /\ frame' = [frame EXCEPT ![t].step = "count", ![t].result = <<TRUE>>]
  BY InsertLinkStep
<1>4. map.size = Cardinality(Present(map))
  <2>1. \A u \in Thread \ {t} : frame[u].step = "begin"
    BY <1>2, WriterAlone
  <2>2. ~Counting
    BY <1>2, <2>1 DEF Counting
  <2> QED BY <2>2 DEF MapInv
<1>5. /\ map' \in Maps /\ Linked(map') /\ map'.size = map.size
      /\ Cardinality(Present(map')) = Cardinality(Present(map)) + 1
  BY <1>3, LinkSpec DEF MapInv
<1>6. <<TRUE>> \in Results
  BY DEF Results
<1>7. g \in Frame /\ g.step = "count" /\ g.result = <<TRUE>> /\ g.call = c
  BY <1>2, <1>6 DEF Frame, Steps
<1>8. frame' = [frame EXCEPT ![t] = g]
  BY <1>3 DEF MapInv
<1> HIDE DEF g
<1>9. FrameOK(pc'[t], g, map')
  BY <1>2, <1>3, <1>4, <1>5, <1>7
     DEF FrameOK, InProtocol, ResultKnown, LinkReady, CountReady, IterateReady
<1> QED BY <1>2, <1>5, <1>7, <1>8, <1>9, StepKeeps

\* The count catches up with the lists.
LEMMA CountKeeps ==
  ASSUME MapInv, MonitorInv', NEW t \in Thread,
         InsertCount(t) \/ RemoveCount(t)
  PROVE  /\ MapInv'
         /\ map' \in {hmap_count_up(map), hmap_count_down(map)}
         /\ frame' = [frame EXCEPT ![t].step = "done"]
<1> DEFINE f == frame[t]
           g == [f EXCEPT !.step = "done"]
<1>1. /\ f \in Frame /\ pc' = pc /\ pc[t] = "writing" /\ f.step = "count"
      /\ frame' = [frame EXCEPT ![t].step = "done"]
      /\ \/ f.call.op = "insert" /\ map' = hmap_count_up(map)
         \/ f.call.op = "remove" /\ map' = hmap_count_down(map)
  BY InsideClass DEF Inside, InsertCount, RemoveCount
<1>2. FrameOK(pc[t], f, map) /\ map \in Maps /\ Linked(map)
  BY DEF MapInv
<1>3. IsFiniteSet(Present(map)) /\ Cardinality(Present(map)) \in Nat
  BY <1>2, EntriesFinite, FS_CardinalityType
<1>4. map'.size = Cardinality(Present(map))
  <2>1. map.size \in Nat
    BY <1>2 DEF Maps
  <2>2. CASE f.call.op = "insert" /\ map' = hmap_count_up(map)
    <3>1. map'.size = map.size + 1
      BY <1>2, <2>2 DEF hmap_count_up, Maps
    <3> QED BY <1>1, <1>2, <2>2, <3>1 DEF FrameOK, CountReady
  <2>3. CASE f.call.op = "remove" /\ map' = hmap_count_down(map)
    <3>1. map'.size = map.size - 1
      BY <1>2, <2>3 DEF hmap_count_down, Maps
    <3>2. map.size = Cardinality(Present(map)) + 1
      BY <1>1, <1>2, <2>3 DEF FrameOK, CountReady
    <3> QED BY <1>3, <3>1, <3>2
  <2> QED BY <1>1, <2>2, <2>3
<1>5. /\ map' \in Maps /\ Linked(map')
      /\ map'.size = Cardinality(Present(map'))
  BY <1>1, <1>2, <1>3, <1>4, CountSpec
<1>6. g \in Frame /\ g.step = "done" /\ g.result = f.result /\ g.call = f.call
  BY <1>1 DEF Frame, Steps
<1>7. frame' = [frame EXCEPT ![t] = g]
  BY <1>1 DEF MapInv
<1> HIDE DEF g
<1>0. f.result # <<>>
  <2>1. <<TRUE>> # <<>>
    OBVIOUS
  <2> QED BY <1>1, <1>2, <2>1 DEF FrameOK, ResultKnown
<1>8. FrameOK(pc'[t], g, map')
  BY <1>0, <1>1, <1>2, <1>6
     DEF FrameOK, InProtocol, ResultKnown, LinkReady, CountReady, IterateReady
<1>9. MapInv'
  BY <1>1, <1>5, <1>6, <1>7, <1>8, StepKeeps
<1> QED BY <1>1, <1>9

LEMMA RemoveUnlinkKeeps ==
  ASSUME MapInv, MonitorInv', NEW t \in Thread, RemoveUnlink(t)
  PROVE  MapInv'
<1> DEFINE f == frame[t]
           k == f.call.key
           g == [f EXCEPT !.step = "count", !.result = <<TRUE>>]
<1>1. Inside(t, "remove", "begin")
  BY DEF RemoveUnlink
<1>2. /\ f \in Frame /\ f.call \in Calls /\ pc' = pc /\ pc[t] = "writing"
      /\ f.step = "begin" /\ f.call.op = "remove"
  BY <1>1, InsideClass DEF Inside
<1>3. k \in Key
  BY <1>2, CallFields
<1>4. CASE hmap_find(map, k) = 0
  <2>1. Finish(t, FALSE) /\ map' = map
    BY <1>4 DEF RemoveUnlink
  <2> QED BY <1>1, <2>1, FinishKeeps
<1>5. CASE hmap_find(map, k) # 0
  <2>1. /\ map' = hmap_unlink(map, k)
        /\ frame' = [frame EXCEPT ![t].step = "count", ![t].result = <<TRUE>>]
    BY <1>5 DEF RemoveUnlink
  <2>2. map.size = Cardinality(Present(map))
    <3>1. \A u \in Thread \ {t} : frame[u].step = "begin"
      BY <1>2, WriterAlone
    <3>2. ~Counting
      BY <1>2, <3>1 DEF Counting
    <3> QED BY <3>2 DEF MapInv
  <2>3. /\ map' \in Maps /\ Linked(map') /\ map'.size = map.size
        /\ Cardinality(Present(map)) = Cardinality(Present(map')) + 1
    BY <1>3, <1>5, <2>1, UnlinkSpec DEF MapInv
  <2>4. <<TRUE>> \in Results
    BY DEF Results
  <2>5. g \in Frame /\ g.step = "count" /\ g.result = <<TRUE>> /\ g.call = f.call
    BY <1>2, <2>4 DEF Frame, Steps
  <2>6. frame' = [frame EXCEPT ![t] = g]
    BY <2>1 DEF MapInv
  <2> HIDE DEF g
  <2>7. FrameOK(pc'[t], g, map')
    BY <1>2, <2>2, <2>3, <2>5
       DEF FrameOK, InProtocol, ResultKnown, LinkReady, CountReady, IterateReady
  <2> QED BY <1>2, <2>3, <2>5, <2>6, <2>7, StepKeeps
<1> QED BY <1>4, <1>5

LEMMA SizeKeeps ==
  ASSUME MapInv, MonitorInv', NEW t \in Thread, Size(t)
  PROVE  MapInv'
<1>1. Inside(t, "size", "begin") /\ Finish(t, hmap_size(map)) /\ map' = map
  BY DEF Size
<1>2. hmap_size(map) \in Nat
  BY DEF MapInv, Maps, hmap_size
<1> QED BY <1>1, <1>2, FinishKeeps

LEMMA ContentsAllocateKeeps ==
  ASSUME MapInv, MonitorInv', NEW t \in Thread, ContentsAllocate(t)
  PROVE  MapInv'
<1> DEFINE f == frame[t]
           g == [f EXCEPT !.step = "iterate", !.n_keys = hmap_size(map),
                          !.it = hmap_iterator(map)]
<1>1. /\ Inside(t, "contents", "begin") /\ map' = map
      /\ frame' = [frame EXCEPT ![t].step = "iterate",
                                ![t].n_keys = hmap_size(map),
                                ![t].it = hmap_iterator(map)]
  BY DEF ContentsAllocate
<1>2. /\ f \in Frame /\ pc' = pc /\ pc[t] = "reading"
      /\ f.step = "begin" /\ f.call.op = "contents"
  BY <1>1, InsideClass DEF Inside
<1>3. map \in Maps /\ Linked(map) /\ FrameOK(pc[t], f, map)
  BY DEF MapInv
<1>4. map.size = Cardinality(Present(map))
  BY <1>2, ReaderCounts
<1>5. /\ hmap_size(map) = map.size /\ map.size \in Nat
      /\ hmap_iterator(map) \in Iterator /\ Valid(map, hmap_iterator(map))
      /\ KeysAhead(map, hmap_iterator(map)) = Present(map)
  BY <1>3, IteratorSpec DEF hmap_size, Maps
<1>6. /\ g \in Frame /\ g.step = "iterate" /\ g.result = f.result
      /\ g.call = f.call /\ g.keys = f.keys /\ g.it = hmap_iterator(map)
      /\ g.n_keys = map.size
  BY <1>2, <1>5 DEF Frame, Steps
<1>7. frame' = [frame EXCEPT ![t] = g]
  BY <1>1 DEF MapInv
<1> HIDE DEF g
<1>8. f.keys = <<>> /\ ToSet(<<>>) = {} /\ Len(<<>>) = 0
  <2>1. f.keys = <<>>
    BY <1>2, <1>3 DEF FrameOK, ResultKnown
  <2> QED BY <2>1, EmptySeq DEF ToSet
<1>9. IterateReady(g, map')
  <2>1. map.size \in Nat /\ 0 + map.size <= map.size
    BY <1>5
  <2> QED BY <1>1, <1>2, <1>4, <1>5, <1>6, <1>8, <2>1 DEF IterateReady
<1>10. FrameOK(pc'[t], g, map')
  BY <1>2, <1>3, <1>6, <1>9
     DEF FrameOK, InProtocol, ResultKnown, LinkReady, CountReady
<1> QED BY <1>1, <1>2, <1>3, <1>6, <1>7, <1>10, StepKeeps

\* An iterator that has come to its end has returned every key.
LEMMA IterationEnds ==
  ASSUME MapInv, NEW t \in Thread, Inside(t, "contents", "iterate")
  PROVE  /\ frame[t].it \in Iterator /\ frame[t].keys \in Seq(Key)
         /\ IterateReady(frame[t], map)
         /\ ToSet(frame[t].keys) \subseteq Key
         /\ ~hmap_has_next(map, frame[t].it)
               => ToSet(frame[t].keys) = Present(map)
<1>1. frame[t] \in Frame /\ frame[t].step = "iterate"
  BY InsideClass DEF Inside
<1>2. frame[t].it \in Iterator /\ frame[t].keys \in Seq(Key)
  BY <1>1 DEF Frame
<1>3. IterateReady(frame[t], map) /\ map \in Maps /\ Linked(map)
  BY DEF MapInv, FrameOK
<1>4. ASSUME ~hmap_has_next(map, frame[t].it)
      PROVE  ToSet(frame[t].keys) = Present(map)
  <2>1. KeysAhead(map, frame[t].it) = {}
    BY <1>1, <1>2, <1>3, <1>4, NextSpec DEF IterateReady
  <2> QED BY <1>1, <1>3, <2>1 DEF IterateReady
<1> QED BY <1>2, <1>3, <1>4, InToSet

LEMMA ContentsNextKeeps ==
  ASSUME MapInv, MonitorInv', NEW t \in Thread, ContentsNext(t)
  PROVE  MapInv'
<1> DEFINE f == frame[t]
           n == hmap_next_it(map, f.it)
           k == hmap_next_key(map, f.it)
           g == [f EXCEPT !.keys = Append(f.keys, k), !.it = n]
<1>1. Inside(t, "contents", "iterate") /\ map' = map
  BY DEF ContentsNext
<1>2. /\ f \in Frame /\ pc' = pc /\ pc[t] = "reading"
      /\ f.step = "iterate" /\ f.call.op = "contents"
  BY <1>1, InsideClass DEF Inside
<1>3. map \in Maps /\ Linked(map) /\ FrameOK(pc[t], f, map)
  BY DEF MapInv
<1>4. /\ f.it \in Iterator /\ f.keys \in Seq(Key) /\ IterateReady(f, map)
      /\ ToSet(f.keys) \subseteq Key
  BY <1>1, IterationEnds
<1>5. CASE ~hmap_has_next(map, f.it)
  <2>1. Finish(t, ToSet(f.keys))
    BY <1>5 DEF ContentsNext
  <2> QED BY <1>1, <1>4, <2>1, FinishKeeps
<1>6. CASE hmap_has_next(map, f.it)
  <2>1. frame' = [frame EXCEPT ![t].keys = Append(@, k), ![t].it = n]
    BY <1>6 DEF ContentsNext
  <2>2. /\ n \in Iterator /\ Valid(map, n) /\ k \in Key
        /\ k \in KeysAhead(map, f.it)
        /\ KeysAhead(map, n) = KeysAhead(map, f.it) \ {k}
    BY <1>2, <1>3, <1>4, <1>6, NextSpec DEF IterateReady
  <2>3. /\ Append(f.keys, k) \in Seq(Key)
        /\ Len(Append(f.keys, k)) = Len(f.keys) + 1 /\ Len(f.keys) \in Nat
        /\ ToSet(Append(f.keys, k)) = ToSet(f.keys) \cup {k}
    BY <1>4, <2>2, AppendProperties, LenProperties, ToSetAppend
  <2>4. /\ g \in Frame /\ g.step = "iterate" /\ g.result = f.result
        /\ g.call = f.call /\ g.keys = Append(f.keys, k) /\ g.it = n
        /\ g.n_keys = f.n_keys
    BY <1>2, <2>2, <2>3 DEF Frame
  <2>5. frame' = [frame EXCEPT ![t] = g]
    BY <2>1 DEF MapInv
  <2> HIDE DEF g, n, k
  <2>6. Cardinality(KeysAhead(map, f.it)) = Cardinality(KeysAhead(map, n)) + 1
    <3>1. IsFiniteSet(KeysAhead(map, f.it))
      BY <1>2, <1>3, <1>4, AheadCard, EntriesFinite, FS_Subset DEF IterateReady
    <3> DEFINE S == KeysAhead(map, f.it)
    <3>2. Cardinality(S \ {k}) = Cardinality(S) - 1 /\ Cardinality(S) \in Nat
      BY <2>2, <3>1, FS_RemoveElement, FS_CardinalityType
    <3> HIDE DEF S
    <3>3. KeysAhead(map, n) = S \ {k}
      BY <2>2 DEF S
    <3>4. Cardinality(S) = Cardinality(KeysAhead(map, n)) + 1
      BY <3>2, <3>3
    <3> QED BY <3>4 DEF S
  <2>7. IterateReady(g, map')
    <3>1. /\ ToSet(f.keys) \subseteq Present(map)
          /\ KeysAhead(map, f.it) = Present(map) \ ToSet(f.keys)
          /\ Len(f.keys) + Cardinality(KeysAhead(map, f.it)) <= f.n_keys
      BY <1>2, <1>4 DEF IterateReady
    <3>2. /\ ToSet(g.keys) \subseteq Present(map)
          /\ KeysAhead(map, n) = Present(map) \ ToSet(g.keys)
      BY <2>2, <2>3, <2>4, <3>1
    <3>3. Len(g.keys) + Cardinality(KeysAhead(map, n)) <= g.n_keys
      <4>1. IsFiniteSet(KeysAhead(map, n)) /\ Cardinality(KeysAhead(map, n)) \in Nat
        BY <1>3, <2>2, AheadCard, EntriesFinite, FS_Subset, FS_CardinalityType
      <4>2. f.n_keys \in Nat
        BY <1>2 DEF Frame
      <4> QED BY <2>3, <2>4, <2>6, <3>1, <4>1, <4>2
    <3> QED BY <1>1, <1>2, <2>2, <2>4, <3>2, <3>3 DEF IterateReady
  <2>8. FrameOK(pc'[t], g, map')
    BY <1>2, <1>3, <2>4, <2>7
       DEF FrameOK, InProtocol, ResultKnown, LinkReady, CountReady
  <2> QED BY <1>1, <1>2, <1>3, <2>4, <2>5, <2>8, StepKeeps
<1> QED BY <1>5, <1>6

LEMMA MapStep == MapInv /\ [Next]_vars => MapInv'
<1> SUFFICES ASSUME MapInv, [Next]_vars PROVE MapInv'
  OBVIOUS
<1>1. [MonitorNext]_mvars
  BY DEF Next, vars, mvars, MonitorNext, Call, Resume, Spurious, Return, Work,
         InsertFind, InsertLink, InsertCount, RemoveUnlink, RemoveCount, Size,
         ContentsAllocate, ContentsNext, Inside
<1>2. MonitorInv'
  BY <1>1, NextInv DEF MapInv
<1>3. CASE UNCHANGED vars
  BY <1>3 DEF vars, mvars, MapInv, MonitorInv, MonitorTypeOK, CountersAgree,
              CountersExclude, At, Counting
<1>4. CASE Next
  <2>1. PICK t \in Thread :
               \/ \E c \in Calls : Call(t, c)
               \/ Resume(t) \/ Spurious(t) \/ Work(t) \/ Return(t)
    BY <1>4 DEF Next
  <2> QED BY <1>2, <2>1, CallKeeps, ResumeKeeps, SpuriousKeeps, ReturnKeeps,
             InsertFindKeeps, InsertLinkKeeps, CountKeeps, RemoveUnlinkKeeps,
             SizeKeeps, ContentsAllocateKeeps, ContentsNextKeeps
          DEF Work
<1> QED BY <1>3, <1>4

\* The lists, the count, what the threads remember and the monitor agree in
\* every state that the calls of SafeHashMap.c can reach.
THEOREM MapInvariance == Spec => []MapInv
BY MapInit, MapStep, PTL DEF Spec

-----------------------------------------------------------------------------
\* The types of SafeHashMap's state: above all, the count never becomes
\* negative, although hmap_remove takes it down after the entry has gone.
THEOREM MapTypes == Spec => []TypeOK
<1>1. MapInv => TypeOK
  <2> SUFFICES ASSUME MapInv PROVE TypeOK
    OBVIOUS
  <2>1. MonitorTypeOK
    BY DEF MapInv, MonitorInv
  <2>2. map.buckets \in [Bucket -> Seq(Pair)] /\ map.size \in Nat
    BY DEF MapInv, Maps
  <2>3. \A t \in Thread : frame[t] \in Frame
    BY DEF MapInv
  <2> QED BY <2>1, <2>2, <2>3 DEF TypeOK, Frame, Steps
<1> QED BY <1>1, MapInvariance, PTL

\* Between two writers every key is linked once, in its own list, and the
\* count of HashMap.c is the number of entries.
THEOREM Whole == Spec => []MapWhole
<1>1. MapInv => MapWhole
  <2> SUFFICES ASSUME MapInv, At("writing") = {} PROVE
        /\ \A e \in Entries(map) : get_hash[PairAt(map, e).key] = e[1]
        /\ \A e, f \in Entries(map) :
             PairAt(map, e).key = PairAt(map, f).key => e = f
        /\ map.size = Cardinality(Entries(map))
    BY DEF MapWhole
  <2>1. map \in Maps /\ Linked(map)
    BY DEF MapInv
  <2>2. ~Counting
    <3>1. SUFFICES ASSUME NEW t \in Thread, frame[t].step = "count" PROVE FALSE
      BY DEF Counting
    <3>2. frame[t].call.op \in {"insert", "remove"}
      BY <3>1 DEF MapInv, FrameOK, CountReady
    <3>3. pc[t] \in {"reading", "writing"}
      BY <3>1, PastFirst
    <3>4. pc[t] = "writing"
      BY <3>2, <3>3 DEF MapInv, FrameOK, InProtocol
    <3> QED BY <3>4 DEF At
  <2>3. map.size = Cardinality(Present(map))
    BY <2>2 DEF MapInv
  <2> QED BY <2>1, <2>3, EntriesPresent
<1> QED BY <1>1, MapInvariance, PTL

\* HashMap.h's "The map cannot be modified between calls" is kept by the
\* monitor: an iterator stays in a list of the map, passes no key twice and
\* misses none, and the array allocated from the count has room for the rest.
THEOREM Iteration == Spec => []IteratorValid
<1>1. MapInv => IteratorValid
  <2> SUFFICES ASSUME MapInv, NEW t \in Thread, frame[t].step = "iterate"
               PROVE
        LET it == frame[t].it
        IN  /\ IsSuffix(it.pair, map.buckets[it.bucket])
            /\ {p.key : p \in Ahead(map, it)} =
                 {PairAt(map, e).key : e \in Entries(map)} \ ToSet(frame[t].keys)
            /\ Len(frame[t].keys) + Cardinality(Ahead(map, it)) <= frame[t].n_keys
    BY DEF IteratorValid, Ahead
  <2>1. map \in Maps /\ Linked(map) /\ frame[t] \in Frame
    BY DEF MapInv
  <2>2. frame[t].it \in Iterator
    BY <2>1 DEF Frame
  <2>3. /\ Valid(map, frame[t].it)
        /\ KeysAhead(map, frame[t].it) = Present(map) \ ToSet(frame[t].keys)
        /\ Len(frame[t].keys) + Cardinality(KeysAhead(map, frame[t].it))
             <= frame[t].n_keys
    BY DEF MapInv, FrameOK, IterateReady
  <2>4. Cardinality(Ahead(map, frame[t].it)) = Cardinality(KeysAhead(map, frame[t].it))
    BY <2>1, <2>2, <2>3, AheadCard
  <2> QED BY <2>3, <2>4 DEF Valid, KeysAhead, Present
<1> QED BY <1>1, MapInvariance, PTL

-----------------------------------------------------------------------------
(***************************************************************************)
(* Every call takes effect at one step: an insertion when it links its     *)
(* pair, a removal when it unlinks it, a failing one when it finds that    *)
(* out, a size when it reads the count, and contents when the iterator     *)
(* comes to its end.  All other steps leave the AtomicMap as it is.        *)
(***************************************************************************)
MappingOf(m) == [k \in Present(m) |-> ValueOf(m, k)]

LEMMA MappingIs == Mapping = MappingOf(map) /\ Mapping' = MappingOf(map')
BY DEF Mapping, MappingOf, Present, ValueOf, Entries, PairAt

\* What the AtomicMap sees of a thread's step.
LEMMA FrameStep ==
  ASSUME MapInv, NEW t \in Thread, NEW g, frame' = [frame EXCEPT ![t] = g],
         NEW c, c = g.call, NEW r, r = g.result
  PROVE  /\ Pending' = [Pending EXCEPT ![t] = c]
         /\ Response' = [Response EXCEPT ![t] = r]
         /\ c = frame[t].call => Pending' = Pending
         /\ r = frame[t].result => Response' = Response
BY DEF MapInv, Pending, Response

LEMMA PendingAt ==
  ASSUME NEW t \in Thread
  PROVE  Pending[t] = frame[t].call /\ Response[t] = frame[t].result
BY DEF Pending, Response

\* A step that gives its thread a result is an answer.
LEMMA FrameResult ==
  ASSUME MapInv, NEW t \in Thread, NEW g, frame' = [frame EXCEPT ![t] = g],
         NEW w, w = g.result, g.call = frame[t].call
  PROVE  Pending' = Pending /\ Response' = [Response EXCEPT ![t] = w]
BY DEF MapInv, Pending, Response

LEMMA FrameAnswer ==
  ASSUME MapInv, NEW t \in Thread, NEW step \in {"count", "done"}, NEW r,
         frame' = [frame EXCEPT ![t].step = step, ![t].result = <<r>>],
         frame[t].step \in {"begin", "link", "iterate"}
  PROVE  Atomic!Answer(t, r)
<1>1. frame[t] \in Frame /\ frame[t].result = <<>> /\ frame \in [Thread -> Frame]
  BY DEF MapInv, FrameOK, ResultKnown
<1> DEFINE w == <<r>>
           g == [frame[t] EXCEPT !.step = step, !.result = w]
<1>2. frame' = [frame EXCEPT ![t] = g] /\ g.call = frame[t].call /\ w = g.result
  BY <1>1 DEF Frame
<1> HIDE DEF g, w
<1>3. Pending' = Pending /\ Response' = [Response EXCEPT ![t] = w]
  BY <1>2, FrameResult, Zenon
<1> QED BY <1>1, <1>3, PendingAt DEF Atomic!Answer, w

LEMMA AtomicStart == Init => Atomic!Init
<1> SUFFICES ASSUME Init PROVE Atomic!Init
  OBVIOUS
<1>1. Mapping = [k \in {} |-> NULL]
  <2>1. Present(map) = {}
    BY NewSpec DEF Init
  <2> QED BY <2>1, MappingIs DEF MappingOf
<1> QED BY <1>1 DEF Init, Atomic!Init, NoFrame, NoCall, Atomic!NoCall, Pending,
                    Response

LEMMA CallRefines ==
  ASSUME MapInv, NEW t \in Thread, NEW c \in Calls, Call(t, c)
  PROVE  Atomic!Invoke(t, c)
<1> DEFINE g == [frame[t] EXCEPT !.call = c]
<1>1. /\ pc[t] = "idle" /\ map' = map /\ frame' = [frame EXCEPT ![t].call = c]
  BY PcType, Moves DEF Call
<1>2. frame[t] \in Frame /\ frame[t] = NoFrame
  BY <1>1 DEF MapInv, FrameOK, InProtocol
<1>3. frame' = [frame EXCEPT ![t] = g] /\ c = g.call /\ frame[t].result = g.result
  BY <1>1, <1>2 DEF Frame, MapInv
<1> HIDE DEF g
<1>4. Pending' = [Pending EXCEPT ![t] = c] /\ Response' = Response
  BY <1>3, FrameStep
<1>5. Pending[t] = Atomic!NoCall
  BY <1>2, PendingAt DEF NoFrame, NoCall, Atomic!NoCall
<1>6. Mapping' = Mapping
  BY <1>1, MappingIs
<1> QED BY <1>4, <1>5, <1>6 DEF Atomic!Invoke

LEMMA ReturnRefines ==
  ASSUME MapInv, NEW t \in Thread, Return(t)
  PROVE  Atomic!Return(t)
<1>1. /\ frame[t].step = "done" /\ map' = map
      /\ frame' = [frame EXCEPT ![t] = NoFrame]
  BY DEF Return
<1>2. Response[t] # <<>>
  BY <1>1, PendingAt DEF MapInv, FrameOK, ResultKnown
<1> DEFINE c == Atomic!NoCall
           w == <<>>
<1>3. c = NoFrame.call /\ w = NoFrame.result
  BY DEF NoFrame, NoCall, Atomic!NoCall
<1> HIDE DEF c, w
<1>4. Pending' = [Pending EXCEPT ![t] = c] /\ Response' = [Response EXCEPT ![t] = w]
  BY <1>1, <1>3, FrameStep
<1>5. Mapping' = Mapping
  BY <1>1, MappingIs
<1> QED BY <1>2, <1>4, <1>5 DEF Atomic!Return, c, w

\* An insertion or a removal that fails.
LEMMA FailRefines ==
  ASSUME MapInv, NEW t \in Thread, map' = map,
         NEW op \in {"insert", "remove"}, Inside(t, op, "begin"),
         \/ op = "insert" /\ frame[t].call.value = NULL
         \/ op = "insert" /\ hmap_find(map, frame[t].call.key) # 0
         \/ op = "remove" /\ hmap_find(map, frame[t].call.key) = 0,
         Finish(t, FALSE)
  PROVE  Atomic!Insert(t) \/ Atomic!Remove(t)
<1> DEFINE c == frame[t].call
<1>1. c \in Calls /\ c.op = op /\ frame[t].step = "begin" /\ c.key \in Key
  BY InsideClass, CallFields DEF Inside
<1>2. Atomic!Answer(t, FALSE)
  BY <1>1, FrameAnswer DEF Finish
<1>3. /\ Mapping' = Mapping /\ DOMAIN Mapping = Present(map)
      /\ c.key \in Present(map) <=> hmap_find(map, c.key) # 0
  BY <1>1, MappingIs, PresentFind DEF MapInv, MappingOf
<1>4. Pending[t] = c
  BY PendingAt
<1>5. CASE op = "insert"
  BY <1>1, <1>2, <1>3, <1>4, <1>5 DEF Atomic!Insert
<1>6. CASE op = "remove"
  BY <1>1, <1>2, <1>3, <1>4, <1>6 DEF Atomic!Remove
<1> QED BY <1>5, <1>6

LEMMA LinkRefines ==
  ASSUME MapInv, NEW t \in Thread, InsertLink(t)
  PROVE  Atomic!Insert(t)
<1> DEFINE c == Pending[t]
           k == Pending[t].key
<1>1. /\ k \in Key /\ c.value \in Value /\ c.op = "insert"
      /\ c.value # NULL /\ hmap_find(map, k) = 0
      /\ map' = hmap_link(map, k, c.value, List(map, k))
      /\ frame' = [frame EXCEPT ![t].step = "count", ![t].result = <<TRUE>>]
  BY InsertLinkStep, PendingAt
<1>2. Atomic!Answer(t, TRUE)
  <2>1. frame[t].step = "link"
    BY DEF InsertLink, Inside
  <2> QED BY <1>1, <2>1, FrameAnswer
<1>3. map \in Maps /\ Linked(map)
  BY DEF MapInv
<1>4. /\ Present(map') = Present(map) \cup {k} /\ k \notin Present(map)
      /\ ValueOf(map', k) = c.value
      /\ \A j \in Present(map) : ValueOf(map', j) = ValueOf(map, j)
  BY <1>1, <1>3, LinkSpec, PresentFind
<1>5. Mapping' = [j \in DOMAIN Mapping \cup {k} |->
                    IF j = k THEN c.value ELSE Mapping[j]]
  BY <1>4, MappingIs DEF MappingOf
<1>6. k \notin DOMAIN Mapping
  BY <1>4, MappingIs DEF MappingOf
<1> QED BY <1>1, <1>2, <1>5, <1>6 DEF Atomic!Insert

LEMMA UnlinkRefines ==
  ASSUME MapInv, NEW t \in Thread, RemoveUnlink(t),
         hmap_find(map, frame[t].call.key) # 0
  PROVE  Atomic!Remove(t)
<1> DEFINE c == Pending[t]
           k == Pending[t].key
<1>1. /\ Inside(t, "remove", "begin") /\ map' = hmap_unlink(map, k)
      /\ frame' = [frame EXCEPT ![t].step = "count", ![t].result = <<TRUE>>]
  BY PendingAt DEF RemoveUnlink
<1>2. k \in Key /\ c.op = "remove" /\ frame[t].step = "begin"
  BY <1>1, InsideClass, CallFields, PendingAt DEF Inside
<1>3. Atomic!Answer(t, TRUE)
  BY <1>1, <1>2, FrameAnswer
<1>4. map \in Maps /\ Linked(map) /\ hmap_find(map, k) # 0
  BY PendingAt DEF MapInv
<1>5. /\ Present(map') = Present(map) \ {k} /\ k \in Present(map)
      /\ \A j \in Present(map') : ValueOf(map', j) = ValueOf(map, j)
  BY <1>1, <1>2, <1>4, UnlinkSpec, PresentFind
<1>6. Mapping' = [j \in DOMAIN Mapping \ {k} |-> Mapping[j]]
  BY <1>5, MappingIs DEF MappingOf
<1>7. k \in DOMAIN Mapping
  BY <1>5, MappingIs DEF MappingOf
<1> QED BY <1>2, <1>3, <1>6, <1>7 DEF Atomic!Remove

LEMMA SameCardinality == \A S : Atomic!Cardinality(S) = Cardinality(S)
BY DEF Cardinality, Atomic!Cardinality

LEMMA ReadRefines ==
  ASSUME MapInv, NEW t \in Thread,
         \/ Size(t)
         \/ ContentsNext(t) /\ ~hmap_has_next(map, frame[t].it)
  PROVE  Atomic!Size(t) \/ Atomic!Contents(t)
<1>1. Mapping' = Mapping /\ DOMAIN Mapping = Present(map)
  BY MappingIs DEF Size, ContentsNext, MappingOf
<1>2. CASE Size(t)
  <2>1. Inside(t, "size", "begin") /\ Finish(t, hmap_size(map))
    BY <1>2 DEF Size
  <2>2. Pending[t].op = "size" /\ pc[t] = "reading" /\ frame[t].step = "begin"
    BY <2>1, InsideClass, PendingAt DEF Inside
  <2>3. hmap_size(map) = Cardinality(DOMAIN Mapping)
    BY <1>1, <2>2, ReaderCounts DEF hmap_size
  <2>4. Atomic!Answer(t, Cardinality(DOMAIN Mapping))
    BY <2>1, <2>2, <2>3, FrameAnswer DEF Finish
  <2> QED BY <1>1, <2>2, <2>4, SameCardinality DEF Atomic!Size
<1>3. CASE ContentsNext(t) /\ ~hmap_has_next(map, frame[t].it)
  <2>1. Inside(t, "contents", "iterate") /\ Finish(t, ToSet(frame[t].keys))
    BY <1>3 DEF ContentsNext
  <2>2. Pending[t].op = "contents" /\ frame[t].step = "iterate"
    BY <2>1, PendingAt DEF Inside
  <2>3. ToSet(frame[t].keys) = DOMAIN Mapping
    BY <1>1, <1>3, <2>1, IterationEnds
  <2>4. Atomic!Answer(t, DOMAIN Mapping)
    BY <2>1, <2>2, <2>3, FrameAnswer DEF Finish
  <2> QED BY <1>1, <2>2, <2>4 DEF Atomic!Contents
<1> QED BY <1>2, <1>3

\* Every step of a SafeHashMap is a step of an AtomicMap or leaves it alone.
LEMMA AtomicStep == MapInv /\ [Next]_vars => [Atomic!Next]_(Atomic!vars)
<1> SUFFICES ASSUME MapInv, [Next]_vars PROVE [Atomic!Next]_(Atomic!vars)
  OBVIOUS
<1> USE DEF Atomic!vars
<1>1. ASSUME UNCHANGED <<map, frame>> PROVE UNCHANGED Atomic!vars
  BY <1>1, MappingIs DEF Pending, Response
<1>2. ASSUME NEW t \in Thread, NEW c \in Calls, Call(t, c) PROVE Atomic!Next
  BY <1>2, CallRefines DEF Atomic!Next, Calls, Atomic!Calls
<1>3. ASSUME NEW t \in Thread, Return(t) PROVE Atomic!Next
  BY <1>3, ReturnRefines DEF Atomic!Next
<1>4. ASSUME NEW t \in Thread, InsertFind(t) PROVE [Atomic!Next]_(Atomic!vars)
  <2> DEFINE c == frame[t].call
  <2>1. Inside(t, "insert", "begin") /\ map' = map
    BY <1>4 DEF InsertFind
  <2>2. CASE c.value = NULL \/ hmap_find(map, c.key) # 0
    <3>1. Finish(t, FALSE)
      BY <1>4, <2>2 DEF InsertFind
    <3> QED BY <2>1, <2>2, <3>1, FailRefines DEF Atomic!Next
  <2>3. CASE ~(c.value = NULL \/ hmap_find(map, c.key) # 0)
    <3>1. frame' = [frame EXCEPT ![t].step = "link", ![t].next = List(map, c.key)]
      BY <1>4, <2>3 DEF InsertFind
    <3> DEFINE g == [frame[t] EXCEPT !.step = "link", !.next = List(map, c.key)]
    <3>2. frame' = [frame EXCEPT ![t] = g]
      BY <3>1 DEF MapInv
    <3>3. frame[t].call = g.call /\ frame[t].result = g.result
      <4>1. frame[t] \in Frame
        BY DEF MapInv
      <4> QED BY <4>1 DEF Frame
    <3> HIDE DEF g
    <3> QED BY <2>1, <3>2, <3>3, FrameStep, MappingIs
  <2> QED BY <2>2, <2>3
<1>5. ASSUME NEW t \in Thread, InsertLink(t) PROVE Atomic!Next
  BY <1>5, LinkRefines DEF Atomic!Next
<1>6. ASSUME NEW t \in Thread, InsertCount(t) \/ RemoveCount(t)
      PROVE  UNCHANGED Atomic!vars
  <2>1. /\ map' \in {hmap_count_up(map), hmap_count_down(map)}
        /\ frame' = [frame EXCEPT ![t].step = "done"]
    BY <1>6 DEF InsertCount, RemoveCount
  <2>2. Mapping' = Mapping
    BY <2>1, CountSpec, MappingIs DEF MappingOf, MapInv
  <2> DEFINE g == [frame[t] EXCEPT !.step = "done"]
  <2>3. frame' = [frame EXCEPT ![t] = g]
    BY <2>1 DEF MapInv
  <2>4. frame[t].call = g.call /\ frame[t].result = g.result
    <3>1. frame[t] \in Frame
      BY DEF MapInv
    <3> QED BY <3>1 DEF Frame
  <2> HIDE DEF g
  <2> QED BY <2>2, <2>3, <2>4, FrameStep
<1>7. ASSUME NEW t \in Thread, RemoveUnlink(t) PROVE Atomic!Next
  <2>1. CASE hmap_find(map, frame[t].call.key) = 0
    <3>1. Inside(t, "remove", "begin") /\ map' = map /\ Finish(t, FALSE)
      BY <1>7, <2>1 DEF RemoveUnlink
    <3> QED BY <2>1, <3>1, FailRefines DEF Atomic!Next
  <2>2. CASE hmap_find(map, frame[t].call.key) # 0
    BY <1>7, <2>2, UnlinkRefines DEF Atomic!Next
  <2> QED BY <2>1, <2>2
<1>8. ASSUME NEW t \in Thread, Size(t) PROVE Atomic!Next
  BY <1>8, ReadRefines DEF Atomic!Next
<1>9. ASSUME NEW t \in Thread, ContentsAllocate(t) PROVE UNCHANGED Atomic!vars
  <2>1. /\ map' = map
        /\ frame' = [frame EXCEPT ![t].step = "iterate",
                                  ![t].n_keys = hmap_size(map),
                                  ![t].it = hmap_iterator(map)]
    BY <1>9 DEF ContentsAllocate
  <2> DEFINE g == [frame[t] EXCEPT !.step = "iterate", !.n_keys = hmap_size(map),
                                   !.it = hmap_iterator(map)]
  <2>2. frame' = [frame EXCEPT ![t] = g]
    BY <2>1 DEF MapInv
  <2>3. frame[t].call = g.call /\ frame[t].result = g.result
    <3>1. frame[t] \in Frame
      BY DEF MapInv
    <3> QED BY <3>1 DEF Frame
  <2> HIDE DEF g
  <2> QED BY <2>1, <2>2, <2>3, FrameStep, MappingIs
<1>10. ASSUME NEW t \in Thread, ContentsNext(t) PROVE [Atomic!Next]_(Atomic!vars)
  <2>1. CASE ~hmap_has_next(map, frame[t].it)
    BY <1>10, <2>1, ReadRefines DEF Atomic!Next
  <2>2. CASE hmap_has_next(map, frame[t].it)
    <3> DEFINE g == [frame[t] EXCEPT
                       !.keys = Append(@, hmap_next_key(map, frame[t].it)),
                       !.it = hmap_next_it(map, frame[t].it)]
    <3>1. /\ map' = map
          /\ frame' = [frame EXCEPT
                         ![t].keys = Append(@, hmap_next_key(map, frame[t].it)),
                         ![t].it = hmap_next_it(map, frame[t].it)]
      BY <1>10, <2>2 DEF ContentsNext
    <3>2. frame' = [frame EXCEPT ![t] = g]
      BY <3>1 DEF MapInv
    <3>3. frame[t].call = g.call /\ frame[t].result = g.result
      <4>1. frame[t] \in Frame
        BY DEF MapInv
      <4> QED BY <4>1 DEF Frame
    <3> HIDE DEF g
    <3> QED BY <3>1, <3>2, <3>3, FrameStep, MappingIs
  <2> QED BY <2>1, <2>2
<1>11. ASSUME NEW t \in Thread, Resume(t) \/ Spurious(t)
       PROVE  UNCHANGED <<map, frame>>
  BY <1>11 DEF Resume, Spurious
<1> HIDE DEF Atomic!vars
<1>12. CASE UNCHANGED vars
  BY <1>1, <1>12 DEF vars
<1>13. CASE Next
  BY <1>1, <1>2, <1>3, <1>4, <1>5, <1>6, <1>7, <1>8, <1>9, <1>10, <1>11, <1>13
     DEF Next, Work
<1> QED BY <1>12, <1>13

\* The calls of SafeHashMap.c are atomic: whatever the interleaving of their
\* accesses, the map behaves as an AtomicMap.
THEOREM Atomicity == Spec => ImplementsAtomicMap
BY AtomicStart, AtomicStep, MapInvariance, PTL
   DEF Spec, ImplementsAtomicMap, Atomic!Spec
=============================================================================
