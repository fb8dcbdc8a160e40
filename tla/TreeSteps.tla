------------------------------ MODULE TreeSteps -------------------------------
(***************************************************************************)
(* The steps of a thread that has not come to its list: for each action a  *)
(* lemma ...Step says that it keeps Inv, of any folders, frames and calls. *)
(***************************************************************************)
EXTENDS TreeInvariant

-----------------------------------------------------------------------------
(* Lock and Wake: a thread at the mutex of a folder.                       *)

SameButAt(f, g) ==
  /\ g.role = f.role /\ g.walk = f.walk /\ g.cur = f.cur /\ g.next = f.next /\ g.rest = f.rest
  /\ g.skip = f.skip /\ g.shared = f.shared /\ g.source = f.source
  /\ g.target_parent = f.target_parent /\ g.todo = f.todo

Ats ==
  {"lock", "sleep", "count", "private", "flag", "get", "leave", "body", "unlink", "maps",
   "left", "right", "transfer", "discard", "discarding", "calm"}

LEMMA WithAt ==
  ASSUME NEW f \in FrameType, NEW a \in Ats, NEW g, g = [f EXCEPT !.at = a]
  PROVE  g \in FrameType /\ g.at = a /\ SameButAt(f, g) /\ Going(g)
<1>1. g \in FrameType /\ g.at = a /\ SameButAt(f, g)
  BY DEF FrameType, Ats, SameButAt
<1> QED BY <1>1 DEF Going, Ats

LEMMA GoingAt ==
  ASSUME NEW c, NEW f, FrameOK(c, f), Going(f)
  PROVE  f.at \in Ats
BY GoingIs DEF Going, Ats, FrameType

\* Chains that fit.
LEMMA ChainsFit ==
  ASSUME NEW nd, NEW c, NEW g, NEW k, Going(g), DOMAIN k.chain = 1 .. 3,
         \A i \in 1 .. 3 : IsChain(nd, k.chain[i], Bottom(nd, g, i), Top(g, i)),
         k.chain[1] \cap k.chain[2] = {}, k.chain[1] \cap k.chain[3] = {},
         k.chain[2] \cap k.chain[3] = {}, Pending(g) \notin Counts(k),
         g.at = "leave" /\ g.next # NULL => nd[g.next].parent = g.cur,
         Moving(g) => \A i \in {1, 2} : \A n \in k.chain[i] :
           nd[n].parent = g.shared => nd[n].name = Branch(c, i),
         Moving(g) /\ Pending(g) # NULL
           => (nd[Pending(g)].parent = g.shared => nd[Pending(g)].name = Branch(c, WalkSlot(g)))
  PROVE  ChainsOK(nd, c, g, k)
<1>1. Slots(g) = 1 .. 3 /\ g.at # "todo"
  BY DEF Slots, Going
<1>2. \A i, j \in 1 .. 3 : i # j => k.chain[i] \cap k.chain[j] = {}
  BY SMT
<1> QED BY <1>1, <1>2 DEF ChainsOK

LEMMA ChainsSame ==
  ASSUME NEW nd, NEW c, NEW f, NEW g, NEW k, Going(f), Going(g), FrameOK(c, f), ChainsOK(nd, c, f, k),
         Bottom(nd, g, 1) = Bottom(nd, f, 1), Bottom(nd, g, 2) = Bottom(nd, f, 2),
         Bottom(nd, g, 3) = Bottom(nd, f, 3),
         Moving(f) <=> Moving(g), g.shared = f.shared, g.at # "leave",
         Pending(g) = NULL \/ (Pending(g) = Pending(f) /\ WalkSlot(g) = WalkSlot(f))
  PROVE  ChainsOK(nd, c, g, k)
<1>1. /\ DOMAIN k.chain = 1 .. 3
      /\ k.chain[1] \cap k.chain[2] = {} /\ k.chain[1] \cap k.chain[3] = {} /\ k.chain[2] \cap k.chain[3] = {}
      /\ \A i \in 1 .. 3 : IsChain(nd, k.chain[i], Bottom(nd, f, i), Top(f, i))
      /\ \A i \in 1 .. 3 : k.chain[i] \subseteq NodeId
      /\ Counts(k) = k.chain[1] \cup k.chain[2] \cup k.chain[3]
      /\ Pending(f) \notin Counts(k)
  BY GoingChains
<1>2. Top(g, 1) = Top(f, 1) /\ Top(g, 2) = Top(f, 2) /\ Top(g, 3) = Top(f, 3)
  <2>1. CASE Moving(f)
    BY <2>1, BottomsMoving
  <2>2. CASE ~Moving(f)
    BY <2>2, BottomsStill
  <2> QED BY <2>1, <2>2
<1>3. \A i \in 1 .. 3 : IsChain(nd, k.chain[i], Bottom(nd, g, i), Top(g, i))
  <2> SUFFICES ASSUME NEW i \in 1 .. 3 PROVE IsChain(nd, k.chain[i], Bottom(nd, g, i), Top(g, i))
    OBVIOUS
  <2>1. Bottom(nd, g, i) = Bottom(nd, f, i) /\ Top(g, i) = Top(f, i)
    BY <1>2
  <2> QED BY <1>1, <2>1
<1>4. Pending(g) \notin Counts(k)
  <2>1. NULL \notin Counts(k)
    BY <1>1, TreeAssumption
  <2> QED BY <1>1, <2>1
<1>5. Moving(g) => \A i \in {1, 2} : \A n \in k.chain[i] :
        nd[n].parent = g.shared => nd[n].name = Branch(c, i)
  BY DEF ChainsOK
<1>6. Moving(g) /\ Pending(g) # NULL
        => (nd[Pending(g)].parent = g.shared => nd[Pending(g)].name = Branch(c, WalkSlot(g)))
  BY DEF ChainsOK
<1> QED BY <1>1, <1>3, <1>4, <1>5, <1>6, ChainsFit

\* Within a preliminary protocol.
LEMMA LockFrame ==
  ASSUME NEW c, NEW f, NEW g, FrameOK(c, f), Going(f), g \in FrameType, SameButAt(f, g),
         f.at \in {"lock", "sleep", "count", "private"}, InLock(g), g.at = "private" => IsWriter(f)
  PROVE  FrameOK(c, g)
<1>1. c \in Calls /\ GoingOK(c, f)
  BY GoingIs
<1>2. /\ InLock(f) /\ (Leading(f) <=> Leading(g)) /\ (Moving(f) <=> Moving(g))
      /\ g.at \in {"lock", "sleep", "count", "private", "flag"} /\ (IsWriter(f) <=> IsWriter(g))
  BY DEF InLock, Leading, Moving, SameButAt, IsWriter
<1>4. PathBeyond(c, f.walk) = PathBeyond(c, g.walk)
  BY DEF SameButAt
<1>5. GoingOK(c, g)
  BY <1>1, <1>2 DEF GoingOK, SameButAt, Gone
<1>6. g.at # "idle" /\ g.at # "todo"
  BY <1>2
<1> QED BY <1>1, <1>5, <1>6 DEF FrameOK

LEMMA LockChains ==
  ASSUME NEW nd, NEW c, NEW f, NEW g, NEW k, FrameOK(c, f), ChainsOK(nd, c, f, k), Going(f), Going(g),
         SameButAt(f, g), InLock(f), InLock(g), Ahead(f) <=> Ahead(g)
  PROVE  ChainsOK(nd, c, g, k)
<1>1. /\ Moving(f) <=> Moving(g)
      /\ HasSource(f) <=> HasSource(g)
      /\ HasTarget(f) <=> HasTarget(g)
      /\ Here(nd, g) = Here(nd, f) /\ WalkSlot(g) = WalkSlot(f)
      /\ g.walk = f.walk /\ g.source = f.source /\ g.target_parent = f.target_parent /\ g.shared = f.shared
      /\ g.at # "leave" /\ f.at # "leave"
      /\ Pending(g) = Pending(f)
  BY DEF SameButAt, Moving, HasSource, HasTarget, Here, WalkSlot, Pending, InLock
<1>2. Bottom(nd, g, 1) = Bottom(nd, f, 1) /\ Bottom(nd, g, 2) = Bottom(nd, f, 2) /\ Bottom(nd, g, 3) = Bottom(nd, f, 3)
  <2>1. CASE Moving(f)
    BY <2>1, <1>1, BottomsMoving
  <2>2. CASE ~Moving(f)
    BY <2>2, <1>1, BottomsStill
  <2> QED BY <2>1, <2>2
<1> QED BY <1>1, <1>2, ChainsSame

LEMMA MapsNone ==
  ASSUME NEW nd, NEW c, NEW f, NEW k,
         f.at \notin {"todo", "right", "transfer", "discard", "discarding", "calm"}
  PROVE  MapsOK(nd, c, f, k) <=> k.maps = {}
BY DEF MapsOK

LEMMA LockLocal ==
  ASSUME NEW nd, NEW c, NEW f, NEW g, NEW k, Local(nd, c, f, k), g \in FrameType,
         SameButAt(f, g), f.at \in {"lock", "sleep", "private"},
         g.at \in {"lock", "sleep", "count", "private", "flag"}, g.at = "private" => IsWriter(f),
         Ahead(f) <=> Ahead(g)
  PROVE  Local(nd, c, g, k)
<1>1. FrameOK(c, f) /\ ChainsOK(nd, c, f, k) /\ MapsOK(nd, c, f, k) /\ Going(f) /\ Going(g) /\ InLock(f) /\ InLock(g)
  BY DEF Local, Going, InLock
<1>2. FrameOK(c, g)
  BY <1>1, LockFrame
<1>3. ChainsOK(nd, c, g, k)
  BY <1>1, LockChains
<1>4. MapsOK(nd, c, g, k)
  <2>1. k.maps = {}
    BY <1>1, MapsNone
  <2> QED BY <2>1, MapsNone
<1> QED BY <1>2, <1>3, <1>4 DEF Local

\* The summary of a thread that has not come to its list.
LEMMA GoingSummary ==
  ASSUME NEW c, NEW f, NEW k, NEW s, s = Summary(c, f, k), Going(f), f.cur \in NodeId
  PROVE  /\ s.reads = Reads(f) /\ s.writes = Writes(f) /\ s.counts = Counts(k) /\ s.maps = k.maps
         /\ f.at \notin {"left", "right"} => s.moveLock = {}
         /\ f.at \in {"left", "right"} => s.moveLock = {f.shared}
         /\ Ahead(f) => s.pending = f.cur
         /\ f.at = "leave" => s.pending = f.next
         /\ ~Ahead(f) /\ f.at # "leave" => s.pending = NULL
         /\ f.at # "sleep" => s.asReader = {} /\ s.asWriter = {}
         /\ f.at = "sleep" /\ IsWriter(f) => s.asReader = {} /\ s.asWriter = {f.cur}
         /\ f.at = "sleep" /\ ~IsWriter(f) => s.asReader = {f.cur} /\ s.asWriter = {}
         /\ f.at = "private" => s.inPrivate = {f.cur}
         /\ f.at \notin {"private", "discarding"} => s.inPrivate = {}
         /\ s.place = <<f.target_parent, TargetName(c.target)>>
<1>1. f.at \notin {"idle", "todo"}
  BY DEF Going
<1>2. s.inPrivate = SleepsInPrivate(f) /\ s.asReader = SleepsAsReader(f) /\ s.asWriter = SleepsAsWriter(f)
      /\ s.pending = Pending(f)
  BY SummaryIs
<1>3. s.asReader = SleepsAsReader(f) /\ (f.at # "sleep" => SleepsAsReader(f) = {} /\ SleepsAsWriter(f) = {})
  BY <1>2 DEF SleepsAsReader, SleepsAsWriter
<1>4. /\ f.at = "sleep" /\ IsWriter(f) => s.asReader = {} /\ s.asWriter = {f.cur}
      /\ f.at = "sleep" /\ ~IsWriter(f) => s.asReader = {f.cur} /\ s.asWriter = {}
  BY <1>2 DEF SleepsAsReader, SleepsAsWriter
<1>5. /\ f.at = "private" => s.inPrivate = {f.cur}
      /\ f.at \notin {"private", "discarding"} => s.inPrivate = {}
  BY <1>2 DEF SleepsInPrivate
<1>6. /\ Ahead(f) => s.pending = f.cur
      /\ f.at = "leave" => s.pending = f.next
      /\ ~Ahead(f) /\ f.at # "leave" => s.pending = NULL
  BY <1>2 DEF Pending, Ahead
<1> QED BY <1>2, <1>3, <1>4, <1>5, <1>6, SummaryIs

\* ... and what it owns and takes.
LEMMA TakingSummary ==
  ASSUME NEW c, NEW f, NEW k, NEW s, s = Summary(c, f, k), Going(f), f.cur \in NodeId
  PROVE  /\ f.at \notin {"unlink", "discard", "discarding", "calm"} =>
              s.moves = {} /\ s.removes = {} /\ s.unlinks = {}
         /\ f.at \notin {"body", "unlink", "discard", "discarding", "calm"} =>
              /\ HasSource(f) => s.owns = {f.source}
              /\ ~HasSource(f) => s.owns = {}
         /\ f.at \notin {"discarding", "calm"} => s.flags = {} /\ s.vacates = {}
         /\ f.at # "flag" => s.acquires = {} /\ s.goesAway = {}
         /\ f.at = "flag" => s.goesAway = {f.cur} /\ s.passesOn = {f.cur}
         /\ f.at = "flag" /\ IsWriter(f) => s.acquires = {f.cur}
         /\ f.at = "flag" /\ ~IsWriter(f) => s.acquires = {}
         /\ f.at = "count" => s.passesOn = {f.cur}
         /\ f.at \notin {"count", "flag"} => s.passesOn = {}
<1>1. f.at \notin {"idle", "todo"}
  BY DEF Going
<1>2. /\ s.moves = Moves(f) /\ s.removes = Removes(f) /\ s.unlinks = Unlinks(f)
      /\ s.flags = Flags(f) /\ s.vacates = Vacates(f)
      /\ s.owns = Owns(f) /\ s.acquires = Acquires(f)
      /\ s.goesAway = GoesAway(f, k) /\ s.passesOn = PassesOn(f, k)
  BY SummaryIs
<1>3. f.at \notin {"discard", "discarding", "calm"} => Moves(f) = {} /\ Removes(f) = {}
  BY <1>1 DEF Moves, Removes, Gone
<1>4. f.at \notin {"unlink", "discard", "discarding", "calm"} => Unlinks(f) = {}
  BY <1>3 DEF Unlinks
<1>5. f.at \notin {"discarding", "calm"} => Flags(f) = {} /\ Vacates(f) = {}
  BY <1>1 DEF Flags, Vacates
<1>6. /\ f.at # "flag" => Acquires(f) = {} /\ GoesAway(f, k) = {}
      /\ f.at = "flag" => GoesAway(f, k) = {f.cur} /\ PassesOn(f, k) = {f.cur}
      /\ f.at = "flag" /\ IsWriter(f) => Acquires(f) = {f.cur}
      /\ f.at = "flag" /\ ~IsWriter(f) => Acquires(f) = {}
      /\ f.at = "count" => PassesOn(f, k) = {f.cur}
      /\ f.at \notin {"count", "flag"} => PassesOn(f, k) = {}
  BY <1>1 DEF Acquires, GoesAway, PassesOn
<1>7. f.at \notin {"body", "unlink", "discard", "discarding", "calm"} =>
        (HasSource(f) => Owns(f) = {f.source}) /\ (~HasSource(f) => Owns(f) = {})
  BY DEF Owns
<1> QED BY <1>2, <1>3, <1>4, <1>5, <1>6, <1>7

LEMMA OwnsSummary ==
  ASSUME NEW c, NEW f, NEW k, NEW s, s = Summary(c, f, k), Going(f), f.cur \in NodeId,
         f.at \notin {"body", "unlink", "discard", "discarding", "calm"}
  PROVE  (HasSource(f) => s.owns = {f.source}) /\ (~HasSource(f) => s.owns = {})
BY TakingSummary

LEMMA SleepSummary ==
  ASSUME NEW c, NEW f, NEW k, NEW s, s = Summary(c, f, k), f.at = "sleep", f.cur \in NodeId
  PROVE  /\ s.pending = f.cur /\ s.inPrivate = {}
         /\ IsWriter(f) => s.asReader = {} /\ s.asWriter = {f.cur}
         /\ ~IsWriter(f) => s.asReader = {f.cur} /\ s.asWriter = {}
<1>1. Going(f) /\ Ahead(f)
  BY DEF Going, Ahead
<1> QED BY <1>1, GoingSummary

LEMMA SameTreePlaces ==
  ASSUME NEW nd, NEW nd2, SameTree(nd, nd2)
  PROVE  \A X : SamePlaces(nd, nd2, X)
BY DEF SameTree, SamePlaces

\* A step of t that leaves the tree as it is.
LEMMA Settle ==
  ASSUME NEW nd, NEW cl, NEW fr, NEW an, NEW K, NEW dp, Inv(nd, cl, fr, an, K, dp),
         NEW t \in Thread, fr[t].at # "idle", NEW nd2, NEW g, NEW k, NEW dp2,
         nd2 \in [NodeId -> NodeType], Local(nd, cl[t], g, k), SameTree(nd, nd2),
         Global(nd2, With(Summaries(cl, fr, K), t, Summary(cl[t], g, k)), dp2)
  PROVE  \E K2, e : Inv(nd2, cl, [fr EXCEPT ![t] = g], an, K2, e)
<1>1. t \in DOMAIN cl /\ an[t] = None
  BY DEF Inv
<1>2. Local(nd2, cl[t], g, k)
  BY SameTreePlaces, LocalStable
<1>3. \A u \in Thread \ {t} : SamePlaces(nd, nd2, Counts(K[u]) \cup {Pending(fr[u])})
  BY SameTreePlaces
<1> QED BY <1>1, <1>2, <1>3, Assemble

\* What a step within a preliminary protocol does not touch.
LEMMA LockSteps ==
  ASSUME NEW nd, NEW c, NEW f, NEW g, NEW k, NEW k2, Local(nd, c, f, k), Local(nd, c, g, k2), SameButAt(f, g),
         f.at \in {"lock", "sleep", "count", "private"}, InLock(g),
         NEW s, NEW s2, s = Summary(c, f, k), s2 = Summary(c, g, k2)
  PROVE  /\ SameHeld(s, s2) /\ s2.unlinks = s.unlinks /\ s2.owns = s.owns
         /\ s.goesAway = {} /\ s.acquires = {}
         /\ f.at # "count" => s.passesOn = {}
         /\ g.at # "flag" => s2.acquires = {}
         /\ KeptReads(g) = KeptReads(f) /\ KeptWrites(g) = KeptWrites(f) /\ (IsWriter(f) <=> IsWriter(g))
<1>1. Going(f) /\ Going(g) /\ InLock(f) /\ FrameOK(c, f) /\ FrameOK(c, g) /\ g.at \in {"lock", "sleep", "count", "private", "flag"}
  BY DEF Going, InLock, Local
<1>2. f.cur \in NodeId /\ g.cur \in NodeId
  BY <1>1, GoingIs
<1>3. /\ (HasSource(f) <=> HasSource(g)) /\ (HasTarget(f) <=> HasTarget(g)) /\ (IsWriter(f) <=> IsWriter(g))
      /\ (Moving(f) <=> Moving(g))
      /\ g.source = f.source /\ g.shared = f.shared /\ g.target_parent = f.target_parent
  BY <1>1 DEF SameButAt, HasSource, HasTarget, Moving, IsWriter
<1>4. k.maps = {} /\ k2.maps = {}
  BY <1>1, MapsNone DEF Local
<1>5. /\ s.moveLock = {} /\ s2.moveLock = {} /\ s.maps = {} /\ s2.maps = {} /\ s.place = s2.place
  BY <1>1, <1>2, <1>3, <1>4, GoingSummary
<1>6. /\ s.moves = {} /\ s.removes = {} /\ s.unlinks = {} /\ s2.moves = {} /\ s2.removes = {} /\ s2.unlinks = {}
      /\ s.flags = {} /\ s.vacates = {} /\ s2.flags = {} /\ s2.vacates = {}
  BY <1>1, <1>2, TakingSummary
<1>7. s2.owns = s.owns
  <2>1. f.at \notin {"body", "unlink", "discard", "discarding", "calm"}
        /\ g.at \notin {"body", "unlink", "discard", "discarding", "calm"}
    BY <1>1
  <2>2. CASE HasSource(f)
    <3>1. s.owns = {f.source} /\ s2.owns = {g.source}
      BY <2>1, <2>2, <1>1, <1>2, <1>3, OwnsSummary
    <3> QED BY <3>1, <1>3
  <2>3. CASE ~HasSource(f)
    BY <2>1, <2>3, <1>1, <1>2, <1>3, OwnsSummary
  <2> QED BY <2>2, <2>3
<1>8. /\ s.goesAway = {} /\ s.acquires = {} /\ (f.at # "count" => s.passesOn = {})
      /\ (g.at # "flag" => s2.acquires = {})
  BY <1>1, <1>2, TakingSummary
<1>9. KeptReads(g) = KeptReads(f) /\ KeptWrites(g) = KeptWrites(f)
  BY <1>3 DEF KeptReads, KeptWrites
<1> QED BY <1>3, <1>5, <1>6, <1>7, <1>8, <1>9 DEF SameHeld, SameTaking

\* node_reader_preliminary_protocol and node_writer_preliminary_protocol: to sleep, ...
LEMMA SleepStep ==
  ASSUME NEW nd, NEW cl, NEW fr, NEW an, NEW K, NEW dp, Inv(nd, cl, fr, an, K, dp),
         NEW t \in Thread, NEW f, f = fr[t], f.at = "lock",
         NEW g \in FrameType, SameButAt(f, g), g.at = "sleep", NEW nd2, NEW m2,
         m2 = IF IsWriter(f) THEN WriterSleep(nd[f.cur], t) ELSE ReaderSleep(nd[f.cur], t),
         nd2 = [nd EXCEPT ![f.cur] = m2]
  PROVE  \E K2, e : Inv(nd2, cl, [fr EXCEPT ![t] = g], an, K2, e)
<1> PICK S, c, k : S = Summaries(cl, fr, K) /\ c = cl[t] /\ k = K[t]
  OBVIOUS
<1>1. Good(nd, S, dp) /\ Local(nd, c, f, k) /\ S[t] = Summary(c, f, k)
  BY InvGood
<1>2. f \in FrameType /\ Going(f) /\ f.cur \in NodeId
  <2>1. Going(f) /\ FrameOK(c, f)
    BY <1>1 DEF Going, Local
  <2> QED BY <2>1, GoingIs
<1>3. g \in FrameType /\ g.at = "sleep" /\ SameButAt(f, g) /\ Going(g) /\ g.cur = f.cur
  BY DEF Going, SameButAt
<1>4. Local(nd, c, g, k)
  <2>1. Ahead(f) /\ Ahead(g)
    BY <1>3 DEF Ahead
  <2> QED BY <2>1, <1>1, <1>3, LockLocal
<1> PICK s, s2, S2, n : s = S[t] /\ s2 = Summary(c, g, k) /\ S2 = With(S, t, s2) /\ n = f.cur
  OBVIOUS
<1>5. Others(S, S2, t) /\ S2[t] = s2
  BY WithIs
<1>6. /\ SameHeld(s, s2) /\ s2.unlinks = s.unlinks /\ s2.owns = s.owns
      /\ s.goesAway = {} /\ s.acquires = {} /\ s.passesOn = {} /\ s2.acquires = {}
      /\ KeptReads(g) = KeptReads(f) /\ KeptWrites(g) = KeptWrites(f) /\ (IsWriter(f) <=> IsWriter(g))
  <2>1. InLock(g) /\ s = Summary(c, f, k) /\ f.at \in {"lock", "sleep", "count", "private"}
        /\ f.at # "count" /\ g.at # "flag"
    BY <1>1, <1>3 DEF InLock
  <2>2. s2 = Summary(c, g, k)
    OBVIOUS
  <2> QED BY ONLY <2>1, <2>2, <1>1, <1>3, <1>4, LockSteps
<1>7. Reads(g) = Reads(f) /\ Writes(g) = Writes(f)
  <2>1. ~Inside(f) /\ ~Inside(g)
    BY <1>3 DEF Inside
  <2>2. Reads(g) = KeptReads(g) /\ Writes(g) = KeptWrites(g)
    BY <2>1, <1>2, <1>3, UsesAre
  <2>3. Reads(f) = KeptReads(f) /\ Writes(f) = KeptWrites(f)
    BY <2>1, <1>2, UsesAre
  <2> QED BY <2>2, <2>3, <1>6
<1>8. /\ SameUse(s, s2) /\ s2.pending = s.pending
      /\ s.asReader = {} /\ s.asWriter = {} /\ s.inPrivate = {} /\ s2.inPrivate = {}
      /\ IsWriter(f) => s2.asReader = {} /\ s2.asWriter = {n}
      /\ ~IsWriter(f) => s2.asReader = {n} /\ s2.asWriter = {}
  <2>1. /\ s.reads = Reads(f) /\ s.writes = Writes(f) /\ s.counts = Counts(k)
        /\ s.pending = f.cur /\ s.asReader = {} /\ s.asWriter = {} /\ s.inPrivate = {}
    BY <1>1, <1>2, GoingSummary DEF Ahead
  <2>2. /\ s2.reads = Reads(g) /\ s2.writes = Writes(g) /\ s2.counts = Counts(k)
        /\ s2.pending = f.cur /\ s2.inPrivate = {}
        /\ IsWriter(f) => s2.asReader = {} /\ s2.asWriter = {n}
        /\ ~IsWriter(f) => s2.asReader = {n} /\ s2.asWriter = {}
    <3>1. Ahead(g) /\ g.cur \in NodeId /\ g.cur = n
      BY <1>2, <1>3 DEF Ahead
    <3>0. s2 = Summary(c, g, k)
      OBVIOUS
    <3>2. s2.reads = Reads(g) /\ s2.writes = Writes(g) /\ s2.counts = Counts(k)
      BY ONLY <3>0, <3>1, <1>3, GoingSummary
    <3>3. s2.pending = n /\ s2.inPrivate = {} /\ (IsWriter(g) => s2.asReader = {} /\ s2.asWriter = {n})
          /\ (~IsWriter(g) => s2.asReader = {n} /\ s2.asWriter = {})
      BY ONLY <3>0, <3>1, <1>3, SleepSummary
    <3> QED BY <3>1, <3>2, <3>3, <1>6
  <2> QED BY <2>1, <2>2, <1>7 DEF SameUse
<1>9. KeepsPrivacy(nd, s, s2)
  BY <1>6 DEF KeepsPrivacy, OwnedIn
<1>10. At(nd, nd2, S, S2, t, n, m2, dp)
  BY <1>1, <1>5, <1>6 DEF At
<1>11. Global(nd2, S2, dp) /\ nd2 \in [NodeId -> NodeType] /\ SameTree(nd, nd2)
  <2>1. n \in NodeId
    BY <1>2
  <2>4. S[t] = s /\ S2[t] = s2 /\ t \in Thread
    BY <1>5
  <2>2. CASE IsWriter(f)
    <3>1. m2 = WriterSleep(nd[n], t)
      BY <2>2
    <3> QED BY ONLY <3>1, <2>1, <2>2, <2>4, <1>8, <1>9, <1>10, GSleepWriter
  <2>3. CASE ~IsWriter(f)
    <3>1. m2 = ReaderSleep(nd[n], t)
      BY <2>3
    <3> QED BY ONLY <3>1, <2>1, <2>3, <2>4, <1>8, <1>9, <1>10, GSleepReader
  <2> QED BY <2>2, <2>3
<1>12. fr[t].at # "idle"
  OBVIOUS
<1> QED BY <1>4, <1>11, <1>12, Settle

\* ... or in.
LEMMA EnterStep ==
  ASSUME NEW nd, NEW cl, NEW fr, NEW an, NEW K, NEW dp, Inv(nd, cl, fr, an, K, dp),
         NEW t \in Thread, NEW f, f = fr[t], f.at = "lock",
         NEW g \in FrameType, SameButAt(f, g), g.at = "count", NEW nd2, NEW m2,
         IsWriter(f) => ~NodeWriterMustWait(nd[f.cur]) /\ m2 \in WriterEnter(nd[f.cur]),
         ~IsWriter(f) => ~NodeReaderMustWait(nd[f.cur]) /\ m2 \in ReaderEnter(nd[f.cur]),
         nd2 = [nd EXCEPT ![f.cur] = m2]
  PROVE  \E K2, e : Inv(nd2, cl, [fr EXCEPT ![t] = g], an, K2, e)
<1> PICK S, c, k : S = Summaries(cl, fr, K) /\ c = cl[t] /\ k = K[t]
  OBVIOUS
<1>1. Good(nd, S, dp) /\ Local(nd, c, f, k) /\ S[t] = Summary(c, f, k) /\ \A u \in Thread : One(S[u])
  BY InvGood
<1>2. f \in FrameType /\ Going(f) /\ f.cur \in NodeId /\ Ahead(f)
  <2>1. Going(f) /\ FrameOK(c, f) /\ Ahead(f)
    BY <1>1 DEF Going, Local, Ahead
  <2> QED BY <2>1, GoingIs
<1>3. g \in FrameType /\ g.at = "count" /\ SameButAt(f, g) /\ Going(g) /\ g.cur = f.cur /\ Ahead(g)
  BY DEF Going, SameButAt, Ahead
<1>4. Local(nd, c, g, k)
  BY <1>1, <1>2, <1>3, LockLocal
<1> PICK s, s2, S2, n : s = S[t] /\ s2 = Summary(c, g, k) /\ S2 = With(S, t, s2) /\ n = f.cur
  OBVIOUS
<1>5. Others(S, S2, t) /\ S2[t] = s2
  BY WithIs
<1>6. /\ SameHeld(s, s2) /\ s2.unlinks = s.unlinks /\ s2.owns = s.owns
      /\ s.goesAway = {} /\ s.acquires = {} /\ s.passesOn = {} /\ s2.acquires = {}
      /\ KeptReads(g) = KeptReads(f) /\ KeptWrites(g) = KeptWrites(f) /\ (IsWriter(f) <=> IsWriter(g))
  <2>1. InLock(g) /\ s = Summary(c, f, k) /\ f.at \in {"lock", "sleep", "count", "private"}
        /\ f.at # "count" /\ g.at # "flag"
    BY <1>1, <1>3 DEF InLock
  <2>2. s2 = Summary(c, g, k)
    OBVIOUS
  <2> QED BY ONLY <2>1, <2>2, <1>1, <1>3, <1>4, LockSteps
<1>7. Reads(f) = KeptReads(f) /\ Writes(f) = KeptWrites(f)
  <2>1. ~Inside(f)
    BY DEF Inside
  <2> QED BY <2>1, <1>2, UsesAre
<1>8. /\ IsWriter(f) => Reads(g) = Reads(f) /\ Writes(g) = Writes(f) \cup {n}
      /\ ~IsWriter(f) => Reads(g) = Reads(f) \cup {n} /\ Writes(g) = Writes(f)
  <2>1. Inside(g)
    BY <1>3 DEF Inside
  <2> QED BY <2>1, <1>2, <1>3, <1>6, <1>7, UsesAre
<1>9. /\ s.reads = Reads(f) /\ s.writes = Writes(f) /\ s.counts = Counts(k)
      /\ s.pending = n /\ s.asReader = {} /\ s.asWriter = {} /\ s.inPrivate = {}
  BY <1>1, <1>2, GoingSummary
<1>10. /\ s2.reads = Reads(g) /\ s2.writes = Writes(g) /\ s2.counts = Counts(k)
       /\ s2.pending = n /\ s2.asReader = {} /\ s2.asWriter = {} /\ s2.inPrivate = {} /\ s2.passesOn = {n}
  <2>1. s2 = Summary(c, g, k) /\ g.cur \in NodeId /\ g.cur = n
    BY <1>2, <1>3
  <2> QED BY ONLY <2>1, <1>3, GoingSummary, TakingSummary
<1>11. n \notin KeptReads(f) \cup KeptWrites(f)
  <2>1. FrameOK(c, f) /\ ChainsOK(nd, c, f, k)
    BY <1>1 DEF Local
  <2>2. n \notin Counts(k)
    <3>1. Pending(f) = n
      BY <1>2 DEF Pending
    <3> QED BY <3>1, <2>1, <1>2, GoingChains
  <2>3. KeptReads(f) \cup KeptWrites(f) \subseteq Counts(k)
    <3>1. CASE ~Moving(f)
      BY <3>1, KeptStill
    <3>2. CASE Moving(f)
      <4>1. /\ f.shared \in Counts(k) /\ (HasSource(f) => f.source \in Counts(k))
            /\ HasTarget(f) => f.target_parent \in Counts(k)
        BY <3>2, <2>1, <1>2, MovingPlaces, GoingChains
      <4> QED BY <4>1 DEF KeptReads, KeptWrites
    <3> QED BY <3>1, <3>2
  <2> QED BY <2>2, <2>3
<1>12. /\ SameSleep(s, s2) /\ s2.counts = s.counts /\ s2.pending = s.pending /\ s.pending = n
       /\ n \notin s.reads /\ n \notin s.writes /\ n \in s2.passesOn
       /\ IsWriter(f) => s2.reads = s.reads /\ s2.writes = s.writes \cup {n}
       /\ ~IsWriter(f) => s2.reads = s.reads \cup {n} /\ s2.writes = s.writes
  <2>1. n \notin s.reads /\ n \notin s.writes /\ n \in s2.passesOn
    BY <1>7, <1>9, <1>10, <1>11
  <2> QED BY <2>1, <1>8, <1>9, <1>10 DEF SameSleep
<1>13. KeepsPrivacy(nd, s, s2)
  BY <1>6 DEF KeepsPrivacy, OwnedIn
<1>14. At(nd, nd2, S, S2, t, n, m2, dp)
  BY <1>1, <1>5, <1>6 DEF At
<1>15. Global(nd2, S2, dp) /\ nd2 \in [NodeId -> NodeType] /\ SameTree(nd, nd2)
  <2>1. n \in NodeId
    BY <1>2
  <2>4. S[t] = s /\ S2[t] = s2 /\ t \in Thread /\ \A u \in Thread : u # t => One(S[u])
    BY <1>1, <1>5
  <2>2. CASE IsWriter(f)
    <3>1. m2 \in WriterEnter(nd[n]) /\ ~NodeWriterMustWait(nd[n])
      BY <2>2
    <3> QED BY ONLY <3>1, <2>1, <2>2, <2>4, <1>12, <1>13, <1>14, GEnterWriter
  <2>3. CASE ~IsWriter(f)
    <3>1. m2 \in ReaderEnter(nd[n]) /\ ~NodeReaderMustWait(nd[n])
      BY <2>3
    <3> QED BY ONLY <3>1, <2>1, <2>3, <2>4, <1>12, <1>13, <1>14, GEnterReader
  <2> QED BY <2>2, <2>3
<1>16. fr[t].at # "idle"
  OBVIOUS
<1> QED BY <1>4, <1>15, <1>16, Settle

\* Up again, with the look that it will take still ahead.
LEMMA AwakeStep ==
  ASSUME NEW nd, NEW cl, NEW fr, NEW an, NEW K, NEW dp, Inv(nd, cl, fr, an, K, dp),
         NEW t \in Thread, NEW f, f = fr[t], f.at = "sleep",
         NEW g \in FrameType, SameButAt(f, g), g.at = "lock", NEW nd2, NEW m2,
         t \notin nd[f.cur].readers \cup nd[f.cur].writers,
         m2 = IF IsWriter(f) THEN WriterAwake(nd[f.cur]) ELSE ReaderAwake(nd[f.cur]),
         nd2 = [nd EXCEPT ![f.cur] = m2]
  PROVE  \E K2, e : Inv(nd2, cl, [fr EXCEPT ![t] = g], an, K2, e)
<1> PICK S, c, k : S = Summaries(cl, fr, K) /\ c = cl[t] /\ k = K[t]
  OBVIOUS
<1>1. Good(nd, S, dp) /\ Local(nd, c, f, k) /\ S[t] = Summary(c, f, k)
  BY InvGood
<1>2. f \in FrameType /\ Going(f) /\ f.cur \in NodeId
  <2>1. Going(f) /\ FrameOK(c, f)
    BY <1>1 DEF Going, Local
  <2> QED BY <2>1, GoingIs
<1>3. g \in FrameType /\ g.at = "lock" /\ SameButAt(f, g) /\ Going(g) /\ g.cur = f.cur
  BY DEF Going, SameButAt
<1>4. Local(nd, c, g, k)
  <2>1. Ahead(f) /\ Ahead(g)
    BY <1>3 DEF Ahead
  <2> QED BY <2>1, <1>1, <1>3, LockLocal
<1> PICK s, s2, S2, n : s = S[t] /\ s2 = Summary(c, g, k) /\ S2 = With(S, t, s2) /\ n = f.cur
  OBVIOUS
<1>5. Others(S, S2, t) /\ S2[t] = s2
  BY WithIs
<1>6. /\ SameHeld(s, s2) /\ s2.unlinks = s.unlinks /\ s2.owns = s.owns
      /\ s.goesAway = {} /\ s.acquires = {} /\ s.passesOn = {} /\ s2.acquires = {}
      /\ KeptReads(g) = KeptReads(f) /\ KeptWrites(g) = KeptWrites(f) /\ (IsWriter(f) <=> IsWriter(g))
  <2>1. InLock(g) /\ s = Summary(c, f, k) /\ f.at \in {"lock", "sleep", "count", "private"}
        /\ f.at # "count" /\ g.at # "flag"
    BY <1>1, <1>3 DEF InLock
  <2>2. s2 = Summary(c, g, k)
    OBVIOUS
  <2> QED BY ONLY <2>1, <2>2, <1>1, <1>3, <1>4, LockSteps
<1>7. Reads(g) = Reads(f) /\ Writes(g) = Writes(f)
  <2>1. ~Inside(f) /\ ~Inside(g)
    BY <1>3 DEF Inside
  <2>2. Reads(g) = KeptReads(g) /\ Writes(g) = KeptWrites(g)
    BY <2>1, <1>2, <1>3, UsesAre
  <2>3. Reads(f) = KeptReads(f) /\ Writes(f) = KeptWrites(f)
    BY <2>1, <1>2, UsesAre
  <2> QED BY <2>2, <2>3, <1>6
<1>8. /\ SameUse(s, s2) /\ s2.pending = s.pending
      /\ s2.asReader = {} /\ s2.asWriter = {} /\ s.inPrivate = {} /\ s2.inPrivate = {}
      /\ IsWriter(f) => s.asReader = {} /\ s.asWriter = {n}
      /\ ~IsWriter(f) => s.asReader = {n} /\ s.asWriter = {}
  <2>1. /\ s2.reads = Reads(g) /\ s2.writes = Writes(g) /\ s2.counts = Counts(k)
        /\ s2.pending = n /\ s2.asReader = {} /\ s2.asWriter = {} /\ s2.inPrivate = {}
    <3>1. s2 = Summary(c, g, k) /\ g.cur \in NodeId /\ g.cur = n /\ Ahead(g)
      BY <1>2, <1>3 DEF Ahead
    <3> QED BY ONLY <3>1, <1>3, GoingSummary
  <2>2. /\ s.reads = Reads(f) /\ s.writes = Writes(f) /\ s.counts = Counts(k)
    BY <1>1, <1>2, GoingSummary
  <2>3. /\ s.pending = n /\ s.inPrivate = {}
        /\ IsWriter(f) => s.asReader = {} /\ s.asWriter = {n}
        /\ ~IsWriter(f) => s.asReader = {n} /\ s.asWriter = {}
    BY <1>1, <1>2, SleepSummary
  <2> QED BY <2>1, <2>2, <2>3, <1>7 DEF SameUse
<1>9. KeepsPrivacy(nd, s, s2)
  BY <1>6 DEF KeepsPrivacy, OwnedIn
<1>10. At(nd, nd2, S, S2, t, n, m2, dp)
  BY <1>1, <1>5, <1>6 DEF At
<1>11. Global(nd2, S2, dp) /\ nd2 \in [NodeId -> NodeType] /\ SameTree(nd, nd2)
  <2>1. n \in NodeId
    BY <1>2
  <2>4. S[t] = s /\ S2[t] = s2 /\ t \in Thread /\ t \notin nd[n].readers /\ t \notin nd[n].writers
    BY <1>5
  <2>2. CASE IsWriter(f)
    <3>1. m2 = WriterAwake(nd[n])
      BY <2>2
    <3> QED BY ONLY <3>1, <2>1, <2>2, <2>4, <1>8, <1>9, <1>10, GAwakeWriter
  <2>3. CASE ~IsWriter(f)
    <3>1. m2 = ReaderAwake(nd[n])
      BY <2>3
    <3> QED BY ONLY <3>1, <2>1, <2>3, <2>4, <1>8, <1>9, <1>10, GAwakeReader
  <2> QED BY <2>2, <2>3
<1>12. fr[t].at # "idle"
  OBVIOUS
<1> QED BY <1>4, <1>11, <1>12, Settle

-----------------------------------------------------------------------------
(* Count and Recount.                                                      *)

\* The walk's chain ends where the walk is, or is about to be counted.
LEMMA WalkBottom ==
  ASSUME NEW nd, NEW c, NEW f, FrameOK(c, f), Going(f), InLock(f) \/ Leading(f)
  PROVE  /\ Bottom(nd, f, WalkSlot(f)) = Here(nd, f) /\ WalkSlot(f) \in 1 .. 3
         /\ Moving(f) => Top(f, WalkSlot(f)) = f.shared /\ WalkSlot(f) # 3
         /\ ~Moving(f) => Top(f, WalkSlot(f)) = NULL
         /\ f.walk = "source" => ~HasSource(f)
         /\ f.walk = "target" => ~HasTarget(f)
<1>1. GoingOK(c, f)
  BY GoingIs
<1>2. CASE ~Moving(f)
  BY <1>2, BottomsStill DEF Moving
<1>3. CASE f.walk = "source"
  <2>1. ~HasSource(f)
    BY <1>1, <1>3 DEF GoingOK, HasSource, Leading, InLock, Moving
  <2>2. Moving(f)
    BY <1>3 DEF Moving
  <2> QED BY <2>1, <2>2, <1>3, BottomsMoving
<1>4. CASE f.walk = "target"
  <2>1. ~HasTarget(f)
    BY <1>1, <1>4 DEF GoingOK, HasTarget, Leading, InLock, Moving
  <2>2. Moving(f)
    BY <1>4 DEF Moving
  <2> QED BY <2>1, <2>2, <1>4, BottomsMoving
<1> QED BY <1>2, <1>3, <1>4 DEF Moving

Longer(k, k2, w, n) ==
  /\ w \in 1 .. 3 /\ DOMAIN k.chain = 1 .. 3 /\ DOMAIN k2.chain = 1 .. 3 /\ k2.maps = k.maps
  /\ k2.chain[w] = k.chain[w] \cup {n}
  /\ \A i \in 1 .. 3 : i # w => k2.chain[i] = k.chain[i]

LEMMA LongerCounts ==
  ASSUME NEW k, NEW k2, NEW w, NEW n, Longer(k, k2, w, n)
  PROVE  Counts(k2) = Counts(k) \cup {n}
<1>1. \A i \in 1 .. 3 : k2.chain[i] \subseteq k.chain[i] \cup {n} /\ k.chain[i] \subseteq k2.chain[i]
  BY DEF Longer
<1>2. n \in k2.chain[w] /\ w \in DOMAIN k2.chain
  BY DEF Longer
<1>3. DOMAIN k.chain = 1 .. 3 /\ DOMAIN k2.chain = 1 .. 3
  BY DEF Longer
<1> QED BY <1>1, <1>2, <1>3 DEF Counts

LEMMA CountChains ==
  ASSUME NEW nd, NEW c, NEW f, NEW g, NEW k, FrameOK(c, f), ChainsOK(nd, c, f, k), f.at = "count",
         FrameOK(c, g), SameButAt(f, g), g.at \in {"private", "flag"},
         NEW k2, Longer(k, k2, WalkSlot(f), f.cur)
  PROVE  ChainsOK(nd, c, g, k2)
<1>1. /\ Going(f) /\ Going(g) /\ InLock(f) /\ InLock(g) /\ Ahead(f) /\ ~Ahead(g)
      /\ g.at \notin {"idle", "todo", "leave"}
  BY DEF Going, InLock, Ahead
<1>2. f.cur \in NodeId /\ f.cur # NULL
  BY <1>1, GoingIs, TreeAssumption
<1>3. /\ DOMAIN k.chain = 1 .. 3
      /\ k.chain[1] \cap k.chain[2] = {} /\ k.chain[1] \cap k.chain[3] = {} /\ k.chain[2] \cap k.chain[3] = {}
      /\ \A i \in 1 .. 3 : IsChain(nd, k.chain[i], Bottom(nd, f, i), Top(f, i))
      /\ Counts(k) = k.chain[1] \cup k.chain[2] \cup k.chain[3]
      /\ f.cur \notin Counts(k)
  <2>1. Pending(f) = f.cur
    BY <1>1 DEF Pending
  <2> QED BY <2>1, <1>1, GoingChains
<1> PICK w, n : w = WalkSlot(f) /\ n = f.cur
  OBVIOUS
<1>4. /\ (Moving(f) <=> Moving(g)) /\ (HasSource(f) <=> HasSource(g)) /\ (HasTarget(f) <=> HasTarget(g))
      /\ WalkSlot(g) = w /\ Here(nd, g) = n /\ Here(nd, f) = nd[n].parent
      /\ g.walk = f.walk /\ g.source = f.source /\ g.target_parent = f.target_parent /\ g.shared = f.shared
      /\ Pending(g) = NULL /\ Pending(f) = n
  BY <1>1 DEF SameButAt, Moving, HasSource, HasTarget, Here, WalkSlot, Pending
<1>5. /\ w \in 1 .. 3 /\ Bottom(nd, f, w) = nd[n].parent /\ Bottom(nd, g, w) = n
      /\ Top(f, w) = Top(g, w) /\ Top(f, w) # n
  <2>1. /\ w \in 1 .. 3 /\ Bottom(nd, f, w) = nd[n].parent
        /\ Moving(f) => Top(f, w) = f.shared
        /\ ~Moving(f) => Top(f, w) = NULL
    BY <1>1, <1>4, WalkBottom
  <2>2. /\ Bottom(nd, g, w) = n
        /\ Moving(f) => Top(g, w) = f.shared
        /\ ~Moving(f) => Top(g, w) = NULL
    BY <1>1, <1>4, WalkBottom
  <2>3. Moving(f) => f.shared # n
    BY <1>1, <1>3, MovingPlaces
  <2> QED BY <2>1, <2>2, <2>3, <1>2
<1>6. \A i \in 1 .. 3 : i # w => Bottom(nd, g, i) = Bottom(nd, f, i) /\ Top(g, i) = Top(f, i)
  <2> SUFFICES ASSUME NEW i \in 1 .. 3, i # w
               PROVE  Bottom(nd, g, i) = Bottom(nd, f, i) /\ Top(g, i) = Top(f, i)
    OBVIOUS
  <2>1. CASE ~Moving(f)
    BY <2>1, <1>1, <1>4, BottomsStill
  <2>2. CASE Moving(f)
    <3>1. i \in {1, 2, 3}
      OBVIOUS
    <3>2. w = IF f.walk = "source" THEN 1 ELSE 2
      BY <2>2, <1>1, BottomsMoving
    <3>3. f.walk # "source" => f.walk = "target"
      BY <2>2 DEF Moving
    <3> QED BY <3>1, <3>2, <3>3, <2>2, <1>1, <1>4, BottomsMoving
  <2> QED BY <2>1, <2>2
<1>7. /\ DOMAIN k2.chain = 1 .. 3 /\ k2.chain[w] = k.chain[w] \cup {n}
      /\ \A i \in 1 .. 3 : i # w => k2.chain[i] = k.chain[i]
  BY DEF Longer
<1>8. \A i \in 1 .. 3 : IsChain(nd, k2.chain[i], Bottom(nd, g, i), Top(g, i))
  <2> SUFFICES ASSUME NEW i \in 1 .. 3 PROVE IsChain(nd, k2.chain[i], Bottom(nd, g, i), Top(g, i))
    OBVIOUS
  <2>1. CASE i # w
    BY <2>1, <1>3, <1>6, <1>7
  <2>2. CASE i = w
    <3>1. IsChain(nd, k.chain[w], nd[n].parent, Top(g, w)) /\ n \notin k.chain[w] /\ n \in NodeId /\ n # Top(g, w)
      BY <1>2, <1>3, <1>5
    <3>2. IsChain(nd, k.chain[w] \cup {n}, n, Top(g, w))
      BY ONLY <3>1, ChainAdd
    <3> QED BY <3>2, <2>2, <1>5, <1>7
  <2> QED BY <2>1, <2>2
<1>9. /\ k2.chain[1] \cap k2.chain[2] = {} /\ k2.chain[1] \cap k2.chain[3] = {} /\ k2.chain[2] \cap k2.chain[3] = {}
  <2>1. n \notin k.chain[1] /\ n \notin k.chain[2] /\ n \notin k.chain[3]
    BY <1>3
  <2>2. w = 1 \/ w = 2 \/ w = 3
    BY <1>5
  <2>3. 1 \in 1 .. 3 /\ 2 \in 1 .. 3 /\ 3 \in 1 .. 3
    OBVIOUS
  <2> QED BY <2>1, <2>2, <2>3, <1>3, <1>7
<1>10. Pending(g) \notin Counts(k2)
  <2>1. Counts(k2) = Counts(k) \cup {n}
    BY LongerCounts
  <2>2. NULL \notin Counts(k)
    <3>1. \A i \in 1 .. 3 : k.chain[i] \subseteq NodeId
      BY <1>3 DEF IsChain
    <3> QED BY <3>1, <1>3, TreeAssumption
  <2> QED BY <2>1, <2>2, <1>2, <1>4
<1>11. Moving(g) => \A i \in {1, 2} : \A x \in k2.chain[i] :
         nd[x].parent = g.shared => nd[x].name = Branch(c, i)
  <2> SUFFICES ASSUME Moving(g), NEW i \in {1, 2}, NEW x \in k2.chain[i], nd[x].parent = g.shared
               PROVE  nd[x].name = Branch(c, i)
    OBVIOUS
  <2>1. CASE x \in k.chain[i]
    BY <2>1, <1>1, <1>4 DEF ChainsOK
  <2>2. CASE x \notin k.chain[i]
    <3>1. i = w /\ x = n
      BY <2>2, <1>7
    <3> QED BY <3>1, <1>1, <1>2, <1>4 DEF ChainsOK
  <2> QED BY <2>1, <2>2
<1> QED BY <1>1, <1>4, <1>7, <1>8, <1>9, <1>10, <1>11, ChainsFit

LEMMA CountLocal ==
  ASSUME NEW nd, NEW c, NEW f, NEW g, NEW k, Local(nd, c, f, k), f.at = "count", g \in FrameType,
         SameButAt(f, g), g.at \in {"private", "flag"}, g.at = "private" => IsWriter(f)
  PROVE  \E k2 : Local(nd, c, g, k2) /\ Longer(k, k2, WalkSlot(f), f.cur)
<1>1. FrameOK(c, f) /\ ChainsOK(nd, c, f, k) /\ MapsOK(nd, c, f, k) /\ Going(f) /\ InLock(f) /\ InLock(g)
  BY DEF Local, Going, InLock
<1>2. FrameOK(c, g)
  BY <1>1, LockFrame
<1>3. k.maps = {} /\ DOMAIN k.chain = 1 .. 3 /\ WalkSlot(f) \in 1 .. 3
  BY <1>1, MapsNone, GoingChains, WalkBottom
<1> PICK w, n, k2 :
      /\ w = WalkSlot(f) /\ n = f.cur
      /\ k2 = [chain |-> [i \in 1 .. 3 |-> IF i = w THEN k.chain[i] \cup {n} ELSE k.chain[i]], maps |-> {}]
  OBVIOUS
<1>4. Longer(k, k2, w, n)
  BY <1>3 DEF Longer
<1>5. ChainsOK(nd, c, g, k2)
  BY <1>1, <1>2, <1>4, CountChains
<1>6. MapsOK(nd, c, g, k2)
  <2>1. k2.maps = {}
    BY <1>3
  <2> QED BY <2>1, MapsNone
<1> QED BY <1>2, <1>4, <1>5, <1>6 DEF Local

Awaiting(nd, s, s2, n, waits) ==
  /\ SameUse(s, s2) /\ s2.pending = s.pending /\ SameHeld(s, s2) /\ s2.unlinks = s.unlinks
  /\ s2.owns = s.owns /\ s2.asReader = s.asReader /\ s2.asWriter = s.asWriter
  /\ s.goesAway \subseteq s2.goesAway /\ s.passesOn \subseteq s2.passesOn
  /\ s.inPrivate \subseteq {n} /\ s.acquires = {}
  /\ waits => s2.inPrivate = {n} /\ s2.acquires = {}
  /\ ~waits => s2.inPrivate = {} /\ s2.acquires \subseteq {n}
  /\ ~waits /\ s2.acquires = {n} => n \in s.counts /\ n \in s.writes /\ ~SubtreeBusy(nd[n])

\* The wait to be the only thread, or its end.
LEMMA GAwait ==
  ASSUME NEW nd, NEW nd2, NEW S, NEW S2, NEW t \in Thread, NEW dp, Good(nd, S, dp), Others(S, S2, t),
         NEW n \in NodeId, NEW waits, Awaiting(nd, S[t], S2[t], n, waits), t \notin nd[n].private_access,
         waits => nd2 = [nd EXCEPT ![n] = SleepPrivate(nd[n], t)],
         ~waits => nd2 = [nd EXCEPT ![n] = nd[n]]
  PROVE  Global(nd2, S2, dp) /\ nd2 \in [NodeId -> NodeType] /\ SameTree(nd, nd2)
<1> PICK s, s2 : s = S[t] /\ s2 = S2[t]
  OBVIOUS
<1>1. Awaiting(nd, s, s2, n, waits)
  OBVIOUS
<1>2. CASE waits
  <2> PICK m2 : m2 = SleepPrivate(nd[n], t)
    OBVIOUS
  <2>1. At(nd, nd2, S, S2, t, n, m2, dp)
    <3>1. nd2 = [nd EXCEPT ![n] = m2]
      BY <1>2
    <3>2. SameHeld(S[t], S2[t]) /\ S2[t].unlinks = S[t].unlinks
      BY <1>1 DEF Awaiting
    <3> QED BY <3>1, <3>2 DEF At
  <2>2. KeepsPrivacy(nd, s, s2)
    BY <1>1, <1>2 DEF KeepsPrivacy, OwnedIn, Awaiting
  <2>3. /\ SameUse(s, s2) /\ s2.pending = s.pending /\ s.inPrivate \subseteq {n} /\ s2.inPrivate = {n}
        /\ s2.asReader = s.asReader /\ s2.asWriter = s.asWriter
    BY <1>1, <1>2 DEF Awaiting
  <2>4. S[t] = s /\ S2[t] = s2 /\ m2 = SleepPrivate(nd[n], t) /\ t \in Thread /\ n \in NodeId
    OBVIOUS
  <2> QED BY ONLY <2>1, <2>2, <2>3, <2>4, GPrivate
<1>3. CASE ~waits
  <2>1. nd2 = nd /\ nd \in [NodeId -> NodeType]
    BY <1>3 DEF Good
  <2>2. Global(nd, S2, dp)
    <3>1. /\ SameUse(s, s2) /\ s2.pending = s.pending /\ SameHeld(s, s2) /\ s2.unlinks = s.unlinks
          /\ s2.asReader = s.asReader /\ s2.asWriter = s.asWriter
          /\ s.inPrivate \subseteq {n} /\ s2.inPrivate = {}
          /\ s2.owns = s.owns /\ s2.acquires \subseteq {n}
          /\ s2.acquires = {n} => n \in s.counts /\ n \in s.writes /\ ~SubtreeBusy(nd[n])
          /\ \A x \in NodeId :
              /\ x \in s.goesAway => x \in s2.goesAway
              /\ x \in s.passesOn => x \in s2.passesOn
      BY <1>1, <1>3 DEF Awaiting
    <3>2. S[t] = s /\ S2[t] = s2 /\ t \in Thread /\ n \in NodeId /\ t \notin nd[n].private_access
          /\ Good(nd, S, dp) /\ Others(S, S2, t)
      OBVIOUS
    <3> QED BY ONLY <3>1, <3>2, GAcquire
  <2>3. SameTree(nd, nd)
    BY DEF SameTree
  <2> QED BY <2>1, <2>2, <2>3
<1> QED BY <1>2, <1>3

\* A summary without the sleep and without the claim.
LEMMA Masked ==
  ASSUME NEW c, NEW f, NEW k, NEW s, s = Summary(c, f, k)
  PROVE  \E m : /\ SameUse(s, m) /\ m.pending = s.pending /\ SameHeld(s, m) /\ SameHeld(m, s)
                /\ SameUse(m, s)
                /\ m.unlinks = s.unlinks /\ m.owns = s.owns /\ m.asReader = s.asReader
                /\ m.asWriter = s.asWriter /\ m.goesAway = s.goesAway /\ m.passesOn = s.passesOn
                /\ m.inPrivate = {} /\ m.acquires = {}
                /\ Typed(s) => Typed(m)
<1> PICK m : m = [reads |-> s.reads, writes |-> s.writes, counts |-> s.counts,
   pending |-> s.pending, maps |-> s.maps, moveLock |-> s.moveLock,
   asReader |-> s.asReader, asWriter |-> s.asWriter, inPrivate |-> {},
   moves |-> s.moves, removes |-> s.removes, unlinks |-> s.unlinks,
   flags |-> s.flags, vacates |-> s.vacates,
   owns |-> s.owns, acquires |-> {},
   goesAway |-> s.goesAway, passesOn |-> s.passesOn, place |-> s.place]
  OBVIOUS
<1>1. /\ SameUse(s, m) /\ m.pending = s.pending /\ SameHeld(s, m) /\ SameHeld(m, s) /\ SameUse(m, s)
      /\ m.unlinks = s.unlinks /\ m.owns = s.owns /\ m.asReader = s.asReader
      /\ m.asWriter = s.asWriter /\ m.goesAway = s.goesAway /\ m.passesOn = s.passesOn
      /\ m.inPrivate = {} /\ m.acquires = {}
  BY DEF SameUse, SameHeld, SameTaking
<1>2. Typed(s) => Typed(m)
  BY DEF Typed
<1> QED BY <1>1, <1>2

\* Within the protocol, once it has passed the readers-writers part.
LEMMA InsideSame ==
  ASSUME NEW f, NEW g, Going(f), Going(g), f.cur \in NodeId, SameButAt(f, g), Inside(f), Inside(g),
         KeptReads(g) = KeptReads(f), KeptWrites(g) = KeptWrites(f)
  PROVE  /\ Reads(g) = Reads(f) /\ Writes(g) = Writes(f)
         /\ f.cur \in Reads(f) \cup Writes(f) /\ (IsWriter(f) => f.cur \in Writes(f))
<1>1. g.cur = f.cur /\ (IsWriter(f) <=> IsWriter(g)) /\ g.cur \in NodeId
  BY DEF SameButAt, IsWriter
<1>2. CASE IsWriter(f)
  <2>1. Reads(f) = KeptReads(f) /\ Writes(f) = KeptWrites(f) \cup {f.cur}
    BY <1>2, UsesAre
  <2>2. Reads(g) = KeptReads(g) /\ Writes(g) = KeptWrites(g) \cup {g.cur}
    BY <1>1, <1>2, UsesAre
  <2> QED BY <2>1, <2>2, <1>1
<1>3. CASE ~IsWriter(f)
  <2>1. Reads(f) = KeptReads(f) \cup {f.cur} /\ Writes(f) = KeptWrites(f)
    BY <1>3, UsesAre
  <2>2. Reads(g) = KeptReads(g) \cup {g.cur} /\ Writes(g) = KeptWrites(g)
    BY <1>1, <1>3, UsesAre
  <2> QED BY <2>1, <2>2, <1>1, <1>3
<1> QED BY <1>2, <1>3

\* node_thread_counter's first part: counted, and alone or not.
LEMMA CountStep ==
  ASSUME NEW nd, NEW cl, NEW fr, NEW an, NEW K, NEW dp, Inv(nd, cl, fr, an, K, dp),
         NEW t \in Thread, NEW f, f = fr[t], f.at = "count",
         NEW waits, NEW m1, NEW m2, NEW nd2, m1 = CountIn(nd[f.cur]),
         waits <=> IsWriter(f) /\ SubtreeBusy(m1),
         waits => m2 = SleepPrivate(m1, t), ~waits => m2 = m1, nd2 = [nd EXCEPT ![f.cur] = m2],
         NEW g \in FrameType, SameButAt(f, g), waits => g.at = "private", ~waits => g.at = "flag"
  PROVE  \E K2, e : Inv(nd2, cl, [fr EXCEPT ![t] = g], an, K2, e)
<1> PICK S, c, k, n : S = Summaries(cl, fr, K) /\ c = cl[t] /\ k = K[t] /\ n = f.cur
  OBVIOUS
<1>1. Good(nd, S, dp) /\ Local(nd, c, f, k) /\ S[t] = Summary(c, f, k) /\ nd \in [NodeId -> NodeType]
  BY InvGood DEF Good
<1>2. f \in FrameType /\ Going(f) /\ f.cur \in NodeId /\ Ahead(f) /\ FrameOK(c, f) /\ ChainsOK(nd, c, f, k) /\ Inside(f)
  <2>1. Going(f) /\ FrameOK(c, f) /\ Ahead(f) /\ ChainsOK(nd, c, f, k) /\ Inside(f)
    BY <1>1 DEF Going, Local, Ahead, Inside
  <2> QED BY <2>1, GoingIs
<1>3. /\ g \in FrameType /\ g.at \in {"private", "flag"} /\ SameButAt(f, g) /\ Going(g) /\ g.cur = f.cur
      /\ ~Ahead(g) /\ InLock(g) /\ Inside(g) /\ (g.at = "private" => IsWriter(f) /\ waits) /\ g.at # "leave"
  BY DEF Going, SameButAt, Ahead, InLock, Inside
<1> PICK k2 : Local(nd, c, g, k2) /\ Longer(k, k2, WalkSlot(f), n)
  BY <1>1, <1>3, CountLocal
<1> PICK s, s2 : s = S[t] /\ s2 = Summary(c, g, k2)
  OBVIOUS
<1> PICK s1 :
      /\ SameUse(s2, s1) /\ s1.pending = s2.pending /\ SameHeld(s2, s1) /\ SameHeld(s1, s2) /\ SameUse(s1, s2)
      /\ s1.unlinks = s2.unlinks /\ s1.owns = s2.owns /\ s1.asReader = s2.asReader
      /\ s1.asWriter = s2.asWriter /\ s1.goesAway = s2.goesAway /\ s1.passesOn = s2.passesOn
      /\ s1.inPrivate = {} /\ s1.acquires = {} /\ (Typed(s2) => Typed(s1))
  BY Masked
<1>5. Typed(s2)
  BY LocalOne
<1> PICK S1, S2, nd1 : S1 = With(S, t, s1) /\ S2 = With(S, t, s2) /\ nd1 = [nd EXCEPT ![n] = m1]
  OBVIOUS
<1>6. Others(S, S1, t) /\ S1[t] = s1 /\ Others(S, S2, t) /\ S2[t] = s2 /\ Others(S1, S2, t)
  <2>1. Others(S, S1, t) /\ S1[t] = s1 /\ Others(S, S2, t) /\ S2[t] = s2
    BY WithIs
  <2> QED BY <2>1 DEF Others
<1>7. /\ SameHeld(s, s2) /\ s2.unlinks = s.unlinks /\ s2.owns = s.owns
      /\ s.goesAway = {} /\ s.acquires = {}
      /\ KeptReads(g) = KeptReads(f) /\ KeptWrites(g) = KeptWrites(f) /\ (IsWriter(f) <=> IsWriter(g))
  <2>1. s = Summary(c, f, k) /\ f.at \in {"lock", "sleep", "count", "private"} /\ s2 = Summary(c, g, k2)
    BY <1>1
  <2> QED BY ONLY <2>1, <1>1, <1>3, Local(nd, c, g, k2), LockSteps
<1>8. Reads(g) = Reads(f) /\ Writes(g) = Writes(f) /\ n \in Reads(f) \cup Writes(f) /\ (IsWriter(f) => n \in Writes(f))
  BY <1>2, <1>3, <1>7, InsideSame
<1>9. /\ s.reads = Reads(f) /\ s.writes = Writes(f) /\ s.counts = Counts(k)
      /\ s.pending = n /\ s.asReader = {} /\ s.asWriter = {} /\ s.inPrivate = {} /\ s.passesOn = {n}
  BY <1>1, <1>2, GoingSummary, TakingSummary
<1>10. /\ s2.reads = Reads(g) /\ s2.writes = Writes(g) /\ s2.counts = Counts(k2) /\ s2.pending = NULL
       /\ s2.asReader = {} /\ s2.asWriter = {}
       /\ g.at = "private" => s2.inPrivate = {n} /\ s2.acquires = {}
       /\ g.at = "flag" => /\ s2.inPrivate = {} /\ s2.goesAway = {n} /\ s2.passesOn = {n}
                           /\ s2.acquires \subseteq {n} /\ (s2.acquires = {n} => IsWriter(f))
  <2>1. s2 = Summary(c, g, k2) /\ g.cur \in NodeId /\ g.cur = n
    BY <1>2, <1>3
  <2>2. /\ s2.reads = Reads(g) /\ s2.writes = Writes(g) /\ s2.counts = Counts(k2) /\ s2.pending = NULL
        /\ s2.asReader = {} /\ s2.asWriter = {}
        /\ g.at = "private" => s2.inPrivate = {n}
        /\ g.at = "flag" => s2.inPrivate = {}
    BY ONLY <2>1, <1>3, GoingSummary
  <2>3. /\ g.at = "private" => s2.acquires = {}
        /\ g.at = "flag" => s2.goesAway = {n} /\ s2.passesOn = {n}
        /\ g.at = "flag" /\ IsWriter(g) => s2.acquires = {n}
        /\ g.at = "flag" /\ ~IsWriter(g) => s2.acquires = {}
    BY ONLY <2>1, <1>3, TakingSummary
  <2>4. g.at = "flag" => s2.acquires \subseteq {n} /\ (s2.acquires = {n} => IsWriter(f))
    BY <2>3, <1>7
  <2> QED BY <2>2, <2>3, <2>4
<1>11. Counts(k2) = Counts(k) \cup {n} /\ n \notin Counts(k)
  <2>1. Pending(f) = n
    BY <1>2 DEF Pending
  <2> QED BY <2>1, <1>2, LongerCounts, GoingChains
<1>12. nd[n].emergency_pass => g.at = "flag"
  <2>1. waits => ~m1.emergency_pass
    BY DEF SubtreeBusy
  <2>2. nd[n] \in NodeType
    BY <1>1, <1>2
  <2>3. m1.emergency_pass = nd[n].emergency_pass
    BY <2>2 DEF CountIn, NodeType
  <2> QED BY <2>1, <2>3, <1>3
<1>13. Global(nd1, S1, dp) /\ nd1 \in [NodeId -> NodeType] /\ SameTree(nd, nd1)
  <2>1. SameHeld(s, s1) /\ s1.unlinks = s.unlinks
    BY <1>7 DEF SameHeld, SameTaking
  <2>2. At(nd, nd1, S, S1, t, n, m1, dp)
    BY <2>1, <1>1, <1>6 DEF At
  <2>3. /\ s1.counts = s.counts \cup {n} /\ s.pending = n /\ s1.pending = NULL /\ n \notin s.counts
        /\ s1.reads = s.reads /\ s1.writes = s.writes /\ n \in s.reads \cup s.writes
    BY <1>8, <1>9, <1>10, <1>11 DEF SameUse
  <2>4. SameSleep(s, s1)
    BY <1>9, <1>10 DEF SameSleep
  <2>5. nd[n].emergency_pass => n \in s1.goesAway
    BY <1>10, <1>12
  <2>6. KeepsPrivacy(nd, s, s1)
    BY <1>7, <1>9, <1>10, <1>12 DEF KeepsPrivacy, OwnedIn
  <2>7. S[t] = s /\ S1[t] = s1 /\ t \in Thread /\ n \in NodeId /\ m1 = CountIn(nd[n])
    BY <1>2, <1>6
  <2> QED BY ONLY <2>2, <2>3, <2>4, <2>5, <2>6, <2>7, GCount
<1>14. Good(nd1, S1, dp) /\ t \notin nd1[n].private_access
  <2>1. \A u \in Thread : Typed(S1[u])
    BY <1>1, <1>5, <1>6 DEF Good, Others
  <2>2. SleepersOf(nd1[n], n, S1)
    BY <1>2, <1>13 DEF Global, Sleepers
  <2>3. n \notin S1[t].inPrivate
    BY <1>6
  <2> QED BY <2>1, <2>2, <2>3, <1>13 DEF Good, SleepersOf
<1>15. Awaiting(nd1, s1, s2, n, waits)
  <2>1. nd1[n] = m1
    BY <1>1, <1>2
  <2>2. waits => s2.inPrivate = {n} /\ s2.acquires = {}
    BY <1>10
  <2>3. ~waits => s2.inPrivate = {} /\ s2.acquires \subseteq {n}
    BY <1>10
  <2>4. ~waits /\ s2.acquires = {n} => n \in s1.counts /\ n \in s1.writes /\ ~SubtreeBusy(m1)
    BY <1>8, <1>10, <1>11 DEF SameUse
  <2> QED BY <2>1, <2>2, <2>3, <2>4 DEF Awaiting
<1>16. Global(nd2, S2, dp) /\ nd2 \in [NodeId -> NodeType] /\ SameTree(nd1, nd2)
  <2>1. nd1[n] = m1 /\ n \in NodeId
    BY <1>1, <1>2
  <2>2. /\ waits => nd2 = [nd1 EXCEPT ![n] = SleepPrivate(nd1[n], t)]
        /\ ~waits => nd2 = [nd1 EXCEPT ![n] = nd1[n]]
    BY <2>1, <1>1
  <2>3. Awaiting(nd1, S1[t], S2[t], n, waits)
    BY <1>6, <1>15
  <2> QED BY ONLY <2>1, <2>2, <2>3, <1>6, <1>14, t \in Thread, GAwait
<1>17. SameTree(nd, nd2)
  BY <1>13, <1>16 DEF SameTree
<1>18. fr[t].at # "idle"
  OBVIOUS
<1> QED BY <1>16, <1>17, <1>18, Settle

\* It looks again whether it is the only thread.
LEMMA RecountStep ==
  ASSUME NEW nd, NEW cl, NEW fr, NEW an, NEW K, NEW dp, Inv(nd, cl, fr, an, K, dp),
         NEW t \in Thread, NEW f, f = fr[t], f.at = "private", t \notin nd[f.cur].private_access,
         NEW waits, NEW nd2, waits <=> IsWriter(f) /\ SubtreeBusy(nd[f.cur]),
         waits => nd2 = [nd EXCEPT ![f.cur] = SleepPrivate(nd[f.cur], t)],
         ~waits => nd2 = [nd EXCEPT ![f.cur] = nd[f.cur]],
         NEW g \in FrameType, SameButAt(f, g), waits => g.at = "private", ~waits => g.at = "flag"
  PROVE  \E K2, e : Inv(nd2, cl, [fr EXCEPT ![t] = g], an, K2, e)
<1> PICK S, c, k, n : S = Summaries(cl, fr, K) /\ c = cl[t] /\ k = K[t] /\ n = f.cur
  OBVIOUS
<1>1. Good(nd, S, dp) /\ Local(nd, c, f, k) /\ S[t] = Summary(c, f, k) /\ nd \in [NodeId -> NodeType]
  BY InvGood DEF Good
<1>2. f \in FrameType /\ Going(f) /\ f.cur \in NodeId /\ ~Ahead(f) /\ FrameOK(c, f) /\ Inside(f) /\ InLock(f)
      /\ IsWriter(f) /\ ChainsOK(nd, c, f, k)
  <2>1. Going(f) /\ FrameOK(c, f) /\ ~Ahead(f) /\ Inside(f) /\ InLock(f) /\ ChainsOK(nd, c, f, k)
    BY <1>1 DEF Going, Local, Ahead, Inside, InLock
  <2>2. GoingOK(c, f)
    BY <2>1, GoingIs
  <2>3. IsWriter(f)
    BY <2>2 DEF GoingOK
  <2> QED BY <2>1, <2>3, GoingIs
<1>3. /\ g \in FrameType /\ g.at \in {"private", "flag"} /\ SameButAt(f, g) /\ Going(g) /\ g.cur = f.cur
      /\ ~Ahead(g) /\ InLock(g) /\ Inside(g) /\ (g.at = "private" => IsWriter(f) /\ waits) /\ g.at # "leave"
  BY DEF Going, SameButAt, Ahead, InLock, Inside
<1>4. Local(nd, c, g, k)
  BY ONLY <1>1, <1>2, <1>3, f.at = "private", LockLocal
<1> PICK s, s2 : s = S[t] /\ s2 = Summary(c, g, k)
  OBVIOUS
<1> PICK S2 : S2 = With(S, t, s2)
  OBVIOUS
<1>6. Others(S, S2, t) /\ S2[t] = s2 /\ S[t] = s
  BY WithIs
<1>7. /\ SameHeld(s, s2) /\ s2.unlinks = s.unlinks /\ s2.owns = s.owns
      /\ s.goesAway = {} /\ s.acquires = {} /\ s.passesOn = {}
      /\ KeptReads(g) = KeptReads(f) /\ KeptWrites(g) = KeptWrites(f) /\ (IsWriter(f) <=> IsWriter(g))
  <2>1. s = Summary(c, f, k) /\ f.at \in {"lock", "sleep", "count", "private"} /\ s2 = Summary(c, g, k)
        /\ f.at # "count"
    BY <1>1
  <2> PICK k2 : k2 = k /\ s2 = Summary(c, g, k2) /\ Local(nd, c, g, k2)
    BY <1>4
  <2>2. /\ SameHeld(s, s2) /\ s2.unlinks = s.unlinks /\ s2.owns = s.owns
        /\ s.goesAway = {} /\ s.acquires = {} /\ (f.at # "count" => s.passesOn = {})
        /\ KeptReads(g) = KeptReads(f) /\ KeptWrites(g) = KeptWrites(f) /\ (IsWriter(f) <=> IsWriter(g))
    BY ONLY <2>1, <1>1, <1>3, s2 = Summary(c, g, k2), Local(nd, c, g, k2), LockSteps
  <2> QED BY <2>1, <2>2
<1>8. Reads(g) = Reads(f) /\ Writes(g) = Writes(f) /\ n \in Writes(f)
  BY <1>2, <1>3, <1>7, InsideSame
<1>9. /\ s.reads = Reads(f) /\ s.writes = Writes(f) /\ s.counts = Counts(k)
      /\ s.pending = NULL /\ s.asReader = {} /\ s.asWriter = {} /\ s.inPrivate = {n}
  BY <1>1, <1>2, GoingSummary
<1>10. /\ s2.reads = Reads(g) /\ s2.writes = Writes(g) /\ s2.counts = Counts(k) /\ s2.pending = NULL
       /\ s2.asReader = {} /\ s2.asWriter = {}
       /\ g.at = "private" => s2.inPrivate = {n} /\ s2.acquires = {}
       /\ g.at = "flag" => /\ s2.inPrivate = {} /\ s2.acquires \subseteq {n}
  <2>1. s2 = Summary(c, g, k) /\ g.cur \in NodeId /\ g.cur = n
    BY <1>2, <1>3
  <2>2. /\ s2.reads = Reads(g) /\ s2.writes = Writes(g) /\ s2.counts = Counts(k) /\ s2.pending = NULL
        /\ s2.asReader = {} /\ s2.asWriter = {}
        /\ g.at = "private" => s2.inPrivate = {n}
        /\ g.at = "flag" => s2.inPrivate = {}
    BY ONLY <2>1, <1>3, GoingSummary
  <2>3. /\ g.at = "private" => s2.acquires = {}
        /\ g.at = "flag" /\ IsWriter(g) => s2.acquires = {n}
        /\ g.at = "flag" /\ ~IsWriter(g) => s2.acquires = {}
    BY ONLY <2>1, <1>3, TakingSummary
  <2> QED BY <2>2, <2>3
<1>11. n \in Counts(k)
  BY <1>1, <1>2, CurCounts
<1>15. Awaiting(nd, s, s2, n, waits)
  <2>1. SameUse(s, s2) /\ s2.pending = s.pending /\ s2.asReader = s.asReader /\ s2.asWriter = s.asWriter
    BY <1>8, <1>9, <1>10 DEF SameUse
  <2>2. waits => s2.inPrivate = {n} /\ s2.acquires = {}
    BY <1>10
  <2>3. ~waits => s2.inPrivate = {} /\ s2.acquires \subseteq {n}
    BY <1>10
  <2>4. ~waits /\ s2.acquires = {n} => n \in s.counts /\ n \in s.writes /\ ~SubtreeBusy(nd[n])
    BY <1>2, <1>8, <1>9, <1>11
  <2> QED BY <2>1, <2>2, <2>3, <2>4, <1>7, <1>9 DEF Awaiting
<1>16. Global(nd2, S2, dp) /\ nd2 \in [NodeId -> NodeType] /\ SameTree(nd, nd2)
  <2>1. n \in NodeId /\ t \in Thread /\ t \notin nd[n].private_access
    BY <1>2
  <2>2. /\ waits => nd2 = [nd EXCEPT ![n] = SleepPrivate(nd[n], t)]
        /\ ~waits => nd2 = [nd EXCEPT ![n] = nd[n]]
    OBVIOUS
  <2>3. Awaiting(nd, S[t], S2[t], n, waits)
    BY <1>6, <1>15
  <2> QED BY ONLY <2>1, <2>2, <2>3, <1>6, <1>1, GAwait
<1>18. fr[t].at # "idle"
  OBVIOUS
<1> QED BY <1>4, <1>16, <1>18, Settle

-----------------------------------------------------------------------------
(* ReadFlag: let out, or in.                                               *)

\* Before any folder is taken or left.
PlanSummary(s) ==
  /\ s.pending = NULL /\ s.moveLock = {} /\ s.asReader = {} /\ s.asWriter = {} /\ s.inPrivate = {}
  /\ s.moves = {} /\ s.removes = {} /\ s.unlinks = {} /\ s.flags = {} /\ s.vacates = {}

LEMMA PlanSummaryIs ==
  ASSUME NEW c, NEW f, NEW k, NEW s, s = Summary(c, f, k), Going(f), f.cur \in NodeId,
         f.at \in {"flag", "get", "body", "maps", "transfer"}
  PROVE  PlanSummary(s)
<1>1. f.at \notin {"left", "right", "leave", "sleep", "private", "discarding"} /\ ~Ahead(f)
  BY DEF Ahead
<1>2. f.at \notin {"unlink", "discard", "discarding", "calm"}
  OBVIOUS
<1>3. s.pending = NULL /\ s.moveLock = {} /\ s.asReader = {} /\ s.asWriter = {} /\ s.inPrivate = {}
  BY <1>1, GoingSummary
<1>4. s.moves = {} /\ s.removes = {} /\ s.unlinks = {}
  BY <1>2, TakingSummary
<1>5. s.flags = {} /\ s.vacates = {}
  BY <1>2, TakingSummary
<1> QED BY <1>3, <1>4, <1>5 DEF PlanSummary

\* The rest of the call is known, and nothing else has changed.
LEMMA PlanStep ==
  ASSUME NEW nd, NEW cl, NEW fr, NEW an, NEW K, NEW dp, Inv(nd, cl, fr, an, K, dp),
         NEW t \in Thread, NEW f, f = fr[t], NEW c, c = cl[t], NEW k, k = K[t],
         f.at \in {"flag", "get", "body", "transfer"}, NEW todo, NEW G, NEW P,
         Plan(nd, c, f, todo, Reads(f), Writes(f), k.maps, Counts(k), {}, {}, G, P),
         f.at = "flag" => f.cur \in G /\ f.cur \in P
  PROVE  \E K2, e : Inv(nd, cl, [fr EXCEPT ![t] = Do(f, todo)], an, K2, e)
<1> PICK S, n : S = Summaries(cl, fr, K) /\ n = f.cur
  OBVIOUS
<1>1. Good(nd, S, dp) /\ Local(nd, c, f, k) /\ S[t] = Summary(c, f, k) /\ nd \in [NodeId -> NodeType]
  BY InvGood DEF Good
<1>2. f \in FrameType /\ Going(f) /\ f.cur \in NodeId /\ FrameOK(c, f)
  <2>1. Going(f) /\ FrameOK(c, f)
    BY <1>1 DEF Going, Local
  <2> QED BY <2>1, GoingIs
<1>3. \E k2 : Local(nd, c, Do(f, todo), k2)
        /\ TodoSummary(Summary(c, Do(f, todo), k2), Reads(f), Writes(f), k.maps, Counts(k), {}, {}, G, P)
  <2> PICK R, W, M, C, N : R = Reads(f) /\ W = Writes(f) /\ M = k.maps /\ C = Counts(k) /\ N = {}
    OBVIOUS
  <2>1. Plan(nd, c, f, todo, R, W, M, C, N, N, G, P)
    OBVIOUS
  <2>2. \E k2 : Local(nd, c, Do(f, todo), k2)
          /\ TodoSummary(Summary(c, Do(f, todo), k2), R, W, M, C, N, N, G, P)
    BY ONLY <2>1, <1>2, Planned
  <2> QED BY <2>2
<1> PICK k2, g : g = Do(f, todo) /\ Local(nd, c, g, k2)
        /\ TodoSummary(Summary(c, g, k2), Reads(f), Writes(f), k.maps, Counts(k), {}, {}, G, P)
  BY <1>3
<1> PICK s, s2 : s = S[t] /\ s2 = Summary(c, g, k2)
  OBVIOUS
<1> PICK S2 : S2 = With(S, t, s2)
  OBVIOUS
<1>6. Others(S, S2, t) /\ S2[t] = s2 /\ S[t] = s
  BY WithIs
<1>7. TodoSummary(s2, Reads(f), Writes(f), k.maps, Counts(k), {}, {}, G, P)
  OBVIOUS
<1>8. PlanSummary(s) /\ s.reads = Reads(f) /\ s.writes = Writes(f) /\ s.counts = Counts(k) /\ s.maps = k.maps
  <2>1. s = Summary(c, f, k)
    BY <1>1
  <2>2. PlanSummary(s)
    BY <2>1, <1>2, PlanSummaryIs
  <2>3. s.reads = Reads(f) /\ s.writes = Writes(f) /\ s.counts = Counts(k) /\ s.maps = k.maps
    BY <2>1, <1>2, GoingSummary
  <2> QED BY <2>2, <2>3
<1>9. /\ f.at # "flag" => s.goesAway = {} /\ s.passesOn = {}
      /\ f.at = "flag" => s.goesAway = {n} /\ s.passesOn = {n} /\ n \in s2.goesAway /\ n \in s2.passesOn
  <2>1. s = Summary(c, f, k) /\ f.at # "count"
    BY <1>1
  <2>2. f.at # "flag" => s.goesAway = {} /\ s.passesOn = {}
    BY <2>1, <1>2, TakingSummary
  <2>3. f.at = "flag" => s.goesAway = {n} /\ s.passesOn = {n}
    BY <2>1, <1>2, TakingSummary
  <2> QED BY <2>2, <2>3, <1>7 DEF TodoSummary
<1>10. Quiet(nd, s, s2)
  <2>1. SameUse(s, s2) /\ SameSleep(s, s2) /\ SameHeld(s, s2)
    BY <1>7, <1>8 DEF SameUse, SameSleep, SameHeld, SameTaking, TodoSummary, PlanSummary
  <2>2. KeepsPrivacy(nd, s, s2)
    BY <1>7, <1>9 DEF KeepsPrivacy, OwnedIn, TodoSummary
  <2>3. s2.pending = s.pending /\ s2.unlinks = {}
    BY <1>7, <1>8 DEF TodoSummary, PlanSummary
  <2> QED BY <2>1, <2>2, <2>3 DEF Quiet
<1>11. Global(nd, S2, dp)
  <2>1. Quiet(nd, S[t], S2[t])
    BY <1>6, <1>10
  <2> QED BY ONLY <2>1, <1>1, <1>6, t \in Thread, GQuiet
<1>12. fr[t].at # "idle" /\ SameTree(nd, nd)
  BY DEF SameTree
<1> QED BY <1>1, <1>11, <1>12, Settle

\* What a folder's protocol gave it is what it goes on with.
Continues(f, g) ==
  /\ Reads(g) = Reads(f) /\ Writes(g) = Writes(f)
  /\ Owns(g) \subseteq Owns(f) \cup (IF IsWriter(f) THEN {f.cur} ELSE {})

\* The flag was down: the caller goes on.
LEMMA GoStep ==
  ASSUME NEW nd, NEW cl, NEW fr, NEW an, NEW K, NEW dp, Inv(nd, cl, fr, an, K, dp),
         NEW t \in Thread, NEW f, f = fr[t], f.at = "flag", ~nd[f.cur].emergency_pass,
         NEW g, g.at \in {"get", "body", "maps"}, Local(nd, cl[t], g, K[t]), Continues(f, g)
  PROVE  \E K2, e : Inv(nd, cl, [fr EXCEPT ![t] = g], an, K2, e)
<1> PICK S, c, k, n : S = Summaries(cl, fr, K) /\ c = cl[t] /\ k = K[t] /\ n = f.cur
  OBVIOUS
<1>1. Good(nd, S, dp) /\ Local(nd, c, f, k) /\ S[t] = Summary(c, f, k) /\ nd \in [NodeId -> NodeType]
  BY InvGood DEF Good
<1>2. f \in FrameType /\ Going(f) /\ f.cur \in NodeId
  <2>1. Going(f) /\ FrameOK(c, f)
    BY <1>1 DEF Going, Local
  <2> QED BY <2>1, GoingIs
<1>3. Going(g) /\ g.cur \in NodeId /\ g.at \in {"flag", "get", "body", "maps", "transfer"}
  <2>1. Going(g) /\ FrameOK(c, g)
    BY DEF Going, Local
  <2> QED BY <2>1, GoingIs
<1> PICK s, s2 : s = S[t] /\ s2 = Summary(c, g, k)
  OBVIOUS
<1> PICK S2 : S2 = With(S, t, s2)
  OBVIOUS
<1>6. Others(S, S2, t) /\ S2[t] = s2 /\ S[t] = s
  BY WithIs
<1>7. /\ PlanSummary(s) /\ s.reads = Reads(f) /\ s.writes = Writes(f) /\ s.counts = Counts(k)
      /\ s.maps = k.maps /\ s.owns = Owns(f) /\ (IsWriter(f) => s.acquires = {n})
      /\ s.goesAway = {n} /\ s.passesOn = {n}
  <2>1. s = Summary(c, f, k)
    BY <1>1
  <2>2. PlanSummary(s)
    BY <2>1, <1>2, PlanSummaryIs
  <2>3. s.reads = Reads(f) /\ s.writes = Writes(f) /\ s.counts = Counts(k) /\ s.maps = k.maps
        /\ s.owns = Owns(f)
    BY <2>1, SummaryIs
  <2>4. s.goesAway = {n} /\ s.passesOn = {n}
    BY <2>1, <1>2, TakingSummary
  <2>5. IsWriter(f) => s.acquires = {n}
    BY <2>1, <1>2, TakingSummary
  <2> QED BY <2>2, <2>3, <2>4, <2>5
<1>8. /\ PlanSummary(s2) /\ s2.reads = Reads(g) /\ s2.writes = Writes(g) /\ s2.counts = Counts(k)
      /\ s2.maps = k.maps /\ s2.owns = Owns(g) /\ s2.acquires = {}
  <2>2. PlanSummary(s2)
    BY <1>3, PlanSummaryIs
  <2>3. s2.reads = Reads(g) /\ s2.writes = Writes(g) /\ s2.counts = Counts(k) /\ s2.maps = k.maps
        /\ s2.owns = Owns(g)
    BY SummaryIs
  <2>4. s2.acquires = {}
    BY <1>3, TakingSummary
  <2> QED BY <2>2, <2>3, <2>4
<1>10. Quiet(nd, s, s2)
  <2>1. SameUse(s, s2) /\ SameSleep(s, s2) /\ SameHeld(s, s2)
    BY <1>7, <1>8 DEF Continues, SameUse, SameSleep, SameHeld, SameTaking, PlanSummary
  <2>2. KeepsPrivacy(nd, s, s2)
    BY <1>7, <1>8 DEF KeepsPrivacy, OwnedIn, Continues
  <2>3. s2.pending = s.pending /\ s2.unlinks = {}
    BY <1>7, <1>8 DEF PlanSummary
  <2> QED BY <2>1, <2>2, <2>3 DEF Quiet
<1>11. Global(nd, S2, dp)
  <2>1. Quiet(nd, S[t], S2[t])
    BY <1>6, <1>10
  <2> QED BY ONLY <2>1, <1>1, <1>6, t \in Thread, GQuiet
<1>12. fr[t].at # "idle" /\ SameTree(nd, nd)
  BY DEF SameTree
<1> QED BY <1>1, <1>11, <1>12, Settle

\* The list of a thread that is let in by the flag.
LEMMA LetOutStep ==
  ASSUME NEW nd, NEW cl, NEW fr, NEW an, NEW K, NEW dp, Inv(nd, cl, fr, an, K, dp),
         NEW t \in Thread, NEW f, f = fr[t], f.at = "flag"
  PROVE  \E K2, e : Inv(nd, cl, [fr EXCEPT ![t] = Do(f, OnEmergency(cl[t], f))], an, K2, e)
<1> PICK c, k : c = cl[t] /\ k = K[t]
  OBVIOUS
<1>1. Local(nd, c, f, k)
  BY InvGood
<1>2. Going(f) /\ FrameOK(c, f) /\ ChainsOK(nd, c, f, k) /\ k.maps = {}
  BY <1>1, GoingMaps DEF Going, Local
<1>3. Plan(nd, c, f, OnEmergency(c, f), Reads(f), Writes(f), {}, Counts(k), {}, {}, {f.cur}, {f.cur})
  BY <1>2, EmergencyPlan
<1> PICK G : G = {f.cur}
  OBVIOUS
<1>4. Plan(nd, c, f, OnEmergency(c, f), Reads(f), Writes(f), k.maps, Counts(k), {}, {}, G, G)
  BY <1>2, <1>3
<1>5. f.cur \in G
  OBVIOUS
<1> QED BY <1>4, <1>5, PlanStep

\* process_path goes on to look for the next folder; the caller's folder is reached.
LEMMA StepEntered ==
  ASSUME NEW nd, NEW c, NEW f, NEW k, Local(nd, c, f, k), f.at = "flag",
         f.role \in {"step", "list", "create", "remove"},
         NEW g \in FrameType, SameButAt(f, g),
         f.role = "step" => g.at = "get", f.role # "step" => g.at = "body"
  PROVE  Local(nd, c, g, k) /\ Continues(f, g)
<1>1. Going(f) /\ Going(g) /\ FrameOK(c, f) /\ ChainsOK(nd, c, f, k) /\ MapsOK(nd, c, f, k)
  BY DEF Local, Going
<1>2. c \in Calls /\ GoingOK(c, f) /\ f.cur \in NodeId
  BY <1>1, GoingIs
<1>3. /\ InLock(f) /\ ~InLock(g) /\ (Moving(f) <=> Moving(g)) /\ (Leading(f) <=> Leading(g))
      /\ (IsWriter(f) <=> IsWriter(g)) /\ ~Ahead(f) /\ ~Ahead(g)
      /\ g.at \in {"get", "body"} /\ (g.at = "get" <=> f.role = "step") /\ ~Gone(f) /\ ~Gone(g)
  BY DEF InLock, Leading, Moving, SameButAt, IsWriter, Ahead, Gone
<1>4. ~f.skip /\ (f.role = "step" => f.rest # <<>>) /\ (f.role # "step" => f.role = f.walk)
      /\ (f.role = "remove" => f.cur # Root) /\ f.next = NULL
  BY <1>2, <1>3 DEF GoingOK
<1>5. FrameOK(c, g)
  <2>1. GoingOK(c, g)
    BY <1>2, <1>3, <1>4 DEF GoingOK, SameButAt
  <2> QED BY <2>1, <1>2, <1>3 DEF FrameOK
<1>6. /\ HasSource(f) <=> HasSource(g)
      /\ HasTarget(f) <=> HasTarget(g)
      /\ Here(nd, g) = Here(nd, f) /\ WalkSlot(g) = WalkSlot(f)
      /\ g.walk = f.walk /\ g.source = f.source /\ g.target_parent = f.target_parent /\ g.shared = f.shared
      /\ g.cur = f.cur /\ g.role = f.role /\ g.skip = f.skip
      /\ Pending(g) = NULL
  BY <1>3 DEF SameButAt, HasSource, HasTarget, Here, WalkSlot, Pending
<1>7. Bottom(nd, g, 1) = Bottom(nd, f, 1) /\ Bottom(nd, g, 2) = Bottom(nd, f, 2) /\ Bottom(nd, g, 3) = Bottom(nd, f, 3)
  <2>1. CASE Moving(f)
    BY <2>1, <1>1, <1>3, <1>6, BottomsMoving
  <2>2. CASE ~Moving(f)
    BY <2>2, <1>1, <1>3, <1>6, BottomsStill
  <2> QED BY <2>1, <2>2
<1>8. ChainsOK(nd, c, g, k)
  BY <1>1, <1>3, <1>6, <1>7, ChainsSame
<1>9. MapsOK(nd, c, g, k)
  <2>1. k.maps = {}
    BY <1>1, MapsNone
  <2> QED BY <2>1, <1>3, MapsNone
<1>10. Inside(f) /\ Inside(g) /\ KeptReads(g) = KeptReads(f) /\ KeptWrites(g) = KeptWrites(f)
  BY <1>3, <1>4, <1>6 DEF Inside, KeptReads, KeptWrites
<1>11. Reads(g) = Reads(f) /\ Writes(g) = Writes(f)
  BY <1>1, <1>2, <1>10, InsideSame
<1>12. Owns(g) \subseteq Owns(f) \cup (IF IsWriter(f) THEN {f.cur} ELSE {})
  BY <1>1, <1>3, <1>6 DEF Owns, IsWriter
<1> QED BY <1>5, <1>8, <1>9, <1>11, <1>12 DEF Local, Continues

\* tree_move has all its folders.
LEMMA MapsEntered ==
  ASSUME NEW nd, NEW c, NEW f, NEW k, Local(nd, c, f, k), f.at = "flag",
         f.role \in {"source", "target"}, f.role = "target" => SourceFirst(c),
         NEW g \in FrameType, SameButAt(f, g), g.at = "maps"
  PROVE  Local(nd, c, g, k) /\ Continues(f, g)
<1>1. Going(f) /\ Going(g) /\ FrameOK(c, f) /\ ChainsOK(nd, c, f, k) /\ MapsOK(nd, c, f, k)
  BY DEF Local, Going
<1>2. c \in Calls /\ GoingOK(c, f) /\ f.cur \in NodeId
  BY <1>1, GoingIs
<1>3. /\ InLock(f) /\ ~InLock(g) /\ (Moving(f) <=> Moving(g)) /\ ~Leading(f) /\ ~Leading(g)
      /\ (IsWriter(f) <=> f.role = "source") /\ ~Ahead(f) /\ ~Ahead(g) /\ ~Gone(f) /\ ~Gone(g)
      /\ g.walk = f.walk /\ g.source = f.source /\ g.target_parent = f.target_parent
      /\ g.shared = f.shared /\ g.cur = f.cur /\ g.role = f.role /\ g.skip = f.skip
  BY DEF InLock, Leading, Moving, SameButAt, IsWriter, Ahead, Gone
<1>4. /\ f.role = f.walk /\ Moving(f) /\ ~f.skip /\ {f.shared, f.source, f.target_parent} \subseteq NodeId
      /\ f.role = "source" => f.cur = f.source /\ f.cur # f.shared
      /\ f.role = "target" => f.cur = f.target_parent /\ f.cur # f.shared /\ f.source # f.shared
  BY <1>2, <1>3 DEF GoingOK, Moving
<1>5. HasSource(g) /\ (f.role = "source" => ~HasSource(f) /\ (HasTarget(g) <=> HasTarget(f)))
      /\ (f.role = "target" => HasSource(f) /\ ~HasTarget(f) /\ HasTarget(g))
  BY <1>3, <1>4 DEF HasSource, HasTarget
<1>6. FrameOK(c, g)
  <2>1. GoingOK(c, g)
    BY <1>2, <1>3, <1>4, <1>5 DEF GoingOK, SameButAt
  <2> QED BY <2>1, <1>2 DEF FrameOK
<1>7. Bottom(nd, g, 1) = Bottom(nd, f, 1) /\ Bottom(nd, g, 2) = Bottom(nd, f, 2) /\ Bottom(nd, g, 3) = Bottom(nd, f, 3)
  <2>1. Here(nd, f) = f.cur
    BY <1>3 DEF Here
  <2> QED BY <2>1, <1>1, <1>3, <1>4, <1>5, BottomsMoving
<1>8. ChainsOK(nd, c, g, k)
  <2>1. Pending(g) = NULL
    BY <1>3 DEF Pending
  <2> QED BY <2>1, <1>1, <1>3, <1>7, ChainsSame
<1>9. MapsOK(nd, c, g, k)
  <2>1. k.maps = {}
    BY <1>1, MapsNone
  <2> QED BY <2>1, MapsNone
<1>10. Reads(g) = Reads(f) /\ Writes(g) = Writes(f)
  <2>1. Inside(f) /\ ~Inside(g) /\ g.cur \in NodeId
    BY <1>2, <1>3, <1>4 DEF Inside
  <2>2. Reads(g) = KeptReads(g) /\ Writes(g) = KeptWrites(g)
    BY <2>1, <1>1, UsesAre
  <2>3. CASE f.role = "source"
    <3>1. Reads(f) = KeptReads(f) /\ Writes(f) = KeptWrites(f) \cup {f.cur}
      BY <2>1, <2>3, <1>1, <1>2, <1>3, UsesAre
    <3>2. KeptReads(g) = KeptReads(f) /\ KeptWrites(f) = {} /\ KeptWrites(g) = {f.source}
      BY <2>3, <1>3, <1>4, <1>5 DEF KeptReads, KeptWrites
    <3> QED BY <2>2, <3>1, <3>2, <2>3, <1>4
  <2>4. CASE f.role = "target"
    <3>1. Reads(f) = KeptReads(f) \cup {f.cur} /\ Writes(f) = KeptWrites(f)
      BY <2>1, <2>4, <1>1, <1>2, <1>3, UsesAre
    <3>2. KeptReads(g) = KeptReads(f) \cup {f.target_parent} /\ KeptWrites(f) = KeptWrites(g)
      BY <2>4, <1>3, <1>4, <1>5 DEF KeptReads, KeptWrites
    <3> QED BY <2>2, <3>1, <3>2, <2>4, <1>4
  <2> QED BY <2>3, <2>4
<1>11. Owns(g) \subseteq Owns(f) \cup (IF IsWriter(f) THEN {f.cur} ELSE {})
  BY <1>1, <1>3, <1>4, <1>5 DEF Owns
<1> QED BY <1>6, <1>8, <1>9, <1>10, <1>11 DEF Local, Continues

Seeks(c, f, g, w) ==
  /\ g.at = "get" /\ g.cur = f.shared /\ g.rest = PathBeyond(c, w) /\ g.skip /\ g.walk = w
  /\ g.role = f.role /\ g.next = f.next /\ g.shared = f.shared /\ g.source = f.source
  /\ g.target_parent = f.target_parent /\ g.todo = f.todo

\* It looks for its source, or for its target, from shared_node on.
LEMMA SeekEntered ==
  ASSUME NEW nd, NEW c, NEW f, NEW k, Local(nd, c, f, k), f.at = "flag",
         f.role \in {"shared", "source", "target"}, NEW w \in {"source", "target"}, w # f.role,
         PathBeyond(c, w) # <<>>, f.role = "target" => ~SourceFirst(c), f.role = "source" => SourceFirst(c),
         f.role = "shared" /\ w = "target" => ~SourceFirst(c),
         NEW g \in FrameType, Seeks(c, f, g, w)
  PROVE  Local(nd, c, g, k) /\ Continues(f, g)
<1>1. Going(f) /\ Going(g) /\ FrameOK(c, f) /\ ChainsOK(nd, c, f, k) /\ MapsOK(nd, c, f, k)
  BY DEF Local, Going, Seeks
<1>2. c \in Calls /\ GoingOK(c, f) /\ f.cur \in NodeId
  BY <1>1, GoingIs
<1>3. /\ InLock(f) /\ ~InLock(g) /\ Moving(g) /\ ~Leading(f) /\ Leading(g)
      /\ (IsWriter(f) <=> f.role = "source") /\ (IsWriter(g) <=> f.role = "source")
      /\ ~Ahead(f) /\ ~Ahead(g) /\ ~Gone(f) /\ ~Gone(g)
  BY DEF InLock, Leading, Moving, Seeks, IsWriter, Ahead, Gone
<1>4. /\ f.role = f.walk /\ ~f.skip /\ {f.shared, f.source, f.target_parent} \subseteq NodeId
      /\ f.role = "shared" => f.cur = f.shared /\ f.cur = f.source /\ f.cur = f.target_parent /\ ~Moving(f)
      /\ f.role = "source" => f.cur = f.source /\ f.cur # f.shared /\ f.target_parent = f.shared /\ Moving(f)
      /\ f.role = "target" => /\ f.cur = f.target_parent /\ f.cur # f.shared /\ f.source = f.shared
                              /\ Moving(f) /\ PathBeyond(c, "target") # <<>>
      /\ f.next = NULL /\ c.op = "move" /\ Rejected(c) = <<>>
      /\ f.role = "source" => f.source # Root
  BY <1>2, <1>3 DEF GoingOK, Moving
<1>5. /\ HasSource(g) <=> f.role = "source"
      /\ HasTarget(g) <=> f.role = "target"
      /\ ~HasSource(f) /\ ~HasTarget(f)
  BY <1>3, <1>4 DEF HasSource, HasTarget, Moving, Seeks
<1>6. FrameOK(c, g)
  <2>1. GoingOK(c, g)
    BY <1>2, <1>3, <1>4, <1>5 DEF GoingOK, Seeks, Walks, Moving
  <2> QED BY <2>1, <1>2 DEF FrameOK, Seeks
<1>7. ChainsOK(nd, c, g, k)
  <2>1. Here(nd, f) = f.cur /\ Here(nd, g) = f.shared /\ Pending(g) = NULL /\ g.at # "leave"
        /\ g.shared = f.shared /\ g.source = f.source /\ g.target_parent = f.target_parent /\ g.walk = w
    BY <1>3 DEF Here, Pending, Seeks
  <2>2. CASE f.role # "shared"
    <3>1. Bottom(nd, g, 1) = Bottom(nd, f, 1) /\ Bottom(nd, g, 2) = Bottom(nd, f, 2) /\ Bottom(nd, g, 3) = Bottom(nd, f, 3)
      BY <2>1, <2>2, <1>1, <1>3, <1>4, <1>5, BottomsMoving
    <3> QED BY <3>1, <2>1, <2>2, <1>1, <1>3, <1>4, ChainsSame
  <2>3. CASE f.role = "shared"
    <3>1. Bottom(nd, g, 1) = f.shared /\ Bottom(nd, g, 2) = f.shared /\ Bottom(nd, g, 3) = f.shared
          /\ Top(g, 1) = f.shared /\ Top(g, 2) = f.shared /\ Top(g, 3) = NULL
      BY <2>1, <2>3, <1>1, <1>3, <1>4, <1>5, BottomsMoving
    <3>2. k.chain[1] = {} /\ k.chain[2] = {} /\ Counts(k) = k.chain[3] /\ IsChain(nd, k.chain[3], f.shared, NULL)
          /\ DOMAIN k.chain = 1 .. 3
      BY <2>1, <2>3, <1>1, <1>4, StillPlaces, GoingChains
    <3>3. IsChain(nd, {}, f.shared, f.shared)
      BY ChainEmpty
    <3>4. \A i \in 1 .. 3 : IsChain(nd, k.chain[i], Bottom(nd, g, i), Top(g, i))
      <4>1. \A i \in 1 .. 3 : i = 1 \/ i = 2 \/ i = 3
        OBVIOUS
      <4> QED BY <4>1, <3>1, <3>2, <3>3
    <3>5. NULL \notin Counts(k)
      BY <3>2, TreeAssumption DEF IsChain
    <3> QED BY <3>2, <3>4, <3>5, <2>1, <1>1, ChainsFit
  <2> QED BY <2>2, <2>3
<1>8. MapsOK(nd, c, g, k)
  <2>1. k.maps = {} /\ g.at = "get"
    BY <1>1, MapsNone DEF Seeks
  <2> QED BY <2>1, MapsNone
<1>9. Reads(g) = Reads(f) /\ Writes(g) = Writes(f)
  <2>1. Inside(f) /\ ~Inside(g) /\ g.cur \in NodeId
    BY <1>2, <1>3, <1>4 DEF Inside, Seeks
  <2>2. Reads(g) = KeptReads(g) /\ Writes(g) = KeptWrites(g)
    BY <2>1, <1>1, UsesAre
  <2>3. g.shared = f.shared /\ g.source = f.source /\ g.target_parent = f.target_parent
    BY DEF Seeks
  <2>4. CASE f.role = "source"
    <3>1. Reads(f) = KeptReads(f) /\ Writes(f) = KeptWrites(f) \cup {f.cur}
      BY <2>1, <2>4, <1>1, <1>2, <1>3, UsesAre
    <3>2. KeptReads(g) = KeptReads(f) /\ KeptWrites(f) = {} /\ KeptWrites(g) = {f.source}
      BY <2>3, <2>4, <1>3, <1>4, <1>5 DEF KeptReads, KeptWrites
    <3> QED BY <2>2, <3>1, <3>2, <2>4, <1>4
  <2>5. CASE f.role = "target"
    <3>1. Reads(f) = KeptReads(f) \cup {f.cur} /\ Writes(f) = KeptWrites(f)
      BY <2>1, <2>5, <1>1, <1>2, <1>3, UsesAre
    <3>2. KeptReads(g) = KeptReads(f) \cup {f.target_parent} /\ KeptWrites(f) = KeptWrites(g)
      BY <2>3, <2>5, <1>3, <1>4, <1>5 DEF KeptReads, KeptWrites
    <3> QED BY <2>2, <3>1, <3>2, <2>5, <1>4
  <2>6. CASE f.role = "shared"
    <3>1. Reads(f) = KeptReads(f) \cup {f.cur} /\ Writes(f) = KeptWrites(f)
      BY <2>1, <2>6, <1>1, <1>2, <1>3, UsesAre
    <3>2. KeptReads(g) = {f.shared} /\ KeptWrites(g) = {} /\ KeptReads(f) = {} /\ KeptWrites(f) = {}
      BY <2>3, <2>6, <1>3, <1>4, <1>5 DEF KeptReads, KeptWrites
    <3> QED BY <2>2, <3>1, <3>2, <2>6, <1>4
  <2> QED BY <2>4, <2>5, <2>6
<1>11. Owns(g) \subseteq Owns(f) \cup (IF IsWriter(f) THEN {f.cur} ELSE {})
  <2>1. g.source = f.source /\ g.at = "get"
    BY DEF Seeks
  <2> QED BY <2>1, <1>1, <1>3, <1>4, <1>5 DEF Owns
<1> QED BY <1>6, <1>7, <1>8, <1>9, <1>11 DEF Local, Continues

\* tree_move's way out when the target is above the source.
LEMMA AboveStep ==
  ASSUME NEW nd, NEW cl, NEW fr, NEW an, NEW K, NEW dp, Inv(nd, cl, fr, an, K, dp),
         NEW t \in Thread, NEW f, f = fr[t], f.at = "flag", f.role = "source", SourceFirst(cl[t])
  PROVE  \E K2, e : Inv(nd, cl, [fr EXCEPT ![t] =
           Do(f, <<WriterFinal(f.source), ReaderFinal(f.shared),
                   Notify(f.source, NULL), Return(Result("EEXIST"))>>)], an, K2, e)
<1> PICK c, k : c = cl[t] /\ k = K[t]
  OBVIOUS
<1>1. Local(nd, c, f, k)
  BY InvGood
<1>2. Going(f) /\ FrameOK(c, f) /\ ChainsOK(nd, c, f, k) /\ k.maps = {}
  BY <1>1, GoingMaps DEF Going, Local
<1>3. c \in Calls /\ f \in FrameType /\ GoingOK(c, f) /\ f.cur \in NodeId
  BY <1>2, GoingIs
<1>4. /\ InLock(f) /\ ~Leading(f) /\ ~Ahead(f) /\ Moving(f) /\ f.cur = f.source /\ f.source # f.shared
      /\ f.target_parent = f.shared /\ IsWriter(f) /\ Inside(f) /\ f.shared \in NodeId /\ f.walk = "source"
  BY <1>3 DEF GoingOK, InLock, Leading, Moving, IsWriter, Inside, Ahead
<1> PICK A, B, D : A = k.chain[1] /\ B = k.chain[2] /\ D = k.chain[3]
  OBVIOUS
<1>5. Ways(nd, f, A, B, D)
  BY <1>2, <1>4, WaysDone
<1>6. B = {} /\ Counts(k) = A \cup D
  <2>1. f.target_parent = f.shared
    BY <1>4
  <2>2. B = {}
    BY ONLY <2>1, <1>5, WaysIs
  <2>3. Counts(k) = k.chain[1] \cup k.chain[2] \cup k.chain[3]
    BY ONLY <1>2, GoingChains
  <2> QED BY <2>2, <2>3
<1>7. Reads(f) = {f.shared} /\ Writes(f) = {f.source}
  <2>1. ~HasSource(f) /\ ~HasTarget(f)
    BY <1>4 DEF HasSource, HasTarget
  <2>2. Reads(f) = KeptReads(f) /\ Writes(f) = KeptWrites(f) \cup {f.cur}
    BY <1>2, <1>3, <1>4, UsesAre
  <2>3. KeptReads(f) = {f.shared} /\ KeptWrites(f) = {}
    BY <2>1, <1>4 DEF KeptReads, KeptWrites
  <2> QED BY <2>2, <2>3, <1>4
<1> PICK r, todo, G : r = Result("EEXIST") /\ G = {f.source}
      /\ todo = <<WriterFinal(f.source), ReaderFinal(f.shared), Notify(f.source, NULL), Return(r)>>
  OBVIOUS
<1>8. Return(r) \in Items
  BY CodesAre DEF Codes
<1>9. Plan(nd, c, f, todo, {f.shared}, {f.source}, {}, A \cup D, {}, {}, G, G)
  BY <1>3, <1>4, <1>5, <1>8, LeaveSourcePlan
<1>10. Plan(nd, c, f, todo, Reads(f), Writes(f), k.maps, Counts(k), {}, {}, G, G)
  BY <1>2, <1>6, <1>7, <1>9
<1>11. f.cur \in G
  BY <1>4
<1>12. \E K2, e : Inv(nd, cl, [fr EXCEPT ![t] = Do(f, todo)], an, K2, e)
  BY <1>10, <1>11, PlanStep
<1> QED BY <1>12

LEMMA SeekIs ==
  ASSUME NEW c \in Calls, NEW f \in FrameType, Rejected(c) = <<>>, c.op = "move",
         NEW w \in {"source", "target"}, NEW g, g = WalkFromShared(f, PathBeyond(c, w), w)
  PROVE  g \in FrameType /\ Seeks(c, f, g, w)
<1>1. PathBeyond(c, w) \in Seq(Name)
  BY Paths2
<1> PICK path : path = PathBeyond(c, w) /\ path \in Seq(Name)
  BY <1>1
<1>2. f.shared \in NodeId \cup {NULL} /\ w \in Walks \cup {"none"} /\ "get" \in Ats
  BY DEF FrameType, Walks, Ats
<1>3. g = [f EXCEPT !.at = "get", !.cur = f.shared, !.rest = path, !.skip = TRUE, !.walk = w]
  BY DEF WalkFromShared
<1>4. g \in FrameType
  BY <1>2, <1>3 DEF FrameType
<1>5. Seeks(c, f, g, w)
  BY <1>3 DEF Seeks, FrameType
<1> QED BY <1>4, <1>5

LEMMA EnteredStep ==
  ASSUME NEW nd, NEW cl, NEW fr, NEW an, NEW K, NEW dp, Inv(nd, cl, fr, an, K, dp),
         NEW t \in Thread, NEW f, f = fr[t], f.at = "flag", ~nd[f.cur].emergency_pass,
         NEW g, g = Entered(cl[t], f)
  PROVE  \E K2, e : Inv(nd, cl, [fr EXCEPT ![t] = g], an, K2, e)
<1> PICK c, k : c = cl[t] /\ k = K[t]
  OBVIOUS
<1>1. Local(nd, c, f, k)
  BY InvGood
<1>2. Going(f) /\ FrameOK(c, f) /\ InLock(f)
  BY <1>1 DEF Going, Local, InLock
<1>3. c \in Calls /\ f \in FrameType /\ GoingOK(c, f) /\ f.cur \in NodeId
  BY <1>2, GoingIs
<1>4. /\ f.role \in {"step", "list", "create", "remove", "shared", "source", "target"}
      /\ f.role # "step" => f.role = f.walk
      /\ f.role \in {"shared", "source", "target"} => c.op = "move" /\ Rejected(c) = <<>>
      /\ f.role = "shared" => f.target_parent = f.shared
      /\ f.role = "source" /\ SourceFirst(c) => f.target_parent = f.shared
  BY <1>2, <1>3 DEF GoingOK, Walks, Moving
<1>5. ASSUME g.at \in {"get", "body", "maps"}, Local(nd, c, g, k), Continues(f, g)
      PROVE  \E K2, e : Inv(nd, cl, [fr EXCEPT ![t] = g], an, K2, e)
  BY <1>5, GoStep
<1>6. CASE f.role = "step"
  <2>1. g = [f EXCEPT !.at = "get"] /\ "get" \in Ats
    BY <1>6 DEF Entered, Ats
  <2>2. g \in FrameType /\ SameButAt(f, g) /\ g.at = "get"
    BY <2>1, <1>3, WithAt
  <2>3. Local(nd, c, g, k) /\ Continues(f, g)
    BY <2>2, <1>1, <1>6, StepEntered
  <2> QED BY <2>2, <2>3, <1>5
<1>7. CASE f.role \in {"list", "create", "remove"}
  <2>1. g = [f EXCEPT !.at = "body"] /\ "body" \in Ats
    BY <1>7 DEF Entered, Ats
  <2>2. g \in FrameType /\ SameButAt(f, g) /\ g.at = "body"
    BY <2>1, <1>3, WithAt
  <2>3. Local(nd, c, g, k) /\ Continues(f, g)
    BY <2>2, <1>1, <1>7, StepEntered
  <2> QED BY <2>2, <2>3, <1>5
<1>8. ASSUME NEW w \in {"source", "target"}, w # f.role,
             PathBeyond(c, w) # <<>>, f.role = "target" => ~SourceFirst(c), f.role = "source" => SourceFirst(c),
             f.role = "shared" /\ w = "target" => ~SourceFirst(c),
             f.role \in {"shared", "source", "target"}, g = WalkFromShared(f, PathBeyond(c, w), w)
      PROVE  \E K2, e : Inv(nd, cl, [fr EXCEPT ![t] = g], an, K2, e)
  <2>1. g \in FrameType /\ Seeks(c, f, g, w)
    BY <1>8, <1>3, <1>4, SeekIs
  <2>2. Local(nd, c, g, k) /\ Continues(f, g)
    BY <2>1, <1>1, <1>8, SeekEntered
  <2>3. g.at = "get"
    BY <2>1 DEF Seeks
  <2> QED BY <2>2, <2>3, <1>5
<1>9. ASSUME f.role \in {"source", "target"}, f.role = "target" => SourceFirst(c),
             g = [f EXCEPT !.at = "maps"]
      PROVE  \E K2, e : Inv(nd, cl, [fr EXCEPT ![t] = g], an, K2, e)
  <2>1. "maps" \in Ats
    BY DEF Ats
  <2>2. g \in FrameType /\ SameButAt(f, g) /\ g.at = "maps"
    BY <2>1, <1>3, <1>9, WithAt
  <2>3. Local(nd, c, g, k) /\ Continues(f, g)
    BY <2>2, <1>1, <1>9, MapsEntered
  <2> QED BY <2>2, <2>3, <1>5
<1>10. f.target_parent = f.shared => [f EXCEPT !.target_parent = f.shared] = f
  BY <1>3 DEF FrameType
<1>11. c.op = "move" /\ Rejected(c) = <<>> =>
         /\ PathBeyond(c, "source") # <<>> /\ SeekSource(c, f) = WalkFromShared(f, PathBeyond(c, "source"), "source")
         /\ PathBeyond(c, "target") # <<>> => SeekTarget(c, f) = WalkFromShared(f, PathBeyond(c, "target"), "target")
         /\ PathBeyond(c, "target") = <<>> /\ f.target_parent = f.shared => SeekTarget(c, f) = TargetAcquired(c, f)
  <2>1. PathBeyond(c, "source") = Beyond(c.source, Shared(c))
        /\ PathBeyond(c, "target") = Beyond(PathToParent(c.target), Shared(c))
    BY DEF PathBeyond
  <2>2. SeekSource(c, f) = WalkFromShared(f, PathBeyond(c, "source"), "source")
    BY <2>1 DEF SeekSource
  <2>3. PathBeyond(c, "target") # <<>> => SeekTarget(c, f) = WalkFromShared(f, PathBeyond(c, "target"), "target")
    BY <2>1 DEF SeekTarget
  <2>4. PathBeyond(c, "target") = <<>> => SeekTarget(c, f) = TargetReached(c, f, f.shared)
    BY <2>1 DEF SeekTarget
  <2>5. f.target_parent = f.shared => TargetReached(c, f, f.shared) = TargetAcquired(c, f)
    BY <1>10 DEF TargetReached
  <2>6. c.op = "move" /\ Rejected(c) = <<>> => PathBeyond(c, "source") # <<>>
    BY <1>3, Paths2
  <2> QED BY <2>2, <2>3, <2>4, <2>5, <2>6
<1>12. CASE f.role = "shared"
  <2>1. CASE SourceFirst(c)
    <3>1. g = SeekSource(c, f)
      BY <1>12, <2>1 DEF Entered
    <3> QED BY <3>1, <2>1, <1>4, <1>8, <1>11, <1>12
  <2>2. CASE ~SourceFirst(c) /\ PathBeyond(c, "target") = <<>>
    <3>1. g = SeekTarget(c, f)
      BY <1>12, <2>2 DEF Entered
    <3>2. SeekTarget(c, f) = TargetAcquired(c, f)
      BY <2>2, <1>4, <1>11, <1>12
    <3>3. TargetAcquired(c, f) = SeekSource(c, f)
      BY <2>2 DEF TargetAcquired
    <3> QED BY <3>1, <3>2, <3>3, <2>2, <1>4, <1>8, <1>11, <1>12
  <2>3. CASE ~SourceFirst(c) /\ PathBeyond(c, "target") # <<>>
    <3>1. g = SeekTarget(c, f)
      BY <1>12, <2>3 DEF Entered
    <3> QED BY <3>1, <2>3, <1>4, <1>8, <1>11, <1>12
  <2> QED BY <2>1, <2>2, <2>3
<1>13. CASE f.role = "target"
  <2>1. g = TargetAcquired(c, f)
    BY <1>13 DEF Entered
  <2>2. CASE SourceFirst(c)
    <3>1. g = [f EXCEPT !.at = "maps"]
      BY <2>1, <2>2 DEF TargetAcquired
    <3> QED BY <3>1, <2>2, <1>9, <1>13
  <2>3. CASE ~SourceFirst(c)
    <3>1. g = SeekSource(c, f)
      BY <2>1, <2>3 DEF TargetAcquired
    <3> QED BY <3>1, <2>3, <1>4, <1>8, <1>11, <1>13
  <2> QED BY <2>2, <2>3
<1>14. CASE f.role = "source"
  <2>1. g = SourceAcquired(c, f)
    BY <1>14 DEF Entered
  <2>2. CASE ~SourceFirst(c)
    <3>1. g = [f EXCEPT !.at = "maps"]
      BY <2>1, <2>2 DEF SourceAcquired
    <3> QED BY <3>1, <2>2, <1>9, <1>14
  <2>3. CASE SourceFirst(c) /\ IsPrefix(c.target, c.source)
    <3>1. g = Do(f, <<WriterFinal(f.source), ReaderFinal(f.shared),
                      Notify(f.source, NULL), Return(Result("EEXIST"))>>)
      BY <2>1, <2>3 DEF SourceAcquired
    <3> QED BY <3>1, <2>3, <1>14, AboveStep
  <2>4. CASE SourceFirst(c) /\ ~IsPrefix(c.target, c.source)
    <3>1. g = SeekTarget(c, f)
      BY <2>1, <2>4 DEF SourceAcquired
    <3>2. CASE PathBeyond(c, "target") = <<>>
      <4>1. SeekTarget(c, f) = TargetAcquired(c, f)
        BY <3>2, <2>4, <1>4, <1>11, <1>14
      <4>2. TargetAcquired(c, f) = [f EXCEPT !.at = "maps"]
        BY <2>4 DEF TargetAcquired
      <4> QED BY <3>1, <4>1, <4>2, <1>9, <1>14
    <3>3. CASE PathBeyond(c, "target") # <<>>
      BY <3>1, <3>3, <2>4, <1>4, <1>8, <1>11, <1>14
    <3> QED BY <3>2, <3>3
  <2> QED BY <2>2, <2>3, <2>4
<1> QED BY <1>4, <1>6, <1>7, <1>12, <1>13, <1>14

-----------------------------------------------------------------------------
(* Get: the next folder of a walk.                                         *)

\* g is f at the next folder, n, of its walk: the last one, or not.
Arrives(f, g, n) ==
  /\ g.at = "lock" /\ g.cur = n /\ g.next = NULL /\ ~g.skip /\ g.walk = f.walk
  /\ g.rest = f.rest /\ g.todo = f.todo
  /\ f.rest # <<>> => g.role = "step" /\ g.shared = f.shared /\ g.source = f.source
                        /\ g.target_parent = f.target_parent
  /\ f.rest = <<>> =>
       /\ g.role = f.walk
       /\ IF f.walk = "shared" THEN g.shared = n ELSE g.shared = f.shared
       /\ IF f.walk \in {"shared", "source"} THEN g.source = n ELSE g.source = f.source
       /\ IF f.walk \in {"shared", "target"} THEN g.target_parent = n
          ELSE g.target_parent = f.target_parent

\* A call of a preliminary protocol.
Calling(f, g, n, role) ==
  /\ g.at = "lock" /\ g.cur = n /\ g.role = role /\ g.next = f.next /\ g.skip = f.skip
  /\ g.walk = f.walk /\ g.rest = f.rest /\ g.todo = f.todo /\ g.shared = f.shared
  /\ g.source = f.source /\ g.target_parent = f.target_parent

LEMMA EnterIs ==
  ASSUME NEW f \in FrameType, NEW n \in NodeId, NEW role \in Walks \cup {"step"}, NEW g, g = Enter(f, n, role)
  PROVE  g \in FrameType /\ Calling(f, g, n, role)
<1>1. "lock" \in Ats /\ role \in Walks \cup {"none", "step"}
  BY DEF Ats
<1>2. g = [f EXCEPT !.at = "lock", !.cur = n, !.role = role]
  BY DEF Enter
<1> QED BY <1>1, <1>2 DEF FrameType, Calling

Placed(f, h, shared, source, target_parent) ==
  /\ h.at = f.at /\ h.cur = f.cur /\ h.role = f.role /\ h.next = f.next /\ h.skip = f.skip
  /\ h.walk = f.walk /\ h.rest = f.rest /\ h.todo = f.todo /\ h.shared = shared
  /\ h.source = source /\ h.target_parent = target_parent

LEMMA WalkIs ==
  ASSUME NEW c, NEW f \in FrameType, f.walk \in Walks, f.next = NULL, ~f.skip, NEW n \in NodeId,
         f.walk = "target" => n # f.shared, NEW g, g = Walk(c, f, n)
  PROVE  g \in FrameType /\ Arrives(f, g, n)
<1>1. CASE f.rest # <<>>
  <2>1. g = Enter(f, n, "step") /\ "step" \in Walks \cup {"step"}
    BY <1>1 DEF Walk
  <2>2. g \in FrameType /\ Calling(f, g, n, "step")
    BY <2>1, EnterIs
  <2> QED BY <2>2, <1>1 DEF Arrives, Calling
<1>2. CASE f.rest = <<>>
  <2>1. g = Arrive(c, f, n)
    BY <1>2 DEF Walk
  <2>2. CASE f.walk \in {"list", "create", "remove"}
    <3>1. g = Enter(f, n, f.walk) /\ f.walk \in Walks \cup {"step"}
      BY <2>1, <2>2 DEF Arrive
    <3>2. g \in FrameType /\ Calling(f, g, n, f.walk)
      BY <3>1, EnterIs
    <3> QED BY <3>2, <2>2, <1>2 DEF Arrives, Calling
  <2>3. CASE f.walk = "shared"
    <3> PICK h : h = [f EXCEPT !.shared = n, !.source = n, !.target_parent = n]
      OBVIOUS
    <3>1. h \in FrameType /\ Placed(f, h, n, n, n)
      BY DEF FrameType, Placed
    <3>2. g = Enter(h, n, "shared") /\ "shared" \in Walks \cup {"step"}
      BY <2>1, <2>3 DEF Arrive, Walks
    <3>3. g \in FrameType /\ Calling(h, g, n, "shared")
      BY <3>1, <3>2, EnterIs
    <3> QED BY <3>1, <3>3, <2>3, <1>2 DEF Arrives, Calling, Placed
  <2>4. CASE f.walk = "source"
    <3> PICK h : h = [f EXCEPT !.source = n]
      OBVIOUS
    <3>1. h \in FrameType /\ Placed(f, h, f.shared, n, f.target_parent)
      BY DEF FrameType, Placed
    <3>2. g = Enter(h, n, "source") /\ "source" \in Walks \cup {"step"}
      BY <2>1, <2>4 DEF Arrive, Walks
    <3>3. g \in FrameType /\ Calling(h, g, n, "source")
      BY <3>1, <3>2, EnterIs
    <3> QED BY <3>1, <3>3, <2>4, <1>2 DEF Arrives, Calling, Placed
  <2>5. CASE f.walk = "target"
    <3> PICK h : h = [f EXCEPT !.target_parent = n]
      OBVIOUS
    <3>1. h \in FrameType /\ Placed(f, h, f.shared, f.source, n)
      BY DEF FrameType, Placed
    <3>2. g = Enter(h, n, "target") /\ "target" \in Walks \cup {"step"}
      BY <2>1, <2>5 DEF Arrive, TargetReached, Walks
    <3>3. g \in FrameType /\ Calling(h, g, n, "target")
      BY <3>1, <3>2, EnterIs
    <3> QED BY <3>1, <3>3, <2>5, <1>2 DEF Arrives, Calling, Placed
  <2> QED BY <2>2, <2>3, <2>4, <2>5 DEF Walks
<1> QED BY <1>1, <1>2

\* f is about to go on to n.
AtChild(nd, c, f, k, n) ==
  /\ FrameOK(c, f) /\ ChainsOK(nd, c, f, k) /\ k.maps = {}
  /\ f.at = "leave" \/ (f.at = "get" /\ f.skip)
  /\ n \in NodeId /\ n # Root /\ n \notin Counts(k) /\ nd[n].parent = f.cur
  /\ Moving(f) /\ f.cur = f.shared => nd[n].name = Branch(c, WalkSlot(f))

\* What changes when the child has been found.
Forward(f, h) ==
  /\ h.skip = FALSE /\ h.next = NULL /\ h.walk = f.walk /\ h.shared = f.shared /\ h.source = f.source
  /\ h.target_parent = f.target_parent /\ h.todo = f.todo /\ h.rest = Tail(f.rest)

LEMMA AtChildIs ==
  ASSUME NEW nd, NEW c, NEW f, NEW k, NEW n, AtChild(nd, c, f, k, n)
  PROVE  /\ c \in Calls /\ f \in FrameType /\ GoingOK(c, f) /\ f.cur \in NodeId
         /\ Going(f) /\ ~Ahead(f) /\ Leading(f) /\ ~InLock(f) /\ ~Gone(f)
         /\ (~f.skip => f.at = "leave" /\ f.role = "step")
         /\ Moving(f) => f.shared \in Counts(k) /\ n # f.shared
         /\ f.walk = "source" => f.source = f.shared
         /\ f.walk = "target" => f.target_parent = f.shared
         /\ ~Moving(f) => f.shared = NULL /\ f.source = NULL /\ f.target_parent = NULL /\ f.role = "step"
<1>1. Going(f) /\ FrameOK(c, f) /\ ChainsOK(nd, c, f, k) /\ n \notin Counts(k)
      /\ (f.at = "leave" \/ (f.at = "get" /\ f.skip))
  BY DEF AtChild, Going
<1>2. c \in Calls /\ f \in FrameType /\ GoingOK(c, f) /\ f.cur \in NodeId
  BY <1>1, GoingIs
<1>3. ~Ahead(f) /\ Leading(f) /\ ~InLock(f) /\ ~Gone(f)
  BY <1>1 DEF Ahead, Leading, InLock, Gone
<1>4. (~f.skip => f.at = "leave" /\ f.role = "step") /\ (~Moving(f) => ~f.skip)
  BY <1>1, <1>2 DEF GoingOK
<1>5. Moving(f) => f.shared \in Counts(k)
  BY <1>1, MovingPlaces, GoingChains
<1>6. /\ f.walk = "source" => f.source = f.shared
      /\ f.walk = "target" => f.target_parent = f.shared
  BY <1>2, <1>3 DEF GoingOK, Moving
<1>7. ~Moving(f) => f.shared = NULL /\ f.source = NULL /\ f.target_parent = NULL /\ f.role = "step"
  BY <1>2, <1>4 DEF GoingOK
<1> QED BY <1>1, <1>2, <1>3, <1>4, <1>5, <1>6, <1>7

LEMMA WalkFrame ==
  ASSUME NEW nd, NEW c, NEW f, NEW k, NEW n, AtChild(nd, c, f, k, n),
         NEW h, Forward(f, h), NEW g \in FrameType, Arrives(h, g, n)
  PROVE  /\ FrameOK(c, g) /\ Going(g) /\ (Moving(g) <=> Moving(f)) /\ Ahead(g) /\ InLock(g)
         /\ Moving(f) => g.shared = f.shared
         /\ Moving(f) => (HasSource(g) <=> HasSource(f)) /\ (HasTarget(g) <=> HasTarget(f))
         /\ HasSource(f) => g.source = f.source
         /\ HasTarget(f) => g.target_parent = f.target_parent
<1>1. /\ c \in Calls /\ f \in FrameType /\ GoingOK(c, f) /\ f.cur \in NodeId
      /\ Going(f) /\ ~Ahead(f) /\ Leading(f) /\ ~InLock(f) /\ ~Gone(f)
      /\ (~f.skip => f.at = "leave" /\ f.role = "step")
      /\ Moving(f) => n # f.shared
      /\ f.walk = "source" => f.source = f.shared
      /\ f.walk = "target" => f.target_parent = f.shared
      /\ ~Moving(f) => f.shared = NULL /\ f.source = NULL /\ f.target_parent = NULL /\ f.role = "step"
  BY AtChildIs
<1>2. /\ g.at = "lock" /\ g.cur = n /\ g.next = NULL /\ ~g.skip /\ g.walk = f.walk
      /\ InLock(g) /\ Ahead(g) /\ Going(g) /\ ~Gone(g) /\ (Moving(g) <=> Moving(f))
      /\ n \in NodeId /\ n # Root /\ (Leading(g) <=> g.role = "step")
      /\ f.walk \in Walks
  BY <1>1 DEF Arrives, Forward, InLock, Ahead, Going, Gone, Moving, AtChild, GoingOK, Leading
<1>3. /\ g.role = "step" => g.rest # <<>> /\ g.shared = f.shared /\ g.source = f.source /\ g.target_parent = f.target_parent
      /\ g.role # "step" => g.role = f.walk
      /\ g.role = "shared" => g.shared = n /\ g.source = n /\ g.target_parent = n
      /\ g.role = "source" => g.shared = f.shared /\ g.source = n /\ g.target_parent = f.target_parent
      /\ g.role = "target" => g.shared = f.shared /\ g.source = f.source /\ g.target_parent = n
      /\ g.role \in {"list", "create", "remove"} =>
           g.shared = f.shared /\ g.source = f.source /\ g.target_parent = f.target_parent
  <2>1. h.walk = f.walk /\ h.shared = f.shared /\ h.source = f.source /\ h.target_parent = f.target_parent
    BY DEF Forward
  <2>2. CASE h.rest # <<>>
    BY <2>1, <2>2 DEF Arrives
  <2>3. CASE h.rest = <<>>
    BY <2>1, <2>3, <1>2 DEF Arrives, Walks
  <2> QED BY <2>2, <2>3
<1>4. GoingOK(c, g)
  <2>1. /\ g.walk \in Walks /\ Rejected(c) = <<>> /\ g.cur \in NodeId
        /\ c.op = IF g.walk \in {"list", "create", "remove"} THEN g.walk ELSE "move"
    BY <1>1, <1>2 DEF GoingOK
  <2>2. /\ IF g.role = "step" THEN g.rest # <<>> ELSE g.role = g.walk
        /\ g.role = "shared" =>
             g.cur = g.shared /\ g.cur = g.source /\ g.cur = g.target_parent
        /\ g.role = "source" => g.cur = g.source /\ g.cur # g.shared
        /\ g.role = "target" => g.cur = g.target_parent /\ g.cur # g.shared
        /\ g.role = "remove" => g.cur # Root
    BY <1>1, <1>2, <1>3 DEF Moving
  <2>3. Moving(g) =>
       /\ {g.shared, g.source, g.target_parent} \subseteq NodeId
       /\ g.role \notin {"list", "create", "remove", "none"}
       /\ g.source # g.shared => g.source # Root
       /\ SourceFirst(c) /\ g.walk = "source" => g.target_parent = g.shared
       /\ SourceFirst(c) /\ g.walk = "target" => g.source # g.shared
       /\ ~SourceFirst(c) /\ g.walk = "target" => g.source = g.shared
       /\ Leading(g) => IF g.walk = "source" THEN g.source = g.shared
                        ELSE g.target_parent = g.shared
       /\ Leading(g) /\ ~g.skip => g.cur # g.shared
       /\ ~Leading(g) /\ g.walk = "target" => g.target_parent # g.shared
       /\ g.walk = "target" \/ g.target_parent # g.shared
            => PathBeyond(c, "target") # <<>>
    <3> SUFFICES ASSUME Moving(g)
                 PROVE
          /\ {g.shared, g.source, g.target_parent} \subseteq NodeId
          /\ g.role \notin {"list", "create", "remove", "none"}
          /\ g.source # g.shared => g.source # Root
          /\ SourceFirst(c) /\ g.walk = "source" => g.target_parent = g.shared
          /\ SourceFirst(c) /\ g.walk = "target" => g.source # g.shared
          /\ ~SourceFirst(c) /\ g.walk = "target" => g.source = g.shared
          /\ Leading(g) => IF g.walk = "source" THEN g.source = g.shared
                           ELSE g.target_parent = g.shared
          /\ Leading(g) /\ ~g.skip => g.cur # g.shared
          /\ ~Leading(g) /\ g.walk = "target" => g.target_parent # g.shared
          /\ g.walk = "target" \/ g.target_parent # g.shared
               => PathBeyond(c, "target") # <<>>
      OBVIOUS
    <3>1. /\ f.walk \in {"source", "target"} /\ {f.shared, f.source, f.target_parent} \subseteq NodeId
          /\ f.source # f.shared => f.source # Root
          /\ SourceFirst(c) /\ f.walk = "source" => f.target_parent = f.shared
          /\ SourceFirst(c) /\ f.walk = "target" => f.source # f.shared
          /\ ~SourceFirst(c) /\ f.walk = "target" => f.source = f.shared
          /\ f.walk = "target" \/ f.target_parent # f.shared => PathBeyond(c, "target") # <<>>
      BY <1>1, <1>2 DEF GoingOK, Moving
    <3>2. n # f.shared /\ n \in NodeId /\ n # Root
      BY <1>1, <1>2
    <3>3. CASE g.role = "step"
      BY <3>1, <3>2, <3>3, <1>1, <1>2, <1>3
    <3>4. CASE g.role = "source"
      BY <3>1, <3>2, <3>4, <1>1, <1>2, <1>3
    <3>5. CASE g.role = "target"
      BY <3>1, <3>2, <3>5, <1>1, <1>2, <1>3
    <3> QED BY <3>1, <3>3, <3>4, <3>5, <1>2, <1>3
  <2>4. ~Moving(g) /\ g.role # "shared" =>
            g.shared = NULL /\ g.source = NULL /\ g.target_parent = NULL
    BY <1>1, <1>2, <1>3 DEF Moving, Walks
  <2> QED BY <2>1, <2>2, <2>3, <2>4, <1>2 DEF GoingOK
<1>5. FrameOK(c, g)
  BY <1>1, <1>2, <1>4 DEF FrameOK
<1>6. Moving(f) => g.shared = f.shared
  BY <1>3 DEF Moving
<1>7. /\ Moving(f) => (HasSource(g) <=> HasSource(f)) /\ (HasTarget(g) <=> HasTarget(f))
      /\ HasSource(f) => g.source = f.source
      /\ HasTarget(f) => g.target_parent = f.target_parent
  BY <1>1, <1>2, <1>3 DEF HasSource, HasTarget, Moving
<1> QED BY <1>2, <1>5, <1>6, <1>7

LEMMA WalkLocal ==
  ASSUME NEW nd, NEW c, NEW f, NEW k, NEW n, AtChild(nd, c, f, k, n),
         NEW h, Forward(f, h), NEW g \in FrameType, Arrives(h, g, n)
  PROVE  /\ Local(nd, c, g, k) /\ g.at = "lock" /\ g.cur = n
         /\ KeptReads(g) = KeptReads(f) /\ KeptWrites(g) = KeptWrites(f) /\ Owns(g) = Owns(f)
<1>1. /\ c \in Calls /\ f \in FrameType /\ GoingOK(c, f) /\ f.cur \in NodeId
      /\ Going(f) /\ ~Ahead(f) /\ Leading(f) /\ ~InLock(f)
      /\ f.walk = "source" => f.source = f.shared
      /\ f.walk = "target" => f.target_parent = f.shared
  BY AtChildIs
<1>2. /\ FrameOK(c, g) /\ Going(g) /\ (Moving(g) <=> Moving(f)) /\ Ahead(g) /\ InLock(g)
      /\ Moving(f) => g.shared = f.shared
      /\ Moving(f) => (HasSource(g) <=> HasSource(f)) /\ (HasTarget(g) <=> HasTarget(f))
      /\ HasSource(f) => g.source = f.source
      /\ HasTarget(f) => g.target_parent = f.target_parent
  BY WalkFrame
<1>3. /\ ChainsOK(nd, c, f, k) /\ n \notin Counts(k) /\ nd[n].parent = f.cur /\ k.maps = {}
      /\ Moving(f) /\ f.cur = f.shared => nd[n].name = Branch(c, WalkSlot(f))
      /\ g.at = "lock" /\ g.cur = n /\ g.walk = f.walk
  BY DEF AtChild, Arrives, Forward
<1>4. Here(nd, g) = f.cur /\ Here(nd, f) = f.cur /\ Pending(g) = n /\ WalkSlot(g) = WalkSlot(f)
  BY <1>1, <1>2, <1>3 DEF Here, Pending, WalkSlot
<1>5. \A i \in 1 .. 3 : Bottom(nd, g, i) = Bottom(nd, f, i) /\ Top(g, i) = Top(f, i)
  <2>0. \A i \in 1 .. 3 : i = 1 \/ i = 2 \/ i = 3
    OBVIOUS
  <2>1. CASE Moving(f)
    <3>1. Bottom(nd, g, 1) = Bottom(nd, f, 1) /\ Top(g, 1) = Top(f, 1)
      BY <2>1, <1>1, <1>2, <1>3, <1>4, BottomsMoving
    <3>2. Bottom(nd, g, 2) = Bottom(nd, f, 2) /\ Top(g, 2) = Top(f, 2)
      BY <2>1, <1>1, <1>2, <1>3, <1>4, BottomsMoving
    <3>3. Bottom(nd, g, 3) = Bottom(nd, f, 3) /\ Top(g, 3) = Top(f, 3)
      BY <2>1, <1>1, <1>2, <1>3, <1>4, BottomsMoving
    <3> QED BY <3>1, <3>2, <3>3, <2>0
  <2>2. CASE ~Moving(f)
    BY <2>0, <2>2, <1>1, <1>2, <1>3, <1>4, BottomsStill
  <2> QED BY <2>1, <2>2
<1>6. ChainsOK(nd, c, g, k)
  <2>1. /\ DOMAIN k.chain = 1 .. 3
        /\ \A i \in 1 .. 3 : IsChain(nd, k.chain[i], Bottom(nd, f, i), Top(f, i))
        /\ k.chain[1] \cap k.chain[2] = {} /\ k.chain[1] \cap k.chain[3] = {}
        /\ k.chain[2] \cap k.chain[3] = {}
    BY <1>1, <1>3, GoingChains
  <2>2. \A i \in 1 .. 3 : IsChain(nd, k.chain[i], Bottom(nd, g, i), Top(g, i))
    BY <2>1, <1>5
  <2>3. Moving(g) => \A i \in {1, 2} : \A m \in k.chain[i] :
           nd[m].parent = g.shared => nd[m].name = Branch(c, i)
    BY <1>1, <1>2, <1>3 DEF ChainsOK
  <2>4. Moving(g) /\ Pending(g) # NULL
           => (nd[Pending(g)].parent = g.shared => nd[Pending(g)].name = Branch(c, WalkSlot(g)))
    BY <1>2, <1>3, <1>4
  <2>5. Pending(g) \notin Counts(k) /\ g.at # "leave"
    BY <1>3, <1>4
  <2> QED BY <2>1, <2>2, <2>3, <2>4, <2>5, <1>2, ChainsFit
<1>7. MapsOK(nd, c, g, k)
  BY <1>3, MapsNone
<1>8. KeptReads(g) = KeptReads(f) /\ KeptWrites(g) = KeptWrites(f)
  BY <1>2, <1>3 DEF KeptReads, KeptWrites, HasSource, HasTarget
<1>9. Owns(g) = Owns(f)
  <2>1. f.at \in {"get", "leave"}
    BY DEF AtChild
  <2>2. HasSource(f) <=> HasSource(g)
    BY <1>2 DEF HasSource
  <2> QED BY <2>1, <2>2, <1>1, <1>2, <1>3 DEF Owns
<1> QED BY <1>2, <1>3, <1>6, <1>7, <1>8, <1>9 DEF Local

LEMMA CountsDeeper ==
  ASSUME NEW nd, NEW S, NEW dp, Good(nd, S, dp), NEW t \in Thread, NEW C, C \subseteq S[t].counts
  PROVE  Deeper(nd, C, dp)
<1>1. C \subseteq NodeId /\ Depths(nd, S, dp)
  BY DEF Good, Global, Typed
<1>2. NULL \notin NodeId
  BY TreeAssumption
<1>3. /\ \A n \in NodeId : dp[n] \in Nat
      /\ \E top \in Nat : \A n \in NodeId : dp[n] <= top
      /\ \A n \in NodeId : n \in S[t].counts /\ nd[n].parent # NULL => dp[nd[n].parent] < dp[n]
  BY <1>1 DEF Depths
<1>4. \A n \in C : nd[n].parent \in C => dp[nd[n].parent] < dp[n]
  BY <1>1, <1>2, <1>3
<1>5. \E top \in Nat : \A n \in C : dp[n] <= top
  BY <1>1, <1>3
<1>6. \A n \in C : dp[n] \in Nat
  BY <1>1, <1>3
<1> QED BY <1>4, <1>5, <1>6 DEF Deeper

\* It has not counted in the folder that it finds.
LEMMA NewChild ==
  ASSUME NEW nd, NEW c, NEW f, NEW k, FrameOK(c, f), ChainsOK(nd, c, f, k), f.at = "get",
         NEW dp, Deeper(nd, Counts(k), dp), NEW n, nd[n].parent = f.cur, nd[n].name = Head(f.rest)
  PROVE  /\ n \notin Counts(k)
         /\ Moving(f) /\ f.cur = f.shared => nd[n].name = Branch(c, WalkSlot(f))
<1>1. Going(f) /\ ~Ahead(f) /\ Leading(f)
  BY DEF Going, Ahead, Leading
<1>2. c \in Calls /\ GoingOK(c, f) /\ f.cur \in NodeId /\ NULL \notin NodeId
  BY <1>1, GoingIs, TreeAssumption
<1>3. /\ Counts(k) = k.chain[1] \cup k.chain[2] \cup k.chain[3]
      /\ k.chain[1] \cap k.chain[2] = {} /\ k.chain[1] \cap k.chain[3] = {}
      /\ k.chain[2] \cap k.chain[3] = {}
  BY <1>1, GoingChains
<1>4. Deeper(nd, k.chain[1], dp) /\ Deeper(nd, k.chain[2], dp) /\ Deeper(nd, k.chain[3], dp)
  BY <1>3 DEF Deeper
<1>5. CASE ~Moving(f)
  <2>1. k.chain[1] = {} /\ k.chain[2] = {} /\ IsChain(nd, k.chain[3], f.cur, NULL)
    BY <1>1, <1>5, StillPlaces
  <2>2. n \notin k.chain[3]
    BY <2>1, <1>4, ChainNotBelow
  <2> QED BY <2>1, <2>2, <1>3, <1>5
<1>6. CASE Moving(f)
  <2>1. /\ f.shared \in k.chain[3] /\ IsChain(nd, k.chain[3], f.shared, NULL)
        /\ HasSource(f) => IsChain(nd, k.chain[1], f.source, f.shared)
        /\ HasTarget(f) => IsChain(nd, k.chain[2], f.target_parent, f.shared)
        /\ ~HasSource(f) /\ f.walk # "source" => k.chain[1] = {}
        /\ ~HasTarget(f) /\ f.walk # "target" => k.chain[2] = {}
    BY <1>1, <1>6, MovingPlaces
  <2>2. /\ f.skip => f.cur = f.shared /\ k.chain[WalkSlot(f)] = {}
        /\ ~f.skip => f.cur \in k.chain[WalkSlot(f)]
        /\ IsChain(nd, k.chain[WalkSlot(f)], f.cur, f.shared)
        /\ f.walk = "source" => ~HasSource(f)
        /\ f.walk = "target" => ~HasTarget(f)
    BY <1>1, <1>6, WalkPlaces
  <2>3. /\ f.walk = "source" => WalkSlot(f) = 1
        /\ f.walk = "target" => WalkSlot(f) = 2
        /\ f.walk \in {"source", "target"}
    BY <1>6 DEF WalkSlot, Moving
  <2>4. \A i \in {1, 2} : \A m \in k.chain[i] : nd[m].parent \in k.chain[i] \cup {f.shared}
    BY <2>1, <2>2, <2>3 DEF IsChain
  <2>5. n \notin k.chain[WalkSlot(f)]
    BY <2>2, <2>3, <1>4, ChainNotBelow
  <2>6. /\ f.skip => f.rest = PathBeyond(c, f.walk)
        /\ ~f.skip => f.cur # f.shared
        /\ f.rest # <<>> /\ c.op = "move" /\ Rejected(c) = <<>>
        /\ f.walk = "target" \/ f.target_parent # f.shared => PathBeyond(c, "target") # <<>>
    BY <1>1, <1>2, <1>6, <2>3 DEF GoingOK
  <2>7. CASE ~f.skip
    <3>1. \A i \in {1, 2} : i # WalkSlot(f) => n \notin k.chain[i]
      <4>1. \A i \in {1, 2} : i # WalkSlot(f) => f.cur \notin k.chain[i]
        BY <2>2, <2>3, <2>7, <1>3
      <4> QED BY <4>1, <2>4, <2>6, <2>7
    <3>2. n \notin k.chain[3]
      <4>1. f.cur \notin k.chain[3]
        BY <2>2, <2>3, <2>7, <1>3
      <4> QED BY <4>1, <2>1, <1>2 DEF IsChain
    <3> QED BY <3>1, <3>2, <2>3, <2>5, <2>6, <2>7, <1>3
  <2>8. CASE f.skip
    <3>1. n \notin k.chain[3]
      BY <2>1, <2>2, <2>8, <1>4, ChainNotBelow
    <3>2. /\ Head(PathBeyond(c, f.walk)) = Branch(c, IF f.walk = "source" THEN 1 ELSE 2)
          /\ PathBeyond(c, "target") # <<>> => Branch(c, 1) # Branch(c, 2)
      BY <2>3, <2>6, <2>8, <1>2, Paths2
    <3>3. nd[n].name = Branch(c, WalkSlot(f)) /\ nd[n].parent = f.shared
      BY <3>2, <2>2, <2>3, <2>6, <2>8
    <3>4. \A i \in {1, 2} : n \in k.chain[i] => nd[n].name = Branch(c, i)
      BY <3>3, <1>1, <1>6 DEF ChainsOK
    <3>5. f.walk = "source" => n \notin k.chain[2]
      <4>1. f.walk = "source" /\ k.chain[2] # {} => HasTarget(f)
        BY <2>1
      <4>2. HasTarget(f) => f.target_parent # f.shared
        BY DEF HasTarget
      <4> QED BY <4>1, <4>2, <3>2, <3>3, <3>4, <2>3, <2>6
    <3>6. f.walk = "target" => n \notin k.chain[1]
      BY <3>2, <3>3, <3>4, <2>3, <2>6
    <3> QED BY <3>1, <3>3, <3>5, <3>6, <2>3, <2>5, <1>3
  <2> QED BY <2>7, <2>8
<1> QED BY <1>5, <1>6

\* A thread that sleeps nowhere and takes nothing.
Plain(s) ==
  /\ s.moveLock = {} /\ s.asReader = {} /\ s.asWriter = {} /\ s.inPrivate = {}
  /\ s.moves = {} /\ s.removes = {} /\ s.unlinks = {} /\ s.flags = {} /\ s.vacates = {}
  /\ s.acquires = {} /\ s.goesAway = {} /\ s.passesOn = {}

LEMMA PlainIs ==
  ASSUME NEW c, NEW f, NEW k, NEW s, s = Summary(c, f, k), Going(f), f.cur \in NodeId,
         f.at \in {"lock", "get", "leave", "body", "maps", "transfer"}
  PROVE  Plain(s)
<1>1. f.at \notin {"left", "right", "sleep", "private", "discarding"}
  OBVIOUS
<1>2. f.at \notin {"unlink", "discard", "discarding", "calm"} /\ f.at # "flag" /\ f.at \notin {"count", "flag"}
  OBVIOUS
<1>3. s.moveLock = {} /\ s.asReader = {} /\ s.asWriter = {} /\ s.inPrivate = {}
  BY <1>1, GoingSummary
<1>4. s.moves = {} /\ s.removes = {} /\ s.unlinks = {}
  BY <1>2, TakingSummary
<1>5. s.flags = {} /\ s.vacates = {}
  BY <1>2, TakingSummary
<1>6. s.acquires = {} /\ s.goesAway = {} /\ s.passesOn = {}
  BY <1>2, TakingSummary
<1> QED BY <1>3, <1>4, <1>5, <1>6 DEF Plain

LEMMA PlainSame ==
  ASSUME NEW nd, NEW s, NEW s2, Plain(s), Plain(s2), s2.maps = s.maps, s2.owns = s.owns
  PROVE  SameSleep(s, s2) /\ SameHeld(s, s2) /\ s2.unlinks = s.unlinks /\ KeepsPrivacy(nd, s, s2)
<1>1. SameSleep(s, s2) /\ SameHeld(s, s2) /\ s2.unlinks = s.unlinks
  BY DEF Plain, SameSleep, SameHeld, SameTaking
<1>2. KeepsPrivacy(nd, s, s2)
  BY DEF Plain, KeepsPrivacy, OwnedIn
<1> QED BY <1>1, <1>2

Referenced(nd, n) == [nd EXCEPT ![n].safe_hmap_get_count = @ + 1]

\* safe_hmap_get: the child has one more reference, or there is none.
LEMMA LookStep ==
  ASSUME NEW nd, NEW cl, NEW fr, NEW an, NEW K, NEW dp, Inv(nd, cl, fr, an, K, dp),
         NEW t \in Thread, NEW f, f = fr[t], f.at = "get", nd[f.cur].map_writer = NULL,
         NEW n, n = nd[f.cur].children[Head(f.rest)], Head(f.rest) \in Name,
         NEW nd2, n = NULL => nd2 = nd, n # NULL => nd2 = Referenced(nd, n),
         NEW g, Local(nd, cl[t], g, K[t]), g.at \in {"lock", "leave"}, Pending(g) = n,
         Reads(g) = Reads(f), Writes(g) = Writes(f), Owns(g) = Owns(f)
  PROVE  \E K2, e : Inv(nd2, cl, [fr EXCEPT ![t] = g], an, K2, e)
<1> PICK S, c, k, d, a : S = Summaries(cl, fr, K) /\ c = cl[t] /\ k = K[t] /\ d = f.cur /\ a = Head(f.rest)
  OBVIOUS
<1>1. Good(nd, S, dp) /\ Local(nd, c, f, k) /\ S[t] = Summary(c, f, k) /\ nd \in [NodeId -> NodeType]
      /\ \A u \in Thread : u # t => One(S[u])
  BY InvGood DEF Good
<1>2. f \in FrameType /\ Going(f) /\ d \in NodeId /\ a \in Name /\ n \in NodeId \cup {NULL}
  <2>1. Going(f) /\ FrameOK(c, f)
    BY <1>1 DEF Going, Local
  <2>2. f \in FrameType /\ d \in NodeId
    BY <2>1, GoingIs
  <2>3. nd[d] \in NodeType
    BY <2>2, <1>1
  <2> QED BY <2>1, <2>2, <2>3 DEF NodeType
<1>3. Going(g) /\ g.cur \in NodeId
  <2>1. Going(g) /\ FrameOK(c, g)
    BY DEF Going, Local
  <2> QED BY <2>1, GoingIs
<1> PICK s, s2 : s = S[t] /\ s2 = Summary(c, g, k)
  OBVIOUS
<1> PICK S2 : S2 = With(S, t, s2)
  OBVIOUS
<1>6. Others(S, S2, t) /\ S2[t] = s2 /\ S[t] = s
  BY WithIs
<1>7. Plain(s) /\ s.reads = Reads(f) /\ s.writes = Writes(f) /\ s.counts = Counts(k)
      /\ s.maps = k.maps /\ s.owns = Owns(f) /\ s.pending = NULL
  <2>1. s = Summary(c, f, k)
    BY <1>1
  <2>2. Plain(s)
    BY <2>1, <1>2, PlainIs
  <2>3. s.reads = Reads(f) /\ s.writes = Writes(f) /\ s.counts = Counts(k) /\ s.maps = k.maps
        /\ s.owns = Owns(f) /\ s.pending = Pending(f)
    BY <2>1, SummaryIs
  <2> QED BY <2>2, <2>3 DEF Pending, Ahead
<1>8. Plain(s2) /\ s2.reads = Reads(g) /\ s2.writes = Writes(g) /\ s2.counts = Counts(k)
      /\ s2.maps = k.maps /\ s2.owns = Owns(g) /\ s2.pending = n
  <2>2. Plain(s2)
    BY <1>3, PlainIs
  <2>3. s2.reads = Reads(g) /\ s2.writes = Writes(g) /\ s2.counts = Counts(k) /\ s2.maps = k.maps
        /\ s2.owns = Owns(g) /\ s2.pending = Pending(g)
    BY SummaryIs
  <2> QED BY <2>2, <2>3
<1>9. SameUse(s, s2) /\ SameSleep(s, s2) /\ SameHeld(s, s2) /\ s2.unlinks = s.unlinks /\ KeepsPrivacy(nd, s, s2)
      /\ s.vacates = {}
  <2>1. SameUse(s, s2)
    BY <1>7, <1>8 DEF SameUse
  <2>2. s2.maps = s.maps /\ s2.owns = s.owns /\ s.vacates = {}
    BY <1>7, <1>8 DEF Plain
  <2> QED BY <2>1, <2>2, <1>7, <1>8, PlainSame
<1>11. Global(nd2, S2, dp) /\ nd2 \in [NodeId -> NodeType] /\ SameTree(nd, nd2)
  <2>1. CASE n = NULL
    <3>1. Quiet(nd, s, s2)
      BY <2>1, <1>7, <1>8, <1>9 DEF Quiet, Plain
    <3>2. Quiet(nd, S[t], S2[t])
      BY <3>1, <1>6
    <3>3. Global(nd, S2, dp)
      BY ONLY <3>2, <1>1, <1>6, t \in Thread, GQuiet
    <3> QED BY <3>3, <2>1, <1>1 DEF SameTree
  <2>2. CASE n # NULL
    <3>1. n \in NodeId /\ nd[d].map_writer = NULL /\ nd[d].children[a] = n
          /\ nd2 = [nd EXCEPT ![n].safe_hmap_get_count = @ + 1]
      BY <2>2, <1>2 DEF Referenced
    <3>2. S[t].vacates = {} /\ S[t].pending = NULL /\ S2[t].pending = n
          /\ SameUse(S[t], S2[t]) /\ SameSleep(S[t], S2[t]) /\ SameHeld(S[t], S2[t])
          /\ S2[t].unlinks = S[t].unlinks /\ KeepsPrivacy(nd, S[t], S2[t])
      BY <1>6, <1>7, <1>8, <1>9
    <3> QED BY ONLY <3>1, <3>2, <1>1, <1>2, <1>6, t \in Thread, GLook
  <2> QED BY <2>1, <2>2
<1>12. fr[t].at # "idle"
  OBVIOUS
<1> QED BY <1>11, <1>12, Settle

SameUsed(f, g) == g.cur = f.cur /\ g.role = f.role /\ Going(g) /\ (Inside(g) <=> Inside(f))

LEMMA UsedSame ==
  ASSUME NEW f, NEW g, Going(f), f.cur \in NodeId, SameUsed(f, g),
         KeptReads(g) = KeptReads(f), KeptWrites(g) = KeptWrites(f)
  PROVE  Reads(g) = Reads(f) /\ Writes(g) = Writes(f)
<1>1. (IsWriter(f) <=> IsWriter(g)) /\ Going(g) /\ g.cur = f.cur /\ g.cur \in NodeId
      /\ (Inside(g) <=> Inside(f))
  BY DEF SameUsed, IsWriter
<1>2. CASE Inside(f) /\ IsWriter(f)
  BY <1>1, <1>2, UsesAre
<1>3. CASE Inside(f) /\ ~IsWriter(f)
  BY <1>1, <1>3, UsesAre
<1>4. CASE ~Inside(f)
  BY <1>1, <1>4, UsesAre
<1> QED BY <1>2, <1>3, <1>4

Leaving(f, n) == [f EXCEPT !.next = n, !.at = "leave"]

\* process_path is about to leave the folder where it has looked.
LEMMA LeaveLocal ==
  ASSUME NEW nd, NEW c, NEW f, NEW k, Local(nd, c, f, k), f.at = "get", ~f.skip,
         NEW n \in NodeId \cup {NULL}, n # NULL => n \notin Counts(k) /\ nd[n].parent = f.cur,
         NEW g, g = Leaving(f, n)
  PROVE  /\ Local(nd, c, g, k) /\ g.at = "leave" /\ Pending(g) = n
         /\ Reads(g) = Reads(f) /\ Writes(g) = Writes(f) /\ Owns(g) = Owns(f)
<1>1. Going(f) /\ FrameOK(c, f) /\ ChainsOK(nd, c, f, k) /\ MapsOK(nd, c, f, k)
  BY DEF Local, Going
<1>2. c \in Calls /\ f \in FrameType /\ GoingOK(c, f) /\ f.cur \in NodeId
  BY <1>1, GoingIs
<1>3. /\ g \in FrameType /\ g.at = "leave" /\ g.next = n /\ g.role = f.role /\ g.walk = f.walk
      /\ g.cur = f.cur /\ g.rest = f.rest /\ g.skip = f.skip /\ g.shared = f.shared
      /\ g.source = f.source /\ g.target_parent = f.target_parent /\ g.todo = f.todo
  <2>1. "leave" \in Ats
    BY DEF Ats
  <2> QED BY <2>1, <1>2 DEF FrameType, Leaving
<1>4. /\ Going(g) /\ ~InLock(f) /\ ~InLock(g) /\ (Moving(f) <=> Moving(g)) /\ Leading(f) /\ Leading(g)
      /\ ~Ahead(f) /\ ~Ahead(g) /\ ~Gone(f) /\ ~Gone(g) /\ Inside(f) /\ Inside(g)
      /\ (HasSource(g) <=> HasSource(f)) /\ (HasTarget(g) <=> HasTarget(f))
  BY <1>3 DEF Going, InLock, Leading, Moving, Ahead, Gone, Inside, HasSource, HasTarget
<1>5. FrameOK(c, g)
  <2>1. GoingOK(c, g)
    BY <1>2, <1>3, <1>4 DEF GoingOK
  <2> QED BY <2>1, <1>2, <1>3 DEF FrameOK
<1>6. ChainsOK(nd, c, g, k)
  <2>1. Here(nd, g) = f.cur /\ Here(nd, f) = f.cur /\ Pending(g) = n /\ WalkSlot(g) = WalkSlot(f)
    BY <1>3, <1>4 DEF Here, Pending, WalkSlot
  <2>2. \A i \in 1 .. 3 : Bottom(nd, g, i) = Bottom(nd, f, i) /\ Top(g, i) = Top(f, i)
    <3>0. \A i \in 1 .. 3 : i = 1 \/ i = 2 \/ i = 3
      OBVIOUS
    <3>1. CASE Moving(f)
      <4>1. Bottom(nd, g, 1) = Bottom(nd, f, 1) /\ Top(g, 1) = Top(f, 1)
        BY <2>1, <3>1, <1>1, <1>3, <1>4, BottomsMoving
      <4>2. Bottom(nd, g, 2) = Bottom(nd, f, 2) /\ Top(g, 2) = Top(f, 2)
        BY <2>1, <3>1, <1>1, <1>3, <1>4, BottomsMoving
      <4>3. Bottom(nd, g, 3) = Bottom(nd, f, 3) /\ Top(g, 3) = Top(f, 3)
        BY <2>1, <3>1, <1>1, <1>3, <1>4, BottomsMoving
      <4> QED BY <4>1, <4>2, <4>3, <3>0
    <3>2. CASE ~Moving(f)
      BY <3>0, <2>1, <3>2, <1>1, <1>3, <1>4, BottomsStill
    <3> QED BY <3>1, <3>2
  <2>3. /\ DOMAIN k.chain = 1 .. 3
        /\ \A i \in 1 .. 3 : IsChain(nd, k.chain[i], Bottom(nd, f, i), Top(f, i))
        /\ k.chain[1] \cap k.chain[2] = {} /\ k.chain[1] \cap k.chain[3] = {}
        /\ k.chain[2] \cap k.chain[3] = {} /\ Pending(f) \notin Counts(k)
    BY <1>1, GoingChains
  <2>4. \A i \in 1 .. 3 : IsChain(nd, k.chain[i], Bottom(nd, g, i), Top(g, i))
    BY <2>2, <2>3
  <2>5. Moving(g) => \A i \in {1, 2} : \A m \in k.chain[i] :
           nd[m].parent = g.shared => nd[m].name = Branch(c, i)
    BY <1>1, <1>3, <1>4 DEF ChainsOK
  <2>6. Moving(g) /\ Pending(g) # NULL
           => (nd[Pending(g)].parent = g.shared => nd[Pending(g)].name = Branch(c, WalkSlot(g)))
    <3>1. Moving(f) => f.cur # f.shared
      BY <1>2, <1>4 DEF GoingOK
    <3> QED BY <3>1, <2>1, <1>3, <1>4
  <2>7. Pending(g) \notin Counts(k)
    <3>1. Pending(f) = NULL
      BY <1>4 DEF Pending
    <3> QED BY <3>1, <2>1, <2>3
  <2>8. g.at = "leave" /\ g.next # NULL => nd[g.next].parent = g.cur
    BY <1>3
  <2> QED BY <2>3, <2>4, <2>5, <2>6, <2>7, <2>8, <1>4, ChainsFit
<1>7. MapsOK(nd, c, g, k)
  <2>1. k.maps = {}
    BY <1>1, MapsNone
  <2> QED BY <2>1, <1>3, MapsNone
<1>8. Reads(g) = Reads(f) /\ Writes(g) = Writes(f) /\ Owns(g) = Owns(f)
  <2>1. SameUsed(f, g)
    BY <1>3, <1>4 DEF SameUsed
  <2>2. KeptReads(g) = KeptReads(f) /\ KeptWrites(g) = KeptWrites(f)
    BY <1>3, <1>4 DEF KeptReads, KeptWrites
  <2>3. Owns(f) = (IF HasSource(f) THEN {f.source} ELSE {})
    BY <1>1 DEF Owns
  <2>4. Owns(g) = (IF HasSource(g) THEN {g.source} ELSE {})
    BY <1>3, <1>4 DEF Owns
  <2>5. Owns(g) = Owns(f)
    BY <2>3, <2>4, <1>3, <1>4
  <2> QED BY <2>1, <2>2, <2>5, <1>1, <1>2, <1>4, UsedSame
<1>9. Pending(g) = n
  BY <1>3 DEF Pending, Ahead
<1> QED BY <1>3, <1>5, <1>6, <1>7, <1>8, <1>9 DEF Local

Found(f, n) == [f EXCEPT !.next = n]
Ahead1(f) == [f EXCEPT !.rest = Tail(@), !.skip = FALSE, !.next = NULL]

LEMMA ForwardIs ==
  ASSUME NEW f \in FrameType, f.rest # <<>>, NEW n, NEW h, h = Ahead1(Found(f, n))
  PROVE  h \in FrameType /\ Forward(f, h)
<1> PICK r : r = Tail(f.rest)
  OBVIOUS
<1>1. r \in Seq(Name)
  <2>1. f.rest \in Seq(Name)
    BY DEF FrameType
  <2> QED BY <2>1
<1>2. h = [f EXCEPT !.rest = r, !.skip = FALSE, !.next = NULL]
  BY DEF FrameType, Ahead1, Found
<1> QED BY <1>1, <1>2 DEF FrameType, Forward

LEMMA FoundIs ==
  ASSUME NEW f \in FrameType, NEW n \in NodeId \cup {NULL}
  PROVE  /\ Found(f, n) \in FrameType /\ Found(f, n).next = n /\ (n = f.next => Found(f, n) = f)
         /\ [Found(f, n) EXCEPT !.at = "leave"] = Leaving(f, n)
<1>1. Found(f, n) \in FrameType /\ Found(f, n).next = n /\ (n = f.next => Found(f, n) = f)
  BY DEF FrameType, Found
<1>2. [Found(f, n) EXCEPT !.at = "leave"] = Leaving(f, n)
  BY DEF FrameType, Found, Leaving
<1> QED BY <1>1, <1>2

LEMMA StepIs ==
  ASSUME NEW c, NEW f
  PROVE  /\ f.next = NULL => Step(c, f) = Do(f, <<Notify(f.cur, LastToNotify(f))>> \o OnNoEntry(c, f))
         /\ f.next # NULL => Step(c, f) = Walk(c, Ahead1(f), f.next)
BY DEF Step, Ahead1

LEMMA ChildIs ==
  ASSUME NEW nd, NEW S, NEW dp, Good(nd, S, dp), NEW d \in NodeId, NEW a \in Name,
         nd[d].map_writer = NULL, NEW n, n = nd[d].children[a], n # NULL
  PROVE  n \in NodeId /\ n # Root /\ n \in LiveIn(nd) /\ nd[n].parent = d /\ nd[n].name = a
<1>1. nd[d].children[a] # NULL
  OBVIOUS
<1>2. /\ nd[d].children[a] \in NodeId /\ nd[d].children[a] # Root /\ nd[d].children[a] \in LiveIn(nd)
      /\ nd[nd[d].children[a]].parent = d /\ nd[nd[d].children[a]].name = a
  BY <1>1, EntryFree
<1> QED BY <1>2

\* The facts about a thread at safe_hmap_get.
LEMMA AtGet ==
  ASSUME NEW nd, NEW cl, NEW fr, NEW an, NEW K, NEW dp, Inv(nd, cl, fr, an, K, dp),
         NEW t \in Thread, NEW f, f = fr[t], f.at = "get", NEW c, c = cl[t], NEW k, k = K[t]
  PROVE  /\ Local(nd, c, f, k) /\ FrameOK(c, f) /\ ChainsOK(nd, c, f, k) /\ Going(f) /\ k.maps = {}
         /\ ~Ahead(f) /\ Leading(f) /\ f.walk \in Walks /\ c \in Calls /\ f \in FrameType
         /\ GoingOK(c, f) /\ f.cur \in NodeId /\ f.next = NULL /\ f.rest # <<>> /\ Head(f.rest) \in Name
         /\ Deeper(nd, Counts(k), dp)
         /\ (f.skip => Reads(f) = KeptReads(f) /\ Writes(f) = KeptWrites(f))
<1> PICK S : S = Summaries(cl, fr, K)
  OBVIOUS
<1>1. Good(nd, S, dp) /\ Local(nd, c, f, k) /\ S[t] = Summary(c, f, k)
  BY InvGood
<1>2. FrameOK(c, f) /\ ChainsOK(nd, c, f, k) /\ Going(f) /\ ~Ahead(f) /\ Leading(f)
  BY <1>1 DEF Local, Going, Ahead, Leading
<1>3. c \in Calls /\ f \in FrameType /\ GoingOK(c, f) /\ f.cur \in NodeId
  BY <1>2, GoingIs
<1>4. f.next = NULL /\ f.rest # <<>> /\ f.walk \in Walks
  BY <1>3 DEF GoingOK
<1>5. k.maps = {}
  BY <1>1, <1>2, GoingMaps
<1>6. Head(f.rest) \in Name
  <2>1. f.rest \in Seq(Name)
    BY <1>3 DEF FrameType
  <2> QED BY <2>1, <1>4
<1>7. Deeper(nd, Counts(k), dp)
  <2>1. S[t].counts = Counts(k)
    BY <1>1, SummaryIs
  <2> QED BY <2>1, <1>1, CountsDeeper
<1>8. f.skip => Reads(f) = KeptReads(f) /\ Writes(f) = KeptWrites(f)
  <2>1. f.skip => ~Inside(f)
    BY DEF Inside
  <2> QED BY <2>1, <1>2, <1>3, UsesAre
<1> QED BY <1>1, <1>2, <1>3, <1>4, <1>5, <1>6, <1>7, <1>8

LEMMA SkipNone ==
  ASSUME NEW nd, NEW cl, NEW fr, NEW an, NEW K, NEW dp, Inv(nd, cl, fr, an, K, dp),
         NEW t \in Thread, NEW f, f = fr[t], f.at = "get", f.skip,
         NEW g, g = Step(cl[t], Found(f, NULL))
  PROVE  \E K2, e : Inv(nd, cl, [fr EXCEPT ![t] = g], an, K2, e)
<1> PICK c, k : c = cl[t] /\ k = K[t]
  OBVIOUS
<1>1. /\ FrameOK(c, f) /\ ChainsOK(nd, c, f, k) /\ Going(f) /\ k.maps = {}
      /\ ~Ahead(f) /\ Leading(f) /\ f \in FrameType /\ f.next = NULL
      /\ Reads(f) = KeptReads(f) /\ Writes(f) = KeptWrites(f)
  <2>1. Inv(nd, cl, fr, an, K, dp) /\ t \in Thread /\ f = fr[t] /\ f.at = "get" /\ f.skip /\ c = cl[t] /\ k = K[t]
    OBVIOUS
  <2> QED BY ONLY <2>1, AtGet
<1> PICK todo, R, W, M, C, G : todo = <<Notify(f.cur, LastToNotify(f))>> \o OnNoEntry(c, f)
               /\ R = Reads(f) /\ W = Writes(f) /\ M = k.maps /\ C = Counts(k)
               /\ G = k.chain[WalkSlot(f)] \cap {f.cur}
  OBVIOUS
<1>2. g = Do(f, todo)
  <2>1. Found(f, NULL) = f
    BY <1>1, FoundIs
  <2> QED BY <2>1, <1>1, StepIs
<1>3. Plan(nd, c, f, todo, R, W, M, C, {}, {}, G, {})
  <2>1. Plan(nd, c, f, <<Notify(f.cur, LastToNotify(f))>> \o OnNoEntry(c, f),
              KeptReads(f), KeptWrites(f), {}, Counts(k), {}, {},
              k.chain[WalkSlot(f)] \cap {f.cur}, {})
    BY ONLY <1>1, StepPlan
  <2> QED BY <2>1, <1>1
<1>4. Plan(nd, c, f, todo, Reads(f), Writes(f), k.maps, Counts(k), {}, {}, G, {})
  BY <1>3
<1>5. \E K2, e : Inv(nd, cl, [fr EXCEPT ![t] = Do(f, todo)], an, K2, e)
  <2>1. f.at \in {"flag", "get", "body", "transfer"} /\ f.at # "flag"
    OBVIOUS
  <2>2. f = fr[t] /\ c = cl[t] /\ k = K[t] /\ t \in Thread /\ Inv(nd, cl, fr, an, K, dp)
    OBVIOUS
  <2> QED BY ONLY <2>1, <2>2, <1>4, PlanStep
<1> QED BY <1>2, <1>5

LEMMA SkipSome ==
  ASSUME NEW nd, NEW cl, NEW fr, NEW an, NEW K, NEW dp, Inv(nd, cl, fr, an, K, dp),
         NEW t \in Thread, NEW f, f = fr[t], f.at = "get", f.skip, NEW n, n # NULL,
         n \in NodeId /\ n # Root /\ nd[n].parent = f.cur /\ nd[n].name = Head(f.rest),
         NEW g, g = Step(cl[t], Found(f, n))
  PROVE  /\ Local(nd, cl[t], g, K[t]) /\ g.at = "lock" /\ Pending(g) = n
         /\ Reads(g) = Reads(f) /\ Writes(g) = Writes(f) /\ Owns(g) = Owns(f)
<1> PICK c, k : c = cl[t] /\ k = K[t]
  OBVIOUS
<1>1. /\ FrameOK(c, f) /\ ChainsOK(nd, c, f, k) /\ Going(f) /\ k.maps = {}
      /\ f \in FrameType /\ f.rest # <<>> /\ f.walk \in Walks /\ Deeper(nd, Counts(k), dp)
      /\ Reads(f) = KeptReads(f) /\ Writes(f) = KeptWrites(f)
  BY AtGet
<1>2. AtChild(nd, c, f, k, n)
  <2>1. n \notin Counts(k) /\ (Moving(f) /\ f.cur = f.shared => nd[n].name = Branch(c, WalkSlot(f)))
    BY <1>1, NewChild
  <2> QED BY <2>1, <1>1 DEF AtChild
<1> PICK h : h = Ahead1(Found(f, n))
  OBVIOUS
<1>3. h \in FrameType /\ Forward(f, h)
  BY ONLY <1>1, h = Ahead1(Found(f, n)), ForwardIs
<1>4. g = Walk(c, h, n)
  <2>1. Found(f, n).next = n
    BY ONLY <1>1, n \in NodeId, FoundIs
  <2> QED BY <2>1, StepIs
<1>5. g \in FrameType /\ Arrives(h, g, n)
  <2>1. h.walk \in Walks /\ h.next = NULL /\ ~h.skip /\ (h.walk = "target" => n # h.shared)
    <3>1. Moving(f) => n # f.shared
      BY <1>2, AtChildIs
    <3> QED BY <3>1, <1>1, <1>3 DEF Forward, Moving
  <2>2. n \in NodeId
    OBVIOUS
  <2> QED BY ONLY <2>1, <2>2, <1>3, <1>4, WalkIs
<1>6. /\ Local(nd, c, g, k) /\ g.at = "lock" /\ g.cur = n
      /\ KeptReads(g) = KeptReads(f) /\ KeptWrites(g) = KeptWrites(f) /\ Owns(g) = Owns(f)
  BY ONLY <1>2, <1>3, <1>5, WalkLocal
<1>7. Reads(g) = Reads(f) /\ Writes(g) = Writes(f)
  <2>1. Going(g) /\ ~Inside(g) /\ g.cur \in NodeId
    BY <1>6 DEF Going, Inside
  <2>2. Reads(g) = KeptReads(g) /\ Writes(g) = KeptWrites(g)
    BY <2>1, UsesAre
  <2> QED BY <2>2, <1>6, <1>1
<1>8. Pending(g) = n
  BY <1>6 DEF Pending, Ahead
<1> QED BY <1>6, <1>7, <1>8

\* safe_hmap_get, and what the thread does next.
Getting(nd, c, f, n, nd2, g) ==
  /\ f.at = "get" /\ nd[f.cur].map_writer = NULL /\ n = nd[f.cur].children[Head(f.rest)]
  /\ (n = NULL => nd2 = nd) /\ (n # NULL => nd2 = Referenced(nd, n))
  /\ (f.skip => g = Step(c, Found(f, n))) /\ (~f.skip => g = Leaving(f, n))

LEMMA GetStep ==
  ASSUME NEW nd, NEW cl, NEW fr, NEW an, NEW K, NEW dp, Inv(nd, cl, fr, an, K, dp),
         NEW t \in Thread, NEW f, f = fr[t], NEW n, NEW nd2, NEW g, Getting(nd, cl[t], f, n, nd2, g)
  PROVE  \E K2, e : Inv(nd2, cl, [fr EXCEPT ![t] = g], an, K2, e)
<1> SUFFICES ASSUME f.at = "get", nd[f.cur].map_writer = NULL, n = nd[f.cur].children[Head(f.rest)],
                    n = NULL => nd2 = nd, n # NULL => nd2 = Referenced(nd, n),
                    f.skip => g = Step(cl[t], Found(f, n)), ~f.skip => g = Leaving(f, n)
             PROVE  \E K2, e : Inv(nd2, cl, [fr EXCEPT ![t] = g], an, K2, e)
  BY DEF Getting
<1> PICK S, c, k, a : S = Summaries(cl, fr, K) /\ c = cl[t] /\ k = K[t] /\ a = Head(f.rest)
  OBVIOUS
<1>1. Good(nd, S, dp) /\ nd \in [NodeId -> NodeType]
  BY InvGood DEF Good
<1>2. /\ Local(nd, c, f, k) /\ FrameOK(c, f) /\ ChainsOK(nd, c, f, k) /\ f.cur \in NodeId
      /\ a \in Name /\ Deeper(nd, Counts(k), dp)
  BY AtGet
<1>3. n \in NodeId \cup {NULL}
  <2>1. nd[f.cur] \in NodeType
    BY <1>1, <1>2
  <2> QED BY <2>1, <1>2 DEF NodeType
<1>4. n # NULL => n \in NodeId /\ n # Root /\ nd[n].parent = f.cur /\ nd[n].name = a
  <2>1. n = nd[f.cur].children[a] /\ nd[f.cur].map_writer = NULL
    OBVIOUS
  <2> QED BY ONLY <2>1, <1>1, <1>2, ChildIs
<1>5. CASE f.skip /\ n = NULL
  <2>1. g = Step(cl[t], Found(f, NULL)) /\ nd2 = nd
    BY <1>5
  <2>2. \E K2, e : Inv(nd, cl, [fr EXCEPT ![t] = g], an, K2, e)
    BY <2>1, <1>5, SkipNone
  <2> QED BY <2>1, <2>2
<1>6. CASE f.skip /\ n # NULL
  <2>1. /\ Local(nd, cl[t], g, K[t]) /\ g.at = "lock" /\ Pending(g) = n
        /\ Reads(g) = Reads(f) /\ Writes(g) = Writes(f) /\ Owns(g) = Owns(f)
    <3>1. g = Step(cl[t], Found(f, n)) /\ n \in NodeId /\ n # Root /\ nd[n].parent = f.cur
          /\ nd[n].name = Head(f.rest)
      BY <1>4, <1>6
    <3>2. Inv(nd, cl, fr, an, K, dp) /\ t \in Thread /\ f = fr[t] /\ f.at = "get" /\ f.skip /\ n # NULL
      BY <1>6
    <3> QED BY ONLY <3>1, <3>2, SkipSome
  <2>2. g.at \in {"lock", "leave"} /\ Head(f.rest) \in Name
    BY <2>1, <1>2
  <2>3. /\ Inv(nd, cl, fr, an, K, dp) /\ t \in Thread /\ f = fr[t] /\ f.at = "get"
        /\ nd[f.cur].map_writer = NULL /\ n = nd[f.cur].children[Head(f.rest)]
        /\ (n = NULL => nd2 = nd) /\ (n # NULL => nd2 = Referenced(nd, n))
    BY <1>6
  <2> QED BY ONLY <2>1, <2>2, <2>3, LookStep
<1>7. CASE ~f.skip
  <2>1. n # NULL => n \notin Counts(k) /\ nd[n].parent = f.cur
    <3>1. f.at = "get" /\ a = Head(f.rest)
      OBVIOUS
    <3> QED BY ONLY <3>1, <1>2, <1>4, NewChild
  <2>2. g = Leaving(f, n)
    BY <1>7
  <2>3. /\ Local(nd, c, g, k) /\ g.at = "leave" /\ Pending(g) = n
        /\ Reads(g) = Reads(f) /\ Writes(g) = Writes(f) /\ Owns(g) = Owns(f)
    <3>1. f.at = "get" /\ ~f.skip
      BY <1>7
    <3> QED BY ONLY <3>1, <2>1, <2>2, <1>2, <1>3, LeaveLocal
  <2>4. Local(nd, cl[t], g, K[t]) /\ g.at \in {"lock", "leave"} /\ Head(f.rest) \in Name
    BY <2>3, <1>2
  <2> QED BY <2>3, <2>4, LookStep
<1> QED BY <1>5, <1>6, <1>7

-----------------------------------------------------------------------------
(* Leave: out of the last folder of a walk.                                *)

LEMMA CurNotKept ==
  ASSUME NEW nd, NEW c, NEW f, NEW k, FrameOK(c, f), ChainsOK(nd, c, f, k), Going(f),
         ~Ahead(f), Leading(f), ~f.skip
  PROVE  f.cur \notin KeptReads(f)
<1>1. f \in FrameType /\ GoingOK(c, f)
  BY GoingIs
<1>2. CASE ~Moving(f)
  BY <1>2, KeptStill
<1>3. CASE Moving(f)
  <2>1. f.cur # f.shared
    BY <1>1, <1>3 DEF GoingOK
  <2>2. HasTarget(f) => f.cur # f.target_parent
    <3>1. f.cur \in k.chain[WalkSlot(f)] /\ (f.walk = "target" => ~HasTarget(f))
      BY <1>3, WalkPlaces
    <3>2. HasTarget(f) => f.target_parent \in k.chain[2]
      BY <1>3, MovingPlaces
    <3>3. k.chain[1] \cap k.chain[2] = {}
      BY GoingChains
    <3>4. f.walk = "source" => WalkSlot(f) = 1
      BY DEF WalkSlot
    <3> QED BY <3>1, <3>2, <3>3, <3>4, <1>3 DEF Moving
  <2> QED BY <2>1, <2>2 DEF KeptReads
<1> QED BY <1>2, <1>3

\* The facts about a thread that is about to leave a folder of its walk.
LEMMA AtLeave ==
  ASSUME NEW nd, NEW cl, NEW fr, NEW an, NEW K, NEW dp, Inv(nd, cl, fr, an, K, dp),
         NEW t \in Thread, NEW f, f = fr[t], f.at = "leave", NEW c, c = cl[t], NEW k, k = K[t]
  PROVE  /\ Local(nd, c, f, k) /\ FrameOK(c, f) /\ ChainsOK(nd, c, f, k) /\ Going(f) /\ k.maps = {}
         /\ ~Ahead(f) /\ Leading(f) /\ f.walk \in Walks /\ f \in FrameType /\ f.rest # <<>>
         /\ f.cur \in NodeId /\ ~f.skip /\ f.next \in NodeId \cup {NULL} /\ f.next \notin Counts(k)
         /\ (f.next # NULL => nd[f.next].parent = f.cur /\ f.next # Root)
         /\ f.cur \notin KeptReads(f)
         /\ Reads(f) = KeptReads(f) \cup {f.cur} /\ Writes(f) = KeptWrites(f)
<1> PICK S : S = Summaries(cl, fr, K)
  OBVIOUS
<1>1. Good(nd, S, dp) /\ Local(nd, c, f, k)
  BY InvGood
<1>2. FrameOK(c, f) /\ ChainsOK(nd, c, f, k) /\ Going(f) /\ ~Ahead(f) /\ Leading(f)
  BY <1>1 DEF Local, Going, Ahead, Leading
<1>3. f \in FrameType /\ GoingOK(c, f) /\ f.cur \in NodeId
  BY <1>2, GoingIs
<1>4. f.rest # <<>> /\ f.walk \in Walks /\ ~f.skip /\ f.role = "step"
  BY <1>3 DEF GoingOK
<1>5. k.maps = {}
  BY <1>1, <1>2, GoingMaps
<1>6. f.next \in NodeId \cup {NULL} /\ f.next \notin Counts(k)
  <2>1. Pending(f) = f.next
    BY DEF Pending, Ahead
  <2> QED BY <2>1, <1>2, <1>3 DEF FrameType, ChainsOK
<1>7. f.next # NULL => nd[f.next].parent = f.cur /\ f.next # Root
  <2>1. f.next # NULL => nd[f.next].parent = f.cur
    BY <1>2 DEF ChainsOK
  <2>2. nd[Root].parent = NULL
    BY <1>1 DEF Good, Global, Shape
  <2> QED BY <2>1, <2>2, <1>3, TreeAssumption
<1>8. f.cur \notin KeptReads(f)
  BY <1>2, <1>4, CurNotKept
<1>9. Reads(f) = KeptReads(f) \cup {f.cur} /\ Writes(f) = KeptWrites(f)
  <2>1. Inside(f) /\ ~IsWriter(f)
    BY <1>4 DEF Inside, IsWriter
  <2> QED BY <2>1, <1>2, <1>3, UsesAre
<1> QED BY <1>1, <1>2, <1>3, <1>4, <1>5, <1>6, <1>7, <1>8, <1>9

\* What the summary of a thread that leaves a folder must have.
LeavesReader(nd, s, s2, n) ==
  /\ SameHeld(s, s2) /\ s2.unlinks = s.unlinks /\ SameSleep(s, s2) /\ KeepsPrivacy(nd, s, s2)
  /\ s2.reads = s.reads \ {n} /\ n \in s.reads /\ s2.writes = s.writes
  /\ s2.counts = s.counts /\ s2.pending = s.pending

LEMMA LeavesReaderGood ==
  ASSUME NEW nd, NEW nd2, NEW S, NEW S2, NEW t \in Thread, NEW dp, NEW n \in NodeId, NEW m2,
         Good(nd, S, dp), Others(S, S2, t), LeavesReader(nd, S[t], S2[t], n),
         m2 \in ReaderLeave(nd[n]), nd2 = [nd EXCEPT ![n] = m2]
  PROVE  Global(nd2, S2, dp) /\ nd2 \in [NodeId -> NodeType] /\ SameTree(nd, nd2)
<1>1. At(nd, nd2, S, S2, t, n, m2, dp)
  BY DEF At, LeavesReader
<1>2. /\ S2[t].reads = S[t].reads \ {n} /\ n \in S[t].reads /\ S2[t].writes = S[t].writes
      /\ S2[t].counts = S[t].counts /\ S2[t].pending = S[t].pending
      /\ SameSleep(S[t], S2[t]) /\ KeepsPrivacy(nd, S[t], S2[t])
  BY DEF LeavesReader
<1> QED BY <1>1, <1>2, GLeaveReader

LEMMA LeaveNone ==
  ASSUME NEW nd, NEW cl, NEW fr, NEW an, NEW K, NEW dp, Inv(nd, cl, fr, an, K, dp),
         NEW t \in Thread, NEW f, f = fr[t], f.at = "leave", f.next = NULL,
         NEW c, c = cl[t], NEW k, k = K[t], NEW g, g = Step(c, f)
  PROVE  \E k2 : Local(nd, c, g, k2) /\ LeavesReader(nd, Summary(c, f, k), Summary(c, g, k2), f.cur)
<1>1. /\ Local(nd, c, f, k) /\ FrameOK(c, f) /\ ChainsOK(nd, c, f, k) /\ Going(f) /\ k.maps = {}
      /\ ~Ahead(f) /\ Leading(f) /\ f \in FrameType /\ f.cur \in NodeId
      /\ f.cur \notin KeptReads(f)
      /\ Reads(f) = KeptReads(f) \cup {f.cur} /\ Writes(f) = KeptWrites(f)
  BY AtLeave
<1> PICK todo, R, W, C, G : todo = <<Notify(f.cur, LastToNotify(f))>> \o OnNoEntry(c, f)
               /\ R = KeptReads(f) /\ W = KeptWrites(f) /\ C = Counts(k)
               /\ G = k.chain[WalkSlot(f)] \cap {f.cur}
  OBVIOUS
<1>2. g = Do(f, todo)
  BY StepIs
<1>3. Plan(nd, c, f, todo, R, W, {}, C, {}, {}, G, {})
  <2>1. Plan(nd, c, f, <<Notify(f.cur, LastToNotify(f))>> \o OnNoEntry(c, f),
              KeptReads(f), KeptWrites(f), {}, Counts(k), {}, {},
              k.chain[WalkSlot(f)] \cap {f.cur}, {})
    BY ONLY <1>1, StepPlan
  <2> QED BY <2>1
<1>4. \E k2 : /\ Local(nd, c, Do(f, todo), k2)
              /\ TodoSummary(Summary(c, Do(f, todo), k2), R, W, {}, C, {}, {}, G, {})
  BY ONLY <1>3, <1>1, Planned
<1> PICK k2 : Local(nd, c, g, k2) /\ TodoSummary(Summary(c, g, k2), R, W, {}, C, {}, {}, G, {})
  BY <1>2, <1>4
<1> PICK s, s2 : s = Summary(c, f, k) /\ s2 = Summary(c, g, k2)
  OBVIOUS
<1>5. /\ s2.reads = R /\ s2.writes = W /\ s2.counts = C /\ s2.pending = NULL /\ s2.maps = {}
      /\ s2.moveLock = {} /\ s2.asReader = {} /\ s2.asWriter = {} /\ s2.inPrivate = {}
      /\ s2.moves = {} /\ s2.removes = {} /\ s2.unlinks = {} /\ s2.flags = {} /\ s2.vacates = {}
      /\ s2.owns = {} /\ s2.acquires = {}
  BY DEF TodoSummary
<1>6. Plain(s)
  BY <1>1, PlainIs
<1>7. s.reads = Reads(f) /\ s.writes = Writes(f) /\ s.counts = Counts(k) /\ s.maps = {} /\ s.pending = NULL
  BY <1>1, GoingSummary
<1>8. SameHeld(s, s2) /\ s2.unlinks = s.unlinks /\ SameSleep(s, s2) /\ KeepsPrivacy(nd, s, s2)
  BY <1>5, <1>6, <1>7 DEF Plain, SameHeld, SameTaking, SameSleep, KeepsPrivacy, OwnedIn
<1>9. LeavesReader(nd, s, s2, f.cur)
  BY <1>1, <1>5, <1>7, <1>8 DEF LeavesReader
<1> QED BY <1>9

LEMMA LeaveSome ==
  ASSUME NEW nd, NEW cl, NEW fr, NEW an, NEW K, NEW dp, Inv(nd, cl, fr, an, K, dp),
         NEW t \in Thread, NEW f, f = fr[t], f.at = "leave", f.next # NULL,
         NEW c, c = cl[t], NEW k, k = K[t], NEW g, g = Step(c, f)
  PROVE  Local(nd, c, g, k) /\ LeavesReader(nd, Summary(c, f, k), Summary(c, g, k), f.cur)
<1>1. /\ Local(nd, c, f, k) /\ FrameOK(c, f) /\ ChainsOK(nd, c, f, k) /\ Going(f) /\ k.maps = {}
      /\ f.walk \in Walks /\ f \in FrameType /\ f.rest # <<>> /\ Leading(f)
      /\ f.cur \in NodeId /\ ~f.skip /\ f.next \in NodeId \cup {NULL} /\ f.next \notin Counts(k)
      /\ (f.next # NULL => nd[f.next].parent = f.cur /\ f.next # Root)
      /\ f.cur \notin KeptReads(f)
      /\ Reads(f) = KeptReads(f) \cup {f.cur} /\ Writes(f) = KeptWrites(f)
  BY AtLeave
<1> PICK n, h : n = f.next /\ h = Ahead1(f)
  OBVIOUS
<1>2. AtChild(nd, c, f, k, n)
  <2>1. GoingOK(c, f)
    BY <1>1, GoingIs
  <2>2. Moving(f) => f.cur # f.shared
    BY <2>1, <1>1 DEF GoingOK
  <2> QED BY <2>2, <1>1 DEF AtChild
<1>3. h \in FrameType /\ Forward(f, h)
  <2>1. Found(f, n) = f
    BY <1>1, FoundIs
  <2>2. h = Ahead1(Found(f, n))
    BY <2>1
  <2> QED BY ONLY <1>1, <2>2, ForwardIs
<1>4. g = Walk(c, h, n)
  BY StepIs
<1>5. g \in FrameType /\ Arrives(h, g, n)
  <2>1. h.walk \in Walks /\ h.next = NULL /\ ~h.skip /\ (h.walk = "target" => n # h.shared)
    <3>1. Moving(f) => n # f.shared
      BY <1>2, AtChildIs
    <3> QED BY <3>1, <1>1, <1>3 DEF Forward, Moving
  <2>2. n \in NodeId
    BY <1>1
  <2> QED BY ONLY <2>1, <2>2, <1>3, <1>4, WalkIs
<1>6. /\ Local(nd, c, g, k) /\ g.at = "lock" /\ g.cur = n
      /\ KeptReads(g) = KeptReads(f) /\ KeptWrites(g) = KeptWrites(f) /\ Owns(g) = Owns(f)
  BY ONLY <1>2, <1>3, <1>5, WalkLocal
<1>7. Going(g) /\ ~Inside(g) /\ g.cur \in NodeId /\ Ahead(g)
  BY <1>1, <1>6 DEF Going, Inside, Ahead
<1>8. Reads(g) = KeptReads(f) /\ Writes(g) = KeptWrites(f)
  BY <1>6, <1>7, UsesAre
<1> PICK s, s2 : s = Summary(c, f, k) /\ s2 = Summary(c, g, k)
  OBVIOUS
<1>9. /\ s.reads = Reads(f) /\ s.writes = Writes(f) /\ s.counts = Counts(k) /\ s.maps = {}
      /\ s.pending = n /\ Plain(s) /\ s.owns = Owns(f)
  <2>1. Plain(s) /\ s.owns = Owns(f)
    BY <1>1, PlainIs, SummaryIs
  <2> QED BY <2>1, <1>1, GoingSummary
<1>10. /\ s2.reads = Reads(g) /\ s2.writes = Writes(g) /\ s2.counts = Counts(k) /\ s2.maps = {}
       /\ s2.pending = n /\ Plain(s2) /\ s2.owns = Owns(g)
  <2>1. Plain(s2) /\ s2.owns = Owns(g)
    BY <1>6, <1>7, PlainIs, SummaryIs
  <2> QED BY <2>1, <1>1, <1>6, <1>7, GoingSummary
<1>11. SameHeld(s, s2) /\ s2.unlinks = s.unlinks /\ SameSleep(s, s2) /\ KeepsPrivacy(nd, s, s2)
  BY <1>6, <1>9, <1>10, PlainSame
<1>12. LeavesReader(nd, s, s2, f.cur)
  BY <1>1, <1>8, <1>9, <1>10, <1>11 DEF LeavesReader
<1> QED BY <1>6, <1>12

LEMMA LeaveStep ==
  ASSUME NEW nd, NEW cl, NEW fr, NEW an, NEW K, NEW dp, Inv(nd, cl, fr, an, K, dp),
         NEW t \in Thread, NEW f, f = fr[t], f.at = "leave",
         NEW m2, m2 \in ReaderLeave(nd[f.cur]), NEW nd2, nd2 = [nd EXCEPT ![f.cur] = m2],
         NEW g, g = Step(cl[t], f)
  PROVE  \E K2, e : Inv(nd2, cl, [fr EXCEPT ![t] = g], an, K2, e)
<1> PICK S, c, k, n : S = Summaries(cl, fr, K) /\ c = cl[t] /\ k = K[t] /\ n = f.cur
  OBVIOUS
<1>1. Good(nd, S, dp) /\ S[t] = Summary(c, f, k)
  BY InvGood
<1>2. n \in NodeId
  <2>1. f.cur \in NodeId
    BY AtLeave
  <2> QED BY <2>1
<1>3. \E k2 : Local(nd, c, g, k2) /\ LeavesReader(nd, Summary(c, f, k), Summary(c, g, k2), n)
  <2>1. CASE f.next = NULL
    <3>1. \E k2 : Local(nd, c, g, k2) /\ LeavesReader(nd, Summary(c, f, k), Summary(c, g, k2), f.cur)
      BY <2>1, LeaveNone
    <3> QED BY <3>1
  <2>2. CASE f.next # NULL
    <3>1. Local(nd, c, g, k) /\ LeavesReader(nd, Summary(c, f, k), Summary(c, g, k), f.cur)
      BY <2>2, LeaveSome
    <3> QED BY <3>1
  <2> QED BY <2>1, <2>2
<1> PICK k2 : Local(nd, c, g, k2) /\ LeavesReader(nd, Summary(c, f, k), Summary(c, g, k2), n)
  BY <1>3
<1> PICK s2, S2 : s2 = Summary(c, g, k2) /\ S2 = With(S, t, s2)
  OBVIOUS
<1>4. Others(S, S2, t) /\ S2[t] = s2
  BY WithIs
<1>5. LeavesReader(nd, S[t], S2[t], n)
  BY <1>1, <1>4
<1>6. Global(nd2, S2, dp) /\ nd2 \in [NodeId -> NodeType] /\ SameTree(nd, nd2)
  <2>1. t \in Thread /\ m2 \in ReaderLeave(nd[n]) /\ nd2 = [nd EXCEPT ![n] = m2]
    OBVIOUS
  <2> QED BY ONLY <2>1, <1>1, <1>2, <1>4, <1>5, LeavesReaderGood
<1>7. /\ fr[t].at # "idle" /\ Local(nd, cl[t], g, k2)
      /\ Global(nd2, With(Summaries(cl, fr, K), t, Summary(cl[t], g, k2)), dp)
  BY <1>6
<1> QED BY <1>6, <1>7, Settle

-----------------------------------------------------------------------------
(* Invoke.                                                                 *)

LEMMA FirstPathIs ==
  ASSUME NEW c \in Calls
  PROVE  FirstPath(c) \in Seq(Name)
<1>1. \/ c.op \in {"list", "create", "remove"} /\ c.path \in Seq(Name)
      \/ c.op = "move" /\ c.source \in Seq(Name) /\ c.target \in Seq(Name)
  BY DEF Calls
<1>2. ASSUME NEW p \in Seq(Name) PROVE PathToParent(p) \in Seq(Name)
  <2> PICK l : l = Len(p)
    OBVIOUS
  <2>1. l \in Nat
    BY LenProperties
  <2>2. \A i \in 1 .. l : p[i] \in Name
    BY ElementOfSeq
  <2>3. 1 \in Int /\ l - 1 \in Int /\ \A i \in 1 .. l - 1 : p[i] \in Name
    <3>1. \A i \in 1 .. l - 1 : i \in 1 .. l
      BY ONLY <2>1
    <3> QED BY <2>1, <2>2, <3>1
  <2>4. SubSeq(p, 1, l - 1) \in Seq(Name)
    BY <2>3, SubSeqProperties
  <2>5. PathToParent(p) = SubSeq(p, 1, Len(p) - 1)
    BY DEF PathToParent, Front
  <2> QED BY <2>4, <2>5
<1>3. CASE c.op \in {"list", "remove"}
  BY <1>1, <1>3 DEF FirstPath
<1>4. CASE c.op = "create"
  BY <1>1, <1>2, <1>4 DEF FirstPath
<1>5. CASE c.op = "move"
  <2>1. SharedPath(c.source, PathToParent(c.target)) \in Seq(Name)
    BY <1>1, <1>2, <1>5, SharedPathIs
  <2>2. FirstPath(c) = SharedPath(c.source, PathToParent(c.target))
    BY <1>5 DEF FirstPath, Shared
  <2> QED BY <2>1, <2>2
<1> QED BY <1>1, <1>3, <1>4, <1>5

Starting(c, f) ==
  /\ f.at = "idle" /\ f.role = "none" /\ f.cur = NULL /\ f.next = NULL /\ ~f.skip
  /\ f.shared = NULL /\ f.source = NULL /\ f.target_parent = NULL /\ f.todo = <<>>
  /\ f.rest = FirstPath(c) /\ f.walk = IF c.op = "move" THEN "shared" ELSE c.op

LEMMA StartingIs ==
  ASSUME NEW c \in Calls, NEW f,
         f = [NoFrame EXCEPT !.rest = FirstPath(c), !.walk = IF c.op = "move" THEN "shared" ELSE c.op]
  PROVE  f \in FrameType /\ Starting(c, f)
<1>1. FirstPath(c) \in Seq(Name) /\ c.op \in {"list", "create", "remove", "move"}
  BY FirstPathIs DEF Calls
<1> PICK r, w : r = FirstPath(c) /\ w = IF c.op = "move" THEN "shared" ELSE c.op
  OBVIOUS
<1>2. w \in Walks /\ r \in Seq(Name)
  BY <1>1 DEF Walks
<1>3. f = [NoFrame EXCEPT !.rest = r, !.walk = w]
  OBVIOUS
<1>4. <<>> \in Seq(Items)
  OBVIOUS
<1>5. f \in FrameType
  BY <1>2, <1>3, <1>4 DEF FrameType, NoFrame
<1>6. Starting(c, f)
  BY <1>3 DEF Starting, NoFrame
<1> QED BY <1>5, <1>6

Fresh(k) == k.maps = {} /\ DOMAIN k.chain = 1 .. 3 /\ k.chain[1] = {} /\ k.chain[2] = {} /\ k.chain[3] = {}

LEMMA FreshIs ==
  /\ \E k : Fresh(k)
  /\ \A k : Fresh(k) => Counts(k) = {}
<1>1. PICK k : k = [chain |-> [i \in 1 .. 3 |-> {}], maps |-> {}]
  OBVIOUS
<1>2. Fresh(k)
  BY <1>1 DEF Fresh
<1>3. \A x : Fresh(x) => Counts(x) = {}
  BY DEF Fresh, Counts
<1> QED BY <1>2, <1>3

LEMMA RootLocal ==
  ASSUME NEW nd, nd[Root].parent = NULL, NEW c \in Calls, Rejected(c) = <<>>, NEW f \in FrameType, Starting(c, f),
         NEW g \in FrameType, Arrives(f, g, Root), NEW k, Fresh(k)
  PROVE  Local(nd, c, g, k) /\ Going(g) /\ ~Moving(g) /\ Ahead(g) /\ g.cur = Root /\ g.at = "lock"
<1>1. /\ c.op \in {"list", "create", "remove", "move"} /\ (c.op = "remove" => c.path # <<>>)
  BY Paths1
<1>2. /\ g.at = "lock" /\ g.cur = Root /\ Root \in NodeId /\ g.next = NULL /\ ~g.skip
      /\ g.walk \in {"list", "create", "remove", "shared"}
      /\ (g.walk = "shared" <=> c.op = "move") /\ (c.op # "move" => g.walk = c.op)
  BY <1>1, TreeAssumption DEF Arrives, Starting
<1>3. Going(g) /\ ~Moving(g) /\ Ahead(g) /\ InLock(g)
  BY <1>2 DEF Going, Moving, Ahead, InLock
<1>4. f.rest # <<>> => g.rest # <<>> /\ g.role = "step" /\ g.shared = NULL /\ g.source = NULL /\ g.target_parent = NULL
  BY DEF Arrives, Starting
<1>5. f.rest = <<>> =>
        /\ g.role = g.walk
        /\ (g.walk = "shared" => g.shared = Root /\ g.source = Root /\ g.target_parent = Root)
        /\ (g.walk # "shared" => g.shared = NULL /\ g.source = NULL /\ g.target_parent = NULL)
  BY <1>2 DEF Arrives, Starting
<1>6. g.walk = "remove" => f.rest # <<>>
  BY <1>1, <1>2 DEF Starting, FirstPath
<1>7. GoingOK(c, g)
  BY <1>2, <1>3, <1>4, <1>5, <1>6 DEF GoingOK, Walks, Gone
<1>8. FrameOK(c, g)
  BY <1>2, <1>7 DEF FrameOK
<1>9. ChainsOK(nd, c, g, k)
  <2>1. DOMAIN k.chain = 1 .. 3 /\ k.chain[1] = {} /\ k.chain[2] = {} /\ k.chain[3] = {}
    BY DEF Fresh
  <2>2. /\ Bottom(nd, g, 1) = NULL /\ Bottom(nd, g, 2) = NULL /\ Bottom(nd, g, 3) = NULL
        /\ Top(g, 1) = NULL /\ Top(g, 2) = NULL /\ Top(g, 3) = NULL
    <3>1. Here(nd, g) = NULL
      BY <1>2, <1>3 DEF Here
    <3> QED BY <3>1, <1>3, BottomsStill
  <2>3. \A i \in 1 .. 3 : IsChain(nd, k.chain[i], Bottom(nd, g, i), Top(g, i))
    <3>1. IsChain(nd, {}, NULL, NULL)
      BY ChainEmpty
    <3>2. \A i \in 1 .. 3 : i = 1 \/ i = 2 \/ i = 3
      OBVIOUS
    <3> QED BY <2>1, <2>2, <3>1, <3>2
  <2>4. Pending(g) \notin Counts(k)
    BY FreshIs
  <2>5. k.chain[1] \cap k.chain[2] = {} /\ k.chain[1] \cap k.chain[3] = {} /\ k.chain[2] \cap k.chain[3] = {}
    BY <2>1
  <2>6. g.at # "leave"
    BY <1>2
  <2> QED BY ONLY <1>3, <2>1, <2>3, <2>4, <2>5, <2>6, ChainsFit
<1>10. MapsOK(nd, c, g, k)
  <2>1. k.maps = {} /\ g.at \notin {"todo", "right", "transfer", "discard", "discarding", "calm"}
    BY <1>2 DEF Fresh
  <2> QED BY <2>1, MapsNone
<1> QED BY <1>2, <1>3, <1>8, <1>9, <1>10 DEF Local

IdleTo(nd, s, s2) ==
  /\ TodoSummary(s2, {}, {}, {}, {}, {}, {}, {}, {})
     \/ (s2.reads = {} /\ s2.writes = {} /\ s2.counts = {} /\ s2.pending = Root /\ s2.maps = {}
           /\ s2.owns = {} /\ Plain(s2))
  /\ TodoSummary(s, {}, {}, {}, {}, {}, {}, {}, {}) /\ s.goesAway = {} /\ s.passesOn = {}

LEMMA IdleQuiet ==
  ASSUME NEW nd, NEW s, NEW s2, IdleTo(nd, s, s2)
  PROVE  Quiet(nd, s, s2)
<1>1. /\ s.reads = {} /\ s.writes = {} /\ s.counts = {} /\ s.pending = NULL /\ s.maps = {}
      /\ s.moveLock = {} /\ s.asReader = {} /\ s.asWriter = {} /\ s.inPrivate = {}
      /\ s.moves = {} /\ s.removes = {} /\ s.unlinks = {} /\ s.flags = {} /\ s.vacates = {}
      /\ s.goesAway = {} /\ s.passesOn = {}
  BY DEF IdleTo, TodoSummary
<1>2. /\ s2.reads = {} /\ s2.writes = {} /\ s2.counts = {} /\ s2.pending \in {NULL, Root} /\ s2.maps = {}
      /\ s2.moveLock = {} /\ s2.asReader = {} /\ s2.asWriter = {} /\ s2.inPrivate = {}
      /\ s2.moves = {} /\ s2.removes = {} /\ s2.unlinks = {} /\ s2.flags = {} /\ s2.vacates = {}
      /\ s2.owns = {} /\ s2.acquires = {}
  BY DEF IdleTo, TodoSummary, Plain
<1>3. SameUse(s, s2) /\ SameSleep(s, s2) /\ SameHeld(s, s2)
  BY <1>1, <1>2 DEF SameUse, SameSleep, SameHeld, SameTaking
<1>4. KeepsPrivacy(nd, s, s2)
  BY <1>1, <1>2 DEF KeepsPrivacy, OwnedIn
<1> QED BY <1>1, <1>2, <1>3, <1>4 DEF Quiet

LEMMA RejectedPlan ==
  ASSUME NEW nd, NEW c \in Calls, NEW f \in FrameType, Rejected(c) # <<>>
  PROVE  Plan(nd, c, f, Rejected(c), {}, {}, {}, {}, {}, {}, {}, {})
<1>1. PICK code \in Codes : Rejected(c) = <<Return(Result(code))>>
  BY DEF Rejected, Codes
<1>2. Return(Result(code)) \in Items
  BY CodesAre
<1> QED BY <1>1, <1>2, PlanReturn

LEMMA StartStep ==
  ASSUME NEW nd, NEW S, NEW dp, Good(nd, S, dp), NEW c \in Calls, NEW f, NEW k0, Local(nd, c, NoFrame, k0),
         f = [NoFrame EXCEPT !.rest = FirstPath(c), !.walk = IF c.op = "move" THEN "shared" ELSE c.op],
         NEW g, Rejected(c) # <<>> => g = Do(f, Rejected(c)), Rejected(c) = <<>> => g = Walk(c, f, Root)
  PROVE  \E k : Local(nd, c, g, k) /\ IdleTo(nd, Summary(c, NoFrame, k0), Summary(c, g, k))
<1>1. f \in FrameType /\ Starting(c, f)
  BY StartingIs
<1>2. /\ TodoSummary(Summary(c, NoFrame, k0), {}, {}, {}, {}, {}, {}, {}, {})
      /\ Summary(c, NoFrame, k0).goesAway = {} /\ Summary(c, NoFrame, k0).passesOn = {}
  BY IdleSummary
<1>3. CASE Rejected(c) # <<>>
  <2> PICK todo, E : todo = Rejected(c) /\ E = {}
    OBVIOUS
  <2>1. Plan(nd, c, f, todo, E, E, E, E, E, E, E, E)
    BY <1>1, <1>3, RejectedPlan
  <2>2. \E k : Local(nd, c, Do(f, todo), k) /\ TodoSummary(Summary(c, Do(f, todo), k), E, E, E, E, E, E, E, E)
    BY ONLY <1>1, <2>1, Planned
  <2> QED BY <2>2, <1>2, <1>3 DEF IdleTo
<1>4. CASE Rejected(c) = <<>>
  <2>1. g \in FrameType /\ Arrives(f, g, Root)
    <3>1. f.walk \in Walks /\ f.next = NULL /\ ~f.skip /\ f.walk # "target"
      BY <1>1 DEF Starting, Calls, Walks
    <3>2. Root \in NodeId /\ g = Walk(c, f, Root)
      BY <1>4, TreeAssumption
    <3> QED BY <1>1, <3>1, <3>2, WalkIs
  <2> PICK k : Fresh(k)
    BY FreshIs
  <2>2. Local(nd, c, g, k) /\ Going(g) /\ ~Moving(g) /\ Ahead(g) /\ g.cur = Root /\ g.at = "lock"
    <3>1. nd[Root].parent = NULL
      BY DEF Good, Global, Shape
    <3> QED BY <3>1, <2>1, <1>1, <1>4, RootLocal
  <2> PICK s2 : s2 = Summary(c, g, k)
    OBVIOUS
  <2>3. Plain(s2) /\ s2.reads = Reads(g) /\ s2.writes = Writes(g) /\ s2.counts = Counts(k) /\ s2.maps = k.maps
        /\ s2.pending = Root /\ s2.owns = Owns(g)
    <3>1. Root \in NodeId
      BY TreeAssumption
    <3>2. Plain(s2)
      BY <2>2, <3>1, PlainIs
    <3>3. s2.owns = Owns(g)
      BY SummaryIs
    <3> QED BY <2>2, <3>1, <3>2, <3>3, GoingSummary
  <2>4. Reads(g) = {} /\ Writes(g) = {}
    <3>1. ~Inside(g) /\ Root \in NodeId
      BY <2>2, TreeAssumption DEF Inside
    <3>2. KeptReads(g) = {} /\ KeptWrites(g) = {}
      BY <2>2, KeptStill
    <3> QED BY <2>2, <3>1, <3>2, UsesAre
  <2>5. Owns(g) = {}
    BY <2>2 DEF Owns, HasSource
  <2>6. Counts(k) = {} /\ k.maps = {}
    BY FreshIs DEF Fresh
  <2> QED BY <2>2, <2>3, <2>4, <2>5, <2>6, <1>2 DEF IdleTo
<1> QED BY <1>3, <1>4

LEMMA InvokeStep ==
  ASSUME NEW nd, NEW cl, NEW fr, NEW an, NEW K, NEW dp, Inv(nd, cl, fr, an, K, dp),
         NEW t \in Thread, fr[t].at = "idle", t \in DOMAIN cl, an[t] = None, NEW f,
         f = [fr[t] EXCEPT !.rest = FirstPath(cl[t]), !.walk = IF cl[t].op = "move" THEN "shared" ELSE cl[t].op],
         NEW g, Rejected(cl[t]) # <<>> => g = Do(f, Rejected(cl[t])),
         Rejected(cl[t]) = <<>> => g = Walk(cl[t], f, Root)
  PROVE  \E K2, e : Inv(nd, cl, [fr EXCEPT ![t] = g], an, K2, e)
<1> PICK S, c, k0 : S = Summaries(cl, fr, K) /\ c = cl[t] /\ k0 = K[t]
  OBVIOUS
<1>1. Good(nd, S, dp) /\ Local(nd, c, fr[t], k0) /\ S[t] = Summary(c, fr[t], k0)
  BY InvGood
<1>2. fr[t] = NoFrame
  BY <1>1 DEF Local, FrameOK
<1>3. c \in Calls
  <2>1. cl \in Workloads
    BY DEF Inv
  <2> QED BY <2>1, TreeAssumption
<1>4. \E k : Local(nd, c, g, k) /\ IdleTo(nd, S[t], Summary(c, g, k))
  <2>1. f = [NoFrame EXCEPT !.rest = FirstPath(c), !.walk = IF c.op = "move" THEN "shared" ELSE c.op]
    BY <1>2
  <2>2. (Rejected(c) # <<>> => g = Do(f, Rejected(c))) /\ (Rejected(c) = <<>> => g = Walk(c, f, Root))
    OBVIOUS
  <2>3. Local(nd, c, NoFrame, k0) /\ S[t] = Summary(c, NoFrame, k0)
    BY <1>1, <1>2
  <2>4. \E k : Local(nd, c, g, k) /\ IdleTo(nd, Summary(c, NoFrame, k0), Summary(c, g, k))
    BY ONLY <1>1, <1>3, <2>1, <2>2, <2>3, StartStep
  <2> QED BY <2>3, <2>4
<1> PICK k : Local(nd, c, g, k) /\ IdleTo(nd, S[t], Summary(c, g, k))
  BY <1>4
<1> PICK s2, S2 : s2 = Summary(c, g, k) /\ S2 = With(S, t, s2)
  OBVIOUS
<1>5. Others(S, S2, t) /\ S2[t] = s2
  BY WithIs
<1>6. Quiet(nd, S[t], S2[t])
  BY <1>5, IdleQuiet
<1>7. Global(nd, S2, dp)
  BY <1>1, <1>5, <1>6, GQuiet
<1>8. /\ t \in DOMAIN cl /\ an[t] = None /\ Local(nd, cl[t], g, k) /\ nd \in [NodeId -> NodeType]
      /\ Global(nd, With(Summaries(cl, fr, K), t, Summary(cl[t], g, k)), dp)
  BY <1>1, <1>7 DEF Good
<1>9. \A u \in Thread \ {t} : SamePlaces(nd, nd, Counts(K[u]) \cup {Pending(fr[u])})
  BY DEF SamePlaces
<1>10. Inv(nd, cl, fr, an, K, dp) /\ t \in Thread
  OBVIOUS
<1> QED BY ONLY <1>8, <1>9, <1>10, Assemble

-----------------------------------------------------------------------------
(* List, Create and RemoveSize.                                            *)

\* A step of t that keeps the places of the live folders.
LEMMA SettleAll ==
  ASSUME NEW nd, NEW cl, NEW fr, NEW an, NEW K, NEW dp, Inv(nd, cl, fr, an, K, dp),
         NEW t \in Thread, fr[t].at # "idle", NEW nd2, NEW g, NEW k, NEW dp2,
         nd2 \in [NodeId -> NodeType], Local(nd2, cl[t], g, k),
         SamePlaces(nd, nd2, LiveIn(nd)),
         Global(nd2, With(Summaries(cl, fr, K), t, Summary(cl[t], g, k)), dp2)
  PROVE  \E K2, e : Inv(nd2, cl, [fr EXCEPT ![t] = g], an, K2, e)
<1>1. t \in DOMAIN cl /\ an[t] = None
  BY DEF Inv
<1>2. ASSUME NEW u \in Thread \ {t} PROVE SamePlaces(nd, nd2, Counts(K[u]) \cup {Pending(fr[u])})
  <2> PICK S : S = Summaries(cl, fr, K)
    OBVIOUS
  <2>1. Good(nd, S, dp) /\ S[u] = Summary(cl[u], fr[u], K[u])
    BY InvGood
  <2>2. S[u].counts = Counts(K[u]) /\ S[u].pending = Pending(fr[u])
    BY <2>1, SummaryIs
  <2>3. S[u].counts \subseteq LiveIn(nd) /\ (S[u].pending # NULL => S[u].pending \in LiveIn(nd))
    BY <2>1 DEF Good, Global, Memory
  <2> QED BY <2>2, <2>3, TreeAssumption DEF SamePlaces
<1> QED BY <1>1, <1>2, Assemble

\* The facts about a thread in the function that it has called.
LEMMA AtBody ==
  ASSUME NEW nd, NEW cl, NEW fr, NEW an, NEW K, NEW dp, Inv(nd, cl, fr, an, K, dp),
         NEW t \in Thread, NEW f, f = fr[t], f.at \in {"body", "unlink"}, NEW c, c = cl[t], NEW k, k = K[t]
  PROVE  /\ Local(nd, c, f, k) /\ FrameOK(c, f) /\ ChainsOK(nd, c, f, k) /\ Going(f) /\ ~Moving(f) /\ k.maps = {}
         /\ c \in Calls /\ f \in FrameType /\ f.cur \in NodeId /\ GoingOK(c, f)
         /\ f.role \in {"list", "create", "remove"} /\ c.op = f.role /\ f.walk = f.role /\ Rejected(c) = <<>>
         /\ (f.at = "unlink" => f.role = "remove") /\ (f.role = "remove" => f.cur # Root)
         /\ IsChain(nd, Counts(k), f.cur, NULL) /\ f.cur \in Counts(k) /\ Counts(k) \subseteq LiveIn(nd)
         /\ (~IsWriter(f) => Reads(f) = {f.cur} /\ Writes(f) = {})
         /\ (IsWriter(f) => Reads(f) = {} /\ Writes(f) = {f.cur})
<1> PICK S : S = Summaries(cl, fr, K)
  OBVIOUS
<1>1. Good(nd, S, dp) /\ Local(nd, c, f, k) /\ S[t] = Summary(c, f, k)
  BY InvGood
<1>2. FrameOK(c, f) /\ ChainsOK(nd, c, f, k) /\ Going(f) /\ ~Ahead(f)
  BY <1>1 DEF Local, Going, Ahead
<1>3. c \in Calls /\ f \in FrameType /\ GoingOK(c, f) /\ f.cur \in NodeId
  BY <1>2, GoingIs
<1>4. f.role \in {"list", "create", "remove"} /\ f.walk = f.role
  BY <1>3 DEF GoingOK
<1>5. /\ ~Moving(f) /\ c.op = f.role /\ Rejected(c) = <<>> /\ (f.at = "unlink" => f.role = "remove")
      /\ (f.role = "remove" => f.cur # Root)
  BY <1>3, <1>4 DEF GoingOK, Moving
<1>6. k.maps = {}
  BY <1>1, <1>2, GoingMaps
<1>7. IsChain(nd, Counts(k), f.cur, NULL) /\ f.cur \in Counts(k)
  <2>1. Counts(k) = k.chain[3] /\ IsChain(nd, k.chain[3], Here(nd, f), NULL) /\ f.cur \in Counts(k) /\ Here(nd, f) = f.cur
    BY <1>2, <1>5, StillPlaces
  <2> QED BY <2>1
<1>8. Counts(k) \subseteq LiveIn(nd)
  <2>1. S[t].counts = Counts(k)
    BY <1>1, SummaryIs
  <2> QED BY <1>1, <2>1 DEF Good, Global, Memory
<1>9. /\ (~IsWriter(f) => Reads(f) = {f.cur} /\ Writes(f) = {})
      /\ (IsWriter(f) => Reads(f) = {} /\ Writes(f) = {f.cur})
  <2>1. Inside(f)
    BY <1>5 DEF Inside
  <2>2. KeptReads(f) = {} /\ KeptWrites(f) = {}
    BY <1>5, KeptStill
  <2> QED BY <2>1, <2>2, <1>2, <1>3, UsesAre
<1> QED BY <1>1, <1>2, <1>3, <1>4, <1>5, <1>6, <1>7, <1>8, <1>9

LEMMA BodyPlanStep ==
  ASSUME NEW nd, NEW cl, NEW fr, NEW an, NEW K, NEW dp, Inv(nd, cl, fr, an, K, dp),
         NEW t \in Thread, NEW f, f = fr[t], NEW c, c = cl[t], NEW k, k = K[t], f.at = "body",
         NEW todo, NEW R, NEW W, NEW C, NEW G, NEW P,
         Plan(nd, c, f, todo, R, W, {}, C, {}, {}, G, P),
         R = Reads(f), W = Writes(f), C = Counts(k), k.maps = {}
  PROVE  \E K2, e : Inv(nd, cl, [fr EXCEPT ![t] = Do(f, todo)], an, K2, e)
<1>1. Plan(nd, c, f, todo, Reads(f), Writes(f), k.maps, Counts(k), {}, {}, G, P)
  OBVIOUS
<1>2. Inv(nd, cl, fr, an, K, dp) /\ t \in Thread /\ f = fr[t] /\ c = cl[t] /\ k = K[t]
  OBVIOUS
<1>3. f.at \in {"flag", "get", "body", "transfer"} /\ f.at # "flag"
  OBVIOUS
<1> QED BY ONLY <1>1, <1>2, <1>3, PlanStep

LEMMA ReaderPlan ==
  ASSUME NEW nd, NEW cl, NEW fr, NEW an, NEW K, NEW dp, Inv(nd, cl, fr, an, K, dp),
         NEW t \in Thread, NEW f, f = fr[t], f.at = "body", f.role \in {"list", "create"},
         NEW c, c = cl[t], NEW k, k = K[t], NEW r, Return(r) \in Items
  PROVE  Plan(nd, c, f, <<ReaderFinal(f.cur), Notify(f.cur, NULL), Return(r)>>,
              Reads(f), Writes(f), {}, Counts(k), {}, {}, {f.cur}, {f.cur})
<1>1. /\ c \in Calls /\ f \in FrameType /\ f.cur \in NodeId /\ IsChain(nd, Counts(k), f.cur, NULL)
      /\ (~IsWriter(f) => Reads(f) = {f.cur} /\ Writes(f) = {})
  BY AtBody
<1>2. ~IsWriter(f)
  BY DEF IsWriter
<1>3. Plan(nd, c, f, <<ReaderFinal(f.cur), Notify(f.cur, NULL), Return(r)>>,
           {f.cur}, {}, {}, Counts(k), {}, {}, {f.cur}, {f.cur} \cap {f.cur})
  BY <1>1, LeaveReaderPlan
<1> QED BY <1>1, <1>2, <1>3

LEMMA BodyReaderStep ==
  ASSUME NEW nd, NEW cl, NEW fr, NEW an, NEW K, NEW dp, Inv(nd, cl, fr, an, K, dp),
         NEW t \in Thread, NEW f, f = fr[t], f.at = "body", f.role \in {"list", "create"},
         NEW r, Return(r) \in Items
  PROVE  \E K2, e : Inv(nd, cl, [fr EXCEPT ![t] =
           Do(f, <<ReaderFinal(f.cur), Notify(f.cur, NULL), Return(r)>>)], an, K2, e)
<1> PICK c, k, R, W, C, G, todo : c = cl[t] /\ k = K[t] /\ R = Reads(f) /\ W = Writes(f) /\ C = Counts(k)
      /\ G = {f.cur} /\ todo = <<ReaderFinal(f.cur), Notify(f.cur, NULL), Return(r)>>
  OBVIOUS
<1>1. Plan(nd, c, f, <<ReaderFinal(f.cur), Notify(f.cur, NULL), Return(r)>>,
              Reads(f), Writes(f), {}, Counts(k), {}, {}, {f.cur}, {f.cur})
  BY ReaderPlan
<1>2. Plan(nd, c, f, todo, R, W, {}, C, {}, {}, G, G)
  BY <1>1
<1>3. k.maps = {}
  BY AtBody
<1>4. /\ Inv(nd, cl, fr, an, K, dp) /\ t \in Thread /\ f = fr[t] /\ c = cl[t] /\ k = K[t] /\ f.at = "body"
      /\ R = Reads(f) /\ W = Writes(f) /\ C = Counts(k)
  OBVIOUS
<1>5. \E K2, e : Inv(nd, cl, [fr EXCEPT ![t] = Do(f, todo)], an, K2, e)
  BY ONLY <1>2, <1>3, <1>4, BodyPlanStep
<1> QED BY <1>5

LEMMA BodyWriterStep ==
  ASSUME NEW nd, NEW cl, NEW fr, NEW an, NEW K, NEW dp, Inv(nd, cl, fr, an, K, dp),
         NEW t \in Thread, NEW f, f = fr[t], f.at = "body", f.role = "remove",
         NEW r, Return(r) \in Items
  PROVE  \E K2, e : Inv(nd, cl, [fr EXCEPT ![t] =
           Do(f, <<WriterFinal(f.cur), Notify(f.cur, NULL), Return(r)>>)], an, K2, e)
<1> PICK c, k, R, W, C, G, todo : c = cl[t] /\ k = K[t] /\ R = Reads(f) /\ W = Writes(f) /\ C = Counts(k)
      /\ G = {f.cur} /\ todo = <<WriterFinal(f.cur), Notify(f.cur, NULL), Return(r)>>
  OBVIOUS
<1>1. /\ c \in Calls /\ f \in FrameType /\ f.cur \in NodeId /\ IsChain(nd, Counts(k), f.cur, NULL)
      /\ (IsWriter(f) => Reads(f) = {} /\ Writes(f) = {f.cur}) /\ k.maps = {}
  <2>1. /\ Inv(nd, cl, fr, an, K, dp) /\ t \in Thread /\ f = fr[t] /\ c = cl[t] /\ k = K[t]
        /\ f.at \in {"body", "unlink"}
    OBVIOUS
  <2> QED BY ONLY <2>1, AtBody
<1>2. IsWriter(f)
  BY DEF IsWriter
<1>3. Plan(nd, c, f, <<WriterFinal(f.cur), Notify(f.cur, NULL), Return(r)>>,
           {}, {f.cur}, {}, Counts(k), {}, {}, {f.cur}, {f.cur})
  BY <1>1, LeaveWriterPlan
<1>4. Plan(nd, c, f, todo, R, W, {}, C, {}, {}, G, G)
  BY <1>1, <1>2, <1>3
<1>5. /\ Inv(nd, cl, fr, an, K, dp) /\ t \in Thread /\ f = fr[t] /\ c = cl[t] /\ k = K[t] /\ f.at = "body"
      /\ R = Reads(f) /\ W = Writes(f) /\ C = Counts(k)
  OBVIOUS
<1>6. \E K2, e : Inv(nd, cl, [fr EXCEPT ![t] = Do(f, todo)], an, K2, e)
  BY ONLY <1>1, <1>4, <1>5, BodyPlanStep
<1> QED BY <1>6

WithNew(nd, d, a, n) == [nd EXCEPT ![d].children[a] = n, ![n] = node_new(d, a)]

LEMMA GCreated ==
  ASSUME NEW nd, NEW nd2, NEW S, NEW S2, NEW t \in Thread, NEW dp, NEW d, NEW a, NEW n,
         Good(nd, S, dp), \A u \in Thread : One(S[u]), Others(S, S2, t),
         Creating(nd, S[t], d, a, n), Stays(nd, S[t], S2[t]), nd2 = WithNew(nd, d, a, n)
  PROVE  /\ \E e : Global(nd2, S2, e)
         /\ nd2 \in [NodeId -> NodeType]
         /\ \A x \in LiveIn(nd) : nd2[x].parent = nd[x].parent /\ nd2[x].name = nd[x].name
<1>1. nd2 = [nd EXCEPT ![d].children[a] = n, ![n] = node_new(d, a)]
  BY DEF WithNew
<1>2. /\ Global(nd2, S2, [dp EXCEPT ![n] = dp[d] + 1]) /\ nd2 \in [NodeId -> NodeType]
      /\ \A x \in LiveIn(nd) : nd2[x].parent = nd[x].parent /\ nd2[x].name = nd[x].name
  BY <1>1, GCreate
<1> QED BY <1>2

\* tree_create, when there is no such folder yet.
\* hmap_insert of tree_create, and its end.
Inserting(nd, c, f, a, n, nd2, g) ==
  /\ f.at = "body" /\ f.role = "create" /\ a = TargetName(c.path) /\ nd[f.cur].children[a] = NULL
  /\ n \in NodeId /\ nd[n].memory = "unused"
  /\ nd2 = [nd EXCEPT ![f.cur].children[a] = n, ![n] = node_new(f.cur, a)]
  /\ g = Do(f, <<ReaderFinal(f.cur), Notify(f.cur, NULL), Return(Result("OK"))>>)

LEMMA CreateStep ==
  ASSUME NEW nd, NEW cl, NEW fr, NEW an, NEW K, NEW dp, Inv(nd, cl, fr, an, K, dp),
         NEW t \in Thread, NEW f, f = fr[t], NEW a, NEW n, NEW nd2, NEW g, Inserting(nd, cl[t], f, a, n, nd2, g)
  PROVE  \E K2, e : Inv(nd2, cl, [fr EXCEPT ![t] = g], an, K2, e)
<1> SUFFICES ASSUME f.at = "body", f.role = "create", a = TargetName(cl[t].path), nd[f.cur].children[a] = NULL,
                    n \in NodeId, nd[n].memory = "unused",
                    nd2 = [nd EXCEPT ![f.cur].children[a] = n, ![n] = node_new(f.cur, a)],
                    g = Do(f, <<ReaderFinal(f.cur), Notify(f.cur, NULL), Return(Result("OK"))>>)
             PROVE  \E K2, e : Inv(nd2, cl, [fr EXCEPT ![t] = g], an, K2, e)
  BY DEF Inserting
<1> PICK S, c, k, d : S = Summaries(cl, fr, K) /\ c = cl[t] /\ k = K[t] /\ d = f.cur
  OBVIOUS
<1>1. Good(nd, S, dp) /\ S[t] = Summary(c, f, k) /\ \A u \in Thread : One(S[u])
  BY InvGood
<1>2. /\ c \in Calls /\ f \in FrameType /\ d \in NodeId /\ Going(f) /\ ~Moving(f) /\ c.op = "create" /\ Rejected(c) = <<>>
      /\ k.maps = {} /\ d \in Counts(k) /\ Counts(k) \subseteq LiveIn(nd)
  <2>1. /\ Inv(nd, cl, fr, an, K, dp) /\ t \in Thread /\ f = fr[t] /\ c = cl[t] /\ k = K[t]
        /\ f.at \in {"body", "unlink"} /\ d = f.cur /\ f.role = "create"
    OBVIOUS
  <2> QED BY ONLY <2>1, AtBody
<1>3. Return(Result("OK")) \in Items
  BY CodesAre DEF Codes
<1> PICK todo, R, W, C, G : todo = <<ReaderFinal(f.cur), Notify(f.cur, NULL), Return(Result("OK"))>>
      /\ R = Reads(f) /\ W = Writes(f) /\ C = Counts(k) /\ G = {f.cur}
  OBVIOUS
<1>4. Plan(nd, c, f, todo, R, W, {}, C, {}, {}, G, G)
  <2>1. f.role \in {"list", "create"}
    OBVIOUS
  <2>2. Plan(nd, c, f, <<ReaderFinal(f.cur), Notify(f.cur, NULL), Return(Result("OK"))>>,
              Reads(f), Writes(f), {}, Counts(k), {}, {}, {f.cur}, {f.cur})
    BY <2>1, <1>3, ReaderPlan
  <2> QED BY <2>2
<1> PICK k2 : Local(nd, c, g, k2) /\ TodoSummary(Summary(c, g, k2), R, W, {}, C, {}, {}, G, G)
  <2>1. \E k2 : Local(nd, c, Do(f, todo), k2) /\ TodoSummary(Summary(c, Do(f, todo), k2), R, W, {}, C, {}, {}, G, G)
    BY ONLY <1>2, <1>4, Planned
  <2> QED BY <2>1
<1> PICK s, s2, S2 : s = S[t] /\ s2 = Summary(c, g, k2) /\ S2 = With(S, t, s2)
  OBVIOUS
<1>5. Others(S, S2, t) /\ S2[t] = s2 /\ S[t] = s
  BY WithIs
<1>6. s.reads = R /\ s.writes = W /\ s.counts = C /\ s.maps = {} /\ s.pending = NULL /\ Plain(s)
  <2>1. s = Summary(c, f, k) /\ ~Ahead(f)
    BY <1>1 DEF Ahead
  <2>2. Plain(s)
    BY <2>1, <1>2, PlainIs
  <2> QED BY <2>1, <2>2, <1>2, GoingSummary
<1>7. TodoSummary(s2, R, W, {}, C, {}, {}, G, G)
  OBVIOUS
<1>8. Stays(nd, s, s2)
  <2>1. SameUse(s, s2) /\ SameSleep(s, s2) /\ SameHeld(s, s2)
    BY ONLY <1>6, <1>7 DEF SameUse, SameSleep, SameHeld, SameTaking, TodoSummary, Plain
  <2>2. KeepsPrivacy(nd, s, s2)
    BY <1>6, <1>7 DEF KeepsPrivacy, OwnedIn, TodoSummary, Plain
  <2>3. s2.pending = s.pending /\ s2.unlinks = s.unlinks
    BY <1>6, <1>7 DEF TodoSummary, Plain
  <2> QED BY <2>1, <2>2, <2>3 DEF Stays
<1>9. Creating(nd, s, d, a, n)
  <2>1. a \in Name
    BY <1>2, Paths1
  <2> QED BY <2>1, <1>2, <1>6 DEF Creating, Plain
<1>10. /\ \E e : Global(nd2, S2, e)
       /\ nd2 \in [NodeId -> NodeType]
       /\ \A x \in LiveIn(nd) : nd2[x].parent = nd[x].parent /\ nd2[x].name = nd[x].name
  <2>1. nd2 = WithNew(nd, d, a, n)
    BY DEF WithNew
  <2>2. Creating(nd, S[t], d, a, n) /\ Stays(nd, S[t], S2[t])
    BY <1>5, <1>8, <1>9
  <2>3. t \in Thread
    OBVIOUS
  <2> QED BY ONLY <1>1, <1>5, <2>1, <2>2, <2>3, GCreated
<1> PICK e : Global(nd2, S2, e)
  BY <1>10
<1>11. SamePlaces(nd, nd2, LiveIn(nd))
  BY <1>10 DEF SamePlaces
<1>12. Local(nd2, c, g, k2)
  <2>1. Counts(k2) = C /\ Pending(g) = NULL
    <3>1. s2.counts = C /\ s2.pending = NULL
      BY <1>7 DEF TodoSummary
    <3> QED BY <3>1, SummaryIs
  <2>2. SamePlaces(nd, nd2, Counts(k2) \cup {Pending(g)})
    BY <2>1, <1>2, <1>11, TreeAssumption DEF SamePlaces
  <2> QED BY <2>2, LocalStable
<1>13. Global(nd2, With(Summaries(cl, fr, K), t, Summary(cl[t], g, k2)), e)
  BY <1>10
<1>14. /\ Inv(nd, cl, fr, an, K, dp) /\ t \in Thread /\ fr[t].at # "idle" /\ Local(nd2, cl[t], g, k2)
       /\ nd2 \in [NodeId -> NodeType]
  BY <1>10, <1>12
<1> QED BY ONLY <1>11, <1>13, <1>14, SettleAll

-----------------------------------------------------------------------------
(* RemoveUnlink.                                                           *)

\* What the summary of a remover or a mover has from its last look at its
\* folder on, but for the changes that these steps make.
Holding(s, f, k) ==
  /\ s.reads = Reads(f) /\ s.writes = Writes(f) /\ s.counts = Counts(k) /\ s.pending = NULL
  /\ s.maps = k.maps /\ s.asReader = {} /\ s.asWriter = {}
  /\ s.acquires = {} /\ s.goesAway = {} /\ s.passesOn = {}

LEMMA HoldingIs ==
  ASSUME NEW c, NEW f, NEW k, NEW s, s = Summary(c, f, k), Going(f), f.cur \in NodeId,
         f.at \in {"body", "unlink", "maps", "left", "right", "transfer", "discard", "discarding", "calm"}
  PROVE  /\ Holding(s, f, k)
         /\ (f.at # "discarding" => s.inPrivate = {})
         /\ (f.at \notin {"left", "right"} => s.moveLock = {})
         /\ s.place = <<f.target_parent, TargetName(c.target)>>
<1>1. ~Ahead(f) /\ f.at \notin {"leave", "sleep", "private", "flag", "count"}
  BY DEF Ahead
<1>2. /\ s.reads = Reads(f) /\ s.writes = Writes(f) /\ s.counts = Counts(k) /\ s.pending = NULL
      /\ s.maps = k.maps /\ s.asReader = {} /\ s.asWriter = {}
      /\ (f.at # "discarding" => s.inPrivate = {})
      /\ (f.at \notin {"left", "right"} => s.moveLock = {})
      /\ s.place = <<f.target_parent, TargetName(c.target)>>
  BY <1>1, GoingSummary
<1>3. s.acquires = {} /\ s.goesAway = {} /\ s.passesOn = {}
  BY <1>1, TakingSummary
<1> QED BY <1>2, <1>3 DEF Holding

\* The folder that it is taking away.
Taken(f) == IF Moving(f) THEN f.source ELSE f.cur

\* Of a remover.
LEMMA RemoverSummary ==
  ASSUME NEW c, NEW f, NEW k, NEW s, s = Summary(c, f, k), ~Moving(f), f.role = "remove",
         f.at \in {"body", "unlink", "discard"}
  PROVE  /\ s.moves = {} /\ s.flags = {} /\ s.vacates = {} /\ s.owns = {f.cur}
         /\ (f.at = "discard" => s.removes = {f.cur}) /\ (f.at # "discard" => s.removes = {})
         /\ (f.at = "body" => s.unlinks = {}) /\ (f.at # "body" => s.unlinks = {f.cur})
<1>1. /\ s.moves = Moves(f) /\ s.removes = Removes(f) /\ s.unlinks = Unlinks(f)
      /\ s.flags = Flags(f) /\ s.vacates = Vacates(f) /\ s.owns = Owns(f)
  BY SummaryIs
<1>2. Moves(f) = {} /\ Flags(f) = {} /\ Vacates(f) = {}
  BY DEF Moves, Flags, Vacates, Gone
<1>3. Owns(f) = {f.cur}
  BY DEF Owns, HasSource
<1>4. (f.at = "discard" => Removes(f) = {f.cur}) /\ (f.at # "discard" => Removes(f) = {})
  BY DEF Removes, Gone
<1>5. (f.at = "body" => Unlinks(f) = {}) /\ (f.at # "body" => Unlinks(f) = {f.cur})
  BY <1>4 DEF Unlinks
<1> QED BY <1>1, <1>2, <1>3, <1>4, <1>5

\* tree_remove goes on: its frame and its chains stay in order.
LEMMA RemoverLocal ==
  ASSUME NEW nd, NEW c, NEW f, NEW k, Local(nd, c, f, k), ~Moving(f), f.role = "remove", f.walk = "remove",
         f.cur # Root, f.at \in {"body", "unlink"} \/ Gone(f), NEW g \in FrameType, SameButAt(f, g),
         g.at = "unlink" \/ Gone(g)
  PROVE  Local(nd, c, g, k) /\ Reads(g) = Reads(f) /\ Writes(g) = Writes(f)
<1>0. /\ f.at \in {"body", "unlink", "discard", "discarding", "calm"}
      /\ g.at \in {"unlink", "discard", "discarding", "calm"}
  BY DEF Gone
<1>1. /\ Going(f) /\ Going(g) /\ FrameOK(c, f) /\ ChainsOK(nd, c, f, k) /\ k.maps = {} /\ ~Moving(g)
      /\ g.role = "remove" /\ g.walk = "remove"
  <2>1. Going(f) /\ FrameOK(c, f) /\ ChainsOK(nd, c, f, k) /\ Going(g) /\ ~Moving(g)
        /\ g.role = "remove" /\ g.walk = "remove"
    BY <1>0 DEF Local, Going, SameButAt, Moving
  <2> QED BY <2>1, GoingMaps
<1>2. c \in Calls /\ GoingOK(c, f) /\ f.cur \in NodeId
  BY <1>1, GoingIs
<1>3. ~Ahead(f) /\ ~Ahead(g) /\ ~InLock(f) /\ ~InLock(g) /\ ~Leading(f) /\ ~Leading(g)
  BY <1>0 DEF Ahead, InLock, Leading
<1>4. GoingOK(c, g)
  BY <1>0, <1>1, <1>2, <1>3 DEF GoingOK, SameButAt
<1>5. FrameOK(c, g)
  BY <1>1, <1>2, <1>4 DEF FrameOK, Going
<1>6. ChainsOK(nd, c, g, k)
  <2>1. Here(nd, g) = Here(nd, f) /\ Pending(g) = NULL /\ g.shared = f.shared /\ g.at # "leave"
    BY <1>0, <1>3 DEF Here, Pending, SameButAt
  <2>2. Bottom(nd, g, 1) = Bottom(nd, f, 1) /\ Bottom(nd, g, 2) = Bottom(nd, f, 2) /\ Bottom(nd, g, 3) = Bottom(nd, f, 3)
    BY <1>1, <2>1, BottomsStill
  <2> QED BY <1>1, <2>1, <2>2, ChainsSame
<1>7. MapsOK(nd, c, g, k)
  BY <1>0, <1>1 DEF MapsOK
<1>8. Reads(g) = Reads(f) /\ Writes(g) = Writes(f)
  <2>1. Inside(f) /\ Inside(g) /\ KeptReads(g) = {} /\ KeptReads(f) = {} /\ KeptWrites(g) = {} /\ KeptWrites(f) = {}
    BY <1>0, <1>1, KeptStill DEF Inside
  <2> QED BY <2>1, <1>1, <1>2, InsideSame
<1> QED BY <1>5, <1>6, <1>7, <1>8 DEF Local

LEMMA UnlinkStep ==
  ASSUME NEW nd, NEW cl, NEW fr, NEW an, NEW K, NEW dp, Inv(nd, cl, fr, an, K, dp),
         NEW t \in Thread, NEW f, f = fr[t], f.at = "body", f.role = "remove",
         nd[f.cur].map_writer = NULL, Names(nd[f.cur]) = {},
         NEW g \in FrameType, SameButAt(f, g), g.at = "unlink"
  PROVE  \E K2, e : Inv(nd, cl, [fr EXCEPT ![t] = g], an, K2, e)
<1> PICK S, c, k, d : S = Summaries(cl, fr, K) /\ c = cl[t] /\ k = K[t] /\ d = f.cur
  OBVIOUS
<1>1. Good(nd, S, dp) /\ S[t] = Summary(c, f, k)
  BY InvGood
<1>2. Local(nd, c, f, k) /\ d \in NodeId /\ Going(f) /\ ~Moving(f) /\ d # Root /\ f.walk = "remove"
  <2>1. /\ Inv(nd, cl, fr, an, K, dp) /\ t \in Thread /\ f = fr[t] /\ c = cl[t] /\ k = K[t]
        /\ f.at \in {"body", "unlink"} /\ d = f.cur /\ f.role = "remove"
    OBVIOUS
  <2> QED BY ONLY <2>1, AtBody
<1>3. Local(nd, c, g, k) /\ Reads(g) = Reads(f) /\ Writes(g) = Writes(f)
  <2>1. (f.at \in {"body", "unlink"} \/ Gone(f)) /\ (g.at = "unlink" \/ Gone(g)) /\ f.cur # Root /\ f.role = "remove"
        /\ g \in FrameType /\ SameButAt(f, g)
    BY <1>2 DEF Gone
  <2> QED BY ONLY <1>2, <2>1, RemoverLocal
<1>4. g.cur = d /\ g.role = "remove" /\ ~Moving(g) /\ Going(g)
  BY <1>2 DEF SameButAt, Moving, Going
<1> PICK s, s2, S2 : s = S[t] /\ s2 = Summary(c, g, k) /\ S2 = With(S, t, s2)
  OBVIOUS
<1>5. Others(S, S2, t) /\ S2[t] = s2 /\ S[t] = s
  BY WithIs
<1>6. /\ Holding(s, f, k) /\ s.inPrivate = {} /\ s.moveLock = {}
      /\ s.moves = {} /\ s.flags = {} /\ s.vacates = {} /\ s.owns = {d} /\ s.removes = {} /\ s.unlinks = {}
  <2>1. s = Summary(c, f, k) /\ f.at # "discarding"
    BY <1>1
  <2>2. Holding(s, f, k) /\ s.inPrivate = {} /\ s.moveLock = {}
    BY <2>1, <1>2, HoldingIs
  <2>3. s.moves = {} /\ s.flags = {} /\ s.vacates = {} /\ s.owns = {f.cur} /\ s.removes = {} /\ s.unlinks = {}
    BY <2>1, <1>2, RemoverSummary
  <2> QED BY <2>2, <2>3
<1>7. /\ Holding(s2, g, k) /\ s2.inPrivate = {} /\ s2.moveLock = {}
      /\ s2.moves = {} /\ s2.flags = {} /\ s2.vacates = {} /\ s2.owns = {d} /\ s2.removes = {} /\ s2.unlinks = {d}
  <2>1. Holding(s2, g, k) /\ s2.inPrivate = {} /\ s2.moveLock = {}
    BY <1>2, <1>4, HoldingIs
  <2>2. s2.moves = {} /\ s2.flags = {} /\ s2.vacates = {} /\ s2.owns = {g.cur} /\ s2.removes = {} /\ s2.unlinks = {g.cur}
    BY <1>4, RemoverSummary
  <2> QED BY <1>4, <2>1, <2>2
<1>8. Quiet(nd, s, s2)
  <2>1. SameUse(s, s2) /\ SameSleep(s, s2) /\ SameHeld(s, s2) /\ s2.pending = s.pending
    BY ONLY <1>3, <1>6, <1>7 DEF SameUse, SameSleep, SameHeld, SameTaking, Holding
  <2>2. KeepsPrivacy(nd, s, s2)
    BY ONLY <1>6, <1>7 DEF KeepsPrivacy, OwnedIn, Holding
  <2> QED BY <2>1, <2>2, <1>2, <1>7 DEF Quiet
<1>9. Global(nd, S2, dp)
  BY <1>1, <1>5, <1>8, GQuiet
<1>10. /\ Inv(nd, cl, fr, an, K, dp) /\ t \in Thread /\ fr[t].at # "idle" /\ nd \in [NodeId -> NodeType]
       /\ Local(nd, cl[t], g, k) /\ SameTree(nd, nd)
       /\ Global(nd, With(Summaries(cl, fr, K), t, Summary(cl[t], g, k)), dp)
  BY <1>1, <1>3, <1>9 DEF Good, SameTree
<1> QED BY ONLY <1>10, Settle

Unlinked(nd, s, s2, n) ==
  /\ s.unlinks = {n} /\ s.removes = {} /\ s.moves = {} /\ s.goesAway = {}
  /\ s2.removes = {n} /\ s2.moves = {} /\ s2.unlinks = {n}
  /\ SameUse(s, s2) /\ SameSleep(s, s2) /\ s2.pending = s.pending
  /\ s2.flags = s.flags /\ s2.vacates = s.vacates /\ s2.maps = s.maps
  /\ s2.moveLock = s.moveLock /\ KeepsPrivacy(nd, s, s2)

LEMMA GUnlinked ==
  ASSUME NEW nd, NEW nd2, NEW S, NEW S2, NEW t \in Thread, NEW dp, Good(nd, S, dp),
         \A u \in Thread : One(S[u]), Others(S, S2, t), NEW n \in S[t].counts,
         nd[nd[n].parent].map_writer = NULL, n # Root, Unlinked(nd, S[t], S2[t], n),
         nd2 = WithoutEntry(nd, n)
  PROVE  Global(nd2, S2, dp) /\ nd2 \in [NodeId -> NodeType] /\ SamePlaces(nd, nd2, NodeId)
<1>1. /\ Good(nd, S, dp) /\ t \in Thread /\ n \in S[t].counts /\ Others(S, S2, t)
      /\ nd[nd[n].parent].map_writer = NULL /\ n # Root /\ nd2 = WithoutEntry(nd, n)
      /\ \A u \in Thread : One(S[u])
  OBVIOUS
<1>2. /\ S[t].unlinks = {n} /\ S[t].removes = {} /\ S[t].moves = {} /\ S[t].goesAway = {}
      /\ S2[t].removes = {n} /\ S2[t].moves = {} /\ S2[t].unlinks = {n}
      /\ SameUse(S[t], S2[t]) /\ SameSleep(S[t], S2[t]) /\ S2[t].pending = S[t].pending
      /\ S2[t].flags = S[t].flags /\ S2[t].vacates = S[t].vacates /\ S2[t].maps = S[t].maps
      /\ S2[t].moveLock = S[t].moveLock /\ KeepsPrivacy(nd, S[t], S2[t])
  BY DEF Unlinked
<1>3. Global(nd2, S2, dp) /\ nd2 \in [NodeId -> NodeType]
      /\ \A x \in NodeId : nd2[x].parent = nd[x].parent /\ nd2[x].name = nd[x].name
  BY ONLY <1>1, <1>2, GUnlink
<1> QED BY <1>3 DEF SamePlaces

LEMMA TakeOutStep ==
  ASSUME NEW nd, NEW cl, NEW fr, NEW an, NEW K, NEW dp, Inv(nd, cl, fr, an, K, dp),
         NEW t \in Thread, NEW f, f = fr[t], f.at = "unlink",
         nd[nd[f.cur].parent].map_writer = NULL, NEW nd2, nd2 = WithoutEntry(nd, f.cur),
         NEW g \in FrameType, SameButAt(f, g), g.at = "discard"
  PROVE  \E K2, e : Inv(nd2, cl, [fr EXCEPT ![t] = g], an, K2, e)
<1> PICK S, c, k, d : S = Summaries(cl, fr, K) /\ c = cl[t] /\ k = K[t] /\ d = f.cur
  OBVIOUS
<1>1. Good(nd, S, dp) /\ S[t] = Summary(c, f, k) /\ \A u \in Thread : One(S[u])
  BY InvGood
<1>2. /\ Local(nd, c, f, k) /\ d \in NodeId /\ Going(f) /\ ~Moving(f) /\ d # Root /\ f.walk = "remove"
      /\ f.role = "remove" /\ d \in Counts(k)
  <2>1. /\ Inv(nd, cl, fr, an, K, dp) /\ t \in Thread /\ f = fr[t] /\ c = cl[t] /\ k = K[t]
        /\ f.at \in {"body", "unlink"} /\ d = f.cur /\ f.at = "unlink"
    OBVIOUS
  <2> QED BY ONLY <2>1, AtBody
<1>3. Local(nd, c, g, k) /\ Reads(g) = Reads(f) /\ Writes(g) = Writes(f)
  <2>1. (f.at \in {"body", "unlink"} \/ Gone(f)) /\ (g.at = "unlink" \/ Gone(g)) /\ f.cur # Root
        /\ g \in FrameType /\ SameButAt(f, g)
    BY <1>2 DEF Gone
  <2> QED BY ONLY <1>2, <2>1, RemoverLocal
<1>4. g.cur = d /\ g.role = "remove" /\ ~Moving(g) /\ Going(g)
  BY <1>2 DEF SameButAt, Moving, Going
<1> PICK s, s2, S2 : s = S[t] /\ s2 = Summary(c, g, k) /\ S2 = With(S, t, s2)
  OBVIOUS
<1>5. Others(S, S2, t) /\ S2[t] = s2 /\ S[t] = s
  BY WithIs
<1>6. /\ Holding(s, f, k) /\ s.inPrivate = {} /\ s.moveLock = {}
      /\ s.moves = {} /\ s.flags = {} /\ s.vacates = {} /\ s.owns = {d} /\ s.removes = {} /\ s.unlinks = {d}
  <2>1. s = Summary(c, f, k) /\ f.at # "discarding"
    BY <1>1
  <2>2. Holding(s, f, k) /\ s.inPrivate = {} /\ s.moveLock = {}
    BY <2>1, <1>2, HoldingIs
  <2>3. s.moves = {} /\ s.flags = {} /\ s.vacates = {} /\ s.owns = {f.cur} /\ s.removes = {} /\ s.unlinks = {f.cur}
    BY <2>1, <1>2, RemoverSummary
  <2> QED BY <2>2, <2>3
<1>7. /\ Holding(s2, g, k) /\ s2.inPrivate = {} /\ s2.moveLock = {}
      /\ s2.moves = {} /\ s2.flags = {} /\ s2.vacates = {} /\ s2.owns = {d} /\ s2.removes = {d} /\ s2.unlinks = {d}
  <2>1. Holding(s2, g, k) /\ s2.inPrivate = {} /\ s2.moveLock = {}
    BY <1>2, <1>4, HoldingIs
  <2>2. s2.moves = {} /\ s2.flags = {} /\ s2.vacates = {} /\ s2.owns = {g.cur} /\ s2.removes = {g.cur} /\ s2.unlinks = {g.cur}
    BY <1>4, RemoverSummary
  <2> QED BY <1>4, <2>1, <2>2
<1>8. Unlinked(nd, s, s2, d)
  <2>1. SameUse(s, s2) /\ SameSleep(s, s2) /\ s2.pending = s.pending
    BY ONLY <1>3, <1>6, <1>7 DEF SameUse, SameSleep, Holding
  <2>2. KeepsPrivacy(nd, s, s2)
    BY ONLY <1>6, <1>7 DEF KeepsPrivacy, OwnedIn, Holding
  <2>3. s2.maps = s.maps /\ s.goesAway = {}
    BY ONLY <1>6, <1>7 DEF Holding
  <2> QED BY <2>1, <2>2, <2>3, <1>6, <1>7 DEF Unlinked
<1>9. Global(nd2, S2, dp) /\ nd2 \in [NodeId -> NodeType] /\ SamePlaces(nd, nd2, NodeId)
  <2>1. d \in S[t].counts
    BY <1>2, <1>5, <1>6 DEF Holding
  <2>2. t \in Thread /\ nd[nd[d].parent].map_writer = NULL /\ nd2 = WithoutEntry(nd, d) /\ Unlinked(nd, S[t], S2[t], d)
    BY <1>5, <1>8
  <2> QED BY ONLY <2>1, <2>2, <1>1, <1>2, <1>5, GUnlinked
<1>10. SamePlaces(nd, nd2, LiveIn(nd)) /\ SamePlaces(nd, nd2, Counts(k) \cup {Pending(g)})
  BY <1>9 DEF SamePlaces
<1>11. Local(nd2, c, g, k)
  BY <1>3, <1>10, LocalStable
<1>12. /\ Inv(nd, cl, fr, an, K, dp) /\ t \in Thread /\ fr[t].at # "idle" /\ nd2 \in [NodeId -> NodeType]
       /\ Local(nd2, cl[t], g, k)
       /\ Global(nd2, With(Summaries(cl, fr, K), t, Summary(cl[t], g, k)), dp)
  BY <1>9, <1>11
<1> QED BY ONLY <1>10, <1>12, SettleAll

-----------------------------------------------------------------------------
(* LockMoves and AcquireMap.                                               *)

\* tree_move once it has both of its folders.
Mover(f) == f.at \in {"maps", "left", "right", "transfer"} \/ (Gone(f) /\ Moving(f))

LEMMA MoverIs ==
  ASSUME NEW nd, NEW c, NEW f, NEW k, Local(nd, c, f, k), Mover(f)
  PROVE  /\ FrameOK(c, f) /\ ChainsOK(nd, c, f, k) /\ MapsOK(nd, c, f, k) /\ Going(f) /\ Moving(f)
         /\ c \in Calls /\ c.op = "move" /\ Rejected(c) = <<>> /\ f \in FrameType /\ GoingOK(c, f)
         /\ f.cur \in NodeId /\ f.role \notin {"list", "create", "remove", "none"}
         /\ HasSource(f) /\ f.source # f.shared /\ f.source # Root /\ ~Ahead(f) /\ ~Leading(f) /\ ~InLock(f)
         /\ Ways(nd, f, k.chain[1], k.chain[2], k.chain[3])
         /\ Counts(k) = k.chain[1] \cup k.chain[2] \cup k.chain[3]
         /\ f.shared \in Counts(k) /\ f.source \in Counts(k) /\ f.target_parent \in Counts(k)
         /\ nd[f.source].parent \in NodeId /\ nd[f.source].parent \in Counts(k)
         /\ Reads(f) = {f.shared, f.target_parent} /\ Writes(f) = {f.source}
<1>1. FrameOK(c, f) /\ ChainsOK(nd, c, f, k) /\ MapsOK(nd, c, f, k) /\ Going(f) /\ ~Ahead(f) /\ ~Leading(f) /\ ~InLock(f)
  BY DEF Local, Mover, Gone, Going, Ahead, Leading, InLock
<1>2. c \in Calls /\ f \in FrameType /\ GoingOK(c, f) /\ f.cur \in NodeId
  BY <1>1, GoingIs
<1>3. f.at \in {"maps", "left", "right", "transfer"} => HasSource(f)
  BY <1>2 DEF GoingOK
<1>4. Moving(f)
  BY <1>3 DEF Mover, HasSource
<1>5. /\ c.op = "move" /\ Rejected(c) = <<>> /\ {f.shared, f.source, f.target_parent} \subseteq NodeId
      /\ f.role \notin {"list", "create", "remove", "none"}
  BY <1>2, <1>4 DEF GoingOK, Moving
<1>6. HasSource(f) /\ f.source # f.shared
  <2>1. HasSource(f)
    BY <1>2, <1>3, <1>5 DEF GoingOK, Mover
  <2> QED BY <2>1 DEF HasSource
<1>7. f.source # Root
  BY <1>2, <1>4, <1>6 DEF GoingOK
<1>8. Ways(nd, f, k.chain[1], k.chain[2], k.chain[3])
  BY <1>1, <1>4, WaysDone
<1>9. Counts(k) = k.chain[1] \cup k.chain[2] \cup k.chain[3]
  BY <1>1, GoingChains
<1>10. f.shared \in Counts(k) /\ f.source \in Counts(k) /\ f.target_parent \in Counts(k)
  BY <1>6, <1>8, <1>9, WaysIs
<1>11. nd[f.source].parent \in NodeId /\ nd[f.source].parent \in Counts(k)
  BY <1>1, <1>4, <1>6, SourceParent
<1>12. Reads(f) = {f.shared, f.target_parent} /\ Writes(f) = {f.source}
  <2>1. ~Inside(f)
    BY <1>5 DEF Inside, Mover, Gone
  <2>2. Reads(f) = KeptReads(f) /\ Writes(f) = KeptWrites(f)
    BY <1>1, <1>2, <2>1, UsesAre
  <2>3. f.target_parent # f.shared => HasTarget(f)
    BY <1>1, <1>4 DEF HasTarget
  <2>4. KeptReads(f) = {f.shared, f.target_parent} /\ KeptWrites(f) = {f.source}
    BY <1>4, <1>5, <1>6, <2>3, KeptMoving
  <2> QED BY <2>2, <2>4
<1> QED BY ONLY <1>1, <1>2, <1>4, <1>5, <1>6, <1>7, <1>8, <1>9, <1>10, <1>11, <1>12

\* It goes on: only its maps and its place in the code change.
LEMMA MoverGoes ==
  ASSUME NEW nd, NEW c, NEW f, NEW k, Local(nd, c, f, k), Mover(f), NEW g \in FrameType, SameButAt(f, g),
         Mover(g), NEW k2, k2.chain = k.chain, MapsOK(nd, c, g, k2)
  PROVE  Local(nd, c, g, k2) /\ Counts(k2) = Counts(k)
<1>1. FrameOK(c, f) /\ ChainsOK(nd, c, f, k) /\ c \in Calls /\ GoingOK(c, f) /\ Going(f) /\ Moving(f)
      /\ ~Ahead(f) /\ ~Leading(f) /\ ~InLock(f) /\ HasSource(f) /\ f.cur \in NodeId
      /\ f.role \notin {"list", "create", "remove", "none"}
  BY MoverIs
<1>2. Going(g) /\ Moving(g) /\ ~Ahead(g) /\ ~Leading(g) /\ ~InLock(g) /\ g.at # "leave"
      /\ g.role \notin {"list", "create", "remove", "none"} /\ g.role = f.role
  BY <1>1 DEF Mover, Gone, Going, Moving, Ahead, Leading, InLock, SameButAt
<1>3. (HasSource(g) <=> HasSource(f)) /\ (HasTarget(g) <=> HasTarget(f)) /\ g.shared = f.shared
      /\ g.source = f.source /\ g.target_parent = f.target_parent /\ g.cur = f.cur /\ g.walk = f.walk
  BY <1>1, <1>2 DEF HasSource, HasTarget, SameButAt
<1>4. GoingOK(c, g)
  <2>1. g.at \notin {"get", "leave", "body", "unlink", "private"}
    BY DEF Mover, Gone
  <2>2. c \in Calls /\ f.walk \in Walks /\ Rejected(c) = <<>> /\ f.cur \in NodeId /\ c.op = "move"
    BY <1>1 DEF GoingOK, Moving
  <2>3. f.at # "leave" /\ f.at # "get"
    BY DEF Mover, Gone
  <2>4. /\ ~f.skip /\ f.next = NULL
        /\ {f.shared, f.source, f.target_parent} \subseteq NodeId /\ (f.source # f.shared => f.source # Root)
        /\ (SourceFirst(c) /\ f.walk = "source" => f.target_parent = f.shared)
        /\ (SourceFirst(c) /\ f.walk = "target" => f.source # f.shared)
        /\ (~SourceFirst(c) /\ f.walk = "target" => f.source = f.shared)
        /\ (f.walk = "target" => f.target_parent # f.shared)
        /\ (f.walk = "target" \/ f.target_parent # f.shared => PathBeyond(c, "target") # <<>>)
    BY <1>1, <2>3 DEF GoingOK
  <2>5. /\ g.skip = f.skip /\ g.next = f.next /\ g.walk = f.walk /\ g.cur = f.cur
        /\ g.shared = f.shared /\ g.source = f.source /\ g.target_parent = f.target_parent
    BY DEF SameButAt
  <2>6. g.at \in {"maps", "left", "right", "transfer"} => HasSource(g)
    BY <1>1, <1>3
  <2> QED BY <1>1, <1>2, <1>3, <2>1, <2>2, <2>4, <2>5, <2>6 DEF GoingOK
<1>5. FrameOK(c, g)
  BY <1>1, <1>2, <1>4 DEF FrameOK, Going
<1>6. ChainsOK(nd, c, g, k)
  <2>1. Here(nd, g) = Here(nd, f) /\ Pending(g) = NULL
    BY <1>1, <1>2, <1>3 DEF Here, Pending
  <2>2. Bottom(nd, g, 1) = Bottom(nd, f, 1) /\ Bottom(nd, g, 2) = Bottom(nd, f, 2)
        /\ Bottom(nd, g, 3) = Bottom(nd, f, 3)
    BY <1>1, <1>2, <1>3, <2>1, BottomsMoving
  <2> QED BY <1>1, <1>2, <1>3, <2>1, <2>2, ChainsSame
<1>7. Counts(k2) = Counts(k)
  BY DEF Counts
<1>8. ChainsOK(nd, c, g, k2)
  BY <1>6, <1>7 DEF ChainsOK
<1> QED BY <1>5, <1>7, <1>8 DEF Local

\* What the summary of a mover has until it changes the maps.
AtMaps(s, f, k) ==
  /\ Holding(s, f, k) /\ s.inPrivate = {} /\ s.owns = {f.source}
  /\ s.moves = {} /\ s.removes = {} /\ s.unlinks = {} /\ s.flags = {} /\ s.vacates = {}

LEMMA AtMapsIs ==
  ASSUME NEW c, NEW f, NEW k, NEW s, s = Summary(c, f, k), HasSource(f), f.cur \in NodeId,
         f.at \in {"maps", "left", "right", "transfer"}
  PROVE  /\ AtMaps(s, f, k) /\ s.place = <<f.target_parent, TargetName(c.target)>>
         /\ (f.at \in {"left", "right"} => s.moveLock = {f.shared})
         /\ (f.at \notin {"left", "right"} => s.moveLock = {})
<1>1. Going(f) /\ f.at \notin {"unlink", "discard", "discarding", "calm", "body"}
  BY DEF Going
<1>2. Holding(s, f, k) /\ s.inPrivate = {} /\ s.place = <<f.target_parent, TargetName(c.target)>>
      /\ (f.at \notin {"left", "right"} => s.moveLock = {})
  BY <1>1, HoldingIs
<1>3. /\ s.moves = {} /\ s.removes = {} /\ s.unlinks = {} /\ s.flags = {} /\ s.vacates = {}
      /\ s.owns = {f.source}
  BY <1>1, TakingSummary
<1>4. f.at \in {"left", "right"} => s.moveLock = {f.shared}
  BY SummaryIs
<1> QED BY <1>2, <1>3, <1>4 DEF AtMaps

LEMMA AtMapsSame ==
  ASSUME NEW nd, NEW s, NEW s2, NEW f, NEW g, NEW k, NEW k2, AtMaps(s, f, k), AtMaps(s2, g, k2),
         Reads(g) = Reads(f), Writes(g) = Writes(f), Counts(k2) = Counts(k), g.source = f.source
  PROVE  SameBut(nd, s, s2)
<1>1. SameUse(s, s2) /\ SameSleep(s, s2) /\ s2.pending = s.pending
      /\ s2.flags = s.flags /\ s2.vacates = s.vacates /\ SameTaking(s, s2) /\ s2.unlinks = s.unlinks
  BY DEF AtMaps, Holding, SameUse, SameSleep, SameTaking
<1>2. KeepsPrivacy(nd, s, s2)
  BY DEF AtMaps, Holding, KeepsPrivacy, OwnedIn
<1> QED BY <1>1, <1>2 DEF SameBut

\* The mutex of the movers below shared_node.
LEMMA LockMovesStep ==
  ASSUME NEW nd, NEW cl, NEW fr, NEW an, NEW K, NEW dp, Inv(nd, cl, fr, an, K, dp),
         NEW t \in Thread, NEW f, f = fr[t], f.at = "maps", nd[f.shared].move_map_writers_access = NULL,
         NEW nd2, nd2 = WithMoveLock(nd, f.shared, t), NEW g \in FrameType, SameButAt(f, g), g.at = "left"
  PROVE  \E K2, e : Inv(nd2, cl, [fr EXCEPT ![t] = g], an, K2, e)
<1> PICK S, c, k, d : S = Summaries(cl, fr, K) /\ c = cl[t] /\ k = K[t] /\ d = f.shared
  OBVIOUS
<1>1. Good(nd, S, dp) /\ S[t] = Summary(c, f, k) /\ Local(nd, c, f, k) /\ Mover(f) /\ Mover(g)
  BY InvGood DEF Mover
<1>2. /\ Reads(f) = {f.shared, f.target_parent} /\ Writes(f) = {f.source} /\ MapsOK(nd, c, f, k)
      /\ HasSource(f) /\ f.cur \in NodeId /\ d \in NodeId
  <2>1. /\ Reads(f) = {f.shared, f.target_parent} /\ Writes(f) = {f.source} /\ MapsOK(nd, c, f, k)
        /\ HasSource(f) /\ f.cur \in NodeId /\ Ways(nd, f, k.chain[1], k.chain[2], k.chain[3])
    BY <1>1, MoverIs
  <2> QED BY <2>1 DEF Ways
<1>3. k.maps = {}
  BY <1>2 DEF MapsOK
<1>4. Local(nd, c, g, k)
  <2>1. MapsOK(nd, c, g, k)
    BY <1>3 DEF MapsOK
  <2> QED BY <1>1, <2>1, MoverGoes
<1>5. Reads(g) = Reads(f) /\ Writes(g) = Writes(f) /\ HasSource(g) /\ g.cur \in NodeId
  <2>1. Reads(g) = {g.shared, g.target_parent} /\ Writes(g) = {g.source} /\ HasSource(g) /\ g.cur \in NodeId
    BY <1>1, <1>4, MoverIs
  <2> QED BY <1>2, <2>1 DEF SameButAt
<1>6. g.source = f.source /\ g.shared = d
  BY DEF SameButAt
<1> PICK s, s2, S2 : s = S[t] /\ s2 = Summary(c, g, k) /\ S2 = With(S, t, s2)
  OBVIOUS
<1>7. Others(S, S2, t) /\ S2[t] = s2 /\ S[t] = s
  BY WithIs
<1>8. AtMaps(s, f, k) /\ s.moveLock = {}
  BY <1>1, <1>2, AtMapsIs
<1>9. AtMaps(s2, g, k) /\ s2.moveLock = {d}
  BY <1>5, <1>6, AtMapsIs
<1>10. SameBut(nd, s, s2)
  BY <1>5, <1>6, <1>8, <1>9, AtMapsSame
<1>11. /\ Good(nd, S, dp) /\ Others(S, S2, t) /\ d \in NodeId /\ SameBut(nd, S[t], S2[t]) /\ t \in Thread
       /\ nd[d].move_map_writers_access = NULL /\ nd2 = WithMoveLock(nd, d, t)
       /\ S2[t].moveLock = S[t].moveLock \cup {d} /\ S2[t].maps = S[t].maps
  BY <1>1, <1>2, <1>7, <1>8, <1>9, <1>10 DEF AtMaps, Holding
<1>12. Global(nd2, S2, dp) /\ nd2 \in [NodeId -> NodeType] /\ SameTree(nd, nd2)
  BY ONLY <1>11, GMoveLock
<1>13. /\ Inv(nd, cl, fr, an, K, dp) /\ t \in Thread /\ fr[t].at # "idle"
       /\ Local(nd, cl[t], g, k) /\ Global(nd2, With(Summaries(cl, fr, K), t, Summary(cl[t], g, k)), dp)
  BY <1>4, <1>12
<1> QED BY ONLY <1>12, <1>13, Settle

\* The maps that a mover takes, one after the other unless they are the same.
FirstMap(nd, c, f) == IF SourceFirst(c) THEN nd[f.source].parent ELSE f.target_parent
LastMap(nd, c, f) == IF SourceFirst(c) THEN f.target_parent ELSE nd[f.source].parent

\* A thread between the two halves of a step that takes a map.
LEMMA BetweenMaps ==
  ASSUME NEW s, NEW f, NEW k, AtMaps(s, f, k), Typed(s), NEW k2, k2.chain = k.chain, k2.maps \subseteq NodeId
  PROVE  \E m : AtMaps(m, f, k2) /\ Typed(m) /\ m.moveLock = s.moveLock
<1> PICK m : m = [reads |-> s.reads, writes |-> s.writes, counts |-> s.counts, pending |-> s.pending,
                  maps |-> k2.maps, moveLock |-> s.moveLock, asReader |-> s.asReader,
                  asWriter |-> s.asWriter, inPrivate |-> s.inPrivate, moves |-> s.moves,
                  removes |-> s.removes, unlinks |-> s.unlinks, flags |-> s.flags,
                  vacates |-> s.vacates, owns |-> s.owns, acquires |-> s.acquires,
                  goesAway |-> s.goesAway, passesOn |-> s.passesOn, place |-> s.place]
  OBVIOUS
<1>1. /\ m.reads = s.reads /\ m.writes = s.writes /\ m.counts = s.counts /\ m.pending = s.pending
      /\ m.maps = k2.maps /\ m.moveLock = s.moveLock /\ m.asReader = s.asReader
      /\ m.asWriter = s.asWriter /\ m.inPrivate = s.inPrivate /\ m.moves = s.moves
      /\ m.removes = s.removes /\ m.unlinks = s.unlinks /\ m.flags = s.flags
      /\ m.vacates = s.vacates /\ m.owns = s.owns /\ m.acquires = s.acquires
      /\ m.goesAway = s.goesAway /\ m.passesOn = s.passesOn
  OBVIOUS
<1>2. Counts(k2) = Counts(k)
  BY DEF Counts
<1>3. AtMaps(m, f, k2)
  BY ONLY <1>1, <1>2, AtMaps(s, f, k) DEF AtMaps, Holding
<1>4. Typed(m)
  BY ONLY <1>1, Typed(s), k2.maps \subseteq NodeId DEF Typed
<1> QED BY <1>1, <1>3, <1>4

\* One map, taken for longer than an operation.
LEMMA TakeMap ==
  ASSUME NEW nd, NEW nd2, NEW S, NEW S2, NEW t \in Thread, NEW dp, Good(nd, S, dp),
         \A u \in Thread : One(S[u]), Others(S, S2, t), NEW n \in NodeId, NEW f, NEW g, NEW k, NEW k2,
         AtMaps(S[t], f, k), AtMaps(S2[t], g, k2), S2[t].moveLock = S[t].moveLock,
         Reads(g) = Reads(f), Writes(g) = Writes(f), Counts(k2) = Counts(k), g.source = f.source,
         nd[n].map_writer = NULL, k2.maps = k.maps \cup {n}, n \in Counts(k), nd2 = WithMapWriter(nd, n, t)
  PROVE  Global(nd2, S2, dp) /\ nd2 \in [NodeId -> NodeType] /\ SameTree(nd, nd2)
<1>1. SameBut(nd, S[t], S2[t])
  BY AtMapsSame
<1>2. /\ S2[t].maps = S[t].maps \cup {n} /\ n \in S[t].counts
      /\ S[t].goesAway = {} /\ S[t].unlinks = {} /\ S[t].moves = {}
  BY DEF AtMaps, Holding
<1>3. /\ Good(nd, S, dp) /\ Others(S, S2, t) /\ n \in NodeId /\ t \in Thread /\ nd2 = WithMapWriter(nd, n, t)
      /\ nd[n].map_writer = NULL /\ S2[t].moveLock = S[t].moveLock
      /\ \A u \in Thread : u # t => One(S[u])
  OBVIOUS
<1> QED BY ONLY <1>1, <1>2, <1>3, GMapTake

LEMMA GiveMoveLock ==
  ASSUME NEW nd, NEW nd2, NEW S, NEW S2, NEW t \in Thread, NEW dp, Good(nd, S, dp),
         Others(S, S2, t), NEW n \in NodeId, NEW f, NEW g, NEW k, NEW k2,
         AtMaps(S[t], f, k), AtMaps(S2[t], g, k2), S[t].moveLock = {n}, S2[t].moveLock = {},
         Reads(g) = Reads(f), Writes(g) = Writes(f), Counts(k2) = Counts(k), g.source = f.source,
         k2.maps = k.maps, nd2 = WithMoveLock(nd, n, NULL)
  PROVE  Global(nd2, S2, dp) /\ nd2 \in [NodeId -> NodeType] /\ SameTree(nd, nd2)
<1>1. SameBut(nd, S[t], S2[t])
  BY AtMapsSame
<1>2. S2[t].maps = S[t].maps
  BY DEF AtMaps, Holding
<1>3. /\ Good(nd, S, dp) /\ Others(S, S2, t) /\ n \in NodeId /\ t \in Thread /\ nd2 = WithMoveLock(nd, n, NULL)
      /\ n \in S[t].moveLock /\ S2[t].moveLock = S[t].moveLock \ {n}
  OBVIOUS
<1> QED BY ONLY <1>1, <1>2, <1>3, GMoveUnlock

\* What a mover has with the map n besides those that it had.
LEMMA NextMaps ==
  ASSUME NEW nd, NEW c, NEW f, NEW k, Local(nd, c, f, k), f.at \in {"left", "right"},
         NEW n, f.at = "left" => n = FirstMap(nd, c, f), f.at = "right" => n = LastMap(nd, c, f),
         NEW last, last <=> f.at = "right" \/ nd[f.source].parent = f.target_parent,
         NEW g \in FrameType, SameButAt(f, g), last => g.at = "transfer", ~last => g.at = "right"
  PROVE  \E k2 : /\ Local(nd, c, g, k2) /\ k2.chain = k.chain /\ Counts(k2) = Counts(k)
                 /\ k2.maps = k.maps \cup {n} /\ n \in Counts(k) /\ n \in NodeId /\ k2.maps \subseteq NodeId
<1> PICK p, q : p = nd[f.source].parent /\ q = f.target_parent
  OBVIOUS
<1>1. /\ MapsOK(nd, c, f, k) /\ p \in NodeId /\ p \in Counts(k) /\ q \in Counts(k) /\ q \in NodeId
      /\ Mover(f) /\ Mover(g) /\ Going(f) /\ Moving(f)
  <2>1. Mover(f) /\ Mover(g)
    BY DEF Mover
  <2>2. MapsOK(nd, c, f, k) /\ p \in NodeId /\ p \in Counts(k) /\ q \in Counts(k) /\ Going(f) /\ Moving(f)
        /\ Ways(nd, f, k.chain[1], k.chain[2], k.chain[3])
    BY <2>1, MoverIs
  <2> QED BY <2>1, <2>2 DEF Ways
<1> PICK k3 : k3 = [chain |-> k.chain, maps |-> k.maps \cup {n}]
  OBVIOUS
<1>2. k3.chain = k.chain /\ k3.maps = k.maps \cup {n}
  OBVIOUS
<1>3. /\ (f.at = "left" => k.maps = {})
      /\ (f.at = "right" => p # q /\ (SourceFirst(c) => k.maps = {p}) /\ (~SourceFirst(c) => k.maps = {q}))
  BY <1>1 DEF MapsOK
<1>4. /\ (f.at = "left" /\ SourceFirst(c) => n = p) /\ (f.at = "left" /\ ~SourceFirst(c) => n = q)
      /\ (f.at = "right" /\ SourceFirst(c) => n = q) /\ (f.at = "right" /\ ~SourceFirst(c) => n = p)
  BY DEF FirstMap, LastMap
<1>5. MapsOK(nd, c, g, k3)
  <2>1. g.source = f.source /\ g.target_parent = f.target_parent /\ Moving(g)
    BY <1>1 DEF SameButAt, Moving
  <2>2. CASE last
    <3>1. k3.maps = {p, q}
      BY <2>2, <1>2, <1>3, <1>4
    <3> QED BY <2>1, <2>2, <3>1 DEF MapsOK
  <2>3. CASE ~last
    <3>1. f.at = "left" /\ p # q /\ (SourceFirst(c) => k3.maps = {p}) /\ (~SourceFirst(c) => k3.maps = {q})
      BY <2>3, <1>2, <1>3, <1>4
    <3> QED BY <2>1, <2>3, <3>1 DEF MapsOK
  <2> QED BY <2>2, <2>3
<1>6. Local(nd, c, g, k3) /\ Counts(k3) = Counts(k)
  BY <1>1, <1>2, <1>5, MoverGoes
<1>7. n \in Counts(k) /\ n \in NodeId /\ k3.maps \subseteq NodeId
  BY <1>1, <1>2, <1>3, <1>4
<1> QED BY <1>2, <1>6, <1>7

LEMMA MapStep ==
  ASSUME NEW nd, NEW cl, NEW fr, NEW an, NEW K, NEW dp, Inv(nd, cl, fr, an, K, dp),
         NEW t \in Thread, NEW f, f = fr[t], f.at \in {"left", "right"}, NEW c, c = cl[t],
         NEW n, f.at = "left" => n = FirstMap(nd, c, f), f.at = "right" => n = LastMap(nd, c, f),
         nd[n].map_writer = NULL,
         NEW last, last <=> f.at = "right" \/ nd[f.source].parent = f.target_parent,
         NEW nd1, nd1 = WithMapWriter(nd, n, t), NEW nd2,
         ~last => nd2 = nd1, last => nd2 = WithMoveLock(nd1, f.shared, NULL),
         NEW g \in FrameType, SameButAt(f, g), last => g.at = "transfer", ~last => g.at = "right"
  PROVE  \E K2, e : Inv(nd2, cl, [fr EXCEPT ![t] = g], an, K2, e)
<1> PICK S, k, d : S = Summaries(cl, fr, K) /\ k = K[t] /\ d = f.shared
  OBVIOUS
<1>1. Good(nd, S, dp) /\ S[t] = Summary(c, f, k) /\ Local(nd, c, f, k) /\ (\A u \in Thread : One(S[u]))
      /\ Mover(f) /\ Mover(g) /\ Typed(S[t])
  <2>1. Good(nd, S, dp) /\ S[t] = Summary(c, f, k) /\ Local(nd, c, f, k) /\ \A u \in Thread : One(S[u])
    BY InvGood
  <2> QED BY <2>1 DEF Mover, Good
<1>2. PICK k2 : /\ Local(nd, c, g, k2) /\ k2.chain = k.chain /\ Counts(k2) = Counts(k)
                /\ k2.maps = k.maps \cup {n} /\ n \in Counts(k) /\ n \in NodeId /\ k2.maps \subseteq NodeId
  <2>1. /\ Local(nd, c, f, k) /\ f.at \in {"left", "right"}
        /\ (f.at = "left" => n = FirstMap(nd, c, f)) /\ (f.at = "right" => n = LastMap(nd, c, f))
        /\ (last <=> f.at = "right" \/ nd[f.source].parent = f.target_parent)
        /\ g \in FrameType /\ SameButAt(f, g) /\ (last => g.at = "transfer") /\ (~last => g.at = "right")
    BY <1>1
  <2> QED BY ONLY <2>1, NextMaps
<1>3. /\ Reads(f) = {f.shared, f.target_parent} /\ Writes(f) = {f.source} /\ HasSource(f) /\ f.cur \in NodeId
      /\ d \in NodeId
  <2>1. /\ Reads(f) = {f.shared, f.target_parent} /\ Writes(f) = {f.source} /\ HasSource(f)
        /\ f.cur \in NodeId /\ Ways(nd, f, k.chain[1], k.chain[2], k.chain[3])
    BY <1>1, MoverIs
  <2> QED BY <2>1 DEF Ways
<1>4. /\ Reads(g) = Reads(f) /\ Writes(g) = Writes(f) /\ HasSource(g) /\ g.cur \in NodeId
      /\ g.source = f.source /\ g.shared = d
  <2>1. Reads(g) = {g.shared, g.target_parent} /\ Writes(g) = {g.source} /\ HasSource(g) /\ g.cur \in NodeId
    BY <1>1, <1>2, MoverIs
  <2> QED BY <1>3, <2>1 DEF SameButAt
<1> PICK s, s2, S2 : s = S[t] /\ s2 = Summary(c, g, k2) /\ S2 = With(S, t, s2)
  OBVIOUS
<1>5. Others(S, S2, t) /\ S2[t] = s2 /\ S[t] = s
  BY WithIs
<1>6. AtMaps(s, f, k) /\ s.moveLock = {d}
  BY <1>1, <1>3, AtMapsIs
<1>7. AtMaps(s2, g, k2) /\ (last => s2.moveLock = {}) /\ (~last => s2.moveLock = {d})
  BY <1>4, AtMapsIs
<1>8. /\ Good(nd, S, dp) /\ (\A u \in Thread : One(S[u])) /\ t \in Thread /\ n \in NodeId
      /\ nd[n].map_writer = NULL /\ n \in Counts(k) /\ nd1 = WithMapWriter(nd, n, t) /\ k2.maps = k.maps \cup {n}
      /\ AtMaps(S[t], f, k) /\ Counts(k2) = Counts(k)
  BY <1>1, <1>2, <1>5, <1>6
<1>9. Global(nd2, S2, dp) /\ nd2 \in [NodeId -> NodeType] /\ SameTree(nd, nd2)
  <2>1. CASE ~last
    <3>1. AtMaps(S2[t], g, k2) /\ S2[t].moveLock = S[t].moveLock
      BY <2>1, <1>5, <1>6, <1>7
    <3>2. Global(nd1, S2, dp) /\ nd1 \in [NodeId -> NodeType] /\ SameTree(nd, nd1)
      BY ONLY <3>1, <1>4, <1>5, <1>8, TakeMap
    <3> QED BY <2>1, <3>2
  <2>2. CASE last
    <3>1. PICK m : AtMaps(m, f, k2) /\ Typed(m) /\ m.moveLock = s.moveLock
      BY <1>1, <1>2, <1>5, <1>6, BetweenMaps
    <3> PICK S1 : S1 = With(S, t, m)
      OBVIOUS
    <3>2. Others(S, S1, t) /\ S1[t] = m
      BY WithIs
    <3>3. AtMaps(S1[t], f, k2) /\ S1[t].moveLock = S[t].moveLock
      BY <3>1, <3>2, <1>5
    <3>4. Reads(f) = Reads(f) /\ Writes(f) = Writes(f) /\ f.source = f.source
      OBVIOUS
    <3>5. Global(nd1, S1, dp) /\ nd1 \in [NodeId -> NodeType] /\ SameTree(nd, nd1)
      BY ONLY <3>2, <3>3, <3>4, <1>8, TakeMap
    <3>6. Good(nd1, S1, dp)
      <4>1. \A u \in Thread : Typed(S1[u])
        BY <1>1, <3>1, <3>2 DEF Good, Others
      <4> QED BY <3>5, <4>1 DEF Good
    <3>7. /\ Others(S1, S2, t) /\ AtMaps(S2[t], g, k2) /\ S1[t].moveLock = {d} /\ S2[t].moveLock = {}
          /\ nd2 = WithMoveLock(nd1, d, NULL) /\ d \in NodeId /\ t \in Thread
          /\ Counts(k2) = Counts(k2) /\ k2.maps = k2.maps
      BY <2>2, <1>3, <1>5, <1>6, <1>7, <3>2, <3>3 DEF Others
    <3>8. Global(nd2, S2, dp) /\ nd2 \in [NodeId -> NodeType] /\ SameTree(nd1, nd2)
      BY ONLY <3>3, <3>6, <3>7, <1>4, GiveMoveLock
    <3> QED BY <3>5, <3>8 DEF SameTree
  <2> QED BY <2>1, <2>2
<1>10. /\ Inv(nd, cl, fr, an, K, dp) /\ t \in Thread /\ fr[t].at # "idle"
       /\ Local(nd, cl[t], g, k2) /\ Global(nd2, With(Summaries(cl, fr, K), t, Summary(cl[t], g, k2)), dp)
  BY <1>2, <1>9
<1> QED BY ONLY <1>9, <1>10, Settle

-----------------------------------------------------------------------------
(* Transfer.                                                               *)

\* The target exists: the mover leaves its maps and its folders.
LEMMA TargetExistsStep ==
  ASSUME NEW nd, NEW cl, NEW fr, NEW an, NEW K, NEW dp, Inv(nd, cl, fr, an, K, dp),
         NEW t \in Thread, NEW f, f = fr[t], f.at = "transfer", NEW c, c = cl[t],
         nd[f.source].parent = node[f.source].parent
  PROVE  \E K2, e : Inv(nd, cl, [fr EXCEPT ![t] = Do(f, FinalMaps(c, f) \o TargetExists(f))], an, K2, e)
<1> PICK k, p, todo, r : /\ k = K[t] /\ p = nd[f.source].parent /\ r = Result("EEXIST")
                         /\ todo = FinalMaps(c, f) \o TargetExists(f)
  OBVIOUS
<1>1. Local(nd, c, f, k) /\ Mover(f)
  BY InvGood DEF Mover
<1>2. /\ MapsOK(nd, c, f, k) /\ Moving(f) /\ c \in Calls /\ f \in FrameType /\ f.source # f.shared
      /\ Ways(nd, f, k.chain[1], k.chain[2], k.chain[3])
      /\ Counts(k) = k.chain[1] \cup k.chain[2] \cup k.chain[3] /\ p \in NodeId
      /\ Reads(f) = {f.shared, f.target_parent} /\ Writes(f) = {f.source}
  BY <1>1, MoverIs
<1>3. k.maps = {p, f.target_parent}
  BY <1>2 DEF MapsOK
<1>4. f.target_parent \in NodeId
  BY <1>2 DEF Ways
<1> PICK s, A, B, D, C, R, W, G :
      /\ s = <<WriterFinal(f.source)>> \o LeaveTarget(f) \o
             <<ReaderFinal(f.shared), Notify(f.source, NULL), Notify(f.target_parent, f.shared), Return(r)>>
      /\ A = k.chain[1] /\ B = k.chain[2] /\ D = k.chain[3] /\ C = (A \cup B) \cup D
      /\ R = {f.shared, f.target_parent} /\ W = {f.source}
      /\ G = {f.source} \cup (B \cap {f.target_parent})
  OBVIOUS
<1>5. Plan(nd, c, f, s, R, W, {}, C, {}, {}, G, G)
  <2>1. Return(r) \in Items
    BY CodesAre DEF Codes
  <2> QED BY <1>2, <2>1, LeaveBothPlan
<1>6. s = TargetExists(f)
  BY DEF TargetExists
<1>7. Plan(nd, c, f, FinalMaps(c, f) \o s, R, W, {p, f.target_parent}, C, {}, {}, G, G)
  <2>1. p \in NodeId /\ p = node[f.source].parent
    BY <1>2
  <2> QED BY ONLY <1>2, <1>4, <1>5, <2>1, LeaveMapsPlan
<1>8. R = Reads(f) /\ W = Writes(f) /\ C = Counts(k) /\ todo = FinalMaps(c, f) \o s
  BY <1>2, <1>6
<1>9. Plan(nd, c, f, todo, Reads(f), Writes(f), k.maps, Counts(k), {}, {}, G, G)
  BY <1>3, <1>7, <1>8
<1>10. /\ Inv(nd, cl, fr, an, K, dp) /\ t \in Thread /\ f = fr[t] /\ c = cl[t] /\ k = K[t]
       /\ f.at \in {"flag", "get", "body", "transfer"} /\ f.at # "flag"
  OBVIOUS
<1>11. \E K2, e : Inv(nd, cl, [fr EXCEPT ![t] = Do(f, todo)], an, K2, e)
  BY ONLY <1>9, <1>10, PlanStep
<1> QED BY <1>11

\* What the summary of a remover or a mover has while it discards the waiting.
LEMMA GoneIs ==
  ASSUME NEW c, NEW f, NEW k, NEW s, s = Summary(c, f, k), Gone(f), f.cur \in NodeId,
         Moving(f) => HasSource(f) /\ f.role # "remove", ~Moving(f) => f.role = "remove",
         NEW n, n = Taken(f)
  PROVE  /\ Holding(s, f, k) /\ s.owns = {n} /\ s.moveLock = {}
         /\ s.place = <<f.target_parent, TargetName(c.target)>>
         /\ (Moving(f) => s.moves = {n} /\ s.removes = {} /\ s.unlinks = {})
         /\ (~Moving(f) => s.moves = {} /\ s.removes = {n} /\ s.unlinks = {n})
         /\ (f.at = "discard" => s.flags = {}) /\ (f.at # "discard" => s.flags = {n})
         /\ (f.at = "discarding" => s.inPrivate = {n}) /\ (f.at # "discarding" => s.inPrivate = {})
         /\ (f.at = "calm" => s.vacates = {n}) /\ (f.at # "calm" => s.vacates = {})
<1>1. Going(f) /\ f.at \in {"discard", "discarding", "calm"} /\ f.at \notin {"left", "right"} /\ f.at # "todo"
  BY DEF Going, Gone
<1>2. Holding(s, f, k) /\ s.moveLock = {} /\ s.place = <<f.target_parent, TargetName(c.target)>>
  BY <1>1, HoldingIs
<1>3. /\ s.moves = Moves(f) /\ s.removes = Removes(f) /\ s.unlinks = Unlinks(f)
      /\ s.flags = Flags(f) /\ s.vacates = Vacates(f) /\ s.owns = Owns(f) /\ s.inPrivate = SleepsInPrivate(f)
  BY SummaryIs
<1>4. Owns(f) = {n}
  <2>1. ~Moving(f) => ~HasSource(f)
    BY DEF HasSource
  <2> QED BY <1>1, <2>1 DEF Owns, Taken
<1>5. /\ (Moving(f) => Moves(f) = {n} /\ Removes(f) = {}) /\ (~Moving(f) => Moves(f) = {} /\ Removes(f) = {n})
      /\ Unlinks(f) = Removes(f)
  BY <1>1 DEF Moves, Removes, Unlinks, Taken
<1>6. (f.at = "discard" => Flags(f) = {}) /\ (f.at # "discard" => Flags(f) = {n})
  BY <1>1 DEF Flags, Taken
<1>7. (f.at = "calm" => Vacates(f) = {n}) /\ (f.at # "calm" => Vacates(f) = {})
  BY <1>1 DEF Vacates, Taken
<1>8. (f.at = "discarding" => SleepsInPrivate(f) = {n}) /\ (f.at # "discarding" => SleepsInPrivate(f) = {})
  BY <1>1 DEF SleepsInPrivate, Taken
<1> QED BY <1>2, <1>3, <1>4, <1>5, <1>6, <1>7, <1>8

\* hmap_insert and hmap_remove of tree_move.
LEMMA TransferStep ==
  ASSUME NEW nd, NEW cl, NEW fr, NEW an, NEW K, NEW dp, Inv(nd, cl, fr, an, K, dp),
         NEW t \in Thread, NEW f, f = fr[t], f.at = "transfer", NEW c, c = cl[t],
         nd[f.target_parent].children[TargetName(c.target)] = NULL,
         NEW nd2, nd2 = WithMoved(nd, f.source, f.target_parent, TargetName(c.target)),
         NEW g \in FrameType, SameButAt(f, g), g.at = "discard"
  PROVE  \E K2, e : Inv(nd2, cl, [fr EXCEPT ![t] = g], an, K2, e)
<1> PICK S, k, n, q, b, p : /\ S = Summaries(cl, fr, K) /\ k = K[t] /\ n = f.source /\ q = f.target_parent
                            /\ b = TargetName(c.target) /\ p = nd[f.source].parent
  OBVIOUS
<1>1. Good(nd, S, dp) /\ S[t] = Summary(c, f, k) /\ Local(nd, c, f, k) /\ (\A u \in Thread : One(S[u])) /\ Mover(f)
  BY InvGood DEF Mover
<1>2. /\ MapsOK(nd, c, f, k) /\ Moving(f) /\ c \in Calls /\ c.op = "move" /\ Rejected(c) = <<>>
      /\ Ways(nd, f, k.chain[1], k.chain[2], k.chain[3]) /\ HasSource(f) /\ f.cur \in NodeId
      /\ Counts(k) = k.chain[1] \cup k.chain[2] \cup k.chain[3] /\ n # Root /\ n # f.shared
      /\ n \in Counts(k) /\ Reads(f) = {f.shared, f.target_parent} /\ Writes(f) = {f.source}
      /\ f.role \notin {"list", "create", "remove", "none"}
  BY <1>1, MoverIs
<1>3. k.maps = {p, q}
  BY <1>2 DEF MapsOK
<1> PICK A, B, D, C : A = k.chain[1] /\ B = k.chain[2] /\ D = k.chain[3] /\ C = B \cup D
  OBVIOUS
<1>4. C \subseteq Counts(k) /\ q \in C /\ n \notin C /\ q \in NodeId /\ \A x \in C : nd[x].parent \in C \cup {NULL}
  <2>1. IsChain(nd, C, q, NULL) /\ q \in NodeId /\ f.shared \in D /\ (q # f.shared => q \in B) /\ n \in k.chain[1]
    <3>1. Ways(nd, f, A, B, D) /\ f.source = n /\ f.source # f.shared /\ f.target_parent = q /\ C = B \cup D
      BY <1>2
    <3>2. n \in A /\ IsChain(nd, C, q, NULL) /\ q \in NodeId /\ f.shared \in D /\ (q # f.shared => q \in B)
      BY ONLY <3>1, WaysIs
    <3> QED BY <3>2
  <2>2. n \notin C
    <3>1. k.chain[1] \cap B = {} /\ k.chain[1] \cap D = {}
      BY <1>2 DEF Ways
    <3> QED BY <2>1, <3>1
  <2>3. \A x \in C : nd[x].parent \in C \cup {NULL}
    BY <2>1 DEF IsChain
  <2>4. q \in C
    BY <2>1
  <2> QED BY <1>2, <2>1, <2>2, <2>3, <2>4
<1>5. Mover(g) /\ Moving(g) /\ Gone(g) /\ g.role = f.role /\ Taken(g) = n /\ g.target_parent = q
  BY <1>2 DEF Mover, Moving, Gone, SameButAt, Taken
<1>6. Local(nd, c, g, k)
  <2>1. MapsOK(nd, c, g, k)
    BY <1>2, <1>3, <1>5 DEF MapsOK, SameButAt
  <2>2. k.chain = k.chain
    OBVIOUS
  <2> QED BY <1>1, <1>5, <2>1, <2>2, MoverGoes
<1>7. Reads(g) = Reads(f) /\ Writes(g) = Writes(f) /\ HasSource(g) /\ g.cur \in NodeId
  <2>1. Reads(g) = {g.shared, g.target_parent} /\ Writes(g) = {g.source} /\ HasSource(g) /\ g.cur \in NodeId
    BY <1>5, <1>6, MoverIs
  <2> QED BY <1>2, <2>1 DEF SameButAt
<1> PICK s, s2, S2 : s = S[t] /\ s2 = Summary(c, g, k) /\ S2 = With(S, t, s2)
  OBVIOUS
<1>8. Others(S, S2, t) /\ S2[t] = s2 /\ S[t] = s
  BY WithIs
<1>9. AtMaps(s, f, k) /\ s.moveLock = {} /\ s.place = <<q, b>>
  BY <1>1, <1>2, AtMapsIs
<1>10. /\ Holding(s2, g, k) /\ s2.owns = {n} /\ s2.moveLock = {} /\ s2.place = <<q, b>>
       /\ s2.moves = {n} /\ s2.removes = {} /\ s2.unlinks = {} /\ s2.flags = {} /\ s2.vacates = {} /\ s2.inPrivate = {}
  <2>1. g.role # "remove" /\ n = Taken(g)
    BY <1>2, <1>5
  <2> QED BY <1>5, <1>7, <2>1, GoneIs
<1>11. BeforeTransfer(nd, s, n, q, b, C)
  <2>1. b \in Name
    BY <1>2, Paths1
  <2>2. nd[q].children[b] = NULL /\ s.maps = {nd[n].parent, q} /\ n \in s.counts /\ C \subseteq s.counts
        /\ s.unlinks = {} /\ s.removes = {} /\ s.moves = {} /\ s.goesAway = {}
    BY <1>2, <1>3, <1>4, <1>9 DEF AtMaps, Holding
  <2> QED BY <1>2, <1>4, <1>9, <2>1, <2>2 DEF BeforeTransfer
<1>12. Transferred(nd, s, s2, n)
  <2>1. SameUse(s, s2) /\ SameSleep(s, s2) /\ s2.pending = s.pending /\ s2.maps = s.maps
    BY ONLY <1>7, <1>9, <1>10 DEF AtMaps, Holding, SameUse, SameSleep
  <2>2. KeepsPrivacy(nd, s, s2)
    BY <1>9, <1>10 DEF AtMaps, Holding, KeepsPrivacy, OwnedIn
  <2> QED BY <2>1, <2>2, <1>9, <1>10 DEF Transferred, AtMaps
<1>13. /\ Good(nd, S, dp) /\ (\A u \in Thread : One(S[u])) /\ Others(S, S2, t) /\ t \in Thread
       /\ BeforeTransfer(nd, S[t], n, q, b, C) /\ Transferred(nd, S[t], S2[t], n) /\ nd2 = WithMoved(nd, n, q, b)
  BY <1>1, <1>8, <1>11, <1>12
<1> PICK e : e = Sunk(dp, C, dp[q] + 1)
  OBVIOUS
<1>14. /\ Global(nd2, S2, e) /\ nd2 \in [NodeId -> NodeType]
       /\ \A x \in NodeId : nd2[x].parent = nd[x].parent /\ nd2[x].name = nd[x].name
  BY ONLY <1>13, e = Sunk(dp, C, dp[q] + 1), GTransfer
<1>15. SamePlaces(nd, nd2, LiveIn(nd)) /\ SamePlaces(nd, nd2, Counts(k) \cup {Pending(g)})
  BY <1>14 DEF SamePlaces
<1>16. Local(nd2, c, g, k)
  BY <1>6, <1>15, LocalStable
<1>17. /\ Inv(nd, cl, fr, an, K, dp) /\ t \in Thread /\ fr[t].at # "idle" /\ nd2 \in [NodeId -> NodeType]
       /\ Local(nd2, cl[t], g, k)
       /\ Global(nd2, With(Summaries(cl, fr, K), t, Summary(cl[t], g, k)), e)
  BY <1>14, <1>16
<1> QED BY ONLY <1>15, <1>17, SettleAll

-----------------------------------------------------------------------------
(* Discard, DiscardAgain and Calm.                                         *)

\* A thread that discards the waiting, of tree_remove or tree_move.
LEMMA GoneFacts ==
  ASSUME NEW nd, NEW c, NEW f, NEW k, Local(nd, c, f, k), Gone(f), NEW n, n = Taken(f)
  PROVE  /\ FrameOK(c, f) /\ ChainsOK(nd, c, f, k) /\ MapsOK(nd, c, f, k) /\ Going(f) /\ ~Ahead(f)
         /\ c \in Calls /\ f \in FrameType /\ f.cur \in NodeId /\ (c.op = "move" <=> Moving(f))
         /\ (Moving(f) => HasSource(f) /\ f.role # "remove" /\ Mover(f))
         /\ (~Moving(f) => f.role = "remove" /\ f.walk = "remove" /\ f.cur # Root /\ c.op = "remove" /\ k.maps = {})
         /\ n \in NodeId /\ n # Root /\ n \in Counts(k) /\ n \in Writes(f) /\ n \notin Reads(f)
<1>1. FrameOK(c, f) /\ ChainsOK(nd, c, f, k) /\ MapsOK(nd, c, f, k) /\ Going(f) /\ ~Ahead(f) /\ ~Leading(f)
  BY DEF Local, Gone, Going, Ahead, Leading, InLock
<1>2. c \in Calls /\ f \in FrameType /\ GoingOK(c, f) /\ f.cur \in NodeId
  BY <1>1, GoingIs
<1>3. CASE Moving(f)
  <2>1. Mover(f) /\ n = f.source
    BY <1>3 DEF Mover, Taken
  <2>2. /\ c.op = "move" /\ HasSource(f) /\ f.role # "remove" /\ n # Root /\ n \in Counts(k) /\ n # f.shared
        /\ Reads(f) = {f.shared, f.target_parent} /\ Writes(f) = {f.source}
        /\ Ways(nd, f, k.chain[1], k.chain[2], k.chain[3])
    BY <2>1, MoverIs
  <2>3. f.source # f.target_parent /\ f.source \in NodeId
    BY <2>1, <2>2, WaysIs
  <2> QED BY <1>1, <1>2, <1>3, <2>1, <2>2, <2>3
<1>4. CASE ~Moving(f)
  <2>1. f.role = "remove" /\ f.walk = "remove"
    BY <1>2, <1>4 DEF GoingOK, HasSource
  <2>2. f.cur # Root /\ c.op = "remove"
    BY <1>2, <2>1 DEF GoingOK, Gone
  <2>3. Inside(f) /\ IsWriter(f) /\ KeptReads(f) = {} /\ KeptWrites(f) = {}
    BY <1>4, <2>1, KeptStill DEF Inside, IsWriter, Gone
  <2>4. Reads(f) = {} /\ Writes(f) = {f.cur}
    BY <1>1, <1>2, <2>3, UsesAre
  <2>5. f.cur \in Counts(k)
    BY <1>1, <1>4, CurCounts
  <2>6. k.maps = {}
    BY <1>1, <1>4, GoingMaps
  <2> QED BY <1>1, <1>2, <1>4, <2>1, <2>2, <2>4, <2>5, <2>6 DEF Taken
<1> QED BY <1>3, <1>4

LEMMA GoneGoes ==
  ASSUME NEW nd, NEW c, NEW f, NEW k, Local(nd, c, f, k), Gone(f), NEW g \in FrameType, SameButAt(f, g), Gone(g)
  PROVE  /\ Local(nd, c, g, k) /\ Reads(g) = Reads(f) /\ Writes(g) = Writes(f)
         /\ Taken(g) = Taken(f) /\ (Moving(g) <=> Moving(f)) /\ g.target_parent = f.target_parent
<1>1. Taken(g) = Taken(f) /\ (Moving(g) <=> Moving(f)) /\ g.role = f.role /\ g.target_parent = f.target_parent
      /\ g.source = f.source /\ g.shared = f.shared
  BY DEF SameButAt, Taken, Moving
<1>2. CASE Moving(f)
  <2>1. Mover(f) /\ Mover(g) /\ MapsOK(nd, c, f, k) /\ k.chain = k.chain
    BY <1>1, <1>2, GoneFacts DEF Mover
  <2>2. MapsOK(nd, c, g, k)
    BY <1>1, <1>2, <2>1 DEF MapsOK, Gone
  <2>3. Local(nd, c, g, k)
    BY <2>1, <2>2, MoverGoes
  <2>4. /\ Reads(f) = {f.shared, f.target_parent} /\ Writes(f) = {f.source}
        /\ Reads(g) = {g.shared, g.target_parent} /\ Writes(g) = {g.source}
    BY <2>1, <2>3, MoverIs
  <2> QED BY <1>1, <2>3, <2>4
<1>3. CASE ~Moving(f)
  <2>1. f.role = "remove" /\ f.walk = "remove" /\ f.cur # Root
    BY <1>3, GoneFacts
  <2> QED BY <1>1, <1>3, <2>1, RemoverLocal
<1> QED BY <1>2, <1>3

\* What its summary has all the time.
AtGone(s, c, f, k, n) ==
  /\ Holding(s, f, k) /\ s.owns = {n} /\ s.moveLock = {} /\ s.place = <<f.target_parent, TargetName(c.target)>>
  /\ (Moving(f) => s.moves = {n} /\ s.removes = {} /\ s.unlinks = {})
  /\ (~Moving(f) => s.moves = {} /\ s.removes = {n} /\ s.unlinks = {n})

LEMMA AtGoneIs ==
  ASSUME NEW nd, NEW c, NEW f, NEW k, NEW s, s = Summary(c, f, k), Local(nd, c, f, k), Gone(f),
         NEW n, n = Taken(f)
  PROVE  /\ AtGone(s, c, f, k, n)
         /\ (f.at = "discard" => s.flags = {}) /\ (f.at # "discard" => s.flags = {n})
         /\ (f.at = "discarding" => s.inPrivate = {n}) /\ (f.at # "discarding" => s.inPrivate = {})
         /\ (f.at = "calm" => s.vacates = {n}) /\ (f.at # "calm" => s.vacates = {})
<1>1. /\ f.cur \in NodeId /\ (Moving(f) => HasSource(f) /\ f.role # "remove")
      /\ (~Moving(f) => f.role = "remove")
  BY GoneFacts
<1> QED BY <1>1, GoneIs DEF AtGone

LEMMA AtGoneSame ==
  ASSUME NEW nd, NEW c, NEW f, NEW g, NEW k, NEW n, NEW s, NEW s2, AtGone(s, c, f, k, n), AtGone(s2, c, g, k, n),
         Reads(g) = Reads(f), Writes(g) = Writes(f), Moving(g) <=> Moving(f),
         g.target_parent = f.target_parent
  PROVE  /\ SameRest(nd, s, s2) /\ s2.asReader = s.asReader /\ s2.asWriter = s.asWriter
<1>1. SameUse(s, s2) /\ s2.pending = s.pending /\ s2.maps = s.maps /\ s2.moveLock = s.moveLock
      /\ s2.unlinks = s.unlinks /\ s2.asReader = s.asReader /\ s2.asWriter = s.asWriter
      /\ s2.moves = s.moves /\ s2.removes = s.removes /\ s2.place = s.place
  BY DEF AtGone, Holding, SameUse
<1>2. KeepsPrivacy(nd, s, s2)
  BY DEF AtGone, Holding, KeepsPrivacy, OwnedIn
<1> QED BY <1>1, <1>2 DEF SameRest, SameTaking

\* The step between the flag and the last test of who is still there.
LEMMA FlagRaised ==
  ASSUME NEW s, NEW c, NEW f, NEW k, NEW n, AtGone(s, c, f, k, n), One(s), Typed(s), n \in NodeId
  PROVE  \E m : /\ AtGone(m, c, f, k, n) /\ One(m) /\ Typed(m)
                /\ m.flags = {n} /\ m.inPrivate = s.inPrivate /\ m.vacates = s.vacates
<1> PICK m : m = [reads |-> s.reads, writes |-> s.writes, counts |-> s.counts, pending |-> s.pending,
                  maps |-> s.maps, moveLock |-> s.moveLock, asReader |-> s.asReader,
                  asWriter |-> s.asWriter, inPrivate |-> s.inPrivate, moves |-> s.moves,
                  removes |-> s.removes, unlinks |-> s.unlinks, flags |-> {n},
                  vacates |-> s.vacates, owns |-> s.owns, acquires |-> s.acquires,
                  goesAway |-> s.goesAway, passesOn |-> s.passesOn, place |-> s.place]
  OBVIOUS
<1>1. /\ m.reads = s.reads /\ m.writes = s.writes /\ m.counts = s.counts /\ m.pending = s.pending
      /\ m.maps = s.maps /\ m.moveLock = s.moveLock /\ m.asReader = s.asReader
      /\ m.asWriter = s.asWriter /\ m.inPrivate = s.inPrivate /\ m.moves = s.moves
      /\ m.removes = s.removes /\ m.unlinks = s.unlinks /\ m.flags = {n}
      /\ m.vacates = s.vacates /\ m.owns = s.owns /\ m.acquires = s.acquires
      /\ m.goesAway = s.goesAway /\ m.passesOn = s.passesOn /\ m.place = s.place
  OBVIOUS
<1>2. AtGone(m, c, f, k, n)
  BY ONLY <1>1, AtGone(s, c, f, k, n) DEF AtGone, Holding
<1>3. Typed(m)
  BY ONLY <1>1, Typed(s), n \in NodeId DEF Typed
<1>4. n \in s.owns /\ n \in s.moves \cup s.removes
  BY DEF AtGone
<1>5. One(m)
  BY ONLY <1>1, <1>4, One(s) DEF One
<1> QED BY <1>1, <1>2, <1>3, <1>5

Asleep(nd, n, t) == [nd EXCEPT ![n] = SleepPrivate(nd[n], t)]

\* It looks, its flag up, whether anybody still refers to the folder.
Looking(nd, s, s2, c, f, g, k, n, waits) ==
  /\ AtGone(s, c, f, k, n) /\ AtGone(s2, c, g, k, n)
  /\ Reads(g) = Reads(f) /\ Writes(g) = Writes(f) /\ (Moving(g) <=> Moving(f))
  /\ g.target_parent = f.target_parent
  /\ s.flags = {n} /\ s2.flags = {n} /\ s.vacates = {} /\ s.inPrivate \subseteq {n}
  /\ (waits <=> StillReferenced(nd[n]))
  /\ (waits => s2.inPrivate = {n} /\ s2.vacates = {})
  /\ (~waits => s2.inPrivate = {} /\ s2.vacates = {n})

LEMMA GLooking ==
  ASSUME NEW nd, NEW nd2, NEW S, NEW S2, NEW t \in Thread, NEW dp, Good(nd, S, dp),
         \A u \in Thread : One(S[u]), Others(S, S2, t), NEW n \in NodeId, n # Root,
         NEW c, NEW f, NEW g, NEW k, NEW waits, Looking(nd, S[t], S2[t], c, f, g, k, n, waits),
         t \notin nd[n].private_access, waits => nd2 = Asleep(nd, n, t), ~waits => nd2 = nd
  PROVE  Global(nd2, S2, dp) /\ nd2 \in [NodeId -> NodeType] /\ SameTree(nd, nd2)
<1>1. /\ AtGone(S[t], c, f, k, n) /\ AtGone(S2[t], c, g, k, n) /\ Reads(g) = Reads(f) /\ Writes(g) = Writes(f)
      /\ (Moving(g) <=> Moving(f)) /\ g.target_parent = f.target_parent
      /\ S[t].flags = {n} /\ S2[t].flags = {n} /\ S[t].vacates = {} /\ S[t].inPrivate \subseteq {n}
      /\ (waits <=> StillReferenced(nd[n]))
      /\ (waits => S2[t].inPrivate = {n} /\ S2[t].vacates = {})
      /\ (~waits => S2[t].inPrivate = {} /\ S2[t].vacates = {n})
  BY DEF Looking
<1>2. SameRest(nd, S[t], S2[t]) /\ S2[t].asReader = S[t].asReader /\ S2[t].asWriter = S[t].asWriter
  BY ONLY <1>1, AtGoneSame
<1>3. S[t].owns = {n} /\ nd \in [NodeId -> NodeType]
  BY <1>1 DEF AtGone, Good
<1>4. CASE waits
  <2>1. /\ SameUse(S[t], S2[t]) /\ S2[t].pending = S[t].pending /\ KeepsPrivacy(nd, S[t], S2[t])
        /\ SameHeld(S[t], S2[t]) /\ S2[t].unlinks = S[t].unlinks
    BY <1>1, <1>2, <1>4 DEF SameRest, SameHeld
  <2> PICK m2 : m2 = SleepPrivate(nd[n], t)
    OBVIOUS
  <2>2. At(nd, nd2, S, S2, t, n, m2, dp)
    BY <1>4, <2>1 DEF At, Asleep
  <2>3. /\ S[t].inPrivate \subseteq {n} /\ S2[t].inPrivate = {n} /\ m2 = SleepPrivate(nd[n], t)
        /\ S2[t].asReader = S[t].asReader /\ S2[t].asWriter = S[t].asWriter /\ t \in Thread /\ n \in NodeId
    BY <1>1, <1>2, <1>4
  <2> QED BY ONLY <2>1, <2>2, <2>3, GPrivate
<1>5. CASE ~waits
  <2>1. /\ SameRest(nd, S[t], S2[t]) /\ S2[t].asReader = S[t].asReader /\ S2[t].asWriter = S[t].asWriter
        /\ S[t].inPrivate \subseteq {n} /\ S2[t].inPrivate = {} /\ S2[t].flags = S[t].flags
        /\ S2[t].vacates = S[t].vacates \cup {n} /\ n \in S[t].owns /\ ~StillReferenced(nd[n])
    BY <1>1, <1>2, <1>3, <1>5
  <2>2. Global(nd, S2, dp)
    BY <2>1, GVacate
  <2>3. SameTree(nd, nd)
    BY DEF SameTree
  <2> QED BY <1>3, <1>5, <2>2, <2>3
<1> QED BY <1>4, <1>5

\* From "discard" or "discarding", with the flag up.
LEMMA AtLooking ==
  ASSUME NEW nd, NEW c, NEW f, NEW g, NEW k, NEW n, NEW s, NEW s2, AtGone(s, c, f, k, n),
         s.flags = {n}, s.vacates = {}, s.inPrivate \subseteq {n},
         Local(nd, c, f, k), Gone(f), n = Taken(f), g \in FrameType, SameButAt(f, g), s2 = Summary(c, g, k),
         NEW nd1, NEW waits, waits <=> StillReferenced(nd1[n]), waits => g.at = "discarding", ~waits => g.at = "calm"
  PROVE  Looking(nd1, s, s2, c, f, g, k, n, waits) /\ Local(nd, c, g, k)
<1>1. Gone(g) /\ (waits <=> g.at = "discarding") /\ (~waits <=> g.at = "calm") /\ g.at # "discard"
  BY DEF Gone
<1>2. /\ Local(nd, c, g, k) /\ Reads(g) = Reads(f) /\ Writes(g) = Writes(f)
      /\ Taken(g) = Taken(f) /\ (Moving(g) <=> Moving(f)) /\ g.target_parent = f.target_parent
  BY <1>1, GoneGoes
<1>3. /\ AtGone(s2, c, g, k, n) /\ s2.flags = {n}
      /\ (g.at = "discarding" => s2.inPrivate = {n}) /\ (g.at # "discarding" => s2.inPrivate = {})
      /\ (g.at = "calm" => s2.vacates = {n}) /\ (g.at # "calm" => s2.vacates = {})
  BY <1>1, <1>2, AtGoneIs
<1>4. (waits => s2.inPrivate = {n} /\ s2.vacates = {}) /\ (~waits => s2.inPrivate = {} /\ s2.vacates = {n})
  BY <1>1, <1>3
<1> QED BY <1>2, <1>3, <1>4 DEF Looking

LEMMA DiscardAgainStep ==
  ASSUME NEW nd, NEW cl, NEW fr, NEW an, NEW K, NEW dp, Inv(nd, cl, fr, an, K, dp),
         NEW t \in Thread, NEW f, f = fr[t], f.at = "discarding", NEW n, n = Taken(f),
         t \notin nd[n].private_access, NEW waits, waits <=> StillReferenced(nd[n]),
         NEW nd2, waits => nd2 = Asleep(nd, n, t), ~waits => nd2 = nd,
         NEW g \in FrameType, SameButAt(f, g), waits => g.at = "discarding", ~waits => g.at = "calm"
  PROVE  \E K2, e : Inv(nd2, cl, [fr EXCEPT ![t] = g], an, K2, e)
<1> PICK S, c, k : S = Summaries(cl, fr, K) /\ c = cl[t] /\ k = K[t]
  OBVIOUS
<1>1. Good(nd, S, dp) /\ S[t] = Summary(c, f, k) /\ Local(nd, c, f, k) /\ (\A u \in Thread : One(S[u])) /\ Gone(f)
  BY InvGood DEF Gone
<1>2. n \in NodeId /\ n # Root
  BY <1>1, GoneFacts
<1> PICK s, s2, S2 : s = S[t] /\ s2 = Summary(c, g, k) /\ S2 = With(S, t, s2)
  OBVIOUS
<1>3. Others(S, S2, t) /\ S2[t] = s2 /\ S[t] = s
  BY WithIs
<1>4. AtGone(s, c, f, k, n) /\ s.flags = {n} /\ s.vacates = {} /\ s.inPrivate \subseteq {n}
  <2>1. s = Summary(c, f, k)
    BY <1>1
  <2> QED BY <1>1, <2>1, AtGoneIs
<1>5. Looking(nd, s, s2, c, f, g, k, n, waits) /\ Local(nd, c, g, k)
  <2>1. /\ n = Taken(f) /\ g \in FrameType /\ SameButAt(f, g) /\ s2 = Summary(c, g, k)
        /\ (waits <=> StillReferenced(nd[n])) /\ (waits => g.at = "discarding") /\ (~waits => g.at = "calm")
    OBVIOUS
  <2> QED BY ONLY <1>1, <1>4, <2>1, AtLooking
<1>6. Looking(nd, S[t], S2[t], c, f, g, k, n, waits)
  BY <1>3, <1>5
<1>7. Global(nd2, S2, dp) /\ nd2 \in [NodeId -> NodeType] /\ SameTree(nd, nd2)
  <2>1. /\ t \in Thread /\ t \notin nd[n].private_access /\ (waits => nd2 = Asleep(nd, n, t)) /\ (~waits => nd2 = nd)
    OBVIOUS
  <2> QED BY ONLY <1>1, <1>2, <1>3, <1>6, <2>1, GLooking
<1>8. /\ Inv(nd, cl, fr, an, K, dp) /\ t \in Thread /\ fr[t].at # "idle" /\ nd2 \in [NodeId -> NodeType]
      /\ Local(nd, cl[t], g, k) /\ SameTree(nd, nd2)
      /\ Global(nd2, With(Summaries(cl, fr, K), t, Summary(cl[t], g, k)), dp)
  BY <1>5, <1>7
<1> QED BY ONLY <1>8, Settle

LEMMA DiscardStep ==
  ASSUME NEW nd, NEW cl, NEW fr, NEW an, NEW K, NEW dp, Inv(nd, cl, fr, an, K, dp),
         NEW t \in Thread, NEW f, f = fr[t], f.at = "discard", NEW n, n = Taken(f),
         NEW m \in EmergencyOn(nd[n]), NEW nd1, nd1 = [nd EXCEPT ![n] = m],
         NEW waits, waits <=> StillReferenced(m),
         NEW nd2, waits => nd2 = Asleep(nd1, n, t), ~waits => nd2 = nd1,
         NEW g \in FrameType, SameButAt(f, g), waits => g.at = "discarding", ~waits => g.at = "calm"
  PROVE  \E K2, e : Inv(nd2, cl, [fr EXCEPT ![t] = g], an, K2, e)
<1> PICK S, c, k : S = Summaries(cl, fr, K) /\ c = cl[t] /\ k = K[t]
  OBVIOUS
<1>1. /\ Good(nd, S, dp) /\ S[t] = Summary(c, f, k) /\ Local(nd, c, f, k) /\ (\A u \in Thread : One(S[u])) /\ Gone(f)
      /\ nd \in [NodeId -> NodeType] /\ \A u \in Thread : Typed(S[u])
  BY InvGood DEF Gone, Good
<1>2. n \in NodeId /\ n # Root
  BY <1>1, GoneFacts
<1> PICK s : s = S[t]
  OBVIOUS
<1>3. AtGone(s, c, f, k, n) /\ s.flags = {} /\ s.vacates = {} /\ s.inPrivate = {} /\ One(s) /\ Typed(s)
  <2>1. s = Summary(c, f, k)
    BY <1>1
  <2>2. AtGone(s, c, f, k, n) /\ s.flags = {} /\ s.vacates = {} /\ s.inPrivate = {}
    BY <1>1, <2>1, AtGoneIs
  <2> QED BY <1>1, <2>2
<1> PICK m1 : AtGone(m1, c, f, k, n) /\ One(m1) /\ Typed(m1) /\ m1.flags = {n} /\ m1.inPrivate = s.inPrivate /\ m1.vacates = s.vacates
  BY <1>2, <1>3, FlagRaised
<1> PICK S1 : S1 = With(S, t, m1)
  OBVIOUS
<1>4. Others(S, S1, t) /\ S1[t] = m1
  BY WithIs
<1>5. Global(nd1, S1, dp) /\ nd1 \in [NodeId -> NodeType] /\ SameTree(nd, nd1)
  <2>1. SameRest(nd, s, m1) /\ m1.asReader = s.asReader /\ m1.asWriter = s.asWriter
    <3>1. Reads(f) = Reads(f) /\ Writes(f) = Writes(f) /\ (Moving(f) <=> Moving(f)) /\ f.target_parent = f.target_parent
      OBVIOUS
    <3> QED BY ONLY <1>3, <3>1, AtGone(m1, c, f, k, n), AtGoneSame
  <2>2. /\ SameRest(nd, S[t], S1[t]) /\ SameSleep(S[t], S1[t]) /\ S1[t].flags = S[t].flags \cup {n}
        /\ S1[t].vacates = S[t].vacates /\ t \in Thread /\ m \in EmergencyOn(nd[n])
    BY <1>3, <1>4, <2>1 DEF SameSleep
  <2> QED BY ONLY <1>1, <1>2, <1>4, <2>2, nd1 = [nd EXCEPT ![n] = m], GFlagOn
<1>6. Good(nd1, S1, dp) /\ \A u \in Thread : One(S1[u])
  BY <1>1, <1>4, <1>5 DEF Good, Others
<1> PICK s2, S2 : s2 = Summary(c, g, k) /\ S2 = With(S, t, s2)
  OBVIOUS
<1>7. Others(S, S2, t) /\ S2[t] = s2
  BY WithIs
<1>8. Others(S1, S2, t)
  BY <1>4, <1>7 DEF Others
<1>9. nd1[n] = m
  BY <1>1, <1>2
<1>10. Looking(nd1, m1, s2, c, f, g, k, n, waits) /\ Local(nd, c, g, k)
  <2>1. m1.flags = {n} /\ m1.vacates = {} /\ m1.inPrivate \subseteq {n}
    BY <1>3
  <2> HIDE DEF Asleep
  <2>2. waits <=> StillReferenced(nd1[n])
    BY <1>9
  <2> QED BY <1>1, <2>1, <2>2, AtLooking
<1>11. Looking(nd1, S1[t], S2[t], c, f, g, k, n, waits)
  BY <1>4, <1>7, <1>10
<1>12. t \notin nd1[n].private_access
  <2>1. Sleepers(nd1, S1)
    BY <1>5 DEF Global
  <2>2. n \notin S1[t].inPrivate
    BY <1>3, <1>4
  <2> QED BY <1>2, <2>1, <2>2 DEF Sleepers, SleepersOf
<1>13. Global(nd2, S2, dp) /\ nd2 \in [NodeId -> NodeType] /\ SameTree(nd1, nd2)
  <2>1. /\ t \in Thread /\ (waits => nd2 = Asleep(nd1, n, t)) /\ (~waits => nd2 = nd1)
    OBVIOUS
  <2> QED BY ONLY <1>2, <1>6, <1>8, <1>11, <1>12, <2>1, GLooking
<1>14. SameTree(nd, nd2)
  BY <1>5, <1>13 DEF SameTree
<1>15. /\ Inv(nd, cl, fr, an, K, dp) /\ t \in Thread /\ fr[t].at # "idle" /\ nd2 \in [NodeId -> NodeType]
      /\ Local(nd, cl[t], g, k) /\ SameTree(nd, nd2)
      /\ Global(nd2, With(Summaries(cl, fr, K), t, Summary(cl[t], g, k)), dp)
  BY <1>10, <1>13, <1>14
<1> QED BY ONLY <1>15, Settle

\* What a remover or a mover leaves, its folder taken away.
LEMMA AfterDiscardPlan ==
  ASSUME NEW nd, NEW c, NEW f, NEW k, Local(nd, c, f, k), Gone(f), NEW n, n = Taken(f),
         nd[f.source].parent = node[f.source].parent
  PROVE  \E N, D : /\ Plan(nd, c, f, AfterDiscard(c, f), Reads(f), Writes(f), k.maps, Counts(k), N, D, {n}, {n})
                   /\ (Moving(f) => N = {n} /\ D = {}) /\ (~Moving(f) => N = {} /\ D = {n})
<1>1. /\ FrameOK(c, f) /\ ChainsOK(nd, c, f, k) /\ Going(f) /\ ~Ahead(f)
      /\ c \in Calls /\ f \in FrameType /\ f.cur \in NodeId /\ (c.op = "move" <=> Moving(f))
      /\ (Moving(f) => Mover(f)) /\ n \in NodeId
      /\ (~Moving(f) => f.role = "remove" /\ f.cur # Root /\ c.op = "remove" /\ k.maps = {})
  BY GoneFacts
<1> PICK r : r = Result("OK")
  OBVIOUS
<1>2. Return(r) \in Items
  BY CodesAre DEF Codes
<1>3. CASE Moving(f)
  <2> PICK p, A, B, D : p = nd[f.source].parent /\ A = k.chain[1] /\ B = k.chain[2] /\ D = k.chain[3]
    OBVIOUS
  <2>1. /\ MapsOK(nd, c, f, k) /\ c \in Calls /\ f \in FrameType /\ f.source # f.shared /\ f.source # Root
        /\ Ways(nd, f, k.chain[1], k.chain[2], k.chain[3]) /\ c.op = "move"
        /\ Counts(k) = k.chain[1] \cup k.chain[2] \cup k.chain[3] /\ nd[f.source].parent \in NodeId
        /\ Reads(f) = {f.shared, f.target_parent} /\ Writes(f) = {f.source}
    BY <1>1, <1>3, MoverIs
  <2>2. k.maps = {p, f.target_parent}
    BY <1>3, <2>1 DEF MapsOK, Gone
  <2>3. Ways(nd, f, A, B, D) /\ p \in NodeId /\ p = node[f.source].parent
    BY <2>1
  <2> PICK s, C : /\ C = (A \cup B) \cup D
                  /\ s = <<WriterFinal(f.source), Notify(f.source, NULL), Rename(f.source)>>
                          \o FinalMaps(c, f) \o LeaveTarget(f) \o
                        <<ReaderFinal(f.shared), Notify(f.target_parent, f.shared), Return(r)>>
    OBVIOUS
  <2> PICK R, W, M, N : R = {f.shared, f.target_parent} /\ W = {f.source} /\ M = {p, f.target_parent} /\ N = {f.source}
    OBVIOUS
  <2>4. Plan(nd, c, f, s, R, W, M, C, N, {}, N, N)
    BY <1>2, <2>1, <2>3, MovePlan
  <2>5. s = AfterDiscard(c, f) /\ N = {n}
    BY <1>3, <2>1 DEF AfterDiscard, Taken
  <2>6. R = Reads(f) /\ W = Writes(f) /\ M = k.maps /\ C = Counts(k)
    BY <2>1, <2>2
  <2>7. Plan(nd, c, f, AfterDiscard(c, f), Reads(f), Writes(f), k.maps, Counts(k), {n}, {}, {n}, {n})
    BY ONLY <2>4, <2>5, <2>6
  <2> QED BY <1>3, <2>7
<1>4. CASE ~Moving(f)
  <2> PICK B, C, W : B = k.chain[3] /\ C = Counts(k) /\ W = {f.cur}
    OBVIOUS
  <2>1. IsChain(nd, B, f.cur, NULL) /\ C = B
    BY <1>1, <1>4, StillPlaces DEF Here
  <2>2. Inside(f) /\ IsWriter(f) /\ KeptReads(f) = {} /\ KeptWrites(f) = {}
    BY <1>1, <1>4, KeptStill DEF Inside, IsWriter, Gone
  <2>3. Reads(f) = {} /\ Writes(f) = {f.cur}
    BY <1>1, <2>2, UsesAre
  <2> PICK s : s = <<WriterFinal(f.cur), Notify(f.cur, NULL), Free(f.cur), Return(r)>>
    OBVIOUS
  <2>4. Plan(nd, c, f, s, {}, W, {}, B, {}, W, W, W)
    BY <1>1, <1>2, <1>4, <2>1, RemovePlan
  <2>5. s = AfterDiscard(c, f) /\ W = {n}
    BY <1>1, <1>4 DEF AfterDiscard, Taken
  <2>6. {} = Reads(f) /\ W = Writes(f) /\ {} = k.maps /\ B = Counts(k)
    BY <1>1, <1>4, <2>1, <2>3
  <2>7. Plan(nd, c, f, AfterDiscard(c, f), Reads(f), Writes(f), k.maps, Counts(k), {}, {n}, {n}, {n})
    BY ONLY <2>4, <2>5, <2>6
  <2> QED BY <1>4, <2>7
<1> QED BY <1>3, <1>4

LEMMA CalmStep ==
  ASSUME NEW nd, NEW cl, NEW fr, NEW an, NEW K, NEW dp, Inv(nd, cl, fr, an, K, dp),
         NEW t \in Thread, NEW f, f = fr[t], f.at = "calm", NEW n, n = Taken(f), NEW c, c = cl[t],
         nd[f.source].parent = node[f.source].parent,
         NEW nd2, nd2 = [nd EXCEPT ![n] = EmergencyOff(nd[n])]
  PROVE  \E K2, e : Inv(nd2, cl, [fr EXCEPT ![t] = Do(f, AfterDiscard(c, f))], an, K2, e)
<1> PICK S, k, todo : S = Summaries(cl, fr, K) /\ k = K[t] /\ todo = AfterDiscard(c, f)
  OBVIOUS
<1>1. Good(nd, S, dp) /\ S[t] = Summary(c, f, k) /\ Local(nd, c, f, k) /\ (\A u \in Thread : One(S[u])) /\ Gone(f)
  BY InvGood DEF Gone
<1>2. n \in NodeId /\ n # Root /\ f \in FrameType /\ n \notin Reads(f) /\ (Moving(f) \/ ~Moving(f))
  BY <1>1, GoneFacts
<1> PICK N, D : /\ Plan(nd, c, f, AfterDiscard(c, f), Reads(f), Writes(f), k.maps, Counts(k), N, D, {n}, {n})
                /\ (Moving(f) => N = {n} /\ D = {}) /\ (~Moving(f) => N = {} /\ D = {n})
  <2>1. n = Taken(f) /\ nd[f.source].parent = node[f.source].parent
    OBVIOUS
  <2> QED BY ONLY <1>1, <2>1, AfterDiscardPlan
<1> PICK R, W, M, C, G : R = Reads(f) /\ W = Writes(f) /\ M = k.maps /\ C = Counts(k) /\ G = {n}
  OBVIOUS
<1> PICK g, k2 : /\ g = Do(f, todo) /\ Local(nd, c, g, k2)
                 /\ TodoSummary(Summary(c, g, k2), R, W, M, C, N, D, G, G)
  <2>1. Plan(nd, c, f, todo, R, W, M, C, N, D, G, G)
    OBVIOUS
  <2>2. \E k2 : /\ Local(nd, c, Do(f, todo), k2)
                /\ TodoSummary(Summary(c, Do(f, todo), k2), R, W, M, C, N, D, G, G)
    BY ONLY <1>2, <2>1, Planned
  <2> QED BY ONLY <2>2
<1> PICK s, s2, S2 : s = S[t] /\ s2 = Summary(c, g, k2) /\ S2 = With(S, t, s2)
  OBVIOUS
<1>3. Others(S, S2, t) /\ S2[t] = s2 /\ S[t] = s
  BY WithIs
<1>4. AtGone(s, c, f, k, n) /\ s.flags = {n} /\ s.vacates = {n} /\ s.inPrivate = {}
  <2>1. s = Summary(c, f, k) /\ n = Taken(f) /\ f.at = "calm"
    BY <1>1
  <2> QED BY ONLY <1>1, <2>1, AtGoneIs
<1>5. /\ TodoSummary(s2, R, W, M, C, N, D, G, G) /\ s2.place = <<f.target_parent, TargetName(c.target)>>
      /\ R = Reads(f) /\ W = Writes(f) /\ M = k.maps /\ C = Counts(k)
  <2>1. g.target_parent = f.target_parent
    <3>1. g = Do(f, todo)
      OBVIOUS
    <3> QED BY ONLY <3>1 DEF Do
  <2>2. s2 = Summary(c, g, k2) /\ TodoSummary(s2, R, W, M, C, N, D, G, G)
    OBVIOUS
  <2>3. s2.place = <<g.target_parent, TargetName(c.target)>>
    BY ONLY <2>2, SummaryIs
  <2> QED BY <2>1, <2>2, <2>3
<1>6. /\ s2.reads = R /\ s2.writes = W /\ s2.counts = C /\ s2.pending = NULL /\ s2.maps = M
      /\ s2.moveLock = {} /\ s2.asReader = {} /\ s2.asWriter = {} /\ s2.inPrivate = {}
      /\ s2.moves = N /\ s2.removes = D /\ s2.unlinks = D /\ s2.flags = {} /\ s2.vacates = N \cup D
      /\ s2.owns = {} /\ s2.acquires = {}
  BY ONLY <1>5 DEF TodoSummary
<1>7. /\ s.reads = R /\ s.writes = W /\ s.counts = C /\ s.pending = NULL /\ s.maps = M
      /\ s.moveLock = {} /\ s.asReader = {} /\ s.asWriter = {}
      /\ s.moves = N /\ s.removes = D /\ s.unlinks = D /\ s.owns = {n} /\ s.goesAway = {} /\ s.passesOn = {}
      /\ s.place = s2.place /\ N \cup D = {n}
  <2>1. AtGone(s, c, f, k, n) /\ (Moving(f) => N = {n} /\ D = {}) /\ (~Moving(f) => N = {} /\ D = {n})
    BY <1>4
  <2> QED BY ONLY <1>2, <1>5, <2>1 DEF AtGone, Holding
<1>8. SameRest(nd, s, s2)
  <2>1. SameUse(s, s2) /\ SameTaking(s, s2)
    BY ONLY <1>6, <1>7 DEF SameUse, SameTaking
  <2>2. KeepsPrivacy(nd, s, s2)
    BY ONLY <1>6, <1>7 DEF KeepsPrivacy, OwnedIn
  <2> QED BY ONLY <1>6, <1>7, <2>1, <2>2 DEF SameRest
<1>9. /\ SameRest(nd, S[t], S2[t]) /\ SameSleep(S[t], S2[t]) /\ S[t].flags = {n} /\ S2[t].flags = {}
      /\ S2[t].vacates = S[t].vacates /\ S2[t].owns = {} /\ S2[t].acquires = {} /\ n \in S[t].vacates
      /\ n \notin S[t].reads
  BY ONLY <1>2, <1>3, <1>4, <1>5, <1>6, <1>7, <1>8 DEF SameSleep
<1>10. Global(nd2, S2, dp) /\ nd2 \in [NodeId -> NodeType] /\ SameTree(nd, nd2)
  <2>1. t \in Thread /\ nd2 = [nd EXCEPT ![n] = EmergencyOff(nd[n])]
    OBVIOUS
  <2> QED BY ONLY <1>1, <1>2, <1>3, <1>9, <2>1, GFlagOff
<1>11. /\ Inv(nd, cl, fr, an, K, dp) /\ t \in Thread /\ fr[t].at # "idle" /\ nd2 \in [NodeId -> NodeType]
      /\ Local(nd, cl[t], g, k2) /\ SameTree(nd, nd2)
      /\ Global(nd2, With(Summaries(cl, fr, K), t, Summary(cl[t], g, k2)), dp)
  BY <1>10
<1>12. \E K2, e : Inv(nd2, cl, [fr EXCEPT ![t] = g], an, K2, e)
  BY ONLY <1>11, Settle
<1> QED BY <1>12
=============================================================================
