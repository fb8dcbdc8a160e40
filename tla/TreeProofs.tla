------------------------------ MODULE TreeProofs ------------------------------
(***************************************************************************)
(* What the items of a list do; that every action keeps IInv and the       *)
(* initial states satisfy it; and that it implies the properties of        *)
(* TreeHistory.                                                            *)
(***************************************************************************)
EXTENDS TreeSteps

-----------------------------------------------------------------------------
(* The first item of a list is done.                                       *)

LEMMA TailPrepends ==
  ASSUME NEW s \in Seq(Items), Len(s) > 0
  PROVE  /\ Tail(s) \in Seq(Items) /\ Head(s) \in Items /\ Head(s) = s[1] /\ Len(s) - 1 \in Nat
         /\ Prepends(s, Head(s), Tail(s), Len(s) - 1)
<1>1. Len(s) \in Nat /\ DOMAIN s = 1 .. Len(s) /\ s # <<>>
  BY LenProperties
<1>2. /\ Tail(s) \in Seq(Items) /\ Head(s) \in Items /\ Head(s) = s[1] /\ Len(Tail(s)) = Len(s) - 1
      /\ \A i \in 1 .. Len(Tail(s)) : Tail(s)[i] = s[i + 1]
  BY <1>1, HeadTailProperties
<1> PICK n, h, w : n = Len(s) - 1 /\ h = Head(s) /\ w = Tail(s)
  OBVIOUS
<1>3. n \in Nat /\ n + 1 = Len(s)
  BY <1>1
<1>4. DOMAIN w = 1 .. n
  <2>1. w \in Seq(Items) /\ Len(w) = n
    BY <1>2
  <2> QED BY ONLY <2>1, LenProperties
<1>5. DOMAIN s = 1 .. (n + 1) /\ s[1] = h /\ \A i \in 1 .. n : s[i + 1] = w[i]
  BY <1>1, <1>2, <1>3
<1>6. Prepends(s, h, w, n)
  BY ONLY <1>3, <1>4, <1>5 DEF Prepends
<1> QED BY <1>2, <1>3, <1>6

\* A list without its first item.
Pops(nd, c, f, k, x, B, g, k1, n) ==
  /\ TodoLocal(nd, c, g, k1) /\ Then(f, k, x, B, g, k1, n) /\ n \in Nat /\ n > 0
  /\ x \in Items /\ CanPrecede(c, x, g)
  /\ IsChain(nd, B, ItemBottom(x), ItemTop(x)) /\ B \cap Counts(k1) = {}
  /\ (x[1] \in Taking => x[2] \notin Counts(k1) \cup B)

LEMMA Popped ==
  ASSUME NEW nd, NEW c, NEW f, NEW k, TodoLocal(nd, c, f, k), NEW x, x = Head(f.todo), x[1] # "return",
         NEW g, g = Do(f, Tail(f.todo))
  PROVE  \E k1, n : Pops(nd, c, f, k, x, k.chain[1], g, k1, n)
<1>1. /\ f \in FrameType /\ f.at = "todo" /\ c \in Calls /\ ListOK(c, f) /\ TodoChains(nd, f, k)
  BY DEF TodoLocal
<1>2. f.todo \in Seq(Items) /\ Len(f.todo) > 0
  BY <1>1 DEF FrameType, ListOK
<1> PICK n, w, B : n = Len(f.todo) - 1 /\ w = Tail(f.todo) /\ B = k.chain[1]
  OBVIOUS
<1>3. /\ w \in Seq(Items) /\ x \in Items /\ x = f.todo[1] /\ n \in Nat /\ Prepends(f.todo, x, w, n)
  BY <1>2, TailPrepends
<1>4. DOMAIN f.todo = 1 .. (n + 1) /\ DOMAIN w = 1 .. n /\ Len(f.todo) = n + 1
  <2>1. DOMAIN f.todo = 1 .. (n + 1) /\ DOMAIN w = 1 .. n
    BY <1>3 DEF Prepends
  <2>2. Len(f.todo) \in Nat
    BY <1>2, LenProperties
  <2> QED BY <2>1, <2>2
<1>5. n > 0
  <2>1. 1 \in DOMAIN f.todo
    BY <1>3, <1>4
  <2>2. f.todo[1][1] = "return" <=> 1 = Len(f.todo)
    BY <1>1, <2>1 DEF ListOK
  <2>3. n # 0
    BY <1>3, <1>4, <2>2
  <2> QED BY ONLY <1>3, <2>3
<1>6. /\ g \in FrameType /\ g.at = "todo" /\ g.todo = w
      /\ g.cur = f.cur /\ g.source = f.source /\ g.target_parent = f.target_parent
  <2>1. g = Do(f, w)
    OBVIOUS
  <2> QED BY ONLY <1>1, <1>3, <2>1, DoIs
<1> DEFINE ch == [i \in 1 .. n |-> k.chain[i + 1]]
<1> PICK k1 : k1 = [chain |-> ch, maps |-> Listed(g, "mapFinal")]
  OBVIOUS
<1>7. Prepends(k.chain, B, ch, n)
  <2>1. DOMAIN k.chain = 1 .. (n + 1)
    BY <1>1, <1>4 DEF TodoChains
  <2>2. DOMAIN ch = 1 .. n /\ \A i \in 1 .. n : k.chain[i + 1] = ch[i]
    OBVIOUS
  <2> HIDE DEF ch
  <2> QED BY <1>3, <2>1, <2>2 DEF Prepends
<1>8. k1.chain = ch /\ k1.maps = Listed(g, "mapFinal")
  OBVIOUS
<1> HIDE DEF ch
<1>9. Then(f, k, x, B, g, k1, n)
  BY <1>1, <1>3, <1>6, <1>7, <1>8 DEF Then
<1>10. ListOK(c, g) /\ CanPrecede(c, x, g)
  <2>1. g.todo \in Seq(Items) /\ f.todo \in Seq(Items)
    BY <1>2, <1>3, <1>6
  <2> QED BY ONLY <1>1, <1>5, <1>9, <2>1, ListThenTail
<1>11. /\ TodoChains(nd, g, k1) /\ IsChain(nd, B, ItemBottom(x), ItemTop(x))
       /\ B \cap Counts(k1) = {} /\ (x[1] \in Taking => x[2] \notin Counts(k1) \cup B)
  BY ONLY <1>1, <1>9, ChainsThenTail
<1>12. TodoLocal(nd, c, g, k1)
  BY ONLY <1>1, <1>6, <1>8, <1>10, <1>11 DEF TodoLocal
<1>13. Pops(nd, c, f, k, x, B, g, k1, n)
  BY ONLY <1>3, <1>5, <1>9, <1>10, <1>11, <1>12 DEF Pops
<1> QED BY <1>13

\* What an item is not twice.
LEMMA PrecedeListed ==
  ASSUME NEW c, NEW x, NEW g, CanPrecede(c, x, g)
  PROVE  /\ x[1] \in Final => x[2] \notin Listed(g, "readerFinal") \cup Listed(g, "writerFinal")
         /\ x[1] = "mapFinal" => x[2] \notin Listed(g, "mapFinal")
         /\ x[1] \notin {"writerFinal", "notify"} => Listed(g, "rename") = {} /\ Listed(g, "free") = {}
         /\ x[1] = "free" => Listed(g, "readerFinal") = {} /\ Listed(g, "writerFinal") = {}
                               /\ Listed(g, "mapFinal") = {}
<1>1. \A j \in DOMAIN g.todo :
       /\ x[1] \in Final /\ g.todo[j][1] \in Final => x[2] # g.todo[j][2]
       /\ x[1] = "mapFinal" /\ g.todo[j][1] = "mapFinal" => x[2] # g.todo[j][2]
       /\ g.todo[j][1] \in Taking => x[1] \in {"writerFinal", "notify"}
       /\ x[1] = "free" => g.todo[j][1] = "return"
  BY DEF CanPrecede
<1>2. ASSUME NEW kind, NEW m \in Listed(g, kind)
      PROVE  m \in NodeId /\ \E j \in DOMAIN g.todo : g.todo[j][1] = kind /\ g.todo[j][2] = m
  <2>1. PICK j \in DOMAIN g.todo : g.todo[j] = <<kind, m>>
    BY DEF Listed
  <2>2. g.todo[j][1] = kind /\ g.todo[j][2] = m
    BY <2>1
  <2> QED BY <2>2 DEF Listed
<1>3. x[1] \in Final => x[2] \notin Listed(g, "readerFinal") \cup Listed(g, "writerFinal")
  BY <1>1, <1>2 DEF Final
<1>4. x[1] = "mapFinal" => x[2] \notin Listed(g, "mapFinal")
  BY <1>1, <1>2
<1>5. x[1] \notin {"writerFinal", "notify"} => Listed(g, "rename") = {} /\ Listed(g, "free") = {}
  BY <1>1, <1>2 DEF Taking
<1>6. x[1] = "free" => Listed(g, "readerFinal") = {} /\ Listed(g, "writerFinal") = {} /\ Listed(g, "mapFinal") = {}
  BY <1>1, <1>2
<1> QED BY <1>3, <1>4, <1>5, <1>6

\* The summary of a thread with only its list left.
Ending(s) ==
  /\ s.pending = NULL /\ s.moveLock = {} /\ s.asReader = {} /\ s.asWriter = {} /\ s.inPrivate = {}
  /\ s.flags = {} /\ s.owns = {} /\ s.acquires = {} /\ s.unlinks = s.removes
  /\ s.vacates = s.moves \cup s.removes

\* It loses what its first item was for.
Loses(s, s1, x, B) ==
  /\ Ending(s) /\ Ending(s1) /\ s.place = s1.place /\ s.counts = s1.counts \cup B
  /\ s.reads = s1.reads \cup {m \in NodeId : x = <<"readerFinal", m>>}
  /\ s.writes = s1.writes \cup {m \in NodeId : x = <<"writerFinal", m>>}
  /\ s.maps = s1.maps \cup {m \in NodeId : x = <<"mapFinal", m>>}
  /\ s.moves = s1.moves \cup {m \in NodeId : x = <<"rename", m>>}
  /\ s.removes = s1.removes \cup {m \in NodeId : x = <<"free", m>>}
  /\ s.goesAway = s1.goesAway \cup {m \in NodeId : x[1] = "notify" /\ x[2] = m /\ m \in B}
  /\ s.passesOn = s1.passesOn \cup {m \in s1.goesAway : x \in {ReaderFinal(m), WriterFinal(m)}}
  /\ (x[1] \in Final => x[2] \notin s1.reads \cup s1.writes)

LEMMA EndingIs ==
  ASSUME NEW s, NEW R, NEW W, NEW M, NEW C, NEW N, NEW D, NEW G, NEW P, TodoSummary(s, R, W, M, C, N, D, G, P)
  PROVE  Ending(s) /\ s.reads = R /\ s.writes = W /\ s.maps = M /\ s.counts = C /\ s.moves = N /\ s.removes = D
BY DEF TodoSummary, Ending

LEMMA PopSummary ==
  ASSUME NEW nd, NEW c, NEW f, NEW k, NEW x, NEW B, NEW g, NEW k1, NEW n, Pops(nd, c, f, k, x, B, g, k1, n),
         TodoLocal(nd, c, f, k), NEW s, s = Summary(c, f, k), NEW s1, s1 = Summary(c, g, k1)
  PROVE  Loses(s, s1, x, B) /\ s.place = <<f.target_parent, TargetName(c.target)>>
<1>1. TodoLocal(nd, c, g, k1) /\ Then(f, k, x, B, g, k1, n) /\ CanPrecede(c, x, g)
  BY DEF Pops
<1>2. /\ TodoSummary(s, Listed(f, "readerFinal"), Listed(f, "writerFinal"),
              Listed(f, "mapFinal"), Counts(k), Listed(f, "rename"), Listed(f, "free"),
              GoesAway(f, k), PassesOn(f, k))
      /\ s.goesAway = GoesAway(f, k) /\ s.passesOn = PassesOn(f, k)
      /\ s.place = <<f.target_parent, TargetName(c.target)>>
  BY TodoSummaryIs
<1>3. /\ TodoSummary(s1, Listed(g, "readerFinal"), Listed(g, "writerFinal"),
              Listed(g, "mapFinal"), Counts(k1), Listed(g, "rename"), Listed(g, "free"),
              GoesAway(g, k1), PassesOn(g, k1))
      /\ s1.goesAway = GoesAway(g, k1) /\ s1.passesOn = PassesOn(g, k1)
      /\ s1.place = <<g.target_parent, TargetName(c.target)>>
  BY <1>1, TodoSummaryIs
<1>4. /\ Ending(s) /\ s.reads = Listed(f, "readerFinal") /\ s.writes = Listed(f, "writerFinal")
      /\ s.maps = Listed(f, "mapFinal") /\ s.counts = Counts(k)
      /\ s.moves = Listed(f, "rename") /\ s.removes = Listed(f, "free")
  BY ONLY <1>2, EndingIs
<1>5. /\ Ending(s1) /\ s1.reads = Listed(g, "readerFinal") /\ s1.writes = Listed(g, "writerFinal")
      /\ s1.maps = Listed(g, "mapFinal") /\ s1.counts = Counts(k1)
      /\ s1.moves = Listed(g, "rename") /\ s1.removes = Listed(g, "free")
  BY ONLY <1>3, EndingIs
<1>6. /\ Listed(f, "readerFinal") = Listed(g, "readerFinal") \cup {m \in NodeId : x = <<"readerFinal", m>>}
      /\ Listed(f, "writerFinal") = Listed(g, "writerFinal") \cup {m \in NodeId : x = <<"writerFinal", m>>}
      /\ Listed(f, "mapFinal") = Listed(g, "mapFinal") \cup {m \in NodeId : x = <<"mapFinal", m>>}
      /\ Listed(f, "rename") = Listed(g, "rename") \cup {m \in NodeId : x = <<"rename", m>>}
      /\ Listed(f, "free") = Listed(g, "free") \cup {m \in NodeId : x = <<"free", m>>}
  BY ONLY <1>1, ListedThen
<1>7. Counts(k) = Counts(k1) \cup B
  BY ONLY <1>1, CountsThen
<1>8. GoesAway(f, k) = GoesAway(g, k1) \cup {m \in NodeId : x[1] = "notify" /\ x[2] = m /\ m \in B}
  BY ONLY <1>1, GoesAwayThen
<1>9. PassesOn(f, k) = PassesOn(g, k1) \cup {m \in GoesAway(g, k1) : x \in {ReaderFinal(m), WriterFinal(m)}}
  BY ONLY <1>1, PassesOnThen
<1>10. x[1] \in Final => x[2] \notin Listed(g, "readerFinal") \cup Listed(g, "writerFinal")
  BY ONLY <1>1, PrecedeListed
<1>11. g.target_parent = f.target_parent
  BY <1>1 DEF Then
<1>12. s.place = s1.place
  BY ONLY <1>2, <1>3, <1>11
<1>13. s.goesAway = s1.goesAway \cup {m \in NodeId : x[1] = "notify" /\ x[2] = m /\ m \in B}
  BY ONLY <1>2, <1>3, <1>8
<1>14. s.passesOn = s1.passesOn \cup {m \in s1.goesAway : x \in {ReaderFinal(m), WriterFinal(m)}}
  BY ONLY <1>2, <1>3, <1>9
<1>15. x[1] \in Final => x[2] \notin s1.reads \cup s1.writes
  BY ONLY <1>5, <1>10
<1>16. Loses(s, s1, x, B)
  BY ONLY <1>4, <1>5, <1>6, <1>7, <1>12, <1>13, <1>14, <1>15 DEF Loses
<1> QED BY ONLY <1>2, <1>16

\* Whatever it loses, what remains of it is as much on its way out as before.
LEMMA LosesKeeps ==
  ASSUME NEW nd, NEW s, NEW s1, NEW x, NEW B, Loses(s, s1, x, B), B \cap s1.counts = {}
  PROVE  KeepsPrivacy(nd, s, s1)
<1> SUFFICES ASSUME NEW m \in NodeId
             PROVE  /\ OwnedIn(nd, s1, m) => OwnedIn(nd, s, m)
                    /\ m \in s1.counts /\ m \in s.goesAway => m \in s1.goesAway
                    /\ m \in s1.reads \cup s1.writes /\ m \in s.passesOn => m \in s1.passesOn
  BY DEF KeepsPrivacy
<1>1. ~OwnedIn(nd, s1, m)
  BY DEF Loses, Ending, OwnedIn
<1>2. m \in s1.counts /\ m \in s.goesAway => m \in s1.goesAway
  BY DEF Loses
<1>3. m \in s1.reads \cup s1.writes /\ m \in s.passesOn => m \in s1.passesOn
  <2> SUFFICES ASSUME m \in s1.reads \cup s1.writes, m \in s.passesOn, m \notin s1.passesOn PROVE FALSE
    OBVIOUS
  <2>1. x \in {ReaderFinal(m), WriterFinal(m)}
    BY DEF Loses
  <2>2. x[1] \in Final /\ x[2] = m
    BY <2>1 DEF ReaderFinal, WriterFinal, Final
  <2> QED BY <2>2 DEF Loses
<1> QED BY <1>1, <1>2, <1>3

\* An item that is no walk up has no chain.
LEMMA NoChain ==
  ASSUME NEW nd, NEW B, NEW x, IsChain(nd, B, ItemBottom(x), ItemTop(x)), x[1] # "notify" \/ x[2] = x[3]
  PROVE  B = {}
BY DEF IsChain, ItemBottom, ItemTop

\* Of the kinds of items.
LEMMA LosesReader ==
  ASSUME NEW s, NEW s1, NEW B, NEW n \in NodeId, NEW x, x = ReaderFinal(n), Loses(s, s1, x, B), B = {}
  PROVE  /\ s1.reads = s.reads \ {n} /\ n \in s.reads /\ s1.writes = s.writes /\ s1.counts = s.counts
         /\ s1.pending = s.pending /\ SameSleep(s, s1) /\ SameHeld(s, s1) /\ s1.unlinks = s.unlinks
<1>1. x[1] = "readerFinal" /\ x[2] = n
  BY DEF ReaderFinal
<1>2. /\ {m \in NodeId : x = <<"readerFinal", m>>} = {n} /\ {m \in NodeId : x = <<"writerFinal", m>>} = {}
      /\ {m \in NodeId : x = <<"mapFinal", m>>} = {} /\ {m \in NodeId : x = <<"rename", m>>} = {}
      /\ {m \in NodeId : x = <<"free", m>>} = {}
  BY <1>1 DEF ReaderFinal
<1>3. /\ s.reads = s1.reads \cup {n} /\ n \notin s1.reads /\ s.writes = s1.writes /\ s.maps = s1.maps
      /\ s.moves = s1.moves /\ s.removes = s1.removes /\ s.counts = s1.counts /\ s.place = s1.place
      /\ Ending(s) /\ Ending(s1)
  BY <1>1, <1>2 DEF Loses, Final
<1> QED BY ONLY <1>3 DEF Ending, SameSleep, SameHeld, SameTaking

LEMMA LosesWriter ==
  ASSUME NEW s, NEW s1, NEW B, NEW n \in NodeId, NEW x, x = WriterFinal(n), Loses(s, s1, x, B), B = {}
  PROVE  /\ s1.writes = s.writes \ {n} /\ n \in s.writes /\ s1.reads = s.reads /\ s1.counts = s.counts
         /\ s1.pending = s.pending /\ SameSleep(s, s1) /\ SameHeld(s, s1) /\ s1.unlinks = s.unlinks
<1>1. x[1] = "writerFinal" /\ x[2] = n
  BY DEF WriterFinal
<1>2. /\ {m \in NodeId : x = <<"readerFinal", m>>} = {} /\ {m \in NodeId : x = <<"writerFinal", m>>} = {n}
      /\ {m \in NodeId : x = <<"mapFinal", m>>} = {} /\ {m \in NodeId : x = <<"rename", m>>} = {}
      /\ {m \in NodeId : x = <<"free", m>>} = {}
  BY <1>1 DEF WriterFinal
<1>3. /\ s.writes = s1.writes \cup {n} /\ n \notin s1.writes /\ s.reads = s1.reads /\ s.maps = s1.maps
      /\ s.moves = s1.moves /\ s.removes = s1.removes /\ s.counts = s1.counts /\ s.place = s1.place
      /\ Ending(s) /\ Ending(s1)
  BY <1>1, <1>2 DEF Loses, Final
<1> QED BY ONLY <1>3 DEF Ending, SameSleep, SameHeld, SameTaking

-----------------------------------------------------------------------------
(* LeaveReader and LeaveWriter.                                            *)

\* A thread with its first item done.
Popping(nd, S, S1, dp, t, x, B, c, g, k1) ==
  /\ Good(nd, S, dp) /\ Others(S, S1, t) /\ (\A u \in Thread : One(S[u]))
  /\ S1[t] = Summary(c, g, k1) /\ Loses(S[t], S1[t], x, B) /\ KeepsPrivacy(nd, S[t], S1[t])
  /\ S1[t].counts = Counts(k1) /\ Local(nd, c, g, k1) /\ x \in Items /\ CanPrecede(c, x, g)
  /\ IsChain(nd, B, ItemBottom(x), ItemTop(x)) /\ B \cap Counts(k1) = {}
  /\ (x[1] \in Taking => x[2] \notin Counts(k1) \cup B)

LEMMA PopStart ==
  ASSUME NEW nd, NEW cl, NEW fr, NEW an, NEW K, NEW dp, Inv(nd, cl, fr, an, K, dp),
         NEW t \in Thread, NEW f, f = fr[t], f.at = "todo", NEW x, x = Head(f.todo), x[1] # "return",
         NEW g, g = Do(f, Tail(f.todo))
  PROVE  \E k1, B, S, S1 : /\ S = Summaries(cl, fr, K) /\ S1 = With(S, t, Summary(cl[t], g, k1))
                           /\ Popping(nd, S, S1, dp, t, x, B, cl[t], g, k1)
<1> PICK S, c, k : S = Summaries(cl, fr, K) /\ c = cl[t] /\ k = K[t]
  OBVIOUS
<1>1. Good(nd, S, dp) /\ S[t] = Summary(c, f, k) /\ Local(nd, c, f, k) /\ \A u \in Thread : One(S[u])
  BY InvGood
<1>2. TodoLocal(nd, c, f, k)
  BY <1>1, TodoLocalIs
<1>3. \E k1, n : Pops(nd, c, f, k, x, k.chain[1], g, k1, n)
  BY <1>2, Popped
<1>4. PICK k1, n : Pops(nd, c, f, k, x, k.chain[1], g, k1, n)
  BY ONLY <1>3
<1> PICK B : B = k.chain[1]
  OBVIOUS
<1> PICK s, s1, S1 : s = S[t] /\ s1 = Summary(c, g, k1) /\ S1 = With(S, t, s1)
  OBVIOUS
<1>5. Others(S, S1, t) /\ S1[t] = s1 /\ S[t] = s
  BY WithIs
<1>6. Pops(nd, c, f, k, x, B, g, k1, n) /\ s = Summary(c, f, k) /\ s1 = Summary(c, g, k1)
  BY <1>1, <1>4
<1>7. /\ TodoLocal(nd, c, g, k1) /\ x \in Items /\ CanPrecede(c, x, g)
      /\ IsChain(nd, B, ItemBottom(x), ItemTop(x)) /\ B \cap Counts(k1) = {}
      /\ (x[1] \in Taking => x[2] \notin Counts(k1) \cup B) /\ g.at = "todo"
  BY <1>6 DEF Pops, TodoLocal
<1>8. Loses(s, s1, x, B)
  BY ONLY <1>2, <1>6, PopSummary
<1>9. s1.counts = Counts(k1)
  BY <1>6, SummaryIs
<1>10. KeepsPrivacy(nd, s, s1)
  BY ONLY <1>7, <1>8, <1>9, LosesKeeps
<1>11. Local(nd, c, g, k1)
  BY ONLY <1>7, TodoLocalIs
<1>12. Popping(nd, S, S1, dp, t, x, B, c, g, k1)
  BY ONLY <1>1, <1>5, <1>6, <1>7, <1>8, <1>9, <1>10, <1>11 DEF Popping
<1>13. S1 = With(S, t, Summary(c, g, k1))
  BY <1>6
<1> QED BY <1>12, <1>13

\* reader_final_protocol and writer_final_protocol.
LEMMA LeaveReaderStep ==
  ASSUME NEW nd, NEW cl, NEW fr, NEW an, NEW K, NEW dp, Inv(nd, cl, fr, an, K, dp),
         NEW t \in Thread, NEW f, f = fr[t], f.at = "todo", NEW x, x = Head(f.todo), x[1] = "readerFinal",
         NEW g, g = Do(f, Tail(f.todo)), NEW n, n = x[2], NEW m2 \in ReaderLeave(nd[n]),
         NEW nd2, nd2 = [nd EXCEPT ![n] = m2]
  PROVE  \E K2, e : Inv(nd2, cl, [fr EXCEPT ![t] = g], an, K2, e)
<1>1. \E k1, B, S, S1 : /\ S = Summaries(cl, fr, K) /\ S1 = With(S, t, Summary(cl[t], g, k1))
                        /\ Popping(nd, S, S1, dp, t, x, B, cl[t], g, k1)
  BY PopStart
<1>2. PICK k1, B, S, S1 : /\ S = Summaries(cl, fr, K) /\ S1 = With(S, t, Summary(cl[t], g, k1))
                          /\ Popping(nd, S, S1, dp, t, x, B, cl[t], g, k1)
  BY ONLY <1>1
<1> PICK s, s1 : s = S[t] /\ s1 = S1[t]
  OBVIOUS
<1>3. /\ Good(nd, S, dp) /\ Others(S, S1, t) /\ Loses(s, s1, x, B) /\ KeepsPrivacy(nd, s, s1)
      /\ Local(nd, cl[t], g, k1) /\ x \in Items /\ IsChain(nd, B, ItemBottom(x), ItemTop(x))
  BY <1>2 DEF Popping
<1>4. x = ReaderFinal(n) /\ n \in NodeId
  BY <1>3, ItemIs DEF ReaderFinal
<1>5. B = {}
  BY <1>3, NoChain
<1>6. /\ s1.reads = s.reads \ {n} /\ n \in s.reads /\ s1.writes = s.writes /\ s1.counts = s.counts
      /\ s1.pending = s.pending /\ SameSleep(s, s1) /\ SameHeld(s, s1) /\ s1.unlinks = s.unlinks
  BY ONLY <1>3, <1>4, <1>5, LosesReader
<1>7. At(nd, nd2, S, S1, t, n, m2, dp)
  BY <1>3, <1>6 DEF At
<1>8. /\ t \in Thread /\ n \in NodeId /\ m2 \in ReaderLeave(nd[n])
      /\ S1[t].reads = S[t].reads \ {n} /\ n \in S[t].reads /\ S1[t].writes = S[t].writes
      /\ S1[t].counts = S[t].counts /\ S1[t].pending = S[t].pending
      /\ SameSleep(S[t], S1[t]) /\ KeepsPrivacy(nd, S[t], S1[t])
  BY <1>3, <1>4, <1>6
<1>9. Global(nd2, S1, dp) /\ nd2 \in [NodeId -> NodeType] /\ SameTree(nd, nd2)
  BY ONLY <1>7, <1>8, GLeaveReader
<1>10. /\ Inv(nd, cl, fr, an, K, dp) /\ t \in Thread /\ fr[t].at # "idle"
       /\ Local(nd, cl[t], g, k1) /\ Global(nd2, With(Summaries(cl, fr, K), t, Summary(cl[t], g, k1)), dp)
  BY <1>2, <1>3, <1>9
<1> QED BY ONLY <1>9, <1>10, Settle

LEMMA LeaveWriterStep ==
  ASSUME NEW nd, NEW cl, NEW fr, NEW an, NEW K, NEW dp, Inv(nd, cl, fr, an, K, dp),
         NEW t \in Thread, NEW f, f = fr[t], f.at = "todo", NEW x, x = Head(f.todo), x[1] = "writerFinal",
         NEW g, g = Do(f, Tail(f.todo)), NEW n, n = x[2], NEW m2 \in WriterLeave(nd[n]),
         NEW nd2, nd2 = [nd EXCEPT ![n] = m2]
  PROVE  \E K2, e : Inv(nd2, cl, [fr EXCEPT ![t] = g], an, K2, e)
<1>1. \E k1, B, S, S1 : /\ S = Summaries(cl, fr, K) /\ S1 = With(S, t, Summary(cl[t], g, k1))
                        /\ Popping(nd, S, S1, dp, t, x, B, cl[t], g, k1)
  BY PopStart
<1>2. PICK k1, B, S, S1 : /\ S = Summaries(cl, fr, K) /\ S1 = With(S, t, Summary(cl[t], g, k1))
                          /\ Popping(nd, S, S1, dp, t, x, B, cl[t], g, k1)
  BY ONLY <1>1
<1> PICK s, s1 : s = S[t] /\ s1 = S1[t]
  OBVIOUS
<1>3. /\ Good(nd, S, dp) /\ Others(S, S1, t) /\ Loses(s, s1, x, B) /\ KeepsPrivacy(nd, s, s1)
      /\ Local(nd, cl[t], g, k1) /\ x \in Items /\ IsChain(nd, B, ItemBottom(x), ItemTop(x))
  BY <1>2 DEF Popping
<1>4. x = WriterFinal(n) /\ n \in NodeId
  BY <1>3, ItemIs DEF WriterFinal
<1>5. B = {}
  BY <1>3, NoChain
<1>6. /\ s1.writes = s.writes \ {n} /\ n \in s.writes /\ s1.reads = s.reads /\ s1.counts = s.counts
      /\ s1.pending = s.pending /\ SameSleep(s, s1) /\ SameHeld(s, s1) /\ s1.unlinks = s.unlinks
  BY ONLY <1>3, <1>4, <1>5, LosesWriter
<1>7. At(nd, nd2, S, S1, t, n, m2, dp)
  BY <1>3, <1>6 DEF At
<1>8. /\ t \in Thread /\ n \in NodeId /\ m2 \in WriterLeave(nd[n])
      /\ S1[t].writes = S[t].writes \ {n} /\ n \in S[t].writes /\ S1[t].reads = S[t].reads
      /\ S1[t].counts = S[t].counts /\ S1[t].pending = S[t].pending
      /\ SameSleep(S[t], S1[t]) /\ KeepsPrivacy(nd, S[t], S1[t])
  BY <1>3, <1>4, <1>6
<1>9. Global(nd2, S1, dp) /\ nd2 \in [NodeId -> NodeType] /\ SameTree(nd, nd2)
  BY ONLY <1>7, <1>8, GLeaveWriter
<1>10. /\ Inv(nd, cl, fr, an, K, dp) /\ t \in Thread /\ fr[t].at # "idle"
       /\ Local(nd, cl[t], g, k1) /\ Global(nd2, With(Summaries(cl, fr, K), t, Summary(cl[t], g, k1)), dp)
  BY <1>2, <1>3, <1>9
<1> QED BY ONLY <1>9, <1>10, Settle

-----------------------------------------------------------------------------
(* LeaveMap and NotifyEnd.                                                 *)

LEMMA PopListed ==
  ASSUME NEW nd, NEW S, NEW S1, NEW dp, NEW t, NEW x, NEW B, NEW c, NEW g, NEW k1, g.at = "todo",
         Popping(nd, S, S1, dp, t, x, B, c, g, k1)
  PROVE  /\ S1[t].reads = Listed(g, "readerFinal") /\ S1[t].writes = Listed(g, "writerFinal")
         /\ S1[t].maps = Listed(g, "mapFinal") /\ S1[t].moves = Listed(g, "rename")
         /\ S1[t].removes = Listed(g, "free")
<1> PICK s1 : s1 = S1[t]
  OBVIOUS
<1>1. s1 = Summary(c, g, k1) /\ TodoLocal(nd, c, g, k1)
  BY TodoLocalIs DEF Popping
<1>2. TodoSummary(s1, Listed(g, "readerFinal"), Listed(g, "writerFinal"),
              Listed(g, "mapFinal"), Counts(k1), Listed(g, "rename"), Listed(g, "free"),
              GoesAway(g, k1), PassesOn(g, k1))
  BY <1>1, TodoSummaryIs
<1> QED BY <1>2, EndingIs

LEMMA LosesMap ==
  ASSUME NEW nd, NEW s, NEW s1, NEW B, NEW n \in NodeId, NEW x, x = MapFinal(n), Loses(s, s1, x, B), B = {},
         n \notin s1.maps, s1.moves = {}, s1.removes = {}, KeepsPrivacy(nd, s, s1)
  PROVE  /\ s1.maps = s.maps \ {n} /\ n \in s.maps /\ s1.moveLock = s.moveLock /\ s.moves = {}
         /\ SameBut(nd, s, s1)
<1>1. x[1] = "mapFinal" /\ x[2] = n
  BY DEF MapFinal
<1>2. /\ {m \in NodeId : x = <<"readerFinal", m>>} = {} /\ {m \in NodeId : x = <<"writerFinal", m>>} = {}
      /\ {m \in NodeId : x = <<"mapFinal", m>>} = {n} /\ {m \in NodeId : x = <<"rename", m>>} = {}
      /\ {m \in NodeId : x = <<"free", m>>} = {}
  BY <1>1 DEF MapFinal
<1>3. /\ s.maps = s1.maps \cup {n} /\ s.reads = s1.reads /\ s.writes = s1.writes
      /\ s.moves = s1.moves /\ s.removes = s1.removes /\ s.counts = s1.counts /\ s.place = s1.place
      /\ Ending(s) /\ Ending(s1)
  BY <1>1, <1>2 DEF Loses
<1>4. /\ s1.maps = s.maps \ {n} /\ n \in s.maps /\ s1.moveLock = s.moveLock /\ s.moves = {}
      /\ SameUse(s, s1) /\ SameSleep(s, s1) /\ s1.pending = s.pending
      /\ s1.flags = s.flags /\ s1.vacates = s.vacates /\ SameTaking(s, s1) /\ s1.unlinks = s.unlinks
  BY ONLY <1>3, s1.moves = {}, n \notin s1.maps DEF Ending, SameSleep, SameUse, SameTaking
<1> QED BY ONLY <1>4, KeepsPrivacy(nd, s, s1) DEF SameBut

LEMMA DoneAt ==
  ASSUME NEW f, NEW g, g = Do(f, Tail(f.todo))
  PROVE  g.at = "todo" \/ ~(f \in FrameType)
<1>1. f \in FrameType => g.at = "todo"
  BY DEF Do, FrameType
<1> QED BY <1>1

\* children_rw_final_protocol of tree_move.
LEMMA LeaveMapStep ==
  ASSUME NEW nd, NEW cl, NEW fr, NEW an, NEW K, NEW dp, Inv(nd, cl, fr, an, K, dp),
         NEW t \in Thread, NEW f, f = fr[t], f.at = "todo", NEW x, x = Head(f.todo), x[1] = "mapFinal",
         NEW g, g = Do(f, Tail(f.todo)), NEW n, n = x[2], NEW nd2, nd2 = WithMapWriter(nd, n, NULL)
  PROVE  \E K2, e : Inv(nd2, cl, [fr EXCEPT ![t] = g], an, K2, e)
<1>1. \E k1, B, S, S1 : /\ S = Summaries(cl, fr, K) /\ S1 = With(S, t, Summary(cl[t], g, k1))
                        /\ Popping(nd, S, S1, dp, t, x, B, cl[t], g, k1)
  BY PopStart
<1>2. PICK k1, B, S, S1 : /\ S = Summaries(cl, fr, K) /\ S1 = With(S, t, Summary(cl[t], g, k1))
                          /\ Popping(nd, S, S1, dp, t, x, B, cl[t], g, k1)
  BY ONLY <1>1
<1> PICK s, s1 : s = S[t] /\ s1 = S1[t]
  OBVIOUS
<1>3. /\ Good(nd, S, dp) /\ Others(S, S1, t) /\ Loses(s, s1, x, B) /\ KeepsPrivacy(nd, s, s1)
      /\ Local(nd, cl[t], g, k1) /\ x \in Items /\ IsChain(nd, B, ItemBottom(x), ItemTop(x))
      /\ CanPrecede(cl[t], x, g)
  BY <1>2 DEF Popping
<1>4. x = MapFinal(n) /\ n \in NodeId
  BY <1>3, ItemIs DEF MapFinal
<1>5. B = {}
  BY <1>3, NoChain
<1>6. n \notin s1.maps /\ s1.moves = {} /\ s1.removes = {}
  <2>1. g.at = "todo"
    BY DoneAt DEF Inv
  <2>2. s1.maps = Listed(g, "mapFinal") /\ s1.moves = Listed(g, "rename") /\ s1.removes = Listed(g, "free")
    BY <1>2, <2>1, PopListed
  <2>3. n \notin Listed(g, "mapFinal") /\ Listed(g, "rename") = {} /\ Listed(g, "free") = {}
    BY <1>3, PrecedeListed
  <2> QED BY <2>2, <2>3
<1>7. /\ s1.maps = s.maps \ {n} /\ n \in s.maps /\ s1.moveLock = s.moveLock /\ s.moves = {}
      /\ SameBut(nd, s, s1)
  BY ONLY <1>3, <1>4, <1>5, <1>6, LosesMap
<1>8. /\ Good(nd, S, dp) /\ Others(S, S1, t) /\ t \in Thread /\ n \in NodeId /\ SameBut(nd, S[t], S1[t])
      /\ S1[t].moveLock = S[t].moveLock /\ n \in S[t].maps /\ S1[t].maps = S[t].maps \ {n}
      /\ S[t].moves = {} /\ nd2 = WithMapWriter(nd, n, NULL)
  BY <1>3, <1>4, <1>7
<1>9. Global(nd2, S1, dp) /\ nd2 \in [NodeId -> NodeType] /\ SameTree(nd, nd2)
  BY ONLY <1>8, GMapRelease
<1>10. /\ Inv(nd, cl, fr, an, K, dp) /\ t \in Thread /\ fr[t].at # "idle"
       /\ Local(nd, cl[t], g, k1) /\ Global(nd2, With(Summaries(cl, fr, K), t, Summary(cl[t], g, k1)), dp)
  BY <1>2, <1>3, <1>9
<1> QED BY ONLY <1>9, <1>10, Settle

LEMMA LosesNone ==
  ASSUME NEW nd, NEW s, NEW s1, NEW x, x[1] = "notify", NEW B, Loses(s, s1, x, B), B = {}, KeepsPrivacy(nd, s, s1)
  PROVE  Quiet(nd, s, s1)
<1>1. /\ {m \in NodeId : x = <<"readerFinal", m>>} = {} /\ {m \in NodeId : x = <<"writerFinal", m>>} = {}
      /\ {m \in NodeId : x = <<"mapFinal", m>>} = {} /\ {m \in NodeId : x = <<"rename", m>>} = {}
      /\ {m \in NodeId : x = <<"free", m>>} = {}
  OBVIOUS
<1>2. /\ s.maps = s1.maps /\ s.reads = s1.reads /\ s.writes = s1.writes
      /\ s.moves = s1.moves /\ s.removes = s1.removes /\ s.counts = s1.counts /\ s.place = s1.place
      /\ Ending(s) /\ Ending(s1)
  BY <1>1 DEF Loses
<1>3. /\ SameUse(s, s1) /\ SameSleep(s, s1) /\ SameHeld(s, s1) /\ s1.pending = s.pending /\ s1.unlinks = s.unlinks
  BY ONLY <1>2 DEF Ending, SameSleep, SameUse, SameTaking, SameHeld
<1> QED BY ONLY <1>3, KeepsPrivacy(nd, s, s1) DEF Quiet

\* The end of notify_parent_nodes.
LEMMA NotifyEndStep ==
  ASSUME NEW nd, NEW cl, NEW fr, NEW an, NEW K, NEW dp, Inv(nd, cl, fr, an, K, dp),
         NEW t \in Thread, NEW f, f = fr[t], f.at = "todo", NEW x, x = Head(f.todo), x[1] = "notify", x[2] = x[3],
         NEW g, g = Do(f, Tail(f.todo))
  PROVE  \E K2, e : Inv(nd, cl, [fr EXCEPT ![t] = g], an, K2, e)
<1>1. \E k1, B, S, S1 : /\ S = Summaries(cl, fr, K) /\ S1 = With(S, t, Summary(cl[t], g, k1))
                        /\ Popping(nd, S, S1, dp, t, x, B, cl[t], g, k1)
  BY PopStart
<1>2. PICK k1, B, S, S1 : /\ S = Summaries(cl, fr, K) /\ S1 = With(S, t, Summary(cl[t], g, k1))
                          /\ Popping(nd, S, S1, dp, t, x, B, cl[t], g, k1)
  BY ONLY <1>1
<1> PICK s, s1 : s = S[t] /\ s1 = S1[t]
  OBVIOUS
<1>3. /\ Good(nd, S, dp) /\ Others(S, S1, t) /\ Loses(s, s1, x, B) /\ KeepsPrivacy(nd, s, s1)
      /\ Local(nd, cl[t], g, k1) /\ IsChain(nd, B, ItemBottom(x), ItemTop(x))
  BY <1>2 DEF Popping
<1>4. B = {}
  BY <1>3, NoChain
<1>5. Quiet(nd, S[t], S1[t])
  BY <1>3, <1>4, LosesNone
<1>6. Global(nd, S1, dp)
  BY <1>3, <1>5, GQuiet
<1>7. nd \in [NodeId -> NodeType] /\ SameTree(nd, nd)
  BY DEF Inv, SameTree
<1>8. /\ Inv(nd, cl, fr, an, K, dp) /\ t \in Thread /\ fr[t].at # "idle"
      /\ Local(nd, cl[t], g, k1) /\ Global(nd, With(Summaries(cl, fr, K), t, Summary(cl[t], g, k1)), dp)
  BY <1>2, <1>3, <1>6
<1> QED BY ONLY <1>7, <1>8, Settle

-----------------------------------------------------------------------------
(* NotifyParent.                                                           *)

LEMMA LosesFirst ==
  ASSUME NEW nd, NEW s, NEW s1, NEW s2, NEW B, NEW n \in B, NEW p, NEW b, NEW x, NEW y, x = Notify(n, b), y = Notify(p, b),
         Loses(s, s1, x, B), Loses(s2, s1, y, B \ {n}), B \cap s1.counts = {}
  PROVE  /\ s2.counts = s.counts \ {n} /\ n \in s.counts /\ s2.reads = s.reads /\ s2.writes = s.writes
         /\ s.pending = NULL /\ s2.pending = s.pending /\ SameSleep(s, s2) /\ SameHeld(s, s2)
         /\ s2.unlinks = s.unlinks /\ KeepsPrivacy(nd, s, s2)
<1>1. x[1] = "notify" /\ y[1] = "notify" /\ x[2] = n
  BY DEF Notify
<1>2. \A z : z[1] = "notify" =>
      /\ {m \in NodeId : z = <<"readerFinal", m>>} = {} /\ {m \in NodeId : z = <<"writerFinal", m>>} = {}
      /\ {m \in NodeId : z = <<"mapFinal", m>>} = {} /\ {m \in NodeId : z = <<"rename", m>>} = {}
      /\ {m \in NodeId : z = <<"free", m>>} = {}
  OBVIOUS
<1>3. \A z, m : z[1] = "notify" => z \notin {ReaderFinal(m), WriterFinal(m)}
  BY DEF ReaderFinal, WriterFinal
<1>4. /\ s.maps = s1.maps /\ s.reads = s1.reads /\ s.writes = s1.writes /\ s.moves = s1.moves
      /\ s.removes = s1.removes /\ s.counts = s1.counts \cup B /\ s.place = s1.place /\ Ending(s)
      /\ s.goesAway = s1.goesAway \cup {m \in NodeId : x[1] = "notify" /\ x[2] = m /\ m \in B}
      /\ s.passesOn = s1.passesOn \cup {m \in s1.goesAway : x \in {ReaderFinal(m), WriterFinal(m)}}
  <2>1. /\ {m \in NodeId : x = <<"readerFinal", m>>} = {} /\ {m \in NodeId : x = <<"writerFinal", m>>} = {}
        /\ {m \in NodeId : x = <<"mapFinal", m>>} = {} /\ {m \in NodeId : x = <<"rename", m>>} = {}
        /\ {m \in NodeId : x = <<"free", m>>} = {}
    BY <1>1, <1>2
  <2> QED BY ONLY <2>1, Loses(s, s1, x, B) DEF Loses
<1>5. /\ s2.maps = s1.maps /\ s2.reads = s1.reads /\ s2.writes = s1.writes /\ s2.moves = s1.moves
      /\ s2.removes = s1.removes /\ s2.counts = s1.counts \cup (B \ {n}) /\ s2.place = s1.place /\ Ending(s2)
      /\ s1.goesAway \subseteq s2.goesAway /\ s1.passesOn \subseteq s2.passesOn
  <2>1. /\ {m \in NodeId : y = <<"readerFinal", m>>} = {} /\ {m \in NodeId : y = <<"writerFinal", m>>} = {}
        /\ {m \in NodeId : y = <<"mapFinal", m>>} = {} /\ {m \in NodeId : y = <<"rename", m>>} = {}
        /\ {m \in NodeId : y = <<"free", m>>} = {}
    BY <1>1, <1>2
  <2>2. s2.maps = s1.maps /\ s2.reads = s1.reads /\ s2.writes = s1.writes /\ s2.moves = s1.moves
        /\ s2.removes = s1.removes /\ s2.counts = s1.counts \cup (B \ {n}) /\ s2.place = s1.place /\ Ending(s2)
    BY ONLY <2>1, Loses(s2, s1, y, B \ {n}) DEF Loses
  <2>3. s1.goesAway \subseteq s2.goesAway /\ s1.passesOn \subseteq s2.passesOn
    BY DEF Loses
  <2> QED BY <2>2, <2>3
<1>6. s2.counts = s.counts \ {n} /\ n \in s.counts /\ n \notin s2.counts
  BY <1>4, <1>5
<1>7. /\ s.pending = NULL /\ s2.pending = s.pending /\ SameSleep(s, s2) /\ SameHeld(s, s2) /\ s2.unlinks = s.unlinks
  BY ONLY <1>4, <1>5 DEF Ending, SameSleep, SameHeld, SameTaking
<1>8. KeepsPrivacy(nd, s, s2)
  <2> SUFFICES ASSUME NEW m \in NodeId
               PROVE  /\ OwnedIn(nd, s2, m) => OwnedIn(nd, s, m)
                      /\ m \in s2.counts /\ m \in s.goesAway => m \in s2.goesAway
                      /\ m \in s2.reads \cup s2.writes /\ m \in s.passesOn => m \in s2.passesOn
    BY DEF KeepsPrivacy
  <2>1. ~OwnedIn(nd, s2, m)
    BY <1>5 DEF Ending, OwnedIn
  <2>2. m \in s2.counts /\ m \in s.goesAway => m \in s2.goesAway
    BY <1>1, <1>4, <1>5, <1>6
  <2>3. m \in s.passesOn => m \in s2.passesOn
    BY <1>1, <1>3, <1>4, <1>5
  <2> QED BY <2>1, <2>2, <2>3
<1> QED BY <1>4, <1>5, <1>6, <1>7, <1>8

\* The list with the walk up one folder shorter.
LEMMA Shorter ==
  ASSUME NEW nd, NEW c, NEW f \in FrameType, NEW w \in Seq(Items), NEW g, g = Do(f, w), NEW k1, Local(nd, c, g, k1),
         NEW x, CanPrecede(c, x, g), x[1] = "notify", NEW y \in Items, y[1] = "notify", NEW B,
         IsChain(nd, B, ItemBottom(y), ItemTop(y)), B \cap Counts(k1) = {},
         NEW h, h = Do(f, <<y>> \o w), NEW s1, s1 = Summary(c, g, k1)
  PROVE  \E k2 : Local(nd, c, h, k2) /\ Loses(Summary(c, h, k2), s1, y, B)
<1> PICK v, l : v = <<y>> \o w /\ l = Len(w)
  OBVIOUS
<1>1. Before(v, y, w)
  BY BeforeOne
<1>2. v \in Seq(Items) /\ Prepends(v, y, w, l)
  BY <1>1 DEF Before
<1>3. g.at = "todo" /\ g.todo = w /\ h = Do(f, v) /\ h.at = "todo"
  <2>1. h = Do(f, v)
    OBVIOUS
  <2>2. f \in FrameType /\ w \in Seq(Items) /\ v \in Seq(Items) /\ g = Do(f, w)
    BY <1>2
  <2> QED BY ONLY <2>1, <2>2, DoIs
<1>4. TodoLocal(nd, c, g, k1)
  BY <1>3, TodoLocalIs
<1>5. l \in Nat /\ l > 0
  <2>1. Len(w) > 0
    BY <1>3, <1>4 DEF TodoLocal, ListOK
  <2>2. Len(w) \in Nat
    BY LenProperties
  <2> QED BY <2>1, <2>2
<1>6. CanPrecede(c, y, g)
  BY DEF CanPrecede, Final
<1>7. y[1] \notin Taking
  BY DEF Taking
<1>8. TodoLocal(nd, c, Do(f, w), k1) /\ CanPrecede(c, y, Do(f, w))
  BY <1>4, <1>6
<1>9. \E k2 : TodoLocal(nd, c, Do(f, v), k2) /\ Then(Do(f, v), k2, y, B, Do(f, w), k1, l)
  <2>1. f \in FrameType /\ w \in Seq(Items) /\ IsChain(nd, B, ItemBottom(y), ItemTop(y)) /\ B \cap Counts(k1) = {}
    OBVIOUS
  <2> QED BY ONLY <1>2, <1>7, <1>8, <2>1, Prepended
<1>10. PICK k2 : TodoLocal(nd, c, Do(f, v), k2) /\ Then(Do(f, v), k2, y, B, Do(f, w), k1, l)
  BY ONLY <1>9
<1>11. TodoLocal(nd, c, h, k2) /\ Then(h, k2, y, B, g, k1, l)
  BY <1>3, <1>10
<1>12. Pops(nd, c, h, k2, y, B, g, k1, l)
  BY <1>4, <1>5, <1>6, <1>7, <1>11 DEF Pops
<1> PICK s2 : s2 = Summary(c, h, k2)
  OBVIOUS
<1>13. s2 = Summary(c, h, k2) /\ s1 = Summary(c, g, k1)
  OBVIOUS
<1>14. Loses(s2, s1, y, B)
  BY ONLY <1>11, <1>12, <1>13, PopSummary
<1>15. Local(nd, c, h, k2)
  BY <1>3, <1>11, TodoLocalIs
<1> QED BY <1>14, <1>15

LEMMA TailItems ==
  ASSUME NEW nd, NEW c, NEW f, NEW k, Local(nd, c, f, k), f.at = "todo"
  PROVE  /\ f \in FrameType /\ f.todo \in Seq(Items) /\ Len(f.todo) > 0
         /\ Tail(f.todo) \in Seq(Items) /\ Head(f.todo) \in Items
<1>1. f \in FrameType /\ ListOK(c, f)
  BY TodoLocalIs DEF TodoLocal
<1>2. f.todo \in Seq(Items) /\ Len(f.todo) > 0
  BY <1>1 DEF FrameType, ListOK
<1> QED BY <1>1, <1>2, TailPrepends

\* One round of notify_parent_nodes.
LEMMA NotifyStep ==
  ASSUME NEW nd, NEW cl, NEW fr, NEW an, NEW K, NEW dp, Inv(nd, cl, fr, an, K, dp),
         NEW t \in Thread, NEW f, f = fr[t], f.at = "todo", NEW x, x = Head(f.todo), x[1] = "notify", x[2] # x[3],
         NEW n, n = x[2], NEW h, h = Do(f, <<Notify(nd[n].parent, x[3])>> \o Tail(f.todo)),
         NEW m2 \in Notified(nd[n]), NEW nd2, nd2 = [nd EXCEPT ![n] = m2]
  PROVE  \E K2, e : Inv(nd2, cl, [fr EXCEPT ![t] = h], an, K2, e)
<1> PICK g, c, w : g = Do(f, Tail(f.todo)) /\ c = cl[t] /\ w = Tail(f.todo)
  OBVIOUS
<1>1. \E k1, B, S, S1 : /\ S = Summaries(cl, fr, K) /\ S1 = With(S, t, Summary(cl[t], g, k1))
                        /\ Popping(nd, S, S1, dp, t, x, B, cl[t], g, k1)
  BY PopStart
<1>2. PICK k1, B, S, S1 : /\ S = Summaries(cl, fr, K) /\ S1 = With(S, t, Summary(cl[t], g, k1))
                          /\ Popping(nd, S, S1, dp, t, x, B, cl[t], g, k1)
  BY ONLY <1>1
<1> PICK s, s1 : s = S[t] /\ s1 = S1[t]
  OBVIOUS
<1>3. /\ Good(nd, S, dp) /\ Loses(s, s1, x, B) /\ s1 = Summary(c, g, k1) /\ s1.counts = Counts(k1)
      /\ Local(nd, c, g, k1) /\ x \in Items /\ IsChain(nd, B, ItemBottom(x), ItemTop(x))
      /\ CanPrecede(c, x, g) /\ B \cap Counts(k1) = {} /\ g = Do(f, w)
  BY <1>2 DEF Popping
<1>4. Local(nd, c, f, K[t])
  BY DEF Inv
<1>5. f \in FrameType /\ w \in Seq(Items)
  BY <1>4, TailItems
<1> PICK b, p, D, y : b = x[3] /\ p = nd[n].parent /\ D = B \ {n} /\ y = Notify(p, b)
  OBVIOUS
<1>6. x = Notify(n, b) /\ n \in NodeId \cup {NULL} /\ b \in NodeId \cup {NULL} /\ n # b
      /\ IsChain(nd, B, n, b)
  BY <1>3, ItemIs DEF Notify, ItemBottom, ItemTop
<1>7. n \in B /\ B \subseteq NodeId
  BY <1>6 DEF IsChain
<1>8. IsChain(nd, D, p, b)
  <2>1. B \subseteq S[t].counts
    BY <1>3 DEF Loses
  <2>2. Deeper(nd, B, dp)
    BY <1>3, <2>1, CountsDeeper
  <2>3. IsChain(nd, B \ {n}, nd[n].parent, b)
    BY <1>6, <1>7, <2>2, ChainDrop
  <2> QED BY <2>3
<1>9. p \in NodeId \cup {NULL} /\ y \in Items
  <2>1. p \in NodeId \cup {NULL}
    BY <1>6, <1>7 DEF IsChain
  <2> QED BY <1>6, <2>1, ItemsAre
<1>10. y[1] = "notify" /\ ItemBottom(y) = p /\ ItemTop(y) = b
  BY DEF Notify, ItemBottom, ItemTop
<1>11. h = Do(f, <<y>> \o w)
  OBVIOUS
<1>12. IsChain(nd, D, ItemBottom(y), ItemTop(y)) /\ D \cap Counts(k1) = {} /\ x[1] = "notify"
  BY <1>3, <1>8, <1>10
<1>13. \E k2 : Local(nd, c, h, k2) /\ Loses(Summary(c, h, k2), s1, y, D)
  BY ONLY <1>3, <1>5, <1>9, <1>10, <1>11, <1>12, Shorter
<1>14. PICK k2 : Local(nd, c, h, k2) /\ Loses(Summary(c, h, k2), s1, y, D)
  BY ONLY <1>13
<1> PICK s2, S2 : s2 = Summary(c, h, k2) /\ S2 = With(S, t, s2)
  OBVIOUS
<1>15. Others(S, S2, t) /\ S2[t] = s2 /\ S[t] = s
  <2>1. S = Summaries(cl, fr, K) /\ t \in Thread
    BY <1>2
  <2>2. Others(S, With(S, t, s2), t) /\ With(S, t, s2)[t] = s2
    BY ONLY <2>1, WithIs
  <2> QED BY <2>2
<1>16. Loses(s2, s1, y, B \ {n}) /\ y = Notify(p, b) /\ B \cap s1.counts = {}
  BY <1>3, <1>14
<1>17. /\ s2.counts = s.counts \ {n} /\ n \in s.counts /\ s2.reads = s.reads /\ s2.writes = s.writes
       /\ s.pending = NULL /\ s2.pending = s.pending /\ SameSleep(s, s2) /\ SameHeld(s, s2)
       /\ s2.unlinks = s.unlinks /\ KeepsPrivacy(nd, s, s2)
  BY ONLY <1>3, <1>6, <1>7, <1>16, LosesFirst
<1>18. At(nd, nd2, S, S2, t, n, m2, dp)
  BY <1>3, <1>15, <1>17 DEF At
<1>19. /\ t \in Thread /\ n \in NodeId /\ m2 \in Notified(nd[n])
       /\ S2[t].counts = S[t].counts \ {n} /\ n \in S[t].counts
       /\ S2[t].reads = S[t].reads /\ S2[t].writes = S[t].writes
       /\ S2[t].pending = S[t].pending /\ S[t].pending = NULL
       /\ SameSleep(S[t], S2[t]) /\ KeepsPrivacy(nd, S[t], S2[t])
  BY <1>7, <1>15, <1>17
<1>20. Global(nd2, S2, dp) /\ nd2 \in [NodeId -> NodeType] /\ SameTree(nd, nd2)
  BY ONLY <1>18, <1>19, GNotified
<1>21. /\ Inv(nd, cl, fr, an, K, dp) /\ t \in Thread /\ fr[t].at # "idle"
       /\ Local(nd, cl[t], h, k2) /\ Global(nd2, With(Summaries(cl, fr, K), t, Summary(cl[t], h, k2)), dp)
  BY <1>2, <1>14, <1>20
<1> QED BY ONLY <1>20, <1>21, Settle

\* What the other threads have to do with a folder that a thread has for itself
\* is no place of theirs.
LEMMA OthersElsewhere ==
  ASSUME NEW nd, NEW cl, NEW fr, NEW an, NEW K, NEW dp, Inv(nd, cl, fr, an, K, dp), NEW S, S = Summaries(cl, fr, K),
         NEW t \in Thread, NEW n \in S[t].vacates, NEW nd2,
         \A m \in NodeId \ {n} : nd2[m].parent = nd[m].parent /\ nd2[m].name = nd[m].name
  PROVE  \A u \in Thread \ {t} : SamePlaces(nd, nd2, Counts(K[u]) \cup {Pending(fr[u])})
<1> SUFFICES ASSUME NEW u \in Thread \ {t}
             PROVE  SamePlaces(nd, nd2, Counts(K[u]) \cup {Pending(fr[u])})
  OBVIOUS
<1>1. Good(nd, S, dp) /\ S[u] = Summary(cl[u], fr[u], K[u])
  BY InvGood
<1>2. S[u].counts = Counts(K[u]) /\ S[u].pending = Pending(fr[u])
  BY <1>1, SummaryIs
<1>3. n \notin S[u].counts /\ n # S[u].pending
  BY <1>1 DEF Good, Global, Vacant
<1> QED BY <1>2, <1>3 DEF SamePlaces

-----------------------------------------------------------------------------
(* RenameMoved and FreeRemoved.                                            *)

LEMMA LosesRename ==
  ASSUME NEW nd, NEW s, NEW s1, NEW n \in NodeId, NEW q, NEW b, NEW x, x = Rename(n), NEW B, Loses(s, s1, x, B), B = {},
         n \notin s1.counts, s1.moves = {}, s1.removes = {}, s.place = <<q, b>>
  PROVE  Renaming(s, s1, n, q, b)
<1>1. x[1] = "rename" /\ x[2] = n
  BY DEF Rename
<1>2. /\ {m \in NodeId : x = <<"readerFinal", m>>} = {} /\ {m \in NodeId : x = <<"writerFinal", m>>} = {}
      /\ {m \in NodeId : x = <<"mapFinal", m>>} = {} /\ {m \in NodeId : x = <<"rename", m>>} = {n}
      /\ {m \in NodeId : x = <<"free", m>>} = {}
  BY <1>1 DEF Rename
<1>3. /\ s.maps = s1.maps /\ s.reads = s1.reads /\ s.writes = s1.writes
      /\ s.moves = s1.moves \cup {n} /\ s.removes = s1.removes /\ s.counts = s1.counts
      /\ Ending(s) /\ Ending(s1)
  BY <1>1, <1>2 DEF Loses
<1> QED BY ONLY <1>3, s1.moves = {}, s1.removes = {}, n \notin s1.counts, s.place = <<q, b>>
        DEF Ending, Renaming, SameSleep, SameUse

LEMMA LosesFree ==
  ASSUME NEW nd, NEW s, NEW s1, NEW n \in NodeId, NEW x, x = Free(n), NEW B, Loses(s, s1, x, B), B = {},
         n \notin s1.counts, s1.moves = {}, s1.removes = {}, n \notin s1.reads \cup s1.writes
  PROVE  Freeing(s, s1, n)
<1>1. x[1] = "free" /\ x[2] = n
  BY DEF Free
<1>2. /\ {m \in NodeId : x = <<"readerFinal", m>>} = {} /\ {m \in NodeId : x = <<"writerFinal", m>>} = {}
      /\ {m \in NodeId : x = <<"mapFinal", m>>} = {} /\ {m \in NodeId : x = <<"rename", m>>} = {}
      /\ {m \in NodeId : x = <<"free", m>>} = {n}
  BY <1>1 DEF Free
<1>3. /\ s.maps = s1.maps /\ s.reads = s1.reads /\ s.writes = s1.writes
      /\ s.moves = s1.moves /\ s.removes = s1.removes \cup {n} /\ s.counts = s1.counts
      /\ Ending(s) /\ Ending(s1)
  BY <1>1, <1>2 DEF Loses
<1> QED BY ONLY <1>3, s1.moves = {}, s1.removes = {}, n \notin s1.counts,
    n \notin s1.reads \cup s1.writes
        DEF Ending, Freeing, SameSleep, SameUse

\* The end of tree_move: the folder has got its new place.
LEMMA RenameStep ==
  ASSUME NEW nd, NEW cl, NEW fr, NEW an, NEW K, NEW dp, Inv(nd, cl, fr, an, K, dp),
         NEW t \in Thread, NEW f, f = fr[t], f.at = "todo", NEW x, x = Head(f.todo), x[1] = "rename",
         NEW g, g = Do(f, Tail(f.todo)), NEW n, n = x[2],
         NEW nd2, nd2 = WithPlace(nd, n, f.target_parent, TargetName(cl[t].target))
  PROVE  \E K2, e : Inv(nd2, cl, [fr EXCEPT ![t] = g], an, K2, e)
<1>1. \E k1, B, S, S1 : /\ S = Summaries(cl, fr, K) /\ S1 = With(S, t, Summary(cl[t], g, k1))
                        /\ Popping(nd, S, S1, dp, t, x, B, cl[t], g, k1)
  BY PopStart
<1>2. PICK k1, B, S, S1 : /\ S = Summaries(cl, fr, K) /\ S1 = With(S, t, Summary(cl[t], g, k1))
                          /\ Popping(nd, S, S1, dp, t, x, B, cl[t], g, k1)
  BY ONLY <1>1
<1> PICK s, s1, c, q, b : /\ s = S[t] /\ s1 = S1[t] /\ c = cl[t]
                          /\ q = f.target_parent /\ b = TargetName(c.target)
  OBVIOUS
<1>3. /\ Good(nd, S, dp) /\ Others(S, S1, t) /\ Loses(s, s1, x, B) /\ KeepsPrivacy(nd, s, s1)
      /\ Local(nd, c, g, k1) /\ x \in Items /\ IsChain(nd, B, ItemBottom(x), ItemTop(x))
      /\ CanPrecede(c, x, g) /\ s1.counts = Counts(k1) /\ (\A u \in Thread : One(S[u]))
      /\ (x[1] \in Taking => x[2] \notin Counts(k1) \cup B)
  BY <1>2 DEF Popping
<1>4. x = Rename(n) /\ n \in NodeId
  BY <1>3, ItemIs DEF Rename
<1>5. B = {} /\ n \notin s1.counts
  BY <1>3, NoChain DEF Taking
<1>6. g.at = "todo"
  BY DoneAt DEF Inv
<1>7. s1.moves = {} /\ s1.removes = {}
  <2>1. s1.moves = Listed(g, "rename") /\ s1.removes = Listed(g, "free")
    BY <1>2, <1>6, PopListed
  <2>2. Listed(g, "rename") = {} /\ Listed(g, "free") = {}
    BY <1>3, PrecedeListed
  <2> QED BY <2>1, <2>2
<1>8. s.place = <<q, b>>
  <2>1. S = Summaries(cl, fr, K)
    BY <1>2
  <2>2. s = Summary(c, f, K[t])
    BY <2>1 DEF Summaries
  <2> QED BY <2>2, SummaryIs
<1>9. Renaming(s, s1, n, q, b)
  BY ONLY <1>3, <1>4, <1>5, <1>7, <1>8, LosesRename
<1>10. /\ t \in Thread /\ Renaming(S[t], S1[t], n, q, b) /\ KeepsPrivacy(nd, S[t], S1[t])
       /\ nd2 = WithPlace(nd, n, q, b)
  BY <1>3, <1>9
<1>11. /\ Global(nd2, S1, dp) /\ nd2 \in [NodeId -> NodeType]
       /\ \A y \in NodeId \ {n} : nd2[y].parent = nd[y].parent /\ nd2[y].name = nd[y].name
  BY ONLY <1>3, <1>10, GRename
<1>12. n \in S[t].vacates
  BY <1>9 DEF Renaming
<1>13. \A u \in Thread \ {t} : SamePlaces(nd, nd2, Counts(K[u]) \cup {Pending(fr[u])})
  <2>1. S = Summaries(cl, fr, K) /\ Inv(nd, cl, fr, an, K, dp) /\ t \in Thread
    BY <1>2
  <2> QED BY ONLY <1>11, <1>12, <2>1, OthersElsewhere
<1>14. Local(nd2, c, g, k1)
  <2>1. Pending(g) = NULL
    BY <1>6 DEF Pending, Ahead
  <2>2. NULL \notin NodeId
    BY TreeAssumption
  <2>3. SamePlaces(nd, nd2, Counts(k1) \cup {Pending(g)})
    BY <1>3, <1>5, <1>11, <2>1, <2>2 DEF SamePlaces
  <2> QED BY <1>3, <2>3, LocalStable
<1>15. /\ Inv(nd, cl, fr, an, K, dp) /\ t \in Thread /\ (g.at # "idle" => t \in DOMAIN cl /\ an[t] = None)
       /\ (\A u \in Thread \ {t} : an[u] = an[u])
       /\ Local(nd2, cl[t], g, k1) /\ Global(nd2, With(Summaries(cl, fr, K), t, Summary(cl[t], g, k1)), dp)
  BY <1>2, <1>11, <1>14 DEF Inv
<1> QED BY ONLY <1>11, <1>13, <1>15, Assemble

\* The end of tree_remove: the memory is returned.
LEMMA FreeStep ==
  ASSUME NEW nd, NEW cl, NEW fr, NEW an, NEW K, NEW dp, Inv(nd, cl, fr, an, K, dp),
         NEW t \in Thread, NEW f, f = fr[t], f.at = "todo", NEW x, x = Head(f.todo), x[1] = "free",
         NEW g, g = Do(f, Tail(f.todo)), NEW n, n = x[2], NEW nd2, nd2 = [nd EXCEPT ![n] = node_free]
  PROVE  \E K2, e : Inv(nd2, cl, [fr EXCEPT ![t] = g], an, K2, e)
<1>1. \E k1, B, S, S1 : /\ S = Summaries(cl, fr, K) /\ S1 = With(S, t, Summary(cl[t], g, k1))
                        /\ Popping(nd, S, S1, dp, t, x, B, cl[t], g, k1)
  BY PopStart
<1>2. PICK k1, B, S, S1 : /\ S = Summaries(cl, fr, K) /\ S1 = With(S, t, Summary(cl[t], g, k1))
                          /\ Popping(nd, S, S1, dp, t, x, B, cl[t], g, k1)
  BY ONLY <1>1
<1> PICK s, s1, c : s = S[t] /\ s1 = S1[t] /\ c = cl[t]
  OBVIOUS
<1>3. /\ Good(nd, S, dp) /\ Others(S, S1, t) /\ Loses(s, s1, x, B) /\ KeepsPrivacy(nd, s, s1)
      /\ Local(nd, c, g, k1) /\ x \in Items /\ IsChain(nd, B, ItemBottom(x), ItemTop(x))
      /\ CanPrecede(c, x, g) /\ s1.counts = Counts(k1) /\ (\A u \in Thread : One(S[u]))
      /\ (x[1] \in Taking => x[2] \notin Counts(k1) \cup B)
  BY <1>2 DEF Popping
<1>4. x = Free(n) /\ n \in NodeId
  BY <1>3, ItemIs DEF Free
<1>5. B = {} /\ n \notin s1.counts
  BY <1>3, NoChain DEF Taking
<1>6. g.at = "todo"
  BY DoneAt DEF Inv
<1>7. s1.moves = {} /\ s1.removes = {} /\ n \notin s1.reads \cup s1.writes
  <2>1. /\ s1.moves = Listed(g, "rename") /\ s1.removes = Listed(g, "free")
        /\ s1.reads = Listed(g, "readerFinal") /\ s1.writes = Listed(g, "writerFinal")
    BY <1>2, <1>6, PopListed
  <2>2. /\ Listed(g, "rename") = {} /\ Listed(g, "free") = {} /\ Listed(g, "readerFinal") = {}
        /\ Listed(g, "writerFinal") = {}
    BY <1>3, PrecedeListed
  <2> QED BY <2>1, <2>2
<1>8. Freeing(s, s1, n)
  BY ONLY <1>3, <1>4, <1>5, <1>7, LosesFree
<1>9. t \in Thread /\ Freeing(S[t], S1[t], n) /\ KeepsPrivacy(nd, S[t], S1[t])
  BY <1>3, <1>8
<1>10. nd2 = [nd EXCEPT ![n] = node_free]
  OBVIOUS
<1>11. Global(nd2, S1, dp) /\ nd2 \in [NodeId -> NodeType] /\ \A y \in NodeId \ {n} : nd2[y] = nd[y]
  BY ONLY <1>3, <1>9, <1>10, GFree
<1>12. n \in S[t].vacates /\ \A y \in NodeId \ {n} : nd2[y].parent = nd[y].parent /\ nd2[y].name = nd[y].name
  BY <1>8, <1>11 DEF Freeing
<1>13. \A u \in Thread \ {t} : SamePlaces(nd, nd2, Counts(K[u]) \cup {Pending(fr[u])})
  <2>1. S = Summaries(cl, fr, K) /\ Inv(nd, cl, fr, an, K, dp) /\ t \in Thread
    BY <1>2
  <2> QED BY ONLY <1>12, <2>1, OthersElsewhere
<1>14. Local(nd2, c, g, k1)
  <2>1. Pending(g) = NULL
    BY <1>6 DEF Pending, Ahead
  <2>2. NULL \notin NodeId
    BY TreeAssumption
  <2>3. SamePlaces(nd, nd2, Counts(k1) \cup {Pending(g)})
    BY <1>3, <1>5, <1>12, <2>1, <2>2 DEF SamePlaces
  <2> QED BY <1>3, <2>3, LocalStable
<1>15. /\ Inv(nd, cl, fr, an, K, dp) /\ t \in Thread /\ (g.at # "idle" => t \in DOMAIN cl /\ an[t] = None)
       /\ (\A u \in Thread \ {t} : an[u] = an[u])
       /\ Local(nd2, cl[t], g, k1) /\ Global(nd2, With(Summaries(cl, fr, K), t, Summary(cl[t], g, k1)), dp)
  BY <1>2, <1>11, <1>14 DEF Inv
<1> QED BY ONLY <1>11, <1>13, <1>15, Assemble

-----------------------------------------------------------------------------
(* ReturnResult.                                                           *)

LEMMA NoFrameType == NoFrame \in FrameType
<1>1. NoFrame.rest \in Seq(Name) /\ NoFrame.todo \in Seq(Items)
  <2>1. <<>> \in Seq(Name) /\ <<>> \in Seq(Items)
    BY EmptySeq
  <2> QED BY <2>1 DEF NoFrame
<1> QED BY <1>1 DEF NoFrame, FrameType

LEMMA IdleLocal ==
  ASSUME NEW nd, NEW c, NEW k, Fresh(k)
  PROVE  Local(nd, c, NoFrame, k)
<1> PICK f : f = NoFrame
  OBVIOUS
<1>1. f.at = "idle" /\ f.walk = "none" /\ f = NoFrame
  BY DEF NoFrame
<1>2. ~Going(f) /\ ~Moving(f) /\ Pending(f) = NULL /\ Slots(f) = 1 .. 3
  BY <1>1 DEF Going, Moving, Pending, Ahead, Slots
<1>3. FrameOK(c, f)
  BY <1>1, <1>2, NoFrameType DEF FrameOK
<1>4. Counts(k) = {}
  BY FreshIs
<1>5. \A i \in 1 .. 3 : k.chain[i] = {} /\ Bottom(nd, f, i) = NULL /\ Top(f, i) = NULL
  BY <1>1, <1>2 DEF Fresh, Bottom, Top
<1>6. \A i \in 1 .. 3 : IsChain(nd, k.chain[i], Bottom(nd, f, i), Top(f, i))
  BY <1>5, ChainEmpty
<1>7. ChainsOK(nd, c, f, k)
  BY <1>1, <1>2, <1>4, <1>5, <1>6 DEF ChainsOK, Fresh
<1>8. MapsOK(nd, c, f, k)
  BY <1>1, <1>2 DEF MapsOK, Fresh
<1> QED BY <1>1, <1>3, <1>7, <1>8 DEF Local

\* Nothing but the answer is left.
LEMMA LastItem ==
  ASSUME NEW nd, NEW c, NEW f, NEW k, TodoLocal(nd, c, f, k), f.todo[1][1] = "return", NEW s, s = Summary(c, f, k)
  PROVE  TodoSummary(s, {}, {}, {}, {}, {}, {}, {}, {}) /\ s.goesAway = {} /\ s.passesOn = {}
<1>1. f \in FrameType /\ f.at = "todo" /\ ListOK(c, f) /\ TodoChains(nd, f, k)
  BY DEF TodoLocal
<1>2. DOMAIN f.todo = {1}
  <2>1. f.todo \in Seq(Items) /\ Len(f.todo) > 0
    BY <1>1 DEF FrameType, ListOK
  <2>2. DOMAIN f.todo = 1 .. Len(f.todo) /\ Len(f.todo) \in Nat
    BY <2>1, LenProperties
  <2>3. 1 \in DOMAIN f.todo
    BY <2>1, <2>2
  <2>4. Len(f.todo) = 1
    BY <1>1, <2>3 DEF ListOK
  <2> QED BY <2>2, <2>4
<1>3. k.chain[1] = {} /\ DOMAIN k.chain = {1}
  BY <1>1, <1>2 DEF TodoChains, IsChain, ItemBottom, ItemTop
<1>4. Counts(k) = {}
  BY <1>3 DEF Counts
<1>5. \A kind \in {"readerFinal", "writerFinal", "mapFinal", "rename", "free"} : Listed(f, kind) = {}
  BY <1>2 DEF Listed
<1>6. GoesAway(f, k) = {} /\ PassesOn(f, k) = {}
  BY <1>1, <1>2 DEF GoesAway, PassesOn
<1>7. /\ Listed(f, "readerFinal") = {} /\ Listed(f, "writerFinal") = {} /\ Listed(f, "mapFinal") = {}
      /\ Listed(f, "rename") = {} /\ Listed(f, "free") = {}
  BY <1>5
<1>8. /\ TodoSummary(s, Listed(f, "readerFinal"), Listed(f, "writerFinal"),
              Listed(f, "mapFinal"), Counts(k), Listed(f, "rename"), Listed(f, "free"),
              GoesAway(f, k), PassesOn(f, k))
      /\ s.goesAway = GoesAway(f, k) /\ s.passesOn = PassesOn(f, k)
  BY TodoSummaryIs
<1> QED BY ONLY <1>4, <1>6, <1>7, <1>8

\* A call returns.
LEMMA ReturnStep ==
  ASSUME NEW nd, NEW cl, NEW fr, NEW an, NEW K, NEW dp, Inv(nd, cl, fr, an, K, dp),
         NEW t \in Thread, NEW f, f = fr[t], f.at = "todo", NEW x, x = Head(f.todo), x[1] = "return",
         NEW an2, \A u \in Thread \ {t} : an2[u] = an[u]
  PROVE  \E K2, e : Inv(nd, cl, [fr EXCEPT ![t] = NoFrame], an2, K2, e)
<1> PICK S, c, k, g : S = Summaries(cl, fr, K) /\ c = cl[t] /\ k = K[t] /\ g = NoFrame
  OBVIOUS
<1>1. Good(nd, S, dp) /\ S[t] = Summary(c, f, k) /\ Local(nd, c, f, k)
  BY InvGood
<1>2. TodoLocal(nd, c, f, k)
  BY <1>1, TodoLocalIs
<1>3. f.todo[1][1] = "return"
  <2>1. f.todo \in Seq(Items) /\ Len(f.todo) > 0
    BY <1>1, TailItems
  <2>2. Head(f.todo) = f.todo[1]
    BY <2>1, TailPrepends
  <2> QED BY <2>2
<1>4. PICK k1 : Fresh(k1)
  BY FreshIs
<1>5. Local(nd, c, g, k1)
  BY <1>4, IdleLocal
<1> PICK s, s1, S1 : s = S[t] /\ s1 = Summary(c, g, k1) /\ S1 = With(S, t, s1)
  OBVIOUS
<1>6. Others(S, S1, t) /\ S1[t] = s1 /\ S[t] = s
  BY WithIs
<1>7. TodoSummary(s, {}, {}, {}, {}, {}, {}, {}, {}) /\ s.goesAway = {} /\ s.passesOn = {}
  BY <1>1, <1>2, <1>3, LastItem
<1>8. TodoSummary(s1, {}, {}, {}, {}, {}, {}, {}, {})
  BY <1>5, IdleSummary
<1>9. Quiet(nd, S[t], S1[t])
  <2>1. IdleTo(nd, s, s1)
    BY ONLY <1>7, <1>8 DEF IdleTo
  <2> QED BY <1>6, <2>1, IdleQuiet
<1>10. Global(nd, S1, dp)
  BY <1>1, <1>6, <1>9, GQuiet
<1>11. \A u \in Thread \ {t} : SamePlaces(nd, nd, Counts(K[u]) \cup {Pending(fr[u])})
  BY DEF SamePlaces
<1>12. g.at = "idle"
  BY DEF NoFrame
<1>13. /\ Inv(nd, cl, fr, an, K, dp) /\ t \in Thread /\ nd \in [NodeId -> NodeType]
       /\ (g.at # "idle" => t \in DOMAIN cl /\ an2[t] = None)
       /\ (\A u \in Thread \ {t} : an2[u] = an[u])
       /\ Local(nd, cl[t], g, k1) /\ Global(nd, With(Summaries(cl, fr, K), t, Summary(cl[t], g, k1)), dp)
  BY <1>5, <1>10, <1>12 DEF Inv
<1>14. \E K2, e : Inv(nd, cl, [fr EXCEPT ![t] = g], an2, K2, e)
  BY ONLY <1>11, <1>13, Assemble
<1> QED BY <1>14

\* TryEnter, of a thread with the frame f before the step and g after it.
Tries(nd, f, t, m, nd2, g) ==
  \/ /\ IF IsWriter(f) THEN NodeWriterMustWait(m) ELSE NodeReaderMustWait(m)
     /\ nd2 = [nd EXCEPT ![f.cur] = IF IsWriter(f) THEN WriterSleep(m, t) ELSE ReaderSleep(m, t)]
     /\ g = [f EXCEPT !.at = "sleep"]
  \/ /\ ~IF IsWriter(f) THEN NodeWriterMustWait(m) ELSE NodeReaderMustWait(m)
     /\ \E k \in IF IsWriter(f) THEN WriterEnter(m) ELSE ReaderEnter(m) : nd2 = [nd EXCEPT ![f.cur] = k]
     /\ g = [f EXCEPT !.at = "count"]

LEMMA TryStep ==
  ASSUME NEW nd, NEW cl, NEW fr, NEW an, NEW K, NEW dp, Inv(nd, cl, fr, an, K, dp),
         NEW t \in Thread, NEW f, f = fr[t], f.at = "lock", NEW m, m = nd[f.cur],
         NEW nd2, NEW g, Tries(nd, f, t, m, nd2, g)
  PROVE  \E K2, e : Inv(nd2, cl, [fr EXCEPT ![t] = g], an, K2, e)
<1>1. f \in FrameType /\ "sleep" \in Ats /\ "count" \in Ats
  BY DEF Inv, Ats
<1>2. CASE IF IsWriter(f) THEN NodeWriterMustWait(m) ELSE NodeReaderMustWait(m)
  <2>1. /\ nd2 = [nd EXCEPT ![f.cur] = IF IsWriter(f) THEN WriterSleep(m, t) ELSE ReaderSleep(m, t)]
        /\ g = [f EXCEPT !.at = "sleep"]
    BY <1>2 DEF Tries
  <2> PICK m2 : m2 = IF IsWriter(f) THEN WriterSleep(nd[f.cur], t) ELSE ReaderSleep(nd[f.cur], t)
    OBVIOUS
  <2>2. nd2 = [nd EXCEPT ![f.cur] = m2]
    BY <2>1
  <2>3. g \in FrameType /\ g.at = "sleep" /\ SameButAt(f, g)
    BY <1>1, <2>1, WithAt
  <2> QED BY <2>2, <2>3, SleepStep
<1>3. CASE ~IF IsWriter(f) THEN NodeWriterMustWait(m) ELSE NodeReaderMustWait(m)
  <2>1. PICK m2 \in IF IsWriter(f) THEN WriterEnter(m) ELSE ReaderEnter(m) : nd2 = [nd EXCEPT ![f.cur] = m2]
    BY <1>3 DEF Tries
  <2>2. g = [f EXCEPT !.at = "count"]
    BY <1>3 DEF Tries
  <2>3. g \in FrameType /\ g.at = "count" /\ SameButAt(f, g)
    BY <1>1, <2>2, WithAt
  <2>4. /\ IsWriter(f) => ~NodeWriterMustWait(nd[f.cur]) /\ m2 \in WriterEnter(nd[f.cur])
        /\ ~IsWriter(f) => ~NodeReaderMustWait(nd[f.cur]) /\ m2 \in ReaderEnter(nd[f.cur])
    BY <1>3, <2>1
  <2>5. nd2 = [nd EXCEPT ![f.cur] = m2]
    BY <2>1
  <2> QED BY <2>3, <2>4, <2>5, EnterStep
<1> QED BY <1>2, <1>3

LEMMA WakeStep ==
  ASSUME NEW nd, NEW cl, NEW fr, NEW an, NEW K, NEW dp, Inv(nd, cl, fr, an, K, dp),
         NEW t \in Thread, NEW f, f = fr[t], f.at = "sleep",
         t \notin nd[f.cur].readers \cup nd[f.cur].writers, NEW m,
         m = IF IsWriter(f) THEN WriterAwake(nd[f.cur]) ELSE ReaderAwake(nd[f.cur]),
         NEW nd2, NEW g, Tries(nd, f, t, m, nd2, g)
  PROVE  \E K2, e : Inv(nd2, cl, [fr EXCEPT ![t] = g], an, K2, e)
<1> PICK h, nd1, fr1 : h = [f EXCEPT !.at = "lock"] /\ nd1 = [nd EXCEPT ![f.cur] = m] /\ fr1 = [fr EXCEPT ![t] = h]
  OBVIOUS
<1>1. f \in FrameType /\ "lock" \in Ats /\ fr \in [Thread -> FrameType] /\ nd \in [NodeId -> NodeType]
  BY DEF Inv, Ats
<1>2. h \in FrameType /\ h.at = "lock" /\ SameButAt(f, h)
  <2>1. h = [f EXCEPT !.at = "lock"]
    OBVIOUS
  <2> QED BY <1>1, <2>1, WithAt
<1>3. \E K1, e1 : Inv(nd1, cl, [fr EXCEPT ![t] = h], an, K1, e1)
  BY <1>2, AwakeStep
<1>4. PICK K1, e1 : Inv(nd1, cl, [fr EXCEPT ![t] = h], an, K1, e1)
  BY ONLY <1>3
<1>5. f.cur \in NodeId
  <2>1. Local(nd, cl[t], f, K[t])
    BY DEF Inv
  <2> QED BY <2>1 DEF Local, FrameOK, GoingOK, Going
<1>6. fr1[t] = h /\ nd1[f.cur] = m /\ h.cur = f.cur /\ (IsWriter(h) <=> IsWriter(f))
  BY <1>1, <1>2, <1>5 DEF SameButAt, IsWriter
<1>7. /\ [h EXCEPT !.at = "sleep"] = [f EXCEPT !.at = "sleep"]
      /\ [h EXCEPT !.at = "count"] = [f EXCEPT !.at = "count"]
  BY <1>1 DEF FrameType
<1>8. \A y : [nd1 EXCEPT ![f.cur] = y] = [nd EXCEPT ![f.cur] = y]
  BY <1>1, <1>5
<1>9. Tries(nd1, h, t, m, nd2, g)
  <2>1. CASE IF IsWriter(f) THEN NodeWriterMustWait(m) ELSE NodeReaderMustWait(m)
    <3> PICK m2 : m2 = IF IsWriter(f) THEN WriterSleep(m, t) ELSE ReaderSleep(m, t)
      OBVIOUS
    <3>1. nd2 = [nd EXCEPT ![f.cur] = m2] /\ g = [f EXCEPT !.at = "sleep"]
      BY <2>1 DEF Tries
    <3>6. [nd1 EXCEPT ![f.cur] = m2] = [nd EXCEPT ![f.cur] = m2]
      BY ONLY <1>8
    <3>7. h.cur = f.cur
      BY <1>6
    <3>8. nd2 = [nd1 EXCEPT ![h.cur] = m2]
      BY ONLY <3>1, <3>6, <3>7
    <3>9. g = [h EXCEPT !.at = "sleep"]
      BY ONLY <1>7, <3>1
    <3>2. nd2 = [nd1 EXCEPT ![h.cur] = m2] /\ g = [h EXCEPT !.at = "sleep"]
      BY ONLY <3>8, <3>9
    <3>3. m2 = IF IsWriter(h) THEN WriterSleep(m, t) ELSE ReaderSleep(m, t)
      BY <1>6
    <3>4. IF IsWriter(h) THEN NodeWriterMustWait(m) ELSE NodeReaderMustWait(m)
      BY <1>6, <2>1
    <3>5. nd2 = [nd1 EXCEPT ![h.cur] = IF IsWriter(h) THEN WriterSleep(m, t) ELSE ReaderSleep(m, t)]
      BY ONLY <3>2, <3>3
    <3> QED BY ONLY <3>2, <3>4, <3>5 DEF Tries
  <2>2. CASE ~IF IsWriter(f) THEN NodeWriterMustWait(m) ELSE NodeReaderMustWait(m)
    <3>1. PICK y \in IF IsWriter(f) THEN WriterEnter(m) ELSE ReaderEnter(m) : nd2 = [nd EXCEPT ![f.cur] = y]
      BY <2>2 DEF Tries
    <3>2. g = [f EXCEPT !.at = "count"]
      BY <2>2 DEF Tries
    <3>6. [nd1 EXCEPT ![f.cur] = y] = [nd EXCEPT ![f.cur] = y]
      BY ONLY <1>8
    <3>7. h.cur = f.cur
      BY <1>6
    <3>8. nd2 = [nd1 EXCEPT ![h.cur] = y]
      BY ONLY <3>1, <3>6, <3>7
    <3>9. g = [h EXCEPT !.at = "count"]
      BY ONLY <1>7, <3>2
    <3>3. nd2 = [nd1 EXCEPT ![h.cur] = y] /\ g = [h EXCEPT !.at = "count"]
      BY ONLY <3>8, <3>9
    <3>4. ~IF IsWriter(h) THEN NodeWriterMustWait(m) ELSE NodeReaderMustWait(m)
      BY <1>6, <2>2
    <3>5. y \in IF IsWriter(h) THEN WriterEnter(m) ELSE ReaderEnter(m)
      BY <1>6, <3>1
    <3> QED BY ONLY <3>3, <3>4, <3>5 DEF Tries
  <2> QED BY <2>1, <2>2
<1>10. Inv(nd1, cl, fr1, an, K1, e1) /\ t \in Thread /\ h = fr1[t] /\ h.at = "lock" /\ m = nd1[h.cur]
  BY <1>2, <1>4, <1>6
<1>11. \E K2, e : Inv(nd2, cl, [fr1 EXCEPT ![t] = g], an, K2, e)
  BY ONLY <1>9, <1>10, TryStep
<1>12. [fr1 EXCEPT ![t] = g] = [fr EXCEPT ![t] = g]
  BY <1>1
<1> QED BY <1>11, <1>12

-----------------------------------------------------------------------------
(* Every action keeps the invariant.                                       *)

\* The invariant after a step, but for the domain of answer.
Kept == \E K2, e : Inv(node', call', frame', answer', K2, e)

LEMMA LockKept ==
  ASSUME NEW K, NEW dp, Inv(node, call, frame, answer, K, dp), NEW t \in Thread, Lock(t)
  PROVE  Kept
<1> PICK nd, cl, fr, an, f, m, nd2 : /\ nd = node /\ cl = call /\ fr = frame /\ an = answer
                                     /\ f = frame[t] /\ m = node[f.cur] /\ nd2 = node'
  OBVIOUS
<1>1. PICK g : Tries(nd, f, t, m, nd2, g) /\ SetFrame(t, g)
  BY DEF Lock, TryEnter, Tries, SetNode
<1>2. Inv(nd, cl, fr, an, K, dp) /\ t \in Thread /\ f = fr[t] /\ f.at = "lock" /\ m = nd[f.cur]
  BY DEF Lock
<1>3. \E K2, e : Inv(nd2, cl, [fr EXCEPT ![t] = g], an, K2, e)
  BY ONLY <1>1, <1>2, TryStep
<1> QED BY <1>1, <1>3 DEF SetFrame, Kept

LEMMA WakeKept ==
  ASSUME NEW K, NEW dp, Inv(node, call, frame, answer, K, dp), NEW t \in Thread, Wake(t)
  PROVE  Kept
<1> PICK nd, cl, fr, an, f, m, nd2 : /\ nd = node /\ cl = call /\ fr = frame /\ an = answer /\ f = frame[t]
                                     /\ m = IF IsWriter(f) THEN WriterAwake(node[f.cur]) ELSE ReaderAwake(node[f.cur])
                                     /\ nd2 = node'
  OBVIOUS
<1>1. PICK g : Tries(nd, f, t, m, nd2, g) /\ SetFrame(t, g)
  BY DEF Wake, TryEnter, Tries, SetNode
<1>2. /\ Inv(nd, cl, fr, an, K, dp) /\ t \in Thread /\ f = fr[t] /\ f.at = "sleep"
      /\ t \notin nd[f.cur].readers \cup nd[f.cur].writers
  BY DEF Wake
<1>3. m = IF IsWriter(f) THEN WriterAwake(nd[f.cur]) ELSE ReaderAwake(nd[f.cur])
  OBVIOUS
<1>4. \E K2, e : Inv(nd2, cl, [fr EXCEPT ![t] = g], an, K2, e)
  BY ONLY <1>1, <1>2, <1>3, WakeStep
<1> QED BY <1>1, <1>4 DEF SetFrame, Kept

LEMMA CountKept ==
  ASSUME NEW K, NEW dp, Inv(node, call, frame, answer, K, dp), NEW t \in Thread, Count(t)
  PROVE  Kept
<1> PICK nd, cl, fr, an, f, m1, nd2 : /\ nd = node /\ cl = call /\ fr = frame /\ an = answer
                                      /\ f = frame[t] /\ m1 = CountIn(node[f.cur]) /\ nd2 = node'
  OBVIOUS
<1> PICK waits, m2 : waits = (IsWriter(f) /\ SubtreeBusy(m1)) /\ m2 = IF waits THEN SleepPrivate(m1, t) ELSE m1
  OBVIOUS
<1> PICK g : g = [f EXCEPT !.at = IF waits THEN "private" ELSE "flag"]
  OBVIOUS
<1>1. f.at = "count" /\ nd2 = [nd EXCEPT ![f.cur] = m2] /\ SetFrame(t, g)
  BY DEF Count, AwaitPrivacy, SetNode
<1>2. f \in FrameType /\ {"private", "flag"} \subseteq Ats /\ (IF waits THEN "private" ELSE "flag") \in {"private", "flag"}
  BY DEF Inv, Ats
<1>3. g \in FrameType /\ SameButAt(f, g) /\ g.at = IF waits THEN "private" ELSE "flag"
  <2> PICK a : a = IF waits THEN "private" ELSE "flag"
    OBVIOUS
  <2>1. f \in FrameType /\ a \in Ats /\ g = [f EXCEPT !.at = a]
    BY <1>2
  <2>2. g \in FrameType /\ SameButAt(f, g) /\ g.at = a
    BY ONLY <2>1, WithAt
  <2> QED BY <2>2
<1>4. /\ Inv(nd, cl, fr, an, K, dp) /\ t \in Thread /\ f = fr[t] /\ m1 = CountIn(nd[f.cur])
      /\ (waits <=> IsWriter(f) /\ SubtreeBusy(m1)) /\ (waits => m2 = SleepPrivate(m1, t)) /\ (~waits => m2 = m1)
      /\ (waits => g.at = "private") /\ (~waits => g.at = "flag")
  BY <1>3
<1>5. \E K2, e : Inv(nd2, cl, [fr EXCEPT ![t] = g], an, K2, e)
  BY ONLY <1>1, <1>3, <1>4, CountStep
<1> QED BY <1>1, <1>5 DEF SetFrame, Kept

LEMMA RecountKept ==
  ASSUME NEW K, NEW dp, Inv(node, call, frame, answer, K, dp), NEW t \in Thread, Recount(t)
  PROVE  Kept
<1> PICK nd, cl, fr, an, f, nd2 : /\ nd = node /\ cl = call /\ fr = frame /\ an = answer
                                  /\ f = frame[t] /\ nd2 = node'
  OBVIOUS
<1> PICK waits : waits = (IsWriter(f) /\ SubtreeBusy(nd[f.cur]))
  OBVIOUS
<1> PICK g : g = [f EXCEPT !.at = IF waits THEN "private" ELSE "flag"]
  OBVIOUS
<1>1. /\ f.at = "private" /\ t \notin nd[f.cur].private_access /\ SetFrame(t, g)
      /\ nd2 = [nd EXCEPT ![f.cur] = IF waits THEN SleepPrivate(nd[f.cur], t) ELSE nd[f.cur]]
  BY DEF Recount, AwaitPrivacy, SetNode
<1>2. f \in FrameType /\ {"private", "flag"} \subseteq Ats /\ (IF waits THEN "private" ELSE "flag") \in {"private", "flag"}
  BY DEF Inv, Ats
<1>3. g \in FrameType /\ SameButAt(f, g) /\ g.at = IF waits THEN "private" ELSE "flag"
  <2> PICK a : a = IF waits THEN "private" ELSE "flag"
    OBVIOUS
  <2>1. f \in FrameType /\ a \in Ats /\ g = [f EXCEPT !.at = a]
    BY <1>2
  <2>2. g \in FrameType /\ SameButAt(f, g) /\ g.at = a
    BY ONLY <2>1, WithAt
  <2> QED BY <2>2
<1>4. /\ Inv(nd, cl, fr, an, K, dp) /\ t \in Thread /\ f = fr[t] /\ f.at = "private"
      /\ t \notin nd[f.cur].private_access
      /\ (waits <=> IsWriter(f) /\ SubtreeBusy(nd[f.cur]))
      /\ (waits => g.at = "private") /\ (~waits => g.at = "flag")
  BY <1>1, <1>3
<1>5. /\ waits => nd2 = [nd EXCEPT ![f.cur] = SleepPrivate(nd[f.cur], t)]
      /\ ~waits => nd2 = [nd EXCEPT ![f.cur] = nd[f.cur]]
  BY <1>1
<1>6. \E K2, e : Inv(nd2, cl, [fr EXCEPT ![t] = g], an, K2, e)
  BY ONLY <1>3, <1>4, <1>5, RecountStep
<1> QED BY <1>1, <1>6 DEF SetFrame, Kept

LEMMA ReadFlagKept ==
  ASSUME NEW K, NEW dp, Inv(node, call, frame, answer, K, dp), NEW t \in Thread, ReadFlag(t)
  PROVE  Kept
<1> PICK nd, cl, fr, an, f : nd = node /\ cl = call /\ fr = frame /\ an = answer /\ f = frame[t]
  OBVIOUS
<1>1. /\ f.at = "flag" /\ node' = nd
      /\ SetFrame(t, IF nd[f.cur].emergency_pass THEN Do(f, OnEmergency(cl[t], f)) ELSE Entered(cl[t], f))
  BY DEF ReadFlag
<1>2. Inv(nd, cl, fr, an, K, dp) /\ t \in Thread /\ f = fr[t] /\ f.at = "flag"
  BY <1>1
<1>3. CASE nd[f.cur].emergency_pass
  <2>1. \E K2, e : Inv(nd, cl, [fr EXCEPT ![t] = Do(f, OnEmergency(cl[t], f))], an, K2, e)
    BY ONLY <1>2, LetOutStep
  <2>2. SetFrame(t, Do(f, OnEmergency(cl[t], f)))
    BY <1>1, <1>3
  <2> QED BY <1>1, <2>1, <2>2 DEF SetFrame, Kept
<1>4. CASE ~nd[f.cur].emergency_pass
  <2> PICK g : g = Entered(cl[t], f)
    OBVIOUS
  <2>1. \E K2, e : Inv(nd, cl, [fr EXCEPT ![t] = g], an, K2, e)
    BY <1>2, <1>4, EnteredStep
  <2>2. SetFrame(t, g)
    BY <1>1, <1>4
  <2> QED BY <1>1, <2>1, <2>2 DEF SetFrame, Kept
<1> QED BY <1>3, <1>4

LEMMA InvokeKept ==
  ASSUME NEW K, NEW dp, Inv(node, call, frame, answer, K, dp), NEW t \in Thread, Invoke(t)
  PROVE  Kept
<1> PICK nd, cl, fr, an : nd = node /\ cl = call /\ fr = frame /\ an = answer
  OBVIOUS
<1> PICK f : f = [fr[t] EXCEPT !.rest = FirstPath(cl[t]), !.walk = IF cl[t].op = "move" THEN "shared" ELSE cl[t].op]
  OBVIOUS
<1> PICK g : g = IF Rejected(cl[t]) # <<>> THEN Do(f, Rejected(cl[t])) ELSE Walk(cl[t], f, Root)
  OBVIOUS
<1>1. t \in DOMAIN cl /\ fr[t].at = "idle" /\ an[t] = None /\ SetFrame(t, g) /\ node' = nd
  BY DEF Invoke
<1>2. /\ Inv(nd, cl, fr, an, K, dp) /\ t \in Thread
      /\ (Rejected(cl[t]) # <<>> => g = Do(f, Rejected(cl[t])))
      /\ (Rejected(cl[t]) = <<>> => g = Walk(cl[t], f, Root))
  OBVIOUS
<1>3. f = [fr[t] EXCEPT !.rest = FirstPath(cl[t]), !.walk = IF cl[t].op = "move" THEN "shared" ELSE cl[t].op]
  OBVIOUS
<1>4. \E K2, e : Inv(nd, cl, [fr EXCEPT ![t] = g], an, K2, e)
  BY ONLY <1>1, <1>2, <1>3, InvokeStep
<1> QED BY <1>1, <1>4 DEF SetFrame, Kept

LEMMA GetKept ==
  ASSUME NEW K, NEW dp, Inv(node, call, frame, answer, K, dp), NEW t \in Thread, Get(t)
  PROVE  Kept
<1> PICK nd, cl, fr, an, f, nd2 : /\ nd = node /\ cl = call /\ fr = frame /\ an = answer
                                  /\ f = frame[t] /\ nd2 = node'
  OBVIOUS
<1> PICK n : n = nd[f.cur].children[Head(f.rest)]
  OBVIOUS
<1> PICK g : g = IF f.skip THEN Step(cl[t], Found(f, n)) ELSE [[f EXCEPT !.next = n] EXCEPT !.at = "leave"]
  OBVIOUS
<1>1. /\ f.at = "get" /\ nd[f.cur].map_writer = NULL /\ SetFrame(t, g)
      /\ (n = NULL => nd2 = nd) /\ (n # NULL => nd2 = Referenced(nd, n))
  BY DEF Get, MapFree, Found, Referenced
<1>2. (f.skip => g = Step(cl[t], Found(f, n))) /\ (~f.skip => g = Leaving(f, n))
  <2>1. f \in FrameType
    BY DEF Inv
  <2>2. [[f EXCEPT !.next = n] EXCEPT !.at = "leave"] = Leaving(f, n)
    BY <2>1 DEF FrameType, Leaving
  <2> QED BY <2>2
<1>3. Inv(nd, cl, fr, an, K, dp) /\ t \in Thread /\ f = fr[t] /\ n = nd[f.cur].children[Head(f.rest)]
  OBVIOUS
<1>4. \E K2, e : Inv(nd2, cl, [fr EXCEPT ![t] = g], an, K2, e)
  <2>1. Getting(nd, cl[t], f, n, nd2, g)
    BY <1>1, <1>2, <1>3 DEF Getting
  <2> QED BY ONLY <1>3, <2>1, GetStep
<1>5. node' = nd2 /\ call' = cl /\ answer' = an /\ frame' = [fr EXCEPT ![t] = g]
  BY <1>1 DEF SetFrame
<1> QED BY ONLY <1>4, <1>5 DEF Kept

LEMMA LeaveKept ==
  ASSUME NEW K, NEW dp, Inv(node, call, frame, answer, K, dp), NEW t \in Thread, Leave(t)
  PROVE  Kept
<1> PICK nd, cl, fr, an, f, nd2 : /\ nd = node /\ cl = call /\ fr = frame /\ an = answer
                                  /\ f = frame[t] /\ nd2 = node'
  OBVIOUS
<1> PICK g : g = Step(cl[t], f)
  OBVIOUS
<1>1. PICK m2 \in ReaderLeave(nd[f.cur]) : nd2 = [nd EXCEPT ![f.cur] = m2]
  BY DEF Leave, SetNode
<1>2. f.at = "leave" /\ SetFrame(t, g)
  BY DEF Leave
<1>3. Inv(nd, cl, fr, an, K, dp) /\ t \in Thread /\ f = fr[t] /\ m2 \in ReaderLeave(nd[f.cur]) /\ g = Step(cl[t], f)
  BY <1>1
<1>4. \E K2, e : Inv(nd2, cl, [fr EXCEPT ![t] = g], an, K2, e)
  BY ONLY <1>1, <1>2, <1>3, LeaveStep
<1> QED BY <1>2, <1>4 DEF SetFrame, Kept

LEMMA ListKept ==
  ASSUME NEW K, NEW dp, Inv(node, call, frame, answer, K, dp), NEW t \in Thread, List(t)
  PROVE  Kept
<1> PICK nd, cl, fr, an, f : nd = node /\ cl = call /\ fr = frame /\ an = answer /\ f = frame[t]
  OBVIOUS
<1> PICK r : r = Listing(Names(nd[f.cur]))
  OBVIOUS
<1>1. /\ f.at = "body" /\ f.role \in {"list", "create"} /\ node' = nd
      /\ SetFrame(t, Do(f, <<ReaderFinal(f.cur), Notify(f.cur, NULL), Return(r)>>))
  BY DEF List
<1>2. Return(r) \in Items
  <2>1. Names(nd[f.cur]) \in SUBSET Name
    BY DEF Names
  <2> QED BY <2>1, CodesAre
<1>3. Inv(nd, cl, fr, an, K, dp) /\ t \in Thread /\ f = fr[t]
  OBVIOUS
<1>4. \E K2, e : Inv(nd, cl, [fr EXCEPT ![t] =
           Do(f, <<ReaderFinal(f.cur), Notify(f.cur, NULL), Return(r)>>)], an, K2, e)
  BY ONLY <1>1, <1>2, <1>3, BodyReaderStep
<1> QED BY <1>1, <1>4 DEF SetFrame, Kept

LEMMA CreateKept ==
  ASSUME NEW K, NEW dp, Inv(node, call, frame, answer, K, dp), NEW t \in Thread, Create(t)
  PROVE  Kept
<1> PICK nd, cl, fr, an, f, nd2 : /\ nd = node /\ cl = call /\ fr = frame /\ an = answer
                                  /\ f = frame[t] /\ nd2 = node'
  OBVIOUS
<1> PICK a, n : a = TargetName(cl[t].path) /\ n = CHOOSE m \in NodeId : nd[m].memory = "unused"
  OBVIOUS
<1>1. f.at = "body" /\ f.role = "create" /\ Inv(nd, cl, fr, an, K, dp) /\ t \in Thread /\ f = fr[t]
  BY DEF Create
<1>2. CASE nd[f.cur].children[a] # NULL
  <2> PICK r : r = Result("EEXIST")
    OBVIOUS
  <2>1. SetFrame(t, Do(f, <<ReaderFinal(f.cur), Notify(f.cur, NULL), Return(r)>>)) /\ node' = nd
    BY <1>2 DEF Create
  <2>2. Return(r) \in Items
    <3>1. "EEXIST" \in Codes
      BY DEF Codes
    <3> QED BY <3>1, CodesAre
  <2>3. f.role \in {"list", "create"}
    BY <1>1
  <2>4. \E K2, e : Inv(nd, cl, [fr EXCEPT ![t] =
           Do(f, <<ReaderFinal(f.cur), Notify(f.cur, NULL), Return(r)>>)], an, K2, e)
    BY ONLY <1>1, <2>2, <2>3, BodyReaderStep
  <2> QED BY <2>1, <2>4 DEF SetFrame, Kept
<1>3. CASE nd[f.cur].children[a] = NULL
  <2> PICK g : g = Do(f, <<ReaderFinal(f.cur), Notify(f.cur, NULL), Return(Result("OK"))>>)
    OBVIOUS
  <2>1. nd2 = [nd EXCEPT ![f.cur].children[a] = n, ![n] = node_new(f.cur, a)]
    BY <1>3 DEF Create
  <2>5. SetFrame(t, g)
    BY <1>3 DEF Create
  <2>2. n \in NodeId /\ nd[n].memory = "unused"
    <3>1. \E m \in NodeId : nd[m].memory = "unused"
      BY <1>3 DEF Create
    <3> QED BY <3>1
  <2>3. a = TargetName(cl[t].path) /\ g = Do(f, <<ReaderFinal(f.cur), Notify(f.cur, NULL), Return(Result("OK"))>>)
    OBVIOUS
  <2>4. \E K2, e : Inv(nd2, cl, [fr EXCEPT ![t] = g], an, K2, e)
    <3>1. Inserting(nd, cl[t], f, a, n, nd2, g)
      BY ONLY <1>1, <1>3, <2>1, <2>2, <2>3 DEF Inserting
    <3> QED BY ONLY <1>1, <3>1, CreateStep
  <2>6. node' = nd2 /\ call' = cl /\ answer' = an /\ frame' = [fr EXCEPT ![t] = g]
    BY <2>5 DEF SetFrame
  <2> QED BY ONLY <2>4, <2>6 DEF Kept
<1> QED BY <1>2, <1>3

LEMMA RemoveSizeKept ==
  ASSUME NEW K, NEW dp, Inv(node, call, frame, answer, K, dp), NEW t \in Thread, RemoveSize(t)
  PROVE  Kept
<1> PICK nd, cl, fr, an, f : nd = node /\ cl = call /\ fr = frame /\ an = answer /\ f = frame[t]
  OBVIOUS
<1>1. /\ f.at = "body" /\ f.role = "remove" /\ nd[f.cur].map_writer = NULL /\ node' = nd
      /\ Inv(nd, cl, fr, an, K, dp) /\ t \in Thread /\ f = fr[t]
  BY DEF RemoveSize, MapFree
<1>2. CASE Names(nd[f.cur]) = {}
  <2> PICK g : g = [f EXCEPT !.at = "unlink"]
    OBVIOUS
  <2>1. SetFrame(t, g)
    BY <1>2 DEF RemoveSize
  <2>2. f \in FrameType /\ "unlink" \in Ats /\ g = [f EXCEPT !.at = "unlink"]
    BY DEF Inv, Ats
  <2>3. g \in FrameType /\ g.at = "unlink" /\ SameButAt(f, g)
    BY ONLY <2>2, WithAt
  <2>4. \E K2, e : Inv(nd, cl, [fr EXCEPT ![t] = g], an, K2, e)
    BY ONLY <1>1, <1>2, <2>3, UnlinkStep
  <2> QED BY <1>1, <2>1, <2>4 DEF SetFrame, Kept
<1>3. CASE Names(nd[f.cur]) # {}
  <2> PICK r : r = Result("ENOTEMPTY")
    OBVIOUS
  <2>1. SetFrame(t, Do(f, <<WriterFinal(f.cur), Notify(f.cur, NULL), Return(r)>>))
    BY <1>3 DEF RemoveSize
  <2>2. Return(r) \in Items
    <3>1. "ENOTEMPTY" \in Codes
      BY DEF Codes
    <3> QED BY <3>1, CodesAre
  <2>3. \E K2, e : Inv(nd, cl, [fr EXCEPT ![t] =
           Do(f, <<WriterFinal(f.cur), Notify(f.cur, NULL), Return(r)>>)], an, K2, e)
    BY ONLY <1>1, <2>2, BodyWriterStep
  <2> QED BY <1>1, <2>1, <2>3 DEF SetFrame, Kept
<1> QED BY <1>2, <1>3

LEMMA RemoveUnlinkKept ==
  ASSUME NEW K, NEW dp, Inv(node, call, frame, answer, K, dp), NEW t \in Thread, RemoveUnlink(t)
  PROVE  Kept
<1> PICK nd, cl, fr, an, f, nd2, g : /\ nd = node /\ cl = call /\ fr = frame /\ an = answer
                                     /\ f = frame[t] /\ nd2 = node' /\ g = [f EXCEPT !.at = "discard"]
  OBVIOUS
<1>1. /\ f.at = "unlink" /\ nd[nd[f.cur].parent].map_writer = NULL /\ SetFrame(t, g)
      /\ nd2 = WithoutEntry(nd, f.cur) /\ Inv(nd, cl, fr, an, K, dp) /\ t \in Thread /\ f = fr[t]
  BY DEF RemoveUnlink, MapFree, WithoutEntry
<1>2. f \in FrameType /\ "discard" \in Ats /\ g = [f EXCEPT !.at = "discard"]
  BY DEF Inv, Ats
<1>3. g \in FrameType /\ g.at = "discard" /\ SameButAt(f, g)
  BY ONLY <1>2, WithAt
<1>4. \E K2, e : Inv(nd2, cl, [fr EXCEPT ![t] = g], an, K2, e)
  BY ONLY <1>1, <1>3, TakeOutStep
<1> QED BY <1>1, <1>4 DEF SetFrame, Kept

LEMMA LockMovesKept ==
  ASSUME NEW K, NEW dp, Inv(node, call, frame, answer, K, dp), NEW t \in Thread, LockMoves(t)
  PROVE  Kept
<1> PICK nd, cl, fr, an, f, nd2, g : /\ nd = node /\ cl = call /\ fr = frame /\ an = answer
                                     /\ f = frame[t] /\ nd2 = node' /\ g = [f EXCEPT !.at = "left"]
  OBVIOUS
<1>1. /\ f.at = "maps" /\ nd[f.shared].move_map_writers_access = NULL /\ SetFrame(t, g)
      /\ nd2 = WithMoveLock(nd, f.shared, t) /\ Inv(nd, cl, fr, an, K, dp) /\ t \in Thread /\ f = fr[t]
  BY DEF LockMoves, WithMoveLock
<1>2. f \in FrameType /\ "left" \in Ats /\ g = [f EXCEPT !.at = "left"]
  BY DEF Inv, Ats
<1>3. g \in FrameType /\ g.at = "left" /\ SameButAt(f, g)
  BY ONLY <1>2, WithAt
<1>4. \E K2, e : Inv(nd2, cl, [fr EXCEPT ![t] = g], an, K2, e)
  BY ONLY <1>1, <1>3, LockMovesStep
<1> QED BY <1>1, <1>4 DEF SetFrame, Kept

\* The maps in the order of the paths.
LEMMA MapsAre ==
  ASSUME NEW nd, nd = node, NEW c, NEW f, NEW k, Local(nd, c, f, k), f.at \in {"left", "right"},
         NEW maps, maps = MapsInOrder(c, f), NEW n, n = maps[IF f.at = "left" THEN 1 ELSE 2]
  PROVE  /\ f.at = "left" => n = FirstMap(nd, c, f)
         /\ f.at = "right" => n = LastMap(nd, c, f)
         /\ n = Last(maps) <=> f.at = "right" \/ nd[f.source].parent = f.target_parent
<1> PICK p, q : p = nd[f.source].parent /\ q = f.target_parent
  OBVIOUS
<1>1. f.at = "right" => p # q
  BY DEF Local, MapsOK
<1>2. CASE p = q
  <2>1. maps = <<p>>
    BY <1>2 DEF MapsInOrder
  <2>2. maps[1] = p /\ Last(maps) = p
    BY <2>1 DEF Last
  <2> QED BY <1>1, <1>2, <2>2 DEF FirstMap
<1>3. ASSUME p # q, NEW a, NEW b, maps = <<a, b>>, a = FirstMap(nd, c, f), b = LastMap(nd, c, f)
      PROVE  /\ f.at = "left" => n = FirstMap(nd, c, f)
             /\ f.at = "right" => n = LastMap(nd, c, f)
             /\ n = Last(maps) <=> f.at = "right" \/ p = q
  <2>1. maps[1] = a /\ maps[2] = b /\ Last(maps) = b
    BY <1>3 DEF Last
  <2>2. a # b
    BY <1>3 DEF FirstMap, LastMap
  <2> QED BY <1>3, <2>1, <2>2
<1>4. CASE p # q /\ SourceFirst(c)
  <2>1. maps = <<p, q>>
    BY <1>4 DEF MapsInOrder
  <2>2. p = FirstMap(nd, c, f) /\ q = LastMap(nd, c, f)
    BY <1>4 DEF FirstMap, LastMap
  <2> QED BY <1>3, <1>4, <2>1, <2>2
<1>5. CASE p # q /\ ~SourceFirst(c)
  <2>1. maps = <<q, p>>
    BY <1>5 DEF MapsInOrder
  <2>2. q = FirstMap(nd, c, f) /\ p = LastMap(nd, c, f)
    BY <1>5 DEF FirstMap, LastMap
  <2> QED BY <1>3, <1>5, <2>1, <2>2
<1> QED BY <1>2, <1>4, <1>5

LEMMA AcquireMapKept ==
  ASSUME NEW K, NEW dp, Inv(node, call, frame, answer, K, dp), NEW t \in Thread, AcquireMap(t)
  PROVE  Kept
<1> PICK nd, cl, fr, an, f, nd2, c, k : /\ nd = node /\ cl = call /\ fr = frame /\ an = answer
                                        /\ f = frame[t] /\ nd2 = node' /\ c = call[t] /\ k = K[t]
  OBVIOUS
<1> PICK maps, n : maps = MapsInOrder(c, f) /\ n = maps[IF f.at = "left" THEN 1 ELSE 2]
  OBVIOUS
<1> PICK last, nd1 : last = (n = Last(maps)) /\ nd1 = WithMapWriter(nd, n, t)
  OBVIOUS
<1> PICK g : g = [f EXCEPT !.at = IF last THEN "transfer" ELSE "right"]
  OBVIOUS
<1>1. f.at \in {"left", "right"} /\ nd[n].map_writer = NULL /\ SetFrame(t, g)
  BY DEF AcquireMap, MapFree
<1>2. (~last => nd2 = nd1) /\ (last => nd2 = WithMoveLock(nd1, f.shared, NULL))
  BY DEF AcquireMap, WithMapWriter, WithMoveLock
<1>3. Local(nd, c, f, k) /\ f \in FrameType /\ {"right", "transfer"} \subseteq Ats
  BY DEF Inv, Ats
<1>4. /\ f.at = "left" => n = FirstMap(nd, c, f)
      /\ f.at = "right" => n = LastMap(nd, c, f)
      /\ last <=> f.at = "right" \/ nd[f.source].parent = f.target_parent
  <2>1. /\ nd = node /\ f.at \in {"left", "right"} /\ Local(nd, c, f, k) /\ maps = MapsInOrder(c, f)
        /\ n = maps[IF f.at = "left" THEN 1 ELSE 2] /\ (last <=> n = Last(maps))
    BY <1>1, <1>3
  <2>2. /\ f.at = "left" => n = FirstMap(nd, c, f)
        /\ f.at = "right" => n = LastMap(nd, c, f)
        /\ n = Last(maps) <=> f.at = "right" \/ nd[f.source].parent = f.target_parent
    BY ONLY <2>1, MapsAre
  <2> QED BY ONLY <2>1, <2>2
<1>5. g \in FrameType /\ SameButAt(f, g) /\ (last => g.at = "transfer") /\ (~last => g.at = "right")
  <2> PICK a : a = IF last THEN "transfer" ELSE "right"
    OBVIOUS
  <2>1. f \in FrameType /\ a \in Ats /\ g = [f EXCEPT !.at = a]
    BY <1>3
  <2>2. g \in FrameType /\ SameButAt(f, g) /\ g.at = a
    BY ONLY <2>1, WithAt
  <2> QED BY <2>2
<1>6. Inv(nd, cl, fr, an, K, dp) /\ t \in Thread /\ f = fr[t] /\ c = cl[t] /\ nd1 = WithMapWriter(nd, n, t)
  OBVIOUS
<1>7. \E K2, e : Inv(nd2, cl, [fr EXCEPT ![t] = g], an, K2, e)
  BY ONLY <1>1, <1>2, <1>4, <1>5, <1>6, MapStep
<1>8. node' = nd2 /\ call' = cl /\ answer' = an /\ frame' = [fr EXCEPT ![t] = g]
  BY <1>1 DEF SetFrame
<1> QED BY ONLY <1>7, <1>8 DEF Kept

LEMMA TransferKept ==
  ASSUME NEW K, NEW dp, Inv(node, call, frame, answer, K, dp), NEW t \in Thread, Transfer(t)
  PROVE  Kept
<1> PICK nd, cl, fr, an, f, nd2, c, b : /\ nd = node /\ cl = call /\ fr = frame /\ an = answer
                                        /\ f = frame[t] /\ nd2 = node' /\ c = call[t] /\ b = TargetName(c.target)
  OBVIOUS
<1>1. Inv(nd, cl, fr, an, K, dp) /\ t \in Thread /\ f = fr[t] /\ f.at = "transfer" /\ c = cl[t]
  BY DEF Transfer
<1>2. CASE nd[f.target_parent].children[b] # NULL
  <2>1. SetFrame(t, Do(f, FinalMaps(c, f) \o TargetExists(f))) /\ node' = nd
    BY <1>2 DEF Transfer
  <2>2. nd[f.source].parent = node[f.source].parent
    OBVIOUS
  <2>3. \E K2, e : Inv(nd, cl, [fr EXCEPT ![t] = Do(f, FinalMaps(c, f) \o TargetExists(f))], an, K2, e)
    BY ONLY <1>1, <2>2, TargetExistsStep
  <2> QED BY <2>1, <2>3 DEF SetFrame, Kept
<1>3. CASE nd[f.target_parent].children[b] = NULL
  <2> PICK g : g = [f EXCEPT !.at = "discard"]
    OBVIOUS
  <2>1. SetFrame(t, g)
    BY <1>3 DEF Transfer
  <2>2. nd2 = WithMoved(nd, f.source, f.target_parent, TargetName(c.target))
    BY <1>3 DEF Transfer, WithMoved
  <2>3. f \in FrameType /\ "discard" \in Ats /\ g = [f EXCEPT !.at = "discard"]
    BY DEF Inv, Ats
  <2>4. g \in FrameType /\ g.at = "discard" /\ SameButAt(f, g)
    BY ONLY <2>3, WithAt
  <2>5. nd[f.target_parent].children[TargetName(c.target)] = NULL
    BY <1>3
  <2>6. \E K2, e : Inv(nd2, cl, [fr EXCEPT ![t] = g], an, K2, e)
    BY ONLY <1>1, <2>2, <2>4, <2>5, TransferStep
  <2>7. node' = nd2 /\ call' = cl /\ answer' = an /\ frame' = [fr EXCEPT ![t] = g]
    BY <2>1 DEF SetFrame
  <2> QED BY ONLY <2>6, <2>7 DEF Kept
<1> QED BY <1>2, <1>3

\* The folder that a thread takes away.
LEMMA DiscardedIs ==
  ASSUME NEW K, NEW dp, Inv(node, call, frame, answer, K, dp), NEW t \in Thread, Gone(frame[t])
  PROVE  Discarded(t) = Taken(frame[t]) /\ Discarded(t) \in NodeId
<1>1. Local(node, call[t], frame[t], K[t])
  BY DEF Inv
<1>2. (call[t].op = "move" <=> Moving(frame[t])) /\ Taken(frame[t]) \in NodeId
  BY <1>1, GoneFacts
<1> QED BY <1>2 DEF Discarded, Taken

LEMMA DiscardKept ==
  ASSUME NEW K, NEW dp, Inv(node, call, frame, answer, K, dp), NEW t \in Thread, Discard(t)
  PROVE  Kept
<1> PICK nd, cl, fr, an, f, nd2, n : /\ nd = node /\ cl = call /\ fr = frame /\ an = answer
                                     /\ f = frame[t] /\ nd2 = node' /\ n = Taken(f)
  OBVIOUS
<1>1. f.at = "discard" /\ Discarded(t) = n /\ n \in NodeId
  <2>1. f.at = "discard" /\ Gone(f)
    BY DEF Discard, Gone
  <2> QED BY <2>1, DiscardedIs
<1>2. PICK m \in EmergencyOn(nd[n]) : AwaitDiscarded(t, m)
  BY <1>1 DEF Discard
<1> PICK waits, nd1 : waits = StillReferenced(m) /\ nd1 = [nd EXCEPT ![n] = m]
  OBVIOUS
<1> PICK g : g = [f EXCEPT !.at = IF waits THEN "discarding" ELSE "calm"]
  OBVIOUS
<1>3. SetFrame(t, g) /\ nd2 = [nd EXCEPT ![n] = IF waits THEN SleepPrivate(m, t) ELSE m]
  BY <1>1, <1>2 DEF AwaitDiscarded, SetNode
<1>4. (waits => nd2 = Asleep(nd1, n, t)) /\ (~waits => nd2 = nd1)
  <2>1. nd \in [NodeId -> NodeType]
    BY DEF Inv
  <2> QED BY <1>1, <1>3, <2>1 DEF Asleep
<1>5. f \in FrameType /\ {"discarding", "calm"} \subseteq Ats
  BY DEF Inv, Ats
<1>6. g \in FrameType /\ SameButAt(f, g) /\ (waits => g.at = "discarding") /\ (~waits => g.at = "calm")
  <2> PICK a : a = IF waits THEN "discarding" ELSE "calm"
    OBVIOUS
  <2>1. f \in FrameType /\ a \in Ats /\ g = [f EXCEPT !.at = a]
    BY <1>5
  <2>2. g \in FrameType /\ SameButAt(f, g) /\ g.at = a
    BY ONLY <2>1, WithAt
  <2> QED BY <2>2
<1>7. /\ Inv(nd, cl, fr, an, K, dp) /\ t \in Thread /\ f = fr[t] /\ n = Taken(f) /\ m \in EmergencyOn(nd[n])
      /\ (waits <=> StillReferenced(m))
  BY <1>2
<1>8. nd1 = [nd EXCEPT ![n] = m]
  OBVIOUS
<1>9. \E K2, e : Inv(nd2, cl, [fr EXCEPT ![t] = g], an, K2, e)
  BY ONLY <1>1, <1>4, <1>6, <1>7, <1>8, DiscardStep
<1>10. node' = nd2 /\ call' = cl /\ answer' = an /\ frame' = [fr EXCEPT ![t] = g]
  BY <1>3 DEF SetFrame
<1> QED BY ONLY <1>9, <1>10 DEF Kept

LEMMA DiscardAgainKept ==
  ASSUME NEW K, NEW dp, Inv(node, call, frame, answer, K, dp), NEW t \in Thread, DiscardAgain(t)
  PROVE  Kept
<1> PICK nd, cl, fr, an, f, nd2, n : /\ nd = node /\ cl = call /\ fr = frame /\ an = answer
                                     /\ f = frame[t] /\ nd2 = node' /\ n = Taken(f)
  OBVIOUS
<1>1. f.at = "discarding" /\ Discarded(t) = n /\ n \in NodeId
  <2>1. f.at = "discarding" /\ Gone(f)
    BY DEF DiscardAgain, Gone
  <2> QED BY <2>1, DiscardedIs
<1> PICK waits : waits = StillReferenced(nd[n])
  OBVIOUS
<1> PICK g : g = [f EXCEPT !.at = IF waits THEN "discarding" ELSE "calm"]
  OBVIOUS
<1>2. /\ t \notin nd[n].private_access /\ SetFrame(t, g)
      /\ nd2 = [nd EXCEPT ![n] = IF waits THEN SleepPrivate(nd[n], t) ELSE nd[n]]
  BY <1>1 DEF DiscardAgain, AwaitDiscarded, SetNode
<1>3. (waits => nd2 = Asleep(nd, n, t)) /\ (~waits => nd2 = nd)
  <2>1. nd \in [NodeId -> NodeType]
    BY DEF Inv
  <2> QED BY <1>1, <1>2, <2>1 DEF Asleep
<1>4. f \in FrameType /\ {"discarding", "calm"} \subseteq Ats
  BY DEF Inv, Ats
<1>5. g \in FrameType /\ SameButAt(f, g) /\ (waits => g.at = "discarding") /\ (~waits => g.at = "calm")
  <2> PICK a : a = IF waits THEN "discarding" ELSE "calm"
    OBVIOUS
  <2>1. f \in FrameType /\ a \in Ats /\ g = [f EXCEPT !.at = a]
    BY <1>4
  <2>2. g \in FrameType /\ SameButAt(f, g) /\ g.at = a
    BY ONLY <2>1, WithAt
  <2> QED BY <2>2
<1>6. /\ Inv(nd, cl, fr, an, K, dp) /\ t \in Thread /\ f = fr[t] /\ n = Taken(f)
      /\ (waits <=> StillReferenced(nd[n]))
  OBVIOUS
<1>7. \E K2, e : Inv(nd2, cl, [fr EXCEPT ![t] = g], an, K2, e)
  BY ONLY <1>1, <1>2, <1>3, <1>5, <1>6, DiscardAgainStep
<1>8. node' = nd2 /\ call' = cl /\ answer' = an /\ frame' = [fr EXCEPT ![t] = g]
  BY <1>2 DEF SetFrame
<1> QED BY ONLY <1>7, <1>8 DEF Kept

LEMMA CalmKept ==
  ASSUME NEW K, NEW dp, Inv(node, call, frame, answer, K, dp), NEW t \in Thread, Calm(t)
  PROVE  Kept
<1> PICK nd, cl, fr, an, f, nd2, n, c : /\ nd = node /\ cl = call /\ fr = frame /\ an = answer
                                        /\ f = frame[t] /\ nd2 = node' /\ n = Taken(f) /\ c = call[t]
  OBVIOUS
<1>1. f.at = "calm" /\ Discarded(t) = n /\ n \in NodeId
  <2>1. f.at = "calm" /\ Gone(f)
    BY DEF Calm, Gone
  <2> QED BY <2>1, DiscardedIs
<1>2. nd2 = [nd EXCEPT ![n] = EmergencyOff(nd[n])] /\ SetFrame(t, Do(f, AfterDiscard(c, f)))
  BY <1>1 DEF Calm, SetNode
<1>3. /\ Inv(nd, cl, fr, an, K, dp) /\ t \in Thread /\ f = fr[t] /\ n = Taken(f) /\ c = cl[t]
      /\ nd[f.source].parent = node[f.source].parent
  OBVIOUS
<1>4. \E K2, e : Inv(nd2, cl, [fr EXCEPT ![t] = Do(f, AfterDiscard(c, f))], an, K2, e)
  BY ONLY <1>1, <1>2, <1>3, CalmStep
<1>5. node' = nd2 /\ call' = cl /\ answer' = an /\ frame' = [fr EXCEPT ![t] = Do(f, AfterDiscard(c, f))]
  BY <1>2 DEF SetFrame
<1> QED BY ONLY <1>4, <1>5 DEF Kept

\* What a thread with a list does.
LEMMA HeadFolder ==
  ASSUME NEW K, NEW dp, Inv(node, call, frame, answer, K, dp), NEW t \in Thread, NEW f, f = frame[t], f.at = "todo",
         NEW x, x = Head(f.todo), x[1] \notin {"notify", "return"}
  PROVE  x[2] \in NodeId
<1>1. f.todo \in Seq(Items) /\ Len(f.todo) > 0
  BY DEF Inv, Local, FrameOK, ListOK, FrameType
<1>2. x \in Items
  BY <1>1
<1>3. x[1] \notin {"notify", "return"}
  OBVIOUS
<1> QED BY ONLY <1>2, <1>3, ItemIs

LEMMA LeaveReaderKept ==
  ASSUME NEW K, NEW dp, Inv(node, call, frame, answer, K, dp), NEW t \in Thread, LeaveReader(t)
  PROVE  Kept
<1> PICK nd, cl, fr, an, f, nd2 : /\ nd = node /\ cl = call /\ fr = frame /\ an = answer
                                  /\ f = frame[t] /\ nd2 = node'
  OBVIOUS
<1> PICK x, n, g : x = Head(f.todo) /\ n = x[2] /\ g = Do(f, Tail(f.todo))
  OBVIOUS
<1>1. f.at = "todo" /\ x[1] = "readerFinal" /\ n = Item(t) /\ n \in NodeId
  <2>1. f.at = "todo" /\ x[1] = "readerFinal" /\ n = Item(t)
    BY DEF LeaveReader, Doing, Item
  <2>2. /\ Inv(node, call, frame, answer, K, dp) /\ t \in Thread /\ f = frame[t] /\ f.at = "todo"
        /\ x = Head(f.todo) /\ x[1] \notin {"notify", "return"}
    BY <2>1
  <2>3. x[2] \in NodeId
    BY ONLY <2>2, HeadFolder
  <2> QED BY <2>1, <2>3
<1>2. SetFrame(t, g)
  BY DEF LeaveReader, Done
<1>3. PICK m2 \in ReaderLeave(nd[n]) : nd2 = [nd EXCEPT ![n] = m2]
  BY <1>1 DEF LeaveReader, SetNode
<1>4. Inv(nd, cl, fr, an, K, dp) /\ t \in Thread /\ f = fr[t] /\ x = Head(f.todo) /\ n = x[2] /\ g = Do(f, Tail(f.todo))
      /\ m2 \in ReaderLeave(nd[n]) /\ nd2 = [nd EXCEPT ![n] = m2]
  BY <1>3
<1>5. \E K2, e : Inv(nd2, cl, [fr EXCEPT ![t] = g], an, K2, e)
  BY ONLY <1>1, <1>4, LeaveReaderStep
<1>6. node' = nd2 /\ call' = cl /\ answer' = an /\ frame' = [fr EXCEPT ![t] = g]
  BY <1>2 DEF SetFrame
<1> QED BY ONLY <1>5, <1>6 DEF Kept

LEMMA LeaveWriterKept ==
  ASSUME NEW K, NEW dp, Inv(node, call, frame, answer, K, dp), NEW t \in Thread, LeaveWriter(t)
  PROVE  Kept
<1> PICK nd, cl, fr, an, f, nd2 : /\ nd = node /\ cl = call /\ fr = frame /\ an = answer
                                  /\ f = frame[t] /\ nd2 = node'
  OBVIOUS
<1> PICK x, n, g : x = Head(f.todo) /\ n = x[2] /\ g = Do(f, Tail(f.todo))
  OBVIOUS
<1>1. f.at = "todo" /\ x[1] = "writerFinal" /\ n = Item(t) /\ n \in NodeId
  <2>1. f.at = "todo" /\ x[1] = "writerFinal" /\ n = Item(t)
    BY DEF LeaveWriter, Doing, Item
  <2>2. /\ Inv(node, call, frame, answer, K, dp) /\ t \in Thread /\ f = frame[t] /\ f.at = "todo"
        /\ x = Head(f.todo) /\ x[1] \notin {"notify", "return"}
    BY <2>1
  <2>3. x[2] \in NodeId
    BY ONLY <2>2, HeadFolder
  <2> QED BY <2>1, <2>3
<1>2. SetFrame(t, g)
  BY DEF LeaveWriter, Done
<1>3. PICK m2 \in WriterLeave(nd[n]) : nd2 = [nd EXCEPT ![n] = m2]
  BY <1>1 DEF LeaveWriter, SetNode
<1>4. Inv(nd, cl, fr, an, K, dp) /\ t \in Thread /\ f = fr[t] /\ x = Head(f.todo) /\ n = x[2] /\ g = Do(f, Tail(f.todo))
      /\ m2 \in WriterLeave(nd[n]) /\ nd2 = [nd EXCEPT ![n] = m2]
  BY <1>3
<1>5. \E K2, e : Inv(nd2, cl, [fr EXCEPT ![t] = g], an, K2, e)
  BY ONLY <1>1, <1>4, LeaveWriterStep
<1>6. node' = nd2 /\ call' = cl /\ answer' = an /\ frame' = [fr EXCEPT ![t] = g]
  BY <1>2 DEF SetFrame
<1> QED BY ONLY <1>5, <1>6 DEF Kept

LEMMA LeaveMapKept ==
  ASSUME NEW K, NEW dp, Inv(node, call, frame, answer, K, dp), NEW t \in Thread, LeaveMap(t)
  PROVE  Kept
<1> PICK nd, cl, fr, an, f, nd2 : /\ nd = node /\ cl = call /\ fr = frame /\ an = answer
                                  /\ f = frame[t] /\ nd2 = node'
  OBVIOUS
<1> PICK x, n, g : x = Head(f.todo) /\ n = x[2] /\ g = Do(f, Tail(f.todo))
  OBVIOUS
<1>1. f.at = "todo" /\ x[1] = "mapFinal" /\ n = Item(t) /\ n \in NodeId
  <2>1. f.at = "todo" /\ x[1] = "mapFinal" /\ n = Item(t)
    BY DEF LeaveMap, Doing, Item
  <2>2. /\ Inv(node, call, frame, answer, K, dp) /\ t \in Thread /\ f = frame[t] /\ f.at = "todo"
        /\ x = Head(f.todo) /\ x[1] \notin {"notify", "return"}
    BY <2>1
  <2>3. x[2] \in NodeId
    BY ONLY <2>2, HeadFolder
  <2> QED BY <2>1, <2>3
<1>2. SetFrame(t, g)
  BY DEF LeaveMap, Done
<1>3. nd2 = WithMapWriter(nd, n, NULL)
  <2>1. nd \in [NodeId -> NodeType]
    BY DEF Inv
  <2> QED BY <1>1, <2>1 DEF LeaveMap, SetNode, WithMapWriter
<1>4. Inv(nd, cl, fr, an, K, dp) /\ t \in Thread /\ f = fr[t] /\ x = Head(f.todo) /\ n = x[2] /\ g = Do(f, Tail(f.todo))
      /\ nd2 = WithMapWriter(nd, n, NULL)
  BY <1>3
<1>5. \E K2, e : Inv(nd2, cl, [fr EXCEPT ![t] = g], an, K2, e)
  BY ONLY <1>1, <1>4, LeaveMapStep
<1>6. node' = nd2 /\ call' = cl /\ answer' = an /\ frame' = [fr EXCEPT ![t] = g]
  BY <1>2 DEF SetFrame
<1> QED BY ONLY <1>5, <1>6 DEF Kept

LEMMA RenameMovedKept ==
  ASSUME NEW K, NEW dp, Inv(node, call, frame, answer, K, dp), NEW t \in Thread, RenameMoved(t)
  PROVE  Kept
<1> PICK nd, cl, fr, an, f, nd2 : /\ nd = node /\ cl = call /\ fr = frame /\ an = answer
                                  /\ f = frame[t] /\ nd2 = node'
  OBVIOUS
<1> PICK x, n, g : x = Head(f.todo) /\ n = x[2] /\ g = Do(f, Tail(f.todo))
  OBVIOUS
<1>1. f.at = "todo" /\ x[1] = "rename" /\ n = Item(t) /\ n \in NodeId
  <2>1. f.at = "todo" /\ x[1] = "rename" /\ n = Item(t)
    BY DEF RenameMoved, Doing, Item
  <2>2. /\ Inv(node, call, frame, answer, K, dp) /\ t \in Thread /\ f = frame[t] /\ f.at = "todo"
        /\ x = Head(f.todo) /\ x[1] \notin {"notify", "return"}
    BY <2>1
  <2>3. x[2] \in NodeId
    BY ONLY <2>2, HeadFolder
  <2> QED BY <2>1, <2>3
<1>2. SetFrame(t, g)
  BY DEF RenameMoved, Done
<1>3. nd2 = WithPlace(nd, n, f.target_parent, TargetName(cl[t].target))
  <2>1. nd \in [NodeId -> NodeType]
    BY DEF Inv
  <2> QED BY <1>1, <2>1 DEF RenameMoved, SetNode, WithPlace
<1>4. Inv(nd, cl, fr, an, K, dp) /\ t \in Thread /\ f = fr[t] /\ x = Head(f.todo) /\ n = x[2] /\ g = Do(f, Tail(f.todo))
      /\ nd2 = WithPlace(nd, n, f.target_parent, TargetName(cl[t].target))
  BY <1>3
<1>5. \E K2, e : Inv(nd2, cl, [fr EXCEPT ![t] = g], an, K2, e)
  BY ONLY <1>1, <1>4, RenameStep
<1>6. node' = nd2 /\ call' = cl /\ answer' = an /\ frame' = [fr EXCEPT ![t] = g]
  BY <1>2 DEF SetFrame
<1> QED BY ONLY <1>5, <1>6 DEF Kept

LEMMA FreeRemovedKept ==
  ASSUME NEW K, NEW dp, Inv(node, call, frame, answer, K, dp), NEW t \in Thread, FreeRemoved(t)
  PROVE  Kept
<1> PICK nd, cl, fr, an, f, nd2 : /\ nd = node /\ cl = call /\ fr = frame /\ an = answer
                                  /\ f = frame[t] /\ nd2 = node'
  OBVIOUS
<1> PICK x, n, g : x = Head(f.todo) /\ n = x[2] /\ g = Do(f, Tail(f.todo))
  OBVIOUS
<1>1. f.at = "todo" /\ x[1] = "free" /\ n = Item(t) /\ n \in NodeId
  <2>1. f.at = "todo" /\ x[1] = "free" /\ n = Item(t)
    BY DEF FreeRemoved, Doing, Item
  <2>2. /\ Inv(node, call, frame, answer, K, dp) /\ t \in Thread /\ f = frame[t] /\ f.at = "todo"
        /\ x = Head(f.todo) /\ x[1] \notin {"notify", "return"}
    BY <2>1
  <2>3. x[2] \in NodeId
    BY ONLY <2>2, HeadFolder
  <2> QED BY <2>1, <2>3
<1>2. SetFrame(t, g)
  BY DEF FreeRemoved, Done
<1>3. nd2 = [nd EXCEPT ![n] = node_free]
  <2>1. nd \in [NodeId -> NodeType]
    BY DEF Inv
  <2> QED BY <1>1, <2>1 DEF FreeRemoved, SetNode
<1>4. Inv(nd, cl, fr, an, K, dp) /\ t \in Thread /\ f = fr[t] /\ x = Head(f.todo) /\ n = x[2] /\ g = Do(f, Tail(f.todo))
      /\ nd2 = [nd EXCEPT ![n] = node_free]
  BY <1>3
<1>5. \E K2, e : Inv(nd2, cl, [fr EXCEPT ![t] = g], an, K2, e)
  BY ONLY <1>1, <1>4, FreeStep
<1>6. node' = nd2 /\ call' = cl /\ answer' = an /\ frame' = [fr EXCEPT ![t] = g]
  BY <1>2 DEF SetFrame
<1> QED BY ONLY <1>5, <1>6 DEF Kept

LEMMA NotifyParentKept ==
  ASSUME NEW K, NEW dp, Inv(node, call, frame, answer, K, dp), NEW t \in Thread, NotifyParent(t)
  PROVE  Kept
<1> PICK nd, cl, fr, an, f, nd2 : /\ nd = node /\ cl = call /\ fr = frame /\ an = answer
                                  /\ f = frame[t] /\ nd2 = node'
  OBVIOUS
<1> PICK x, n, h : x = Head(f.todo) /\ n = x[2] /\ h = Do(f, <<Notify(nd[n].parent, x[3])>> \o Tail(f.todo))
  OBVIOUS
<1>1. f.at = "todo" /\ x[1] = "notify" /\ n = Item(t)
  BY DEF NotifyParent, Doing, Item
<1>2. x[2] # x[3]
  BY <1>1 DEF NotifyParent, Over
<1>3. SetFrame(t, h)
  BY <1>1 DEF NotifyParent
<1>4. PICK m2 \in Notified(nd[n]) : nd2 = [nd EXCEPT ![n] = m2]
  BY <1>1 DEF NotifyParent, SetNode
<1>5. Inv(nd, cl, fr, an, K, dp) /\ t \in Thread /\ f = fr[t] /\ x = Head(f.todo) /\ n = x[2]
      /\ h = Do(f, <<Notify(nd[n].parent, x[3])>> \o Tail(f.todo))
      /\ m2 \in Notified(nd[n]) /\ nd2 = [nd EXCEPT ![n] = m2]
  BY <1>4
<1>6. \E K2, e : Inv(nd2, cl, [fr EXCEPT ![t] = h], an, K2, e)
  BY ONLY <1>1, <1>2, <1>5, NotifyStep
<1>7. node' = nd2 /\ call' = cl /\ answer' = an /\ frame' = [fr EXCEPT ![t] = h]
  BY <1>3 DEF SetFrame
<1> QED BY ONLY <1>6, <1>7 DEF Kept

LEMMA NotifyEndKept ==
  ASSUME NEW K, NEW dp, Inv(node, call, frame, answer, K, dp), NEW t \in Thread, NotifyEnd(t)
  PROVE  Kept
<1> PICK nd, cl, fr, an, f : /\ nd = node /\ cl = call /\ fr = frame /\ an = answer /\ f = frame[t]
  OBVIOUS
<1> PICK x, g : x = Head(f.todo) /\ g = Do(f, Tail(f.todo))
  OBVIOUS
<1>1. f.at = "todo" /\ x[1] = "notify"
  BY DEF NotifyEnd, Doing, Item
<1>2. x[2] = x[3]
  BY <1>1 DEF NotifyEnd, Over
<1>3. SetFrame(t, g) /\ node' = nd
  BY <1>1 DEF NotifyEnd, Done
<1>4. Inv(nd, cl, fr, an, K, dp) /\ t \in Thread /\ f = fr[t] /\ x = Head(f.todo) /\ g = Do(f, Tail(f.todo))
  OBVIOUS
<1>5. \E K2, e : Inv(nd, cl, [fr EXCEPT ![t] = g], an, K2, e)
  BY ONLY <1>1, <1>2, <1>4, NotifyEndStep
<1>6. node' = nd /\ call' = cl /\ answer' = an /\ frame' = [fr EXCEPT ![t] = g]
  BY <1>3 DEF SetFrame
<1> QED BY ONLY <1>5, <1>6 DEF Kept

LEMMA ReturnKept ==
  ASSUME NEW K, NEW dp, Inv(node, call, frame, answer, K, dp), DOMAIN answer = Thread,
         NEW t \in Thread, ReturnResult(t)
  PROVE  Kept
<1> PICK nd, cl, fr, an, f, x, an2 : /\ nd = node /\ cl = call /\ fr = frame /\ an = answer
                                     /\ f = frame[t] /\ x = Head(f.todo) /\ an2 = answer'
  OBVIOUS
<1>1. f.at = "todo" /\ x[1] = "return"
  BY DEF ReturnResult, Doing, Item
<1>2. \A u \in Thread \ {t} : an2[u] = an[u]
  BY DEF ReturnResult
<1>3. Inv(nd, cl, fr, an, K, dp) /\ t \in Thread /\ f = fr[t] /\ x = Head(f.todo)
  OBVIOUS
<1>4. \E K2, e : Inv(nd, cl, [fr EXCEPT ![t] = NoFrame], an2, K2, e)
  BY ONLY <1>1, <1>2, <1>3, ReturnStep
<1>5. node' = nd /\ call' = cl /\ answer' = an2 /\ frame' = [fr EXCEPT ![t] = NoFrame]
  BY DEF ReturnResult
<1> QED BY ONLY <1>4, <1>5 DEF Kept

-----------------------------------------------------------------------------
(* Where a mover stands.                                                   *)

\* Where a walk leads, a mover stands at one of its folders.
StandsAt == {"maps", "left", "right", "transfer", "discard", "discarding", "calm"}

LEMMA StandsIs ==
  ASSUME NEW f
  PROVE  Stands(f) <=> (Moving(f) /\ f.at \in StandsAt => f.cur \in {f.source, f.target_parent})
BY DEF Stands, StandsAt, Gone

LEMMA AwayStands ==
  ASSUME NEW f, f.at \notin StandsAt
  PROVE  Stands(f)
BY StandsIs

LEMMA DoStands ==
  ASSUME NEW f \in FrameType, NEW s
  PROVE  Stands(Do(f, s))
<1>1. Do(f, s).at = "todo"
  BY DEF Do, FrameType
<1> QED BY <1>1, AwayStands DEF StandsAt

LEMMA AtStands ==
  ASSUME NEW f \in FrameType, NEW a, Stands(f), ~Moving(f) \/ f.at \in StandsAt \/ a \notin StandsAt,
         NEW g, g = [f EXCEPT !.at = a]
  PROVE  Stands(g)
<1>1. g.at = a /\ g.walk = f.walk /\ g.cur = f.cur /\ g.source = f.source /\ g.target_parent = f.target_parent
  BY DEF FrameType
<1>2. Moving(g) <=> Moving(f)
  BY <1>1 DEF Moving
<1> QED BY <1>1, <1>2, StandsIs

LEMMA EnterStands ==
  ASSUME NEW f \in FrameType, NEW n, NEW role
  PROVE  Enter(f, n, role).at = "lock" /\ Stands(Enter(f, n, role))
<1>1. Enter(f, n, role).at = "lock"
  BY DEF Enter, FrameType
<1> QED BY <1>1, AwayStands DEF StandsAt

LEMMA SeekStands ==
  ASSUME NEW f \in FrameType, NEW path, NEW walk
  PROVE  Stands(WalkFromShared(f, path, walk))
<1>1. WalkFromShared(f, path, walk).at = "get"
  BY DEF WalkFromShared, FrameType
<1> QED BY <1>1, AwayStands DEF StandsAt

\* The parent of the target is shared_node.
LEMMA SharedTargetStands ==
  ASSUME NEW c, NEW f \in FrameType, NEW g, g = TargetAcquired(c, [f EXCEPT !.target_parent = f.shared]),
         f.shared \in NodeId
  PROVE  \/ Stands(g)
         \/ g.at = "maps" /\ g.walk = f.walk /\ g.shared = f.shared /\ g.target_parent = g.shared
              /\ g.cur = f.cur /\ g.source = f.source
<1> PICK h : h = [f EXCEPT !.target_parent = f.shared]
  OBVIOUS
<1>1. h \in FrameType /\ h.walk = f.walk /\ h.shared = f.shared /\ h.target_parent = f.shared /\ h.cur = f.cur /\ h.source = f.source
  BY DEF FrameType
<1>2. g = TargetAcquired(c, h)
  OBVIOUS
<1>3. CASE SourceFirst(c)
  <2>1. g = [h EXCEPT !.at = "maps"]
    BY <1>2, <1>3 DEF TargetAcquired
  <2>2. g.at = "maps" /\ g.walk = h.walk /\ g.shared = h.shared /\ g.target_parent = h.target_parent /\ g.cur = h.cur /\ g.source = h.source
    BY <1>1, <2>1 DEF FrameType
  <2> QED BY <1>1, <2>2
<1>4. CASE ~SourceFirst(c)
  <2>1. g = SeekSource(c, h)
    BY <1>2, <1>4 DEF TargetAcquired
  <2> QED BY <1>1, <2>1, SeekStands DEF SeekSource
<1> QED BY <1>3, <1>4

LEMMA ArriveStands ==
  ASSUME NEW nd, NEW c, NEW f \in FrameType, NEW k, NEW n \in NodeId, f.walk \in Walks,
         NEW g, g = Arrive(c, f, n), Local(nd, c, g, k)
  PROVE  Stands(g)
<1>1. CASE f.walk \in {"list", "create", "remove"}
  <2>1. g = Enter(f, n, f.walk)
    BY <1>1 DEF Arrive
  <2> QED BY <2>1, EnterStands
<1>2. CASE f.walk = "shared"
  <2> PICK h : h = [f EXCEPT !.shared = n, !.source = n, !.target_parent = n]
    OBVIOUS
  <2>1. h \in FrameType
    BY DEF FrameType
  <2>2. g = Enter(h, n, "shared")
    BY <1>2 DEF Arrive
  <2> QED BY <2>1, <2>2, EnterStands
<1>3. CASE f.walk = "source"
  <2> PICK h : h = [f EXCEPT !.source = n]
    OBVIOUS
  <2>1. h \in FrameType
    BY DEF FrameType
  <2>2. g = Enter(h, n, "source")
    BY <1>3 DEF Arrive
  <2> QED BY <2>1, <2>2, EnterStands
<1>4. CASE f.walk = "target"
  <2>1. g = TargetReached(c, f, n)
    BY <1>4 DEF Arrive
  <2> PICK h : h = [f EXCEPT !.target_parent = n]
    OBVIOUS
  <2>2. CASE n # f.shared
    <3>1. h \in FrameType
      BY DEF FrameType
    <3>2. g = Enter(h, n, "target")
      BY <2>1, <2>2 DEF TargetReached
    <3> QED BY <3>1, <3>2, EnterStands
  <2>3. CASE n = f.shared
    <3>1. g = TargetAcquired(c, [f EXCEPT !.target_parent = f.shared]) /\ f.shared \in NodeId
      BY <2>1, <2>3 DEF TargetReached
    <3>2. SUFFICES ASSUME g.at = "maps", g.walk = f.walk, g.target_parent = g.shared PROVE FALSE
      BY <3>1, SharedTargetStands
    <3>3. Going(g) /\ Moving(g) /\ ~Leading(g)
      BY <1>4, <3>2 DEF Going, Moving, Leading, InLock
    <3>4. GoingOK(c, g)
      BY <3>3 DEF Local, FrameOK
    <3> QED BY <1>4, <3>2, <3>3, <3>4 DEF GoingOK
  <2> QED BY <2>2, <2>3
<1> QED BY <1>1, <1>2, <1>3, <1>4 DEF Walks

LEMMA WalkStands ==
  ASSUME NEW nd, NEW c, NEW f \in FrameType, NEW k, NEW n \in NodeId, f.walk \in Walks,
         NEW g, g = Walk(c, f, n), Local(nd, c, g, k)
  PROVE  Stands(g)
<1>1. CASE f.rest = <<>>
  BY <1>1, ArriveStands DEF Walk
<1>2. CASE f.rest # <<>>
  BY <1>2, EnterStands DEF Walk
<1> QED BY <1>1, <1>2

LEMMA StepStands ==
  ASSUME NEW nd, NEW c, NEW f \in FrameType, NEW k, f.walk \in Walks, f.rest # <<>>,
         NEW g, g = Step(c, f), Local(nd, c, g, k)
  PROVE  Stands(g)
<1>1. CASE f.next = NULL
  BY <1>1, DoStands DEF Step
<1>2. CASE f.next # NULL
  <2> PICK h : h = [f EXCEPT !.rest = Tail(@), !.skip = FALSE, !.next = NULL]
    OBVIOUS
  <2>1. f.rest \in Seq(Name) /\ f.next \in NodeId
    BY <1>2 DEF FrameType
  <2>2. Tail(f.rest) \in Seq(Name)
    BY <2>1
  <2>3. h = [f EXCEPT !.rest = Tail(f.rest), !.skip = FALSE, !.next = NULL]
    OBVIOUS
  <2>4. h \in FrameType /\ h.walk \in Walks
    BY <2>2, <2>3 DEF FrameType
  <2>5. g = Walk(c, h, f.next)
    BY <1>2 DEF Step
  <2> QED BY <2>1, <2>4, <2>5, WalkStands
<1> QED BY <1>1, <1>2

LEMMA EnteredStands ==
  ASSUME NEW nd, NEW c, NEW f, NEW k, Local(nd, c, f, k), f.at = "flag", NEW g, g = Entered(c, f)
  PROVE  Stands(g)
<1>1. f \in FrameType /\ GoingOK(c, f) /\ InLock(f)
  BY DEF Local, FrameOK, Going, InLock
<1>2. f.role \in {"step", "list", "create", "remove", "shared", "target", "source"} /\ Stands(f)
  BY <1>1, AwayStands DEF GoingOK, Walks, StandsAt
<1>3. CASE f.role \in {"step", "list", "create", "remove"}
  <2>1. g = [f EXCEPT !.at = "get"] \/ g = [f EXCEPT !.at = "body"]
    BY <1>3 DEF Entered
  <2>2. {"get", "body"} \cap StandsAt = {}
    BY DEF StandsAt
  <2> QED BY <1>1, <1>2, <2>1, <2>2, AtStands
<1>4. ASSUME ~SourceFirst(c) \/ f.role = "source", f.role \in {"shared", "source"}, g = SeekTarget(c, f)
      PROVE  Stands(g)
  <2>1. f.shared \in NodeId /\ (f.role = "source" => f.cur = f.source)
    BY <1>1, <1>4 DEF GoingOK, Moving
  <2>2. CASE Beyond(PathToParent(c.target), Shared(c)) # <<>>
    BY <1>1, <1>4, <2>2, SeekStands DEF SeekTarget
  <2>3. CASE Beyond(PathToParent(c.target), Shared(c)) = <<>>
    <3> PICK h : h = [f EXCEPT !.target_parent = f.shared]
      OBVIOUS
    <3>1. g = TargetAcquired(c, h)
      BY <1>4, <2>3 DEF SeekTarget, TargetReached
    <3>2. CASE SourceFirst(c)
      <4>1. f.cur = f.source
        BY <1>4, <2>1, <3>2
      <4>2. \/ Stands(g)
            \/ g.at = "maps" /\ g.walk = f.walk /\ g.shared = f.shared /\ g.target_parent = g.shared
                 /\ g.cur = f.cur /\ g.source = f.source
        BY <1>1, <2>1, <3>1, SharedTargetStands
      <4> QED BY <4>1, <4>2, StandsIs
    <3>3. CASE ~SourceFirst(c)
      <4>1. h \in FrameType
        BY <1>1, <2>1 DEF FrameType
      <4>2. g = SeekSource(c, h)
        BY <3>1, <3>3 DEF TargetAcquired
      <4> QED BY <4>1, <4>2, SeekStands DEF SeekSource
    <3> QED BY <3>2, <3>3
  <2> QED BY <2>2, <2>3
<1>5. CASE f.role = "shared"
  <2>1. CASE SourceFirst(c)
    <3>1. g = SeekSource(c, f)
      BY <1>5, <2>1 DEF Entered
    <3> QED BY <1>1, <3>1, SeekStands DEF SeekSource
  <2>2. CASE ~SourceFirst(c)
    <3>1. g = SeekTarget(c, f)
      BY <1>5, <2>2 DEF Entered
    <3> QED BY <1>4, <1>5, <2>2, <3>1
  <2> QED BY <2>1, <2>2
<1>6. ASSUME f.cur \in {f.source, f.target_parent}, g = [f EXCEPT !.at = "maps"]
      PROVE  Stands(g)
  <2>1. g.cur = f.cur /\ g.source = f.source /\ g.target_parent = f.target_parent
    BY <1>1, <1>6 DEF FrameType
  <2> QED BY <1>6, <2>1, StandsIs
<1>7. CASE f.role = "target"
  <2>1. g = TargetAcquired(c, f) /\ f.cur = f.target_parent
    BY <1>1, <1>7 DEF Entered, GoingOK
  <2>2. CASE SourceFirst(c)
    BY <1>6, <2>1, <2>2 DEF TargetAcquired
  <2>3. CASE ~SourceFirst(c)
    <3>1. g = SeekSource(c, f)
      BY <2>1, <2>3 DEF TargetAcquired
    <3> QED BY <1>1, <3>1, SeekStands DEF SeekSource
  <2> QED BY <2>2, <2>3
<1>8. CASE f.role = "source"
  <2>1. g = SourceAcquired(c, f) /\ f.cur = f.source
    BY <1>1, <1>8 DEF Entered, GoingOK
  <2>2. CASE ~SourceFirst(c)
    BY <1>6, <2>1, <2>2 DEF SourceAcquired
  <2>3. CASE SourceFirst(c) /\ IsPrefix(c.target, c.source)
    BY <1>1, <2>1, <2>3, DoStands DEF SourceAcquired
  <2>4. CASE SourceFirst(c) /\ ~IsPrefix(c.target, c.source)
    <3>1. g = SeekTarget(c, f)
      BY <2>1, <2>4 DEF SourceAcquired
    <3> QED BY <1>4, <1>8, <3>1
  <2> QED BY <2>2, <2>3, <2>4
<1> QED BY <1>2, <1>3, <1>5, <1>7, <1>8

-----------------------------------------------------------------------------
(* The initial states.                                                     *)

\* Nobody has asked for anything yet.
Resting(s) == TodoSummary(s, {}, {}, {}, {}, {}, {}, {}, {}) /\ s.goesAway = {} /\ s.passesOn = {}

\* A folder that nobody uses.
Untouched(m) ==
  /\ m.map_writer = NULL /\ m.readers_inside = 0 /\ m.readers_waiting = 0 /\ m.readers = {}
  /\ m.writers_inside = 0 /\ m.writers_waiting = 0 /\ m.writers = {} /\ m.change = "WRITERS"
  /\ m.subtree_threads = 0 /\ m.safe_hmap_get_count = 0 /\ m.private_access = {}
  /\ m.emergency_pass = FALSE /\ m.move_map_writers_access = NULL

LEMMA InitialChildIs ==
  ASSUME NEW d, NEW a
  PROVE  \/ /\ InitialChild(d, a) = NULL
            /\ \A n \in DOMAIN InitialTree : InitialTree[n] # [parent |-> d, name |-> a]
         \/ /\ InitialChild(d, a) \in DOMAIN InitialTree
            /\ InitialTree[InitialChild(d, a)] = [parent |-> d, name |-> a]
<1> DEFINE here == {n \in DOMAIN InitialTree : InitialTree[n] = [parent |-> d, name |-> a]}
<1>1. InitialChild(d, a) = IF here = {} THEN NULL ELSE CHOOSE n \in here : TRUE
  BY DEF InitialChild
<1>2. CASE here = {}
  BY <1>1, <1>2
<1>3. CASE here # {}
  <2>1. (CHOOSE n \in here : TRUE) \in here
    BY <1>3
  <2> QED BY <1>1, <1>3, <2>1
<1> QED BY <1>2, <1>3

\* The folders of InitialTree, and how they lie.
LEMMA InitialFolders ==
  /\ DOMAIN InitialTree \subseteq NodeId \ {Root}
  /\ \A n \in DOMAIN InitialTree :
       /\ InitialTree[n].parent \in DOMAIN InitialTree \cup {Root} /\ InitialTree[n].name \in Name
       /\ InitialTree[n] = [parent |-> InitialTree[n].parent, name |-> InitialTree[n].name]
  /\ \A m, n \in DOMAIN InitialTree : InitialTree[m] = InitialTree[n] => m = n
BY InitialTreeAssumption

LEMMA InitialNode ==
  ASSUME NEW nd, Init, nd = node, NEW n \in NodeId
  PROVE  /\ Untouched(nd[n]) /\ DOMAIN nd[n].children = Name
         /\ n # Root /\ n \notin DOMAIN InitialTree =>
              /\ nd[n].memory = "unused" /\ nd[n].parent = NULL /\ nd[n].name = NULL
              /\ \A a \in Name : nd[n].children[a] = NULL
         /\ n = Root \/ n \in DOMAIN InitialTree =>
              /\ nd[n].memory = "live" /\ nd[n].children = [a \in Name |-> InitialChild(n, a)]
              /\ IF n = Root THEN nd[n].parent = NULL /\ nd[n].name = NULL
                 ELSE nd[n].parent = InitialTree[n].parent /\ nd[n].name = InitialTree[n].name
<1> DEFINE m(p, a) == [node_new(p, a) EXCEPT !.children = [b \in Name |-> InitialChild(n, b)]]
<1>1. nd[n] = IF n # Root /\ n \notin DOMAIN InitialTree THEN Unused
              ELSE [(IF n = Root THEN node_new(NULL, NULL)
                     ELSE node_new(InitialTree[n].parent, InitialTree[n].name))
                    EXCEPT !.children = [a \in Name |-> InitialChild(n, a)]]
  BY DEF Init
<1>2. CASE n # Root /\ n \notin DOMAIN InitialTree
  <2>1. nd[n] = Unused
    BY <1>1, <1>2
  <2> QED BY <1>2, <2>1 DEF Unused, node_new, Untouched
<1>3. \A p, a : /\ Untouched(m(p, a)) /\ m(p, a).memory = "live" /\ m(p, a).parent = p /\ m(p, a).name = a
                /\ m(p, a).children = [b \in Name |-> InitialChild(n, b)]
  BY DEF node_new, Untouched
<1>4. CASE n = Root
  <2>1. nd[n] = m(NULL, NULL)
    BY <1>1, <1>4
  <2> HIDE DEF m
  <2> QED BY <1>3, <1>4, <2>1, InitialFolders
<1>5. CASE n # Root /\ n \in DOMAIN InitialTree
  <2>1. nd[n] = m(InitialTree[n].parent, InitialTree[n].name)
    BY <1>1, <1>5
  <2> HIDE DEF m
  <2> QED BY <1>3, <1>5, <2>1, InitialFolders
<1> QED BY <1>2, <1>4, <1>5

NewWith(p, a, ch) == [node_new(p, a) EXCEPT !.children = ch]

LEMMA NewType ==
  ASSUME NEW p \in NodeId \cup {NULL}, NEW a \in Name \cup {NULL}, NEW ch \in [Name -> NodeId \cup {NULL}]
  PROVE  NewWith(p, a, ch) \in NodeType
<1>1. {} \in ThreadSets /\ FALSE \in BOOLEAN /\ 0 \in Nat
  BY DEF ThreadSets
<1> QED BY <1>1 DEF NewWith, node_new, NodeType

LEMMA UnusedType == Unused \in NodeType
<1>1. {} \in ThreadSets /\ FALSE \in BOOLEAN /\ 0 \in Nat
  BY DEF ThreadSets
<1>2. [a \in Name |-> NULL] \in [Name -> NodeId \cup {NULL}] /\ "unused" \in {"unused", "live", "freed"}
  OBVIOUS
<1> QED BY <1>1, <1>2 DEF Unused, node_new, NodeType

LEMMA InitialType ==
  ASSUME NEW nd, Init, nd = node
  PROVE  nd \in [NodeId -> NodeType]
<1>1. nd = [n \in NodeId |-> nd[n]]
  BY DEF Init
<1>2. ASSUME NEW n \in NodeId
      PROVE  nd[n] \in NodeType
  <2> PICK ch : ch = [a \in Name |-> InitialChild(n, a)]
    OBVIOUS
  <2>1. ch \in [Name -> NodeId \cup {NULL}]
    BY InitialChildIs, InitialFolders
  <2>2. CASE n # Root /\ n \notin DOMAIN InitialTree
    <3>1. nd[n] = Unused
      BY <2>2 DEF Init
    <3> QED BY ONLY <3>1, UnusedType
  <2>3. CASE n = Root
    <3>1. nd[n] = NewWith(NULL, NULL, ch)
      BY <2>3, InitialFolders DEF Init, NewWith
    <3>2. NULL \in NodeId \cup {NULL} /\ NULL \in Name \cup {NULL}
      OBVIOUS
    <3> QED BY ONLY <2>1, <3>1, <3>2, NewType
  <2>4. CASE n # Root /\ n \in DOMAIN InitialTree
    <3>1. nd[n] = NewWith(InitialTree[n].parent, InitialTree[n].name, ch)
      BY <2>4 DEF Init, NewWith
    <3>2. InitialTree[n].parent \in NodeId \cup {NULL} /\ InitialTree[n].name \in Name \cup {NULL}
      BY <2>4, InitialFolders, TreeAssumption
    <3> QED BY <2>1, <3>1, <3>2, NewType
  <2> QED BY <2>2, <2>3, <2>4
<1> QED BY <1>1, <1>2

\* The tree at the start: as nd has it, F being the folders below Root.
InitialTreeOf(nd, F) ==
  /\ F \subseteq NodeId \ {Root} /\ Root \in NodeId
  /\ \A n \in NodeId : nd[n].memory = "live" <=> n = Root \/ n \in F
  /\ nd[Root].parent = NULL
  /\ \A n \in NodeId : nd[n].memory # "live" => nd[n].parent = NULL
  /\ \A n \in F : /\ nd[n].parent \in F \cup {Root} /\ nd[n].name \in Name
                  /\ nd[nd[n].parent].children[nd[n].name] = n
  /\ \A d \in NodeId, a \in Name : nd[d].children[a] # NULL =>
       /\ nd[d].memory = "live" /\ nd[d].children[a] \in F
       /\ nd[nd[d].children[a]].parent = d /\ nd[nd[d].children[a]].name = a

LEMMA InitialShape ==
  ASSUME NEW nd, Init, nd = node
  PROVE  InitialTreeOf(nd, DOMAIN InitialTree)
<1> PICK F : F = DOMAIN InitialTree
  OBVIOUS
<1>1. Root \in NodeId /\ F \subseteq NodeId \ {Root} /\ NULL \notin NodeId /\ "live" # "unused"
  BY TreeAssumption, InitialFolders
<1>2. \A n \in NodeId : nd[n].memory = "live" <=> n = Root \/ n \in F
  BY <1>1, InitialNode
<1>3. nd[Root].parent = NULL
  BY <1>1, InitialNode
<1>4. \A n \in NodeId : nd[n].memory # "live" => nd[n].parent = NULL
  BY InitialNode
<1>5. \A n \in F : nd[n].parent = InitialTree[n].parent /\ nd[n].name = InitialTree[n].name
  BY <1>1, InitialNode
<1>6. \A n \in F : nd[n].parent \in F \cup {Root} /\ nd[n].name \in Name
  BY <1>5, InitialFolders
<1>7. \A d \in NodeId, a \in Name : nd[d].children[a] # NULL =>
        d \in F \cup {Root} /\ nd[d].children[a] = InitialChild(d, a)
  <2>1. ASSUME NEW d \in NodeId, NEW a \in Name, nd[d].children[a] # NULL
        PROVE  d \in F \cup {Root} /\ nd[d].children[a] = InitialChild(d, a)
    <3>1. d = Root \/ d \in F
      <4> SUFFICES ASSUME d # Root, d \notin DOMAIN InitialTree PROVE FALSE
        OBVIOUS
      <4>1. \A b \in Name : nd[d].children[b] = NULL
        <5>1. d \in NodeId /\ nd[d] = Unused
          BY <2>1 DEF Init
        <5> QED BY <5>1 DEF Unused, node_new
      <4> QED BY <2>1, <4>1
    <3>2. nd[d].children = [b \in Name |-> InitialChild(d, b)]
      BY <3>1, InitialNode
    <3> QED BY <3>1, <3>2
  <2> QED BY <2>1
<1>8. ASSUME NEW n \in F
      PROVE  nd[nd[n].parent].children[nd[n].name] = n
  <2> PICK p, a : p = InitialTree[n].parent /\ a = InitialTree[n].name
    OBVIOUS
  <2>1. p \in F \cup {Root} /\ a \in Name /\ p \in NodeId /\ nd[n].parent = p /\ nd[n].name = a
    BY <1>1, <1>5, <1>6
  <2>2. nd[p].children = [b \in Name |-> InitialChild(p, b)]
    <3>1. p \in NodeId /\ (p = Root \/ p \in DOMAIN InitialTree)
      BY <2>1
    <3> QED BY <3>1, InitialNode
  <2>3. InitialTree[n] = [parent |-> p, name |-> a]
    BY InitialFolders
  <2>4. InitialChild(p, a) \in F /\ InitialTree[InitialChild(p, a)] = InitialTree[n]
    BY <2>3, InitialChildIs
  <2>5. InitialChild(p, a) = n
    BY <2>4, InitialFolders
  <2> QED BY <2>1, <2>2, <2>5
<1>9. ASSUME NEW d \in NodeId, NEW a \in Name, nd[d].children[a] # NULL
      PROVE  /\ nd[d].memory = "live" /\ nd[d].children[a] \in F
             /\ nd[nd[d].children[a]].parent = d /\ nd[nd[d].children[a]].name = a
  <2> PICK n : n = InitialChild(d, a)
    OBVIOUS
  <2>1. d \in F \cup {Root} /\ nd[d].children[a] = n /\ n # NULL
    BY <1>7, <1>9
  <2>2. n \in F /\ InitialTree[n] = [parent |-> d, name |-> a]
    BY <2>1, InitialChildIs
  <2>3. InitialTree[n].parent = d /\ InitialTree[n].name = a
    BY <2>2
  <2> QED BY <1>2, <1>5, <2>1, <2>2, <2>3
<1> QED BY <1>1, <1>2, <1>3, <1>4, <1>6, <1>8, <1>9 DEF InitialTreeOf

\* ... with the depths of its folders.
LEMMA InitialDepths ==
  ASSUME NEW nd, Init, nd = node
  PROVE  \E dp : /\ dp \in [NodeId -> Nat] /\ \E top \in Nat : \A n \in NodeId : dp[n] <= top
                 /\ \A d \in NodeId, a \in Name :
                      nd[d].children[a] # NULL => dp[d] < dp[nd[d].children[a]]
<1> PICK F : F = DOMAIN InitialTree
  OBVIOUS
<1>1. InitialTreeOf(nd, F)
  BY InitialShape
<1>2. PICK top : top = Cardinality(F)
  OBVIOUS
<1>3. top \in Nat
  <2>1. IsFiniteSet(F)
    BY TreeAssumption, InitialFolders, FS_Subset
  <2> QED BY <1>2, <2>1, FS_CardinalityType
<1>4. PICK depth \in [F \cup {Root} -> 0 .. top] : \A n \in F : depth[InitialTree[n].parent] < depth[n]
  BY <1>2, InitialTreeAssumption
<1>5. PICK dp : dp = [n \in NodeId |-> IF n \in F \cup {Root} THEN depth[n] ELSE 0]
  OBVIOUS
<1>6. \A n \in NodeId : dp[n] \in Nat /\ dp[n] <= top
  BY <1>3, <1>4, <1>5
<1>7. dp \in [NodeId -> Nat]
  BY <1>5, <1>6
<1>8. ASSUME NEW d \in NodeId, NEW a \in Name, nd[d].children[a] # NULL
      PROVE  dp[d] < dp[nd[d].children[a]]
  <2> PICK n : n = nd[d].children[a]
    OBVIOUS
  <2>1. n \in F /\ nd[n].parent = d /\ F \subseteq NodeId /\ Root \in NodeId
    BY <1>1, <1>8 DEF InitialTreeOf
  <2>2. InitialTree[n].parent = d /\ d \in F \cup {Root}
    <3>1. n \in NodeId /\ n \in DOMAIN InitialTree /\ n # Root
      BY <2>1, InitialFolders
    <3>2. nd[n].parent = InitialTree[n].parent
      BY <3>1, InitialNode
    <3>3. InitialTree[n].parent \in DOMAIN InitialTree \cup {Root}
      BY <3>1, InitialFolders
    <3> QED BY <2>1, <3>2, <3>3
  <2>3. depth[d] < depth[n] /\ dp[d] = depth[d] /\ dp[n] = depth[n]
    BY <1>4, <1>5, <2>1, <2>2
  <2> QED BY <2>3
<1> QED BY <1>3, <1>6, <1>7, <1>8

\* Folders that nobody uses and threads that rest agree.
LEMMA RestingGlobal ==
  ASSUME NEW nd, NEW F, NEW S, NEW dp, nd \in [NodeId -> NodeType],
         \A n \in NodeId : Untouched(nd[n]), InitialTreeOf(nd, F), \A t \in Thread : Resting(S[t]),
         dp \in [NodeId -> Nat], \E top \in Nat : \A n \in NodeId : dp[n] <= top,
         \A d \in NodeId, a \in Name : nd[d].children[a] # NULL => dp[d] < dp[nd[d].children[a]]
  PROVE  Global(nd, S, dp)
<1>1. \A t \in Thread :
        /\ S[t].reads = {} /\ S[t].writes = {} /\ S[t].counts = {} /\ S[t].pending = NULL /\ S[t].maps = {}
        /\ S[t].moveLock = {} /\ S[t].asReader = {} /\ S[t].asWriter = {} /\ S[t].inPrivate = {}
        /\ S[t].moves = {} /\ S[t].removes = {} /\ S[t].unlinks = {} /\ S[t].flags = {} /\ S[t].vacates = {}
        /\ S[t].owns = {} /\ S[t].acquires = {}
  BY DEF Resting, TodoSummary
<1>2. NULL \notin NodeId /\ NULL \notin Thread /\ Root \in NodeId
  BY TreeAssumption
<1>3. Counters(nd, S)
  <2>1. ASSUME NEW n \in NodeId
        PROVE  CountersOf(nd[n], n, S)
    <3>1. /\ {t \in Thread : n \in S[t].reads} = {} /\ {t \in Thread : n \in S[t].writes} = {}
          /\ {t \in Thread : n \in S[t].asReader} = {} /\ {t \in Thread : n \in S[t].asWriter} = {}
          /\ {t \in Thread : n \in S[t].counts} = {} /\ {t \in Thread : n = S[t].pending} = {}
      BY <1>1, <1>2
    <3>2. Cardinality({}) = 0
      BY FS_EmptySet
    <3>3. Untouched(nd[n])
      OBVIOUS
    <3>4. IF n = Root THEN 0 = 0 ELSE 0 = 0 + 0
      OBVIOUS
    <3> QED BY ONLY <3>1, <3>2, <3>3, <3>4 DEF CountersOf, Untouched
  <2> QED BY <2>1 DEF Counters
<1>4. Sleepers(nd, S)
  BY DEF Sleepers, SleepersOf, Untouched
<1>5. Maps(nd, S)
  BY <1>1, <1>2 DEF Maps, Untouched
<1>6. Exclusion(nd, S) /\ Emergency(nd, S)
  BY <1>1 DEF Exclusion, Emergency, Untouched
<1>7. Privacy(nd, S) /\ Vacant(S) /\ Takers(S)
  BY <1>1 DEF Privacy, OwnedBy, Vacant, Takers
<1>8. Transfers(nd, S) /\ Memory(nd, S)
  BY <1>1 DEF Transfers, Memory
<1>9. Depths(nd, S, dp)
  BY <1>1, <1>2 DEF Depths
<1>10. Shape(nd, S)
  <2>1. nd[Root].parent = NULL /\ Root \in LiveIn(nd)
    BY DEF InitialTreeOf, LiveIn
  <2>2. \A n \in LiveIn(nd) \ {Root} : n \in F /\ nd[n].parent \in NodeId /\ nd[n].name \in Name
    BY DEF InitialTreeOf, LiveIn
  <2>3. \A n \in NodeId : nd[n].parent # NULL => nd[nd[n].parent].memory # "unused"
    <3>1. \A n \in NodeId : nd[n].parent # NULL => nd[nd[n].parent].memory = "live"
      BY <1>2 DEF InitialTreeOf
    <3> QED BY <3>1
  <2>4. ASSUME NEW d \in NodeId, NEW a \in Name, nd[d].children[a] # NULL
        PROVE  LET n == nd[d].children[a] IN
               /\ d \in LiveIn(nd) /\ n \in LiveIn(nd) \ {Root}
               /\ \A t \in Thread : n \notin S[t].removes /\ (n \in S[t].moves => S[t].place = <<d, a>>)
               /\ (\A t \in Thread : n \notin S[t].moves) => d = nd[n].parent /\ a = nd[n].name
    <3>1. /\ d \in LiveIn(nd) /\ nd[d].children[a] \in LiveIn(nd) \ {Root}
          /\ d = nd[nd[d].children[a]].parent /\ a = nd[nd[d].children[a]].name
      BY <2>4 DEF InitialTreeOf, LiveIn
    <3> QED BY <1>1, <3>1
  <2>5. \A n \in LiveIn(nd) \ {Root} : nd[nd[n].parent].children[nd[n].name] = n
    BY <2>2 DEF InitialTreeOf
  <2> QED BY <2>1, <2>2, <2>3, <2>4, <2>5 DEF Shape
<1> QED BY <1>3, <1>4, <1>5, <1>6, <1>7, <1>8, <1>9, <1>10 DEF Global

LEMMA InitInvariant == Init => IInv
<1> SUFFICES ASSUME Init PROVE IInv
  OBVIOUS
<1> PICK nd, cl, fr, an : nd = node /\ cl = call /\ fr = frame /\ an = answer
  OBVIOUS
<1>1. /\ DOMAIN answer = Thread /\ fr = [t \in Thread |-> NoFrame] /\ cl \in Workloads
      /\ \A t \in Thread : fr[t] = NoFrame
  BY DEF Init
<1>2. PICK k : Fresh(k)
  BY FreshIs
<1> PICK K, S : K = [t \in Thread |-> k] /\ S = Summaries(cl, fr, K)
  OBVIOUS
<1>3. \A t \in Thread : Local(nd, cl[t], NoFrame, k)
  BY <1>2, IdleLocal
<1>4. \A t \in Thread : Resting(S[t])
  <2>1. ASSUME NEW t \in Thread
        PROVE  Resting(S[t])
    <3> PICK c, s : c = cl[t] /\ s = S[t]
      OBVIOUS
    <3>1. Local(nd, c, NoFrame, k) /\ s = Summary(c, NoFrame, k)
      BY <1>1, <1>3 DEF Summaries
    <3>2. TodoSummary(s, {}, {}, {}, {}, {}, {}, {}, {}) /\ s.goesAway = {} /\ s.passesOn = {}
      BY ONLY <3>1, IdleSummary
    <3> QED BY <3>2 DEF Resting
  <2> QED BY <2>1
<1>5. PICK dp : /\ dp \in [NodeId -> Nat] /\ \E top \in Nat : \A n \in NodeId : dp[n] <= top
                /\ \A d \in NodeId, a \in Name :
                     nd[d].children[a] # NULL => dp[d] < dp[nd[d].children[a]]
  BY InitialDepths
<1>6. nd \in [NodeId -> NodeType] /\ InitialTreeOf(nd, DOMAIN InitialTree)
  BY InitialType, InitialShape
<1>7. \A n \in NodeId : Untouched(nd[n])
  BY InitialNode
<1>8. Global(nd, S, dp)
  BY ONLY <1>4, <1>5, <1>6, <1>7, RestingGlobal
<1>9. fr \in [Thread -> FrameType] /\ NoFrame.at = "idle"
  BY <1>1, NoFrameType DEF NoFrame
<1>10. \A t \in Thread : Local(nd, cl[t], fr[t], K[t]) /\ (fr[t].at # "idle" => t \in DOMAIN cl /\ an[t] = None)
  BY <1>1, <1>3, <1>9
<1>11. Inv(nd, cl, fr, an, K, dp)
  BY <1>1, <1>6, <1>8, <1>9, <1>10 DEF Inv
<1>12. \A t \in Thread : Stands(frame[t])
  <2>1. \A t \in Thread : frame[t].at \notin StandsAt
    BY <1>1, <1>9 DEF StandsAt
  <2> QED BY <2>1, AwayStands
<1> QED BY <1>1, <1>11, <1>12 DEF IInv

-----------------------------------------------------------------------------
(* Every step keeps the invariant.                                         *)

LEMMA AnswersKept ==
  ASSUME DOMAIN answer = Thread, [Next]_vars
  PROVE  DOMAIN answer' = Thread
<1>1. CASE UNCHANGED vars
  BY <1>1 DEF vars
<1>2. ASSUME NEW t \in Thread, ThreadStep(t)
      PROVE  DOMAIN answer' = Thread
  <2>1. CASE ReturnResult(t)
    BY <2>1 DEF ReturnResult
  <2>2. CASE ~ReturnResult(t)
    <3>1. answer' = answer
      BY <1>2, <2>2 DEF ThreadStep, Invoke, Protocol, Lock, Wake, TryEnter, Count, Recount,
          AwaitPrivacy,
           ReadFlag, Get, Leave, Body, List, Create, RemoveSize, RemoveUnlink, LockMoves, AcquireMap,
           Transfer, Discard, DiscardAgain, AwaitDiscarded, Calm, Finish, LeaveReader, LeaveWriter,
           LeaveMap, NotifyParent, NotifyEnd, RenameMoved, FreeRemoved, Done, SetFrame
    <3> QED BY <3>1
  <2> QED BY <2>1, <2>2
<1> QED BY <1>1, <1>2 DEF Next

LEMMA StepKept ==
  ASSUME NEW K, NEW dp, Inv(node, call, frame, answer, K, dp), DOMAIN answer = Thread,
         NEW t \in Thread, ThreadStep(t)
  PROVE  Kept
<1>1. CASE Invoke(t)
  BY <1>1, InvokeKept
<1>2. CASE Protocol(t)
  <2>1. CASE Lock(t)
    BY <2>1, LockKept
  <2>2. CASE Wake(t)
    BY <2>2, WakeKept
  <2>3. CASE Count(t)
    BY <2>3, CountKept
  <2>4. CASE Recount(t)
    BY <2>4, RecountKept
  <2>5. CASE ReadFlag(t)
    BY <2>5, ReadFlagKept
  <2> QED BY <1>2, <2>1, <2>2, <2>3, <2>4, <2>5 DEF Protocol
<1>3. CASE Get(t)
  BY <1>3, GetKept
<1>4. CASE Leave(t)
  BY <1>4, LeaveKept
<1>5. CASE Body(t)
  <2>1. CASE List(t)
    BY <2>1, ListKept
  <2>2. CASE Create(t)
    BY <2>2, CreateKept
  <2>3. CASE RemoveSize(t)
    BY <2>3, RemoveSizeKept
  <2>4. CASE RemoveUnlink(t)
    BY <2>4, RemoveUnlinkKept
  <2>5. CASE LockMoves(t)
    BY <2>5, LockMovesKept
  <2>6. CASE AcquireMap(t)
    BY <2>6, AcquireMapKept
  <2>7. CASE Transfer(t)
    BY <2>7, TransferKept
  <2>8. CASE Discard(t)
    BY <2>8, DiscardKept
  <2>9. CASE DiscardAgain(t)
    BY <2>9, DiscardAgainKept
  <2>10. CASE Calm(t)
    BY <2>10, CalmKept
  <2> QED BY <1>5, <2>1, <2>2, <2>3, <2>4, <2>5, <2>6, <2>7, <2>8, <2>9, <2>10 DEF Body
<1>6. CASE Finish(t)
  <2>1. CASE LeaveReader(t)
    BY <2>1, LeaveReaderKept
  <2>2. CASE LeaveWriter(t)
    BY <2>2, LeaveWriterKept
  <2>3. CASE LeaveMap(t)
    BY <2>3, LeaveMapKept
  <2>4. CASE NotifyParent(t)
    BY <2>4, NotifyParentKept
  <2>5. CASE NotifyEnd(t)
    BY <2>5, NotifyEndKept
  <2>6. CASE RenameMoved(t)
    BY <2>6, RenameMovedKept
  <2>7. CASE FreeRemoved(t)
    BY <2>7, FreeRemovedKept
  <2>8. CASE ReturnResult(t)
    BY <2>8, ReturnKept
  <2> QED BY <1>6, <2>1, <2>2, <2>3, <2>4, <2>5, <2>6, <2>7, <2>8 DEF Finish
<1> QED BY <1>1, <1>2, <1>3, <1>4, <1>5, <1>6 DEF ThreadStep

\* The frame of the thread that steps, and the others.
LEMMA StandsElsewhere ==
  ASSUME \A u \in Thread : Stands(frame[u]), NEW fr, fr = frame, NEW t \in Thread,
         NEW g, Stands(g), frame' = [fr EXCEPT ![t] = g], fr \in [Thread -> FrameType]
  PROVE  \A u \in Thread : Stands(frame'[u])
OBVIOUS

LEMMA StandsKept ==
  ASSUME NEW K, NEW dp, Inv(node, call, frame, answer, K, dp), \A u \in Thread : Stands(frame[u]),
         NEW t \in Thread, ThreadStep(t), Kept
  PROVE  \A u \in Thread : Stands(frame'[u])
<1> PICK nd, cl, fr, f, c, k : /\ nd = node /\ cl = call /\ fr = frame
                               /\ f = frame[t] /\ c = call[t] /\ k = K[t]
  OBVIOUS
<1>1. fr \in [Thread -> FrameType] /\ f \in FrameType /\ Local(nd, c, f, k) /\ Stands(f)
  BY DEF Inv
<1> SUFFICES ASSUME ~\A u \in Thread : Stands(frame'[u]) PROVE FALSE
  OBVIOUS
<1>2. ASSUME NEW g, frame' = [fr EXCEPT ![t] = g]
      PROVE  ~Stands(g)
  BY <1>1, <1>2, StandsElsewhere
<1>3. ASSUME NEW s, frame' = [fr EXCEPT ![t] = Do(f, s)]
      PROVE  FALSE
  BY <1>1, <1>2, <1>3, DoStands
<1>4. ASSUME NEW a, frame' = [fr EXCEPT ![t] = [f EXCEPT !.at = a]],
             ~Moving(f) \/ f.at \in StandsAt \/ a \notin StandsAt
      PROVE  FALSE
  <2> PICK g : g = [f EXCEPT !.at = a]
    OBVIOUS
  <2>1. frame' = [fr EXCEPT ![t] = g]
    BY <1>4
  <2>2. Stands(g)
    BY <1>1, <1>4, AtStands
  <2> QED BY <1>2, <2>1, <2>2
<1>5. ASSUME NEW g, frame' = [fr EXCEPT ![t] = g], call' = call
      PROVE  \E k2 : Local(node', c, g, k2)
  <2>1. PICK K2, e : Inv(node', call', frame', answer', K2, e)
    BY DEF Kept
  <2>2. Local(node', call'[t], frame'[t], K2[t])
    BY <2>1 DEF Inv
  <2>3. call'[t] = c /\ frame'[t] = g
    BY <1>1, <1>5
  <2> QED BY <2>2, <2>3
<1>6. {"sleep", "count", "private", "flag", "leave", "unlink"} \cap StandsAt = {}
  BY DEF StandsAt
<1>7. CASE Invoke(t)
  <2> PICK h : h = [f EXCEPT !.rest = FirstPath(c), !.walk = IF c.op = "move" THEN "shared" ELSE c.op]
    OBVIOUS
  <2>1. /\ call' = call /\ t \in DOMAIN call
        /\ frame' = [fr EXCEPT ![t] = IF Rejected(c) # <<>> THEN Do(h, Rejected(c)) ELSE Walk(c, h, Root)]
    BY <1>7 DEF Invoke, SetFrame
  <2>2. c \in Calls
    BY <2>1, TreeAssumption DEF Inv
  <2>3. (IF c.op = "move" THEN "shared" ELSE c.op) \in Walks
    BY <2>2 DEF Calls, Walks
  <2>4. f.at = "idle" /\ h.at = f.at /\ h.walk \in Walks /\ DOMAIN h = DOMAIN f
    BY <1>1, <1>7, <2>3 DEF Invoke, FrameType
  <2>5. CASE Rejected(c) # <<>>
    <3>1. Do(h, Rejected(c)).at = "todo"
      BY <1>1, <2>4 DEF Do, FrameType
    <3>2. Stands(Do(h, Rejected(c)))
      BY <3>1, AwayStands DEF StandsAt
    <3> QED BY <1>2, <2>1, <2>5, <3>2
  <2>6. CASE Rejected(c) = <<>>
    <3> PICK g : g = Walk(c, h, Root)
      OBVIOUS
    <3>1. frame' = [fr EXCEPT ![t] = g]
      BY <2>1, <2>6
    <3>2. PICK k2 : Local(node', c, g, k2)
      BY <1>5, <2>1, <3>1
    <3>3. h \in FrameType
      <4>1. FirstPath(c) \in Seq(Name)
        BY <2>2, FirstPathIs
      <4>2. PICK r, w : r = FirstPath(c) /\ w = IF c.op = "move" THEN "shared" ELSE c.op
        OBVIOUS
      <4>3. h = [f EXCEPT !.rest = r, !.walk = w] /\ r \in Seq(Name) /\ w \in Walks \cup {"none"} /\ f \in FrameType
        BY <1>1, <2>3, <4>1, <4>2
      <4> QED BY ONLY <4>3 DEF FrameType
    <3>4. Root \in NodeId
      BY TreeAssumption
    <3> QED BY <1>2, <2>4, <3>1, <3>2, <3>3, <3>4, WalkStands
  <2> QED BY <2>5, <2>6
<1>8. CASE Lock(t) \/ Wake(t)
  <2>1. \E a \in {"sleep", "count"} : frame' = [fr EXCEPT ![t] = [f EXCEPT !.at = a]]
    BY <1>8 DEF Lock, Wake, TryEnter, SetFrame
  <2> QED BY <1>4, <1>6, <2>1
<1>9. CASE Count(t) \/ Recount(t)
  <2>1. \E a \in {"private", "flag"} : frame' = [fr EXCEPT ![t] = [f EXCEPT !.at = a]]
    BY <1>9 DEF Count, Recount, AwaitPrivacy, SetFrame
  <2> QED BY <1>4, <1>6, <2>1
<1>10. CASE ReadFlag(t)
  <2> PICK g : g = Entered(c, f)
    OBVIOUS
  <2>1. f.at = "flag" /\ frame' = [fr EXCEPT ![t] = IF node[f.cur].emergency_pass THEN Do(f, OnEmergency(c, f)) ELSE g]
    BY <1>10 DEF ReadFlag, SetFrame
  <2>2. Stands(g)
    BY <1>1, <2>1, EnteredStands
  <2> QED BY <1>2, <1>3, <2>1, <2>2
<1>11. ASSUME NEW h \in FrameType, h.walk \in Walks, h.rest # <<>>, frame' = [fr EXCEPT ![t] = Step(c, h)], call' = call
       PROVE  FALSE
  <2> PICK g : g = Step(c, h)
    OBVIOUS
  <2>1. frame' = [fr EXCEPT ![t] = g]
    BY <1>11
  <2>2. PICK k2 : Local(node', c, g, k2)
    BY <1>5, <1>11, <2>1
  <2> QED BY <1>2, <1>11, <2>1, <2>2, StepStands
<1>12. CASE Get(t)
  <2> PICK child, g : child = node[f.cur].children[Head(f.rest)] /\ g = [f EXCEPT !.next = child]
    OBVIOUS
  <2>1. f.at = "get" /\ call' = call /\ frame' = [fr EXCEPT ![t] = IF f.skip THEN Step(c, g) ELSE [g EXCEPT !.at = "leave"]]
    BY <1>12 DEF Get, SetFrame
  <2>2. f.walk \in Walks /\ f.rest # <<>> /\ f.cur \in NodeId /\ f.rest \in Seq(Name)
    BY <1>1, <2>1 DEF Local, FrameOK, GoingOK, Going, FrameType
  <2>3. child \in NodeId \cup {NULL}
    <3>1. nd[f.cur] \in NodeType /\ Head(f.rest) \in Name
      BY <2>2 DEF Inv
    <3> QED BY <3>1 DEF NodeType
  <2>4. g \in FrameType /\ g.walk = f.walk /\ g.rest = f.rest
    BY <1>1, <2>3 DEF FrameType
  <2>5. CASE f.skip
    BY <1>11, <2>1, <2>2, <2>4, <2>5
  <2>6. CASE ~f.skip
    <3> PICK h : h = [g EXCEPT !.at = "leave"]
      OBVIOUS
    <3>1. h.at = "leave"
      BY <2>4 DEF FrameType
    <3>2. Stands(h)
      BY <3>1, AwayStands DEF StandsAt
    <3> QED BY <1>2, <2>1, <2>6, <3>2
  <2> QED BY <2>5, <2>6
<1>13. CASE Leave(t)
  <2>1. f.at = "leave" /\ call' = call /\ frame' = [fr EXCEPT ![t] = Step(c, f)]
    BY <1>13 DEF Leave, SetFrame
  <2>2. f.walk \in Walks /\ f.rest # <<>>
    BY <1>1, <2>1 DEF Local, FrameOK, GoingOK, Going
  <2> QED BY <1>1, <1>11, <2>1, <2>2
<1>14. CASE List(t) \/ Create(t) \/ Calm(t) \/ NotifyParent(t)
  <2>1. \E s : frame' = [fr EXCEPT ![t] = Do(f, s)]
    BY <1>14 DEF List, Create, Calm, NotifyParent, SetFrame
  <2> QED BY <1>3, <2>1
<1>15. CASE RemoveSize(t)
  <2>1. \/ \E s : frame' = [fr EXCEPT ![t] = Do(f, s)]
        \/ frame' = [fr EXCEPT ![t] = [f EXCEPT !.at = "unlink"]]
    BY <1>15 DEF RemoveSize, SetFrame
  <2> QED BY <1>3, <1>4, <1>6, <2>1
<1>16. CASE RemoveUnlink(t)
  <2>1. f.at = "unlink" /\ frame' = [fr EXCEPT ![t] = [f EXCEPT !.at = "discard"]]
    BY <1>16 DEF RemoveUnlink, SetFrame
  <2>2. ~Moving(f)
    BY <1>1, <2>1 DEF Local, FrameOK, Going, GoingOK, Moving
  <2> QED BY <1>4, <2>1, <2>2
<1>17. CASE LockMoves(t) \/ AcquireMap(t) \/ Discard(t) \/ DiscardAgain(t)
  <2>1. f.at \in {"maps", "left", "right", "discard", "discarding"} /\ \E a : frame' = [fr EXCEPT ![t] = [f EXCEPT !.at = a]]
    BY <1>17 DEF LockMoves, AcquireMap, Discard, DiscardAgain, AwaitDiscarded, SetFrame
  <2> QED BY <1>4, <2>1 DEF StandsAt
<1>18. CASE Transfer(t)
  <2>1. /\ f.at = "transfer"
        /\ \/ \E s : frame' = [fr EXCEPT ![t] = Do(f, s)]
           \/ frame' = [fr EXCEPT ![t] = [f EXCEPT !.at = "discard"]]
    BY <1>18 DEF Transfer, SetFrame
  <2> QED BY <1>3, <1>4, <2>1 DEF StandsAt
<1>19. CASE LeaveReader(t) \/ LeaveWriter(t) \/ LeaveMap(t) \/ NotifyEnd(t) \/ RenameMoved(t) \/ FreeRemoved(t)
  <2>1. frame' = [fr EXCEPT ![t] = Do(f, Tail(f.todo))]
    BY <1>19 DEF LeaveReader, LeaveWriter, LeaveMap, NotifyEnd, RenameMoved, FreeRemoved,
        Done, SetFrame
  <2> QED BY <1>3, <2>1
<1>20. CASE ReturnResult(t)
  <2>1. Stands(NoFrame)
    <3>1. NoFrame.at = "idle"
      BY DEF NoFrame
    <3> QED BY <3>1, AwayStands DEF StandsAt
  <2> QED BY <1>2, <1>20, <2>1 DEF ReturnResult
<1> QED BY <1>7, <1>8, <1>9, <1>10, <1>12, <1>13, <1>14, <1>15, <1>16, <1>17, <1>18, <1>19,
    <1>20
         DEF ThreadStep, Protocol, Body, Finish

LEMMA StepInvariant == IInv /\ [Next]_vars => IInv'
<1> SUFFICES ASSUME IInv, [Next]_vars PROVE IInv'
  OBVIOUS
<1>1. DOMAIN answer = Thread /\ \E K, dp : Inv(node, call, frame, answer, K, dp)
  BY DEF IInv
<1>2. PICK K, dp : Inv(node, call, frame, answer, K, dp)
  BY <1>1
<1>3. DOMAIN answer' = Thread
  BY <1>1, AnswersKept
<1>4. Kept /\ \A t \in Thread : Stands(frame'[t])
  <2>1. CASE UNCHANGED vars
    <3>1. node' = node /\ call' = call /\ frame' = frame /\ answer' = answer
      BY <2>1 DEF vars
    <3>2. \A t \in Thread : Stands(frame[t])
      BY DEF IInv
    <3> QED BY <1>2, <3>1, <3>2 DEF Kept
  <2>2. CASE Next
    <3>1. PICK t \in Thread : ThreadStep(t)
      BY <2>2 DEF Next
    <3>2. Kept
      BY <1>1, <1>2, <3>1, StepKept
    <3>3. \A u \in Thread : Stands(frame[u])
      BY DEF IInv
    <3> QED BY <1>2, <3>1, <3>2, <3>3, StandsKept
  <2> QED BY <2>1, <2>2
<1> QED BY <1>3, <1>4 DEF IInv, Kept

\* IInv holds in every reachable state: whatever the calls, every thread has
\* counted itself at the folders of its chains and at no others, and what it
\* still has to do undoes that.
THEOREM Invariance == Spec => []IInv
BY InitInvariant, StepInvariant, PTL DEF Spec

-----------------------------------------------------------------------------
(* What the invariant says of one thread.                                  *)

\* The parts of the invariant about a thread t.
LEMMA InvParts ==
  ASSUME NEW K, NEW dp, Inv(node, call, frame, answer, K, dp), NEW t \in Thread,
         NEW nd, nd = node, NEW c, c = call[t], NEW f, f = frame[t], NEW k, k = K[t],
         NEW S, S = Summaries(call, frame, K), NEW s, s = S[t]
  PROVE  /\ Local(nd, c, f, k) /\ f \in FrameType /\ s = Summary(c, f, k) /\ Global(nd, S, dp)
         /\ nd \in [NodeId -> NodeType]
         /\ s.counts = Counts(k) /\ s.pending = Pending(f) /\ s.maps = k.maps
         /\ s.reads = Reads(f) /\ s.writes = Writes(f) /\ s.owns = Owns(f) /\ s.goesAway = GoesAway(f, k)
         /\ s.moves = Moves(f) /\ s.removes = Removes(f)
         /\ Counts(k) \cup Reads(f) \cup Writes(f) \cup k.maps \cup Moves(f) \cup Removes(f) \subseteq LiveIn(nd)
         /\ (Pending(f) # NULL => Pending(f) \in LiveIn(nd))
<1>1. Local(nd, c, f, k) /\ f \in FrameType /\ s = Summary(c, f, k) /\ Global(nd, S, dp) /\ nd \in [NodeId -> NodeType]
  BY DEF Inv, Summaries
<1>2. /\ s.counts = Counts(k) /\ s.pending = Pending(f) /\ s.maps = k.maps
      /\ s.reads = Reads(f) /\ s.writes = Writes(f) /\ s.owns = Owns(f) /\ s.goesAway = GoesAway(f, k)
      /\ s.moves = Moves(f) /\ s.removes = Removes(f)
  BY ONLY <1>1 DEF Summary
<1>3. /\ s.counts \cup s.reads \cup s.writes \cup s.maps \cup s.moves \cup s.removes \subseteq LiveIn(nd)
      /\ s.pending # NULL => s.pending \in LiveIn(nd)
  BY <1>1 DEF Global, Memory
<1> QED BY <1>1, <1>2, <1>3

\* A chain holds its bottom, and those of one thread reach up to the root.
LEMMA BottomIn ==
  ASSUME NEW nd, NEW c, NEW f, NEW k, Local(nd, c, f, k), NEW i \in Slots(f),
         NEW b, b = Bottom(nd, f, i), b # Top(f, i)
  PROVE  b \in Counts(k)
<1>1. IsChain(nd, k.chain[i], b, Top(f, i)) /\ i \in DOMAIN k.chain
  BY DEF Local, ChainsOK
<1>2. b \in k.chain[i]
  BY <1>1 DEF IsChain
<1> QED BY <1>1, <1>2 DEF Counts

LEMMA SharedCounts ==
  ASSUME NEW nd, NEW c, NEW f, NEW k, Local(nd, c, f, k), Going(f), Moving(f)
  PROVE  f.shared \in Counts(k)
<1>1. f.at # "todo" /\ 3 \in Slots(f)
  BY DEF Going, Slots
<1>2. Bottom(nd, f, 3) = f.shared /\ Top(f, 3) = NULL
  BY <1>1 DEF Bottom, Top
<1>3. f.shared # NULL
  BY TreeAssumption DEF Local, FrameOK, GoingOK
<1> QED BY <1>1, <1>2, <1>3, BottomIn

LEMMA CountsClosed ==
  ASSUME NEW nd, NEW c, NEW f, NEW k, Local(nd, c, f, k), Going(f), NEW n \in Counts(k)
  PROVE  nd[n].parent \in Counts(k) \cup {NULL}
<1>1. f.at # "todo" /\ Slots(f) = 1 .. 3
  BY DEF Going, Slots
<1>2. DOMAIN k.chain = 1 .. 3 /\ \A i \in 1 .. 3 : IsChain(nd, k.chain[i], Bottom(nd, f, i), Top(f, i))
  BY <1>1 DEF Local, ChainsOK
<1>3. PICK i \in 1 .. 3 : n \in k.chain[i]
  BY <1>2 DEF Counts
<1>4. nd[n].parent \in k.chain[i] \cup {Top(f, i)}
  BY <1>2, <1>3 DEF IsChain
<1>5. CASE nd[n].parent \in k.chain[i]
  BY <1>2, <1>5 DEF Counts
<1>6. CASE nd[n].parent = Top(f, i)
  <2>1. Top(f, i) = NULL \/ (Moving(f) /\ Top(f, i) = f.shared)
    BY <1>1 DEF Top
  <2> QED BY <1>6, <2>1, SharedCounts
<1> QED BY <1>4, <1>5, <1>6

\* A thread that works in a folder counts there.
LEMMA HereCounts ==
  ASSUME NEW nd, NEW c, NEW f, NEW k, Local(nd, c, f, k), Going(f), ~Ahead(f),
         Leading(f) \/ ~Moving(f) \/ InLock(f)
  PROVE  f.cur \in Counts(k)
<1>1. f.at # "todo" /\ Slots(f) = 1 .. 3 /\ GoingOK(c, f) /\ f.cur \in NodeId /\ f.cur # NULL
  BY TreeAssumption DEF Going, Slots, Local, FrameOK, GoingOK
<1>2. Here(nd, f) = f.cur
  BY DEF Here
<1>3. CASE ~Moving(f)
  <2>1. Bottom(nd, f, 3) = f.cur /\ Top(f, 3) = NULL
    BY <1>1, <1>2, <1>3 DEF Bottom, Top
  <2> QED BY <1>1, <2>1, BottomIn
<1>4. CASE Moving(f) /\ f.cur = f.shared
  BY <1>4, SharedCounts
<1>5. CASE Moving(f) /\ f.cur # f.shared
  <2>1. CASE f.walk = "source"
    <3>1. ~HasSource(f)
      BY <1>1, <1>5, <2>1 DEF GoingOK, HasSource, Leading, InLock, Moving
    <3>2. Bottom(nd, f, 1) = f.cur /\ Top(f, 1) = f.shared
      BY <1>1, <1>2, <1>5, <2>1, <3>1 DEF Bottom, Top
    <3> QED BY <1>1, <1>5, <3>2, BottomIn
  <2>2. CASE f.walk = "target"
    <3>1. ~HasTarget(f)
      BY <1>1, <1>5, <2>2 DEF GoingOK, HasTarget, Leading, InLock, Moving
    <3>2. Bottom(nd, f, 2) = f.cur /\ Top(f, 2) = f.shared
      BY <1>1, <1>2, <1>5, <2>2, <3>1 DEF Bottom, Top
    <3> QED BY <1>1, <1>5, <3>2, BottomIn
  <2> QED BY <1>5, <2>1, <2>2 DEF Moving
<1> QED BY <1>3, <1>4, <1>5

-----------------------------------------------------------------------------
(* The invariant implies what TreeHistory states.                          *)

LEMMA InvTyped == IInv => TypeOK
<1> SUFFICES ASSUME IInv PROVE TypeOK
  OBVIOUS
<1>1. PICK K, dp : Inv(node, call, frame, answer, K, dp)
  BY DEF IInv
<1>2. node \in [NodeId -> NodeType] /\ frame \in [Thread -> FrameType]
  BY <1>1 DEF Inv
<1>3. ASSUME NEW n \in NodeId
      PROVE  LET m == node[n]
             IN  /\ m.parent \in NodeId \cup {NULL} /\ m.name \in Name \cup {NULL}
                 /\ m.memory \in {"unused", "live", "freed"}
                 /\ m.children \in [Name -> NodeId \cup {NULL}]
                 /\ {m.map_writer, m.move_map_writers_access} \subseteq Thread \cup {NULL}
                 /\ {m.readers_inside, m.readers_waiting, m.writers_inside, m.writers_waiting,
                     m.subtree_threads, m.safe_hmap_get_count} \subseteq Nat
                 /\ m.readers \cup m.writers \cup m.private_access \subseteq Thread
                 /\ m.emergency_pass \in BOOLEAN
  <2>1. node[n] \in NodeType
    BY <1>2
  <2> QED BY <2>1 DEF NodeType, ThreadSets
<1>4. ASSUME NEW t \in Thread
      PROVE  /\ frame[t].rest \in Seq(Name)
             /\ {frame[t].cur, frame[t].next, frame[t].shared, frame[t].source,
                 frame[t].target_parent} \subseteq NodeId \cup {NULL}
  <2>1. frame[t] \in FrameType
    BY <1>2
  <2> QED BY <2>1 DEF FrameType
<1> QED BY <1>3, <1>4 DEF TypeOK

\* What a thread takes away is in transit.
LEMMA TakenInTransit ==
  ASSUME NEW K, NEW dp, Inv(node, call, frame, answer, K, dp), NEW t \in Thread,
         NEW n \in Moves(frame[t]) \cup Removes(frame[t])
  PROVE  InTransit(n)
<1> PICK f : f = frame[t]
  OBVIOUS
<1>1. CASE Gone(f)
  <2>1. Discarded(t) = Taken(f)
    BY <1>1, DiscardedIs
  <2>2. n = Taken(f)
    BY <1>1 DEF Moves, Removes, Gone, Taken
  <2> QED BY <1>1, <2>1, <2>2 DEF InTransit, Gone
<1>2. CASE ~Gone(f)
  <2>1. f.at = "todo" /\ n \in Listed(f, "rename") \cup Listed(f, "free")
    BY <1>2 DEF Moves, Removes
  <2>2. PICK i \in DOMAIN f.todo : f.todo[i] \in {<<"rename", n>>, <<"free", n>>}
    BY <2>1 DEF Listed
  <2>3. f.todo[i] \in ToSet(f.todo)
    BY DEF ToSet
  <2>4. {<<"rename", n>>, <<"free", n>>} \cap ToSet(f.todo) # {}
    BY <2>2, <2>3
  <2> QED BY <2>1, <2>4 DEF InTransit
<1> QED BY <1>1, <1>2

LEMMA InvShape == IInv => TreeShape
<1> SUFFICES ASSUME IInv PROVE TreeShape
  OBVIOUS
<1>1. PICK K, dp : Inv(node, call, frame, answer, K, dp)
  BY DEF IInv
<1> PICK nd, S : nd = node /\ S = Summaries(call, frame, K)
  OBVIOUS
<1>2. Shape(nd, S)
  BY <1>1 DEF Inv, Global
<1>3. ASSUME NEW n, ~InTransit(n), NEW t \in Thread
      PROVE  n \notin S[t].moves \cup S[t].removes
  BY <1>1, <1>3, TakenInTransit DEF Summaries, Summary
<1>4. Live = LiveIn(nd)
  BY DEF Live, LiveIn
<1> DEFINE entries == {e \in Live \X Name : node[e[1]].children[e[2]] # NULL}
           Child(e) == node[e[1]].children[e[2]]
<1>5. ASSUME NEW e \in entries
      PROVE  /\ Child(e) \in Live
             /\ ~InTransit(Child(e)) => e = <<node[Child(e)].parent, node[Child(e)].name>>
  <2>1. e[1] \in NodeId /\ e[2] \in Name /\ nd[e[1]].children[e[2]] # NULL /\ e = <<e[1], e[2]>>
    BY <1>5 DEF Live
  <2>2. /\ nd[e[1]].children[e[2]] \in LiveIn(nd)
        /\ (\A t \in Thread : nd[e[1]].children[e[2]] \notin S[t].moves) =>
             /\ e[1] = nd[nd[e[1]].children[e[2]]].parent
             /\ e[2] = nd[nd[e[1]].children[e[2]]].name
    BY <1>2, <2>1 DEF Shape
  <2>3. ~InTransit(Child(e)) => \A t \in Thread : nd[e[1]].children[e[2]] \notin S[t].moves
    BY <1>3
  <2> QED BY <1>4, <2>1, <2>2, <2>3
<1>6. \A d, e \in entries : Child(d) = Child(e) /\ d # e => InTransit(Child(e))
  BY <1>5
<1>7. \A n \in Live \ {Root} : InTransit(n) \/ <<node[n].parent, node[n].name>> \in entries
  <2> SUFFICES ASSUME NEW n \in Live \ {Root}, ~InTransit(n)
               PROVE  <<node[n].parent, node[n].name>> \in entries
    OBVIOUS
  <2>1. \A t \in Thread : n \notin S[t].moves \cup S[t].removes
    BY <1>3
  <2>2. nd[n].parent \in NodeId /\ nd[n].name \in Name /\ n \in LiveIn(nd) \ {Root}
    BY <1>2, <1>4 DEF Shape
  <2>3. nd[nd[n].parent].children[nd[n].name] = n
    BY <1>2, <2>1, <2>2 DEF Shape
  <2>4. n # NULL
    BY TreeAssumption DEF Live
  <2>5. nd[n].parent \in LiveIn(nd)
    BY <1>2, <2>2, <2>3, <2>4 DEF Shape
  <2> QED BY <1>4, <2>2, <2>3, <2>4, <2>5
<1> HIDE DEF entries, Child
<1>8. /\ \A d, e \in entries : Child(d) = Child(e) /\ d # e => InTransit(Child(e))
      /\ \A e \in entries : Child(e) \in Live /\
           (InTransit(Child(e)) \/ e = <<node[Child(e)].parent, node[Child(e)].name>>)
      /\ \A n \in Live \ {Root} : InTransit(n) \/ <<node[n].parent, node[n].name>> \in entries
  BY <1>5, <1>6, <1>7
<1> QED BY <1>8 DEF TreeShape, entries, Child

LEMMA NodeIs ==
  ASSUME NEW m \in NodeType
  PROVE  m = [parent |-> m.parent, name |-> m.name, memory |-> m.memory, children |-> m.children,
              map_writer |-> m.map_writer, readers_inside |-> m.readers_inside,
              readers_waiting |-> m.readers_waiting, readers |-> m.readers,
              writers_inside |-> m.writers_inside, writers_waiting |-> m.writers_waiting,
              writers |-> m.writers, change |-> m.change, subtree_threads |-> m.subtree_threads,
              safe_hmap_get_count |-> m.safe_hmap_get_count, private_access |-> m.private_access,
              emergency_pass |-> m.emergency_pass, move_map_writers_access |-> m.move_map_writers_access]
BY DEF NodeType

LEMMA InvQuiescent == IInv => QuiescentClean
<1> SUFFICES ASSUME IInv, AllAnswered, NEW n \in Live
             PROVE  [node[n] EXCEPT !.children = [a \in Name |-> NULL], !.change = "WRITERS"]
                      = node_new(node[n].parent, node[n].name)
  BY DEF QuiescentClean
<1>1. PICK K, dp : Inv(node, call, frame, answer, K, dp)
  BY DEF IInv
<1> PICK nd, S : nd = node /\ S = Summaries(call, frame, K)
  OBVIOUS
<1>2. Global(nd, S, dp) /\ nd[n] \in NodeType /\ nd[n].memory = "live" /\ n \in NodeId
  BY <1>1 DEF Inv, Live
<1>3. ASSUME NEW t \in Thread
      PROVE  Resting(S[t])
  <2> PICK c, f, k, s : c = call[t] /\ f = frame[t] /\ k = K[t] /\ s = S[t]
    OBVIOUS
  <2>1. f.at = "idle"
    BY <1>1 DEF Inv, AllAnswered
  <2>2. Local(nd, c, f, k) /\ s = Summary(c, f, k)
    BY <1>1, <1>3, InvParts
  <2>3. f = NoFrame
    BY <2>1, <2>2 DEF Local, FrameOK
  <2>4. Local(nd, c, NoFrame, k) /\ s = Summary(c, NoFrame, k)
    BY <2>2, <2>3
  <2>5. TodoSummary(s, {}, {}, {}, {}, {}, {}, {}, {}) /\ s.goesAway = {} /\ s.passesOn = {}
    BY ONLY <2>4, IdleSummary
  <2> QED BY <2>5 DEF Resting
<1>4. \A t \in Thread :
        /\ S[t].reads = {} /\ S[t].writes = {} /\ S[t].counts = {} /\ S[t].pending = NULL /\ S[t].maps = {}
        /\ S[t].moveLock = {} /\ S[t].asReader = {} /\ S[t].asWriter = {} /\ S[t].inPrivate = {}
        /\ S[t].flags = {}
  BY <1>3 DEF Resting, TodoSummary
<1>5. /\ nd[n].readers_inside = 0 /\ nd[n].writers_inside = 0 /\ nd[n].readers_waiting = 0
      /\ nd[n].writers_waiting = 0 /\ nd[n].subtree_threads = 0 /\ nd[n].safe_hmap_get_count = 0
  <2>1. /\ {t \in Thread : n \in S[t].reads} = {} /\ {t \in Thread : n \in S[t].writes} = {}
        /\ {t \in Thread : n \in S[t].asReader} = {} /\ {t \in Thread : n \in S[t].asWriter} = {}
        /\ {t \in Thread : n \in S[t].counts} = {} /\ {t \in Thread : n = S[t].pending} = {}
    BY <1>2, <1>4, TreeAssumption
  <2>2. Cardinality({}) = 0
    BY FS_EmptySet
  <2>3. CountersOf(nd[n], n, S)
    BY <1>2 DEF Global, Counters
  <2>4. IF n = Root THEN 0 = 0 ELSE 0 + 0 = 0
    OBVIOUS
  <2> QED BY ONLY <2>1, <2>2, <2>3, <2>4 DEF CountersOf
<1>6. nd[n].readers = {} /\ nd[n].writers = {} /\ nd[n].private_access = {}
  <2>1. SleepersOf(nd[n], n, S)
    BY <1>2 DEF Global, Sleepers
  <2> QED BY <1>4, <2>1 DEF SleepersOf
<1>7. nd[n].map_writer = NULL /\ nd[n].move_map_writers_access = NULL
  <2>1. \A t \in Thread : nd[n].map_writer # t /\ nd[n].move_map_writers_access # t
    BY <1>2, <1>4 DEF Global, Maps
  <2>2. nd[n].map_writer \in Thread \cup {NULL} /\ nd[n].move_map_writers_access \in Thread \cup {NULL}
    BY <1>2 DEF NodeType
  <2> QED BY <2>1, <2>2
<1>8. nd[n].emergency_pass = FALSE
  <2>1. nd[n].emergency_pass \in BOOLEAN
    BY <1>2 DEF NodeType
  <2>2. ~nd[n].emergency_pass
    BY <1>2, <1>4 DEF Global, Emergency
  <2> QED BY <2>1, <2>2
<1> PICK m, ch : m = node[n] /\ ch = [a \in Name |-> NULL]
  OBVIOUS
<1>9. /\ m \in NodeType /\ m.memory = "live"
      /\ m.readers_inside = 0 /\ m.writers_inside = 0 /\ m.readers_waiting = 0 /\ m.writers_waiting = 0
      /\ m.subtree_threads = 0 /\ m.safe_hmap_get_count = 0
      /\ m.readers = {} /\ m.writers = {} /\ m.private_access = {}
      /\ m.map_writer = NULL /\ m.move_map_writers_access = NULL /\ m.emergency_pass = FALSE
  BY <1>2, <1>5, <1>6, <1>7, <1>8
<1>10. PICK m2 : m2 = [m EXCEPT !.children = ch, !.change = "WRITERS"]
  OBVIOUS
<1>11. /\ m2 \in NodeType /\ m2.parent = m.parent /\ m2.name = m.name /\ m2.memory = "live" /\ m2.children = ch
       /\ m2.readers_inside = 0 /\ m2.writers_inside = 0 /\ m2.readers_waiting = 0 /\ m2.writers_waiting = 0
       /\ m2.subtree_threads = 0 /\ m2.safe_hmap_get_count = 0
       /\ m2.readers = {} /\ m2.writers = {} /\ m2.private_access = {} /\ m2.change = "WRITERS"
       /\ m2.map_writer = NULL /\ m2.move_map_writers_access = NULL /\ m2.emergency_pass = FALSE
  <2>1. ch \in [Name -> NodeId \cup {NULL}] /\ "WRITERS" \in {"READERS", "WRITERS"}
    OBVIOUS
  <2> QED BY ONLY <1>9, <1>10, <2>1 DEF NodeType
<1>12. m2 = [parent |-> m.parent, name |-> m.name, memory |-> "live", children |-> ch, map_writer |-> NULL,
             readers_inside |-> 0, readers_waiting |-> 0, readers |-> {},
             writers_inside |-> 0, writers_waiting |-> 0, writers |-> {}, change |-> "WRITERS",
             subtree_threads |-> 0, safe_hmap_get_count |-> 0, private_access |-> {},
             emergency_pass |-> FALSE, move_map_writers_access |-> NULL]
  BY <1>11, NodeIs, Zenon
<1> QED BY <1>10, <1>12 DEF node_new

\* Induction over the naturals, said of a set.
LEMMA SetInduction ==
  ASSUME NEW S, 0 \in S, \A n \in Nat : n \in S => n + 1 \in S
  PROVE  Nat \subseteq S
<1> DEFINE T == Nat \ S
<1> SUFFICES ASSUME T # {} PROVE FALSE
  OBVIOUS
<1>1. PICK x \in T : \A y \in T : <<y, x>> \notin Less
  <2>1. T \subseteq Nat
    OBVIOUS
  <2> HIDE DEF T
  <2> QED BY <2>1, LessWellFounded, WFMin
<1>2. x # 0 /\ x - 1 \in Nat /\ x - 1 + 1 = x
  OBVIOUS
<1>3. <<x - 1, x>> \in Less
  BY <1>2 DEF Less
<1>4. x - 1 \in S
  BY <1>1, <1>2, <1>3
<1> QED BY <1>2, <1>4

\* The way up from n, a value for each number of steps.
IsWayUp(nd, n, m, up) ==
  /\ up \in [0 .. m -> NodeId \cup {NULL}] /\ up[0] = n
  /\ \A i \in 1 .. m : up[i] = IF up[i - 1] = NULL THEN NULL ELSE nd[up[i - 1]].parent

LEMMA WayUpExists ==
  ASSUME NEW nd \in [NodeId -> NodeType], NEW n \in NodeId, NEW m \in Nat
  PROVE  \E up : IsWayUp(nd, n, m, up)
<1> DEFINE D == {j \in Nat : \E up : IsWayUp(nd, n, j, up)}
<1>1. 0 \in D
  <2>1. IsWayUp(nd, n, 0, [i \in 0 .. 0 |-> n])
    BY DEF IsWayUp
  <2> QED BY <2>1
<1>2. ASSUME NEW j \in Nat, j \in D
      PROVE  j + 1 \in D
  <2>1. PICK up : IsWayUp(nd, n, j, up)
    BY <1>2
  <2>2. PICK p : p = IF up[j] = NULL THEN NULL ELSE nd[up[j]].parent
    OBVIOUS
  <2>3. PICK w : w = [i \in 0 .. j + 1 |-> IF i = j + 1 THEN p ELSE up[i]]
    OBVIOUS
  <2>4. p \in NodeId \cup {NULL}
    <3>1. up[j] \in NodeId \cup {NULL}
      BY <1>2, <2>1 DEF IsWayUp
    <3>2. \A q \in NodeId : nd[q].parent \in NodeId \cup {NULL}
      BY DEF NodeType
    <3> QED BY <2>2, <3>1, <3>2
  <2>5. w \in [0 .. j + 1 -> NodeId \cup {NULL}] /\ w[j + 1] = p /\ (\A i \in 0 .. j : w[i] = up[i])
    BY <1>2, <2>1, <2>3, <2>4 DEF IsWayUp
  <2>6. w[0] = n
    BY <1>2, <2>1, <2>5 DEF IsWayUp
  <2>7. ASSUME NEW i \in 1 .. j + 1
        PROVE  w[i] = IF w[i - 1] = NULL THEN NULL ELSE nd[w[i - 1]].parent
    <3>1. i - 1 \in 0 .. j /\ w[i - 1] = up[i - 1]
      BY <1>2, <2>5, <2>7
    <3>2. CASE i = j + 1
      <4>1. i - 1 = j
        BY <1>2, <3>2
      <4> QED BY <2>2, <2>5, <3>1, <3>2, <4>1
    <3>3. CASE i # j + 1
      <4>1. i \in 1 .. j /\ i \in 0 .. j
        BY <1>2, <2>7, <3>3
      <4> QED BY <2>1, <2>5, <3>1, <4>1 DEF IsWayUp
    <3> QED BY <3>2, <3>3
  <2>8. IsWayUp(nd, n, j + 1, w)
    BY <2>5, <2>6, <2>7 DEF IsWayUp
  <2> QED BY <1>2, <2>8
<1> HIDE DEF D
<1>3. Nat \subseteq D
  BY <1>1, <1>2, SetInduction
<1> QED BY <1>3 DEF D

\* Above walks up from n.
LEMMA AboveIs ==
  ASSUME NEW nd \in [NodeId -> NodeType], nd = node, NEW n \in NodeId, NEW m, m = Cardinality(NodeId)
  PROVE  m \in Nat /\ \E up : IsWayUp(nd, n, m, up) /\ Above(n) = {up[i] : i \in 0 .. m} \ {NULL}
<1>1. m \in Nat
  BY TreeAssumption, FS_CardinalityType
<1> DEFINE Is(f) == f = [i \in 0 .. Cardinality(NodeId) |->
                           IF i = 0 THEN n ELSE IF f[i - 1] = NULL THEN NULL ELSE node[f[i - 1]].parent]
<1>2. PICK w : IsWayUp(nd, n, m, w)
  BY <1>1, WayUpExists
<1>3. Is(w)
  <2>1. ASSUME NEW i \in 0 .. m
        PROVE  w[i] = IF i = 0 THEN n ELSE IF w[i - 1] = NULL THEN NULL ELSE nd[w[i - 1]].parent
    <3>1. i # 0 => i \in 1 .. m
      BY <1>1, <2>1
    <3> QED BY <1>2, <3>1 DEF IsWayUp
  <2> QED BY <1>2, <2>1 DEF IsWayUp
<1>4. PICK up : up = CHOOSE f : Is(f)
  OBVIOUS
<1>5. Is(up)
  BY <1>3, <1>4
<1>6. Above(n) = {up[i] : i \in DOMAIN up} \ {NULL}
  BY <1>4 DEF Above
<1>7. DOMAIN up = 0 .. m
  BY <1>5
<1>8. \A i \in 1 .. m : i \in 0 .. m /\ i # 0 /\ i - 1 \in 0 .. m
  BY <1>1
<1>9. up[0] = n /\ \A i \in 1 .. m : up[i] = IF up[i - 1] = NULL THEN NULL ELSE nd[up[i - 1]].parent
  BY <1>1, <1>5, <1>8
<1>10. \A i \in 0 .. m : up[i] \in NodeId \cup {NULL}
  <2> DEFINE D == {i \in Nat : i \in 0 .. m => up[i] \in NodeId \cup {NULL}}
  <2>1. 0 \in D
    BY <1>9
  <2>2. ASSUME NEW i \in Nat, i \in D
        PROVE  i + 1 \in D
    <3> SUFFICES ASSUME i + 1 \in 0 .. m PROVE up[i + 1] \in NodeId \cup {NULL}
      BY <2>2
    <3>1. i \in 0 .. m /\ i + 1 \in 1 .. m /\ i + 1 - 1 = i
      BY <1>1, <2>2
    <3>2. up[i] \in NodeId \cup {NULL}
      BY <2>2, <3>1
    <3>3. up[i + 1] = IF up[i] = NULL THEN NULL ELSE nd[up[i]].parent
      BY <1>9, <3>1
    <3>4. \A q \in NodeId : nd[q].parent \in NodeId \cup {NULL}
      BY DEF NodeType
    <3> QED BY <3>2, <3>3, <3>4
  <2> HIDE DEF D
  <2>3. Nat \subseteq D
    BY <2>1, <2>2, SetInduction
  <2> QED BY <1>1, <2>3 DEF D
<1>11. up = [i \in 0 .. m |-> up[i]]
  BY <1>5
<1>12. IsWayUp(nd, n, m, up)
  BY <1>9, <1>10, <1>11 DEF IsWayUp
<1> QED BY <1>1, <1>6, <1>7, <1>12

\* What holds a folder, and with each one the parent up to the folder top,
\* holds all that is above the folder and not above top.
LEMMA AboveUpTo ==
  ASSUME NEW nd \in [NodeId -> NodeType], nd = node, NEW n \in NodeId, NEW top \in NodeId,
         NEW C, n \in C, \A x \in C : x \in NodeId /\ nd[x].parent \in C \cup {top, NULL}
  PROVE  Above(n) \ Above(top) \subseteq C
<1> PICK m : m = Cardinality(NodeId)
  OBVIOUS
<1>1. m \in Nat
  BY AboveIs
<1>2. PICK up : IsWayUp(nd, n, m, up) /\ Above(n) = {up[i] : i \in 0 .. m} \ {NULL}
  BY AboveIs
<1>3. PICK w : IsWayUp(nd, top, m, w) /\ Above(top) = {w[i] : i \in 0 .. m} \ {NULL}
  BY AboveIs
<1>4. \A i \in 0 .. m : up[i] \in C \cup {NULL} \/ \E j \in 0 .. i : up[i] = w[j]
  <2> DEFINE D == {i \in Nat : i \in 0 .. m => up[i] \in C \cup {NULL} \/ \E j \in 0 .. i : up[i] = w[j]}
  <2>1. 0 \in D
    BY <1>2 DEF IsWayUp
  <2>2. ASSUME NEW i \in Nat, i \in D
        PROVE  i + 1 \in D
    <3> SUFFICES ASSUME i + 1 \in 0 .. m
                 PROVE  up[i + 1] \in C \cup {NULL} \/ \E j \in 0 .. i + 1 : up[i + 1] = w[j]
      BY <2>2
    <3>1. i \in 0 .. m /\ i + 1 \in 1 .. m /\ i + 1 - 1 = i
      BY <1>1, <2>2
    <3>2. up[i] \in C \cup {NULL} \/ \E j \in 0 .. i : up[i] = w[j]
      BY <2>2, <3>1
    <3>3. up[i + 1] = IF up[i] = NULL THEN NULL ELSE nd[up[i]].parent
      BY <1>2, <3>1 DEF IsWayUp
    <3>4. CASE up[i] = NULL
      BY <3>3, <3>4
    <3>5. CASE up[i] \in C /\ up[i] # NULL
      <4>1. up[i + 1] \in C \cup {top, NULL}
        BY <3>3, <3>5
      <4>2. w[0] = top /\ 0 \in 0 .. i + 1
        BY <1>3, <2>2 DEF IsWayUp
      <4> QED BY <4>1, <4>2
    <3>6. CASE up[i] # NULL /\ \E j \in 0 .. i : up[i] = w[j]
      <4>1. PICK j \in 0 .. i : up[i] = w[j]
        BY <3>6
      <4>2. j + 1 \in 1 .. m /\ j + 1 - 1 = j /\ j + 1 \in 0 .. i + 1
        BY <1>1, <2>2, <3>1, <4>1
      <4>3. w[j + 1] = IF w[j] = NULL THEN NULL ELSE nd[w[j]].parent
        BY <1>3, <4>2 DEF IsWayUp
      <4>4. up[i + 1] = w[j + 1]
        BY <3>3, <4>1, <4>3
      <4> QED BY <4>2, <4>4
    <3> QED BY <3>2, <3>4, <3>5, <3>6
  <2> HIDE DEF D
  <2>3. Nat \subseteq D
    BY <2>1, <2>2, SetInduction
  <2> QED BY <1>1, <2>3 DEF D
<1>5. ASSUME NEW x \in Above(n), x \notin Above(top)
      PROVE  x \in C
  <2>1. PICK i \in 0 .. m : x = up[i] /\ x # NULL
    BY <1>2, <1>5
  <2>2. \A j \in 0 .. i : j \in 0 .. m
    BY <1>1, <2>1
  <2> QED BY <1>3, <1>4, <1>5, <2>1, <2>2
<1> QED BY <1>5

\* ... and all that is above, when there is no such folder.
LEMMA AboveIn ==
  ASSUME NEW nd \in [NodeId -> NodeType], nd = node, NEW n \in NodeId, NEW C, n \in C,
         \A x \in C : x \in NodeId /\ nd[x].parent \in C \cup {NULL}
  PROVE  Above(n) \subseteq C
<1> PICK m : m = Cardinality(NodeId)
  OBVIOUS
<1>1. m \in Nat
  BY AboveIs
<1>2. PICK up : IsWayUp(nd, n, m, up) /\ Above(n) = {up[i] : i \in 0 .. m} \ {NULL}
  BY AboveIs
<1>3. \A i \in 0 .. m : up[i] \in C \cup {NULL}
  <2> DEFINE D == {i \in Nat : i \in 0 .. m => up[i] \in C \cup {NULL}}
  <2>1. 0 \in D
    BY <1>2 DEF IsWayUp
  <2>2. ASSUME NEW i \in Nat, i \in D
        PROVE  i + 1 \in D
    <3> SUFFICES ASSUME i + 1 \in 0 .. m PROVE up[i + 1] \in C \cup {NULL}
      BY <2>2
    <3>1. i \in 0 .. m /\ i + 1 \in 1 .. m /\ i + 1 - 1 = i
      BY <1>1, <2>2
    <3>2. up[i] \in C \cup {NULL}
      BY <2>2, <3>1
    <3>3. up[i + 1] = IF up[i] = NULL THEN NULL ELSE nd[up[i]].parent
      BY <1>2, <3>1 DEF IsWayUp
    <3> QED BY <3>2, <3>3
  <2> HIDE DEF D
  <2>3. Nat \subseteq D
    BY <2>1, <2>2, SetInduction
  <2> QED BY <1>1, <2>3 DEF D
<1> QED BY <1>2, <1>3

-----------------------------------------------------------------------------
(* A remover or mover, and where the others are.                            *)

\* The folder that a remover or mover has for itself.
LEMMA OwnsIt ==
  ASSUME NEW K, NEW dp, Inv(node, call, frame, answer, K, dp), NEW t \in Thread, OwnsFolder(t)
  PROVE  Discarded(t) \in NodeId /\ Discarded(t) \in Owns(frame[t]) \cup Vacates(frame[t])
<1> PICK f, c, k : f = frame[t] /\ c = call[t] /\ k = K[t]
  OBVIOUS
<1>1. Local(node, c, f, k) /\ f \in FrameType
  BY DEF Inv, Local, FrameOK
<1>2. CASE Going(f) /\ HasSource(f)
  <2>1. GoingOK(c, f)
    BY <1>1, <1>2 DEF Local, FrameOK
  <2>2. Moving(f) /\ c.op = "move" /\ f.source \in NodeId
    BY <1>2, <2>1 DEF HasSource, Moving, GoingOK
  <2> QED BY <1>2, <2>2 DEF Owns, Discarded
<1>3. CASE f.role = "remove" /\ f.at \in {"body", "unlink", "discard", "discarding", "calm"}
  <2>1. Going(f)
    BY <1>3 DEF Going
  <2>2. GoingOK(c, f) /\ f.cur \in NodeId
    BY <1>1, <2>1 DEF Local, FrameOK, GoingOK
  <2>3. ~Moving(f)
    BY <1>3, <2>2 DEF GoingOK
  <2>4. f.walk = "remove"
    BY <1>3, <2>2, <2>3 DEF GoingOK, Gone, HasSource
  <2>5. c.op = "remove"
    BY <2>2, <2>4 DEF GoingOK
  <2> QED BY <1>3, <2>2, <2>5 DEF Owns, Discarded
<1>4. CASE f.at = "todo" /\ \E i \in ToSet(f.todo) : i[1] \in {"rename", "free"}
  <2>1. ListOK(c, f)
    BY <1>1, <1>4 DEF Local, FrameOK
  <2>2. PICK j \in DOMAIN f.todo : f.todo[j][1] \in {"rename", "free"}
    BY <1>4 DEF ToSet
  <2> PICK i : i = f.todo[j]
    OBVIOUS
  <2>3. i \in Items
    BY <1>1, <2>2 DEF FrameType
  <2>4. i = <<i[1], i[2]>> /\ i[2] \in NodeId
    BY <2>2, <2>3 DEF Items
  <2>5. i[1] = "rename" => c.op = "move" /\ i[2] = f.source
    BY <2>1, <2>2 DEF ListOK
  <2>6. i[1] = "free" => c.op = "remove" /\ i[2] = f.cur
    BY <2>1, <2>2 DEF ListOK
  <2>7. Discarded(t) = i[2]
    BY <2>2, <2>5, <2>6 DEF Discarded
  <2>8. i[2] \in Listed(f, "rename") \cup Listed(f, "free")
    BY <2>2, <2>4 DEF Listed
  <2> QED BY <1>4, <2>4, <2>7, <2>8 DEF Vacates
<1> QED BY <1>2, <1>3, <1>4 DEF OwnsFolder

\* The folders of a move beside cur, when it asks to be let in there: not in the
\* part of its chains that its walk makes longer.
LEMMA Branches ==
  ASSUME NEW nd, NEW c, NEW f, NEW k, Local(nd, c, f, k), Going(f), InLock(f), Moving(f),
         NEW x \in {f.shared, f.source, f.target_parent} \ {f.cur}
  PROVE  \E o \in {1, 2} : o # WalkSlot(f) /\ x \in k.chain[o] \cup k.chain[3]
<1>1. GoingOK(c, f) /\ f.at # "todo" /\ Slots(f) = 1 .. 3 /\ f.shared # NULL
  BY TreeAssumption DEF Local, FrameOK, GoingOK, Going, Slots
<1>2. \A i \in 1 .. 3 : IsChain(nd, k.chain[i], Bottom(nd, f, i), Top(f, i))
  BY <1>1 DEF Local, ChainsOK
<1>3. WalkSlot(f) \in {1, 2} /\ (f.walk = "source" <=> WalkSlot(f) = 1)
  BY DEF WalkSlot, Moving
<1>4. f.shared \in k.chain[3]
  <2>1. Bottom(nd, f, 3) = f.shared /\ Top(f, 3) = NULL
    BY <1>1 DEF Bottom, Top
  <2> QED BY <1>1, <1>2, <2>1 DEF IsChain
<1>5. CASE x = f.shared
  BY <1>3, <1>4, <1>5
<1>6. CASE x = f.source /\ x # f.shared
  <2>1. HasSource(f) /\ f.walk = "target"
    BY <1>1, <1>6 DEF GoingOK, HasSource, Leading, InLock, Moving
  <2>2. Bottom(nd, f, 1) = f.source /\ Top(f, 1) = f.shared
    BY <1>1, <2>1 DEF Bottom, Top
  <2>3. f.source \in k.chain[1]
    BY <1>2, <1>6, <2>2 DEF IsChain
  <2> QED BY <1>3, <1>6, <2>1, <2>3
<1>7. CASE x = f.target_parent /\ x # f.shared
  <2>1. HasTarget(f) /\ f.walk = "source"
    BY <1>1, <1>7 DEF GoingOK, HasTarget, Leading, InLock, Moving
  <2>2. Bottom(nd, f, 2) = f.target_parent /\ Top(f, 2) = f.shared
    BY <1>1, <2>1 DEF Bottom, Top
  <2>3. f.target_parent \in k.chain[2]
    BY <1>2, <1>7, <2>2 DEF IsChain
  <2> QED BY <1>3, <1>7, <2>1, <2>3
<1> QED BY <1>5, <1>6, <1>7

\* Where the folder cur is, when the thread counts there already.
LEMMA WalkChain ==
  ASSUME NEW nd, NEW c, NEW f, NEW k, Local(nd, c, f, k), Going(f), InLock(f), Moving(f), ~Ahead(f)
  PROVE  f.cur \in k.chain[WalkSlot(f)]
<1>1. GoingOK(c, f) /\ f.at # "todo" /\ Slots(f) = 1 .. 3
  BY DEF Local, FrameOK, Going, Slots
<1>2. \A i \in 1 .. 3 : IsChain(nd, k.chain[i], Bottom(nd, f, i), Top(f, i))
  BY <1>1 DEF Local, ChainsOK
<1>3. f.cur # f.shared
  BY <1>1 DEF GoingOK, InLock, Leading, Moving
<1>4. Bottom(nd, f, WalkSlot(f)) = f.cur /\ Top(f, WalkSlot(f)) = f.shared /\ WalkSlot(f) \in 1 .. 3
  BY <1>1, <1>3 DEF GoingOK, InLock, Leading, Moving, WalkSlot, Here, Bottom, Top, HasSource,
      HasTarget
<1> QED BY <1>2, <1>3, <1>4 DEF IsChain

\* The folders of chains 3 and o, from one of them up.
LEMMA AboveChains ==
  ASSUME NEW nd \in [NodeId -> NodeType], nd = node, NEW c, NEW f, NEW k, Local(nd, c, f, k),
         Going(f), Moving(f), NEW o \in {1, 2}, NEW x \in k.chain[o] \cup k.chain[3]
  PROVE  Above(x) \subseteq k.chain[o] \cup k.chain[3]
<1>1. GoingOK(c, f) /\ f.at # "todo" /\ Slots(f) = 1 .. 3 /\ f.shared # NULL
  BY TreeAssumption DEF Local, FrameOK, GoingOK, Going, Slots
<1>2. \A i \in 1 .. 3 : IsChain(nd, k.chain[i], Bottom(nd, f, i), Top(f, i))
  BY <1>1 DEF Local, ChainsOK
<1>3. Top(f, o) = f.shared /\ Top(f, 3) = NULL /\ Bottom(nd, f, 3) = f.shared
  BY <1>1 DEF Top, Bottom
<1>4. IsChain(nd, k.chain[o], Bottom(nd, f, o), f.shared) /\ IsChain(nd, k.chain[3], f.shared, NULL)
  BY <1>2, <1>3
<1>5. f.shared \in k.chain[3]
  BY <1>1, <1>4 DEF IsChain
<1> DEFINE C == k.chain[o] \cup k.chain[3]
<1>6. \A y \in C : y \in NodeId /\ nd[y].parent \in C \cup {NULL}
  BY <1>4, <1>5 DEF IsChain
<1>7. x \in NodeId /\ x \in C
  BY <1>6
<1> HIDE DEF C
<1>8. Above(x) \subseteq C
  BY <1>6, <1>7, AboveIn
<1> QED BY <1>8 DEF C

\* The folder from which a call has come to the one where it asks to be let in.
LEMMA ComesFrom ==
  ASSUME NEW nd, NEW c, NEW f, NEW k, Local(nd, c, f, k), Going(f), Ahead(f),
         NEW x, x = nd[f.cur].parent, x # NULL
  PROVE  x \in Counts(k)
<1>1. GoingOK(c, f) /\ f.at # "todo" /\ Slots(f) = 1 .. 3 /\ InLock(f) /\ Here(nd, f) = x
  BY DEF Local, FrameOK, Going, Slots, Ahead, InLock, Here
<1>2. CASE ~Moving(f)
  <2>1. Bottom(nd, f, 3) = x /\ Top(f, 3) = NULL
    BY <1>1, <1>2 DEF Bottom, Top
  <2> QED BY <1>1, <2>1, BottomIn
<1>3. CASE Moving(f) /\ x = f.shared
  BY <1>3, SharedCounts
<1>4. CASE Moving(f) /\ x # f.shared
  <2>1. CASE f.walk = "source"
    <3>1. ~HasSource(f)
      BY <1>1, <1>4, <2>1 DEF GoingOK, HasSource, Leading, Moving
    <3>2. Bottom(nd, f, 1) = x /\ Top(f, 1) = f.shared
      BY <1>1, <1>4, <2>1, <3>1 DEF Bottom, Top
    <3> QED BY <1>1, <1>4, <3>2, BottomIn
  <2>2. CASE f.walk = "target"
    <3>1. ~HasTarget(f)
      BY <1>1, <1>4, <2>2 DEF GoingOK, HasTarget, Leading, Moving
    <3>2. Bottom(nd, f, 2) = x /\ Top(f, 2) = f.shared
      BY <1>1, <1>4, <2>2, <3>1 DEF Bottom, Top
    <3> QED BY <1>1, <1>4, <3>2, BottomIn
  <2> QED BY <1>4, <2>1, <2>2 DEF Moving
<1> QED BY <1>2, <1>3, <1>4

\* The folders of a call that is not asking to be let in.
LEMMA UnlockedIn ==
  ASSUME NEW nd, NEW c, NEW f, NEW k, Local(nd, c, f, k), Going(f), Stands(f), ~InLock(f),
         NEW x \in {f.cur, f.shared, f.source, f.target_parent}, x # NULL
  PROVE  x \in Counts(k)
<1>1. GoingOK(c, f) /\ f \in FrameType /\ Slots(f) = 1 .. 3 /\ ~Ahead(f) /\ f.at # "todo"
  BY DEF Local, FrameOK, GoingOK, Going, Slots, InLock, Ahead
<1>2. CASE ~Moving(f)
  <2>1. f.role # "shared"
    BY <1>1, <1>2 DEF GoingOK, HasSource, Gone, InLock, Going, FrameType
  <2>2. x = f.cur
    BY <1>1, <1>2, <2>1 DEF GoingOK
  <2> QED BY <1>1, <1>2, <2>2, HereCounts
<1>3. CASE Moving(f)
  <2>1. f.shared \in Counts(k)
    BY <1>3, SharedCounts
  <2>2. f.source # f.shared => f.source \in Counts(k)
    <3> SUFFICES ASSUME f.source # f.shared PROVE f.source \in Counts(k)
      OBVIOUS
    <3>1. HasSource(f)
      BY <1>3 DEF HasSource
    <3>2. Bottom(nd, f, 1) = f.source /\ Top(f, 1) = f.shared
      BY <1>1, <1>3, <3>1 DEF Bottom, Top
    <3> QED BY <1>1, <3>2, BottomIn
  <2>3. f.target_parent # f.shared => f.target_parent \in Counts(k)
    <3> SUFFICES ASSUME f.target_parent # f.shared PROVE f.target_parent \in Counts(k)
      OBVIOUS
    <3>1. HasTarget(f)
      BY <1>3 DEF HasTarget
    <3>2. Bottom(nd, f, 2) = f.target_parent /\ Top(f, 2) = f.shared
      BY <1>1, <1>3, <3>1 DEF Bottom, Top
    <3> QED BY <1>1, <3>2, BottomIn
  <2>4. f.cur \in Counts(k)
    <3>1. CASE Leading(f)
      BY <1>1, <3>1, HereCounts
    <3>2. CASE ~Leading(f)
      <4>1. f.at \in {"maps", "left", "right", "transfer"} \/ Gone(f)
        BY <1>1, <1>3, <3>2 DEF GoingOK, Going, Leading, InLock, Gone, FrameType, Moving
      <4>2. f.cur \in {f.source, f.target_parent}
        BY <1>3, <4>1 DEF Stands
      <4> QED BY <2>1, <2>2, <2>3, <4>2
    <3> QED BY <3>1, <3>2
  <2> QED BY <2>1, <2>2, <2>3, <2>4
<1> QED BY <1>2, <1>3

\* A folder that a call under way has been let in to is one where it counts, and
\* so are the folders above; cur is not among them if it may still be let out
\* there.
LEMMA LetInCounts ==
  ASSUME NEW K, NEW dp, Inv(node, call, frame, answer, K, dp), NEW u \in Thread,
         Stands(frame[u]), NEW f, f = frame[u], NEW k, k = K[u], Going(f), NEW x \in LetIn(f)
  PROVE  Above(x) \subseteq Counts(k) \ GoesAway(f, k)
<1> PICK nd, c, S : nd = node /\ c = call[u] /\ S = Summaries(call, frame, K)
  OBVIOUS
<1>1. /\ Local(nd, c, f, k) /\ nd \in [NodeId -> NodeType] /\ Global(nd, S, dp)
      /\ S[u].counts = Counts(k) /\ S[u].pending = Pending(f) /\ Counts(k) \subseteq NodeId
      /\ Pending(f) # NULL => Pending(f) \in NodeId
  BY InvParts DEF LiveIn
<1>2. GoingOK(c, f) /\ f.at # "todo" /\ Slots(f) = 1 .. 3 /\ f.cur \in NodeId /\ f \in FrameType
  BY <1>1 DEF Local, FrameOK, GoingOK, Going, Slots
<1>3. DOMAIN k.chain = 1 .. 3 /\ \A i, j \in 1 .. 3 : i # j => k.chain[i] \cap k.chain[j] = {}
  BY <1>1, <1>2 DEF Local, ChainsOK
<1>4. GoesAway(f, k) = IF f.at = "flag" THEN {f.cur} ELSE {}
  BY <1>2 DEF GoesAway
<1>5. \A y \in Counts(k) : y \in NodeId /\ nd[y].parent \in Counts(k) \cup {NULL}
  BY <1>1, CountsClosed
<1>6. /\ dp \in [NodeId -> Nat]
      /\ \A y \in NodeId : (y \in Counts(k) \/ y = Pending(f)) /\ nd[y].parent # NULL
                             => dp[nd[y].parent] < dp[y]
  BY <1>1 DEF Global, Depths
<1>7. CASE ~InLock(f)
  <2>1. GoesAway(f, k) = {}
    BY <1>4, <1>7 DEF InLock
  <2>2. x \in {f.cur, f.shared, f.source, f.target_parent} \ {NULL}
    BY <1>7 DEF LetIn
  <2>3. x \in Counts(k)
    BY <1>1, <1>7, <2>2, UnlockedIn
  <2>4. Above(x) \subseteq Counts(k)
    BY <1>1, <1>5, <2>3, AboveIn
  <2> QED BY <2>1, <2>4
<1>8. CASE InLock(f) /\ x = nd[f.cur].parent
  <2>1. x # NULL
    BY <1>8 DEF LetIn
  <2>2. x \in Counts(k) /\ dp[x] < dp[f.cur]
    <3>1. CASE Ahead(f)
      <4>1. Pending(f) = f.cur
        BY <3>1 DEF Pending
      <4>2. x \in Counts(k)
        BY <1>1, <1>8, <2>1, <3>1, ComesFrom
      <4> QED BY <1>2, <1>6, <1>8, <2>1, <4>1, <4>2
    <3>2. CASE ~Ahead(f)
      <4>1. f.cur \in Counts(k)
        BY <1>1, <1>8, <3>2, HereCounts
      <4> QED BY <1>2, <1>5, <1>6, <1>8, <2>1, <4>1
    <3> QED BY <3>1, <3>2
  <2> DEFINE C == {y \in Counts(k) : dp[y] < dp[f.cur]}
  <2>3. \A y \in C : y \in NodeId /\ nd[y].parent \in C \cup {NULL}
    <3> SUFFICES ASSUME NEW y \in C PROVE y \in NodeId /\ nd[y].parent \in C \cup {NULL}
      OBVIOUS
    <3>1. y \in NodeId /\ nd[y].parent \in Counts(k) \cup {NULL}
      BY <1>5
    <3>2. nd[y].parent # NULL => dp[nd[y].parent] < dp[y] /\ nd[y].parent \in NodeId
      BY <1>5, <1>6, <3>1
    <3>3. nd[y].parent # NULL => dp[nd[y].parent] < dp[f.cur]
      <4> SUFFICES ASSUME nd[y].parent # NULL PROVE dp[nd[y].parent] < dp[f.cur]
        OBVIOUS
      <4>1. dp[nd[y].parent] \in Nat /\ dp[y] \in Nat /\ dp[f.cur] \in Nat /\ dp[y] < dp[f.cur]
        BY <1>2, <1>6, <3>1, <3>2
      <4> QED BY <3>2, <4>1
    <3> QED BY <3>1, <3>3
  <2>4. x \in C /\ x \in NodeId /\ f.cur \notin C
    BY <1>2, <1>5, <1>6, <2>2
  <2> HIDE DEF C
  <2>5. Above(x) \subseteq C
    BY <1>1, <2>3, <2>4, AboveIn
  <2> QED BY <1>4, <2>4, <2>5 DEF C
<1>9. CASE InLock(f) /\ x # nd[f.cur].parent
  <2>1. x \in {f.shared, f.source, f.target_parent} \ {f.cur} /\ x # NULL
    BY <1>9 DEF LetIn
  <2>2. Moving(f)
    <3> SUFFICES ASSUME ~Moving(f) PROVE FALSE
      OBVIOUS
    <3>1. f.role # "shared" => f.shared = NULL /\ f.source = NULL /\ f.target_parent = NULL
      BY <1>2 DEF GoingOK
    <3>2. f.role = "shared" => f.cur = f.shared /\ f.cur = f.source /\ f.cur = f.target_parent
      BY <1>2, <1>9 DEF GoingOK
    <3> QED BY <2>1, <3>1, <3>2
  <2>3. PICK o \in {1, 2} : o # WalkSlot(f) /\ x \in k.chain[o] \cup k.chain[3]
    BY <1>1, <1>9, <2>1, <2>2, Branches
  <2>4. Above(x) \subseteq k.chain[o] \cup k.chain[3]
    BY <1>1, <2>2, <2>3, AboveChains
  <2>5. k.chain[o] \cup k.chain[3] \subseteq Counts(k)
    BY <1>3 DEF Counts
  <2>6. f.at = "flag" => f.cur \notin k.chain[o] \cup k.chain[3]
    <3> SUFFICES ASSUME f.at = "flag" PROVE f.cur \notin k.chain[o] \cup k.chain[3]
      OBVIOUS
    <3>1. f.cur \in k.chain[WalkSlot(f)]
      BY <1>1, <1>9, <2>2, WalkChain DEF Ahead
    <3>2. WalkSlot(f) \in {1, 2}
      BY <2>2 DEF WalkSlot, Moving
    <3> QED BY <1>3, <2>3, <3>1, <3>2
  <2> QED BY <1>4, <2>4, <2>5, <2>6
<1> QED BY <1>7, <1>8, <1>9

\* The folders above the one that a list notifies next, up to where that ends.
LEMMA NotifiedCount ==
  ASSUME NEW K, NEW dp, Inv(node, call, frame, answer, K, dp), NEW u \in Thread,
         NEW f, f = frame[u], NEW k, k = K[u], f.at = "todo",
         NEW i \in ToSet(f.todo), i[1] = "notify", ~Over(i)
  PROVE  Above(node[i[2]].parent) \ Above(i[3]) \subseteq Counts(k) \ GoesAway(f, k)
<1> PICK nd, c, S : nd = node /\ c = call[u] /\ S = Summaries(call, frame, K)
  OBVIOUS
<1>1. /\ Local(nd, c, f, k) /\ nd \in [NodeId -> NodeType] /\ Global(nd, S, dp) /\ f \in FrameType
      /\ S[u].counts = Counts(k) /\ Counts(k) \subseteq NodeId
  BY InvParts DEF LiveIn
<1>2. PICK j \in DOMAIN f.todo : f.todo[j] = i
  BY DEF ToSet
<1>3. i \in Items
  BY <1>1, <1>2 DEF FrameType
<1>4. i[2] \in NodeId \cup {NULL} /\ i[3] \in NodeId \cup {NULL} /\ i[2] # i[3]
  BY <1>3 DEF Items, Over
<1> PICK a, top, C0, x : a = i[2] /\ top = i[3] /\ C0 = k.chain[j] /\ x = node[a].parent
  OBVIOUS
<1>5. DOMAIN k.chain = DOMAIN f.todo /\ IsChain(nd, C0, a, top)
  <2>1. Slots(f) = DOMAIN f.todo
    BY DEF Slots
  <2>2. Bottom(nd, f, j) = a /\ Top(f, j) = top
    BY <1>2 DEF Bottom, Top, Going
  <2> QED BY <1>1, <1>2, <2>1, <2>2 DEF Local, ChainsOK
<1>6. a \in C0 /\ a \in NodeId /\ x \in C0 \cup {top} /\ C0 \subseteq Counts(k)
  <2>1. a \in C0 \cup {top} /\ C0 \subseteq NodeId /\ \A y \in C0 : nd[y].parent \in C0 \cup {top}
    BY <1>5 DEF IsChain
  <2>2. a \in C0 /\ a \in NodeId
    BY <1>4, <2>1
  <2>3. x \in C0 \cup {top}
    BY <2>1, <2>2
  <2>4. C0 \subseteq Counts(k)
    BY <1>2, <1>5 DEF Counts
  <2> QED BY <2>2, <2>3, <2>4
<1>7. /\ dp \in [NodeId -> Nat]
      /\ \A y \in C0 : nd[y].parent # NULL => dp[nd[y].parent] < dp[y]
  BY <1>1, <1>6 DEF Global, Depths
<1> DEFINE C == {y \in C0 : dp[y] < dp[a]}
<1>8. \A y \in C : y \in NodeId /\ nd[y].parent \in C \cup {top, NULL}
  <2> SUFFICES ASSUME NEW y \in C PROVE y \in NodeId /\ nd[y].parent \in C \cup {top, NULL}
    OBVIOUS
  <2>1. y \in NodeId /\ nd[y].parent \in C0 \cup {top}
    BY <1>5 DEF IsChain
  <2>2. ASSUME nd[y].parent \in C0, nd[y].parent # NULL
        PROVE  dp[nd[y].parent] < dp[a]
    <3>1. dp[nd[y].parent] < dp[y] /\ dp[y] < dp[a] /\ nd[y].parent \in NodeId
      BY <1>5, <1>7, <2>2 DEF IsChain
    <3>2. dp[nd[y].parent] \in Nat /\ dp[y] \in Nat /\ dp[a] \in Nat
      BY <1>6, <1>7, <2>1, <3>1
    <3> QED BY <3>1, <3>2
  <2> QED BY <2>1, <2>2
<1>9. ASSUME NEW y \in C
      PROVE  y \in Counts(k) /\ y \notin GoesAway(f, k)
  <2>1. y \in C0 /\ y # a
    BY <1>6, <1>7, <1>9
  <2>2. y \in Counts(k)
    BY <1>6, <2>1
  <2>3. ASSUME NEW l \in DOMAIN f.todo, f.todo[l][1] = "notify", f.todo[l][2] = y, y \in k.chain[l]
        PROVE  FALSE
    <3>1. l # j
      BY <1>2, <2>1, <2>3
    <3>2. k.chain[l] \cap k.chain[j] = {}
      BY <1>1, <3>1 DEF Local, ChainsOK, Slots
    <3> QED BY <2>1, <2>3, <3>2
  <2> QED BY <2>2, <2>3 DEF GoesAway
<1>10. CASE x = top
  BY <1>10
<1>11. CASE x # top /\ x = NULL
  <2>1. FALSE
    BY <1>5, <1>6, <1>11, TreeAssumption DEF IsChain
  <2> QED BY <2>1
<1>12. CASE x # top /\ x # NULL
  <2>1. x \in C /\ x \in NodeId
    BY <1>5, <1>6, <1>7, <1>12, <1>1 DEF IsChain
  <2> HIDE DEF C
  <2>2. CASE top = NULL
    <3>1. Above(x) \subseteq C
      BY <1>1, <1>8, <2>1, <2>2, AboveIn
    <3> QED BY <1>9, <3>1
  <2>3. CASE top # NULL
    <3>1. top \in NodeId
      BY <1>4, <2>3
    <3>2. Above(x) \ Above(top) \subseteq C
      BY <1>1, <1>8, <2>1, <3>1, AboveUpTo
    <3> QED BY <1>9, <3>2
  <2> QED BY <2>2, <2>3
<1> QED BY <1>10, <1>11, <1>12

LEMMA InvPrivate == IInv => SubtreePrivate
<1> SUFFICES ASSUME IInv, NEW t \in Thread, NEW u \in Thread, OwnsFolder(t), u # t,
                    Discarded(t) \in Inhabits(frame[u])
             PROVE  FALSE
  BY DEF SubtreePrivate
<1>1. PICK K, dp : Inv(node, call, frame, answer, K, dp)
  BY DEF IInv
<1> PICK nd, S, n, f, k : /\ nd = node /\ S = Summaries(call, frame, K) /\ n = Discarded(t)
                          /\ f = frame[u] /\ k = K[u]
  OBVIOUS
<1>2. n \in NodeId /\ n \in S[t].owns \cup S[t].vacates
  <2>1. n \in Owns(frame[t]) \cup Vacates(frame[t]) /\ n \in NodeId
    BY <1>1, OwnsIt
  <2>2. S[t].owns = Owns(frame[t]) /\ S[t].vacates = Vacates(frame[t])
    BY DEF Summaries, Summary
  <2> QED BY <2>1, <2>2
<1>3. S[u].counts = Counts(k) /\ S[u].goesAway = GoesAway(f, k) /\ Global(nd, S, dp)
  BY <1>1, InvParts
<1>4. n \in Counts(k) => n \in GoesAway(f, k)
  BY <1>2, <1>3 DEF Global, Privacy, OwnedBy, Vacant
<1>5. CASE Going(f)
  <2>1. f.at # "todo"
    BY <1>5 DEF Going
  <2>2. Inhabits(f) = UNION {Above(x) : x \in LetIn(f)}
    BY <1>5, <2>1 DEF Inhabits
  <2>3. PICK x \in LetIn(f) : n \in Above(x)
    BY <2>2
  <2>4. Above(x) \subseteq Counts(k) \ GoesAway(f, k)
    BY <1>1, <1>5, <2>3, LetInCounts DEF IInv
  <2> QED BY <1>4, <2>3, <2>4
<1>6. CASE f.at = "todo"
  <2>1. ~Going(f)
    BY <1>6 DEF Going
  <2> DEFINE I == {j \in ToSet(f.todo) : j[1] = "notify" /\ ~Over(j)}
  <2>2. Inhabits(f) = UNION {Above(node[i[2]].parent) \ Above(i[3]) : i \in I}
    BY <1>6, <2>1 DEF Inhabits
  <2>3. PICK i \in I : n \in Above(node[i[2]].parent) \ Above(i[3])
    BY <2>2
  <2>4. Above(node[i[2]].parent) \ Above(i[3]) \subseteq Counts(k) \ GoesAway(f, k)
    BY <1>1, <1>6, <2>3, NotifiedCount
  <2> QED BY <1>4, <2>3, <2>4
<1>7. CASE ~Going(f) /\ f.at # "todo"
  BY <1>7 DEF Inhabits
<1> QED BY <1>5, <1>6, <1>7

\* The folders on a list are alive.
LEMMA TodoHolds ==
  ASSUME NEW K, NEW dp, Inv(node, call, frame, answer, K, dp), NEW t \in Thread, frame[t].at = "todo"
  PROVE  Holds(frame[t]) \subseteq Live
<1> PICK nd, c, f, k, S : /\ nd = node /\ c = call[t] /\ f = frame[t] /\ k = K[t]
                          /\ S = Summaries(call, frame, K)
  OBVIOUS
<1>1. /\ Local(nd, c, f, k) /\ f \in FrameType /\ Global(nd, S, dp)
      /\ S[t].moves = Moves(f) /\ S[t].maps = k.maps
      /\ Counts(k) \cup Reads(f) \cup Writes(f) \cup k.maps \cup Moves(f) \cup Removes(f) \subseteq LiveIn(nd)
  BY InvParts
<1>2. f.at = "todo" /\ Live = LiveIn(nd)
  BY DEF Live, LiveIn
<1>3. /\ Reads(f) = Listed(f, "readerFinal") /\ Writes(f) = Listed(f, "writerFinal")
      /\ k.maps = Listed(f, "mapFinal") /\ Listed(f, "rename") \subseteq Moves(f)
      /\ Listed(f, "free") \subseteq Removes(f)
  BY <1>1, <1>2 DEF Reads, Writes, Moves, Removes, Local, MapsOK
<1>4. f.todo \in Seq(Items) /\ ToSet(f.todo) = {f.todo[i] : i \in DOMAIN f.todo}
  BY <1>1 DEF FrameType, ToSet
<1>5. ASSUME NEW i \in DOMAIN f.todo, NEW x, x = f.todo[i], x[1] # "return", ~Over(x)
      PROVE  x[2] \in LiveIn(nd)
  <2>1. x \in Items
    BY <1>4, <1>5
  <2>2. \/ x[1] \in {"readerFinal", "writerFinal", "mapFinal", "rename", "free"} /\ x = <<x[1], x[2]>> /\ x[2] \in NodeId
        \/ x[1] = "notify" /\ x[2] \in NodeId \cup {NULL} /\ x[3] \in NodeId \cup {NULL}
    BY <1>5, <2>1, ItemIs
  <2>3. ASSUME NEW kind, x = <<kind, x[2]>>, x[2] \in NodeId
        PROVE  x[2] \in Listed(f, kind)
    BY <1>5, <2>3 DEF Listed
  <2>4. CASE x[1] \in {"readerFinal", "writerFinal", "mapFinal", "rename", "free"} /\ x = <<x[1], x[2]>> /\ x[2] \in NodeId
    <3> PICK kind : kind = x[1]
      OBVIOUS
    <3>1. x[2] \in Listed(f, kind) /\ kind \in {"readerFinal", "writerFinal", "mapFinal", "rename", "free"}
      BY <2>3, <2>4
    <3>2. Listed(f, kind) \subseteq Reads(f) \cup Writes(f) \cup k.maps \cup Moves(f) \cup Removes(f)
      <4> PICK l : l = Listed(f, kind)
        OBVIOUS
      <4>1. /\ kind = "readerFinal" => l = Listed(f, "readerFinal")
            /\ kind = "writerFinal" => l = Listed(f, "writerFinal")
            /\ kind = "mapFinal" => l = Listed(f, "mapFinal")
            /\ kind = "rename" => l = Listed(f, "rename")
            /\ kind = "free" => l = Listed(f, "free")
        OBVIOUS
      <4>2. l \subseteq Reads(f) \cup Writes(f) \cup k.maps \cup Moves(f) \cup Removes(f)
        BY ONLY <1>3, <3>1, <4>1
      <4> QED BY <4>2
    <3>3. /\ Counts(k) \cup Reads(f) \cup Writes(f) \cup k.maps \cup Moves(f) \cup Removes(f) \subseteq LiveIn(nd)
          /\ x[2] \in Listed(f, kind)
      BY <1>1, <3>1
    <3> QED BY ONLY <3>2, <3>3
  <2>5. CASE x[1] = "notify"
    <3>1. i \in Slots(f) /\ Bottom(nd, f, i) = x[2] /\ Top(f, i) = x[3]
      BY <1>2, <1>5, <2>5 DEF Slots, Bottom, Top, Going
    <3>2. x[2] # x[3]
      BY <1>5, <2>5 DEF Over
    <3>3. x[2] \in Counts(k)
      BY <1>1, <3>1, <3>2, BottomIn
    <3> QED BY <1>1, <3>3
  <2> QED BY <2>2, <2>4, <2>5
<1>6. ASSUME NEW i \in DOMAIN f.todo, f.todo[i][1] = "rename"
      PROVE  f.target_parent \in LiveIn(nd)
  <2> PICK x : x = f.todo[i]
    OBVIOUS
  <2>1. x \in Items
    BY <1>4, <1>6
  <2>2. x = <<"rename", x[2]>> /\ x[2] \in NodeId
    BY <1>6, <2>1, ItemIs
  <2>3. x[2] \in S[t].moves
    BY <1>1, <1>3, <1>6, <2>2 DEF Listed
  <2>4. S[t].place[1] \in S[t].maps
    BY <1>1, <2>3 DEF Global, Transfers
  <2>5. S[t].place[1] = f.target_parent
    BY DEF Summaries, Summary
  <2> QED BY <1>1, <2>4, <2>5
<1>7. ASSUME NEW n \in Holds(f)
      PROVE  n \in LiveIn(nd)
  <2>1. \/ \E j \in ToSet(f.todo) : j[1] # "return" /\ ~Over(j) /\ n = j[2]
        \/ \E j \in ToSet(f.todo) : j[1] = "rename" /\ n = f.target_parent
    BY <1>2, <1>7 DEF Holds
  <2> QED BY <1>4, <1>5, <1>6, <2>1
<1> QED BY <1>2, <1>7

\* The folders in the locals of a call under way are alive.
LEMMA GoingHolds ==
  ASSUME NEW nd, NEW c, NEW f, NEW k, Local(nd, c, f, k), Going(f), Stands(f), NEW L, NULL \notin L,
         Counts(k) \subseteq L, Pending(f) # NULL => Pending(f) \in L
  PROVE  {f.cur, f.next, f.shared, f.source, f.target_parent} \ {NULL} \subseteq L
<1>1. GoingOK(c, f) /\ f \in FrameType /\ f.cur # NULL /\ Slots(f) = 1 .. 3
  BY TreeAssumption DEF Local, FrameOK, GoingOK, Going, Slots
<1>2. f.next # NULL => f.next \in L
  BY <1>1 DEF GoingOK, Pending, Ahead
<1>3. Moving(f) => f.shared \in L
  BY SharedCounts
<1>4. HasSource(f) => f.source \in L
  <2> SUFFICES ASSUME HasSource(f) PROVE f.source \in L
    OBVIOUS
  <2>1. f.source # f.shared /\ Moving(f) /\ f.at # "todo"
    BY DEF HasSource, Going
  <2>2. Bottom(nd, f, 1) = f.source /\ Top(f, 1) = f.shared
    BY <2>1 DEF Bottom, Top
  <2> QED BY <1>1, <2>1, <2>2, BottomIn
<1>5. HasTarget(f) => f.target_parent \in L
  <2> SUFFICES ASSUME HasTarget(f) PROVE f.target_parent \in L
    OBVIOUS
  <2>1. f.target_parent # f.shared /\ Moving(f) /\ f.at # "todo"
    BY DEF HasTarget, Going
  <2>2. Bottom(nd, f, 2) = f.target_parent /\ Top(f, 2) = f.shared
    BY <2>1 DEF Bottom, Top
  <2> QED BY <1>1, <2>1, <2>2, BottomIn
<1>6. f.cur \in L
  <2>1. CASE Ahead(f)
    BY <1>1, <2>1 DEF Pending
  <2>2. CASE ~Ahead(f) /\ (Leading(f) \/ ~Moving(f) \/ InLock(f))
    BY <2>2, HereCounts
  <2>3. CASE Moving(f) /\ ~Leading(f) /\ ~InLock(f)
    <3>1. f.at \in {"maps", "left", "right", "transfer"} \/ Gone(f)
      BY <1>1, <2>3 DEF GoingOK, Going, Leading, InLock, Gone, FrameType, Moving
    <3>2. f.cur \in {f.source, f.target_parent}
      BY <2>3, <3>1 DEF Stands
    <3>3. CASE f.cur = f.source
      BY <1>3, <1>4, <2>3, <3>3 DEF HasSource
    <3>4. CASE f.cur = f.target_parent
      BY <1>3, <1>5, <2>3, <3>4 DEF HasTarget
    <3> QED BY <3>2, <3>3, <3>4
  <2> QED BY <2>1, <2>2, <2>3
<1>7. CASE Moving(f)
  <2>1. f.source \in L
    <3>1. InLock(f) /\ f.role = "source" => f.cur = f.source
      BY <1>1 DEF GoingOK
    <3> QED BY <1>3, <1>4, <1>6, <1>7, <3>1 DEF HasSource
  <2>2. f.target_parent \in L
    <3>1. InLock(f) /\ f.role = "target" => f.cur = f.target_parent
      BY <1>1 DEF GoingOK
    <3> QED BY <1>3, <1>5, <1>6, <1>7, <3>1 DEF HasTarget
  <2> QED BY <1>2, <1>3, <1>6, <1>7, <2>1, <2>2
<1>8. CASE ~Moving(f) /\ f.role # "shared"
  <2>1. f.shared = NULL /\ f.source = NULL /\ f.target_parent = NULL
    BY <1>1, <1>8 DEF GoingOK
  <2> QED BY <1>2, <1>6, <2>1
<1>9. CASE ~Moving(f) /\ f.role = "shared"
  <2>1. InLock(f)
    BY <1>1, <1>9 DEF GoingOK, HasSource, Gone, InLock, Going, FrameType
  <2>2. f.cur = f.shared /\ f.cur = f.source /\ f.cur = f.target_parent
    BY <1>1, <1>9, <2>1 DEF GoingOK
  <2> QED BY <1>2, <1>6, <2>2
<1> QED BY <1>7, <1>8, <1>9

LEMMA InvMemory == IInv => NoUseAfterFree
<1> SUFFICES ASSUME IInv, NEW t \in Thread PROVE Holds(frame[t]) \subseteq Live
  BY DEF NoUseAfterFree
<1>1. PICK K, dp : Inv(node, call, frame, answer, K, dp)
  BY DEF IInv
<1> PICK nd, c, f, k : nd = node /\ c = call[t] /\ f = frame[t] /\ k = K[t]
  OBVIOUS
<1>2. /\ Local(nd, c, f, k) /\ Counts(k) \subseteq LiveIn(nd)
      /\ Pending(f) # NULL => Pending(f) \in LiveIn(nd)
  BY <1>1, InvParts
<1>3. Live = LiveIn(nd) /\ NULL \notin LiveIn(nd)
  BY TreeAssumption DEF Live, LiveIn
<1>4. CASE f.at = "todo"
  BY <1>1, <1>4, TodoHolds
<1>5. CASE f.at = "idle"
  <2>1. f = NoFrame
    BY <1>2, <1>5 DEF Local, FrameOK
  <2>2. /\ f.at # "todo" /\ f.cur = NULL /\ f.next = NULL /\ f.shared = NULL /\ f.source = NULL
        /\ f.target_parent = NULL
    BY <2>1 DEF NoFrame
  <2> QED BY <2>2 DEF Holds
<1>6. CASE f.at \notin {"todo", "idle"}
  <2>1. Going(f) /\ Stands(f)
    BY <1>6 DEF Going, IInv
  <2>2. {f.cur, f.next, f.shared, f.source, f.target_parent} \ {NULL} \subseteq LiveIn(nd)
    BY <1>2, <1>3, <2>1, GoingHolds
  <2> QED BY <1>3, <1>6, <2>2 DEF Holds
<1> QED BY <1>4, <1>5, <1>6

-----------------------------------------------------------------------------
(* The theorems.                                                            *)

\* The history of TreeHistory only watches the tree.
LEMMA HistoryIsATree == HSpec => Spec
<1>1. HInit => Init
  BY DEF HInit
<1>2. [HNext]_hvars => [Next]_vars
  BY DEF HNext, hvars
<1> QED BY <1>1, <1>2, PTL DEF HSpec, Spec

\* The types of folders, frames, calls and answers: no counter of a folder ever
\* becomes negative, and no mutex or condition has anyone but a thread.
THEOREM TreeTyped == HSpec => []TypeOK
BY HistoryIsATree, Invariance, InvTyped, PTL

\* No call ever refers to a folder that tree_remove has freed.  A folder that a
\* thread refers to is one where it counts as a subtree thread, or is about to
\* (safe_hmap_get_count), or whose protocol, map, new name or end it still has
\* to see to; and tree_remove takes away a folder only when it is alone there.
THEOREM TreePointers == HSpec => []NoUseAfterFree
BY HistoryIsATree, Invariance, InvMemory, PTL

\* Through all interleavings of tree_create, tree_remove and tree_move a folder
\* has one entry, in its parent's map and under its name, unless its remover
\* or mover is at work on it.
THEOREM TreeIsATree == HSpec => []TreeShape
BY HistoryIsATree, Invariance, InvShape, PTL

\* A remover or a mover has the subtree of its folder for itself, from the moment
\* when the writers' preliminary protocol lets it in until the folder is at its
\* new place or freed: nobody else is there, on the way or waiting, or has not
\* been undone, except a mover that has notified the nodes above its shared_node.
THEOREM TreePrivate == HSpec => []SubtreePrivate
BY HistoryIsATree, Invariance, InvPrivate, PTL

\* When all calls have returned, each folder's counters are zero, its flag is
\* down, its locks are free and nobody sleeps there, whichever returns of the
\* functions of Tree.c the calls took.
THEOREM TreeQuiescent == HSpec => []QuiescentClean
BY HistoryIsATree, Invariance, InvQuiescent, PTL
=============================================================================
