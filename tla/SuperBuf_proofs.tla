-------------------------- MODULE SuperBuf_proofs --------------------------
(***************************************************************************)
(* Proofs about SuperBuf: the reference counts of buffers, the queue of    *)
(* super buffers, and what is dispatched.                                  *)
(***************************************************************************)
EXTENDS SuperBuf, FiniteSetTheorems, SequenceTheorems, NaturalsInduction,
        WellFoundedInduction, TLAPS

-----------------------------------------------------------------------------
(* How often a sequence meets a set.                                       *)

Where(seq, S) == {i \in DOMAIN seq : seq[i] \in S}
Hits(seq, S)  == Cardinality(Where(seq, S))

Bit(P) == IF P THEN 1 ELSE 0

LEMMA HitsType ==
  ASSUME NEW T, NEW seq \in Seq(T), NEW S
  PROVE  /\ IsFiniteSet(Where(seq, S)) /\ Where(seq, S) \subseteq 1 .. Len(seq)
         /\ Hits(seq, S) \in Nat /\ Hits(seq, S) <= Len(seq)
         /\ Hits(seq, S) = 0 <=> \A i \in 1 .. Len(seq) : seq[i] \notin S
<1>1. Len(seq) \in Nat /\ DOMAIN seq = 1 .. Len(seq)
  BY LenProperties
<1>2. IsFiniteSet(1 .. Len(seq)) /\ Cardinality(1 .. Len(seq)) = Len(seq)
  BY <1>1, FS_Interval
<1>3. Where(seq, S) \in SUBSET (1 .. Len(seq))
  BY <1>1 DEF Where
<1>4. /\ IsFiniteSet(Where(seq, S)) /\ Cardinality(Where(seq, S)) <= Len(seq)
  BY <1>2, <1>3, FS_Subset
<1>5. Hits(seq, S) = 0 <=> Where(seq, S) = {}
  BY <1>4, FS_EmptySet DEF Hits
<1>6. Hits(seq, S) \in Nat
  BY <1>4, FS_CardinalityType DEF Hits
<1>7. Where(seq, S) = {} <=> \A i \in 1 .. Len(seq) : seq[i] \notin S
  BY <1>1 DEF Where
<1> QED BY <1>3, <1>4, <1>5, <1>6, <1>7 DEF Hits

LEMMA HitsNone ==
  ASSUME NEW S
  PROVE  Hits(<<>>, S) = 0
<1>1. Where(<<>>, S) = {}
  BY DEF Where
<1> QED BY <1>1, FS_EmptySet DEF Hits

LEMMA HitsOne ==
  ASSUME NEW x, NEW S
  PROVE  Hits(<<x>>, S) = Bit(x \in S)
<1>1. Where(<<x>>, S) = IF x \in S THEN {1} ELSE {}
  BY DEF Where
<1> QED BY <1>1, FS_EmptySet, FS_Singleton DEF Hits, Bit

LEMMA HitsConcat ==
  ASSUME NEW T, NEW a \in Seq(T), NEW b \in Seq(T), NEW S
  PROVE  Hits(a \o b, S) = Hits(a, S) + Hits(b, S)
<1> DEFINE shifted == {i + Len(a) : i \in Where(b, S)}
<1>1. /\ Len(a) \in Nat /\ Len(b) \in Nat
      /\ DOMAIN a = 1 .. Len(a) /\ DOMAIN b = 1 .. Len(b)
      /\ DOMAIN (a \o b) = 1 .. Len(a) + Len(b)
      /\ \A i \in 1 .. Len(a) + Len(b) :
           (a \o b)[i] = IF i <= Len(a) THEN a[i] ELSE b[i - Len(a)]
  BY ConcatProperties, LenProperties
<1>2. IsFiniteSet(Where(a, S)) /\ IsFiniteSet(Where(b, S))
  BY HitsType
<1>3. IsFiniteSet(shifted) /\ Cardinality(shifted) = Hits(b, S)
  <2> DEFINE g == [i \in Where(b, S) |-> i + Len(a)]
  <2>1. g \in Bijection(Where(b, S), shifted)
    <3>1. g \in [Where(b, S) -> shifted]
      OBVIOUS
    <3>2. \A i, j \in Where(b, S) : g[i] = g[j] => i = j
      BY <1>1 DEF Where
    <3>3. \A n \in shifted : \E i \in Where(b, S) : g[i] = n
      OBVIOUS
    <3> HIDE DEF g, shifted
    <3> QED BY <3>1, <3>2, <3>3 DEF Bijection, Injection, Surjection, IsInjective
  <2>2. ExistsBijection(Where(b, S), shifted)
    BY <2>1 DEF ExistsBijection
  <2> HIDE DEF shifted
  <2> QED BY <1>2, <2>2, FS_Bijection DEF Hits
<1>4. Where(a \o b, S) = Where(a, S) \cup shifted
  <2>1. ASSUME NEW i \in Where(a \o b, S) PROVE i \in Where(a, S) \cup shifted
    <3>1. CASE i <= Len(a)
      BY <1>1, <2>1, <3>1 DEF Where
    <3>2. CASE ~(i <= Len(a))
      <4>1. i - Len(a) \in Where(b, S) /\ i = (i - Len(a)) + Len(a)
        BY <1>1, <2>1, <3>2 DEF Where
      <4> QED BY <4>1
    <3> QED BY <3>1, <3>2
  <2>2. ASSUME NEW i \in Where(a, S) PROVE i \in Where(a \o b, S)
    BY <1>1, <2>2 DEF Where
  <2>3. ASSUME NEW i \in Where(b, S) PROVE i + Len(a) \in Where(a \o b, S)
    <3>1. /\ i + Len(a) \in 1 .. Len(a) + Len(b) /\ ~(i + Len(a) <= Len(a))
          /\ (i + Len(a)) - Len(a) = i
      BY <1>1, <2>3 DEF Where
    <3> QED BY <1>1, <2>3, <3>1 DEF Where
  <2> QED BY <2>1, <2>2, <2>3
<1>5. Where(a, S) \cap shifted = {}
  BY <1>1 DEF Where
<1> HIDE DEF shifted
<1>6. /\ Cardinality(Where(a \o b, S)) =
           Cardinality(Where(a, S)) + Cardinality(shifted) - Cardinality({})
  BY <1>2, <1>3, <1>4, <1>5, FS_Union
<1>7. Cardinality({}) = 0 /\ Hits(a, S) \in Nat /\ Hits(b, S) \in Nat
  BY FS_EmptySet, HitsType
<1> QED BY <1>3, <1>6, <1>7 DEF Hits

LEMMA Cutting ==
  ASSUME NEW T, NEW q \in Seq(T), NEW a \in 1 .. Len(q) + 1, NEW b \in a - 1 .. Len(q)
  PROVE  /\ SubSeq(q, 1, a - 1) \in Seq(T) /\ SubSeq(q, a, b) \in Seq(T)
         /\ SubSeq(q, b + 1, Len(q)) \in Seq(T)
         /\ q = SubSeq(q, 1, a - 1) \o (SubSeq(q, a, b) \o SubSeq(q, b + 1, Len(q)))
<1>1. /\ Len(q) \in Nat /\ \A i \in 1 .. Len(q) : q[i] \in T
  BY LenProperties, ElementOfSeq
<1>2. /\ SubSeq(q, 1, a - 1) \in Seq(T) /\ SubSeq(q, a, b) \in Seq(T)
      /\ SubSeq(q, b + 1, Len(q)) \in Seq(T)
  <2>1. /\ \A i \in 1 .. a - 1 : q[i] \in T
        /\ \A i \in a .. b : q[i] \in T
        /\ \A i \in b + 1 .. Len(q) : q[i] \in T
    BY <1>1
  <2>2. a - 1 \in Int /\ a \in Int /\ b \in Int /\ b + 1 \in Int /\ Len(q) \in Int
    BY <1>1
  <2> QED BY <2>1, <2>2, SubSeqProperties
<1>3. SubSeq(q, a, b) \o SubSeq(q, b + 1, Len(q)) = SubSeq(q, a, Len(q))
  <2>1. b \in a - 1 .. Len(q) /\ Len(q) \in b .. Len(q)
    BY <1>1
  <2> QED BY <2>1, ConcatAdjacentSubSeq
<1>4. SubSeq(q, 1, a - 1) \o SubSeq(q, a, Len(q)) = SubSeq(q, 1, Len(q))
  <2>1. 1 \in 1 .. Len(q) + 1 /\ a - 1 \in 1 - 1 .. Len(q) /\ Len(q) \in a - 1 .. Len(q)
        /\ (a - 1) + 1 = a
    BY <1>1
  <2>2. SubSeq(q, 1, a - 1) \o SubSeq(q, (a - 1) + 1, Len(q)) = SubSeq(q, 1, Len(q))
    BY <2>1, ConcatAdjacentSubSeq
  <2> QED BY <2>1, <2>2
<1> QED BY <1>2, <1>3, <1>4, SubSeqFull

(* What Without leaves and what it takes.                                  *)
LEMMA HitsCut ==
  ASSUME NEW T, NEW q \in Seq(T), NEW a \in 1 .. Len(q) + 1, NEW b \in a - 1 .. Len(q), NEW S
  PROVE  /\ Without(q, a, b) \in Seq(T) /\ SubSeq(q, a, b) \in Seq(T)
         /\ Hits(q, S) = Hits(Without(q, a, b), S) + Hits(SubSeq(q, a, b), S)
<1> DEFINE x == SubSeq(q, 1, a - 1)
           y == SubSeq(q, a, b)
           z == SubSeq(q, b + 1, Len(q))
<1>1. x \in Seq(T) /\ y \in Seq(T) /\ z \in Seq(T) /\ q = x \o (y \o z)
  BY Cutting
<1>2. Without(q, a, b) = x \o z
  BY DEF Without
<1> HIDE DEF x, y, z
<1>3. y \o z \in Seq(T) /\ x \o z \in Seq(T)
  BY <1>1, ConcatProperties
<1>4. Hits(y \o z, S) = Hits(y, S) + Hits(z, S)
  BY <1>1, HitsConcat
<1>5. Hits(q, S) = Hits(x, S) + Hits(y \o z, S)
  BY ZenonT(60), <1>1, <1>3, HitsConcat
<1>6. Hits(x \o z, S) = Hits(x, S) + Hits(z, S)
  BY <1>1, HitsConcat
<1>7. Hits(x, S) \in Nat /\ Hits(y, S) \in Nat /\ Hits(z, S) \in Nat
  BY <1>1, HitsType
<1>8. Hits(q, S) = Hits(x \o z, S) + Hits(y, S)
  BY <1>4, <1>5, <1>6, <1>7
<1> QED BY <1>1, <1>2, <1>3, <1>8 DEF y

LEMMA HitsSplit ==
  ASSUME NEW T, NEW q \in Seq(T), NEW n \in 0 .. Len(q), NEW S
  PROVE  /\ SubSeq(q, 1, n) \in Seq(T) /\ SubSeq(q, n + 1, Len(q)) \in Seq(T)
         /\ Hits(q, S) = Hits(SubSeq(q, 1, n), S) + Hits(SubSeq(q, n + 1, Len(q)), S)
<1>1. Len(q) \in Nat
  BY LenProperties
<1>2. n + 1 \in 1 .. Len(q) + 1 /\ Len(q) \in (n + 1) - 1 .. Len(q) /\ (n + 1) - 1 = n
  BY <1>1
<1>3. /\ SubSeq(q, 1, n) \in Seq(T) /\ SubSeq(q, n + 1, Len(q)) \in Seq(T)
  BY <1>2, Cutting
<1>4. SubSeq(q, 1, n) \o SubSeq(q, n + 1, Len(q)) = q
  <2>1. 1 \in 1 .. Len(q) + 1 /\ n \in 1 - 1 .. Len(q) /\ Len(q) \in n .. Len(q)
    BY <1>1
  <2>2. SubSeq(q, 1, n) \o SubSeq(q, n + 1, Len(q)) = SubSeq(q, 1, Len(q))
    BY <2>1, ConcatAdjacentSubSeq
  <2> QED BY <2>2, SubSeqFull
<1>5. Hits(SubSeq(q, 1, n) \o SubSeq(q, n + 1, Len(q)), S)
        = Hits(SubSeq(q, 1, n), S) + Hits(SubSeq(q, n + 1, Len(q)), S)
  BY <1>3, HitsConcat
<1> QED BY <1>3, <1>4, <1>5

LEMMA HitsAppend ==
  ASSUME NEW T, NEW q \in Seq(T), NEW e \in T, NEW S
  PROVE  /\ Append(q, e) \in Seq(T)
         /\ Hits(Append(q, e), S) = Hits(q, S) + Bit(e \in S)
<1>1. Append(q, e) = q \o <<e>> /\ <<e>> \in Seq(T) /\ Append(q, e) \in Seq(T)
  <2>1. <<e>> \in Seq(T)
    OBVIOUS
  <2> QED BY <2>1, AppendIsConcat, AppendProperties
<1>2. Hits(q \o <<e>>, S) = Hits(q, S) + Hits(<<e>>, S)
  BY <1>1, HitsConcat
<1> QED BY <1>1, <1>2, HitsOne

LEMMA HitsInsert ==
  ASSUME NEW T, NEW q \in Seq(T), NEW i \in 1 .. Len(q) + 1, NEW e \in T, NEW S
  PROVE  /\ InsertAt(q, i, e) \in Seq(T)
         /\ Hits(InsertAt(q, i, e), S) = Hits(q, S) + Bit(e \in S)
<1> DEFINE x == SubSeq(q, 1, i - 1)
           z == SubSeq(q, i, Len(q))
<1>1. Len(q) \in Nat /\ i - 1 \in 0 .. Len(q) /\ (i - 1) + 1 = i
  BY LenProperties
<1>2. x \in Seq(T) /\ z \in Seq(T) /\ Hits(q, S) = Hits(x, S) + Hits(z, S)
  BY <1>1, HitsSplit
<1>3. InsertAt(q, i, e) = x \o <<e>> \o z
  BY DEF InsertAt
<1> HIDE DEF x, z
<1>4. <<e>> \in Seq(T) /\ x \o <<e>> \in Seq(T)
  BY <1>2, ConcatProperties
<1>5. Hits(x \o <<e>>, S) = Hits(x, S) + Bit(e \in S)
  <2>1. Hits(x \o <<e>>, S) = Hits(x, S) + Hits(<<e>>, S)
    BY ZenonT(60), <1>2, <1>4, HitsConcat
  <2> QED BY <2>1, HitsOne
<1>6. Hits(x \o <<e>> \o z, S) = Hits(x \o <<e>>, S) + Hits(z, S)
  BY ZenonT(60), <1>2, <1>4, HitsConcat
<1>7. Hits(x, S) \in Nat /\ Hits(z, S) \in Nat /\ Bit(e \in S) \in Nat
  BY <1>2, HitsType DEF Bit
<1> QED BY <1>2, <1>3, <1>4, <1>5, <1>6, <1>7, ConcatProperties

LEMMA HitsTail ==
  ASSUME NEW T, NEW q \in Seq(T), q # <<>>, NEW S
  PROVE  /\ Head(q) \in T /\ Tail(q) \in Seq(T)
         /\ Hits(q, S) = Bit(Head(q) \in S) + Hits(Tail(q), S)
<1>1. Head(q) \in T /\ Tail(q) \in Seq(T)
  BY HeadTailProperties
<1>2. q = <<Head(q)>> \o Tail(q)
  OBVIOUS
<1>3. <<Head(q)>> \in Seq(T)
  BY <1>1
<1>4. Hits(<<Head(q)>> \o Tail(q), S) = Hits(<<Head(q)>>, S) + Hits(Tail(q), S)
  BY <1>1, <1>3, HitsConcat
<1> QED BY <1>1, <1>2, <1>4, HitsOne

LEMMA HitsExcept ==
  ASSUME NEW T, NEW q \in Seq(T), NEW i \in 1 .. Len(q), NEW e \in T, NEW S
  PROVE  /\ [q EXCEPT ![i] = e] \in Seq(T)
         /\ Hits([q EXCEPT ![i] = e], S) = Hits(q, S) - Bit(q[i] \in S) + Bit(e \in S)
<1> DEFINE r == [q EXCEPT ![i] = e]
           W == Where(q, S) \ {i}
<1>1. /\ r \in Seq(T) /\ DOMAIN q = 1 .. Len(q) /\ DOMAIN r = 1 .. Len(q)
      /\ \A j \in 1 .. Len(q) : r[j] = IF j = i THEN e ELSE q[j]
  BY ExceptSeq, LenProperties
<1> HIDE DEF r
<1>2. IsFiniteSet(Where(q, S)) /\ Hits(q, S) \in Nat
  BY HitsType
<1>3. /\ IsFiniteSet(W)
      /\ Cardinality(W) = Hits(q, S) - Bit(i \in Where(q, S))
  BY <1>2, FS_RemoveElement DEF Hits, Bit
<1>4. i \in Where(q, S) <=> q[i] \in S
  BY <1>1 DEF Where
<1>5. Where(r, S) = IF e \in S THEN W \cup {i} ELSE W
  BY <1>1 DEF Where
<1>6. i \notin W /\ Cardinality(W) \in Nat
  BY <1>3, FS_CardinalityType
<1> HIDE DEF W
<1>7. Hits(r, S) = Cardinality(W) + Bit(e \in S)
  <2>1. Cardinality(W \cup {i}) = Cardinality(W) + 1
    BY <1>3, <1>6, FS_AddElement
  <2> QED BY <1>5, <1>6, <2>1 DEF Hits, Bit
<1> QED BY <1>1, <1>3, <1>4, <1>7, <1>2 DEF r, Bit

-----------------------------------------------------------------------------
(* The inductive invariant.                                                *)

Slots == [Streams -> {0} \cup Frames]
Nodes == [frame_idx : Frames, slot : Slots, matched : BOOLEAN]
Commands ==
       [type : {"data"}, s : Streams, f : Frames, hint : Hints]
  \cup [type : {"req"}, num : 0 .. MaxNum, retro : 0 .. MaxNum]
  \cup [type : {"flush"}, f : {0} \cup Frames]

Fields ==
  [q : Seq(Nodes), match_cnt : Int, expected : Nat, nomatch : {0} \cup Frames,
   pending_cnt : Nat, pending_retro_cnt : Nat, bWait : BOOLEAN,
   needLEDFlash : BOOLEAN, bracketing : BOOLEAN, startZsl : BOOLEAN,
   stopZsl : BOOLEAN, burstSnapNum : Nat, led_off : Nat, once : BOOLEAN,
   hung : BOOLEAN, released : SUBSET (Streams \X Frames), dispatched : Seq(Slots)]
Channels == {b \in Fields : b.pending_retro_cnt <= b.pending_cnt}

TypeInv ==
  /\ use \in Uses
  /\ state \in {"active", "stopping", "stopped"}
  /\ on \subseteq Streams
  /\ linked \in BOOLEAN
  /\ kernel \in [Streams -> Int]
  /\ refcnt \in [Streams -> [Frames -> Int]]
  /\ last \in [Streams -> {0} \cup Frames]
  /\ cmds \in Seq(Commands)
  /\ ch \in Channels
  /\ cbs \in Seq(Slots)
  /\ scmds \in Seq(Frames)
  /\ scb \in {0} \cup Frames
  /\ held \in [Streams -> [Frames -> Nat]]
  /\ awaits \in BOOLEAN

(* Where the buffer with frame f of stream s may be.                       *)
DataOf(s, f)  == {c \in Commands : c.type = "data" /\ c.s = s /\ c.f = f}
NodeOf(s, f)  == {n \in Nodes : n.slot[s] = f}
SlotsOf(s, f) == {x \in Slots : x[s] = f}

InChannel(s, f) == Hits(cmds, DataOf(s, f)) + Hits(ch.q, NodeOf(s, f))
                   + Hits(cbs, SlotsOf(s, f))

(* A frame is in the channel once, and what is not delivered yet is nowhere. *)
PlaceInv ==
  \A s \in Streams, f \in Frames :
    /\ InChannel(s, f) <= 1
    /\ f > last[s] => /\ InChannel(s, f) = 0 /\ held[s][f] = 0
                      /\ s = Meta => scb # f /\ Hits(scmds, {f}) = 0

(* The channel has nothing left of a stream that outlives it.              *)
StopInv ==
  /\ ch.released = {} /\ ch.dispatched = <<>>
  /\ state = "active" => on = Streams /\ (use = "live" => linked)
  /\ linked => use = "live"
  /\ use = "live" =>
       /\ Meta \in on
       /\ \A i \in 1 .. Len(cmds) : cmds[i].type \in {"data", "flush"}
       /\ ~linked => /\ on = {Meta}
                     /\ IF cmds = <<>> THEN ch.q = <<>>
                        ELSE cmds[Len(cmds)].type = "flush"
  /\ state = "stopped" =>
       /\ cmds = <<>> /\ cbs = <<>> /\ ch.q = <<>>
       /\ ~linked /\ \A s \in on : Linked(s)

(* RefsMatchHolders, with the holders counted by Hits.                     *)
Aside(s, f) == IF s = Meta THEN Hits(scmds, {f}) + Bit(scb = f) ELSE 0

Count(s, f) == InChannel(s, f) + held[s][f] + Aside(s, f)

CountInv == \A s \in on, f \in Frames : refcnt[s][f] = Count(s, f)

KernelInv ==
  \A s \in on : kernel[s] + Cardinality({f \in Frames : refcnt[s][f] > 0}) = NumBufs

RefsInv == TypeInv /\ PlaceInv /\ StopInv /\ CountInv /\ KernelInv

-----------------------------------------------------------------------------
(* The queue: k matched nodes, then unmatched ones in the order of frames. *)
Split(q, k) == k \in 0 .. Len(q) /\ \A i \in 1 .. Len(q) : q[i].matched <=> i <= k

Shaped(n) ==
  /\ n.matched <=> \A s \in Streams : n.slot[s] # 0
  /\ \E s \in Streams : n.slot[s] # 0
  /\ ~n.matched \/ ~Low => \A s \in Streams : n.slot[s] \in {0, n.frame_idx}

Sorted(q) ==
  \A i, j \in 1 .. Len(q) :
    i < j /\ (~q[i].matched \/ ~Low) => q[i].frame_idx < q[j].frame_idx

GoodNodes(q, k) ==
  /\ Split(q, k)
  /\ \A i \in 1 .. Len(q) : Shaped(q[i])
  /\ Sorted(q)
  /\ Len(q) - k <= MaxUnmatched + 1

GoodQueue(b, k) ==
  /\ GoodNodes(b.q, k) /\ b.match_cnt = k /\ ~b.hung
  /\ ~Low => b.nomatch = 0
  /\ ~Burst => ~b.bWait

\* What the command thread leaves behind.
Bounded(c) == \E j \in Nat : GoodQueue(c, j) /\ (Burst => j <= WaterMark) /\ (~Burst => j = 0)

QueueInv == ~ch.hung /\ (state # "stopped" => Bounded(ch))

(* Frames still to come to the queue are newer than those of their stream in
   it, and those behind it are older; hints come with metadata only.       *)
IsData(c) == c.type = "data"

Behind(s, f) == Hits(ch.q, NodeOf(s, f)) + Hits(cbs, SlotsOf(s, f))

OrderInv ==
  \A i \in 1 .. Len(cmds) : IsData(cmds[i]) =>
    /\ \A j \in 1 .. Len(cmds) :
         j < i /\ IsData(cmds[j]) /\ cmds[j].s = cmds[i].s => cmds[j].f < cmds[i].f
    /\ \A f \in Frames : Behind(cmds[i].s, f) # 0 => f < cmds[i].f
    /\ cmds[i].hint # NoHint => cmds[i].s = Meta /\ use # "live"

BundleInv ==
  ~Low =>
    /\ \A i \in 1 .. Len(cbs) : \A s \in Streams : cbs[i][s] = cbs[i][Meta] /\ cbs[i][s] # 0
    /\ \A i, j \in 1 .. Len(cbs) : i < j => cbs[i][Meta] < cbs[j][Meta]
    /\ \A i \in 1 .. Len(cbs), j \in 1 .. Len(ch.q) : cbs[i][Meta] < ch.q[j].frame_idx

(* A request of the HAL, and the flash sequence for it.                    *)
RequestInv == ch.startZsl => ch.pending_cnt > 0

(* While future frames are awaited nothing is queued and nothing enters.   *)
AwaitInv ==
  awaits => use # "live" /\ ch.q = <<>> /\ ch.expected > MaxFrame

-----------------------------------------------------------------------------
(* The functions on the super buffer queue lose no buffer and release none *)
(* twice: what a frame counts in the queue, among the released buffers and *)
(* in what is dispatched stays what it was.                                *)

Account(b, s, f) == Hits(b.q, NodeOf(s, f)) + Bit(<<s, f>> \in b.released)
                    + Hits(b.dispatched, SlotsOf(s, f))

Single(b) == \A s \in Streams, f \in Frames : Account(b, s, f) <= 1

Keeps(b, c) == Single(b) => \A s \in Streams, f \in Frames :
                              Account(c, s, f) = Account(b, s, f)

Gains(b, c, d) ==
  Single(b) /\ Account(b, d.s, d.f) = 0 =>
    \A s \in Streams, f \in Frames :
      Account(c, s, f) = Account(b, s, f) + Bit(s = d.s /\ f = d.f)

LEMMA LowestIs ==
  ASSUME NEW S \in SUBSET Nat, S # {}
  PROVE  Lowest(S) \in S /\ \A j \in S : Lowest(S) <= j
<1>1. PICK s \in S : \A t \in S : ~(<<t, s>> \in OpToRel(<, Nat))
  BY NatLessThanWellFounded, WFMin
<1>2. \A t \in S : ~(t < s)
  BY <1>1 DEF OpToRel
<1>3. \A t \in S : s <= t
  <2> TAKE t \in S
  <2>1. s \in Nat /\ t \in Nat /\ ~(t < s)
    BY <1>2
  <2> QED BY <2>1
<1> QED BY <1>3 DEF Lowest

LEMMA FieldTypes ==
  ASSUME NEW b \in Channels
  PROVE  /\ b \in Fields
         /\ b.q \in Seq(Nodes) /\ Len(b.q) \in Nat /\ DOMAIN b.q = 1 .. Len(b.q)
         /\ \A i \in 1 .. Len(b.q) : b.q[i] \in Nodes
         /\ b.released \in SUBSET (Streams \X Frames)
         /\ b.dispatched \in Seq(Slots)
         /\ b.match_cnt \in Int /\ b.expected \in Nat /\ b.nomatch \in {0} \cup Frames
         /\ b.pending_cnt \in Nat /\ b.pending_retro_cnt \in Nat
         /\ b.pending_retro_cnt <= b.pending_cnt
         /\ b.burstSnapNum \in Nat /\ b.led_off \in Nat
<1>1. b \in Fields /\ b.pending_retro_cnt <= b.pending_cnt
  BY DEF Channels
<1>2. b.q \in Seq(Nodes)
  BY <1>1 DEF Fields
<1> QED BY <1>1, <1>2, LenProperties, ElementOfSeq DEF Fields

LEMMA AccountType ==
  ASSUME NEW b \in Channels, NEW s \in Streams, NEW f \in Frames
  PROVE  /\ Hits(b.q, NodeOf(s, f)) \in Nat
         /\ Hits(b.dispatched, SlotsOf(s, f)) \in Nat
         /\ Bit(<<s, f>> \in b.released) \in {0, 1}
         /\ Account(b, s, f) \in Nat
<1>1. Hits(b.q, NodeOf(s, f)) \in Nat /\ Hits(b.dispatched, SlotsOf(s, f)) \in Nat
  BY FieldTypes, HitsType
<1> QED BY <1>1 DEF Account, Bit

LEMMA Constants ==
  /\ Meta \in Streams /\ IsFiniteSet(Streams) /\ NumBufs \in Nat /\ NumBufs # 0
  /\ WaterMark \in Nat /\ LookBack \in Nat /\ MaxUnmatched \in Nat /\ FrameSkip \in Nat
  /\ Uses \subseteq {"zsl", "scene", "live"}
  /\ MaxFrame \in Nat /\ MaxNum \in Nat
  /\ Frames \subseteq Nat /\ 0 \notin Frames /\ IsFiniteSet(Frames)
<1>1. MaxFrame \in Nat
  BY SuperBufAssumption DEF SuperBufAssumption
<1>2. IsFiniteSet(Frames)
  BY <1>1, FS_Interval DEF Frames
<1> QED BY <1>1, <1>2, SuperBufAssumption DEF SuperBufAssumption, Frames

LEMMA AllBufsHits ==
  ASSUME NEW nodes \in Seq(Nodes)
  PROVE  /\ AllBufs(nodes) \in SUBSET (Streams \X Frames)
         /\ \A s \in Streams, f \in Frames :
              <<s, f>> \in AllBufs(nodes) <=> Hits(nodes, NodeOf(s, f)) # 0
<1>1. DOMAIN nodes = 1 .. Len(nodes) /\ \A i \in 1 .. Len(nodes) : nodes[i] \in Nodes
  BY LenProperties, ElementOfSeq
<1>2. ASSUME NEW n \in Nodes
      PROVE  Bufs(n) = {p \in Streams \X Frames : n.slot[p[1]] = p[2]}
  <2>1. n.slot \in [Streams -> {0} \cup Frames]
    BY DEF Nodes, Slots
  <2>2. \A p \in Bufs(n) : p \in Streams \X Frames /\ n.slot[p[1]] = p[2]
    BY <2>1 DEF Bufs
  <2>3. ASSUME NEW p \in Streams \X Frames, n.slot[p[1]] = p[2] PROVE p \in Bufs(n)
    <3>1. p = <<p[1], n.slot[p[1]]>> /\ p[1] \in Streams /\ n.slot[p[1]] # 0
      BY <2>3, Constants
    <3> QED BY <3>1 DEF Bufs
  <2> QED BY <2>2, <2>3
<1>3. AllBufs(nodes) = {p \in Streams \X Frames : \E i \in 1 .. Len(nodes) : nodes[i].slot[p[1]] = p[2]}
  BY <1>1, <1>2 DEF AllBufs
<1>4. ASSUME NEW s \in Streams, NEW f \in Frames
      PROVE  <<s, f>> \in AllBufs(nodes) <=> Hits(nodes, NodeOf(s, f)) # 0
  <2>1. <<s, f>> \in AllBufs(nodes) <=> \E i \in 1 .. Len(nodes) : nodes[i] \in NodeOf(s, f)
    BY <1>1, <1>3 DEF NodeOf
  <2> QED BY <2>1, HitsType
<1> QED BY <1>3, <1>4

(* Nodes a .. e leave the queue and their buffers are released.            *)
LEMMA Removing ==
  ASSUME NEW b \in Channels, NEW c, NEW a \in 1 .. Len(b.q) + 1, NEW e \in a - 1 .. Len(b.q),
         c.q = Without(b.q, a, e),
         c.released = b.released \cup AllBufs(SubSeq(b.q, a, e)),
         c.dispatched = b.dispatched
  PROVE  /\ Keeps(b, c)
         /\ c.q \in Seq(Nodes) /\ c.released \in SUBSET (Streams \X Frames)
<1>1. b.q \in Seq(Nodes) /\ b.released \in SUBSET (Streams \X Frames)
  BY FieldTypes
<1>2. SubSeq(b.q, a, e) \in Seq(Nodes) /\ Without(b.q, a, e) \in Seq(Nodes)
  BY <1>1, HitsCut
<1>3. ASSUME NEW s \in Streams, NEW f \in Frames, Account(b, s, f) <= 1
      PROVE  Account(c, s, f) = Account(b, s, f)
  <2>1. /\ Hits(b.q, NodeOf(s, f)) = Hits(c.q, NodeOf(s, f))
                                      + Hits(SubSeq(b.q, a, e), NodeOf(s, f))
        /\ Hits(c.q, NodeOf(s, f)) \in Nat /\ Hits(SubSeq(b.q, a, e), NodeOf(s, f)) \in Nat
    <3>1. Hits(b.q, NodeOf(s, f)) = Hits(Without(b.q, a, e), NodeOf(s, f))
                                     + Hits(SubSeq(b.q, a, e), NodeOf(s, f))
      BY <1>1, HitsCut
    <3>2. /\ Hits(Without(b.q, a, e), NodeOf(s, f)) \in Nat
          /\ Hits(SubSeq(b.q, a, e), NodeOf(s, f)) \in Nat
      BY <1>2, HitsType
    <3> QED BY <3>1, <3>2
  <2>2. <<s, f>> \in c.released <=>
          <<s, f>> \in b.released \/ Hits(SubSeq(b.q, a, e), NodeOf(s, f)) # 0
    BY <1>2, AllBufsHits
  <2>3. Hits(b.dispatched, SlotsOf(s, f)) \in Nat
    BY AccountType
  <2> QED BY <1>3, <2>1, <2>2, <2>3 DEF Account, Bit
<1> QED BY <1>1, <1>2, <1>3, AllBufsHits DEF Keeps, Single

LEMMA WithoutHead ==
  ASSUME NEW q \in Seq(Nodes), NEW n \in 0 .. Len(q)
  PROVE  Without(q, 1, n) = SubSeq(q, n + 1, Len(q))
<1>1. SubSeq(q, n + 1, Len(q)) \in Seq(Nodes)
  BY HitsSplit
<1>2. SubSeq(q, 1, 1 - 1) = <<>>
  BY SubSeqEmpty
<1> QED BY <1>1, <1>2, ConcatEmptySeq DEF Without

\* What an operator that touches neither queue nor buffers leaves alone.
SameBufs(b, c) == c.q = b.q /\ c.released = b.released /\ c.dispatched = b.dispatched
                  /\ c.match_cnt = b.match_cnt

LEMMA SameKeeps ==
  ASSUME NEW b, NEW c, SameBufs(b, c)
  PROVE  Keeps(b, c)
BY DEF SameBufs, Keeps, Account

LEMMA KeepsTrans ==
  ASSUME NEW b, NEW c, NEW d, Keeps(b, c), Keeps(c, d)
  PROVE  Keeps(b, d)
BY DEF Keeps, Single

LEMMA MatchedFinite ==
  ASSUME NEW q \in Seq(Nodes)
  PROVE  /\ Matched(q) \subseteq 1 .. Len(q) /\ Unmatched(q) \subseteq 1 .. Len(q)
         /\ Cardinality(Matched(q)) \in Nat /\ Cardinality(Unmatched(q)) \in Nat
         /\ Ready(q) \in 0 .. Len(q)
         /\ Cardinality(Unmatched(q)) # 0 => Unmatched(q) # {}
<1>1. Len(q) \in Nat /\ DOMAIN q = 1 .. Len(q)
  BY LenProperties
<1>2. Matched(q) \in SUBSET (1 .. Len(q)) /\ Unmatched(q) \in SUBSET (1 .. Len(q))
  BY <1>1 DEF Matched, Unmatched
<1>3. IsFiniteSet(1 .. Len(q))
  BY <1>1, FS_Interval
<1>4. IsFiniteSet(Matched(q)) /\ IsFiniteSet(Unmatched(q))
  BY <1>2, <1>3, FS_Subset
<1>5. Ready(q) \in 0 .. Len(q)
  <2>1. Ready(q) = IF Unmatched(q) = {} THEN Len(q) ELSE Lowest(Unmatched(q)) - 1
    BY DEF Ready, Unmatched
  <2>2. CASE Unmatched(q) = {}
    BY <1>1, <2>1, <2>2
  <2>3. CASE Unmatched(q) # {}
    <3>1. Unmatched(q) \in SUBSET Nat
      BY <1>2
    <3>2. Lowest(Unmatched(q)) \in Unmatched(q)
      BY <2>3, <3>1, LowestIs
    <3> QED BY <1>1, <1>2, <2>1, <2>3, <3>2
  <2> QED BY <2>2, <2>3
<1> QED BY <1>2, <1>4, <1>5, FS_CardinalityType, FS_EmptySet

LEMMA FlushKeeps ==
  ASSUME NEW b \in Channels
  PROVE  LET c == superbuf_flush(b)
         IN  /\ c \in Channels /\ Keeps(b, c)
             /\ c.q = <<>> /\ c.match_cnt = b.match_cnt - Cardinality(Matched(b.q))
             /\ c.dispatched = b.dispatched /\ c.nomatch = b.nomatch
             /\ c.expected = b.expected /\ c.hung = b.hung /\ c.bWait = b.bWait
             /\ c.startZsl = b.startZsl /\ c.burstSnapNum = b.burstSnapNum
             /\ c.pending_cnt = b.pending_cnt
<1> DEFINE c == superbuf_flush(b)
<1>1. b \in Fields /\ b.q \in Seq(Nodes) /\ Len(b.q) \in Nat
  BY FieldTypes
<1>2. /\ c = [b EXCEPT !.released = b.released \cup AllBufs(b.q), !.q = <<>>,
                       !.match_cnt = b.match_cnt - Cardinality(Matched(b.q))]
  BY <1>1 DEF superbuf_flush, Drop, Fields
<1> HIDE DEF c
<1>3. /\ c.q = <<>> /\ c.match_cnt = b.match_cnt - Cardinality(Matched(b.q))
      /\ c.released = b.released \cup AllBufs(b.q)
      /\ c.dispatched = b.dispatched /\ c.nomatch = b.nomatch
      /\ c.expected = b.expected /\ c.hung = b.hung /\ c.bWait = b.bWait
      /\ c.startZsl = b.startZsl /\ c.burstSnapNum = b.burstSnapNum
      /\ c.pending_cnt = b.pending_cnt
  BY <1>1, <1>2 DEF Fields
<1>4. Without(b.q, 1, Len(b.q)) = <<>> /\ SubSeq(b.q, 1, Len(b.q)) = b.q
  <2>1. Len(b.q) \in 0 .. Len(b.q) /\ Len(b.q) < Len(b.q) + 1
    BY <1>1
  <2> QED BY <1>1, <2>1, WithoutHead, SubSeqEmpty, SubSeqFull
<1>5. Keeps(b, c) /\ c.released \in SUBSET (Streams \X Frames)
  <2>1. 1 \in 1 .. Len(b.q) + 1 /\ Len(b.q) \in 1 - 1 .. Len(b.q)
    BY <1>1
  <2> QED BY <1>3, <1>4, <2>1, Removing
<1>6. c \in Channels
  <2>1. b.match_cnt - Cardinality(Matched(b.q)) \in Int
    BY <1>1, FieldTypes, MatchedFinite
  <2>2. <<>> \in Seq(Nodes)
    OBVIOUS
  <2>3. b.released \cup AllBufs(b.q) \in SUBSET (Streams \X Frames)
    BY <1>3, <1>5
  <2>4. c \in Fields
    BY <1>1, <1>2, <2>1, <2>2, <2>3 DEF Fields
  <2>5. c.pending_retro_cnt = b.pending_retro_cnt /\ b.pending_retro_cnt <= b.pending_cnt
    BY <1>1, <1>2, FieldTypes DEF Fields
  <2> QED BY <1>3, <2>4, <2>5 DEF Channels
<1> QED BY <1>3, <1>5, <1>6 DEF c

\* What handling metadata leaves alone.
SameControl(b, c) ==
  /\ c.dispatched = b.dispatched /\ c.nomatch = b.nomatch /\ c.hung = b.hung
  /\ c.startZsl = b.startZsl /\ c.burstSnapNum = b.burstSnapNum
  /\ c.pending_cnt = b.pending_cnt /\ c.bWait \in {b.bWait, FALSE}

QueueKeptOrGone(b, c) ==
  \/ c.q = b.q /\ c.match_cnt = b.match_cnt
  \/ c.q = <<>> /\ c.match_cnt = b.match_cnt - Cardinality(Matched(b.q))

LEMMA CappedType == \A n \in Nat : Capped(n) \in Nat
BY Constants DEF Capped

LEMMA PrepDoneKeeps ==
  ASSUME NEW b \in Channels, NEW prep \in {"none", "done", "future"}
  PROVE  LET c == PrepDone(b, prep)
         IN  /\ c \in Channels /\ Keeps(b, c)
             /\ SameControl(b, c) /\ QueueKeptOrGone(b, c)
             /\ prep = "none" => c = b
             /\ prep = "done" => c.q = b.q /\ c.expected = b.expected
             /\ prep = "future" => c.q = <<>> /\ c.expected = Capped(b.expected + FutureOffset)
<1> DEFINE c == PrepDone(b, prep)
<1>1. b \in Fields /\ b.expected \in Nat /\ b.pending_retro_cnt <= b.pending_cnt
  BY FieldTypes
<1>2. CASE prep = "none"
  <2>1. c = b
    BY <1>2 DEF PrepDone
  <2> HIDE DEF c
  <2> QED BY <1>2, <2>1, SameKeeps DEF c, SameControl, QueueKeptOrGone, SameBufs
<1>3. CASE prep = "done"
  <2>1. c = [b EXCEPT !.bWait = FALSE, !.needLEDFlash = FALSE]
    BY <1>3 DEF PrepDone
  <2> HIDE DEF c
  <2>2. /\ c \in Channels /\ SameBufs(b, c) /\ SameControl(b, c) /\ c.expected = b.expected
    BY <1>1, <2>1 DEF Channels, Fields, SameBufs, SameControl
  <2> QED BY <1>3, <2>2, SameKeeps DEF c, SameBufs, QueueKeptOrGone
<1>4. CASE prep = "future"
  <2> DEFINE e == superbuf_flush(b)
             x == Capped(b.expected + FutureOffset)
  <2>1. /\ e \in Channels /\ Keeps(b, e) /\ SameControl(b, e)
        /\ e.q = <<>> /\ e.match_cnt = b.match_cnt - Cardinality(Matched(b.q))
        /\ e.expected = b.expected
    BY FlushKeeps DEF SameControl
  <2>2. c = [e EXCEPT !.bWait = FALSE, !.needLEDFlash = TRUE, !.expected = Capped(e.expected + FutureOffset)]
    BY <1>4 DEF PrepDone
  <2>3. x \in Nat
    BY <1>1, Constants, CappedType DEF FutureOffset
  <2> HIDE DEF c, e, x
  <2>4. c = [e EXCEPT !.bWait = FALSE, !.needLEDFlash = TRUE, !.expected = x]
    BY <2>1, <2>2 DEF x
  <2>5. e \in Fields /\ e.pending_retro_cnt <= e.pending_cnt
    BY <2>1, FieldTypes
  <2>6. /\ c \in Fields /\ SameBufs(e, c) /\ SameControl(e, c) /\ c.expected = x
        /\ c.pending_retro_cnt = e.pending_retro_cnt
    BY <2>3, <2>4, <2>5 DEF Fields, SameBufs, SameControl
  <2>7. c \in Channels
    BY <2>5, <2>6 DEF Channels, SameControl
  <2>8. Keeps(b, c)
    BY <2>1, <2>6, SameKeeps, KeepsTrans
  <2> QED BY <1>4, <2>1, <2>6, <2>7, <2>8 DEF c, x, SameBufs, SameControl, QueueKeptOrGone
<1> QED BY <1>2, <1>3, <1>4

LEMMA GoodRangeKeeps ==
  ASSUME NEW b \in Channels, NEW good \in {0} \cup Frames
  PROVE  LET c == GoodRange(b, good)
         IN  /\ c \in Channels /\ SameBufs(b, c) /\ SameControl(b, c)
             /\ c.expected = IF good = 0 THEN b.expected ELSE good
<1> DEFINE c == GoodRange(b, good)
           leds == b.needLEDFlash /\ b.burstSnapNum > 1
<1>1. b \in Fields /\ b.pending_retro_cnt <= b.pending_cnt
  BY FieldTypes
<1>2. CASE good = 0
  <2>1. c = b
    BY <1>2 DEF GoodRange
  <2> HIDE DEF c
  <2> QED BY <1>2, <2>1 DEF c, SameBufs, SameControl
<1>3. CASE good # 0
  <2>1. c = [b EXCEPT !.expected = good, !.bracketing = TRUE,
                      !.led_off = IF leds THEN Capped(good + 1) ELSE @,
                      !.once = @ /\ ~leds]
    BY <1>3 DEF GoodRange
  <2>2. good \in Nat /\ Capped(good + 1) \in Nat
    BY Constants, CappedType
  <2>3. leds \in BOOLEAN
    OBVIOUS
  <2> HIDE DEF c, leds
  <2>4. /\ c \in Fields /\ SameBufs(b, c) /\ SameControl(b, c) /\ c.expected = good
        /\ c.pending_retro_cnt = b.pending_retro_cnt
    BY ZenonT(60), <1>1, <2>1, <2>2, <2>3 DEF Fields, SameBufs, SameControl
  <2> QED BY <1>1, <1>3, <2>4 DEF c, Channels, SameControl
<1> QED BY <1>2, <1>3

LEMMA LedOffKeeps ==
  ASSUME NEW b \in Channels, NEW f
  PROVE  LET c == LedOff(b, f)
         IN  /\ c \in Channels /\ SameBufs(b, c) /\ SameControl(b, c)
             /\ b.burstSnapNum <= 1 => c = b
<1> DEFINE c == LedOff(b, f)
           on1 == b.burstSnapNum > 1 /\ b.needLEDFlash /\ ~b.bracketing
                  /\ f >= b.led_off /\ ~b.once
<1>1. b \in Fields /\ b.pending_retro_cnt <= b.pending_cnt /\ b.burstSnapNum \in Nat
      /\ b.led_off \in Nat
  BY FieldTypes
<1>2. CASE ~on1
  <2>1. c = b
    BY <1>2 DEF LedOff
  <2> HIDE DEF c
  <2> QED BY <2>1 DEF c, SameBufs, SameControl
<1>3. CASE on1
  <2>1. c = [b EXCEPT !.expected = b.led_off, !.once = TRUE, !.stopZsl = TRUE,
                      !.needLEDFlash = FALSE]
    BY <1>3 DEF LedOff
  <2>2. ~(b.burstSnapNum <= 1)
    BY <1>1, <1>3
  <2> HIDE DEF c, on1
  <2>3. /\ c \in Fields /\ SameBufs(b, c) /\ SameControl(b, c)
        /\ c.pending_retro_cnt = b.pending_retro_cnt
    BY <1>1, <2>1 DEF Fields, SameBufs, SameControl
  <2> QED BY <1>1, <2>2, <2>3 DEF c, Channels, SameControl
<1> QED BY <1>2, <1>3

Data == {d \in Commands : d.type = "data"}

LEMMA DataTypes ==
  ASSUME NEW d \in Data
  PROVE  /\ d.s \in Streams /\ d.f \in Frames /\ d.f \in Nat /\ d.f # 0
         /\ d.hint.prep \in {"none", "done", "future"} /\ d.hint.good \in {0} \cup Frames
<1>1. d \in [type : {"data"}, s : Streams, f : Frames, hint : Hints]
  BY DEF Data, Commands
<1> QED BY <1>1, Constants DEF Hints

LEMMA MetadataKeeps ==
  ASSUME NEW b \in Channels, NEW d \in Data
  PROVE  LET c == handle_metadata(b, d)
         IN  /\ c \in Channels /\ Keeps(b, c)
             /\ SameControl(b, c) /\ QueueKeptOrGone(b, c)
<1> DEFINE c == handle_metadata(b, d)
           c1 == PrepDone(b, d.hint.prep)
           c2 == GoodRange(c1, d.hint.good)
           c3 == LedOff(c2, d.f)
<1>1. CASE ~(d.s = Meta /\ ~Linked(d.s))
  <2>1. c = b
    BY <1>1 DEF handle_metadata
  <2> HIDE DEF c
  <2> QED BY <2>1, SameKeeps DEF c, SameControl, QueueKeptOrGone, SameBufs
<1>2. CASE d.s = Meta /\ ~Linked(d.s)
  <2>0. c = c3
    BY <1>2 DEF handle_metadata
  <2>1. c1 \in Channels /\ Keeps(b, c1) /\ SameControl(b, c1) /\ QueueKeptOrGone(b, c1)
    BY DataTypes, PrepDoneKeeps
  <2> HIDE DEF c1
  <2>2. c2 \in Channels /\ SameBufs(c1, c2) /\ SameControl(c1, c2)
    BY <2>1, DataTypes, GoodRangeKeeps
  <2> HIDE DEF c2
  <2>3. c3 \in Channels /\ SameBufs(c2, c3) /\ SameControl(c2, c3)
    BY <2>2, LedOffKeeps
  <2> HIDE DEF c3, c
  <2>4. Keeps(b, c3)
    BY <2>1, <2>2, <2>3, SameKeeps, KeepsTrans
  <2>5. SameControl(b, c3) /\ QueueKeptOrGone(b, c3)
    BY <2>1, <2>2, <2>3 DEF SameControl, SameBufs, QueueKeptOrGone
  <2> QED BY <2>0, <2>3, <2>4, <2>5 DEF c
<1> QED BY <1>1, <1>2

\* The node at pos with the frame in its slot.
Filled(b, d, pos) ==
  LET n == b.q[pos]
      slot == [n.slot EXCEPT ![d.s] = d.f]
  IN [frame_idx |-> n.frame_idx, slot |-> slot, matched |-> \A s \in Streams : slot[s] # 0]

\* The queue with that node.
Queued(b, d, pos) == [b.q EXCEPT ![pos] = Filled(b, d, pos)]

Older(q, f) == {i \in Unmatched(q) : q[i].frame_idx < f}

\* Where the nodes that a full one leaves behind begin.
From(b, d, pos) ==
  LET older == {i \in Older(b.q, d.f) : i < pos} IN IF older = {} THEN pos ELSE Lowest(older)

LEMMA OlderIs ==
  ASSUME NEW q \in Seq(Nodes), NEW f \in Frames, NEW pos \in 1 .. Len(q)
  PROVE  /\ Older(q, f) \in SUBSET (1 .. Len(q))
         /\ \A i \in Older(q, f) : ~q[i].matched /\ q[i].frame_idx < f
         /\ \A i \in 1 .. Len(q) : ~q[i].matched /\ q[i].frame_idx < f => i \in Older(q, f)
         /\ Older(q, f) # {} => Lowest(Older(q, f)) \in Older(q, f)
<1>1. DOMAIN q = 1 .. Len(q) /\ Len(q) \in Nat
  BY LenProperties
<1>2. Unmatched(q) = {i \in 1 .. Len(q) : ~q[i].matched}
  BY <1>1 DEF Unmatched, Matched
<1>3. Older(q, f) = {i \in 1 .. Len(q) : ~q[i].matched /\ q[i].frame_idx < f}
  BY <1>2 DEF Older
<1>4. Older(q, f) \in SUBSET Nat
  BY <1>1, <1>3
<1>5. Older(q, f) # {} => Lowest(Older(q, f)) \in Older(q, f)
  BY <1>4, LowestIs
<1> QED BY <1>3, <1>5

LEMMA NoBufs == AllBufs(<<>>) = {}
<1>1. {Bufs(<<>>[i]) : i \in DOMAIN <<>>} = {}
  OBVIOUS
<1> QED BY <1>1 DEF AllBufs

LEMMA FilledType ==
  ASSUME NEW b \in Channels, NEW d \in Data, NEW pos \in 1 .. Len(b.q)
  PROVE  /\ Filled(b, d, pos) \in Nodes
         /\ Filled(b, d, pos).frame_idx = b.q[pos].frame_idx
         /\ Filled(b, d, pos).matched <=> \A s \in Streams : Filled(b, d, pos).slot[s] # 0
         /\ Filled(b, d, pos).slot[d.s] = d.f
         /\ \A s \in Streams : s # d.s => Filled(b, d, pos).slot[s] = b.q[pos].slot[s]
<1>1. b.q[pos] \in Nodes /\ d.s \in Streams /\ d.f \in Frames
  BY FieldTypes, DataTypes
<1>2. b.q[pos].frame_idx \in Frames /\ b.q[pos].slot \in [Streams -> {0} \cup Frames]
  BY <1>1 DEF Nodes, Slots
<1>3. [b.q[pos].slot EXCEPT ![d.s] = d.f] \in Slots
  BY <1>1, <1>2 DEF Slots
<1> QED BY <1>1, <1>2, <1>3 DEF Filled, Nodes

\* A full node takes the place of those it leaves behind.
Completed(b, d, pos, c) ==
  LET from == From(b, d, pos)
  IN  /\ c.q = Without(Queued(b, d, pos), from, pos - 1) /\ c.match_cnt = b.match_cnt + 1
      /\ c.released = b.released \cup AllBufs(SubSeq(Queued(b, d, pos), from, pos - 1))

LEMMA JoinIs ==
  ASSUME NEW b \in Channels, NEW d \in Data, NEW pos \in 1 .. Len(b.q)
  PROVE  LET c == Join(b, d, pos)
             q2 == Queued(b, d, pos)
             from == From(b, d, pos)
         IN  /\ SameControl([b EXCEPT !.nomatch = 0], c) /\ c.nomatch = 0 /\ c.bWait = b.bWait
             /\ c \in Channels
             /\ from \in 1 .. pos
             /\ b.q[pos].slot[d.s] # 0 =>
                  /\ c.q = b.q /\ c.match_cnt = b.match_cnt
                  /\ c.released = b.released \cup {<<d.s, d.f>>}
             /\ b.q[pos].slot[d.s] = 0 /\ ~Filled(b, d, pos).matched =>
                  /\ c.q = q2 /\ c.match_cnt = b.match_cnt
                  /\ c.released = b.released
             /\ b.q[pos].slot[d.s] = 0 /\ Filled(b, d, pos).matched =>
                  Completed(b, d, pos, c)
<1> DEFINE c == Join(b, d, pos)
           n == Filled(b, d, pos)
           q2 == Queued(b, d, pos)
           from == From(b, d, pos)
           older == {i \in Unmatched(b.q) : i < pos /\ b.q[i].frame_idx < d.f}
           filled == [b.q[pos] EXCEPT !.slot[d.s] = d.f]
           full == \A s \in Streams : filled.slot[s] # 0
           b1 == [b EXCEPT !.nomatch = 0]
           b2 == [b1 EXCEPT !.q[pos] = [filled EXCEPT !.matched = full]]
           b3 == [b2 EXCEPT !.expected = Capped(d.f + FrameSkip), !.match_cnt = @ + 1]
           x == Capped(d.f + FrameSkip)
<1>1. /\ b \in Fields /\ b.pending_retro_cnt <= b.pending_cnt
      /\ b.q \in Seq(Nodes) /\ Len(b.q) \in Nat /\ b.q[pos] \in Nodes
      /\ DOMAIN b.q = 1 .. Len(b.q) /\ b.match_cnt \in Int
      /\ b.released \in SUBSET (Streams \X Frames)
  BY FieldTypes
<1>2. d.s \in Streams /\ d.f \in Frames /\ d.f \in Nat
  BY DataTypes
<1>3. n \in Nodes /\ (n.matched <=> full) /\ n = [filled EXCEPT !.matched = full]
  <2>1. b.q[pos] \in [frame_idx : Frames, slot : [Streams -> {0} \cup Frames], matched : BOOLEAN]
    BY <1>1 DEF Nodes, Slots
  <2>2. filled.slot = [b.q[pos].slot EXCEPT ![d.s] = d.f]
    BY <2>1
  <2>3. filled = [frame_idx |-> b.q[pos].frame_idx,
                  slot |-> [b.q[pos].slot EXCEPT ![d.s] = d.f],
                  matched |-> b.q[pos].matched]
    BY <2>1
  <2>4. n = [frame_idx |-> b.q[pos].frame_idx,
             slot |-> [b.q[pos].slot EXCEPT ![d.s] = d.f], matched |-> full]
    BY <2>2 DEF Filled
  <2> HIDE DEF n, filled, full
  <2>5. n = [filled EXCEPT !.matched = full]
    BY <2>3, <2>4
  <2>6. n.matched = full
    BY <2>4
  <2> QED BY <2>5, <2>6, FilledType DEF n
<1>4. q2 \in Seq(Nodes) /\ Len(q2) = Len(b.q)
  BY <1>1, <1>3, ExceptSeq DEF Queued
<1>5. x \in Nat
  <2>1. d.f + FrameSkip \in Nat
    BY <1>2, Constants
  <2> QED BY <2>1, CappedType
<1>6. older = {i \in Older(b.q, d.f) : i < pos}
  BY DEF Older
<1>7. from \in 1 .. pos /\ (older = {} => from = pos) /\ (older # {} => from = Lowest(older))
  <2>1. older \in SUBSET (1 .. pos - 1)
    BY <1>1, <1>6, MatchedFinite
  <2>2. older # {} => Lowest(older) \in older
    <3>1. older \in SUBSET Nat
      BY <1>1, <2>1
    <3> QED BY <3>1, LowestIs
  <2>3. from = IF older = {} THEN pos ELSE Lowest(older)
    BY <1>6 DEF From
  <2> HIDE DEF from, older
  <2>4. CASE older = {}
    BY <1>1, <2>3, <2>4
  <2>5. CASE older # {}
    <3>1. from = Lowest(older) /\ from \in 1 .. pos - 1
      BY <2>1, <2>2, <2>3, <2>5
    <3> QED BY <1>1, <2>5, <3>1
  <2> QED BY <2>4, <2>5
<1>8. /\ b1 \in Fields /\ b1.q = b.q /\ b1.released = b.released /\ b1.match_cnt = b.match_cnt
      /\ b1.nomatch = 0 /\ SameControl(b1, b1) /\ b1.bWait = b.bWait
      /\ b1.pending_cnt = b.pending_cnt /\ b1.pending_retro_cnt = b.pending_retro_cnt
  BY <1>1 DEF Fields, SameControl
<1>9. /\ b2 = [b1 EXCEPT !.q = q2]
  <2>1. b2 = [b1 EXCEPT !.q = [b1.q EXCEPT ![pos] = [filled EXCEPT !.matched = full]]]
    BY <1>8 DEF Fields
  <2>2. q2 = [b.q EXCEPT ![pos] = n]
    BY DEF Queued
  <2> HIDE DEF b1, b2, n, filled, full
  <2> QED BY <1>3, <1>8, <2>1, <2>2
<1> HIDE DEF n, filled, full, older, from, q2
<1>10. CASE b.q[pos].slot[d.s] # 0
  <2>1. c = [b1 EXCEPT !.released = @ \cup {<<d.s, d.f>>}]
    BY <1>10 DEF Join
  <2> HIDE DEF c, b1
  <2>2. b1.released \cup {<<d.s, d.f>>} \in SUBSET (Streams \X Frames)
    BY <1>1, <1>2, <1>8
  <2>3. /\ c \in Fields /\ SameControl(b1, c) /\ c.q = b.q /\ c.match_cnt = b.match_cnt
        /\ c.released = b.released \cup {<<d.s, d.f>>} /\ c.nomatch = 0 /\ c.bWait = b.bWait
        /\ c.pending_cnt = b.pending_cnt /\ c.pending_retro_cnt = b.pending_retro_cnt
    BY <1>8, <2>1, <2>2 DEF Fields, SameControl
  <2> QED BY <1>1, <1>7, <1>10, <2>3 DEF c, b1, Channels, from
<1>11. CASE b.q[pos].slot[d.s] = 0 /\ ~full
  <2>1. c = b2
    BY <1>11 DEF Join, filled, full
  <2> HIDE DEF c, b1, b2
  <2>2. /\ c \in Fields /\ SameControl(b1, c) /\ c.q = q2 /\ c.match_cnt = b.match_cnt
        /\ c.released = b.released /\ c.nomatch = 0 /\ c.bWait = b.bWait
        /\ c.pending_cnt = b.pending_cnt /\ c.pending_retro_cnt = b.pending_retro_cnt
    BY <1>4, <1>8, <1>9, <2>1 DEF Fields, SameControl
  <2> QED BY <1>1, <1>3, <1>7, <1>11, <2>2 DEF c, b1, Channels, from, q2, n
<1>12. CASE b.q[pos].slot[d.s] = 0 /\ full
  <2>1. /\ b3 = [b1 EXCEPT !.q = q2, !.expected = x, !.match_cnt = b.match_cnt + 1]
    BY <1>8, <1>9 DEF Fields
  <2>2. c = IF older = {} THEN b3 ELSE [Drop(b3, SubSeq(b3.q, from, pos - 1))
                                          EXCEPT !.q = Without(@, from, pos - 1)]
    <3>1. c = IF older = {} THEN b3 ELSE [Drop(b3, SubSeq(b3.q, Lowest(older), pos - 1))
                                            EXCEPT !.q = Without(@, Lowest(older), pos - 1)]
      BY <1>12 DEF Join, filled, full, older
    <3> HIDE DEF b3, c
    <3> QED BY <1>7, <3>1
  <2> DEFINE q3 == Without(q2, from, pos - 1)
             gone == AllBufs(SubSeq(q2, from, pos - 1))
  <2>3. /\ q3 \in Seq(Nodes) /\ SubSeq(q2, from, pos - 1) \in Seq(Nodes)
        /\ gone \in SUBSET (Streams \X Frames)
    <3>1. from \in 1 .. Len(q2) + 1 /\ pos - 1 \in from - 1 .. Len(q2)
      BY <1>1, <1>4, <1>7
    <3>2. q3 \in Seq(Nodes) /\ SubSeq(q2, from, pos - 1) \in Seq(Nodes)
      BY <1>4, <3>1, HitsCut
    <3> QED BY <3>2, AllBufsHits
  <2> HIDE DEF b3, c, b1, b2, x
  <2>4. c = [b1 EXCEPT !.q = q3, !.expected = x, !.match_cnt = b.match_cnt + 1,
                       !.released = b.released \cup gone]
    <3>1. CASE older = {}
      <4>1. SubSeq(q2, from, pos - 1) = <<>>
        BY <1>7, <3>1, SubSeqEmpty
      <4>2. gone = {}
        BY <4>1, NoBufs
      <4>3. q3 = q2
        <5>1. SubSeq(q2, 1, pos - 1) \o SubSeq(q2, pos, Len(q2)) = SubSeq(q2, 1, Len(q2))
          <6>1. 1 \in 1 .. Len(q2) + 1 /\ pos - 1 \in 1 - 1 .. Len(q2) /\ Len(q2) \in pos - 1 .. Len(q2)
                /\ (pos - 1) + 1 = pos
            BY <1>1, <1>4
          <6>2. SubSeq(q2, 1, pos - 1) \o SubSeq(q2, (pos - 1) + 1, Len(q2)) = SubSeq(q2, 1, Len(q2))
            BY <1>4, <6>1, ConcatAdjacentSubSeq
          <6> QED BY <6>1, <6>2
        <5>2. from = pos /\ (pos - 1) + 1 = pos
          BY <1>1, <1>7, <3>1
        <5> QED BY <1>4, <5>1, <5>2, SubSeqFull DEF Without
      <4>4. c = b3
        BY <2>2, <3>1
      <4> HIDE DEF q3, gone
      <4> QED BY <1>8, <2>1, <4>2, <4>3, <4>4 DEF Fields
    <3>2. CASE older # {}
      <4>1. c = [Drop(b3, SubSeq(b3.q, from, pos - 1)) EXCEPT !.q = Without(@, from, pos - 1)]
        BY <2>2, <3>2
      <4>2. b3 \in Fields /\ b3.q = q2 /\ b3.released = b.released
        <5>1. b.match_cnt + 1 \in Int
          BY <1>1
        <5> QED BY <1>4, <1>5, <1>8, <2>1, <5>1 DEF Fields
      <4>3. Drop(b3, SubSeq(b3.q, from, pos - 1)) = [b3 EXCEPT !.released = b.released \cup gone]
        BY <4>2 DEF Drop, Fields
      <4>4. c = [[b3 EXCEPT !.released = b.released \cup gone] EXCEPT !.q = q3]
        <5> HIDE DEF gone
        <5> QED BY <4>1, <4>2, <4>3 DEF Fields
      <4> HIDE DEF q3, gone
      <4> QED BY <1>8, <2>1, <4>4 DEF Fields
    <3> QED BY <3>1, <3>2
  <2> HIDE DEF q3, gone
  <2>5. b.match_cnt + 1 \in Int /\ b.released \cup gone \in SUBSET (Streams \X Frames)
    BY <1>1, <2>3
  <2>6. /\ c \in Fields /\ SameControl(b1, c) /\ c.q = q3 /\ c.match_cnt = b.match_cnt + 1
        /\ c.released = b.released \cup gone /\ c.nomatch = 0 /\ c.bWait = b.bWait
        /\ c.pending_cnt = b.pending_cnt /\ c.pending_retro_cnt = b.pending_retro_cnt
    BY <1>5, <1>8, <2>3, <2>4, <2>5 DEF Fields, SameControl
  <2>7. Completed(b, d, pos, c)
    BY <2>6 DEF Completed, q2, q3, gone, from
  <2> QED BY <1>1, <1>3, <1>7, <1>12, <2>6, <2>7 DEF c, b1, Channels, from, q2, n
<1> QED BY <1>10, <1>11, <1>12, <1>3, FieldTypes DEF n

LEMMA JoinGains ==
  ASSUME NEW b \in Channels, NEW d \in Data, NEW pos \in 1 .. Len(b.q)
  PROVE  Gains(b, Join(b, d, pos), d)
<1> DEFINE c == Join(b, d, pos)
           n == Filled(b, d, pos)
           q2 == Queued(b, d, pos)
           from == From(b, d, pos)
           e == [b EXCEPT !.q = q2]
<1>1. /\ b \in Fields /\ b.q \in Seq(Nodes) /\ Len(b.q) \in Nat /\ b.q[pos] \in Nodes
      /\ b.pending_retro_cnt <= b.pending_cnt
  BY FieldTypes
<1>2. d.s \in Streams /\ d.f \in Frames /\ 0 \notin Frames
  BY DataTypes, Constants
<1>3. /\ c \in Channels /\ from \in 1 .. pos /\ c.dispatched = b.dispatched
      /\ b.q[pos].slot[d.s] # 0 => c.q = b.q /\ c.released = b.released \cup {<<d.s, d.f>>}
      /\ b.q[pos].slot[d.s] = 0 /\ ~n.matched => c.q = q2 /\ c.released = b.released
      /\ b.q[pos].slot[d.s] = 0 /\ n.matched =>
           /\ c.q = Without(q2, from, pos - 1)
           /\ c.released = b.released \cup AllBufs(SubSeq(q2, from, pos - 1))
  <2>1. [b EXCEPT !.nomatch = 0].dispatched = b.dispatched
    BY <1>1 DEF Fields
  <2>2. SameControl([b EXCEPT !.nomatch = 0], c)
    BY JoinIs
  <2>3. c.dispatched = b.dispatched
    BY <2>1, <2>2 DEF SameControl
  <2>4. c \in Channels /\ from \in 1 .. pos
    BY JoinIs
  <2>5. /\ b.q[pos].slot[d.s] # 0 => c.q = b.q /\ c.released = b.released \cup {<<d.s, d.f>>}
        /\ b.q[pos].slot[d.s] = 0 /\ ~n.matched => c.q = q2 /\ c.released = b.released
    BY JoinIs
  <2>6. b.q[pos].slot[d.s] = 0 /\ n.matched =>
           /\ c.q = Without(q2, from, pos - 1)
           /\ c.released = b.released \cup AllBufs(SubSeq(q2, from, pos - 1))
    <3>1. b.q[pos].slot[d.s] = 0 /\ n.matched => Completed(b, d, pos, c)
      BY JoinIs
    <3> QED BY <3>1 DEF Completed
  <2> QED BY <2>3, <2>4, <2>5, <2>6
<1>4. /\ n \in Nodes
      /\ n.slot[d.s] = d.f /\ \A s \in Streams : s # d.s => n.slot[s] = b.q[pos].slot[s]
  <2>1. n \in Nodes
    BY FilledType
  <2>2. n.slot[d.s] = d.f /\ \A s \in Streams : s # d.s => n.slot[s] = b.q[pos].slot[s]
    BY FilledType
  <2> QED BY <2>1, <2>2
<1>5. q2 \in Seq(Nodes) /\ Len(q2) = Len(b.q)
  BY <1>1, <1>4, ExceptSeq DEF Queued
<1>6. e \in Channels /\ e.q = q2 /\ e.released = b.released /\ e.dispatched = b.dispatched
  BY <1>1, <1>5 DEF Channels, Fields
<1> HIDE DEF c, n, q2, from, e
<1>7. ASSUME b.q[pos].slot[d.s] = 0, NEW s \in Streams, NEW f \in Frames
      PROVE  Account(e, s, f) = Account(b, s, f) + Bit(s = d.s /\ f = d.f)
  <2>1. Hits(q2, NodeOf(s, f)) = Hits(b.q, NodeOf(s, f)) - Bit(b.q[pos] \in NodeOf(s, f))
                                 + Bit(n \in NodeOf(s, f))
    BY <1>1, <1>4, HitsExcept DEF q2, Queued, n
  <2>2. /\ b.q[pos] \in NodeOf(s, f) <=> b.q[pos].slot[s] = f
        /\ n \in NodeOf(s, f) <=> n.slot[s] = f
    BY <1>1, <1>4 DEF NodeOf
  <2>3. Bit(n \in NodeOf(s, f)) = Bit(b.q[pos] \in NodeOf(s, f)) + Bit(s = d.s /\ f = d.f)
    BY <1>2, <1>4, <1>7, <2>2 DEF Bit
  <2>4. Bit(b.q[pos] \in NodeOf(s, f)) \in Nat /\ Bit(s = d.s /\ f = d.f) \in Nat
    BY DEF Bit
  <2>5. /\ Hits(b.q, NodeOf(s, f)) \in Nat /\ Hits(b.dispatched, SlotsOf(s, f)) \in Nat
        /\ Bit(<<s, f>> \in b.released) \in {0, 1}
    BY AccountType
  <2>6. Hits(q2, NodeOf(s, f)) = Hits(b.q, NodeOf(s, f)) + Bit(s = d.s /\ f = d.f)
    BY <2>1, <2>3, <2>4, <2>5
  <2> QED BY <1>6, <2>4, <2>5, <2>6 DEF Account
<1> SUFFICES ASSUME Single(b), Account(b, d.s, d.f) = 0, NEW s \in Streams, NEW f \in Frames
             PROVE  Account(c, s, f) = Account(b, s, f) + Bit(s = d.s /\ f = d.f)
  BY DEF Gains, c
<1>8. CASE b.q[pos].slot[d.s] # 0
  <2>1. <<d.s, d.f>> \notin b.released
    <3>1. /\ Hits(b.q, NodeOf(d.s, d.f)) \in Nat /\ Hits(b.dispatched, SlotsOf(d.s, d.f)) \in Nat
          /\ Bit(<<d.s, d.f>> \in b.released) \in {0, 1}
      BY <1>2, AccountType
    <3>2. Bit(<<d.s, d.f>> \in b.released) = 0
      BY <3>1 DEF Account
    <3> QED BY <3>2 DEF Bit
  <2>2. Bit(<<s, f>> \in c.released) = Bit(<<s, f>> \in b.released) + Bit(s = d.s /\ f = d.f)
    BY <1>3, <1>8, <2>1 DEF Bit
  <2>3. /\ Hits(b.q, NodeOf(s, f)) \in Nat /\ Hits(b.dispatched, SlotsOf(s, f)) \in Nat
        /\ Bit(<<s, f>> \in b.released) \in {0, 1} /\ Bit(s = d.s /\ f = d.f) \in {0, 1}
    BY AccountType DEF Bit
  <2> QED BY <1>3, <1>8, <2>2, <2>3 DEF Account
<1>9. CASE b.q[pos].slot[d.s] = 0 /\ ~n.matched
  <2>1. Account(c, s, f) = Account(e, s, f)
    BY <1>3, <1>6, <1>9 DEF Account
  <2> QED BY <1>7, <1>9, <2>1
<1>10. CASE b.q[pos].slot[d.s] = 0 /\ n.matched
  <2>1. from \in 1 .. Len(e.q) + 1 /\ pos - 1 \in from - 1 .. Len(e.q)
    BY <1>1, <1>3, <1>5, <1>6
  <2>2. Keeps(e, c)
    <3>1. /\ c.q = Without(e.q, from, pos - 1) /\ c.dispatched = e.dispatched
          /\ c.released = e.released \cup AllBufs(SubSeq(e.q, from, pos - 1))
      BY <1>3, <1>6, <1>10
    <3> QED BY <1>6, <2>1, <3>1, Removing
  <2>3. Single(e)
    <3> SUFFICES ASSUME NEW t \in Streams, NEW g \in Frames PROVE Account(e, t, g) <= 1
      BY DEF Single
    <3>1. Account(e, t, g) = Account(b, t, g) + Bit(t = d.s /\ g = d.f)
      BY <1>7, <1>10
    <3>2. CASE t = d.s /\ g = d.f
      BY <3>1, <3>2 DEF Bit
    <3>3. CASE ~(t = d.s /\ g = d.f)
      <4>1. Account(b, t, g) <= 1 /\ Account(b, t, g) \in Nat
        BY AccountType DEF Single
      <4> QED BY <3>1, <3>3, <4>1 DEF Bit
    <3> QED BY <3>2, <3>3
  <2> QED BY <1>7, <1>10, <2>2, <2>3 DEF Keeps
<1> QED BY <1>8, <1>9, <1>10

NewNode(d) == [frame_idx |-> d.f, slot |-> [NoSlots EXCEPT ![d.s] = d.f],
               matched |-> Streams = {d.s}]

LEMMA NewNodeType ==
  ASSUME NEW d \in Data
  PROVE  /\ NewNode(d) \in Nodes /\ NewNode(d).frame_idx = d.f
         /\ NewNode(d).matched <=> Streams = {d.s}
         /\ \A s \in Streams : NewNode(d).slot[s] = IF s = d.s THEN d.f ELSE 0
BY DataTypes DEF NewNode, Nodes, Slots, NoSlots

Over(q) == Cardinality(Unmatched(q)) > MaxUnmatched

Newer(q, f) == {i \in Unmatched(q) : q[i].frame_idx > f}

\* The queue with room for one more unmatched node.
Room(q, f) == IF Over(q) THEN Without(q, Lowest(Older(q, f)), Lowest(Older(q, f))) ELSE q

\* The position of a new node.
At(q, f) == IF Newer(q, f) # {} THEN Lowest(Newer(q, f)) ELSE Len(q) + 1

LEMMA AtIs ==
  ASSUME NEW q \in Seq(Nodes), NEW f \in Frames
  PROVE  /\ At(q, f) \in 1 .. Len(q) + 1
         /\ \A i \in 1 .. Len(q) : ~q[i].matched /\ q[i].frame_idx > f => At(q, f) <= i
         /\ At(q, f) # Len(q) + 1 => ~q[At(q, f)].matched /\ q[At(q, f)].frame_idx > f
<1>1. DOMAIN q = 1 .. Len(q) /\ Len(q) \in Nat
  BY LenProperties
<1>2. Newer(q, f) = {i \in 1 .. Len(q) : ~q[i].matched /\ q[i].frame_idx > f}
  BY <1>1 DEF Newer, Unmatched, Matched
<1>3. CASE Newer(q, f) = {}
  BY <1>1, <1>2, <1>3 DEF At
<1>4. CASE Newer(q, f) # {}
  <2>1. Newer(q, f) \in SUBSET Nat
    BY <1>1, <1>2
  <2>2. Lowest(Newer(q, f)) \in Newer(q, f) /\ \A j \in Newer(q, f) : Lowest(Newer(q, f)) <= j
    BY <1>4, <2>1, LowestIs
  <2>3. At(q, f) = Lowest(Newer(q, f))
    BY <1>4 DEF At
  <2> HIDE DEF At
  <2> QED BY <1>1, <1>2, <2>2, <2>3
<1> QED BY <1>3, <1>4

LEMMA InsertLast ==
  ASSUME NEW T, NEW q \in Seq(T), NEW e \in T
  PROVE  InsertAt(q, Len(q) + 1, e) = Append(q, e)
<1>1. Len(q) \in Nat
  BY LenProperties
<1>2. SubSeq(q, 1, (Len(q) + 1) - 1) = q
  <2>1. (Len(q) + 1) - 1 = Len(q)
    BY <1>1
  <2> QED BY <2>1, SubSeqFull
<1>3. SubSeq(q, Len(q) + 1, Len(q)) = <<>>
  BY <1>1, SubSeqEmpty
<1>4. Append(q, e) = q \o <<e>> /\ Append(q, e) \in Seq(T)
  BY AppendIsConcat, AppendProperties
<1>5. q \o <<e>> \o <<>> = q \o <<e>>
  BY <1>4, ConcatEmptySeq
<1> QED BY <1>2, <1>3, <1>4, <1>5 DEF InsertAt

\* The frame is too old for the queue.
Refused(b, d, c) ==
  /\ c.q = b.q /\ c.match_cnt = b.match_cnt /\ c.nomatch = b.nomatch
  /\ c.released = b.released \cup {<<d.s, d.f>>}

\* The frame has a node of its own.
Entered(b, d, c) ==
  LET r == Room(b.q, d.f)
      l == Lowest(Older(b.q, d.f))
  IN  /\ c.q = InsertAt(r, At(r, d.f), NewNode(d))
      /\ c.match_cnt = b.match_cnt + Bit(NewNode(d).matched)
      /\ c.nomatch = IF Low /\ d.s # Meta THEN d.f ELSE b.nomatch
      /\ c.released = b.released \cup (IF Over(b.q) THEN AllBufs(SubSeq(b.q, l, l)) ELSE {})

\* Control that a frame which enters the queue leaves alone.
SameFlags(b, c) ==
  /\ c.dispatched = b.dispatched /\ c.hung = b.hung /\ c.startZsl = b.startZsl
  /\ c.burstSnapNum = b.burstSnapNum /\ c.pending_cnt = b.pending_cnt

LEMMA SubSeqOne ==
  ASSUME NEW T, NEW q \in Seq(T), NEW l \in 1 .. Len(q)
  PROVE  SubSeq(q, l, l) = <<q[l]>>
<1>1. Len(q) \in Nat /\ q[l] \in T /\ \A i \in l .. l : q[i] \in T
  BY LenProperties, ElementOfSeq
<1>2. l \in Int /\ l <= l + 1
  BY <1>1
<1>3. /\ SubSeq(q, l, l) \in Seq(T)
      /\ Len(SubSeq(q, l, l)) = 1
      /\ SubSeq(q, l, l)[1] = q[l]
  <2>1. l \in Int /\ \A i \in l .. l : q[i] \in T
    BY <1>1
  <2>2. /\ SubSeq(q, l, l) \in Seq(T)
        /\ Len(SubSeq(q, l, l)) = IF l <= l THEN l - l + 1 ELSE 0
        /\ \A i \in 1 .. l - l + 1 : SubSeq(q, l, l)[i] = q[l + i - 1]
    BY <2>1, SubSeqProperties
  <2>3. l - l + 1 = 1 /\ l + 1 - 1 = l /\ 1 \in 1 .. l - l + 1
    BY <1>1
  <2> QED BY <2>2, <2>3
<1>4. /\ <<q[l]>> \in Seq(T) /\ Len(<<q[l]>>) = 1 /\ <<q[l]>>[1] = q[l]
  BY <1>1
<1>5. \A i \in 1 .. Len(SubSeq(q, l, l)) : SubSeq(q, l, l)[i] = <<q[l]>>[i]
  BY <1>3, <1>4
<1> QED BY <1>3, <1>4, <1>5, SeqEqual

LEMMA EnterIs ==
  ASSUME NEW b \in Channels, NEW d \in Data
  PROVE  LET c == Enter(b, d)
         IN  /\ c \in Channels /\ SameFlags(b, c) /\ c.bWait = b.bWait
             /\ Over(b.q) /\ Older(b.q, d.f) = {} => Refused(b, d, c)
             /\ ~(Over(b.q) /\ Older(b.q, d.f) = {}) => Entered(b, d, c)
<1> DEFINE c == Enter(b, d)
           older == Older(b.q, d.f)
           l == Lowest(older)
           node == NewNode(d)
           r == Room(b.q, d.f)
           gone == IF Over(b.q) THEN AllBufs(SubSeq(b.q, l, l)) ELSE {}
           b1 == IF Over(b.q) THEN [Drop(b, <<b.q[l]>>) EXCEPT !.q = Without(@, l, l)] ELSE b
           x == IF node.matched THEN Capped(d.f + FrameSkip) ELSE b.expected
           q3 == InsertAt(r, At(r, d.f), node)
           m == b.match_cnt + Bit(node.matched)
           y == IF Low /\ d.s # Meta THEN d.f ELSE b.nomatch
<1>1. /\ b \in Fields /\ b.pending_retro_cnt <= b.pending_cnt
      /\ b.q \in Seq(Nodes) /\ Len(b.q) \in Nat /\ b.match_cnt \in Int
      /\ b.expected \in Nat /\ b.nomatch \in {0} \cup Frames
      /\ b.released \in SUBSET (Streams \X Frames)
  BY FieldTypes
<1>2. d.s \in Streams /\ d.f \in Frames /\ d.f \in Nat /\ FrameSkip \in Nat
  BY DataTypes, Constants
<1>3. /\ c = IF Over(b.q) /\ older = {} THEN [b EXCEPT !.released = @ \cup {<<d.s, d.f>>}]
             ELSE [b1 EXCEPT
                     !.q = IF Newer(b1.q, d.f) # {} THEN InsertAt(@, Lowest(Newer(b1.q, d.f)), node)
                           ELSE Append(@, node),
                     !.expected = IF node.matched THEN Capped(d.f + FrameSkip) ELSE @,
                     !.match_cnt = IF node.matched THEN @ + 1 ELSE @,
                     !.nomatch = IF Low /\ d.s # Meta THEN d.f ELSE @]
  BY DEF Enter, Over, Older, Newer, NewNode
<1>4. CASE Over(b.q) /\ older = {}
  <2>1. c = [b EXCEPT !.released = @ \cup {<<d.s, d.f>>}]
    BY <1>3, <1>4
  <2>2. b.released \cup {<<d.s, d.f>>} \in SUBSET (Streams \X Frames)
    BY <1>1, <1>2
  <2> HIDE DEF c
  <2>3. /\ c \in Fields /\ SameFlags(b, c) /\ c.bWait = b.bWait /\ Refused(b, d, c)
        /\ c.pending_retro_cnt = b.pending_retro_cnt
    BY <1>1, <2>1, <2>2 DEF Fields, SameFlags, Refused
  <2> QED BY <1>1, <1>4, <2>3 DEF c, Channels, SameFlags
<1>5. CASE ~(Over(b.q) /\ older = {})
  <2>1. Over(b.q) => l \in 1 .. Len(b.q) /\ <<b.q[l]>> = SubSeq(b.q, l, l)
    <3>1. ASSUME Over(b.q) PROVE l \in 1 .. Len(b.q)
      <4>1. Older(b.q, d.f) \in SUBSET (1 .. Len(b.q)) 
        BY <1>1 DEF Older, Unmatched, Matched
      <4>2. Older(b.q, d.f) \in SUBSET Nat /\ Older(b.q, d.f) # {}
        BY <1>1, <1>5, <3>1, <4>1
      <4> QED BY <4>1, <4>2, LowestIs
    <3>2. ASSUME Over(b.q) PROVE <<b.q[l]>> = SubSeq(b.q, l, l)
      <4> HIDE DEF l
      <4> QED BY <1>1, <3>1, <3>2, SubSeqOne
    <3> QED BY <3>1, <3>2
  <2>2. r \in Seq(Nodes) /\ gone \in SUBSET (Streams \X Frames)
    <3>1. CASE Over(b.q)
      <4>1. l \in 1 .. Len(b.q) + 1 /\ l \in l - 1 .. Len(b.q)
        BY <1>1, <2>1, <3>1
      <4>2. Without(b.q, l, l) \in Seq(Nodes) /\ SubSeq(b.q, l, l) \in Seq(Nodes)
        <5> HIDE DEF l
        <5> QED BY <1>1, <4>1, HitsCut
      <4>3. AllBufs(SubSeq(b.q, l, l)) \in SUBSET (Streams \X Frames)
        BY <4>2, AllBufsHits
      <4> QED BY <3>1, <4>2, <4>3 DEF Room
    <3>2. CASE ~Over(b.q)
      BY <1>1, <3>2 DEF Room
    <3> QED BY <3>1, <3>2
  <2>3. b1 \in Fields /\ b1 = [b EXCEPT !.q = r, !.released = b.released \cup gone]
    <3>1. CASE Over(b.q)
      <4>1. Drop(b, <<b.q[l]>>) = [b EXCEPT !.released = b.released \cup gone]
        <5> HIDE DEF l
        <5> QED BY <1>1, <2>1, <3>1 DEF Drop, Fields
      <4>2. r = Without(b.q, l, l)
        BY <3>1 DEF Room
      <4>3. b1 = [[b EXCEPT !.released = b.released \cup gone] EXCEPT !.q = Without(@, l, l)]
        BY <3>1, <4>1
      <4> HIDE DEF b1, gone, l, r
      <4> QED BY <1>1, <2>2, <4>2, <4>3 DEF Fields
    <3>2. CASE ~Over(b.q)
      <4>1. b1 = b /\ r = b.q /\ gone = {}
        BY <3>2 DEF Room
      <4> HIDE DEF b1, gone, r
      <4> QED BY <1>1, <2>2, <4>1 DEF Fields
    <3> QED BY <3>1, <3>2
  <2> HIDE DEF b1, gone, r, l, node
  <2>4. /\ b1.q = r /\ b1.expected = b.expected /\ b1.match_cnt = b.match_cnt
        /\ b1.nomatch = b.nomatch /\ b1.released = b.released \cup gone
    BY <1>1, <2>2, <2>3 DEF Fields
  <2>5. q3 = IF Newer(b1.q, d.f) # {} THEN InsertAt(b1.q, Lowest(Newer(b1.q, d.f)), node)
             ELSE Append(b1.q, node)
    <3>1. node \in Nodes
      BY NewNodeType DEF node
    <3> QED BY ZenonT(60), <2>2, <2>4, <3>1, InsertLast DEF At
  <2>6. q3 \in Seq(Nodes)
    <3>1. node \in Nodes
      BY NewNodeType DEF node
    <3>2. At(r, d.f) \in 1 .. Len(r) + 1
      BY <1>2, <2>2, AtIs
    <3> QED BY <2>2, <3>1, <3>2, HitsInsert
  <2>7. x \in Nat /\ m \in Int /\ y \in {0} \cup Frames
    <3>1. d.f + FrameSkip \in Nat
      BY <1>2
    <3>2. Capped(d.f + FrameSkip) \in Nat
      BY <3>1, CappedType
    <3> QED BY <1>1, <1>2, <3>2 DEF Bit
  <2>8. m = IF node.matched THEN b.match_cnt + 1 ELSE b.match_cnt
    BY <1>1 DEF Bit
  <2>9. c = [b1 EXCEPT !.q = q3, !.expected = x, !.match_cnt = m, !.nomatch = y]
    <3> DEFINE qq == IF Newer(b1.q, d.f) # {} THEN InsertAt(b1.q, Lowest(Newer(b1.q, d.f)), node)
                     ELSE Append(b1.q, node)
    <3>1. c = [b1 EXCEPT
                     !.q = IF Newer(b1.q, d.f) # {} THEN InsertAt(@, Lowest(Newer(b1.q, d.f)), node)
                           ELSE Append(@, node),
                     !.expected = IF node.matched THEN Capped(d.f + FrameSkip) ELSE @,
                     !.match_cnt = IF node.matched THEN @ + 1 ELSE @,
                     !.nomatch = IF Low /\ d.s # Meta THEN d.f ELSE @]
      BY <1>3, <1>5 DEF node
    <3>2. c = [b1 EXCEPT !.q = qq,
                     !.expected = IF node.matched THEN Capped(d.f + FrameSkip) ELSE b1.expected,
                     !.match_cnt = IF node.matched THEN b1.match_cnt + 1 ELSE b1.match_cnt,
                     !.nomatch = IF Low /\ d.s # Meta THEN d.f ELSE b1.nomatch]
      <4> HIDE DEF c
      <4> QED BY <2>3, <3>1 DEF Fields
    <3>3. qq = q3
      BY <2>5
    <3> HIDE DEF c, qq, q3, m
    <3> QED BY <2>4, <2>8, <3>2, <3>3
  <2> HIDE DEF c, q3, x, m, y
  <2>10. /\ c \in Fields /\ SameFlags(b1, c) /\ c.bWait = b1.bWait
         /\ c.pending_retro_cnt = b1.pending_retro_cnt /\ c.pending_cnt = b1.pending_cnt
         /\ c.q = q3 /\ c.match_cnt = m /\ c.nomatch = y /\ c.released = b1.released
    BY ZenonT(60), <2>3, <2>6, <2>7, <2>9 DEF Fields, SameFlags
  <2>11. /\ SameFlags(b, b1) /\ b1.bWait = b.bWait
         /\ b1.pending_retro_cnt = b.pending_retro_cnt /\ b1.pending_cnt = b.pending_cnt
    BY <1>1, <2>2, <2>3 DEF Fields, SameFlags
  <2>12. c \in Channels
    BY <1>1, <2>10, <2>11 DEF Channels
  <2>13. SameFlags(b, c) /\ c.bWait = b.bWait
    BY <2>10, <2>11 DEF SameFlags
  <2>14. Entered(b, d, c)
    BY <2>4, <2>10 DEF Entered, q3, m, y, gone, l, r, node
  <2> QED BY <1>5, <2>12, <2>13, <2>14 DEF c
<1> QED BY <1>4, <1>5

(* A frame that is released instead of queued.                             *)
LEMMA ReleaseGains ==
  ASSUME NEW b \in Channels, NEW d \in Data, NEW c,
         c.q = b.q, c.released = b.released \cup {<<d.s, d.f>>}, c.dispatched = b.dispatched
  PROVE  Gains(b, c, d)
<1> SUFFICES ASSUME Account(b, d.s, d.f) = 0, NEW s \in Streams, NEW f \in Frames
             PROVE  Account(c, s, f) = Account(b, s, f) + Bit(s = d.s /\ f = d.f)
  BY DEF Gains
<1>1. d.s \in Streams /\ d.f \in Frames
  BY DataTypes
<1>2. <<d.s, d.f>> \notin b.released
  <2>1. /\ Hits(b.q, NodeOf(d.s, d.f)) \in Nat /\ Hits(b.dispatched, SlotsOf(d.s, d.f)) \in Nat
        /\ Bit(<<d.s, d.f>> \in b.released) \in {0, 1}
    BY <1>1, AccountType
  <2>2. Bit(<<d.s, d.f>> \in b.released) = 0
    BY <2>1 DEF Account
  <2> QED BY <2>2 DEF Bit
<1>3. Bit(<<s, f>> \in c.released) = Bit(<<s, f>> \in b.released) + Bit(s = d.s /\ f = d.f)
  BY <1>2 DEF Bit
<1>4. /\ Hits(b.q, NodeOf(s, f)) \in Nat /\ Hits(b.dispatched, SlotsOf(s, f)) \in Nat
      /\ Bit(<<s, f>> \in b.released) \in {0, 1} /\ Bit(s = d.s /\ f = d.f) \in {0, 1}
  BY AccountType DEF Bit
<1> QED BY <1>3, <1>4 DEF Account

LEMMA EnterGains ==
  ASSUME NEW b \in Channels, NEW d \in Data
  PROVE  Gains(b, Enter(b, d), d)
<1> DEFINE c == Enter(b, d)
           older == Older(b.q, d.f)
           l == Lowest(older)
           node == NewNode(d)
           r == Room(b.q, d.f)
           gone == IF Over(b.q) THEN AllBufs(SubSeq(b.q, l, l)) ELSE {}
           e == [b EXCEPT !.q = r, !.released = b.released \cup gone]
<1>1. /\ b \in Fields /\ b.pending_retro_cnt <= b.pending_cnt
      /\ b.q \in Seq(Nodes) /\ Len(b.q) \in Nat
      /\ b.released \in SUBSET (Streams \X Frames)
  BY FieldTypes
<1>2. d.s \in Streams /\ d.f \in Frames /\ 0 \notin Frames
  BY DataTypes, Constants
<1>3. c.dispatched = b.dispatched
  BY EnterIs DEF SameFlags
<1>4. CASE Over(b.q) /\ older = {}
  <2>1. Refused(b, d, c)
    BY <1>4, EnterIs
  <2> HIDE DEF c
  <2>2. c.q = b.q /\ c.released = b.released \cup {<<d.s, d.f>>}
    BY <2>1 DEF Refused
  <2>3. Gains(b, c, d)
    BY <1>3, <2>2, ReleaseGains
  <2> QED BY <2>3 DEF c
<1>5. CASE ~(Over(b.q) /\ older = {})
  <2>1. Entered(b, d, c)
    BY <1>5, EnterIs
  <2>2. /\ r \in Seq(Nodes) /\ gone \in SUBSET (Streams \X Frames)
        /\ e.q = r /\ e.released = b.released \cup gone /\ e.dispatched = b.dispatched
        /\ Keeps(b, e)
    <3>1. CASE Over(b.q)
      <4>1. l \in 1 .. Len(b.q)
        <5>1. Older(b.q, d.f) \in SUBSET (1 .. Len(b.q))
          BY <1>1, MatchedFinite DEF Older
        <5>2. Older(b.q, d.f) \in SUBSET Nat /\ Older(b.q, d.f) # {}
          BY <1>1, <1>5, <3>1, <5>1
        <5> QED BY <5>1, <5>2, LowestIs
      <4> HIDE DEF l
      <4>2. l \in 1 .. Len(b.q) + 1 /\ l \in l - 1 .. Len(b.q)
        BY <1>1, <4>1
      <4>3. e = [b EXCEPT !.q = Without(b.q, l, l), !.released = b.released \cup AllBufs(SubSeq(b.q, l, l))]
        BY <3>1 DEF Room, l
      <4> HIDE DEF e
      <4>4. /\ e.q = Without(b.q, l, l) /\ e.dispatched = b.dispatched
            /\ e.released = b.released \cup AllBufs(SubSeq(b.q, l, l))
        BY <1>1, <4>3 DEF Fields
      <4>5. /\ Keeps(b, e) /\ e.q \in Seq(Nodes) /\ e.released \in SUBSET (Streams \X Frames)
        BY <4>2, <4>4, Removing
      <4> QED BY <3>1, <4>4, <4>5 DEF Room, l
    <3>2. CASE ~Over(b.q)
      <4>1. r = b.q /\ gone = {}
        BY <3>2 DEF Room
      <4> HIDE DEF r, gone
      <4>2. SameBufs([b EXCEPT !.q = b.q, !.released = b.released], b)
        BY <1>1 DEF Fields, SameBufs
      <4>3. /\ e.q = r /\ e.released = b.released \cup gone /\ e.dispatched = b.dispatched
            /\ SameBufs(b, e)
        BY <1>1, <4>1 DEF Fields, SameBufs
      <4> HIDE DEF e
      <4>4. Keeps(b, e)
        BY <4>3, SameKeeps
      <4> QED BY <1>1, <4>1, <4>3, <4>4
    <3> QED BY <3>1, <3>2
  <2>3. /\ c.q = InsertAt(r, At(r, d.f), node) /\ c.released = e.released
        /\ c.dispatched = e.dispatched
    BY <1>3, <2>1, <2>2 DEF Entered
  <2>4. node \in Nodes /\ At(r, d.f) \in 1 .. Len(r) + 1
    BY <1>2, <2>2, NewNodeType, AtIs
  <2> HIDE DEF c, e, r, gone, node
  <2>5. ASSUME NEW s \in Streams, NEW f \in Frames
        PROVE  Account(c, s, f) = Account(e, s, f) + Bit(s = d.s /\ f = d.f)
    <3>1. Hits(c.q, NodeOf(s, f)) = Hits(r, NodeOf(s, f)) + Bit(node \in NodeOf(s, f))
      BY <2>2, <2>3, <2>4, HitsInsert
    <3>2. node \in NodeOf(s, f) <=> s = d.s /\ f = d.f
      BY <1>2, <2>4, NewNodeType DEF NodeOf, node
    <3>3. Bit(node \in NodeOf(s, f)) = Bit(s = d.s /\ f = d.f)
      BY <3>2 DEF Bit
    <3>4. Hits(b.dispatched, SlotsOf(s, f)) \in Nat /\ Hits(r, NodeOf(s, f)) \in Nat
      BY <2>2, AccountType, HitsType
    <3> QED BY <2>2, <2>3, <3>1, <3>3, <3>4 DEF Account, Bit
  <2> QED BY <2>2, <2>5 DEF Gains, Keeps, c
<1> QED BY <1>4, <1>5

LEMMA CompAndEnqueueGains ==
  ASSUME NEW b \in Channels, NEW d \in Data
  PROVE  LET c == comp_and_enqueue(b, d)
         IN  c \in Channels /\ Gains(b, c, d) /\ c.dispatched = b.dispatched
<1> DEFINE c == comp_and_enqueue(b, d)
           m == handle_metadata(b, d)
           takers == {i \in DOMAIN m.q : Takes(m, m.q[i], d.s, d.f)}
           early == d.f < m.expected \/ (m.nomatch # 0 /\ m.nomatch > d.f /\ d.s = Meta)
<1>1. m \in Channels /\ Keeps(b, m) /\ SameControl(b, m)
  BY MetadataKeeps
<1>2. c = IF early THEN [m EXCEPT !.released = @ \cup {<<d.s, d.f>>}]
          ELSE IF takers # {} THEN Join(m, d, Lowest(takers)) ELSE Enter(m, d)
  BY DEF comp_and_enqueue
<1> HIDE DEF c, m, takers, early
<1>3. c \in Channels /\ Gains(m, c, d) /\ c.dispatched = m.dispatched
  <2>1. CASE early
    <3>1. m \in Fields /\ m.released \in SUBSET (Streams \X Frames)
          /\ m.pending_retro_cnt <= m.pending_cnt
      BY <1>1, FieldTypes
    <3>2. m.released \cup {<<d.s, d.f>>} \in SUBSET (Streams \X Frames)
      BY <3>1, DataTypes
    <3>3. c = [m EXCEPT !.released = @ \cup {<<d.s, d.f>>}]
      BY <1>2, <2>1
    <3>4. /\ c.q = m.q /\ c.released = m.released \cup {<<d.s, d.f>>}
          /\ c.dispatched = m.dispatched /\ c \in Channels
      BY <3>1, <3>2, <3>3 DEF Channels, Fields
    <3>5. Gains(m, c, d)
      BY <1>1, <3>4, ReleaseGains
    <3> QED BY <3>4, <3>5
  <2>2. CASE ~early /\ takers # {}
    <3>1. takers \in SUBSET Nat /\ takers \subseteq 1 .. Len(m.q)
      BY <1>1, FieldTypes DEF takers
    <3>2. Lowest(takers) \in 1 .. Len(m.q)
      BY <2>2, <3>1, LowestIs
    <3>3. c = Join(m, d, Lowest(takers))
      BY <1>2, <2>2
    <3>4. c \in Channels /\ SameControl([m EXCEPT !.nomatch = 0], c)
      BY <1>1, <3>2, <3>3, JoinIs
    <3>5. [m EXCEPT !.nomatch = 0].dispatched = m.dispatched
      BY <1>1, FieldTypes DEF Fields
    <3>6. c.dispatched = m.dispatched
      BY <3>4, <3>5 DEF SameControl
    <3> QED BY <1>1, <3>2, <3>3, <3>4, <3>6, JoinGains
  <2>3. CASE ~early /\ takers = {}
    <3>1. c = Enter(m, d)
      BY <1>2, <2>3
    <3> QED BY <1>1, <3>1, EnterIs, EnterGains DEF SameFlags
  <2> QED BY <2>1, <2>2, <2>3
<1>4. Gains(b, c, d)
  <2> SUFFICES ASSUME Single(b), Account(b, d.s, d.f) = 0
               PROVE  \A s \in Streams, f \in Frames :
                        Account(c, s, f) = Account(b, s, f) + Bit(s = d.s /\ f = d.f)
    BY DEF Gains
  <2>1. \A s \in Streams, f \in Frames : Account(m, s, f) = Account(b, s, f)
    BY <1>1 DEF Keeps
  <2>2. Single(m) /\ Account(m, d.s, d.f) = 0
    BY <2>1, DataTypes DEF Single
  <2> QED BY <1>3, <2>1, <2>2 DEF Gains
<1> QED BY <1>1, <1>3, <1>4 DEF c, SameControl

-----------------------------------------------------------------------------
(* What the command thread does besides.                                   *)

\* The first n nodes leave the queue.
Cut(b, c, n) == c.q = SubSeq(b.q, n + 1, Len(b.q)) /\ c.match_cnt = b.match_cnt - n

\* What trimming and dispatching leave alone.
SameFrames(b, c) ==
  c.nomatch = b.nomatch /\ c.expected = b.expected

SameRequest(b, c) ==
  /\ c.pending_cnt = b.pending_cnt /\ c.startZsl = b.startZsl /\ c.bWait = b.bWait
  /\ c.burstSnapNum = b.burstSnapNum

LEMMA CutNothing ==
  ASSUME NEW b \in Channels, NEW c, c.q = b.q, c.match_cnt = b.match_cnt
  PROVE  Cut(b, c, 0)
<1>1. b.q \in Seq(Nodes) /\ b.match_cnt \in Int
  BY FieldTypes
<1>2. SubSeq(b.q, 0 + 1, Len(b.q)) = b.q
  BY <1>1, SubSeqFull
<1> QED BY <1>1, <1>2 DEF Cut

LEMMA TrimIs ==
  ASSUME NEW b \in Channels, NEW mark \in Nat
  PROVE  LET c == TrimTo(b, mark)
         IN  /\ c \in Channels /\ Keeps(b, c) /\ c.dispatched = b.dispatched
             /\ SameFrames(b, c) /\ SameRequest(b, c)
             /\ ~Burst \/ b.match_cnt <= mark => c = b
             /\ Burst /\ b.match_cnt > mark /\ b.match_cnt - mark <= Ready(b.q) =>
                  Cut(b, c, b.match_cnt - mark) /\ c.hung = b.hung
             /\ b.q = <<>> => c.q = <<>>
<1> DEFINE c == TrimTo(b, mark)
           n == b.match_cnt - mark
<1>1. /\ b \in Fields /\ b.q \in Seq(Nodes) /\ b.match_cnt \in Int /\ Len(b.q) \in Nat
      /\ b.pending_retro_cnt <= b.pending_cnt /\ b.released \in SUBSET (Streams \X Frames)
  BY FieldTypes
<1>2. Ready(b.q) \in 0 .. Len(b.q)
  BY <1>1, MatchedFinite
<1>3. n \in Int /\ (n <= 0 <=> b.match_cnt <= mark)
  BY <1>1
<1>4. c = IF ~Burst \/ n <= 0 THEN b
          ELSE IF n > Ready(b.q) THEN [b EXCEPT !.hung = TRUE]
          ELSE Dequeued(Drop(b, SubSeq(b.q, 1, n)), n)
  BY DEF TrimTo
<1>5. CASE ~Burst \/ n <= 0
  <2>1. c = b
    BY <1>4, <1>5
  <2>2. Keeps(b, b)
    BY SameKeeps DEF SameBufs
  <2>3. ~(Burst /\ b.match_cnt > mark)
    BY <1>1, <1>3, <1>5
  <2> HIDE DEF c, n
  <2> QED BY <1>1, <2>1, <2>2, <2>3 DEF c, SameFrames, SameRequest
<1>6. CASE ~(~Burst \/ n <= 0) /\ n > Ready(b.q)
  <2>1. c = [b EXCEPT !.hung = TRUE]
    BY <1>4, <1>6
  <2>2. ~(b.match_cnt <= mark) /\ ~(b.match_cnt - mark <= Ready(b.q))
    BY <1>1, <1>2, <1>3, <1>6
  <2> HIDE DEF c, n
  <2>3. c \in Channels /\ SameBufs(b, c) /\ SameFrames(b, c) /\ SameRequest(b, c)
    BY <1>1, <2>1 DEF Channels, Fields, SameBufs, SameFrames, SameRequest
  <2> QED BY <1>6, <2>2, <2>3, SameKeeps DEF c, SameBufs
<1>7. CASE ~(~Burst \/ n <= 0) /\ ~(n > Ready(b.q))
  <2>1. n \in 1 .. Len(b.q)
    BY <1>2, <1>3, <1>7
  <2> DEFINE gone == AllBufs(SubSeq(b.q, 1, n))
             q2 == SubSeq(b.q, n + 1, Len(b.q))
             m == b.match_cnt - n
  <2> HIDE DEF n
  <2>2. c = Dequeued(Drop(b, SubSeq(b.q, 1, n)), n)
    BY <1>4, <1>7
  <2>3. Without(b.q, 1, n) = q2 /\ q2 \in Seq(Nodes) /\ m \in Int
    BY <1>1, <2>1, WithoutHead, HitsSplit
  <2> HIDE DEF c, gone, q2, m
  <2>4. Drop(b, SubSeq(b.q, 1, n)) = [b EXCEPT !.released = b.released \cup gone]
    BY <1>1 DEF Drop, Fields, gone
  <2>5. c = [[b EXCEPT !.released = b.released \cup gone]
               EXCEPT !.q = SubSeq(@, n + 1, Len(@)), !.match_cnt = @ - n]
    BY <2>2, <2>4 DEF Dequeued
  <2>6. c = [b EXCEPT !.released = b.released \cup gone, !.q = q2, !.match_cnt = m]
    BY <1>1, <2>5 DEF Fields, q2, m
  <2>7. /\ c.q = q2 /\ c.match_cnt = m /\ c.released = b.released \cup gone
        /\ c.dispatched = b.dispatched
        /\ SameFrames(b, c) /\ SameRequest(b, c) /\ c.hung = b.hung
    BY <1>1, <2>6 DEF Fields, SameFrames, SameRequest
  <2>8. Keeps(b, c) /\ c.released \in SUBSET (Streams \X Frames)
    <3>1. 1 \in 1 .. Len(b.q) + 1 /\ n \in 1 - 1 .. Len(b.q)
      BY <1>1, <2>1
    <3>2. /\ c.q = Without(b.q, 1, n) /\ c.released = b.released \cup AllBufs(SubSeq(b.q, 1, n))
          /\ c.dispatched = b.dispatched
      BY <2>3, <2>7 DEF gone
    <3> QED BY <3>1, <3>2, Removing
  <2>9. c \in Channels
    <3>1. b.released \cup gone \in SUBSET (Streams \X Frames)
      BY <2>7, <2>8
    <3>2. c \in Fields /\ c.pending_retro_cnt = b.pending_retro_cnt /\ c.pending_cnt = b.pending_cnt
      BY <1>1, <2>3, <2>6, <3>1 DEF Fields
    <3> QED BY <1>1, <3>2 DEF Channels
  <2>10. Cut(b, c, n)
    BY <2>7 DEF Cut, q2, m
  <2>11. ~(b.match_cnt <= mark) /\ b.q # <<>>
    <3>1. b.q # <<>>
      BY <1>1, <2>1
    <3> QED BY <1>3, <1>7, <3>1 DEF n
  <2>12. ~(~Burst \/ b.match_cnt <= mark)
    BY <1>7, <2>11
  <2>13. Cut(b, c, b.match_cnt - mark)
    BY <2>10 DEF n
  <2> QED BY <2>7, <2>8, <2>9, <2>11, <2>12, <2>13 DEF c
<1> QED BY <1>5, <1>6, <1>7

LEMMA RequestIs ==
  ASSUME NEW b \in Channels, NEW num \in Nat, NEW retro \in Nat
  PROVE  LET c == NewRequest(b, num, retro)
         IN  /\ c \in Channels /\ Keeps(b, c) /\ c.dispatched = b.dispatched
             /\ SameFrames(b, c) /\ c.burstSnapNum = b.burstSnapNum /\ ~c.bWait
             /\ ~Burst \/ b.match_cnt <= LookBack =>
                  c.q = b.q /\ c.match_cnt = b.match_cnt /\ c.hung = b.hung
             /\ Burst /\ b.match_cnt > LookBack /\ b.match_cnt - LookBack <= Ready(b.q) =>
                  Cut(b, c, b.match_cnt - LookBack) /\ c.hung = b.hung
             /\ b.q = <<>> => c.q = <<>>
<1> DEFINE r == IF num = 0 \/ retro > num THEN num ELSE retro
           e == [b EXCEPT !.pending_cnt = num, !.pending_retro_cnt = r,
                          !.bWait = FALSE, !.stopZsl = FALSE,
                          !.needLEDFlash = @ /\ r = 0]
           c == NewRequest(b, num, retro)
<1>1. b \in Fields
  BY FieldTypes
<1>2. r \in Nat /\ r <= num
  OBVIOUS
<1>3. c = TrimTo(e, LookBack)
  BY DEF NewRequest, superbuf_skip
<1> HIDE DEF r
<1>4. /\ e \in Channels /\ SameBufs(b, e) /\ SameFrames(b, e)
      /\ e.burstSnapNum = b.burstSnapNum /\ ~e.bWait /\ e.hung = b.hung
  <2>1. (b.needLEDFlash /\ r = 0) \in BOOLEAN
    OBVIOUS
  <2> QED BY ZenonT(60), <1>1, <1>2, <2>1 DEF Channels, Fields, SameBufs, SameFrames
<1> HIDE DEF e, c
<1>5. Keeps(b, c)
  <2>1. Keeps(e, c)
    BY <1>3, <1>4, Constants, TrimIs
  <2> QED BY <1>4, <2>1, SameKeeps, KeepsTrans
<1>6. /\ c \in Channels /\ c.dispatched = b.dispatched
      /\ SameFrames(b, c) /\ c.burstSnapNum = b.burstSnapNum /\ ~c.bWait
  BY SMTT(60), <1>3, <1>4, Constants, TrimIs DEF SameBufs, SameFrames, SameRequest
<1>7. /\ ~Burst \/ b.match_cnt <= LookBack =>
           c.q = b.q /\ c.match_cnt = b.match_cnt /\ c.hung = b.hung
      /\ b.q = <<>> => c.q = <<>>
  BY <1>3, <1>4, Constants, TrimIs DEF SameBufs
<1>8. Burst /\ b.match_cnt > LookBack /\ b.match_cnt - LookBack <= Ready(b.q) =>
        Cut(b, c, b.match_cnt - LookBack) /\ c.hung = b.hung
  <2>1. e.q = b.q /\ e.match_cnt = b.match_cnt
    BY <1>4 DEF SameBufs
  <2>2. Burst /\ e.match_cnt > LookBack /\ e.match_cnt - LookBack <= Ready(e.q) =>
        Cut(e, c, e.match_cnt - LookBack) /\ c.hung = e.hung
    BY <1>3, <1>4, Constants, TrimIs
  <2> QED BY <1>4, <2>1, <2>2 DEF Cut
<1> QED BY <1>5, <1>6, <1>7, <1>8 DEF c

LEMMA ZslSnapshotIs ==
  ASSUME NEW b \in Channels
  PROVE  LET c == ZslSnapshot(b)
         IN  /\ c \in Channels /\ Keeps(b, c) /\ SameBufs(b, c) /\ SameFrames(b, c)
             /\ c.hung = b.hung /\ c.pending_cnt = b.pending_cnt
             /\ c.startZsl => c.pending_cnt > 0
             /\ c.bWait \in {b.bWait, FALSE}
<1> DEFINE c == ZslSnapshot(b)
           begins == b.pending_cnt > 0 /\ (b.needLEDFlash \/ b.bracketing) /\ ~b.startZsl
           ends == (b.pending_cnt = 0 \/ b.stopZsl) /\ b.startZsl
<1>1. b \in Fields /\ b.pending_cnt \in Nat /\ b.pending_retro_cnt <= b.pending_cnt
  BY FieldTypes
<1>2. c = IF begins
          THEN [b EXCEPT !.startZsl = TRUE, !.burstSnapNum = b.pending_cnt, !.bWait = FALSE]
          ELSE IF ends THEN [EndZsl(b) EXCEPT !.bWait = FALSE] ELSE b
  BY DEF ZslSnapshot
<1>3. begins => b.pending_cnt > 0
  OBVIOUS
<1>4. b.startZsl /\ ~ends => b.pending_cnt > 0
  BY <1>1
<1> HIDE DEF c, begins, ends
<1>5. /\ c \in Channels /\ SameBufs(b, c) /\ SameFrames(b, c)
      /\ c.hung = b.hung /\ c.pending_cnt = b.pending_cnt
      /\ c.startZsl => c.pending_cnt > 0
      /\ c.bWait \in {b.bWait, FALSE}
  <2>1. CASE begins
    <3>1. c = [b EXCEPT !.startZsl = TRUE, !.burstSnapNum = b.pending_cnt, !.bWait = FALSE]
      BY <1>2, <2>1
    <3> QED BY <1>1, <1>3, <2>1, <3>1 DEF Channels, Fields, SameBufs, SameFrames
  <2>2. CASE ~begins /\ ends
    <3>1. c = [EndZsl(b) EXCEPT !.bWait = FALSE]
      BY <1>2, <2>2
    <3>2. c = [b EXCEPT !.startZsl = FALSE, !.burstSnapNum = 0, !.stopZsl = FALSE,
                        !.needLEDFlash = FALSE, !.bracketing = FALSE, !.bWait = FALSE]
      BY <1>1, <3>1 DEF EndZsl, Fields
    <3> QED BY ZenonT(60), <1>1, <3>2 DEF Channels, Fields, SameBufs, SameFrames
  <2>3. CASE ~begins /\ ~ends
    <3>1. c = b
      BY <1>2, <2>3
    <3> QED BY <1>4, <2>3, <3>1 DEF SameBufs, SameFrames
  <2> QED BY <2>1, <2>2, <2>3
<1> QED BY <1>5, SameKeeps DEF c

\* How many super buffers are dispatched.
Sent(b) ==
  LET wanted == IF b.pending_retro_cnt > 0 THEN b.pending_retro_cnt ELSE b.pending_cnt
  IN IF b.bWait THEN 0
     ELSE IF ~Burst THEN Ready(b.q)
     ELSE IF wanted < Ready(b.q) THEN wanted ELSE Ready(b.q)

SlotsUpTo(q, n) == [i \in 1 .. n |-> q[i].slot]

LEMMA SlotsHits ==
  ASSUME NEW q \in Seq(Nodes), NEW n \in 0 .. Len(q)
  PROVE  /\ SlotsUpTo(q, n) \in Seq(Slots) /\ Len(SlotsUpTo(q, n)) = n
         /\ \A s \in Streams, f \in Frames :
              Hits(SlotsUpTo(q, n), SlotsOf(s, f)) = Hits(SubSeq(q, 1, n), NodeOf(s, f))
<1>1. Len(q) \in Nat /\ n \in Nat /\ \A i \in 1 .. n : q[i] \in Nodes
  BY LenProperties, ElementOfSeq
<1>2. \A i \in 1 .. n : q[i].slot \in Slots
  BY <1>1 DEF Nodes
<1>3. SlotsUpTo(q, n) \in Seq(Slots) /\ Len(SlotsUpTo(q, n)) = n /\ DOMAIN SlotsUpTo(q, n) = 1 .. n
  BY <1>1, <1>2 DEF SlotsUpTo
<1>4. /\ DOMAIN SubSeq(q, 1, n) = 1 .. n
      /\ \A i \in 1 .. n : SubSeq(q, 1, n)[i] = q[i]
  <2>1. SubSeq(q, 1, n) \in Seq(Nodes) /\ Len(SubSeq(q, 1, n)) = n
        /\ \A i \in 1 .. n - 1 + 1 : SubSeq(q, 1, n)[i] = q[1 + i - 1]
    <3>1. 1 \in Int /\ n \in Int /\ \A i \in 1 .. n : q[i] \in Nodes
      BY <1>1
    <3>2. /\ SubSeq(q, 1, n) \in Seq(Nodes)
          /\ Len(SubSeq(q, 1, n)) = IF 1 <= n THEN n - 1 + 1 ELSE 0
          /\ \A i \in 1 .. n - 1 + 1 : SubSeq(q, 1, n)[i] = q[1 + i - 1]
      BY <3>1, SubSeqProperties
    <3> QED BY <1>1, <3>2
  <2>2. n - 1 + 1 = n /\ \A i \in 1 .. n : 1 + i - 1 = i
    BY <1>1
  <2>3. DOMAIN SubSeq(q, 1, n) = 1 .. Len(SubSeq(q, 1, n))
    BY <2>1, LenProperties
  <2> QED BY <2>1, <2>2, <2>3
<1>5. ASSUME NEW s \in Streams, NEW f \in Frames
      PROVE  Where(SlotsUpTo(q, n), SlotsOf(s, f)) = Where(SubSeq(q, 1, n), NodeOf(s, f))
  <2>1. \A i \in 1 .. n : SlotsUpTo(q, n)[i] = q[i].slot
    BY DEF SlotsUpTo
  <2>2. \A i \in 1 .. n : SlotsUpTo(q, n)[i] \in SlotsOf(s, f) <=> SubSeq(q, 1, n)[i] \in NodeOf(s, f)
    BY <1>1, <1>2, <1>4, <2>1 DEF SlotsOf, NodeOf
  <2> QED BY <1>3, <1>4, <2>2 DEF Where
<1> QED BY <1>3, <1>5 DEF Hits

LEMMA DispatchIs ==
  ASSUME NEW b \in Channels, b.dispatched = <<>>
  PROVE  LET c == Dispatch(b)
         IN  /\ c \in Channels /\ Keeps(b, c)
             /\ Sent(b) \in 0 .. Ready(b.q) /\ Cut(b, c, Sent(b))
             /\ c.dispatched = SlotsUpTo(b.q, Sent(b))
             /\ SameFrames(b, c) /\ c.hung = b.hung
             /\ ~Burst => c.bWait = b.bWait
             /\ (b.startZsl => b.pending_cnt > 0) => (c.startZsl => c.pending_cnt > 0)
<1> DEFINE c == Dispatch(b)
           n == Sent(b)
           b1 == [Dequeued(b, n) EXCEPT !.dispatched = SlotsUpTo(b.q, n)]
           b2 == [b1 EXCEPT !.pending_cnt = @ - n,
                            !.pending_retro_cnt = IF @ > 0 THEN @ - n ELSE 0,
                            !.bWait = @ \/ (n > 0 /\ b.pending_retro_cnt = n)]
           q2 == SubSeq(b.q, n + 1, Len(b.q))
           m == b.match_cnt - n
           e == SlotsUpTo(b.q, n)
<1>1. /\ b \in Fields /\ b.q \in Seq(Nodes) /\ b.match_cnt \in Int /\ Len(b.q) \in Nat
      /\ b.pending_retro_cnt <= b.pending_cnt /\ b.released \in SUBSET (Streams \X Frames)
      /\ b.pending_cnt \in Nat /\ b.pending_retro_cnt \in Nat
  BY FieldTypes
<1>2. Ready(b.q) \in 0 .. Len(b.q)
  BY <1>1, MatchedFinite
<1>3. /\ n \in 0 .. Ready(b.q)
      /\ Burst /\ ~b.bWait => n <= b.pending_cnt /\ (b.pending_retro_cnt > 0 => n <= b.pending_retro_cnt)
      /\ b.bWait => n = 0
  BY <1>1, <1>2 DEF Sent
<1>4. c = IF ~Burst \/ n = 0 THEN b1
          ELSE IF (b2.pending_cnt = 0 \/ b2.stopZsl) /\ b2.startZsl THEN EndZsl(b2)
          ELSE b2
  BY DEF Dispatch, Sent, SlotsUpTo
<1>5. n \in 0 .. Len(b.q) /\ n \in Nat
  BY <1>1, <1>2, <1>3
<1>6. q2 \in Seq(Nodes) /\ m \in Int /\ e \in Seq(Slots)
  BY <1>1, <1>5, HitsSplit, SlotsHits
<1> HIDE DEF n, q2, m, e, c
<1>7. b1 = [b EXCEPT !.q = q2, !.match_cnt = m, !.dispatched = e]
  BY <1>1 DEF Dequeued, Fields, q2, m, e
<1> HIDE DEF b1
<1>8. /\ b1 \in Channels /\ b1.q = q2 /\ b1.match_cnt = m /\ b1.dispatched = e
      /\ b1.released = b.released /\ SameFrames(b, b1) /\ SameRequest(b, b1) /\ b1.hung = b.hung
      /\ b1.pending_retro_cnt = b.pending_retro_cnt
  BY <1>1, <1>6, <1>7 DEF Channels, Fields, SameFrames, SameRequest
<1>9. Keeps(b, b1)
  <2> SUFFICES ASSUME NEW s \in Streams, NEW f \in Frames
               PROVE  Account(b1, s, f) = Account(b, s, f)
    BY DEF Keeps
  <2>1. Hits(b.q, NodeOf(s, f)) = Hits(SubSeq(b.q, 1, n), NodeOf(s, f)) + Hits(q2, NodeOf(s, f))
        /\ SubSeq(b.q, 1, n) \in Seq(Nodes)
    BY <1>1, <1>5, HitsSplit DEF q2
  <2>2. Hits(e, SlotsOf(s, f)) = Hits(SubSeq(b.q, 1, n), NodeOf(s, f))
    BY <1>1, <1>5, SlotsHits DEF e
  <2>3. Hits(b.dispatched, SlotsOf(s, f)) = 0
    BY HitsNone
  <2>4. Hits(q2, NodeOf(s, f)) \in Nat /\ Hits(SubSeq(b.q, 1, n), NodeOf(s, f)) \in Nat
        /\ Bit(<<s, f>> \in b.released) \in {0, 1}
    BY <1>6, <2>1, HitsType, AccountType
  <2> QED BY <1>8, <2>1, <2>2, <2>3, <2>4 DEF Account
<1>10. /\ c \in Channels /\ SameBufs(b1, c) /\ SameFrames(b1, c) /\ c.hung = b1.hung
       /\ ~Burst => c.bWait = b1.bWait
       /\ (b.startZsl => b.pending_cnt > 0) => (c.startZsl => c.pending_cnt > 0)
  <2>1. CASE ~Burst \/ n = 0
    <3>1. c = b1
      BY <1>4, <2>1
    <3> QED BY <1>8, <3>1 DEF SameBufs, SameFrames, SameRequest
  <2>2. CASE ~(~Burst \/ n = 0)
    <3> DEFINE p == b.pending_cnt - n
               r == IF b.pending_retro_cnt > 0 THEN b.pending_retro_cnt - n ELSE 0
               w == b1.bWait \/ (n > 0 /\ b.pending_retro_cnt = n)
    <3>1. p \in Nat /\ r \in Nat /\ r <= p
      BY <1>1, <1>3, <1>5, <2>2
    <3>2. b1 \in Fields /\ w \in BOOLEAN
      BY <1>8 DEF Channels, Fields
    <3>3. b2 = [b1 EXCEPT !.pending_cnt = p, !.pending_retro_cnt = r, !.bWait = w]
      <4> HIDE DEF p
      <4> QED BY <1>8, <3>2 DEF Fields, SameRequest, p
    <3> HIDE DEF p, r, w, b2
    <3>4. /\ b2 \in Channels /\ SameBufs(b1, b2) /\ SameFrames(b1, b2) /\ b2.hung = b1.hung
          /\ b2.pending_cnt = p
      BY <3>1, <3>2, <3>3 DEF Channels, Fields, SameBufs, SameFrames
    <3>5. CASE (b2.pending_cnt = 0 \/ b2.stopZsl) /\ b2.startZsl
      <4>1. c = [b2 EXCEPT !.startZsl = FALSE, !.burstSnapNum = 0, !.stopZsl = FALSE,
                           !.needLEDFlash = FALSE, !.bracketing = FALSE]
        BY <1>4, <2>2, <3>5 DEF EndZsl
      <4>2. b2 \in Fields /\ b2.pending_retro_cnt <= b2.pending_cnt
        BY <3>4, FieldTypes
      <4>3. /\ c \in Channels /\ SameBufs(b2, c) /\ SameFrames(b2, c) /\ c.hung = b2.hung
            /\ ~c.startZsl
        BY ZenonT(60), <4>1, <4>2 DEF Channels, Fields, SameBufs, SameFrames
      <4> QED BY <2>2, <3>4, <4>3 DEF SameBufs, SameFrames
    <3>6. CASE ~((b2.pending_cnt = 0 \/ b2.stopZsl) /\ b2.startZsl)
      <4>1. c = b2
        BY <1>4, <2>2, <3>6
      <4>2. b2.startZsl => b2.pending_cnt > 0
        BY <3>1, <3>4, <3>6
      <4> QED BY <2>2, <3>4, <4>1, <4>2
    <3> QED BY <3>5, <3>6
  <2> QED BY <2>1, <2>2
<1>11. Keeps(b, c)
  BY <1>9, <1>10, SameKeeps, KeepsTrans
<1>12. Cut(b, c, n) /\ c.dispatched = SlotsUpTo(b.q, n)
  BY <1>8, <1>10 DEF Cut, SameBufs, q2, m, e
<1>13. SameFrames(b, c) /\ c.hung = b.hung /\ (~Burst => c.bWait = b.bWait)
  BY <1>8, <1>10 DEF SameFrames, SameRequest
<1> QED BY <1>3, <1>10, <1>11, <1>12, <1>13 DEF c, n

LEMMA ProceedIs ==
  ASSUME NEW b \in Channels, b.dispatched = <<>>
  PROVE  LET c == Proceed(b)
         IN  /\ c \in Channels /\ Keeps(b, c) /\ SameFrames(b, c)
             /\ b.q = <<>> => c.q = <<>> /\ c.dispatched = <<>>
<1> DEFINE z == ZslSnapshot(b)
           t == TrimTo(z, WaterMark)
           c == Proceed(b)
<1>1. c = IF b.hung THEN b ELSE IF t.hung THEN t ELSE Dispatch(t)
  BY DEF Proceed, superbuf_bufdone_overflow
<1>2. z \in Channels /\ Keeps(b, z) /\ SameBufs(b, z) /\ SameFrames(b, z)
  BY ZslSnapshotIs
<1> HIDE DEF z
<1>3. /\ t \in Channels /\ Keeps(z, t) /\ SameFrames(z, t) /\ t.dispatched = z.dispatched
      /\ z.q = <<>> => t.q = <<>>
  BY <1>2, Constants, TrimIs
<1> HIDE DEF t, c
<1>4. t.dispatched = <<>> /\ Keeps(b, t) /\ SameFrames(b, t) /\ (b.q = <<>> => t.q = <<>>)
  BY <1>2, <1>3, KeepsTrans DEF SameBufs, SameFrames
<1>5. CASE b.hung
  <2>1. c = b
    BY <1>1, <1>5
  <2> QED BY <2>1, SameKeeps DEF c, SameBufs, SameFrames
<1>6. CASE ~b.hung /\ t.hung
  <2>1. c = t
    BY <1>1, <1>6
  <2> QED BY <1>3, <1>4, <2>1 DEF c
<1>7. CASE ~b.hung /\ ~t.hung
  <2>1. c = Dispatch(t)
    BY <1>1, <1>7
  <2>2. /\ c \in Channels /\ Keeps(t, c) /\ SameFrames(t, c)
        /\ Sent(t) \in 0 .. Ready(t.q) /\ Cut(t, c, Sent(t))
        /\ c.dispatched = SlotsUpTo(t.q, Sent(t))
    BY <1>3, <1>4, <2>1, DispatchIs
  <2>3. Keeps(b, c) /\ SameFrames(b, c)
    BY <1>4, <2>2, KeepsTrans DEF SameFrames
  <2>4. ASSUME b.q = <<>> PROVE c.q = <<>> /\ c.dispatched = <<>>
    <3>1. t.q = <<>> /\ t.q \in Seq(Nodes) /\ Len(t.q) = 0
      BY <1>3, <1>4, <2>4, FieldTypes
    <3>2. Ready(t.q) \in 0 .. 0
      BY <3>1, MatchedFinite
    <3>3. Sent(t) = 0
      BY <2>2, <3>2
    <3>4. c.q = SubSeq(t.q, 0 + 1, Len(t.q))
      BY <2>2, <3>3 DEF Cut
    <3>5. SubSeq(t.q, 0 + 1, Len(t.q)) = t.q
      BY <3>1, SubSeqFull
    <3>6. Len(c.dispatched) = 0 /\ c.dispatched \in Seq(Slots)
      <4>1. c.dispatched = SlotsUpTo(t.q, 0) /\ 0 \in 0 .. Len(t.q)
        BY <2>2, <3>1, <3>3
      <4> QED BY <3>1, <4>1, SlotsHits
    <3> QED BY <3>1, <3>4, <3>5, <3>6, EmptySeq
  <2> QED BY <2>2, <2>3, <2>4 DEF c
<1> QED BY <1>5, <1>6, <1>7

LEMMA CommandTypes ==
  ASSUME NEW d \in Commands
  PROVE  /\ d.type \in {"data", "req", "flush"}
         /\ d.type = "data" => d \in Data
         /\ d.type = "req" => d.num \in Nat /\ d.retro \in Nat
         /\ d.type = "flush" => d.f \in {0} \cup Frames /\ d.f \in Nat
<1>1. CASE d \in [type : {"data"}, s : Streams, f : Frames, hint : Hints]
  <2>1. d.type = "data"
    BY <1>1
  <2> QED BY <2>1 DEF Data
<1>2. CASE d \in [type : {"req"}, num : 0 .. MaxNum, retro : 0 .. MaxNum]
  <2>1. d.type = "req" /\ d.num \in 0 .. MaxNum /\ d.retro \in 0 .. MaxNum
    BY <1>2
  <2>2. d.num \in Nat /\ d.retro \in Nat
    BY <2>1, Constants
  <2> QED BY <2>1, <2>2
<1>3. CASE d \in [type : {"flush"}, f : {0} \cup Frames]
  <2>1. d.type = "flush" /\ d.f \in {0} \cup Frames
    BY <1>3
  <2>2. d.f \in Nat
    <3>1. {0} \cup Frames \subseteq Nat
      BY Constants
    <3> QED BY <2>1, <3>1
  <2> QED BY <2>1, <2>2
<1> QED BY <1>1, <1>2, <1>3 DEF Commands

LEMMA ProcessKeeps ==
  ASSUME NEW b \in Channels, b.dispatched = <<>>, NEW d \in Commands
  PROVE  LET c == process_stream_buf(b, d)
         IN  /\ c \in Channels
             /\ d.type = "data" => Gains(b, c, d)
             /\ d.type # "data" => Keeps(b, c)
             /\ d.type = "flush" => c.q = <<>>
<1> DEFINE c == process_stream_buf(b, d)
<1>1. CASE d.type = "data"
  <2> DEFINE e == comp_and_enqueue(b, d)
  <2>1. d \in Data /\ c = Proceed(e)
    BY <1>1, CommandTypes DEF process_stream_buf
  <2>2. e \in Channels /\ Gains(b, e, d) /\ e.dispatched = <<>>
    BY <2>1, CompAndEnqueueGains
  <2> HIDE DEF e, c
  <2>3. c \in Channels /\ Keeps(e, c)
    BY <2>1, <2>2, ProceedIs
  <2>4. Gains(b, c, d)
    <3> SUFFICES ASSUME Single(b), Account(b, d.s, d.f) = 0
                 PROVE  \A s \in Streams, f \in Frames :
                          Account(c, s, f) = Account(b, s, f) + Bit(s = d.s /\ f = d.f)
      BY DEF Gains
    <3>1. \A s \in Streams, f \in Frames :
            Account(e, s, f) = Account(b, s, f) + Bit(s = d.s /\ f = d.f)
      BY <2>2 DEF Gains
    <3>2. ASSUME NEW s \in Streams, NEW f \in Frames PROVE Account(e, s, f) <= 1
      <4>1. Account(b, s, f) \in Nat /\ Account(b, s, f) <= 1
        BY AccountType DEF Single
      <4>2. CASE s = d.s /\ f = d.f
        BY <3>1, <4>2 DEF Bit
      <4>3. CASE ~(s = d.s /\ f = d.f)
        BY <3>1, <4>1, <4>3 DEF Bit
      <4> QED BY <4>2, <4>3
    <3> QED BY <2>3, <3>1, <3>2 DEF Keeps, Single
  <2> QED BY <1>1, <2>3, <2>4 DEF c
<1>2. CASE d.type = "req"
  <2> DEFINE e == NewRequest(b, d.num, d.retro)
  <2>1. c = Proceed(e) /\ d.num \in Nat /\ d.retro \in Nat
    BY <1>2, CommandTypes DEF process_stream_buf
  <2>2. e \in Channels /\ Keeps(b, e) /\ e.dispatched = <<>>
    BY <2>1, RequestIs
  <2> HIDE DEF e, c
  <2>3. c \in Channels /\ Keeps(e, c)
    BY <2>1, <2>2, ProceedIs
  <2> QED BY <1>2, <2>2, <2>3, KeepsTrans DEF c
<1>3. CASE d.type = "flush"
  <2> DEFINE e == [b EXCEPT !.expected = d.f]
  <2>1. c = superbuf_flush(e) /\ d.f \in Nat
    BY <1>3, CommandTypes DEF process_stream_buf
  <2>2. e \in Channels /\ SameBufs(b, e)
    BY <2>1, FieldTypes DEF Channels, Fields, SameBufs
  <2> HIDE DEF e, c
  <2>3. c \in Channels /\ Keeps(e, c) /\ c.q = <<>>
    BY <2>1, <2>2, FlushKeeps
  <2>4. Keeps(b, c)
    BY <2>2, <2>3, SameKeeps, KeepsTrans
  <2> QED BY <1>3, <2>3, <2>4 DEF c
<1> QED BY <1>1, <1>2, <1>3, CommandTypes

-----------------------------------------------------------------------------
(* References are counted.                                                 *)

LEMMA CountType ==
  ASSUME TypeInv, NEW s \in Streams, NEW f \in Frames
  PROVE  /\ Hits(cmds, DataOf(s, f)) \in Nat /\ Hits(ch.q, NodeOf(s, f)) \in Nat
         /\ Hits(cbs, SlotsOf(s, f)) \in Nat
         /\ InChannel(s, f) \in Nat /\ held[s][f] \in Nat /\ Aside(s, f) \in Nat
         /\ s = Meta => Hits(scmds, {f}) \in Nat /\ Aside(s, f) = Hits(scmds, {f}) + Bit(scb = f)
         /\ s # Meta => Aside(s, f) = 0
         /\ Count(s, f) \in Nat
<1>1. cmds \in Seq(Commands) /\ ch.q \in Seq(Nodes) /\ cbs \in Seq(Slots) /\ scmds \in Seq(Frames)
  BY FieldTypes DEF TypeInv
<1>2. /\ Hits(cmds, DataOf(s, f)) \in Nat /\ Hits(ch.q, NodeOf(s, f)) \in Nat
      /\ Hits(cbs, SlotsOf(s, f)) \in Nat /\ Hits(scmds, {f}) \in Nat
  BY <1>1, HitsType
<1>3. held[s][f] \in Nat
  BY DEF TypeInv
<1> QED BY <1>2, <1>3 DEF InChannel, Aside, Count, Bit

LEMMA PositiveRemoved ==
  ASSUME NEW a \in [Frames -> Int], NEW b \in [Frames -> Int], NEW G \in SUBSET Frames,
         \A f \in G : a[f] = 1 /\ b[f] <= 0,
         \A f \in Frames \ G : a[f] > 0 <=> b[f] > 0
  PROVE  /\ IsFiniteSet(G) /\ Cardinality(G) \in Nat
         /\ Cardinality({f \in Frames : b[f] > 0}) + Cardinality(G)
              = Cardinality({f \in Frames : a[f] > 0})
         /\ Cardinality({f \in Frames : b[f] > 0}) \in Nat
<1> DEFINE A == {f \in Frames : a[f] > 0}
           B == {f \in Frames : b[f] > 0}
<1>1. IsFiniteSet(Frames)
  BY Constants
<1>2. IsFiniteSet(A) /\ IsFiniteSet(B) /\ IsFiniteSet(G)
  BY <1>1, FS_Subset
<1>3. A = B \cup G /\ B \cap G = {}
  OBVIOUS
<1> HIDE DEF A, B
<1>4. /\ Cardinality(A) = Cardinality(B) + Cardinality(G) - Cardinality({})
  BY <1>2, <1>3, FS_Union
<1>5. Cardinality({}) = 0 /\ Cardinality(B) \in Nat /\ Cardinality(G) \in Nat
  BY <1>2, FS_EmptySet, FS_CardinalityType
<1> QED BY <1>2, <1>4, <1>5 DEF A, B

LEMMA BufDoneIs ==
  ASSUME on \subseteq Streams, kernel \in [Streams -> Int], refcnt \in [Streams -> [Frames -> Int]],
         NEW R \in SUBSET (Streams \X Frames),
         \A s \in on, f \in Frames : <<s, f>> \in R => refcnt[s][f] >= 1,
         BufDone(R)
  PROVE  /\ kernel' \in [Streams -> Int] /\ refcnt' \in [Streams -> [Frames -> Int]]
         /\ \A s \in on, f \in Frames : refcnt'[s][f] = refcnt[s][f] - Bit(<<s, f>> \in R)
         /\ \A s \in on : kernel'[s] + Cardinality({f \in Frames : refcnt'[s][f] > 0})
                          = kernel[s] + Cardinality({f \in Frames : refcnt[s][f] > 0})
<1> DEFINE effective == {r \in R : r[1] \in on /\ refcnt[r[1]][r[2]] > 0}
           back(s) == {r \in effective : r[1] = s /\ refcnt[s][r[2]] = 1}
<1>1. /\ refcnt' = [s \in Streams |-> [f \in Frames |->
                      refcnt[s][f] - (IF <<s, f>> \in effective THEN 1 ELSE 0)]]
      /\ kernel' = [s \in Streams |-> kernel[s] + Cardinality(back(s))]
  BY DEF BufDone
<1>2. ASSUME NEW s \in Streams
      PROVE  IsFiniteSet(back(s)) /\ Cardinality(back(s)) \in Nat
  <2>1. IsFiniteSet(Streams \X Frames)
    BY Constants, FS_Product
  <2>2. back(s) \in SUBSET (Streams \X Frames)
    OBVIOUS
  <2> HIDE DEF back
  <2> QED BY <2>1, <2>2, FS_Subset, FS_CardinalityType
<1>3. kernel' \in [Streams -> Int]
  <2> HIDE DEF back
  <2> QED BY <1>1, <1>2
<1>4. ASSUME NEW s \in Streams, NEW f \in Frames
      PROVE  refcnt'[s][f] = refcnt[s][f] - Bit(<<s, f>> \in effective)
  BY <1>1 DEF Bit
<1>5. refcnt' \in [Streams -> [Frames -> Int]]
  <2> HIDE DEF effective
  <2> QED BY <1>1
<1>6. ASSUME NEW s \in on, NEW f \in Frames
      PROVE  <<s, f>> \in effective <=> <<s, f>> \in R
  BY <1>6
<1>7. ASSUME NEW s \in on, NEW f \in Frames
      PROVE  refcnt'[s][f] = refcnt[s][f] - Bit(<<s, f>> \in R)
  <2>1. s \in Streams
    OBVIOUS
  <2> HIDE DEF effective
  <2> QED BY <1>4, <1>6, <2>1 DEF Bit
<1>8. ASSUME NEW s \in on
      PROVE  kernel'[s] + Cardinality({f \in Frames : refcnt'[s][f] > 0})
               = kernel[s] + Cardinality({f \in Frames : refcnt[s][f] > 0})
  <2> DEFINE G == {f \in Frames : <<s, f>> \in R /\ refcnt[s][f] = 1}
             a == refcnt[s]
             c == refcnt'[s]
  <2>1. a \in [Frames -> Int] /\ c \in [Frames -> Int] /\ kernel[s] \in Int /\ s \in Streams
    BY <1>5
  <2>2. \A f \in G : a[f] = 1 /\ c[f] <= 0
    BY <1>7, <2>1 DEF Bit
  <2>3. ASSUME NEW f \in Frames \ G PROVE a[f] > 0 <=> c[f] > 0
    <3>1. CASE <<s, f>> \in R
      BY <1>7, <2>1, <3>1 DEF Bit
    <3>2. CASE <<s, f>> \notin R
      BY <1>7, <2>1, <3>2 DEF Bit
    <3> QED BY <3>1, <3>2
  <2>4. G \in SUBSET Frames
    OBVIOUS
  <2>5. Cardinality(back(s)) = Cardinality(G)
    <3> DEFINE g == [f \in G |-> <<s, f>>]
    <3>1. \A f \in G : <<s, f>> \in back(s)
      BY <2>1
    <3>2. ASSUME NEW r \in back(s) PROVE \E f \in G : r = <<s, f>>
      <4>1. r \in Streams \X Frames /\ r \in R /\ r[1] = s /\ refcnt[s][r[2]] = 1
        OBVIOUS
      <4>2. r = <<s, r[2]>> /\ r[2] \in Frames
        BY <4>1
      <4>3. r[2] \in G
        BY <4>1, <4>2
      <4> QED BY <4>2, <4>3
    <3>3. g \in Bijection(G, back(s))
      <4> HIDE DEF G, back
      <4>1. g \in [G -> back(s)]
        BY <3>1
      <4>2. \A f, e \in G : g[f] = g[e] => f = e
        OBVIOUS
      <4>3. \A r \in back(s) : \E f \in G : g[f] = r
        BY <3>2
      <4> HIDE DEF g
      <4> QED BY <4>1, <4>2, <4>3 DEF Bijection, Injection, Surjection, IsInjective
    <3>4. ExistsBijection(G, back(s))
      BY <3>3 DEF ExistsBijection
    <3>5. IsFiniteSet(G)
      BY <2>4, Constants, FS_Subset
    <3> HIDE DEF G, back
    <3> QED BY <3>4, <3>5, FS_Bijection
  <2>6. kernel'[s] = kernel[s] + Cardinality(back(s))
    <3> HIDE DEF back
    <3> QED BY <1>1, <2>1
  <2> HIDE DEF G, a, c, back
  <2>7. /\ Cardinality({f \in Frames : c[f] > 0}) + Cardinality(G)
             = Cardinality({f \in Frames : a[f] > 0})
        /\ Cardinality({f \in Frames : c[f] > 0}) \in Nat /\ Cardinality(G) \in Nat
    BY <2>1, <2>2, <2>3, <2>4, PositiveRemoved
  <2>8. kernel'[s] + Cardinality({f \in Frames : c[f] > 0})
          = kernel[s] + Cardinality({f \in Frames : a[f] > 0})
    BY <2>1, <2>5, <2>6, <2>7
  <2> QED BY <2>8 DEF a, c
<1> QED BY <1>3, <1>5, <1>7, <1>8

LEMMA HeldKeepsPositive ==
  ASSUME TypeInv, CountInv, KernelInv, NEW R \in SUBSET (Streams \X Frames), on' = on,
         \A s \in on, f \in Frames : <<s, f>> \in R => Count(s, f) >= 1,
         \A s \in Streams, f \in Frames : Count(s, f)' = Count(s, f) - Bit(<<s, f>> \in R),
         BufDone(R)
  PROVE  /\ kernel' \in [Streams -> Int] /\ refcnt' \in [Streams -> [Frames -> Int]]
         /\ CountInv' /\ KernelInv'
<1>1. on \subseteq Streams /\ kernel \in [Streams -> Int] /\ refcnt \in [Streams -> [Frames -> Int]]
  BY DEF TypeInv
<1>2. \A s \in on, f \in Frames : <<s, f>> \in R => refcnt[s][f] >= 1
  BY DEF CountInv
<1>3. /\ kernel' \in [Streams -> Int] /\ refcnt' \in [Streams -> [Frames -> Int]]
      /\ \A s \in on, f \in Frames : refcnt'[s][f] = refcnt[s][f] - Bit(<<s, f>> \in R)
      /\ \A s \in on : kernel'[s] + Cardinality({f \in Frames : refcnt'[s][f] > 0})
                       = kernel[s] + Cardinality({f \in Frames : refcnt[s][f] > 0})
  BY <1>1, <1>2, BufDoneIs
<1>4. CountInv'
  BY ZenonT(60), <1>1, <1>3 DEF CountInv
<1>5. KernelInv'
  BY <1>3 DEF KernelInv
<1> QED BY <1>3, <1>4, <1>5

LEMMA RefsInit == Init => RefsInv
<1> SUFFICES ASSUME Init PROVE RefsInv
  OBVIOUS
<1>1. <<>> \in Seq(Nodes) /\ <<>> \in Seq(Slots) /\ <<>> \in Seq(Commands) /\ <<>> \in Seq(Frames)
  OBVIOUS
<1>2. FreshChannel \in Channels /\ ch = FreshChannel
  BY <1>1 DEF FreshChannel, Channels, Fields, Init
<1>3. /\ ch.q = <<>> /\ ch.released = {} /\ ch.dispatched = <<>>
  BY DEF FreshChannel, Init
<1>4. /\ use \in Uses /\ state = "active" /\ on = Streams /\ linked = (use = "live")
      /\ cmds = <<>> /\ cbs = <<>> /\ scmds = <<>> /\ scb = 0 /\ awaits = FALSE
      /\ kernel = [s \in Streams |-> NumBufs] /\ last = [s \in Streams |-> 0]
      /\ refcnt = [s \in Streams |-> [f \in Frames |-> 0]]
      /\ held = [s \in Streams |-> [f \in Frames |-> 0]]
  BY DEF Init
<1>5. TypeInv
  <2>1. /\ kernel \in [Streams -> Int] /\ last \in [Streams -> {0} \cup Frames]
        /\ refcnt \in [Streams -> [Frames -> Int]] /\ held \in [Streams -> [Frames -> Nat]]
    BY <1>4, Constants
  <2> QED BY <1>1, <1>2, <1>4, <2>1 DEF TypeInv
<1>6. \A s \in Streams, f \in Frames : InChannel(s, f) = 0
  BY <1>3, <1>4, HitsNone DEF InChannel
<1>7. \A s \in Streams, f \in Frames : Aside(s, f) = 0 /\ scb # f
  BY <1>4, HitsNone, Constants DEF Aside, Bit
<1>8. PlaceInv
  BY <1>4, <1>6, <1>7, HitsNone DEF PlaceInv
<1>9. StopInv
  <2>1. linked <=> use = "live"
    BY <1>4
  <2>2. \A i \in 1 .. Len(cmds) : cmds[i].type \in {"data", "flush"}
    BY <1>4
  <2>3. Meta \in on
    BY <1>4, Constants
  <2> QED BY <1>3, <1>4, <2>1, <2>2, <2>3 DEF StopInv
<1>10. CountInv
  BY <1>4, <1>6, <1>7 DEF CountInv, Count
<1>11. KernelInv
  <2> SUFFICES ASSUME NEW s \in Streams
               PROVE  kernel[s] + Cardinality({f \in Frames : refcnt[s][f] > 0}) = NumBufs
    BY <1>4 DEF KernelInv
  <2>1. {f \in Frames : refcnt[s][f] > 0} = {}
    BY <1>4
  <2>2. Cardinality({f \in Frames : refcnt[s][f] > 0}) = 0
    BY <2>1, FS_EmptySet
  <2>3. kernel[s] = NumBufs /\ NumBufs \in Nat
    BY <1>4, Constants
  <2> QED BY <2>2, <2>3
<1> QED BY <1>5, <1>8, <1>9, <1>10, <1>11 DEF RefsInv

(* A command that is sent and carries no buffer.                           *)
LEMMA RefsSend ==
  ASSUME RefsInv, NEW c \in Commands, c.type # "data", cmds' = Append(cmds, c),
         UNCHANGED <<use, on, kernel, refcnt, last, ch, cbs, scmds, scb, held, awaits>>
  PROVE  /\ CountInv' /\ KernelInv' /\ PlaceInv'
         /\ cmds' \in Seq(Commands)
<1>1. cmds \in Seq(Commands)
  BY DEF RefsInv, TypeInv
<1>2. ASSUME NEW s \in Streams, NEW f \in Frames
      PROVE  Hits(cmds', DataOf(s, f)) = Hits(cmds, DataOf(s, f))
  <2>1. Hits(cmds', DataOf(s, f)) = Hits(cmds, DataOf(s, f)) + Bit(c \in DataOf(s, f))
    BY <1>1, HitsAppend
  <2>2. Bit(c \in DataOf(s, f)) = 0
    BY DEF DataOf, Bit
  <2>3. Hits(cmds, DataOf(s, f)) \in Nat
    BY <1>1, HitsType
  <2> QED BY <2>1, <2>2, <2>3
<1>3. \A s \in Streams, f \in Frames : InChannel(s, f)' = InChannel(s, f)
  BY <1>2 DEF InChannel
<1>4. \A s \in Streams, f \in Frames : Count(s, f)' = Count(s, f)
  BY <1>3 DEF Count, Aside
<1>5. CountInv'
  BY <1>4 DEF RefsInv, TypeInv, CountInv
<1>6. KernelInv'
  BY DEF RefsInv, KernelInv
<1>7. PlaceInv'
  BY <1>3 DEF RefsInv, PlaceInv
<1>8. cmds' \in Seq(Commands)
  BY <1>1, HitsAppend
<1> QED BY <1>5, <1>6, <1>7, <1>8

LEMMA RefsRequests ==
  ASSUME RefsInv, Request \/ Cancel \/ Flush
  PROVE  RefsInv'
<1>1. PICK c : c \in Commands /\ c.type # "data" /\ use # "live" /\ Send(c)
  <2>1. ASSUME Request
        PROVE  \E c : c \in Commands /\ c.type # "data" /\ use # "live" /\ Send(c)
    <3>1. PICK num \in 1 .. MaxNum, retro \in 0 .. MaxNum :
            Send([type |-> "req", num |-> num, retro |-> retro])
      BY <2>1 DEF Request
    <3>2. [type |-> "req", num |-> num, retro |-> retro] \in Commands
      BY Constants DEF Commands
    <3> QED BY <2>1, <3>1, <3>2 DEF Request
  <2>2. ASSUME Cancel
        PROVE  \E c : c \in Commands /\ c.type # "data" /\ use # "live" /\ Send(c)
    <3>1. [type |-> "req", num |-> 0, retro |-> 0] \in Commands
      BY Constants DEF Commands
    <3> QED BY <2>2, <3>1 DEF Cancel
  <2>3. ASSUME Flush
        PROVE  \E c : c \in Commands /\ c.type # "data" /\ use # "live" /\ Send(c)
    <3>1. PICK f \in Frames : Send([type |-> "flush", f |-> f])
      BY <2>3 DEF Flush
    <3>2. [type |-> "flush", f |-> f] \in Commands
      BY DEF Commands
    <3> QED BY <2>3, <3>1, <3>2 DEF Flush
  <2> QED BY <2>1, <2>2, <2>3
<1>2. /\ cmds' = Append(cmds, c) /\ state = "active"
      /\ UNCHANGED <<use, state, on, linked, kernel, refcnt, last, ch, cbs, scmds, scb, held, awaits>>
  BY <1>1 DEF Send
<1>3. /\ CountInv' /\ KernelInv' /\ PlaceInv' /\ cmds' \in Seq(Commands)
  BY <1>1, <1>2, RefsSend
<1>4. TypeInv'
  BY <1>2, <1>3 DEF RefsInv, TypeInv
<1>5. StopInv'
  BY <1>1, <1>2 DEF RefsInv, StopInv
<1> QED BY <1>3, <1>4, <1>5 DEF RefsInv

LEMMA RefsUnlink ==
  ASSUME RefsInv, Unlink
  PROVE  RefsInv'
<1> DEFINE c == [type |-> "flush", f |-> 0]
<1>1. /\ c \in Commands /\ c.type = "flush"
  BY DEF Commands
<1>2. /\ cmds' = Append(cmds, c) /\ state = "stopping" /\ linked /\ on = {Meta} /\ linked' = FALSE
      /\ UNCHANGED <<use, state, on, kernel, refcnt, last, ch, cbs, scmds, scb, held, awaits>>
  BY DEF Unlink, hal
<1> HIDE DEF c
<1>3. /\ CountInv' /\ KernelInv' /\ PlaceInv' /\ cmds' \in Seq(Commands)
  BY <1>1, <1>2, RefsSend
<1>4. TypeInv'
  BY <1>2, <1>3 DEF RefsInv, TypeInv
<1>5. StopInv'
  <2>1. /\ cmds' # <<>> /\ Len(cmds') = Len(cmds) + 1 /\ cmds'[Len(cmds')] = c
        /\ Len(cmds) \in Nat /\ \A i \in 1 .. Len(cmds) : cmds'[i] = cmds[i]
    <3>1. cmds \in Seq(Commands) /\ Len(cmds) \in Nat
      BY LenProperties DEF RefsInv, TypeInv
    <3>2. /\ Append(cmds, c) # <<>> /\ Len(Append(cmds, c)) = Len(cmds) + 1
          /\ \A i \in 1 .. Len(cmds) : Append(cmds, c)[i] = cmds[i]
          /\ Append(cmds, c)[Len(cmds) + 1] = c
      BY <1>1, <3>1, AppendProperties
    <3> QED BY <1>2, <3>1, <3>2
  <2>2. use = "live" => \A i \in 1 .. Len(cmds') : cmds'[i].type \in {"data", "flush"}
    <3> SUFFICES ASSUME use = "live", NEW i \in 1 .. Len(cmds')
                 PROVE  cmds'[i].type \in {"data", "flush"}
      OBVIOUS
    <3>1. CASE i = Len(cmds')
      BY <1>1, <2>1, <3>1
    <3>2. CASE i # Len(cmds')
      <4>1. i \in 1 .. Len(cmds)
        BY <2>1, <3>2
      <4> QED BY <2>1, <4>1 DEF RefsInv, StopInv
    <3> QED BY <3>1, <3>2
  <2> QED BY <1>1, <1>2, <2>1, <2>2 DEF RefsInv, StopInv
<1> QED BY <1>3, <1>4, <1>5 DEF RefsInv

(* Where the buffers are, of the steps that leave the channel alone.       *)
LEMMA SameChannel ==
  ASSUME UNCHANGED <<cmds, ch, cbs>>, NEW s \in Streams, NEW f \in Frames
  PROVE  InChannel(s, f)' = InChannel(s, f)
BY DEF InChannel

LEMMA RefsDeliver ==
  ASSUME RefsInv, NEW t \in Streams, Deliver(t)
  PROVE  RefsInv'
<1>1. PICK g \in Frames, h \in Hints :
        /\ g > last[t]
        /\ last' = [last EXCEPT ![t] = g]
        /\ kernel' = [kernel EXCEPT ![t] = @ - 1]
        /\ refcnt' = [refcnt EXCEPT ![t][g] = @ + Receivers(t)]
        /\ cmds' = IF ~Linked(t) \/ linked
                   THEN Append(cmds, [type |-> "data", s |-> t, f |-> g, hint |-> h])
                   ELSE cmds
        /\ scmds' = IF t = Meta THEN Append(scmds, g) ELSE scmds
  BY DEF Deliver
<1>2. t \in on /\ UNCHANGED <<use, state, on, linked, ch, cbs, scb, held, awaits>>
  BY DEF Deliver, hal
<1>3. TypeInv /\ PlaceInv /\ StopInv /\ CountInv /\ KernelInv
  BY DEF RefsInv
<1> DEFINE c == [type |-> "data", s |-> t, f |-> g, hint |-> h]
           bundled == ~Linked(t) \/ linked
<1>4. c \in Commands /\ c.type = "data" /\ \A s \in Streams, f \in Frames :
                                             c \in DataOf(s, f) <=> s = t /\ f = g
  BY DEF Commands, DataOf
<1>5. cmds' = (IF bundled THEN Append(cmds, c) ELSE cmds)
  BY <1>1
<1> HIDE DEF c, bundled
<1>6. cmds \in Seq(Commands) /\ scmds \in Seq(Frames)
  BY <1>3 DEF TypeInv
<1>7. cmds' \in Seq(Commands) /\ scmds' \in Seq(Frames)
  <2>1. Append(cmds, c) \in Seq(Commands) /\ Append(scmds, g) \in Seq(Frames)
    BY <1>4, <1>6
  <2> QED BY <1>1, <1>5, <1>6, <2>1
<1>8. ASSUME NEW s \in Streams, NEW f \in Frames
      PROVE  InChannel(s, f)' = InChannel(s, f) + Bit(bundled /\ s = t /\ f = g)
  <2>1. Hits(cmds', DataOf(s, f)) = Hits(cmds, DataOf(s, f)) + Bit(bundled /\ s = t /\ f = g)
    <3>0. Hits(cmds, DataOf(s, f)) \in Nat
      BY <1>3, CountType
    <3>1. CASE bundled
      <4>1. Hits(Append(cmds, c), DataOf(s, f)) = Hits(cmds, DataOf(s, f)) + Bit(c \in DataOf(s, f))
        BY <1>4, <1>6, HitsAppend
      <4>2. Bit(c \in DataOf(s, f)) = Bit(bundled /\ s = t /\ f = g)
        BY <1>4, <3>1 DEF Bit
      <4> QED BY <1>5, <3>1, <4>1, <4>2
    <3>2. CASE ~bundled
      BY <1>5, <3>0, <3>2 DEF Bit
    <3> QED BY <3>1, <3>2
  <2>2. /\ Hits(cmds, DataOf(s, f)) \in Nat /\ Hits(ch.q, NodeOf(s, f)) \in Nat
        /\ Hits(cbs, SlotsOf(s, f)) \in Nat /\ Bit(bundled /\ s = t /\ f = g) \in Nat
    BY <1>3, CountType DEF Bit
  <2>3. /\ InChannel(s, f)' = Hits(cmds', DataOf(s, f)) + Hits(ch.q, NodeOf(s, f)) + Hits(cbs, SlotsOf(s, f))
        /\ InChannel(s, f) = Hits(cmds, DataOf(s, f)) + Hits(ch.q, NodeOf(s, f)) + Hits(cbs, SlotsOf(s, f))
    BY <1>2 DEF InChannel
  <2> QED BY <2>1, <2>2, <2>3
<1>9. ASSUME NEW s \in Streams, NEW f \in Frames
      PROVE  Aside(s, f)' = Aside(s, f) + Bit(t = Meta /\ s = t /\ f = g)
  <2>1. CASE s = Meta /\ t = Meta
    <3>1. Hits(Append(scmds, g), {f}) = Hits(scmds, {f}) + Bit(g \in {f})
      BY <1>6, HitsAppend
    <3>2. Bit(g \in {f}) = Bit(t = Meta /\ s = t /\ f = g)
      BY <2>1 DEF Bit
    <3>3. scmds' = Append(scmds, g)
      BY <1>1, <2>1
    <3>4. Hits(scmds, {f}) \in Nat /\ Bit(t = Meta /\ s = t /\ f = g) \in Nat /\ Bit(scb = f) \in Nat
      BY <1>6, HitsType DEF Bit
    <3>5. /\ Aside(s, f)' = Hits(scmds', {f}) + Bit(scb = f)
          /\ Aside(s, f) = Hits(scmds, {f}) + Bit(scb = f)
      BY <1>2, <2>1 DEF Aside
    <3> QED BY <3>1, <3>2, <3>3, <3>4, <3>5
  <2>2. CASE ~(s = Meta /\ t = Meta)
    <3>1. Aside(s, f)' = Aside(s, f)
      BY <1>1, <1>2, <2>2 DEF Aside
    <3>2. Aside(s, f) \in Nat
      BY <1>3, CountType
    <3>3. Bit(t = Meta /\ s = t /\ f = g) = 0
      BY <2>2 DEF Bit
    <3> QED BY <3>1, <3>2, <3>3
  <2> QED BY <2>1, <2>2
<1>10. Receivers(t) = Bit(bundled) + Bit(t = Meta) /\ Receivers(t) \in {1, 2}
  <2>1. ~bundled => t = Meta
    BY DEF bundled, Linked
  <2> QED BY <2>1 DEF Receivers, Bit, bundled
<1>11. InChannel(t, g) = 0 /\ held[t][g] = 0 /\ Aside(t, g) = 0 /\ Count(t, g) = 0
  <2>1. /\ InChannel(t, g) = 0 /\ held[t][g] = 0
        /\ t = Meta => scb # g /\ Hits(scmds, {g}) = 0
    BY <1>1, <1>3 DEF PlaceInv
  <2>2. Aside(t, g) = 0
    BY <2>1 DEF Aside, Bit
  <2> QED BY <2>1, <2>2 DEF Count
<1>12. /\ last' \in [Streams -> {0} \cup Frames] /\ last'[t] = g
       /\ \A s \in Streams : s # t => last'[s] = last[s]
       /\ \A s \in Streams : last[s] \in Nat
  <2>1. {0} \cup Frames \subseteq Nat
    BY Constants
  <2>2. last \in [Streams -> {0} \cup Frames]
    BY <1>3 DEF TypeInv
  <2>3. last' = [last EXCEPT ![t] = g]
    BY <1>1
  <2> QED BY <2>1, <2>2, <2>3
<1>13. /\ refcnt' \in [Streams -> [Frames -> Int]] /\ kernel' \in [Streams -> Int]
       /\ \A s \in Streams, f \in Frames : ~(s = t /\ f = g) => refcnt'[s][f] = refcnt[s][f]
       /\ refcnt'[t][g] = refcnt[t][g] + Receivers(t)
       /\ \A s \in Streams : s # t => kernel'[s] = kernel[s]
       /\ kernel'[t] = kernel[t] - 1 /\ kernel[t] \in Int
  BY <1>1, <1>3, <1>10 DEF TypeInv
<1>14. TypeInv'
  BY <1>2, <1>3, <1>7, <1>12, <1>13 DEF TypeInv
<1>15. PlaceInv'
  <2> SUFFICES ASSUME NEW s \in Streams, NEW f \in Frames
               PROVE  /\ InChannel(s, f)' <= 1
                      /\ f > last'[s] => /\ InChannel(s, f)' = 0 /\ held[s][f] = 0
                                         /\ s = Meta => scb # f /\ Hits(scmds', {f}) = 0
    BY <1>2 DEF PlaceInv
  <2>0. /\ InChannel(s, f) <= 1 /\ InChannel(s, f) \in Nat
        /\ f > last[s] => /\ InChannel(s, f) = 0 /\ held[s][f] = 0
                          /\ s = Meta => scb # f /\ Hits(scmds, {f}) = 0
    BY <1>3, CountType DEF PlaceInv
  <2>1. CASE s = t /\ f = g
    <3>1. ~(f > last'[s])
      BY <1>12, <2>1, Constants
    <3>2. InChannel(s, f)' <= 1
      BY <1>8, <1>11, <2>1 DEF Bit
    <3> QED BY <3>1, <3>2
  <2>2. CASE ~(s = t /\ f = g)
    <3>1. InChannel(s, f)' = InChannel(s, f)
      BY <1>8, <2>0, <2>2 DEF Bit
    <3>2. f > last'[s] => f > last[s]
      BY <1>1, <1>12, Constants
    <3>3. s = Meta => Hits(scmds', {f}) = Hits(scmds, {f})
      <4>1. CASE s = Meta /\ t = Meta
        <5>1. Hits(Append(scmds, g), {f}) = Hits(scmds, {f}) + Bit(g \in {f}) /\ Hits(scmds, {f}) \in Nat
          BY <1>6, HitsAppend, HitsType
        <5>2. Bit(g \in {f}) = 0
          BY <2>2, <4>1 DEF Bit
        <5> QED BY <1>1, <4>1, <5>1, <5>2
      <4>2. CASE t # Meta
        BY <1>1, <4>2
      <4> QED BY <4>1, <4>2
    <3> QED BY <2>0, <3>1, <3>2, <3>3
  <2> QED BY <2>1, <2>2
<1>16. StopInv'
  <2>1. use = "live" => \A i \in 1 .. Len(cmds') : cmds'[i].type \in {"data", "flush"}
    <3> SUFFICES ASSUME use = "live", bundled, NEW i \in 1 .. Len(Append(cmds, c))
                 PROVE  Append(cmds, c)[i].type \in {"data", "flush"}
      BY <1>3, <1>5 DEF StopInv
    <3>1. /\ Len(Append(cmds, c)) = Len(cmds) + 1 /\ Len(cmds) \in Nat
          /\ Append(cmds, c)[Len(cmds) + 1] = c
          /\ \A j \in 1 .. Len(cmds) : Append(cmds, c)[j] = cmds[j]
      BY <1>4, <1>6, AppendProperties, LenProperties
    <3>2. CASE i = Len(cmds) + 1
      BY <1>4, <3>1, <3>2
    <3>3. CASE i # Len(cmds) + 1
      <4>1. i \in 1 .. Len(cmds)
        BY <3>1, <3>3
      <4> QED BY <1>3, <3>1, <4>1 DEF StopInv
    <3> QED BY <3>2, <3>3
  <2>2. bundled /\ use = "live" => linked
    <3>1. use = "live" /\ ~linked => on = {Meta}
      BY <1>3 DEF StopInv
    <3> QED BY <1>2, <3>1 DEF bundled, Linked
  <2>3. bundled => state # "stopped"
    <3>1. state = "stopped" => ~linked /\ \A s \in on : Linked(s)
      BY <1>3 DEF StopInv
    <3> QED BY <1>2, <3>1 DEF bundled
  <2>4. ~bundled => cmds' = cmds
    BY <1>5
  <2>5. Linked(t)' = Linked(t) /\ \A s \in Streams : Linked(s)' = Linked(s)
    BY <1>2 DEF Linked
  <2>6. on \subseteq Streams
    BY <1>3 DEF TypeInv
  <2> QED BY <1>2, <1>3, <2>1, <2>2, <2>3, <2>4, <2>5, <2>6 DEF StopInv
<1>17. CountInv'
  <2> SUFFICES ASSUME NEW s \in on, NEW f \in Frames
               PROVE  refcnt'[s][f] = Count(s, f)'
    BY <1>2 DEF CountInv
  <2>0. s \in Streams
    BY <1>3 DEF TypeInv
  <2>1. Count(s, f)' = InChannel(s, f)' + held[s][f] + Aside(s, f)'
    BY <1>2 DEF Count
  <2>2. CASE s = t /\ f = g
    <3>1. InChannel(s, f)' = Bit(bundled) /\ Aside(s, f)' = Bit(t = Meta)
      BY <1>8, <1>9, <1>11, <2>0, <2>2 DEF Bit
    <3>2. refcnt[s][f] = 0
      BY <1>2, <1>3, <1>11, <2>2 DEF CountInv
    <3>3. Bit(bundled) \in Nat /\ Bit(t = Meta) \in Nat
      BY DEF Bit
    <3> QED BY <1>10, <1>11, <1>13, <2>1, <2>2, <3>1, <3>2, <3>3
  <2>3. CASE ~(s = t /\ f = g)
    <3>1. InChannel(s, f) \in Nat /\ Aside(s, f) \in Nat /\ held[s][f] \in Nat
      BY <1>3, <2>0, CountType
    <3>2. InChannel(s, f)' = InChannel(s, f) /\ Aside(s, f)' = Aside(s, f)
      BY <1>8, <1>9, <2>0, <2>3, <3>1 DEF Bit
    <3>3. refcnt[s][f] = Count(s, f)
      BY <1>3 DEF CountInv
    <3> QED BY <1>13, <2>0, <2>1, <2>3, <3>2, <3>3 DEF Count
  <2> QED BY <2>2, <2>3
<1>18. KernelInv'
  <2> SUFFICES ASSUME NEW s \in on
               PROVE  kernel'[s] + Cardinality({f \in Frames : refcnt'[s][f] > 0}) = NumBufs
    BY <1>2 DEF KernelInv
  <2>0. s \in Streams /\ kernel[s] + Cardinality({f \in Frames : refcnt[s][f] > 0}) = NumBufs
    BY <1>3 DEF TypeInv, KernelInv
  <2>1. CASE s = t
    <3> DEFINE A == {f \in Frames : refcnt[s][f] > 0}
               B == {f \in Frames : refcnt'[s][f] > 0}
    <3>1. refcnt[t][g] = 0
      BY <1>2, <1>3, <1>11 DEF CountInv
    <3>2. B = A \cup {g} /\ g \notin A
      BY <1>10, <1>13, <2>1, <3>1
    <3>3. IsFiniteSet(A)
      BY Constants, FS_Subset
    <3> HIDE DEF A, B
    <3>4. Cardinality(B) = Cardinality(A) + 1 /\ Cardinality(A) \in Nat
      BY <3>2, <3>3, FS_AddElement, FS_CardinalityType
    <3>5. kernel[s] + Cardinality(A) = NumBufs
      BY <2>0 DEF A
    <3>6. kernel'[s] + Cardinality(B) = NumBufs
      <4>1. kernel'[s] = kernel[s] - 1 /\ kernel[s] \in Int
        BY <1>13, <2>1
      <4> QED BY <3>4, <3>5, <4>1
    <3> QED BY <3>6 DEF B
  <2>2. CASE s # t
    <3>1. \A f \in Frames : refcnt'[s][f] = refcnt[s][f]
      BY <1>13, <2>0, <2>2
    <3>2. {f \in Frames : refcnt'[s][f] > 0} = {f \in Frames : refcnt[s][f] > 0}
      BY <3>1
    <3> QED BY <1>13, <2>0, <2>2, <3>2
  <2> QED BY <2>1, <2>2
<1> QED BY <1>14, <1>15, <1>16, <1>17, <1>18 DEF RefsInv

LEMMA RefsReturn ==
  ASSUME RefsInv, NEW t \in Streams, Return(t)
  PROVE  RefsInv'
<1>1. PICK g \in Frames : /\ held[t][g] > 0
                          /\ held' = [held EXCEPT ![t][g] = @ - 1]
                          /\ BufDone({<<t, g>>})
  BY DEF Return
<1>2. UNCHANGED <<use, state, on, linked, last, cmds, ch, cbs, scmds, scb, awaits>>
  BY DEF Return
<1>3. TypeInv /\ PlaceInv /\ StopInv /\ CountInv /\ KernelInv
  BY DEF RefsInv
<1>4. /\ held' \in [Streams -> [Frames -> Nat]]
      /\ \A s \in Streams, f \in Frames :
           held'[s][f] = held[s][f] - Bit(<<s, f>> \in {<<t, g>>})
  <2>1. held \in [Streams -> [Frames -> Nat]]
    BY <1>3 DEF TypeInv
  <2> QED BY <1>1, <2>1 DEF Bit
<1>5. \A s \in Streams, f \in Frames : InChannel(s, f)' = InChannel(s, f) /\ Aside(s, f)' = Aside(s, f)
  BY <1>2, SameChannel DEF Aside
<1>6. ASSUME NEW s \in Streams, NEW f \in Frames
      PROVE  Count(s, f)' = Count(s, f) - Bit(<<s, f>> \in {<<t, g>>})
  <2>1. InChannel(s, f) \in Nat /\ Aside(s, f) \in Nat /\ held[s][f] \in Nat
        /\ Bit(<<s, f>> \in {<<t, g>>}) \in Nat
    BY <1>3, CountType DEF Bit
  <2>2. Count(s, f)' = InChannel(s, f)' + held'[s][f] + Aside(s, f)'
    BY DEF Count
  <2> QED BY <1>4, <1>5, <2>1, <2>2 DEF Count
<1>7. ASSUME NEW s \in on, NEW f \in Frames, <<s, f>> \in {<<t, g>>} PROVE Count(s, f) >= 1
  <2>1. InChannel(t, g) \in Nat /\ Aside(t, g) \in Nat /\ held[t][g] \in Nat
    BY <1>3, CountType
  <2> QED BY <1>1, <1>7, <2>1 DEF Count
<1>8. /\ kernel' \in [Streams -> Int] /\ refcnt' \in [Streams -> [Frames -> Int]]
      /\ CountInv' /\ KernelInv'
  <2>1. {<<t, g>>} \in SUBSET (Streams \X Frames) /\ on' = on
    BY <1>2
  <2> QED BY <1>1, <1>3, <1>6, <1>7, <2>1, HeldKeepsPositive
<1>9. TypeInv'
  BY <1>2, <1>3, <1>4, <1>8 DEF TypeInv
<1>10. PlaceInv'
  <2>1. ASSUME NEW s \in Streams, NEW f \in Frames, held[s][f] = 0 PROVE held'[s][f] = 0
    <3>1. ~(s = t /\ f = g)
      BY <1>1, <2>1
    <3> QED BY <1>4, <2>1, <3>1 DEF Bit
  <2> QED BY <1>2, <1>3, <1>5, <2>1 DEF PlaceInv
<1>11. StopInv'
  BY <1>2, <1>3 DEF StopInv, Linked
<1> QED BY <1>8, <1>9, <1>10, <1>11 DEF RefsInv

LEMMA RefsAppDataDone ==
  ASSUME RefsInv, AppDataDone
  PROVE  RefsInv'
<1>1. scb # 0 /\ scb' = 0 /\ BufDone({<<Meta, scb>>})
      /\ UNCHANGED <<use, state, on, linked, last, cmds, ch, cbs, scmds, held, awaits>>
  BY DEF AppDataDone, hal
<1>2. TypeInv /\ PlaceInv /\ StopInv /\ CountInv /\ KernelInv
  BY DEF RefsInv
<1>3. scb \in Frames /\ Meta \in Streams /\ 0 \notin Frames
  BY <1>1, <1>2, Constants DEF TypeInv
<1>4. \A s \in Streams, f \in Frames : InChannel(s, f)' = InChannel(s, f) 
  BY <1>1, SameChannel
<1>5. ASSUME NEW s \in Streams, NEW f \in Frames
      PROVE  Aside(s, f)' = Aside(s, f) - Bit(<<s, f>> \in {<<Meta, scb>>})
  <2>1. CASE s = Meta
    <3>1. Aside(s, f)' = Hits(scmds, {f}) + Bit(0 = f) /\ Aside(s, f) = Hits(scmds, {f}) + Bit(scb = f)
      BY <1>1, <2>1 DEF Aside
    <3>2. Bit(0 = f) = 0 /\ Bit(<<s, f>> \in {<<Meta, scb>>}) = Bit(scb = f)
      BY <1>3, <2>1 DEF Bit
    <3>3. Hits(scmds, {f}) \in Nat /\ Bit(scb = f) \in Nat
      BY <1>2, <2>1, CountType DEF Bit
    <3> QED BY <3>1, <3>2, <3>3
  <2>2. CASE s # Meta
    BY <2>2 DEF Aside, Bit
  <2> QED BY <2>1, <2>2
<1>6. ASSUME NEW s \in Streams, NEW f \in Frames
      PROVE  Count(s, f)' = Count(s, f) - Bit(<<s, f>> \in {<<Meta, scb>>})
  <2>1. InChannel(s, f) \in Nat /\ Aside(s, f) \in Nat /\ held[s][f] \in Nat
        /\ Bit(<<s, f>> \in {<<Meta, scb>>}) \in Nat
    BY <1>2, CountType DEF Bit
  <2>2. Count(s, f)' = InChannel(s, f)' + held[s][f] + Aside(s, f)'
    BY <1>1 DEF Count
  <2> QED BY <1>4, <1>5, <2>1, <2>2 DEF Count
<1>7. ASSUME NEW s \in on, NEW f \in Frames, <<s, f>> \in {<<Meta, scb>>} PROVE Count(s, f) >= 1
  <2>1. s = Meta /\ f = scb
    BY <1>7
  <2>2. InChannel(s, f) \in Nat /\ Aside(s, f) = Hits(scmds, {f}) + Bit(scb = f)
        /\ held[s][f] \in Nat /\ Hits(scmds, {f}) \in Nat
    BY <1>2, <1>3, <2>1, CountType
  <2> QED BY <2>1, <2>2 DEF Count, Bit
<1>8. /\ kernel' \in [Streams -> Int] /\ refcnt' \in [Streams -> [Frames -> Int]]
      /\ CountInv' /\ KernelInv'
  <2>1. {<<Meta, scb>>} \in SUBSET (Streams \X Frames) /\ on' = on
    BY <1>1, <1>3
  <2> QED BY <1>1, <1>2, <1>6, <1>7, <2>1, HeldKeepsPositive
<1>9. TypeInv'
  BY <1>1, <1>2, <1>8 DEF TypeInv
<1>10. PlaceInv'
  BY <1>1, <1>2, <1>3, <1>4 DEF PlaceInv
<1>11. StopInv'
  BY <1>1, <1>2 DEF StopInv, Linked
<1> QED BY <1>8, <1>9, <1>10, <1>11 DEF RefsInv

LEMMA RefsAppData ==
  ASSUME RefsInv, AppData
  PROVE  RefsInv'
<1> DEFINE g == Head(scmds)
<1>1. /\ scmds # <<>> /\ scb = 0 /\ scb' = g /\ scmds' = Tail(scmds)
      /\ refcnt' = [refcnt EXCEPT ![Meta][g] = @ + 1]
      /\ held' = [held EXCEPT ![Meta][g] = @ + 1]
      /\ UNCHANGED <<use, state, on, linked, kernel, last, cmds, ch, cbs, awaits>>
  BY DEF AppData
<1>2. TypeInv /\ PlaceInv /\ StopInv /\ CountInv /\ KernelInv
  BY DEF RefsInv
<1>3. /\ g \in Frames /\ scmds' \in Seq(Frames) /\ Meta \in Streams /\ 0 \notin Frames
      /\ \A f \in Frames : Hits(scmds, {f}) = Bit(g = f) + Hits(scmds', {f})
  <2>1. scmds \in Seq(Frames)
    BY <1>2 DEF TypeInv
  <2>2. \A f \in Frames : Bit(g \in {f}) = Bit(g = f)
    BY DEF Bit
  <2> HIDE DEF g
  <2>3. \A f \in Frames : Hits(scmds, {f}) = Bit(g \in {f}) + Hits(scmds', {f})
    BY <1>1, <2>1, HitsTail DEF g
  <2> QED BY <1>1, <2>1, <2>2, <2>3, Constants, HitsTail DEF g
<1> HIDE DEF g
<1>4. \A s \in Streams, f \in Frames : InChannel(s, f)' = InChannel(s, f) 
  BY <1>1, SameChannel
<1>5. /\ held' \in [Streams -> [Frames -> Nat]]
      /\ \A s \in Streams, f \in Frames : held'[s][f] = held[s][f] + Bit(s = Meta /\ g = f)
  <2>1. held \in [Streams -> [Frames -> Nat]]
    BY <1>2 DEF TypeInv
  <2> QED BY <1>1, <1>3, <2>1 DEF Bit
<1>6. /\ refcnt' \in [Streams -> [Frames -> Int]]
      /\ \A s \in Streams, f \in Frames : refcnt'[s][f] = refcnt[s][f] + Bit(s = Meta /\ g = f)
  <2>1. refcnt \in [Streams -> [Frames -> Int]]
    BY <1>2 DEF TypeInv
  <2> QED BY <1>1, <1>3, <2>1 DEF Bit
<1>7. ASSUME NEW s \in Streams, NEW f \in Frames
      PROVE  Aside(s, f)' = Aside(s, f)
  <2>1. CASE s = Meta
    <3>1. Aside(s, f)' = Hits(scmds', {f}) + Bit(g = f) /\ Aside(s, f) = Hits(scmds, {f}) + Bit(0 = f)
      BY <1>1, <2>1 DEF Aside
    <3>2. Bit(0 = f) = 0
      BY <1>3 DEF Bit
    <3>3. Hits(scmds', {f}) \in Nat /\ Bit(g = f) \in Nat
      BY <1>3, HitsType DEF Bit
    <3> QED BY <1>3, <3>1, <3>2, <3>3
  <2>2. CASE s # Meta
    BY <2>2 DEF Aside
  <2> QED BY <2>1, <2>2
<1>8. ASSUME NEW s \in Streams, NEW f \in Frames
      PROVE  Count(s, f)' = Count(s, f) + Bit(s = Meta /\ g = f)
  <2>1. InChannel(s, f) \in Nat /\ Aside(s, f) \in Nat /\ held[s][f] \in Nat
        /\ Bit(s = Meta /\ g = f) \in Nat
    BY <1>2, CountType DEF Bit
  <2>2. Count(s, f)' = InChannel(s, f)' + held'[s][f] + Aside(s, f)'
    BY DEF Count
  <2> QED BY <1>4, <1>5, <1>7, <2>1, <2>2 DEF Count
<1>9. on \subseteq Streams
  BY <1>2 DEF TypeInv
<1>10. CountInv'
  BY <1>1, <1>2, <1>6, <1>8, <1>9 DEF CountInv
<1>11. KernelInv'
  <2> SUFFICES ASSUME NEW s \in on
               PROVE  kernel[s] + Cardinality({f \in Frames : refcnt'[s][f] > 0}) = NumBufs
    BY <1>1 DEF KernelInv
  <2>1. ASSUME NEW f \in Frames PROVE refcnt'[s][f] > 0 <=> refcnt[s][f] > 0
    <3>1. CASE s = Meta /\ g = f
      <4>1. Count(s, f) = InChannel(s, f) + held[s][f] + Aside(s, f)
        BY DEF Count
      <4>2. /\ InChannel(s, f) \in Nat /\ held[s][f] \in Nat /\ Hits(scmds', {f}) \in Nat
            /\ Aside(s, f) = Hits(scmds, {f}) + Bit(scb = f) /\ Bit(scb = f) \in Nat
        BY <1>2, <1>3, <1>9, <3>1, CountType, HitsType DEF Bit
      <4>3. Hits(scmds, {f}) >= 1
        BY <1>3, <3>1, <4>2 DEF Bit
      <4>4. refcnt[s][f] = Count(s, f) /\ refcnt'[s][f] = refcnt[s][f] + 1
        BY <1>2, <1>6, <1>9, <3>1 DEF CountInv, Bit
      <4> HIDE DEF Bit
      <4>5. Hits(scmds, {f}) \in Nat /\ Aside(s, f) \in Nat /\ Aside(s, f) >= 1
        BY <1>2, <1>9, <3>1, <4>2, <4>3, CountType
      <4> QED BY <4>1, <4>2, <4>4, <4>5
    <3>2. CASE ~(s = Meta /\ g = f)
      <4>1. refcnt[s][f] \in Int
        BY <1>2, <1>9 DEF TypeInv
      <4> QED BY <1>6, <1>9, <3>2, <4>1 DEF Bit
    <3> QED BY <3>1, <3>2
  <2>2. {f \in Frames : refcnt'[s][f] > 0} = {f \in Frames : refcnt[s][f] > 0}
    BY <2>1
  <2> QED BY <1>2, <2>2 DEF KernelInv
<1>12. TypeInv'
  BY <1>1, <1>2, <1>3, <1>5, <1>6 DEF TypeInv
<1>13. PlaceInv'
  <2>1. ASSUME NEW s \in Streams, NEW f \in Frames, f > last[s]
        PROVE  held'[s][f] = 0 /\ (s = Meta => g # f /\ Hits(scmds', {f}) = 0)
    <3>1. held[s][f] = 0 /\ (s = Meta => Hits(scmds, {f}) = 0)
      BY <1>2, <2>1 DEF PlaceInv
    <3>2. Hits(scmds', {f}) \in Nat
      BY <1>3, HitsType
    <3>3. s = Meta => g # f /\ Hits(scmds', {f}) = 0
      BY <1>3, <3>1, <3>2 DEF Bit
    <3>4. held'[s][f] = 0
      BY <1>5, <3>1, <3>3 DEF Bit
    <3> QED BY <3>3, <3>4
  <2>2. \A s \in Streams, f \in Frames :
          InChannel(s, f)' <= 1 /\ (f > last[s] => InChannel(s, f)' = 0)
    BY <1>2, <1>4 DEF PlaceInv
  <2>3. scb' = g /\ last' = last
    BY <1>1
  <2> QED BY <2>1, <2>2, <2>3 DEF PlaceInv
<1>14. StopInv'
  BY <1>1, <1>2 DEF StopInv, Linked
<1> QED BY <1>10, <1>11, <1>12, <1>13, <1>14 DEF RefsInv

LEMMA RefsSuperBufCb ==
  ASSUME RefsInv, SuperBufCb
  PROVE  RefsInv'
<1> DEFINE x == Head(cbs)
<1>1. /\ cbs # <<>> /\ cbs' = Tail(cbs)
      /\ held' = [s \in Streams |-> [held[s] EXCEPT ![x[s]] = @ + 1]]
      /\ UNCHANGED <<use, state, on, linked, kernel, refcnt, last, cmds, ch, scmds, scb, awaits>>
  BY DEF SuperBufCb
<1>2. TypeInv /\ PlaceInv /\ StopInv /\ CountInv /\ KernelInv
  BY DEF RefsInv
<1>3. cbs \in Seq(Slots) /\ held \in [Streams -> [Frames -> Nat]] /\ 0 \notin Frames
  BY <1>2, Constants DEF TypeInv
<1>4. x \in Slots /\ cbs' \in Seq(Slots)
  BY <1>1, <1>3, HeadTailProperties
<1>5. ASSUME NEW s \in Streams, NEW f \in Frames
      PROVE  Hits(cbs, SlotsOf(s, f)) = Bit(x[s] = f) + Hits(cbs', SlotsOf(s, f))
  <2>1. Hits(cbs, SlotsOf(s, f)) = Bit(x \in SlotsOf(s, f)) + Hits(cbs', SlotsOf(s, f))
    BY <1>1, <1>3, HitsTail
  <2>2. Bit(x \in SlotsOf(s, f)) = Bit(x[s] = f)
    BY <1>4 DEF Bit, SlotsOf
  <2> QED BY <2>1, <2>2
<1> HIDE DEF x
<1>6. /\ held' \in [Streams -> [Frames -> Nat]]
      /\ \A s \in Streams, f \in Frames : held'[s][f] = held[s][f] + Bit(x[s] = f)
  <2>1. ASSUME NEW s \in Streams PROVE [held[s] EXCEPT ![x[s]] = @ + 1] \in [Frames -> Nat]
    <3>1. held[s] \in [Frames -> Nat]
      BY <1>3
    <3>2. x[s] \in Frames => held[s][x[s]] + 1 \in Nat
      BY <3>1
    <3> QED BY <3>1, <3>2
  <2>2. held' \in [Streams -> [Frames -> Nat]]
    BY <1>1, <2>1
  <2>3. ASSUME NEW s \in Streams, NEW f \in Frames
        PROVE  held'[s][f] = held[s][f] + Bit(x[s] = f)
    <3>1. held'[s] = [held[s] EXCEPT ![x[s]] = @ + 1] /\ held[s] \in [Frames -> Nat]
      BY <1>1, <1>3
    <3> QED BY <3>1 DEF Bit
  <2> QED BY <2>2, <2>3
<1>7. ASSUME NEW s \in Streams, NEW f \in Frames
      PROVE  /\ InChannel(s, f) = InChannel(s, f)' + Bit(x[s] = f)
             /\ InChannel(s, f)' \in Nat
             /\ Aside(s, f)' = Aside(s, f) /\ Count(s, f)' = Count(s, f)
  <2>1. /\ Hits(cmds, DataOf(s, f)) \in Nat /\ Hits(ch.q, NodeOf(s, f)) \in Nat
        /\ Hits(cbs', SlotsOf(s, f)) \in Nat /\ Bit(x[s] = f) \in Nat
        /\ held[s][f] \in Nat /\ Aside(s, f) \in Nat
    BY <1>2, <1>4, CountType, HitsType DEF Bit
  <2>2. /\ InChannel(s, f)' = Hits(cmds, DataOf(s, f)) + Hits(ch.q, NodeOf(s, f)) + Hits(cbs', SlotsOf(s, f))
        /\ InChannel(s, f) = Hits(cmds, DataOf(s, f)) + Hits(ch.q, NodeOf(s, f)) + Hits(cbs, SlotsOf(s, f))
    BY <1>1 DEF InChannel
  <2>3. Aside(s, f)' = Aside(s, f)
    BY <1>1 DEF Aside
  <2>4. InChannel(s, f) = InChannel(s, f)' + Bit(x[s] = f) /\ InChannel(s, f)' \in Nat
    BY <1>5, <2>1, <2>2
  <2>5. /\ Count(s, f)' = InChannel(s, f)' + held'[s][f] + Aside(s, f)'
        /\ Count(s, f) = InChannel(s, f) + held[s][f] + Aside(s, f)
    BY DEF Count
  <2> QED BY <1>6, <2>1, <2>3, <2>4, <2>5
<1>8. TypeInv'
  BY <1>1, <1>2, <1>4, <1>6 DEF TypeInv
<1>9. PlaceInv'
  <2>1. ASSUME NEW s \in Streams, NEW f \in Frames
        PROVE  InChannel(s, f)' <= 1 /\ (f > last[s] => InChannel(s, f)' = 0 /\ held'[s][f] = 0)
    <3>1. InChannel(s, f) <= 1 /\ (f > last[s] => InChannel(s, f) = 0 /\ held[s][f] = 0)
      BY <1>2 DEF PlaceInv
    <3>2. Bit(x[s] = f) \in Nat
      BY DEF Bit
    <3>3. InChannel(s, f) = InChannel(s, f)' + Bit(x[s] = f) /\ InChannel(s, f)' \in Nat
      BY <1>7
    <3>4. held'[s][f] = held[s][f] + Bit(x[s] = f)
      BY <1>6
    <3> QED BY <3>1, <3>2, <3>3, <3>4
  <2> QED BY <1>1, <1>2, <2>1 DEF PlaceInv
<1>10. StopInv'
  <2>1. cbs = <<>> => cbs' = <<>>
    BY <1>1
  <2>2. state # "stopped"
    BY <1>1, <1>2 DEF StopInv
  <2> QED BY <1>1, <1>2, <2>2 DEF StopInv, Linked
<1>11. CountInv'
  <2>1. on \subseteq Streams
    BY <1>2 DEF TypeInv
  <2> QED BY <1>1, <1>2, <1>7, <2>1 DEF CountInv
<1>12. KernelInv'
  BY <1>1, <1>2 DEF KernelInv
<1> QED BY <1>8, <1>9, <1>10, <1>11, <1>12 DEF RefsInv

LEMMA RefsStopStream ==
  ASSUME RefsInv, NEW t \in Streams, StopStream(t)
  PROVE  RefsInv'
<1>1. /\ state = "stopping" /\ t \in on /\ ~Linked(t) /\ on' = on \ {t}
      /\ refcnt' = [refcnt EXCEPT ![t] = [f \in Frames |-> 0]]
      /\ kernel' = [kernel EXCEPT ![t] = 0]
      /\ UNCHANGED <<use, state, linked, last, cmds, ch, cbs, scmds, scb, held, awaits>>
  BY DEF StopStream, hal
<1>2. TypeInv /\ PlaceInv /\ StopInv /\ CountInv /\ KernelInv
  BY DEF RefsInv
<1>3. /\ refcnt' \in [Streams -> [Frames -> Int]] /\ kernel' \in [Streams -> Int]
      /\ on' \subseteq Streams
      /\ \A s \in on' : s \in on /\ s \in Streams /\ refcnt'[s] = refcnt[s] /\ kernel'[s] = kernel[s]
  BY <1>1, <1>2 DEF TypeInv
<1>4. TypeInv'
  BY <1>1, <1>2, <1>3 DEF TypeInv
<1>5. \A s \in Streams, f \in Frames : InChannel(s, f)' = InChannel(s, f)
  BY <1>1, SameChannel
<1>6. \A s \in Streams, f \in Frames : Count(s, f)' = Count(s, f)
  BY <1>1, <1>5 DEF Count, Aside
<1>7. PlaceInv'
  BY <1>1, <1>2, <1>5 DEF PlaceInv
<1>8. StopInv'
  <2>1. use = "live" => t # Meta
    BY <1>1 DEF Linked
  <2>2. use = "live" /\ ~linked => on = {Meta}
    BY <1>2 DEF StopInv
  <2>3. use = "live" /\ ~linked => FALSE
    BY <1>1, <2>1, <2>2
  <2> QED BY <1>1, <1>2, <2>1, <2>3 DEF StopInv
<1>9. CountInv'
  BY <1>2, <1>3, <1>6 DEF CountInv
<1>10. KernelInv'
  <2> SUFFICES ASSUME NEW s \in on'
               PROVE  kernel'[s] + Cardinality({f \in Frames : refcnt'[s][f] > 0}) = NumBufs
    BY DEF KernelInv
  <2>1. refcnt'[s] = refcnt[s] /\ kernel'[s] = kernel[s] /\ s \in on
    BY <1>3
  <2> QED BY <1>2, <2>1 DEF KernelInv
<1> QED BY <1>4, <1>7, <1>8, <1>9, <1>10 DEF RefsInv

(* Steps that change neither buffers nor queues of buffers.                *)
LEMMA RefsIdle ==
  ASSUME RefsInv, Stop \/ UNCHANGED vars
  PROVE  RefsInv'
<1>1. /\ UNCHANGED <<use, on, linked, kernel, refcnt, last, cmds, ch, cbs, scmds, scb, held, awaits>>
      /\ state' = state \/ (state = "active" /\ state' = "stopping")
  BY DEF Stop, vars, hal
<1>2. TypeInv /\ PlaceInv /\ StopInv /\ CountInv /\ KernelInv
  BY DEF RefsInv
<1>3. TypeInv'
  BY <1>1, <1>2 DEF TypeInv
<1>4. \A s \in Streams, f \in Frames : InChannel(s, f)' = InChannel(s, f)
  BY <1>1, SameChannel
<1>5. \A s \in Streams, f \in Frames : Count(s, f)' = Count(s, f)
  BY <1>1, <1>4 DEF Count, Aside
<1>6. PlaceInv'
  BY <1>1, <1>2, <1>4 DEF PlaceInv
<1>7. StopInv'
  BY <1>1, <1>2 DEF StopInv, Linked
<1>8. CountInv'
  BY <1>1, <1>2, <1>5 DEF CountInv, TypeInv
<1>9. KernelInv'
  BY <1>1, <1>2 DEF KernelInv
<1> QED BY <1>3, <1>6, <1>7, <1>8, <1>9 DEF RefsInv

LEMMA RefsStopped ==
  ASSUME RefsInv, Stopped
  PROVE  RefsInv'
<1>1. /\ state = "stopping" /\ ~linked /\ on \subseteq {s \in Streams : Linked(s)}
      /\ cmds = <<>> /\ cbs = <<>> /\ state' = "stopped" /\ ch' = [ch EXCEPT !.q = <<>>]
      /\ UNCHANGED <<use, on, linked, kernel, refcnt, last, cmds, cbs, scmds, scb, held, awaits>>
  BY DEF Stopped, hal
<1>2. TypeInv /\ PlaceInv /\ StopInv /\ CountInv /\ KernelInv
  BY DEF RefsInv
<1>3. /\ ch' \in Channels /\ ch'.q = <<>> /\ ch'.released = {} /\ ch'.dispatched = <<>>
  <2>1. ch \in Fields /\ ch.pending_retro_cnt <= ch.pending_cnt
    BY <1>2, FieldTypes DEF TypeInv
  <2>2. <<>> \in Seq(Nodes)
    OBVIOUS
  <2> QED BY <1>1, <1>2, <2>1, <2>2 DEF Channels, Fields, StopInv
<1>4. TypeInv'
  BY <1>1, <1>2, <1>3 DEF TypeInv
<1>5. ASSUME NEW s \in Streams, NEW f \in Frames
      PROVE  /\ InChannel(s, f)' = 0
             /\ ch.q = <<>> => InChannel(s, f) = 0
             /\ held'[s][f] = held[s][f] /\ Aside(s, f)' = Aside(s, f)
  <2>1. Hits(<<>>, DataOf(s, f)) = 0 /\ Hits(<<>>, NodeOf(s, f)) = 0 /\ Hits(<<>>, SlotsOf(s, f)) = 0
    BY HitsNone
  <2> QED BY <1>1, <1>3, <2>1 DEF InChannel, Aside
<1>6. PlaceInv'
  <2> SUFFICES ASSUME NEW s \in Streams, NEW f \in Frames
               PROVE  /\ InChannel(s, f)' <= 1
                      /\ f > last[s] => /\ InChannel(s, f)' = 0 /\ held[s][f] = 0
                                        /\ s = Meta => scb # f /\ Hits(scmds, {f}) = 0
    BY <1>1 DEF PlaceInv
  <2>1. InChannel(s, f)' = 0
    BY <1>5
  <2> QED BY <1>2, <2>1 DEF PlaceInv
<1>7. \A s \in on : s = Meta /\ use = "live" /\ ch.q = <<>>
  <2>1. use = "live" => ch.q = <<>>
    BY <1>1, <1>2 DEF StopInv
  <2> QED BY <1>1, <2>1 DEF Linked
<1>8. StopInv'
  <2>1. \A s \in on : Linked(s)'
    BY <1>1, <1>7 DEF Linked
  <2> QED BY <1>1, <1>2, <1>3, <2>1 DEF StopInv
<1>9. CountInv'
  <2> SUFFICES ASSUME NEW s \in on, NEW f \in Frames PROVE refcnt[s][f] = Count(s, f)'
    BY <1>1 DEF CountInv
  <2>1. s \in Streams
    BY <1>2 DEF TypeInv
  <2>2. InChannel(s, f)' = InChannel(s, f)
    BY <1>5, <1>7, <2>1
  <2> QED BY <1>2, <1>5, <2>1, <2>2 DEF CountInv, Count
<1>10. KernelInv'
  BY <1>1, <1>2 DEF KernelInv
<1> QED BY <1>4, <1>6, <1>8, <1>9, <1>10 DEF RefsInv

LEMMA RefsRestart ==
  ASSUME RefsInv, Restart
  PROVE  RefsInv'
<1>1. /\ use' = use /\ state' = "active" /\ on' = Streams /\ linked' = (use = "live")
      /\ cmds' = <<>> /\ cbs' = <<>> /\ scmds' = <<>> /\ scb' = 0 /\ awaits' = FALSE
      /\ kernel' = [s \in Streams |-> NumBufs] /\ last' = [s \in Streams |-> 0]
      /\ refcnt' = [s \in Streams |-> [f \in Frames |-> 0]]
      /\ held' = held /\ ch' = FreshChannel
      /\ \A s \in Streams, f \in Frames : held[s][f] = 0
  BY DEF Restart
<1>2. TypeInv
  BY DEF RefsInv
<1>3. held' = [s \in Streams |-> [f \in Frames |-> 0]]
  <2>1. held \in [Streams -> [Frames -> Nat]]
    BY <1>2 DEF TypeInv
  <2>2. \A s \in Streams : held[s] = [f \in Frames |-> 0]
    BY <1>1, <2>1
  <2> QED BY <1>1, <2>1, <2>2
<1>4. <<>> \in Seq(Nodes) /\ <<>> \in Seq(Slots) /\ <<>> \in Seq(Commands) /\ <<>> \in Seq(Frames)
  OBVIOUS
<1>5. ch' \in Channels
  BY <1>1, <1>4 DEF FreshChannel, Channels, Fields
<1>6. ch'.q = <<>> /\ ch'.released = {} /\ ch'.dispatched = <<>>
  BY <1>1 DEF FreshChannel
<1>7. TypeInv'
  <2>1. /\ kernel' \in [Streams -> Int] /\ last' \in [Streams -> {0} \cup Frames]
        /\ refcnt' \in [Streams -> [Frames -> Int]] /\ held' \in [Streams -> [Frames -> Nat]]
    BY <1>1, <1>3, Constants
  <2> QED BY <1>1, <1>2, <1>4, <1>5, <2>1 DEF TypeInv
<1>8. \A s \in Streams, f \in Frames : InChannel(s, f)' = 0
  BY <1>1, <1>6, HitsNone DEF InChannel
<1>9. \A s \in Streams, f \in Frames : Aside(s, f)' = 0 /\ scb' # f /\ Hits(scmds', {f}) = 0
  BY <1>1, HitsNone, Constants DEF Aside, Bit
<1>10. PlaceInv'
  <2> SUFFICES ASSUME NEW s \in Streams, NEW f \in Frames
               PROVE  /\ InChannel(s, f)' <= 1
                      /\ InChannel(s, f)' = 0 /\ held'[s][f] = 0
                      /\ scb' # f /\ Hits(scmds', {f}) = 0
    BY DEF PlaceInv
  <2>1. InChannel(s, f)' = 0
    BY <1>8
  <2> QED BY <1>1, <1>9, <2>1
<1>11. StopInv'
  <2>1. linked' <=> use = "live"
    BY <1>1
  <2>2. \A i \in 1 .. Len(cmds') : cmds'[i].type \in {"data", "flush"}
    BY <1>1
  <2>3. Meta \in on'
    BY <1>1, Constants
  <2> QED BY <1>1, <1>6, <2>1, <2>2, <2>3 DEF StopInv
<1>12. CountInv'
  <2> SUFFICES ASSUME NEW s \in Streams, NEW f \in Frames PROVE refcnt'[s][f] = Count(s, f)'
    BY <1>1 DEF CountInv
  <2>1. held'[s][f] = 0 /\ refcnt'[s][f] = 0
    BY <1>1
  <2>2. Count(s, f)' = InChannel(s, f)' + held'[s][f] + Aside(s, f)'
    BY DEF Count
  <2>3. InChannel(s, f)' = 0 /\ Aside(s, f)' = 0
    BY <1>8, <1>9
  <2> QED BY <2>1, <2>2, <2>3
<1>13. KernelInv'
  <2> SUFFICES ASSUME NEW s \in Streams
               PROVE  kernel'[s] + Cardinality({f \in Frames : refcnt'[s][f] > 0}) = NumBufs
    BY <1>1 DEF KernelInv
  <2>1. {f \in Frames : refcnt'[s][f] > 0} = {}
    BY <1>1
  <2>2. Cardinality({f \in Frames : refcnt'[s][f] > 0}) = 0
    BY <2>1, FS_EmptySet
  <2>3. kernel'[s] = NumBufs /\ NumBufs \in Nat
    BY <1>1, Constants
  <2> QED BY <2>2, <2>3
<1> QED BY <1>7, <1>10, <1>11, <1>12, <1>13 DEF RefsInv

(* A command moves buffers within the channel, but for those it releases.  *)
LEMMA CommandMoves ==
  ASSUME TypeInv, PlaceInv, StopInv, ChannelCommand
  PROVE  LET b == process_stream_buf(ch, Head(cmds))
         IN  /\ b \in Channels /\ b.released \in SUBSET (Streams \X Frames)
             /\ BufDone(b.released)
             /\ cmds' = Tail(cmds) /\ cmds' \in Seq(Commands)
             /\ ch' \in Channels /\ ch'.q = b.q /\ ch'.released = {} /\ ch'.dispatched = <<>>
             /\ cbs' = cbs \o b.dispatched /\ cbs' \in Seq(Slots)
             /\ Head(cmds).type = "flush" => ch'.q = <<>>
             /\ \A s \in Streams, f \in Frames :
                  InChannel(s, f) = InChannel(s, f)' + Bit(<<s, f>> \in b.released)
<1> DEFINE c == Head(cmds)
           b == process_stream_buf(ch, c)
<1>1. /\ cmds # <<>> /\ cmds' = Tail(cmds)
      /\ ch' = [b EXCEPT !.released = {}, !.dispatched = <<>>]
      /\ BufDone(b.released) /\ cbs' = cbs \o b.dispatched
  BY DEF ChannelCommand
<1>2. /\ cmds \in Seq(Commands) /\ cbs \in Seq(Slots) /\ ch \in Channels
      /\ ch.released = {} /\ ch.dispatched = <<>>
  BY DEF TypeInv, StopInv
<1>3. c \in Commands /\ cmds' \in Seq(Commands)
  BY <1>1, <1>2, HeadTailProperties
<1>4. /\ b \in Channels
      /\ c.type = "data" => Gains(ch, b, c)
      /\ c.type # "data" => Keeps(ch, b)
      /\ c.type = "flush" => b.q = <<>>
  BY <1>2, <1>3, ProcessKeeps
<1>5. ASSUME NEW s \in Streams, NEW f \in Frames
      PROVE  Hits(cmds, DataOf(s, f)) = Bit(c \in DataOf(s, f)) + Hits(cmds', DataOf(s, f))
  BY <1>1, <1>2, HitsTail
<1> HIDE DEF b, c
<1>6. b \in Fields /\ b.released \in SUBSET (Streams \X Frames) /\ b.dispatched \in Seq(Slots)
      /\ b.pending_retro_cnt <= b.pending_cnt /\ b.q \in Seq(Nodes)
  BY <1>4, FieldTypes
<1>7. /\ ch' \in Channels /\ ch'.q = b.q /\ ch'.released = {} /\ ch'.dispatched = <<>>
  <2>1. <<>> \in Seq(Slots)
    OBVIOUS
  <2> QED BY <1>1, <1>6, <2>1 DEF Channels, Fields
<1>8. cbs' \in Seq(Slots)
  BY <1>1, <1>2, <1>6, ConcatProperties
<1>9. ASSUME NEW s \in Streams, NEW f \in Frames
      PROVE  Account(ch, s, f) = Hits(ch.q, NodeOf(s, f)) /\ Hits(ch.q, NodeOf(s, f)) \in Nat
  <2>1. Account(ch, s, f) = Hits(ch.q, NodeOf(s, f)) + Bit(FALSE) + 0
    BY <1>2, HitsNone DEF Account, Bit
  <2>2. Hits(ch.q, NodeOf(s, f)) \in Nat
    BY <1>2, AccountType
  <2> QED BY <2>1, <2>2 DEF Bit
<1>10. Single(ch)
  <2> SUFFICES ASSUME NEW s \in Streams, NEW f \in Frames PROVE Account(ch, s, f) <= 1
    BY DEF Single
  <2>1. InChannel(s, f) <= 1
    BY DEF PlaceInv
  <2>2. /\ Hits(cmds, DataOf(s, f)) \in Nat /\ Hits(cbs, SlotsOf(s, f)) \in Nat
    BY CountType
  <2> QED BY <1>9, <2>1, <2>2 DEF InChannel
<1>11. ASSUME NEW s \in Streams, NEW f \in Frames
       PROVE  Account(b, s, f) = Account(ch, s, f) + Bit(c \in DataOf(s, f))
  <2>0. Account(ch, s, f) \in Nat
    BY <1>9
  <2>1. CASE c.type = "data"
    <3>1. c \in Data /\ c.s \in Streams /\ c.f \in Frames
      BY <1>3, <2>1, CommandTypes, DataTypes
    <3>2. c \in DataOf(c.s, c.f)
      BY <1>3, <2>1 DEF DataOf
    <3>3. Account(ch, c.s, c.f) = 0
      <4>1. InChannel(c.s, c.f) <= 1
        BY <3>1 DEF PlaceInv
      <4>2. Hits(cmds, DataOf(c.s, c.f)) = 1 + Hits(cmds', DataOf(c.s, c.f))
        BY <1>5, <3>1, <3>2 DEF Bit
      <4>3. /\ Hits(cmds', DataOf(c.s, c.f)) \in Nat /\ Hits(cbs, SlotsOf(c.s, c.f)) \in Nat
        <5>1. Hits(cmds', DataOf(c.s, c.f)) \in Nat
          BY <1>3, HitsType
        <5>2. Hits(cbs, SlotsOf(c.s, c.f)) \in Nat
          BY <1>2, HitsType
        <5> QED BY <5>1, <5>2
      <4>4. Account(ch, c.s, c.f) = Hits(ch.q, NodeOf(c.s, c.f)) /\ Hits(ch.q, NodeOf(c.s, c.f)) \in Nat
        BY <1>9, <3>1
      <4>5. InChannel(c.s, c.f) = Hits(cmds, DataOf(c.s, c.f)) + Hits(ch.q, NodeOf(c.s, c.f))
                                  + Hits(cbs, SlotsOf(c.s, c.f))
        BY DEF InChannel
      <4> QED BY <4>1, <4>2, <4>3, <4>4, <4>5
    <3>4. Account(b, s, f) = Account(ch, s, f) + Bit(s = c.s /\ f = c.f)
      BY <1>4, <1>10, <2>1, <3>3 DEF Gains
    <3>5. c \in DataOf(s, f) <=> s = c.s /\ f = c.f
      BY <1>3, <2>1 DEF DataOf
    <3>6. Bit(s = c.s /\ f = c.f) = Bit(c \in DataOf(s, f))
      BY <3>5 DEF Bit
    <3> QED BY <3>4, <3>6
  <2>2. CASE c.type # "data"
    <3>1. Account(b, s, f) = Account(ch, s, f)
      BY <1>4, <1>10, <2>2 DEF Keeps
    <3>2. Bit(c \in DataOf(s, f)) = 0
      BY <2>2 DEF DataOf, Bit
    <3> QED BY <2>0, <3>1, <3>2
  <2> QED BY <2>1, <2>2
<1>12. ASSUME NEW s \in Streams, NEW f \in Frames
       PROVE  InChannel(s, f) = InChannel(s, f)' + Bit(<<s, f>> \in b.released)
  <2>1. Hits(cbs', SlotsOf(s, f)) = Hits(cbs, SlotsOf(s, f)) + Hits(b.dispatched, SlotsOf(s, f))
    BY <1>1, <1>2, <1>6, HitsConcat
  <2>2. Hits(cmds, DataOf(s, f)) = Bit(c \in DataOf(s, f)) + Hits(cmds', DataOf(s, f))
    BY <1>5
  <2>3. Hits(b.q, NodeOf(s, f)) + Bit(<<s, f>> \in b.released) + Hits(b.dispatched, SlotsOf(s, f))
          = Hits(ch.q, NodeOf(s, f)) + Bit(c \in DataOf(s, f))
    BY <1>9, <1>11 DEF Account
  <2>4. /\ Hits(cmds', DataOf(s, f)) \in Nat /\ Hits(cbs, SlotsOf(s, f)) \in Nat
        /\ Hits(ch.q, NodeOf(s, f)) \in Nat
    BY <1>2, <1>3, CountType, HitsType
  <2>5. /\ Hits(b.q, NodeOf(s, f)) \in Nat /\ Hits(b.dispatched, SlotsOf(s, f)) \in Nat
        /\ Bit(<<s, f>> \in b.released) \in Nat /\ Bit(c \in DataOf(s, f)) \in Nat
    BY <1>4, AccountType DEF Bit
  <2>6. /\ InChannel(s, f) = Hits(cmds, DataOf(s, f)) + Hits(ch.q, NodeOf(s, f)) + Hits(cbs, SlotsOf(s, f))
        /\ InChannel(s, f)' = Hits(cmds', DataOf(s, f)) + Hits(b.q, NodeOf(s, f)) + Hits(cbs', SlotsOf(s, f))
    BY <1>7 DEF InChannel
  <2> QED BY <2>1, <2>2, <2>3, <2>4, <2>5, <2>6
<1> QED BY <1>1, <1>3, <1>4, <1>6, <1>7, <1>8, <1>12 DEF b, c

LEMMA RefsCommand ==
  ASSUME RefsInv, ChannelCommand
  PROVE  RefsInv'
<1> DEFINE c == Head(cmds)
           b == process_stream_buf(ch, c)
           R == b.released
<1>1. TypeInv /\ PlaceInv /\ StopInv /\ CountInv /\ KernelInv
  BY DEF RefsInv
<1>2. /\ R \in SUBSET (Streams \X Frames) /\ BufDone(R)
      /\ cmds' = Tail(cmds) /\ cmds' \in Seq(Commands)
      /\ ch' \in Channels /\ ch'.released = {} /\ ch'.dispatched = <<>>
      /\ cbs' \in Seq(Slots)
      /\ c.type = "flush" => ch'.q = <<>>
  BY <1>1, CommandMoves
<1>3. ASSUME NEW s \in Streams, NEW f \in Frames
      PROVE  InChannel(s, f) = InChannel(s, f)' + Bit(<<s, f>> \in R)
  BY <1>1, CommandMoves
<1>4. /\ cmds # <<>> /\ awaits' = NowAwaits(c)
      /\ UNCHANGED <<use, state, on, linked, last, scmds, scb, held>>
  BY DEF ChannelCommand, hal
<1> HIDE DEF R, b, c
<1>5. ASSUME NEW s \in Streams, NEW f \in Frames
      PROVE  /\ InChannel(s, f)' \in Nat /\ InChannel(s, f) \in Nat
             /\ InChannel(s, f)' <= InChannel(s, f)
             /\ Bit(<<s, f>> \in R) \in Nat /\ Bit(<<s, f>> \in R) <= InChannel(s, f)
  <2>1. InChannel(s, f) \in Nat
    BY <1>1, CountType
  <2>2. InChannel(s, f)' \in Nat
    <3>1. /\ Hits(cmds', DataOf(s, f)) \in Nat /\ Hits(ch'.q, NodeOf(s, f)) \in Nat
          /\ Hits(cbs', SlotsOf(s, f)) \in Nat
      BY <1>2, AccountType, HitsType
    <3> QED BY <3>1 DEF InChannel
  <2>3. Bit(<<s, f>> \in R) \in Nat
    BY DEF Bit
  <2> QED BY <1>3, <2>1, <2>2, <2>3
<1>6. ASSUME NEW s \in Streams, NEW f \in Frames
      PROVE  Count(s, f)' = Count(s, f) - Bit(<<s, f>> \in R)
  <2>1. Aside(s, f)' = Aside(s, f) /\ Aside(s, f) \in Nat /\ held'[s][f] = held[s][f]
        /\ held[s][f] \in Nat
    BY <1>1, <1>4, CountType DEF Aside
  <2>2. /\ Count(s, f)' = InChannel(s, f)' + held'[s][f] + Aside(s, f)'
        /\ Count(s, f) = InChannel(s, f) + held[s][f] + Aside(s, f)
    BY DEF Count
  <2> QED BY <1>3, <1>5, <2>1, <2>2
<1>7. on \subseteq Streams /\ on' = on
  BY <1>1, <1>4 DEF TypeInv
<1>8. ASSUME NEW s \in on, NEW f \in Frames, <<s, f>> \in R PROVE Count(s, f) >= 1
  <2>1. InChannel(s, f) \in Nat /\ Aside(s, f) \in Nat /\ held[s][f] \in Nat
    BY <1>1, <1>7, CountType
  <2>2. InChannel(s, f) >= 1
    BY <1>5, <1>7, <1>8 DEF Bit
  <2> QED BY <2>1, <2>2 DEF Count
<1>9. /\ kernel' \in [Streams -> Int] /\ refcnt' \in [Streams -> [Frames -> Int]]
      /\ CountInv' /\ KernelInv'
  BY <1>1, <1>2, <1>6, <1>7, <1>8, HeldKeepsPositive
<1>10. awaits' \in BOOLEAN
  BY <1>1, <1>4 DEF TypeInv, NowAwaits
<1>11. TypeInv'
  BY <1>1, <1>2, <1>4, <1>9, <1>10 DEF TypeInv
<1>12. PlaceInv'
  <2> SUFFICES ASSUME NEW s \in Streams, NEW f \in Frames
               PROVE  /\ InChannel(s, f)' <= 1
                      /\ f > last[s] => /\ InChannel(s, f)' = 0 /\ held[s][f] = 0
                                        /\ s = Meta => scb # f /\ Hits(scmds, {f}) = 0
    BY <1>4 DEF PlaceInv
  <2>1. InChannel(s, f)' \in Nat /\ InChannel(s, f) \in Nat /\ InChannel(s, f)' <= InChannel(s, f)
    BY <1>5
  <2>2. /\ InChannel(s, f) <= 1
        /\ f > last[s] => /\ InChannel(s, f) = 0 /\ held[s][f] = 0
                          /\ s = Meta => scb # f /\ Hits(scmds, {f}) = 0
    BY <1>1 DEF PlaceInv
  <2> QED BY <2>1, <2>2
<1>13. StopInv'
  <2>1. /\ cmds \in Seq(Commands) /\ Len(cmds) \in Nat /\ Len(cmds) # 0
        /\ Len(cmds') = Len(cmds) - 1 /\ \A i \in 1 .. Len(cmds') : cmds'[i] = cmds[i + 1]
        /\ c = cmds[1]
    <3>1. cmds \in Seq(Commands) /\ Len(cmds) \in Nat
      BY <1>1, LenProperties DEF TypeInv
    <3>2. /\ Len(Tail(cmds)) = Len(cmds) - 1
          /\ \A i \in 1 .. Len(Tail(cmds)) : Tail(cmds)[i] = cmds[i + 1]
      BY <1>4, <3>1, HeadTailProperties
    <3>3. c = cmds[1] /\ Len(cmds) # 0
      BY <1>4, <3>1, EmptySeq DEF c
    <3> QED BY <1>2, <3>1, <3>2, <3>3
  <2>2. state # "stopped"
    BY <1>1, <1>4 DEF StopInv
  <2>3. use = "live" => \A i \in 1 .. Len(cmds') : cmds'[i].type \in {"data", "flush"}
    <3>1. \A i \in 1 .. Len(cmds') : i + 1 \in 1 .. Len(cmds)
      BY <2>1
    <3> QED BY <1>1, <2>1, <3>1 DEF StopInv
  <2>4. ASSUME use = "live", ~linked
        PROVE  IF cmds' = <<>> THEN ch'.q = <<>> ELSE cmds'[Len(cmds')].type = "flush"
    <3>1. cmds[Len(cmds)].type = "flush"
      BY <1>1, <1>4, <2>4 DEF StopInv
    <3>2. CASE cmds' = <<>>
      <4>1. Len(cmds) = 1
        BY <2>1, <3>2
      <4> QED BY <1>2, <2>1, <3>1, <3>2, <4>1
    <3>3. CASE cmds' # <<>>
      <4>1. Len(cmds') # 0
        BY <1>2, <3>3, EmptySeq
      <4>2. Len(cmds') \in 1 .. Len(cmds') /\ Len(cmds') + 1 = Len(cmds)
        BY <2>1, <4>1
      <4> QED BY <2>1, <3>1, <3>3, <4>2
    <3> QED BY <3>2, <3>3
  <2> QED BY <1>1, <1>2, <1>4, <2>2, <2>3, <2>4 DEF StopInv
<1> QED BY <1>9, <1>11, <1>12, <1>13 DEF RefsInv

LEMMA RefsNext == RefsInv /\ [Next]_vars => RefsInv'
<1> SUFFICES ASSUME RefsInv, [Next]_vars PROVE RefsInv'
  OBVIOUS
<1>1. ASSUME NEW s \in Streams, Deliver(s) PROVE RefsInv'
  BY <1>1, RefsDeliver
<1>2. ASSUME NEW s \in Streams, Return(s) PROVE RefsInv'
  BY <1>2, RefsReturn
<1>3. ASSUME NEW s \in Streams, StopStream(s) PROVE RefsInv'
  BY <1>3, RefsStopStream
<1>4. CASE ChannelCommand
  BY <1>4, RefsCommand
<1>5. CASE SuperBufCb
  BY <1>5, RefsSuperBufCb
<1>6. CASE AppData
  BY <1>6, RefsAppData
<1>7. CASE AppDataDone
  BY <1>7, RefsAppDataDone
<1>8. CASE Request \/ Cancel \/ Flush
  BY <1>8, RefsRequests
<1>9. CASE Stop \/ UNCHANGED vars
  BY <1>9, RefsIdle
<1>10. CASE Unlink
  BY <1>10, RefsUnlink
<1>11. CASE Stopped
  BY <1>11, RefsStopped
<1>12. CASE Restart
  BY <1>12, RefsRestart
<1> QED BY <1>1, <1>2, <1>3, <1>4, <1>5, <1>6, <1>7, <1>8, <1>9, <1>10, <1>11, <1>12 DEF Next

LEMMA RefsAlways == Spec => []RefsInv
BY RefsInit, RefsNext, PTL DEF Spec

LEMMA HoldersIs ==
  ASSUME TypeInv, NEW s \in Streams, NEW f \in Frames
  PROVE  Holders(s, f) = Count(s, f)
<1>1. /\ cmds \in Seq(Commands) /\ ch.q \in Seq(Nodes) /\ cbs \in Seq(Slots)
      /\ DOMAIN cmds = 1 .. Len(cmds) /\ DOMAIN ch.q = 1 .. Len(ch.q) /\ DOMAIN cbs = 1 .. Len(cbs)
      /\ \A i \in DOMAIN cmds : cmds[i] \in Commands
      /\ \A i \in DOMAIN ch.q : ch.q[i] \in Nodes
      /\ \A i \in DOMAIN cbs : cbs[i] \in Slots
  <2>1. /\ cmds \in Seq(Commands) /\ ch.q \in Seq(Nodes) /\ cbs \in Seq(Slots)
    BY FieldTypes DEF TypeInv
  <2> QED BY <2>1, LenProperties, ElementOfSeq
<1>2. {i \in DOMAIN cmds : cmds[i].type = "data" /\ cmds[i].s = s /\ cmds[i].f = f}
        = Where(cmds, DataOf(s, f))
  BY <1>1 DEF Where, DataOf
<1>3. {i \in DOMAIN ch.q : ch.q[i].slot[s] = f} = Where(ch.q, NodeOf(s, f))
  BY <1>1 DEF Where, NodeOf
<1>4. {i \in DOMAIN cbs : cbs[i][s] = f} = Where(cbs, SlotsOf(s, f))
  BY <1>1 DEF Where, SlotsOf
<1>5. {i \in DOMAIN scmds : scmds[i] = f} = Where(scmds, {f})
  BY DEF Where
<1>6. Bit(scb = f) = IF scb = f THEN 1 ELSE 0
  BY DEF Bit
<1> QED BY <1>2, <1>3, <1>4, <1>5, <1>6 DEF Holders, Count, InChannel, Aside, Hits

(* RefsMatchHolders: the reference count of a buffer (buf_refcnt, decremented
   in mm_stream_buf_done by the HAL's thread, the channel's and the metadata
   stream's) is the number of its holders, and the kernel has the others.  *)
THEOREM BuffersAreAccountedFor == Spec => []RefsMatchHolders
<1>1. RefsInv => RefsMatchHolders
  <2> SUFFICES ASSUME RefsInv, NEW s \in on
               PROVE  /\ \A f \in Frames : refcnt[s][f] = Holders(s, f)
                      /\ kernel[s] + Cardinality({f \in Frames : refcnt[s][f] > 0}) = NumBufs
    BY DEF RefsMatchHolders
  <2>1. TypeInv /\ CountInv /\ KernelInv /\ s \in Streams
    BY DEF RefsInv, TypeInv
  <2>2. \A f \in Frames : refcnt[s][f] = Holders(s, f)
    BY <2>1, HoldersIs DEF CountInv
  <2> QED BY <2>1, <2>2 DEF KernelInv
<1> QED BY <1>1, RefsAlways, PTL

(* Metadata lent to a live snapshot is all in the kernel when its channel has
   stopped and nobody holds it: what Unlink queues last (the flush of
   mm_channel_stop, mm_camera_channel.c:1475) has released the rest.       *)
LEMMA LentComesBack == RefsInv => LentMetadataComesBack
<1> SUFFICES ASSUME RefsInv, state = "stopped", use = "live", scmds = <<>>, scb = 0,
                    \A f \in Frames : held[Meta][f] = 0
             PROVE  kernel[Meta] = NumBufs
  BY DEF LentMetadataComesBack
<1>1. TypeInv /\ PlaceInv /\ StopInv /\ CountInv /\ KernelInv /\ Meta \in Streams
  BY Constants DEF RefsInv
<1>2. Meta \in on /\ cmds = <<>> /\ cbs = <<>> /\ ch.q = <<>>
  BY <1>1 DEF StopInv
<1>3. ASSUME NEW f \in Frames PROVE refcnt[Meta][f] = 0
  <2>1. InChannel(Meta, f) = 0
    BY <1>2, HitsNone DEF InChannel
  <2>2. Aside(Meta, f) = 0
    BY HitsNone, Constants DEF Aside, Bit
  <2> QED BY <1>1, <1>2, <2>1, <2>2 DEF CountInv, Count
<1>4. {f \in Frames : refcnt[Meta][f] > 0} = {}
  BY <1>3
<1>5. kernel[Meta] \in Int /\ NumBufs \in Nat
  BY <1>1, Constants DEF TypeInv
<1> QED BY <1>1, <1>2, <1>4, <1>5, FS_EmptySet DEF KernelInv

-----------------------------------------------------------------------------
(* The shape of the queue.                                                 *)

LEMMA SplitIs ==
  ASSUME NEW q \in Seq(Nodes), NEW k \in Nat, Split(q, k)
  PROVE  /\ k <= Len(q) /\ Matched(q) = 1 .. k /\ Unmatched(q) = k + 1 .. Len(q)
         /\ Ready(q) = k
         /\ Cardinality(Matched(q)) = k /\ Cardinality(Unmatched(q)) = Len(q) - k
<1>1. Len(q) \in Nat /\ DOMAIN q = 1 .. Len(q)
  BY LenProperties
<1>0. Len(q) \in Nat /\ k <= Len(q)
  BY <1>1 DEF Split
<1>2. Matched(q) = 1 .. k
  BY <1>1, <1>0 DEF Split, Matched
<1>3. Unmatched(q) = k + 1 .. Len(q)
  BY <1>0, <1>1, <1>2 DEF Unmatched
<1>4. Cardinality(1 .. k) = k
  BY FS_Interval
<1>5. Cardinality(k + 1 .. Len(q)) = Len(q) - k
  <2>1. k + 1 \in Int /\ Len(q) \in Int
    BY <1>0
  <2>2. Cardinality(k + 1 .. Len(q)) = IF k + 1 > Len(q) THEN 0 ELSE Len(q) - (k + 1) + 1
    BY <2>1, FS_Interval
  <2>3. CASE k + 1 > Len(q)
    <3>1. Len(q) - k = 0
      BY <1>0, <2>3
    <3> QED BY <2>2, <2>3, <3>1
  <2>4. CASE ~(k + 1 > Len(q))
    <3>1. Len(q) - (k + 1) + 1 = Len(q) - k
      BY <1>0
    <3> QED BY <2>2, <2>4, <3>1
  <2> QED BY <2>3, <2>4
<1>6. Ready(q) = k
  <2>1. DOMAIN q \ Matched(q) = k + 1 .. Len(q)
    BY <1>1, <1>2
  <2>2. CASE k + 1 .. Len(q) = {}
    <3>1. ~(k + 1 \in k + 1 .. Len(q))
      BY <2>2
    <3>2. k = Len(q)
      BY <1>0, <3>1
    <3>3. Ready(q) = IF DOMAIN q \ Matched(q) = {} THEN Len(q) ELSE Lowest(DOMAIN q \ Matched(q)) - 1
      BY DEF Ready
    <3> QED BY <2>1, <2>2, <3>2, <3>3
  <2>3. CASE k + 1 .. Len(q) # {}
    <3>1. k + 1 .. Len(q) \in SUBSET Nat /\ k + 1 \in k + 1 .. Len(q)
      <4>1. PICK x : x \in k + 1 .. Len(q)
        BY <2>3
      <4> QED BY <1>0, <4>1
    <3>2. /\ Lowest(k + 1 .. Len(q)) \in k + 1 .. Len(q)
          /\ Lowest(k + 1 .. Len(q)) <= k + 1
      BY <2>3, <3>1, LowestIs
    <3>3. Lowest(k + 1 .. Len(q)) = k + 1
      BY <1>0, <3>2
    <3>4. Ready(q) = IF DOMAIN q \ Matched(q) = {} THEN Len(q) ELSE Lowest(DOMAIN q \ Matched(q)) - 1
      BY DEF Ready
    <3>5. ~(DOMAIN q \ Matched(q) = {})
      BY <2>1, <2>3
    <3>6. Ready(q) = Lowest(DOMAIN q \ Matched(q)) - 1
      BY <3>4, <3>5
    <3>7. Lowest(DOMAIN q \ Matched(q)) = k + 1
      BY <2>1, <3>3
    <3> QED BY <3>6, <3>7
  <2> QED BY <2>2, <2>3
<1> QED BY <1>0, <1>2, <1>3, <1>4, <1>5, <1>6

LEMMA WithoutIs ==
  ASSUME NEW q \in Seq(Nodes), NEW a \in 1 .. Len(q) + 1, NEW e \in a - 1 .. Len(q)
  PROVE  /\ Without(q, a, e) \in Seq(Nodes)
         /\ Len(Without(q, a, e)) = Len(q) - (e - a + 1)
         /\ \A i \in 1 .. Len(Without(q, a, e)) :
              /\ i < a => Without(q, a, e)[i] = q[i]
              /\ ~(i < a) => Without(q, a, e)[i] = q[i + (e - a + 1)]
<1> DEFINE x == SubSeq(q, 1, a - 1)
           z == SubSeq(q, e + 1, Len(q))
           w == Without(q, a, e)
<1>1. Len(q) \in Nat /\ \A i \in 1 .. Len(q) : q[i] \in Nodes
  BY LenProperties, ElementOfSeq
<1>2. /\ x \in Seq(Nodes) /\ Len(x) = a - 1
      /\ \A i \in 1 .. a - 1 : x[i] = q[i]
  <2>1. 1 \in Int /\ a - 1 \in Int /\ \A i \in 1 .. a - 1 : q[i] \in Nodes
    BY <1>1
  <2>2. /\ x \in Seq(Nodes)
        /\ Len(x) = IF 1 <= a - 1 THEN (a - 1) - 1 + 1 ELSE 0
        /\ \A i \in 1 .. (a - 1) - 1 + 1 : x[i] = q[1 + i - 1]
    BY <2>1, SubSeqProperties
  <2>3. (a - 1) - 1 + 1 = a - 1 /\ \A i \in 1 .. a - 1 : 1 + i - 1 = i
    BY <1>1
  <2> HIDE DEF x
  <2> QED BY <1>1, <2>2, <2>3
<1>3. /\ z \in Seq(Nodes) /\ Len(z) = Len(q) - e
      /\ \A i \in 1 .. Len(q) - e : z[i] = q[e + i]
  <2>1. e + 1 \in Int /\ Len(q) \in Int /\ \A i \in e + 1 .. Len(q) : q[i] \in Nodes
    BY <1>1
  <2>2. /\ z \in Seq(Nodes)
        /\ Len(z) = IF e + 1 <= Len(q) THEN Len(q) - (e + 1) + 1 ELSE 0
        /\ \A i \in 1 .. Len(q) - (e + 1) + 1 : z[i] = q[(e + 1) + i - 1]
    BY <2>1, SubSeqProperties
  <2>3. Len(q) - (e + 1) + 1 = Len(q) - e /\ \A i \in 1 .. Len(q) - e : (e + 1) + i - 1 = e + i
    BY <1>1
  <2> HIDE DEF z
  <2>4. Len(z) = Len(q) - e
    BY <1>1, <2>2
  <2> QED BY <2>2, <2>3, <2>4
<1>4. w = x \o z
  BY DEF Without
<1> HIDE DEF x, z, w
<1>5. /\ w \in Seq(Nodes) /\ Len(w) = Len(x) + Len(z)
      /\ \A i \in 1 .. Len(x) + Len(z) : w[i] = IF i <= Len(x) THEN x[i] ELSE z[i - Len(x)]
  BY <1>2, <1>3, <1>4, ConcatProperties
<1>6. Len(w) = Len(q) - (e - a + 1)
  BY <1>1, <1>2, <1>3, <1>5
<1>7. ASSUME NEW i \in 1 .. Len(w) PROVE (i < a => w[i] = q[i]) /\ (~(i < a) => w[i] = q[i + (e - a + 1)])
  <2>1. w[i] = IF i <= a - 1 THEN x[i] ELSE z[i - (a - 1)]
    BY <1>2, <1>5
  <2>2. CASE i < a
    <3>1. i <= a - 1 /\ i \in 1 .. a - 1
      BY <1>1, <1>5, <2>2
    <3> QED BY <1>2, <2>1, <2>2, <3>1
  <2>3. CASE ~(i < a)
    <3>1. ~(i <= a - 1) /\ i - (a - 1) \in 1 .. Len(q) - e /\ e + (i - (a - 1)) = i + (e - a + 1)
      BY <1>1, <1>6, <2>3
    <3> QED BY <1>3, <2>1, <2>3, <3>1
  <2> QED BY <2>2, <2>3
<1> QED BY <1>5, <1>6, <1>7 DEF w

LEMMA InsertIs ==
  ASSUME NEW q \in Seq(Nodes), NEW p \in 1 .. Len(q) + 1, NEW n \in Nodes
  PROVE  /\ InsertAt(q, p, n) \in Seq(Nodes) /\ Len(InsertAt(q, p, n)) = Len(q) + 1
         /\ InsertAt(q, p, n)[p] = n
         /\ \A i \in 1 .. Len(q) + 1 :
              /\ i < p => InsertAt(q, p, n)[i] = q[i]
              /\ i > p => InsertAt(q, p, n)[i] = q[i - 1]
<1> DEFINE x == SubSeq(q, 1, p - 1)
           z == SubSeq(q, p, Len(q))
           w == InsertAt(q, p, n)
           y == x \o <<n>>
<1>1. Len(q) \in Nat /\ \A i \in 1 .. Len(q) : q[i] \in Nodes
  BY LenProperties, ElementOfSeq
<1>2. /\ x \in Seq(Nodes) /\ Len(x) = p - 1
      /\ \A i \in 1 .. p - 1 : x[i] = q[i]
  <2>1. 1 \in Int /\ p - 1 \in Int /\ \A i \in 1 .. p - 1 : q[i] \in Nodes
    BY <1>1
  <2>2. /\ x \in Seq(Nodes)
        /\ Len(x) = IF 1 <= p - 1 THEN (p - 1) - 1 + 1 ELSE 0
        /\ \A i \in 1 .. (p - 1) - 1 + 1 : x[i] = q[1 + i - 1]
    BY <2>1, SubSeqProperties
  <2>3. (p - 1) - 1 + 1 = p - 1 /\ \A i \in 1 .. p - 1 : 1 + i - 1 = i
    BY <1>1
  <2> HIDE DEF x
  <2> QED BY <1>1, <2>2, <2>3
<1>3. /\ z \in Seq(Nodes) /\ Len(z) = Len(q) - p + 1
      /\ \A i \in 1 .. Len(q) - p + 1 : z[i] = q[p + i - 1]
  <2>1. p \in Int /\ Len(q) \in Int /\ \A i \in p .. Len(q) : q[i] \in Nodes
    BY <1>1
  <2>2. /\ z \in Seq(Nodes)
        /\ Len(z) = IF p <= Len(q) THEN Len(q) - p + 1 ELSE 0
        /\ \A i \in 1 .. Len(q) - p + 1 : z[i] = q[p + i - 1]
    BY <2>1, SubSeqProperties
  <2> HIDE DEF z
  <2> QED BY <1>1, <2>2
<1>4. w = y \o z
  BY DEF InsertAt
<1> HIDE DEF x, z, w
<1>5. /\ y \in Seq(Nodes) /\ Len(y) = p /\ y[p] = n /\ \A i \in 1 .. p - 1 : y[i] = q[i]
  <2>1. <<n>> \in Seq(Nodes) /\ Len(<<n>>) = 1 /\ <<n>>[1] = n
    OBVIOUS
  <2>0. /\ y \in Seq(Nodes) /\ Len(y) = Len(x) + Len(<<n>>)
        /\ \A i \in 1 .. Len(x) + Len(<<n>>) : y[i] = IF i <= Len(x) THEN x[i] ELSE <<n>>[i - Len(x)]
    <3>1. x \in Seq(Nodes) /\ <<n>> \in Seq(Nodes)
      BY <1>2, <2>1
    <3> QED BY <3>1, ConcatProperties
  <2>2. /\ y \in Seq(Nodes) /\ Len(y) = (p - 1) + 1
        /\ \A i \in 1 .. (p - 1) + 1 : y[i] = IF i <= p - 1 THEN x[i] ELSE <<n>>[i - (p - 1)]
    BY <1>2, <2>0, <2>1
  <2>3. (p - 1) + 1 = p /\ ~(p <= p - 1) /\ p - (p - 1) = 1 /\ p \in 1 .. (p - 1) + 1
    BY <1>1
  <2> HIDE DEF y
  <2>4. y[p] = n
    BY <2>1, <2>2, <2>3
  <2>5. ASSUME NEW i \in 1 .. p - 1 PROVE y[i] = q[i]
    <3>1. i <= p - 1 /\ i \in 1 .. (p - 1) + 1
      BY <1>1
    <3> QED BY <1>2, <2>2, <3>1
  <2> QED BY <2>2, <2>3, <2>4, <2>5
<1> HIDE DEF y
<1>6. /\ w \in Seq(Nodes) /\ Len(w) = Len(q) + 1
      /\ \A i \in 1 .. Len(q) + 1 : w[i] = IF i <= p THEN y[i] ELSE z[i - p]
  <2>1. /\ w \in Seq(Nodes) /\ Len(w) = p + (Len(q) - p + 1)
        /\ \A i \in 1 .. p + (Len(q) - p + 1) : w[i] = IF i <= p THEN y[i] ELSE z[i - p]
    <3>1. /\ w \in Seq(Nodes) /\ Len(w) = Len(y) + Len(z)
          /\ \A i \in 1 .. Len(y) + Len(z) : w[i] = IF i <= Len(y) THEN y[i] ELSE z[i - Len(y)]
      BY <1>3, <1>4, <1>5, ConcatProperties
    <3>2. Len(y) = p /\ Len(z) = Len(q) - p + 1
      BY <1>3, <1>5
    <3> QED BY <3>1, <3>2
  <2>2. p + (Len(q) - p + 1) = Len(q) + 1
    BY <1>1
  <2> QED BY <2>1, <2>2
<1>7. w[p] = n
  BY <1>1, <1>5, <1>6
<1>8. ASSUME NEW i \in 1 .. Len(q) + 1 PROVE (i < p => w[i] = q[i]) /\ (i > p => w[i] = q[i - 1])
  <2>1. CASE i < p
    <3>1. i <= p /\ i \in 1 .. p - 1 /\ ~(i > p)
      BY <1>1, <2>1
    <3> QED BY <1>5, <1>6, <3>1
  <2>2. CASE i > p
    <3>1. ~(i <= p) /\ i - p \in 1 .. Len(q) - p + 1 /\ p + (i - p) - 1 = i - 1 /\ ~(i < p)
      BY <1>1, <2>2
    <3> QED BY <1>3, <1>6, <3>1
  <2> QED BY <2>1, <2>2
<1> QED BY <1>6, <1>7, <1>8 DEF w

(* A queue of nodes of a good one, in their order, of which k2 are matched. *)
LEMMA Thinned ==
  ASSUME NEW q \in Seq(Nodes), NEW k \in Nat, GoodNodes(q, k),
         NEW w \in Seq(Nodes), NEW k2 \in 0 .. Len(w),
         NEW src \in [1 .. Len(w) -> 1 .. Len(q)],
         \A i \in 1 .. Len(w) : w[i] = q[src[i]],
         \A i, j \in 1 .. Len(w) : i < j => src[i] < src[j],
         \A i \in 1 .. Len(w) : src[i] <= k <=> i <= k2,
         Len(w) - k2 <= MaxUnmatched + 1
  PROVE  GoodNodes(w, k2)
<1>1. Split(q, k) /\ Sorted(q) /\ \A i \in 1 .. Len(q) : Shaped(q[i])
  BY DEF GoodNodes
<1>2. Split(w, k2)
  BY <1>1 DEF Split
<1>3. \A i \in 1 .. Len(w) : Shaped(w[i])
  BY <1>1
<1>4. Sorted(w)
  <2> SUFFICES ASSUME NEW i \in 1 .. Len(w), NEW j \in 1 .. Len(w), i < j, ~w[i].matched \/ ~Low
               PROVE  w[i].frame_idx < w[j].frame_idx
    BY DEF Sorted
  <2>1. /\ src[i] \in 1 .. Len(q) /\ src[j] \in 1 .. Len(q) /\ src[i] < src[j]
        /\ w[i] = q[src[i]] /\ w[j] = q[src[j]]
    OBVIOUS
  <2> QED BY <1>1, <2>1 DEF Sorted
<1> QED BY <1>2, <1>3, <1>4 DEF GoodNodes

(* The same with a node of its own at p.                                   *)
LEMMA Placed ==
  ASSUME NEW q \in Seq(Nodes), NEW k \in Nat, GoodNodes(q, k),
         NEW w \in Seq(Nodes), NEW k2 \in 0 .. Len(w), NEW p \in 1 .. Len(w),
         NEW src \in [1 .. Len(w) -> Int],
         \A i \in 1 .. Len(w) : i # p => src[i] \in 1 .. Len(q) /\ w[i] = q[src[i]],
         \A i, j \in 1 .. Len(w) : i < j /\ i # p /\ j # p => src[i] < src[j],
         \A i \in 1 .. Len(w) : i # p => (src[i] <= k <=> i <= k2),
         Len(w) - k2 <= MaxUnmatched + 1,
         Shaped(w[p]), w[p].matched <=> p <= k2,
         \A i \in 1 .. Len(w) : i < p /\ (~w[i].matched \/ ~Low) => w[i].frame_idx < w[p].frame_idx,
         \A i \in 1 .. Len(w) : i > p /\ (~w[p].matched \/ ~Low) => w[p].frame_idx < w[i].frame_idx
  PROVE  GoodNodes(w, k2)
<1>1. Split(q, k) /\ Sorted(q) /\ \A i \in 1 .. Len(q) : Shaped(q[i])
  BY DEF GoodNodes
<1>2. Split(w, k2)
  BY <1>1 DEF Split
<1>3. \A i \in 1 .. Len(w) : Shaped(w[i])
  BY <1>1
<1>4. Sorted(w)
  <2> SUFFICES ASSUME NEW i \in 1 .. Len(w), NEW j \in 1 .. Len(w), i < j, ~w[i].matched \/ ~Low
               PROVE  w[i].frame_idx < w[j].frame_idx
    BY DEF Sorted
  <2>1. CASE i = p
    BY <2>1
  <2>2. CASE j = p
    BY <2>2
  <2>3. CASE i # p /\ j # p
    <3>1. /\ src[i] \in 1 .. Len(q) /\ src[j] \in 1 .. Len(q) /\ src[i] < src[j]
          /\ w[i] = q[src[i]] /\ w[j] = q[src[j]]
      BY <2>3
    <3> QED BY <1>1, <3>1 DEF Sorted
  <2> QED BY <2>1, <2>2, <2>3
<1> QED BY <1>2, <1>3, <1>4 DEF GoodNodes

LEMMA GoodWithout ==
  ASSUME NEW q \in Seq(Nodes), NEW k \in Nat, GoodNodes(q, k),
         NEW a \in k + 1 .. Len(q) + 1, NEW e \in a - 1 .. Len(q)
  PROVE  GoodNodes(Without(q, a, e), k)
<1> DEFINE w == Without(q, a, e)
           src == [i \in 1 .. Len(w) |-> IF i < a THEN i ELSE i + (e - a + 1)]
<1>1. Len(q) \in Nat /\ k <= Len(q) /\ Len(q) - k <= MaxUnmatched + 1 /\ MaxUnmatched \in Nat
      /\ a \in 1 .. Len(q) + 1
  BY Constants, LenProperties DEF GoodNodes, Split
<1>2. /\ w \in Seq(Nodes) /\ Len(w) = Len(q) - (e - a + 1)
      /\ \A i \in 1 .. Len(w) : /\ i < a => w[i] = q[i]
                                /\ ~(i < a) => w[i] = q[i + (e - a + 1)]
  BY <1>1, WithoutIs
<1> HIDE DEF w
<1>3. k \in 0 .. Len(w) /\ Len(w) - k <= MaxUnmatched + 1
  BY <1>1, <1>2
<1>4. ASSUME NEW i \in 1 .. Len(w)
      PROVE  src[i] \in 1 .. Len(q) /\ w[i] = q[src[i]] /\ (src[i] <= k <=> i <= k)
  <2>1. CASE i < a
    <3>1. src[i] = i
      BY <2>1
    <3> QED BY <1>1, <1>2, <2>1, <3>1
  <2>2. CASE ~(i < a)
    <3>1. src[i] = i + (e - a + 1)
      BY <2>2
    <3>2. i + (e - a + 1) \in 1 .. Len(q)
      BY <1>1, <1>2
    <3> HIDE DEF src
    <3>3. w[i] = q[src[i]]
      BY <1>2, <2>2, <3>1
    <3>4. ~(src[i] <= k) /\ ~(i <= k)
      BY <1>1, <2>2, <3>1
    <3> QED BY <3>1, <3>2, <3>3, <3>4
  <2> QED BY <2>1, <2>2
<1>5. \A i, j \in 1 .. Len(w) : i < j => src[i] < src[j]
  BY <1>1, <1>2
<1>6. src \in [1 .. Len(w) -> 1 .. Len(q)]
  BY <1>4
<1> HIDE DEF src
<1>7. /\ \A i \in 1 .. Len(w) : w[i] = q[src[i]]
      /\ \A i \in 1 .. Len(w) : src[i] <= k <=> i <= k
  BY <1>4
<1>8. GoodNodes(w, k)
  BY <1>2, <1>3, <1>5, <1>6, <1>7, Thinned
<1> QED BY <1>8 DEF w

LEMMA SubSeqFrom ==
  ASSUME NEW q \in Seq(Nodes), NEW n \in 0 .. Len(q)
  PROVE  /\ SubSeq(q, n + 1, Len(q)) \in Seq(Nodes)
         /\ Len(SubSeq(q, n + 1, Len(q))) = Len(q) - n
         /\ \A i \in 1 .. Len(q) - n : SubSeq(q, n + 1, Len(q))[i] = q[n + i]
<1>1. Len(q) \in Nat /\ 1 \in 1 .. Len(q) + 1 /\ n \in 1 - 1 .. Len(q) /\ n - 1 + 1 = n
  BY LenProperties
<1>2. SubSeq(q, n + 1, Len(q)) = Without(q, 1, n)
  BY WithoutHead
<1>3. /\ Without(q, 1, n) \in Seq(Nodes)
      /\ Len(Without(q, 1, n)) = Len(q) - (n - 1 + 1)
      /\ \A i \in 1 .. Len(Without(q, 1, n)) :
           ~(i < 1) => Without(q, 1, n)[i] = q[i + (n - 1 + 1)]
  BY <1>1, WithoutIs
<1>4. \A i \in 1 .. Len(q) - n : ~(i < 1) /\ i + n = n + i
  BY <1>1
<1> QED BY <1>1, <1>2, <1>3, <1>4

LEMMA GoodCut ==
  ASSUME NEW q \in Seq(Nodes), NEW k \in Nat, GoodNodes(q, k), NEW n \in 0 .. k
  PROVE  GoodNodes(SubSeq(q, n + 1, Len(q)), k - n)
<1> DEFINE w == SubSeq(q, n + 1, Len(q))
           src == [i \in 1 .. Len(w) |-> n + i]
<1>1. Len(q) \in Nat /\ k <= Len(q) /\ Len(q) - k <= MaxUnmatched + 1 /\ MaxUnmatched \in Nat
      /\ n \in 0 .. Len(q)
  BY Constants, LenProperties DEF GoodNodes, Split
<1>2. w \in Seq(Nodes) /\ Len(w) = Len(q) - n /\ \A i \in 1 .. Len(q) - n : w[i] = q[n + i]
  BY <1>1, SubSeqFrom
<1> HIDE DEF w
<1>3. k - n \in 0 .. Len(w) /\ Len(w) - (k - n) <= MaxUnmatched + 1
  BY <1>1, <1>2
<1>4. src \in [1 .. Len(w) -> 1 .. Len(q)]
  BY <1>1, <1>2
<1>5. \A i, j \in 1 .. Len(w) : i < j => src[i] < src[j]
  BY <1>1, <1>2
<1>6. \A i \in 1 .. Len(w) : src[i] <= k <=> i <= k - n
  BY <1>1, <1>2
<1>7. \A i \in 1 .. Len(w) : w[i] = q[src[i]]
  BY <1>2
<1> HIDE DEF src
<1> QED BY <1>2, <1>3, <1>4, <1>5, <1>6, <1>7, Thinned DEF w

-----------------------------------------------------------------------------
(* A frame enters a good queue.                                            *)

\* The frame is newer than those of its stream in the queue.
Fresh(b, d) == \A i \in 1 .. Len(b.q) : b.q[i].slot[d.s] < d.f

FrameIdx(q) == {q[i].frame_idx : i \in 1 .. Len(q)}

LiveIsTwo == Low => \E s \in Streams \ {Meta} : Streams = {Meta, s}

LEMMA LiveStreams == use \in Uses => LiveIsTwo
BY LiveAssumption DEF LiveAssumption, LiveIsTwo, Low

LEMMA NodeTypes ==
  ASSUME NEW b \in Channels, NEW i \in 1 .. Len(b.q)
  PROVE  /\ b.q[i].frame_idx \in Frames /\ b.q[i].frame_idx \in Nat /\ b.q[i].frame_idx # 0
         /\ \A s \in Streams : b.q[i].slot[s] \in {0} \cup Frames /\ b.q[i].slot[s] \in Nat
<1>1. b.q[i] \in Nodes
  BY FieldTypes
<1>2. b.q[i].frame_idx \in Frames /\ b.q[i].slot \in [Streams -> {0} \cup Frames]
  BY <1>1 DEF Nodes, Slots
<1>3. {0} \cup Frames \subseteq Nat /\ 0 \notin Frames
  BY Constants
<1> QED BY <1>2, <1>3

LEMMA TakerIs ==
  ASSUME NEW b \in Channels, NEW d \in Data, NEW k \in Nat, GoodQueue(b, k), Fresh(b, d),
         LiveIsTwo, NEW pos \in 1 .. Len(b.q), Takes(b, b.q[pos], d.s, d.f),
         \A i \in 1 .. Len(b.q) : i < pos => ~Takes(b, b.q[i], d.s, d.f)
  PROVE  /\ pos > k /\ b.q[pos].slot[d.s] = 0
         /\ ~Low => b.q[pos].frame_idx = d.f
         /\ \A i \in 1 .. Len(b.q) : k < i /\ i < pos => b.q[i].frame_idx < d.f
         /\ ~Filled(b, d, pos).matched => ~Low
<1>1. /\ Split(b.q, k) /\ Sorted(b.q) /\ \A i \in 1 .. Len(b.q) : Shaped(b.q[i])
      /\ ~Low => b.nomatch = 0
  BY DEF GoodQueue, GoodNodes
<1>2. d.s \in Streams /\ d.f \in Nat /\ d.f # 0 /\ Len(b.q) \in Nat
  BY DataTypes, FieldTypes
<1>3. ~b.q[pos].matched
  BY DEF Takes
<1>4. pos > k
  BY <1>1, <1>2, <1>3 DEF Split
<1>5. b.q[pos].slot[d.s] \in {0, b.q[pos].frame_idx} /\ b.q[pos].slot[d.s] < d.f
  BY <1>1, <1>2, <1>3 DEF Shaped, Fresh
<1>6. b.q[pos].slot[d.s] = 0
  <2>1. CASE b.q[pos].frame_idx = d.f
    BY <1>2, <1>5, <2>1
  <2>2. CASE b.q[pos].frame_idx # d.f
    BY <2>2 DEF Takes
  <2> QED BY <2>1, <2>2
<1>7. ~Low => b.q[pos].frame_idx = d.f
  BY <1>1 DEF Takes
<1>8. ASSUME NEW i \in 1 .. Len(b.q), k < i, i < pos PROVE b.q[i].frame_idx < d.f
  <2>1. ~b.q[i].matched
    BY <1>1, <1>2, <1>8 DEF Split
  <2>2. /\ b.q[i].frame_idx \in Nat /\ b.q[pos].frame_idx \in Nat /\ b.nomatch \in Nat
        /\ b.q[i].slot[d.s] \in Nat
    <3>1. {0} \cup Frames \subseteq Nat /\ b.nomatch \in {0} \cup Frames
      BY Constants, FieldTypes
    <3> QED BY <1>2, <3>1, NodeTypes
  <2>3. b.q[i].frame_idx < b.q[pos].frame_idx
    BY <1>1, <1>8, <2>1 DEF Sorted
  <2>4. b.q[i].slot[d.s] \in {0, b.q[i].frame_idx} /\ b.q[i].slot[d.s] < d.f
    BY <1>1, <1>2, <2>1 DEF Shaped, Fresh
  <2>5. ~Takes(b, b.q[i], d.s, d.f)
    BY <1>8
  <2>6. CASE b.q[pos].frame_idx = d.f
    BY <2>3, <2>6
  <2>7. CASE b.nomatch # 0 /\ b.nomatch <= d.f /\ d.s = Meta
    <3>1. b.q[i].slot[d.s] # 0
      BY <2>1, <2>5, <2>7 DEF Takes
    <3> QED BY <2>4, <3>1
  <2>8. CASE Low /\ d.s # Meta /\ b.q[pos].frame_idx > d.f
    <3>1. b.q[i].frame_idx # d.f /\ (b.q[i].slot[d.s] # 0 \/ ~(b.q[i].frame_idx > d.f))
      BY <2>1, <2>5, <2>8 DEF Takes
    <3>2. CASE b.q[i].slot[d.s] # 0
      BY <2>4, <3>2
    <3>3. CASE ~(b.q[i].frame_idx > d.f)
      BY <1>2, <2>2, <3>1, <3>3
    <3> QED BY <3>1, <3>2, <3>3
  <2> QED BY <2>6, <2>7, <2>8 DEF Takes
<1>9. Low => Filled(b, d, pos).matched
  <2> SUFFICES ASSUME Low, NEW s \in Streams PROVE Filled(b, d, pos).slot[s] # 0
    BY FilledType
  <2>1. PICK r \in Streams \ {Meta} : Streams = {Meta, r}
    BY DEF LiveIsTwo
  <2>2. PICK t \in Streams : b.q[pos].slot[t] # 0
    BY <1>1 DEF Shaped
  <2>3. t # d.s
    BY <1>6, <2>2
  <2>4. s = d.s \/ s = t
    BY <1>2, <2>1, <2>3
  <2>5. CASE s = d.s
    <3>1. Filled(b, d, pos).slot[d.s] = d.f
      BY FilledType
    <3> QED BY <1>2, <2>5, <3>1
  <2>6. CASE s = t
    <3>1. Filled(b, d, pos).slot[t] = b.q[pos].slot[t]
      BY <2>3, FilledType
    <3> QED BY <2>2, <2>6, <3>1
  <2> QED BY <2>4, <2>5, <2>6
<1> QED BY <1>4, <1>6, <1>7, <1>8, <1>9

(* The nodes between the matched ones and a full one are all left behind.  *)
LEMMA FromIs ==
  ASSUME NEW b \in Channels, NEW d \in Data, NEW k \in Nat, Split(b.q, k),
         NEW pos \in 1 .. Len(b.q), pos > k,
         \A i \in 1 .. Len(b.q) : k < i /\ i < pos => b.q[i].frame_idx < d.f
  PROVE  From(b, d, pos) = k + 1
<1> DEFINE older == {i \in Older(b.q, d.f) : i < pos}
<1>1. b.q \in Seq(Nodes) /\ Len(b.q) \in Nat /\ d.f \in Frames
  BY FieldTypes, DataTypes
<1>2. older = k + 1 .. pos - 1
  <2>1. ASSUME NEW i \in older PROVE i \in k + 1 .. pos - 1
    <3>1. i \in 1 .. Len(b.q) /\ ~b.q[i].matched /\ i < pos
      BY <1>1, OlderIs
    <3> QED BY <1>1, <3>1 DEF Split
  <2>2. ASSUME NEW i \in k + 1 .. pos - 1 PROVE i \in older
    <3>1. i \in 1 .. Len(b.q) /\ k < i /\ i < pos
      BY <1>1
    <3>2. ~b.q[i].matched /\ b.q[i].frame_idx < d.f
      BY <1>1, <3>1 DEF Split
    <3> QED BY <1>1, <3>1, <3>2, OlderIs
  <2> QED BY <2>1, <2>2
<1>3. From(b, d, pos) = IF older = {} THEN pos ELSE Lowest(older)
  BY DEF From
<1> HIDE DEF older
<1>4. CASE older = {}
  <2>1. ~(k + 1 \in k + 1 .. pos - 1)
    BY <1>2, <1>4
  <2>2. pos = k + 1
    BY <1>1, <2>1
  <2> QED BY <1>3, <1>4, <2>2
<1>5. CASE older # {}
  <2>1. PICK x : x \in k + 1 .. pos - 1
    BY <1>2, <1>5
  <2>2. k + 1 \in older /\ older \in SUBSET Nat
    BY <1>1, <1>2, <2>1
  <2>3. Lowest(older) \in older /\ Lowest(older) <= k + 1
    BY <1>5, <2>2, LowestIs
  <2>4. Lowest(older) = k + 1
    <3>1. Lowest(older) \in k + 1 .. pos - 1
      BY <1>2, <2>3
    <3> QED BY <1>1, <2>3, <3>1
  <2> QED BY <1>3, <1>5, <2>4
<1> QED BY <1>4, <1>5

LEMMA QueuedIs ==
  ASSUME NEW b \in Channels, NEW d \in Data, NEW pos \in 1 .. Len(b.q)
  PROVE  /\ Queued(b, d, pos) \in Seq(Nodes) /\ Len(Queued(b, d, pos)) = Len(b.q)
         /\ Queued(b, d, pos)[pos] = Filled(b, d, pos)
         /\ \A i \in 1 .. Len(b.q) : i # pos => Queued(b, d, pos)[i] = b.q[i]
<1>1. b.q \in Seq(Nodes) /\ Filled(b, d, pos) \in Nodes
  BY FieldTypes, FilledType
<1> QED BY <1>1, ExceptSeq DEF Queued

LEMMA FillGood ==
  ASSUME NEW b \in Channels, NEW d \in Data, NEW k \in Nat, GoodNodes(b.q, k), ~Low,
         NEW pos \in 1 .. Len(b.q), pos > k, b.q[pos].frame_idx = d.f,
         ~Filled(b, d, pos).matched
  PROVE  GoodNodes(Queued(b, d, pos), k)
<1> DEFINE w == Queued(b, d, pos)
           n == Filled(b, d, pos)
           src == [i \in 1 .. Len(w) |-> i]
<1>1. /\ Split(b.q, k) /\ Sorted(b.q) /\ \A i \in 1 .. Len(b.q) : Shaped(b.q[i])
      /\ Len(b.q) - k <= MaxUnmatched + 1
  BY DEF GoodNodes
<1>2. b.q \in Seq(Nodes) /\ Len(b.q) \in Nat /\ d.s \in Streams /\ d.f # 0
  BY FieldTypes, DataTypes
<1>3. /\ w \in Seq(Nodes) /\ Len(w) = Len(b.q) /\ w[pos] = n
      /\ \A i \in 1 .. Len(b.q) : i # pos => w[i] = b.q[i]
  BY QueuedIs
<1>4. /\ n.frame_idx = b.q[pos].frame_idx /\ n.slot[d.s] = d.f
      /\ n.matched <=> \A s \in Streams : n.slot[s] # 0
      /\ \A s \in Streams : s # d.s => n.slot[s] = b.q[pos].slot[s]
  BY FilledType
<1> HIDE DEF w, n
<1>5. Shaped(n)
  <2>1. \A s \in Streams : b.q[pos].slot[s] \in {0, b.q[pos].frame_idx}
    BY <1>1 DEF Shaped
  <2>2. \A s \in Streams : n.slot[s] \in {0, n.frame_idx}
    BY <1>4, <2>1
  <2> QED BY <1>2, <1>4, <2>2 DEF Shaped
<1>6. k \in 0 .. Len(w) /\ ~(pos <= k)
  BY <1>1, <1>2, <1>3 DEF Split
<1>7. src \in [1 .. Len(w) -> Int]
  OBVIOUS
<1>8. \A i \in 1 .. Len(w) : i # pos => src[i] \in 1 .. Len(b.q) /\ w[i] = b.q[src[i]]
  BY <1>3
<1>9. /\ \A i, j \in 1 .. Len(w) : i < j /\ i # pos /\ j # pos => src[i] < src[j]
      /\ \A i \in 1 .. Len(w) : i # pos => (src[i] <= k <=> i <= k)
  OBVIOUS
<1>10. ASSUME NEW i \in 1 .. Len(w)
       PROVE  /\ i < pos => w[i].frame_idx < w[pos].frame_idx
              /\ i > pos => w[pos].frame_idx < w[i].frame_idx
  <2>1. i # pos => w[i] = b.q[i]
    BY <1>3
  <2>2. w[pos].frame_idx = b.q[pos].frame_idx
    BY <1>3, <1>4
  <2>3. i \in 1 .. Len(b.q)
    BY <1>3
  <2>4. /\ i < pos => b.q[i].frame_idx < b.q[pos].frame_idx
        /\ pos < i => b.q[pos].frame_idx < b.q[i].frame_idx
    BY <1>1, <2>3 DEF Sorted
  <2>5. (i < pos => i # pos) /\ (i > pos => i # pos /\ pos < i)
    BY <1>2
  <2> QED BY <2>1, <2>2, <2>4, <2>5
<1> HIDE DEF src
<1>11. Shaped(w[pos]) /\ (w[pos].matched <=> pos <= k) /\ pos \in 1 .. Len(w)
       /\ Len(w) - k <= MaxUnmatched + 1
  BY <1>1, <1>3, <1>5, <1>6 DEF n
<1>12. GoodNodes(w, k)
  BY <1>2, <1>3, <1>6, <1>7, <1>8, <1>9, <1>10, <1>11, Placed
<1> QED BY <1>12 DEF w

LEMMA CompleteGood ==
  ASSUME NEW b \in Channels, NEW d \in Data, NEW k \in Nat, GoodNodes(b.q, k),
         NEW pos \in 1 .. Len(b.q), pos > k, ~Low => b.q[pos].frame_idx = d.f,
         Filled(b, d, pos).matched
  PROVE  LET w == Without(Queued(b, d, pos), k + 1, pos - 1)
         IN  GoodNodes(w, k + 1) /\ FrameIdx(w) \subseteq FrameIdx(b.q)
<1> DEFINE z == Queued(b, d, pos)
           w == Without(z, k + 1, pos - 1)
           n == Filled(b, d, pos)
           m == pos - k - 1
           src == [i \in 1 .. Len(w) |-> IF i < k + 1 THEN i ELSE i + m]
<1>1. /\ Split(b.q, k) /\ Sorted(b.q) /\ \A i \in 1 .. Len(b.q) : Shaped(b.q[i])
      /\ Len(b.q) - k <= MaxUnmatched + 1 /\ MaxUnmatched \in Nat
  BY Constants DEF GoodNodes
<1>2. b.q \in Seq(Nodes) /\ Len(b.q) \in Nat /\ d.s \in Streams /\ d.f # 0
  BY FieldTypes, DataTypes
<1>3. /\ z \in Seq(Nodes) /\ Len(z) = Len(b.q) /\ z[pos] = n
      /\ \A i \in 1 .. Len(b.q) : i # pos => z[i] = b.q[i]
  BY QueuedIs
<1>4. /\ n.frame_idx = b.q[pos].frame_idx /\ n.slot[d.s] = d.f
      /\ n.matched <=> \A s \in Streams : n.slot[s] # 0
      /\ \A s \in Streams : s # d.s => n.slot[s] = b.q[pos].slot[s]
  BY FilledType
<1>5. n.matched
  OBVIOUS
<1> HIDE DEF z, n
<1>6. m \in Nat /\ k + 1 \in 1 .. Len(z) + 1 /\ pos - 1 \in (k + 1) - 1 .. Len(z)
      /\ (pos - 1) - (k + 1) + 1 = m
  BY <1>2, <1>3
<1> HIDE DEF m
<1>7. /\ w \in Seq(Nodes) /\ Len(w) = Len(z) - m
      /\ \A i \in 1 .. Len(w) : /\ i < k + 1 => w[i] = z[i]
                                /\ ~(i < k + 1) => w[i] = z[i + m]
  BY <1>3, <1>6, WithoutIs
<1> HIDE DEF w
<1>8. Shaped(n)
  <2>1. ~Low => \A s \in Streams : n.slot[s] \in {0, n.frame_idx}
    <3>1. ~Low => \A s \in Streams : b.q[pos].slot[s] \in {0, b.q[pos].frame_idx}
      BY <1>1 DEF Shaped
    <3> QED BY <1>4, <3>1
  <2> QED BY <1>2, <1>4, <1>5, <2>1 DEF Shaped
<1>9. k + 1 \in 0 .. Len(w) /\ k + 1 \in 1 .. Len(w) /\ k + 1 + m = pos
      /\ Len(w) - (k + 1) <= MaxUnmatched + 1
  <2>1. k + 1 + m = pos
    BY <1>2 DEF m
  <2>2. Len(w) = Len(b.q) - m /\ m \in Nat /\ pos <= Len(b.q)
    BY <1>2, <1>3, <1>6, <1>7
  <2>3. Len(b.q) - k <= MaxUnmatched + 1 /\ MaxUnmatched \in Nat
    BY <1>1
  <2> QED BY <1>2, <2>1, <2>2, <2>3
<1>10. src \in [1 .. Len(w) -> Int]
  BY <1>6
<1>11. w[k + 1] = n
  <2>1. ~(k + 1 < k + 1)
    OBVIOUS
  <2> QED BY <1>3, <1>7, <1>9, <2>1
<1>12. ASSUME NEW i \in 1 .. Len(w), i # k + 1
       PROVE  /\ src[i] \in 1 .. Len(b.q) /\ src[i] # pos /\ w[i] = b.q[src[i]]
              /\ (src[i] <= k <=> i <= k + 1)
              /\ (i < k + 1 => src[i] < pos) /\ (i > k + 1 => src[i] > pos)
  <2>1. CASE i < k + 1
    <3>1. src[i] = i
      BY <2>1
    <3>2. i \in 1 .. Len(b.q) /\ i # pos /\ i < pos /\ i <= k /\ i <= k + 1 /\ ~(i > k + 1)
      BY <1>2, <2>1
    <3>3. w[i] = b.q[i]
      BY <1>3, <1>7, <2>1, <3>2
    <3> HIDE DEF src
    <3> QED BY <3>1, <3>2, <3>3
  <2>2. CASE ~(i < k + 1)
    <3>1. src[i] = i + m
      BY <2>2
    <3>2. i + m \in 1 .. Len(b.q) /\ i + m # pos /\ i + m > pos /\ ~(i + m <= k) /\ ~(i <= k + 1)
      BY <1>2, <1>3, <1>6, <1>7, <1>9, <1>12, <2>2
    <3>3. w[i] = b.q[i + m]
      BY <1>3, <1>7, <2>2, <3>2
    <3> HIDE DEF src
    <3> QED BY <2>2, <3>1, <3>2, <3>3
  <2> QED BY <2>1, <2>2
<1>13. \A i, j \in 1 .. Len(w) : i < j /\ i # k + 1 /\ j # k + 1 => src[i] < src[j]
  BY SMTT(60), <1>6
<1>14. ASSUME NEW i \in 1 .. Len(w), i < k + 1, ~w[i].matched \/ ~Low
       PROVE  w[i].frame_idx < w[k + 1].frame_idx
  <2>1. w[i] = b.q[src[i]] /\ src[i] \in 1 .. Len(b.q) /\ src[i] < pos
    BY <1>12, <1>14
  <2>2. b.q[src[i]].frame_idx < b.q[pos].frame_idx
    BY <1>1, <1>14, <2>1 DEF Sorted
  <2> QED BY <1>4, <1>11, <2>1, <2>2
<1>15. ASSUME NEW i \in 1 .. Len(w), i > k + 1, ~w[k + 1].matched \/ ~Low
       PROVE  w[k + 1].frame_idx < w[i].frame_idx
  <2>1. w[i] = b.q[src[i]] /\ src[i] \in 1 .. Len(b.q) /\ src[i] > pos
    BY <1>12, <1>15
  <2>2. ~Low
    BY <1>5, <1>11, <1>15
  <2>3. b.q[pos].frame_idx < b.q[src[i]].frame_idx
    BY <1>1, <2>1, <2>2 DEF Sorted
  <2> QED BY <1>4, <1>11, <2>1, <2>3
<1> HIDE DEF src
<1>16. Shaped(w[k + 1]) /\ (w[k + 1].matched <=> k + 1 <= k + 1)
  BY <1>5, <1>8, <1>11
<1>17. GoodNodes(w, k + 1)
  <2>1. /\ \A i \in 1 .. Len(w) : i # k + 1 => src[i] \in 1 .. Len(b.q) /\ w[i] = b.q[src[i]]
        /\ \A i \in 1 .. Len(w) : i # k + 1 => (src[i] <= k <=> i <= k + 1)
    BY <1>12
  <2>2. k + 1 \in Nat
    OBVIOUS
  <2> QED BY <1>2, <1>7, <1>9, <1>10, <1>13, <1>14, <1>15, <1>16, <2>1, <2>2, Placed
<1>18. FrameIdx(w) \subseteq FrameIdx(b.q)
  <2> SUFFICES ASSUME NEW i \in 1 .. Len(w) PROVE w[i].frame_idx \in FrameIdx(b.q)
    BY DEF FrameIdx
  <2>1. CASE i = k + 1
    BY <1>4, <1>11, <2>1 DEF FrameIdx
  <2>2. CASE i # k + 1
    BY <1>12, <2>2 DEF FrameIdx
  <2> QED BY <2>1, <2>2
<1> QED BY <1>17, <1>18 DEF w, z

LEMMA JoinGood ==
  ASSUME NEW b \in Channels, NEW d \in Data, NEW k \in Nat, GoodQueue(b, k), Fresh(b, d),
         LiveIsTwo, NEW pos \in 1 .. Len(b.q), Takes(b, b.q[pos], d.s, d.f),
         \A i \in 1 .. Len(b.q) : i < pos => ~Takes(b, b.q[i], d.s, d.f)
  PROVE  LET c == Join(b, d, pos)
         IN  (\E j \in Nat : GoodQueue(c, j)) /\ FrameIdx(c.q) \subseteq FrameIdx(b.q)
<1> DEFINE c == Join(b, d, pos)
           n == Filled(b, d, pos)
<1>1. /\ GoodNodes(b.q, k) /\ b.match_cnt = k /\ ~b.hung /\ (~Burst => ~b.bWait)
      /\ Split(b.q, k)
  BY DEF GoodQueue, GoodNodes
<1>2. /\ pos > k /\ b.q[pos].slot[d.s] = 0
      /\ ~Low => b.q[pos].frame_idx = d.f
      /\ \A i \in 1 .. Len(b.q) : k < i /\ i < pos => b.q[i].frame_idx < d.f
      /\ ~n.matched => ~Low
  BY TakerIs
<1>3. /\ SameControl([b EXCEPT !.nomatch = 0], c) /\ c.nomatch = 0 /\ c.bWait = b.bWait
      /\ ~n.matched => c.q = Queued(b, d, pos) /\ c.match_cnt = b.match_cnt
      /\ n.matched => Completed(b, d, pos, c)
  BY <1>2, JoinIs
<1> HIDE DEF c
<1>4. c.hung = b.hung
  <2>1. [b EXCEPT !.nomatch = 0].hung = b.hung
    BY FieldTypes DEF Fields
  <2> QED BY <1>3, <2>1 DEF SameControl
<1>5. CASE ~n.matched
  <2>1. GoodNodes(Queued(b, d, pos), k)
    BY <1>1, <1>2, <1>5, FillGood
  <2>2. GoodQueue(c, k)
    BY <1>1, <1>3, <1>4, <1>5, <2>1 DEF GoodQueue
  <2>3. FrameIdx(Queued(b, d, pos)) \subseteq FrameIdx(b.q)
    <3> SUFFICES ASSUME NEW i \in 1 .. Len(b.q)
                 PROVE  Queued(b, d, pos)[i].frame_idx = b.q[i].frame_idx
      BY QueuedIs DEF FrameIdx
    <3> QED BY QueuedIs, FilledType
  <2> QED BY <1>3, <1>5, <2>2, <2>3 DEF c
<1>6. CASE n.matched
  <2>1. From(b, d, pos) = k + 1
    BY <1>1, <1>2, FromIs
  <2>2. c.q = Without(Queued(b, d, pos), k + 1, pos - 1) /\ c.match_cnt = k + 1
    BY <1>1, <1>3, <1>6, <2>1 DEF Completed
  <2>3. GoodNodes(c.q, k + 1) /\ FrameIdx(c.q) \subseteq FrameIdx(b.q)
    BY <1>1, <1>2, <1>6, <2>2, CompleteGood
  <2>4. GoodQueue(c, k + 1)
    BY <1>1, <1>3, <1>4, <2>2, <2>3 DEF GoodQueue
  <2>5. k + 1 \in Nat
    OBVIOUS
  <2> QED BY <2>3, <2>4, <2>5 DEF c
<1> QED BY <1>5, <1>6

LEMMA InsertGood ==
  ASSUME NEW q \in Seq(Nodes), NEW k \in Nat, GoodNodes(q, k), NEW d \in Data,
         Len(q) - k <= MaxUnmatched,
         \A i \in 1 .. Len(q) : ~q[i].matched => q[i].frame_idx # d.f,
         \A i \in 1 .. Len(q) : q[i].matched /\ ~Low => q[i].frame_idx < d.f
  PROVE  LET w == InsertAt(q, At(q, d.f), NewNode(d))
         IN  /\ GoodNodes(w, k + Bit(NewNode(d).matched)) /\ k + Bit(NewNode(d).matched) \in Nat
             /\ FrameIdx(w) \subseteq FrameIdx(q) \cup {d.f}
<1> DEFINE p == At(q, d.f)
           n == NewNode(d)
           w == InsertAt(q, p, n)
           k2 == k + Bit(n.matched)
           src == [i \in 1 .. Len(w) |-> IF i < p THEN i ELSE i - 1]
<1>1. /\ Split(q, k) /\ Sorted(q) /\ \A i \in 1 .. Len(q) : Shaped(q[i])
      /\ MaxUnmatched \in Nat /\ Len(q) \in Nat
  BY Constants, LenProperties DEF GoodNodes
<1>2. d.s \in Streams /\ d.f \in Nat /\ d.f # 0 /\ d.f \in Frames
  BY DataTypes
<1>3. \A i \in 1 .. Len(q) : q[i].frame_idx \in Nat /\ q[i] \in Nodes
  <2>1. \A i \in 1 .. Len(q) : q[i] \in Nodes
    BY ElementOfSeq
  <2> QED BY <2>1, Constants DEF Nodes
<1>4. /\ p \in 1 .. Len(q) + 1
      /\ \A i \in 1 .. Len(q) : ~q[i].matched /\ q[i].frame_idx > d.f => p <= i
      /\ p # Len(q) + 1 => ~q[p].matched /\ q[p].frame_idx > d.f
  BY <1>2, AtIs
<1>5. /\ n \in Nodes /\ n.frame_idx = d.f /\ (n.matched <=> Streams = {d.s})
      /\ \A s \in Streams : n.slot[s] = IF s = d.s THEN d.f ELSE 0
  BY NewNodeType
<1> HIDE DEF p, n
<1>6. /\ w \in Seq(Nodes) /\ Len(w) = Len(q) + 1 /\ w[p] = n
      /\ \A i \in 1 .. Len(q) + 1 : (i < p => w[i] = q[i]) /\ (i > p => w[i] = q[i - 1])
  BY <1>4, <1>5, InsertIs
<1> HIDE DEF w
<1>7. p > k
  <2>1. CASE p = Len(q) + 1
    BY <1>1, <2>1 DEF Split
  <2>2. CASE p # Len(q) + 1
    BY <1>1, <1>4, <2>2 DEF Split
  <2> QED BY <2>1, <2>2
<1>8. Shaped(n)
  <2>1. n.matched <=> \A s \in Streams : n.slot[s] # 0
    BY <1>2, <1>5
  <2>2. n.slot[d.s] # 0 /\ \A s \in Streams : n.slot[s] \in {0, n.frame_idx}
    BY <1>2, <1>5
  <2> QED BY <1>2, <2>1, <2>2 DEF Shaped
<1>9. n.matched => k = Len(q)
  <2> SUFFICES ASSUME n.matched, k # Len(q) PROVE FALSE
    OBVIOUS
  <2>1. k + 1 \in 1 .. Len(q) /\ ~(k + 1 <= k)
    BY <1>1 DEF Split
  <2>2. ~q[k + 1].matched
    BY <1>1, <2>1 DEF Split
  <2>3. Streams = {d.s}
    BY <1>5
  <2>4. /\ \E s \in Streams : q[k + 1].slot[s] # 0
        /\ ~(\A s \in Streams : q[k + 1].slot[s] # 0)
    BY <1>1, <2>1, <2>2 DEF Shaped
  <2> QED BY <2>3, <2>4
<1>10. /\ k2 \in Nat /\ k2 \in 0 .. Len(w) /\ Len(w) - k2 <= MaxUnmatched + 1
       /\ n.matched <=> p <= k2
  <2>1. k <= Len(q) /\ Len(q) - k <= MaxUnmatched
    BY <1>1 DEF Split
  <2>2. CASE n.matched
    <3>1. k2 = k + 1 /\ k = Len(q)
      BY <1>9, <2>2 DEF Bit
    <3>2. p <= k + 1
      BY <1>4, <3>1
    <3> HIDE DEF k2
    <3> QED BY <1>1, <1>6, <2>1, <2>2, <3>1, <3>2
  <2>3. CASE ~n.matched
    <3>1. k2 = k
      BY <2>3 DEF Bit
    <3> HIDE DEF k2
    <3> QED BY <1>1, <1>4, <1>6, <1>7, <2>1, <2>3, <3>1
  <2> QED BY <2>2, <2>3
<1>11. ASSUME NEW i \in 1 .. Len(w), i # p
       PROVE  /\ src[i] \in 1 .. Len(q) /\ w[i] = q[src[i]]
              /\ (i < p => src[i] = i) /\ (i > p => src[i] >= p /\ src[i] = i - 1)
  <2>1. CASE i < p
    <3>1. src[i] = i
      BY <2>1
    <3>2. i \in 1 .. Len(q) /\ ~(i > p) /\ w[i] = q[i]
      BY <1>1, <1>4, <1>6, <2>1
    <3> HIDE DEF src
    <3> QED BY <3>1, <3>2
  <2>2. CASE i > p
    <3>1. src[i] = i - 1
      BY <1>4, <2>2
    <3>2. i - 1 \in 1 .. Len(q) /\ ~(i < p) /\ w[i] = q[i - 1] /\ i - 1 >= p
      BY <1>1, <1>4, <1>6, <2>2
    <3> HIDE DEF src
    <3> QED BY <3>1, <3>2
  <2> QED BY <1>4, <1>11, <2>1, <2>2
<1>12. src \in [1 .. Len(w) -> Int]
  OBVIOUS
<1>13. ASSUME NEW i \in 1 .. Len(w), NEW j \in 1 .. Len(w), i < j, i # p, j # p
       PROVE  src[i] < src[j]
  BY <1>4, <1>13
<1>14. ASSUME NEW i \in 1 .. Len(w), i # p PROVE src[i] <= k <=> i <= k2
  <2>1. k2 \in {k, k + 1} /\ (k2 = k + 1 => k = Len(q))
    BY <1>9 DEF Bit
  <2>2. CASE i < p
    <3>1. src[i] = i /\ src[i] \in 1 .. Len(q)
      BY <1>11, <2>2
    <3> HIDE DEF k2, src
    <3> QED BY <1>1, <2>1, <3>1
  <2>3. CASE i > p
    <3>1. src[i] = i - 1 /\ src[i] >= p /\ src[i] \in 1 .. Len(q)
      BY <1>11, <2>3
    <3> HIDE DEF k2, src
    <3> QED BY <1>1, <1>4, <1>7, <2>1, <2>3, <3>1
  <2> QED BY <1>4, <1>14, <2>2, <2>3
<1> HIDE DEF src, k2
<1>15. ASSUME NEW i \in 1 .. Len(w), i < p, ~w[i].matched \/ ~Low
       PROVE  w[i].frame_idx < w[p].frame_idx
  <2>1. w[i] = q[i] /\ i \in 1 .. Len(q)
    <3>1. i # p
      BY <1>4, <1>15
    <3> QED BY <1>11, <1>15, <3>1
  <2>2. CASE q[i].matched
    BY <1>5, <1>6, <1>15, <2>1, <2>2
  <2>3. CASE ~q[i].matched
    <3>1. q[i].frame_idx # d.f /\ ~(q[i].frame_idx > d.f)
      BY <1>4, <1>15, <2>1, <2>3
    <3> QED BY <1>2, <1>3, <1>5, <1>6, <2>1, <3>1
  <2> QED BY <2>2, <2>3
<1>16. ASSUME NEW i \in 1 .. Len(w), i > p
       PROVE  w[p].frame_idx < w[i].frame_idx
  <2>1. w[i] = q[src[i]] /\ src[i] \in 1 .. Len(q) /\ src[i] >= p
    <3>1. i # p
      BY <1>4, <1>16
    <3> QED BY <1>11, <1>16, <3>1
  <2>2. p \in 1 .. Len(q) /\ p # Len(q) + 1
    BY <1>1, <1>4, <2>1
  <2>3. ~q[p].matched /\ q[p].frame_idx > d.f
    BY <1>4, <2>2
  <2>4. q[p].frame_idx <= q[src[i]].frame_idx
    <3>1. CASE src[i] = p
      BY <1>3, <2>2, <3>1
    <3>2. CASE p < src[i]
      <4>1. q[p].frame_idx < q[src[i]].frame_idx
        BY <1>1, <2>1, <2>2, <2>3, <3>2 DEF Sorted
      <4> QED BY <1>3, <2>1, <2>2, <4>1
    <3> QED BY <2>1, <2>2, <3>1, <3>2
  <2> QED BY <1>2, <1>3, <1>5, <1>6, <2>1, <2>2, <2>3, <2>4
<1>17. GoodNodes(w, k2)
  <2>1. p \in 1 .. Len(w) /\ Shaped(w[p]) /\ (w[p].matched <=> p <= k2)
    BY <1>4, <1>6, <1>8, <1>10
  <2>2. \A i \in 1 .. Len(w) : i # p => src[i] \in 1 .. Len(q) /\ w[i] = q[src[i]]
    BY <1>11
  <2> QED BY <1>6, <1>10, <1>12, <1>13, <1>14, <1>15, <1>16, <2>1, <2>2, Placed
<1>18. FrameIdx(w) \subseteq FrameIdx(q) \cup {d.f}
  <2> SUFFICES ASSUME NEW i \in 1 .. Len(w) PROVE w[i].frame_idx \in FrameIdx(q) \cup {d.f}
    BY DEF FrameIdx
  <2>1. CASE i = p
    BY <1>5, <1>6, <2>1
  <2>2. CASE i # p
    BY <1>11, <2>2 DEF FrameIdx
  <2> QED BY <2>1, <2>2
<1> QED BY <1>10, <1>17, <1>18 DEF w, p, n, k2

LEMMA EnterGood ==
  ASSUME NEW b \in Channels, NEW d \in Data, NEW k \in Nat, GoodQueue(b, k), Fresh(b, d),
         \A i \in 1 .. Len(b.q) : ~Takes(b, b.q[i], d.s, d.f)
  PROVE  LET c == Enter(b, d)
         IN  /\ \E j \in Nat : GoodQueue(c, j)
             /\ FrameIdx(c.q) \subseteq FrameIdx(b.q) \cup {d.f}
<1> DEFINE c == Enter(b, d)
           r == Room(b.q, d.f)
           l == Lowest(Older(b.q, d.f))
           older == Older(b.q, d.f)
<1>1. /\ GoodNodes(b.q, k) /\ b.match_cnt = k /\ ~b.hung /\ (~Low => b.nomatch = 0)
      /\ (~Burst => ~b.bWait)
  BY DEF GoodQueue
<1>2. /\ SameFlags(b, c) /\ c.bWait = b.bWait
      /\ Over(b.q) /\ older = {} => Refused(b, d, c)
      /\ ~(Over(b.q) /\ older = {}) => Entered(b, d, c)
  BY EnterIs
<1> HIDE DEF c
<1>3. CASE Over(b.q) /\ older = {}
  <2>1. c.q = b.q /\ GoodQueue(c, k)
    BY <1>1, <1>2, <1>3 DEF Refused, SameFlags, GoodQueue
  <2> QED BY <2>1 DEF c
<1>4. CASE ~(Over(b.q) /\ older = {})
  <2>1. /\ b.q \in Seq(Nodes) /\ Len(b.q) \in Nat /\ d.f \in Frames /\ d.s \in Streams
        /\ MaxUnmatched \in Nat
    BY Constants, FieldTypes, DataTypes
  <2>2. /\ Split(b.q, k) /\ Len(b.q) - k <= MaxUnmatched + 1 /\ k <= Len(b.q)
        /\ \A i \in 1 .. Len(b.q) : Shaped(b.q[i])
    BY <1>1 DEF GoodNodes, Split
  <2>3. Cardinality(Unmatched(b.q)) = Len(b.q) - k
    BY <2>1, <2>2, SplitIs
  <2>4. \A i \in 1 .. Len(b.q) : ~b.q[i].matched => b.q[i].frame_idx # d.f
    BY DEF Takes
  <2>5. \A i \in 1 .. Len(b.q) : b.q[i].matched /\ ~Low => b.q[i].frame_idx < d.f
    <3> SUFFICES ASSUME NEW i \in 1 .. Len(b.q), b.q[i].matched, ~Low
                 PROVE  b.q[i].frame_idx < d.f
      OBVIOUS
    <3>1. b.q[i].slot[d.s] = b.q[i].frame_idx
      BY <2>1, <2>2 DEF Shaped
    <3> QED BY <3>1 DEF Fresh
  <2>6. /\ r \in Seq(Nodes) /\ GoodNodes(r, k) /\ Len(r) - k <= MaxUnmatched
        /\ \A i \in 1 .. Len(r) : \E j \in 1 .. Len(b.q) : r[i] = b.q[j]
    <3>1. CASE Over(b.q)
      <4>1. older # {} /\ l \in 1 .. Len(b.q) /\ ~b.q[l].matched
        <5>1. older # {} /\ 1 \in 1 .. Len(b.q)
          <6>1. Len(b.q) - k > MaxUnmatched
            BY <2>3, <3>1 DEF Over
          <6> QED BY <1>4, <2>1, <2>2, <3>1, <6>1
        <5> QED BY <2>1, <5>1, OlderIs
      <4>2. r = Without(b.q, l, l)
        BY <3>1 DEF Room
      <4> HIDE DEF r, l
      <4>3. l \in k + 1 .. Len(b.q) + 1 /\ l \in l - 1 .. Len(b.q) /\ l \in 1 .. Len(b.q) + 1
            /\ l - l + 1 = 1
        BY <2>1, <2>2, <4>1 DEF Split
      <4>4. GoodNodes(r, k)
        BY <1>1, <2>1, <4>2, <4>3, GoodWithout
      <4>5. /\ r \in Seq(Nodes) /\ Len(r) = Len(b.q) - (l - l + 1)
            /\ \A i \in 1 .. Len(r) : /\ i < l => r[i] = b.q[i]
                                      /\ ~(i < l) => r[i] = b.q[i + (l - l + 1)]
        BY <2>1, <4>2, <4>3, WithoutIs
      <4>6. Len(r) = Len(b.q) - 1
        BY <4>3, <4>5
      <4>7. ASSUME NEW i \in 1 .. Len(r) PROVE \E j \in 1 .. Len(b.q) : r[i] = b.q[j]
        <5>1. i \in 1 .. Len(b.q) /\ i + 1 \in 1 .. Len(b.q) /\ l - l + 1 = 1
          BY <2>1, <4>3, <4>6
        <5> QED BY <4>5, <5>1
      <4>8. Len(r) - k <= MaxUnmatched
        BY <2>1, <2>2, <4>6
      <4> QED BY <4>4, <4>5, <4>7, <4>8
    <3>2. CASE ~Over(b.q)
      <4>1. r = b.q
        BY <3>2 DEF Room
      <4>2. Len(b.q) - k <= MaxUnmatched
        BY <2>1, <2>2, <2>3, <3>2 DEF Over
      <4> QED BY <1>1, <2>1, <4>1, <4>2
    <3> QED BY <3>1, <3>2
  <2> HIDE DEF r
  <2>7. LET w == InsertAt(r, At(r, d.f), NewNode(d))
        IN  /\ GoodNodes(w, k + Bit(NewNode(d).matched)) /\ k + Bit(NewNode(d).matched) \in Nat
            /\ FrameIdx(w) \subseteq FrameIdx(r) \cup {d.f}
    <3>1. /\ \A i \in 1 .. Len(r) : ~r[i].matched => r[i].frame_idx # d.f
          /\ \A i \in 1 .. Len(r) : r[i].matched /\ ~Low => r[i].frame_idx < d.f
      BY <2>4, <2>5, <2>6
    <3> QED BY <2>6, <3>1, InsertGood
  <2>8. /\ c.q = InsertAt(r, At(r, d.f), NewNode(d))
        /\ c.match_cnt = b.match_cnt + Bit(NewNode(d).matched)
        /\ c.nomatch = IF Low /\ d.s # Meta THEN d.f ELSE b.nomatch
    BY <1>2, <1>4 DEF Entered, r
  <2>9. GoodQueue(c, k + Bit(NewNode(d).matched))
    BY <1>1, <1>2, <2>7, <2>8 DEF GoodQueue, SameFlags
  <2>10. FrameIdx(r) \subseteq FrameIdx(b.q)
    BY <2>6 DEF FrameIdx
  <2> QED BY <2>7, <2>8, <2>9, <2>10 DEF c
<1> QED BY <1>3, <1>4

LEMMA MetadataGood ==
  ASSUME NEW b \in Channels, NEW d \in Data, NEW k \in Nat, GoodQueue(b, k), Fresh(b, d)
  PROVE  LET m == handle_metadata(b, d)
         IN  /\ \E j \in Nat : GoodQueue(m, j)
             /\ Fresh(m, d) /\ FrameIdx(m.q) \subseteq FrameIdx(b.q)
<1> DEFINE m == handle_metadata(b, d)
<1>1. m \in Channels /\ SameControl(b, m) /\ QueueKeptOrGone(b, m)
  BY MetadataKeeps
<1>2. /\ GoodNodes(b.q, k) /\ b.match_cnt = k /\ ~b.hung /\ (~Low => b.nomatch = 0)
      /\ (~Burst => ~b.bWait) /\ Split(b.q, k) /\ b.q \in Seq(Nodes)
  BY FieldTypes DEF GoodQueue, GoodNodes
<1> HIDE DEF m
<1>3. ~m.hung /\ (~Low => m.nomatch = 0) /\ (~Burst => ~m.bWait)
  BY <1>1, <1>2 DEF SameControl
<1>4. CASE m.q = b.q /\ m.match_cnt = b.match_cnt
  <2>1. GoodQueue(m, k)
    BY <1>2, <1>3, <1>4 DEF GoodQueue
  <2>2. Fresh(m, d) /\ FrameIdx(m.q) = FrameIdx(b.q)
    BY <1>4 DEF Fresh
  <2> QED BY <2>1, <2>2 DEF m
<1>5. CASE m.q = <<>> /\ m.match_cnt = b.match_cnt - Cardinality(Matched(b.q))
  <2>1. Cardinality(Matched(b.q)) = k
    BY <1>2, SplitIs
  <2>2. m.match_cnt = 0
    BY <1>2, <1>5, <2>1
  <2>3. Len(m.q) = 0
    BY <1>5
  <2>4. Fresh(m, d) /\ FrameIdx(m.q) = {}
    BY <2>3 DEF Fresh, FrameIdx
  <2>5. GoodNodes(m.q, 0)
    BY <2>3, Constants DEF GoodNodes, Split, Sorted
  <2>6. GoodQueue(m, 0)
    BY <1>3, <2>2, <2>5 DEF GoodQueue
  <2> QED BY <2>4, <2>6 DEF m
<1> QED BY <1>1, <1>4, <1>5 DEF QueueKeptOrGone

LEMMA EnqueueGood ==
  ASSUME NEW b \in Channels, NEW d \in Data, NEW k \in Nat, GoodQueue(b, k), Fresh(b, d),
         LiveIsTwo
  PROVE  LET c == comp_and_enqueue(b, d)
         IN  /\ \E j \in Nat : GoodQueue(c, j)
             /\ FrameIdx(c.q) \subseteq FrameIdx(b.q) \cup {d.f}
<1> DEFINE c == comp_and_enqueue(b, d)
           m == handle_metadata(b, d)
           takers == {i \in DOMAIN m.q : Takes(m, m.q[i], d.s, d.f)}
           early == d.f < m.expected \/ (m.nomatch # 0 /\ m.nomatch > d.f /\ d.s = Meta)
<1>1. m \in Channels
  BY MetadataKeeps
<1>2. /\ \E j \in Nat : GoodQueue(m, j)
      /\ Fresh(m, d) /\ FrameIdx(m.q) \subseteq FrameIdx(b.q)
  BY MetadataGood
<1>3. c = IF early THEN [m EXCEPT !.released = @ \cup {<<d.s, d.f>>}]
          ELSE IF takers # {} THEN Join(m, d, Lowest(takers)) ELSE Enter(m, d)
  BY DEF comp_and_enqueue
<1> HIDE DEF c, m, early
<1>4. PICK j \in Nat : GoodQueue(m, j)
  BY <1>2
<1>5. takers = {i \in 1 .. Len(m.q) : Takes(m, m.q[i], d.s, d.f)}
  BY <1>1, FieldTypes
<1>6. CASE early
  <2>1. c = [m EXCEPT !.released = @ \cup {<<d.s, d.f>>}]
    BY <1>3, <1>6
  <2>2. /\ c.q = m.q /\ c.match_cnt = m.match_cnt /\ c.hung = m.hung
        /\ c.nomatch = m.nomatch /\ c.bWait = m.bWait
    BY <1>1, <2>1, FieldTypes DEF Fields
  <2>3. GoodQueue(c, j)
    BY <1>4, <2>2 DEF GoodQueue
  <2> QED BY <1>2, <2>2, <2>3 DEF c
<1>7. CASE ~early /\ takers # {}
  <2> DEFINE pos == Lowest(takers)
  <2>1. takers \in SUBSET Nat
    BY <1>5
  <2>2. pos \in takers /\ \A i \in takers : pos <= i
    BY <1>7, <2>1, LowestIs
  <2>3. c = Join(m, d, pos)
    BY <1>3, <1>7
  <2> HIDE DEF pos
  <2>4. pos \in 1 .. Len(m.q) /\ Takes(m, m.q[pos], d.s, d.f)
    BY <1>5, <2>2
  <2>5. \A i \in 1 .. Len(m.q) : i < pos => ~Takes(m, m.q[i], d.s, d.f)
    <3> SUFFICES ASSUME NEW i \in 1 .. Len(m.q), i < pos, Takes(m, m.q[i], d.s, d.f) PROVE FALSE
      OBVIOUS
    <3>1. pos <= i
      BY <1>5, <2>2
    <3> QED BY <2>4, <3>1
  <2>6. (\E l \in Nat : GoodQueue(Join(m, d, pos), l))
        /\ FrameIdx(Join(m, d, pos).q) \subseteq FrameIdx(m.q)
    BY <1>1, <1>2, <1>4, <2>4, <2>5, JoinGood
  <2> QED BY <1>2, <2>3, <2>6 DEF c
<1>8. CASE ~early /\ takers = {}
  <2>1. \A i \in 1 .. Len(m.q) : ~Takes(m, m.q[i], d.s, d.f)
    BY <1>5, <1>8
  <2>2. c = Enter(m, d)
    BY <1>3, <1>8
  <2>3. (\E l \in Nat : GoodQueue(Enter(m, d), l))
        /\ FrameIdx(Enter(m, d).q) \subseteq FrameIdx(m.q) \cup {d.f}
    BY <1>1, <1>2, <1>4, <2>1, EnterGood
  <2> QED BY <1>2, <2>2, <2>3 DEF c
<1> QED BY <1>6, <1>7, <1>8

-----------------------------------------------------------------------------
(* Nodes leave a good queue.                                               *)

LEMMA CutGood ==
  ASSUME NEW b \in Channels, NEW c, NEW k \in Nat, GoodQueue(b, k), NEW n \in 0 .. k,
         Cut(b, c, n), c.hung = b.hung, SameFrames(b, c), ~Burst => ~c.bWait
  PROVE  /\ GoodQueue(c, k - n) /\ k - n \in Nat /\ Len(c.q) = Len(b.q) - n
         /\ \A i \in 1 .. Len(c.q) : c.q[i] = b.q[n + i]
<1>1. /\ b.q \in Seq(Nodes) /\ GoodNodes(b.q, k) /\ n \in 0 .. Len(b.q)
  BY FieldTypes DEF GoodQueue, GoodNodes, Split
<1>2. c.q = SubSeq(b.q, n + 1, Len(b.q)) /\ c.match_cnt = b.match_cnt - n
  BY DEF Cut
<1>3. GoodNodes(c.q, k - n)
  BY <1>1, <1>2, GoodCut
<1>4. Len(c.q) = Len(b.q) - n /\ \A i \in 1 .. Len(b.q) - n : c.q[i] = b.q[n + i]
  BY <1>1, <1>2, SubSeqFrom
<1> QED BY <1>2, <1>3, <1>4 DEF GoodQueue, SameFrames

\* x matched nodes left unused and n were dispatched.
Passed(b, c, k, x, n) ==
  /\ x + n <= k /\ Len(c.dispatched) = n
  /\ \A i \in 1 .. n : c.dispatched[i] = b.q[x + i].slot
  /\ Len(c.q) = Len(b.q) - x - n
  /\ \A i \in 1 .. Len(c.q) : c.q[i] = b.q[x + n + i]

LEMMA ProceedGood ==
  ASSUME NEW b \in Channels, b.dispatched = <<>>, NEW k \in Nat, GoodQueue(b, k)
  PROVE  LET c == Proceed(b)
         IN  /\ \E j \in Nat : GoodQueue(c, j) /\ (Burst => j <= WaterMark) /\ (~Burst => j = 0)
             /\ \E x, n \in Nat : Passed(b, c, k, x, n)
             /\ c.startZsl => c.pending_cnt > 0
<1> DEFINE z == ZslSnapshot(b)
           t == TrimTo(z, WaterMark)
           c == Proceed(b)
<1>1. c = IF b.hung THEN b ELSE IF t.hung THEN t ELSE Dispatch(t)
  BY DEF Proceed, superbuf_bufdone_overflow
<1>2. /\ z \in Channels /\ SameBufs(b, z) /\ SameFrames(b, z) /\ z.hung = b.hung
      /\ z.startZsl => z.pending_cnt > 0
      /\ z.bWait \in {b.bWait, FALSE}
  BY ZslSnapshotIs
<1> HIDE DEF z
<1>3. z.dispatched = <<>> /\ z.q = b.q /\ GoodQueue(z, k)
  BY <1>2 DEF SameBufs, SameFrames, GoodQueue
<1>4. /\ t \in Channels /\ SameFrames(z, t) /\ SameRequest(z, t) /\ t.dispatched = z.dispatched
      /\ ~Burst \/ z.match_cnt <= WaterMark => t = z
      /\ Burst /\ z.match_cnt > WaterMark /\ z.match_cnt - WaterMark <= Ready(z.q) =>
           Cut(z, t, z.match_cnt - WaterMark) /\ t.hung = z.hung
  BY <1>2, Constants, TrimIs
<1>5. z.match_cnt = k /\ Ready(z.q) = k /\ ~z.hung /\ WaterMark \in Nat
  <2>1. Split(z.q, k) /\ z.q \in Seq(Nodes) /\ z.match_cnt = k /\ ~z.hung
    BY <1>2, <1>3, FieldTypes DEF GoodQueue, GoodNodes
  <2> QED BY <2>1, SplitIs, Constants
<1> HIDE DEF t, c
<1>6. PICK x \in 0 .. k : Cut(z, t, x) /\ t.hung = z.hung /\ (Burst => k - x <= WaterMark)
  <2>1. CASE ~Burst \/ k <= WaterMark
    <3>1. t = z
      BY <1>4, <1>5, <2>1
    <3>2. Cut(z, t, 0)
      BY <1>2, <3>1, CutNothing
    <3>3. 0 \in 0 .. k /\ (Burst => k - 0 <= WaterMark)
      BY <1>5, <2>1
    <3> QED BY <3>1, <3>2, <3>3
  <2>2. CASE Burst /\ ~(k <= WaterMark)
    <3>1. k > WaterMark /\ k - WaterMark <= k /\ k - WaterMark \in 0 .. k
          /\ k - (k - WaterMark) <= WaterMark
      BY <1>5, <2>2
    <3>2. Cut(z, t, k - WaterMark) /\ t.hung = z.hung
      BY <1>4, <1>5, <2>2, <3>1
    <3> QED BY <3>1, <3>2
  <2> QED BY <2>1, <2>2
<1>7. ~Burst => ~t.bWait
  BY <1>3, <1>4 DEF SameRequest, GoodQueue
<1>8. /\ GoodQueue(t, k - x) /\ k - x \in Nat /\ Len(t.q) = Len(z.q) - x
      /\ \A i \in 1 .. Len(t.q) : t.q[i] = z.q[x + i]
  BY <1>2, <1>3, <1>4, <1>6, <1>7, CutGood
<1>9. ~b.hung /\ ~t.hung
  BY <1>2, <1>5, <1>6
<1>10. c = Dispatch(t)
  BY <1>1, <1>9
<1>11. t.dispatched = <<>> /\ (t.startZsl => t.pending_cnt > 0)
  BY <1>2, <1>3, <1>4 DEF SameRequest
<1>12. /\ c \in Channels /\ Sent(t) \in 0 .. Ready(t.q) /\ Cut(t, c, Sent(t))
       /\ c.dispatched = SlotsUpTo(t.q, Sent(t))
       /\ SameFrames(t, c) /\ c.hung = t.hung
       /\ ~Burst => c.bWait = t.bWait
       /\ c.startZsl => c.pending_cnt > 0
  BY <1>4, <1>10, <1>11, DispatchIs
<1>13. t.q \in Seq(Nodes) /\ Ready(t.q) = k - x
  <2>1. Split(t.q, k - x) /\ t.q \in Seq(Nodes)
    BY <1>4, <1>8, FieldTypes DEF GoodQueue, GoodNodes
  <2> QED BY <1>8, <2>1, SplitIs
<1>14. ~Burst => Sent(t) = k - x
  BY <1>7, <1>13 DEF Sent
<1> DEFINE n == Sent(t)
<1> HIDE DEF n
<1>15. n \in 0 .. k - x
  BY <1>12, <1>13 DEF n
<1>16. /\ GoodQueue(c, (k - x) - n) /\ (k - x) - n \in Nat /\ Len(c.q) = Len(t.q) - n
       /\ \A i \in 1 .. Len(c.q) : c.q[i] = t.q[n + i]
  <2>1. Cut(t, c, n) /\ c.hung = t.hung /\ SameFrames(t, c) /\ (~Burst => ~c.bWait)
    BY <1>7, <1>12 DEF n
  <2>2. PICK m \in Nat : m = k - x
    BY <1>8
  <2>3. /\ GoodQueue(c, m - n) /\ m - n \in Nat /\ Len(c.q) = Len(t.q) - n
        /\ \A i \in 1 .. Len(c.q) : c.q[i] = t.q[n + i]
    <3>1. t \in Channels /\ GoodQueue(t, m) /\ n \in 0 .. m
      BY <1>4, <1>8, <1>15, <2>2
    <3> QED BY <2>1, <3>1, CutGood
  <2> QED BY <2>2, <2>3
<1>17. (Burst => (k - x) - n <= WaterMark) /\ (~Burst => (k - x) - n = 0)
  BY <1>5, <1>6, <1>14, <1>15 DEF n
<1>18. Passed(b, c, k, x, n)
  <2>1. Len(b.q) \in Nat /\ k <= Len(b.q) /\ Len(z.q) = Len(b.q)
    BY <1>3, FieldTypes DEF GoodQueue, GoodNodes, Split
  <2>2. n \in 0 .. Len(t.q)
    BY <1>8, <1>15, <2>1
  <2>3. Len(c.dispatched) = n /\ \A i \in 1 .. n : c.dispatched[i] = t.q[i].slot
    <3>1. Len(SlotsUpTo(t.q, n)) = n
      BY <1>13, <2>2, SlotsHits
    <3>2. \A i \in 1 .. n : SlotsUpTo(t.q, n)[i] = t.q[i].slot
      BY DEF SlotsUpTo
    <3> QED BY <1>12, <3>1, <3>2 DEF n
  <2>4. \A i \in 1 .. n : c.dispatched[i] = b.q[x + i].slot
    <3> SUFFICES ASSUME NEW i \in 1 .. n PROVE c.dispatched[i] = b.q[x + i].slot
      OBVIOUS
    <3>1. i \in 1 .. Len(t.q)
      BY <2>2
    <3> QED BY <1>3, <1>8, <2>3, <3>1
  <2>5. Len(c.q) = Len(b.q) - x - n
    BY <1>8, <1>15, <1>16, <2>1
  <2>6. \A i \in 1 .. Len(c.q) : c.q[i] = b.q[x + n + i]
    <3> SUFFICES ASSUME NEW i \in 1 .. Len(c.q) PROVE c.q[i] = b.q[x + n + i]
      OBVIOUS
    <3>1. n + i \in 1 .. Len(t.q) /\ x + (n + i) = x + n + i
      BY <1>15, <1>16, <2>2
    <3>2. c.q[i] = t.q[n + i] /\ t.q[n + i] = z.q[x + (n + i)]
      BY <1>8, <1>16, <3>1
    <3> QED BY <1>3, <3>1, <3>2
  <2>7. x + n <= k
    BY <1>15
  <2> QED BY <2>3, <2>4, <2>5, <2>6, <2>7 DEF Passed
<1>19. x \in Nat /\ n \in Nat
  BY <1>15
<1> QED BY <1>12, <1>16, <1>17, <1>18, <1>19 DEF c

LEMMA RequestGood ==
  ASSUME NEW b \in Channels, NEW k \in Nat, GoodQueue(b, k), NEW num \in Nat, NEW retro \in Nat
  PROVE  LET c == NewRequest(b, num, retro)
         IN  /\ \E j \in Nat : GoodQueue(c, j)
             /\ FrameIdx(c.q) \subseteq FrameIdx(b.q)
<1> DEFINE c == NewRequest(b, num, retro)
<1>1. /\ c \in Channels /\ SameFrames(b, c) /\ ~c.bWait
      /\ ~Burst \/ b.match_cnt <= LookBack =>
           c.q = b.q /\ c.match_cnt = b.match_cnt /\ c.hung = b.hung
      /\ Burst /\ b.match_cnt > LookBack /\ b.match_cnt - LookBack <= Ready(b.q) =>
           Cut(b, c, b.match_cnt - LookBack) /\ c.hung = b.hung
  BY RequestIs
<1> HIDE DEF c
<1>2. b.match_cnt = k /\ Ready(b.q) = k /\ LookBack \in Nat
  <2>1. Split(b.q, k) /\ b.q \in Seq(Nodes) /\ b.match_cnt = k
    BY FieldTypes DEF GoodQueue, GoodNodes
  <2> QED BY <2>1, SplitIs, Constants
<1>3. CASE ~Burst \/ k <= LookBack
  <2>1. GoodQueue(c, k) /\ c.q = b.q
    BY <1>1, <1>2, <1>3 DEF GoodQueue, SameFrames
  <2> QED BY <2>1 DEF c
<1>4. CASE Burst /\ ~(k <= LookBack)
  <2>1. k > LookBack /\ k - LookBack <= k /\ k - LookBack \in 0 .. k
    BY <1>2, <1>4
  <2>2. Cut(b, c, k - LookBack) /\ c.hung = b.hung
    BY <1>1, <1>2, <1>4, <2>1
  <2> DEFINE n == k - LookBack
  <2>3. n \in 0 .. k /\ Cut(b, c, n)
    BY <2>1, <2>2
  <2> HIDE DEF n
  <2>4. /\ GoodQueue(c, k - n) /\ k - n \in Nat /\ Len(c.q) = Len(b.q) - n
        /\ \A i \in 1 .. Len(c.q) : c.q[i] = b.q[n + i]
    BY <1>1, <2>2, <2>3, CutGood
  <2>5. FrameIdx(c.q) \subseteq FrameIdx(b.q)
    <3> SUFFICES ASSUME NEW i \in 1 .. Len(c.q) PROVE c.q[i].frame_idx \in FrameIdx(b.q)
      BY DEF FrameIdx
    <3>1. n + i \in 1 .. Len(b.q)
      BY <2>3, <2>4, FieldTypes
    <3> QED BY <2>4, <3>1 DEF FrameIdx
  <2> QED BY <2>4, <2>5 DEF c
<1> QED BY <1>3, <1>4

\* Where what a command leaves in the queue and dispatches comes from.
Origin(b, d, c) ==
  \E e \in Channels, m, x, n \in Nat :
    /\ GoodQueue(e, m) /\ Passed(e, c, m, x, n)
    /\ \A g \in FrameIdx(e.q) : g \in FrameIdx(b.q) \/ (d.type = "data" /\ g = d.f)

LEMMA ProcessGood ==
  ASSUME NEW b \in Channels, b.dispatched = <<>>, NEW k \in Nat, GoodQueue(b, k),
         NEW d \in Commands, LiveIsTwo, d.type = "data" => Fresh(b, d),
         b.startZsl => b.pending_cnt > 0
  PROVE  LET c == process_stream_buf(b, d)
         IN  Bounded(c) /\ (c.startZsl => c.pending_cnt > 0) /\ Origin(b, d, c)
<1> DEFINE c == process_stream_buf(b, d)
<1>1. ASSUME NEW e \in Channels, e.dispatched = <<>>, \E j \in Nat : GoodQueue(e, j),
             \A g \in FrameIdx(e.q) : g \in FrameIdx(b.q) \/ (d.type = "data" /\ g = d.f),
             c = Proceed(e)
      PROVE  Bounded(c) /\ (c.startZsl => c.pending_cnt > 0) /\ Origin(b, d, c)
  <2> HIDE DEF c
  <2>1. PICK m \in Nat : GoodQueue(e, m)
    BY <1>1
  <2>2. /\ \E j \in Nat : GoodQueue(c, j) /\ (Burst => j <= WaterMark) /\ (~Burst => j = 0)
        /\ \E x, n \in Nat : Passed(e, c, m, x, n)
        /\ c.startZsl => c.pending_cnt > 0
    BY <1>1, <2>1, ProceedGood
  <2>3. PICK x \in Nat, n \in Nat : Passed(e, c, m, x, n)
    BY <2>2
  <2>4. Origin(b, d, c)
    BY <1>1, <2>1, <2>3 DEF Origin
  <2> QED BY <2>2, <2>4 DEF Bounded
<1>2. CASE d.type = "data"
  <2> DEFINE e == comp_and_enqueue(b, d)
  <2>1. d \in Data /\ c = Proceed(e)
    BY <1>2, CommandTypes DEF process_stream_buf
  <2>2. e \in Channels /\ e.dispatched = <<>>
    BY <2>1, CompAndEnqueueGains
  <2>3. /\ \E j \in Nat : GoodQueue(e, j)
        /\ FrameIdx(e.q) \subseteq FrameIdx(b.q) \cup {d.f}
    BY <1>2, <2>1, EnqueueGood
  <2> HIDE DEF e, c
  <2>4. \A g \in FrameIdx(e.q) : g \in FrameIdx(b.q) \/ (d.type = "data" /\ g = d.f)
    BY <1>2, <2>3
  <2> QED BY <1>1, <2>1, <2>2, <2>3, <2>4 DEF c
<1>3. CASE d.type = "req"
  <2> DEFINE e == NewRequest(b, d.num, d.retro)
  <2>1. c = Proceed(e) /\ d.num \in Nat /\ d.retro \in Nat
    BY <1>3, CommandTypes DEF process_stream_buf
  <2>2. e \in Channels /\ e.dispatched = <<>>
    BY <2>1, RequestIs
  <2>3. (\E j \in Nat : GoodQueue(e, j)) /\ FrameIdx(e.q) \subseteq FrameIdx(b.q)
    BY <2>1, RequestGood
  <2> HIDE DEF e, c
  <2> QED BY <1>1, <2>1, <2>2, <2>3 DEF c
<1>4. CASE d.type = "flush"
  <2> DEFINE e == [b EXCEPT !.expected = d.f]
  <2>1. c = superbuf_flush(e) /\ d.f \in Nat
    BY <1>4, CommandTypes DEF process_stream_buf
  <2>2. /\ e \in Channels /\ e.q = b.q /\ e.match_cnt = b.match_cnt /\ e.dispatched = <<>>
        /\ e.nomatch = b.nomatch /\ e.hung = b.hung /\ e.bWait = b.bWait
        /\ e.startZsl = b.startZsl /\ e.pending_cnt = b.pending_cnt
    BY <2>1, FieldTypes DEF Channels, Fields
  <2> HIDE DEF e, c
  <2>3. /\ c \in Channels /\ c.q = <<>> /\ c.dispatched = <<>> /\ c.nomatch = b.nomatch
        /\ c.match_cnt = b.match_cnt - Cardinality(Matched(b.q))
        /\ c.hung = b.hung /\ c.bWait = b.bWait
        /\ c.startZsl = b.startZsl /\ c.pending_cnt = b.pending_cnt
    BY <2>1, <2>2, FlushKeeps
  <2>4. c.match_cnt = 0
    <3>1. Split(b.q, k) /\ b.q \in Seq(Nodes) /\ b.match_cnt = k
      BY FieldTypes DEF GoodQueue, GoodNodes
    <3>2. Cardinality(Matched(b.q)) = k
      BY <3>1, SplitIs
    <3> QED BY <2>3, <3>1, <3>2
  <2>5. Len(c.q) = 0 /\ Len(c.dispatched) = 0
    BY <2>3
  <2>6. GoodNodes(c.q, 0)
    BY <2>5, Constants DEF GoodNodes, Split, Sorted
  <2>7. GoodQueue(c, 0)
    BY <2>3, <2>4, <2>6 DEF GoodQueue
  <2>8. FrameIdx(c.q) = {} /\ Passed(c, c, 0, 0, 0)
    BY <2>5 DEF FrameIdx, Passed
  <2>9. Origin(b, d, c)
    BY <2>3, <2>7, <2>8 DEF Origin
  <2>10. Bounded(c)
    BY <2>7, Constants DEF Bounded
  <2> QED BY <2>3, <2>9, <2>10 DEF c
<1> QED BY <1>2, <1>3, <1>4, CommandTypes

-----------------------------------------------------------------------------
(* The order of frames.                                                    *)

LEMMA BehindIs ==
  ASSUME TypeInv, NEW s \in Streams, NEW f \in Frames
  PROVE  /\ Behind(s, f) \in Nat /\ Hits(cmds, DataOf(s, f)) \in Nat
         /\ InChannel(s, f) = Hits(cmds, DataOf(s, f)) + Behind(s, f)
         /\ \A i \in 1 .. Len(ch.q) : ch.q[i].slot[s] = f => Behind(s, f) # 0
         /\ \A i \in 1 .. Len(cbs) : cbs[i][s] = f => Behind(s, f) # 0
         /\ \A i \in 1 .. Len(cmds) : IsData(cmds[i]) /\ cmds[i].s = s /\ cmds[i].f = f
              => Hits(cmds, DataOf(s, f)) # 0
<1>1. /\ Hits(cmds, DataOf(s, f)) \in Nat /\ Hits(ch.q, NodeOf(s, f)) \in Nat
      /\ Hits(cbs, SlotsOf(s, f)) \in Nat
  BY CountType
<1>2. /\ ch.q \in Seq(Nodes) /\ cbs \in Seq(Slots) /\ cmds \in Seq(Commands)
      /\ \A i \in 1 .. Len(ch.q) : ch.q[i] \in Nodes
      /\ \A i \in 1 .. Len(cbs) : cbs[i] \in Slots
      /\ \A i \in 1 .. Len(cmds) : cmds[i] \in Commands
  <2>1. ch.q \in Seq(Nodes) /\ cbs \in Seq(Slots) /\ cmds \in Seq(Commands)
    BY FieldTypes DEF TypeInv
  <2> QED BY <2>1, ElementOfSeq
<1>3. \A i \in 1 .. Len(ch.q) : ch.q[i].slot[s] = f => Hits(ch.q, NodeOf(s, f)) # 0
  BY <1>2, HitsType DEF NodeOf
<1>4. \A i \in 1 .. Len(cbs) : cbs[i][s] = f => Hits(cbs, SlotsOf(s, f)) # 0
  BY <1>2, HitsType DEF SlotsOf
<1>5. \A i \in 1 .. Len(cmds) : IsData(cmds[i]) /\ cmds[i].s = s /\ cmds[i].f = f
        => Hits(cmds, DataOf(s, f)) # 0
  BY <1>2, HitsType DEF DataOf, IsData
<1> QED BY <1>1, <1>3, <1>4, <1>5 DEF Behind, InChannel

LEMMA DataIs ==
  ASSUME TypeInv, NEW i \in 1 .. Len(cmds), IsData(cmds[i])
  PROVE  cmds[i] \in Data /\ cmds[i].s \in Streams /\ cmds[i].f \in Frames /\ cmds[i].f \in Nat
<1>1. cmds[i] \in Commands
  BY ElementOfSeq DEF TypeInv
<1> QED BY <1>1, DataTypes DEF Data, IsData

LEMMA OrderSame ==
  ASSUME TypeInv, OrderInv, UNCHANGED <<use, cmds>>,
         \A s \in Streams, f \in Frames : Behind(s, f)' # 0 => Behind(s, f) # 0
  PROVE  OrderInv'
<1> SUFFICES ASSUME NEW i \in 1 .. Len(cmds), IsData(cmds[i])
             PROVE  /\ \A j \in 1 .. Len(cmds) :
                         j < i /\ IsData(cmds[j]) /\ cmds[j].s = cmds[i].s => cmds[j].f < cmds[i].f
                    /\ \A f \in Frames : Behind(cmds[i].s, f)' # 0 => f < cmds[i].f
                    /\ cmds[i].hint # NoHint => cmds[i].s = Meta /\ use # "live"
  BY DEF OrderInv
<1>1. cmds[i].s \in Streams
  BY DataIs
<1> QED BY <1>1 DEF OrderInv

LEMMA OrderAppend ==
  ASSUME TypeInv, OrderInv, NEW c \in Commands, cmds' = Append(cmds, c), UNCHANGED <<use, ch, cbs>>,
         IsData(c) => /\ \A i \in 1 .. Len(cmds) :
                           IsData(cmds[i]) /\ cmds[i].s = c.s => cmds[i].f < c.f
                      /\ \A f \in Frames : Behind(c.s, f) # 0 => f < c.f
                      /\ c.hint # NoHint => c.s = Meta /\ use # "live"
  PROVE  OrderInv'
<1>1. /\ cmds \in Seq(Commands) /\ Len(cmds) \in Nat /\ Len(cmds') = Len(cmds) + 1
      /\ \A i \in 1 .. Len(cmds) : cmds'[i] = cmds[i]
      /\ cmds'[Len(cmds) + 1] = c
  <2>1. cmds \in Seq(Commands)
    BY DEF TypeInv
  <2>2. Len(cmds) \in Nat
    BY <2>1, LenProperties
  <2>3. /\ Len(Append(cmds, c)) = Len(cmds) + 1
        /\ \A i \in 1 .. Len(cmds) : Append(cmds, c)[i] = cmds[i]
        /\ Append(cmds, c)[Len(cmds) + 1] = c
    BY <2>1, AppendProperties
  <2> QED BY <2>1, <2>2, <2>3
<1>2. ASSUME NEW s, NEW f PROVE Behind(s, f)' = Behind(s, f)
  BY DEF Behind
<1> SUFFICES ASSUME NEW i \in 1 .. Len(cmds'), IsData(cmds'[i])
             PROVE  /\ \A j \in 1 .. Len(cmds') :
                         j < i /\ IsData(cmds'[j]) /\ cmds'[j].s = cmds'[i].s
                           => cmds'[j].f < cmds'[i].f
                    /\ \A f \in Frames : Behind(cmds[i].s, f)' # 0 => f < cmds'[i].f
                    /\ cmds'[i].hint # NoHint => cmds'[i].s = Meta /\ use # "live"
  BY DEF OrderInv, IsData
<1>3. CASE i \in 1 .. Len(cmds)
  <2>1. \A j \in 1 .. Len(cmds') : j < i => j \in 1 .. Len(cmds)
    BY <1>1, <1>3
  <2>2. cmds'[i] = cmds[i]
    BY <1>1, <1>3
  <2>3. /\ \A j \in 1 .. Len(cmds) :
             j < i /\ IsData(cmds[j]) /\ cmds[j].s = cmds[i].s => cmds[j].f < cmds[i].f
        /\ \A f \in Frames : Behind(cmds[i].s, f) # 0 => f < cmds[i].f
        /\ cmds[i].hint # NoHint => cmds[i].s = Meta /\ use # "live"
    BY <1>3, <2>2 DEF OrderInv
  <2>4. \A f \in Frames : Behind(cmds[i].s, f)' # 0 => f < cmds'[i].f
    BY <1>2, <2>2, <2>3
  <2> QED BY <1>1, <2>1, <2>2, <2>3, <2>4
<1>4. CASE i \notin 1 .. Len(cmds)
  <2>1. i = Len(cmds) + 1 /\ \A j \in 1 .. Len(cmds') : j < i => j \in 1 .. Len(cmds)
    BY <1>1, <1>4
  <2>2. cmds'[i] = c
    BY <1>1, <2>1
  <2>3. \A f \in Frames : Behind(cmds[i].s, f)' # 0 => f < cmds'[i].f
    BY <1>2, <2>2
  <2> QED BY <1>1, <2>1, <2>2, <2>3
<1> QED BY <1>3, <1>4

LEMMA OrderDeliver ==
  ASSUME RefsInv, OrderInv, NEW t \in Streams, Deliver(t)
  PROVE  OrderInv'
<1>1. TypeInv /\ PlaceInv
  BY DEF RefsInv
<1>2. PICK g \in Frames, h \in Hints :
        /\ g > last[t] /\ (h # NoHint => t = Meta /\ ~Linked(t))
        /\ cmds' = IF ~Linked(t) \/ linked
                   THEN Append(cmds, [type |-> "data", s |-> t, f |-> g, hint |-> h])
                   ELSE cmds
  BY DEF Deliver
<1>3. UNCHANGED <<use, ch, cbs>>
  BY DEF Deliver
<1>4. CASE ~(~Linked(t) \/ linked)
  <2>1. cmds' = cmds
    BY <1>2, <1>4
  <2>2. \A s \in Streams, f \in Frames : Behind(s, f)' # 0 => Behind(s, f) # 0
    BY <1>3 DEF Behind
  <2> QED BY <1>1, <1>3, <2>1, <2>2, OrderSame
<1>5. CASE ~Linked(t) \/ linked
  <2> DEFINE c == [type |-> "data", s |-> t, f |-> g, hint |-> h]
  <2>1. c \in Commands /\ c.s = t /\ c.f = g /\ c.hint = h
    BY DEF Commands
  <2>2. cmds' = Append(cmds, c)
    BY <1>2, <1>5
  <2>3. last[t] \in Nat /\ g \in Nat /\ Frames \subseteq Nat
    <3>1. {0} \cup Frames \subseteq Nat
      BY Constants
    <3> QED BY <1>1, <3>1 DEF TypeInv
  <2>4. ASSUME NEW f \in Frames, f >= g
        PROVE  Hits(cmds, DataOf(t, f)) = 0 /\ Behind(t, f) = 0
    <3>1. f > last[t]
      BY <1>2, <2>3, <2>4
    <3>2. InChannel(t, f) = 0
      BY <1>1, <3>1 DEF PlaceInv
    <3> QED BY <1>1, <3>2, BehindIs
  <2>5. ASSUME NEW i \in 1 .. Len(cmds), IsData(cmds[i]), cmds[i].s = c.s
        PROVE  cmds[i].f < c.f
    <3>1. cmds[i].f \in Frames /\ cmds[i].f \in Nat
      BY <1>1, <2>5, DataIs
    <3>2. Hits(cmds, DataOf(t, cmds[i].f)) # 0
      BY <1>1, <2>1, <2>5, <3>1, BehindIs
    <3> QED BY <2>1, <2>3, <2>4, <3>1, <3>2
  <2>6. ASSUME NEW f \in Frames, Behind(c.s, f) # 0 PROVE f < c.f
    BY <2>1, <2>3, <2>4, <2>6
  <2>7. c.hint # NoHint => c.s = Meta /\ use # "live"
    BY <1>2, <2>1 DEF Linked
  <2> HIDE DEF c
  <2> QED BY <1>1, <1>3, <2>1, <2>2, <2>5, <2>6, <2>7, OrderAppend
<1> QED BY <1>4, <1>5

LEMMA OrderCommand ==
  ASSUME RefsInv, OrderInv, ChannelCommand
  PROVE  OrderInv'
<1> DEFINE c == Head(cmds)
           b == process_stream_buf(ch, c)
<1>1. TypeInv /\ PlaceInv /\ StopInv
  BY DEF RefsInv
<1>2. ASSUME NEW s \in Streams, NEW f \in Frames
      PROVE  InChannel(s, f) = InChannel(s, f)' + Bit(<<s, f>> \in b.released)
  BY <1>1, CommandMoves
<1>3. cmds' = Tail(cmds) /\ cmds # <<>> /\ use' = use
  BY DEF ChannelCommand
<1>4. TypeInv'
  BY RefsCommand DEF RefsInv
<1> HIDE DEF b
<1>5. /\ cmds \in Seq(Commands) /\ Len(cmds) \in Nat /\ Len(cmds) # 0
      /\ Len(cmds') = Len(cmds) - 1 /\ \A i \in 1 .. Len(cmds') : cmds'[i] = cmds[i + 1]
      /\ c = cmds[1]
  <2>1. cmds \in Seq(Commands) /\ Len(cmds) \in Nat
    BY <1>1, LenProperties DEF TypeInv
  <2>2. /\ Len(Tail(cmds)) = Len(cmds) - 1
        /\ \A i \in 1 .. Len(Tail(cmds)) : Tail(cmds)[i] = cmds[i + 1]
    BY <1>3, <2>1, HeadTailProperties
  <2>3. c = cmds[1] /\ Len(cmds) # 0
    BY <1>3, <2>1, EmptySeq
  <2> QED BY <1>3, <2>1, <2>2, <2>3
<1> HIDE DEF c
<1>6. ASSUME NEW s \in Streams, NEW f \in Frames, Behind(s, f)' # 0
      PROVE  Behind(s, f) # 0 \/ (IsData(c) /\ c.s = s /\ c.f = f)
  <2>1. Hits(cmds, DataOf(s, f)) = Bit(c \in DataOf(s, f)) + Hits(cmds', DataOf(s, f))
    BY <1>3, <1>5, HitsTail DEF c
  <2>2. /\ Behind(s, f) \in Nat /\ Hits(cmds, DataOf(s, f)) \in Nat
        /\ InChannel(s, f) = Hits(cmds, DataOf(s, f)) + Behind(s, f)
    BY <1>1, BehindIs
  <2>3. /\ Behind(s, f)' \in Nat /\ Hits(cmds', DataOf(s, f)) \in Nat
        /\ InChannel(s, f)' = Hits(cmds', DataOf(s, f)) + Behind(s, f)'
    <3>1. /\ Hits(cmds', DataOf(s, f)) \in Nat /\ Hits(ch'.q, NodeOf(s, f)) \in Nat
          /\ Hits(cbs', SlotsOf(s, f)) \in Nat
      <4>1. ch' \in Channels /\ cmds' \in Seq(Commands) /\ cbs' \in Seq(Slots)
        BY <1>4 DEF TypeInv
      <4>2. Hits(cmds', DataOf(s, f)) \in Nat /\ Hits(cbs', SlotsOf(s, f)) \in Nat
        BY <4>1, HitsType
      <4> QED BY <4>1, <4>2, AccountType
    <3> QED BY <3>1 DEF Behind, InChannel
  <2>4. Bit(<<s, f>> \in b.released) \in Nat
    BY DEF Bit
  <2>5. InChannel(s, f) = InChannel(s, f)' + Bit(<<s, f>> \in b.released)
    BY <1>2
  <2>6. CASE c \in DataOf(s, f)
    BY <2>6 DEF DataOf, IsData
  <2>7. CASE c \notin DataOf(s, f)
    <3>1. Bit(c \in DataOf(s, f)) = 0
      BY <2>7 DEF Bit
    <3> QED BY <1>6, <2>1, <2>2, <2>3, <2>4, <2>5, <3>1
  <2> QED BY <2>6, <2>7
<1> SUFFICES ASSUME NEW i \in 1 .. Len(cmds'), IsData(cmds'[i])
             PROVE  /\ \A j \in 1 .. Len(cmds') :
                         j < i /\ IsData(cmds'[j]) /\ cmds'[j].s = cmds'[i].s
                           => cmds'[j].f < cmds'[i].f
                    /\ \A f \in Frames : Behind(cmds[i].s, f)' # 0 => f < cmds'[i].f
                    /\ cmds'[i].hint # NoHint => cmds'[i].s = Meta /\ use # "live"
  BY <1>3 DEF OrderInv, IsData
<1>7. i + 1 \in 1 .. Len(cmds) /\ 1 \in 1 .. Len(cmds) /\ 1 < i + 1 /\ cmds'[i] = cmds[i + 1]
      /\ \A j \in 1 .. Len(cmds') : j + 1 \in 1 .. Len(cmds) /\ cmds'[j] = cmds[j + 1]
                                    /\ (j < i => j + 1 < i + 1)
  BY <1>5
<1>8. /\ \A j \in 1 .. Len(cmds) :
           j < i + 1 /\ IsData(cmds[j]) /\ cmds[j].s = cmds[i + 1].s => cmds[j].f < cmds[i + 1].f
      /\ \A f \in Frames : Behind(cmds[i + 1].s, f) # 0 => f < cmds[i + 1].f
      /\ cmds[i + 1].hint # NoHint => cmds[i + 1].s = Meta /\ use # "live"
  BY <1>7 DEF OrderInv
<1>9. cmds[i + 1].s \in Streams
  BY <1>1, <1>7, DataIs
<1>10. ASSUME NEW f \in Frames, Behind(cmds[i].s, f)' # 0 PROVE f < cmds'[i].f
  <2>0. PICK s \in Streams : s = cmds[i + 1].s
    BY <1>9
  <2>1. Behind(s, f)' # 0
    <3>1. Behind(cmds[i].s, f)' = Hits(ch'.q, NodeOf(cmds'[i].s, f)) + Hits(cbs', SlotsOf(cmds'[i].s, f))
      BY DEF Behind
    <3>2. cmds'[i].s = s
      BY <1>7, <2>0
    <3>3. Hits(ch'.q, NodeOf(s, f)) + Hits(cbs', SlotsOf(s, f)) # 0
      BY <1>10, <3>1, <3>2
    <3> QED BY <3>3 DEF Behind
  <2>2. Behind(s, f) # 0 \/ (IsData(c) /\ c.s = s /\ c.f = f)
    BY <1>6, <2>1
  <2>3. CASE Behind(s, f) # 0
    BY <1>7, <1>8, <2>0, <2>3
  <2>4. CASE IsData(c) /\ c.s = s /\ c.f = f
    BY <1>5, <1>7, <1>8, <2>0, <2>4
  <2> QED BY <2>2, <2>3, <2>4
<1>11. \A j \in 1 .. Len(cmds') :
         j < i /\ IsData(cmds'[j]) /\ cmds'[j].s = cmds'[i].s => cmds'[j].f < cmds'[i].f
  BY <1>7, <1>8
<1> QED BY <1>7, <1>8, <1>10, <1>11

\* What holds of the frames and of the queue between two steps.
FrameInv == OrderInv /\ QueueInv /\ BundleInv /\ RequestInv

LEMMA FreshHead ==
  ASSUME TypeInv, OrderInv, cmds # <<>>, IsData(Head(cmds))
  PROVE  /\ Fresh(ch, Head(cmds)) /\ Head(cmds) \in Data
         /\ \A i \in 1 .. Len(cbs) : cbs[i][Head(cmds).s] < Head(cmds).f
<1> DEFINE c == Head(cmds)
<1>1. cmds \in Seq(Commands) /\ Len(cmds) \in Nat /\ 1 \in 1 .. Len(cmds) /\ c = cmds[1]
  <2>1. cmds \in Seq(Commands) /\ Len(cmds) \in Nat /\ Len(cmds) # 0
    BY LenProperties, EmptySeq DEF TypeInv
  <2> QED BY <2>1
<1> HIDE DEF c
<1>2. /\ c \in Data /\ c.s \in Streams /\ c.f \in Nat /\ c.f # 0
      /\ \A f \in Frames : Behind(c.s, f) # 0 => f < c.f
  <2>1. IsData(cmds[1])
    BY <1>1 DEF c
  <2>2. cmds[1] \in Data
    BY <1>1, <2>1, DataIs
  <2> QED BY <1>1, <2>1, <2>2, DataTypes DEF OrderInv
<1>3. ASSUME NEW i \in 1 .. Len(ch.q) PROVE ch.q[i].slot[c.s] < c.f
  <2>1. ch.q[i].slot[c.s] \in {0} \cup Frames
    BY <1>2, NodeTypes DEF TypeInv
  <2>2. CASE ch.q[i].slot[c.s] = 0
    BY <1>2, <2>2
  <2>3. CASE ch.q[i].slot[c.s] \in Frames
    <3>1. Behind(c.s, ch.q[i].slot[c.s]) # 0
      BY <1>2, <2>3, BehindIs
    <3> QED BY <1>2, <2>3, <3>1
  <2> QED BY <2>1, <2>2, <2>3
<1>4. ASSUME NEW i \in 1 .. Len(cbs) PROVE cbs[i][c.s] < c.f
  <2>1. cbs[i][c.s] \in {0} \cup Frames
    <3>1. cbs[i] \in Slots
      BY ElementOfSeq DEF TypeInv
    <3> QED BY <1>2, <3>1 DEF Slots
  <2>2. CASE cbs[i][c.s] = 0
    BY <1>2, <2>2
  <2>3. CASE cbs[i][c.s] \in Frames
    <3>1. Behind(c.s, cbs[i][c.s]) # 0
      BY <1>2, <2>3, BehindIs
    <3> QED BY <1>2, <2>3, <3>1
  <2> QED BY <2>1, <2>2, <2>3
<1> QED BY <1>2, <1>3, <1>4 DEF Fresh, c

(* In normal priority what is dispatched is of one frame, and in order.    *)
LEMMA DispatchedGood ==
  ASSUME ~Low, NEW e \in Channels, NEW c \in Channels, NEW m \in Nat, NEW x \in Nat, NEW n \in Nat,
         GoodQueue(e, m), Passed(e, c, m, x, n)
  PROVE  /\ Len(c.dispatched) = n
         /\ \A i \in 1 .. n : \A s \in Streams : c.dispatched[i][s] = c.dispatched[i][Meta]
                                                 /\ c.dispatched[i][s] # 0
         /\ \A i \in 1 .. n : c.dispatched[i][Meta] \in FrameIdx(e.q)
         /\ \A i, j \in 1 .. n : i < j => c.dispatched[i][Meta] < c.dispatched[j][Meta]
         /\ \A i \in 1 .. n, j \in 1 .. Len(c.q) : c.dispatched[i][Meta] < c.q[j].frame_idx
         /\ FrameIdx(c.q) \subseteq FrameIdx(e.q)
<1>1. /\ Split(e.q, m) /\ Sorted(e.q) /\ \A i \in 1 .. Len(e.q) : Shaped(e.q[i])
      /\ m <= Len(e.q) /\ Len(e.q) \in Nat /\ Len(c.q) \in Nat
  BY FieldTypes DEF GoodQueue, GoodNodes, Split
<1>2. /\ x + n <= m /\ Len(c.dispatched) = n
      /\ \A i \in 1 .. n : c.dispatched[i] = e.q[x + i].slot
      /\ Len(c.q) = Len(e.q) - x - n
      /\ \A i \in 1 .. Len(c.q) : c.q[i] = e.q[x + n + i]
  BY DEF Passed
<1>3. \A i \in 1 .. n : x + i \in 1 .. Len(e.q) /\ x + i <= m
  BY <1>1, <1>2
<1>4. \A i \in 1 .. Len(c.q) : x + n + i \in 1 .. Len(e.q)
  BY <1>1, <1>2
<1>5. ASSUME NEW i \in 1 .. n, NEW s \in Streams
      PROVE  c.dispatched[i][s] = e.q[x + i].frame_idx /\ c.dispatched[i][s] # 0
  <2>1. e.q[x + i].matched
    BY <1>1, <1>3 DEF Split
  <2>2. Shaped(e.q[x + i])
    BY <1>1, <1>3
  <2>3. e.q[x + i].slot[s] # 0 /\ e.q[x + i].slot[s] \in {0, e.q[x + i].frame_idx}
    BY <2>1, <2>2 DEF Shaped
  <2> QED BY <1>2, <2>3
<1>6. Meta \in Streams
  BY Constants
<1>7. ASSUME NEW i \in 1 .. n, NEW j \in 1 .. n, i < j
      PROVE  c.dispatched[i][Meta] < c.dispatched[j][Meta]
  <2>1. x + i < x + j
    BY <1>7
  <2>2. e.q[x + i].frame_idx < e.q[x + j].frame_idx
    BY <1>1, <1>3, <2>1 DEF Sorted
  <2> QED BY <1>5, <1>6, <2>2
<1>8. ASSUME NEW i \in 1 .. n, NEW j \in 1 .. Len(c.q)
      PROVE  c.dispatched[i][Meta] < c.q[j].frame_idx
  <2>1. x + i < x + n + j
    OBVIOUS
  <2>2. e.q[x + i].frame_idx < e.q[x + n + j].frame_idx
    BY <1>1, <1>3, <1>4, <2>1 DEF Sorted
  <2> QED BY <1>2, <1>5, <1>6, <2>2
<1>9. \A i \in 1 .. n : c.dispatched[i][Meta] \in FrameIdx(e.q)
  BY <1>3, <1>5, <1>6 DEF FrameIdx
<1>10. FrameIdx(c.q) \subseteq FrameIdx(e.q)
  <2> SUFFICES ASSUME NEW i \in 1 .. Len(c.q) PROVE c.q[i].frame_idx \in FrameIdx(e.q)
    BY DEF FrameIdx
  <2>1. c.q[i].frame_idx = e.q[x + n + i].frame_idx
    BY <1>2
  <2> QED BY <1>4, <2>1 DEF FrameIdx
<1>11. \A i \in 1 .. n : \A s \in Streams : c.dispatched[i][s] = c.dispatched[i][Meta]
                                             /\ c.dispatched[i][s] # 0
  BY <1>5, <1>6
<1> QED BY <1>2, <1>7, <1>8, <1>9, <1>10, <1>11

LEMMA FrameCommand ==
  ASSUME RefsInv, FrameInv, ChannelCommand
  PROVE  FrameInv'
<1> DEFINE c == Head(cmds)
           b == process_stream_buf(ch, c)
<1>1. TypeInv /\ PlaceInv /\ StopInv /\ OrderInv /\ QueueInv /\ BundleInv /\ RequestInv
  BY DEF RefsInv, FrameInv
<1>2. OrderInv'
  BY <1>1, OrderCommand
<1>3. /\ cmds # <<>> /\ ch' = [b EXCEPT !.released = {}, !.dispatched = <<>>]
      /\ cbs' = cbs \o b.dispatched /\ use' = use /\ state' = state
  BY DEF ChannelCommand
<1>4. b \in Channels
  BY <1>1, CommandMoves
<1>5. /\ ch \in Channels /\ ch.dispatched = <<>> /\ cbs \in Seq(Slots) /\ use \in Uses
      /\ state # "stopped" /\ c \in Commands
  <2>1. c \in Commands
    BY <1>1, <1>3, HeadTailProperties DEF TypeInv
  <2> QED BY <1>1, <1>3, <2>1 DEF TypeInv, StopInv
<1>6. PICK k \in Nat : GoodQueue(ch, k)
  BY <1>1, <1>5 DEF QueueInv, Bounded
<1>7. c.type = "data" => Fresh(ch, c) /\ \A i \in 1 .. Len(cbs) : cbs[i][c.s] < c.f
  BY <1>1, <1>3, FreshHead DEF IsData
<1>8. Bounded(b) /\ (b.startZsl => b.pending_cnt > 0) /\ Origin(ch, c, b)
  <2>1. LiveIsTwo
    BY <1>5, LiveStreams
  <2>2. ch.startZsl => ch.pending_cnt > 0
    BY <1>1 DEF RequestInv
  <2> QED BY <1>5, <1>6, <1>7, <2>1, <2>2, ProcessGood
<1> HIDE DEF b
<1>9. /\ ch'.q = b.q /\ ch'.match_cnt = b.match_cnt /\ ch'.hung = b.hung
      /\ ch'.nomatch = b.nomatch /\ ch'.bWait = b.bWait
      /\ ch'.startZsl = b.startZsl /\ ch'.pending_cnt = b.pending_cnt
  BY <1>3, <1>4, FieldTypes DEF Fields
<1>10. QueueInv'
  <2>1. PICK j \in Nat : GoodQueue(b, j) /\ (Burst => j <= WaterMark) /\ (~Burst => j = 0)
    BY <1>8 DEF Bounded
  <2>2. /\ GoodNodes(b.q, j) /\ b.match_cnt = j /\ ~b.hung
        /\ (~Low => b.nomatch = 0) /\ (~Burst => ~b.bWait)
    BY <2>1 DEF GoodQueue
  <2>3. (GoodNodes(b.q, j) <=> GoodNodes(ch.q, j)') /\ (Low' <=> Low) /\ (Burst' <=> Burst)
    <3>1. (Low' <=> Low) /\ (Burst' <=> Burst)
      BY <1>3 DEF Low, Burst
    <3> QED BY <1>9, <3>1 DEF GoodNodes, Split, Shaped, Sorted
  <2>4. GoodQueue(ch, j)'
    BY <1>9, <2>2, <2>3 DEF GoodQueue
  <2>5. ~ch'.hung
    BY <1>9, <2>2
  <2> QED BY <2>1, <2>3, <2>4, <2>5 DEF QueueInv, Bounded
<1>11. RequestInv'
  BY <1>8, <1>9 DEF RequestInv
<1>12. ASSUME ~Low
       PROVE  /\ \A i \in 1 .. Len(cbs') : \A s \in Streams : cbs'[i][s] = cbs'[i][Meta] /\ cbs'[i][s] # 0
              /\ \A i, j \in 1 .. Len(cbs') : i < j => cbs'[i][Meta] < cbs'[j][Meta]
              /\ \A i \in 1 .. Len(cbs'), j \in 1 .. Len(b.q) : cbs'[i][Meta] < b.q[j].frame_idx
  <2>1. PICK e \in Channels, m \in Nat, x \in Nat, n \in Nat :
          /\ GoodQueue(e, m) /\ Passed(e, b, m, x, n)
          /\ \A g \in FrameIdx(e.q) : g \in FrameIdx(ch.q) \/ (c.type = "data" /\ g = c.f)
    BY <1>8 DEF Origin
  <2>2. /\ Len(b.dispatched) = n
        /\ \A i \in 1 .. n : \A s \in Streams : b.dispatched[i][s] = b.dispatched[i][Meta]
                                                /\ b.dispatched[i][s] # 0
        /\ \A i \in 1 .. n : b.dispatched[i][Meta] \in FrameIdx(e.q)
        /\ \A i, j \in 1 .. n : i < j => b.dispatched[i][Meta] < b.dispatched[j][Meta]
        /\ \A i \in 1 .. n, j \in 1 .. Len(b.q) : b.dispatched[i][Meta] < b.q[j].frame_idx
        /\ FrameIdx(b.q) \subseteq FrameIdx(e.q)
    BY <1>4, <1>12, <2>1, DispatchedGood
  <2>3. /\ \A i \in 1 .. Len(cbs) : \A s \in Streams : cbs[i][s] = cbs[i][Meta] /\ cbs[i][s] # 0
        /\ \A i, j \in 1 .. Len(cbs) : i < j => cbs[i][Meta] < cbs[j][Meta]
        /\ \A i \in 1 .. Len(cbs), j \in 1 .. Len(ch.q) : cbs[i][Meta] < ch.q[j].frame_idx
    BY <1>1, <1>12 DEF BundleInv
  <2>4. ASSUME NEW i \in 1 .. Len(cbs), NEW g \in FrameIdx(e.q) PROVE cbs[i][Meta] < g
    <3>1. CASE g \in FrameIdx(ch.q)
      BY <2>3, <3>1 DEF FrameIdx
    <3>2. CASE c.type = "data" /\ g = c.f
      <4>1. c \in Data /\ c.s \in Streams
        BY <1>5, <3>2, DataTypes DEF Data
      <4>2. cbs[i][c.s] < c.f
        BY <1>7, <3>2
      <4> QED BY <2>3, <3>2, <4>1, <4>2
    <3> QED BY <2>1, <3>1, <3>2
  <2>5. /\ Len(cbs) \in Nat /\ Len(cbs') = Len(cbs) + n
        /\ \A i \in 1 .. Len(cbs') : /\ i <= Len(cbs) => cbs'[i] = cbs[i]
                                     /\ ~(i <= Len(cbs)) => cbs'[i] = b.dispatched[i - Len(cbs)]
    <3>1. b.dispatched \in Seq(Slots) /\ Len(cbs) \in Nat
      BY <1>4, <1>5, FieldTypes, LenProperties
    <3>2. /\ Len(cbs \o b.dispatched) = Len(cbs) + Len(b.dispatched)
          /\ \A i \in 1 .. Len(cbs) + Len(b.dispatched) : (cbs \o b.dispatched)[i] =
                IF i <= Len(cbs) THEN cbs[i] ELSE b.dispatched[i - Len(cbs)]
      BY <1>5, <3>1, ConcatProperties
    <3> QED BY <1>3, <2>2, <3>1, <3>2
  <2>6. \A i \in 1 .. Len(cbs') : /\ i <= Len(cbs) => i \in 1 .. Len(cbs)
                                  /\ ~(i <= Len(cbs)) => i - Len(cbs) \in 1 .. n
    BY <2>5
  <2>7. ASSUME NEW i \in 1 .. Len(cbs'), NEW s \in Streams
        PROVE  cbs'[i][s] = cbs'[i][Meta] /\ cbs'[i][s] # 0
    <3>1. CASE i <= Len(cbs)
      BY <2>3, <2>5, <2>6, <3>1
    <3>2. CASE ~(i <= Len(cbs))
      BY <2>2, <2>5, <2>6, <3>2
    <3> QED BY <3>1, <3>2
  <2>8. ASSUME NEW i \in 1 .. Len(cbs'), NEW j \in 1 .. Len(cbs'), i < j
        PROVE  cbs'[i][Meta] < cbs'[j][Meta]
    <3>1. CASE j <= Len(cbs)
      <4>1. i <= Len(cbs)
        BY <2>5, <2>8, <3>1
      <4> QED BY <2>3, <2>5, <2>6, <2>8, <3>1, <4>1
    <3>2. CASE i <= Len(cbs) /\ ~(j <= Len(cbs))
      <4>1. cbs'[j][Meta] \in FrameIdx(e.q)
        BY <2>2, <2>5, <2>6, <3>2
      <4> QED BY <2>4, <2>5, <2>6, <3>2, <4>1
    <3>3. CASE ~(i <= Len(cbs)) /\ ~(j <= Len(cbs))
      <4>1. i - Len(cbs) < j - Len(cbs)
        BY <2>5, <2>8
      <4>2. i - Len(cbs) \in 1 .. n /\ j - Len(cbs) \in 1 .. n
        BY <2>6, <3>3
      <4>3. b.dispatched[i - Len(cbs)][Meta] < b.dispatched[j - Len(cbs)][Meta]
        BY <2>2, <4>1, <4>2
      <4> QED BY <2>5, <3>3, <4>3
    <3> QED BY <3>1, <3>2, <3>3
  <2>9. ASSUME NEW i \in 1 .. Len(cbs'), NEW j \in 1 .. Len(b.q)
        PROVE  cbs'[i][Meta] < b.q[j].frame_idx
    <3>1. CASE i <= Len(cbs)
      <4>1. b.q[j].frame_idx \in FrameIdx(e.q)
        BY <2>2 DEF FrameIdx
      <4> QED BY <2>4, <2>5, <2>6, <3>1, <4>1
    <3>2. CASE ~(i <= Len(cbs))
      BY <2>2, <2>5, <2>6, <3>2
    <3> QED BY <3>1, <3>2
  <2> QED BY <2>7, <2>8, <2>9
<1>13. BundleInv'
  <2>1. Low' <=> Low
    BY <1>3 DEF Low
  <2> QED BY <1>9, <1>12, <2>1 DEF BundleInv
<1> QED BY <1>2, <1>10, <1>11, <1>13 DEF FrameInv

LEMMA QueueSame ==
  ASSUME QueueInv, UNCHANGED <<use, ch>>, state' = "stopped" \/ state # "stopped"
  PROVE  QueueInv'
<1>1. (Low' <=> Low) /\ (Burst' <=> Burst)
  BY DEF Low, Burst
<1> QED BY <1>1 DEF QueueInv, Bounded, GoodQueue, GoodNodes, Split, Shaped, Sorted

\* Steps that touch neither queues nor the channel.
LEMMA FrameSame ==
  ASSUME TypeInv, FrameInv, UNCHANGED <<use, state, cmds, ch, cbs>>
  PROVE  FrameInv'
<1>1. OrderInv'
  <2>1. \A s \in Streams, f \in Frames : Behind(s, f)' # 0 => Behind(s, f) # 0
    BY DEF Behind
  <2> QED BY <2>1, OrderSame DEF FrameInv
<1>2. QueueInv'
  <2>1. CASE state = "stopped"
    BY <2>1, QueueSame DEF FrameInv
  <2>2. CASE state # "stopped"
    BY <2>2, QueueSame DEF FrameInv
  <2> QED BY <2>1, <2>2
<1>3. BundleInv' /\ RequestInv'
  BY DEF FrameInv, BundleInv, RequestInv, Low
<1> QED BY <1>1, <1>2, <1>3 DEF FrameInv

LEMMA FrameAppend ==
  ASSUME TypeInv, FrameInv, NEW c \in Commands, ~IsData(c), cmds' = Append(cmds, c),
         UNCHANGED <<use, state, ch, cbs>>
  PROVE  FrameInv'
<1>1. OrderInv'
  BY OrderAppend DEF FrameInv
<1>2. QueueInv'
  <2>1. CASE state = "stopped"
    BY <2>1, QueueSame DEF FrameInv
  <2>2. CASE state # "stopped"
    BY <2>2, QueueSame DEF FrameInv
  <2> QED BY <2>1, <2>2
<1>3. BundleInv' /\ RequestInv'
  BY DEF FrameInv, BundleInv, RequestInv, Low
<1> QED BY <1>1, <1>2, <1>3 DEF FrameInv

LEMMA SentCommand ==
  ASSUME Request \/ Cancel \/ Flush
  PROVE  \E c \in Commands : ~IsData(c) /\ Send(c)
<1>1. CASE Request
  <2>1. PICK num \in 1 .. MaxNum, retro \in 0 .. MaxNum :
          Send([type |-> "req", num |-> num, retro |-> retro])
    BY <1>1 DEF Request
  <2>2. [type |-> "req", num |-> num, retro |-> retro] \in Commands
    BY Constants DEF Commands
  <2> QED BY <2>1, <2>2 DEF IsData
<1>2. CASE Cancel
  <2>1. [type |-> "req", num |-> 0, retro |-> 0] \in Commands
    BY Constants DEF Commands
  <2> QED BY <1>2, <2>1 DEF Cancel, IsData
<1>3. CASE Flush
  <2>1. PICK f \in Frames : Send([type |-> "flush", f |-> f])
    BY <1>3 DEF Flush
  <2>2. [type |-> "flush", f |-> f] \in Commands
    BY DEF Commands
  <2> QED BY <2>1, <2>2 DEF IsData
<1> QED BY <1>1, <1>2, <1>3

LEMMA FrameSuperBufCb ==
  ASSUME RefsInv, FrameInv, SuperBufCb
  PROVE  FrameInv'
<1>1. TypeInv /\ OrderInv /\ QueueInv /\ BundleInv /\ RequestInv
  BY DEF RefsInv, FrameInv
<1>2. /\ cbs # <<>> /\ cbs' = Tail(cbs) /\ cbs \in Seq(Slots)
      /\ UNCHANGED <<use, state, cmds, ch>>
  BY <1>1 DEF SuperBufCb, TypeInv
<1>3. /\ Len(cbs) \in Nat /\ Len(cbs') = Len(cbs) - 1
      /\ \A i \in 1 .. Len(cbs') : cbs'[i] = cbs[i + 1]
  BY <1>2, LenProperties, HeadTailProperties
<1>4. \A i \in 1 .. Len(cbs') : i + 1 \in 1 .. Len(cbs)
  BY <1>3
<1>5. OrderInv'
  <2>1. ASSUME NEW s \in Streams, NEW f \in Frames, Behind(s, f)' # 0 PROVE Behind(s, f) # 0
    <3>1. /\ Hits(cbs, SlotsOf(s, f)) = Bit(Head(cbs) \in SlotsOf(s, f)) + Hits(cbs', SlotsOf(s, f))
          /\ cbs' \in Seq(Slots)
      BY <1>2, HitsTail
    <3>2. Hits(cbs', SlotsOf(s, f)) \in Nat /\ Bit(Head(cbs) \in SlotsOf(s, f)) \in Nat
      BY <3>1, HitsType DEF Bit
    <3>3. Hits(ch.q, NodeOf(s, f)) \in Nat
      BY <1>1, AccountType DEF TypeInv
    <3>4. Behind(s, f)' = Hits(ch.q, NodeOf(s, f)) + Hits(cbs', SlotsOf(s, f))
      BY <1>2 DEF Behind
    <3> QED BY <2>1, <3>1, <3>2, <3>3, <3>4 DEF Behind
  <2> QED BY <1>1, <1>2, <2>1, OrderSame
<1>6. QueueInv'
  <2>1. CASE state = "stopped"
    BY <1>1, <1>2, <2>1, QueueSame
  <2>2. CASE state # "stopped"
    BY <1>1, <1>2, <2>2, QueueSame
  <2> QED BY <2>1, <2>2
<1>7. BundleInv'
  <2>0. (Low' <=> Low) /\ ch' = ch
    BY <1>2 DEF Low
  <2>1. ASSUME ~Low
        PROVE  /\ \A i \in 1 .. Len(cbs') : \A s \in Streams : cbs'[i][s] = cbs'[i][Meta] /\ cbs'[i][s] # 0
               /\ \A i, j \in 1 .. Len(cbs') : i < j => cbs'[i][Meta] < cbs'[j][Meta]
               /\ \A i \in 1 .. Len(cbs'), j \in 1 .. Len(ch.q) : cbs'[i][Meta] < ch.q[j].frame_idx
    <3>1. /\ \A i \in 1 .. Len(cbs) : \A s \in Streams : cbs[i][s] = cbs[i][Meta] /\ cbs[i][s] # 0
          /\ \A i, j \in 1 .. Len(cbs) : i < j => cbs[i][Meta] < cbs[j][Meta]
          /\ \A i \in 1 .. Len(cbs), j \in 1 .. Len(ch.q) : cbs[i][Meta] < ch.q[j].frame_idx
      BY <1>1, <2>1 DEF BundleInv
    <3>2. \A i, j \in 1 .. Len(cbs') : i < j => i + 1 < j + 1
      OBVIOUS
    <3> QED BY <1>3, <1>4, <3>1, <3>2
  <2> QED BY <2>0, <2>1 DEF BundleInv
<1>8. RequestInv'
  BY <1>1, <1>2 DEF RequestInv
<1> QED BY <1>5, <1>6, <1>7, <1>8 DEF FrameInv

LEMMA FrameStopped ==
  ASSUME RefsInv, FrameInv, Stopped
  PROVE  FrameInv'
<1>1. /\ cmds = <<>> /\ cmds' = <<>> /\ cbs' = <<>> /\ state' = "stopped"
      /\ ~ch.hung /\ ch' = [ch EXCEPT !.q = <<>>]
  BY DEF Stopped
<1>2. /\ ch \in Channels /\ ch \in Fields
  BY FieldTypes DEF RefsInv, TypeInv
<1>3. /\ ~ch'.hung /\ ch'.startZsl = ch.startZsl /\ ch'.pending_cnt = ch.pending_cnt
  BY <1>1, <1>2 DEF Fields
<1>4. Len(cmds') = 0 /\ Len(cbs') = 0
  BY <1>1
<1>5. OrderInv' /\ BundleInv'
  BY <1>4 DEF OrderInv, BundleInv
<1>6. QueueInv' /\ RequestInv'
  BY <1>1, <1>3 DEF FrameInv, QueueInv, RequestInv
<1> QED BY <1>5, <1>6 DEF FrameInv

LEMMA FreshBounded ==
  /\ Bounded(FreshChannel) /\ ~FreshChannel.hung /\ ~FreshChannel.startZsl
  /\ FreshChannel.q = <<>>
<1>1. /\ FreshChannel.q = <<>> /\ FreshChannel.match_cnt = 0 /\ ~FreshChannel.hung
      /\ FreshChannel.nomatch = 0 /\ ~FreshChannel.bWait /\ ~FreshChannel.startZsl
  BY DEF FreshChannel
<1>2. Len(FreshChannel.q) = 0
  BY <1>1
<1>3. GoodNodes(FreshChannel.q, 0)
  BY <1>2, Constants DEF GoodNodes, Split, Sorted
<1>4. GoodQueue(FreshChannel, 0)
  BY <1>1, <1>3 DEF GoodQueue
<1> QED BY <1>1, <1>4, Constants DEF Bounded

LEMMA FrameInit == Init => FrameInv
<1> SUFFICES ASSUME Init PROVE FrameInv
  OBVIOUS
<1>1. ch = FreshChannel /\ Len(cmds) = 0 /\ Len(cbs) = 0
  BY DEF Init
<1>2. OrderInv /\ BundleInv
  BY <1>1 DEF OrderInv, BundleInv
<1>3. QueueInv /\ RequestInv
  BY <1>1, FreshBounded DEF QueueInv, RequestInv
<1> QED BY <1>2, <1>3 DEF FrameInv

LEMMA FrameRestart ==
  ASSUME FrameInv, Restart
  PROVE  FrameInv'
<1>1. ch' = FreshChannel /\ cmds' = <<>> /\ cbs' = <<>> /\ use' = use
  BY DEF Restart
<1>2. Len(cmds') = 0 /\ Len(cbs') = 0
  BY <1>1
<1>3. OrderInv' /\ BundleInv'
  BY <1>2 DEF OrderInv, BundleInv
<1>4. Bounded(ch)'
  <2>1. (Low' <=> Low) /\ (Burst' <=> Burst)
    BY <1>1 DEF Low, Burst
  <2> QED BY <1>1, <2>1, FreshBounded DEF Bounded, GoodQueue, GoodNodes, Split, Shaped, Sorted
<1>5. QueueInv' /\ RequestInv'
  BY <1>1, <1>4, FreshBounded DEF QueueInv, RequestInv
<1> QED BY <1>3, <1>5 DEF FrameInv

LEMMA FrameNext == RefsInv /\ FrameInv /\ [Next]_vars => FrameInv'
<1> SUFFICES ASSUME RefsInv, FrameInv, [Next]_vars PROVE FrameInv'
  OBVIOUS
<1>0. TypeInv
  BY DEF RefsInv
<1>1. ASSUME NEW s \in Streams, Deliver(s) PROVE FrameInv'
  <2>1. UNCHANGED <<use, state, ch, cbs>>
    BY <1>1 DEF Deliver
  <2>2. OrderInv'
    BY <1>1, OrderDeliver DEF FrameInv
  <2>3. QueueInv'
    <3>1. CASE state = "stopped"
      BY <2>1, <3>1, QueueSame DEF FrameInv
    <3>2. CASE state # "stopped"
      BY <2>1, <3>2, QueueSame DEF FrameInv
    <3> QED BY <3>1, <3>2
  <2>4. BundleInv' /\ RequestInv'
    BY <2>1 DEF FrameInv, BundleInv, RequestInv, Low
  <2> QED BY <2>2, <2>3, <2>4 DEF FrameInv
<1>2. ASSUME NEW s \in Streams, Return(s) PROVE FrameInv'
  BY <1>0, <1>2, FrameSame DEF Return
<1>3. ASSUME NEW s \in Streams, StopStream(s) PROVE FrameInv'
  BY <1>0, <1>3, FrameSame DEF StopStream
<1>4. CASE ChannelCommand
  BY <1>4, FrameCommand
<1>5. CASE SuperBufCb
  BY <1>5, FrameSuperBufCb
<1>6. CASE AppData
  BY <1>0, <1>6, FrameSame DEF AppData
<1>7. CASE AppDataDone
  BY <1>0, <1>7, FrameSame DEF AppDataDone
<1>8. CASE Request \/ Cancel \/ Flush
  <2>1. PICK c \in Commands : ~IsData(c) /\ Send(c)
    BY <1>8, SentCommand
  <2> QED BY <1>0, <2>1, FrameAppend DEF Send
<1>9. CASE Stop
  <2>1. UNCHANGED <<use, cmds, ch, cbs>> /\ state = "active"
    BY <1>9 DEF Stop
  <2>2. OrderInv'
    <3>1. \A s \in Streams, f \in Frames : Behind(s, f)' # 0 => Behind(s, f) # 0
      BY <2>1 DEF Behind
    <3> QED BY <1>0, <2>1, <3>1, OrderSame DEF FrameInv
  <2>3. QueueInv'
    BY <2>1, QueueSame DEF FrameInv
  <2>4. BundleInv' /\ RequestInv'
    BY <2>1 DEF FrameInv, BundleInv, RequestInv, Low
  <2> QED BY <2>2, <2>3, <2>4 DEF FrameInv
<1>10. CASE Unlink
  <2>1. [type |-> "flush", f |-> 0] \in Commands
    BY DEF Commands
  <2>2. /\ cmds' = Append(cmds, [type |-> "flush", f |-> 0]) /\ UNCHANGED <<use, state, ch, cbs>>
    BY <1>10 DEF Unlink
  <2> QED BY <1>0, <2>1, <2>2, FrameAppend DEF IsData
<1>11. CASE Stopped
  BY <1>11, FrameStopped
<1>12. CASE Restart
  BY <1>12, FrameRestart
<1>13. CASE UNCHANGED vars
  BY <1>0, <1>13, FrameSame DEF vars
<1> QED BY <1>1, <1>2, <1>3, <1>4, <1>5, <1>6, <1>7, <1>8, <1>9, <1>10, <1>11, <1>12, <1>13 DEF Next

LEMMA FramesAlways == Spec => [](RefsInv /\ FrameInv)
<1>1. Init => RefsInv /\ FrameInv
  BY RefsInit, FrameInit
<1>2. (RefsInv /\ FrameInv) /\ [Next]_vars => (RefsInv /\ FrameInv)'
  BY RefsNext, FrameNext
<1> QED BY <1>1, <1>2, PTL DEF Spec

(* The counter that the loops on the queue believe is right, and the matched
   nodes come first, so that mm_channel_superbuf_bufdone_overflow and
   mm_channel_superbuf_skip always end.                                    *)
THEOREM LoopsEnd == Spec => []QueueConsistent
<1>1. RefsInv /\ FrameInv => QueueConsistent
  <2> SUFFICES ASSUME RefsInv, FrameInv PROVE QueueConsistent
    OBVIOUS
  <2>1. ch.q \in Seq(Nodes) /\ ~ch.hung /\ MaxUnmatched \in Nat
    BY FieldTypes, Constants DEF RefsInv, TypeInv, FrameInv, QueueInv
  <2>2. CASE state = "stopped"
    <3>1. Len(ch.q) = 0 /\ ch.q = <<>>
      BY <2>2 DEF RefsInv, StopInv
    <3>2. Split(ch.q, 0)
      BY <3>1 DEF Split
    <3>3. Matched(ch.q) = 1 .. 0 /\ Ready(ch.q) = 0 /\ Cardinality(Unmatched(ch.q)) = Len(ch.q) - 0
      BY <2>1, <3>2, SplitIs
    <3>4. Matched(ch.q) = 1 .. Ready(ch.q)
      BY <3>3
    <3>5. Cardinality(Unmatched(ch.q)) <= MaxUnmatched + 1
      BY <2>1, <3>1, <3>3
    <3> QED BY <2>1, <2>2, <3>4, <3>5 DEF QueueConsistent
  <2>3. CASE state # "stopped"
    <3>1. PICK k \in Nat : GoodQueue(ch, k)
      BY <2>3 DEF FrameInv, QueueInv, Bounded
    <3>2. Split(ch.q, k) /\ ch.match_cnt = k /\ Len(ch.q) - k <= MaxUnmatched + 1
      BY <3>1 DEF GoodQueue, GoodNodes
    <3>3. /\ Matched(ch.q) = 1 .. k /\ Ready(ch.q) = k /\ Cardinality(Matched(ch.q)) = k
          /\ Cardinality(Unmatched(ch.q)) = Len(ch.q) - k
      BY <2>1, <3>2, SplitIs
    <3> QED BY <2>1, <3>2, <3>3 DEF QueueConsistent
  <2> QED BY <2>2, <2>3
<1> QED BY <1>1, FramesAlways, PTL

(* startZsl is set and cleared in mm_channel_handle_zsl_snapshot and at the
   end of the dispatch loop: the sequence never outlives its request.      *)
THEOREM FlashEndsWithRequest == Spec => []ZslEndsWithRequest
<1>1. FrameInv => ZslEndsWithRequest
  BY DEF FrameInv, RequestInv, ZslEndsWithRequest
<1> QED BY <1>1, FramesAlways, PTL

(* Super buffers of a channel with normal priority are of one frame, and the
   HAL gets them in the order of frames.                                   *)
THEOREM BundlesAreOfOneFrame == Spec => []BundlesAgree
<1>1. RefsInv /\ FrameInv => BundlesAgree
  <2> SUFFICES ASSUME RefsInv, FrameInv, ~Low
               PROVE  /\ \A i \in DOMAIN Bundles : \A s, t \in Streams : Bundles[i][s] = Bundles[i][t]
                      /\ \A i, j \in DOMAIN Bundles : i < j => Bundles[i][Meta] < Bundles[j][Meta]
    BY DEF BundlesAgree
  <2>0. TypeInv /\ StopInv /\ QueueInv /\ BundleInv
    BY DEF RefsInv, FrameInv
  <2>1. cbs \in Seq(Slots) /\ Len(cbs) \in Nat /\ ch.q \in Seq(Nodes) /\ Meta \in Streams
    BY <2>0, FieldTypes, LenProperties, Constants DEF TypeInv
  <2>2. PICK k \in Nat : /\ Split(ch.q, k) /\ Sorted(ch.q)
                         /\ \A i \in 1 .. Len(ch.q) : Shaped(ch.q[i])
    <3>1. CASE state = "stopped"
      <4>1. Len(ch.q) = 0
        BY <2>0, <3>1 DEF StopInv
      <4>2. Split(ch.q, 0) /\ Sorted(ch.q) /\ \A i \in 1 .. Len(ch.q) : Shaped(ch.q[i])
        BY <4>1 DEF Split, Sorted
      <4> QED BY <4>2
    <3>2. CASE state # "stopped"
      BY <2>0, <3>2 DEF QueueInv, Bounded, GoodQueue, GoodNodes
    <3> QED BY <3>1, <3>2
  <2>3. Ready(ch.q) = k /\ k \in 0 .. Len(ch.q)
    BY <2>1, <2>2, SplitIs DEF Split
  <2> DEFINE sl == SlotsUpTo(ch.q, k)
  <2>4. /\ sl \in Seq(Slots) /\ Len(sl) = k /\ Bundles = cbs \o sl
        /\ \A i \in 1 .. k : sl[i] = ch.q[i].slot
    <3>1. Bundles = cbs \o sl
      BY <2>3 DEF Bundles, SlotsUpTo
    <3>2. \A i \in 1 .. k : sl[i] = ch.q[i].slot
      BY DEF SlotsUpTo
    <3> HIDE DEF sl
    <3>3. sl \in Seq(Slots) /\ Len(sl) = k
      BY <2>1, <2>3, SlotsHits DEF sl
    <3> QED BY <3>1, <3>2, <3>3
  <2> HIDE DEF sl
  <2>5. \A i \in 1 .. k : \A s \in Streams : sl[i][s] = ch.q[i].frame_idx
    <3> SUFFICES ASSUME NEW i \in 1 .. k, NEW s \in Streams PROVE ch.q[i].slot[s] = ch.q[i].frame_idx
      BY <2>4
    <3>1. i \in 1 .. Len(ch.q) /\ ch.q[i].matched
      BY <2>2, <2>3 DEF Split
    <3>2. Shaped(ch.q[i])
      BY <2>2, <3>1
    <3> QED BY <3>1, <3>2 DEF Shaped
  <2>6. /\ Len(Bundles) = Len(cbs) + k /\ DOMAIN Bundles = 1 .. Len(cbs) + k
        /\ \A i \in 1 .. Len(cbs) + k : /\ i <= Len(cbs) => Bundles[i] = cbs[i]
                                        /\ ~(i <= Len(cbs)) => Bundles[i] = sl[i - Len(cbs)]
    <3>1. /\ cbs \o sl \in Seq(Slots) /\ Len(cbs \o sl) = Len(cbs) + Len(sl)
          /\ \A i \in 1 .. Len(cbs) + Len(sl) : (cbs \o sl)[i] =
                IF i <= Len(cbs) THEN cbs[i] ELSE sl[i - Len(cbs)]
      BY <2>1, <2>4, ConcatProperties
    <3>2. DOMAIN (cbs \o sl) = 1 .. Len(cbs \o sl)
      BY <3>1, LenProperties
    <3> QED BY <2>4, <3>1, <3>2
  <2>7. \A i \in 1 .. Len(cbs) + k : /\ i <= Len(cbs) => i \in 1 .. Len(cbs)
                                     /\ ~(i <= Len(cbs)) => i - Len(cbs) \in 1 .. k
    BY <2>1
  <2>8. /\ \A i \in 1 .. Len(cbs) : \A s \in Streams : cbs[i][s] = cbs[i][Meta]
        /\ \A i, j \in 1 .. Len(cbs) : i < j => cbs[i][Meta] < cbs[j][Meta]
        /\ \A i \in 1 .. Len(cbs), j \in 1 .. Len(ch.q) : cbs[i][Meta] < ch.q[j].frame_idx
    BY <2>0 DEF BundleInv
  <2>9. ASSUME NEW i \in 1 .. Len(cbs) + k, NEW s \in Streams PROVE Bundles[i][s] = Bundles[i][Meta]
    <3>1. CASE i <= Len(cbs)
      BY <2>6, <2>7, <2>8, <3>1
    <3>2. CASE ~(i <= Len(cbs))
      BY <2>1, <2>5, <2>6, <2>7, <3>2
    <3> QED BY <3>1, <3>2
  <2>10. ASSUME NEW i \in 1 .. Len(cbs) + k, NEW j \in 1 .. Len(cbs) + k, i < j
         PROVE  Bundles[i][Meta] < Bundles[j][Meta]
    <3>1. CASE j <= Len(cbs)
      <4>1. i <= Len(cbs)
        BY <2>1, <2>10, <3>1
      <4> QED BY <2>6, <2>7, <2>8, <2>10, <3>1, <4>1
    <3>2. CASE i <= Len(cbs) /\ ~(j <= Len(cbs))
      <4>1. j - Len(cbs) \in 1 .. Len(ch.q) /\ j - Len(cbs) \in 1 .. k
        BY <2>1, <2>3, <2>7, <3>2
      <4>2. cbs[i][Meta] < ch.q[j - Len(cbs)].frame_idx
        BY <2>7, <2>8, <3>2, <4>1
      <4> QED BY <2>1, <2>5, <2>6, <3>2, <4>1, <4>2
    <3>3. CASE ~(i <= Len(cbs)) /\ ~(j <= Len(cbs))
      <4>1. i - Len(cbs) < j - Len(cbs)
        BY <2>1, <2>10
      <4>2. i - Len(cbs) \in 1 .. k /\ j - Len(cbs) \in 1 .. k
            /\ i - Len(cbs) \in 1 .. Len(ch.q) /\ j - Len(cbs) \in 1 .. Len(ch.q)
        BY <2>1, <2>3, <2>7, <3>3
      <4>3. ch.q[i - Len(cbs)].frame_idx < ch.q[j - Len(cbs)].frame_idx
        BY <2>2, <4>1, <4>2 DEF Sorted
      <4> QED BY <2>1, <2>5, <2>6, <3>3, <4>2, <4>3
    <3> QED BY <3>1, <3>2, <3>3
  <2> QED BY <2>6, <2>9, <2>10
<1> QED BY <1>1, FramesAlways, PTL

-----------------------------------------------------------------------------
(* Buffers come back.                                                      *)

\* What nobody but the queue refers to is in one of its nodes.
LEMMA InQueueOnly ==
  ASSUME RefsInv, NEW s \in on, cmds = <<>>, cbs = <<>>, scmds = <<>>, scb = 0,
         \A f \in Frames : held[s][f] = 0
  PROVE  kernel[s] >= NumBufs - Len(ch.q) /\ kernel[s] \in Int
<1>1. TypeInv /\ CountInv /\ KernelInv /\ s \in Streams
  BY DEF RefsInv, TypeInv
<1>2. ch.q \in Seq(Nodes) /\ Len(ch.q) \in Nat /\ DOMAIN ch.q = 1 .. Len(ch.q)
  BY <1>1, FieldTypes DEF TypeInv
<1> DEFINE busy == {f \in Frames : refcnt[s][f] > 0}
           at == {i \in 1 .. Len(ch.q) : ch.q[i].slot[s] \in busy}
           g == [i \in at |-> ch.q[i].slot[s]]
<1>3. ASSUME NEW f \in busy PROVE \E i \in at : g[i] = f
  <2>1. f \in Frames /\ refcnt[s][f] > 0
    OBVIOUS
  <2>2. InChannel(s, f) = Hits(ch.q, NodeOf(s, f))
    <3>1. Hits(cmds, DataOf(s, f)) = 0 /\ Hits(cbs, SlotsOf(s, f)) = 0
      BY HitsNone
    <3>2. Hits(ch.q, NodeOf(s, f)) \in Nat
      BY <1>2, HitsType
    <3> QED BY <3>1, <3>2 DEF InChannel
  <2>3. Aside(s, f) = 0
    BY <2>1, HitsNone, Constants DEF Aside, Bit
  <2>4. Hits(ch.q, NodeOf(s, f)) # 0
    <3>1. refcnt[s][f] = Hits(ch.q, NodeOf(s, f)) + held[s][f] + Aside(s, f)
      BY <1>1, <2>1, <2>2 DEF CountInv, Count
    <3>2. Hits(ch.q, NodeOf(s, f)) \in Nat
      BY <1>2, HitsType
    <3> QED BY <2>1, <2>3, <3>1, <3>2
  <2>5. PICK i \in 1 .. Len(ch.q) : ch.q[i] \in NodeOf(s, f)
    BY <1>2, <2>4, HitsType
  <2>6. ch.q[i].slot[s] = f
    BY <2>5 DEF NodeOf
  <2> QED BY <2>6
<1>4. IsFiniteSet(1 .. Len(ch.q)) /\ Cardinality(1 .. Len(ch.q)) = Len(ch.q)
  BY <1>2, FS_Interval
<1>5. IsFiniteSet(at) /\ Cardinality(at) <= Len(ch.q) /\ Cardinality(at) \in Nat
  <2>1. at \in SUBSET (1 .. Len(ch.q))
    OBVIOUS
  <2>2. IsFiniteSet(at) /\ Cardinality(at) <= Len(ch.q)
    BY <1>4, <2>1, FS_Subset
  <2> QED BY <2>2, FS_CardinalityType
<1>6. g \in Surjection(at, busy)
  <2>1. g \in [at -> busy]
    OBVIOUS
  <2> HIDE DEF g, at, busy
  <2> QED BY <1>3, <2>1 DEF Surjection
<1> HIDE DEF g, at
<1>7. IsFiniteSet(busy) /\ Cardinality(busy) <= Len(ch.q) /\ Cardinality(busy) \in Nat
  <2>1. IsFiniteSet(busy) /\ Cardinality(busy) <= Cardinality(at)
    BY <1>5, <1>6, FS_Surjection
  <2>2. Cardinality(busy) \in Nat
    BY <2>1, FS_CardinalityType
  <2> QED BY <1>2, <1>5, <2>1, <2>2
<1>8. kernel[s] + Cardinality(busy) = NumBufs
  BY <1>1 DEF KernelInv
<1>9. kernel[s] \in Int /\ NumBufs \in Nat
  BY <1>1, Constants DEF TypeInv
<1> HIDE DEF busy
<1> QED BY <1>2, <1>7, <1>8, <1>9

\* The queue has at most the matched nodes of the water mark and the unmatched
\* ones that are allowed.
LEMMA QueueLength ==
  ASSUME RefsInv, QueueInv, state # "stopped"
  PROVE  Len(ch.q) <= WaterMark + MaxUnmatched + 1 /\ Len(ch.q) \in Nat
<1>1. PICK k \in Nat : GoodQueue(ch, k) /\ (Burst => k <= WaterMark) /\ (~Burst => k = 0)
  BY DEF QueueInv, Bounded
<1>2. Len(ch.q) - k <= MaxUnmatched + 1
  BY <1>1 DEF GoodQueue, GoodNodes
<1>3. Len(ch.q) \in Nat
  BY FieldTypes DEF RefsInv, TypeInv
<1> QED BY <1>1, <1>2, <1>3, Constants

(* BuffersComeBack, for a stream with more buffers than the queue can keep:
   getBufNumRequired (QCamera2HWI.cpp:1529) gives the streams of the ZSL channel
   the depth of its queue, the unmatched frames allowed and at least
   CAMERA_MIN_JPEG_ENCODING_BUFFERS (two) more.                            *)
THEOREM AllBuffersComeBack ==
  ASSUME NumBufs > WaterMark + MaxUnmatched + 1
  PROVE  Spec => []BuffersComeBack
<1>1. RefsInv /\ FrameInv => NeverStarved
  <2> SUFFICES ASSUME RefsInv, FrameInv,
                      state = "active", cmds = <<>>, cbs = <<>>, scmds = <<>>, scb = 0,
                      \A s \in Streams, f \in Frames : held[s][f] = 0,
                      NEW s \in Streams
               PROVE  kernel[s] > 0
    BY DEF NeverStarved
  <2>1. s \in on
    BY DEF RefsInv, StopInv
  <2>2. kernel[s] >= NumBufs - Len(ch.q) /\ kernel[s] \in Int
    BY <2>1, InQueueOnly
  <2>3. Len(ch.q) <= WaterMark + MaxUnmatched + 1 /\ Len(ch.q) \in Nat
    BY QueueLength DEF FrameInv
  <2> QED BY <2>2, <2>3, Constants
<1>2. RefsInv => LentMetadataComesBack
  BY LentComesBack
<1>3. RefsInv /\ FrameInv => BuffersComeBack
  BY <1>1, <1>2 DEF BuffersComeBack
<1> QED BY <1>3, FramesAlways, PTL

-----------------------------------------------------------------------------
(* Nothing is dispatched while future frames are awaited.                  *)

\* Metadata that leaves the channel waiting empties the queue and refuses every
\* frame there can be.
LEMMA AwaitData ==
  ASSUME NEW b \in Channels, NEW d \in Data, b.burstSnapNum <= 1, d.hint.good = 0,
         d.hint.prep = "future" => d.s = Meta /\ ~Linked(d.s),
         d.hint.prep = "future" \/ (b.q = <<>> /\ b.expected > MaxFrame)
  PROVE  LET c == comp_and_enqueue(b, d)
         IN  c.q = <<>> /\ c.expected > MaxFrame
<1> DEFINE m == handle_metadata(b, d)
           c == comp_and_enqueue(b, d)
<1>1. /\ d.f \in Frames /\ d.f \in Nat /\ d.f <= MaxFrame /\ MaxFrame \in Nat
      /\ d.hint.prep \in {"none", "done", "future"} /\ d.hint.good \in {0} \cup Frames
  BY DataTypes, Constants DEF Frames
<1>2. b.expected \in Nat /\ b.burstSnapNum \in Nat
  BY FieldTypes
<1>3. m \in Channels /\ m.q = <<>> /\ m.expected > MaxFrame
  <2>1. CASE d.s = Meta /\ ~Linked(d.s)
    <3> DEFINE p == PrepDone(b, d.hint.prep)
               g == GoodRange(p, d.hint.good)
               l == LedOff(g, d.f)
    <3>1. /\ p \in Channels /\ SameControl(b, p)
          /\ d.hint.prep = "none" => p = b
          /\ d.hint.prep = "done" => p.q = b.q /\ p.expected = b.expected
          /\ d.hint.prep = "future" => p.q = <<>> /\ p.expected = Capped(b.expected + FutureOffset)
      BY <1>1, PrepDoneKeeps
    <3>2. g \in Channels /\ SameBufs(p, g) /\ SameControl(p, g) /\ g.expected = p.expected
      <4> HIDE DEF p
      <4> QED BY <1>1, <3>1, GoodRangeKeeps
    <3>3. g.burstSnapNum = b.burstSnapNum
      BY <3>1, <3>2 DEF SameControl
    <3>4. l = g
      <4> HIDE DEF p, g
      <4> QED BY <3>2, <3>3, LedOffKeeps
    <3>5. m = l
      BY <2>1 DEF handle_metadata
    <3>6. Capped(b.expected + FutureOffset) > MaxFrame
      BY <1>1, <1>2 DEF Capped, FutureOffset
    <3>7. p.q = <<>> /\ p.expected > MaxFrame
      BY <1>1, <3>1, <3>6
    <3>8. g.q = <<>> /\ g.expected > MaxFrame
      BY <3>2, <3>7 DEF SameBufs
    <3> QED BY <3>2, <3>4, <3>5, <3>8
  <2>2. CASE ~(d.s = Meta /\ ~Linked(d.s))
    <3>1. m = b
      BY <2>2 DEF handle_metadata
    <3> QED BY <2>2, <3>1
  <2> QED BY <2>1, <2>2
<1>4. c = [m EXCEPT !.released = @ \cup {<<d.s, d.f>>}]
  <2>1. d.f < m.expected
    <3>1. m.expected \in Nat
      BY <1>3, FieldTypes
    <3> QED BY <1>1, <1>3, <3>1
  <2> QED BY <2>1 DEF comp_and_enqueue
<1> HIDE DEF m, c
<1>5. c.q = m.q /\ c.expected = m.expected
  BY <1>3, <1>4 DEF Channels, Fields
<1> QED BY <1>3, <1>5 DEF c

LEMMA AwaitCommand ==
  ASSUME RefsInv, FrameInv, AwaitInv, ChannelCommand, awaits'
  PROVE  /\ use' # "live" /\ ch'.q = <<>> /\ ch'.expected > MaxFrame
         /\ cbs' = cbs
<1> DEFINE d == Head(cmds)
           b == process_stream_buf(ch, d)
<1>1. TypeInv /\ PlaceInv /\ StopInv /\ OrderInv
  BY DEF RefsInv, FrameInv
<1>2. /\ cmds # <<>> /\ ch' = [b EXCEPT !.released = {}, !.dispatched = <<>>]
      /\ cbs' = cbs \o b.dispatched /\ use' = use /\ awaits' = NowAwaits(d)
  BY DEF ChannelCommand
<1>3. /\ ch \in Channels /\ ch.dispatched = <<>> /\ cbs \in Seq(Slots) /\ d \in Commands
      /\ b \in Channels /\ ch.burstSnapNum \in Nat
  <2>1. d \in Commands
    BY <1>1, <1>2, HeadTailProperties DEF TypeInv
  <2>2. ch \in Channels /\ ch.dispatched = <<>> /\ cbs \in Seq(Slots)
    BY <1>1 DEF TypeInv, StopInv
  <2>3. b \in Channels
    BY <1>1, CommandMoves
  <2> QED BY <2>1, <2>2, <2>3, FieldTypes
<1>4. /\ ch.burstSnapNum <= 1 /\ d.type # "flush"
      /\ d.type = "req" => awaits
      /\ d.type # "req" => d.hint.good = 0 /\ (d.hint.prep = "future" \/ awaits)
  <2>1. NowAwaits(d)
    BY <1>2
  <2>2. ~(ch.burstSnapNum > 1) /\ d.type # "flush"
    BY <2>1 DEF NowAwaits
  <2>3. d.type = "req" => awaits
    BY <2>1 DEF NowAwaits
  <2>4. d.type # "req" => d.hint.good = 0 /\ (d.hint.prep = "future" \/ awaits)
    BY <2>1 DEF NowAwaits
  <2> QED BY <1>3, <2>2, <2>3, <2>4
<1>5. use # "live" /\ b.q = <<>> /\ b.dispatched = <<>> /\ b.expected > MaxFrame
  <2>1. CASE d.type = "req"
    <3> DEFINE r == NewRequest(ch, d.num, d.retro)
    <3>1. use # "live" /\ ch.q = <<>> /\ ch.expected > MaxFrame
      BY <1>4, <2>1 DEF AwaitInv
    <3>2. d.num \in Nat /\ d.retro \in Nat
      BY <1>3, <2>1, CommandTypes
    <3>3. r \in Channels /\ r.dispatched = <<>> /\ r.q = <<>> /\ SameFrames(ch, r)
      BY <1>3, <3>1, <3>2, RequestIs
    <3>4. b = Proceed(r)
      BY <2>1 DEF process_stream_buf
    <3> HIDE DEF r, b
    <3>5. SameFrames(r, b) /\ b.q = <<>> /\ b.dispatched = <<>>
      BY <3>3, <3>4, ProceedIs
    <3> QED BY <3>1, <3>3, <3>5 DEF SameFrames
  <2>2. CASE d.type = "data"
    <3> DEFINE e == comp_and_enqueue(ch, d)
    <3>1. d \in Data /\ IsData(cmds[1]) /\ d = cmds[1] /\ 1 \in 1 .. Len(cmds)
      BY <1>1, <1>2, <1>3, <2>2, HeadTailProperties, LenProperties, EmptySeq DEF Data, IsData, TypeInv
    <3>2. d.hint # NoHint => d.s = Meta /\ use # "live"
      BY <1>1, <3>1 DEF OrderInv
    <3>3. d.hint.prep = "future" => d.s = Meta /\ ~Linked(d.s) /\ use # "live"
      BY <3>2 DEF NoHint, Linked
    <3>4. d.hint.prep = "future" \/ (ch.q = <<>> /\ ch.expected > MaxFrame /\ use # "live")
      BY <1>4, <2>2 DEF AwaitInv
    <3>5. e.q = <<>> /\ e.expected > MaxFrame
      BY <1>3, <1>4, <2>2, <3>1, <3>3, <3>4, AwaitData
    <3>6. e \in Channels /\ e.dispatched = <<>>
      BY <1>3, <3>1, CompAndEnqueueGains
    <3>7. b = Proceed(e)
      BY <2>2 DEF process_stream_buf
    <3> HIDE DEF e, b
    <3>8. SameFrames(e, b) /\ b.q = <<>> /\ b.dispatched = <<>>
      BY <3>5, <3>6, <3>7, ProceedIs
    <3>9. b.expected > MaxFrame
      BY <3>5, <3>8 DEF SameFrames
    <3> QED BY <3>3, <3>4, <3>8, <3>9
  <2> QED BY <1>3, <1>4, <2>1, <2>2, CommandTypes
<1> HIDE DEF b
<1>6. ch'.q = b.q /\ ch'.expected = b.expected
  BY <1>2, <1>3 DEF Channels, Fields
<1> QED BY <1>2, <1>3, <1>5, <1>6, ConcatEmptySeq

LEMMA AwaitNext ==
  ASSUME RefsInv, FrameInv, AwaitInv, [Next]_vars
  PROVE  AwaitInv' /\ (awaits /\ awaits' => Len(cbs') <= Len(cbs))
<1>1. CASE UNCHANGED <<use, ch, cbs, awaits>>
  <2>1. AwaitInv'
    BY <1>1 DEF AwaitInv
  <2>2. Len(cbs) \in Nat
    BY LenProperties DEF RefsInv, TypeInv
  <2> QED BY <1>1, <2>1, <2>2
<1>2. CASE ChannelCommand
  <2>1. Len(cbs) \in Nat
    BY LenProperties DEF RefsInv, TypeInv
  <2> QED BY <1>2, <2>1, AwaitCommand DEF AwaitInv
<1>3. CASE SuperBufCb
  <2>1. UNCHANGED <<use, ch, awaits>> /\ cbs # <<>> /\ cbs' = Tail(cbs)
    BY <1>3 DEF SuperBufCb
  <2>2. cbs \in Seq(Slots)
    BY DEF RefsInv, TypeInv
  <2>3. AwaitInv'
    BY <2>1 DEF AwaitInv
  <2>4. Len(cbs) \in Nat /\ Len(Tail(cbs)) = Len(cbs) - 1
    BY <2>1, <2>2, HeadTailProperties, LenProperties
  <2> QED BY <2>1, <2>3, <2>4
<1>4. CASE Stopped
  <2>1. UNCHANGED <<use, cbs, awaits>> /\ ch' = [ch EXCEPT !.q = <<>>]
    BY <1>4 DEF Stopped
  <2>2. ch'.q = <<>> /\ ch'.expected = ch.expected
    BY <2>1 DEF RefsInv, TypeInv, Channels, Fields
  <2>3. AwaitInv'
    BY <2>1, <2>2 DEF AwaitInv
  <2>4. Len(cbs) \in Nat
    BY LenProperties DEF RefsInv, TypeInv
  <2> QED BY <2>1, <2>3, <2>4
<1>5. CASE Restart
  BY <1>5 DEF Restart, AwaitInv
<1>6. ASSUME NEW s \in Streams, Deliver(s) \/ Return(s) \/ StopStream(s)
      PROVE  UNCHANGED <<use, ch, cbs, awaits>>
  BY <1>6 DEF Deliver, Return, StopStream
<1>7. ASSUME AppData \/ AppDataDone \/ Stop \/ Unlink
      PROVE  UNCHANGED <<use, ch, cbs, awaits>>
  BY <1>7 DEF AppData, AppDataDone, Stop, Unlink
<1>8. ASSUME Request \/ Cancel \/ Flush
      PROVE  UNCHANGED <<use, ch, cbs, awaits>>
  BY <1>8 DEF Request, Cancel, Flush, Send
<1>9. UNCHANGED vars => UNCHANGED <<use, ch, cbs, awaits>>
  BY DEF vars
<1> QED BY <1>1, <1>2, <1>3, <1>4, <1>5, <1>6, <1>7, <1>8, <1>9 DEF Next

(* FutureFrameIsWaitedFor: NEED_FUTURE_FRAME (mm_camera_channel.c:2085) flushes
   the queue and moves the expected frame out of reach, so that every frame is
   released until a range of good frames has been named.                   *)
THEOREM FutureFrames == Spec => FutureFrameIsWaitedFor
<1>1. Init => AwaitInv
  BY DEF Init, AwaitInv
<1>2. RefsInv /\ FrameInv /\ AwaitInv /\ [Next]_vars
        => AwaitInv' /\ [awaits /\ awaits' => Len(cbs') <= Len(cbs)]_vars
  BY AwaitNext
<1> QED BY <1>1, <1>2, FramesAlways, PTL DEF Spec, FutureFrameIsWaitedFor
=============================================================================
