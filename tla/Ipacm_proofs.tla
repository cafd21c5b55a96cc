----------------------------- MODULE Ipacm_proofs -----------------------------
(***************************************************************************)
(* Proofs about Ipacm: types; that instances and addresses follow the      *)
(* kernel, for any interfaces, families and bounds; and, for one family of *)
(* addresses, that what IPACM_Wan says of the backhaul is true and that    *)
(* the uplink rules of tethered interfaces follow it.                      *)
(***************************************************************************)
EXTENDS Ipacm, SequenceTheorems, FiniteSetTheorems,
        WellFoundedInduction, TLAPS

(* Every event names what its kind is about.                               *)
Names == {"none", "LINK_UP", "USB_LINK_UP", "WLAN_LINK_UP", "LINK_DOWN", "WLAN_LINK_DOWN",
          "ADDR_ADD", "ROUTE_ADD", "ROUTE_DEL", "WAN_UP", "WAN_DOWN", "DELETE_SELF"}
DownEvents == {"LINK_DOWN", "WLAN_LINK_DOWN"}
News == {"WAN_UP", "WAN_DOWN"}
UpOf(i) == IF i = Wlan THEN "WLAN_LINK_UP" ELSE IF i = Usb THEN "USB_LINK_UP" ELSE "LINK_UP"
DownOf(i) == IF i = Wlan THEN "WLAN_LINK_DOWN" ELSE "LINK_DOWN"

Messages == [ev : Names, i : Ifs \cup {NoIf}, f : Fams \cup {NoIf}, w : Wans \cup {NoIf}]
Good == {m \in Messages :
  /\ m.ev \in UpEvents => m.i \in Ifs /\ m.ev = UpOf(m.i)
  /\ m.ev \in DownEvents => m.i \in Ifs /\ m.ev = DownOf(m.i)
  /\ m.ev = "ADDR_ADD" => m.i \in Ifs /\ m.f \in Fams
  /\ m.ev \in UpstreamEvents => m.i \in LanSide /\ m.f \in Fams /\ m.w \in Wans
  /\ m.ev \in News => m.i \in LanSide /\ m.f \in Fams
  /\ m.ev = "DELETE_SELF" => m.i \in LanSide}
FromDriver == {m \in Good : m.ev \in UpstreamEvents \cup {"WLAN_LINK_UP", "WLAN_LINK_DOWN"}}

Kernels == [link : SUBSET Ifs, addr : [Ifs -> SUBSET Fams],
            upstream : [LanSide -> [Fams -> Wans \cup {NoIf}]], changes : Nat]

(* An event that is being dispatched has listeners that exist.             *)
WalkInv ==
  /\ walk.rest = {} => walk = Idle
  /\ walk.msg.ev \in UpEvents => walk.rest = {IfaceManager}
  /\ walk.msg.ev \in UpstreamEvents => walk.rest \subseteq Wans \cap ToSet(instances)
  /\ walk.rest # {} /\ walk.msg.ev \notin UpEvents \cup UpstreamEvents
       => walk.rest = {walk.msg.i} /\ walk.msg.i \in ToSet(instances)

Distinct(s) == \A m, n \in 1 .. Len(s) : s[m] = s[n] => m = n

TypeInv ==
  /\ queue \in Seq(Good)
  /\ driver \in Seq(FromDriver)
  /\ kernel \in Kernels
  /\ walk \in [msg : Good, rest : SUBSET (Ifs \cup {NoIf})]
  /\ WalkInv
  /\ instances \in Seq(Ifs) /\ Distinct(instances)
  /\ is_active \subseteq LanSide
  /\ ip_type \in [Ifs -> SUBSET Fams]
  /\ ul_set \in [LanSide -> SUBSET Fams]
  /\ active \in [Wans -> SUBSET Fams]
  /\ gateway \subseteq Wans
  /\ wan_up \subseteq Fams
  /\ tether \in [Fams -> Seq(LanSide)]
  /\ rules \in [LanSide -> [Fams -> Int]]

-----------------------------------------------------------------------------
(***************************************************************************)
(* Sequences.                                                              *)
(***************************************************************************)

LEMMA LeastElement ==
  ASSUME NEW S \in SUBSET Nat, S # {}
  PROVE  \E s \in S : \A t \in S : s <= t
<1>1. PICK s \in S : \A t \in S : ~(<<t, s>> \in OpToRel(<, Nat))
  BY NatLessThanWellFounded, WFMin
<1>2. \A t \in S : ~(t < s)
  BY <1>1 DEF OpToRel
<1>3. \A t \in S : s <= t
  <2> TAKE t \in S
  <2>1. s \in Nat /\ t \in Nat /\ ~(t < s)
    BY <1>2
  <2> QED
    BY <2>1
<1> QED
  BY <1>3

(* A sequence has the elements at its positions.                           *)
LEMMA Elements ==
  ASSUME NEW T, NEW s \in Seq(T), NEW e
  PROVE  e \in ToSet(s) <=> \E n \in 1 .. Len(s) : s[n] = e
BY LenProperties DEF ToSet

(* A sequence of distinct elements without one of them.                    *)
LEMMA RemovedFirst ==
  ASSUME NEW T, NEW s \in Seq(T), NEW e
  PROVE  /\ RemoveFirst(s, e) \in Seq(T)
         /\ Distinct(s) => /\ Distinct(RemoveFirst(s, e))
                           /\ ToSet(RemoveFirst(s, e)) = ToSet(s) \ {e}
                           /\ RemoveFirst(s, e) = <<>> <=> ToSet(s) \subseteq {e}
<1> DEFINE r == RemoveFirst(s, e)
<1>0. Len(s) \in Nat /\ \A n \in 1 .. Len(s) : s[n] \in T
  BY LenProperties, ElementOfSeq
<1>1. CASE ~\E i \in 1 .. Len(s) : s[i] = e
  <2>1. r = s
    BY <1>1 DEF RemoveFirst
  <2>2. ToSet(s) = ToSet(s) \ {e}
    BY <1>1, Elements
  <2>3. s = <<>> <=> ToSet(s) = {}
    <3>1. s = <<>> => ToSet(s) = {}
      BY DEF ToSet
    <3>2. s # <<>> => s[1] \in ToSet(s)
      <4>1. s # <<>> => Len(s) \in Nat \ {0}
        BY EmptySeq
      <4> QED BY <4>1, Elements
    <3> QED BY <3>1, <3>2
  <2> QED BY <2>1, <2>2, <2>3
<1>2. CASE \E i \in 1 .. Len(s) : s[i] = e
  <2> DEFINE I == {i \in 1 .. Len(s) : s[i] = e}
  <2>1. Min(I) \in I
    <3>1. I \in SUBSET Nat /\ I # {}
      BY <1>2
    <3>2. \E k \in I : \A j \in I : k <= j
      BY <3>1, LeastElement
    <3> QED BY <3>2 DEF Min
  <2>2. PICK k \in 1 .. Len(s) : k = Min(I) /\ s[k] = e
    BY <2>1
  <2>3. r = SubSeq(s, 1, k - 1) \o SubSeq(s, k + 1, Len(s))
    <3>1. SelectInSeq(s, LAMBDA v : v = e) = Min(I)
      BY <2>1 DEF SelectInSeq
    <3> QED BY <1>2, <2>2, <3>1 DEF RemoveFirst, RemoveAt
  <2> HIDE DEF I
  <2>4. /\ SubSeq(s, 1, k - 1) \in Seq(T) /\ Len(SubSeq(s, 1, k - 1)) = k - 1
        /\ \A i \in 1 .. k - 1 : SubSeq(s, 1, k - 1)[i] = s[i]
    <3>1. \A i \in 1 .. k - 1 : s[i] \in T
      BY <1>0
    <3>2. 1 \in Int /\ k - 1 \in Int
      BY <1>0
    <3>3. /\ SubSeq(s, 1, k - 1) \in Seq(T)
          /\ Len(SubSeq(s, 1, k - 1)) = IF 1 <= k - 1 THEN k - 1 - 1 + 1 ELSE 0
          /\ \A i \in 1 .. k - 1 - 1 + 1 : SubSeq(s, 1, k - 1)[i] = s[1 + i - 1]
      BY <3>1, <3>2, SubSeqProperties
    <3> QED BY <1>0, <3>3
  <2>5. /\ SubSeq(s, k + 1, Len(s)) \in Seq(T) /\ Len(SubSeq(s, k + 1, Len(s))) = Len(s) - k
        /\ \A i \in 1 .. Len(s) - k : SubSeq(s, k + 1, Len(s))[i] = s[k + i]
    <3>1. \A i \in k + 1 .. Len(s) : s[i] \in T
      BY <1>0
    <3>2. k + 1 \in Int /\ Len(s) \in Int
      BY <1>0
    <3>3. /\ SubSeq(s, k + 1, Len(s)) \in Seq(T)
          /\ Len(SubSeq(s, k + 1, Len(s))) = IF k + 1 <= Len(s) THEN Len(s) - (k + 1) + 1 ELSE 0
          /\ \A i \in 1 .. Len(s) - (k + 1) + 1 : SubSeq(s, k + 1, Len(s))[i] = s[k + 1 + i - 1]
      BY <3>1, <3>2, SubSeqProperties
    <3> QED BY <1>0, <3>3
  <2>6. /\ r \in Seq(T) /\ Len(r) = Len(s) - 1
        /\ \A n \in 1 .. Len(s) - 1 : r[n] = IF n < k THEN s[n] ELSE s[n + 1]
    <3> DEFINE p == SubSeq(s, 1, k - 1)
               q == SubSeq(s, k + 1, Len(s))
    <3>1. p \in Seq(T) /\ q \in Seq(T) /\ r = p \o q /\ Len(p) = k - 1 /\ Len(q) = Len(s) - k
      BY <2>3, <2>4, <2>5
    <3>2. /\ \A i \in 1 .. k - 1 : p[i] = s[i]
          /\ \A i \in 1 .. Len(s) - k : q[i] = s[k + i]
      BY <2>4, <2>5
    <3> HIDE DEF p, q, r
    <3>3. /\ r \in Seq(T) /\ Len(r) = Len(p) + Len(q)
          /\ \A n \in 1 .. Len(p) + Len(q) : r[n] = IF n <= Len(p) THEN p[n] ELSE q[n - Len(p)]
      BY <3>1, ConcatProperties
    <3> QED BY <1>0, <3>1, <3>2, <3>3
  <2> HIDE DEF r
  <2> SUFFICES ASSUME Distinct(s)
               PROVE  /\ Distinct(r) /\ ToSet(r) = ToSet(s) \ {e}
                      /\ r = <<>> <=> ToSet(s) \subseteq {e}
    BY <2>6 DEF r
  <2>7. \A n \in 1 .. Len(r) : r[n] # e /\ \E m \in 1 .. Len(s) : r[n] = s[m]
    <3> TAKE n \in 1 .. Len(r)
    <3>1. CASE n < k
      BY <1>0, <2>2, <2>6, <3>1 DEF Distinct
    <3>2. CASE ~(n < k)
      BY <1>0, <2>2, <2>6, <3>2 DEF Distinct
    <3> QED BY <3>1, <3>2
  <2>8. \A m \in 1 .. Len(s) : s[m] # e => \E n \in 1 .. Len(r) : r[n] = s[m]
    <3> TAKE m \in 1 .. Len(s)
    <3>1. CASE m < k
      BY <1>0, <2>2, <2>6, <3>1
    <3>2. CASE m > k
      <4>1. m - 1 \in 1 .. Len(r) /\ ~(m - 1 < k) /\ m - 1 + 1 = m
        BY <1>0, <2>6, <3>2
      <4> QED BY <2>6, <4>1
    <3>3. CASE m = k
      BY <2>2, <3>3
    <3> QED BY <1>0, <3>1, <3>2, <3>3
  <2>9. ToSet(r) = ToSet(s) \ {e}
    <3>1. \A x : x \in ToSet(r) <=> \E n \in 1 .. Len(r) : r[n] = x
      BY <2>6, Elements
    <3>2. \A x : x \in ToSet(s) <=> \E n \in 1 .. Len(s) : s[n] = x
      BY Elements
    <3> QED BY <2>7, <2>8, <3>1, <3>2
  <2>10. Distinct(r)
    <3> SUFFICES ASSUME NEW m \in 1 .. Len(r), NEW n \in 1 .. Len(r), r[m] = r[n] PROVE m = n
      BY DEF Distinct
    <3>1. CASE m < k /\ n < k
      BY <1>0, <2>6, <3>1 DEF Distinct
    <3>2. CASE ~(m < k) /\ ~(n < k)
      <4>1. r[m] = s[m + 1] /\ r[n] = s[n + 1] /\ m + 1 \in 1 .. Len(s) /\ n + 1 \in 1 .. Len(s)
        BY <1>0, <2>6, <3>2
      <4>2. m + 1 = n + 1
        BY <4>1 DEF Distinct
      <4> QED BY <1>0, <2>6, <4>2
    <3>3. CASE m < k /\ ~(n < k)
      <4>1. r[m] = s[m] /\ r[n] = s[n + 1] /\ m \in 1 .. Len(s) /\ n + 1 \in 1 .. Len(s)
        BY <1>0, <2>6, <3>3
      <4>2. m = n + 1
        BY <4>1 DEF Distinct
      <4> QED BY <1>0, <2>6, <3>3, <4>2
    <3>4. CASE ~(m < k) /\ n < k
      <4>1. r[n] = s[n] /\ r[m] = s[m + 1] /\ n \in 1 .. Len(s) /\ m + 1 \in 1 .. Len(s)
        BY <1>0, <2>6, <3>4
      <4>2. n = m + 1
        BY <4>1 DEF Distinct
      <4> QED BY <1>0, <2>6, <3>4, <4>2
    <3> QED BY <3>1, <3>2, <3>3, <3>4
  <2>11. r = <<>> <=> ToSet(r) = {}
    <3>1. r = <<>> => ToSet(r) = {}
      BY DEF ToSet
    <3>2. r # <<>> => r[1] \in ToSet(r)
      <4>1. r # <<>> => Len(r) \in Nat \ {0}
        BY <2>6, EmptySeq
      <4> QED BY <2>6, <4>1, Elements
    <3> QED BY <3>1, <3>2
  <2> QED BY <2>9, <2>10, <2>11
<1> QED BY <1>1, <1>2

(* A sequence that has grown by one element.                               *)
LEMMA Appended ==
  ASSUME NEW T, NEW s \in Seq(T), NEW e \in T
  PROVE  /\ Append(s, e) \in Seq(T) /\ Append(s, e) # <<>>
         /\ ToSet(Append(s, e)) = ToSet(s) \cup {e}
         /\ Distinct(s) /\ e \notin ToSet(s) => Distinct(Append(s, e))
<1> DEFINE r == Append(s, e)
<1>1. /\ r \in Seq(T) /\ r # <<>> /\ Len(r) = Len(s) + 1 /\ Len(s) \in Nat
      /\ \A n \in 1 .. Len(s) : r[n] = s[n]
      /\ r[Len(s) + 1] = e
  BY AppendProperties, LenProperties
<1>2. \A x : x \in ToSet(s) <=> \E n \in 1 .. Len(s) : s[n] = x
  BY Elements
<1> HIDE DEF r
<1>3. \A x : x \in ToSet(r) <=> \E n \in 1 .. Len(r) : r[n] = x
  BY <1>1, Elements
<1>4. ToSet(r) = ToSet(s) \cup {e}
  BY <1>1, <1>2, <1>3
<1>5. ASSUME Distinct(s), e \notin ToSet(s)
      PROVE  Distinct(r)
  <2> SUFFICES ASSUME NEW m \in 1 .. Len(r), NEW n \in 1 .. Len(r), r[m] = r[n] PROVE m = n
    BY DEF Distinct
  <2>1. \A x \in 1 .. Len(s) : r[x] # e
    BY <1>1, <1>2, <1>5
  <2>2. CASE m \in 1 .. Len(s) /\ n \in 1 .. Len(s)
    BY <1>1, <1>5, <2>2 DEF Distinct
  <2>3. CASE m = Len(s) + 1 /\ n \in 1 .. Len(s)
    BY <1>1, <2>1, <2>3
  <2>4. CASE n = Len(s) + 1 /\ m \in 1 .. Len(s)
    BY <1>1, <2>1, <2>4
  <2>5. CASE n = Len(s) + 1 /\ m = Len(s) + 1
    BY <2>5
  <2> QED BY <1>1, <2>2, <2>3, <2>4, <2>5
<1> QED BY <1>1, <1>4, <1>5 DEF r

(* A finite set of events as a sequence.                                   *)
LEMMA SetAsSeq ==
  ASSUME NEW S \in SUBSET Good, IsFiniteSet(S)
  PROVE  SetToSeq(S) \in Seq(Good) /\ ToSet(SetToSeq(S)) = S
<1>1. Cardinality(S) \in Nat /\ ExistsBijection(1 .. Cardinality(S), S)
  BY FS_CardinalityType
<1>2. \E f \in [1 .. Cardinality(S) -> S] : IsInjective(f)
  BY <1>1 DEF ExistsBijection, Bijection, Injection
<1>3. SetToSeq(S) \in [1 .. Cardinality(S) -> S] /\ IsInjective(SetToSeq(S))
  BY <1>2 DEF SetToSeq
<1>4. SetToSeq(S) \in Seq(S)
  BY <1>1, <1>3
<1>5. SetToSeq(S) \in Surjection(1 .. Cardinality(S), S)
  <2>1. IsFiniteSet(1 .. Cardinality(S)) /\ Cardinality(1 .. Cardinality(S)) = Cardinality(S)
    BY <1>1, FS_Interval
  <2>2. SetToSeq(S) \in Injection(1 .. Cardinality(S), S)
    BY <1>3 DEF Injection
  <2> QED BY <2>1, <2>2, FS_Injection
<1>6. ToSet(SetToSeq(S)) = S
  BY <1>3, <1>5 DEF Surjection, ToSet
<1> QED
  BY <1>4, <1>6

-----------------------------------------------------------------------------
(***************************************************************************)
(* Events that are ahead, as sets of events met in a sequence.             *)
(***************************************************************************)
Has(s, A) == \E n \in 1 .. Len(s) : s[n] \in A

(* Each event of A is followed by one of D.                                *)
Recanted(s, A, D) ==
  \A n \in 1 .. Len(s) : s[n] \in A => \E k \in n + 1 .. Len(s) : s[k] \in D

Once(s, A) == \A m, n \in 1 .. Len(s) : s[m] \in A /\ s[n] \in A => m = n

LEMMA EmptyHas ==
  ASSUME NEW A, NEW D
  PROVE  ~Has(<<>>, A) /\ Recanted(<<>>, A, D) /\ Once(<<>>, A)
<1>1. \A n \in 1 .. Len(<<>>) : FALSE
  OBVIOUS
<1> QED BY <1>1 DEF Has, Recanted, Once

LEMMA OneHas ==
  ASSUME NEW T, NEW e \in T, NEW A, NEW D
  PROVE  /\ Has(<<e>>, A) <=> e \in A
         /\ Recanted(<<e>>, A, D) <=> e \notin A
         /\ Once(<<e>>, A)
<1>1. Len(<<e>>) = 1 /\ <<e>>[1] = e
  OBVIOUS
<1>2. \A n \in 1 .. Len(<<e>>) : n = 1
  BY <1>1
<1>3. 1 \in 1 .. Len(<<e>>)
  BY <1>1
<1>4. \A k \in 1 + 1 .. Len(<<e>>) : FALSE
  BY <1>1
<1>5. Has(<<e>>, A) <=> e \in A
  BY <1>1, <1>2, <1>3 DEF Has
<1>6. Recanted(<<e>>, A, D) <=> e \notin A
  BY <1>1, <1>2, <1>3, <1>4 DEF Recanted
<1>7. Once(<<e>>, A)
  BY <1>2 DEF Once
<1> QED BY <1>5, <1>6, <1>7

LEMMA TailHas ==
  ASSUME NEW T, NEW s \in Seq(T), s # <<>>, NEW A, NEW D
  PROVE  /\ Head(s) \in T /\ Tail(s) \in Seq(T)
         /\ Has(s, A) <=> Head(s) \in A \/ Has(Tail(s), A)
         /\ Recanted(s, A, D) => /\ Recanted(Tail(s), A, D)
                                 /\ Head(s) \in A => Has(Tail(s), D)
         /\ Once(s, A) => /\ Once(Tail(s), A)
                          /\ Head(s) \in A => ~Has(Tail(s), A)
<1> DEFINE t == Tail(s)
<1>1. /\ Head(s) \in T /\ t \in Seq(T) /\ Len(t) = Len(s) - 1 /\ Len(s) \in Nat \ {0}
      /\ Head(s) = s[1] /\ \A n \in 1 .. Len(t) : t[n] = s[n + 1]
  BY EmptySeq, LenProperties, HeadTailProperties
<1> HIDE DEF t
<1>2. \A n \in 1 .. Len(t) : n + 1 \in 1 .. Len(s) /\ t[n] = s[n + 1] /\ n \in Nat /\ n + 1 # 1
  BY <1>1
<1>3. \A n \in 1 .. Len(s) : n = 1 \/ (n - 1 \in 1 .. Len(t) /\ t[n - 1] = s[n])
  BY <1>1
<1>4. Has(s, A) <=> Head(s) \in A \/ Has(t, A)
  <2>1. 1 \in 1 .. Len(s)
    BY <1>1
  <2>2. Has(s, A) => Head(s) \in A \/ Has(t, A)
    BY <1>1, <1>3 DEF Has
  <2>3. Has(t, A) => Has(s, A)
    BY <1>2 DEF Has
  <2> QED BY <1>1, <2>1, <2>2, <2>3 DEF Has
<1>5. ASSUME Recanted(s, A, D)
      PROVE  Recanted(t, A, D) /\ (Head(s) \in A => Has(t, D))
  <2>1. ASSUME NEW n \in 1 .. Len(t), t[n] \in A
        PROVE  \E k \in n + 1 .. Len(t) : t[k] \in D
    <3>1. PICK k \in n + 1 + 1 .. Len(s) : s[k] \in D
      BY <1>2, <1>5, <2>1 DEF Recanted
    <3>2. k - 1 \in n + 1 .. Len(t) /\ k \in 1 .. Len(s) /\ k # 1
      BY <1>1, <3>1
    <3> QED BY <1>3, <3>1, <3>2
  <2>2. ASSUME Head(s) \in A
        PROVE  Has(t, D)
    <3>1. 1 \in 1 .. Len(s) /\ s[1] \in A
      BY <1>1, <2>2
    <3>2. PICK k \in 1 + 1 .. Len(s) : s[k] \in D
      BY <1>5, <3>1 DEF Recanted
    <3>3. k \in 1 .. Len(s) /\ k # 1
      BY <1>1, <3>2
    <3> QED BY <1>3, <3>2, <3>3 DEF Has
  <2> QED BY <2>1, <2>2 DEF Recanted
<1>6. ASSUME Once(s, A)
      PROVE  Once(t, A) /\ (Head(s) \in A => ~Has(t, A))
  <2>1. ASSUME NEW m \in 1 .. Len(t), NEW n \in 1 .. Len(t), t[m] \in A, t[n] \in A
        PROVE  m = n
    <3>1. m + 1 = n + 1
      BY <1>2, <1>6, <2>1 DEF Once
    <3> QED BY <1>1, <3>1
  <2>2. ASSUME Head(s) \in A, NEW n \in 1 .. Len(t), t[n] \in A
        PROVE  FALSE
    <3>1. 1 \in 1 .. Len(s) /\ s[1] \in A
      BY <1>1, <2>2
    <3>2. 1 = n + 1
      BY <1>2, <1>6, <2>2, <3>1 DEF Once
    <3> QED BY <1>1, <3>2
  <2> QED BY <2>1, <2>2 DEF Once, Has
<1> QED BY <1>1, <1>4, <1>5, <1>6 DEF t

LEMMA ConcatHas ==
  ASSUME NEW T, NEW s \in Seq(T), NEW t \in Seq(T), NEW A, NEW D
  PROVE  /\ s \o t \in Seq(T)
         /\ Has(s \o t, A) <=> Has(s, A) \/ Has(t, A)
         /\ (Recanted(s, A, D) \/ Has(t, D)) /\ Recanted(t, A, D) => Recanted(s \o t, A, D)
         /\ Once(s, A) /\ ~Has(t, A) => Once(s \o t, A)
         /\ Once(t, A) /\ ~Has(s, A) => Once(s \o t, A)
<1> DEFINE r == s \o t
<1>1. /\ r \in Seq(T) /\ Len(r) = Len(s) + Len(t) /\ Len(s) \in Nat /\ Len(t) \in Nat
      /\ \A n \in 1 .. Len(s) + Len(t) : r[n] = IF n <= Len(s) THEN s[n] ELSE t[n - Len(s)]
  BY ConcatProperties, LenProperties
<1> HIDE DEF r
<1>2. \A n \in 1 .. Len(s) : n \in 1 .. Len(r) /\ r[n] = s[n]
  BY <1>1
<1>3. \A n \in 1 .. Len(t) : n + Len(s) \in 1 .. Len(r) /\ r[n + Len(s)] = t[n]
  <2> TAKE n \in 1 .. Len(t)
  <2>1. /\ n + Len(s) \in 1 .. Len(s) + Len(t) /\ ~(n + Len(s) <= Len(s))
        /\ n + Len(s) - Len(s) = n
    BY <1>1
  <2> QED BY <1>1, <2>1
<1>4. \A n \in 1 .. Len(r) : \/ n \in 1 .. Len(s) /\ r[n] = s[n]
                             \/ n - Len(s) \in 1 .. Len(t) /\ r[n] = t[n - Len(s)]
  BY <1>1
<1>5. Has(r, A) <=> Has(s, A) \/ Has(t, A)
  <2>1. Has(r, A) => Has(s, A) \/ Has(t, A)
    BY <1>4 DEF Has
  <2>2. Has(s, A) => Has(r, A)
    BY <1>2 DEF Has
  <2>3. Has(t, A) => Has(r, A)
    BY <1>3 DEF Has
  <2> QED BY <2>1, <2>2, <2>3
<1>6. ASSUME Recanted(s, A, D) \/ Has(t, D), Recanted(t, A, D)
      PROVE  Recanted(r, A, D)
  <2> SUFFICES ASSUME NEW n \in 1 .. Len(r), r[n] \in A PROVE \E k \in n + 1 .. Len(r) : r[k] \in D
    BY DEF Recanted
  <2>1. CASE n - Len(s) \in 1 .. Len(t) /\ r[n] = t[n - Len(s)]
    <3>1. PICK k \in n - Len(s) + 1 .. Len(t) : t[k] \in D
      BY <1>6, <2>1 DEF Recanted
    <3>2. k \in 1 .. Len(t) /\ k + Len(s) \in n + 1 .. Len(r)
      BY <1>1, <2>1, <3>1
    <3> QED BY <1>3, <3>1, <3>2
  <2>2. ASSUME n \in 1 .. Len(s), r[n] = s[n], Recanted(s, A, D)
        PROVE  \E k \in n + 1 .. Len(r) : r[k] \in D
    <3>1. PICK k \in n + 1 .. Len(s) : s[k] \in D
      BY <2>2 DEF Recanted
    <3>2. k \in 1 .. Len(s) /\ k \in n + 1 .. Len(r)
      BY <1>1, <3>1
    <3> QED BY <1>2, <3>1, <3>2
  <2>3. ASSUME n \in 1 .. Len(s), Has(t, D)
        PROVE  \E k \in n + 1 .. Len(r) : r[k] \in D
    <3>1. PICK k \in 1 .. Len(t) : t[k] \in D
      BY <2>3 DEF Has
    <3>2. k + Len(s) \in n + 1 .. Len(r)
      BY <1>1, <2>3
    <3> QED BY <1>3, <3>1, <3>2
  <2> QED BY <1>4, <1>6, <2>1, <2>2, <2>3
<1>7. ASSUME Once(s, A), ~Has(t, A)
      PROVE  Once(r, A)
  <2>1. \A n \in 1 .. Len(r) : r[n] \in A => n \in 1 .. Len(s) /\ r[n] = s[n]
    BY <1>4, <1>7 DEF Has
  <2> QED BY <1>7, <2>1 DEF Once
<1>8. ASSUME Once(t, A), ~Has(s, A)
      PROVE  Once(r, A)
  <2>1. \A n \in 1 .. Len(r) : r[n] \in A => n - Len(s) \in 1 .. Len(t) /\ r[n] = t[n - Len(s)]
    BY <1>4, <1>8 DEF Has
  <2> SUFFICES ASSUME NEW m \in 1 .. Len(r), NEW n \in 1 .. Len(r), r[m] \in A, r[n] \in A PROVE m = n
    BY DEF Once
  <2>2. m - Len(s) = n - Len(s)
    BY <1>8, <2>1 DEF Once
  <2> QED BY <1>1, <2>2
<1> QED BY <1>1, <1>5, <1>6, <1>7, <1>8 DEF r

(* A posted or reported event.                                             *)
LEMMA AppendHas ==
  ASSUME NEW T, NEW s \in Seq(T), NEW e \in T
  PROVE  Append(s, e) = s \o <<e>> /\ Append(s, e) \in Seq(T) /\ <<e>> \in Seq(T)
BY AppendIsConcat, AppendProperties

LEMMA FewerRecanted ==
  ASSUME NEW s, NEW A, NEW B, NEW D, Recanted(s, A, D), B \subseteq A
  PROVE  Recanted(s, B, D)
BY DEF Recanted

LEMMA HasSet ==
  ASSUME NEW T, NEW s \in Seq(T), NEW A
  PROVE  Has(s, A) <=> \E e \in ToSet(s) : e \in A
BY Elements DEF Has

-----------------------------------------------------------------------------
(***************************************************************************)
(* Types.                                                                  *)
(***************************************************************************)

LEMMA EventIsGood ==
  ASSUME NEW i \in Ifs, NEW f \in Fams, NEW w \in Wans, NEW l \in LanSide
  PROVE  /\ LinkEvent("none", NoIf) \in Good
         /\ LinkEvent(UpOf(i), i) \in Good /\ LinkEvent(DownOf(i), i) \in Good
         /\ LinkEvent("DELETE_SELF", l) \in Good
         /\ Event("ADDR_ADD", i, f, NoIf) \in Good
         /\ Event("ROUTE_ADD", l, f, w) \in Good /\ Event("ROUTE_DEL", l, f, w) \in Good
         /\ Event("WAN_UP", l, f, NoIf) \in Good /\ Event("WAN_DOWN", l, f, NoIf) \in Good
<1>1. l \in Ifs
  BY DEF Ifs
<1>2. UpOf(i) \in UpEvents /\ DownOf(i) \in DownEvents
  BY DEF UpOf, DownOf, UpEvents, DownEvents
<1>3. LinkEvent("none", NoIf) \in Good
  BY DEF LinkEvent, Event, Good, Messages, Names, UpEvents, DownEvents, UpstreamEvents, News
<1>4. LinkEvent(UpOf(i), i) \in Good
  BY <1>2 DEF LinkEvent, Event, Good, Messages, Names, UpEvents, DownEvents, UpstreamEvents, News
<1>5. LinkEvent(DownOf(i), i) \in Good
  BY <1>2 DEF LinkEvent, Event, Good, Messages, Names, UpEvents, DownEvents, UpstreamEvents, News
<1>6. LinkEvent("DELETE_SELF", l) \in Good
  BY <1>1 DEF LinkEvent, Event, Good, Messages, Names, UpEvents, DownEvents, UpstreamEvents, News
<1>7. Event("ADDR_ADD", i, f, NoIf) \in Good
  BY DEF Event, Good, Messages, Names, UpEvents, DownEvents, UpstreamEvents, News
<1>8. Event("ROUTE_ADD", l, f, w) \in Good /\ Event("ROUTE_DEL", l, f, w) \in Good
  BY <1>1 DEF Event, Good, Messages, Names, UpEvents, DownEvents, UpstreamEvents, News
<1>9. Event("WAN_UP", l, f, NoIf) \in Good /\ Event("WAN_DOWN", l, f, NoIf) \in Good
  BY <1>1 DEF Event, Good, Messages, Names, UpEvents, DownEvents, UpstreamEvents, News
<1> QED BY <1>3, <1>4, <1>5, <1>6, <1>7, <1>8, <1>9

LEMMA Sides ==
  /\ LanSide \subseteq Ifs /\ Wans \subseteq Ifs /\ NoIf \notin Ifs /\ LanSide \cap Wans = {}
  /\ Wlan \in LanSide /\ Usb \in LanSide /\ Wlan # Usb /\ Ifs \subseteq LanSide \cup Wans
  /\ IfaceManager \notin Ifs
BY IpacmAssumption DEF IpacmAssumption, Ifs, LanSide, IfaceManager

LEMMA IdleIsGood ==
  /\ Idle.msg \in Good /\ Idle.rest = {} /\ Idle \in [msg : Good, rest : SUBSET (Ifs \cup {NoIf})]
  /\ Idle.msg.ev = "none" /\ Idle.msg.i = NoIf
<1>1. LinkEvent("none", NoIf) \in Good
  BY DEF LinkEvent, Event, Good, Messages, Names, UpEvents, DownEvents, UpstreamEvents, News
<1> QED BY <1>1 DEF Idle, LinkEvent, Event

LEMMA Posted ==
  ASSUME queue \in Seq(Good), NEW s \in Seq(Good), Post(s)
  PROVE  queue' = queue \o s /\ queue' \in Seq(Good)
BY ConcatProperties DEF Post

(* What is being dispatched is of one kind, and for whom it says.          *)
LEMMA WhoListens ==
  ASSUME TypeInv, walk.rest # {}
  PROVE  /\ walk.msg \in Good
         /\ walk.msg.ev \in UpEvents => walk.rest = {IfaceManager}
         /\ walk.msg.ev \in UpstreamEvents => walk.rest \subseteq Wans
         /\ walk.msg.ev \notin UpEvents \cup UpstreamEvents => walk.rest = {walk.msg.i}
         /\ walk.rest \subseteq ToSet(instances) \cup {IfaceManager}
BY DEF TypeInv, WalkInv, IfaceManager

(* The dispatcher goes on with the same event or is asleep.                *)
LEMMA WalkGoesOn ==
  ASSUME TypeInv, NEW o \in walk.rest, Returns(o),
         walk.rest = {o} \/ ToSet(instances) \subseteq ToSet(instances')
  PROVE  /\ walk' \in [msg : Good, rest : SUBSET (Ifs \cup {NoIf})]
         /\ WalkInv'
         /\ driver' \in Seq(FromDriver) /\ kernel' \in Kernels
         /\ IF walk.rest = {o} THEN walk' = Idle
                               ELSE walk'.msg = walk.msg /\ walk'.rest = walk.rest \ {o}
<1>1. driver' \in Seq(FromDriver) /\ kernel' \in Kernels
  BY DEF Returns, TypeInv
<1>2. walk' = IF walk.rest \ {o} = {} THEN Idle ELSE [msg |-> walk.msg, rest |-> walk.rest \ {o}]
  BY DEF Returns, Walk
<1>3. CASE walk.rest = {o}
  <2>1. walk' = Idle
    BY <1>2, <1>3
  <2>2. WalkInv'
    BY <2>1, IdleIsGood DEF WalkInv, UpEvents, UpstreamEvents
  <2> QED BY <1>1, <1>3, <2>1, <2>2, IdleIsGood
<1>4. CASE walk.rest # {o}
  <2>1. walk' = [msg |-> walk.msg, rest |-> walk.rest \ {o}] /\ walk.rest \ {o} # {}
    BY <1>2, <1>4
  <2>2. walk'.msg = walk.msg /\ walk'.rest = walk.rest \ {o}
    BY <2>1
  <2>3. walk.msg.ev \in UpstreamEvents
    BY <1>4 DEF TypeInv, WalkInv
  <2>4. walk.rest \subseteq Wans \cap ToSet(instances)
    BY <2>3 DEF TypeInv, WalkInv
  <2>5. WalkInv'
    BY <1>4, <2>1, <2>2, <2>3, <2>4 DEF WalkInv, UpEvents, UpstreamEvents
  <2> QED BY <1>1, <1>4, <2>1, <2>2, <2>5 DEF TypeInv
<1> QED BY <1>3, <1>4

LEMMA KnownAddressesAre ==
  ASSUME TypeInv, NEW i \in Ifs
  PROVE  /\ KnownAddresses(i) \in Seq(Good)
         /\ ToSet(KnownAddresses(i)) = {Event("ADDR_ADD", i, f, NoIf) : f \in kernel.addr[i]}
<1> DEFINE S == {Event("ADDR_ADD", i, f, NoIf) : f \in kernel.addr[i]}
<1>1. kernel.addr[i] \in SUBSET Fams
  BY DEF TypeInv, Kernels
<1>2. S \in SUBSET Good
  <2> SUFFICES ASSUME NEW f \in kernel.addr[i] PROVE Event("ADDR_ADD", i, f, NoIf) \in Good
    OBVIOUS
  <2> QED
    BY <1>1 DEF Event, Good, Messages, Names, UpEvents, DownEvents, UpstreamEvents, News
<1>3. S \in SUBSET {Event("ADDR_ADD", i, "v4", NoIf), Event("ADDR_ADD", i, "v6", NoIf)}
  BY <1>1, IpacmAssumption DEF IpacmAssumption
<1>4. IsFiniteSet({Event("ADDR_ADD", i, "v4", NoIf), Event("ADDR_ADD", i, "v6", NoIf)})
  <2>1. IsFiniteSet({Event("ADDR_ADD", i, "v4", NoIf)})
    BY FS_Singleton
  <2>2. IsFiniteSet({Event("ADDR_ADD", i, "v4", NoIf)} \cup {Event("ADDR_ADD", i, "v6", NoIf)})
    BY <2>1, FS_AddElement
  <2> QED
    BY <2>2
<1>5. IsFiniteSet(S)
  BY <1>3, <1>4, FS_Subset
<1> QED
  BY <1>2, <1>5, SetAsSeq DEF KnownAddresses

(* An event for one instance ends with that instance's callback.           *)
LEMMA OneConcerned ==
  ASSUME TypeInv, NEW o, NEW e, Concerns(o, e), e \notin UpEvents \cup UpstreamEvents, Returns(o)
  PROVE  /\ o \in ToSet(instances) /\ walk.rest = {o} /\ walk.msg.i = o /\ walk.msg.ev = e
         /\ walk.msg \in Good /\ walk' = Idle
         /\ walk' \in [msg : Good, rest : SUBSET (Ifs \cup {NoIf})] /\ WalkInv'
         /\ driver' \in Seq(FromDriver) /\ kernel' \in Kernels
<1>1. o \in walk.rest /\ walk.msg.i = o /\ walk.msg.ev = e
  BY DEF Concerns, Calls, Turn
<1>2. walk.rest = {o} /\ walk.msg \in Good /\ o \in ToSet(instances)
  BY <1>1 DEF TypeInv, WalkInv
<1> QED BY <1>1, <1>2, WalkGoesOn

LEMMA RulesAreTyped ==
  ASSUME TypeInv, NEW i \in LanSide, NEW fs \in SUBSET Fams,
         handle_wan_up_ex(i, fs) \/ handle_wan_down(i, fs)
  PROVE  ul_set' \in [LanSide -> SUBSET Fams] /\ rules' \in [LanSide -> [Fams -> Int]]
<1>1. ul_set \in [LanSide -> SUBSET Fams] /\ rules \in [LanSide -> [Fams -> Int]]
  BY DEF TypeInv
<1>2. rules[i] \in [Fams -> Int] /\ \A f \in Fams : rules[i][f] \in Int
  BY <1>1
<1>3. CASE handle_wan_up_ex(i, fs)
  <2>1. [f \in Fams |-> IF f \in fs \ ul_set[i] THEN rules[i][f] + 1 ELSE rules[i][f]] \in [Fams -> Int]
    BY <1>2
  <2> QED BY <1>1, <1>3, <2>1 DEF handle_wan_up_ex
<1>4. CASE handle_wan_down(i, fs)
  <2>1. [f \in Fams |-> IF f \in fs \cap ul_set[i] THEN rules[i][f] - 1 ELSE rules[i][f]] \in [Fams -> Int]
    BY <1>2
  <2> QED BY <1>1, <1>4, <2>1 DEF handle_wan_down
<1> QED BY <1>3, <1>4

LEMMA ProcessTyped ==
  ASSUME TypeInv, Process
  PROVE  /\ TypeInv' /\ walk.rest = {} /\ queue # <<>> /\ Head(queue) \in Good
         /\ queue' = Tail(queue) /\ walk' = Walk(Head(queue), Listeners(Head(queue)))
         /\ UNCHANGED <<daemon, driver, kernel>>
         /\ IF Listeners(Head(queue)) = {} THEN walk' = Idle
            ELSE walk'.msg = Head(queue) /\ walk'.rest = Listeners(Head(queue))
<1> DEFINE m == Head(queue)
           L == Listeners(m)
<1>1. /\ walk.rest = {} /\ queue # <<>> /\ queue' = Tail(queue) /\ walk' = Walk(m, L)
      /\ UNCHANGED <<daemon, driver, kernel>>
  BY DEF Process, Asleep
<1>2. m \in Good /\ queue' \in Seq(Good)
  BY <1>1, TailHas DEF TypeInv
<1>3. ToSet(instances) \subseteq Ifs
  BY Elements DEF TypeInv
<1>4. /\ L \subseteq Ifs \cup {NoIf}
      /\ m.ev \in UpEvents => L = {IfaceManager}
      /\ m.ev \in UpstreamEvents => L \subseteq Wans \cap ToSet(instances)
      /\ L # {} /\ m.ev \notin UpEvents \cup UpstreamEvents => L = {m.i} /\ m.i \in ToSet(instances)
  BY <1>3 DEF Listeners, IfaceManager, UpEvents, UpstreamEvents
<1>5. IF L = {} THEN walk' = Idle ELSE walk'.msg = m /\ walk'.rest = L /\ walk' = [msg |-> m, rest |-> L]
  BY <1>1 DEF Walk
<1> HIDE DEF L, m
<1>6. walk' \in [msg : Good, rest : SUBSET (Ifs \cup {NoIf})]
  BY <1>2, <1>4, <1>5, IdleIsGood
<1>7. instances' = instances
  BY <1>1 DEF daemon
<1>8. WalkInv'
  <2>1. CASE L = {}
    BY <1>5, <2>1, IdleIsGood DEF WalkInv, UpEvents, UpstreamEvents
  <2>2. CASE L # {}
    BY <1>4, <1>5, <1>7, <2>2 DEF WalkInv, IfaceManager
  <2> QED BY <2>1, <2>2
<1>9. TypeInv'
  BY <1>1, <1>2, <1>6, <1>8 DEF TypeInv, daemon
<1> QED BY <1>1, <1>2, <1>5, <1>9 DEF L, m

(* An instance is made unless there is one.                                *)
LEMMA CreateTyped ==
  ASSUME TypeInv, NEW i \in Ifs, CreateOnce(i) \/ UNCHANGED <<queue, instances, is_active>>
  PROVE  /\ queue' \in Seq(Good) /\ instances' \in Seq(Ifs) /\ Distinct(instances')
         /\ is_active' \subseteq LanSide
         /\ \/ UNCHANGED <<queue, instances, is_active>> /\ (CreateOnce(i) => Exists(i))
            \/ /\ i \notin ToSet(instances) /\ ToSet(instances') = ToSet(instances) \cup {i}
               /\ is_active' = is_active \cup ({i} \cap LanSide)
               /\ queue' = queue \o KnownAddresses(i)
<1>1. CASE UNCHANGED <<queue, instances, is_active>> /\ (CreateOnce(i) => Exists(i))
  BY <1>1 DEF TypeInv
<1>2. CASE CreateOnce(i) /\ ~Exists(i)
  <2>1. Created(i)
    BY <1>2 DEF CreateOnce
  <2>2. i \notin ToSet(instances)
    BY <1>2 DEF Exists
  <2>3. /\ instances' \in Seq(Ifs) /\ Distinct(instances')
        /\ ToSet(instances') = ToSet(instances) \cup {i}
    BY <2>1, <2>2, Appended DEF Created, TypeInv
  <2>4. queue' = queue \o KnownAddresses(i) /\ queue' \in Seq(Good)
    BY <2>1, KnownAddressesAre, Posted DEF Created, TypeInv
  <2>5. is_active' \subseteq LanSide /\ is_active' = is_active \cup ({i} \cap LanSide)
    BY <2>1 DEF Created, TypeInv
  <2> QED BY <2>2, <2>3, <2>4, <2>5
<1> QED BY <1>1, <1>2 DEF CreateOnce

(* The interface manager's two callbacks at once.                          *)
LEMMA LinkIsUpTyped ==
  ASSUME TypeInv, NEW i \in Ifs, LinkIsUp(i) \/ (i = Wlan /\ AccessPointIsUp)
  PROVE  /\ TypeInv' /\ walk.rest = {IfaceManager} /\ walk.msg.ev = UpOf(i) /\ walk.msg.i = i
         /\ walk' = Idle
         /\ UNCHANGED <<driver, kernel, ip_type, ul_set, active, gateway, wan_up, tether, rules>>
         /\ \/ UNCHANGED <<queue, instances, is_active>>
            \/ /\ i \notin ToSet(instances) /\ ToSet(instances') = ToSet(instances) \cup {i}
               /\ is_active' = is_active \cup ({i} \cap LanSide)
               /\ queue' = queue \o KnownAddresses(i)
<1>1. /\ Turn(IfaceManager) /\ Returns(IfaceManager) /\ walk.msg.ev = UpOf(i)
      /\ UNCHANGED <<ip_type, ul_set, active, gateway, wan_up, tether, rules>>
      /\ CreateOnce(i) \/ UNCHANGED <<queue, instances, is_active>>
  BY Sides DEF LinkIsUp, AccessPointIsUp, Calls, UpOf
<1>2. IfaceManager \in walk.rest /\ walk.msg.ev \in UpEvents
  BY <1>1 DEF Turn, UpOf, UpEvents
<1>3. walk.rest = {IfaceManager} /\ walk.msg \in Good
  BY <1>2 DEF TypeInv, WalkInv
<1>4. walk.msg.i = i
  BY <1>1, <1>2, <1>3, Sides DEF LinkIsUp, Good, UpOf
<1>5. /\ walk' = Idle /\ walk' \in [msg : Good, rest : SUBSET (Ifs \cup {NoIf})] /\ WalkInv'
      /\ driver' \in Seq(FromDriver) /\ kernel' \in Kernels
  BY <1>1, <1>2, <1>3, WalkGoesOn
<1>6. UNCHANGED <<driver, kernel>>
  BY <1>1 DEF Returns
<1>7. /\ queue' \in Seq(Good) /\ instances' \in Seq(Ifs) /\ Distinct(instances')
      /\ is_active' \subseteq LanSide
      /\ \/ UNCHANGED <<queue, instances, is_active>>
         \/ /\ i \notin ToSet(instances) /\ ToSet(instances') = ToSet(instances) \cup {i}
            /\ is_active' = is_active \cup ({i} \cap LanSide)
            /\ queue' = queue \o KnownAddresses(i)
  BY <1>1, CreateTyped
<1>8. TypeInv'
  BY <1>1, <1>5, <1>7 DEF TypeInv
<1> QED BY <1>1, <1>3, <1>4, <1>5, <1>6, <1>7, <1>8

LEMMA IgnoredTyped ==
  ASSUME TypeInv, NEW i \in LanSide, Ignored(i)
  PROVE  /\ TypeInv' /\ walk' = Idle /\ walk.rest = {i} /\ walk.msg.i = i
         /\ walk.msg.ev \notin UpEvents \cup UpstreamEvents \cup {"DELETE_SELF"}
         /\ i \in ToSet(instances) /\ i \notin is_active
         /\ UNCHANGED <<queue, daemon, driver, kernel>>
<1>1. /\ i \in walk.rest /\ i \notin is_active /\ walk.msg.ev # "DELETE_SELF" /\ Returns(i)
      /\ UNCHANGED <<queue, daemon>>
  BY DEF Ignored, Turn
<1>2. walk.msg.ev \notin UpEvents \cup UpstreamEvents
  BY <1>1, WhoListens, Sides
<1>3. walk.rest = {i} /\ walk.msg.i = i /\ i \in ToSet(instances)
  BY <1>1, <1>2 DEF TypeInv, WalkInv
<1>4. /\ walk' = Idle /\ walk' \in [msg : Good, rest : SUBSET (Ifs \cup {NoIf})] /\ WalkInv'
      /\ driver' \in Seq(FromDriver) /\ kernel' \in Kernels
  BY <1>1, <1>3, WalkGoesOn
<1>5. UNCHANGED <<driver, kernel>>
  BY <1>1 DEF Returns
<1>6. TypeInv'
  BY <1>1, <1>4 DEF TypeInv, daemon
<1> QED BY <1>1, <1>2, <1>3, <1>4, <1>5, <1>6

LEMMA LanAddressTyped ==
  ASSUME TypeInv, NEW i \in LanSide, LanAddress(i)
  PROVE  /\ TypeInv' /\ walk' = Idle /\ walk.rest = {i} /\ walk.msg.i = i /\ walk.msg.ev = "ADDR_ADD"
         /\ walk.msg.f \in Fams /\ i \in is_active /\ i \in ToSet(instances)
         /\ ip_type' = [ip_type EXCEPT ![i] = @ \cup {walk.msg.f}]
         /\ UNCHANGED <<queue, instances, is_active, active, gateway, wan_up, tether, driver, kernel>>
<1>1. /\ Concerns(i, "ADDR_ADD") /\ Returns(i) /\ i \in is_active
      /\ ip_type' = [ip_type EXCEPT ![i] = @ \cup {walk.msg.f}]
      /\ UNCHANGED <<queue, instances, is_active, active, gateway, wan_up, tether>>
  BY DEF LanAddress
<1>2. /\ i \in ToSet(instances) /\ walk.rest = {i} /\ walk.msg.i = i /\ walk.msg.ev = "ADDR_ADD"
      /\ walk.msg \in Good /\ walk' = Idle
      /\ walk' \in [msg : Good, rest : SUBSET (Ifs \cup {NoIf})] /\ WalkInv'
      /\ driver' \in Seq(FromDriver) /\ kernel' \in Kernels
  BY <1>1, OneConcerned DEF UpEvents, UpstreamEvents
<1>3. walk.msg.f \in Fams
  BY <1>2 DEF Good
<1>4. ip_type' \in [Ifs -> SUBSET Fams]
  BY <1>1, <1>3, Sides DEF TypeInv
<1>5. \E fs \in SUBSET Fams : handle_wan_up_ex(i, fs)
  BY <1>3 DEF LanAddress
<1>6. ul_set' \in [LanSide -> SUBSET Fams] /\ rules' \in [LanSide -> [Fams -> Int]]
  BY <1>5, RulesAreTyped
<1>7. UNCHANGED <<driver, kernel>>
  BY <1>1 DEF Returns
<1>8. TypeInv'
  BY <1>1, <1>2, <1>4, <1>6, <1>7 DEF TypeInv
<1> QED BY <1>1, <1>2, <1>3, <1>7, <1>8

(* A tethered interface hears of the backhaul.                             *)
LEMMA LanWanTyped ==
  ASSUME TypeInv, NEW i \in LanSide, LanWanUp(i) \/ LanWanDown(i)
  PROVE  /\ TypeInv' /\ walk' = Idle /\ walk.rest = {i} /\ walk.msg.i = i /\ walk.msg.ev \in News
         /\ walk.msg.f \in Fams /\ i \in is_active /\ i \in ToSet(instances)
         /\ UNCHANGED <<queue, instances, is_active, ip_type, active, gateway, wan_up, tether, driver, kernel>>
<1>1. PICK e \in News : Concerns(i, e)
  BY DEF LanWanUp, LanWanDown, News
<1>2. /\ Returns(i) /\ i \in is_active
      /\ UNCHANGED <<queue, instances, is_active, ip_type, active, gateway, wan_up, tether>>
  BY DEF LanWanUp, LanWanDown
<1>3. /\ i \in ToSet(instances) /\ walk.rest = {i} /\ walk.msg.i = i /\ walk.msg.ev = e
      /\ walk.msg \in Good /\ walk' = Idle
      /\ walk' \in [msg : Good, rest : SUBSET (Ifs \cup {NoIf})] /\ WalkInv'
      /\ driver' \in Seq(FromDriver) /\ kernel' \in Kernels
  BY <1>1, <1>2, OneConcerned DEF UpEvents, UpstreamEvents, News
<1>4. walk.msg.f \in Fams
  BY <1>3 DEF Good
<1>5. \E fs \in SUBSET Fams : handle_wan_up_ex(i, fs) \/ handle_wan_down(i, fs)
  BY <1>4 DEF LanWanUp, LanWanDown
<1>6. ul_set' \in [LanSide -> SUBSET Fams] /\ rules' \in [LanSide -> [Fams -> Int]]
  BY <1>5, RulesAreTyped
<1>7. UNCHANGED <<driver, kernel>>
  BY <1>2 DEF Returns
<1>8. TypeInv'
  BY <1>2, <1>3, <1>6, <1>7 DEF TypeInv
<1> QED BY <1>2, <1>3, <1>4, <1>7, <1>8

LEMMA LanDownTyped ==
  ASSUME TypeInv, NEW i \in LanSide, LanDown(i)
  PROVE  /\ TypeInv' /\ walk' = Idle /\ walk.rest = {i} /\ walk.msg.i = i /\ walk.msg.ev = DownOf(i)
         /\ i \in is_active /\ i \in ToSet(instances) /\ is_active' = is_active \ {i}
         /\ queue' = queue \o <<LinkEvent("DELETE_SELF", i)>> /\ LinkEvent("DELETE_SELF", i) \in Good
         /\ UNCHANGED <<instances, ip_type, active, gateway, wan_up, tether, driver, kernel>>
<1>1. /\ Concerns(i, DownOf(i)) /\ Returns(i) /\ i \in is_active /\ is_active' = is_active \ {i}
      /\ Post(<<LinkEvent("DELETE_SELF", i)>>)
      /\ UNCHANGED <<instances, ip_type, active, gateway, wan_up, tether>>
      /\ handle_wan_down(i, IF ip_type[i] = {} THEN {} ELSE {f \in Fams : isWanUP(i, f)})
  BY DEF LanDown, DownOf
<1>2. /\ i \in ToSet(instances) /\ walk.rest = {i} /\ walk.msg.i = i /\ walk.msg.ev = DownOf(i)
      /\ walk' = Idle
      /\ walk' \in [msg : Good, rest : SUBSET (Ifs \cup {NoIf})] /\ WalkInv'
      /\ driver' \in Seq(FromDriver) /\ kernel' \in Kernels
  <2>1. DownOf(i) \notin UpEvents \cup UpstreamEvents
    BY DEF DownOf, UpEvents, UpstreamEvents
  <2> QED BY <1>1, <2>1, OneConcerned
<1>3. LinkEvent("DELETE_SELF", i) \in Good
  BY Sides DEF LinkEvent, Event, Good, Messages, Names, UpEvents, DownEvents, UpstreamEvents, News
<1>4. queue' = queue \o <<LinkEvent("DELETE_SELF", i)>> /\ queue' \in Seq(Good)
  <2>1. <<LinkEvent("DELETE_SELF", i)>> \in Seq(Good)
    BY <1>3
  <2> QED BY <1>1, <2>1, Posted DEF TypeInv
<1>5. ul_set' \in [LanSide -> SUBSET Fams] /\ rules' \in [LanSide -> [Fams -> Int]]
  <2>1. (IF ip_type[i] = {} THEN {} ELSE {f \in Fams : isWanUP(i, f)}) \in SUBSET Fams
    OBVIOUS
  <2> QED BY <1>1, <2>1, RulesAreTyped
<1>6. UNCHANGED <<driver, kernel>>
  BY <1>1 DEF Returns
<1>7. TypeInv'
  BY <1>1, <1>2, <1>4, <1>5 DEF TypeInv
<1> QED BY <1>1, <1>2, <1>3, <1>4, <1>6, <1>7

LEMMA DeletedTyped ==
  ASSUME TypeInv, NEW i \in Ifs, Deleted(i)
  PROVE  /\ instances' \in Seq(Ifs) /\ Distinct(instances')
         /\ ToSet(instances') = ToSet(instances) \ {i}
         /\ ip_type' \in [Ifs -> SUBSET Fams] /\ ip_type' = [ip_type EXCEPT ![i] = {}]
BY RemovedFirst DEF TypeInv, Deleted

LEMMA LanDeleteTyped ==
  ASSUME TypeInv, NEW i \in LanSide, LanDelete(i)
  PROVE  /\ TypeInv' /\ walk' = Idle /\ walk.rest = {i} /\ walk.msg.i = i /\ walk.msg.ev = "DELETE_SELF"
         /\ ToSet(instances') = ToSet(instances) \ {i} /\ ip_type' = [ip_type EXCEPT ![i] = {}]
         /\ ul_set' = [ul_set EXCEPT ![i] = {}]
         /\ UNCHANGED <<queue, is_active, active, gateway, wan_up, tether, rules, driver, kernel>>
<1>1. /\ Concerns(i, "DELETE_SELF") /\ Returns(i) /\ Deleted(i)
      /\ ul_set' = [ul_set EXCEPT ![i] = {}]
      /\ UNCHANGED <<queue, is_active, active, gateway, wan_up, tether, rules>>
  BY DEF LanDelete
<1>2. /\ walk.rest = {i} /\ walk.msg.i = i /\ walk.msg.ev = "DELETE_SELF"
      /\ walk' = Idle
      /\ walk' \in [msg : Good, rest : SUBSET (Ifs \cup {NoIf})] /\ WalkInv'
      /\ driver' \in Seq(FromDriver) /\ kernel' \in Kernels
  BY <1>1, OneConcerned DEF UpEvents, UpstreamEvents
<1>3. /\ instances' \in Seq(Ifs) /\ Distinct(instances')
      /\ ToSet(instances') = ToSet(instances) \ {i}
      /\ ip_type' \in [Ifs -> SUBSET Fams] /\ ip_type' = [ip_type EXCEPT ![i] = {}]
  BY <1>1, DeletedTyped, Sides
<1>4. ul_set' \in [LanSide -> SUBSET Fams]
  BY <1>1 DEF TypeInv
<1>5. UNCHANGED <<driver, kernel>>
  BY <1>1 DEF Returns
<1>6. TypeInv'
  BY <1>1, <1>2, <1>3, <1>4 DEF TypeInv
<1> QED BY <1>1, <1>2, <1>3, <1>5, <1>6

LEMMA WanAddressTyped ==
  ASSUME TypeInv, NEW w \in Wans, WanAddress(w)
  PROVE  /\ TypeInv' /\ walk' = Idle /\ walk.rest = {w} /\ walk.msg.i = w /\ walk.msg.ev = "ADDR_ADD"
         /\ walk.msg.f \in Fams /\ w \in ToSet(instances)
         /\ ip_type' = [ip_type EXCEPT ![w] = @ \cup {walk.msg.f}]
         /\ UNCHANGED <<queue, instances, is_active, ul_set, active, gateway, wan_up, tether, rules,
                        driver, kernel>>
<1>1. /\ Concerns(w, "ADDR_ADD") /\ Returns(w)
      /\ ip_type' = [ip_type EXCEPT ![w] = @ \cup {walk.msg.f}]
      /\ UNCHANGED <<queue, instances, is_active, ul_set, active, gateway, wan_up, tether, rules>>
  BY DEF WanAddress
<1>2. /\ w \in ToSet(instances) /\ walk.rest = {w} /\ walk.msg.i = w /\ walk.msg.ev = "ADDR_ADD"
      /\ walk.msg \in Good /\ walk' = Idle
      /\ walk' \in [msg : Good, rest : SUBSET (Ifs \cup {NoIf})] /\ WalkInv'
      /\ driver' \in Seq(FromDriver) /\ kernel' \in Kernels
  BY <1>1, OneConcerned DEF UpEvents, UpstreamEvents
<1>3. walk.msg.f \in Fams
  BY <1>2 DEF Good
<1>4. ip_type' \in [Ifs -> SUBSET Fams]
  BY <1>1, <1>3, Sides DEF TypeInv
<1>5. UNCHANGED <<driver, kernel>>
  BY <1>1 DEF Returns
<1>6. TypeInv'
  BY <1>1, <1>2, <1>4, <1>5 DEF TypeInv
<1> QED BY <1>1, <1>2, <1>3, <1>5, <1>6

(* A modem instance hears of an upstream.                                  *)
RouteHeard(w) ==
  /\ w \in walk.rest /\ walk.rest \subseteq Wans /\ walk.msg.ev \in UpstreamEvents
  /\ walk.msg \in Good /\ walk.msg.i \in LanSide /\ walk.msg.f \in Fams /\ walk.msg.w \in Wans
  /\ IF walk.rest = {w} THEN walk' = Idle ELSE walk'.msg = walk.msg /\ walk'.rest = walk.rest \ {w}
  /\ UNCHANGED <<instances, is_active, ip_type, ul_set, rules, driver, kernel>>

LEMMA RouteWalk ==
  ASSUME TypeInv, NEW w \in Wans, NEW e \in UpstreamEvents, Calls(w, e), Returns(w),
         UNCHANGED <<instances, is_active, ip_type, ul_set, rules>>
  PROVE  /\ RouteHeard(w) /\ walk' \in [msg : Good, rest : SUBSET (Ifs \cup {NoIf})] /\ WalkInv'
         /\ driver' \in Seq(FromDriver) /\ kernel' \in Kernels
<1>1. w \in walk.rest /\ walk.msg.ev \in UpstreamEvents
  BY DEF Calls, Turn
<1>2. walk.rest \subseteq Wans /\ walk.msg \in Good
  BY <1>1, WhoListens
<1>3. walk.msg.i \in LanSide /\ walk.msg.f \in Fams /\ walk.msg.w \in Wans
  BY <1>1, <1>2 DEF Good
<1>4. /\ walk' \in [msg : Good, rest : SUBSET (Ifs \cup {NoIf})] /\ WalkInv'
      /\ driver' \in Seq(FromDriver) /\ kernel' \in Kernels
      /\ IF walk.rest = {w} THEN walk' = Idle ELSE walk'.msg = walk.msg /\ walk'.rest = walk.rest \ {w}
  BY <1>1, WalkGoesOn
<1> QED BY <1>1, <1>2, <1>3, <1>4 DEF RouteHeard, Returns

LEMMA RoutesTyped ==
  ASSUME TypeInv, NEW w \in Wans, NEW fs, RoutesGone(w, fs)
  PROVE  active' \in [Wans -> SUBSET Fams] /\ gateway' \subseteq Wans
<1>1. active[w] \ fs \in SUBSET Fams /\ active \in [Wans -> SUBSET Fams] /\ gateway \subseteq Wans
  BY DEF TypeInv
<1>2. active' = [active EXCEPT ![w] = active[w] \ fs] /\ gateway' = gateway \ {w}
  BY <1>1 DEF RoutesGone
<1>3. active' \in [Wans -> SUBSET Fams]
  <2> DEFINE rest == active[w] \ fs
  <2>1. rest \in SUBSET Fams /\ active' = [active EXCEPT ![w] = rest]
    BY <1>1, <1>2
  <2> HIDE DEF rest
  <2> QED BY <1>1, <2>1
<1>4. gateway' \subseteq Wans
  BY <1>1, <1>2
<1> QED BY <1>3, <1>4

LEMMA RouteAddTyped ==
  ASSUME TypeInv, NEW w \in Wans, WanRouteAdd(w)
  PROVE  /\ TypeInv' /\ RouteHeard(w) /\ walk.msg.ev = "ROUTE_ADD" /\ walk.msg.w = w
         /\ IF walk.msg.f \in ip_type[w]
            THEN /\ wan_up' = wan_up \cup (IF walk.msg.f \in active[w] THEN {} ELSE {walk.msg.f})
                 /\ gateway' = gateway \cup (IF walk.msg.f \in active[w] THEN {} ELSE {w})
                 /\ active' = [active EXCEPT ![w] = @ \cup {walk.msg.f}]
                 /\ tether' = [tether EXCEPT ![walk.msg.f] = Append(@, walk.msg.i)]
                 /\ queue' = queue \o <<Event("WAN_UP", walk.msg.i, walk.msg.f, NoIf)>>
                 /\ Event("WAN_UP", walk.msg.i, walk.msg.f, NoIf) \in Good
            ELSE UNCHANGED <<queue, active, gateway, wan_up, tether>>
<1> DEFINE f == walk.msg.f
           t == walk.msg.i
<1>1. /\ Calls(w, "ROUTE_ADD") /\ walk.msg.w = w /\ Returns(w)
      /\ UNCHANGED <<instances, is_active, ip_type, ul_set, rules>>
      /\ IF f \in ip_type[w]
         THEN /\ wan_up' = IF f \in active[w] THEN wan_up ELSE wan_up \cup {f}
              /\ gateway' = IF f \in active[w] THEN gateway ELSE gateway \cup {w}
              /\ active' = [active EXCEPT ![w] = @ \cup {f}]
              /\ tether' = [tether EXCEPT ![f] = Append(@, t)]
              /\ Post(<<Event("WAN_UP", t, f, NoIf)>>)
         ELSE UNCHANGED <<queue, active, gateway, wan_up, tether>>
  BY DEF WanRouteAdd
<1>2. /\ RouteHeard(w) /\ walk' \in [msg : Good, rest : SUBSET (Ifs \cup {NoIf})] /\ WalkInv'
      /\ driver' \in Seq(FromDriver) /\ kernel' \in Kernels
  BY <1>1, RouteWalk DEF UpstreamEvents
<1>3. f \in Fams /\ t \in LanSide /\ walk.msg.ev = "ROUTE_ADD"
  BY <1>1, <1>2 DEF RouteHeard, Calls
<1>4. CASE f \notin ip_type[w]
  <2>1. TypeInv'
    BY <1>1, <1>2, <1>4 DEF TypeInv
  <2> QED BY <1>1, <1>2, <1>3, <1>4, <2>1
<1>5. CASE f \in ip_type[w]
  <2>1. Event("WAN_UP", t, f, NoIf) \in Good
    BY <1>3, Sides DEF Event, Good, Messages, Names, UpEvents, DownEvents, UpstreamEvents, News
  <2>2. /\ queue' = queue \o <<Event("WAN_UP", t, f, NoIf)>> /\ queue' \in Seq(Good)
    <3>1. <<Event("WAN_UP", t, f, NoIf)>> \in Seq(Good)
      BY <2>1
    <3> QED BY <1>1, <1>5, <3>1, Posted DEF TypeInv
  <2>3. tether' \in [Fams -> Seq(LanSide)]
    <3>1. Append(tether[f], t) \in Seq(LanSide)
      BY <1>3, AppendProperties DEF TypeInv
    <3> QED BY <1>1, <1>3, <1>5, <3>1 DEF TypeInv
  <2>4. active' \in [Wans -> SUBSET Fams] /\ gateway' \subseteq Wans /\ wan_up' \subseteq Fams
    <3>1. active \in [Wans -> SUBSET Fams] /\ gateway \subseteq Wans /\ wan_up \subseteq Fams
      BY DEF TypeInv
    <3>2. active[w] \cup {f} \in SUBSET Fams
      BY <1>3, <3>1
    <3>3. active' \in [Wans -> SUBSET Fams]
      BY <1>1, <1>5, <3>1, <3>2
    <3>4. gateway' \subseteq Wans
      BY <1>1, <1>5, <3>1
    <3>5. wan_up' \subseteq Fams
      BY <1>1, <1>3, <1>5, <3>1
    <3> QED BY <3>3, <3>4, <3>5
  <2>5. TypeInv'
    BY <1>1, <1>2, <2>2, <2>3, <2>4 DEF TypeInv
  <2>6. /\ wan_up' = wan_up \cup (IF f \in active[w] THEN {} ELSE {f})
        /\ gateway' = gateway \cup (IF f \in active[w] THEN {} ELSE {w})
    BY <1>1, <1>5
  <2> QED BY <1>1, <1>2, <1>3, <1>5, <2>1, <2>2, <2>5, <2>6
<1> QED BY <1>4, <1>5

LEMMA RouteElsewhereTyped ==
  ASSUME TypeInv, NEW w \in Wans, WanRouteElsewhere(w)
  PROVE  /\ TypeInv' /\ RouteHeard(w) /\ walk.msg.ev = "ROUTE_ADD" /\ walk.msg.w # w
         /\ UNCHANGED <<queue, tether>>
         /\ IF walk.msg.f \in active[w]
            THEN RoutesGone(w, {walk.msg.f}) /\ wan_up' = wan_up \ {walk.msg.f}
            ELSE UNCHANGED <<active, gateway, wan_up>>
<1>1. /\ Calls(w, "ROUTE_ADD") /\ walk.msg.w # w /\ Returns(w)
      /\ UNCHANGED <<queue, instances, is_active, ip_type, ul_set, rules, tether>>
      /\ IF walk.msg.f \in active[w]
         THEN RoutesGone(w, {walk.msg.f}) /\ wan_up' = wan_up \ {walk.msg.f}
         ELSE UNCHANGED <<active, gateway, wan_up>>
  BY DEF WanRouteElsewhere
<1>2. /\ RouteHeard(w) /\ walk' \in [msg : Good, rest : SUBSET (Ifs \cup {NoIf})] /\ WalkInv'
      /\ driver' \in Seq(FromDriver) /\ kernel' \in Kernels
  BY <1>1, RouteWalk DEF UpstreamEvents
<1>3. active' \in [Wans -> SUBSET Fams] /\ gateway' \subseteq Wans /\ wan_up' \subseteq Fams
  <2>1. CASE walk.msg.f \in active[w]
    BY <1>1, <2>1, RoutesTyped DEF TypeInv
  <2>2. CASE walk.msg.f \notin active[w]
    BY <1>1, <2>2 DEF TypeInv
  <2> QED BY <2>1, <2>2
<1>4. TypeInv'
  BY <1>1, <1>2, <1>3 DEF TypeInv
<1> QED BY <1>1, <1>2, <1>4 DEF Calls

LEMMA RouteDelTyped ==
  ASSUME TypeInv, NEW w \in Wans, WanRouteDel(w)
  PROVE  /\ TypeInv' /\ RouteHeard(w) /\ walk.msg.ev = "ROUTE_DEL"
         /\ IF walk.msg.w = w /\ walk.msg.f \in active[w]
            THEN /\ tether' = [tether EXCEPT ![walk.msg.f] = RemoveFirst(@, walk.msg.i)]
                 /\ Event("WAN_DOWN", walk.msg.i, walk.msg.f, NoIf) \in Good
                 /\ IF walk.msg.i \in ToSet(tether[walk.msg.f])
                    THEN queue' = queue \o <<Event("WAN_DOWN", walk.msg.i, walk.msg.f, NoIf)>>
                    ELSE queue' = queue
                 /\ IF RemoveFirst(tether[walk.msg.f], walk.msg.i) = <<>>
                    THEN RoutesGone(w, {walk.msg.f}) /\ wan_up' = wan_up \ {walk.msg.f}
                    ELSE UNCHANGED <<active, gateway, wan_up>>
            ELSE UNCHANGED <<queue, tether, active, gateway, wan_up>>
<1> DEFINE f == walk.msg.f
           t == walk.msg.i
           mine == walk.msg.w = w /\ f \in active[w]
<1>1. /\ Calls(w, "ROUTE_DEL") /\ Returns(w)
      /\ UNCHANGED <<instances, is_active, ip_type, ul_set, rules>>
      /\ tether' = IF mine THEN [tether EXCEPT ![f] = RemoveFirst(@, t)] ELSE tether
      /\ Post(IF mine /\ t \in ToSet(tether[f]) THEN <<Event("WAN_DOWN", t, f, NoIf)>> ELSE <<>>)
      /\ IF mine /\ RemoveFirst(tether[f], t) = <<>>
         THEN RoutesGone(w, {f}) /\ wan_up' = wan_up \ {f}
         ELSE UNCHANGED <<active, gateway, wan_up>>
  BY DEF WanRouteDel
<1>2. /\ RouteHeard(w) /\ walk' \in [msg : Good, rest : SUBSET (Ifs \cup {NoIf})] /\ WalkInv'
      /\ driver' \in Seq(FromDriver) /\ kernel' \in Kernels
  BY <1>1, RouteWalk DEF UpstreamEvents
<1>3. f \in Fams /\ t \in LanSide /\ walk.msg.ev = "ROUTE_DEL"
  BY <1>1, <1>2 DEF RouteHeard, Calls
<1>4. Event("WAN_DOWN", t, f, NoIf) \in Good
  BY <1>3, Sides DEF Event, Good, Messages, Names, UpEvents, DownEvents, UpstreamEvents, News
<1>5. /\ queue' \in Seq(Good)
      /\ IF mine /\ t \in ToSet(tether[f]) THEN queue' = queue \o <<Event("WAN_DOWN", t, f, NoIf)>>
         ELSE queue' = queue
  <2>1. CASE mine /\ t \in ToSet(tether[f])
    <3>1. <<Event("WAN_DOWN", t, f, NoIf)>> \in Seq(Good) /\ Post(<<Event("WAN_DOWN", t, f, NoIf)>>)
      BY <1>1, <1>4, <2>1
    <3> QED BY <2>1, <3>1, Posted DEF TypeInv
  <2>2. CASE ~(mine /\ t \in ToSet(tether[f]))
    <3>1. Post(<<>>) /\ queue \in Seq(Good)
      BY <1>1, <2>2 DEF TypeInv
    <3>2. queue \o <<>> = queue
      BY <3>1, ConcatEmptySeq
    <3> QED BY <2>2, <3>1, <3>2 DEF Post
  <2> QED BY <2>1, <2>2
<1>6. tether' \in [Fams -> Seq(LanSide)]
  <2>1. RemoveFirst(tether[f], t) \in Seq(LanSide)
    BY <1>3, RemovedFirst DEF TypeInv
  <2> QED BY <1>1, <1>3, <2>1 DEF TypeInv
<1>7. active' \in [Wans -> SUBSET Fams] /\ gateway' \subseteq Wans /\ wan_up' \subseteq Fams
  <2>1. CASE mine /\ RemoveFirst(tether[f], t) = <<>>
    BY <1>1, <2>1, RoutesTyped DEF TypeInv
  <2>2. CASE ~(mine /\ RemoveFirst(tether[f], t) = <<>>)
    BY <1>1, <2>2 DEF TypeInv
  <2> QED BY <2>1, <2>2
<1>8. TypeInv'
  BY <1>1, <1>2, <1>5, <1>6, <1>7 DEF TypeInv
<1>9. CASE mine
  <2>1. /\ tether' = [tether EXCEPT ![f] = RemoveFirst(@, t)]
        /\ IF t \in ToSet(tether[f]) THEN queue' = queue \o <<Event("WAN_DOWN", t, f, NoIf)>>
           ELSE queue' = queue
        /\ IF RemoveFirst(tether[f], t) = <<>>
           THEN RoutesGone(w, {f}) /\ wan_up' = wan_up \ {f}
           ELSE UNCHANGED <<active, gateway, wan_up>>
    BY <1>1, <1>5, <1>9
  <2> QED BY <1>2, <1>3, <1>4, <1>8, <1>9, <2>1
<1>10. CASE ~mine
  <2>1. UNCHANGED <<queue, tether, active, gateway, wan_up>>
    BY <1>1, <1>5, <1>10
  <2> QED BY <1>2, <1>3, <1>8, <1>10, <2>1
<1> QED BY <1>9, <1>10

(* What an instance that goes down tells: of each tethered interface.      *)
DownTold(f) == [n \in DOMAIN tether[f] |-> Event("WAN_DOWN", tether[f][n], f, NoIf)]
DownNews(fs) == (IF "v4" \in fs THEN DownTold("v4") ELSE <<>>)
                \o (IF "v6" \in fs THEN DownTold("v6") ELSE <<>>)

LEMMA DownNewsAre ==
  ASSUME TypeInv, NEW fs \in SUBSET Fams
  PROVE  /\ DownNews(fs) \in Seq(Good)
         /\ \A e \in ToSet(DownNews(fs)) : e.ev = "WAN_DOWN" /\ e.f \in fs /\ e.i \in ToSet(tether[e.f])
         /\ \A f \in fs : \A t \in ToSet(tether[f]) : Event("WAN_DOWN", t, f, NoIf) \in ToSet(DownNews(fs))
<1>1. ASSUME NEW f \in Fams
      PROVE  /\ DownTold(f) \in Seq(Good) /\ Len(DownTold(f)) = Len(tether[f])
             /\ \A n \in 1 .. Len(tether[f]) : DownTold(f)[n] = Event("WAN_DOWN", tether[f][n], f, NoIf)
             /\ ToSet(DownTold(f)) = {Event("WAN_DOWN", t, f, NoIf) : t \in ToSet(tether[f])}
  <2>1. tether[f] \in Seq(LanSide) /\ DOMAIN tether[f] = 1 .. Len(tether[f]) /\ Len(tether[f]) \in Nat
    BY LenProperties DEF TypeInv
  <2>2. \A n \in 1 .. Len(tether[f]) : Event("WAN_DOWN", tether[f][n], f, NoIf) \in Good
    <3> TAKE n \in 1 .. Len(tether[f])
    <3>1. tether[f][n] \in LanSide
      BY <2>1
    <3> QED BY <3>1, Sides DEF Event, Good, Messages, Names, UpEvents, DownEvents, UpstreamEvents, News
  <2>3. DownTold(f) \in [1 .. Len(tether[f]) -> Good]
    BY <2>1, <2>2 DEF DownTold
  <2>4. DownTold(f) \in Seq(Good) /\ Len(DownTold(f)) = Len(tether[f])
    BY <2>1, <2>3
  <2>5. \A n \in 1 .. Len(tether[f]) : DownTold(f)[n] = Event("WAN_DOWN", tether[f][n], f, NoIf)
    BY <2>1 DEF DownTold
  <2>6. \A e : e \in ToSet(DownTold(f)) <=> \E n \in 1 .. Len(tether[f]) : DownTold(f)[n] = e
    BY <2>4, Elements
  <2>7. \A t : t \in ToSet(tether[f]) <=> \E n \in 1 .. Len(tether[f]) : tether[f][n] = t
    BY <2>1, Elements
  <2> QED BY <2>4, <2>5, <2>6, <2>7
<1> DEFINE p == IF "v4" \in fs THEN DownTold("v4") ELSE <<>>
           q == IF "v6" \in fs THEN DownTold("v6") ELSE <<>>
           SaysDown(e) == e.ev = "WAN_DOWN" /\ e.f \in fs /\ e.i \in ToSet(tether[e.f])
<1>2. ToSet(<<>>) = {} /\ <<>> \in Seq(Good)
  BY DEF ToSet
<1>3. ASSUME NEW f \in fs
      PROVE  DownTold(f) \in Seq(Good) /\ \A e \in ToSet(DownTold(f)) : SaysDown(e)
  <2>1. f \in Fams
    OBVIOUS
  <2> QED BY <1>1, <2>1 DEF Event
<1>4. p \in Seq(Good) /\ (\A e \in ToSet(p) : SaysDown(e))
  BY <1>2, <1>3
<1>5. q \in Seq(Good) /\ (\A e \in ToSet(q) : SaysDown(e))
  BY <1>2, <1>3
<1>6. DownNews(fs) = p \o q
  BY DEF DownNews
<1>7. ASSUME NEW f \in fs, NEW t \in ToSet(tether[f])
      PROVE  Event("WAN_DOWN", t, f, NoIf) \in ToSet(p) \cup ToSet(q)
  <2>1. f \in Fams /\ (f = "v4" \/ f = "v6")
    BY IpacmAssumption DEF IpacmAssumption
  <2>2. Event("WAN_DOWN", t, f, NoIf) \in ToSet(DownTold(f))
    BY <1>1, <2>1
  <2> QED BY <2>1, <2>2
<1> HIDE DEF p, q, SaysDown
<1>8. p \o q \in Seq(Good) /\ \A e : e \in ToSet(p \o q) <=> e \in ToSet(p) \/ e \in ToSet(q)
  <2>1. ASSUME NEW e
        PROVE  e \in ToSet(p \o q) <=> e \in ToSet(p) \/ e \in ToSet(q)
    <3>1. p \o q \in Seq(Good) /\ (Has(p \o q, {e}) <=> Has(p, {e}) \/ Has(q, {e}))
      BY <1>4, <1>5, ConcatHas
    <3>2. Has(p \o q, {e}) <=> \E x \in ToSet(p \o q) : x \in {e}
      BY <3>1, HasSet
    <3>3. (Has(p, {e}) <=> e \in ToSet(p)) /\ (Has(q, {e}) <=> e \in ToSet(q))
      BY <1>4, <1>5, HasSet
    <3> QED BY <3>1, <3>2, <3>3
  <2> QED BY <1>4, <1>5, <2>1, ConcatProperties
<1>9. \A e \in ToSet(DownNews(fs)) : SaysDown(e)
  BY <1>4, <1>5, <1>6, <1>8
<1>10. \A f \in fs : \A t \in ToSet(tether[f]) : Event("WAN_DOWN", t, f, NoIf) \in ToSet(DownNews(fs))
  BY <1>6, <1>7, <1>8
<1> QED BY <1>6, <1>8, <1>9, <1>10 DEF SaysDown

LEMMA WanDownTyped ==
  ASSUME TypeInv, NEW w \in Wans, WanDown(w)
  PROVE  /\ TypeInv' /\ walk' = Idle /\ walk.rest = {w} /\ walk.msg.i = w /\ walk.msg.ev = "LINK_DOWN"
         /\ ToSet(instances') = ToSet(instances) \ {w} /\ ip_type' = [ip_type EXCEPT ![w] = {}]
         /\ RoutesGone(w, Fams)
         /\ UNCHANGED <<is_active, ul_set, rules, driver, kernel>>
         /\ \E fs \in SUBSET Fams :
              /\ fs = (IF w \in gateway THEN ip_type[w] ELSE {})
              /\ wan_up' = wan_up \ fs
              /\ tether' = [f \in Fams |-> IF f \in fs THEN <<>> ELSE tether[f]]
              /\ queue' = queue \o DownNews(fs)
<1> DEFINE fs == IF w \in gateway THEN ip_type[w] ELSE {}
<1>1. /\ Concerns(w, "LINK_DOWN") /\ Returns(w) /\ Deleted(w) /\ RoutesGone(w, Fams)
      /\ wan_up' = wan_up \ fs
      /\ tether' = [f \in Fams |-> IF f \in fs THEN <<>> ELSE tether[f]]
      /\ Post(DownNews(fs))
      /\ UNCHANGED <<is_active, ul_set, rules>>
  BY DEF WanDown, DownNews, DownTold
<1>2. /\ walk.rest = {w} /\ walk.msg.i = w /\ walk.msg.ev = "LINK_DOWN"
      /\ walk' = Idle
      /\ walk' \in [msg : Good, rest : SUBSET (Ifs \cup {NoIf})] /\ WalkInv'
      /\ driver' \in Seq(FromDriver) /\ kernel' \in Kernels
  BY <1>1, OneConcerned DEF UpEvents, UpstreamEvents
<1>3. /\ instances' \in Seq(Ifs) /\ Distinct(instances')
      /\ ToSet(instances') = ToSet(instances) \ {w}
      /\ ip_type' \in [Ifs -> SUBSET Fams] /\ ip_type' = [ip_type EXCEPT ![w] = {}]
  BY <1>1, DeletedTyped, Sides
<1>4. fs \in SUBSET Fams
  BY Sides DEF TypeInv
<1> HIDE DEF fs
<1>5. queue' = queue \o DownNews(fs) /\ queue' \in Seq(Good)
  BY <1>1, <1>4, DownNewsAre, Posted DEF TypeInv
<1>6. tether' \in [Fams -> Seq(LanSide)]
  <2>1. \A f \in Fams : (IF f \in fs THEN <<>> ELSE tether[f]) \in Seq(LanSide)
    <3> TAKE f \in Fams
    <3>1. tether[f] \in Seq(LanSide) /\ <<>> \in Seq(LanSide)
      BY DEF TypeInv
    <3> QED BY <3>1
  <2> QED BY <1>1, <2>1
<1>7. active' \in [Wans -> SUBSET Fams] /\ gateway' \subseteq Wans /\ wan_up' \subseteq Fams
  BY <1>1, RoutesTyped DEF TypeInv
<1>8. UNCHANGED <<driver, kernel>>
  BY <1>1 DEF Returns
<1>9. TypeInv'
  BY <1>1, <1>2, <1>3, <1>5, <1>6, <1>7 DEF TypeInv
<1> QED BY <1>1, <1>2, <1>3, <1>4, <1>5, <1>8, <1>9 DEF fs

(* A thread reports an event.                                              *)
ByDriver(e) == e \in FromDriver /\ driver' = driver \o <<e>> /\ queue' = queue
ByNetlink(e) == e \in Good /\ queue' = queue \o <<e>> /\ driver' = driver

LEMMA Reported ==
  ASSUME TypeInv, NEW e \in Good
  PROVE  /\ DriverSees(e) /\ e \in FromDriver => ByDriver(e) /\ queue' \in Seq(Good) /\ driver' \in Seq(FromDriver)
         /\ NetlinkSees(e) => ByNetlink(e) /\ queue' \in Seq(Good) /\ driver' \in Seq(FromDriver)
<1>1. ASSUME DriverSees(e), e \in FromDriver
      PROVE  ByDriver(e) /\ queue' \in Seq(Good) /\ driver' \in Seq(FromDriver)
  BY <1>1, AppendHas DEF DriverSees, ByDriver, TypeInv
<1>2. ASSUME NetlinkSees(e)
      PROVE  ByNetlink(e) /\ queue' \in Seq(Good) /\ driver' \in Seq(FromDriver)
  <2>1. <<e>> \in Seq(Good) /\ Post(<<e>>) /\ driver' = driver
    BY <1>2 DEF NetlinkSees
  <2> QED BY <2>1, Posted DEF ByNetlink, TypeInv
<1> QED BY <1>1, <1>2

LEMMA LinkReported ==
  ASSUME TypeInv, NEW i \in Ifs, NEW e \in {UpOf(i), DownOf(i)}, Told(i, LinkEvent(e, i))
  PROVE  /\ IF i = Wlan THEN ByDriver(LinkEvent(e, i)) ELSE ByNetlink(LinkEvent(e, i))
         /\ queue' \in Seq(Good) /\ driver' \in Seq(FromDriver)
<1>1. LinkEvent(UpOf(i), i) \in Good
  <2>1. UpOf(i) \in UpEvents
    BY DEF UpOf, UpEvents
  <2> QED BY <2>1 DEF LinkEvent, Event, Good, Messages, Names, UpEvents, DownEvents, UpstreamEvents, News
<1>2. LinkEvent(DownOf(i), i) \in Good
  <2>1. DownOf(i) \in DownEvents
    BY DEF DownOf, DownEvents
  <2> QED BY <2>1 DEF LinkEvent, Event, Good, Messages, Names, UpEvents, DownEvents, UpstreamEvents, News
<1>3. LinkEvent(e, i) \in Good
  BY <1>1, <1>2
<1>4. i = Wlan => LinkEvent(e, i) \in FromDriver
  <2>1. LinkEvent(e, i).ev = e
    BY DEF LinkEvent, Event
  <2> QED BY <1>3, <2>1 DEF FromDriver, UpOf, DownOf
<1> QED BY <1>3, <1>4, Reported DEF Told

LEMMA ThreadsTyped ==
  ASSUME TypeInv, Changes, queue' \in Seq(Good), driver' \in Seq(FromDriver), kernel' \in Kernels
  PROVE  TypeInv'
<1>1. WalkInv'
  BY DEF TypeInv, WalkInv, Changes, daemon
<1> QED BY <1>1 DEF TypeInv, Changes, daemon

LEMMA KernelIs ==
  ASSUME TypeInv
  PROVE  /\ kernel = [link |-> kernel.link, addr |-> kernel.addr, upstream |-> kernel.upstream,
                      changes |-> kernel.changes]
         /\ kernel.link \subseteq Ifs /\ kernel.addr \in [Ifs -> SUBSET Fams]
         /\ kernel.upstream \in [LanSide -> [Fams -> Wans \cup {NoIf}]] /\ kernel.changes \in Nat
BY DEF TypeInv, Kernels

LEMMA LinkUpTyped ==
  ASSUME TypeInv, NEW i \in Ifs, LinkUp(i)
  PROVE  /\ TypeInv' /\ UNCHANGED <<walk, daemon>> /\ i \notin kernel.link
         /\ kernel'.link = kernel.link \cup {i} /\ kernel'.addr = kernel.addr
         /\ kernel'.upstream = kernel.upstream
         /\ IF i = Wlan THEN ByDriver(LinkEvent(UpOf(i), i)) ELSE ByNetlink(LinkEvent(UpOf(i), i))
<1>1. /\ Changes /\ i \notin kernel.link /\ kernel' = [kernel EXCEPT !.link = @ \cup {i}]
      /\ Told(i, LinkEvent(UpOf(i), i))
  BY DEF LinkUp, UpOf
<1>2. kernel' = [link |-> kernel.link \cup {i}, addr |-> kernel.addr, upstream |-> kernel.upstream,
                 changes |-> kernel.changes]
  <2> DEFINE l == kernel.link \cup {i}
  <2>1. kernel' = [kernel EXCEPT !.link = l]
    BY <1>1, KernelIs
  <2> HIDE DEF l
  <2>2. kernel' = [link |-> l, addr |-> kernel.addr, upstream |-> kernel.upstream,
                   changes |-> kernel.changes]
    BY <2>1, KernelIs
  <2> QED BY <2>2 DEF l
<1>3. kernel' \in Kernels
  BY <1>2, KernelIs DEF Kernels
<1>4. /\ IF i = Wlan THEN ByDriver(LinkEvent(UpOf(i), i)) ELSE ByNetlink(LinkEvent(UpOf(i), i))
      /\ queue' \in Seq(Good) /\ driver' \in Seq(FromDriver)
  BY <1>1, LinkReported
<1>5. TypeInv'
  BY <1>1, <1>3, <1>4, ThreadsTyped
<1> QED BY <1>1, <1>2, <1>4, <1>5 DEF Changes

LEMMA LinkDownTyped ==
  ASSUME TypeInv, NEW i \in Ifs, LinkDown(i)
  PROVE  /\ TypeInv' /\ UNCHANGED <<walk, daemon>> /\ i \in kernel.link
         /\ kernel'.link = kernel.link \ {i} /\ kernel'.addr = [kernel.addr EXCEPT ![i] = {}]
         /\ kernel'.upstream = kernel.upstream
         /\ IF i = Wlan THEN ByDriver(LinkEvent(DownOf(i), i)) ELSE ByNetlink(LinkEvent(DownOf(i), i))
<1> DEFINE l == kernel.link \ {i}
           a == [kernel.addr EXCEPT ![i] = {}]
           c == kernel.changes + 1
<1>1. /\ Changes /\ i \in kernel.link /\ kernel' = [kernel EXCEPT !.link = l, !.addr = a, !.changes = c]
      /\ Told(i, LinkEvent(DownOf(i), i))
  BY KernelIs DEF LinkDown, DownOf
<1>2. l \subseteq Ifs /\ a \in [Ifs -> SUBSET Fams] /\ c \in Nat
  BY KernelIs
<1> HIDE DEF l, a, c
<1>3. kernel' = [link |-> l, addr |-> a, upstream |-> kernel.upstream, changes |-> c]
  BY <1>1, KernelIs
<1>4. kernel' \in Kernels
  BY <1>2, <1>3, KernelIs DEF Kernels
<1>5. /\ IF i = Wlan THEN ByDriver(LinkEvent(DownOf(i), i)) ELSE ByNetlink(LinkEvent(DownOf(i), i))
      /\ queue' \in Seq(Good) /\ driver' \in Seq(FromDriver)
  BY <1>1, LinkReported
<1>6. TypeInv'
  BY <1>1, <1>4, <1>5, ThreadsTyped
<1> QED BY <1>1, <1>3, <1>5, <1>6 DEF Changes, l, a

LEMMA NewAddressTyped ==
  ASSUME TypeInv, NEW i \in Ifs, NEW f \in Fams, NewAddress(i, f)
  PROVE  /\ TypeInv' /\ UNCHANGED <<walk, daemon>> /\ i \in kernel.link
         /\ kernel'.link = kernel.link /\ kernel'.upstream = kernel.upstream
         /\ kernel'.addr = [kernel.addr EXCEPT ![i] = @ \cup {f}]
         /\ ByNetlink(Event("ADDR_ADD", i, f, NoIf))
<1> DEFINE a == [kernel.addr EXCEPT ![i] = @ \cup {f}]
<1>1. /\ Changes /\ i \in kernel.link /\ kernel' = [kernel EXCEPT !.addr = a]
      /\ NetlinkSees(Event("ADDR_ADD", i, f, NoIf))
  BY KernelIs DEF NewAddress
<1>2. a \in [Ifs -> SUBSET Fams]
  <2>1. kernel.addr[i] \cup {f} \in SUBSET Fams
    BY KernelIs
  <2> QED BY <2>1, KernelIs
<1> HIDE DEF a
<1>3. kernel' = [link |-> kernel.link, addr |-> a, upstream |-> kernel.upstream, changes |-> kernel.changes]
  BY <1>1, KernelIs
<1>4. kernel' \in Kernels
  BY <1>2, <1>3, KernelIs DEF Kernels
<1>5. Event("ADDR_ADD", i, f, NoIf) \in Good
  BY DEF Event, Good, Messages, Names, UpEvents, DownEvents, UpstreamEvents, News
<1>6. /\ ByNetlink(Event("ADDR_ADD", i, f, NoIf)) /\ queue' \in Seq(Good) /\ driver' \in Seq(FromDriver)
  BY <1>1, <1>5, Reported
<1>7. TypeInv'
  BY <1>1, <1>4, <1>6, ThreadsTyped
<1> QED BY <1>1, <1>3, <1>6, <1>7 DEF Changes, a

LEMMA UpstreamTyped ==
  ASSUME TypeInv, NEW t \in LanSide, NEW f \in Fams, NEW w \in Wans, Upstream(t, f, w)
  PROVE  /\ TypeInv' /\ UNCHANGED <<walk, daemon>> /\ kernel.upstream[t][f] = NoIf
         /\ f \in kernel.addr[w]
         /\ OneUpstream => \A o \in LanSide : kernel.upstream[o][f] \in {NoIf, w}
         /\ kernel'.link = kernel.link /\ kernel'.addr = kernel.addr
         /\ kernel'.upstream = [kernel.upstream EXCEPT ![t][f] = w]
         /\ ByDriver(Event("ROUTE_ADD", t, f, w))
<1> DEFINE u == [kernel.upstream EXCEPT ![t][f] = w]
           c == kernel.changes + 1
<1>1. /\ Changes /\ kernel.upstream[t][f] = NoIf /\ f \in kernel.addr[w]
      /\ OneUpstream => \A o \in LanSide : kernel.upstream[o][f] \in {NoIf, w}
      /\ kernel' = [kernel EXCEPT !.upstream[t][f] = w, !.changes = c]
      /\ DriverSees(Event("ROUTE_ADD", t, f, w))
  BY DEF Upstream
<1>2. u \in [LanSide -> [Fams -> Wans \cup {NoIf}]] /\ c \in Nat
  <2>1. [kernel.upstream[t] EXCEPT ![f] = w] \in [Fams -> Wans \cup {NoIf}]
    BY KernelIs
  <2>2. [kernel.upstream EXCEPT ![t] = [kernel.upstream[t] EXCEPT ![f] = w]]
          \in [LanSide -> [Fams -> Wans \cup {NoIf}]]
    BY <2>1, KernelIs
  <2> QED BY <2>2, KernelIs
<1>3. kernel' = [link |-> kernel.link, addr |-> kernel.addr, upstream |-> u, changes |-> c]
  <2>1. kernel' = [kernel EXCEPT !.upstream = u, !.changes = c]
    BY <1>1, KernelIs
  <2> HIDE DEF u, c
  <2> QED BY <2>1, KernelIs
<1> HIDE DEF u, c
<1>4. kernel' \in Kernels
  BY <1>2, <1>3, KernelIs DEF Kernels
<1>5. Event("ROUTE_ADD", t, f, w) \in Good
  BY Sides DEF Event, Good, Messages, Names, UpEvents, DownEvents, UpstreamEvents, News
<1>6. Event("ROUTE_ADD", t, f, w) \in FromDriver
  BY <1>5 DEF Event, FromDriver, UpstreamEvents
<1>7. /\ ByDriver(Event("ROUTE_ADD", t, f, w)) /\ queue' \in Seq(Good) /\ driver' \in Seq(FromDriver)
  BY <1>1, <1>5, <1>6, Reported
<1>8. TypeInv'
  BY <1>1, <1>4, <1>7, ThreadsTyped
<1> QED BY <1>1, <1>3, <1>7, <1>8 DEF Changes, u

LEMMA NoUpstreamTyped ==
  ASSUME TypeInv, NEW t \in LanSide, NEW f \in Fams, NoUpstream(t, f)
  PROVE  /\ TypeInv' /\ UNCHANGED <<walk, daemon>> /\ kernel.upstream[t][f] \in Wans
         /\ kernel'.link = kernel.link /\ kernel'.addr = kernel.addr
         /\ kernel'.upstream = [kernel.upstream EXCEPT ![t][f] = NoIf]
         /\ ByDriver(Event("ROUTE_DEL", t, f, kernel.upstream[t][f]))
<1> DEFINE u == [kernel.upstream EXCEPT ![t][f] = NoIf]
           w == kernel.upstream[t][f]
<1>1. /\ Changes /\ w # NoIf /\ kernel' = [kernel EXCEPT !.upstream[t][f] = NoIf]
      /\ DriverSees(Event("ROUTE_DEL", t, f, w))
  BY DEF NoUpstream
<1>2. u \in [LanSide -> [Fams -> Wans \cup {NoIf}]] /\ w \in Wans
  <2>1. [kernel.upstream[t] EXCEPT ![f] = NoIf] \in [Fams -> Wans \cup {NoIf}] /\ w \in Wans
    BY <1>1, KernelIs
  <2>2. [kernel.upstream EXCEPT ![t] = [kernel.upstream[t] EXCEPT ![f] = NoIf]]
          \in [LanSide -> [Fams -> Wans \cup {NoIf}]]
    BY <2>1, KernelIs
  <2> QED BY <2>1, <2>2, KernelIs
<1>3. kernel' = [link |-> kernel.link, addr |-> kernel.addr, upstream |-> u, changes |-> kernel.changes]
  <2>1. kernel' = [kernel EXCEPT !.upstream = u]
    BY <1>1, KernelIs
  <2> HIDE DEF u
  <2> QED BY <2>1, KernelIs
<1> HIDE DEF u, w
<1>4. kernel' \in Kernels
  BY <1>2, <1>3, KernelIs DEF Kernels
<1>5. Event("ROUTE_DEL", t, f, w) \in Good
  BY <1>2, Sides DEF Event, Good, Messages, Names, UpEvents, DownEvents, UpstreamEvents, News
<1>6. Event("ROUTE_DEL", t, f, w) \in FromDriver
  BY <1>5 DEF Event, FromDriver, UpstreamEvents
<1>7. /\ ByDriver(Event("ROUTE_DEL", t, f, w)) /\ queue' \in Seq(Good) /\ driver' \in Seq(FromDriver)
  BY <1>1, <1>5, <1>6, Reported
<1>8. TypeInv'
  BY <1>1, <1>4, <1>7, ThreadsTyped
<1> QED BY <1>1, <1>2, <1>3, <1>7, <1>8 DEF Changes, u, w

LEMMA DriverPostsTyped ==
  ASSUME TypeInv, DriverPosts
  PROVE  /\ TypeInv' /\ UNCHANGED <<walk, daemon, kernel>> /\ driver # <<>>
         /\ Head(driver) \in FromDriver /\ Head(driver) \in Good
         /\ queue' = queue \o <<Head(driver)>> /\ driver' = Tail(driver)
<1>1. /\ driver # <<>> /\ Post(<<Head(driver)>>) /\ driver' = Tail(driver) /\ UNCHANGED <<walk, daemon, kernel>>
  BY DEF DriverPosts
<1>2. Head(driver) \in FromDriver /\ Tail(driver) \in Seq(FromDriver) /\ Head(driver) \in Good
  BY <1>1, TailHas DEF TypeInv, FromDriver
<1>3. queue' = queue \o <<Head(driver)>> /\ queue' \in Seq(Good)
  <2>1. <<Head(driver)>> \in Seq(Good)
    BY <1>2
  <2> QED BY <1>1, <2>1, Posted DEF TypeInv
<1>4. TypeInv'
  BY <1>1, <1>2, <1>3, ThreadsTyped DEF TypeInv, Changes
<1> QED BY <1>1, <1>2, <1>3, <1>4

LEMMA InitTyped == Init => TypeInv
<1> SUFFICES ASSUME Init PROVE TypeInv
  OBVIOUS
<1>1. walk = Idle /\ instances = <<>>
  BY DEF Init
<1>2. WalkInv
  BY <1>1, IdleIsGood DEF WalkInv, UpEvents, UpstreamEvents
<1>3. kernel \in Kernels
  BY DEF Init, Kernels
<1>4. queue \in Seq(Good) /\ driver \in Seq(FromDriver) /\ instances \in Seq(Ifs)
  BY DEF Init
<1>5. Distinct(instances)
  <2>1. \A n \in 1 .. Len(<<>>) : FALSE
    OBVIOUS
  <2> QED BY <1>1, <2>1 DEF Distinct
<1>6. tether \in [Fams -> Seq(LanSide)]
  BY DEF Init
<1>7. rules \in [LanSide -> [Fams -> Int]]
  BY DEF Init
<1>8. /\ is_active \subseteq LanSide /\ ip_type \in [Ifs -> SUBSET Fams]
      /\ ul_set \in [LanSide -> SUBSET Fams] /\ active \in [Wans -> SUBSET Fams]
      /\ gateway \subseteq Wans /\ wan_up \subseteq Fams
  BY DEF Init
<1> QED BY <1>1, <1>2, <1>3, <1>4, <1>5, <1>6, <1>7, <1>8, IdleIsGood DEF TypeInv

-----------------------------------------------------------------------------
(***************************************************************************)
(* Links and addresses.  What an event says of an interface is stale when  *)
(* the kernel has changed it since; then its link went down and an event   *)
(* that says so comes after it.  An instance that works is about to hear   *)
(* that its link is down, or is of a link that is up and has, or is about  *)
(* to hear of, each of its addresses.  One that no longer works has its    *)
(* deletion, and only one, ahead: a second would delete the instance that  *)
(* takes its place.                                                        *)
(***************************************************************************)
Downs(i) == {e \in Good : e.ev = DownOf(i) /\ e.i = i}
Addresses(i, f) == {e \in Good : e.ev = "ADDR_ADD" /\ e.i = i /\ e.f = f}
Deletes(i) == {e \in Good : e.ev = "DELETE_SELF" /\ e.i = i}
Stale(i) == {e \in Good : /\ e.i = i
                          /\ \/ e.ev = "ADDR_ADD" /\ e.f \notin kernel.addr[i]
                             \/ e.ev = UpOf(i) /\ i \notin kernel.link}

Now(A) == walk.rest # {} /\ walk.msg \in A
Ahead(A) == Now(A) \/ Has(queue, A) \/ Has(driver, A)
Works(i) == i \in ToSet(instances) /\ (i \in LanSide => i \in is_active)

LinkKnown(i) ==
  /\ i \in kernel.link
  /\ ip_type[i] \subseteq kernel.addr[i]
  /\ \A f \in kernel.addr[i] :
       f \in ip_type[i] \/ Now(Addresses(i, f)) \/ Has(queue, Addresses(i, f))

LinkInv(i) ==
  /\ Recanted(queue, Stale(i), Downs(i)) \/ Has(driver, Downs(i))
  /\ Recanted(driver, Stale(i), Downs(i))
  /\ Now(Stale(i)) => Ahead(Downs(i))
  /\ Works(i) => Ahead(Downs(i)) \/ LinkKnown(i)
  /\ i \notin ToSet(instances) => ip_type[i] = {}

DeleteInv(i) ==
  /\ i \in is_active => i \in ToSet(instances)
  /\ i \in ToSet(instances) \ is_active <=> Now(Deletes(i)) \/ Has(queue, Deletes(i))
  /\ Now(Deletes(i)) => ~Has(queue, Deletes(i))
  /\ Once(queue, Deletes(i))

LinksInv == (\A i \in Ifs : LinkInv(i)) /\ (\A i \in LanSide : DeleteInv(i))

LEMMA LinksInStep ==
  ASSUME TypeInv, LinksInv
  PROVE  InStepWithKernel
<1> SUFFICES ASSUME Quiet
             PROVE  /\ ToSet(instances) \subseteq kernel.link
                    /\ \A i \in is_active \cup (Wans \cap ToSet(instances)) : ip_type[i] = kernel.addr[i]
  BY DEF InStepWithKernel
<1>1. \A A : ~Now(A) /\ ~Has(queue, A) /\ ~Has(driver, A)
  BY EmptyHas DEF Quiet, Asleep, Now
<1>2. ASSUME NEW i \in ToSet(instances)
      PROVE  Works(i) /\ i \in Ifs
  <2>1. i \in Ifs
    <3>1. instances \in Seq(Ifs)
      BY DEF TypeInv
    <3>2. PICK n \in 1 .. Len(instances) : instances[n] = i
      BY <1>2, <3>1, Elements
    <3> QED BY <3>1, <3>2, ElementOfSeq
  <2>2. i \in LanSide => i \in is_active
    BY <1>1, <1>2 DEF LinksInv, DeleteInv
  <2> QED BY <1>2, <2>1, <2>2 DEF Works
<1>3. ASSUME NEW i \in ToSet(instances)
      PROVE  i \in kernel.link /\ ip_type[i] = kernel.addr[i]
  <2>1. LinkKnown(i)
    BY <1>1, <1>2 DEF LinksInv, LinkInv, Ahead
  <2> QED BY <1>1, <2>1 DEF LinkKnown
<1>4. is_active \subseteq ToSet(instances)
  BY DEF LinksInv, DeleteInv, TypeInv
<1> QED BY <1>3, <1>4

(* A step of the command thread that hears nothing of the interface, or    *)
(* after which it does not work.                                           *)
LEMMA LinkKept ==
  ASSUME TypeInv, NEW i \in Ifs, LinkInv(i), NEW t \in Seq(Good), queue' = queue \o t,
         ~Has(t, Stale(i)), UNCHANGED <<driver, kernel>>,
         walk' = Idle \/ (walk'.msg = walk.msg /\ walk.msg.ev \in UpstreamEvents),
         Works(i)' => /\ Works(i) /\ ip_type'[i] = ip_type[i]
                      /\ walk.msg.i # i \/ walk.msg.ev \notin {"ADDR_ADD", DownOf(i)},
         i \notin ToSet(instances') => ip_type'[i] = {}
  PROVE  LinkInv(i)'
<1>1. Stale(i)' = Stale(i) /\ Downs(i)' = Downs(i) /\ \A f : Addresses(i, f)' = Addresses(i, f)
  BY DEF Stale, Downs, Addresses
<1>2. queue \in Seq(Good)
  BY DEF TypeInv
<1>3. /\ \A A : Has(queue, A) => Has(queue', A)
      /\ Recanted(queue, Stale(i), Downs(i)) => Recanted(queue', Stale(i), Downs(i))
  <2>1. Recanted(t, Stale(i), Downs(i))
    BY DEF Has, Recanted
  <2> QED BY <1>2, <2>1, ConcatHas
<1>4. ~Now(Stale(i))'
  BY IdleIsGood DEF Now, Stale, UpOf, UpstreamEvents
<1>5. (Recanted(queue, Stale(i), Downs(i)) \/ Has(driver, Downs(i)))'
  BY <1>1, <1>3 DEF LinkInv
<1>6. Recanted(driver, Stale(i), Downs(i))'
  BY <1>1 DEF LinkInv
<1>7. ASSUME Works(i)'
      PROVE  Ahead(Downs(i))' \/ LinkKnown(i)'
  <2>1. ~Now(Downs(i)) /\ \A f : ~Now(Addresses(i, f))
    BY <1>7 DEF Now, Downs, Addresses
  <2>2. CASE Ahead(Downs(i))
    BY <1>1, <1>3, <2>1, <2>2 DEF Ahead
  <2>3. CASE LinkKnown(i)
    BY <1>1, <1>3, <1>7, <2>1, <2>3 DEF LinkKnown
  <2> QED BY <1>7, <2>2, <2>3 DEF LinkInv
<1> QED BY <1>4, <1>5, <1>6, <1>7 DEF LinkInv

LEMMA NothingPosted ==
  ASSUME TypeInv, queue' = queue
  PROVE  <<>> \in Seq(Good) /\ queue' = queue \o <<>> /\ \A A : ~Has(<<>>, A)
<1>1. queue \in Seq(Good) /\ <<>> \in Seq(Good)
  BY DEF TypeInv
<1>2. queue \o <<>> = queue
  BY <1>1, ConcatEmptySeq
<1>3. \A A : ~Has(<<>>, A)
  BY EmptyHas
<1> QED BY <1>1, <1>2, <1>3

LEMMA LinkProcess ==
  ASSUME TypeInv, NEW i \in Ifs, LinkInv(i), Process
  PROVE  LinkInv(i)'
<1> DEFINE m == Head(queue)
<1>1. /\ walk.rest = {} /\ queue # <<>> /\ queue' = Tail(queue) /\ m \in Good
      /\ UNCHANGED <<daemon, driver, kernel>>
      /\ IF Listeners(m) = {} THEN walk' = Idle ELSE walk'.msg = m /\ walk'.rest = Listeners(m)
  BY ProcessTyped
<1>2. UNCHANGED <<instances, is_active, ip_type>>
  BY <1>1 DEF daemon
<1>3. Stale(i)' = Stale(i) /\ Downs(i)' = Downs(i) /\ (\A f : Addresses(i, f)' = Addresses(i, f))
      /\ Works(i)' = Works(i)
  BY <1>1, <1>2 DEF Stale, Downs, Addresses, Works
<1>4. /\ \A A : Has(queue, A) <=> m \in A \/ Has(queue', A)
      /\ Recanted(queue, Stale(i), Downs(i)) =>
           /\ Recanted(queue', Stale(i), Downs(i))
           /\ m \in Stale(i) => Has(queue', Downs(i))
  <2>1. queue \in Seq(Good)
    BY DEF TypeInv
  <2> QED BY <1>1, <2>1, TailHas
<1>5. \A A : (Now(A)' => m \in A) /\ ~Now(A)
  BY <1>1, IdleIsGood DEF Now
<1>6. ASSUME i \in ToSet(instances), NEW A, m \in A, m.i = i, m.ev \notin UpEvents \cup UpstreamEvents
      PROVE  Now(A)'
  <2>1. i \in Listeners(m)
    BY <1>6 DEF Listeners
  <2> QED BY <1>1, <1>6, <2>1 DEF Now
<1> HIDE DEF m
<1>7. (Recanted(queue, Stale(i), Downs(i)) \/ Has(driver, Downs(i)))'
  BY <1>1, <1>3, <1>4 DEF LinkInv
<1>8. Recanted(driver, Stale(i), Downs(i))'
  BY <1>1, <1>3 DEF LinkInv
<1>9. Now(Stale(i))' => Ahead(Downs(i))'
  BY <1>1, <1>3, <1>4, <1>5 DEF LinkInv, Ahead
<1>10. ASSUME Works(i)'
       PROVE  Ahead(Downs(i))' \/ LinkKnown(i)'
  <2>1. i \in ToSet(instances) /\ Works(i)
    BY <1>3, <1>10 DEF Works
  <2>2. m \in Downs(i) => Now(Downs(i))'
    BY <1>6, <2>1 DEF Downs, DownOf, UpEvents, UpstreamEvents
  <2>3. \A f : m \in Addresses(i, f) => Now(Addresses(i, f))'
    BY <1>6, <2>1 DEF Addresses, UpEvents, UpstreamEvents
  <2>4. CASE Ahead(Downs(i))
    BY <1>1, <1>3, <1>4, <1>5, <2>2, <2>4 DEF Ahead
  <2>5. CASE LinkKnown(i)
    BY <1>1, <1>2, <1>3, <1>4, <1>5, <2>3, <2>5 DEF LinkKnown
  <2> QED BY <2>1, <2>4, <2>5 DEF LinkInv
<1> QED BY <1>2, <1>7, <1>8, <1>9, <1>10 DEF LinkInv

LEMMA LinkDriverPosts ==
  ASSUME TypeInv, NEW i \in Ifs, LinkInv(i), DriverPosts
  PROVE  LinkInv(i)'
<1> DEFINE e == Head(driver)
<1>1. /\ UNCHANGED <<walk, daemon, kernel>> /\ driver # <<>> /\ e \in FromDriver /\ e \in Good
      /\ queue' = queue \o <<e>> /\ driver' = Tail(driver)
  BY DriverPostsTyped
<1>2. UNCHANGED <<walk, instances, is_active, ip_type>>
  BY <1>1 DEF daemon
<1>3. Stale(i)' = Stale(i) /\ Downs(i)' = Downs(i) /\ (\A f : Addresses(i, f)' = Addresses(i, f))
      /\ Works(i)' = Works(i) /\ \A A : Now(A)' = Now(A)
  BY <1>1, <1>2 DEF Stale, Downs, Addresses, Works, Now
<1>4. /\ \A A : Has(driver, A) <=> e \in A \/ Has(driver', A)
      /\ Recanted(driver, Stale(i), Downs(i)) =>
           /\ Recanted(driver', Stale(i), Downs(i))
           /\ e \in Stale(i) => Has(driver', Downs(i))
  <2>1. driver \in Seq(FromDriver)
    BY DEF TypeInv
  <2> QED BY <1>1, <2>1, TailHas
<1> HIDE DEF e
<1>5. /\ \A A : Has(queue', A) <=> Has(queue, A) \/ e \in A
      /\ e \notin Stale(i) /\ (Recanted(queue, Stale(i), Downs(i)) \/ e \in Downs(i))
           => Recanted(queue', Stale(i), Downs(i))
  <2>1. queue \in Seq(Good) /\ <<e>> \in Seq(Good)
    BY <1>1 DEF TypeInv
  <2> QED BY <1>1, <2>1, ConcatHas, OneHas
<1>6. (Recanted(queue, Stale(i), Downs(i)) \/ Has(driver, Downs(i)))'
  <2>1. CASE e \in Stale(i)
    BY <1>3, <1>4, <2>1 DEF LinkInv
  <2>2. CASE e \notin Stale(i)
    BY <1>3, <1>4, <1>5, <2>2 DEF LinkInv
  <2> QED BY <2>1, <2>2
<1>7. Recanted(driver, Stale(i), Downs(i))'
  BY <1>3, <1>4 DEF LinkInv
<1>8. Ahead(Downs(i)) => Ahead(Downs(i))'
  BY <1>3, <1>4, <1>5 DEF Ahead
<1>9. LinkKnown(i) => LinkKnown(i)'
  BY <1>1, <1>2, <1>3, <1>5 DEF LinkKnown
<1> QED BY <1>2, <1>3, <1>6, <1>7, <1>8, <1>9 DEF LinkInv

(* An instance hears of an address.                                        *)
LEMMA LinkAddress ==
  ASSUME TypeInv, NEW i \in Ifs, LinkInv(i), walk' = Idle, walk.rest = {i}, walk.msg.i = i,
         walk.msg.ev = "ADDR_ADD", i \in ToSet(instances),
         ip_type' = [ip_type EXCEPT ![i] = @ \cup {walk.msg.f}],
         UNCHANGED <<queue, instances, is_active, driver, kernel>>
  PROVE  LinkInv(i)'
<1>1. Stale(i)' = Stale(i) /\ Downs(i)' = Downs(i) /\ (\A f : Addresses(i, f)' = Addresses(i, f))
      /\ Works(i)' = Works(i)
  BY DEF Stale, Downs, Addresses, Works
<1>2. ~Now(Stale(i))' /\ ~Now(Downs(i))
  BY IdleIsGood DEF Now, Downs, DownOf
<1>3. Ahead(Downs(i)) => Ahead(Downs(i))'
  BY <1>1, <1>2 DEF Ahead
<1>4. walk.msg \in Good
  BY WhoListens
<1>5. walk.msg.f \in kernel.addr[i] \/ Ahead(Downs(i))
  <2>1. walk.msg \in Stale(i) => Ahead(Downs(i))
    BY DEF LinkInv, Now
  <2> QED BY <1>4, <2>1 DEF Stale
<1>6. ASSUME LinkKnown(i), walk.msg.f \in kernel.addr[i]
      PROVE  LinkKnown(i)'
  <2>1. ip_type'[i] = ip_type[i] \cup {walk.msg.f}
    BY DEF TypeInv
  <2>2. \A f : Now(Addresses(i, f)) => f = walk.msg.f
    BY DEF Now, Addresses
  <2> QED BY <1>1, <1>6, <2>1, <2>2 DEF LinkKnown
<1> QED BY <1>1, <1>2, <1>3, <1>5, <1>6 DEF LinkInv

(* An instance is made, and asks for the addresses known by now.           *)
LEMMA LinkCreated ==
  ASSUME TypeInv, NEW i \in Ifs, LinkInv(i), walk' = Idle, walk.rest # {}, walk.msg.i = i,
         walk.msg.ev = UpOf(i), i \notin ToSet(instances),
         queue' = queue \o KnownAddresses(i), UNCHANGED <<ip_type, driver, kernel>>
  PROVE  LinkInv(i)'
<1> DEFINE t == KnownAddresses(i)
<1>1. /\ t \in Seq(Good) /\ ToSet(t) = {Event("ADDR_ADD", i, f, NoIf) : f \in kernel.addr[i]}
      /\ queue' = queue \o t /\ queue \in Seq(Good)
  BY KnownAddressesAre DEF TypeInv
<1> HIDE DEF t
<1>2. Stale(i)' = Stale(i) /\ Downs(i)' = Downs(i) /\ (\A f : Addresses(i, f)' = Addresses(i, f))
  BY DEF Stale, Downs, Addresses
<1>3. ~Has(t, Stale(i))
  <2>1. \A e \in ToSet(t) : e \notin Stale(i)
    BY <1>1 DEF Event, Stale, UpOf
  <2> QED BY <1>1, <2>1, HasSet
<1>4. \A f \in kernel.addr[i] : Has(t, Addresses(i, f))
  <2> TAKE f \in kernel.addr[i]
  <2>1. Event("ADDR_ADD", i, f, NoIf) \in ToSet(t)
    BY <1>1
  <2>2. Event("ADDR_ADD", i, f, NoIf) \in Good
    <3>1. \E n \in 1 .. Len(t) : t[n] = Event("ADDR_ADD", i, f, NoIf)
      BY <1>1, <2>1, Elements
    <3> QED BY <1>1, <3>1, ElementOfSeq
  <2>3. Event("ADDR_ADD", i, f, NoIf) \in Addresses(i, f)
    BY <2>2 DEF Addresses, Event
  <2> QED BY <1>1, <2>1, <2>3, HasSet
<1>5. /\ \A A : Has(queue', A) <=> Has(queue, A) \/ Has(t, A)
      /\ Recanted(queue, Stale(i), Downs(i)) => Recanted(queue', Stale(i), Downs(i))
  <2>1. Recanted(t, Stale(i), Downs(i))
    BY <1>3 DEF Has, Recanted
  <2> QED BY <1>1, <2>1, ConcatHas
<1>6. ~Now(Stale(i))' /\ ~Now(Downs(i))
  BY IdleIsGood DEF Now, Downs, DownOf, UpOf
<1>7. Ahead(Downs(i)) => Ahead(Downs(i))'
  BY <1>2, <1>5, <1>6 DEF Ahead
<1>8. i \in kernel.link \/ Ahead(Downs(i))
  <2>1. walk.msg \in Good
    BY WhoListens
  <2>2. walk.msg \in Stale(i) => Ahead(Downs(i))
    BY DEF LinkInv, Now
  <2> QED BY <2>1, <2>2 DEF Stale
<1>9. i \in kernel.link => LinkKnown(i)'
  BY <1>2, <1>4, <1>5 DEF LinkKnown, LinkInv
<1>10. ip_type'[i] = {}
  BY DEF LinkInv
<1> QED BY <1>2, <1>5, <1>6, <1>7, <1>8, <1>9, <1>10 DEF LinkInv

(* What a reporting thread adds.                                           *)
LEMMA ReportAdds ==
  ASSUME TypeInv, NEW e, ByDriver(e) \/ ByNetlink(e)
  PROVE  /\ e \in Good
         /\ \A A : /\ Has(queue, A) => Has(queue', A)
                   /\ Has(driver, A) => Has(driver', A)
                   /\ ByDriver(e) => Has(queue', A) = Has(queue, A) /\ (e \in A => Has(driver', A))
                   /\ ByNetlink(e) => Has(driver', A) = Has(driver, A)
                                      /\ (Has(queue', A) <=> Has(queue, A) \/ e \in A)
                   /\ ByNetlink(e) /\ Once(queue, A) /\ e \notin A => Once(queue', A)
         /\ \A A, D : /\ e \notin A /\ Recanted(driver, A, D) => Recanted(driver', A, D)
                      /\ e \notin A /\ Recanted(queue, A, D) => Recanted(queue', A, D)
                      /\ e \notin A /\ e \in D /\ ByDriver(e) => Recanted(driver', A, D)
                      /\ e \notin A /\ e \in D /\ ByNetlink(e) => Recanted(queue', A, D)
<1>1. CASE ByDriver(e)
  <2>1. e \in Good /\ <<e>> \in Seq(FromDriver) /\ driver \in Seq(FromDriver)
        /\ driver' = driver \o <<e>> /\ queue' = queue /\ e \in FromDriver
    BY <1>1 DEF ByDriver, FromDriver, TypeInv
  <2>2. ~ByNetlink(e)
    <3>1. Len(driver \o <<e>>) = Len(driver) + 1 /\ Len(driver) \in Nat
      BY <2>1, ConcatProperties
    <3> QED BY <2>1, <3>1 DEF ByNetlink
  <2>3. \A A : (Has(<<e>>, A) <=> e \in A) /\ (Has(driver', A) <=> Has(driver, A) \/ Has(<<e>>, A))
    BY <2>1, ConcatHas, OneHas
  <2>4. \A A, D : (Recanted(driver, A, D) \/ Has(<<e>>, D)) /\ Recanted(<<e>>, A, D) => Recanted(driver', A, D)
    BY <2>1, ConcatHas
  <2>5. \A A, D : Recanted(<<e>>, A, D) <=> e \notin A
    BY <2>1, OneHas
  <2> QED BY <1>1, <2>1, <2>2, <2>3, <2>4, <2>5
<1>2. CASE ByNetlink(e)
  <2>1. e \in Good /\ <<e>> \in Seq(Good) /\ queue \in Seq(Good)
        /\ queue' = queue \o <<e>> /\ driver' = driver
    BY <1>2 DEF ByNetlink, TypeInv
  <2>2. ~ByDriver(e)
    <3>1. Len(queue \o <<e>>) = Len(queue) + 1 /\ Len(queue) \in Nat
      BY <2>1, ConcatProperties
    <3> QED BY <2>1, <3>1 DEF ByDriver
  <2>3. \A A : (Has(<<e>>, A) <=> e \in A) /\ (Has(queue', A) <=> Has(queue, A) \/ Has(<<e>>, A))
               /\ (Once(queue, A) /\ ~Has(<<e>>, A) => Once(queue', A))
    BY <2>1, ConcatHas, OneHas
  <2>4. \A A, D : (Recanted(queue, A, D) \/ Has(<<e>>, D)) /\ Recanted(<<e>>, A, D) => Recanted(queue', A, D)
    BY <2>1, ConcatHas
  <2>5. \A A, D : Recanted(<<e>>, A, D) <=> e \notin A
    BY <2>1, OneHas
  <2> QED BY <1>2, <2>1, <2>2, <2>3, <2>4, <2>5
<1> QED BY <1>1, <1>2

(* The kernel changes something else.                                      *)
LEMMA LinkElsewhere ==
  ASSUME TypeInv, NEW i \in Ifs, LinkInv(i), UNCHANGED <<walk, daemon>>,
         NEW e, ByDriver(e) \/ ByNetlink(e), e \notin Stale(i),
         kernel'.addr[i] = kernel.addr[i], i \in kernel'.link <=> i \in kernel.link
  PROVE  LinkInv(i)'
<1>1. UNCHANGED <<walk, instances, is_active, ip_type>>
  BY DEF daemon
<1>2. Stale(i)' = Stale(i) /\ Downs(i)' = Downs(i) /\ (\A f : Addresses(i, f)' = Addresses(i, f))
      /\ Works(i)' = Works(i) /\ \A A : Now(A)' = Now(A)
  BY <1>1 DEF Stale, Downs, Addresses, Works, Now
<1>3. /\ \A A : (Has(queue, A) => Has(queue', A)) /\ (Has(driver, A) => Has(driver', A))
      /\ \A A, D : /\ e \notin A /\ Recanted(driver, A, D) => Recanted(driver', A, D)
                   /\ e \notin A /\ Recanted(queue, A, D) => Recanted(queue', A, D)
  BY ReportAdds
<1>4. (Recanted(queue, Stale(i), Downs(i)) \/ Has(driver, Downs(i)))'
  BY <1>2, <1>3 DEF LinkInv
<1>5. Recanted(driver, Stale(i), Downs(i))'
  BY <1>2, <1>3 DEF LinkInv
<1>6. Ahead(Downs(i)) => Ahead(Downs(i))'
  BY <1>2, <1>3 DEF Ahead
<1>7. LinkKnown(i) => LinkKnown(i)'
  BY <1>1, <1>2, <1>3 DEF LinkKnown
<1> QED BY <1>1, <1>2, <1>4, <1>5, <1>6, <1>7 DEF LinkInv

(* The interface itself comes up, goes down, or has one more address.      *)
LEMMA LinkChanges ==
  ASSUME TypeInv, NEW i \in Ifs, LinkInv(i),
         LinkUp(i) \/ LinkDown(i) \/ \E f \in Fams : NewAddress(i, f)
  PROVE  LinkInv(i)'
<1>1. ASSUME UNCHANGED <<walk, daemon>>
      PROVE  /\ UNCHANGED <<instances, is_active, ip_type>>
             /\ Downs(i)' = Downs(i) /\ (\A f : Addresses(i, f)' = Addresses(i, f))
             /\ Works(i)' = Works(i) /\ \A A : Now(A)' = Now(A)
  <2>1. UNCHANGED <<walk, instances, is_active, ip_type>>
    BY <1>1 DEF daemon
  <2> QED BY <2>1 DEF Downs, Addresses, Works, Now
<1>2. ASSUME NEW e, ByDriver(e) \/ ByNetlink(e)
      PROVE  /\ e \in Good
             /\ \A A : (Has(queue, A) => Has(queue', A)) /\ (Has(driver, A) => Has(driver', A))
             /\ \A A, D : /\ e \notin A /\ Recanted(driver, A, D) => Recanted(driver', A, D)
                          /\ e \notin A /\ Recanted(queue, A, D) => Recanted(queue', A, D)
  BY <1>2, ReportAdds
<1>3. CASE LinkUp(i)
  <2> DEFINE e == LinkEvent(UpOf(i), i)
  <2>1. /\ UNCHANGED <<walk, daemon>> /\ i \notin kernel.link
        /\ kernel'.link = kernel.link \cup {i} /\ kernel'.addr = kernel.addr
        /\ ByDriver(e) \/ ByNetlink(e)
    BY <1>3, LinkUpTyped
  <2>2. Stale(i)' \subseteq Stale(i) /\ e \notin Stale(i)'
    BY <2>1 DEF Stale, LinkEvent, Event, UpOf
  <2> HIDE DEF e
  <2>3. /\ Recanted(driver, Stale(i)', Downs(i))
        /\ Recanted(queue, Stale(i)', Downs(i)) \/ Has(driver, Downs(i))
    BY <2>2, FewerRecanted DEF LinkInv
  <2>4. /\ Recanted(driver', Stale(i)', Downs(i))
        /\ Recanted(queue', Stale(i)', Downs(i)) \/ Has(driver', Downs(i))
    BY <1>2, <2>1, <2>2, <2>3
  <2>5. Ahead(Downs(i)) => Ahead(Downs(i))'
    BY <1>1, <1>2, <2>1 DEF Ahead
  <2>6. Works(i) => Ahead(Downs(i))
    BY <2>1 DEF LinkInv, LinkKnown
  <2>7. Now(Stale(i))' => Now(Stale(i))
    BY <2>1, <2>2 DEF Now
  <2> QED BY <1>1, <2>1, <2>4, <2>5, <2>6, <2>7 DEF LinkInv
<1>4. CASE LinkDown(i)
  <2> DEFINE e == LinkEvent(DownOf(i), i)
  <2>1. /\ UNCHANGED <<walk, daemon>>
        /\ IF i = Wlan THEN ByDriver(e) ELSE ByNetlink(e)
    BY <1>4, LinkDownTyped
  <2>2. e \in Downs(i) /\ e \notin Stale(i)'
    <3>1. e \in Good
      BY <1>2, <2>1
    <3> QED BY <3>1 DEF Downs, Stale, LinkEvent, Event, DownOf, UpOf
  <2>3. \A x \in FromDriver : i # Wlan => x \notin Stale(i)'
    BY DEF Stale, FromDriver, UpstreamEvents, UpOf, Good, UpEvents
  <2> HIDE DEF e
  <2>4. CASE i = Wlan
    <3>1. ByDriver(e)
      BY <2>1, <2>4
    <3>2. Has(driver', Downs(i)) /\ Recanted(driver', Stale(i)', Downs(i))
      BY <2>2, <3>1, ReportAdds
    <3> QED BY <1>1, <2>1, <3>2 DEF LinkInv, Ahead
  <2>5. CASE i # Wlan
    <3>1. ByNetlink(e)
      BY <2>1, <2>5
    <3>2. Has(queue', Downs(i)) /\ Recanted(queue', Stale(i)', Downs(i)) /\ driver' = driver
      BY <2>2, <3>1, ReportAdds DEF ByNetlink
    <3>3. Recanted(driver, Stale(i)', Downs(i))
      <4>1. \A n \in 1 .. Len(driver) : driver[n] \in FromDriver
        BY ElementOfSeq DEF TypeInv
      <4> QED BY <2>3, <2>5, <4>1 DEF Recanted
    <3> QED BY <1>1, <2>1, <3>2, <3>3 DEF LinkInv, Ahead
  <2> QED BY <2>4, <2>5
<1>5. ASSUME NEW f \in Fams, NewAddress(i, f)
      PROVE  LinkInv(i)'
  <2> DEFINE e == Event("ADDR_ADD", i, f, NoIf)
  <2>1. /\ UNCHANGED <<walk, daemon>> /\ kernel'.link = kernel.link
        /\ kernel'.addr = [kernel.addr EXCEPT ![i] = @ \cup {f}]
        /\ ByNetlink(e)
    BY <1>5, NewAddressTyped
  <2>2. kernel'.addr[i] = kernel.addr[i] \cup {f}
    BY <2>1, KernelIs
  <2>3. Stale(i)' \subseteq Stale(i) /\ e \notin Stale(i)'
    BY <2>1, <2>2 DEF Stale, Event, UpOf
  <2>4. e \in Addresses(i, f)
    <3>1. e \in Good
      BY <2>1 DEF ByNetlink
    <3> QED BY <3>1 DEF Addresses, Event
  <2> HIDE DEF e
  <2>5. /\ Recanted(driver, Stale(i)', Downs(i))
        /\ Recanted(queue, Stale(i)', Downs(i)) \/ Has(driver, Downs(i))
    BY <2>3, FewerRecanted DEF LinkInv
  <2>6. /\ Recanted(driver', Stale(i)', Downs(i))
        /\ Recanted(queue', Stale(i)', Downs(i)) \/ Has(driver', Downs(i))
    BY <1>2, <2>1, <2>3, <2>5
  <2>7. Ahead(Downs(i)) => Ahead(Downs(i))'
    BY <1>1, <1>2, <2>1 DEF Ahead
  <2>8. Now(Stale(i))' => Now(Stale(i))
    BY <2>1, <2>3 DEF Now
  <2>9. Has(queue', Addresses(i, f)) /\ \A A : Has(queue, A) => Has(queue', A)
    BY <2>1, <2>4, ReportAdds
  <2>10. LinkKnown(i) => LinkKnown(i)'
    <3> SUFFICES ASSUME LinkKnown(i) PROVE LinkKnown(i)'
      OBVIOUS
    <3>1. i \in kernel'.link /\ ip_type'[i] \subseteq kernel'.addr[i]
      BY <1>1, <2>1, <2>2 DEF LinkKnown
    <3>2. ASSUME NEW g \in kernel'.addr[i]
          PROVE  g \in ip_type'[i] \/ Now(Addresses(i, g))' \/ Has(queue', Addresses(i, g)')
      <4>1. CASE g = f
        BY <1>1, <2>1, <2>9, <4>1
      <4>2. CASE g \in kernel.addr[i]
        BY <1>1, <2>1, <2>9, <4>2 DEF LinkKnown
      <4> QED BY <2>2, <3>2, <4>1, <4>2
    <3> QED BY <3>1, <3>2 DEF LinkKnown
  <2> QED BY <1>1, <2>1, <2>6, <2>7, <2>8, <2>10 DEF LinkInv
<1> QED BY <1>3, <1>4, <1>5

(* A step of the dispatcher for another listener.                          *)
LEMMA LinkStep ==
  ASSUME TypeInv, NEW i \in Ifs, LinkInv(i), i \in LanSide => DeleteInv(i), [Next]_vars
  PROVE  LinkInv(i)'
<1>1. CASE UNCHANGED vars
  <2>1. UNCHANGED <<queue, walk, driver, kernel, instances, is_active, ip_type>>
    BY <1>1 DEF vars, daemon
  <2>2. /\ Stale(i)' = Stale(i) /\ Downs(i)' = Downs(i) /\ (\A f : Addresses(i, f)' = Addresses(i, f))
        /\ Works(i)' = Works(i) /\ \A A : Now(A)' = Now(A)
    BY <2>1 DEF Stale, Downs, Addresses, Works, Now
  <2> QED BY <2>1, <2>2 DEF LinkInv, LinkKnown, Ahead
<1>2. CASE Process \/ DriverPosts
  BY <1>2, LinkProcess, LinkDriverPosts
<1>3. ASSUME NEW j \in Ifs, LinkIsUp(j) \/ (j = Wlan /\ AccessPointIsUp)
      PROVE  LinkInv(i)'
  <2>1. /\ walk.rest # {} /\ walk.msg.ev = UpOf(j) /\ walk.msg.i = j /\ walk' = Idle
        /\ UNCHANGED <<driver, kernel, ip_type>>
        /\ \/ UNCHANGED <<queue, instances, is_active>>
           \/ /\ j \notin ToSet(instances) /\ ToSet(instances') = ToSet(instances) \cup {j}
              /\ is_active' = is_active \cup ({j} \cap LanSide)
              /\ queue' = queue \o KnownAddresses(j)
    BY <1>3, LinkIsUpTyped
  <2>2. CASE UNCHANGED <<queue, instances, is_active>>
    <3>1. Works(i)' = Works(i)
      BY <2>2 DEF Works
    <3>2. walk.msg.ev \notin {"ADDR_ADD", DownOf(i)}
      BY <2>1 DEF UpOf, DownOf
    <3>3. i \notin ToSet(instances') => ip_type'[i] = {}
      BY <2>1, <2>2 DEF LinkInv
    <3> QED BY <2>1, <2>2, <3>1, <3>2, <3>3, LinkKept, NothingPosted
  <2>3. ASSUME j \notin ToSet(instances), ToSet(instances') = ToSet(instances) \cup {j},
               is_active' = is_active \cup ({j} \cap LanSide),
               queue' = queue \o KnownAddresses(j), i # j
        PROVE  LinkInv(i)'
    <3>1. /\ KnownAddresses(j) \in Seq(Good)
          /\ ToSet(KnownAddresses(j)) = {Event("ADDR_ADD", j, f, NoIf) : f \in kernel.addr[j]}
      BY KnownAddressesAre
    <3>2. ~Has(KnownAddresses(j), Stale(i))
      <4>1. \A e \in ToSet(KnownAddresses(j)) : e \notin Stale(i)
        BY <2>3, <3>1 DEF Event, Stale
      <4> QED BY <3>1, <4>1, HasSet
    <3>3. Works(i)' => Works(i)
      BY <2>3 DEF Works
    <3>4. i \notin ToSet(instances') => ip_type'[i] = {}
      BY <2>1, <2>3 DEF LinkInv
    <3> QED BY <2>1, <2>3, <3>1, <3>2, <3>3, <3>4, LinkKept
  <2>4. ASSUME j \notin ToSet(instances), queue' = queue \o KnownAddresses(j), i = j
        PROVE  LinkInv(i)'
    BY <2>1, <2>4, LinkCreated
  <2> QED BY <2>1, <2>2, <2>3, <2>4
<1>4. ASSUME NEW j \in LanSide, Ignored(j)
      PROVE  LinkInv(i)'
  <2>1. /\ walk' = Idle /\ walk.msg.i = j /\ j \notin is_active
        /\ UNCHANGED <<queue, daemon, driver, kernel>>
    BY <1>4, IgnoredTyped
  <2>2. UNCHANGED <<instances, is_active, ip_type>>
    BY <2>1 DEF daemon
  <2>3. Works(i)' => Works(i) /\ i # j
    BY <2>1, <2>2 DEF Works
  <2>4. i \notin ToSet(instances') => ip_type'[i] = {}
    BY <2>2 DEF LinkInv
  <2> QED BY <2>1, <2>2, <2>3, <2>4, LinkKept, NothingPosted
<1>5. ASSUME NEW j \in Ifs, (j \in LanSide /\ LanAddress(j)) \/ (j \in Wans /\ WanAddress(j))
      PROVE  LinkInv(i)'
  <2>1. /\ walk' = Idle /\ walk.rest = {j} /\ walk.msg.i = j /\ walk.msg.ev = "ADDR_ADD"
        /\ j \in ToSet(instances) /\ ip_type' = [ip_type EXCEPT ![j] = @ \cup {walk.msg.f}]
        /\ UNCHANGED <<queue, instances, is_active, driver, kernel>>
    BY <1>5, LanAddressTyped, WanAddressTyped
  <2>2. CASE i = j
    BY <2>1, <2>2, LinkAddress
  <2>3. CASE i # j
    <3>1. ip_type'[i] = ip_type[i]
      BY <2>1, <2>3 DEF TypeInv
    <3>2. Works(i)' => Works(i)
      BY <2>1 DEF Works
    <3>3. i \notin ToSet(instances') => ip_type'[i] = {}
      BY <2>1, <3>1 DEF LinkInv
    <3> QED BY <2>1, <2>3, <3>1, <3>2, <3>3, LinkKept, NothingPosted
  <2> QED BY <2>2, <2>3
<1>6. ASSUME NEW j \in LanSide, LanWanUp(j) \/ LanWanDown(j)
      PROVE  LinkInv(i)'
  <2>1. /\ walk' = Idle /\ walk.msg.ev \in News
        /\ UNCHANGED <<queue, instances, is_active, ip_type, driver, kernel>>
    BY <1>6, LanWanTyped
  <2>2. walk.msg.ev \notin {"ADDR_ADD", DownOf(i)}
    BY <2>1 DEF News, DownOf
  <2>3. Works(i)' => Works(i)
    BY <2>1 DEF Works
  <2>4. i \notin ToSet(instances') => ip_type'[i] = {}
    BY <2>1 DEF LinkInv
  <2> QED BY <2>1, <2>2, <2>3, <2>4, LinkKept, NothingPosted
<1>7. ASSUME NEW j \in LanSide, LanDown(j)
      PROVE  LinkInv(i)'
  <2>1. /\ walk' = Idle /\ walk.msg.i = j /\ is_active' = is_active \ {j}
        /\ queue' = queue \o <<LinkEvent("DELETE_SELF", j)>> /\ LinkEvent("DELETE_SELF", j) \in Good
        /\ UNCHANGED <<instances, ip_type, driver, kernel>>
    BY <1>7, LanDownTyped
  <2>2. Works(i)' => Works(i) /\ i # j
    BY <2>1 DEF Works
  <2>3. <<LinkEvent("DELETE_SELF", j)>> \in Seq(Good) /\ ~Has(<<LinkEvent("DELETE_SELF", j)>>, Stale(i))
    <3>1. LinkEvent("DELETE_SELF", j) \notin Stale(i)
      BY DEF LinkEvent, Event, Stale, UpOf
    <3> QED BY <2>1, <3>1, OneHas
  <2>4. i \notin ToSet(instances') => ip_type'[i] = {}
    BY <2>1 DEF LinkInv
  <2> QED BY <2>1, <2>2, <2>3, <2>4, LinkKept
<1>8. ASSUME NEW j \in LanSide, LanDelete(j)
      PROVE  LinkInv(i)'
  <2>1. /\ walk' = Idle /\ walk.msg.i = j /\ walk.msg.ev = "DELETE_SELF"
        /\ ToSet(instances') = ToSet(instances) \ {j} /\ ip_type' = [ip_type EXCEPT ![j] = {}]
        /\ UNCHANGED <<queue, is_active, driver, kernel>>
    BY <1>8, LanDeleteTyped
  <2>2. ip_type'[i] = IF i = j THEN {} ELSE ip_type[i]
    BY <2>1 DEF TypeInv
  <2>3. Works(i)' => Works(i) /\ i # j
    BY <2>1 DEF Works
  <2>4. i \notin ToSet(instances') => ip_type'[i] = {}
    BY <2>1, <2>2 DEF LinkInv
  <2> QED BY <2>1, <2>2, <2>3, <2>4, LinkKept, NothingPosted
<1>9. ASSUME NEW w \in Wans, NEW t \in Seq(Good), queue' = queue \o t, RouteHeard(w),
             \A n \in 1 .. Len(t) : t[n].ev \in News
      PROVE  LinkInv(i)'
  <2>1. /\ walk' = Idle \/ (walk'.msg = walk.msg /\ walk.msg.ev \in UpstreamEvents)
        /\ walk.msg.ev \notin {"ADDR_ADD", DownOf(i)}
        /\ UNCHANGED <<instances, is_active, ip_type, driver, kernel>>
    BY <1>9 DEF RouteHeard, UpstreamEvents, DownOf
  <2>2. ~Has(t, Stale(i))
    BY <1>9 DEF Has, Stale, News, UpOf
  <2>3. Works(i)' = Works(i)
    BY <2>1 DEF Works
  <2>4. i \notin ToSet(instances') => ip_type'[i] = {}
    BY <2>1 DEF LinkInv
  <2> QED BY <1>9, <2>1, <2>2, <2>3, <2>4, LinkKept
<1>10. ASSUME NEW w \in Wans, WanRouteAdd(w) \/ WanRouteElsewhere(w) \/ WanRouteDel(w)
       PROVE  LinkInv(i)'
  <2>1. /\ RouteHeard(w)
        /\ \/ queue' = queue
           \/ \E e \in Good : e.ev \in News /\ queue' = queue \o <<e>>
    <3>1. CASE WanRouteAdd(w)
      BY <3>1, RouteAddTyped DEF News, Event
    <3>2. CASE WanRouteElsewhere(w)
      BY <3>2, RouteElsewhereTyped
    <3>3. CASE WanRouteDel(w)
      BY <3>3, RouteDelTyped DEF News, Event
    <3> QED BY <1>10, <3>1, <3>2, <3>3
  <2>2. CASE queue' = queue
    <3>1. <<>> \in Seq(Good) /\ queue' = queue \o <<>> /\ \A n \in 1 .. Len(<<>>) : <<>>[n].ev \in News
      BY <2>2, NothingPosted
    <3> QED BY <1>9, <2>1, <3>1
  <2>3. ASSUME NEW e \in Good, e.ev \in News, queue' = queue \o <<e>>
        PROVE  LinkInv(i)'
    <3>1. <<e>> \in Seq(Good) /\ \A n \in 1 .. Len(<<e>>) : <<e>>[n].ev \in News
      BY <2>3
    <3> QED BY <1>9, <2>1, <2>3, <3>1
  <2> QED BY <2>1, <2>2, <2>3
<1>11. ASSUME NEW w \in Wans, WanDown(w)
       PROVE  LinkInv(i)'
  <2>1. /\ walk' = Idle /\ walk.rest = {w} /\ walk.msg.i = w
        /\ ToSet(instances') = ToSet(instances) \ {w} /\ ip_type' = [ip_type EXCEPT ![w] = {}]
        /\ UNCHANGED <<is_active, driver, kernel>>
    BY <1>11, WanDownTyped
  <2>2. PICK fs \in SUBSET Fams : queue' = queue \o DownNews(fs)
    BY <1>11, WanDownTyped
  <2>3. DownNews(fs) \in Seq(Good) /\ \A e \in ToSet(DownNews(fs)) : e.ev = "WAN_DOWN"
    BY DownNewsAre
  <2>4. ~Has(DownNews(fs), Stale(i))
    <3>1. \A e \in ToSet(DownNews(fs)) : e \notin Stale(i)
      BY <2>3 DEF Stale, UpOf
    <3> QED BY <2>3, <3>1, HasSet
  <2>5. ip_type'[i] = IF i = w THEN {} ELSE ip_type[i]
    BY <2>1, Sides DEF TypeInv
  <2>6. Works(i)' => Works(i) /\ i # w
    BY <2>1 DEF Works
  <2>7. i \notin ToSet(instances') => ip_type'[i] = {}
    BY <2>1, <2>5 DEF LinkInv
  <2> QED BY <2>1, <2>2, <2>3, <2>4, <2>5, <2>6, <2>7, LinkKept
<1>12. ASSUME NEW j \in Ifs, LinkUp(j) \/ LinkDown(j) \/ \E f \in Fams : NewAddress(j, f)
       PROVE  LinkInv(i)'
  <2>1. CASE i = j
    BY <1>12, <2>1, LinkChanges
  <2>2. ASSUME i # j
        PROVE  LinkInv(i)'
    <3>1. CASE LinkUp(j)
      <4>1. /\ UNCHANGED <<walk, daemon>> /\ kernel'.link = kernel.link \cup {j} /\ kernel'.addr = kernel.addr
            /\ ByDriver(LinkEvent(UpOf(j), j)) \/ ByNetlink(LinkEvent(UpOf(j), j))
        BY <3>1, LinkUpTyped
      <4>2. LinkEvent(UpOf(j), j) \notin Stale(i)
        BY <2>2 DEF LinkEvent, Event, Stale
      <4> QED BY <2>2, <4>1, <4>2, LinkElsewhere
    <3>2. CASE LinkDown(j)
      <4>1. /\ UNCHANGED <<walk, daemon>> /\ kernel'.link = kernel.link \ {j}
            /\ kernel'.addr = [kernel.addr EXCEPT ![j] = {}]
            /\ ByDriver(LinkEvent(DownOf(j), j)) \/ ByNetlink(LinkEvent(DownOf(j), j))
        BY <3>2, LinkDownTyped
      <4>2. LinkEvent(DownOf(j), j) \notin Stale(i)
        BY <2>2 DEF LinkEvent, Event, Stale
      <4>3. kernel'.addr[i] = kernel.addr[i]
        BY <2>2, <4>1, KernelIs
      <4> QED BY <2>2, <4>1, <4>2, <4>3, LinkElsewhere
    <3>3. ASSUME NEW f \in Fams, NewAddress(j, f)
          PROVE  LinkInv(i)'
      <4>1. /\ UNCHANGED <<walk, daemon>> /\ kernel'.link = kernel.link
            /\ kernel'.addr = [kernel.addr EXCEPT ![j] = @ \cup {f}]
            /\ ByNetlink(Event("ADDR_ADD", j, f, NoIf))
        BY <3>3, NewAddressTyped
      <4>2. Event("ADDR_ADD", j, f, NoIf) \notin Stale(i)
        BY <2>2 DEF Event, Stale
      <4>3. kernel'.addr[i] = kernel.addr[i]
        BY <2>2, <4>1, KernelIs
      <4> QED BY <4>1, <4>2, <4>3, LinkElsewhere
    <3> QED BY <1>12, <3>1, <3>2, <3>3
  <2> QED BY <2>1, <2>2
<1>13. ASSUME NEW t \in LanSide, NEW f \in Fams, NoUpstream(t, f) \/ \E w \in Wans : Upstream(t, f, w)
       PROVE  LinkInv(i)'
  <2>1. /\ UNCHANGED <<walk, daemon>> /\ kernel'.link = kernel.link /\ kernel'.addr = kernel.addr
        /\ \E e : ByDriver(e) /\ e.ev \in UpstreamEvents
    <3> \A w : /\ Event("ROUTE_ADD", t, f, w).ev \in UpstreamEvents
               /\ Event("ROUTE_DEL", t, f, w).ev \in UpstreamEvents
      BY DEF Event, UpstreamEvents
    <3>1. CASE NoUpstream(t, f)
      <4>1. /\ UNCHANGED <<walk, daemon>> /\ kernel'.link = kernel.link /\ kernel'.addr = kernel.addr
            /\ ByDriver(Event("ROUTE_DEL", t, f, kernel.upstream[t][f]))
        BY <3>1, NoUpstreamTyped
      <4> QED BY <4>1
    <3>2. ASSUME NEW w \in Wans, Upstream(t, f, w)
          PROVE  /\ UNCHANGED <<walk, daemon>> /\ kernel'.link = kernel.link /\ kernel'.addr = kernel.addr
                 /\ \E e : ByDriver(e) /\ e.ev \in UpstreamEvents
      <4>1. /\ UNCHANGED <<walk, daemon>> /\ kernel'.link = kernel.link /\ kernel'.addr = kernel.addr
            /\ ByDriver(Event("ROUTE_ADD", t, f, w))
        BY <3>2, UpstreamTyped
      <4> QED BY <4>1
    <3> QED BY <1>13, <3>1, <3>2
  <2>2. PICK e : ByDriver(e) /\ e.ev \in UpstreamEvents
    BY <2>1
  <2>3. e \notin Stale(i)
    BY <2>2 DEF Stale, UpstreamEvents, UpOf
  <2> QED BY <2>1, <2>2, <2>3, LinkElsewhere
<1>14. Wlan \in Ifs
  BY Sides
<1>15. CASE CommandThread
  <2>1. CASE Process \/ AccessPointIsUp \/ \E j \in Ifs : LinkIsUp(j)
    BY <1>2, <1>3, <1>14, <2>1
  <2>2. ASSUME NEW j \in LanSide, \/ Ignored(j) \/ LanAddress(j) \/ LanWanUp(j)
                                  \/ LanWanDown(j) \/ LanDown(j) \/ LanDelete(j)
        PROVE  LinkInv(i)'
    <3>1. j \in Ifs
      BY Sides
    <3> QED BY <1>4, <1>5, <1>6, <1>7, <1>8, <2>2, <3>1
  <2>3. ASSUME NEW w \in Wans, \/ WanAddress(w) \/ WanRouteAdd(w) \/ WanRouteElsewhere(w)
                               \/ WanRouteDel(w) \/ WanDown(w)
        PROVE  LinkInv(i)'
    <3>1. w \in Ifs
      BY Sides
    <3> QED BY <1>5, <1>10, <1>11, <2>3, <3>1
  <2> QED BY <1>15, <2>1, <2>2, <2>3 DEF CommandThread
<1>16. CASE Kernel
  BY <1>12, <1>13, <1>16 DEF Kernel
<1> QED BY <1>1, <1>2, <1>15, <1>16 DEF Next

(* What the modem instances post when they hear of an upstream is news.    *)
LEMMA RouteNews ==
  ASSUME TypeInv, NEW w \in Wans, WanRouteAdd(w) \/ WanRouteElsewhere(w) \/ WanRouteDel(w)
  PROVE  RouteHeard(w) /\ \E t \in Seq(Good) : queue' = queue \o t /\ \A e \in ToSet(t) : e.ev \in News
<1>1. /\ RouteHeard(w)
      /\ \/ queue' = queue
         \/ \E e \in Good : e.ev \in News /\ queue' = queue \o <<e>>
  <2>1. CASE WanRouteAdd(w)
    BY <2>1, RouteAddTyped DEF News, Event
  <2>2. CASE WanRouteElsewhere(w)
    BY <2>2, RouteElsewhereTyped
  <2>3. CASE WanRouteDel(w)
    BY <2>3, RouteDelTyped DEF News, Event
  <2> QED BY <2>1, <2>2, <2>3
<1>2. CASE queue' = queue
  <2>1. <<>> \in Seq(Good) /\ queue' = queue \o <<>> /\ \A e \in ToSet(<<>>) : e.ev \in News
    BY <1>2, NothingPosted DEF ToSet
  <2> QED BY <1>1, <2>1
<1>3. ASSUME NEW e \in Good, e.ev \in News, queue' = queue \o <<e>>
      PROVE  \E t \in Seq(Good) : queue' = queue \o t /\ \A x \in ToSet(t) : x.ev \in News
  <2>1. <<e>> \in Seq(Good) /\ ToSet(<<e>>) = {e}
    BY <1>3 DEF ToSet
  <2> QED BY <1>3, <2>1
<1> QED BY <1>1, <1>2, <1>3

(* What the kernel changes is reported, and is no deletion.                *)
LEMMA KernelReports ==
  ASSUME TypeInv, Kernel
  PROVE  UNCHANGED <<walk, daemon>> /\ \E e : (ByDriver(e) \/ ByNetlink(e)) /\ e.ev # "DELETE_SELF"
<1>1. ASSUME NEW i \in Ifs, LinkUp(i) \/ LinkDown(i)
      PROVE  UNCHANGED <<walk, daemon>> /\ \E e : (ByDriver(e) \/ ByNetlink(e)) /\ e.ev # "DELETE_SELF"
  <2>1. PICK ev \in {UpOf(i), DownOf(i)} : ByDriver(LinkEvent(ev, i)) \/ ByNetlink(LinkEvent(ev, i))
    BY <1>1, LinkUpTyped, LinkDownTyped
  <2>2. LinkEvent(ev, i).ev # "DELETE_SELF"
    BY DEF LinkEvent, Event, UpOf, DownOf
  <2>3. UNCHANGED <<walk, daemon>>
    BY <1>1, LinkUpTyped, LinkDownTyped
  <2> QED BY <2>1, <2>2, <2>3
<1>2. ASSUME NEW i \in Ifs, NEW f \in Fams, NewAddress(i, f)
      PROVE  UNCHANGED <<walk, daemon>> /\ \E e : (ByDriver(e) \/ ByNetlink(e)) /\ e.ev # "DELETE_SELF"
  <2>1. ByNetlink(Event("ADDR_ADD", i, f, NoIf)) /\ UNCHANGED <<walk, daemon>>
    BY <1>2, NewAddressTyped
  <2>2. Event("ADDR_ADD", i, f, NoIf).ev # "DELETE_SELF"
    BY DEF Event
  <2> QED BY <2>1, <2>2
<1>3. ASSUME NEW t \in LanSide, NEW f \in Fams, NEW w \in Wans, Upstream(t, f, w)
      PROVE  UNCHANGED <<walk, daemon>> /\ \E e : (ByDriver(e) \/ ByNetlink(e)) /\ e.ev # "DELETE_SELF"
  <2>1. ByDriver(Event("ROUTE_ADD", t, f, w)) /\ UNCHANGED <<walk, daemon>>
    BY <1>3, UpstreamTyped
  <2>2. Event("ROUTE_ADD", t, f, w).ev # "DELETE_SELF"
    BY DEF Event
  <2> QED BY <2>1, <2>2
<1>4. ASSUME NEW t \in LanSide, NEW f \in Fams, NoUpstream(t, f)
      PROVE  UNCHANGED <<walk, daemon>> /\ \E e : (ByDriver(e) \/ ByNetlink(e)) /\ e.ev # "DELETE_SELF"
  <2>1. ByDriver(Event("ROUTE_DEL", t, f, kernel.upstream[t][f])) /\ UNCHANGED <<walk, daemon>>
    BY <1>4, NoUpstreamTyped
  <2>2. Event("ROUTE_DEL", t, f, kernel.upstream[t][f]).ev # "DELETE_SELF"
    BY DEF Event
  <2> QED BY <2>1, <2>2
<1> QED BY <1>1, <1>2, <1>3, <1>4 DEF Kernel

(* An instance's deletion is not touched by other steps.                   *)
LEMMA DeleteKept ==
  ASSUME TypeInv, NEW i \in LanSide, DeleteInv(i), NEW t \in Seq(Good), queue' = queue \o t,
         ~Has(t, Deletes(i)), Now(Deletes(i))' <=> Now(Deletes(i)),
         i \in is_active' <=> i \in is_active,
         i \in ToSet(instances') <=> i \in ToSet(instances)
  PROVE  DeleteInv(i)'
<1>1. Deletes(i)' = Deletes(i)
  BY DEF Deletes
<1>2. queue \in Seq(Good)
  BY DEF TypeInv
<1>3. /\ Has(queue', Deletes(i)) <=> Has(queue, Deletes(i))
      /\ Once(queue, Deletes(i)) => Once(queue', Deletes(i))
  BY <1>2, ConcatHas
<1> QED BY <1>1, <1>3 DEF DeleteInv

LEMMA DeleteStep ==
  ASSUME TypeInv, NEW i \in LanSide, DeleteInv(i), [Next]_vars
  PROVE  DeleteInv(i)'
<1>0. Deletes(i)' = Deletes(i) /\ i \in Ifs
  BY Sides DEF Deletes
<1>1. CASE UNCHANGED vars
  <2>1. UNCHANGED <<queue, walk, instances, is_active>>
    BY <1>1 DEF vars, daemon
  <2> QED BY <1>0, <2>1 DEF DeleteInv, Now
<1>2. CASE Process
  <2> DEFINE m == Head(queue)
  <2>1. /\ walk.rest = {} /\ queue # <<>> /\ queue' = Tail(queue) /\ m \in Good
        /\ UNCHANGED <<daemon, driver, kernel>>
        /\ IF Listeners(m) = {} THEN walk' = Idle ELSE walk'.msg = m /\ walk'.rest = Listeners(m)
    BY <1>2, ProcessTyped
  <2>2. UNCHANGED <<instances, is_active>>
    BY <2>1 DEF daemon
  <2>3. queue \in Seq(Good)
    BY DEF TypeInv
  <2>4. Has(queue, Deletes(i)) <=> m \in Deletes(i) \/ Has(queue', Deletes(i))
    BY <2>1, <2>3, TailHas
  <2>5. /\ Once(queue', Deletes(i))
        /\ m \in Deletes(i) => ~Has(queue', Deletes(i))
    <3>1. Once(queue, Deletes(i)) => /\ Once(Tail(queue), Deletes(i))
                                     /\ Head(queue) \in Deletes(i) => ~Has(Tail(queue), Deletes(i))
      BY <2>1, <2>3, TailHas
    <3> QED BY <2>1, <3>1 DEF DeleteInv
  <2>6. m \in Deletes(i) => i \in ToSet(instances)
    BY <2>4 DEF DeleteInv
  <2>7. m \in Deletes(i) => i \in Listeners(m)
    BY <2>6 DEF Deletes, Listeners, UpEvents, UpstreamEvents
  <2> HIDE DEF m
  <2>8. ~Now(Deletes(i)) /\ (Now(Deletes(i))' <=> m \in Deletes(i))
    BY <1>0, <2>1, <2>7, IdleIsGood DEF Now
  <2> QED BY <1>0, <2>2, <2>4, <2>5, <2>8 DEF DeleteInv
<1>3. CASE DriverPosts
  <2>1. /\ UNCHANGED <<walk, daemon>> /\ Head(driver) \in FromDriver /\ Head(driver) \in Good
        /\ queue' = queue \o <<Head(driver)>>
    BY <1>3, DriverPostsTyped
  <2>2. UNCHANGED <<walk, instances, is_active>>
    BY <2>1 DEF daemon
  <2>3. <<Head(driver)>> \in Seq(Good) /\ ~Has(<<Head(driver)>>, Deletes(i))
    <3>1. Head(driver) \notin Deletes(i)
      BY <2>1 DEF FromDriver, Deletes, UpstreamEvents
    <3>2. Has(<<Head(driver)>>, Deletes(i)) <=> Head(driver) \in Deletes(i)
      BY <2>1, OneHas
    <3>3. <<Head(driver)>> \in Seq(Good)
      BY <2>1
    <3> QED BY <3>1, <3>2, <3>3
  <2> QED BY <1>0, <2>1, <2>2, <2>3, DeleteKept DEF Now
<1>4. ASSUME NEW j \in Ifs, LinkIsUp(j) \/ (j = Wlan /\ AccessPointIsUp)
      PROVE  DeleteInv(i)'
  <2>1. /\ walk.msg.ev = UpOf(j) /\ walk' = Idle
        /\ \/ UNCHANGED <<queue, instances, is_active>>
           \/ /\ j \notin ToSet(instances) /\ ToSet(instances') = ToSet(instances) \cup {j}
              /\ is_active' = is_active \cup ({j} \cap LanSide)
              /\ queue' = queue \o KnownAddresses(j)
    BY <1>4, LinkIsUpTyped
  <2>2. ~Now(Deletes(i)) /\ ~Now(Deletes(i))'
    BY <2>1, IdleIsGood DEF Now, Deletes, UpOf
  <2>3. CASE UNCHANGED <<queue, instances, is_active>>
    BY <2>2, <2>3, DeleteKept, NothingPosted
  <2>4. ASSUME j \notin ToSet(instances), ToSet(instances') = ToSet(instances) \cup {j},
               is_active' = is_active \cup ({j} \cap LanSide),
               queue' = queue \o KnownAddresses(j)
        PROVE  DeleteInv(i)'
    <3>1. /\ KnownAddresses(j) \in Seq(Good)
          /\ ToSet(KnownAddresses(j)) = {Event("ADDR_ADD", j, f, NoIf) : f \in kernel.addr[j]}
      BY KnownAddressesAre
    <3>2. ~Has(KnownAddresses(j), Deletes(i))
      <4>1. \A e \in ToSet(KnownAddresses(j)) : e \notin Deletes(i)
        BY <3>1 DEF Event, Deletes
      <4> QED BY <3>1, <4>1, HasSet
    <3>3. CASE i # j
      BY <2>2, <2>4, <3>1, <3>2, <3>3, DeleteKept
    <3>4. CASE i = j
      <4>1. queue \in Seq(Good) /\ ~Has(queue, Deletes(i))
        BY <2>4, <3>4 DEF DeleteInv, TypeInv
      <4>2. ~Has(queue', Deletes(i)) /\ Once(queue', Deletes(i))
        <5>1. Once(queue, Deletes(i))
          BY DEF DeleteInv
        <5> QED BY <2>4, <3>1, <3>2, <4>1, <5>1, ConcatHas
      <4> QED BY <1>0, <2>2, <2>4, <3>4, <4>2 DEF DeleteInv
    <3> QED BY <3>3, <3>4
  <2> QED BY <2>1, <2>3, <2>4
<1>5. ASSUME NEW j \in LanSide, Ignored(j)
      PROVE  DeleteInv(i)'
  <2>1. /\ walk' = Idle /\ walk.msg.ev # "DELETE_SELF" /\ UNCHANGED <<queue, daemon>>
    BY <1>5, IgnoredTyped
  <2>2. UNCHANGED <<queue, instances, is_active>>
    BY <2>1 DEF daemon
  <2>3. ~Now(Deletes(i)) /\ ~Now(Deletes(i))'
    BY <2>1, IdleIsGood DEF Now, Deletes
  <2> QED BY <2>2, <2>3, DeleteKept, NothingPosted
<1>6. ASSUME walk' = Idle, walk.msg.ev \in {"ADDR_ADD"} \cup News,
             UNCHANGED <<queue, instances, is_active>>
      PROVE  DeleteInv(i)'
  <2>1. ~Now(Deletes(i)) /\ ~Now(Deletes(i))'
    BY <1>6, IdleIsGood DEF Now, Deletes, News
  <2> QED BY <1>6, <2>1, DeleteKept, NothingPosted
<1>7. ASSUME NEW j \in LanSide, LanDown(j)
      PROVE  DeleteInv(i)'
  <2> DEFINE e == LinkEvent("DELETE_SELF", j)
  <2>1. /\ walk' = Idle /\ walk.msg.ev = DownOf(j) /\ j \in is_active /\ j \in ToSet(instances)
        /\ is_active' = is_active \ {j} /\ instances' = instances
        /\ queue' = queue \o <<e>> /\ e \in Good
    BY <1>7, LanDownTyped
  <2>2. ~Now(Deletes(i)) /\ ~Now(Deletes(i))'
    BY <2>1, IdleIsGood DEF Now, Deletes, DownOf
  <2>3. e \in Deletes(i) <=> i = j
    BY <2>1 DEF Deletes, LinkEvent, Event
  <2> HIDE DEF e
  <2>4. <<e>> \in Seq(Good) /\ (Has(<<e>>, Deletes(i)) <=> i = j) /\ Once(<<e>>, Deletes(i))
    BY <2>1, <2>3, OneHas
  <2>5. CASE i # j
    BY <2>1, <2>2, <2>4, <2>5, DeleteKept
  <2>6. CASE i = j
    <3>1. queue \in Seq(Good) /\ ~Has(queue, Deletes(i))
      BY <2>1, <2>6 DEF DeleteInv, TypeInv
    <3>2. Has(queue', Deletes(i)) /\ Once(queue', Deletes(i))
      BY <2>1, <2>4, <2>6, <3>1, ConcatHas
    <3> QED BY <1>0, <2>1, <2>2, <2>6, <3>2 DEF DeleteInv
  <2> QED BY <2>5, <2>6
<1>8. ASSUME NEW j \in LanSide, LanDelete(j)
      PROVE  DeleteInv(i)'
  <2>1. /\ walk' = Idle /\ walk.rest = {j} /\ walk.msg.i = j /\ walk.msg.ev = "DELETE_SELF"
        /\ ToSet(instances') = ToSet(instances) \ {j} /\ UNCHANGED <<queue, is_active>>
    BY <1>8, LanDeleteTyped
  <2>2. ~Now(Deletes(i))' /\ (Now(Deletes(i)) <=> i = j)
    <3>1. walk.msg \in Good
      BY <2>1, WhoListens
    <3> QED BY <1>0, <2>1, <3>1, IdleIsGood DEF Now, Deletes
  <2>3. CASE i # j
    BY <2>1, <2>2, <2>3, DeleteKept, NothingPosted
  <2>4. CASE i = j
    BY <1>0, <2>1, <2>2, <2>4 DEF DeleteInv
  <2> QED BY <2>3, <2>4
<1>9. ASSUME NEW w \in Wans, NEW t \in Seq(Good), queue' = queue \o t,
             \/ RouteHeard(w)
             \/ /\ walk' = Idle /\ walk.msg.ev = "LINK_DOWN" /\ is_active' = is_active
                /\ ToSet(instances') = ToSet(instances) \ {w},
             \A e \in ToSet(t) : e.ev \in News
      PROVE  DeleteInv(i)'
  <2>1. ~Has(t, Deletes(i))
    <3>1. \A e \in ToSet(t) : e \notin Deletes(i)
      BY <1>9 DEF Deletes, News
    <3> QED BY <3>1, HasSet
  <2>2. ~Now(Deletes(i)) /\ ~Now(Deletes(i))'
    BY <1>9, IdleIsGood DEF Now, Deletes, RouteHeard, UpstreamEvents
  <2>3. (i \in is_active' <=> i \in is_active) /\ (i \in ToSet(instances') <=> i \in ToSet(instances))
    BY <1>9, Sides DEF RouteHeard
  <2> QED BY <1>9, <2>1, <2>2, <2>3, DeleteKept
<1>10. ASSUME NEW w \in Wans, WanRouteAdd(w) \/ WanRouteElsewhere(w) \/ WanRouteDel(w)
       PROVE  DeleteInv(i)'
  <2>1. RouteHeard(w) /\ \E t \in Seq(Good) : queue' = queue \o t /\ \A e \in ToSet(t) : e.ev \in News
    BY <1>10, RouteNews
  <2> QED BY <1>9, <2>1
<1>11. ASSUME NEW w \in Wans, WanDown(w)
       PROVE  DeleteInv(i)'
  <2>1. /\ walk' = Idle /\ walk.msg.ev = "LINK_DOWN" /\ is_active' = is_active
        /\ ToSet(instances') = ToSet(instances) \ {w}
    BY <1>11, WanDownTyped
  <2>2. PICK fs \in SUBSET Fams : queue' = queue \o DownNews(fs)
    BY <1>11, WanDownTyped
  <2>3. DownNews(fs) \in Seq(Good) /\ \A e \in ToSet(DownNews(fs)) : e.ev \in News
    BY DownNewsAre DEF News
  <2> QED BY <1>9, <2>1, <2>2, <2>3
<1>12. CASE Kernel
  <2>1. UNCHANGED <<walk, daemon>> /\ \E e : (ByDriver(e) \/ ByNetlink(e)) /\ e.ev # "DELETE_SELF"
    BY <1>12, KernelReports
  <2>2. PICK e : (ByDriver(e) \/ ByNetlink(e)) /\ e.ev # "DELETE_SELF"
    BY <2>1
  <2>3. UNCHANGED <<walk, instances, is_active>>
    BY <2>1 DEF daemon
  <2>4. e \notin Deletes(i)
    BY <2>2 DEF Deletes
  <2>5. CASE ByDriver(e)
    BY <2>3, <2>5, DeleteKept, NothingPosted DEF ByDriver, Now, Deletes
  <2>6. CASE ByNetlink(e)
    <3>1. <<e>> \in Seq(Good) /\ ~Has(<<e>>, Deletes(i)) /\ queue' = queue \o <<e>>
      <4>1. e \in Good /\ queue' = queue \o <<e>>
        BY <2>6 DEF ByNetlink
      <4>2. Has(<<e>>, Deletes(i)) <=> e \in Deletes(i)
        BY <4>1, OneHas
      <4>3. <<e>> \in Seq(Good)
        BY <4>1
      <4> QED BY <2>4, <4>1, <4>2, <4>3
    <3> QED BY <1>0, <2>3, <3>1, DeleteKept DEF Now
  <2> QED BY <2>2, <2>5, <2>6
<1>13. CASE CommandThread
  <2>1. CASE Process \/ AccessPointIsUp \/ \E j \in Ifs : LinkIsUp(j)
    BY <1>2, <1>4, <2>1, Sides
  <2>2. ASSUME NEW j \in LanSide, \/ Ignored(j) \/ LanAddress(j) \/ LanWanUp(j)
                                  \/ LanWanDown(j) \/ LanDown(j) \/ LanDelete(j)
        PROVE  DeleteInv(i)'
    <3>1. CASE LanAddress(j)
      BY <1>6, <3>1, LanAddressTyped
    <3>2. CASE LanWanUp(j) \/ LanWanDown(j)
      BY <1>6, <3>2, LanWanTyped
    <3> QED BY <1>5, <1>7, <1>8, <2>2, <3>1, <3>2
  <2>3. ASSUME NEW w \in Wans, \/ WanAddress(w) \/ WanRouteAdd(w) \/ WanRouteElsewhere(w)
                               \/ WanRouteDel(w) \/ WanDown(w)
        PROVE  DeleteInv(i)'
    <3>1. CASE WanAddress(w)
      BY <1>6, <3>1, WanAddressTyped
    <3> QED BY <1>10, <1>11, <2>3, <3>1
  <2> QED BY <1>13, <2>1, <2>2, <2>3 DEF CommandThread
<1> QED BY <1>1, <1>3, <1>12, <1>13 DEF Next

LEMMA TypeStep ==
  ASSUME TypeInv, [Next]_vars
  PROVE  TypeInv'
<1>1. CASE UNCHANGED vars
  <2>1. UNCHANGED <<queue, walk, driver, kernel, instances, is_active, ip_type, ul_set, active,
                    gateway, wan_up, tether, rules>>
    BY <1>1 DEF vars, daemon
  <2> QED BY <2>1 DEF TypeInv, WalkInv
<1>2. CASE CommandThread
  <2>1. CASE Process \/ AccessPointIsUp \/ \E j \in Ifs : LinkIsUp(j)
    BY <2>1, ProcessTyped, LinkIsUpTyped, Sides
  <2>2. ASSUME NEW j \in LanSide, \/ Ignored(j) \/ LanAddress(j) \/ LanWanUp(j)
                                  \/ LanWanDown(j) \/ LanDown(j) \/ LanDelete(j)
        PROVE  TypeInv'
    BY <2>2, IgnoredTyped, LanAddressTyped, LanWanTyped, LanDownTyped, LanDeleteTyped
  <2>3. ASSUME NEW w \in Wans, \/ WanAddress(w) \/ WanRouteAdd(w) \/ WanRouteElsewhere(w)
                               \/ WanRouteDel(w) \/ WanDown(w)
        PROVE  TypeInv'
    BY <2>3, WanAddressTyped, RouteAddTyped, RouteElsewhereTyped, RouteDelTyped, WanDownTyped
  <2> QED BY <1>2, <2>1, <2>2, <2>3 DEF CommandThread
<1>3. CASE DriverPosts
  BY <1>3, DriverPostsTyped
<1>4. CASE Kernel
  BY <1>4, LinkUpTyped, LinkDownTyped, NewAddressTyped, UpstreamTyped, NoUpstreamTyped DEF Kernel
<1> QED BY <1>1, <1>2, <1>3, <1>4 DEF Next

LEMMA LinksInit == Init => LinksInv
<1> SUFFICES ASSUME Init PROVE LinksInv
  OBVIOUS
<1>1. \A A, D : ~Has(queue, A) /\ ~Has(driver, A) /\ Recanted(queue, A, D) /\ Recanted(driver, A, D)
                /\ Once(queue, A)
  BY EmptyHas DEF Init
<1>2. \A A : ~Now(A)
  BY IdleIsGood DEF Init, Now
<1>3. ToSet(instances) = {} /\ is_active = {} /\ \A i \in Ifs : ip_type[i] = {}
  BY DEF Init, ToSet
<1>4. \A i \in Ifs : LinkInv(i)
  BY <1>1, <1>2, <1>3 DEF LinkInv, Works
<1>5. \A i \in LanSide : DeleteInv(i)
  BY <1>1, <1>2, <1>3 DEF DeleteInv
<1> QED BY <1>4, <1>5 DEF LinksInv

LEMMA LinksStep ==
  ASSUME TypeInv, LinksInv, [Next]_vars
  PROVE  LinksInv'
<1>1. \A i \in Ifs : LinkInv(i)'
  BY LinkStep DEF LinksInv
<1>2. \A i \in LanSide : DeleteInv(i)'
  BY DeleteStep DEF LinksInv
<1> QED BY <1>1, <1>2 DEF LinksInv

(* Whenever every event is handled, the instances are of links that are    *)
(* up, and those that work have the addresses the kernel has, whatever     *)
(* came and went in between and in whichever order the threads told of it: *)
(* event_callback and create_iface_instance, for any interfaces.           *)
THEOREM InStep == Spec => []InStepWithKernel
<1>1. TypeInv /\ LinksInv => InStepWithKernel
  BY LinksInStep
<1>2. TypeInv /\ LinksInv /\ [Next]_vars => TypeInv' /\ LinksInv'
  BY TypeStep, LinksStep
<1> QED
  BY <1>1, <1>2, InitTyped, LinksInit, PTL DEF Spec

-----------------------------------------------------------------------------
(***************************************************************************)
(* The backhaul, for one family of addresses and one upstream at a time.   *)
(* An assignment says which modem interface each tethered interface uses.  *)
(* The upstream events that are still ahead lead, one assignment to the    *)
(* next, from the assignment the modem instances have heard of to the one  *)
(* the system has by now.                                                  *)
(***************************************************************************)
Assignments == {a \in [LanSide -> Wans \cup {NoIf}] :
                  \A t, o \in LanSide : a[t] # NoIf /\ a[o] # NoIf => a[t] = a[o]}

Leads(a, e, b) ==
  /\ e.ev = "ROUTE_ADD" => a[e.i] = NoIf /\ b = [a EXCEPT ![e.i] = e.w]
  /\ e.ev = "ROUTE_DEL" => a[e.i] = e.w /\ b = [a EXCEPT ![e.i] = NoIf]
  /\ e.ev \notin UpstreamEvents => b = a

Chain(s, a, b) ==
  \E u \in [1 .. Len(s) + 1 -> Assignments] :
    /\ u[1] = a /\ u[Len(s) + 1] = b
    /\ \A n \in 1 .. Len(s) : Leads(u[n], s[n], u[n + 1])

LEMMA ChainHead ==
  ASSUME NEW T, NEW s \in Seq(T), s # <<>>, NEW a, NEW b, Chain(s, a, b)
  PROVE  \E c \in Assignments : Leads(a, Head(s), c) /\ Chain(Tail(s), c, b)
<1>1. PICK u \in [1 .. Len(s) + 1 -> Assignments] :
        /\ u[1] = a /\ u[Len(s) + 1] = b
        /\ \A n \in 1 .. Len(s) : Leads(u[n], s[n], u[n + 1])
  BY DEF Chain
<1> DEFINE t == Tail(s)
           v == [n \in 1 .. Len(t) + 1 |-> u[n + 1]]
<1>2. /\ t \in Seq(T) /\ Len(t) = Len(s) - 1 /\ Len(s) \in Nat \ {0}
      /\ Head(s) = s[1] /\ \A n \in 1 .. Len(t) : t[n] = s[n + 1]
  BY EmptySeq, LenProperties, HeadTailProperties
<1> HIDE DEF t
<1>3. v \in [1 .. Len(t) + 1 -> Assignments]
  <2>1. \A n \in 1 .. Len(t) + 1 : n + 1 \in 1 .. Len(s) + 1
    BY <1>2
  <2> QED BY <2>1
<1>4. u[2] \in Assignments /\ v[1] = u[2] /\ v[Len(t) + 1] = b
  <2>1. 2 \in 1 .. Len(s) + 1 /\ 1 \in 1 .. Len(t) + 1 /\ Len(t) + 1 \in 1 .. Len(t) + 1
        /\ Len(t) + 1 + 1 = Len(s) + 1
    BY <1>2
  <2>2. v[1] = u[1 + 1] /\ v[Len(t) + 1] = u[Len(t) + 1 + 1]
    BY <2>1
  <2> QED BY <1>1, <2>1, <2>2
<1>5. \A n \in 1 .. Len(t) : Leads(v[n], t[n], v[n + 1])
  <2> TAKE n \in 1 .. Len(t)
  <2>1. n + 1 \in 1 .. Len(s) /\ n \in 1 .. Len(t) + 1 /\ n + 1 \in 1 .. Len(t) + 1
    BY <1>2
  <2>2. v[n] = u[n + 1] /\ v[n + 1] = u[n + 1 + 1]
    BY <2>1
  <2>3. Leads(u[n + 1], s[n + 1], u[n + 1 + 1])
    BY <1>1, <2>1
  <2> QED BY <1>2, <2>2, <2>3
<1>6. Chain(t, u[2], b)
  <2> HIDE DEF v
  <2> QED BY <1>3, <1>4, <1>5 DEF Chain
<1>7. Leads(a, Head(s), u[2])
  <2>1. 1 \in 1 .. Len(s)
    BY <1>2
  <2>2. Leads(u[1], s[1], u[1 + 1])
    BY <1>1, <2>1
  <2> QED BY <1>1, <1>2, <2>2
<1> QED BY <1>4, <1>6, <1>7 DEF t

LEMMA ChainConcat ==
  ASSUME NEW T, NEW s \in Seq(T), NEW t \in Seq(T), NEW a, NEW b, NEW c,
         Chain(s, a, b), Chain(t, b, c)
  PROVE  Chain(s \o t, a, c)
<1>1. PICK u \in [1 .. Len(s) + 1 -> Assignments] :
        /\ u[1] = a /\ u[Len(s) + 1] = b
        /\ \A n \in 1 .. Len(s) : Leads(u[n], s[n], u[n + 1])
  BY DEF Chain
<1>2. PICK v \in [1 .. Len(t) + 1 -> Assignments] :
        /\ v[1] = b /\ v[Len(t) + 1] = c
        /\ \A n \in 1 .. Len(t) : Leads(v[n], t[n], v[n + 1])
  BY DEF Chain
<1> DEFINE r == s \o t
           x == [n \in 1 .. Len(r) + 1 |-> IF n <= Len(s) THEN u[n] ELSE v[n - Len(s)]]
<1>3. /\ r \in Seq(T) /\ Len(r) = Len(s) + Len(t) /\ Len(s) \in Nat /\ Len(t) \in Nat
      /\ \A n \in 1 .. Len(s) + Len(t) : r[n] = IF n <= Len(s) THEN s[n] ELSE t[n - Len(s)]
  BY ConcatProperties, LenProperties
<1> HIDE DEF r
<1>4. ASSUME NEW n \in 1 .. Len(r) + 1
      PROVE  /\ n <= Len(s) => n \in 1 .. Len(s) + 1 /\ x[n] = u[n]
             /\ n > Len(s) => n - Len(s) \in 1 .. Len(t) + 1 /\ x[n] = v[n - Len(s)]
             /\ x[n] \in Assignments
  <2>1. CASE n <= Len(s)
    <3>1. n \in 1 .. Len(s) + 1 /\ x[n] = u[n]
      BY <1>3, <2>1
    <3> QED BY <1>3, <2>1, <3>1
  <2>2. CASE n > Len(s)
    <3>1. n - Len(s) \in 1 .. Len(t) + 1 /\ ~(n <= Len(s))
      BY <1>3, <2>2
    <3>2. x[n] = v[n - Len(s)]
      BY <3>1
    <3> QED BY <3>1, <3>2
  <2> QED BY <1>3, <2>1, <2>2
<1>5. x \in [1 .. Len(r) + 1 -> Assignments]
  BY <1>4
<1>6. x[1] = a
  <2>1. 1 \in 1 .. Len(r) + 1
    BY <1>3
  <2>2. CASE Len(s) = 0
    <3>1. 1 > Len(s) /\ 1 - Len(s) = 1 /\ Len(s) + 1 = 1
      BY <2>2
    <3>2. x[1] = v[1 - Len(s)]
      BY <1>4, <2>1, <3>1
    <3> QED BY <1>1, <1>2, <3>1, <3>2
  <2>3. CASE Len(s) # 0
    <3>1. 1 <= Len(s)
      BY <1>3, <2>3
    <3> QED BY <1>1, <1>4, <2>1, <3>1
  <2> QED BY <2>2, <2>3
<1>7. x[Len(r) + 1] = c
  <2>1. Len(r) + 1 \in 1 .. Len(r) + 1 /\ Len(r) + 1 > Len(s) /\ Len(r) + 1 - Len(s) = Len(t) + 1
    BY <1>3
  <2>2. x[Len(r) + 1] = v[Len(r) + 1 - Len(s)]
    BY <1>4, <2>1
  <2> QED BY <1>2, <2>1, <2>2
<1>8. \A n \in 1 .. Len(r) : Leads(x[n], r[n], x[n + 1])
  <2> TAKE n \in 1 .. Len(r)
  <2>0. n \in 1 .. Len(r) + 1 /\ n + 1 \in 1 .. Len(r) + 1
    BY <1>3
  <2>1. CASE n < Len(s)
    <3>1. n \in 1 .. Len(s) /\ n <= Len(s) /\ n + 1 <= Len(s) /\ n \in 1 .. Len(s) + Len(t)
      BY <1>3, <2>1
    <3>2. x[n] = u[n] /\ x[n + 1] = u[n + 1] /\ r[n] = s[n]
      BY <1>3, <1>4, <2>0, <3>1
    <3> QED BY <1>1, <3>1, <3>2
  <2>2. CASE n = Len(s)
    <3>1. n \in 1 .. Len(s) /\ n <= Len(s) /\ n + 1 > Len(s) /\ n + 1 - Len(s) = 1
          /\ n \in 1 .. Len(s) + Len(t) /\ n + 1 = Len(s) + 1
      BY <1>3, <2>2
    <3>2. x[n] = u[n] /\ x[n + 1] = v[n + 1 - Len(s)] /\ r[n] = s[n]
      BY <1>3, <1>4, <2>0, <3>1
    <3>3. x[n + 1] = u[n + 1]
      BY <1>1, <1>2, <3>1, <3>2
    <3> QED BY <1>1, <3>1, <3>2, <3>3
  <2>3. CASE n > Len(s)
    <3> DEFINE k == n - Len(s)
    <3>1. k \in 1 .. Len(t) /\ ~(n <= Len(s)) /\ n + 1 > Len(s) /\ n + 1 - Len(s) = k + 1
          /\ n \in 1 .. Len(s) + Len(t)
      BY <1>3, <2>3
    <3>2. x[n] = v[k] /\ x[n + 1] = v[n + 1 - Len(s)] /\ r[n] = t[k]
      BY <1>3, <1>4, <2>0, <2>3, <3>1
    <3> HIDE DEF k
    <3> QED BY <1>2, <3>1, <3>2
  <2> QED BY <1>3, <2>1, <2>2, <2>3
<1> HIDE DEF x
<1> QED BY <1>5, <1>6, <1>7, <1>8 DEF Chain, r

(* Events of other kinds lead nowhere.                                     *)
LEMMA ChainStays ==
  ASSUME NEW T, NEW s \in Seq(T), NEW a \in Assignments,
         \A n \in 1 .. Len(s) : s[n].ev \notin UpstreamEvents
  PROVE  Chain(s, a, a)
<1> DEFINE u == [n \in 1 .. Len(s) + 1 |-> a]
<1>1. Len(s) \in Nat
  BY LenProperties
<1>2. u \in [1 .. Len(s) + 1 -> Assignments] /\ u[1] = a /\ u[Len(s) + 1] = a
  BY <1>1
<1>3. \A n \in 1 .. Len(s) : u[n] = a /\ u[n + 1] = a
  BY <1>1
<1>4. \A n \in 1 .. Len(s) : Leads(u[n], s[n], u[n + 1])
  BY <1>3 DEF Leads, UpstreamEvents
<1> HIDE DEF u
<1> QED BY <1>2, <1>4 DEF Chain

LEMMA ChainOne ==
  ASSUME NEW T, NEW e \in T, NEW a \in Assignments, NEW b \in Assignments, Leads(a, e, b)
  PROVE  Chain(<<e>>, a, b)
<1> DEFINE u == [n \in 1 .. Len(<<e>>) + 1 |-> IF n = 1 THEN a ELSE b]
<1>1. Len(<<e>>) = 1 /\ <<e>>[1] = e
  OBVIOUS
<1>2. u \in [1 .. Len(<<e>>) + 1 -> Assignments] /\ u[1] = a /\ u[Len(<<e>>) + 1] = b /\ u[1 + 1] = b
  BY <1>1
<1>3. \A n \in 1 .. Len(<<e>>) : n = 1
  BY <1>1
<1>4. Leads(u[1], <<e>>[1], u[1 + 1])
  BY <1>1, <1>2
<1> HIDE DEF u
<1>5. \A n \in 1 .. Len(<<e>>) : Leads(u[n], <<e>>[n], u[n + 1])
  BY <1>3, <1>4
<1> QED BY <1>2, <1>5 DEF Chain

LEMMA ChainEnds ==
  ASSUME NEW T, NEW s \in Seq(T), NEW a, NEW b, Chain(s, a, b)
  PROVE  a \in Assignments /\ b \in Assignments
<1>1. PICK u \in [1 .. Len(s) + 1 -> Assignments] : u[1] = a /\ u[Len(s) + 1] = b
  BY DEF Chain
<1>2. 1 \in 1 .. Len(s) + 1 /\ Len(s) + 1 \in 1 .. Len(s) + 1
  BY LenProperties
<1> QED BY <1>1, <1>2

OneBackhaul == OneUpstream \/ \E w : Wans = {w}
Upstreams(f) == [t \in LanSide |-> kernel.upstream[t][f]]

(* A tethered interface that was added at the modem instance it uses has   *)
(* its route there, and a modem instance has a route for such interfaces.  *)
RoutesAre(a, f) ==
  /\ Distinct(tether[f])
  /\ \A t \in ToSet(tether[f]) : a[t] \in Wans /\ f \in active[a[t]]
  /\ \A w \in Wans :
       /\ f \in active[w] => /\ f \in ip_type[w] /\ w \in gateway /\ w \in ToSet(instances)
                             /\ \E t \in ToSet(tether[f]) : a[t] = w
       /\ w \in gateway => f \in active[w]
  /\ f \in wan_up <=> ToSet(tether[f]) # {}

(* The modem instance that an upstream event is of has yet to hear of it.  *)
Pending == walk.msg.ev \in UpstreamEvents /\ walk.msg.w \in walk.rest
Heard(a, b) ==
  IF Pending THEN Leads(a, walk.msg, b)
  ELSE a = b /\ (walk.rest # {} /\ walk.msg.ev = "ROUTE_ADD" => a[walk.msg.i] = walk.msg.w)

UpInv(f) ==
  \E a, b, m \in Assignments :
    /\ RoutesAre(a, f) /\ Heard(a, b)
    /\ Chain(queue, b, m) /\ Chain(driver, m, Upstreams(f))

LEMMA UpTrue ==
  ASSUME TypeInv, NEW f, Fams = {f}, UpInv(f)
  PROVE  WanUpIsTrue
<1>1. PICK a \in Assignments : RoutesAre(a, f)
  BY DEF UpInv
<1>2. f \in wan_up <=> \E w \in Wans : f \in active[w]
  BY <1>1 DEF RoutesAre
<1> QED BY <1>2 DEF WanUpIsTrue

(* A step that has nothing to do with upstreams.                           *)
LEMMA UpKept ==
  ASSUME TypeInv, NEW f, Fams = {f}, UpInv(f), NEW t \in Seq(Good), queue' = queue \o t,
         \A n \in 1 .. Len(t) : t[n].ev \notin UpstreamEvents,
         walk' = Idle, walk.msg.ev \notin UpstreamEvents,
         UNCHANGED <<driver, kernel, active, gateway, wan_up, tether>>,
         \A w \in Wans : /\ ip_type[w] \subseteq ip_type'[w]
                         /\ w \in ToSet(instances) => w \in ToSet(instances')
  PROVE  UpInv(f)'
<1>1. PICK a \in Assignments, b \in Assignments, m \in Assignments :
        RoutesAre(a, f) /\ Heard(a, b) /\ Chain(queue, b, m) /\ Chain(driver, m, Upstreams(f))
  BY DEF UpInv
<1>2. a = b
  BY <1>1 DEF Heard, Pending
<1>3. Heard(a, b)'
  BY <1>2, IdleIsGood DEF Heard, Pending
<1>4. RoutesAre(a, f)'
  BY <1>1 DEF RoutesAre
<1>5. Chain(queue', b, m)
  <2>1. queue \in Seq(Good)
    BY DEF TypeInv
  <2>2. Chain(t, m, m)
    BY ChainStays
  <2> QED BY <1>1, <2>1, <2>2, ChainConcat
<1>6. Chain(driver', m, Upstreams(f)')
  BY <1>1 DEF Upstreams
<1>7. Chain(queue, b, m)' /\ Chain(driver, m, Upstreams(f))'
  BY <1>5, <1>6 DEF Chain
<1> QED BY <1>3, <1>4, <1>7 DEF UpInv

(* An upstream of a modem instance that has no route is not noticed.       *)
LEMMA RouteMissed ==
  ASSUME TypeInv, NEW f \in Fams, NEW a \in Assignments, NEW c \in Assignments, NEW e \in Good,
         e.ev \in UpstreamEvents, RoutesAre(a, f), Leads(a, e, c), f \notin active[e.w]
  PROVE  RoutesAre(c, f)
<1>1. e.i \in LanSide /\ e.w \in Wans
  BY DEF Good
<1>2. ToSet(tether[f]) \subseteq LanSide
  <2>1. tether[f] \in Seq(LanSide)
    BY DEF TypeInv
  <2>2. \A t \in ToSet(tether[f]) : \E n \in 1 .. Len(tether[f]) : tether[f][n] = t
    BY <2>1, Elements
  <2> QED BY <2>1, <2>2, ElementOfSeq
<1>3. e.i \notin ToSet(tether[f])
  BY Sides DEF Leads, RoutesAre, UpstreamEvents
<1>4. \A t \in LanSide : t # e.i => c[t] = a[t]
  BY DEF Leads, UpstreamEvents, Assignments
<1>5. \A t \in ToSet(tether[f]) : c[t] = a[t]
  BY <1>2, <1>3, <1>4
<1> QED BY <1>5 DEF RoutesAre

LEMMA UpProcess ==
  ASSUME TypeInv, NEW f, Fams = {f}, UpInv(f), Process
  PROVE  UpInv(f)'
<1> DEFINE e == Head(queue)
<1>1. /\ walk.rest = {} /\ queue # <<>> /\ queue' = Tail(queue) /\ e \in Good
      /\ UNCHANGED <<daemon, driver, kernel>>
      /\ IF Listeners(e) = {} THEN walk' = Idle ELSE walk'.msg = e /\ walk'.rest = Listeners(e)
  BY ProcessTyped
<1>2. UNCHANGED <<instances, ip_type, active, gateway, wan_up, tether, driver, kernel>>
  BY <1>1 DEF daemon
<1>3. PICK a \in Assignments, b \in Assignments, m \in Assignments :
        RoutesAre(a, f) /\ Heard(a, b) /\ Chain(queue, b, m) /\ Chain(driver, m, Upstreams(f))
  BY DEF UpInv
<1>4. a = b
  BY <1>1, <1>3 DEF Heard, Pending
<1>5. PICK c \in Assignments : Leads(a, e, c) /\ Chain(queue', c, m)
  <2>1. queue \in Seq(Good)
    BY DEF TypeInv
  <2>2. \E c \in Assignments : Leads(b, Head(queue), c) /\ Chain(Tail(queue), c, m)
    BY <1>1, <1>3, <2>1, ChainHead
  <2> QED BY <1>1, <1>4, <2>2
<1>6. Listeners(e) = {} \/ walk'.rest = Listeners(e)
  BY <1>1
<1> HIDE DEF e
<1>7. Chain(queue, c, m)' /\ Chain(driver, m, Upstreams(f))'
  <2>1. Upstreams(f)' = Upstreams(f) /\ driver' = driver
    BY <1>2 DEF Upstreams
  <2> QED BY <1>3, <1>5, <2>1 DEF Chain
<1>8. CASE e.ev \in UpstreamEvents /\ e.w \in ToSet(instances)
  <2>1. e.w \in Wans
    BY <1>1, <1>8 DEF Good
  <2>2. e.w \in Listeners(e) /\ e.ev \notin UpEvents
    BY <1>8, <2>1 DEF Listeners, UpstreamEvents, UpEvents
  <2>3. walk'.msg = e /\ e.w \in walk'.rest
    BY <1>1, <2>2
  <2>4. Heard(a, c)'
    BY <1>5, <1>8, <2>3 DEF Heard, Pending, Leads
  <2>5. RoutesAre(a, f)'
    BY <1>2, <1>3 DEF RoutesAre
  <2> QED BY <1>7, <2>4, <2>5 DEF UpInv
<1>9. CASE e.ev \in UpstreamEvents /\ e.w \notin ToSet(instances)
  <2>1. f \notin active[e.w] /\ e.w \in Wans
    BY <1>1, <1>3, <1>9 DEF RoutesAre, Good
  <2>2. RoutesAre(c, f)
    BY <1>1, <1>3, <1>5, <1>9, <2>1, RouteMissed
  <2>3. RoutesAre(c, f)'
    BY <1>2, <2>2 DEF RoutesAre
  <2>4. e.w \notin Listeners(e)
    BY <1>9 DEF Listeners, UpstreamEvents, UpEvents
  <2>5. c \in [LanSide -> Wans \cup {NoIf}] /\ a \in [LanSide -> Wans \cup {NoIf}]
    BY DEF Assignments
  <2>6. e.ev = "ROUTE_ADD" => c[e.i] = e.w
    BY <1>1, <1>5, <2>5 DEF Leads, Good, UpstreamEvents
  <2>7. Heard(c, c)'
    <3>1. CASE Listeners(e) = {}
      BY <1>1, <3>1, IdleIsGood DEF Heard, Pending, UpstreamEvents
    <3>2. CASE Listeners(e) # {}
      BY <1>1, <2>4, <2>6, <3>2 DEF Heard, Pending
    <3> QED BY <3>1, <3>2
  <2> QED BY <1>7, <2>3, <2>7 DEF UpInv
<1>10. CASE e.ev \notin UpstreamEvents
  <2>1. c = a
    BY <1>5, <1>10 DEF Leads
  <2>2. Heard(a, a)'
    <3>1. CASE Listeners(e) = {}
      BY <1>1, <3>1, IdleIsGood DEF Heard, Pending, UpstreamEvents
    <3>2. CASE Listeners(e) # {}
      BY <1>1, <1>10, <3>2 DEF Heard, Pending, UpstreamEvents
    <3> QED BY <3>1, <3>2
  <2>3. RoutesAre(a, f)'
    BY <1>2, <1>3 DEF RoutesAre
  <2> QED BY <1>7, <2>1, <2>2, <2>3 DEF UpInv
<1> QED BY <1>8, <1>9, <1>10

LEMMA UpDriverPosts ==
  ASSUME TypeInv, NEW f, Fams = {f}, UpInv(f), DriverPosts
  PROVE  UpInv(f)'
<1> DEFINE e == Head(driver)
<1>1. /\ UNCHANGED <<walk, daemon, kernel>> /\ driver # <<>> /\ e \in FromDriver /\ e \in Good
      /\ queue' = queue \o <<e>> /\ driver' = Tail(driver)
  BY DriverPostsTyped
<1>2. UNCHANGED <<walk, instances, ip_type, active, gateway, wan_up, tether, kernel>>
  BY <1>1 DEF daemon
<1>3. PICK a \in Assignments, b \in Assignments, m \in Assignments :
        RoutesAre(a, f) /\ Heard(a, b) /\ Chain(queue, b, m) /\ Chain(driver, m, Upstreams(f))
  BY DEF UpInv
<1>4. PICK c \in Assignments : Leads(m, e, c) /\ Chain(driver', c, Upstreams(f))
  <2>1. driver \in Seq(FromDriver)
    BY DEF TypeInv
  <2>2. \E c \in Assignments : Leads(m, Head(driver), c) /\ Chain(Tail(driver), c, Upstreams(f))
    BY <1>1, <1>3, <2>1, ChainHead
  <2> QED BY <1>1, <2>2
<1> HIDE DEF e
<1>5. Chain(queue', b, c)
  <2>1. queue \in Seq(Good) /\ <<e>> \in Seq(Good)
    BY <1>1 DEF TypeInv
  <2>2. Chain(<<e>>, m, c)
    BY <1>1, <1>4, ChainOne
  <2> QED BY <1>1, <1>3, <2>1, <2>2, ChainConcat
<1>6. Upstreams(f)' = Upstreams(f)
  BY <1>2 DEF Upstreams
<1>7. Chain(queue, b, c)' /\ Chain(driver, c, Upstreams(f))'
  BY <1>4, <1>5, <1>6 DEF Chain
<1>8. RoutesAre(a, f)' /\ Heard(a, b)'
  BY <1>2, <1>3 DEF RoutesAre, Heard, Pending
<1> QED BY <1>7, <1>8 DEF UpInv

(* A modem instance has heard of an upstream, and posts news of it.        *)
LEMMA UpHeard ==
  ASSUME TypeInv, NEW f, Fams = {f}, NEW w \in Wans, RouteHeard(w),
         NEW t \in Seq(Good), queue' = queue \o t, \A e \in ToSet(t) : e.ev \in News,
         NEW a \in Assignments, NEW b \in Assignments, NEW m \in Assignments,
         Chain(queue, b, m), Chain(driver, m, Upstreams(f)), RoutesAre(a, f)', Heard(a, b)'
  PROVE  UpInv(f)'
<1>1. Chain(queue', b, m)
  <2>1. queue \in Seq(Good)
    BY DEF TypeInv
  <2>2. \A n \in 1 .. Len(t) : t[n].ev \notin UpstreamEvents
    BY Elements DEF News, UpstreamEvents
  <2>3. Chain(t, m, m)
    BY <2>2, ChainStays
  <2> QED BY <2>1, <2>3, ChainConcat
<1>2. driver' = driver /\ Upstreams(f)' = Upstreams(f)
  BY DEF RouteHeard, Upstreams
<1>3. Chain(queue, b, m)' /\ Chain(driver, m, Upstreams(f))'
  BY ZenonT(60), <1>1, <1>2 DEF Chain
<1> QED BY <1>3 DEF UpInv

LEMMA Tethered ==
  ASSUME TypeInv, NEW f \in Fams
  PROVE  ToSet(tether[f]) \subseteq LanSide /\ tether[f] \in Seq(LanSide)
<1>1. tether[f] \in Seq(LanSide)
  BY DEF TypeInv
<1>2. \A t \in ToSet(tether[f]) : \E n \in 1 .. Len(tether[f]) : tether[f][n] = t
  BY <1>1, Elements
<1> QED BY <1>1, <1>2, ElementOfSeq

(* The modem instance of the event hears of it.                            *)
LEMMA HeardNow ==
  ASSUME TypeInv, NEW w \in Wans, RouteHeard(w), walk.msg.w = w,
         NEW a \in Assignments, NEW b \in Assignments, Heard(a, b)
  PROVE  Leads(a, walk.msg, b) /\ Heard(b, b)'
<1>1. Pending
  BY DEF Pending, RouteHeard
<1>2. Leads(a, walk.msg, b)
  BY <1>1 DEF Heard
<1>3. ~Pending'
  BY IdleIsGood DEF Pending, RouteHeard, UpstreamEvents
<1>4. walk.msg.ev = "ROUTE_ADD" => b[walk.msg.i] = w
  BY <1>2 DEF Leads, RouteHeard, Assignments
<1>5. walk'.rest # {} => walk'.msg = walk.msg
  BY IdleIsGood DEF RouteHeard
<1> QED BY <1>2, <1>3, <1>4, <1>5 DEF Heard

(* Another one hears of it.                                                *)
LEMMA HeardElsewhere ==
  ASSUME TypeInv, NEW f \in Fams, NEW w \in Wans, RouteHeard(w), walk.msg.w # w,
         NEW a \in Assignments, NEW b \in Assignments, Heard(a, b), RoutesAre(a, f)
  PROVE  Heard(a, b)' /\ (walk.msg.ev = "ROUTE_ADD" => f \notin active[w])
<1>1. Heard(a, b)'
  <2>1. CASE walk.rest = {w}
    <3>1. ~Pending
      BY <2>1 DEF Pending
    <3>2. walk' = Idle
      BY <2>1 DEF RouteHeard
    <3> QED BY <3>1, <3>2, IdleIsGood DEF Heard, Pending
  <2>2. CASE walk.rest # {w}
    <3>1. walk'.msg = walk.msg /\ walk'.rest = walk.rest \ {w} /\ w \in walk.rest
      BY <2>2 DEF RouteHeard
    <3>2. Pending' <=> Pending
      BY <3>1 DEF Pending
    <3> QED BY <3>1, <3>2 DEF Heard
  <2> QED BY <2>1, <2>2
<1>2. ASSUME walk.msg.ev = "ROUTE_ADD", f \in active[w]
      PROVE  FALSE
  <2>1. PICK t \in ToSet(tether[f]) : a[t] = w
    BY <1>2 DEF RoutesAre
  <2>2. t \in LanSide /\ walk.msg.i \in LanSide /\ walk.msg.w \in Wans /\ walk.rest # {}
    BY Tethered DEF RouteHeard
  <2>3. CASE Pending
    <3>1. a[walk.msg.i] = NoIf /\ b = [a EXCEPT ![walk.msg.i] = walk.msg.w]
      BY <1>2, <2>3 DEF Heard, Leads
    <3>2. t # walk.msg.i
      BY <2>1, <3>1, Sides
    <3>3. b[t] = w /\ b[walk.msg.i] = walk.msg.w
      BY <2>1, <2>2, <3>1, <3>2 DEF Assignments
    <3> QED BY <2>2, <3>3, Sides DEF Assignments
  <2>4. CASE ~Pending
    <3>1. a[walk.msg.i] = walk.msg.w
      BY <1>2, <2>2, <2>4 DEF Heard
    <3> QED BY <2>1, <2>2, <3>1, Sides DEF Assignments
  <2> QED BY <2>3, <2>4
<1> QED BY <1>1, <1>2

LEMMA UpRouteElsewhere ==
  ASSUME TypeInv, NEW f, Fams = {f}, UpInv(f), NEW w \in Wans,
         WanRouteElsewhere(w) \/ (WanRouteDel(w) /\ walk.msg.w # w)
  PROVE  UpInv(f)' /\ UNCHANGED <<queue, tether, active, gateway, wan_up>>
<1>1. PICK a \in Assignments, b \in Assignments, m \in Assignments :
        RoutesAre(a, f) /\ Heard(a, b) /\ Chain(queue, b, m) /\ Chain(driver, m, Upstreams(f))
  BY DEF UpInv
<1>2. RouteHeard(w) /\ walk.msg.w # w /\ f \in Fams /\ walk.msg.f = f
  BY RouteElsewhereTyped, RouteDelTyped DEF RouteHeard
<1>3. Heard(a, b)' /\ (walk.msg.ev = "ROUTE_ADD" => f \notin active[w])
  BY <1>1, <1>2, HeardElsewhere
<1>4. UNCHANGED <<queue, tether, active, gateway, wan_up>>
  <2>1. CASE WanRouteElsewhere(w)
    BY <1>2, <1>3, <2>1, RouteElsewhereTyped
  <2>2. CASE WanRouteDel(w)
    BY <1>2, <2>2, RouteDelTyped
  <2> QED BY <2>1, <2>2
<1>5. UNCHANGED <<instances, ip_type>>
  BY <1>2 DEF RouteHeard
<1>6. RoutesAre(a, f)'
  BY <1>1, <1>4, <1>5 DEF RoutesAre
<1>7. <<>> \in Seq(Good) /\ queue' = queue \o <<>> /\ \A e \in ToSet(<<>>) : e.ev \in News
  BY <1>4, NothingPosted DEF ToSet
<1>8. UpInv(f)'
  BY <1>1, <1>2, <1>3, <1>6, <1>7, UpHeard
<1> QED BY <1>4, <1>8

(* The news that go with a change of the tethered interfaces.              *)
TetherSame(f) == queue' = queue /\ ToSet(tether'[f]) = ToSet(tether[f]) /\ wan_up' = wan_up
TetherMore(f, t) ==
  /\ t \in LanSide /\ t \notin ToSet(tether[f]) /\ ToSet(tether'[f]) = ToSet(tether[f]) \cup {t}
  /\ queue' = queue \o <<Event("WAN_UP", t, f, NoIf)>> /\ Event("WAN_UP", t, f, NoIf) \in Good
TetherLess(f, t) ==
  /\ t \in ToSet(tether[f]) /\ ToSet(tether'[f]) = ToSet(tether[f]) \ {t}
  /\ queue' = queue \o <<Event("WAN_DOWN", t, f, NoIf)>> /\ Event("WAN_DOWN", t, f, NoIf) \in Good

LEMMA OneNews ==
  ASSUME NEW e \in Good, e.ev \in News
  PROVE  <<e>> \in Seq(Good) /\ \A x \in ToSet(<<e>>) : x.ev \in News
<1>1. ToSet(<<e>>) = {e}
  BY DEF ToSet
<1> QED BY <1>1

LEMMA UpRouteAdd ==
  ASSUME TypeInv, NEW f, Fams = {f}, UpInv(f), NEW w \in Wans, WanRouteAdd(w)
  PROVE  UpInv(f)' /\ (TetherSame(f) \/ \E t : TetherMore(f, t))
<1>1. PICK a \in Assignments, b \in Assignments, m \in Assignments :
        RoutesAre(a, f) /\ Heard(a, b) /\ Chain(queue, b, m) /\ Chain(driver, m, Upstreams(f))
  BY DEF UpInv
<1> DEFINE t == walk.msg.i
           e == Event("WAN_UP", t, f, NoIf)
<1>2. /\ RouteHeard(w) /\ walk.msg.ev = "ROUTE_ADD" /\ walk.msg.w = w
      /\ IF f \in ip_type[w]
         THEN /\ wan_up' = wan_up \cup (IF f \in active[w] THEN {} ELSE {f})
              /\ gateway' = gateway \cup (IF f \in active[w] THEN {} ELSE {w})
              /\ active' = [active EXCEPT ![w] = @ \cup {f}]
              /\ tether' = [tether EXCEPT ![f] = Append(@, t)]
              /\ queue' = queue \o <<e>> /\ e \in Good
         ELSE UNCHANGED <<queue, active, gateway, wan_up, tether>>
      /\ TypeInv'
  <2>1. RouteHeard(w) /\ walk.msg.f = f
    BY RouteAddTyped DEF RouteHeard
  <2> QED BY <2>1, RouteAddTyped
<1>3. Leads(a, walk.msg, b) /\ Heard(b, b)'
  BY <1>1, <1>2, HeardNow
<1>4. /\ t \in LanSide /\ w \in ToSet(instances) /\ f \in Fams /\ w \in Ifs
      /\ UNCHANGED <<instances, ip_type, driver, kernel>>
  <2>1. w \in ToSet(instances)
    BY <1>2, WhoListens, Sides DEF RouteHeard
  <2> QED BY <1>2, <2>1, Sides DEF RouteHeard
<1>5. a[t] = NoIf /\ b[t] = w /\ \A o \in LanSide : o # t => b[o] = a[o]
  BY <1>2, <1>3, <1>4 DEF Leads, Assignments
<1>6. t \notin ToSet(tether[f])
  BY <1>1, <1>5, Sides DEF RoutesAre
<1>7. walk.msg \in Good
  BY <1>2 DEF RouteHeard
<1> HIDE DEF t, e
<1>8. CASE f \notin ip_type[w]
  <2>1. f \notin active[w]
    BY <1>1, <1>8 DEF RoutesAre
  <2>2. RoutesAre(b, f)
    BY <1>1, <1>2, <1>3, <1>4, <1>7, <2>1, RouteMissed DEF UpstreamEvents
  <2>3. UNCHANGED <<queue, active, gateway, wan_up, tether>>
    BY <1>2, <1>8
  <2>4. RoutesAre(b, f)'
    BY <1>4, <2>2, <2>3 DEF RoutesAre
  <2>5. <<>> \in Seq(Good) /\ queue' = queue \o <<>> /\ \A x \in ToSet(<<>>) : x.ev \in News
    BY <2>3, NothingPosted DEF ToSet
  <2>6. UpInv(f)'
    BY <1>1, <1>2, <1>3, <2>4, <2>5, UpHeard
  <2> QED BY <2>3, <2>6 DEF TetherSame
<1>9. CASE f \in ip_type[w]
  <2>1. /\ active' = [active EXCEPT ![w] = @ \cup {f}] /\ tether' = [tether EXCEPT ![f] = Append(@, t)]
        /\ queue' = queue \o <<e>> /\ e \in Good
        /\ wan_up' = wan_up \cup (IF f \in active[w] THEN {} ELSE {f})
        /\ gateway' = gateway \cup (IF f \in active[w] THEN {} ELSE {w})
    BY <1>2, <1>9
  <2>2. tether'[f] = Append(tether[f], t) /\ tether[f] \in Seq(LanSide)
    BY <1>4, <2>1 DEF TypeInv
  <2>3. Distinct(tether'[f]) /\ ToSet(tether'[f]) = ToSet(tether[f]) \cup {t}
    BY <1>1, <1>4, <1>6, <2>2, Appended DEF RoutesAre
  <2>4. \A v \in Wans : active'[v] = IF v = w THEN active[w] \cup {f} ELSE active[v]
    BY <2>1 DEF TypeInv
  <2>5. ToSet(tether[f]) \subseteq LanSide
    BY <1>4, Tethered
  <2>6. \A o \in ToSet(tether'[f]) : b[o] \in Wans /\ f \in active'[b[o]]
    <3> TAKE o \in ToSet(tether'[f])
    <3>1. CASE o = t
      BY <1>5, <2>4, <3>1
    <3>2. CASE o # t
      <4>1. o \in ToSet(tether[f]) /\ b[o] = a[o]
        BY <1>5, <2>3, <2>5, <3>2
      <4>2. a[o] \in Wans /\ f \in active[a[o]]
        BY <1>1, <4>1 DEF RoutesAre
      <4> QED BY <2>4, <4>1, <4>2
    <3> QED BY <3>1, <3>2
  <2>7. ASSUME NEW v \in Wans
        PROVE  /\ f \in active'[v] => /\ f \in ip_type'[v] /\ v \in gateway' /\ v \in ToSet(instances')
                                      /\ \E o \in ToSet(tether'[f]) : b[o] = v
               /\ v \in gateway' => f \in active'[v]
    <3>1. CASE v = w
      <4>1. v \in gateway'
        BY <1>1, <2>1, <3>1 DEF RoutesAre
      <4> QED BY <1>4, <1>5, <1>9, <2>3, <2>4, <3>1, <4>1
    <3>2. CASE v # w
      <4>1. active'[v] = active[v] /\ (v \in gateway' <=> v \in gateway)
        BY <2>1, <2>4, <3>2
      <4>2. f \in active[v] => \E o \in ToSet(tether'[f]) : b[o] = v
        <5>1. f \in active[v] => \E o \in ToSet(tether[f]) : a[o] = v
          BY <1>1 DEF RoutesAre
        <5>2. \A o \in ToSet(tether[f]) : o \in ToSet(tether'[f]) /\ b[o] = a[o]
          BY <1>5, <1>6, <2>3, <2>5
        <5> QED BY <5>1, <5>2
      <4> QED BY <1>1, <1>4, <4>1, <4>2 DEF RoutesAre
    <3> QED BY <3>1, <3>2
  <2>8. f \in wan_up' /\ ToSet(tether'[f]) # {}
    <3>1. f \in active[w] => f \in wan_up
      BY <1>1 DEF RoutesAre
    <3> QED BY <2>1, <2>3, <3>1
  <2>9. RoutesAre(b, f)'
    BY <2>3, <2>6, <2>7, <2>8 DEF RoutesAre
  <2>10. <<e>> \in Seq(Good) /\ \A x \in ToSet(<<e>>) : x.ev \in News
    <3>1. e.ev \in News
      BY DEF e, Event, News
    <3> QED BY <2>1, <3>1, OneNews
  <2>11. UpInv(f)'
    BY <1>1, <1>2, <1>3, <2>1, <2>9, <2>10, UpHeard
  <2>12. TetherMore(f, t)
    BY <1>4, <1>6, <2>1, <2>3 DEF TetherMore, e
  <2> QED BY <2>11, <2>12
<1> QED BY <1>8, <1>9

LEMMA UpRouteDel ==
  ASSUME TypeInv, NEW f, Fams = {f}, UpInv(f), NEW w \in Wans, WanRouteDel(w), walk.msg.w = w
  PROVE  UpInv(f)' /\ (TetherSame(f) \/ \E t : TetherLess(f, t))
<1>1. PICK a \in Assignments, b \in Assignments, m \in Assignments :
        RoutesAre(a, f) /\ Heard(a, b) /\ Chain(queue, b, m) /\ Chain(driver, m, Upstreams(f))
  BY DEF UpInv
<1> DEFINE t == walk.msg.i
           e == Event("WAN_DOWN", t, f, NoIf)
<1>2. /\ RouteHeard(w) /\ walk.msg.ev = "ROUTE_DEL"
      /\ IF f \in active[w]
         THEN /\ tether' = [tether EXCEPT ![f] = RemoveFirst(@, t)]
              /\ e \in Good
              /\ IF t \in ToSet(tether[f]) THEN queue' = queue \o <<e>> ELSE queue' = queue
              /\ IF RemoveFirst(tether[f], t) = <<>>
                 THEN RoutesGone(w, {f}) /\ wan_up' = wan_up \ {f}
                 ELSE UNCHANGED <<active, gateway, wan_up>>
         ELSE UNCHANGED <<queue, tether, active, gateway, wan_up>>
  <2>1. RouteHeard(w) /\ walk.msg.f = f
    BY RouteDelTyped DEF RouteHeard
  <2> QED BY <2>1, RouteDelTyped
<1>3. Leads(a, walk.msg, b) /\ Heard(b, b)'
  BY <1>1, <1>2, HeardNow
<1>4. t \in LanSide /\ f \in Fams /\ UNCHANGED <<instances, ip_type, driver, kernel>>
  BY <1>2 DEF RouteHeard
<1>5. a[t] = w /\ b[t] = NoIf /\ \A o \in LanSide : o # t => b[o] = a[o]
  BY <1>2, <1>3, <1>4 DEF Leads, Assignments
<1>6. walk.msg \in Good
  BY <1>2 DEF RouteHeard
<1> HIDE DEF t, e
<1>7. CASE f \notin active[w]
  <2>1. RoutesAre(b, f)
    BY <1>1, <1>2, <1>3, <1>4, <1>6, <1>7, RouteMissed DEF UpstreamEvents
  <2>2. UNCHANGED <<queue, active, gateway, wan_up, tether>>
    BY <1>2, <1>7
  <2>3. RoutesAre(b, f)'
    BY <1>4, <2>1, <2>2 DEF RoutesAre
  <2>4. <<>> \in Seq(Good) /\ queue' = queue \o <<>> /\ \A x \in ToSet(<<>>) : x.ev \in News
    BY <2>2, NothingPosted DEF ToSet
  <2>5. UpInv(f)'
    BY <1>1, <1>2, <1>3, <2>3, <2>4, UpHeard
  <2> QED BY <2>2, <2>5 DEF TetherSame
<1>8. CASE f \in active[w]
  <2>1. /\ tether' = [tether EXCEPT ![f] = RemoveFirst(@, t)] /\ e \in Good
        /\ IF t \in ToSet(tether[f]) THEN queue' = queue \o <<e>> ELSE queue' = queue
        /\ IF RemoveFirst(tether[f], t) = <<>>
           THEN RoutesGone(w, {f}) /\ wan_up' = wan_up \ {f}
           ELSE UNCHANGED <<active, gateway, wan_up>>
    BY <1>2, <1>8
  <2>2. tether'[f] = RemoveFirst(tether[f], t) /\ tether[f] \in Seq(LanSide)
    BY <1>4, <2>1 DEF TypeInv
  <2>3. /\ Distinct(tether'[f]) /\ ToSet(tether'[f]) = ToSet(tether[f]) \ {t}
        /\ tether'[f] = <<>> <=> ToSet(tether[f]) \subseteq {t}
    BY <1>1, <2>2, RemovedFirst DEF RoutesAre
  <2>4. ToSet(tether[f]) \subseteq LanSide
    BY <1>4, Tethered
  <2>5. \A o \in ToSet(tether[f]) : a[o] = w
    <3> TAKE o \in ToSet(tether[f])
    <3>1. a[o] \in Wans /\ o \in LanSide
      BY <1>1, <2>4 DEF RoutesAre
    <3> QED BY <1>4, <1>5, <3>1, Sides DEF Assignments
  <2>6. \A v \in Wans : v # w => f \notin active[v]
    BY <1>1, <2>5 DEF RoutesAre
  <2>7. \A o \in ToSet(tether'[f]) : b[o] = w
    BY <1>5, <2>3, <2>4, <2>5
  <2>8. RoutesAre(b, f)'
    <3>1. CASE tether'[f] = <<>>
      <4>1. RoutesGone(w, {f}) /\ wan_up' = wan_up \ {f} /\ ToSet(tether'[f]) = {}
        BY <2>1, <2>2, <2>3, <3>1
      <4>2. gateway' = gateway \ {w} /\ \A v \in Wans : active'[v] = IF v = w THEN active[w] \ {f} ELSE active[v]
        BY <4>1 DEF RoutesGone, TypeInv
      <4>3. \A v \in Wans : f \notin active'[v]
        BY <2>6, <4>2
      <4>4. \A v \in Wans : v \notin gateway'
        BY <1>1, <2>6, <4>2 DEF RoutesAre
      <4> QED BY <2>3, <4>1, <4>3, <4>4 DEF RoutesAre
    <3>2. CASE tether'[f] # <<>>
      <4>1. UNCHANGED <<active, gateway, wan_up>>
        BY <2>1, <2>2, <3>2
      <4>2. PICK o \in ToSet(tether'[f]) : b[o] = w
        BY <2>3, <2>7, <3>2
      <4>3. \A v \in Wans : f \in active[v] => v = w
        BY <2>6
      <4>4. f \in wan_up'
        BY <1>1, <2>3, <4>1, <4>2 DEF RoutesAre
      <4>5. ASSUME NEW v \in Wans
            PROVE  /\ f \in active'[v] => /\ f \in ip_type'[v] /\ v \in gateway' /\ v \in ToSet(instances')
                                          /\ \E x \in ToSet(tether'[f]) : b[x] = v
                   /\ v \in gateway' => f \in active'[v]
        BY <1>1, <1>4, <4>1, <4>2, <4>3 DEF RoutesAre
      <4>6. \A x \in ToSet(tether'[f]) : b[x] \in Wans /\ f \in active'[b[x]]
        BY <1>8, <2>7, <4>1
      <4> QED BY <2>3, <4>2, <4>4, <4>5, <4>6 DEF RoutesAre
    <3> QED BY <3>1, <3>2
  <2>9. CASE t \in ToSet(tether[f])
    <3>1. <<e>> \in Seq(Good) /\ \A x \in ToSet(<<e>>) : x.ev \in News
      <4>1. e.ev \in News
        BY DEF e, Event, News
      <4> QED BY <2>1, <4>1, OneNews
    <3>2. queue' = queue \o <<e>>
      BY <2>1, <2>9
    <3>3. UpInv(f)'
      BY <1>1, <1>2, <1>3, <2>8, <3>1, <3>2, UpHeard
    <3>4. TetherLess(f, t)
      BY <2>1, <2>3, <2>9, <3>2 DEF TetherLess, e
    <3> QED BY <3>3, <3>4
  <2>10. CASE t \notin ToSet(tether[f])
    <3>1. queue' = queue /\ ToSet(tether'[f]) = ToSet(tether[f])
      BY <2>1, <2>3, <2>10
    <3>2. <<>> \in Seq(Good) /\ queue' = queue \o <<>> /\ \A x \in ToSet(<<>>) : x.ev \in News
      BY <3>1, NothingPosted DEF ToSet
    <3>3. UpInv(f)'
      BY <1>1, <1>2, <1>3, <2>8, <3>2, UpHeard
    <3>4. wan_up' = wan_up
      <4>1. PICK o \in ToSet(tether[f]) : TRUE
        BY <1>1, <1>8 DEF RoutesAre
      <4>2. RemoveFirst(tether[f], t) # <<>>
        BY <2>2, <2>3, <2>10, <4>1
      <4> QED BY <2>1, <4>2
    <3> QED BY <3>1, <3>3, <3>4 DEF TetherSame
  <2> QED BY <2>9, <2>10
<1> QED BY <1>7, <1>8

TetherNone(f) ==
  /\ ToSet(tether'[f]) = {} /\ f \notin wan_up'
  /\ \E t \in Seq(Good) :
       /\ queue' = queue \o t /\ \A e \in ToSet(t) : e.ev = "WAN_DOWN"
       /\ \A o \in ToSet(tether[f]) : Event("WAN_DOWN", o, f, NoIf) \in ToSet(t)

(* The modem instance that goes down is the one with the routes, or has    *)
(* none.                                                                   *)
LEMMA UpWanDown ==
  ASSUME TypeInv, NEW f, Fams = {f}, UpInv(f), NEW w \in Wans, WanDown(w)
  PROVE  UpInv(f)' /\ (TetherSame(f) \/ TetherNone(f))
<1>1. PICK a \in Assignments, b \in Assignments, m \in Assignments :
        RoutesAre(a, f) /\ Heard(a, b) /\ Chain(queue, b, m) /\ Chain(driver, m, Upstreams(f))
  BY DEF UpInv
<1> DEFINE fs == IF w \in gateway THEN ip_type[w] ELSE {}
           t == DownNews(fs)
<1>2. /\ walk' = Idle /\ walk.rest = {w} /\ walk.msg.ev = "LINK_DOWN"
      /\ ToSet(instances') = ToSet(instances) \ {w} /\ ip_type' = [ip_type EXCEPT ![w] = {}]
      /\ RoutesGone(w, Fams) /\ UNCHANGED <<driver, kernel>>
      /\ fs \in SUBSET Fams /\ wan_up' = wan_up \ fs /\ queue' = queue \o t
      /\ tether' = [g \in Fams |-> IF g \in fs THEN <<>> ELSE tether[g]]
  <2>1. \E F \in SUBSET Fams :
              /\ F = (IF w \in gateway THEN ip_type[w] ELSE {})
              /\ wan_up' = wan_up \ F
              /\ tether' = [g \in Fams |-> IF g \in F THEN <<>> ELSE tether[g]]
              /\ queue' = queue \o DownNews(F)
    BY WanDownTyped
  <2>2. PICK F \in SUBSET Fams :
              /\ F = (IF w \in gateway THEN ip_type[w] ELSE {})
              /\ wan_up' = wan_up \ F
              /\ tether' = [g \in Fams |-> IF g \in F THEN <<>> ELSE tether[g]]
              /\ queue' = queue \o DownNews(F)
    BY <2>1
  <2>3. F = fs
    BY <2>2
  <2>4. /\ fs \in SUBSET Fams /\ wan_up' = wan_up \ fs /\ queue' = queue \o t
        /\ tether' = [g \in Fams |-> IF g \in fs THEN <<>> ELSE tether[g]]
    BY <2>2, <2>3
  <2> QED BY <2>4, WanDownTyped
<1>3. /\ t \in Seq(Good) /\ \A e \in ToSet(t) : e.ev = "WAN_DOWN" /\ e.f \in fs
      /\ \A g \in fs : \A o \in ToSet(tether[g]) : Event("WAN_DOWN", o, g, NoIf) \in ToSet(t)
  BY <1>2, DownNewsAre
<1>4. a = b /\ Heard(a, b)'
  <2>1. ~Pending
    BY <1>2 DEF Pending, UpstreamEvents
  <2> QED BY <1>1, <1>2, <2>1, IdleIsGood DEF Heard, Pending, UpstreamEvents
<1>5. /\ gateway' = gateway \ {w}
      /\ \A v \in Wans : active'[v] = IF v = w THEN active[w] \ Fams ELSE active[v]
      /\ active[w] \subseteq Fams
  BY <1>2 DEF RoutesGone, TypeInv
<1>6. \A v \in Wans : v # w => ip_type'[v] = ip_type[v]
  BY <1>2, Sides DEF TypeInv
<1>7. f \notin active'[w] /\ f \in Fams
  BY <1>5
<1>8. CASE w \notin gateway
  <2>1. fs = {}
    BY <1>8
  <2> HIDE DEF fs
  <2>2. ToSet(t) = {}
    BY <1>3, <2>1
  <2>3. queue' = queue
    <3>1. t = <<>>
      <4>1. \A n \in 1 .. Len(t) : t[n] \in ToSet(t)
        BY <1>3, Elements
      <4>2. Len(t) = 0
        BY <1>3, <2>2, <4>1, LenProperties
      <4> QED BY <1>3, <4>2, EmptySeq
    <3> QED BY <1>2, <3>1, ConcatEmptySeq DEF TypeInv
  <2>4. wan_up' = wan_up /\ tether'[f] = tether[f]
    BY <1>2, <1>7, <2>1
  <2>5. f \notin active[w]
    BY <1>1, <1>8 DEF RoutesAre
  <2>6. ASSUME NEW v \in Wans
        PROVE  /\ (f \in active'[v] <=> f \in active[v]) /\ (v \in gateway' <=> v \in gateway)
               /\ f \in active[v] => ip_type'[v] = ip_type[v] /\ (v \in ToSet(instances') <=> v \in ToSet(instances))
    <3>1. CASE v = w
      BY <1>5, <1>7, <1>8, <2>5, <3>1
    <3>2. CASE v # w
      BY <1>2, <1>5, <1>6, <3>2
    <3> QED BY <3>1, <3>2
  <2>7. RoutesAre(a, f)'
    BY <1>1, <2>4, <2>6 DEF RoutesAre
  <2>8. Chain(queue, b, m)' /\ Chain(driver, m, Upstreams(f))'
    BY ZenonT(60), <1>1, <1>2, <2>3 DEF Upstreams, Chain
  <2>9. UpInv(f)'
    BY <1>4, <2>7, <2>8 DEF UpInv
  <2> QED BY <2>3, <2>4, <2>9 DEF TetherSame
<1>9. CASE w \in gateway
  <2>1. f \in active[w] /\ f \in ip_type[w]
    BY <1>1, <1>9 DEF RoutesAre
  <2>2. f \in fs
    BY <1>9, <2>1
  <2> HIDE DEF fs
  <2>3. tether'[f] = <<>> /\ f \notin wan_up' /\ ToSet(<<>>) = {}
    BY <1>2, <1>7, <2>2 DEF ToSet
  <2>4. PICK o \in ToSet(tether[f]) : a[o] = w
    BY <1>1, <2>1 DEF RoutesAre
  <2>5. ToSet(tether[f]) \subseteq LanSide
    BY <1>7, Tethered
  <2>6. \A v \in Wans : v # w => f \notin active[v]
    <3> SUFFICES ASSUME NEW v \in Wans, v # w, f \in active[v] PROVE FALSE
      OBVIOUS
    <3>1. PICK x \in ToSet(tether[f]) : a[x] = v
      BY <1>1 DEF RoutesAre
    <3>2. x \in LanSide /\ o \in LanSide /\ a[x] # NoIf /\ a[o] # NoIf
      BY <2>4, <2>5, <3>1, Sides
    <3> QED BY <2>4, <3>1, <3>2 DEF Assignments
  <2>7. \A v \in Wans : f \notin active'[v] /\ v \notin gateway'
    BY <1>1, <1>5, <1>7, <2>6 DEF RoutesAre
  <2>8. Distinct(tether'[f])
    <3>1. \A n \in 1 .. Len(<<>>) : FALSE
      OBVIOUS
    <3> QED BY <2>3, <3>1 DEF Distinct
  <2>9. RoutesAre(a, f)'
    BY <2>3, <2>7, <2>8 DEF RoutesAre
  <2>10. Chain(queue', b, m)
    <3>1. queue \in Seq(Good)
      BY DEF TypeInv
    <3>2. \A n \in 1 .. Len(t) : t[n].ev \notin UpstreamEvents
      BY <1>3, Elements DEF UpstreamEvents
    <3>3. Chain(t, m, m)
      BY <1>3, <3>2, ChainStays
    <3> QED BY <1>1, <1>2, <1>3, <3>1, <3>3, ChainConcat
  <2>11. Chain(queue, b, m)' /\ Chain(driver, m, Upstreams(f))'
    <3>1. driver' = driver /\ Upstreams(f)' = Upstreams(f)
      BY <1>2 DEF Upstreams
    <3> QED BY <1>1, <2>10, <3>1 DEF Chain
  <2>12. UpInv(f)'
    BY <1>4, <2>9, <2>11 DEF UpInv
  <2>13. TetherNone(f)
    BY <1>2, <1>3, <2>2, <2>3 DEF TetherNone
  <2> QED BY <2>12, <2>13
<1> QED BY <1>8, <1>9

(* The system changes, and a thread takes note of it.                      *)
LEMMA UpReported ==
  ASSUME TypeInv, NEW f, Fams = {f}, UpInv(f), UNCHANGED <<walk, daemon>>,
         NEW e \in Good, e.ev \notin UpstreamEvents, kernel'.upstream = kernel.upstream,
         ByDriver(e) \/ ByNetlink(e)
  PROVE  UpInv(f)'
<1>1. PICK a \in Assignments, b \in Assignments, m \in Assignments :
        RoutesAre(a, f) /\ Heard(a, b) /\ Chain(queue, b, m) /\ Chain(driver, m, Upstreams(f))
  BY DEF UpInv
<1>2. UNCHANGED <<walk, instances, ip_type, active, gateway, wan_up, tether>>
  BY DEF daemon
<1>3. RoutesAre(a, f)' /\ Heard(a, b)'
  BY <1>1, <1>2 DEF RoutesAre, Heard, Pending
<1>4. Upstreams(f)' = Upstreams(f)
  BY DEF Upstreams
<1>5. \A c \in Assignments : Chain(<<e>>, c, c)
  <2> TAKE c \in Assignments
  <2>1. Leads(c, e, c)
    BY DEF Leads, UpstreamEvents
  <2> QED BY <2>1, ChainOne
<1>6. CASE ByDriver(e)
  <2>1. queue' = queue /\ driver' = driver \o <<e>> /\ driver \in Seq(Good) /\ <<e>> \in Seq(Good)
    BY <1>6 DEF ByDriver, TypeInv, FromDriver
  <2>2. Upstreams(f) \in Assignments
    BY <1>1, <2>1, ChainEnds
  <2>3. Chain(driver', m, Upstreams(f))
    BY <1>1, <1>5, <2>1, <2>2, ChainConcat
  <2>4. Chain(queue, b, m)' /\ Chain(driver, m, Upstreams(f))'
    BY <1>1, <1>4, <2>1, <2>3 DEF Chain
  <2> QED BY <1>3, <2>4 DEF UpInv
<1>7. CASE ByNetlink(e)
  <2>1. driver' = driver /\ queue' = queue \o <<e>> /\ queue \in Seq(Good) /\ <<e>> \in Seq(Good)
    BY <1>7 DEF ByNetlink, TypeInv
  <2>2. Chain(queue', b, m)
    BY <1>1, <1>5, <2>1, ChainConcat
  <2>3. Chain(queue, b, m)' /\ Chain(driver, m, Upstreams(f))'
    BY ZenonT(60), <1>1, <1>4, <2>1, <2>2 DEF Chain
  <2> QED BY <1>3, <2>3 DEF UpInv
<1> QED BY <1>6, <1>7

(* The system chooses an upstream, or gives one up.                        *)
LEMMA UpChosen ==
  ASSUME TypeInv, NEW f, Fams = {f}, UpInv(f), UNCHANGED <<walk, daemon>>,
         NEW e \in Good, ByDriver(e), Upstreams(f)' \in Assignments,
         Leads(Upstreams(f), e, Upstreams(f)')
  PROVE  UpInv(f)'
<1>1. PICK a \in Assignments, b \in Assignments, m \in Assignments :
        RoutesAre(a, f) /\ Heard(a, b) /\ Chain(queue, b, m) /\ Chain(driver, m, Upstreams(f))
  BY DEF UpInv
<1>2. UNCHANGED <<walk, instances, ip_type, active, gateway, wan_up, tether>>
  BY DEF daemon
<1>3. RoutesAre(a, f)' /\ Heard(a, b)'
  BY <1>1, <1>2 DEF RoutesAre, Heard, Pending
<1>4. queue' = queue /\ driver' = driver \o <<e>> /\ driver \in Seq(Good) /\ <<e>> \in Seq(Good)
  BY DEF ByDriver, TypeInv, FromDriver
<1>5. Upstreams(f) \in Assignments
  BY <1>1, <1>4, ChainEnds
<1> DEFINE u == Upstreams(f)'
<1> HIDE DEF u
<1>6. Chain(<<e>>, Upstreams(f), u)
  BY <1>5, ChainOne DEF u
<1>7. Chain(driver', m, u)
  BY <1>1, <1>4, <1>6, ChainConcat
<1>8. Chain(queue, b, m)' /\ Chain(driver, m, Upstreams(f))'
  BY <1>1, <1>4, <1>7 DEF Chain, u
<1> QED BY <1>3, <1>8 DEF UpInv

LEMMA UpUpstream ==
  ASSUME TypeInv, NEW f, Fams = {f}, OneBackhaul, UpInv(f), NEW t \in LanSide,
         (\E w \in Wans : Upstream(t, f, w)) \/ NoUpstream(t, f)
  PROVE  UpInv(f)'
<1> DEFINE u == Upstreams(f)
<1>0. f \in Fams
  OBVIOUS
<1>1. u \in Assignments
  <2>1. PICK a \in Assignments, b \in Assignments, m \in Assignments :
          RoutesAre(a, f) /\ Heard(a, b) /\ Chain(queue, b, m) /\ Chain(driver, m, u)
    BY DEF UpInv
  <2>2. driver \in Seq(FromDriver)
    BY DEF TypeInv
  <2> QED BY <2>1, <2>2, ChainEnds
<1>2. u \in [LanSide -> Wans \cup {NoIf}] /\ \A o \in LanSide : u[o] = kernel.upstream[o][f]
  BY <1>1 DEF Assignments, Upstreams
<1>3. ASSUME NEW v \in Wans \cup {NoIf}, kernel'.upstream = [kernel.upstream EXCEPT ![t][f] = v]
      PROVE  u' = [u EXCEPT ![t] = v]
  <2>1. kernel.upstream \in [LanSide -> [Fams -> Wans \cup {NoIf}]]
    BY KernelIs
  <2>2. \A o \in LanSide : kernel'.upstream[o][f] = IF o = t THEN v ELSE kernel.upstream[o][f]
    BY <1>0, <1>3, <2>1
  <2>3. u' = [o \in LanSide |-> IF o = t THEN v ELSE kernel.upstream[o][f]]
    BY <2>2 DEF Upstreams
  <2> QED BY <1>2, <2>3 DEF Upstreams
<1>4. ASSUME NEW w \in Wans, Upstream(t, f, w)
      PROVE  UpInv(f)'
  <2> DEFINE e == Event("ROUTE_ADD", t, f, w)
  <2>1. /\ UNCHANGED <<walk, daemon>> /\ kernel.upstream[t][f] = NoIf
        /\ OneUpstream => \A o \in LanSide : kernel.upstream[o][f] \in {NoIf, w}
        /\ kernel'.upstream = [kernel.upstream EXCEPT ![t][f] = w] /\ ByDriver(e)
    BY <1>0, <1>4, UpstreamTyped
  <2>2. u' = [u EXCEPT ![t] = w]
    BY <1>3, <2>1
  <2>3. \A o \in LanSide : u[o] \in {NoIf, w}
    BY <1>2, <2>1 DEF OneBackhaul
  <2> HIDE DEF u
  <2>4. u' \in [LanSide -> Wans \cup {NoIf}] /\ \A o \in LanSide : u'[o] \in {NoIf, w}
    BY <1>2, <2>2, <2>3
  <2>5. u' \in Assignments
    BY <2>4 DEF Assignments
  <2>6. e \in Good
    BY <2>1 DEF ByDriver, FromDriver
  <2>7. Leads(u, e, u')
    BY <1>2, <2>1, <2>2 DEF Leads, Event, UpstreamEvents
  <2> HIDE DEF e
  <2> QED BY <2>1, <2>5, <2>6, <2>7, UpChosen DEF u
<1>5. ASSUME NoUpstream(t, f)
      PROVE  UpInv(f)'
  <2> DEFINE e == Event("ROUTE_DEL", t, f, kernel.upstream[t][f])
  <2>1. /\ UNCHANGED <<walk, daemon>>
        /\ kernel'.upstream = [kernel.upstream EXCEPT ![t][f] = NoIf] /\ ByDriver(e)
    BY <1>0, <1>5, NoUpstreamTyped
  <2>2. u' = [u EXCEPT ![t] = NoIf]
    BY <1>3, <2>1
  <2> HIDE DEF u
  <2>3. u' \in [LanSide -> Wans \cup {NoIf}] /\ \A o \in LanSide : u'[o] \in {NoIf, u[o]}
    BY <1>2, <2>2
  <2>4. u' \in Assignments
    BY <1>1, <2>3 DEF Assignments
  <2>5. e \in Good
    BY <2>1 DEF ByDriver, FromDriver
  <2>6. Leads(u, e, u')
    BY <1>2, <2>1, <2>2 DEF Leads, Event, UpstreamEvents
  <2> HIDE DEF e
  <2> QED BY <2>1, <2>4, <2>5, <2>6, UpChosen DEF u
<1> QED BY <1>4, <1>5

LEMMA UpKernel ==
  ASSUME TypeInv, NEW f, Fams = {f}, OneBackhaul, UpInv(f), Kernel
  PROVE  UpInv(f)' /\ UNCHANGED daemon
<1>0. f \in Fams
  OBVIOUS
<1>1. ASSUME NEW i \in Ifs, LinkUp(i) \/ LinkDown(i)
      PROVE  UpInv(f)' /\ UNCHANGED daemon
  <2>1. PICK e \in {LinkEvent(UpOf(i), i), LinkEvent(DownOf(i), i)} :
          /\ UNCHANGED <<walk, daemon>> /\ kernel'.upstream = kernel.upstream
          /\ ByDriver(e) \/ ByNetlink(e)
    BY <1>1, LinkUpTyped, LinkDownTyped
  <2>2. e \in Good /\ e.ev \notin UpstreamEvents
    <3>1. e.ev \in {UpOf(i), DownOf(i)}
      BY DEF LinkEvent, Event
    <3> QED BY <2>1, <3>1 DEF ByDriver, ByNetlink, FromDriver, UpOf, DownOf, UpstreamEvents
  <2> QED BY <2>1, <2>2, UpReported
<1>2. ASSUME NEW i \in Ifs, NewAddress(i, f)
      PROVE  UpInv(f)' /\ UNCHANGED daemon
  <2> DEFINE e == Event("ADDR_ADD", i, f, NoIf)
  <2>1. UNCHANGED <<walk, daemon>> /\ kernel'.upstream = kernel.upstream /\ ByNetlink(e)
    BY <1>0, <1>2, NewAddressTyped
  <2>2. e \in Good /\ e.ev \notin UpstreamEvents
    BY <2>1 DEF ByNetlink, Event, UpstreamEvents
  <2> HIDE DEF e
  <2> QED BY <2>1, <2>2, UpReported
<1>3. ASSUME NEW t \in LanSide, (\E w \in Wans : Upstream(t, f, w)) \/ NoUpstream(t, f)
      PROVE  UpInv(f)' /\ UNCHANGED daemon
  <2>1. UNCHANGED daemon
    BY <1>3 DEF Upstream, NoUpstream, Changes
  <2>2. UpInv(f)'
    BY <1>3, UpUpstream
  <2> QED BY <2>1, <2>2
<1>4. \A g \in Fams : g = f
  OBVIOUS
<1> QED BY <1>1, <1>2, <1>3, <1>4 DEF Kernel

(* What an instance is told of links and addresses.                        *)
LEMMA UpLinkIsUp ==
  ASSUME TypeInv, NEW f, Fams = {f}, UpInv(f), NEW i \in Ifs, LinkIsUp(i) \/ (i = Wlan /\ AccessPointIsUp)
  PROVE  UpInv(f)'
<1>1. /\ walk.msg.ev = UpOf(i) /\ walk' = Idle
      /\ UNCHANGED <<driver, kernel, ip_type, active, gateway, wan_up, tether>>
      /\ \/ UNCHANGED <<queue, instances, is_active>>
         \/ ToSet(instances') = ToSet(instances) \cup {i} /\ queue' = queue \o KnownAddresses(i)
  BY LinkIsUpTyped
<1>2. PICK t \in Seq(Good) : queue' = queue \o t /\ \A e \in ToSet(t) : e.ev = "ADDR_ADD"
  <2>1. CASE UNCHANGED <<queue, instances, is_active>>
    <3>1. ToSet(<<>>) = {}
      BY DEF ToSet
    <3> QED BY <2>1, <3>1, NothingPosted
  <2>2. CASE queue' = queue \o KnownAddresses(i)
    <3>1. \A e \in ToSet(KnownAddresses(i)) : e.ev = "ADDR_ADD"
      BY KnownAddressesAre DEF Event
    <3> QED BY <2>2, <3>1, KnownAddressesAre
  <2> QED BY <1>1, <2>1, <2>2
<1>3. \A n \in 1 .. Len(t) : t[n].ev \notin UpstreamEvents
  BY <1>2, Elements DEF UpstreamEvents
<1>4. walk.msg.ev \notin UpstreamEvents
  BY <1>1 DEF UpOf, UpstreamEvents
<1>5. \A w \in Wans : /\ ip_type[w] \subseteq ip_type'[w]
                      /\ w \in ToSet(instances) => w \in ToSet(instances')
  BY <1>1
<1> QED BY <1>1, <1>2, <1>3, <1>4, <1>5, UpKept

LEMMA UpLan ==
  ASSUME TypeInv, NEW f, Fams = {f}, UpInv(f), NEW i \in LanSide,
         Ignored(i) \/ LanAddress(i) \/ LanWanUp(i) \/ LanWanDown(i) \/ LanDown(i) \/ LanDelete(i)
  PROVE  UpInv(f)'
<1>1. /\ walk' = Idle /\ walk.msg.ev \notin UpstreamEvents
      /\ UNCHANGED <<driver, kernel, active, gateway, wan_up, tether>>
  BY IgnoredTyped, LanAddressTyped, LanWanTyped, LanDownTyped, LanDeleteTyped
     DEF daemon, UpstreamEvents, News, DownOf
<1>2. \E t \in Seq(Good) : queue' = queue \o t /\ \A n \in 1 .. Len(t) : t[n].ev \notin UpstreamEvents
  <2>1. CASE LanDown(i)
    <3> DEFINE e == LinkEvent("DELETE_SELF", i)
    <3>1. queue' = queue \o <<e>> /\ <<e>> \in Seq(Good) /\ e.ev \notin UpstreamEvents
      BY <2>1, LanDownTyped DEF LinkEvent, Event, UpstreamEvents
    <3> HIDE DEF e
    <3>2. \A n \in 1 .. Len(<<e>>) : <<e>>[n].ev \notin UpstreamEvents
      BY <3>1
    <3> QED BY <3>1, <3>2
  <2>2. CASE ~LanDown(i)
    <3>1. queue' = queue
      BY <2>2, IgnoredTyped, LanAddressTyped, LanWanTyped, LanDeleteTyped
    <3>2. \A n \in 1 .. Len(<<>>) : <<>>[n].ev \notin UpstreamEvents
      OBVIOUS
    <3> QED BY <3>1, <3>2, NothingPosted
  <2> QED BY <2>1, <2>2
<1>3. \A w \in Wans : /\ ip_type[w] \subseteq ip_type'[w]
                      /\ w \in ToSet(instances) => w \in ToSet(instances')
  <2>1. i \notin Wans /\ ip_type \in [Ifs -> SUBSET Fams] /\ Wans \subseteq Ifs /\ i \in Ifs
    BY Sides DEF TypeInv
  <2>2. CASE LanDelete(i)
    BY <2>1, <2>2, LanDeleteTyped
  <2>3. CASE LanAddress(i)
    BY <2>1, <2>3, LanAddressTyped
  <2>4. CASE ~LanDelete(i) /\ ~LanAddress(i)
    BY <2>4, IgnoredTyped, LanWanTyped, LanDownTyped DEF daemon
  <2> QED BY <2>2, <2>3, <2>4
<1> QED BY <1>1, <1>2, <1>3, UpKept

LEMMA UpWanAddress ==
  ASSUME TypeInv, NEW f, Fams = {f}, UpInv(f), NEW w \in Wans, WanAddress(w)
  PROVE  UpInv(f)'
<1>1. /\ walk' = Idle /\ walk.msg.ev \notin UpstreamEvents
      /\ UNCHANGED <<queue, driver, kernel, instances, active, gateway, wan_up, tether>>
      /\ ip_type' = [ip_type EXCEPT ![w] = @ \cup {walk.msg.f}]
  BY WanAddressTyped DEF UpstreamEvents
<1>2. <<>> \in Seq(Good) /\ queue' = queue \o <<>>
  BY <1>1, NothingPosted
<1>3. \A n \in 1 .. Len(<<>>) : <<>>[n].ev \notin UpstreamEvents
  OBVIOUS
<1>4. \A v \in Wans : /\ ip_type[v] \subseteq ip_type'[v]
                      /\ v \in ToSet(instances) => v \in ToSet(instances')
  BY <1>1, Sides DEF TypeInv
<1> QED BY <1>1, <1>2, <1>3, <1>4, UpKept

(* An upstream event is of the modem instance that hears of it, or not.    *)
LEMMA UpRoute ==
  ASSUME TypeInv, NEW f, Fams = {f}, UpInv(f), NEW w \in Wans,
         WanRouteAdd(w) \/ WanRouteElsewhere(w) \/ WanRouteDel(w)
  PROVE  UpInv(f)' /\ (TetherSame(f) \/ \E t : TetherMore(f, t) \/ TetherLess(f, t))
<1>1. CASE WanRouteAdd(w)
  BY <1>1, UpRouteAdd
<1>2. CASE WanRouteDel(w) /\ walk.msg.w = w
  BY <1>2, UpRouteDel
<1>3. CASE WanRouteElsewhere(w) \/ (WanRouteDel(w) /\ walk.msg.w # w)
  BY <1>3, UpRouteElsewhere DEF TetherSame
<1> QED BY <1>1, <1>2, <1>3

LEMMA UpInit ==
  ASSUME Init, NEW f, Fams = {f}
  PROVE  UpInv(f)
<1> DEFINE a == [t \in LanSide |-> NoIf]
<1>1. a \in Assignments
  BY DEF Assignments
<1>2. Upstreams(f) = a
  BY DEF Init, Upstreams
<1> HIDE DEF a
<1>3. ToSet(tether[f]) = {} /\ Distinct(tether[f]) /\ f \notin wan_up
  <2>1. tether[f] = <<>> /\ \A n \in 1 .. Len(<<>>) : FALSE
    BY DEF Init
  <2> QED BY <2>1 DEF Init, Distinct, ToSet
<1>4. RoutesAre(a, f)
  BY <1>3 DEF Init, RoutesAre
<1>5. Heard(a, a)
  BY IdleIsGood DEF Init, Heard, Pending, UpstreamEvents
<1>6. Chain(<<>>, a, a)
  <2>1. <<>> \in Seq(Good) /\ \A n \in 1 .. Len(<<>>) : <<>>[n].ev \notin UpstreamEvents
    OBVIOUS
  <2> QED BY <1>1, <2>1, ChainStays
<1>7. queue = <<>> /\ driver = <<>>
  BY DEF Init
<1> QED BY <1>1, <1>2, <1>4, <1>5, <1>6, <1>7 DEF UpInv

LEMMA UpStep ==
  ASSUME TypeInv, NEW f, Fams = {f}, OneBackhaul, UpInv(f), [Next]_vars
  PROVE  UpInv(f)'
<1>1. CASE UNCHANGED vars
  <2>1. UNCHANGED <<queue, walk, driver, kernel, instances, ip_type, active, gateway, wan_up, tether>>
    BY <1>1 DEF vars, daemon
  <2>2. PICK a \in Assignments, b \in Assignments, m \in Assignments :
          RoutesAre(a, f) /\ Heard(a, b) /\ Chain(queue, b, m) /\ Chain(driver, m, Upstreams(f))
    BY DEF UpInv
  <2>3. RoutesAre(a, f)' /\ Heard(a, b)'
    BY <2>1, <2>2 DEF RoutesAre, Heard, Pending
  <2>4. Upstreams(f)' = Upstreams(f)
    BY <2>1 DEF Upstreams
  <2>5. Chain(queue, b, m)' /\ Chain(driver, m, Upstreams(f))'
    BY <2>1, <2>2, <2>4 DEF Chain
  <2> QED BY <2>3, <2>5 DEF UpInv
<1>2. CASE CommandThread
  <2>1. CASE Process \/ AccessPointIsUp \/ \E i \in Ifs : LinkIsUp(i)
    BY <2>1, UpProcess, UpLinkIsUp, Sides
  <2>2. ASSUME NEW i \in LanSide, \/ Ignored(i) \/ LanAddress(i) \/ LanWanUp(i)
                                  \/ LanWanDown(i) \/ LanDown(i) \/ LanDelete(i)
        PROVE  UpInv(f)'
    BY <2>2, UpLan
  <2>3. ASSUME NEW w \in Wans, \/ WanAddress(w) \/ WanRouteAdd(w) \/ WanRouteElsewhere(w)
                               \/ WanRouteDel(w) \/ WanDown(w)
        PROVE  UpInv(f)'
    BY <2>3, UpWanAddress, UpRoute, UpWanDown
  <2> QED BY <1>2, <2>1, <2>2, <2>3 DEF CommandThread
<1>3. CASE DriverPosts
  BY <1>3, UpDriverPosts
<1>4. CASE Kernel
  BY <1>4, UpKernel
<1> QED BY <1>1, <1>2, <1>3, <1>4 DEF Next

OneFamily == \E f : Fams = {f}

(* With one family of addresses and one upstream at a time, wan_up says    *)
(* just when some modem instance has its default route in the hardware,    *)
(* in whichever order upstreams, addresses and links came and went: a      *)
(* backhaul that was replaced or whose link is gone leaves the flag to     *)
(* the one that is in use (handle_route_add_evt_ex,                        *)
(* handle_route_del_evt_ex, handle_down_evt_ex).  Families share           *)
(* is_default_gateway, which is why it is of one.                          *)
THEOREM WanUpStaysTrue == OneFamily /\ OneBackhaul => (Spec => []WanUpIsTrue)
<1> SUFFICES ASSUME NEW f, Fams = {f}, OneBackhaul
             PROVE  Spec => []WanUpIsTrue
  BY DEF OneFamily
<1> DEFINE IInv == TypeInv /\ UpInv(f)
<1>1. Init => IInv
  BY InitTyped, UpInit
<1>2. IInv /\ [Next]_vars => IInv'
  BY TypeStep, UpStep
<1>3. IInv => WanUpIsTrue
  BY UpTrue
<1> HIDE DEF IInv
<1> QED
  BY <1>1, <1>2, <1>3, PTL DEF Spec

-----------------------------------------------------------------------------
(***************************************************************************)
(* The rules, under the same conditions.  Of the news that are ahead of a  *)
(* tethered interface, what is no longer so is taken back by later news;   *)
(* an instance that no news are ahead of has its rules as they should be.  *)
(***************************************************************************)
WanUps(i) == {e \in Good : e.ev = "WAN_UP" /\ e.i = i}
WanDowns(i) == {e \in Good : e.ev = "WAN_DOWN" /\ e.i = i}
NewsOf(i) == WanUps(i) \cup WanDowns(i)
NewsAhead(i) == Now(NewsOf(i)) \/ Has(queue, NewsOf(i))

Follows(wrong, right) == Recanted(queue, wrong, right) /\ (Now(wrong) => Has(queue, right))
NewsRight(i, f) ==
  IF i \in ToSet(tether[f]) THEN Follows(WanDowns(i), WanUps(i)) ELSE Follows(WanUps(i), WanDowns(i))

RulesRight(i, f) ==
  /\ i \in is_active => NewsAhead(i) \/ (f \in ul_set[i] <=> f \in ip_type[i] /\ i \in ToSet(tether[f]))
  /\ f \in ul_set[i] => f \in ip_type[i] /\ rules[i][f] > 0
  /\ rules[i][f] >= 0
  /\ i \notin ToSet(instances) => f \notin ul_set[i]

NewsInv(f) == \A i \in LanSide : NewsRight(i, f) /\ RulesRight(i, f)

(* No other event is dispatched by now.                                    *)
Goes == walk' = walk \/ walk' = Idle \/ (walk.rest # {} /\ walk'.msg = walk.msg)

LEMMA RulesInStep ==
  ASSUME TypeInv, NEW f, Fams = {f}, UpInv(f), NewsInv(f)
  PROVE  RulesFollowWan
<1>1. PICK a \in Assignments : RoutesAre(a, f)
  BY DEF UpInv
<1>2. \A i : isWanUP(i, f) <=> i \in ToSet(tether[f])
  BY <1>1 DEF RoutesAre, isWanUP
<1>3. ASSUME NEW i \in is_active
      PROVE  \/ ToldSoon(i, f)
             \/ /\ f \in ul_set[i] <=> f \in ip_type[i] /\ isWanUP(i, f)
                /\ f \in ul_set[i] => rules[i][f] > 0
  <2>1. i \in LanSide
    BY DEF TypeInv
  <2>2. RulesRight(i, f)
    BY <2>1 DEF NewsInv
  <2>3. \A e \in NewsOf(i) : e.ev \in {"WAN_UP", "WAN_DOWN"} /\ e.i = i /\ e.f = f
    BY DEF NewsOf, WanUps, WanDowns, Good, News
  <2>4. CASE Now(NewsOf(i))
    <3>1. walk.rest # {} /\ walk.msg \in NewsOf(i)
      BY <2>4 DEF Now
    <3>2. i \in walk.rest
      BY <2>3, <3>1, WhoListens DEF UpEvents, UpstreamEvents
    <3> QED BY <2>3, <3>1, <3>2 DEF ToldSoon
  <2>5. CASE Has(queue, NewsOf(i))
    <3>1. PICK n \in 1 .. Len(queue) : queue[n] \in NewsOf(i)
      BY <2>5 DEF Has
    <3>2. n \in DOMAIN queue
      BY <3>1, LenProperties DEF TypeInv
    <3> QED BY <2>3, <3>1, <3>2 DEF ToldSoon
  <2> QED BY <1>2, <2>2, <2>4, <2>5 DEF RulesRight, NewsAhead
<1>4. \A g \in Fams : g = f
  OBVIOUS
<1> QED BY <1>3, <1>4 DEF RulesFollowWan

LEMMA NowAsBefore ==
  ASSUME Goes, NEW A
  PROVE  Now(A)' => Now(A)
BY IdleIsGood DEF Goes, Now

LEMMA FollowsPosted ==
  ASSUME TypeInv, NEW W, NEW R, NEW t \in Seq(Good), queue' = queue \o t, Goes,
         ~Has(t, W), Follows(W, R) \/ Has(t, R)
  PROVE  Follows(W, R)'
<1>1. queue \in Seq(Good)
  BY DEF TypeInv
<1>2. Recanted(t, W, R)
  BY DEF Has, Recanted
<1>3. Recanted(queue, W, R) \/ Has(t, R)
  BY DEF Follows
<1>4. Recanted(queue \o t, W, R)
  BY <1>1, <1>2, <1>3, ConcatHas
<1>5. Has(queue \o t, R) <=> Has(queue, R) \/ Has(t, R)
  BY <1>1, ConcatHas
<1>6. Now(W)' => Has(queue, R) \/ Has(t, R)
  BY NowAsBefore DEF Follows
<1>7. Recanted(queue', W, R) /\ (Now(W)' => Has(queue', R))
  BY <1>4, <1>5, <1>6
<1> QED BY <1>7 DEF Follows, Recanted, Has

LEMMA FollowsProcess ==
  ASSUME TypeInv, NEW W, NEW R, Process, Follows(W, R)
  PROVE  Follows(W, R)'
<1>1. /\ queue # <<>> /\ queue' = Tail(queue) /\ queue \in Seq(Good)
      /\ walk' = Idle \/ walk'.msg = Head(queue)
  BY ProcessTyped DEF TypeInv
<1>2. Recanted(queue', W, R) /\ (Head(queue) \in W => Has(queue', R))
  BY <1>1, TailHas DEF Follows
<1>3. Now(W)' => Has(queue', R)
  BY <1>1, <1>2, IdleIsGood DEF Now
<1> QED BY <1>2, <1>3 DEF Follows, Recanted, Has

(* No news of the interface, and it is tethered as before.                 *)
LEMMA NewsKept ==
  ASSUME TypeInv, NEW i \in LanSide, NEW f \in Fams, NewsRight(i, f), Goes,
         NEW t \in Seq(Good), queue' = queue \o t, ~Has(t, NewsOf(i)),
         i \in ToSet(tether'[f]) <=> i \in ToSet(tether[f])
  PROVE  NewsRight(i, f)'
<1> DEFINE U == WanUps(i)
           D == WanDowns(i)
<1>1. ~Has(t, U) /\ ~Has(t, D)
  BY DEF Has, NewsOf
<1> HIDE DEF U, D
<1>2. (Follows(D, U) => Follows(D, U)') /\ (Follows(U, D) => Follows(U, D)')
  BY <1>1, FollowsPosted
<1>3. (Follows(WanDowns(i), WanUps(i)) => Follows(WanDowns(i), WanUps(i))')
      /\ (Follows(WanUps(i), WanDowns(i)) => Follows(WanUps(i), WanDowns(i))')
  BY <1>2 DEF U, D
<1> QED BY <1>3 DEF NewsRight

(* The rules of the interface are as before.                               *)
LEMMA RulesKept ==
  ASSUME TypeInv, NEW i \in LanSide, NEW f \in Fams, RulesRight(i, f),
         ~Now(NewsOf(i)) \/ walk' = walk, NEW t \in Seq(Good), queue' = queue \o t,
         Has(t, NewsOf(i)) \/ (i \in ToSet(tether'[f]) <=> i \in ToSet(tether[f])),
         ul_set'[i] = ul_set[i], ip_type'[i] = ip_type[i], rules'[i] = rules[i],
         i \in is_active' => i \in is_active,
         i \in ToSet(instances) => i \in ToSet(instances')
  PROVE  RulesRight(i, f)'
<1>1. queue \in Seq(Good)
  BY DEF TypeInv
<1> DEFINE N == NewsOf(i)
<1> HIDE DEF N
<1>2. Has(queue', N) <=> Has(queue, N) \/ Has(t, N)
  BY <1>1, ConcatHas
<1>3. Has(queue, N)' <=> Has(queue, N) \/ Has(t, N)
  BY <1>2 DEF Has
<1>4. NewsAhead(i)' <=> Now(NewsOf(i))' \/ Has(queue, NewsOf(i))'
  BY DEF NewsAhead
<1>5. walk' = walk => (Now(N)' <=> Now(N))
  BY DEF Now
<1>6. NewsAhead(i) \/ Has(t, NewsOf(i)) => NewsAhead(i)'
  BY <1>3, <1>4, <1>5 DEF NewsAhead, N
<1> QED BY <1>6 DEF RulesRight

(* A step in which nobody's rules change and nobody is told.               *)
LEMMA InvKept ==
  ASSUME TypeInv, NEW f \in Fams, NewsInv(f), Goes, walk' = walk \/ \A i \in LanSide : ~Now(NewsOf(i)),
         NEW t \in Seq(Good), queue' = queue \o t, \A e \in ToSet(t) : e.ev \notin News,
         ToSet(tether'[f]) = ToSet(tether[f]),
         \A i \in LanSide : /\ ul_set'[i] = ul_set[i] /\ ip_type'[i] = ip_type[i] /\ rules'[i] = rules[i]
                            /\ i \in is_active' => i \in is_active
                            /\ i \in ToSet(instances) => i \in ToSet(instances')
  PROVE  NewsInv(f)'
<1>1. \A i : ~Has(t, NewsOf(i))
  <2> TAKE i
  <2>1. \A e \in NewsOf(i) : e.ev \in News
    BY DEF NewsOf, WanUps, WanDowns, News
  <2> QED BY <2>1, HasSet
<1>2. ASSUME NEW i \in LanSide
      PROVE  NewsRight(i, f)' /\ RulesRight(i, f)'
  <2>1. NewsRight(i, f) /\ RulesRight(i, f)
    BY DEF NewsInv
  <2>2. NewsRight(i, f)'
    BY <1>1, <2>1, NewsKept
  <2>3. RulesRight(i, f)'
    BY <2>1, RulesKept
  <2> QED BY <2>2, <2>3
<1> QED BY <1>2 DEF NewsInv

LEMMA NewsProcess ==
  ASSUME TypeInv, NEW f \in Fams, NewsInv(f), \A i \in LanSide : i \in is_active => i \in ToSet(instances),
         Process
  PROVE  NewsInv(f)'
<1> DEFINE e == Head(queue)
<1>1. /\ walk.rest = {} /\ queue # <<>> /\ e \in Good /\ queue' = Tail(queue) /\ queue \in Seq(Good)
      /\ UNCHANGED <<is_active, instances, ul_set, ip_type, rules, tether>>
      /\ IF Listeners(e) = {} THEN walk' = Idle ELSE walk'.msg = e /\ walk'.rest = Listeners(e)
  BY ProcessTyped DEF daemon, TypeInv
<1>2. ASSUME NEW i \in LanSide
      PROVE  NewsRight(i, f)' /\ RulesRight(i, f)'
  <2>1. NewsRight(i, f) /\ RulesRight(i, f)
    BY DEF NewsInv
  <2> DEFINE U == WanUps(i)
             D == WanDowns(i)
             N == NewsOf(i)
  <2>2. (Follows(D, U) => Follows(D, U)') /\ (Follows(U, D) => Follows(U, D)')
    <3> HIDE DEF U, D
    <3> QED BY FollowsProcess
  <2>3. NewsRight(i, f)'
    BY <1>1, <2>1, <2>2 DEF NewsRight
  <2>4. i \in ToSet(instances) /\ e \in N => i \in Listeners(e)
    BY DEF NewsOf, WanUps, WanDowns, Listeners, UpEvents, UpstreamEvents
  <2> HIDE DEF e, N
  <2>5. Has(queue, N) => e \in N \/ Has(queue', N)
    BY <1>1, TailHas DEF e
  <2>6. i \in ToSet(instances) /\ e \in N => walk'.rest # {} /\ walk'.msg \in N
    BY <1>1, <2>4
  <2>7. ~Now(N)
    BY <1>1 DEF Now
  <2>8. i \in ToSet(instances) /\ NewsAhead(i) => NewsAhead(i)'
    BY <2>5, <2>6, <2>7 DEF NewsAhead, Now, Has, N
  <2>9. RulesRight(i, f)'
    BY <1>1, <2>1, <2>8 DEF RulesRight
  <2> QED BY <2>3, <2>9
<1> QED BY <1>2 DEF NewsInv

(* The interface is told of it that it is tethered, or no longer.          *)
LEMMA NewsTold ==
  ASSUME TypeInv, NEW f \in Fams, NEW i \in LanSide, NewsRight(i, f), Goes,
         NEW t \in Seq(Good), queue' = queue \o t,
         \/ i \in ToSet(tether'[f]) /\ Has(t, WanUps(i)) /\ ~Has(t, WanDowns(i))
         \/ i \notin ToSet(tether'[f]) /\ Has(t, WanDowns(i)) /\ ~Has(t, WanUps(i))
  PROVE  NewsRight(i, f)' /\ Has(t, NewsOf(i))
<1> DEFINE U == WanUps(i)
           D == WanDowns(i)
<1>1. Has(t, NewsOf(i))
  BY DEF Has, NewsOf
<1>2. CASE i \in ToSet(tether'[f]) /\ Has(t, U) /\ ~Has(t, D)
  <2>1. Follows(D, U)'
    <3> HIDE DEF U, D
    <3> QED BY <1>2, FollowsPosted
  <2> QED BY <1>1, <1>2, <2>1 DEF NewsRight
<1>3. CASE i \notin ToSet(tether'[f]) /\ Has(t, D) /\ ~Has(t, U)
  <2>1. Follows(U, D)'
    <3> HIDE DEF U, D
    <3> QED BY <1>3, FollowsPosted
  <2> QED BY <1>1, <1>3, <2>1 DEF NewsRight
<1> QED BY <1>2, <1>3

LEMMA NewsTether ==
  ASSUME TypeInv, NEW f \in Fams, NewsInv(f), Goes, \A i \in LanSide : ~Now(NewsOf(i)),
         TetherSame(f) \/ TetherNone(f) \/ \E t : TetherMore(f, t) \/ TetherLess(f, t),
         \A i \in LanSide : /\ ul_set'[i] = ul_set[i] /\ ip_type'[i] = ip_type[i] /\ rules'[i] = rules[i]
                            /\ i \in is_active' => i \in is_active
                            /\ i \in ToSet(instances) => i \in ToSet(instances')
  PROVE  NewsInv(f)'
<1>1. CASE TetherSame(f)
  <2>1. queue' = queue /\ ToSet(tether'[f]) = ToSet(tether[f])
    BY <1>1 DEF TetherSame
  <2>2. <<>> \in Seq(Good) /\ queue' = queue \o <<>> /\ \A e \in ToSet(<<>>) : e.ev \notin News
    BY <2>1, NothingPosted DEF ToSet
  <2> QED BY <2>1, <2>2, InvKept
<1>2. ASSUME NEW t, TetherMore(f, t) \/ TetherLess(f, t)
      PROVE  NewsInv(f)'
  <2>1. PICK e \in Good :
          /\ queue' = queue \o <<e>> /\ e.i = t
          /\ \/ e.ev = "WAN_UP" /\ ToSet(tether'[f]) = ToSet(tether[f]) \cup {t}
             \/ e.ev = "WAN_DOWN" /\ ToSet(tether'[f]) = ToSet(tether[f]) \ {t}
    <3>1. CASE TetherMore(f, t)
      BY <3>1 DEF TetherMore, Event
    <3>2. CASE TetherLess(f, t)
      BY <3>2 DEF TetherLess, Event
    <3> QED BY <1>2, <3>1, <3>2
  <2>2. <<e>> \in Seq(Good) /\ \A A : Has(<<e>>, A) <=> e \in A
    <3>1. \A A : Has(<<e>>, A) <=> e \in A
      <4> TAKE A
      <4> QED BY OneHas
    <3> QED BY <3>1
  <2>3. ASSUME NEW i \in LanSide
        PROVE  NewsRight(i, f)' /\ RulesRight(i, f)'
    <3>1. NewsRight(i, f) /\ RulesRight(i, f)
      BY DEF NewsInv
    <3>2. CASE i = t
      <4>1. \/ i \in ToSet(tether'[f]) /\ Has(<<e>>, WanUps(i)) /\ ~Has(<<e>>, WanDowns(i))
            \/ i \notin ToSet(tether'[f]) /\ Has(<<e>>, WanDowns(i)) /\ ~Has(<<e>>, WanUps(i))
        BY <2>1, <2>2, <3>2 DEF WanUps, WanDowns
      <4>2. NewsRight(i, f)' /\ Has(<<e>>, NewsOf(i))
        BY <2>1, <2>2, <3>1, <4>1, NewsTold
      <4>3. RulesRight(i, f)'
        BY <2>1, <2>2, <3>1, <4>2, RulesKept
      <4> QED BY <4>2, <4>3
    <3>3. CASE i # t
      <4>1. ~Has(<<e>>, NewsOf(i)) /\ (i \in ToSet(tether'[f]) <=> i \in ToSet(tether[f]))
        BY <2>1, <2>2, <3>3 DEF NewsOf, WanUps, WanDowns
      <4>2. NewsRight(i, f)'
        BY <2>1, <2>2, <3>1, <4>1, NewsKept
      <4>3. RulesRight(i, f)'
        BY <2>1, <2>2, <3>1, <4>1, RulesKept
      <4> QED BY <4>2, <4>3
    <3> QED BY <3>2, <3>3
  <2> QED BY <2>3 DEF NewsInv
<1>3. CASE TetherNone(f)
  <2>1. PICK t \in Seq(Good) :
          /\ queue' = queue \o t /\ \A e \in ToSet(t) : e.ev = "WAN_DOWN"
          /\ \A o \in ToSet(tether[f]) : Event("WAN_DOWN", o, f, NoIf) \in ToSet(t)
    BY <1>3 DEF TetherNone
  <2>2. ToSet(tether'[f]) = {}
    BY <1>3 DEF TetherNone
  <2>3. \A A : Has(t, A) <=> \E e \in ToSet(t) : e \in A
    <3> TAKE A
    <3> QED BY HasSet
  <2>4. ASSUME NEW i \in LanSide
        PROVE  NewsRight(i, f)' /\ RulesRight(i, f)'
    <3>1. NewsRight(i, f) /\ RulesRight(i, f)
      BY DEF NewsInv
    <3>2. ~Has(t, WanUps(i))
      BY <2>1, <2>3 DEF WanUps
    <3>3. CASE Has(t, WanDowns(i))
      <4>1. NewsRight(i, f)' /\ Has(t, NewsOf(i))
        BY <2>1, <2>2, <3>1, <3>2, <3>3, NewsTold
      <4>2. RulesRight(i, f)'
        BY <2>1, <3>1, <4>1, RulesKept
      <4> QED BY <4>1, <4>2
    <3>4. CASE ~Has(t, WanDowns(i))
      <4>1. ~Has(t, NewsOf(i))
        BY <3>2, <3>4 DEF Has, NewsOf
      <4>2. i \notin ToSet(tether[f])
        <5> SUFFICES ASSUME i \in ToSet(tether[f]) PROVE FALSE
          OBVIOUS
        <5>1. Event("WAN_DOWN", i, f, NoIf) \in ToSet(t)
          BY <2>1
        <5>2. Event("WAN_DOWN", i, f, NoIf) \in WanDowns(i)
          <6>1. \A n \in 1 .. Len(t) : t[n] \in Good
            BY <2>1, ElementOfSeq
          <6>2. Event("WAN_DOWN", i, f, NoIf) \in Good
            BY <2>1, <5>1, <6>1, Elements
          <6> QED BY <6>2 DEF WanDowns, Event
        <5> QED BY <2>3, <3>4, <5>1, <5>2
      <4>3. NewsRight(i, f)'
        BY <2>1, <2>2, <3>1, <4>1, <4>2, NewsKept
      <4>4. RulesRight(i, f)'
        BY <2>1, <2>2, <3>1, <4>2, RulesKept
      <4> QED BY <4>3, <4>4
    <3> QED BY <3>3, <3>4
  <2> QED BY <2>4 DEF NewsInv
<1> QED BY <1>1, <1>2, <1>3

(* What the interface's own callbacks do to its rules.                     *)
LEMMA RulesUp ==
  ASSUME TypeInv, NEW i \in LanSide, NEW f \in Fams, NEW fs \in SUBSET Fams, handle_wan_up_ex(i, fs)
  PROVE  /\ rules'[i][f] = IF f \in fs /\ f \notin ul_set[i] THEN rules[i][f] + 1 ELSE rules[i][f]
         /\ f \in ul_set'[i] <=> f \in ul_set[i] \/ f \in fs
         /\ rules[i][f] \in Int
         /\ \A o \in LanSide : o # i => rules'[o] = rules[o] /\ ul_set'[o] = ul_set[o]
<1>1. ul_set \in [LanSide -> SUBSET Fams] /\ rules \in [LanSide -> [Fams -> Int]]
  BY DEF TypeInv
<1> DEFINE r == [g \in Fams |-> IF g \in fs \ ul_set[i] THEN rules[i][g] + 1 ELSE rules[i][g]]
<1>2. rules' = [rules EXCEPT ![i] = r] /\ ul_set' = [ul_set EXCEPT ![i] = ul_set[i] \cup fs]
  BY <1>1 DEF handle_wan_up_ex
<1>3. r[f] = IF f \in fs /\ f \notin ul_set[i] THEN rules[i][f] + 1 ELSE rules[i][f]
  OBVIOUS
<1>4. rules'[i] = r
  BY <1>1, <1>2
<1> HIDE DEF r
<1> QED BY <1>1, <1>2, <1>3, <1>4

LEMMA RulesDown ==
  ASSUME TypeInv, NEW i \in LanSide, NEW f \in Fams, NEW fs \in SUBSET Fams, handle_wan_down(i, fs)
  PROVE  /\ rules'[i][f] = IF f \in fs /\ f \in ul_set[i] THEN rules[i][f] - 1 ELSE rules[i][f]
         /\ f \in ul_set'[i] <=> f \in ul_set[i] /\ f \notin fs
         /\ rules[i][f] \in Int
         /\ \A o \in LanSide : o # i => rules'[o] = rules[o] /\ ul_set'[o] = ul_set[o]
<1>1. ul_set \in [LanSide -> SUBSET Fams] /\ rules \in [LanSide -> [Fams -> Int]]
  BY DEF TypeInv
<1> DEFINE r == [g \in Fams |-> IF g \in fs \cap ul_set[i] THEN rules[i][g] - 1 ELSE rules[i][g]]
<1>2. rules' = [rules EXCEPT ![i] = r] /\ ul_set' = [ul_set EXCEPT ![i] = ul_set[i] \ fs]
  BY <1>1 DEF handle_wan_down
<1>3. r[f] = IF f \in fs /\ f \in ul_set[i] THEN rules[i][f] - 1 ELSE rules[i][f]
  OBVIOUS
<1>4. rules'[i] = r
  BY <1>1, <1>2
<1> HIDE DEF r
<1> QED BY <1>1, <1>2, <1>3, <1>4

(* A step of one interface's: the others are as before, and news are only  *)
(* taken off the list.                                                     *)
LEMMA OneOfThem ==
  ASSUME TypeInv, NEW f \in Fams, NewsInv(f), NEW i \in LanSide,
         walk.rest = {i}, walk.msg.i = i, walk' = Idle,
         NEW t \in Seq(Good), queue' = queue \o t, \A e \in ToSet(t) : e.ev \notin News,
         ToSet(tether'[f]) = ToSet(tether[f]),
         \A o \in LanSide : o # i =>
           /\ ul_set'[o] = ul_set[o] /\ ip_type'[o] = ip_type[o] /\ rules'[o] = rules[o]
           /\ o \in is_active' => o \in is_active
           /\ o \in ToSet(instances) => o \in ToSet(instances'),
         RulesRight(i, f)'
  PROVE  NewsInv(f)'
<1>1. \A o : ~Has(t, NewsOf(o))
  <2> TAKE o
  <2>1. \A e \in NewsOf(o) : e.ev \in News
    BY DEF NewsOf, WanUps, WanDowns, News
  <2> QED BY <2>1, HasSet
<1>2. Goes
  BY DEF Goes
<1>3. ASSUME NEW o \in LanSide
      PROVE  NewsRight(o, f)' /\ RulesRight(o, f)'
  <2>1. NewsRight(o, f) /\ RulesRight(o, f)
    BY DEF NewsInv
  <2>2. NewsRight(o, f)'
    BY <1>1, <1>2, <2>1, NewsKept
  <2>3. CASE o # i
    <3>1. ~Now(NewsOf(o))
      BY <2>3 DEF Now, NewsOf, WanUps, WanDowns
    <3>2. RulesRight(o, f)'
      BY <2>1, <2>3, <3>1, RulesKept
    <3> QED BY <2>2, <3>2
  <2> QED BY <2>2, <2>3
<1> QED BY <1>3 DEF NewsInv

LEMMA NewsLanAddress ==
  ASSUME TypeInv, NEW f, Fams = {f}, UpInv(f), NewsInv(f), NEW i \in LanSide, LanAddress(i)
  PROVE  NewsInv(f)'
<1>1. /\ walk' = Idle /\ walk.rest = {i} /\ walk.msg.i = i /\ walk.msg.ev = "ADDR_ADD"
      /\ walk.msg.f = f /\ i \in is_active /\ i \in ToSet(instances) /\ f \in Fams
      /\ ip_type' = [ip_type EXCEPT ![i] = @ \cup {f}]
      /\ UNCHANGED <<queue, instances, is_active, tether>>
  BY LanAddressTyped
<1>2. /\ f \in ip_type'[i] /\ ip_type[i] \subseteq ip_type'[i]
      /\ \A o \in LanSide : o # i => ip_type'[o] = ip_type[o]
  BY <1>1, Sides DEF TypeInv
<1>3. isWanUP(i, f) <=> i \in ToSet(tether[f])
  BY DEF UpInv, RoutesAre, isWanUP
<1> DEFINE fs == IF (f \notin ip_type[i] \/ f = "v6") /\ isWanUP(i, f) THEN {f} ELSE {}
<1>4. handle_wan_up_ex(i, fs) /\ fs \in SUBSET Fams
  BY <1>1 DEF LanAddress
<1>5. f \in fs <=> (f \notin ip_type[i] \/ f = "v6") /\ i \in ToSet(tether[f])
  BY <1>3
<1> HIDE DEF fs
<1>6. /\ rules'[i][f] = IF f \in fs /\ f \notin ul_set[i] THEN rules[i][f] + 1 ELSE rules[i][f]
      /\ f \in ul_set'[i] <=> f \in ul_set[i] \/ f \in fs
      /\ rules[i][f] \in Int
      /\ \A o \in LanSide : o # i => rules'[o] = rules[o] /\ ul_set'[o] = ul_set[o]
  BY <1>1, <1>4, RulesUp
<1>7. RulesRight(i, f)
  BY DEF NewsInv
<1>8. rules'[i][f] >= 0 /\ (f \in ul_set'[i] => rules'[i][f] > 0)
  BY <1>6, <1>7 DEF RulesRight
<1>9. NewsAhead(i)' \/ (f \in ul_set'[i] <=> i \in ToSet(tether[f]))
  <2>1. CASE f \notin ip_type[i]
    <3>1. f \notin ul_set[i]
      BY <1>7, <2>1 DEF RulesRight
    <3> QED BY <1>5, <1>6, <2>1, <3>1
  <2>2. CASE f \in ip_type[i]
    <3>1. ~Now(NewsOf(i))
      BY <1>1 DEF Now, NewsOf, WanUps, WanDowns
    <3>2. Has(queue, NewsOf(i)) => NewsAhead(i)'
      BY <1>1 DEF NewsAhead, Has
    <3>3. Has(queue, NewsOf(i)) \/ (f \in ul_set[i] <=> i \in ToSet(tether[f]))
      BY <1>1, <1>7, <2>2, <3>1 DEF RulesRight, NewsAhead
    <3> QED BY <1>5, <1>6, <3>2, <3>3
  <2> QED BY <2>1, <2>2
<1>10. RulesRight(i, f)'
  BY <1>1, <1>2, <1>8, <1>9 DEF RulesRight
<1>11. <<>> \in Seq(Good) /\ queue' = queue \o <<>> /\ \A e \in ToSet(<<>>) : e.ev \notin News
  BY <1>1, NothingPosted DEF ToSet
<1> QED BY ZenonT(60), <1>1, <1>2, <1>6, <1>10, <1>11, OneOfThem

LEMMA NewsLanWan ==
  ASSUME TypeInv, NEW f, Fams = {f}, NewsInv(f), NEW i \in LanSide, LanWanUp(i) \/ LanWanDown(i)
  PROVE  NewsInv(f)'
<1>1. /\ walk' = Idle /\ walk.rest = {i} /\ walk.msg.i = i /\ walk.msg \in Good
      /\ walk.msg.f = f /\ i \in is_active /\ i \in ToSet(instances) /\ f \in Fams
      /\ UNCHANGED <<queue, instances, is_active, ip_type, tether>>
  BY LanWanTyped DEF TypeInv
<1>2. NewsRight(i, f) /\ RulesRight(i, f)
  BY DEF NewsInv
<1> DEFINE fs == {f} \cap ip_type[i]
<1>3. fs \in SUBSET Fams /\ (f \in fs <=> f \in ip_type[i])
  OBVIOUS
<1>4. Has(queue, NewsOf(i)) => NewsAhead(i)'
  BY <1>1 DEF NewsAhead, Has
<1>5. \/ walk.msg.ev = "WAN_UP" /\ handle_wan_up_ex(i, fs)
      \/ walk.msg.ev = "WAN_DOWN" /\ handle_wan_down(i, fs)
  BY <1>1 DEF LanWanUp, LanWanDown, Concerns, Calls
<1> HIDE DEF fs
<1>6. CASE walk.msg.ev = "WAN_UP" /\ handle_wan_up_ex(i, fs)
  <2>1. /\ rules'[i][f] = IF f \in fs /\ f \notin ul_set[i] THEN rules[i][f] + 1 ELSE rules[i][f]
        /\ f \in ul_set'[i] <=> f \in ul_set[i] \/ f \in fs
        /\ rules[i][f] \in Int
        /\ \A o \in LanSide : o # i => rules'[o] = rules[o] /\ ul_set'[o] = ul_set[o]
    BY <1>1, <1>3, <1>6, RulesUp
  <2>2. rules'[i][f] >= 0 /\ (f \in ul_set'[i] => rules'[i][f] > 0 /\ f \in ip_type[i])
    BY <1>2, <1>3, <2>1 DEF RulesRight
  <2>3. NewsAhead(i)' \/ i \in ToSet(tether[f])
    <3>1. Now(WanUps(i))
      BY <1>1, <1>6 DEF Now, WanUps
    <3>2. i \notin ToSet(tether[f]) => Has(queue, WanDowns(i))
      BY <1>2, <3>1 DEF NewsRight, Follows
    <3> QED BY <1>4, <3>2 DEF Has, NewsOf
  <2>4. RulesRight(i, f)'
    BY <1>1, <1>3, <2>1, <2>2, <2>3 DEF RulesRight
  <2>5. <<>> \in Seq(Good) /\ queue' = queue \o <<>> /\ \A e \in ToSet(<<>>) : e.ev \notin News
    BY <1>1, NothingPosted DEF ToSet
  <2> QED BY ZenonT(60), <1>1, <2>1, <2>4, <2>5, OneOfThem
<1>7. CASE walk.msg.ev = "WAN_DOWN" /\ handle_wan_down(i, fs)
  <2>1. /\ rules'[i][f] = IF f \in fs /\ f \in ul_set[i] THEN rules[i][f] - 1 ELSE rules[i][f]
        /\ f \in ul_set'[i] <=> f \in ul_set[i] /\ f \notin fs
        /\ rules[i][f] \in Int
        /\ \A o \in LanSide : o # i => rules'[o] = rules[o] /\ ul_set'[o] = ul_set[o]
    BY <1>1, <1>3, <1>7, RulesDown
  <2>2. rules'[i][f] >= 0 /\ f \notin ul_set'[i]
    BY <1>2, <1>3, <2>1 DEF RulesRight
  <2>3. NewsAhead(i)' \/ i \notin ToSet(tether[f])
    <3>1. Now(WanDowns(i))
      BY <1>1, <1>7 DEF Now, WanDowns
    <3>2. i \in ToSet(tether[f]) => Has(queue, WanUps(i))
      BY <1>2, <3>1 DEF NewsRight, Follows
    <3> QED BY <1>4, <3>2 DEF Has, NewsOf
  <2>4. RulesRight(i, f)'
    BY <1>1, <2>2, <2>3 DEF RulesRight
  <2>5. <<>> \in Seq(Good) /\ queue' = queue \o <<>> /\ \A e \in ToSet(<<>>) : e.ev \notin News
    BY <1>1, NothingPosted DEF ToSet
  <2> QED BY ZenonT(60), <1>1, <2>1, <2>4, <2>5, OneOfThem
<1> QED BY <1>5, <1>6, <1>7

LEMMA NewsLanDown ==
  ASSUME TypeInv, NEW f, Fams = {f}, NewsInv(f), NEW i \in LanSide, LanDown(i)
  PROVE  NewsInv(f)'
<1> DEFINE e == LinkEvent("DELETE_SELF", i)
           fs == IF ip_type[i] = {} THEN {} ELSE {g \in Fams : isWanUP(i, g)}
<1>1. /\ walk' = Idle /\ walk.rest = {i} /\ walk.msg.i = i /\ is_active' = is_active \ {i}
      /\ queue' = queue \o <<e>> /\ e \in Good /\ i \in ToSet(instances)
      /\ UNCHANGED <<instances, ip_type, tether>> /\ f \in Fams
  BY LanDownTyped
<1>2. handle_wan_down(i, fs) /\ fs \in SUBSET Fams
  BY DEF LanDown
<1>3. <<e>> \in Seq(Good) /\ \A x \in ToSet(<<e>>) : x.ev \notin News
  <2>1. e.ev \notin News
    BY DEF LinkEvent, Event, News
  <2> HIDE DEF e
  <2>2. ToSet(<<e>>) = {e}
    BY DEF ToSet
  <2> QED BY <1>1, <2>1, <2>2
<1> HIDE DEF fs, e
<1>4. /\ rules'[i][f] = IF f \in fs /\ f \in ul_set[i] THEN rules[i][f] - 1 ELSE rules[i][f]
      /\ f \in ul_set'[i] <=> f \in ul_set[i] /\ f \notin fs
      /\ rules[i][f] \in Int
      /\ \A o \in LanSide : o # i => rules'[o] = rules[o] /\ ul_set'[o] = ul_set[o]
  BY <1>1, <1>2, RulesDown
<1>5. RulesRight(i, f)
  BY DEF NewsInv
<1>6. RulesRight(i, f)'
  BY <1>1, <1>4, <1>5 DEF RulesRight
<1> QED BY <1>1, <1>3, <1>4, <1>6, OneOfThem

LEMMA NewsLanDelete ==
  ASSUME TypeInv, NEW f, Fams = {f}, NewsInv(f), NEW i \in LanSide, DeleteInv(i), LanDelete(i)
  PROVE  NewsInv(f)'
<1>1. /\ walk' = Idle /\ walk.rest = {i} /\ walk.msg.i = i /\ walk.msg \in Deletes(i)
      /\ ToSet(instances') = ToSet(instances) \ {i} /\ ip_type' = [ip_type EXCEPT ![i] = {}]
      /\ ul_set' = [ul_set EXCEPT ![i] = {}] /\ f \in Fams
      /\ UNCHANGED <<queue, is_active, tether, rules>>
  BY LanDeleteTyped DEF Deletes, TypeInv
<1>2. i \notin is_active
  BY <1>1 DEF DeleteInv, Now
<1>3. ul_set'[i] = {} /\ \A o \in LanSide : o # i => ul_set'[o] = ul_set[o] /\ ip_type'[o] = ip_type[o]
  BY <1>1, Sides DEF TypeInv
<1>4. RulesRight(i, f)
  BY DEF NewsInv
<1>5. RulesRight(i, f)'
  BY <1>1, <1>2, <1>3, <1>4 DEF RulesRight
<1>6. <<>> \in Seq(Good) /\ queue' = queue \o <<>> /\ \A e \in ToSet(<<>>) : e.ev \notin News
  BY <1>1, NothingPosted DEF ToSet
<1> QED BY <1>1, <1>3, <1>5, <1>6, OneOfThem

LEMMA NewsIgnored ==
  ASSUME TypeInv, NEW f, Fams = {f}, NewsInv(f), NEW i \in LanSide, Ignored(i)
  PROVE  NewsInv(f)'
<1>1. /\ walk' = Idle /\ walk.rest = {i} /\ walk.msg.i = i /\ i \notin is_active /\ f \in Fams
      /\ UNCHANGED <<queue, instances, is_active, ip_type, ul_set, rules, tether>>
  BY IgnoredTyped DEF daemon
<1>2. RulesRight(i, f)
  BY DEF NewsInv
<1>3. RulesRight(i, f)'
  BY <1>1, <1>2 DEF RulesRight
<1>4. <<>> \in Seq(Good) /\ queue' = queue \o <<>> /\ \A e \in ToSet(<<>>) : e.ev \notin News
  BY <1>1, NothingPosted DEF ToSet
<1> QED BY <1>1, <1>3, <1>4, OneOfThem

(* An instance that is made has no rules and no addresses.                 *)
LEMMA NewsLinkIsUp ==
  ASSUME TypeInv, NEW f, Fams = {f}, NewsInv(f), NEW i \in Ifs, LinkInv(i),
         LinkIsUp(i) \/ (i = Wlan /\ AccessPointIsUp)
  PROVE  NewsInv(f)'
<1>1. /\ walk' = Idle /\ walk.rest = {IfaceManager} /\ walk.msg.ev = UpOf(i) /\ f \in Fams
      /\ UNCHANGED <<ip_type, ul_set, rules, tether>>
      /\ \/ UNCHANGED <<queue, instances, is_active>>
         \/ /\ i \notin ToSet(instances) /\ ToSet(instances') = ToSet(instances) \cup {i}
            /\ is_active' = is_active \cup ({i} \cap LanSide)
            /\ queue' = queue \o KnownAddresses(i)
  BY LinkIsUpTyped
<1>2. Goes /\ \A o \in LanSide : ~Now(NewsOf(o))
  BY <1>1 DEF Goes, Now, NewsOf, WanUps, WanDowns, UpOf
<1>3. CASE UNCHANGED <<queue, instances, is_active>>
  <2>1. <<>> \in Seq(Good) /\ queue' = queue \o <<>> /\ \A e \in ToSet(<<>>) : e.ev \notin News
    BY <1>3, NothingPosted DEF ToSet
  <2> QED BY <1>1, <1>2, <1>3, <2>1, InvKept
<1>4. CASE /\ i \notin ToSet(instances) /\ ToSet(instances') = ToSet(instances) \cup {i}
           /\ is_active' = is_active \cup ({i} \cap LanSide)
           /\ queue' = queue \o KnownAddresses(i)
  <2>1. KnownAddresses(i) \in Seq(Good) /\ \A e \in ToSet(KnownAddresses(i)) : e.ev \notin News
    BY KnownAddressesAre DEF Event, News
  <2>2. \A o : ~Has(KnownAddresses(i), NewsOf(o))
    <3> TAKE o
    <3>1. \A e \in NewsOf(o) : e.ev \in News
      BY DEF NewsOf, WanUps, WanDowns, News
    <3> QED BY <2>1, <3>1, HasSet
  <2>3. ASSUME NEW o \in LanSide
        PROVE  NewsRight(o, f)' /\ RulesRight(o, f)'
    <3>1. NewsRight(o, f) /\ RulesRight(o, f)
      BY DEF NewsInv
    <3>2. NewsRight(o, f)'
      BY <1>1, <1>2, <1>4, <2>1, <2>2, <3>1, NewsKept
    <3>3. CASE o = i
      <4>1. f \notin ul_set[i] /\ ip_type[i] = {}
        BY <1>4, <3>1, <3>3 DEF RulesRight, LinkInv
      <4> QED BY <1>1, <3>1, <3>2, <3>3, <4>1 DEF RulesRight
    <3>4. CASE o # i
      <4>1. (o \in is_active' => o \in is_active) /\ (o \in ToSet(instances) => o \in ToSet(instances'))
        BY <1>4, <3>4
      <4>2. RulesRight(o, f)'
        BY <1>1, <1>2, <1>4, <2>1, <3>1, <4>1, RulesKept
      <4> QED BY <3>2, <4>2
    <3> QED BY <3>3, <3>4
  <2> QED BY <2>3 DEF NewsInv
<1> QED BY <1>1, <1>3, <1>4

LEMMA NewsWan ==
  ASSUME TypeInv, NEW f, Fams = {f}, UpInv(f), NewsInv(f), NEW w \in Wans,
         WanAddress(w) \/ WanRouteAdd(w) \/ WanRouteElsewhere(w) \/ WanRouteDel(w) \/ WanDown(w)
  PROVE  NewsInv(f)'
<1>0. f \in Fams /\ w \notin LanSide /\ ip_type \in [Ifs -> SUBSET Fams] /\ LanSide \subseteq Ifs
  BY Sides DEF TypeInv
<1>1. CASE WanAddress(w)
  <2>1. /\ walk' = Idle /\ walk.msg.ev = "ADDR_ADD"
        /\ UNCHANGED <<queue, instances, is_active, ul_set, rules, tether>>
        /\ ip_type' = [ip_type EXCEPT ![w] = @ \cup {walk.msg.f}]
    BY <1>1, WanAddressTyped
  <2>2. Goes /\ \A o \in LanSide : ~Now(NewsOf(o)) /\ ip_type'[o] = ip_type[o]
    BY <1>0, <2>1 DEF Goes, Now, NewsOf, WanUps, WanDowns
  <2>3. <<>> \in Seq(Good) /\ queue' = queue \o <<>> /\ \A e \in ToSet(<<>>) : e.ev \notin News
    BY <2>1, NothingPosted DEF ToSet
  <2> QED BY <1>0, <2>1, <2>2, <2>3, InvKept
<1>2. CASE WanRouteAdd(w) \/ WanRouteElsewhere(w) \/ WanRouteDel(w)
  <2>1. RouteHeard(w)
    BY <1>2, RouteAddTyped, RouteElsewhereTyped, RouteDelTyped
  <2>2. Goes /\ \A o \in LanSide : ~Now(NewsOf(o))
    BY <2>1 DEF RouteHeard, Goes, Now, NewsOf, WanUps, WanDowns, UpstreamEvents
  <2>3. TetherSame(f) \/ \E t : TetherMore(f, t) \/ TetherLess(f, t)
    BY <1>2, UpRoute
  <2>4. UNCHANGED <<instances, is_active, ip_type, ul_set, rules>>
    BY <2>1 DEF RouteHeard
  <2> QED BY <1>0, <2>2, <2>3, <2>4, NewsTether
<1>3. CASE WanDown(w)
  <2>1. /\ walk' = Idle /\ walk.msg.ev = "LINK_DOWN"
        /\ ToSet(instances') = ToSet(instances) \ {w} /\ ip_type' = [ip_type EXCEPT ![w] = {}]
        /\ UNCHANGED <<is_active, ul_set, rules>>
    BY <1>3, WanDownTyped
  <2>2. Goes /\ \A o \in LanSide : ~Now(NewsOf(o))
    BY <2>1 DEF Goes, Now, NewsOf, WanUps, WanDowns
  <2>3. TetherSame(f) \/ TetherNone(f)
    BY <1>3, UpWanDown
  <2>4. \A o \in LanSide : ip_type'[o] = ip_type[o] /\ (o \in ToSet(instances) => o \in ToSet(instances'))
    BY <1>0, <2>1
  <2> QED BY <1>0, <2>1, <2>2, <2>3, <2>4, NewsTether
<1> QED BY <1>1, <1>2, <1>3

(* The kernel and the threads that report what it does.                    *)
LEMMA NewsReported ==
  ASSUME TypeInv, NEW f, Fams = {f}, NewsInv(f), Kernel \/ DriverPosts
  PROVE  NewsInv(f)'
<1>1. \A m \in FromDriver : m.ev \notin News
  BY DEF FromDriver, News, UpstreamEvents
<1>2. UNCHANGED <<walk, daemon>> /\ \E t \in Seq(Good) : queue' = queue \o t /\ \A e \in ToSet(t) : e.ev \notin News
  <2>0. ToSet(<<>>) = {}
    BY DEF ToSet
  <2>1. ASSUME NEW e, e.ev \notin News, ByDriver(e) \/ ByNetlink(e)
        PROVE  \E t \in Seq(Good) : queue' = queue \o t /\ \A x \in ToSet(t) : x.ev \notin News
    <3>1. CASE ByDriver(e)
      BY <2>0, <3>1, NothingPosted DEF ByDriver
    <3>2. CASE ByNetlink(e)
      <4>1. queue' = queue \o <<e>> /\ <<e>> \in Seq(Good)
        BY <3>2 DEF ByNetlink
      <4>2. ToSet(<<e>>) = {e}
        BY DEF ToSet
      <4> QED BY <2>1, <4>1, <4>2
    <3> QED BY <2>1, <3>1, <3>2
  <2>2. ASSUME NEW i \in Ifs, LinkUp(i) \/ LinkDown(i)
        PROVE  /\ UNCHANGED <<walk, daemon>>
               /\ \E t \in Seq(Good) : queue' = queue \o t /\ \A x \in ToSet(t) : x.ev \notin News
    <3>1. PICK e \in {LinkEvent(UpOf(i), i), LinkEvent(DownOf(i), i)} :
            UNCHANGED <<walk, daemon>> /\ (ByDriver(e) \/ ByNetlink(e))
      BY <2>2, LinkUpTyped, LinkDownTyped
    <3>2. e.ev \notin News
      BY DEF LinkEvent, Event, UpOf, DownOf, News
    <3> QED BY <2>1, <3>1, <3>2
  <2>3. ASSUME NEW i \in Ifs, NEW g \in Fams, NewAddress(i, g)
        PROVE  /\ UNCHANGED <<walk, daemon>>
               /\ \E t \in Seq(Good) : queue' = queue \o t /\ \A x \in ToSet(t) : x.ev \notin News
    <3>1. UNCHANGED <<walk, daemon>> /\ ByNetlink(Event("ADDR_ADD", i, g, NoIf))
      BY <2>3, NewAddressTyped
    <3>2. Event("ADDR_ADD", i, g, NoIf).ev \notin News
      BY DEF Event, News
    <3> QED BY <2>1, <3>1, <3>2
  <2>4. ASSUME NEW i \in LanSide, NEW g \in Fams, (\E w \in Wans : Upstream(i, g, w)) \/ NoUpstream(i, g)
        PROVE  /\ UNCHANGED <<walk, daemon>>
               /\ \E t \in Seq(Good) : queue' = queue \o t /\ \A x \in ToSet(t) : x.ev \notin News
    <3>1. UNCHANGED <<walk, daemon>> /\ queue' = queue
      BY <2>4, UpstreamTyped, NoUpstreamTyped DEF ByDriver
    <3> QED BY <2>0, <3>1, NothingPosted
  <2>5. ASSUME DriverPosts
        PROVE  /\ UNCHANGED <<walk, daemon>>
               /\ \E t \in Seq(Good) : queue' = queue \o t /\ \A x \in ToSet(t) : x.ev \notin News
    <3> DEFINE e == Head(driver)
    <3>1. UNCHANGED <<walk, daemon>> /\ e \in FromDriver /\ e \in Good /\ queue' = queue \o <<e>>
      BY <2>5, DriverPostsTyped
    <3> HIDE DEF e
    <3>2. ToSet(<<e>>) = {e} /\ <<e>> \in Seq(Good)
      BY <3>1 DEF ToSet
    <3> QED BY <1>1, <3>1, <3>2
  <2> QED BY <2>2, <2>3, <2>4, <2>5 DEF Kernel
<1>3. UNCHANGED <<walk, instances, is_active, ip_type, ul_set, rules, tether>> /\ f \in Fams
  BY <1>2 DEF daemon
<1>4. Goes
  BY <1>3 DEF Goes
<1> QED BY <1>2, <1>3, <1>4, InvKept

LEMMA NewsInit ==
  ASSUME Init, NEW f, Fams = {f}
  PROVE  NewsInv(f)
<1>1. /\ queue = <<>> /\ walk = Idle /\ is_active = {} /\ f \in Fams
      /\ \A i \in LanSide : ul_set[i] = {} /\ rules[i][f] = 0
  BY DEF Init
<1>2. \A A, D : ~Has(queue, A) /\ Recanted(queue, A, D) /\ ~Now(A)
  BY <1>1, EmptyHas, IdleIsGood DEF Now
<1>3. \A A, D : Follows(A, D)
  BY <1>2 DEF Follows
<1>4. ASSUME NEW i \in LanSide
      PROVE  NewsRight(i, f) /\ RulesRight(i, f)
  BY <1>1, <1>3 DEF NewsRight, RulesRight
<1> QED BY <1>4 DEF NewsInv

LEMMA NewsStep ==
  ASSUME TypeInv, LinksInv, NEW f, Fams = {f}, OneBackhaul, UpInv(f), NewsInv(f), [Next]_vars
  PROVE  NewsInv(f)'
<1>0. f \in Fams /\ \A i \in LanSide : i \in is_active => i \in ToSet(instances)
  BY DEF LinksInv, DeleteInv
<1>1. CASE UNCHANGED vars
  <2>1. UNCHANGED <<queue, walk, instances, is_active, ip_type, ul_set, rules, tether>>
    BY <1>1 DEF vars, daemon
  <2>2. <<>> \in Seq(Good) /\ queue' = queue \o <<>> /\ \A e \in ToSet(<<>>) : e.ev \notin News
    BY <2>1, NothingPosted DEF ToSet
  <2>3. Goes
    BY <2>1 DEF Goes
  <2> QED BY <1>0, <2>1, <2>2, <2>3, InvKept
<1>2. CASE CommandThread
  <2>1. CASE Process
    BY <1>0, <2>1, NewsProcess
  <2>2. CASE AccessPointIsUp \/ \E i \in Ifs : LinkIsUp(i)
    BY <2>2, NewsLinkIsUp, Sides DEF LinksInv
  <2>3. ASSUME NEW i \in LanSide, \/ Ignored(i) \/ LanAddress(i) \/ LanWanUp(i)
                                  \/ LanWanDown(i) \/ LanDown(i) \/ LanDelete(i)
        PROVE  NewsInv(f)'
    BY <2>3, NewsIgnored, NewsLanAddress, NewsLanWan, NewsLanDown, NewsLanDelete DEF LinksInv
  <2>4. ASSUME NEW w \in Wans, \/ WanAddress(w) \/ WanRouteAdd(w) \/ WanRouteElsewhere(w)
                               \/ WanRouteDel(w) \/ WanDown(w)
        PROVE  NewsInv(f)'
    BY <2>4, NewsWan
  <2> QED BY <1>2, <2>1, <2>2, <2>3, <2>4 DEF CommandThread
<1>3. CASE DriverPosts \/ Kernel
  BY <1>3, NewsReported
<1> QED BY <1>1, <1>2, <1>3 DEF Next

(* With one family of addresses and one upstream at a time, an interface   *)
(* that no news of the backhaul are ahead of has its uplink rules just     *)
(* when it has an address and an upstream that is up: whatever came        *)
(* between link, address and backhaul, and however late each was told      *)
(* (handle_wan_up_ex, handle_wan_down and handle_addr_evt of IPACM_Wlan    *)
(* and IPACM_Lan).                                                         *)
THEOREM RulesAreRight == OneFamily /\ OneBackhaul => (Spec => []RulesFollowWan)
<1> SUFFICES ASSUME NEW f, Fams = {f}, OneBackhaul
             PROVE  Spec => []RulesFollowWan
  BY DEF OneFamily
<1> DEFINE IInv == TypeInv /\ LinksInv /\ UpInv(f) /\ NewsInv(f)
<1>1. Init => IInv
  BY InitTyped, LinksInit, UpInit, NewsInit
<1>2. IInv /\ [Next]_vars => IInv'
  BY TypeStep, LinksStep, UpStep, NewsStep
<1>3. IInv => RulesFollowWan
  BY RulesInStep
<1> HIDE DEF IInv
<1> QED
  BY <1>1, <1>2, <1>3, PTL DEF Spec
=============================================================================
