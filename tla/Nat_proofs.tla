----------------------------- MODULE Nat_proofs ------------------------------
(***************************************************************************)
(* Proofs about the NAT driver and about NatApp, its client.               *)
(*                                                                         *)
(* NatTable, for any rules, hashes and table sizes: the driver is the map  *)
(* from handles to rules it promises to be (NatMap), and while no command  *)
(* fails the hardware finds exactly the rules that have a handle.          *)
(*                                                                         *)
(* NatApp, over that map, for any connections, clients and table sizes: the*)
(* cache counts its entries and holds no connection twice, and while a table*)
(* is there the enabled entries are just the rules the driver holds.       *)
(***************************************************************************)
EXTENDS NatApp, NatTable, FiniteSetTheorems, WellFoundedInduction, TLAPS

-----------------------------------------------------------------------------
(* The driver's table.  Entries of the base tables and of the expansions.  *)
LEMMA Places ==
  /\ Base \subseteq Usable /\ Expn \subseteq Usable /\ Usable \subseteq Entries
  /\ None \in Entries /\ None \notin Usable
  /\ \A e \in Usable : e \in Base \/ e \in Expn
  /\ \A e \in Base : e \notin Expn
BY NatAssumption DEF NatAssumption, Base, Expn, Usable, Entries, None

LEMMA HashesToBase ==
  ASSUME NEW r \in Rule
  PROVE  Dst(r) \in Base /\ Src(r) \in Base
<1>1. DstHash[r] \in 0 .. TableEntries - 1 /\ SrcHash[r] \in 0 .. TableEntries - 1
  BY NatAssumption DEF NatAssumption
<1>2. TableEntries \in Nat /\ TableEntries > 1
  BY NatAssumption DEF NatAssumption
<1> QED
  BY <1>1, <1>2 DEF Dst, Src, HashSlot, Base

(* Chains: the head is in its chain, a link leads to an entry of it, and a *)
(* closed set of entries holds the rest of it.                             *)
LEMMA HeadInChain ==
  ASSUME NEW t, NEW h
  PROVE  h \in Chain(t, h)
BY DEF Chain

LEMMA ChainIn ==
  ASSUME NEW t, NEW h, NEW S \in SUBSET Expn, Closed(t, h, S), NEW e \in Chain(t, h)
  PROVE  e = h \/ e \in S
BY DEF Chain

LEMMA InChain ==
  ASSUME NEW t, NEW h, NEW e \in Expn,
         \A S \in SUBSET Expn : Closed(t, h, S) => e \in S
  PROVE  e \in Chain(t, h)
BY DEF Chain

-----------------------------------------------------------------------------
(* A table t whose used entries are U is linked when its links lead from   *)
(* used entry to used entry of one home and back by pv, and every entry of *)
(* the expansion is in the chain of its home.                              *)
LinksForth(t, pv, U, hm) ==
  \A e \in Usable : t[e].next # None =>
    /\ e \in U /\ t[e].next \in U /\ t[e].next \in Expn
    /\ pv[t[e].next] = e /\ hm[t[e].next] = hm[e]
LinksBack(t, pv, U) ==
  \A e \in U : e \in Expn => pv[e] \in Usable /\ t[pv[e]].next = e
Homes(U, hm) == \A e \in U : hm[e] \in Base /\ (e \in Base => hm[e] = e)
Reached(t, U, hm) == \A e \in U : e \in Expn => e \in Chain(t, hm[e])

Linked(t, pv, U, hm) ==
  /\ U \subseteq Usable
  /\ LinksForth(t, pv, U, hm) /\ LinksBack(t, pv, U) /\ Homes(U, hm) /\ Reached(t, U, hm)

(* The chain of a head that is used holds used entries of that home.       *)
LEMMA ChainIsUsed ==
  ASSUME NEW t, NEW pv, NEW U, NEW hm, Linked(t, pv, U, hm),
         NEW h \in U, h \in Base, NEW e \in Chain(t, h)
  PROVE  e \in U /\ hm[e] = h
<1> DEFINE S == {f \in Expn : f \in U /\ hm[f] = h}
<1>1. U \subseteq Usable /\ LinksForth(t, pv, U, hm) /\ hm[h] = h
  BY DEF Linked, Homes
<1>2. \A f \in Usable : hm[f] = h /\ t[f].next # None => t[f].next \in S
  BY <1>1 DEF LinksForth
<1>3. \A f \in S : f \in Usable /\ hm[f] = h
  BY Places
<1>4. h \in Usable
  BY Places
<1>5. Closed(t, h, S)
  BY <1>1, <1>2, <1>3, <1>4 DEF Closed
<1>6. S \in SUBSET Expn
  OBVIOUS
<1>7. e = h \/ e \in S
  BY <1>5, <1>6, ChainIn
<1> QED
  BY <1>1, <1>7

(* A head that is not used has no chain behind it.                         *)
LEMMA UnusedHeadIsAlone ==
  ASSUME NEW t, NEW pv, NEW U, NEW hm, Linked(t, pv, U, hm),
         NEW h \in Base, t[h].next = None, NEW e \in U, e \in Expn
  PROVE  hm[e] # h
<1> SUFFICES ASSUME hm[e] = h PROVE FALSE
  OBVIOUS
<1>1. e \in Chain(t, h)
  BY DEF Linked, Reached
<1>2. Closed(t, h, {})
  BY DEF Closed
<1>3. e = h
  BY <1>1, <1>2, ChainIn
<1> QED
  BY <1>3, Places

(* A head is taken or given back: no link changes.                         *)
LEMMA HeadsChange ==
  ASSUME NEW t, NEW pv, NEW U, NEW hm, Linked(t, pv, U, hm),
         NEW t2, NEW pv2, NEW U2, NEW hm2,
         U2 \subseteq Usable, \A e \in Expn : e \in U2 <=> e \in U,
         \A e \in Usable : t2[e].next = t[e].next,
         \A e \in Usable : e \notin U2 => t2[e].next = None,
         \A e \in Expn : e \in U => pv2[e] = pv[e] /\ hm2[e] = hm[e],
         \A e \in Base : e \in U2 => hm2[e] = e
  PROVE  Linked(t2, pv2, U2, hm2)
<1>1. /\ U \subseteq Usable /\ LinksForth(t, pv, U, hm) /\ LinksBack(t, pv, U)
      /\ Homes(U, hm) /\ Reached(t, U, hm)
  BY DEF Linked
<1>2. \A e \in Usable : e \in U /\ e \in U2 => hm2[e] = hm[e]
  BY <1>1, Places DEF Homes
<1>3. LinksForth(t2, pv2, U2, hm2)
  <2> SUFFICES ASSUME NEW e \in Usable, t2[e].next # None
               PROVE  /\ e \in U2 /\ t2[e].next \in U2 /\ t2[e].next \in Expn
                      /\ pv2[t2[e].next] = e /\ hm2[t2[e].next] = hm2[e]
    BY DEF LinksForth
  <2>1. /\ e \in U /\ t[e].next \in U /\ t[e].next \in Expn
        /\ pv[t[e].next] = e /\ hm[t[e].next] = hm[e]
    BY <1>1 DEF LinksForth
  <2>2. e \in U2 /\ t2[e].next = t[e].next
    OBVIOUS
  <2> QED
    BY <1>2, <2>1, <2>2
<1>4. LinksBack(t2, pv2, U2)
  <2> SUFFICES ASSUME NEW e \in U2, e \in Expn
               PROVE  pv2[e] \in Usable /\ t2[pv2[e]].next = e
    BY DEF LinksBack
  <2>1. e \in U /\ pv2[e] = pv[e]
    OBVIOUS
  <2> QED
    BY <1>1, <2>1 DEF LinksBack
<1>5. Homes(U2, hm2)
  <2> SUFFICES ASSUME NEW e \in U2
               PROVE  hm2[e] \in Base /\ (e \in Base => hm2[e] = e)
    BY DEF Homes
  <2>1. CASE e \in Base
    BY <2>1
  <2>2. CASE e \in Expn
    BY <1>1, <2>2, Places DEF Homes
  <2> QED
    BY <2>1, <2>2, Places
<1>6. Reached(t2, U2, hm2)
  <2> SUFFICES ASSUME NEW e \in U2, e \in Expn,
                      NEW S \in SUBSET Expn, Closed(t2, hm2[e], S)
               PROVE  e \in S
    BY InChain DEF Reached
  <2>1. e \in U /\ hm2[e] = hm[e] /\ hm[e] \in Base /\ e \in Chain(t, hm[e])
    BY <1>1 DEF Homes, Reached
  <2>2. hm[e] \in Usable /\ S \subseteq Usable
    BY <2>1, Places
  <2>3. Closed(t, hm[e], S)
    BY <2>1, <2>2 DEF Closed
  <2>4. e = hm[e] \/ e \in S
    BY <2>1, <2>3, ChainIn
  <2> QED
    BY <2>1, <2>4, Places
<1> QED
  BY <1>3, <1>4, <1>5, <1>6 DEF Linked

(* An entry e of the expansion is linked behind the last one, p, of the    *)
(* chain of h.                                                             *)
LEMMA AppendLinked ==
  ASSUME NEW t, NEW pv, NEW U, NEW hm, Linked(t, pv, U, hm),
         NEW t2, NEW pv2, NEW U2, NEW hm2,
         NEW h \in U, h \in Base, NEW p, IsLast(t, h, p),
         NEW e \in Expn, e \notin U, U2 = U \cup {e},
         t2[p].next = e, t2[e].next = None,
         \A x \in Usable : x # p /\ x # e => t2[x].next = t[x].next,
         pv2[e] = p, \A x \in Expn : x \in U => pv2[x] = pv[x],
         hm2[e] = h, \A x \in U : hm2[x] = hm[x]
  PROVE  Linked(t2, pv2, U2, hm2)
<1>1. /\ U \subseteq Usable /\ LinksForth(t, pv, U, hm) /\ LinksBack(t, pv, U)
      /\ Homes(U, hm) /\ Reached(t, U, hm)
  BY DEF Linked
<1>2. p \in Chain(t, h) /\ t[p].next = None
  BY DEF IsLast
<1>3. p \in U /\ hm[p] = h
  BY <1>2, ChainIsUsed
<1>4. p # e /\ p \in Usable /\ e \in Usable /\ t[e].next = None
  BY <1>1, <1>3, Places DEF LinksForth
<1>5. \A x \in Usable : t[x].next # None => t2[x].next = t[x].next
  BY <1>2, <1>4
<1>6. \A x \in Usable : t2[x].next # None => x = p \/ (x # e /\ t2[x].next = t[x].next)
  OBVIOUS
<1>7. LinksForth(t2, pv2, U2, hm2)
  <2> SUFFICES ASSUME NEW x \in Usable, t2[x].next # None
               PROVE  /\ x \in U2 /\ t2[x].next \in U2 /\ t2[x].next \in Expn
                      /\ pv2[t2[x].next] = x /\ hm2[t2[x].next] = hm2[x]
    BY DEF LinksForth
  <2>1. CASE x = p
    BY <1>3, <2>1
  <2>2. CASE x # p
    <3>1. t2[x].next = t[x].next
      BY <1>6, <2>2
    <3>2. /\ x \in U /\ t[x].next \in U /\ t[x].next \in Expn
          /\ pv[t[x].next] = x /\ hm[t[x].next] = hm[x]
      BY <1>1, <3>1 DEF LinksForth
    <3> QED
      BY <3>1, <3>2
  <2> QED
    BY <2>1, <2>2
<1>8. LinksBack(t2, pv2, U2)
  <2> SUFFICES ASSUME NEW x \in U2, x \in Expn
               PROVE  pv2[x] \in Usable /\ t2[pv2[x]].next = x
    BY DEF LinksBack
  <2>1. CASE x = e
    BY <1>4, <2>1
  <2>2. CASE x \in U
    <3>1. pv2[x] = pv[x] /\ pv[x] \in Usable /\ t[pv[x]].next = x /\ x # None
      BY <1>1, <2>2, Places DEF LinksBack
    <3> QED
      BY <1>5, <3>1
  <2> QED
    BY <2>1, <2>2
<1>9. Homes(U2, hm2)
  <2> SUFFICES ASSUME NEW x \in U2
               PROVE  hm2[x] \in Base /\ (x \in Base => hm2[x] = x)
    BY DEF Homes
  <2>1. CASE x = e
    BY <2>1, Places
  <2>2. CASE x \in U
    BY <1>1, <2>2 DEF Homes
  <2> QED
    BY <2>1, <2>2
<1>10. ASSUME NEW g \in Base, NEW S \in SUBSET Expn, Closed(t2, g, S)
       PROVE  Closed(t, g, S)
  <2>1. g \in Usable /\ S \subseteq Usable
    BY Places
  <2> QED
    BY <1>5, <1>10, <2>1 DEF Closed
<1>11. Reached(t2, U2, hm2)
  <2> SUFFICES ASSUME NEW x \in U2, x \in Expn,
                      NEW S \in SUBSET Expn, Closed(t2, hm2[x], S)
               PROVE  x \in S
    BY InChain DEF Reached
  <2>1. CASE x = e
    <3>1. Closed(t, h, S)
      BY <1>10, <2>1
    <3>2. p = h \/ p \in S
      BY <1>2, <3>1, ChainIn
    <3>3. e # None
      BY Places
    <3> QED
      BY <2>1, <3>2, <3>3 DEF Closed
  <2>2. CASE x \in U
    <3>1. hm2[x] = hm[x] /\ hm[x] \in Base /\ x \in Chain(t, hm[x])
      BY <1>1, <2>2 DEF Homes, Reached
    <3>2. Closed(t, hm[x], S)
      BY <1>10, <3>1
    <3>3. x = hm[x] \/ x \in S
      BY <3>1, <3>2, ChainIn
    <3> QED
      BY <3>1, <3>3, Places
  <2> QED
    BY <2>1, <2>2
<1>12. U2 \subseteq Usable
  BY <1>1, <1>4
<1> QED
  BY <1>7, <1>8, <1>9, <1>11, <1>12 DEF Linked

(* Nothing in a chain is linked behind itself.                             *)
LEMMA NotBehindItself ==
  ASSUME NEW t, NEW pv, NEW U, NEW hm, Linked(t, pv, U, hm), NEW e \in U, e \in Expn
  PROVE  pv[e] # e
<1> SUFFICES ASSUME pv[e] = e PROVE FALSE
  OBVIOUS
<1>1. /\ LinksForth(t, pv, U, hm) /\ hm[e] \in Base /\ e \in Chain(t, hm[e])
  BY DEF Linked, Homes, Reached
<1> DEFINE S == {x \in Expn : x # e}
<1>2. hm[e] # e /\ hm[e] \in Usable
  BY <1>1, Places
<1>3. \A x \in Usable : x # e /\ t[x].next # None => t[x].next \in S
  BY <1>1 DEF LinksForth
<1>4. S \in SUBSET Expn /\ S \subseteq Usable /\ e \notin S
  BY Places
<1>5. Closed(t, hm[e], S)
  BY <1>2, <1>3, <1>4 DEF Closed
<1>6. e = hm[e] \/ e \in S
  BY <1>1, <1>4, <1>5, ChainIn
<1> QED
  BY <1>2, <1>4, <1>6

(* An entry of the expansion is taken out of its chain.                    *)
Removal(t, pv, U, hm, t2, pv2, U2, hm2, e, p, n) ==
  /\ Linked(t, pv, U, hm) /\ e \in U /\ e \in Expn /\ U2 = U \ {e}
  /\ p = pv[e] /\ n = t[e].next
  /\ t2[p].next = n /\ t2[e].next = None
  /\ \A x \in Usable : x # p /\ x # e => t2[x].next = t[x].next
  /\ \A x \in Expn : x \in U2 => pv2[x] = IF x = n THEN p ELSE pv[x]
  /\ \A x \in U2 : hm2[x] = hm[x]

LEMMA RemoveLinked ==
  ASSUME NEW t, NEW pv, NEW U, NEW hm, NEW t2, NEW pv2, NEW U2, NEW hm2, NEW e, NEW p, NEW n,
         Removal(t, pv, U, hm, t2, pv2, U2, hm2, e, p, n)
  PROVE  Linked(t2, pv2, U2, hm2)
<1> SUFFICES ASSUME Linked(t, pv, U, hm), e \in U, e \in Expn, U2 = U \ {e},
                    p = pv[e], n = t[e].next, t2[p].next = n, t2[e].next = None,
                    \A x \in Usable : x # p /\ x # e => t2[x].next = t[x].next,
                    \A x \in Expn : x \in U2 => pv2[x] = IF x = n THEN p ELSE pv[x],
                    \A x \in U2 : hm2[x] = hm[x]
             PROVE  Linked(t2, pv2, U2, hm2)
  BY DEF Removal
<1>1. /\ U \subseteq Usable /\ LinksForth(t, pv, U, hm) /\ LinksBack(t, pv, U)
      /\ Homes(U, hm) /\ Reached(t, U, hm)
  BY DEF Linked
<1>2. p # e /\ p \in Usable /\ t[p].next = e /\ e # None /\ e \in Usable
  BY <1>1, NotBehindItself, Places DEF LinksBack
<1>3. p \in U /\ p \in U2 /\ hm[p] = hm[e]
  BY <1>1, <1>2 DEF LinksForth
<1>4. n # None => n \in U /\ n \in Expn /\ pv[n] = e /\ hm[n] = hm[e]
  BY <1>1, <1>2 DEF LinksForth
<1>5. n # e
  BY <1>2, <1>4
<1>6. \A x \in Usable : t[x].next = e => x = p
  BY <1>1, <1>2 DEF LinksForth
<1>7. \A x \in Usable : t[x].next = n /\ n # None => x = e
  BY <1>1, <1>4 DEF LinksForth
<1>8. LinksForth(t2, pv2, U2, hm2)
  <2> SUFFICES ASSUME NEW x \in Usable, t2[x].next # None
               PROVE  /\ x \in U2 /\ t2[x].next \in U2 /\ t2[x].next \in Expn
                      /\ pv2[t2[x].next] = x /\ hm2[t2[x].next] = hm2[x]
    BY DEF LinksForth
  <2>1. CASE x = p
    <3>1. n # None /\ n \in U2
      BY <1>4, <1>5, <2>1
    <3>2. pv2[n] = p
      BY <1>4, <3>1
    <3>3. hm2[n] = hm2[p]
      BY <1>3, <1>4, <3>1
    <3> QED
      BY <1>3, <1>4, <2>1, <3>1, <3>2, <3>3
  <2>2. CASE x # p
    <3>1. x # e /\ t2[x].next = t[x].next
      BY <2>2
    <3>2. /\ x \in U /\ t[x].next \in U /\ t[x].next \in Expn
          /\ pv[t[x].next] = x /\ hm[t[x].next] = hm[x]
      BY <1>1, <3>1 DEF LinksForth
    <3>3. t[x].next # e /\ t[x].next # n
      BY <1>6, <1>7, <2>2, <3>1
    <3>4. pv2[t[x].next] = x
      BY <3>2, <3>3
    <3> QED
      BY <3>1, <3>2, <3>3, <3>4
  <2> QED
    BY <2>1, <2>2
<1>9. LinksBack(t2, pv2, U2)
  <2> SUFFICES ASSUME NEW x \in U2, x \in Expn
               PROVE  pv2[x] \in Usable /\ t2[pv2[x]].next = x
    BY DEF LinksBack
  <2>1. CASE x = n
    BY <1>2, <2>1
  <2>2. CASE x # n
    <3>1. pv2[x] = pv[x] /\ pv[x] \in Usable /\ t[pv[x]].next = x
      BY <1>1, <2>2 DEF LinksBack
    <3>2. pv[x] # p /\ pv[x] # e
      BY <1>2, <2>2, <3>1
    <3> QED
      BY <3>1, <3>2
  <2> QED
    BY <2>1, <2>2
<1>10. Homes(U2, hm2)
  <2> SUFFICES ASSUME NEW x \in U2
               PROVE  hm2[x] \in Base /\ (x \in Base => hm2[x] = x)
    BY DEF Homes
  <2> QED
    BY <1>1 DEF Homes
<1>11. ASSUME NEW g \in Base, NEW S \in SUBSET Expn, Closed(t2, g, S)
       PROVE  \E T \in SUBSET Expn : Closed(t, g, T) /\ \A x \in T : x = e \/ x \in S
  <2>1. g \in Usable /\ S \subseteq Usable /\ g # e
    BY Places
  <2>2. CASE p = g \/ p \in S
    <3> DEFINE T == S \cup {e}
    <3>1. n # None => n \in S
      BY <1>11, <2>2 DEF Closed
    <3>2. \A x \in Usable : x = g \/ x \in T => (t[x].next # None => t[x].next \in T)
      <4> SUFFICES ASSUME NEW x \in Usable, x = g \/ x \in T, t[x].next # None
                   PROVE  t[x].next \in T
        OBVIOUS
      <4>1. CASE x = p
        BY <1>2, <4>1
      <4>2. CASE x = e
        BY <3>1, <4>2
      <4>3. CASE x # p /\ x # e
        BY <1>11, <4>3 DEF Closed
      <4> QED
        BY <4>1, <4>2, <4>3
    <3>3. Closed(t, g, T)
      BY <1>2, <2>1, <3>2 DEF Closed
    <3>4. T \in SUBSET Expn
      OBVIOUS
    <3> QED
      BY <3>3, <3>4
  <2>3. CASE p # g /\ p \notin S
    <3> DEFINE T == S \ {e}
    <3>2. \A x \in Usable : x = g \/ x \in T => (t[x].next # None => t[x].next \in T)
      <4> SUFFICES ASSUME NEW x \in Usable, x = g \/ x \in T, t[x].next # None
                   PROVE  t[x].next \in T
        OBVIOUS
      <4>1. x # p /\ x # e /\ (x = g \/ x \in S)
        BY <2>1, <2>3
      <4>2. t[x].next \in S
        BY <1>11, <4>1 DEF Closed
      <4>3. t[x].next # e
        BY <1>6, <4>1
      <4> QED
        BY <4>2, <4>3
    <3>3. Closed(t, g, T)
      BY <2>1, <3>2 DEF Closed
    <3>4. T \in SUBSET Expn
      OBVIOUS
    <3> QED
      BY <3>3, <3>4
  <2> QED
    BY <2>2, <2>3
<1>12. Reached(t2, U2, hm2)
  <2> SUFFICES ASSUME NEW x \in U2, x \in Expn,
                      NEW S \in SUBSET Expn, Closed(t2, hm2[x], S)
               PROVE  x \in S
    BY InChain DEF Reached
  <2>1. hm2[x] = hm[x] /\ hm[x] \in Base /\ x \in Chain(t, hm[x])
    BY <1>1 DEF Homes, Reached
  <2>2. PICK T \in SUBSET Expn : Closed(t, hm[x], T) /\ \A y \in T : y = e \/ y \in S
    BY <1>11, <2>1
  <2>3. x = hm[x] \/ x \in T
    BY <2>1, <2>2, ChainIn
  <2> QED
    BY <2>1, <2>2, <2>3, Places
<1>13. U2 \subseteq Usable
  BY <1>1
<1> QED
  BY <1>8, <1>9, <1>10, <1>12, <1>13 DEF Linked

-----------------------------------------------------------------------------
(* Entries and their fields.                                               *)
RuleEntry  == [rule : Rule \cup {NoRule}, enable : BOOLEAN, dead : BOOLEAN,
               next : Expn \cup {None}, prev : Usable \cup {None}, index : Usable \cup {None}]
IndexTblEntry == [entry : Usable \cup {None}, next : Expn \cup {None}]
RuleTbl  == [Entries -> RuleEntry]
IndexTbl == [Entries -> IndexTblEntry]

LEMMA TypeMeans ==
  NTypeOK <=> /\ valid \in BOOLEAN /\ tab \in RuleTbl /\ index \in IndexTbl
              /\ meta \in [Expn -> Usable \cup {None}]
              /\ rule_id_array \in [Handles -> Usable \cup {None}]
BY DEF NTypeOK, RuleTbl, IndexTbl, RuleEntry, IndexTblEntry

LEMMA TypeNext ==
  ASSUME valid' \in BOOLEAN, tab' \in RuleTbl, index' \in IndexTbl,
         meta' \in [Expn -> Usable \cup {None}],
         rule_id_array' \in [Handles -> Usable \cup {None}]
  PROVE  NTypeOK'
BY DEF NTypeOK, RuleTbl, IndexTbl, RuleEntry, IndexTblEntry

LEMMA ZeroEntries ==
  /\ ZeroRule \in RuleEntry /\ ZeroRule.rule = NoRule /\ ~ZeroRule.enable /\ ~ZeroRule.dead
  /\ ZeroRule.next = None /\ ZeroRule.prev = None /\ ZeroRule.index = None
  /\ ZeroIndex \in IndexTblEntry /\ ZeroIndex.entry = None /\ ZeroIndex.next = None
BY DEF ZeroRule, RuleEntry, ZeroIndex, IndexTblEntry

LEMMA RuleFields ==
  ASSUME NEW t \in RuleTbl, NEW x \in Entries
  PROVE  /\ t[x] \in RuleEntry
         /\ t[x].rule \in Rule \cup {NoRule} /\ t[x].enable \in BOOLEAN /\ t[x].dead \in BOOLEAN
         /\ t[x].next \in Expn \cup {None} /\ t[x].prev \in Usable \cup {None}
         /\ t[x].index \in Usable \cup {None}
BY DEF RuleTbl, RuleEntry

LEMMA IndexFields ==
  ASSUME NEW t \in IndexTbl, NEW x \in Entries
  PROVE  /\ t[x] \in IndexTblEntry
         /\ t[x].entry \in Usable \cup {None} /\ t[x].next \in Expn \cup {None}
BY DEF IndexTbl, IndexTblEntry

(* What is written into one entry of a rule table.                         *)
SameRule(a, b)  == a.rule = b.rule /\ a.enable = b.enable /\ a.dead = b.dead
SameEntry(a, b) == SameRule(a, b) /\ a.index = b.index

WithEntry(t, x, v) == [t EXCEPT ![x] = v]
WithNext(t, x, v)  == [t EXCEPT ![x].next = v]
WithPrev(t, x, v)  == [t EXCEPT ![x].prev = v]
WithDead(t, x)     == [t EXCEPT ![x].dead = TRUE]
WithIndex(t, x, v) == [t EXCEPT ![x].index = v]

LEMMA SetEntry ==
  ASSUME NEW t \in RuleTbl, NEW x \in Entries, NEW v \in RuleEntry
  PROVE  /\ WithEntry(t, x, v) \in RuleTbl
         /\ \A y \in Entries : WithEntry(t, x, v)[y] = IF y = x THEN v ELSE t[y]
BY DEF RuleTbl, WithEntry

LEMMA SetNext ==
  ASSUME NEW t \in RuleTbl, NEW x \in Entries, NEW v \in Expn \cup {None}
  PROVE  /\ WithNext(t, x, v) \in RuleTbl
         /\ \A y \in Entries :
              /\ SameEntry(WithNext(t, x, v)[y], t[y])
              /\ WithNext(t, x, v)[y].prev = t[y].prev
              /\ WithNext(t, x, v)[y].next = IF y = x THEN v ELSE t[y].next
<1> DEFINE u == WithNext(t, x, v)
<1>1. [t[x] EXCEPT !.next = v] \in RuleEntry
  BY DEF RuleTbl, RuleEntry
<1>2. u \in RuleTbl
  BY <1>1 DEF RuleTbl, WithNext
<1>3. u[x] = [t[x] EXCEPT !.next = v]
  BY DEF RuleTbl, WithNext
<1>4. \A y \in Entries : y # x => u[y] = t[y]
  BY DEF RuleTbl, WithNext
<1>5. /\ SameEntry([t[x] EXCEPT !.next = v], t[x]) /\ [t[x] EXCEPT !.next = v].next = v
      /\ [t[x] EXCEPT !.next = v].prev = t[x].prev
  BY DEF RuleTbl, RuleEntry, SameEntry, SameRule
<1>6. \A y \in Entries : SameEntry(t[y], t[y])
  BY DEF SameEntry, SameRule
<1> HIDE DEF u
<1>7. ASSUME NEW y \in Entries
     PROVE  /\ SameEntry(u[y], t[y]) /\ u[y].prev = t[y].prev
            /\ u[y].next = IF y = x THEN v ELSE t[y].next
  <2>1. CASE y = x
    BY <1>3, <1>5, <2>1
  <2>2. CASE y # x
    BY <1>4, <1>6, <2>2
  <2> QED
    BY <2>1, <2>2
<1> QED
  BY <1>2, <1>7 DEF u

LEMMA SetPrev ==
  ASSUME NEW t \in RuleTbl, NEW x \in Entries, NEW v \in Usable \cup {None}
  PROVE  /\ WithPrev(t, x, v) \in RuleTbl
         /\ \A y \in Entries :
              /\ SameEntry(WithPrev(t, x, v)[y], t[y])
              /\ WithPrev(t, x, v)[y].next = t[y].next
              /\ WithPrev(t, x, v)[y].prev = IF y = x THEN v ELSE t[y].prev
<1> DEFINE u == WithPrev(t, x, v)
<1>1. [t[x] EXCEPT !.prev = v] \in RuleEntry
  BY DEF RuleTbl, RuleEntry
<1>2. u \in RuleTbl
  BY <1>1 DEF RuleTbl, WithPrev
<1>3. u[x] = [t[x] EXCEPT !.prev = v]
  BY DEF RuleTbl, WithPrev
<1>4. \A y \in Entries : y # x => u[y] = t[y]
  BY DEF RuleTbl, WithPrev
<1>5. /\ SameEntry([t[x] EXCEPT !.prev = v], t[x]) /\ [t[x] EXCEPT !.prev = v].prev = v
      /\ [t[x] EXCEPT !.prev = v].next = t[x].next
  BY DEF RuleTbl, RuleEntry, SameEntry, SameRule
<1>6. \A y \in Entries : SameEntry(t[y], t[y])
  BY DEF SameEntry, SameRule
<1> HIDE DEF u
<1>7. ASSUME NEW y \in Entries
     PROVE  /\ SameEntry(u[y], t[y]) /\ u[y].next = t[y].next
            /\ u[y].prev = IF y = x THEN v ELSE t[y].prev
  <2>1. CASE y = x
    BY <1>3, <1>5, <2>1
  <2>2. CASE y # x
    BY <1>4, <1>6, <2>2
  <2> QED
    BY <2>1, <2>2
<1> QED
  BY <1>2, <1>7 DEF u

LEMMA SetDead ==
  ASSUME NEW t \in RuleTbl, NEW x \in Entries
  PROVE  /\ WithDead(t, x) \in RuleTbl
         /\ \A y \in Entries :
              /\ y # x => WithDead(t, x)[y] = t[y]
              /\ WithDead(t, x)[y].next = t[y].next
              /\ WithDead(t, x)[y].prev = t[y].prev
              /\ WithDead(t, x)[y].rule = t[y].rule
              /\ WithDead(t, x)[y].enable = t[y].enable
         /\ WithDead(t, x)[x].dead = TRUE
<1> DEFINE u == WithDead(t, x)
<1>1. [t[x] EXCEPT !.dead = TRUE] \in RuleEntry
  BY DEF RuleTbl, RuleEntry
<1>2. u \in RuleTbl
  BY <1>1 DEF RuleTbl, WithDead
<1>3. u[x] = [t[x] EXCEPT !.dead = TRUE]
  BY DEF RuleTbl, WithDead
<1>4. \A y \in Entries : y # x => u[y] = t[y]
  BY DEF RuleTbl, WithDead
<1>5. /\ [t[x] EXCEPT !.dead = TRUE].dead = TRUE /\ [t[x] EXCEPT !.dead = TRUE].next = t[x].next
      /\ [t[x] EXCEPT !.dead = TRUE].prev = t[x].prev /\ [t[x] EXCEPT !.dead = TRUE].rule = t[x].rule
      /\ [t[x] EXCEPT !.dead = TRUE].enable = t[x].enable
  BY DEF RuleTbl, RuleEntry
<1> QED
  BY <1>2, <1>3, <1>4, <1>5 DEF u

LEMMA SetIndex ==
  ASSUME NEW t \in RuleTbl, NEW x \in Entries, NEW v \in Usable \cup {None}
  PROVE  /\ WithIndex(t, x, v) \in RuleTbl
         /\ \A y \in Entries :
              /\ SameRule(WithIndex(t, x, v)[y], t[y])
              /\ WithIndex(t, x, v)[y].next = t[y].next
              /\ WithIndex(t, x, v)[y].prev = t[y].prev
              /\ WithIndex(t, x, v)[y].index = IF y = x THEN v ELSE t[y].index
<1> DEFINE u == WithIndex(t, x, v)
<1>1. [t[x] EXCEPT !.index = v] \in RuleEntry
  BY DEF RuleTbl, RuleEntry
<1>2. u \in RuleTbl
  BY <1>1 DEF RuleTbl, WithIndex
<1>3. u[x] = [t[x] EXCEPT !.index = v]
  BY DEF RuleTbl, WithIndex
<1>4. \A y \in Entries : y # x => u[y] = t[y]
  BY DEF RuleTbl, WithIndex
<1>5. /\ SameRule([t[x] EXCEPT !.index = v], t[x]) /\ [t[x] EXCEPT !.index = v].index = v
      /\ [t[x] EXCEPT !.index = v].next = t[x].next
      /\ [t[x] EXCEPT !.index = v].prev = t[x].prev
  BY DEF RuleTbl, RuleEntry, SameRule
<1>6. \A y \in Entries : SameRule(t[y], t[y])
  BY DEF SameRule
<1> HIDE DEF u
<1>7. ASSUME NEW y \in Entries
     PROVE  /\ SameRule(u[y], t[y]) /\ u[y].next = t[y].next /\ u[y].prev = t[y].prev
            /\ u[y].index = IF y = x THEN v ELSE t[y].index
  <2>1. CASE y = x
    BY <1>3, <1>5, <2>1
  <2>2. CASE y # x
    BY <1>4, <1>6, <2>2
  <2> QED
    BY <2>1, <2>2
<1> QED
  BY <1>2, <1>7 DEF u

(* ... and of an index table.                                              *)
LEMMA SetIndexEntry ==
  ASSUME NEW t \in IndexTbl, NEW x \in Entries, NEW v \in IndexTblEntry
  PROVE  /\ WithEntry(t, x, v) \in IndexTbl
         /\ \A y \in Entries : WithEntry(t, x, v)[y] = IF y = x THEN v ELSE t[y]
BY DEF IndexTbl, WithEntry

LEMMA SetIndexNext ==
  ASSUME NEW t \in IndexTbl, NEW x \in Entries, NEW v \in Expn \cup {None}
  PROVE  /\ WithNext(t, x, v) \in IndexTbl
         /\ \A y \in Entries :
              /\ WithNext(t, x, v)[y].entry = t[y].entry
              /\ WithNext(t, x, v)[y].next = IF y = x THEN v ELSE t[y].next
<1> DEFINE u == WithNext(t, x, v)
<1>1. [t[x] EXCEPT !.next = v] \in IndexTblEntry
  BY DEF IndexTbl, IndexTblEntry
<1>2. u \in IndexTbl
  BY <1>1 DEF IndexTbl, WithNext
<1>3. u[x] = [t[x] EXCEPT !.next = v]
  BY DEF IndexTbl, WithNext
<1>4. \A y \in Entries : y # x => u[y] = t[y]
  BY DEF IndexTbl, WithNext
<1>5. /\ [t[x] EXCEPT !.next = v].entry = t[x].entry /\ [t[x] EXCEPT !.next = v].next = v
  BY DEF IndexTbl, IndexTblEntry
<1> HIDE DEF u
<1>6. ASSUME NEW y \in Entries
     PROVE  /\ u[y].entry = t[y].entry
            /\ u[y].next = IF y = x THEN v ELSE t[y].next
  <2>1. CASE y = x
    BY <1>3, <1>5, <2>1
  <2>2. CASE y # x
    BY <1>4, <2>2
  <2> QED
    BY <2>1, <2>2
<1> QED
  BY <1>2, <1>6 DEF u

(* Where a rule goes: into an entry that is not used, the head of its      *)
(* chain or one of the expansion that is linked behind the last.           *)
LEMMA TblEntryIs ==
  ASSUME NTypeOK, NEW r \in Rule, NEW e \in Usable, NEW p \in Usable \cup {None}, TblEntry(r, e, p)
  PROVE  /\ ~tab[e].enable
         /\ \/ e = Dst(r) /\ p = None
            \/ e \in Expn /\ p # None /\ tab[Dst(r)].enable /\ IsLast(tab, Dst(r), p)
<1>1. CASE tab[Dst(r)].enable
  <2>1. e \in Expn /\ ~tab[e].enable /\ IsLast(tab, Dst(r), p)
    BY <1>1 DEF TblEntry, FirstFree
  <2>2. p # None
    BY <2>1, HashesToBase, Places DEF IsLast, Chain
  <2> QED
    BY <1>1, <2>1, <2>2
<1>2. CASE ~tab[Dst(r)].enable
  BY <1>2 DEF TblEntry
<1> QED
  BY <1>1, <1>2

LEMMA IndexEntryIs ==
  ASSUME NTypeOK, NEW r \in Rule, NEW e \in Usable, NEW p \in Usable \cup {None}, IndexEntry(r, e, p)
  PROVE  /\ index[e].entry = None
         /\ \/ e = Src(r) /\ p = None
            \/ e \in Expn /\ p # None /\ index[Src(r)].entry # None /\ IsLast(index, Src(r), p)
<1>1. CASE index[Src(r)].entry # None
  <2>1. e \in Expn /\ index[e].entry = None /\ IsLast(index, Src(r), p)
    BY <1>1 DEF IndexEntry, FirstFree
  <2>2. p # None
    BY <2>1, HashesToBase, Places DEF IsLast, Chain
  <2> QED
    BY <1>1, <2>1, <2>2
<1>2. CASE index[Src(r)].entry = None
  BY <1>2 DEF IndexEntry
<1> QED
  BY <1>1, <1>2

(* Adding writes the new entry and the link to it.                         *)
NewEntry(r, p, i, enabled) ==
  [rule |-> r, enable |-> enabled, dead |-> FALSE, next |-> None, prev |-> p, index |-> i]

LEMMA AddedToTab ==
  ASSUME NTypeOK, NEW r \in Rule, NEW e \in Usable, NEW p \in Usable \cup {None}, NEW i \in Usable,
         p # None => e \in Expn, NEW linked \in BOOLEAN, NEW enabled \in BOOLEAN,
         NEW t2, t2 = Link(WithEntry(tab, e, NewEntry(r, p, i, enabled)), p, e, linked)
  PROVE  /\ t2 \in RuleTbl
         /\ SameEntry(t2[e], NewEntry(r, p, i, enabled)) /\ t2[e].prev = p
         /\ \A x \in Entries : x # e => SameEntry(t2[x], tab[x]) /\ t2[x].prev = tab[x].prev
         /\ p # None /\ linked => t2[p].next = e
         /\ \A x \in Entries : ~(x = p /\ p # None /\ linked) =>
              t2[x].next = IF x = e THEN None ELSE tab[x].next
<1> DEFINE v == NewEntry(r, p, i, enabled)
           t1 == WithEntry(tab, e, v)
<1>1. tab \in RuleTbl /\ e \in Entries /\ v \in RuleEntry
  <2>1. tab \in RuleTbl /\ e \in Entries
    BY TypeMeans, Places
  <2>2. v \in RuleEntry
    BY DEF NewEntry, RuleEntry
  <2> QED
    BY <2>1, <2>2
<1>3. t2 = Link(t1, p, e, linked)
  OBVIOUS
<1>4. v.next = None /\ v.prev = p
  BY DEF NewEntry
<1> HIDE DEF v
<1>2. t1 \in RuleTbl /\ \A y \in Entries : t1[y] = IF y = e THEN v ELSE tab[y]
  BY <1>1, SetEntry
<1>5. \A x, y : x = y => SameEntry(x, y)
  BY DEF SameEntry, SameRule
<1> HIDE DEF t1
<1>6. CASE p # None /\ linked
  <2>1. p \in Entries /\ e \in Expn \cup {None}
    BY <1>6, Places
  <2>2. t2 = WithNext(t1, p, e)
    BY <1>3, <1>6 DEF Link, WithNext
  <2>3. /\ t2 \in RuleTbl
        /\ \A y \in Entries :
              /\ SameEntry(t2[y], t1[y]) /\ t2[y].prev = t1[y].prev
              /\ t2[y].next = IF y = p THEN e ELSE t1[y].next
    BY <1>2, <2>1, <2>2, SetNext
  <2>4. SameEntry(t2[e], v) /\ t2[e].prev = p /\ t2[p].next = e
    BY <1>1, <1>2, <1>4, <2>1, <2>3
  <2>5. \A x \in Entries : x # e => SameEntry(t2[x], tab[x]) /\ t2[x].prev = tab[x].prev
    BY <1>2, <2>3
  <2>6. \A x \in Entries : x # p => t2[x].next = IF x = e THEN None ELSE tab[x].next
    BY <1>2, <1>4, <2>3
  <2> QED
    BY <1>6, <2>3, <2>4, <2>5, <2>6 DEF v
<1>7. CASE ~(p # None /\ linked)
  <2>1. t2 = t1
    BY <1>3, <1>7 DEF Link
  <2>2. SameEntry(t2[e], v) /\ t2[e].prev = p
    BY <1>1, <1>2, <1>4, <1>5, <2>1
  <2>3. \A x \in Entries : x # e => SameEntry(t2[x], tab[x]) /\ t2[x].prev = tab[x].prev
    BY <1>2, <1>5, <2>1
  <2>4. \A x \in Entries : t2[x].next = IF x = e THEN None ELSE tab[x].next
    BY <1>2, <1>4, <2>1
  <2>5. t2 \in RuleTbl
    BY <1>2, <2>1
  <2> QED
    BY <1>7, <2>2, <2>3, <2>4, <2>5 DEF v
<1> QED
  BY <1>6, <1>7

NewIndex(e) == [entry |-> e, next |-> None]

LEMMA AddedToIndex ==
  ASSUME NTypeOK, NEW e \in Usable, NEW i \in Usable, NEW q \in Usable \cup {None},
         q # None => i \in Expn, NEW indexed \in BOOLEAN,
         NEW t2, t2 = Link(WithEntry(index, i, NewIndex(e)), q, i, indexed)
  PROVE  /\ t2 \in IndexTbl
         /\ \A x \in Entries : t2[x].entry = IF x = i THEN e ELSE index[x].entry
         /\ q # None /\ indexed => t2[q].next = i
         /\ \A x \in Entries : ~(x = q /\ q # None /\ indexed) =>
              t2[x].next = IF x = i THEN None ELSE index[x].next
<1> DEFINE v == NewIndex(e)
           t1 == WithEntry(index, i, v)
<1>1. index \in IndexTbl /\ i \in Entries /\ v \in IndexTblEntry
  BY TypeMeans, Places DEF IndexTblEntry, NewIndex
<1>2. t1 \in IndexTbl /\ \A y \in Entries : t1[y] = IF y = i THEN v ELSE index[y]
  BY <1>1, SetIndexEntry
<1>3. t2 = Link(t1, q, i, indexed)
  OBVIOUS
<1>4. v.next = None /\ v.entry = e
  BY DEF NewIndex
<1> HIDE DEF v, t1
<1>6. CASE q # None /\ indexed
  <2>1. q \in Entries /\ i \in Expn \cup {None}
    BY <1>6, Places
  <2>2. t2 = WithNext(t1, q, i)
    BY <1>3, <1>6 DEF Link, WithNext
  <2>3. /\ t2 \in IndexTbl
        /\ \A y \in Entries :
              /\ t2[y].entry = t1[y].entry
              /\ t2[y].next = IF y = q THEN i ELSE t1[y].next
    BY <1>2, <2>1, <2>2, SetIndexNext
  <2>4. \A x \in Entries : t2[x].entry = IF x = i THEN e ELSE index[x].entry
    BY <1>2, <1>4, <2>3
  <2>5. \A x \in Entries : x # q => t2[x].next = IF x = i THEN None ELSE index[x].next
    BY <1>2, <1>4, <2>3
  <2> QED
    BY <1>6, <2>1, <2>3, <2>4, <2>5
<1>7. CASE ~(q # None /\ indexed)
  <2>1. t2 = t1
    BY <1>3, <1>7 DEF Link
  <2>2. \A x \in Entries : t2[x].entry = IF x = i THEN e ELSE index[x].entry
    BY <1>2, <1>4, <2>1
  <2>3. \A x \in Entries : t2[x].next = IF x = i THEN None ELSE index[x].next
    BY <1>2, <1>4, <2>1
  <2>4. t2 \in IndexTbl
    BY <1>2, <2>1
  <2> QED
    BY <1>7, <2>2, <2>3, <2>4
<1> QED
  BY <1>6, <1>7

(* What deleting a rule leaves of its entry, and of the entries around it. *)
StaysDead(e) == e \in Base /\ tab[e].next # None

LEMMA UnlinkedIs ==
  ASSUME NTypeOK, NEW e \in Usable
  PROVE  /\ Unlinked(e) \in RuleTbl
         /\ \A x \in Entries : x # e =>
              /\ SameEntry(Unlinked(e)[x], tab[x])
              /\ Unlinked(e)[x].next =
                   IF e \in Expn /\ x = tab[e].prev THEN tab[e].next ELSE tab[x].next
              /\ Unlinked(e)[x].prev =
                   IF e \in Expn /\ x = tab[e].next /\ tab[e].next # None
                     THEN tab[e].prev ELSE tab[x].prev
         /\ ~StaysDead(e) => Unlinked(e)[e] = ZeroRule
         /\ StaysDead(e) =>
              /\ Unlinked(e)[e].dead = TRUE /\ Unlinked(e)[e].next = tab[e].next
              /\ Unlinked(e)[e].prev = tab[e].prev /\ Unlinked(e)[e].rule = tab[e].rule
              /\ Unlinked(e)[e].enable = tab[e].enable
<1> DEFINE n == tab[e].next
           p == tab[e].prev
           t1 == Unlinked(e)
<1>1. tab \in RuleTbl /\ e \in Entries /\ None \in Entries
  BY TypeMeans, Places
<1>2. n \in Expn \cup {None} /\ p \in Usable \cup {None}
  BY <1>1, RuleFields
<1>3. n \in Entries /\ p \in Entries
  BY <1>1, <1>2, Places
<1>4. \A x, y : x = y => SameEntry(x, y)
  BY DEF SameEntry, SameRule
<1>5. \A x, y, z : SameEntry(x, y) /\ SameEntry(y, z) => SameEntry(x, z)
  BY DEF SameEntry, SameRule
<1>6. ZeroRule \in RuleEntry
  BY ZeroEntries
<1>7. e \in Base => e \notin Expn
  BY Places
<1>8. e \in Base \/ e \in Expn
  BY Places
<1> HIDE DEF n, p
<1>9. CASE e \in Base /\ n = None
  <2>1. t1 = WithEntry(tab, e, ZeroRule)
    <3>1. t1 = [tab EXCEPT ![e] = ZeroRule]
      BY <1>7, <1>9 DEF Unlinked, n
    <3> QED
      BY <3>1 DEF WithEntry
  <2>2. t1 \in RuleTbl /\ \A y \in Entries : t1[y] = IF y = e THEN ZeroRule ELSE tab[y]
    BY <1>1, <1>6, <2>1, SetEntry
  <2>3. ~StaysDead(e)
    BY <1>9 DEF StaysDead, n
  <2> HIDE DEF t1
  <2>4. t1[e] = ZeroRule
    BY <1>1, <2>2
  <2>5. \A x \in Entries : x # e => t1[x] = tab[x]
    BY <2>2
  <2> QED
    BY <1>4, <1>7, <1>9, <2>2, <2>3, <2>4, <2>5 DEF t1
<1>10. CASE e \in Base /\ n # None
  <2>1. t1 = WithDead(tab, e)
    BY <1>10 DEF Unlinked, WithDead, n
  <2>2. StaysDead(e)
    BY <1>10 DEF StaysDead, n
  <2> HIDE DEF t1
  <2>3. /\ t1 \in RuleTbl
        /\ \A y \in Entries :
              /\ y # e => t1[y] = tab[y]
              /\ t1[y].next = tab[y].next /\ t1[y].prev = tab[y].prev
              /\ t1[y].rule = tab[y].rule /\ t1[y].enable = tab[y].enable
        /\ t1[e].dead = TRUE
    <3>1. /\ WithDead(tab, e) \in RuleTbl
          /\ \A y \in Entries :
                /\ y # e => WithDead(tab, e)[y] = tab[y]
                /\ WithDead(tab, e)[y].next = tab[y].next
                /\ WithDead(tab, e)[y].prev = tab[y].prev
                /\ WithDead(tab, e)[y].rule = tab[y].rule
                /\ WithDead(tab, e)[y].enable = tab[y].enable
          /\ WithDead(tab, e)[e].dead = TRUE
      BY <1>1, SetDead
    <3> QED
      BY <2>1, <3>1
  <2>4. \A x \in Entries : x # e => t1[x] = tab[x]
    BY <2>3
  <2>5. /\ t1[e].next = tab[e].next /\ t1[e].prev = tab[e].prev
        /\ t1[e].rule = tab[e].rule /\ t1[e].enable = tab[e].enable /\ t1[e].dead = TRUE
    BY <1>1, <2>3
  <2>6. t1 \in RuleTbl
    BY <2>3
  <2> QED
    BY <1>4, <1>7, <1>10, <2>2, <2>4, <2>5, <2>6 DEF t1
<1>11. CASE e \in Expn
  <2> DEFINE a == WithNext(tab, p, n)
             b == IF n = None THEN a ELSE WithPrev(a, n, p)
  <2>1. t1 = WithEntry(b, e, ZeroRule)
    <3>1. CASE n = None
      <4>1. t1 = [tab EXCEPT ![tab[e].prev].next = None, ![e] = ZeroRule]
        BY <1>7, <1>11, <3>1 DEF Unlinked, n
      <4> QED
        BY <3>1, <4>1 DEF WithEntry, WithNext, n, p
    <3>2. CASE n # None
      <4>1. t1 = [tab EXCEPT ![tab[e].prev].next = tab[e].next, ![tab[e].next].prev = tab[e].prev,
                              ![e] = ZeroRule]
        BY <1>7, <1>11, <3>2 DEF Unlinked, n
      <4> QED
        BY <3>2, <4>1 DEF WithEntry, WithNext, WithPrev, n, p
    <3> QED
      BY <3>1, <3>2
  <2>2. /\ a \in RuleTbl
        /\ \A y \in Entries :
              /\ SameEntry(a[y], tab[y]) /\ a[y].prev = tab[y].prev
              /\ a[y].next = IF y = p THEN n ELSE tab[y].next
    BY <1>1, <1>2, <1>3, SetNext
  <2> HIDE DEF a
  <2>3. CASE n = None
    <3>1. b = a
      BY <2>3
    <3> HIDE DEF b
    <3>2. t1 \in RuleTbl /\ \A y \in Entries : t1[y] = IF y = e THEN ZeroRule ELSE a[y]
      BY <1>1, <1>6, <2>1, <2>2, <3>1, SetEntry
    <3>3. ~StaysDead(e) /\ t1[e] = ZeroRule
      BY <1>1, <1>7, <1>11, <3>2 DEF StaysDead
    <3> HIDE DEF t1
    <3>4. ASSUME NEW x \in Entries, x # e
          PROVE  /\ SameEntry(t1[x], tab[x]) /\ t1[x].prev = tab[x].prev
                 /\ t1[x].next = IF x = p THEN n ELSE tab[x].next
      <4>1. t1[x] = a[x]
        BY <3>2, <3>4
      <4> QED
        BY <2>2, <4>1
    <3>5. t1 \in RuleTbl
      BY <3>2
    <3> QED
      BY <1>11, <2>3, <3>3, <3>4, <3>5 DEF t1, n, p
  <2>4. CASE n # None
    <3>1. b = WithPrev(a, n, p)
      BY <2>4
    <3> HIDE DEF b
    <3>2. /\ b \in RuleTbl
          /\ \A y \in Entries :
                /\ SameEntry(b[y], a[y]) /\ b[y].next = a[y].next
                /\ b[y].prev = IF y = n THEN p ELSE a[y].prev
      <4>1. a \in RuleTbl
        BY <2>2
      <4>2. /\ WithPrev(a, n, p) \in RuleTbl
            /\ \A y \in Entries :
                  /\ SameEntry(WithPrev(a, n, p)[y], a[y]) /\ WithPrev(a, n, p)[y].next = a[y].next
                  /\ WithPrev(a, n, p)[y].prev = IF y = n THEN p ELSE a[y].prev
        BY <1>2, <1>3, <4>1, SetPrev
      <4> QED
        BY <3>1, <4>2
    <3>3. t1 \in RuleTbl /\ \A y \in Entries : t1[y] = IF y = e THEN ZeroRule ELSE b[y]
      BY <1>1, <1>6, <2>1, <3>2, SetEntry
    <3>4. ~StaysDead(e) /\ t1[e] = ZeroRule
      BY <1>1, <1>7, <1>11, <3>3 DEF StaysDead
    <3> HIDE DEF t1
    <3>5. ASSUME NEW x \in Entries, x # e
          PROVE  /\ SameEntry(t1[x], tab[x]) /\ t1[x].next = IF x = p THEN n ELSE tab[x].next
                 /\ t1[x].prev = IF x = n THEN p ELSE tab[x].prev
      <4>1. t1[x] = b[x]
        BY <3>3, <3>5
      <4>2. SameEntry(b[x], a[x]) /\ SameEntry(a[x], tab[x])
        BY <2>2, <3>2
      <4>3. b[x].next = a[x].next /\ b[x].prev = IF x = n THEN p ELSE a[x].prev
        BY <3>2
      <4>4. a[x].prev = tab[x].prev /\ a[x].next = IF x = p THEN n ELSE tab[x].next
        BY <2>2
      <4>5. SameEntry(t1[x], tab[x])
        BY <1>5, <4>1, <4>2
      <4> QED
        BY <4>1, <4>3, <4>4, <4>5
    <3>6. t1 \in RuleTbl
      BY <3>3
    <3> QED
      BY <1>11, <2>4, <3>4, <3>5, <3>6 DEF t1, n, p
  <2> QED
    BY <2>3, <2>4
<1> QED
  BY <1>8, <1>9, <1>10, <1>11

LEMMA RenamedIs ==
  ASSUME NTypeOK, NEW t \in RuleTbl, NEW i \in Usable
  PROVE  /\ Renamed(t, i) \in RuleTbl
         /\ \A y \in Entries :
              /\ SameRule(Renamed(t, i)[y], t[y])
              /\ Renamed(t, i)[y].next = t[y].next /\ Renamed(t, i)[y].prev = t[y].prev
              /\ Renamed(t, i)[y].index =
                   IF MovesHead(i) /\ y = index[index[i].next].entry THEN i ELSE t[y].index
<1>1. \A x, y : x = y => SameRule(x, y)
  BY DEF SameRule
<1>2. CASE MovesHead(i)
  <2> DEFINE x == index[index[i].next].entry
             u == Renamed(t, i)
  <2>1. index \in IndexTbl /\ i \in Entries
    BY TypeMeans, Places
  <2>2. index[i].next \in Entries
    BY <2>1, IndexFields, Places
  <2>3. x \in Entries
    BY <2>1, <2>2, IndexFields, Places
  <2>4. u = WithIndex(t, x, i)
    BY <1>2 DEF Renamed, WithIndex
  <2> HIDE DEF x, u
  <2>5. /\ u \in RuleTbl
        /\ \A y \in Entries :
              /\ SameRule(u[y], t[y]) /\ u[y].next = t[y].next /\ u[y].prev = t[y].prev
              /\ u[y].index = IF y = x THEN i ELSE t[y].index
    BY <2>3, <2>4, SetIndex
  <2> QED
    BY <1>2, <2>5 DEF x, u
<1>3. CASE ~MovesHead(i)
  <2>1. Renamed(t, i) = t
    BY <1>3 DEF Renamed
  <2> QED
    BY <1>1, <1>3, <2>1
<1> QED
  BY <1>2, <1>3

Gone(t, x) == x \in Base /\ t[x].dead /\ t[x].next = None

LEMMA DeadHeadsGone ==
  ASSUME NEW t \in RuleTbl
  PROVE  /\ DelDeadHeads(t) \in RuleTbl
         /\ \A x \in Entries : DelDeadHeads(t)[x] = IF Gone(t, x) THEN ZeroRule ELSE t[x]
<1>1. \A x \in Entries : t[x] \in RuleEntry
  BY DEF RuleTbl
<1>2. ZeroRule \in RuleEntry
  BY ZeroEntries
<1>3. \A x \in Entries : DelDeadHeads(t)[x] = IF Gone(t, x) THEN ZeroRule ELSE t[x]
  BY DEF DelDeadHeads, Gone
<1>4. DelDeadHeads(t) \in RuleTbl
  BY <1>1, <1>2 DEF DelDeadHeads, RuleTbl
<1> QED
  BY <1>3, <1>4

(* What taking entry i out of the index table does.                        *)
LEMMA IndexHeadCleared ==
  ASSUME NTypeOK, NEW i \in Usable, i \in Base, index[i].next = None, UnlinkIndex(i)
  PROVE  /\ index' \in IndexTbl /\ meta' = meta
         /\ \A x \in Entries : index'[x] = IF x = i THEN ZeroIndex ELSE index[x]
<1>1. ~MovesHead(i) /\ i \notin Expn
  BY Places DEF MovesHead
<1>2. index' = [index EXCEPT ![i] = ZeroIndex] /\ meta' = meta
  BY <1>1 DEF UnlinkIndex
<1>3. index' = WithEntry(index, i, ZeroIndex)
  BY <1>2 DEF WithEntry
<1>4. index \in IndexTbl /\ i \in Entries /\ ZeroIndex \in IndexTblEntry
  BY TypeMeans, Places, ZeroEntries
<1>5. /\ WithEntry(index, i, ZeroIndex) \in IndexTbl
      /\ \A x \in Entries : WithEntry(index, i, ZeroIndex)[x] = IF x = i THEN ZeroIndex ELSE index[x]
  BY <1>4, SetIndexEntry
<1> QED
  BY <1>2, <1>3, <1>5

LEMMA IndexHeadMoved ==
  ASSUME NTypeOK, NEW i \in Usable, MovesHead(i), UnlinkIndex(i),
         NEW n, n = index[i].next
  PROVE  /\ index' \in IndexTbl /\ meta' \in [Expn -> Usable \cup {None}]
         /\ \A x \in Entries : index'[x] = IF x = n THEN ZeroIndex
                                           ELSE IF x = i THEN index[n] ELSE index[x]
         /\ \A x \in Expn : meta'[x] = IF x = index[n].next THEN i ELSE meta[x]
<1>1. i \in Base /\ n # None /\ i \notin Expn
  BY Places DEF MovesHead
<1>2. /\ index' = [index EXCEPT ![i] = index[n], ![n] = ZeroIndex]
      /\ meta' = IF index[n].next # None THEN [meta EXCEPT ![index[n].next] = i] ELSE meta
  BY <1>1 DEF UnlinkIndex
<1>3. index' = WithEntry(WithEntry(index, i, index[n]), n, ZeroIndex)
  BY <1>2 DEF WithEntry
<1>4. /\ index \in IndexTbl /\ i \in Entries /\ ZeroIndex \in IndexTblEntry
      /\ meta \in [Expn -> Usable \cup {None}]
  BY TypeMeans, Places, ZeroEntries
<1>5. n \in Entries
  BY <1>4, IndexFields, Places
<1>6. index[n] \in IndexTblEntry /\ index[n].next \in Expn \cup {None}
  BY <1>4, <1>5, IndexFields
<1> DEFINE a == WithEntry(index, i, index[n])
<1>7. a \in IndexTbl /\ \A x \in Entries : a[x] = IF x = i THEN index[n] ELSE index[x]
  BY <1>4, <1>6, SetIndexEntry
<1> HIDE DEF a
<1>8. /\ WithEntry(a, n, ZeroIndex) \in IndexTbl
      /\ \A x \in Entries : WithEntry(a, n, ZeroIndex)[x] = IF x = n THEN ZeroIndex ELSE a[x]
  BY <1>4, <1>5, <1>7, SetIndexEntry
<1>9. index' = WithEntry(a, n, ZeroIndex)
  BY <1>3 DEF a
<1>10. index' \in IndexTbl /\ \A x \in Entries : index'[x] = IF x = n THEN ZeroIndex
                                           ELSE IF x = i THEN index[n] ELSE index[x]
  BY <1>7, <1>8, <1>9
<1>11. /\ meta' \in [Expn -> Usable \cup {None}]
       /\ \A x \in Expn : meta'[x] = IF x = index[n].next THEN i ELSE meta[x]
  <2>1. CASE index[n].next # None
    BY <1>2, <1>4, <1>6, <2>1
  <2>2. CASE index[n].next = None
    <3>1. meta' = meta
      BY <1>2, <2>2
    <3>2. \A x \in Expn : x # None
      BY Places
    <3> QED
      BY <1>4, <2>2, <3>1, <3>2
  <2> QED
    BY <2>1, <2>2
<1> QED
  BY <1>10, <1>11

LEMMA IndexUnlinked ==
  ASSUME NTypeOK, NEW i \in Usable, i \in Expn, UnlinkIndex(i),
         NEW n, n = index[i].next
  PROVE  /\ index' \in IndexTbl /\ meta' \in [Expn -> Usable \cup {None}]
         /\ index'[i] = ZeroIndex
         /\ \A x \in Entries : x # i =>
              /\ index'[x].entry = index[x].entry
              /\ index'[x].next = IF x = meta[i] THEN n ELSE index[x].next
         /\ \A x \in Expn : x # i => meta'[x] = IF x = n THEN meta[i] ELSE meta[x]
<1>1. i \notin Base /\ ~MovesHead(i)
  BY Places DEF MovesHead
<1>2. /\ index \in IndexTbl /\ i \in Entries /\ ZeroIndex \in IndexTblEntry
      /\ meta \in [Expn -> Usable \cup {None}]
  BY TypeMeans, Places, ZeroEntries
<1>3. n \in Expn \cup {None} /\ meta[i] \in Usable \cup {None} /\ None \notin Expn
  BY <1>2, IndexFields, Places
<1>4. index' = [index EXCEPT ![meta[i]].next = n, ![i] = ZeroIndex]
  <2>1. CASE n = None
    BY <1>1, <2>1 DEF UnlinkIndex
  <2>2. CASE n # None
    BY <1>1, <2>2 DEF UnlinkIndex
  <2> QED
    BY <2>1, <2>2
<1>5. /\ meta' \in [Expn -> Usable \cup {None}]
      /\ \A x \in Expn : x # i => meta'[x] = IF x = n THEN meta[i] ELSE meta[x]
  <2>1. CASE n = None
    <3>1. meta' = meta
      BY <1>1, <2>1 DEF UnlinkIndex
    <3> QED
      BY <1>2, <1>3, <2>1, <3>1
  <2>2. CASE n # None
    <3>1. meta' = [meta EXCEPT ![n] = meta[i], ![i] = None]
      BY <1>1, <2>2 DEF UnlinkIndex
    <3>2. n \in Expn
      BY <1>3, <2>2
    <3> QED
      BY <1>2, <1>3, <3>1, <3>2
  <2> QED
    BY <2>1, <2>2
<1> DEFINE p == meta[i]
           a == WithNext(index, p, n)
<1>6. p \in Entries
  BY <1>3, Places
<1>7. index' = WithEntry(a, i, ZeroIndex)
  BY <1>4 DEF WithEntry, WithNext
<1> HIDE DEF p
<1>8. /\ a \in IndexTbl
      /\ \A y \in Entries :
           /\ a[y].entry = index[y].entry
           /\ a[y].next = IF y = p THEN n ELSE index[y].next
  <2>1. index \in IndexTbl /\ n \in Expn \cup {None} /\ p \in Entries
    BY <1>2, <1>3, <1>6
  <2>2. a \in IndexTbl
    BY <2>1, SetIndexNext
  <2>3. ASSUME NEW y \in Entries
        PROVE  a[y].entry = index[y].entry /\ a[y].next = IF y = p THEN n ELSE index[y].next
    BY <2>1, SetIndexNext
  <2> QED
    BY <2>2, <2>3
<1> HIDE DEF a
<1>9. /\ WithEntry(a, i, ZeroIndex) \in IndexTbl
      /\ \A x \in Entries : WithEntry(a, i, ZeroIndex)[x] = IF x = i THEN ZeroIndex ELSE a[x]
  BY <1>2, <1>8, SetIndexEntry
<1>10. index' \in IndexTbl /\ \A x \in Entries : index'[x] = IF x = i THEN ZeroIndex ELSE a[x]
  BY <1>7, <1>9
<1>11. index'[i] = ZeroIndex
  BY <1>2, <1>10
<1>12. ASSUME NEW x \in Entries, x # i
       PROVE  /\ index'[x].entry = index[x].entry
              /\ index'[x].next = IF x = p THEN n ELSE index[x].next
  <2>1. index'[x] = a[x]
    BY <1>10, <1>12
  <2> QED
    BY <1>8, <2>1
<1>13. index' \in IndexTbl
  BY <1>10
<1> QED
  BY <1>5, <1>11, <1>12, <1>13 DEF p

LEMMA UnlinkIndexType ==
  ASSUME NTypeOK, NEW i \in Usable, UnlinkIndex(i)
  PROVE  index' \in IndexTbl /\ meta' \in [Expn -> Usable \cup {None}]
<1>1. CASE i \in Expn
  BY <1>1, IndexUnlinked
<1>2. CASE MovesHead(i)
  BY <1>2, IndexHeadMoved
<1>3. CASE i \in Base /\ index[i].next = None
  BY <1>3, IndexHeadCleared, TypeMeans
<1> QED
  BY <1>1, <1>2, <1>3, Places DEF MovesHead

-----------------------------------------------------------------------------
(* The inductive invariant.  A handle names an enabled entry of its own,   *)
(* whatever commands fail ...                                              *)
HandlesName ==
  \A h \in Live : /\ tab[rule_id_array[h]].enable /\ ~tab[rule_id_array[h]].dead
                  /\ tab[rule_id_array[h]].rule \in Rule
                  /\ tab[rule_id_array[h]].index \in Usable
HandlesDiffer ==
  \A g, h \in Live : rule_id_array[g] = rule_id_array[h] => g = h

HandleInv == NTypeOK /\ HandlesName /\ HandlesDiffer

(* ... and when none does, both tables are linked, an enabled entry has a  *)
(* handle or is a dead head with others behind it, and rule entries and    *)
(* index entries name each other.                                          *)
PrevOf(t)    == [e \in Expn |-> t[e].prev]
EnabledOf(t) == {e \in Usable : t[e].enable}
DstOf(t)     == [e \in Usable |-> Dst(t[e].rule)]
NamedOf(x)   == {i \in Usable : x[i].entry # None}
SrcOf(t, x)  == [i \in Usable |-> Src(t[x[i].entry].rule)]

TabLinked   == Linked(tab, PrevOf(tab), EnabledOf(tab), DstOf(tab))
IndexLinked == Linked(index, meta, NamedOf(index), SrcOf(tab, index))
EntriesRight ==
  \A e \in Usable :
    /\ tab[e].enable => tab[e].rule \in Rule
    /\ tab[e].dead => tab[e].enable /\ e \in Base /\ tab[e].next # None
    /\ tab[e].enable /\ ~tab[e].dead =>
         /\ tab[e].index \in Usable /\ index[tab[e].index].entry = e
         /\ \E h \in Handles : rule_id_array[h] = e
NamesRight ==
  \A i \in Usable : index[i].entry # None =>
    /\ tab[index[i].entry].enable /\ ~tab[index[i].entry].dead
    /\ tab[index[i].entry].index = i
HandlesParse == \A h \in Live : h < TableEntries + ExpnEntries

ChainInv == TabLinked /\ IndexLinked /\ EntriesRight /\ NamesRight /\ HandlesParse

-----------------------------------------------------------------------------
(* Adding and deleting, as the invariants see them.                        *)
LEMMA LiveIs == \A h \in Handles : h \in Live <=> rule_id_array[h] # None
BY DEF Live

LEMMA LiveEntry ==
  ASSUME NTypeOK, NEW h \in Live
  PROVE  h \in Handles /\ rule_id_array[h] \in Usable /\ rule_id_array[h] \in Entries
<1>1. h \in Handles /\ rule_id_array[h] # None
  BY DEF Live
<1>2. rule_id_array[h] \in Usable
  BY <1>1 DEF NTypeOK
<1> QED
  BY <1>1, <1>2, Places

(* What an addition does, for an entry e that no handle names.             *)
AddedHandle(e, enabled) ==
  \/ ~(enabled /\ FirstHandle # {}) /\ rule_id_array' = rule_id_array
  \/ /\ enabled
     /\ \E h \in FirstHandle : rule_id_array' = [rule_id_array EXCEPT ![h] = e]

AddedAs(r, e, p, i, q, linked, indexed, enabled) ==
  /\ tab' \in RuleTbl /\ index' \in IndexTbl
  /\ SameEntry(tab'[e], NewEntry(r, p, i, enabled)) /\ tab'[e].prev = p
  /\ \A x \in Entries : x # e => SameEntry(tab'[x], tab[x]) /\ tab'[x].prev = tab[x].prev
  /\ p # None /\ linked => tab'[p].next = e
  /\ \A x \in Entries : ~(x = p /\ p # None /\ linked) =>
       tab'[x].next = IF x = e THEN None ELSE tab[x].next
  /\ \A x \in Entries : index'[x].entry = IF x = i THEN e ELSE index[x].entry
  /\ q # None /\ indexed => index'[q].next = i
  /\ \A x \in Entries : ~(x = q /\ q # None /\ indexed) =>
       index'[x].next = IF x = i THEN None ELSE index[x].next
  /\ meta' \in [Expn -> Usable \cup {None}]
  /\ \A x \in Expn : meta'[x] = IF x = i THEN q ELSE meta[x]
  /\ AddedHandle(e, enabled)

LEMMA Adding ==
  ASSUME NTypeOK, NEW r \in Rule, NEW e \in Usable, NEW i \in Usable,
         NEW p \in Usable \cup {None}, NEW q \in Usable \cup {None},
         TblEntry(r, e, p), IndexEntry(r, i, q),
         NEW linked \in BOOLEAN, NEW indexed \in BOOLEAN, NEW enabled \in BOOLEAN,
         Add(r, e, p, i, q, linked, indexed, enabled)
  PROVE  AddedAs(r, e, p, i, q, linked, indexed, enabled)
<1>1. (p # None => e \in Expn) /\ (q # None => i \in Expn)
  BY TblEntryIs, IndexEntryIs
<1>2. tab' = Link(WithEntry(tab, e, NewEntry(r, p, i, enabled)), p, e, linked)
  BY DEF Add, WithEntry, NewEntry
<1>3. index' = Link(WithEntry(index, i, NewIndex(e)), q, i, indexed)
  BY DEF Add, WithEntry, NewIndex
<1>4. /\ tab' \in RuleTbl
      /\ SameEntry(tab'[e], NewEntry(r, p, i, enabled)) /\ tab'[e].prev = p
      /\ \A x \in Entries : x # e => SameEntry(tab'[x], tab[x]) /\ tab'[x].prev = tab[x].prev
      /\ p # None /\ linked => tab'[p].next = e
      /\ \A x \in Entries : ~(x = p /\ p # None /\ linked) =>
           tab'[x].next = IF x = e THEN None ELSE tab[x].next
  BY SMTT(60), <1>1, <1>2, AddedToTab
<1>5. /\ index' \in IndexTbl
      /\ \A x \in Entries : index'[x].entry = IF x = i THEN e ELSE index[x].entry
      /\ q # None /\ indexed => index'[q].next = i
      /\ \A x \in Entries : ~(x = q /\ q # None /\ indexed) =>
           index'[x].next = IF x = i THEN None ELSE index[x].next
  <2>1. q # None => i \in Expn
    BY <1>1
  <2> DEFINE u == index'
  <2>2. u = Link(WithEntry(index, i, NewIndex(e)), q, i, indexed)
    BY <1>3
  <2> HIDE DEF u
  <2>3. u \in IndexTbl /\ \A x \in Entries : u[x].entry = IF x = i THEN e ELSE index[x].entry
    BY <2>1, <2>2, AddedToIndex
  <2>4. /\ q # None /\ indexed => u[q].next = i
        /\ \A x \in Entries : ~(x = q /\ q # None /\ indexed) =>
             u[x].next = IF x = i THEN None ELSE index[x].next
    BY <2>1, <2>2, AddedToIndex
  <2> QED
    BY <2>3, <2>4 DEF u
<1>6. meta \in [Expn -> Usable \cup {None}]
  BY TypeMeans
<1>7. meta' = IF i \in Expn THEN [meta EXCEPT ![i] = q] ELSE meta
  BY DEF Add
<1>8. meta' \in [Expn -> Usable \cup {None}] /\ \A x \in Expn : meta'[x] = IF x = i THEN q ELSE meta[x]
  BY <1>6, <1>7
<1>9. AddedHandle(e, enabled)
  BY DEF Add, AddedHandle
<1> QED
  BY <1>4, <1>5, <1>8, <1>9 DEF AddedAs

(* An entry of the rule table that a deletion does not touch.              *)
Kept(t, e, x) == x # e /\ ~Gone(t, x)

DeletedAs(e, i, t) ==
  /\ t \in RuleTbl /\ tab' \in RuleTbl
  /\ \A x \in Entries : tab'[x] = IF Gone(t, x) THEN ZeroRule ELSE t[x]
  /\ \A x \in Entries : x # e =>
       /\ SameRule(t[x], tab[x])
       /\ t[x].index =
            IF MovesHead(i) /\ x = index[index[i].next].entry THEN i ELSE tab[x].index
       /\ t[x].next = IF e \in Expn /\ x = tab[e].prev THEN tab[e].next ELSE tab[x].next
       /\ t[x].prev = IF e \in Expn /\ x = tab[e].next /\ tab[e].next # None
                        THEN tab[e].prev ELSE tab[x].prev
  /\ ~StaysDead(e) => ~t[e].enable /\ ~t[e].dead /\ t[e].next = None
  /\ StaysDead(e) =>
       /\ t[e].dead = TRUE /\ t[e].next = tab[e].next
       /\ t[e].prev = tab[e].prev /\ t[e].rule = tab[e].rule
       /\ t[e].enable = tab[e].enable

LEMMA Deleting ==
  ASSUME NTypeOK, NEW e \in Usable, NEW i \in Usable, NEW t,
         t = Renamed(Unlinked(e), i), tab' = DelDeadHeads(t)
  PROVE  DeletedAs(e, i, t)
<1> DEFINE t1 == Unlinked(e)
<1>1. e \in Entries
  BY Places
<1>2. /\ t1 \in RuleTbl
      /\ \A x \in Entries : x # e =>
           /\ SameEntry(t1[x], tab[x])
           /\ t1[x].next = IF e \in Expn /\ x = tab[e].prev THEN tab[e].next ELSE tab[x].next
           /\ t1[x].prev = IF e \in Expn /\ x = tab[e].next /\ tab[e].next # None
                             THEN tab[e].prev ELSE tab[x].prev
      /\ ~StaysDead(e) => t1[e] = ZeroRule
      /\ StaysDead(e) =>
           /\ t1[e].dead = TRUE /\ t1[e].next = tab[e].next
           /\ t1[e].prev = tab[e].prev /\ t1[e].rule = tab[e].rule
           /\ t1[e].enable = tab[e].enable
  BY UnlinkedIs
<1> HIDE DEF t1
<1>3. t = Renamed(t1, i) /\ t1 \in RuleTbl
  BY <1>2 DEF t1
<1>4. /\ t \in RuleTbl
      /\ \A y \in Entries :
           /\ SameRule(t[y], t1[y])
           /\ t[y].next = t1[y].next /\ t[y].prev = t1[y].prev
           /\ t[y].index = IF MovesHead(i) /\ y = index[index[i].next].entry THEN i ELSE t1[y].index
  BY <1>3, RenamedIs
<1>5. t \in RuleTbl
  BY <1>4
<1>6. tab' \in RuleTbl /\ \A x \in Entries : tab'[x] = IF Gone(t, x) THEN ZeroRule ELSE t[x]
  BY <1>5, DeadHeadsGone
<1>7. ASSUME NEW x \in Entries, x # e
      PROVE  /\ SameRule(t[x], tab[x])
             /\ t[x].index =
                  IF MovesHead(i) /\ x = index[index[i].next].entry THEN i ELSE tab[x].index
             /\ t[x].next = IF e \in Expn /\ x = tab[e].prev THEN tab[e].next ELSE tab[x].next
             /\ t[x].prev = IF e \in Expn /\ x = tab[e].next /\ tab[e].next # None
                              THEN tab[e].prev ELSE tab[x].prev
  <2>1. SameEntry(t1[x], tab[x]) /\ SameRule(t[x], t1[x])
    BY <1>2, <1>4, <1>7
  <2>2. SameRule(t[x], tab[x]) /\ t1[x].index = tab[x].index
    BY <2>1 DEF SameEntry, SameRule
  <2>3. t[x].index = IF MovesHead(i) /\ x = index[index[i].next].entry THEN i ELSE t1[x].index
    BY <1>4
  <2>4. t[x].next = t1[x].next /\ t[x].prev = t1[x].prev
    BY <1>4
  <2>5. /\ t1[x].next = IF e \in Expn /\ x = tab[e].prev THEN tab[e].next ELSE tab[x].next
        /\ t1[x].prev = IF e \in Expn /\ x = tab[e].next /\ tab[e].next # None
                          THEN tab[e].prev ELSE tab[x].prev
    BY <1>2, <1>7
  <2> QED
    BY <2>2, <2>3, <2>4, <2>5
<1>8. ASSUME ~StaysDead(e) PROVE ~t[e].enable /\ ~t[e].dead /\ t[e].next = None
  <2>1. t1[e] = ZeroRule
    BY <1>2, <1>8
  <2>2. SameRule(t[e], t1[e]) /\ t[e].next = t1[e].next
    BY <1>1, <1>4
  <2> QED
    BY <2>1, <2>2, ZeroEntries DEF SameRule
<1>9. ASSUME StaysDead(e)
      PROVE  /\ t[e].dead = TRUE /\ t[e].next = tab[e].next
             /\ t[e].prev = tab[e].prev /\ t[e].rule = tab[e].rule
             /\ t[e].enable = tab[e].enable
  <2>1. /\ t1[e].dead = TRUE /\ t1[e].next = tab[e].next
        /\ t1[e].prev = tab[e].prev /\ t1[e].rule = tab[e].rule
        /\ t1[e].enable = tab[e].enable
    BY <1>2, <1>9
  <2>2. SameRule(t[e], t1[e]) /\ t[e].next = t1[e].next /\ t[e].prev = t1[e].prev
    BY <1>1, <1>4
  <2> QED
    BY <2>1, <2>2 DEF SameRule
<1> QED
  BY <1>5, <1>6, <1>7, <1>8, <1>9 DEF DeletedAs

LEMMA AddRuleParts ==
  ASSUME NEW r \in Rule, AddRule(r)
  PROVE  /\ \E e, i \in Usable, p, q \in Usable \cup {None}, linked, indexed, enabled \in BOOLEAN :
              /\ TblEntry(r, e, p) /\ IndexEntry(r, i, q)
              /\ Add(r, e, p, i, q, linked, indexed, enabled)
              /\ ~AddFaults => linked /\ indexed /\ enabled
         /\ valid /\ valid' = valid
<1> DEFINE O == IF AddFaults THEN BOOLEAN ELSE {TRUE}
<1>1. PICK e, i \in Usable, p, q \in Usable \cup {None} :
        /\ TblEntry(r, e, p) /\ IndexEntry(r, i, q)
        /\ \E linked, indexed, enabled \in O : Add(r, e, p, i, q, linked, indexed, enabled)
  BY DEF AddRule
<1>2. \A x \in O : x \in BOOLEAN /\ (~AddFaults => x)
  OBVIOUS
<1> HIDE DEF O
<1>3. PICK linked, indexed, enabled \in O : Add(r, e, p, i, q, linked, indexed, enabled)
  BY <1>1
<1>4. valid /\ valid' = valid
  BY DEF AddRule
<1> QED
  BY <1>1, <1>2, <1>3, <1>4

LEMMA NewHandle ==
  ASSUME NTypeOK, NEW h \in FirstHandle, NEW e \in Usable,
         rule_id_array' = [rule_id_array EXCEPT ![h] = e]
  PROVE  /\ h \in Handles /\ h \notin Live /\ Live' = Live \cup {h}
         /\ \A g \in Handles : rule_id_array'[g] = IF g = h THEN e ELSE rule_id_array[g]
         /\ rule_id_array' \in [Handles -> Usable \cup {None}]
<1>1. h \in Handles /\ h \notin Live
  BY DEF FirstHandle
<1>2. rule_id_array \in [Handles -> Usable \cup {None}] /\ e # None
  BY Places DEF NTypeOK
<1>3. \A g \in Handles : rule_id_array'[g] = IF g = h THEN e ELSE rule_id_array[g]
  BY <1>2
<1>4. Live' = {g \in Handles : rule_id_array'[g] # None}
  BY DEF Live
<1>5. \A g \in Handles : g \in Live' <=> g \in Live \cup {h}
  BY <1>2, <1>3, <1>4, LiveIs
<1>6. Live \subseteq Handles /\ Live' \subseteq Handles
  BY <1>4 DEF Live
<1>7. Live' = Live \cup {h}
  BY <1>1, <1>5, <1>6
<1> QED
  BY <1>1, <1>2, <1>3, <1>7

LEMMA OldHandle ==
  ASSUME NTypeOK, NEW h \in Handles, rule_id_array' = [rule_id_array EXCEPT ![h] = None]
  PROVE  /\ Live' = Live \ {h}
         /\ \A g \in Handles : rule_id_array'[g] = IF g = h THEN None ELSE rule_id_array[g]
         /\ rule_id_array' \in [Handles -> Usable \cup {None}]
<1>2. rule_id_array \in [Handles -> Usable \cup {None}]
  BY DEF NTypeOK
<1>3. \A g \in Handles : rule_id_array'[g] = IF g = h THEN None ELSE rule_id_array[g]
  BY <1>2
<1>4. Live' = {g \in Handles : rule_id_array'[g] # None}
  BY DEF Live
<1>5. \A g \in Handles : g \in Live' <=> g \in Live \ {h}
  BY <1>2, <1>3, <1>4, LiveIs
<1>6. Live \subseteq Handles /\ Live' \subseteq Handles
  BY <1>4 DEF Live
<1>7. Live' = Live \ {h}
  BY <1>5, <1>6
<1> QED
  BY <1>2, <1>3, <1>7

(* A zeroed table.                                                         *)
LEMMA ZeroedIs ==
  ASSUME Zeroed
  PROVE  /\ tab' \in RuleTbl /\ index' \in IndexTbl /\ meta' \in [Expn -> Usable \cup {None}]
         /\ rule_id_array' \in [Handles -> Usable \cup {None}]
         /\ Live' = {}
         /\ \A x \in Entries : tab'[x] = ZeroRule /\ index'[x] = ZeroIndex
<1>1. tab' \in RuleTbl /\ \A x \in Entries : tab'[x] = ZeroRule
  BY ZeroEntries DEF Zeroed, RuleTbl
<1>2. index' \in IndexTbl /\ \A x \in Entries : index'[x] = ZeroIndex
  BY ZeroEntries DEF Zeroed, IndexTbl
<1>3. meta' \in [Expn -> Usable \cup {None}]
  BY DEF Zeroed
<1>4. rule_id_array' \in [Handles -> Usable \cup {None}]
  BY DEF Zeroed
<1>5. Live' = {}
  BY DEF Live, Zeroed
<1> QED
  BY <1>1, <1>2, <1>3, <1>4, <1>5

SameRuleOf(g) == tab'[rule_id_array'[g]].rule = tab[rule_id_array[g]].rule

LEMMA HandleAdd ==
  ASSUME HandleInv, NEW r \in Rule, AddRule(r)
  PROVE  /\ HandleInv'
         /\ \A g \in Live : SameRuleOf(g)
         /\ \/ Live' = Live
            \/ \E h \in Handles \ Live : Live' = Live \cup {h} /\ tab'[rule_id_array'[h]].rule = r
<1>1. NTypeOK
  BY DEF HandleInv
<1>2. PICK e, i \in Usable, p, q \in Usable \cup {None}, linked, indexed, enabled \in BOOLEAN :
        /\ TblEntry(r, e, p) /\ IndexEntry(r, i, q)
        /\ Add(r, e, p, i, q, linked, indexed, enabled)
  BY AddRuleParts
<1>3. valid' = valid
  BY AddRuleParts
<1>4. /\ tab' \in RuleTbl /\ index' \in IndexTbl
      /\ SameEntry(tab'[e], NewEntry(r, p, i, enabled))
      /\ \A x \in Entries : x # e => SameEntry(tab'[x], tab[x])
      /\ meta' \in [Expn -> Usable \cup {None}]
      /\ AddedHandle(e, enabled)
  <2>1. AddedAs(r, e, p, i, q, linked, indexed, enabled)
    BY <1>1, <1>2, Adding
  <2> QED
    BY <2>1 DEF AddedAs
<1>5. ~tab[e].enable
  BY <1>1, <1>2, TblEntryIs
<1>6. /\ tab'[e].rule = r /\ tab'[e].enable = enabled /\ ~tab'[e].dead /\ tab'[e].index = i
  BY <1>4 DEF SameEntry, SameRule, NewEntry
<1>7. \A h \in Live : rule_id_array[h] # e
  BY <1>5 DEF HandleInv, HandlesName
<1>8. \A h \in Live : /\ tab'[rule_id_array[h]].enable /\ ~tab'[rule_id_array[h]].dead
                      /\ tab'[rule_id_array[h]].rule \in Rule
                      /\ tab'[rule_id_array[h]].index \in Usable
                      /\ tab'[rule_id_array[h]].rule = tab[rule_id_array[h]].rule
  <2> SUFFICES ASSUME NEW h \in Live
               PROVE  /\ tab'[rule_id_array[h]].enable /\ ~tab'[rule_id_array[h]].dead
                      /\ tab'[rule_id_array[h]].rule \in Rule
                      /\ tab'[rule_id_array[h]].index \in Usable
                      /\ tab'[rule_id_array[h]].rule = tab[rule_id_array[h]].rule
    OBVIOUS
  <2>1. rule_id_array[h] \in Entries
    BY <1>1, LiveEntry
  <2>2. SameEntry(tab'[rule_id_array[h]], tab[rule_id_array[h]])
    BY <1>4, <1>7, <2>1
  <2> QED
    BY <2>2 DEF SameEntry, SameRule, HandleInv, HandlesName
<1>9. CASE rule_id_array' = rule_id_array
  <2>1. Live' = Live
    BY <1>9 DEF Live
  <2>2. NTypeOK'
    BY <1>1, <1>3, <1>4, <1>9, TypeMeans, TypeNext
  <2>3. HandlesName'
    BY <1>8, <1>9, <2>1 DEF HandlesName
  <2>4. HandlesDiffer'
    BY <1>9, <2>1 DEF HandleInv, HandlesDiffer
  <2>5. \A g \in Live : SameRuleOf(g)
    BY <1>8, <1>9 DEF SameRuleOf
  <2> QED
    BY <2>1, <2>2, <2>3, <2>4, <2>5 DEF HandleInv
<1>10. CASE rule_id_array' # rule_id_array
  <2>1. PICK h \in FirstHandle : enabled /\ rule_id_array' = [rule_id_array EXCEPT ![h] = e]
    BY <1>4, <1>10 DEF AddedHandle
  <2>2. /\ h \in Handles /\ h \notin Live /\ Live' = Live \cup {h}
        /\ \A g \in Handles : rule_id_array'[g] = IF g = h THEN e ELSE rule_id_array[g]
        /\ rule_id_array' \in [Handles -> Usable \cup {None}]
    BY <1>1, <2>1, NewHandle
  <2>3. \A g \in Live : g # h /\ rule_id_array'[g] = rule_id_array[g]
    BY <2>2 DEF Live
  <2>4. rule_id_array'[h] = e
    BY <2>2
  <2>5. NTypeOK'
    BY <1>1, <1>3, <1>4, <2>2, TypeMeans, TypeNext
  <2>6. HandlesName'
    <3> SUFFICES ASSUME NEW g \in Live'
                 PROVE  /\ tab'[rule_id_array'[g]].enable /\ ~tab'[rule_id_array'[g]].dead
                        /\ tab'[rule_id_array'[g]].rule \in Rule
                        /\ tab'[rule_id_array'[g]].index \in Usable
      BY DEF HandlesName
    <3>1. CASE g = h
      BY <1>6, <2>1, <2>4, <3>1
    <3>2. CASE g \in Live
      BY <1>8, <2>3, <3>2
    <3> QED
      BY <2>2, <3>1, <3>2
  <2>7. HandlesDiffer'
    <3> SUFFICES ASSUME NEW f \in Live', NEW g \in Live', rule_id_array'[f] = rule_id_array'[g]
                 PROVE  f = g
      BY DEF HandlesDiffer
    <3>1. \A k \in Live : rule_id_array'[k] # e
      BY <1>7, <2>3
    <3>2. CASE f \in Live /\ g \in Live
      <4>1. rule_id_array[f] = rule_id_array[g]
        BY <2>3, <3>2
      <4> QED
        BY <3>2, <4>1 DEF HandleInv, HandlesDiffer
    <3>3. CASE f = h \/ g = h
      BY <2>2, <2>4, <3>1, <3>3
    <3> QED
      BY <2>2, <3>2, <3>3
  <2>8. \A g \in Live : SameRuleOf(g)
    BY <1>8, <2>3 DEF SameRuleOf
  <2>9. tab'[rule_id_array'[h]].rule = r
    BY <1>6, <2>4
  <2>10. \E f \in Handles \ Live : Live' = Live \cup {f} /\ tab'[rule_id_array'[f]].rule = r
    BY <2>2, <2>9
  <2>11. HandleInv'
    BY <2>5, <2>6, <2>7 DEF HandleInv
  <2> QED
    BY <2>8, <2>10, <2>11
<1> QED
  BY <1>9, <1>10

(* The parts of a deletion: the entry a handle names, and its index entry. *)
LEMMA DelRuleParts ==
  ASSUME HandleInv, NEW h \in Handles, DelRule(h)
  PROVE  \E e, i \in Usable, t \in RuleTbl :
           /\ e = rule_id_array[h] /\ i = tab[e].index /\ h \in Live
           /\ tab[e].enable /\ ~tab[e].dead
           /\ UnlinkIndex(i) /\ t = Renamed(Unlinked(e), i) /\ tab' = DelDeadHeads(t)
           /\ rule_id_array' = [rule_id_array EXCEPT ![h] = None]
           /\ valid' = valid
<1> DEFINE e == rule_id_array[h]
           i == tab[e].index
<1>1. h \in Live
  BY DEF DelRule, Parses, Live
<1>2. e \in Usable
  BY <1>1, LiveEntry DEF HandleInv
<1>3. i \in Usable /\ ~tab[e].dead
  BY <1>1 DEF HandleInv, HandlesName
<1>4. /\ tab[e].enable /\ UnlinkIndex(i) /\ tab' = DelDeadHeads(Renamed(Unlinked(e), i))
      /\ rule_id_array' = [rule_id_array EXCEPT ![h] = None] /\ valid' = valid
  BY DEF DelRule
<1> HIDE DEF e, i
<1>5. NTypeOK
  BY DEF HandleInv
<1>6. Unlinked(e) \in RuleTbl
  BY <1>2, <1>5, UnlinkedIs
<1>7. Renamed(Unlinked(e), i) \in RuleTbl
  BY <1>3, <1>5, <1>6, RenamedIs
<1>8. e = rule_id_array[h] /\ i = tab[e].index
  BY DEF e, i
<1> QED
  BY <1>1, <1>2, <1>3, <1>4, <1>7, <1>8

LEMMA HandleDel ==
  ASSUME HandleInv, NEW h \in Handles, DelRule(h)
  PROVE  /\ HandleInv'
         /\ Live' = Live \ {h}
         /\ \A g \in Live' : /\ rule_id_array'[g] = rule_id_array[g]
                             /\ tab'[rule_id_array'[g]].rule = tab[rule_id_array[g]].rule
<1>1. NTypeOK
  BY DEF HandleInv
<1>2. PICK e, i \in Usable, t \in RuleTbl :
           /\ e = rule_id_array[h] /\ i = tab[e].index /\ h \in Live
           /\ tab[e].enable /\ ~tab[e].dead
           /\ UnlinkIndex(i) /\ t = Renamed(Unlinked(e), i) /\ tab' = DelDeadHeads(t)
           /\ rule_id_array' = [rule_id_array EXCEPT ![h] = None]
           /\ valid' = valid
  BY DelRuleParts
<1>3. /\ Live' = Live \ {h}
      /\ \A g \in Handles : rule_id_array'[g] = IF g = h THEN None ELSE rule_id_array[g]
      /\ rule_id_array' \in [Handles -> Usable \cup {None}]
  BY <1>1, <1>2, OldHandle
<1>4. index' \in IndexTbl /\ meta' \in [Expn -> Usable \cup {None}]
  BY <1>1, <1>2, UnlinkIndexType
<1>5. /\ tab' \in RuleTbl
      /\ \A x \in Entries : tab'[x] = IF Gone(t, x) THEN ZeroRule ELSE t[x]
      /\ \A x \in Entries : x # e =>
           /\ SameRule(t[x], tab[x])
           /\ t[x].index =
                IF MovesHead(i) /\ x = index[index[i].next].entry THEN i ELSE tab[x].index
  <2>1. NTypeOK /\ t = Renamed(Unlinked(e), i) /\ tab' = DelDeadHeads(t)
    BY <1>1, <1>2
  <2>2. DeletedAs(e, i, t)
    BY <2>1, Deleting
  <2> QED
    BY <2>2 DEF DeletedAs
<1>6. \A g \in Live' : g \in Live /\ g # h /\ rule_id_array'[g] = rule_id_array[g]
  BY <1>3 DEF Live
<1>7. \A g \in Live' : rule_id_array[g] # e
  BY <1>2, <1>6 DEF HandleInv, HandlesDiffer
<1>8. ASSUME NEW g \in Live'
      PROVE  /\ tab'[rule_id_array'[g]].enable /\ ~tab'[rule_id_array'[g]].dead
             /\ tab'[rule_id_array'[g]].rule = tab[rule_id_array[g]].rule
             /\ tab'[rule_id_array'[g]].index \in Usable
  <2> DEFINE x == rule_id_array[g]
  <2>1. g \in Live /\ rule_id_array'[g] = x /\ x # e
    BY <1>6, <1>7
  <2>2. x \in Entries
    BY <1>1, <2>1, LiveEntry
  <2>3. tab[x].enable /\ ~tab[x].dead /\ tab[x].index \in Usable
    BY <2>1 DEF HandleInv, HandlesName
  <2> HIDE DEF x
  <2>4. SameRule(t[x], tab[x]) /\ t[x].index \in Usable
    BY <1>5, <2>1, <2>2, <2>3
  <2>5. t[x].enable /\ ~t[x].dead /\ t[x].rule = tab[x].rule
    BY <2>3, <2>4 DEF SameRule
  <2>6. tab'[x] = t[x]
    BY <1>5, <2>2, <2>5 DEF Gone
  <2> QED
    BY <2>1, <2>4, <2>5, <2>6 DEF x
<1>9. NTypeOK'
  BY <1>1, <1>2, <1>3, <1>4, <1>5, TypeMeans, TypeNext
<1>10. HandlesName'
  BY <1>6, <1>8 DEF HandleInv, HandlesName
<1>11. HandlesDiffer'
  BY <1>6 DEF HandleInv, HandlesDiffer
<1> QED
  BY <1>3, <1>6, <1>8, <1>9, <1>10, <1>11 DEF HandleInv

LEMMA HandleZeroed ==
  ASSUME Zeroed, valid' \in BOOLEAN
  PROVE  HandleInv'
<1>1. NTypeOK'
  BY ZeroedIs, TypeNext
<1>2. HandlesName' /\ HandlesDiffer'
  BY ZeroedIs DEF HandlesName, HandlesDiffer
<1> QED
  BY <1>1, <1>2 DEF HandleInv

LEMMA HandleInit == TableInit => HandleInv
<1> SUFFICES ASSUME TableInit PROVE HandleInv
  OBVIOUS
<1>1. tab \in RuleTbl /\ index \in IndexTbl
  BY ZeroEntries DEF TableInit, RuleTbl, IndexTbl
<1>2. meta \in [Expn -> Usable \cup {None}] /\ rule_id_array \in [Handles -> Usable \cup {None}]
  BY DEF TableInit
<1>3. NTypeOK
  BY <1>1, <1>2, TypeMeans DEF TableInit
<1>4. Live = {}
  BY DEF TableInit, Live
<1> QED
  BY <1>3, <1>4 DEF HandleInv, HandlesName, HandlesDiffer

LEMMA HandleStep == HandleInv /\ [TableNext]_tableVars => HandleInv'
<1> SUFFICES ASSUME HandleInv, [TableNext]_tableVars PROVE HandleInv'
  OBVIOUS
<1>1. CASE AddIpv4Tbl \/ DelIpv4Tbl
  BY <1>1, HandleZeroed DEF AddIpv4Tbl, DelIpv4Tbl
<1>2. CASE \E r \in Rule : AddRule(r)
  BY <1>2, HandleAdd
<1>3. CASE \E h \in Handles : DelRule(h)
  BY <1>3, HandleDel
<1>4. CASE UNCHANGED tableVars
  <2>1. /\ valid' = valid /\ tab' = tab /\ index' = index /\ meta' = meta
        /\ rule_id_array' = rule_id_array
    BY <1>4 DEF tableVars
  <2>2. Live' = Live
    BY <2>1 DEF Live
  <2>3. NTypeOK'
    BY <2>1 DEF HandleInv, NTypeOK
  <2> QED
    BY <2>1, <2>2, <2>3 DEF HandleInv, HandlesName, HandlesDiffer
<1> QED
  BY <1>1, <1>2, <1>3, <1>4 DEF TableNext

-----------------------------------------------------------------------------
(* The table refines the map from handles to rules.                        *)
LEMMA MapInitially == TableInit => Abstract!MapInit
<1> SUFFICES ASSUME TableInit PROVE ruleOf = Abstract!Empty
  BY DEF Abstract!MapInit
<1>1. Live = {}
  BY DEF TableInit, Live
<1>2. ruleOf = [h \in {} |-> tab[rule_id_array[h]].rule]
  BY <1>1 DEF ruleOf
<1> QED
  BY <1>2 DEF Abstract!Empty

LEMMA MapStep == HandleInv /\ [TableNext]_tableVars => [Abstract!MapNext]_ruleOf
<1> SUFFICES ASSUME HandleInv, [TableNext]_tableVars
             PROVE  Abstract!MapNext \/ ruleOf' = ruleOf
  OBVIOUS
<1>1. ruleOf' = [h \in Live' |-> tab'[rule_id_array'[h]].rule]
  BY DEF ruleOf
<1>2. DOMAIN ruleOf = Live /\ \A g \in Live : ruleOf[g] = tab[rule_id_array[g]].rule
  BY DEF ruleOf
<1>3. Abstract!Handles = Handles
  BY DEF Abstract!Handles, Handles
<1>4. CASE AddIpv4Tbl \/ DelIpv4Tbl
  <2>1. Live' = {}
    BY <1>4, ZeroedIs DEF AddIpv4Tbl, DelIpv4Tbl
  <2>2. ruleOf' = Abstract!Empty
    BY <1>1, <2>1 DEF Abstract!Empty
  <2> QED
    BY <2>2 DEF Abstract!MapNext, Abstract!DelTable
<1>5. CASE \E r \in Rule : AddRule(r)
  <2>1. PICK r \in Rule : AddRule(r)
    BY <1>5
  <2>2. \A g \in Live : SameRuleOf(g)
    BY <2>1, HandleAdd
  <2>3. \/ Live' = Live
        \/ \E h \in Handles \ Live : Live' = Live \cup {h} /\ tab'[rule_id_array'[h]].rule = r
    BY <2>1, HandleAdd
  <2>4. CASE Live' = Live
    BY <1>1, <2>2, <2>4 DEF SameRuleOf, ruleOf
  <2>5. ASSUME NEW h \in Handles \ Live, Live' = Live \cup {h}, tab'[rule_id_array'[h]].rule = r
        PROVE  Abstract!AddRule(h, r)
    <3>1. \A g \in Live' : tab'[rule_id_array'[g]].rule = IF g = h THEN r ELSE ruleOf[g]
      BY <1>2, <2>2, <2>5 DEF SameRuleOf
    <3>2. ruleOf' = [g \in DOMAIN ruleOf \cup {h} |-> IF g = h THEN r ELSE ruleOf[g]]
      BY <1>1, <1>2, <2>5, <3>1
    <3> QED
      BY <1>2, <1>3, <3>2 DEF Abstract!AddRule
  <2> QED
    BY <1>3, <2>3, <2>4, <2>5 DEF Abstract!MapNext
<1>6. CASE \E h \in Handles : DelRule(h)
  <2>1. PICK h \in Handles : DelRule(h)
    BY <1>6
  <2>2. h \in Live
    BY <2>1 DEF DelRule, Parses, Live
  <2>3. /\ Live' = Live \ {h}
        /\ \A g \in Live' : tab'[rule_id_array'[g]].rule = tab[rule_id_array[g]].rule
    BY <2>1, HandleDel
  <2>4. ruleOf' = [g \in DOMAIN ruleOf \ {h} |-> ruleOf[g]]
    BY <1>1, <1>2, <2>3
  <2>5. Abstract!DelRule(h)
    BY <1>2, <2>2, <2>4 DEF Abstract!DelRule
  <2> QED
    BY <1>3, <2>5 DEF Abstract!MapNext
<1>7. CASE UNCHANGED tableVars
  <2>1. tab' = tab /\ rule_id_array' = rule_id_array
    BY <1>7 DEF tableVars
  <2>2. Live' = Live
    BY <2>1 DEF Live
  <2> QED
    BY <2>1, <2>2 DEF ruleOf
<1> QED
  BY <1>4, <1>5, <1>6, <1>7 DEF TableNext

(* The driver (ipa_nati_add_ipv4_rule, ipa_nati_del_ipv4_rule) is the map  *)
(* from handles to rules its client takes it for, whichever of the commands*)
(* that add a rule fail: each step adds the one rule under a handle that is*)
(* free, or takes away just the one named, and leaves every other alone.   *)
THEOREM TableIsMap == TableSpec => ImplementsNatMap
<1>1. TableInit => Abstract!MapInit
  BY MapInitially
<1>2. TableInit => HandleInv
  BY HandleInit
<1>3. HandleInv /\ [TableNext]_tableVars => HandleInv'
  BY HandleStep
<1>4. HandleInv /\ [TableNext]_tableVars => [Abstract!MapNext]_ruleOf
  BY MapStep
<1> QED
  BY <1>1, <1>2, <1>3, <1>4, PTL DEF TableSpec, ImplementsNatMap, Abstract!MapSpec

-----------------------------------------------------------------------------
LEMMA LeastElement ==
  ASSUME NEW S \in SUBSET Nat, S # {}
  PROVE  \E s \in S : \A t \in S : s <= t
<1>1. PICK s \in S : \A t \in S : ~(<<t, s>> \in OpToRel(<, Nat))
  BY NatLessThanWellFounded, WFMin
<1>2. \A t \in S : ~(t < s)
  BY <1>1 DEF OpToRel
<1>3. \A t \in S : s <= t
  <2> TAKE t \in S
  <2>1. s \in Nat /\ t \in Nat /\ ~(t < s)
    BY <1>2
  <2> QED
    BY <2>1
<1> QED
  BY <1>3

(* While handles name entries of their own, one that can be looked up is   *)
(* free.                                                                   *)
LEMMA LiveCount ==
  ASSUME HandleInv
  PROVE  /\ IsFiniteSet(Live) /\ Cardinality(Live) \in Nat
         /\ Cardinality(Live) <= (TableEntries + ExpnEntries) - 2
<1>1. /\ TableEntries \in Nat /\ TableEntries > 1 /\ ExpnEntries \in Nat /\ ExpnEntries > 0
  BY NatAssumption DEF NatAssumption
<1>2. IsFiniteSet(Base) /\ Cardinality(Base) = TableEntries - 1
  BY <1>1, FS_Interval DEF Base
<1>3. IsFiniteSet(Expn) /\ Cardinality(Expn) = ExpnEntries - 1
  BY <1>1, FS_Interval DEF Expn
<1>4. Base \cap Expn = {} /\ Usable = Base \cup Expn
  BY Places DEF Usable
<1>5. IsFiniteSet(Usable) /\ Cardinality(Usable) = (TableEntries + ExpnEntries) - 2
  <2>1. Cardinality({}) = 0
    BY FS_EmptySet
  <2>2. IsFiniteSet(Base \cup Expn)
    BY <1>2, <1>3, FS_Union
  <2>3. Cardinality(Base \cup Expn) = Cardinality(Base) + Cardinality(Expn) - Cardinality(Base \cap Expn)
    BY <1>2, <1>3, FS_Union
  <2> QED
    BY <1>1, <1>2, <1>3, <1>4, <2>1, <2>2, <2>3
<1> DEFINE f == [h \in Live |-> rule_id_array[h]]
<1>6. \A h \in Live : f[h] \in Usable
  BY LiveEntry DEF HandleInv
<1>7. \A g, h \in Live : f[g] = f[h] => g = h
  BY DEF HandleInv, HandlesDiffer
<1>8. f \in [Live -> Usable]
  BY <1>6
<1>9. f \in Injection(Live, Usable)
  BY <1>7, <1>8 DEF Injection, IsInjective
<1> HIDE DEF f
<1>10. IsFiniteSet(Live) /\ Cardinality(Live) <= Cardinality(Usable)
  BY <1>5, <1>9, FS_Injection
<1>11. Cardinality(Live) \in Nat
  BY <1>10, FS_CardinalityType
<1> DEFINE N == (TableEntries + ExpnEntries) - 2
<1>12. Cardinality(Usable) = N
  BY <1>5
<1> HIDE DEF N
<1>13. Cardinality(Live) <= N
  BY <1>10, <1>12, Zenon
<1> USE DEF N
<1>14. Cardinality(Live) <= (TableEntries + ExpnEntries) - 2
  BY ONLY <1>13, Zenon DEF N
<1> QED
  BY <1>10, <1>11, <1>14, Zenon

LEMMA HandleLeft ==
  ASSUME HandleInv
  PROVE  FirstHandle # {} /\ \A h \in FirstHandle : h < TableEntries + ExpnEntries
<1> DEFINE N == TableEntries + ExpnEntries
<1>1. N \in Nat /\ N >= 3 /\ Handles = 1 .. N
  BY NatAssumption DEF NatAssumption, Handles
<1> HIDE DEF N
<1>2. Live \subseteq Handles
  BY DEF Live
<1>3. IsFiniteSet(Live) /\ Cardinality(Live) \in Nat /\ Cardinality(Live) <= N - 2
  <2>1. /\ IsFiniteSet(Live) /\ Cardinality(Live) \in Nat
        /\ Cardinality(Live) <= (TableEntries + ExpnEntries) - 2
    BY LiveCount
  <2>2. N = TableEntries + ExpnEntries
    BY DEF N
  <2> QED
    BY <2>1, <2>2, Zenon
<1>4. ASSUME NEW n \in Nat, 1 .. n \subseteq Live PROVE n <= N - 2
  <2>1. n \in Int /\ 1 \in Int
    OBVIOUS
  <2>2. Cardinality(1 .. n) = IF 1 > n THEN 0 ELSE n - 1 + 1
    BY <2>1, FS_Interval
  <2>3. Cardinality(1 .. n) <= Cardinality(Live)
    BY <1>3, <1>4, FS_Subset
  <2> QED
    BY <1>1, <1>3, <2>2, <2>3
<1>5. Handles \ Live # {}
  <2> SUFFICES ASSUME Handles \ Live = {} PROVE FALSE
    OBVIOUS
  <2>1. 1 .. N \subseteq Live
    BY <1>1
  <2>2. N <= N - 2
    BY <1>1, <1>4, <2>1
  <2> QED
    BY <1>1, <2>2
<1>6. \E h \in Handles \ Live : \A g \in Handles \ Live : h <= g
  <2>1. Handles \ Live \in SUBSET Nat
    BY <1>1
  <2> QED
    BY <1>5, <2>1, LeastElement
<1>7. FirstHandle # {}
  BY <1>6 DEF FirstHandle
<1>8. ASSUME NEW h \in FirstHandle PROVE h < N
  <2>1. h \in 1 .. N /\ \A g \in Handles \ Live : h <= g
    BY <1>1 DEF FirstHandle
  <2>2. h - 1 \in Nat
    BY <1>1, <2>1
  <2>3. ASSUME NEW g \in 1 .. (h - 1) PROVE g \in Live
    <3>1. g \in Handles /\ ~(h <= g)
      BY <1>1, <2>1
    <3> QED
      BY <2>1, <3>1
  <2>4. h - 1 <= N - 2
    BY <1>4, <2>2, <2>3
  <2> QED
    BY <1>1, <2>1, <2>4
<1> QED
  BY <1>7, <1>8 DEF N

-----------------------------------------------------------------------------
(* The chains are kept while no command fails.                             *)
LEMMA EmptyLinked ==
  ASSUME NEW t, NEW pv, NEW hm, \A x \in Usable : t[x].next = None
  PROVE  Linked(t, pv, {}, hm)
BY DEF Linked, LinksForth, LinksBack, Homes, Reached

LEMMA EmptyChains ==
  ASSUME \A x \in Entries : tab[x] = ZeroRule /\ index[x] = ZeroIndex, Live = {}
  PROVE  ChainInv
<1>1. \A x \in Usable : /\ ~tab[x].enable /\ ~tab[x].dead /\ tab[x].next = None
                        /\ index[x].entry = None /\ index[x].next = None
  BY Places, ZeroEntries
<1>2. EnabledOf(tab) = {} /\ NamedOf(index) = {}
  BY <1>1 DEF EnabledOf, NamedOf
<1>3. TabLinked /\ IndexLinked
  BY <1>1, <1>2, EmptyLinked DEF TabLinked, IndexLinked
<1>4. EntriesRight /\ NamesRight /\ HandlesParse
  BY <1>1 DEF EntriesRight, NamesRight, HandlesParse
<1> QED
  BY <1>3, <1>4 DEF ChainInv

LEMMA ChainZeroed ==
  ASSUME Zeroed
  PROVE  ChainInv'
<1>1. \A x \in Usable : /\ ~tab'[x].enable /\ ~tab'[x].dead /\ tab'[x].next = None
                        /\ index'[x].entry = None /\ index'[x].next = None
  BY ZeroedIs, Places, ZeroEntries
<1>2. EnabledOf(tab') = {} /\ NamedOf(index') = {}
  BY <1>1 DEF EnabledOf, NamedOf
<1>3. TabLinked' /\ IndexLinked'
  BY <1>1, <1>2, EmptyLinked DEF TabLinked, IndexLinked
<1>4. EntriesRight' /\ NamesRight' /\ HandlesParse'
  BY <1>1, ZeroedIs DEF EntriesRight, NamesRight, HandlesParse
<1> QED
  BY <1>3, <1>4 DEF ChainInv

LEMMA ChainInit == TableInit => ChainInv
<1> SUFFICES ASSUME TableInit PROVE ChainInv
  OBVIOUS
<1>1. \A x \in Entries : tab[x] = ZeroRule /\ index[x] = ZeroIndex
  BY DEF TableInit
<1>2. Live = {}
  BY DEF TableInit, Live
<1> QED
  BY <1>1, <1>2, EmptyChains

-----------------------------------------------------------------------------
(* An addition that links the rule in both of its chains.                  *)
LEMMA FieldsOf ==
  ASSUME NEW t
  PROVE  /\ EnabledOf(t) \subseteq Usable
         /\ \A e \in Usable : e \in EnabledOf(t) <=> t[e].enable
         /\ \A e \in Usable : DstOf(t)[e] = Dst(t[e].rule)
         /\ \A e \in Expn : PrevOf(t)[e] = t[e].prev
BY DEF EnabledOf, DstOf, PrevOf

LEMMA IndexFieldsOf ==
  ASSUME NEW t, NEW x
  PROVE  /\ NamedOf(x) \subseteq Usable
         /\ \A i \in Usable : i \in NamedOf(x) <=> x[i].entry # None
         /\ \A i \in Usable : SrcOf(t, x)[i] = Src(t[x[i].entry].rule)
BY DEF NamedOf, SrcOf

LEMMA LinkedMeans ==
  ASSUME NEW t, NEW pv, NEW U, NEW hm, Linked(t, pv, U, hm)
  PROVE  /\ U \subseteq Usable
         /\ \A x \in Usable : x \notin U => t[x].next = None
         /\ \A x \in U : x \in Base => hm[x] = x
         /\ \A x \in U : hm[x] \in Base
BY DEF Linked, LinksForth, Homes

Appended(r, e, p, i, q) == AddedAs(r, e, p, i, q, TRUE, TRUE, TRUE)

AppendedTo(r, e, p, i) ==
  /\ tab'[e].rule = r /\ tab'[e].enable /\ ~tab'[e].dead
  /\ tab'[e].index = i /\ tab'[e].prev = p
  /\ \A x \in Usable : x # e =>
       /\ tab'[x].rule = tab[x].rule /\ tab'[x].enable = tab[x].enable
       /\ tab'[x].dead = tab[x].dead /\ tab'[x].index = tab[x].index
       /\ tab'[x].prev = tab[x].prev
  /\ p # None => tab'[p].next = e
  /\ \A x \in Usable : x # p => tab'[x].next = IF x = e THEN None ELSE tab[x].next

LEMMA AppendedTab ==
  ASSUME NEW r \in Rule, NEW e \in Usable, NEW i \in Usable,
         NEW p \in Usable \cup {None}, NEW q \in Usable \cup {None}, Appended(r, e, p, i, q)
  PROVE  AppendedTo(r, e, p, i)
<1>1. \A x \in Usable : x \in Entries /\ x # None
  BY Places
<1>2. SameEntry(tab'[e], NewEntry(r, p, i, TRUE)) /\ tab'[e].prev = p
  BY DEF Appended, AddedAs
<1>3. tab'[e].rule = r /\ tab'[e].enable /\ ~tab'[e].dead /\ tab'[e].index = i
  BY <1>2 DEF SameEntry, SameRule, NewEntry
<1>4. \A x \in Usable : x # e => SameEntry(tab'[x], tab[x]) /\ tab'[x].prev = tab[x].prev
  BY <1>1 DEF Appended, AddedAs
<1>5. \A x \in Usable : x # e =>
        /\ tab'[x].rule = tab[x].rule /\ tab'[x].enable = tab[x].enable
        /\ tab'[x].dead = tab[x].dead /\ tab'[x].index = tab[x].index
        /\ tab'[x].prev = tab[x].prev
  BY <1>4 DEF SameEntry, SameRule
<1>6. p # None => tab'[p].next = e
  BY DEF Appended, AddedAs
<1>7. \A x \in Usable : x # p => tab'[x].next = IF x = e THEN None ELSE tab[x].next
  BY <1>1 DEF Appended, AddedAs
<1> QED
  BY <1>2, <1>3, <1>5, <1>6, <1>7 DEF AppendedTo

LEMMA AppendedIndex ==
  ASSUME NEW r \in Rule, NEW e \in Usable, NEW i \in Usable,
         NEW p \in Usable \cup {None}, NEW q \in Usable \cup {None}, Appended(r, e, p, i, q)
  PROVE  /\ \A x \in Usable : index'[x].entry = IF x = i THEN e ELSE index[x].entry
         /\ q # None => index'[q].next = i
         /\ \A x \in Usable : x # q => index'[x].next = IF x = i THEN None ELSE index[x].next
         /\ \A x \in Expn : meta'[x] = IF x = i THEN q ELSE meta[x]
<1>1. \A x \in Usable : x \in Entries /\ x # None
  BY Places
<1> QED
  BY <1>1 DEF Appended, AddedAs

LEMMA AddTab ==
  ASSUME NTypeOK, TabLinked, NEW r \in Rule, NEW e \in Usable, NEW i \in Usable,
         NEW p \in Usable \cup {None}, NEW q \in Usable \cup {None},
         TblEntry(r, e, p), Appended(r, e, p, i, q)
  PROVE  TabLinked'
<1> DEFINE U   == EnabledOf(tab)
           U2  == EnabledOf(tab')
           pv  == PrevOf(tab)
           pv2 == PrevOf(tab')
           hm  == DstOf(tab)
           hm2 == DstOf(tab')
<1>1. /\ ~tab[e].enable
      /\ \/ e = Dst(r) /\ p = None
         \/ e \in Expn /\ p # None /\ tab[Dst(r)].enable /\ IsLast(tab, Dst(r), p)
  BY TblEntryIs
<1>2. /\ tab'[e].rule = r /\ tab'[e].enable /\ tab'[e].prev = p
      /\ \A x \in Usable : x # e =>
              /\ tab'[x].rule = tab[x].rule /\ tab'[x].enable = tab[x].enable
              /\ tab'[x].prev = tab[x].prev
      /\ p # None => tab'[p].next = e
      /\ \A x \in Usable : x # p => tab'[x].next = IF x = e THEN None ELSE tab[x].next
  <2>1. AppendedTo(r, e, p, i)
    BY AppendedTab
  <2> QED
    BY <2>1 DEF AppendedTo
<1>3. Dst(r) \in Base
  BY HashesToBase
<1>4. /\ \A x \in Expn : x \in Usable
      /\ \A x \in Base : x \in Usable /\ x \notin Expn
      /\ None \notin Usable
  BY Places
<1>5. Linked(tab, pv, U, hm)
  BY DEF TabLinked
<1>6. /\ \A x \in Usable : x \in U <=> tab[x].enable
      /\ \A x \in Usable : x \in U2 <=> tab'[x].enable
      /\ U \subseteq Usable /\ U2 \subseteq Usable
  BY FieldsOf
<1>7. /\ \A x \in Usable : hm[x] = Dst(tab[x].rule)
      /\ \A x \in Usable : hm2[x] = Dst(tab'[x].rule)
  BY FieldsOf
<1>8. /\ \A x \in Expn : pv[x] = tab[x].prev
      /\ \A x \in Expn : pv2[x] = tab'[x].prev
  BY FieldsOf
<1>9. /\ \A x \in Usable : x \notin U => tab[x].next = None
      /\ \A x \in U : x \in Base => hm[x] = x
  BY <1>5, LinkedMeans
<1>10. TabLinked' <=> Linked(tab', pv2, U2, hm2)
  BY DEF TabLinked
<1> HIDE DEF U, U2, pv, pv2, hm, hm2
<1>11. e \notin U /\ tab[e].next = None
  BY <1>1, <1>6, <1>9
<1>12. U2 = U \cup {e}
  <2>1. \A x \in Usable : x \in U2 <=> x \in U \/ x = e
    BY <1>2, <1>6
  <2> QED
    BY <1>6, <2>1
<1>13. /\ hm2[e] = Dst(r)
       /\ \A x \in U : hm2[x] = hm[x]
  BY <1>2, <1>6, <1>7, <1>11
<1>14. \A x \in Expn : x \in U => pv2[x] = pv[x]
  BY <1>2, <1>4, <1>8, <1>11
<1>15. CASE e = Dst(r) /\ p = None
  <2>1. \A x \in Usable : tab'[x].next = tab[x].next
    BY <1>2, <1>4, <1>11, <1>15
  <2>2. \A x \in Usable : x \notin U2 => tab'[x].next = None
    BY <1>9, <1>12, <2>1
  <2>3. \A x \in Expn : x \in U2 <=> x \in U
    BY <1>3, <1>4, <1>12, <1>15
  <2>4. \A x \in Expn : x \in U => pv2[x] = pv[x] /\ hm2[x] = hm[x]
    BY <1>13, <1>14
  <2>5. \A x \in Base : x \in U2 => hm2[x] = x
    BY <1>9, <1>12, <1>13, <1>15
  <2> QED
    BY <1>5, <1>6, <1>10, <2>1, <2>2, <2>3, <2>4, <2>5, HeadsChange
<1>16. CASE e \in Expn /\ p # None /\ tab[Dst(r)].enable /\ IsLast(tab, Dst(r), p)
  <2> DEFINE h == Dst(r)
  <2>1. h \in U /\ h \in Base /\ IsLast(tab, h, p) /\ hm2[e] = h
    BY <1>3, <1>4, <1>6, <1>13, <1>16
  <2> HIDE DEF h
  <2>2. p \in U
    BY <1>5, <2>1, ChainIsUsed DEF IsLast
  <2>3. p # e
    BY <1>11, <2>2
  <2>4. tab'[p].next = e /\ tab'[e].next = None /\ pv2[e] = p
    BY <1>2, <1>8, <1>16, <2>3
  <2>5. \A x \in Usable : x # p /\ x # e => tab'[x].next = tab[x].next
    BY <1>2
  <2> QED
    BY <1>5, <1>10, <1>11, <1>12, <1>13, <1>14, <1>16, <2>1, <2>4, <2>5, AppendLinked
<1> QED
  BY <1>1, <1>15, <1>16

LEMMA AddIndex ==
  ASSUME NTypeOK, IndexLinked, NamesRight, NEW r \in Rule, NEW e \in Usable, NEW i \in Usable,
         NEW p \in Usable \cup {None}, NEW q \in Usable \cup {None}, ~tab[e].enable,
         IndexEntry(r, i, q), Appended(r, e, p, i, q)
  PROVE  IndexLinked'
<1> DEFINE U   == NamedOf(index)
           U2  == NamedOf(index')
           hm  == SrcOf(tab, index)
           hm2 == SrcOf(tab', index')
<1>1. /\ index[i].entry = None
      /\ \/ i = Src(r) /\ q = None
         \/ i \in Expn /\ q # None /\ index[Src(r)].entry # None /\ IsLast(index, Src(r), q)
  BY IndexEntryIs
<1>2. /\ \A x \in Usable : index'[x].entry = IF x = i THEN e ELSE index[x].entry
      /\ q # None => index'[q].next = i
      /\ \A x \in Usable : x # q => index'[x].next = IF x = i THEN None ELSE index[x].next
      /\ \A x \in Expn : meta'[x] = IF x = i THEN q ELSE meta[x]
  BY AppendedIndex
<1>3. Src(r) \in Base
  BY HashesToBase
<1>4. /\ \A x \in Expn : x \in Usable
      /\ \A x \in Base : x \in Usable /\ x \notin Expn
      /\ None \notin Usable
  BY Places
<1>5. Linked(index, meta, U, hm)
  BY DEF IndexLinked
<1>6. /\ \A x \in Usable : x \in U <=> index[x].entry # None
      /\ \A x \in Usable : x \in U2 <=> index'[x].entry # None
      /\ U \subseteq Usable /\ U2 \subseteq Usable
  BY IndexFieldsOf
<1>7. /\ \A x \in Usable : hm[x] = Src(tab[index[x].entry].rule)
      /\ \A x \in Usable : hm2[x] = Src(tab'[index'[x].entry].rule)
  BY IndexFieldsOf
<1>8. tab'[e].rule = r /\ \A x \in Usable : x # e => tab'[x].rule = tab[x].rule
  <2>1. AppendedTo(r, e, p, i)
    BY AppendedTab
  <2> QED
    BY <2>1 DEF AppendedTo
<1>9. /\ \A x \in Usable : x \notin U => index[x].next = None
      /\ \A x \in U : x \in Base => hm[x] = x
  BY <1>5, LinkedMeans
<1>10. IndexLinked' <=> Linked(index', meta', U2, hm2)
  BY DEF IndexLinked
<1> HIDE DEF U, U2, hm, hm2
<1>11. i \notin U /\ index[i].next = None
  BY <1>1, <1>6, <1>9
<1>12. U2 = U \cup {i}
  <2>1. \A x \in Usable : x \in U2 <=> x \in U \/ x = i
    BY <1>2, <1>4, <1>6
  <2> QED
    BY <1>6, <2>1
<1>13. \A x \in U : index[x].entry \in Usable /\ index[x].entry # e
  <2> SUFFICES ASSUME NEW x \in U PROVE index[x].entry \in Usable /\ index[x].entry # e
    OBVIOUS
  <2>1. x \in Usable /\ x \in Entries /\ index[x].entry # None
    BY <1>6, Places
  <2>2. index[x].entry \in Usable
    BY <2>1, TypeMeans, IndexFields
  <2> QED
    BY <2>1, <2>2 DEF NamesRight
<1>14. /\ hm2[i] = Src(r)
       /\ \A x \in U : hm2[x] = hm[x]
  BY <1>2, <1>6, <1>7, <1>8, <1>11, <1>13
<1>15. \A x \in Expn : x \in U => meta'[x] = meta[x]
  BY <1>2, <1>11
<1>16. CASE i = Src(r) /\ q = None
  <2>1. \A x \in Usable : index'[x].next = index[x].next
    BY <1>2, <1>4, <1>11, <1>16
  <2>2. \A x \in Usable : x \notin U2 => index'[x].next = None
    BY <1>9, <1>12, <2>1
  <2>3. \A x \in Expn : x \in U2 <=> x \in U
    BY <1>3, <1>4, <1>12, <1>16
  <2>4. \A x \in Expn : x \in U => meta'[x] = meta[x] /\ hm2[x] = hm[x]
    BY <1>14, <1>15
  <2>5. \A x \in Base : x \in U2 => hm2[x] = x
    BY <1>9, <1>12, <1>14, <1>16
  <2> QED
    BY <1>5, <1>6, <1>10, <2>1, <2>2, <2>3, <2>4, <2>5, HeadsChange
<1>17. CASE i \in Expn /\ q # None /\ index[Src(r)].entry # None /\ IsLast(index, Src(r), q)
  <2> DEFINE h == Src(r)
  <2>1. h \in U /\ h \in Base /\ IsLast(index, h, q) /\ hm2[i] = h
    BY <1>3, <1>4, <1>6, <1>14, <1>17
  <2> HIDE DEF h
  <2>2. q \in U
    BY <1>5, <2>1, ChainIsUsed DEF IsLast
  <2>3. q # i
    BY <1>11, <2>2
  <2>4. index'[q].next = i /\ index'[i].next = None /\ meta'[i] = q
    BY <1>2, <1>17, <2>3
  <2>5. \A x \in Usable : x # q /\ x # i => index'[x].next = index[x].next
    BY <1>2
  <2> QED
    BY <1>5, <1>10, <1>11, <1>12, <1>14, <1>15, <1>17, <2>1, <2>4, <2>5, AppendLinked
<1> QED
  BY <1>1, <1>16, <1>17

LEMMA AddChain ==
  ASSUME HandleInv, ChainInv, ~AddFaults, NEW r \in Rule, AddRule(r)
  PROVE  ChainInv'
<1>1. NTypeOK
  BY DEF HandleInv
<1>2. PICK e, i \in Usable, p, q \in Usable \cup {None} :
        /\ TblEntry(r, e, p) /\ IndexEntry(r, i, q)
        /\ Add(r, e, p, i, q, TRUE, TRUE, TRUE)
  <2>1. PICK e, i \in Usable, p, q \in Usable \cup {None}, linked, indexed, enabled \in BOOLEAN :
               /\ TblEntry(r, e, p) /\ IndexEntry(r, i, q)
               /\ Add(r, e, p, i, q, linked, indexed, enabled)
               /\ ~AddFaults => linked /\ indexed /\ enabled
    BY AddRuleParts
  <2>2. linked = TRUE /\ indexed = TRUE /\ enabled = TRUE
    BY <2>1
  <2>3. Add(r, e, p, i, q, TRUE, TRUE, TRUE)
    BY <2>1, <2>2
  <2> QED
    BY <2>1, <2>3
<1>3. Appended(r, e, p, i, q)
  <2>1. TRUE \in BOOLEAN
    OBVIOUS
  <2>2. AddedAs(r, e, p, i, q, TRUE, TRUE, TRUE)
    BY <1>1, <1>2, <2>1, Adding
  <2> QED
    BY <2>2 DEF Appended
<1>4. ~tab[e].enable
  BY <1>1, <1>2, TblEntryIs
<1>5. index[i].entry = None
  BY <1>1, <1>2, IndexEntryIs
<1>6. TabLinked'
  BY <1>1, <1>2, <1>3, AddTab DEF ChainInv
<1>7. IndexLinked'
  BY <1>1, <1>2, <1>3, <1>4, AddIndex DEF ChainInv
<1>8. FirstHandle # {} /\ \A h \in FirstHandle : h < TableEntries + ExpnEntries
  BY HandleLeft
<1>9. PICK k \in FirstHandle : rule_id_array' = [rule_id_array EXCEPT ![k] = e]
  <2>1. AddedHandle(e, TRUE)
    BY <1>3 DEF Appended, AddedAs
  <2> QED
    BY <1>8, <2>1 DEF AddedHandle
<1>10. /\ k \in Handles /\ k \notin Live /\ Live' = Live \cup {k}
       /\ \A g \in Handles : rule_id_array'[g] = IF g = k THEN e ELSE rule_id_array[g]
  BY <1>1, <1>9, NewHandle
<1>11. HandlesParse'
  BY <1>8, <1>9, <1>10 DEF ChainInv, HandlesParse
<1>12. AppendedTo(r, e, p, i)
  BY <1>2, <1>3, AppendedTab
<1>13. \A x \in Usable : index'[x].entry = IF x = i THEN e ELSE index[x].entry
  BY <1>2, <1>3, AppendedIndex
<1>14. rule_id_array[k] = None
  BY <1>10, LiveIs
<1>15. None \notin Usable
  BY Places
<1>16. EntriesRight'
  <2> SUFFICES ASSUME NEW x \in Usable
               PROVE  /\ tab'[x].enable => tab'[x].rule \in Rule
                      /\ tab'[x].dead => tab'[x].enable /\ x \in Base /\ tab'[x].next # None
                      /\ tab'[x].enable /\ ~tab'[x].dead =>
                           /\ tab'[x].index \in Usable /\ index'[tab'[x].index].entry = x
                           /\ \E h \in Handles : rule_id_array'[h] = x
    BY DEF EntriesRight
  <2>1. CASE x = e
    <3>1. tab'[x].rule = r /\ tab'[x].enable /\ ~tab'[x].dead /\ tab'[x].index = i
      BY <1>12, <2>1 DEF AppendedTo
    <3>2. index'[i].entry = x /\ rule_id_array'[k] = x
      BY <1>2, <1>10, <1>13, <2>1
    <3> QED
      BY <1>2, <1>10, <3>1, <3>2
  <2>2. CASE x # e
    <3>1. /\ tab'[x].rule = tab[x].rule /\ tab'[x].enable = tab[x].enable
          /\ tab'[x].dead = tab[x].dead /\ tab'[x].index = tab[x].index
      BY <1>12, <2>2 DEF AppendedTo
    <3>2. tab[x].next # None => tab'[x].next # None
      BY <1>2, <1>12, <1>15, <2>2 DEF AppendedTo
    <3>3. /\ tab[x].enable => tab[x].rule \in Rule
          /\ tab[x].dead => tab[x].enable /\ x \in Base /\ tab[x].next # None
          /\ tab[x].enable /\ ~tab[x].dead =>
               /\ tab[x].index \in Usable /\ index[tab[x].index].entry = x
               /\ \E h \in Handles : rule_id_array[h] = x
      BY DEF ChainInv, EntriesRight
    <3>4. ASSUME tab[x].index \in Usable, index[tab[x].index].entry = x
          PROVE  index'[tab[x].index].entry = x
      BY <1>5, <1>13, <1>15, <3>4
    <3>5. ASSUME NEW h \in Handles, rule_id_array[h] = x
          PROVE  rule_id_array'[h] = x
      BY <1>10, <1>14, <1>15, <3>5
    <3> QED
      BY <3>1, <3>2, <3>3, <3>4, <3>5
  <2> QED
    BY <2>1, <2>2
<1>17. NamesRight'
  <2> SUFFICES ASSUME NEW x \in Usable, index'[x].entry # None
               PROVE  /\ tab'[index'[x].entry].enable /\ ~tab'[index'[x].entry].dead
                      /\ tab'[index'[x].entry].index = x
    BY DEF NamesRight
  <2>1. CASE x = i
    <3>1. index'[x].entry = e
      BY <1>13, <2>1
    <3> QED
      BY <1>12, <2>1, <3>1 DEF AppendedTo
  <2>2. CASE x # i
    <3>1. index'[x].entry = index[x].entry
      BY <1>13, <2>2
    <3> DEFINE f == index[x].entry
    <3>2. /\ tab[f].enable /\ ~tab[f].dead /\ tab[f].index = x
      BY <3>1 DEF ChainInv, NamesRight
    <3>3. f \in Usable
      <4>1. x \in Entries /\ index \in IndexTbl
        BY <1>1, Places, TypeMeans
      <4>2. f \in Usable \cup {None}
        BY <4>1, IndexFields
      <4> QED
        BY <3>1, <4>2
    <3> HIDE DEF f
    <3>4. f # e
      BY <1>4, <3>2
    <3>5. tab'[f].enable = tab[f].enable /\ tab'[f].dead = tab[f].dead /\ tab'[f].index = tab[f].index
      BY <1>12, <3>3, <3>4 DEF AppendedTo
    <3>6. tab'[f].enable /\ ~tab'[f].dead /\ tab'[f].index = x
      BY <3>2, <3>5
    <3> QED
      BY <3>1, <3>6 DEF f
  <2> QED
    BY <2>1, <2>2
<1> QED
  BY <1>6, <1>7, <1>11, <1>16, <1>17 DEF ChainInv

-----------------------------------------------------------------------------
(* A deletion.  What it leaves of the rules ...                            *)
Serves(x) == tab[x].enable /\ ~tab[x].dead

RulesKept(e, i) ==
  /\ \A x \in Usable : x # e /\ Serves(x) =>
       /\ tab'[x].enable /\ ~tab'[x].dead /\ tab'[x].rule = tab[x].rule
       /\ tab'[x].index =
            IF MovesHead(i) /\ x = index[index[i].next].entry THEN i ELSE tab[x].index
  /\ \A x \in Usable : tab'[x].enable /\ ~tab'[x].dead => x # e /\ Serves(x)
  /\ \A x \in Usable : tab'[x].enable => tab'[x].rule \in Rule
  /\ \A x \in Usable : tab'[x].dead => tab'[x].enable /\ x \in Base /\ tab'[x].next # None

LEMMA DelRules ==
  ASSUME EntriesRight, NEW e \in Usable, NEW i \in Usable, NEW t,
         DeletedAs(e, i, t), tab[e].enable, ~tab[e].dead
  PROVE  RulesKept(e, i)
<1>1. \A x \in Usable : x \in Entries
  BY Places
<1>2. \A x \in Usable : tab'[x] = IF Gone(t, x) THEN ZeroRule ELSE t[x]
  BY <1>1 DEF DeletedAs
<1>3. \A x \in Usable : x # e =>
        /\ SameRule(t[x], tab[x])
        /\ t[x].index =
             IF MovesHead(i) /\ x = index[index[i].next].entry THEN i ELSE tab[x].index
  BY <1>1 DEF DeletedAs
<1>4. \A x \in Usable : x # e =>
        t[x].rule = tab[x].rule /\ t[x].enable = tab[x].enable /\ t[x].dead = tab[x].dead
  BY <1>3 DEF SameRule
<1>5. /\ ~StaysDead(e) => ~t[e].enable /\ ~t[e].dead
      /\ StaysDead(e) => /\ t[e].dead = TRUE /\ t[e].rule = tab[e].rule
                         /\ t[e].enable = tab[e].enable
  BY DEF DeletedAs
<1>6. \A x \in Usable : /\ tab[x].enable => tab[x].rule \in Rule
                        /\ tab[x].dead => tab[x].enable /\ x \in Base
  BY DEF EntriesRight
<1>7. ~ZeroRule.enable /\ ~ZeroRule.dead
  BY ZeroEntries
<1>8. ASSUME NEW x \in Usable, x # e, Serves(x)
      PROVE  /\ tab'[x].enable /\ ~tab'[x].dead /\ tab'[x].rule = tab[x].rule
             /\ tab'[x].index =
                  IF MovesHead(i) /\ x = index[index[i].next].entry THEN i ELSE tab[x].index
  <2>1. t[x].enable /\ ~t[x].dead /\ t[x].rule = tab[x].rule
    BY <1>4, <1>8 DEF Serves
  <2>2. tab'[x] = t[x]
    BY <1>2, <2>1 DEF Gone
  <2> QED
    BY <1>3, <1>8, <2>1, <2>2
<1>9. ASSUME NEW x \in Usable, tab'[x].enable \/ tab'[x].dead
      PROVE  tab'[x] = t[x] /\ ~Gone(t, x)
  BY <1>2, <1>7, <1>9
<1>10. ASSUME NEW x \in Usable, tab'[x].enable, ~tab'[x].dead
       PROVE  x # e /\ Serves(x)
  <2>1. t[x].enable /\ ~t[x].dead
    BY <1>9, <1>10
  <2>2. x # e
    BY <1>5, <2>1
  <2> QED
    BY <1>4, <2>1, <2>2 DEF Serves
<1>11. ASSUME NEW x \in Usable, tab'[x].enable
       PROVE  tab'[x].rule \in Rule
  <2>1. t[x].enable /\ tab'[x].rule = t[x].rule
    BY <1>9, <1>11
  <2>2. CASE x = e
    BY <1>5, <1>6, <2>1, <2>2
  <2>3. CASE x # e
    BY <1>4, <1>6, <2>1, <2>3
  <2> QED
    BY <2>2, <2>3
<1>12. ASSUME NEW x \in Usable, tab'[x].dead
       PROVE  tab'[x].enable /\ x \in Base /\ tab'[x].next # None
  <2>1. tab'[x] = t[x] /\ t[x].dead /\ ~Gone(t, x)
    BY <1>9, <1>12
  <2>2. t[x].enable /\ x \in Base
    <3>1. CASE x = e
      BY <1>5, <2>1, <3>1 DEF StaysDead
    <3>2. CASE x # e
      BY <1>4, <1>6, <2>1, <3>2
    <3> QED
      BY <3>1, <3>2
  <2> QED
    BY <2>1, <2>2 DEF Gone
<1> QED
  BY <1>8, <1>10, <1>11, <1>12 DEF RulesKept

(* ... of the chains of the rule table ...                                 *)
LEMMA DelTab ==
  ASSUME NTypeOK, TabLinked, NEW e \in Usable, NEW i \in Usable, NEW t,
         DeletedAs(e, i, t), tab[e].enable
  PROVE  TabLinked'
<1> DEFINE U   == EnabledOf(tab)
           V   == EnabledOf(t)
           U2  == EnabledOf(tab')
           pv  == PrevOf(tab)
           qv  == PrevOf(t)
           pv2 == PrevOf(tab')
           hm  == DstOf(tab)
           gm  == DstOf(t)
           hm2 == DstOf(tab')
<1>1. /\ \A x \in Usable : x \in Entries
      /\ \A x \in Expn : x \in Usable
      /\ \A x \in Base : x \in Usable /\ x \notin Expn
      /\ \A x \in Usable : x \in Base \/ x \in Expn
      /\ None \notin Usable
  BY Places
<1>2. /\ \A x \in Usable : x # e =>
           /\ t[x].rule = tab[x].rule /\ t[x].enable = tab[x].enable
           /\ t[x].next = IF e \in Expn /\ x = tab[e].prev THEN tab[e].next ELSE tab[x].next
           /\ t[x].prev = IF e \in Expn /\ x = tab[e].next /\ tab[e].next # None
                            THEN tab[e].prev ELSE tab[x].prev
  BY <1>1 DEF DeletedAs, SameRule
<1>3. /\ ~StaysDead(e) => ~t[e].enable /\ t[e].next = None
      /\ StaysDead(e) =>
           /\ t[e].next = tab[e].next /\ t[e].prev = tab[e].prev
           /\ t[e].rule = tab[e].rule /\ t[e].enable = tab[e].enable
  BY DEF DeletedAs
<1>4. \A x \in Usable : tab'[x] = IF Gone(t, x) THEN ZeroRule ELSE t[x]
  BY <1>1 DEF DeletedAs
<1>5. Linked(tab, pv, U, hm)
  BY DEF TabLinked
<1>6. /\ U \subseteq Usable /\ V \subseteq Usable /\ U2 \subseteq Usable
      /\ \A x \in Usable : x \in U <=> tab[x].enable
      /\ \A x \in Usable : x \in V <=> t[x].enable
      /\ \A x \in Usable : x \in U2 <=> tab'[x].enable
  BY FieldsOf
<1>7. /\ \A x \in Usable : hm[x] = Dst(tab[x].rule)
      /\ \A x \in Usable : gm[x] = Dst(t[x].rule)
      /\ \A x \in Usable : hm2[x] = Dst(tab'[x].rule)
  BY FieldsOf
<1>8. /\ \A x \in Expn : pv[x] = tab[x].prev
      /\ \A x \in Expn : qv[x] = t[x].prev
      /\ \A x \in Expn : pv2[x] = tab'[x].prev
  BY FieldsOf
<1>9. TabLinked' <=> Linked(tab', pv2, U2, hm2)
  BY DEF TabLinked
<1> HIDE DEF U, V, U2, pv, qv, pv2, hm, gm, hm2
<1>10. e \in U
  BY <1>6
<1>11. /\ \A x \in Usable : x \notin U => tab[x].next = None
       /\ \A x \in U : x \in Base => hm[x] = x
  BY <1>5, LinkedMeans
<1>12. \A x \in Usable : x # e => gm[x] = hm[x] /\ (x \in V <=> x \in U)
  BY <1>2, <1>6, <1>7
<1>13. ASSUME e \in Base PROVE Linked(t, qv, V, gm)
  <2>1. e \notin Expn
    BY <1>1, <1>13
  <2>2. \A x \in Usable : t[x].next = tab[x].next
    <3>1. \A x \in Usable : x # e => t[x].next = tab[x].next
      BY <1>2, <2>1
    <3>2. t[e].next = tab[e].next
      BY <1>3, <1>13 DEF StaysDead
    <3> QED
      BY <3>1, <3>2
  <2>3. \A x \in Usable : x \notin V => t[x].next = None
    <3> SUFFICES ASSUME NEW x \in Usable, x \notin V PROVE t[x].next = None
      OBVIOUS
    <3>1. CASE x = e
      BY <1>3, <1>6, <1>10, <3>1
    <3>2. CASE x # e
      BY <1>11, <1>12, <2>2, <3>2
    <3> QED
      BY <3>1, <3>2
  <2>4. \A x \in Expn : x \in V <=> x \in U
    BY <1>1, <1>12, <2>1
  <2>5. \A x \in Expn : x \in U => qv[x] = pv[x] /\ gm[x] = hm[x]
    BY <1>1, <1>2, <1>8, <1>12, <2>1
  <2>6. \A x \in Base : x \in V => gm[x] = x
    <3> SUFFICES ASSUME NEW x \in Base, x \in V PROVE gm[x] = x
      OBVIOUS
    <3>1. CASE x = e
      <4>1. StaysDead(e)
        BY <1>1, <1>3, <1>6, <3>1
      <4> QED
        BY <1>3, <1>7, <1>10, <1>11, <3>1, <4>1
    <3>2. CASE x # e
      BY <1>1, <1>11, <1>12, <3>2
    <3> QED
      BY <3>1, <3>2
  <2> QED
    BY <1>5, <1>6, <2>2, <2>3, <2>4, <2>5, <2>6, HeadsChange
<1>14. ASSUME e \in Expn PROVE Linked(t, qv, V, gm)
  <2> DEFINE p == tab[e].prev
             n == tab[e].next
  <2>1. ~StaysDead(e)
    BY <1>1, <1>14 DEF StaysDead
  <2>2. p = pv[e] /\ p \in Usable
    <3>1. pv[e] \in Usable
      BY <1>5, <1>10, <1>14 DEF Linked, LinksBack
    <3> QED
      BY <1>8, <1>14, <3>1
  <2>3. p # e
    BY <1>5, <1>10, <1>14, <2>2, NotBehindItself
  <2>4. n = tab[e].next
    OBVIOUS
  <2>5. t[p].next = n /\ t[e].next = None
    BY <1>2, <1>3, <1>14, <2>1, <2>2, <2>3
  <2>6. \A x \in Usable : x # p /\ x # e => t[x].next = tab[x].next
    BY <1>2
  <2>7. V = U \ {e}
    BY <1>3, <1>6, <1>12, <2>1
  <2>8. \A x \in Expn : x \in V => qv[x] = IF x = n THEN p ELSE pv[x]
    BY <1>1, <1>2, <1>8, <1>14, <2>7
  <2>9. \A x \in V : gm[x] = hm[x]
    BY <1>6, <1>12, <2>7
  <2> HIDE DEF p, n
  <2>10. Removal(tab, pv, U, hm, t, qv, V, gm, e, p, n)
    BY <1>5, <1>10, <1>14, <2>2, <2>4, <2>5, <2>6, <2>7, <2>8, <2>9 DEF Removal
  <2> QED
    BY <2>10, RemoveLinked
<1>15. Linked(t, qv, V, gm)
  BY <1>1, <1>13, <1>14
<1>16. /\ \A x \in Usable : x \notin V => t[x].next = None
       /\ \A x \in V : x \in Base => gm[x] = x
  BY <1>15, LinkedMeans
<1>17. \A x \in Expn : tab'[x] = t[x]
  BY <1>1, <1>4 DEF Gone
<1>18. ~ZeroRule.enable /\ ZeroRule.next = None
  BY ZeroEntries
<1>19. \A x \in Expn : x \in U2 <=> x \in V
  BY <1>1, <1>6, <1>17
<1>20. \A x \in Usable : tab'[x].next = t[x].next
  BY <1>4, <1>18 DEF Gone
<1>21. \A x \in Usable : x \notin U2 => tab'[x].next = None
  BY <1>4, <1>6, <1>16, <1>18
<1>22. \A x \in Expn : x \in V => pv2[x] = qv[x] /\ hm2[x] = gm[x]
  BY <1>1, <1>7, <1>8, <1>17
<1>23. \A x \in Base : x \in U2 => hm2[x] = x
  BY <1>1, <1>4, <1>6, <1>7, <1>16, <1>18
<1> QED
  BY <1>6, <1>9, <1>15, <1>19, <1>20, <1>21, <1>22, <1>23, HeadsChange

(* ... of the names in the index table ...                                 *)
NamesKept(e) ==
  /\ \A x \in Usable : x # e /\ Serves(x) =>
       tab'[x].index \in Usable /\ index'[tab'[x].index].entry = x
  /\ \A z \in Usable : index'[z].entry # None =>
       /\ index'[z].entry \in Usable /\ index'[z].entry # e
       /\ Serves(index'[z].entry) /\ tab'[index'[z].entry].index = z

LEMMA NamesBoth ==
  ASSUME NTypeOK, EntriesRight, NamesRight
  PROVE  /\ \A x \in Usable : Serves(x) =>
              tab[x].index \in Usable /\ index[tab[x].index].entry = x
         /\ \A z \in Usable : index[z].entry # None =>
              /\ index[z].entry \in Usable
              /\ Serves(index[z].entry) /\ tab[index[z].entry].index = z
<1>1. \A z \in Usable : index[z].entry \in Usable \cup {None}
  BY TypeMeans, IndexFields, Places
<1> QED
  BY <1>1 DEF EntriesRight, NamesRight, Serves

LEMMA DelNames ==
  ASSUME NTypeOK, IndexLinked, EntriesRight, NamesRight, NEW e \in Usable, NEW i \in Usable,
         Serves(e), i = tab[e].index, UnlinkIndex(i), RulesKept(e, i)
  PROVE  NamesKept(e)
<1>1. /\ \A x \in Usable : Serves(x) =>
           tab[x].index \in Usable /\ index[tab[x].index].entry = x
      /\ \A z \in Usable : index[z].entry # None =>
           /\ index[z].entry \in Usable
           /\ Serves(index[z].entry) /\ tab[index[z].entry].index = z
  BY NamesBoth
<1>2. index[i].entry = e
  BY <1>1
<1>3. /\ \A x \in Usable : x \in Entries /\ (x \in Base \/ x \in Expn)
      /\ \A x \in Expn : x \in Usable
      /\ None \notin Usable
  BY Places
<1>4. ZeroIndex.entry = None
  BY ZeroEntries
<1>5. CASE ~MovesHead(i)
  <2>1. \A z \in Usable : index'[z].entry = IF z = i THEN None ELSE index[z].entry
    <3>1. CASE i \in Base
      <4>1. index[i].next = None
        BY <1>5, <3>1 DEF MovesHead
      <4>2. \A x \in Entries : index'[x] = IF x = i THEN ZeroIndex ELSE index[x]
        BY <3>1, <4>1, IndexHeadCleared
      <4> QED
        BY <1>3, <1>4, <4>2
    <3>2. CASE i \in Expn
      <4> DEFINE n == index[i].next
      <4>1. n = index[i].next
        OBVIOUS
      <4> HIDE DEF n
      <4>2. /\ index'[i] = ZeroIndex
            /\ \A x \in Entries : x # i => index'[x].entry = index[x].entry
        BY <3>2, <4>1, IndexUnlinked
      <4> QED
        BY <1>3, <1>4, <4>2
    <3> QED
      BY <1>3, <3>1, <3>2
  <2>2. ASSUME NEW x \in Usable, x # e, Serves(x)
        PROVE  tab'[x].index \in Usable /\ index'[tab'[x].index].entry = x
    <3>1. tab'[x].index = tab[x].index
      BY <1>5, <2>2 DEF RulesKept
    <3>2. tab[x].index # i
      BY <1>1, <1>2, <2>2
    <3> QED
      BY <1>1, <2>1, <2>2, <3>1, <3>2
  <2>3. ASSUME NEW z \in Usable, index'[z].entry # None
        PROVE  /\ index'[z].entry \in Usable /\ index'[z].entry # e
               /\ Serves(index'[z].entry) /\ tab'[index'[z].entry].index = z
    <3>1. z # i /\ index'[z].entry = index[z].entry
      BY <2>1, <2>3
    <3> DEFINE f == index[z].entry
    <3>2. f \in Usable /\ Serves(f) /\ tab[f].index = z
      BY <1>1, <2>3, <3>1
    <3> HIDE DEF f
    <3>3. f # e
      BY <3>1, <3>2
    <3>4. tab'[f].index = tab[f].index
      BY <1>5, <3>2, <3>3 DEF RulesKept
    <3> QED
      BY <3>1, <3>2, <3>3, <3>4 DEF f
  <2> QED
    BY <2>2, <2>3 DEF NamesKept
<1>6. CASE MovesHead(i)
  <2> DEFINE n == index[i].next
             m == index[n].entry
  <2>1. n = index[i].next /\ m = index[n].entry
    OBVIOUS
  <2>2. n \in Expn /\ m # None /\ n # i
    <3>1. Linked(index, meta, NamedOf(index), SrcOf(tab, index))
      BY DEF IndexLinked
    <3>2. n # None
      BY <1>6 DEF MovesHead
    <3>3. n \in NamedOf(index) /\ n \in Expn
      BY <3>1, <3>2 DEF Linked, LinksForth
    <3>4. n # i
      BY <1>6, <3>3, Places DEF MovesHead
    <3>5. m # None
      BY <1>3, <3>3, IndexFieldsOf
    <3> QED
      BY <3>3, <3>4, <3>5
  <2>3. m \in Usable /\ Serves(m) /\ tab[m].index = n
    BY <1>1, <1>3, <2>2
  <2>4. \A x \in Usable : x # e /\ Serves(x) => tab'[x].index = IF x = m THEN i ELSE tab[x].index
    BY <1>6 DEF RulesKept
  <2> HIDE DEF n, m
  <2>5. m # e
    BY <2>2, <2>3
  <2>6. \A x \in Entries : index'[x] = IF x = n THEN ZeroIndex
                                       ELSE IF x = i THEN index[n] ELSE index[x]
    BY <1>6, <2>1, IndexHeadMoved
  <2>7. \A z \in Usable : index'[z].entry = IF z = n THEN None
                                            ELSE IF z = i THEN m ELSE index[z].entry
    BY <1>3, <1>4, <2>1, <2>6
  <2>8. ASSUME NEW x \in Usable, x # e, Serves(x)
        PROVE  tab'[x].index \in Usable /\ index'[tab'[x].index].entry = x
    <3>1. CASE x = m
      BY <2>2, <2>4, <2>7, <2>8, <3>1
    <3>2. CASE x # m
      <4>1. tab'[x].index = tab[x].index
        BY <2>4, <2>8, <3>2
      <4>2. tab[x].index # i /\ tab[x].index # n
        BY <1>1, <1>2, <2>1, <2>8, <3>2
      <4> QED
        BY <1>1, <2>7, <2>8, <4>1, <4>2
    <3> QED
      BY <3>1, <3>2
  <2>9. ASSUME NEW z \in Usable, index'[z].entry # None
        PROVE  /\ index'[z].entry \in Usable /\ index'[z].entry # e
               /\ Serves(index'[z].entry) /\ tab'[index'[z].entry].index = z
    <3>1. CASE z = i
      <4>1. index'[z].entry = m
        BY <2>2, <2>7, <3>1
      <4>2. tab'[m].index = i
        BY <2>3, <2>4, <2>5
      <4> QED
        BY <2>3, <2>5, <3>1, <4>1, <4>2
    <3>2. CASE z # i
      <4>1. z # n /\ index'[z].entry = index[z].entry
        BY <2>7, <2>9, <3>2
      <4> DEFINE f == index[z].entry
      <4>2. f \in Usable /\ Serves(f) /\ tab[f].index = z
        BY <1>1, <2>9, <4>1
      <4> HIDE DEF f
      <4>3. f # e /\ f # m
        BY <2>3, <3>2, <4>1, <4>2
      <4>4. tab'[f].index = tab[f].index
        BY <2>4, <4>2, <4>3
      <4> QED
        BY <4>1, <4>2, <4>3, <4>4 DEF f
    <3> QED
      BY <3>1, <3>2
  <2> QED
    BY <2>8, <2>9 DEF NamesKept
<1> QED
  BY <1>5, <1>6

(* ... and of the chains of the index table.                               *)
LEMMA DelIndex ==
  ASSUME NTypeOK, IndexLinked, EntriesRight, NamesRight, NEW e \in Usable, NEW i \in Usable,
         Serves(e), i = tab[e].index, UnlinkIndex(i), RulesKept(e, i)
  PROVE  IndexLinked'
<1> DEFINE U   == NamedOf(index)
           U2  == NamedOf(index')
           hm  == SrcOf(tab, index)
           hm2 == SrcOf(tab', index')
<1>1. /\ \A x \in Usable : Serves(x) =>
           tab[x].index \in Usable /\ index[tab[x].index].entry = x
      /\ \A z \in Usable : index[z].entry # None =>
           /\ index[z].entry \in Usable
           /\ Serves(index[z].entry) /\ tab[index[z].entry].index = z
  BY NamesBoth
<1>2. index[i].entry = e
  BY <1>1
<1>3. /\ \A x \in Usable : x \in Entries /\ (x \in Base \/ x \in Expn)
      /\ \A x \in Expn : x \in Usable /\ x \in Entries
      /\ \A x \in Base : x \in Usable /\ x \notin Expn
      /\ None \notin Usable
  BY Places
<1>4. ZeroIndex.entry = None /\ ZeroIndex.next = None
  BY ZeroEntries
<1>5. Linked(index, meta, U, hm)
  BY DEF IndexLinked
<1>6. /\ \A x \in Usable : x \in U <=> index[x].entry # None
      /\ \A x \in Usable : x \in U2 <=> index'[x].entry # None
      /\ U \subseteq Usable /\ U2 \subseteq Usable
  BY IndexFieldsOf
<1>7. /\ \A x \in Usable : hm[x] = Src(tab[index[x].entry].rule)
      /\ \A x \in Usable : hm2[x] = Src(tab'[index'[x].entry].rule)
  BY IndexFieldsOf
<1>8. /\ \A x \in Usable : x \notin U => index[x].next = None
      /\ \A x \in U : x \in Base => hm[x] = x
  BY <1>5, LinkedMeans
<1>9. IndexLinked' <=> Linked(index', meta', U2, hm2)
  BY DEF IndexLinked
<1> HIDE DEF U, U2, hm, hm2
<1>10. i \in U
  BY <1>2, <1>3, <1>6
<1>11. \A x \in Usable : x # e /\ Serves(x) => tab'[x].rule = tab[x].rule
  BY DEF RulesKept
<1>12. \A x \in U : x # i => /\ index[x].entry \in Usable
                             /\ tab'[index[x].entry].rule = tab[index[x].entry].rule
  <2> SUFFICES ASSUME NEW x \in U, x # i
               PROVE  /\ index[x].entry \in Usable
                      /\ tab'[index[x].entry].rule = tab[index[x].entry].rule
    OBVIOUS
  <2> DEFINE f == index[x].entry
  <2>1. x \in Usable /\ f # None
    BY <1>6
  <2>2. f \in Usable /\ Serves(f) /\ tab[f].index = x
    BY <1>1, <2>1
  <2> HIDE DEF f
  <2>3. f # e
    BY <2>2
  <2>4. f \in Usable /\ tab'[f].rule = tab[f].rule
    BY <1>11, <2>2, <2>3
  <2> QED
    BY <2>4 DEF f
<1>13. CASE i \in Base /\ index[i].next = None
  <2>1. /\ meta' = meta
        /\ \A x \in Entries : index'[x] = IF x = i THEN ZeroIndex ELSE index[x]
    BY <1>13, IndexHeadCleared
  <2>2. \A x \in Usable : index'[x].next = index[x].next
    BY <1>3, <1>4, <1>13, <2>1
  <2>3. \A x \in Usable : x \in U2 <=> x \in U /\ x # i
    BY <1>3, <1>4, <1>6, <2>1
  <2>4. \A x \in Usable : x \in U /\ x # i => hm2[x] = hm[x]
    <3> SUFFICES ASSUME NEW x \in Usable, x \in U, x # i PROVE hm2[x] = hm[x]
      OBVIOUS
    <3>1. index'[x].entry = index[x].entry
      BY <1>3, <2>1
    <3> QED
      BY <1>7, <1>12, <3>1
  <2>5. \A x \in Usable : x \notin U2 => index'[x].next = None
    BY <1>8, <1>13, <2>2, <2>3
  <2>6. \A x \in Expn : x \in U2 <=> x \in U
    BY <1>3, <1>13, <2>3
  <2>7. \A x \in Expn : x \in U => meta'[x] = meta[x] /\ hm2[x] = hm[x]
    BY <1>3, <1>13, <2>1, <2>4
  <2>8. \A x \in Base : x \in U2 => hm2[x] = x
    BY <1>3, <1>8, <2>3, <2>4
  <2> QED
    BY <1>5, <1>6, <1>9, <2>2, <2>5, <2>6, <2>7, <2>8, HeadsChange
<1>14. CASE MovesHead(i)
  <2> DEFINE n == index[i].next
             k == index[n].next
  <2>1. n = index[i].next /\ k = index[n].next
    OBVIOUS
  <2>2. n # None /\ i \in Base
    BY <1>14 DEF MovesHead
  <2>3. n \in U /\ n \in Expn /\ meta[n] = i /\ hm[n] = hm[i]
    BY <1>5, <2>2 DEF Linked, LinksForth
  <2> HIDE DEF n, k
  <2>4. n # i
    BY <1>3, <2>2, <2>3
  <2>5. /\ \A x \in Entries : index'[x] = IF x = n THEN ZeroIndex
                                          ELSE IF x = i THEN index[n] ELSE index[x]
        /\ \A x \in Expn : meta'[x] = IF x = index[n].next THEN i ELSE meta[x]
    BY <1>14, <2>1, IndexHeadMoved
  <2>6. index'[i].next = k /\ index'[n].next = None
    BY <1>3, <1>4, <2>1, <2>3, <2>4, <2>5
  <2>7. \A x \in Usable : x # i /\ x # n => index'[x].next = index[x].next
    BY <1>3, <2>5
  <2>8. \A x \in Usable : x \in U2 <=> x \in U /\ x # n
    <3> SUFFICES ASSUME NEW x \in Usable PROVE x \in U2 <=> x \in U /\ x # n
      OBVIOUS
    <3>1. CASE x = n
      BY <1>3, <1>4, <1>6, <2>5, <3>1
    <3>2. CASE x = i
      <4>1. index'[x] = index[n] /\ index[n].entry # None
        BY <1>3, <1>6, <2>3, <2>4, <2>5, <3>2
      <4> QED
        BY <1>6, <1>10, <2>4, <3>2, <4>1
    <3>3. CASE x # n /\ x # i
      BY <1>3, <1>6, <2>5, <3>3
    <3> QED
      BY <3>1, <3>2, <3>3
  <2>9. U2 = U \ {n}
    BY <1>6, <2>8
  <2>10. \A x \in U2 : hm2[x] = hm[x]
    <3> SUFFICES ASSUME NEW x \in U2 PROVE hm2[x] = hm[x]
      OBVIOUS
    <3>1. x \in Usable /\ x \in U /\ x # n
      BY <1>6, <2>8
    <3>2. CASE x = i
      <4>1. index'[x].entry = index[n].entry
        BY <1>3, <2>4, <2>5, <3>2
      <4>2. tab'[index[n].entry].rule = tab[index[n].entry].rule
        BY <1>12, <2>3, <2>4
      <4>3. hm2[x] = Src(tab[index[n].entry].rule)
        BY <1>7, <3>1, <4>1, <4>2
      <4>4. hm[n] = Src(tab[index[n].entry].rule)
        BY <1>3, <1>7, <2>3
      <4> QED
        BY <2>3, <3>2, <4>3, <4>4
    <3>3. CASE x # i
      <4>1. index'[x].entry = index[x].entry
        BY <1>3, <2>5, <3>1, <3>3
      <4> QED
        BY <1>7, <1>12, <3>1, <3>3, <4>1
    <3> QED
      BY <3>2, <3>3
  <2>11. \A x \in Expn : x \in U2 => meta'[x] = IF x = k THEN i ELSE meta[x]
    BY <2>1, <2>5
  <2>12. Removal(index, meta, U, hm, index', meta', U2, hm2, n, i, k)
    BY <1>5, <2>1, <2>3, <2>6, <2>7, <2>9, <2>10, <2>11 DEF Removal
  <2> QED
    BY <1>9, <2>12, RemoveLinked
<1>15. CASE i \in Expn
  <2> DEFINE n == index[i].next
             p == meta[i]
  <2>1. n = index[i].next /\ p = meta[i]
    OBVIOUS
  <2>2. p \in Usable /\ p # i
    <3>1. p \in Usable
      BY <1>5, <1>10, <1>15 DEF Linked, LinksBack
    <3>2. p # i
      BY <1>5, <1>10, <1>15, NotBehindItself
    <3> QED
      BY <3>1, <3>2
  <2> HIDE DEF n, p
  <2>3. /\ index'[i] = ZeroIndex
        /\ \A x \in Entries : x # i =>
             /\ index'[x].entry = index[x].entry
             /\ index'[x].next = IF x = meta[i] THEN n ELSE index[x].next
        /\ \A x \in Expn : x # i => meta'[x] = IF x = n THEN meta[i] ELSE meta[x]
    BY <1>15, <2>1, IndexUnlinked
  <2>4. index'[p].next = n /\ index'[i].next = None
    BY <1>3, <1>4, <2>1, <2>2, <2>3
  <2>5. \A x \in Usable : x # p /\ x # i => index'[x].next = index[x].next
    BY <1>3, <2>1, <2>3
  <2>6. \A x \in Usable : x \in U2 <=> x \in U /\ x # i
    BY <1>3, <1>4, <1>6, <2>3
  <2>7. U2 = U \ {i}
    BY <1>6, <2>6
  <2>8. \A x \in U2 : hm2[x] = hm[x]
    <3> SUFFICES ASSUME NEW x \in U2 PROVE hm2[x] = hm[x]
      OBVIOUS
    <3>1. x \in Usable /\ x \in U /\ x # i
      BY <1>6, <2>6
    <3>2. index'[x].entry = index[x].entry
      BY <1>3, <2>3, <3>1
    <3> QED
      BY <1>7, <1>12, <3>1, <3>2
  <2>9. \A x \in Expn : x \in U2 => meta'[x] = IF x = n THEN p ELSE meta[x]
    BY <2>1, <2>3, <2>7
  <2>10. Removal(index, meta, U, hm, index', meta', U2, hm2, i, p, n)
    BY <1>5, <1>10, <1>15, <2>1, <2>4, <2>5, <2>7, <2>8, <2>9 DEF Removal
  <2> QED
    BY <1>9, <2>10, RemoveLinked
<1> QED
  BY <1>3, <1>13, <1>14, <1>15 DEF MovesHead

LEMMA DelChain ==
  ASSUME HandleInv, ChainInv, NEW h \in Handles, DelRule(h)
  PROVE  ChainInv'
<1>1. NTypeOK
  BY DEF HandleInv
<1>2. PICK e, i \in Usable, t \in RuleTbl :
           /\ e = rule_id_array[h] /\ i = tab[e].index /\ h \in Live
           /\ tab[e].enable /\ ~tab[e].dead
           /\ UnlinkIndex(i) /\ t = Renamed(Unlinked(e), i) /\ tab' = DelDeadHeads(t)
           /\ rule_id_array' = [rule_id_array EXCEPT ![h] = None]
           /\ valid' = valid
  BY DelRuleParts
<1>3. /\ Live' = Live \ {h}
      /\ \A g \in Handles : rule_id_array'[g] = IF g = h THEN None ELSE rule_id_array[g]
  BY <1>1, <1>2, OldHandle
<1>4. DeletedAs(e, i, t)
  <2>1. t = Renamed(Unlinked(e), i) /\ tab' = DelDeadHeads(t)
    BY <1>2
  <2> QED
    BY <1>1, <2>1, Deleting
<1>5. Serves(e)
  BY <1>2 DEF Serves
<1>6. RulesKept(e, i)
  BY <1>2, <1>4, DelRules DEF ChainInv
<1>7. NamesKept(e)
  BY <1>1, <1>2, <1>5, <1>6, DelNames DEF ChainInv
<1>8. TabLinked'
  BY <1>1, <1>2, <1>4, DelTab DEF ChainInv
<1>9. IndexLinked'
  BY <1>1, <1>2, <1>5, <1>6, DelIndex DEF ChainInv
<1>10. EntriesRight'
  <2> SUFFICES ASSUME NEW x \in Usable
               PROVE  /\ tab'[x].enable => tab'[x].rule \in Rule
                      /\ tab'[x].dead => tab'[x].enable /\ x \in Base /\ tab'[x].next # None
                      /\ tab'[x].enable /\ ~tab'[x].dead =>
                           /\ tab'[x].index \in Usable /\ index'[tab'[x].index].entry = x
                           /\ \E g \in Handles : rule_id_array'[g] = x
    BY DEF EntriesRight
  <2>1. /\ tab'[x].enable => tab'[x].rule \in Rule
        /\ tab'[x].dead => tab'[x].enable /\ x \in Base /\ tab'[x].next # None
    BY <1>6 DEF RulesKept
  <2>2. ASSUME tab'[x].enable, ~tab'[x].dead
        PROVE  /\ tab'[x].index \in Usable /\ index'[tab'[x].index].entry = x
               /\ \E g \in Handles : rule_id_array'[g] = x
    <3>1. x # e /\ Serves(x)
      BY <1>6, <2>2 DEF RulesKept
    <3>2. tab'[x].index \in Usable /\ index'[tab'[x].index].entry = x
      BY <1>7, <3>1 DEF NamesKept
    <3>3. PICK g \in Handles : rule_id_array[g] = x
      BY <3>1 DEF ChainInv, EntriesRight, Serves
    <3>4. g # h
      BY <1>2, <3>1, <3>3
    <3>5. rule_id_array'[g] = x
      BY <1>3, <3>3, <3>4
    <3> QED
      BY <3>2, <3>5
  <2> QED
    BY <2>1, <2>2
<1>11. NamesRight'
  <2> SUFFICES ASSUME NEW z \in Usable, index'[z].entry # None
               PROVE  /\ tab'[index'[z].entry].enable /\ ~tab'[index'[z].entry].dead
                      /\ tab'[index'[z].entry].index = z
    BY DEF NamesRight
  <2> DEFINE f == index'[z].entry
  <2>1. f \in Usable /\ f # e /\ Serves(f) /\ tab'[f].index = z
    BY <1>7 DEF NamesKept
  <2> HIDE DEF f
  <2>2. tab'[f].enable /\ ~tab'[f].dead
    BY <1>6, <2>1 DEF RulesKept
  <2> QED
    BY <2>1, <2>2 DEF f
<1>12. HandlesParse'
  BY <1>3 DEF ChainInv, HandlesParse
<1> QED
  BY <1>8, <1>9, <1>10, <1>11, <1>12 DEF ChainInv

LEMMA ChainStep == ~AddFaults /\ HandleInv /\ ChainInv /\ [TableNext]_tableVars => ChainInv'
<1> SUFFICES ASSUME ~AddFaults, HandleInv, ChainInv, [TableNext]_tableVars PROVE ChainInv'
  OBVIOUS
<1>1. CASE AddIpv4Tbl \/ DelIpv4Tbl
  BY <1>1, ChainZeroed DEF AddIpv4Tbl, DelIpv4Tbl
<1>2. CASE \E r \in Rule : AddRule(r)
  BY <1>2, AddChain
<1>3. CASE \E h \in Handles : DelRule(h)
  BY <1>3, DelChain
<1>4. CASE UNCHANGED tableVars
  <2>1. tab' = tab /\ index' = index /\ meta' = meta /\ rule_id_array' = rule_id_array
    BY <1>4 DEF tableVars
  <2>2. Live' = Live
    BY <2>1 DEF Live
  <2>3. TabLinked'
    BY <2>1 DEF ChainInv, TabLinked
  <2>4. IndexLinked'
    BY <2>1 DEF ChainInv, IndexLinked
  <2>5. EntriesRight'
    BY <2>1 DEF ChainInv, EntriesRight
  <2>6. NamesRight' /\ HandlesParse'
    BY <2>1, <2>2 DEF ChainInv, NamesRight, HandlesParse
  <2> QED
    BY <2>3, <2>4, <2>5, <2>6 DEF ChainInv
<1> QED
  BY <1>1, <1>2, <1>3, <1>4 DEF TableNext

-----------------------------------------------------------------------------
(* What the invariants say of the rules the hardware finds.                *)
LEMMA HomeChain ==
  ASSUME NEW t, NEW pv, NEW U, NEW hm, Linked(t, pv, U, hm), NEW x \in U
  PROVE  x \in Chain(t, hm[x])
<1>1. x \in Usable
  BY DEF Linked
<1>2. CASE x \in Base
  <2>1. hm[x] = x
    BY <1>2, LinkedMeans
  <2> QED
    BY <2>1, HeadInChain
<1>3. CASE x \in Expn
  BY <1>3 DEF Linked, Reached
<1> QED
  BY <1>1, <1>2, <1>3, Places

LEMMA RulesFound ==
  ASSUME HandleInv, ChainInv
  PROVE  RulesAreFound
<1> SUFFICES ASSUME NEW h \in Live PROVE Found(h)
  BY DEF RulesAreFound
<1> DEFINE e == rule_id_array[h]
           i == tab[e].index
<1>1. NTypeOK
  BY DEF HandleInv
<1>2. h \in Handles /\ e \in Usable
  BY <1>1, LiveEntry
<1>3. tab[e].enable /\ ~tab[e].dead
  BY DEF HandleInv, HandlesName
<1>4. Parses(h)
  BY DEF ChainInv, HandlesParse, Parses, Live
<1>5. i \in Usable /\ index[i].entry = e
  BY <1>2, <1>3 DEF ChainInv, EntriesRight
<1>6. e \in Chain(tab, Dst(tab[e].rule))
  <2>1. Linked(tab, PrevOf(tab), EnabledOf(tab), DstOf(tab))
    BY DEF ChainInv, TabLinked
  <2> HIDE DEF e
  <2>2. e \in EnabledOf(tab) /\ DstOf(tab)[e] = Dst(tab[e].rule)
    BY <1>2, <1>3, FieldsOf
  <2>3. e \in Chain(tab, DstOf(tab)[e])
    BY <2>1, <2>2, HomeChain
  <2> QED
    BY <2>2, <2>3
<1>7. i \in Chain(index, Src(tab[e].rule))
  <2>1. Linked(index, meta, NamedOf(index), SrcOf(tab, index))
    BY DEF ChainInv, IndexLinked
  <2> HIDE DEF e, i
  <2>2. index[i].entry # None
    BY <1>2, <1>5, Places
  <2>3. i \in NamedOf(index) /\ SrcOf(tab, index)[i] = Src(tab[index[i].entry].rule)
    BY <1>5, <2>2, IndexFieldsOf
  <2>4. i \in Chain(index, SrcOf(tab, index)[i])
    BY <2>1, <2>3, HomeChain
  <2> QED
    BY <1>5, <2>3, <2>4
<1> QED
  BY <1>3, <1>4, <1>5, <1>6, <1>7 DEF Found

LEMMA OneHandle ==
  ASSUME HandleInv, ChainInv, NEW e \in Usable, Serves(e)
  PROVE  Cardinality(HandlesOf(e)) = 1
<1>1. PICK h \in Handles : rule_id_array[h] = e
  BY DEF ChainInv, EntriesRight, Serves
<1>2. ASSUME NEW g \in Handles, rule_id_array[g] = e PROVE g = h
  <2>1. g \in Live /\ h \in Live
    BY <1>1, <1>2, LiveIs, Places
  <2> QED
    BY <1>1, <1>2, <2>1 DEF HandleInv, HandlesDiffer
<1>3. HandlesOf(e) = {h}
  BY <1>1, <1>2 DEF HandlesOf
<1>4. Cardinality({h}) = 1
  BY FS_Singleton
<1> QED
  BY <1>3, <1>4

LEMMA NothingElse ==
  ASSUME HandleInv, ChainInv
  PROVE  NothingElseIsFound
<1>1. ASSUME NEW e \in Usable, tab[e].enable, ~tab[e].dead
      PROVE  Cardinality(HandlesOf(e)) = 1
  BY <1>1, OneHandle DEF Serves
<1>2. ASSUME NEW i \in Usable, index[i].entry # None
      PROVE  /\ Cardinality(HandlesOf(index[i].entry)) = 1
             /\ tab[index[i].entry].index = i
  <2> DEFINE f == index[i].entry
  <2>1. f \in Usable /\ Serves(f) /\ tab[f].index = i
    BY <1>2, NamesBoth DEF HandleInv, ChainInv
  <2> HIDE DEF f
  <2>2. Cardinality(HandlesOf(f)) = 1
    BY <2>1, OneHandle
  <2> QED
    BY <2>1, <2>2 DEF f
<1> QED
  BY <1>1, <1>2 DEF NothingElseIsFound

LEMMA LinksAgreeing ==
  ASSUME HandleInv, ChainInv
  PROVE  LinksAgree
<1>1. /\ \A x \in Expn : x \in Usable
      /\ \A x \in Base : x \in Usable
      /\ None \notin Usable
  BY Places
<1>2. Linked(tab, PrevOf(tab), EnabledOf(tab), DstOf(tab))
  BY DEF ChainInv, TabLinked
<1>3. Linked(index, meta, NamedOf(index), SrcOf(tab, index))
  BY DEF ChainInv, IndexLinked
<1>4. ASSUME NEW e \in Usable, tab[e].next # None
      PROVE  tab[tab[e].next].enable /\ tab[tab[e].next].prev = e
  <2>1. tab[e].next \in EnabledOf(tab) /\ tab[e].next \in Expn /\ PrevOf(tab)[tab[e].next] = e
    BY <1>2, <1>4 DEF Linked, LinksForth
  <2> QED
    BY <1>1, <2>1, FieldsOf
<1>5. ASSUME NEW e \in Expn, tab[e].enable
      PROVE  tab[e].prev # None /\ tab[tab[e].prev].next = e
  <2>1. e \in EnabledOf(tab) /\ PrevOf(tab)[e] = tab[e].prev
    BY <1>1, <1>5, FieldsOf
  <2>2. PrevOf(tab)[e] \in Usable /\ tab[PrevOf(tab)[e]].next = e
    BY <1>2, <2>1 DEF Linked, LinksBack
  <2> QED
    BY <1>1, <2>1, <2>2
<1>6. ASSUME NEW e \in Usable, index[e].next # None
      PROVE  index[index[e].next].entry # None /\ meta[index[e].next] = e
  <2>1. index[e].next \in NamedOf(index) /\ index[e].next \in Expn /\ meta[index[e].next] = e
    BY <1>3, <1>6 DEF Linked, LinksForth
  <2> QED
    BY <1>1, <2>1, IndexFieldsOf
<1>7. ASSUME NEW e \in Base, tab[e].dead
      PROVE  tab[e].enable /\ tab[e].next # None
  BY <1>1, <1>7 DEF ChainInv, EntriesRight
<1> QED
  BY <1>4, <1>5, <1>6, <1>7 DEF LinksAgree

LEMMA ChainsAlways == ASSUME ~AddFaults PROVE TableSpec => [](HandleInv /\ ChainInv)
<1>1. TableInit => HandleInv /\ ChainInv
  BY HandleInit, ChainInit
<1>2. HandleInv /\ ChainInv /\ [TableNext]_tableVars => (HandleInv /\ ChainInv)'
  BY HandleStep, ChainStep
<1> QED
  BY <1>1, <1>2, PTL DEF TableSpec

(* While no command that adds a rule fails, the hardware finds every rule  *)
(* that has a handle, in the chain of its destination hash and in that of  *)
(* its source hash, and no other: deleting from the middle of a chain, or a*)
(* head whose place is taken by the entry behind it, loses no rule and     *)
(* leaves none behind (generate_tbl_rule, generate_index_rule,             *)
(* post_del_dma_cmd).  A command that fails leaves an entry out of its     *)
(* chain, so the hypothesis is needed.                                     *)
THEOREM RulesFoundAsAdded == ASSUME ~AddFaults PROVE TableSpec => []FoundAsAdded
<1>1. HandleInv /\ ChainInv => FoundAsAdded
  BY RulesFound, NothingElse DEF FoundAsAdded
<1> QED
  BY <1>1, ChainsAlways, PTL

(* ... and the links of both tables lead back the way they came, which the *)
(* deletion of an entry in the middle (post_del_dma_cmd) goes by.          *)
THEOREM TableIsConsistent == ASSUME ~AddFaults PROVE TableSpec => []TableConsistent
<1>1. HandleInv /\ ChainInv => TableConsistent
  BY LinksAgreeing DEF TableConsistent, HandleInv
<1> QED
  BY <1>1, ChainsAlways, PTL

-----------------------------------------------------------------------------
(* NatApp's cache and its table.                                           *)
CacheEntries == [conn : Conn \cup {NoConn}, enabled : BOOLEAN, rule_hdl : 0 .. MaxHandle]
Caches  == [Slots -> CacheEntries]

USE DEF NoConn, NoIp, Slots, Driver!Handles, Driver!Holds

-----------------------------------------------------------------------------
(* A table maps some of the handles to connections.                        *)
LEMMA TableType ==
  ASSUME NEW T
  PROVE  T \in Driver!Tables <=> /\ DOMAIN T \subseteq Driver!Handles
                                 /\ T \in [DOMAIN T -> Conn]
BY DEF Driver!Tables

LEMMA EmptyTable == Driver!Empty \in Driver!Tables /\ DOMAIN Driver!Empty = {}
<1>1. DOMAIN Driver!Empty = {}
  BY DEF Driver!Empty
<1>2. Driver!Empty \in [{} -> Conn]
  BY DEF Driver!Empty
<1> QED
  BY <1>1, <1>2, TableType

(* CacheEntries and their fields.                                               *)
LEMMA EntryType ==
  ASSUME NEW c \in Conn \cup {NoConn}, NEW on \in BOOLEAN, NEW h \in 0 .. MaxHandle
  PROVE  Entry(c, on, h) \in CacheEntries
BY DEF Entry, CacheEntries

LEMMA EmptyEntry == Empties \in CacheEntries /\ Empties.conn = NoConn /\ Empties.enabled = FALSE
<1>1. 0 \in 0 .. MaxHandle
  BY NatAppAssumption DEF NatAppAssumption
<1> QED
  BY <1>1 DEF Empties, CacheEntries

LEMMA EntryFields ==
  ASSUME NEW c, NEW on, NEW h
  PROVE  /\ Entry(c, on, h).conn = c
         /\ Entry(c, on, h).enabled = on
         /\ Entry(c, on, h).rule_hdl = h
BY DEF Entry

LEMMA CacheFields ==
  ASSUME cache \in Caches, NEW s \in Slots
  PROVE  /\ cache[s].conn \in Conn \cup {NoConn}
         /\ cache[s].enabled \in BOOLEAN
         /\ cache[s].rule_hdl \in 0 .. MaxHandle
BY DEF Caches, CacheEntries

(* Some of the slots are finitely many, at most as many as there are.      *)
LEMMA SlotsAreFinite ==
  ASSUME NEW U \in SUBSET Slots
  PROVE  IsFiniteSet(U) /\ Cardinality(U) \in 0 .. MaxEntries
<1>1. IsFiniteSet(Slots) /\ Cardinality(Slots) = MaxEntries
  BY NatAppAssumption, FS_Interval DEF NatAppAssumption
<1>2. IsFiniteSet(U) /\ Cardinality(U) <= Cardinality(Slots)
  BY <1>1, FS_Subset
<1>3. Cardinality(U) \in Nat
  BY <1>2, FS_CardinalityType
<1> QED
  BY <1>1, <1>2, <1>3, NatAppAssumption DEF NatAppAssumption

LEMMA UsedIsFinite ==
  /\ IsFiniteSet(Used) /\ Used \subseteq Slots
  /\ Cardinality(Used) \in 0 .. MaxEntries
<1>1. Used \in SUBSET Slots
  BY DEF Used
<1> QED
  BY <1>1, SlotsAreFinite

LEMMA FirstIsIn ==
  ASSUME NEW S \in SUBSET Slots, S # {}
  PROVE  First(S) \in S
<1>1. S \in SUBSET Nat
  OBVIOUS
<1>2. \E s \in S : \A t \in S : s <= t
  BY <1>1, LeastElement
<1> QED
  BY <1>2 DEF First

(* Forgetting some entries takes as many from the count.                   *)
LEMMA Forgetting ==
  ASSUME CountIsRight, NoDuplicates,
         NEW R \in SUBSET Used,
         \A s \in Slots : cache'[s].conn = IF s \in R THEN NoConn ELSE cache[s].conn,
         curCnt' = curCnt - Cardinality(R)
  PROVE  CountIsRight' /\ NoDuplicates' /\ Used' = Used \ R
<1>1. Used' = Used \ R
  BY DEF Used
<1>2. IsFiniteSet(Used) /\ IsFiniteSet(R) /\ Used \cap R = R
  BY UsedIsFinite, FS_Subset
<1>3. Cardinality(Used \ R) = Cardinality(Used) - Cardinality(R)
  BY <1>2, FS_Difference
<1>4. CountIsRight'
  BY <1>1, <1>3 DEF CountIsRight
<1>5. NoDuplicates'
  BY <1>1, UsedIsFinite DEF NoDuplicates
<1> QED
  BY <1>1, <1>4, <1>5

(* The count is within its range when it is right.                         *)
LEMMA CountInRange ==
  ASSUME CountIsRight'
  PROVE  curCnt' \in 0 .. MaxEntries
<1>1. Used' \in SUBSET Slots
  BY DEF Used
<1> QED
  BY <1>1, SlotsAreFinite DEF CountIsRight

(* An entry of a connection that was not cached is one more.               *)
LEMMA Storing ==
  ASSUME cache \in Caches, CountIsRight, NoDuplicates,
         NEW s \in Free, NEW c \in Conn, c \notin Cached,
         NEW on \in BOOLEAN, NEW h \in 0 .. MaxHandle,
         Store(s, Entry(c, on, h))
  PROVE  /\ cache' \in Caches /\ CountIsRight' /\ NoDuplicates'
         /\ Used' = Used \cup {s}
<1>1. s \in Slots /\ s \notin Used
  BY DEF Free
<1>2. Entry(c, on, h) \in CacheEntries
  BY EntryType
<1>3. cache' = [cache EXCEPT ![s] = Entry(c, on, h)] /\ curCnt' = curCnt + 1
  BY DEF Store
<1>4. cache' \in Caches
  BY <1>1, <1>2, <1>3 DEF Caches
<1>5. \A t \in Slots : cache'[t].conn = IF t = s THEN c ELSE cache[t].conn
  <2>1. \A t \in Slots : cache'[t] = IF t = s THEN Entry(c, on, h) ELSE cache[t]
    BY <1>1, <1>3 DEF Caches
  <2> QED
    BY <2>1, EntryFields
<1>6. Used' = Used \cup {s}
  BY <1>1, <1>5, NatAppAssumption DEF Used, NatAppAssumption
<1>7. CountIsRight'
  BY <1>1, <1>3, <1>6, UsedIsFinite, FS_AddElement DEF CountIsRight
<1>8. \A t \in Used : cache[t].conn # c
  BY NatAppAssumption DEF Used, Cached, NatAppAssumption
<1>9. NoDuplicates'
  <2> SUFFICES ASSUME NEW x \in Used', NEW y \in Used', cache'[x].conn = cache'[y].conn
               PROVE  x = y
    BY DEF NoDuplicates
  <2>1. /\ x \in Slots /\ (x = s \/ x \in Used)
        /\ y \in Slots /\ (y = s \/ y \in Used)
    BY <1>1, <1>6, UsedIsFinite
  <2> QED
    BY <1>1, <1>5, <1>8, <2>1 DEF NoDuplicates
<1> QED
  BY <1>4, <1>6, <1>7, <1>9

-----------------------------------------------------------------------------
(* The enabled entries, of those in U, are just the rules of table T.      *)
MatchIn(U, T) ==
  /\ \A s \in U : cache[s].enabled =>
       cache[s].rule_hdl \in DOMAIN T /\ T[cache[s].rule_hdl] = cache[s].conn
  /\ \A h \in DOMAIN T : \E s \in U : cache[s].enabled /\ cache[s].rule_hdl = h

Matches == MatchIn(Used, rules)

LoadsAs(T, S, refused, hdl) ==
  /\ \A s, t \in S \ refused : hdl[s] = hdl[t] => s = t
  /\ rules' = [h \in DOMAIN T \cup {hdl[s] : s \in S \ refused} |->
                 IF h \in DOMAIN T THEN T[h]
                 ELSE cache[CHOOSE s \in S \ refused : hdl[s] = h].conn]
  /\ cache' = [s \in Slots |->
                 IF s \in refused THEN Empties
                 ELSE IF s \in S THEN Entry(cache[s].conn, TRUE, hdl[s]) ELSE cache[s]]
  /\ curCnt' = curCnt - Cardinality(refused)

(* Loading entries into a table that matches the others makes it match all. *)
LEMMA Loading ==
  ASSUME cache \in Caches, CountIsRight, NoDuplicates,
         NEW T \in Driver!Tables, NEW S \in SUBSET Used, Load(T, S)
  PROVE  /\ cache' \in Caches /\ CountIsRight' /\ NoDuplicates'
         /\ rules' \in Driver!Tables
         /\ MatchIn(Used \ S, T) => Matches'
<1>0. PICK refused \in SUBSET S :
        \E hdl \in [S \ refused -> Driver!Handles \ DOMAIN T] : LoadsAs(T, S, refused, hdl)
  BY DEF Load, LoadsAs
<1>1. PICK hdl \in [S \ refused -> Driver!Handles \ DOMAIN T] : LoadsAs(T, S, refused, hdl)
  BY <1>0
<1> DEFINE L == S \ refused
<1>2. L \subseteq Used /\ Used \subseteq Slots /\ refused \subseteq Used
  BY UsedIsFinite
<1>3. DOMAIN T \subseteq 1 .. MaxHandle /\ T \in [DOMAIN T -> Conn]
  BY TableType
<1>4. \A s \in L : hdl[s] \in 1 .. MaxHandle /\ hdl[s] \notin DOMAIN T
  BY <1>1
<1>5. \A s \in Used : cache[s].conn \in Conn
  BY <1>2, CacheFields DEF Used
<1>6. \A s \in L : (CHOOSE t \in L : hdl[t] = hdl[s]) = s
  BY <1>1 DEF LoadsAs
<1>7. \A s \in Slots : /\ s \in refused => cache'[s] = Empties
                       /\ s \in L => cache'[s] = Entry(cache[s].conn, TRUE, hdl[s])
                       /\ s \notin S => cache'[s] = cache[s]
  BY <1>1 DEF LoadsAs
<1>f. \A s \in L : /\ cache'[s].conn = cache[s].conn
                   /\ cache'[s].enabled = TRUE
                   /\ cache'[s].rule_hdl = hdl[s]
  <2> TAKE s \in L
  <2>1. cache'[s] = Entry(cache[s].conn, TRUE, hdl[s])
    BY <1>2, <1>7
  <2> QED
    BY <2>1 DEF Entry
<1>8. cache' \in Caches
  <2>1. Empties \in CacheEntries
    BY EmptyEntry
  <2>2. \A s \in L : Entry(cache[s].conn, TRUE, hdl[s]) \in CacheEntries
    <3> TAKE s \in L
    <3>1. cache[s].conn \in Conn
      BY <1>2, <1>5
    <3>2. hdl[s] \in 0 .. MaxHandle
      BY <1>4, NatAppAssumption DEF NatAppAssumption
    <3> QED
      BY <3>1, <3>2, EntryType
  <2>3. \A s \in Slots : cache'[s] \in CacheEntries
    BY <1>7, <2>1, <2>2 DEF Caches
  <2> QED
    BY <1>1, <2>3 DEF Caches, LoadsAs
<1>9. \A s \in Slots : cache'[s].conn = IF s \in refused THEN NoConn ELSE cache[s].conn
  BY <1>7, <1>f, EmptyEntry 
<1>10. CountIsRight' /\ NoDuplicates' /\ Used' = Used \ refused
  BY <1>1, <1>2, <1>9, Forgetting DEF LoadsAs
<1>11. DOMAIN rules' = DOMAIN T \cup {hdl[s] : s \in L}
  BY <1>1 DEF LoadsAs
<1>12. /\ \A h \in DOMAIN T : rules'[h] = T[h]
       /\ \A s \in L : rules'[hdl[s]] = cache[s].conn
  BY <1>1, <1>4, <1>6 DEF LoadsAs
<1>13. rules' \in Driver!Tables
  <2>1. DOMAIN rules' \subseteq 1 .. MaxHandle
    BY <1>3, <1>4, <1>11
  <2>2. \A h \in DOMAIN rules' : rules'[h] \in Conn
    BY <1>2, <1>3, <1>5, <1>11, <1>12
  <2>3. rules' = [h \in DOMAIN rules' |-> rules'[h]]
    BY <1>1 DEF LoadsAs
  <2>4. rules' \in [DOMAIN rules' -> Conn]
    BY <2>2, <2>3
  <2> QED
    BY <2>1, <2>4, TableType
<1>14. ASSUME MatchIn(Used \ S, T)
       PROVE  Matches'
  <2>1. ASSUME NEW s \in Used', cache'[s].enabled
        PROVE  cache'[s].rule_hdl \in DOMAIN rules' /\ rules'[cache'[s].rule_hdl] = cache'[s].conn
    <3>1. CASE s \in S
      BY <3>1, <1>2, <1>f, <1>10, <1>11, <1>12
    <3>2. CASE s \notin S
      <4>1. s \in Used \ S /\ cache'[s] = cache[s]
        BY <3>2, <1>2, <1>7, <1>10
      <4>2. cache[s].rule_hdl \in DOMAIN T /\ T[cache[s].rule_hdl] = cache[s].conn
        BY <4>1, <2>1, <1>14 DEF MatchIn
      <4> QED
        BY <4>1, <4>2, <1>11, <1>12
    <3> QED
      BY <3>1, <3>2
  <2>2. ASSUME NEW h \in DOMAIN rules'
        PROVE  \E s \in Used' : cache'[s].enabled /\ cache'[s].rule_hdl = h
    <3>1. CASE h \in DOMAIN T
      <4>1. PICK s \in Used \ S : cache[s].enabled /\ cache[s].rule_hdl = h
        BY <3>1, <1>14 DEF MatchIn
      <4> QED
        BY <4>1, <1>2, <1>7, <1>10
    <3>2. CASE h \notin DOMAIN T
      <4>1. PICK s \in L : hdl[s] = h
        BY <3>2, <1>11
      <4> QED
        BY <4>1, <1>2, <1>f, <1>10
    <3> QED
      BY <3>1, <3>2
  <2> QED
    BY <2>1, <2>2 DEF Matches, MatchIn
<1> QED
  BY <1>8, <1>10, <1>13, <1>14

(* Unloading takes away just the rules of the entries it disables.          *)
LEMMA Unloading ==
  ASSUME cache \in Caches, rules \in Driver!Tables, CountIsRight, NoDuplicates,
         NEW ip, Unload(ip), curCnt' = curCnt
  PROVE  /\ cache' \in Caches /\ CountIsRight' /\ NoDuplicates'
         /\ rules' \in Driver!Tables
         /\ up /\ Matches => Matches'
<1>1. PICK S : /\ S = {s \in OfClient(ip) : cache[s].enabled /\ CanDelete(s)}
               /\ rules' = Without(S)
               /\ cache' = [s \in Slots |-> IF s \in S THEN Entry(cache[s].conn, FALSE, 0)
                                            ELSE cache[s]]
  BY DEF Unload
<1>2. S \subseteq Used /\ Used \subseteq Slots
  BY <1>1, UsedIsFinite DEF OfClient
<1>3. \A s \in Slots : cache'[s] = IF s \in S THEN Entry(cache[s].conn, FALSE, 0) ELSE cache[s]
  BY <1>1
<1>f. \A s \in S : /\ cache'[s].conn = cache[s].conn
                   /\ cache'[s].enabled = FALSE
  <2> TAKE s \in S
  <2>1. cache'[s] = Entry(cache[s].conn, FALSE, 0)
    BY <1>2, <1>3
  <2> QED
    BY <2>1 DEF Entry
<1>4. \A s \in Slots : cache'[s] \in CacheEntries
  <2> TAKE s \in Slots
  <2>1. 0 \in 0 .. MaxHandle
    BY NatAppAssumption DEF NatAppAssumption
  <2>2. Entry(cache[s].conn, FALSE, 0) \in CacheEntries
    BY <2>1, CacheFields, EntryType
  <2> QED
    BY <1>3, <2>2 DEF Caches
<1>5. cache' \in Caches
  BY <1>1, <1>4 DEF Caches
<1>6. \A s \in Slots : cache'[s].conn = IF s \in {} THEN NoConn ELSE cache[s].conn
  BY <1>3, <1>f
<1>7. curCnt \in Int
  BY UsedIsFinite DEF CountIsRight
<1>8. curCnt' = curCnt - Cardinality({}) /\ {} \in SUBSET Used
  BY <1>7, FS_EmptySet
<1>9. CountIsRight' /\ NoDuplicates' /\ Used' = Used \ {}
  BY <1>6, <1>8, Forgetting
<1>10. /\ DOMAIN rules' = DOMAIN rules \ {cache[s].rule_hdl : s \in S}
       /\ \A h \in DOMAIN rules' : rules'[h] = rules[h]
       /\ rules' = [h \in DOMAIN rules' |-> rules'[h]]
  BY <1>1 DEF Without
<1>11. rules' \in Driver!Tables
  <2>1. DOMAIN rules \subseteq 1 .. MaxHandle /\ rules \in [DOMAIN rules -> Conn]
    BY TableType
  <2>2. \A h \in DOMAIN rules' : rules'[h] \in Conn
    BY <1>10, <2>1
  <2>3. rules' \in [DOMAIN rules' -> Conn]
    BY <1>10, <2>2
  <2> QED
    BY <1>10, <2>1, <2>3, TableType
<1>12. ASSUME up, Matches
       PROVE  Matches'
  <2>1. \A s \in Used : cache[s].enabled => rules[cache[s].rule_hdl] = cache[s].conn
                                         /\ cache[s].rule_hdl \in DOMAIN rules
    BY <1>12 DEF Matches, MatchIn
  <2>2. \A s, t \in Used : cache[s].enabled /\ cache[t].enabled
                           /\ cache[s].rule_hdl = cache[t].rule_hdl => s = t
    BY <2>1 DEF NoDuplicates
  <2>3. \A s \in Used' : cache'[s].enabled => cache[s].enabled /\ s \notin S /\ cache'[s] = cache[s]
    BY <1>2, <1>3, <1>9, <1>f
  <2>4. ASSUME NEW s \in Used', cache'[s].enabled
        PROVE  cache'[s].rule_hdl \in DOMAIN rules' /\ rules'[cache'[s].rule_hdl] = cache'[s].conn
    BY ZenonT(60), <2>1, <2>2, <2>3, <2>4, <1>1, <1>2, <1>9, <1>10
  <2>5. ASSUME NEW h \in DOMAIN rules'
        PROVE  \E s \in Used' : cache'[s].enabled /\ cache'[s].rule_hdl = h
    <3>1. PICK s \in Used : cache[s].enabled /\ cache[s].rule_hdl = h
      BY <1>10, <1>12 DEF Matches, MatchIn
    <3>2. s \notin S
      BY <3>1, <1>10
    <3> QED
      BY <3>1, <3>2, <1>2, <1>3, <1>9
  <2> QED
    BY <2>4, <2>5 DEF Matches, MatchIn
<1> QED
  BY <1>5, <1>9, <1>11, <1>12

-----------------------------------------------------------------------------
(* The inductive invariant: the cache with the table, and the rest.        *)
Core ==
  /\ cache \in Caches /\ rules \in Driver!Tables
  /\ CountIsRight /\ NoDuplicates
  /\ up /\ ~stale => Matches

Rest ==
  /\ up \in BOOLEAN /\ pub \in PubIp \cup {NoIp} /\ pubPre \in PubIp \cup {NoIp}
  /\ temp \in [Conn -> 0 .. MaxTemp]
  /\ pwrSave \subseteq Ip /\ natIfaces \subseteq Ip
  /\ WanUp \in BOOLEAN /\ stale \in BOOLEAN

LEMMA CoreMeans ==
  ASSUME Core, Rest
  PROVE  CacheConsistent /\ TableMatchesCache
<1>1. curCnt \in 0 .. MaxEntries
  BY UsedIsFinite DEF Core, CountIsRight
<1>2. CacheConsistent
  BY <1>1 DEF CacheConsistent, AppTypeOK, Core, Rest, Caches, CacheEntries
<1>3. TableMatchesCache
  BY DEF TableMatchesCache, Core, Matches, MatchIn
<1> QED
  BY <1>2, <1>3

(* A step that leaves the cache alone.                                     *)
LEMMA CacheKept ==
  ASSUME UNCHANGED <<cache, curCnt>>, cache \in Caches, CountIsRight, NoDuplicates
  PROVE  cache' \in Caches /\ CountIsRight' /\ NoDuplicates' /\ Used' = Used
<1>1. Used' = Used
  BY DEF Used
<1> QED
  BY <1>1 DEF CountIsRight, NoDuplicates

LEMMA CoreKept ==
  ASSUME Core, UNCHANGED <<rules, up, cache, curCnt, stale>>
  PROVE  Core'
<1>1. cache' \in Caches /\ CountIsRight' /\ NoDuplicates' /\ Used' = Used
  BY CacheKept DEF Core
<1>2. Matches => Matches'
  BY <1>1 DEF Matches, MatchIn
<1> QED
  BY <1>1, <1>2 DEF Core

(* A connection cached and not loaded.                                     *)
LEMMA CachedOnly ==
  ASSUME Core, UNCHANGED <<rules, up, stale>>,
         NEW s \in Free, NEW c \in Conn, c \notin Cached, Store(s, Entry(c, FALSE, 0))
  PROVE  Core'
<1>1. cache' \in Caches /\ CountIsRight' /\ NoDuplicates' /\ Used' = Used \cup {s}
  <2>1. 0 \in 0 .. MaxHandle /\ FALSE \in BOOLEAN
    BY NatAppAssumption DEF NatAppAssumption
  <2> QED
    BY <2>1, Storing DEF Core
<1>2. s \in Slots /\ s \notin Used
  BY DEF Free
<1>3. \A t \in Used : cache'[t] = cache[t]
  BY <1>2, UsedIsFinite DEF Store, Core, Caches
<1>4. cache'[s].enabled = FALSE
  <2>1. cache'[s] = Entry(c, FALSE, 0)
    BY <1>2 DEF Store, Core, Caches
  <2> QED
    BY <2>1 DEF Entry
<1>5. Matches => Matches'
  BY <1>1, <1>3, <1>4 DEF Matches, MatchIn
<1> QED
  BY <1>1, <1>5 DEF Core

(* A connection cached and loaded.                                         *)
LEMMA CachedAndLoaded ==
  ASSUME Core, UNCHANGED <<up, stale>>,
         NEW s \in Free, NEW c \in Conn, c \notin Cached,
         NEW h \in Driver!Handles, Driver!AddRule(h, c), Store(s, Entry(c, TRUE, h))
  PROVE  Core'
<1>1. cache' \in Caches /\ CountIsRight' /\ NoDuplicates' /\ Used' = Used \cup {s}
  <2>1. h \in 0 .. MaxHandle /\ TRUE \in BOOLEAN
    BY NatAppAssumption DEF NatAppAssumption
  <2> QED
    BY <2>1, Storing DEF Core
<1>2. s \in Slots /\ s \notin Used
  BY DEF Free
<1>3. \A t \in Used : cache'[t] = cache[t]
  BY <1>2, UsedIsFinite DEF Store, Core, Caches
<1>4. cache'[s].conn = c /\ cache'[s].enabled = TRUE /\ cache'[s].rule_hdl = h
  <2>1. cache'[s] = Entry(c, TRUE, h)
    BY <1>2 DEF Store, Core, Caches
  <2> QED
    BY <2>1 DEF Entry
<1>5. /\ h \notin DOMAIN rules
      /\ rules' = [g \in DOMAIN rules \cup {h} |-> IF g = h THEN c ELSE rules[g]]
  BY DEF Driver!AddRule
<1>6. rules' \in Driver!Tables
  <2>1. DOMAIN rules \subseteq 1 .. MaxHandle /\ rules \in [DOMAIN rules -> Conn]
    BY TableType DEF Core
  <2>2. DOMAIN rules' \subseteq 1 .. MaxHandle /\ rules' \in [DOMAIN rules' -> Conn]
    BY <1>5, <2>1
  <2> QED
    BY <2>2, TableType
<1>7. Matches => Matches'
  BY <1>1, <1>2, <1>3, <1>4, <1>5 DEF Matches, MatchIn
<1> QED
  BY <1>1, <1>6, <1>7 DEF Core

-----------------------------------------------------------------------------
(* NatApp's operations keep the cache and the table together.              *)
LEMMA AddEntryCore ==
  ASSUME Core, NEW c \in Conn, AddEntry(c)
  PROVE  Core'
<1>1. CASE AddEntryNew(c)
  <2>1. First(Free) \in Free
    <3>1. Free \in SUBSET Slots
      BY DEF Free
    <3> QED
      BY <1>1, <3>1, FirstIsIn DEF AddEntryNew
  <2>2. UNCHANGED <<up, stale>>
    BY DEF AddEntry
  <2>3. CASE IsPwrSave(c)
    BY <1>1, <2>1, <2>2, <2>3, CachedOnly DEF AddEntryNew
  <2>4. CASE ~IsPwrSave(c)
    BY <1>1, <2>1, <2>2, <2>4, CachedAndLoaded DEF AddEntryNew
  <2> QED
    BY <2>3, <2>4
<1>2. CASE ~AddEntryNew(c)
  BY <1>2, CoreKept DEF AddEntry
<1> QED
  BY <1>1, <1>2

LEMMA CacheEntryCore ==
  ASSUME Core, NEW c \in Conn, CacheEntry(c)
  PROVE  Core'
<1>1. PICK start \in Slots :
        LET later == {s \in Free : s >= start} IN
          IF c \notin Cached /\ later # {}
            THEN Store(First(later), Entry(c, FALSE, 0))
            ELSE UNCHANGED <<cache, curCnt>>
  BY DEF CacheEntry
<1> DEFINE later == {s \in Free : s >= start}
<1>2. UNCHANGED <<rules, up, stale>>
  BY DEF CacheEntry
<1>3. CASE c \notin Cached /\ later # {}
  <2>1. First(later) \in later
    <3>1. later \in SUBSET Slots
      BY DEF Free
    <3> QED
      BY <1>3, <3>1, FirstIsIn
  <2>2. First(later) \in Free /\ Store(First(later), Entry(c, FALSE, 0))
    BY <1>1, <1>3, <2>1
  <2> QED
    BY <1>2, <1>3, <2>2, CachedOnly
<1>4. CASE ~(c \notin Cached /\ later # {})
  BY <1>1, <1>2, <1>4, CoreKept
<1> QED
  BY <1>3, <1>4

LEMMA DeleteEntryCore ==
  ASSUME Core, NEW c \in Conn, DeleteEntry(c)
  PROVE  Core'
<1>1. CASE c \notin Cached
  BY <1>1, CoreKept DEF DeleteEntry
<1>2. CASE c \in Cached
  <2>1. PICK s : /\ s = First({t \in Used : cache[t].conn = c})
                 /\ cache' = [cache EXCEPT ![s] = Empties] /\ curCnt' = curCnt - 1
                 /\ rules' = IF cache[s].enabled /\ CanDelete(s) THEN Without({s}) ELSE rules
    BY <1>2 DEF DeleteEntry
  <2>2. UNCHANGED <<up, stale>>
    BY DEF DeleteEntry
  <2>3. s \in Used /\ cache[s].conn = c /\ Used \subseteq Slots
    <3>1. {t \in Used : cache[t].conn = c} # {}
      BY <1>2 DEF Cached, Used
    <3>2. {t \in Used : cache[t].conn = c} \in SUBSET Slots
      BY UsedIsFinite
    <3> QED
      BY <2>1, <3>1, <3>2, FirstIsIn, UsedIsFinite
  <2>4. \A t \in Slots : cache'[t] = IF t = s THEN Empties ELSE cache[t]
    BY <2>1 DEF Core, Caches
  <2>5. cache' \in Caches
    BY <2>1, <2>3, EmptyEntry DEF Core, Caches
  <2>6. CountIsRight' /\ NoDuplicates' /\ Used' = Used \ {s}
    <3>1. \A t \in Slots : cache'[t].conn = IF t \in {s} THEN NoConn ELSE cache[t].conn
      BY <2>4, EmptyEntry
    <3>2. Cardinality({s}) = 1
      BY FS_Singleton
    <3> QED
      BY <2>1, <2>3, <3>1, <3>2, Forgetting DEF Core
  <2>7. Without({s}) = [h \in DOMAIN rules \ {cache[s].rule_hdl} |-> rules[h]]
    BY DEF Without
  <2>8. rules' \in Driver!Tables
    <3>1. DOMAIN rules \subseteq 1 .. MaxHandle /\ rules \in [DOMAIN rules -> Conn]
      BY TableType DEF Core
    <3>2. Without({s}) \in Driver!Tables
      BY <2>7, <3>1, TableType
    <3> QED
      BY <2>1, <3>2 DEF Core
  <2>9. ASSUME up, Matches
        PROVE  Matches'
    <3>1. /\ \A t \in Used : cache[t].enabled => cache[t].rule_hdl \in DOMAIN rules
                                              /\ rules[cache[t].rule_hdl] = cache[t].conn
          /\ \A h \in DOMAIN rules : \E t \in Used : cache[t].enabled /\ cache[t].rule_hdl = h
      BY <2>9 DEF Matches, MatchIn
    <3>2. CASE cache[s].enabled
      <4>1. rules' = [h \in DOMAIN rules \ {cache[s].rule_hdl} |-> rules[h]]
        BY <2>1, <2>3, <2>7, <2>9, <3>1, <3>2 DEF CanDelete
      <4>2. \A t \in Used : cache[t].enabled /\ t # s => cache[t].rule_hdl # cache[s].rule_hdl
        BY <2>3, <3>1, <3>2 DEF NoDuplicates, Core
      <4> QED
        BY <2>3, <2>4, <2>6, <3>1, <4>1, <4>2 DEF Matches, MatchIn
    <3>3. CASE ~cache[s].enabled
      <4>1. rules' = rules
        BY <2>1, <3>3
      <4> QED
        BY <2>3, <2>4, <2>6, <3>1, <3>3, <4>1 DEF Matches, MatchIn
    <3> QED
      BY <3>2, <3>3
  <2> QED
    BY <2>2, <2>5, <2>6, <2>8, <2>9 DEF Core
<1> QED
  BY <1>1, <1>2

LEMMA UnloadCore ==
  ASSUME Core, NEW ip, Unload(ip), UNCHANGED <<up, curCnt, stale>>
  PROVE  Core'
BY Unloading DEF Core

LEMMA ReloadCore ==
  ASSUME Core, NEW ip, Reload(ip), UNCHANGED <<up, stale>>
  PROVE  Core'
<1>1. PICK S : /\ S = {s \in OfClient(ip) : ~cache[s].enabled}
               /\ IF up THEN Load(rules, S)
                  ELSE /\ cache' = [s \in Slots |-> IF s \in S THEN Empties ELSE cache[s]]
                       /\ curCnt' = curCnt - Cardinality(S)
                       /\ UNCHANGED rules
  BY DEF Reload
<1>2. S \in SUBSET Used
  BY <1>1 DEF OfClient
<1>3. CASE up
  <2>1. Load(rules, S)
    BY <1>1, <1>3
  <2>2. /\ cache' \in Caches /\ CountIsRight' /\ NoDuplicates'
        /\ rules' \in Driver!Tables
        /\ MatchIn(Used \ S, rules) => Matches'
    BY <1>2, <2>1, Loading DEF Core
  <2>3. Matches => MatchIn(Used \ S, rules)
    BY <1>1 DEF Matches, MatchIn
  <2> QED
    BY <2>2, <2>3 DEF Core
<1>4. CASE ~up
  <2>1. /\ cache' = [s \in Slots |-> IF s \in S THEN Empties ELSE cache[s]]
        /\ curCnt' = curCnt - Cardinality(S)
        /\ rules' = rules
    BY <1>1, <1>4
  <2>2. \A s \in Slots : cache'[s].conn = IF s \in S THEN NoConn ELSE cache[s].conn
    BY <2>1, EmptyEntry
  <2>3. cache' \in Caches
    BY <2>1, EmptyEntry DEF Core, Caches
  <2>4. CountIsRight' /\ NoDuplicates'
    BY <1>2, <2>1, <2>2, Forgetting DEF Core
  <2> QED
    BY <1>4, <2>1, <2>3, <2>4 DEF Core
<1> QED
  BY <1>3, <1>4

LEMMA AddTableCore ==
  ASSUME Core, NEW ip, AddTable(ip)
  PROVE  Core'
<1>1. CASE UNCHANGED <<rules, up, pub, cache, curCnt, stale>>
  BY <1>1, CoreKept
<1>2. CASE Restores(ip) /\ up' = TRUE /\ Load(Driver!Empty, Used) /\ stale' = FALSE
  <2>1. MatchIn(Used \ Used, Driver!Empty)
    BY EmptyTable DEF MatchIn
  <2>2. Used \in SUBSET Used
    OBVIOUS
  <2> QED
    BY <1>2, <2>1, <2>2, EmptyTable, Loading DEF Core
<1>3. CASE /\ up' = TRUE /\ rules' = Driver!Empty /\ UNCHANGED <<cache, curCnt>>
           /\ stale' = \E s \in Used : cache[s].enabled
  <2>1. cache' \in Caches /\ CountIsRight' /\ NoDuplicates' /\ Used' = Used
    BY <1>3, CacheKept DEF Core
  <2>2. rules' \in Driver!Tables /\ DOMAIN rules' = {}
    BY <1>3, EmptyTable
  <2>3. ~stale' => Matches'
    BY <1>3, <2>1, <2>2 DEF Matches, MatchIn
  <2> QED
    BY <2>1, <2>2, <2>3 DEF Core
<1> QED
  BY <1>1, <1>2, <1>3 DEF AddTable

LEMMA DeleteTableCore ==
  ASSUME Core, NEW ip, DeleteTable(ip)
  PROVE  Core'
<1>1. CASE up /\ pub = ip
  <2>1. up' = FALSE /\ rules' = Driver!Empty /\ UNCHANGED <<cache, curCnt>>
    BY <1>1 DEF DeleteTable
  <2> QED
    BY <2>1, CacheKept, EmptyTable DEF Core
<1>2. CASE ~(up /\ pub = ip)
  BY <1>2, CoreKept DEF DeleteTable
<1> QED
  BY <1>1, <1>2

-----------------------------------------------------------------------------
(* There is room for one more of a connection while temp is not full.      *)
LEMMA TempHasRoom ==
  ASSUME temp \in [Conn -> 0 .. MaxTemp], NEW c \in Conn, TempCount < MaxTemp
  PROVE  temp[c] + 1 \in 0 .. MaxTemp
<1> DEFINE P == {p \in Conn \X (1 .. MaxTemp) : p[2] <= temp[p[1]]}
<1>1. MaxTemp \in Nat /\ temp[c] \in 0 .. MaxTemp
  BY NatAppAssumption DEF NatAppAssumption
<1>2. SUFFICES ASSUME temp[c] = MaxTemp PROVE FALSE
  BY <1>1
<1>3. IsFiniteSet(1 .. MaxTemp) /\ Cardinality(1 .. MaxTemp) = MaxTemp
  BY <1>1, FS_Interval
<1>4. IsFiniteSet(P)
  <2>1. IsFiniteSet(Conn \X (1 .. MaxTemp))
    BY <1>3, NatAppAssumption, FS_Product DEF NatAppAssumption
  <2>2. P \in SUBSET (Conn \X (1 .. MaxTemp))
    OBVIOUS
  <2> QED
    BY <2>1, <2>2, FS_Subset
<1>5. [n \in 1 .. MaxTemp |-> <<c, n>>] \in Injection(1 .. MaxTemp, P)
  BY <1>1, <1>2 DEF Injection, IsInjective
<1>6. MaxTemp <= Cardinality(P)
  BY <1>3, <1>4, <1>5, FS_Injection
<1> QED
  BY <1>1, <1>4, <1>6, FS_CardinalityType DEF TempCount

(* The connections that wait for their client stay within their bounds.    *)
LEMMA TempType ==
  ASSUME Rest, NEW c \in Conn, AddTempEntry(c) \/ DeleteTempEntry(c)
  PROVE  temp' \in [Conn -> 0 .. MaxTemp]
<1>1. temp \in [Conn -> 0 .. MaxTemp]
  BY DEF Rest
<1>2. CASE temp' = temp
  BY <1>1, <1>2
<1>3. CASE TempCount < MaxTemp /\ temp' = [temp EXCEPT ![c] = @ + 1]
  <2>1. temp[c] + 1 \in 0 .. MaxTemp
    BY <1>1, <1>3, TempHasRoom
  <2> QED
    BY <1>1, <1>3, <2>1
<1>4. CASE temp[c] > 0 /\ temp' = [temp EXCEPT ![c] = @ - 1]
  <2>1. temp[c] - 1 \in 0 .. MaxTemp
    BY <1>1, <1>4, NatAppAssumption DEF NatAppAssumption
  <2> QED
    BY <1>1, <1>4, <2>1
<1> QED
  BY <1>2, <1>3, <1>4 DEF AddTempEntry, DeleteTempEntry

LEMMA FlushedType ==
  ASSUME Rest, NEW ip, NEW isAdd
  PROVE  Flushed(ip, isAdd) \in [Conn -> 0 .. MaxTemp]
<1>1. 0 \in 0 .. MaxTemp /\ temp \in [Conn -> 0 .. MaxTemp]
  BY NatAppAssumption DEF NatAppAssumption, Rest
<1> QED
  BY <1>1 DEF Flushed

-----------------------------------------------------------------------------
(* Initially, and by every event, the invariant is kept.                   *)
LEMMA InitInv == Init => Core /\ Rest
<1> SUFFICES ASSUME Init PROVE Core /\ Rest
  OBVIOUS
<1>1. cache = [s \in Slots |-> Empties] /\ rules = Driver!Empty /\ curCnt = 0 /\ up = FALSE
  BY DEF Init
<1>2. Used = {}
  BY <1>1, EmptyEntry DEF Used
<1>3. cache \in Caches
  BY <1>1, EmptyEntry DEF Caches
<1>4. Core
  BY <1>1, <1>2, <1>3, EmptyTable, FS_EmptySet DEF Core, CountIsRight, NoDuplicates
<1>5. 0 \in 0 .. MaxTemp
  BY NatAppAssumption DEF NatAppAssumption
<1>6. Rest
  BY <1>5 DEF Init, Rest
<1> QED
  BY <1>4, <1>6

LEMMA StutterInv == Core /\ Rest /\ UNCHANGED vars => Core' /\ Rest'
<1> SUFFICES ASSUME Core, Rest, UNCHANGED vars PROVE Core' /\ Rest'
  OBVIOUS
<1>1. UNCHANGED appVars /\ UNCHANGED listenerVars
  BY DEF vars
<1>2. Core'
  BY <1>1, CoreKept DEF appVars
<1>3. Rest'
  BY <1>1 DEF appVars, listenerVars, Rest
<1> QED
  BY <1>2, <1>3

LEMMA WANUpInv ==
  ASSUME Core, Rest, NEW ip \in PubIp, TriggerWANUp(ip)
  PROVE  Core' /\ Rest'
<1>1. Core'
  BY AddTableCore DEF TriggerWANUp
<1>2. UNCHANGED <<pubPre, temp, pwrSave, natIfaces>> /\ WanUp' = TRUE
  BY DEF TriggerWANUp, AddTable
<1>3. up' \in BOOLEAN
  BY DEF TriggerWANUp, AddTable, Rest
<1>4. pub' \in PubIp \cup {NoIp}
  BY DEF TriggerWANUp, AddTable, Rest
<1>5. stale' \in BOOLEAN
  BY DEF TriggerWANUp, AddTable, Rest
<1> QED
  BY <1>1, <1>2, <1>3, <1>4, <1>5 DEF Rest

LEMMA WANDownInv ==
  ASSUME Core, Rest, TriggerWANDown
  PROVE  Core' /\ Rest'
<1>1. PICK ip \in PubIp : DeleteTable(ip)
  BY DEF TriggerWANDown
<1>2. Core'
  BY <1>1, DeleteTableCore
<1>3. UNCHANGED <<temp, pwrSave, stale, natIfaces>> /\ WanUp' = FALSE
  BY <1>1 DEF TriggerWANDown, DeleteTable
<1>4. up' \in BOOLEAN
  BY <1>1 DEF DeleteTable, Rest
<1>5. pub' \in PubIp \cup {NoIp} /\ pubPre' \in PubIp \cup {NoIp}
  BY <1>1 DEF DeleteTable, Rest
<1> QED
  BY <1>2, <1>3, <1>4, <1>5 DEF Rest

LEMMA NeighbourInv ==
  ASSUME Core, Rest, NEW ip \in Ip,
         HandleNeighIpAddrAddEvt(ip) \/ HandleNeighIpAddrDelEvt(ip)
  PROVE  Core' /\ Rest'
<1>1. CASE HandleNeighIpAddrAddEvt(ip)
  <2>1. Core'
    BY <1>1, ReloadCore DEF HandleNeighIpAddrAddEvt
  <2>2. UNCHANGED <<up, pub, pubPre, stale, WanUp>>
    BY <1>1 DEF HandleNeighIpAddrAddEvt
  <2>3. natIfaces' \subseteq Ip /\ pwrSave' \subseteq Ip
    BY <1>1 DEF HandleNeighIpAddrAddEvt, Reload, Rest
  <2>4. temp' \in [Conn -> 0 .. MaxTemp]
    BY <1>1, FlushedType DEF HandleNeighIpAddrAddEvt
  <2> QED
    BY <2>1, <2>2, <2>3, <2>4 DEF Rest
<1>2. CASE HandleNeighIpAddrDelEvt(ip)
  <2>1. Unload(ip) /\ UNCHANGED <<up, pub, pubPre, curCnt, stale, WanUp>>
    BY <1>2 DEF HandleNeighIpAddrDelEvt, DelEntriesOnClntDiscon
  <2>2. Core'
    BY <2>1, UnloadCore
  <2>3. natIfaces' \subseteq Ip /\ pwrSave' \subseteq Ip
    BY <1>2 DEF HandleNeighIpAddrDelEvt, DelEntriesOnClntDiscon, Rest
  <2>4. temp' \in [Conn -> 0 .. MaxTemp]
    BY <1>2, FlushedType DEF HandleNeighIpAddrDelEvt
  <2> QED
    BY <2>1, <2>2, <2>3, <2>4 DEF Rest
<1> QED
  BY <1>1, <1>2

LEMMA PowerInv ==
  ASSUME Core, Rest, NEW ip \in Ip, PowerSave(ip) \/ PowerRecover(ip)
  PROVE  Core' /\ Rest'
<1>1. CASE PowerSave(ip)
  <2>1. UNCHANGED <<up, pub, pubPre, curCnt, temp, stale, natIfaces, WanUp>>
    BY <1>1 DEF PowerSave, UpdatePwrSaveIf, listenerVars
  <2>2. CASE ip \in pwrSave
    BY <1>1, <2>1, <2>2, CoreKept DEF PowerSave, UpdatePwrSaveIf, Rest
  <2>3. CASE ip \notin pwrSave
    <3>1. Core'
      BY <1>1, <2>1, <2>3, UnloadCore DEF PowerSave, UpdatePwrSaveIf
    <3>2. pwrSave' \subseteq Ip
      BY <1>1 DEF PowerSave, UpdatePwrSaveIf, Rest
    <3> QED
      BY <2>1, <3>1, <3>2 DEF Rest
  <2> QED
    BY <2>2, <2>3
<1>2. CASE PowerRecover(ip)
  <2>1. Reload(ip) /\ UNCHANGED <<up, pub, pubPre, temp, stale, natIfaces, WanUp>>
    BY <1>2 DEF PowerRecover, ResetPwrSaveIf, listenerVars
  <2>2. Core'
    BY <2>1, ReloadCore
  <2>3. pwrSave' \subseteq Ip
    BY <2>1 DEF Reload, Rest
  <2> QED
    BY <2>1, <2>2, <2>3 DEF Rest
<1> QED
  BY <1>1, <1>2

LEMMA ConnectionInv ==
  ASSUME Core, Rest, NEW c \in Conn, NewConnection(c) \/ ConnectionEnds(c)
  PROVE  Core' /\ Rest'
<1>1. UNCHANGED <<natIfaces, WanUp>>
  BY DEF NewConnection, ConnectionEnds
<1>2. CASE UNCHANGED appVars
  BY <1>1, <1>2, StutterInv DEF vars, listenerVars
<1>3. CASE AddEntry(c)
  BY <1>1, <1>3, AddEntryCore DEF AddEntry, Rest
<1>4. CASE CacheEntry(c)
  BY <1>1, <1>4, CacheEntryCore DEF CacheEntry, Rest
<1>5. CASE DeleteEntry(c)
  BY <1>1, <1>5, DeleteEntryCore DEF DeleteEntry, Rest
<1>6. CASE AddTempEntry(c) \/ DeleteTempEntry(c)
  <2>1. UNCHANGED <<rules, up, pub, pubPre, cache, curCnt, pwrSave, stale>>
    BY <1>6 DEF AddTempEntry, DeleteTempEntry
  <2>2. Core'
    BY <2>1, CoreKept
  <2>3. temp' \in [Conn -> 0 .. MaxTemp]
    BY <1>6, TempType
  <2> QED
    BY <1>1, <2>1, <2>2, <2>3 DEF Rest
<1> QED
  BY <1>2, <1>3, <1>4, <1>5, <1>6 DEF NewConnection, ConnectionEnds

LEMMA StepInv == Core /\ Rest /\ [Next]_vars => Core' /\ Rest'
<1> SUFFICES ASSUME Core, Rest, [Next]_vars PROVE Core' /\ Rest'
  OBVIOUS
<1>1. CASE UNCHANGED vars
  BY <1>1, StutterInv
<1>2. CASE \E ip \in PubIp : TriggerWANUp(ip)
  BY <1>2, WANUpInv
<1>3. CASE TriggerWANDown
  BY <1>3, WANDownInv
<1>4. CASE \E ip \in Ip : HandleNeighIpAddrAddEvt(ip) \/ HandleNeighIpAddrDelEvt(ip)
  BY <1>4, NeighbourInv
<1>5. CASE \E ip \in Ip : PowerSave(ip) \/ PowerRecover(ip)
  BY <1>5, PowerInv
<1>6. CASE \E c \in Conn : NewConnection(c) \/ ConnectionEnds(c)
  BY <1>6, ConnectionInv
<1> QED
  BY <1>1, <1>2, <1>3, <1>4, <1>5, <1>6 DEF Next

(* Through every way an entry of the cache is made, loaded, unloaded and   *)
(* forgotten (NatApp.cpp: AddEntry, CacheEntry, DeleteEntry, AddTable,     *)
(* UpdatePwrSaveIf, ResetPwrSaveIf, DelEntriesOnClntDiscon), curCnt counts *)
(* the entries and no connection is cached twice.                          *)
THEOREM CacheIsConsistent == Spec => []CacheConsistent
<1>1. Core /\ Rest => CacheConsistent
  BY CoreMeans
<1> QED
  BY <1>1, InitInv, StepInv, PTL DEF Spec

(* While a table is there that was not made over enabled entries, the      *)
(* enabled entries of the cache are just the rules the driver holds, each  *)
(* under the handle NatApp remembers for it.                               *)
THEOREM TableAlwaysMatches == Spec => []TableMatchesCache
<1>1. Core /\ Rest => TableMatchesCache
  BY CoreMeans
<1> QED
  BY <1>1, InitInv, StepInv, PTL DEF Spec
==============================================================================
