------------------------------ MODULE NatTable ------------------------------
(***************************************************************************)
(* The IPA NAT driver (ipanat): one IPv4 NAT table in the memory the IPA   *)
(* hardware reads.  A rule is hashed twice.  The base table is entered by  *)
(* the hash of an incoming packet, the index table by that of an outgoing  *)
(* one; an entry of the index table names an entry of the base table.      *)
(* Rules that collide are chained through expansion tables.                *)
(*                                                                         *)
(* Entries are numbered as the links number them: those of the base table  *)
(* from 0, those of its expansion from TableEntries.  Entry 0 of each is   *)
(* never used, and stands for "none".  A call of the driver is one step;   *)
(* each command to the hardware may fail.                                  *)
(***************************************************************************)
EXTENDS Naturals, FiniteSets

CONSTANTS
  Rule,          \* rules of the client
  NoRule,        \* the rule of a zeroed entry
  TableEntries,  \* table_entries, of the base and of the index table
  ExpnEntries,   \* expn_table_entries
  DstHash,       \* the hashes of each rule, masked with TableEntries - 1
  SrcHash,
  AddFaults      \* whether commands that add a rule may fail

ASSUME NatAssumption ==
  /\ TableEntries \in Nat \ {0, 1}
  /\ ExpnEntries \in Nat \ {0}
  /\ DstHash \in [Rule -> 0 .. TableEntries - 1]
  /\ SrcHash \in [Rule -> 0 .. TableEntries - 1]
  /\ NoRule \notin Rule
  /\ AddFaults \in BOOLEAN

None    == 0
Entries == 0 .. TableEntries + ExpnEntries - 1
Base    == 1 .. TableEntries - 1
Expn    == TableEntries + 1 .. TableEntries + ExpnEntries - 1
Usable  == Base \cup Expn
Handles == 1 .. TableEntries + ExpnEntries

VARIABLES
  valid,          \* there is a table
  tab,            \* ipv4_rules_addr and ipv4_expn_rules_addr
  index,          \* index_table_addr and index_table_expn_addr
  meta,           \* index_expn_table_meta: prev_index of the index expansion
  rule_id_array   \* the entry each handle names, or None

tableVars == <<valid, tab, index, meta, rule_id_array>>

ZeroRule  == [rule |-> NoRule, enable |-> FALSE, dead |-> FALSE, next |-> None,
              prev |-> None, index |-> None]
ZeroIndex == [entry |-> None, next |-> None]

NTypeOK ==
  /\ valid \in BOOLEAN
  /\ tab \in [Entries -> [rule : Rule \cup {NoRule}, enable : BOOLEAN, dead : BOOLEAN,
                          next : Expn \cup {None}, prev : Usable \cup {None},
                          index : Usable \cup {None}]]
  /\ index \in [Entries -> [entry : Usable \cup {None}, next : Expn \cup {None}]]
  /\ meta \in [Expn -> Usable \cup {None}]
  /\ rule_id_array \in [Handles -> Usable \cup {None}]

Live     == {h \in Handles : rule_id_array[h] # None}
ruleOf   == [h \in Live |-> tab[rule_id_array[h]].rule]
Zeroed   ==
  /\ tab' = [e \in Entries |-> ZeroRule]
  /\ index' = [e \in Entries |-> ZeroIndex]
  /\ meta' = [e \in Expn |-> None]
  /\ rule_id_array' = [h \in Handles |-> None]

TableInit ==
  /\ valid = FALSE
  /\ tab = [e \in Entries |-> ZeroRule]
  /\ index = [e \in Entries |-> ZeroIndex]
  /\ meta = [e \in Expn |-> None]
  /\ rule_id_array = [h \in Handles |-> None]

-----------------------------------------------------------------------------
\* Chains: the entries that the links of t lead to from entry h.

Closed(t, h, S) ==
  /\ t[h].next # None => t[h].next \in S
  /\ \A e \in S : t[e].next # None => t[e].next \in S

Chain(t, h) == {h} \cup {e \in Expn : \A S \in SUBSET Expn : Closed(t, h, S) => e \in S}

IsLast(t, h, e) == e \in Chain(t, h) /\ t[e].next = None

\* Slot 0 is not used: a rule that hashes to it goes into the last one.
HashSlot(hash) == IF hash = 0 THEN TableEntries - 1 ELSE hash

Dst(r) == HashSlot(DstHash[r])
Src(r) == HashSlot(SrcHash[r])

\* The first entry of an expansion that is free.
FirstFree(free) == {e \in free : \A f \in free : e <= f}

-----------------------------------------------------------------------------
\* Adding a rule: where the rule goes, and the last entry of its chain.

TblEntry(r, e, p) ==
  LET h == Dst(r) IN
    IF tab[h].enable
      THEN e \in FirstFree({f \in Expn : ~tab[f].enable}) /\ IsLast(tab, h, p)
      ELSE e = h /\ p = None

IndexEntry(r, e, p) ==
  LET h == Src(r) IN
    IF index[h].entry # None
      THEN e \in FirstFree({f \in Expn : index[f].entry = None}) /\ IsLast(index, h, p)
      ELSE e = h /\ p = None

Link(t, p, e, linked) == IF p # None /\ linked THEN [t EXCEPT ![p].next = e] ELSE t

\* make_rule_hdl: the first free handle.
CountedHandle == {Cardinality(Live) + 1} \cap Handles
FirstHandle == {h \in Handles \ Live : \A g \in Handles \ Live : h <= g}

\* The commands that link the rule in its two chains and the one that enables it; only
\* the failure of the last is noticed.
Add(r, e, p, i, q, linked, indexed, enabled) ==
  /\ tab' = Link([tab EXCEPT ![e] = [rule |-> r, enable |-> enabled, dead |-> FALSE,
                                     next |-> None, prev |-> p, index |-> i]], p, e, linked)
  /\ index' = Link([index EXCEPT ![i] = [entry |-> e, next |-> None]], q, i, indexed)
  /\ meta' = IF i \in Expn THEN [meta EXCEPT ![i] = q] ELSE meta
  /\ IF enabled /\ FirstHandle # {}
       THEN \E h \in FirstHandle : rule_id_array' = [rule_id_array EXCEPT ![h] = e]
       ELSE UNCHANGED rule_id_array

\* NatApp adds no connection it has in its cache (ChkForDup).
AddRule(r) ==
  /\ valid /\ \A h \in Live : ruleOf[h] # r
  /\ \E e, i \in Usable, p, q \in Usable \cup {None} :
       /\ TblEntry(r, e, p) /\ IndexEntry(r, i, q)
       /\ \E linked, indexed, enabled \in IF AddFaults THEN BOOLEAN ELSE {TRUE} :
            Add(r, e, p, i, q, linked, indexed, enabled)
  /\ UNCHANGED valid

-----------------------------------------------------------------------------
\* Deleting a rule: what becomes of the rule table ...

\* The head of a chain stays, with an invalid protocol, while the chain has other entries.
Unlinked(e) ==
  LET cur == tab[e] IN
    CASE e \in Base /\ cur.next = None -> [tab EXCEPT ![e] = ZeroRule]
      [] e \in Base /\ cur.next # None -> [tab EXCEPT ![e].dead = TRUE]
      [] e \in Expn /\ cur.next = None -> [tab EXCEPT ![cur.prev].next = None, ![e] = ZeroRule]
      [] OTHER -> [tab EXCEPT ![cur.prev].next = cur.next, ![cur.next].prev = cur.prev,
                              ![e] = ZeroRule]

KeepDeadHeads(t) == t
DelDeadHeads(t) ==
  [e \in Entries |-> IF e \in Base /\ t[e].dead /\ t[e].next = None THEN ZeroRule ELSE t[e]]

\* ... and of the index table, whose entry i names it.  A head is replaced by the entry
\* after it, and the rule that entry names is told.
MovesHead(i) == i \in Base /\ index[i].next # None

KeepsIndexEntry(t, i) == t
Renamed(t, i) ==
  IF MovesHead(i) THEN [t EXCEPT ![index[index[i].next].entry].index = i] ELSE t

UnlinkIndex(i) ==
  LET n == index[i].next IN
    CASE i \in Base /\ n = None ->
           index' = [index EXCEPT ![i] = ZeroIndex] /\ UNCHANGED meta
      [] MovesHead(i) ->
           /\ index' = [index EXCEPT ![i] = index[n], ![n] = ZeroIndex]
           /\ meta' = IF index[n].next # None THEN [meta EXCEPT ![index[n].next] = i] ELSE meta
      [] i \in Expn /\ n = None ->
           index' = [index EXCEPT ![meta[i]].next = None, ![i] = ZeroIndex] /\ UNCHANGED meta
      [] OTHER ->
           /\ index' = [index EXCEPT ![meta[i]].next = n, ![i] = ZeroIndex]
           /\ meta' = [meta EXCEPT ![n] = meta[i], ![i] = None]

\* A handle is looked up only below the number of entries.
Parses(h) == h < TableEntries + ExpnEntries /\ rule_id_array[h] # None

DelRule(h) ==
  /\ valid /\ Parses(h)
  /\ LET e == rule_id_array[h] IN
       /\ tab[e].enable
       /\ UnlinkIndex(tab[e].index)
       /\ tab' = DelDeadHeads(Renamed(Unlinked(e), tab[e].index))
  /\ rule_id_array' = [rule_id_array EXCEPT ![h] = None]
  /\ UNCHANGED valid

-----------------------------------------------------------------------------
AddIpv4Tbl ==
  /\ ~valid /\ valid' = TRUE
  /\ Zeroed

DelIpv4Tbl ==
  /\ valid /\ valid' = FALSE
  /\ Zeroed

TableNext ==
  \/ AddIpv4Tbl \/ DelIpv4Tbl
  \/ \E r \in Rule : AddRule(r)
  \/ \E h \in Handles : DelRule(h)

TableSpec == TableInit /\ [][TableNext]_tableVars

-----------------------------------------------------------------------------
\* Correctness.

\* Every handle given out can be used, and its rule is where the hardware looks for it: in
\* the chain of its destination hash, enabled and not dead, and named by an entry in the
\* index chain of its source hash (generate_tbl_rule, generate_index_rule,
\* post_del_dma_cmd).
Found(h) ==
  LET e == rule_id_array[h]
      i == tab[e].index
  IN /\ Parses(h) /\ tab[e].enable /\ ~tab[e].dead
     /\ e \in Chain(tab, Dst(tab[e].rule))
     /\ index[i].entry = e
     /\ i \in Chain(index, Src(tab[e].rule))
RulesAreFound == \A h \in Live : Found(h)

\* Nothing else is found: an entry that is enabled and not dead, or named by the index
\* table, has exactly one handle, so a deleted rule translates no packet and no entry is
\* lost to later rules.
HandlesOf(e) == {h \in Handles : rule_id_array[h] = e}
NothingElseIsFound ==
  /\ \A e \in Usable : tab[e].enable /\ ~tab[e].dead => Cardinality(HandlesOf(e)) = 1
  /\ \A i \in Usable : index[i].entry # None =>
       /\ Cardinality(HandlesOf(index[i].entry)) = 1
       /\ tab[index[i].entry].index = i

\* The hardware finds exactly the rules that were added and not deleted.
FoundAsAdded == RulesAreFound /\ NothingElseIsFound

\* The links of both chains lead back the way they came, which is what the deletion of an
\* entry in the middle relies on, and a dead head has entries behind it.
LinksAgree ==
  /\ \A e \in Usable : tab[e].next # None => tab[tab[e].next].enable /\ tab[tab[e].next].prev = e
  /\ \A e \in Expn : tab[e].enable => tab[e].prev # None /\ tab[tab[e].prev].next = e
  /\ \A e \in Usable : index[e].next # None =>
       index[index[e].next].entry # None /\ meta[index[e].next] = e
  /\ \A e \in Base : tab[e].dead => tab[e].enable /\ tab[e].next # None

\* The tables are well formed.
TableConsistent == NTypeOK /\ LinksAgree

Abstract == INSTANCE NatMap WITH MaxHandle <- TableEntries + ExpnEntries, rules <- ruleOf
\* The table is the map from handles to rules that NatApp takes it for.
ImplementsNatMap == Abstract!MapSpec
=============================================================================
