------------------------------- MODULE NatApp -------------------------------
(***************************************************************************)
(* NatApp and the ConntrackListener that feeds it (IPACM).  NatApp caches  *)
(* the connections that are to be translated by the hardware and loads     *)
(* them into the driver's NAT table (NatMap), which exists while the WAN   *)
(* is up.  A client in power save, or gone, has its connections unloaded   *)
(* but not forgotten; they are loaded again when it comes back.            *)
(*                                                                         *)
(* All this runs on IPACM's one event thread: a handler is a step.  The    *)
(* other thread (UpdateUDPTimeStamp) only writes time stamps and is left   *)
(* out, and so is the mode in which the WAN is a Wi-Fi station.            *)
(***************************************************************************)
EXTENDS Naturals, FiniteSets

CONSTANTS
  Conn,        \* connections
  Ip,          \* addresses of clients
  Private,     \* the private address of each connection
  Subnet,      \* the addresses that are in a private subnet
  Alg,         \* connections that use an ALG port
  PubIp,       \* public addresses the WAN may come up with
  MaxEntries,  \* max_entries, of the cache
  MaxTemp,     \* MAX_TEMP_ENTRIES
  MaxHandle    \* the largest handle of the driver

NoConn == "none"

ASSUME NatAppAssumption ==
  /\ IsFiniteSet(Conn) /\ NoConn \notin Conn
  /\ Private \in [Conn -> Ip] /\ Subnet \subseteq Ip /\ Alg \subseteq Conn
  /\ MaxEntries \in Nat /\ MaxTemp \in Nat /\ MaxHandle \in Nat
  /\ PubIp \subseteq Nat \ {0}

NoIp   == 0
Slots  == 1 .. MaxEntries
Empties == [conn |-> NoConn, enabled |-> FALSE, rule_hdl |-> 0]
Entry(c, on, h) == [conn |-> c, enabled |-> on, rule_hdl |-> h]

VARIABLES
  rules,        \* the driver's table (NatMap)
  up,           \* nat_table_hdl # 0
  pub, pubPre,  \* pub_ip_addr, pub_ip_addr_pre
  cache, curCnt,
  temp,         \* the connections in temp: a bag, as a count per connection
  pwrSave,      \* PwrSaveIfs
  natIfaces,    \* nat_iface_ipv4_addr
  WanUp,        \* the listener's
  stale         \* history: the table was made for a new address over enabled entries

listenerVars == <<natIfaces, WanUp>>
appVars == <<rules, up, pub, pubPre, cache, curCnt, temp, pwrSave, stale>>
vars == <<appVars, listenerVars>>

Driver == INSTANCE NatMap WITH Rule <- Conn

AppTypeOK ==
  /\ rules \in Driver!Tables
  /\ up \in BOOLEAN /\ pub \in PubIp \cup {NoIp} /\ pubPre \in PubIp \cup {NoIp}
  /\ cache \in [Slots -> [conn : Conn \cup {NoConn}, enabled : BOOLEAN,
                          rule_hdl : 0 .. MaxHandle]]
  /\ curCnt \in 0 .. MaxEntries
  /\ temp \in [Conn -> 0 .. MaxTemp]
  /\ pwrSave \subseteq Ip /\ natIfaces \subseteq Ip
  /\ WanUp \in BOOLEAN /\ stale \in BOOLEAN

Init ==
  /\ rules = Driver!Empty /\ up = FALSE /\ pub = NoIp /\ pubPre = NoIp
  /\ cache = [s \in Slots |-> Empties] /\ curCnt = 0
  /\ temp = [c \in Conn |-> 0] /\ pwrSave = {}
  /\ natIfaces = {} /\ WanUp = FALSE /\ stale = FALSE

Cached == {cache[s].conn : s \in Slots} \ {NoConn}
Used   == {s \in Slots : cache[s].conn # NoConn}
Free   == Slots \ Used
First(S) == CHOOSE s \in S : \A t \in S : s <= t
OfClient(ip) == {s \in Used : Private[cache[s].conn] = ip}

-----------------------------------------------------------------------------
\* Loading and unloading several entries at once.

\* The entries of S are added to table T one after the other.  The driver refuses some,
\* which are forgotten, and gives the others a free handle each.
Load(T, S) ==
  \E refused \in SUBSET S :
    \E hdl \in [S \ refused -> Driver!Handles \ DOMAIN T] :
      /\ \A s, t \in S \ refused : hdl[s] = hdl[t] => s = t
      /\ rules' = [h \in DOMAIN T \cup {hdl[s] : s \in S \ refused} |->
                     IF h \in DOMAIN T THEN T[h]
                     ELSE cache[CHOOSE s \in S \ refused : hdl[s] = h].conn]
      /\ cache' = [s \in Slots |->
                     IF s \in refused THEN Empties
                     ELSE IF s \in S THEN Entry(cache[s].conn, TRUE, hdl[s]) ELSE cache[s]]
      /\ curCnt' = curCnt - Cardinality(refused)

\* A call that deletes needs a table and a handle that names a rule.
CanDelete(s) == up /\ cache[s].rule_hdl \in DOMAIN rules
Without(S)   == [h \in DOMAIN rules \ {cache[s].rule_hdl : s \in S} |-> rules[h]]

-----------------------------------------------------------------------------
\* NatApp.

\* The cache is loaded again only if the address is that of the last table.
Restores(ip) == ip = pubPre

AddTable(ip) ==
  /\ ~up
  /\ \/ \* ipa_nat_add_ipv4_tbl fails
        UNCHANGED <<rules, up, pub, cache, curCnt, stale>>
     \/ /\ up' = TRUE /\ pub' = ip
        /\ IF Restores(ip)
             THEN Load(Driver!Empty, Used) /\ stale' = FALSE
             ELSE /\ rules' = Driver!Empty /\ UNCHANGED <<cache, curCnt>>
                  /\ stale' = \E s \in Used : cache[s].enabled
  /\ UNCHANGED <<pubPre, temp, pwrSave>>

\* Reset compares the enabled flags with FALSE and leaves them as they are.
DeleteTable(ip) ==
  /\ IF up /\ pub = ip
       THEN up' = FALSE /\ pub' = NoIp /\ pubPre' = pub /\ rules' = Driver!Empty
       ELSE UNCHANGED <<up, pub, pubPre, rules>>
  /\ UNCHANGED <<cache, curCnt, temp, pwrSave, stale>>

IsPwrSave(c) == Private[c] \in pwrSave

Store(s, e) == cache' = [cache EXCEPT ![s] = e] /\ curCnt' = curCnt + 1

AddEntryNew(c) ==
  /\ up /\ c \notin Alg /\ c \notin Cached /\ Free # {}
  /\ IF IsPwrSave(c)
       THEN Store(First(Free), Entry(c, FALSE, 0)) /\ UNCHANGED rules
       ELSE \E h \in Driver!Handles :
              Driver!AddRule(h, c) /\ Store(First(Free), Entry(c, TRUE, h))
AddEntry(c) ==
  /\ \/ AddEntryNew(c)
     \/ \* a duplicate, no room, an ALG port, no table, or the driver refuses the rule
        /\ ~up \/ c \in Alg \cup Cached \/ Free = {} \/ ~IsPwrSave(c)
        /\ UNCHANGED <<rules, cache, curCnt>>
  /\ UNCHANGED <<up, pub, pubPre, temp, pwrSave, stale>>

\* The search for a free entry starts at a variable that was never set.
CacheEntry(c) ==
  /\ \E start \in Slots :
       LET later == {s \in Free : s >= start} IN
         IF c \notin Cached /\ later # {}
           THEN Store(First(later), Entry(c, FALSE, 0))
           ELSE UNCHANGED <<cache, curCnt>>
  /\ UNCHANGED <<rules, up, pub, pubPre, temp, pwrSave, stale>>

\* The entry is forgotten even if the driver does not find its handle.
DeleteEntryOnly(c) ==
  /\ IF c \in Cached
       THEN LET s == First({t \in Used : cache[t].conn = c}) IN
              /\ cache' = [cache EXCEPT ![s] = Empties] /\ curCnt' = curCnt - 1
              /\ UNCHANGED rules
       ELSE UNCHANGED <<rules, cache, curCnt>>
  /\ UNCHANGED <<up, pub, pubPre, temp, pwrSave, stale>>
DeleteEntry(c) ==
  /\ IF c \in Cached
       THEN LET s == First({t \in Used : cache[t].conn = c}) IN
              /\ cache' = [cache EXCEPT ![s] = Empties] /\ curCnt' = curCnt - 1
              /\ rules' = IF cache[s].enabled /\ CanDelete(s) THEN Without({s}) ELSE rules
       ELSE UNCHANGED <<rules, cache, curCnt>>
  /\ UNCHANGED <<up, pub, pubPre, temp, pwrSave, stale>>

\* The rules of a client are unloaded; an entry that cannot be stays enabled.
Unload(ip) ==
  LET S == {s \in OfClient(ip) : cache[s].enabled /\ CanDelete(s)} IN
    /\ rules' = Without(S)
    /\ cache' = [s \in Slots |-> IF s \in S THEN Entry(cache[s].conn, FALSE, 0) ELSE cache[s]]

UpdatePwrSaveIf(ip) ==
  /\ pwrSave' = pwrSave \cup {ip}
  /\ IF ip \in pwrSave THEN UNCHANGED <<rules, cache>> ELSE Unload(ip)
  /\ UNCHANGED <<up, pub, pubPre, curCnt, temp, stale>>

\* The entries of a client that are not loaded are, or are forgotten: without a table the
\* driver refuses every rule.
ReloadUncounted(ip) ==
  LET S == {s \in OfClient(ip) : ~cache[s].enabled} IN
    /\ pwrSave' = pwrSave \ {ip}
    /\ IF up THEN Load(rules, S)
       ELSE /\ cache' = [s \in Slots |-> IF s \in S THEN Empties ELSE cache[s]]
            /\ UNCHANGED <<rules, curCnt>>
Reload(ip) ==
  LET S == {s \in OfClient(ip) : ~cache[s].enabled} IN
    /\ pwrSave' = pwrSave \ {ip}
    /\ IF up THEN Load(rules, S)
       ELSE /\ cache' = [s \in Slots |-> IF s \in S THEN Empties ELSE cache[s]]
            /\ curCnt' = curCnt - Cardinality(S)
            /\ UNCHANGED rules

ResetPwrSaveIf(ip) ==
  /\ Reload(ip)
  /\ UNCHANGED <<up, pub, pubPre, temp, stale>>

DelEntriesOnClntDiscon(ip) ==
  /\ pwrSave' = pwrSave \ {ip}
  /\ Unload(ip)
  /\ UNCHANGED <<up, pub, pubPre, curCnt, stale>>

TempCount == Cardinality({p \in Conn \X (1 .. MaxTemp) : p[2] <= temp[p[1]]})

AddTempEntry(c) ==
  /\ temp' = IF TempCount < MaxTemp THEN [temp EXCEPT ![c] = @ + 1] ELSE temp
  /\ UNCHANGED <<rules, up, pub, pubPre, cache, curCnt, pwrSave, stale>>

DeleteTempEntry(c) ==
  /\ temp' = IF temp[c] > 0 THEN [temp EXCEPT ![c] = @ - 1] ELSE temp
  /\ UNCHANGED <<rules, up, pub, pubPre, cache, curCnt, pwrSave, stale>>

\* The connections of ip are flushed.  They have no public address of their own, so they
\* are not added if there is a table, and are kept if there is none and they should be.
Flushed(ip, isAdd) ==
  [c \in Conn |-> IF Private[c] = ip /\ ~(isAdd /\ pub = NoIp) THEN 0 ELSE temp[c]]

-----------------------------------------------------------------------------
\* The listener.

TriggerWANUp(ip) ==
  /\ ~WanUp /\ WanUp' = TRUE
  /\ AddTable(ip)
  /\ UNCHANGED natIfaces

TriggerWANDown ==
  /\ WanUp /\ WanUp' = FALSE
  /\ \E ip \in PubIp : (up => ip = pub) /\ DeleteTable(ip)
  /\ UNCHANGED natIfaces

HandleNeighIpAddrAddEvt(ip) ==
  /\ ip \notin natIfaces /\ natIfaces' = natIfaces \cup {ip}
  /\ Reload(ip)
  /\ temp' = Flushed(ip, TRUE)
  /\ UNCHANGED <<up, pub, pubPre, stale, WanUp>>

HandleNeighIpAddrDelEvt(ip) ==
  /\ natIfaces' = natIfaces \ {ip}
  /\ temp' = Flushed(ip, FALSE)
  /\ DelEntriesOnClntDiscon(ip)
  /\ UNCHANGED WanUp

IsNat(c)  == Private[c] \in natIfaces
IsTemp(c) == ~IsNat(c) /\ Private[c] \in Subnet

\* conntrack may tell of an established connection, and of its end, more than once.
NewConnection(c) ==
  /\ CASE ~IsNat(c) /\ ~IsTemp(c) -> UNCHANGED appVars
       [] ~WanUp /\ (IsNat(c) \/ IsTemp(c)) -> CacheEntry(c)
       [] WanUp /\ IsTemp(c) -> AddTempEntry(c)
       [] OTHER -> AddEntry(c)
  /\ UNCHANGED <<natIfaces, WanUp>>

ConnectionEnds(c) ==
  /\ CASE IsNat(c) -> DeleteEntry(c)
       [] IsTemp(c) -> DeleteTempEntry(c)
       [] OTHER -> UNCHANGED appVars
  /\ UNCHANGED <<natIfaces, WanUp>>

\* The Wi-Fi driver reports power save of a client that has its address.
PowerSave(ip)   == ip \in natIfaces /\ UpdatePwrSaveIf(ip) /\ UNCHANGED listenerVars
PowerRecover(ip) == ip \in natIfaces /\ ip \in pwrSave /\ ResetPwrSaveIf(ip)
                    /\ UNCHANGED listenerVars

Next ==
  \/ \E ip \in PubIp : TriggerWANUp(ip)
  \/ TriggerWANDown
  \/ \E ip \in Ip : \/ HandleNeighIpAddrAddEvt(ip) \/ HandleNeighIpAddrDelEvt(ip)
                    \/ PowerSave(ip) \/ PowerRecover(ip)
  \/ \E c \in Conn : NewConnection(c) \/ ConnectionEnds(c)

Spec == Init /\ [][Next]_vars

-----------------------------------------------------------------------------
\* Correctness.

\* The counter of entries counts them, through every way an entry is forgotten.
CountIsRight == curCnt = Cardinality(Used)

\* No connection is cached twice, so a deletion that stops at the first match deletes all;
\* the cache is consistent if both hold.
NoDuplicates == \A s, t \in Used : cache[s].conn = cache[t].conn => s = t

CacheConsistent == AppTypeOK /\ CountIsRight /\ NoDuplicates

\* While a table is there, the enabled entries are just the rules it holds, under the
\* handles the cache has for them, unless entries of an earlier table were left enabled.
TableMatchesCache ==
  up /\ ~stale =>
    /\ \A s \in Used : cache[s].enabled => Driver!Holds(cache[s].rule_hdl, cache[s].conn)
    /\ \A h \in DOMAIN rules : \E s \in Used : cache[s].enabled /\ cache[s].rule_hdl = h

\* "NAT tbl deleted, reset enabled bit" (IPACM_Conntrack_NATApp.cpp): an enabled entry
\* never has the handle of another connection's rule.
NoStaleHandle ==
  \A s \in Used : cache[s].enabled /\ cache[s].rule_hdl \in DOMAIN rules =>
    rules[cache[s].rule_hdl] = cache[s].conn
=============================================================================
