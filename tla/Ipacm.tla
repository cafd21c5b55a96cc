------------------------------- MODULE Ipacm -------------------------------
(* The IPA connection manager's event loop: the command queue, the dispatch  *)
(* of an event to its listeners, the life of the interface instances and     *)
(* the uplink filter rules a tethered interface has while a modem backhaul   *)
(* is up.                                                                    *)
(*                                                                           *)
(* Three threads post to the queue (the netlink thread, the driver's message *)
(* thread and the command thread itself); one thread takes the events and    *)
(* calls the listeners.  There is one access point (Wlan), one USB interface *)
(* (Usb) and the modem's data interfaces (Wans), the configuration of the    *)
(* Android build with the modem (Q6) as backhaul.                            *)
EXTENDS Naturals, FiniteSets, SequencesExt

CONSTANTS
    Wlan, Usb,    \* the interfaces that can be tethered
    Wans,         \* the modem's data interfaces
    Fams,         \* the IP families in use
    NoIf,         \* no interface
    OneUpstream,  \* does the system choose one upstream for all?
    MaxChanges,   \* bound: links lost and upstreams chosen
    MaxDriver,    \* bound: driver messages not yet read
    MaxQueue      \* bound: events queued when the netlink thread posts another

LanSide == {Wlan, Usb}
Ifs == LanSide \cup Wans

ASSUME IpacmAssumption ==
    /\ Fams \subseteq {"v4", "v6"}
    /\ NoIf \notin Ifs /\ Wlan # Usb
    /\ LanSide \cap Wans = {}

VARIABLES
    queue,      \* MessageQueue: events posted and not yet taken
    walk,       \* the event being dispatched and the listeners still to call
    instances,  \* the instances, in the order in which they registered
    is_active,  \* LAN-side instances that have not gone down
    ip_type,    \* the families an instance has an address of
    ul_set,     \* modem_ul_v4_set, modem_ul_v6_set of a LAN-side instance
    active,     \* active_v4, active_v6 of a modem instance
    gateway,    \* the modem instances with is_default_gateway
    if_cat,     \* the access point's category
    wan_up,     \* IPACM_Wan::wan_up, wan_up_v6
    tether,     \* IPACM_Wan::ipa_if_num_tether_v4, _v6
    rules,      \* uplink rules in the hardware, per interface and family
    driver,     \* driver messages its reading thread has not posted yet
    kernel      \* the links, addresses and upstreams as the system has them

daemon == <<instances, is_active, ip_type, ul_set, active, gateway, if_cat,
            wan_up, tether, rules>>
vars == <<queue, walk, daemon, driver, kernel>>

-----------------------------------------------------------------------------
(* Events.                                                                   *)
Event(e, i, f, w) == [ev |-> e, i |-> i, f |-> f, w |-> w]
LinkEvent(e, i) == Event(e, i, NoIf, NoIf)
Idle == [msg |-> LinkEvent("none", NoIf), rest |-> {}]
Walk(m, s) == IF s = {} THEN Idle ELSE [msg |-> m, rest |-> s]
Asleep == walk.rest = {}

Exists(i) == i \in ToSet(instances)

(* The listeners of an event: the manager hears of links that come up, every *)
(* modem instance of upstreams, and of everything else the instance it is    *)
(* about (the other instances return at once from such an event).            *)
IfaceManager == NoIf
UpEvents == {"LINK_UP", "USB_LINK_UP", "WLAN_LINK_UP"}
UpstreamEvents == {"ROUTE_ADD", "ROUTE_DEL"}
Listeners(m) ==
    LET hears(i) == IF m.ev \in UpstreamEvents THEN i \in Wans ELSE i = m.i
    IN  IF m.ev \in UpEvents THEN {IfaceManager} ELSE {i \in ToSet(instances) : hears(i)}

Post(s) == queue' = queue \o s

(* The command thread takes the oldest event and starts down the list.       *)
Process ==
    /\ Asleep
    /\ queue # <<>>
    /\ walk' = Walk(Head(queue), Listeners(Head(queue)))
    /\ queue' = Tail(queue)
    /\ UNCHANGED <<daemon, driver, kernel>>

(* They are called in the order in which they registered.                    *)
Place(i) == CHOOSE n \in DOMAIN instances : instances[n] = i
Turn(o) == /\ o \in walk.rest
           /\ \A p \in walk.rest \ {o} : Place(o) < Place(p)

(* The listener that is called now; its callback returns to the list.        *)
Calls(o, e) == Turn(o) /\ walk.msg.ev = e
Returns(o) == /\ walk' = Walk(walk.msg, walk.rest \ {o})
              /\ UNCHANGED <<driver, kernel>>

(* An instance that has gone down returns from all but its deletion.         *)
Ignored(o) ==
    /\ Turn(o)
    /\ o \in LanSide \ is_active
    /\ walk.msg.ev # "DELETE_SELF"
    /\ Returns(o)
    /\ UNCHANGED <<queue, daemon>>

-----------------------------------------------------------------------------
(* The interface manager.                                                    *)

KnownLater(i) == <<>>

(* iface_addr_query posts the addresses the kernel has by now.               *)
KnownAddresses(i) ==
    LET addressed(f) == Event("ADDR_ADD", i, f, NoIf)
    IN  SetToSeq({addressed(f) : f \in kernel.addr[i]})

Created(i) == /\ instances' = Append(instances, i)
              /\ is_active' = is_active \cup ({i} \cap LanSide)
              /\ Post(KnownAddresses(i))

CreateOnce(i) == IF Exists(i) THEN UNCHANGED <<queue, instances, is_active>> ELSE Created(i)

(* The destructor: no registration is left, and the fields of an instance    *)
(* that does not exist are at what its constructor will set.                 *)
Deleted(i) == /\ instances' = RemoveFirst(instances, i)
              /\ ip_type' = [ip_type EXCEPT ![i] = {}]

LinkIsUp(i) ==
    /\ i # Wlan
    /\ Calls(IfaceManager, IF i = Usb THEN "USB_LINK_UP" ELSE "LINK_UP")
    /\ walk.msg.i = i
    /\ CreateOnce(i)
    /\ Returns(IfaceManager)
    /\ UNCHANGED <<ip_type, ul_set, active, gateway, if_cat, wan_up, tether, rules>>

AccessPointIsUp ==
    /\ Calls(IfaceManager, "WLAN_LINK_UP")
    /\ if_cat' = "WLAN_IF"
    /\ IF if_cat = "UNKNOWN_IF"
       THEN CreateOnce(Wlan)
       ELSE UNCHANGED <<queue, instances, is_active>>
    /\ Returns(IfaceManager)
    /\ UNCHANGED <<ip_type, ul_set, active, gateway, wan_up, tether, rules>>

-----------------------------------------------------------------------------
(* LAN-side instances.                                                       *)

isWanUP(i, f) == f \in wan_up /\ i \in ToSet(tether[f])

(* The uplink rules of a family are installed once and removed by their      *)
(* handles, which only the instance that installed them keeps.               *)
handle_wan_up_ex(i, fs) ==
    /\ rules' = [rules EXCEPT ![i] = [f \in Fams |-> IF f \in fs \ ul_set[i]
                                                     THEN @[f] + 1 ELSE @[f]]]
    /\ ul_set' = [ul_set EXCEPT ![i] = @ \cup fs]

handle_wan_down(i, fs) ==
    /\ rules' = [rules EXCEPT ![i] = [f \in Fams |-> IF f \in fs \cap ul_set[i]
                                                     THEN @[f] - 1 ELSE @[f]]]
    /\ ul_set' = [ul_set EXCEPT ![i] = @ \ fs]

Concerns(i, e) == /\ Calls(i, e)
                  /\ walk.msg.i = i

LanAddressOnly(i) ==
    /\ Concerns(i, "ADDR_ADD")
    /\ i \in is_active
    /\ ip_type' = [ip_type EXCEPT ![i] = @ \cup {walk.msg.f}]
    /\ Returns(i)
    /\ UNCHANGED <<queue, instances, is_active, ul_set, active, gateway, if_cat, wan_up, tether, rules>>

(* A family's first address; a repeated IPv6 address is looked at again.     *)
LanAddress(i) ==
    /\ Concerns(i, "ADDR_ADD")
    /\ i \in is_active
    /\ LET f == walk.msg.f
           counts == f \notin ip_type[i] \/ f = "v6"
       IN  /\ ip_type' = [ip_type EXCEPT ![i] = @ \cup {f}]
           /\ handle_wan_up_ex(i, IF counts /\ isWanUP(i, f) THEN {f} ELSE {})
    /\ Returns(i)
    /\ UNCHANGED <<queue, instances, is_active, active, gateway, if_cat, wan_up, tether>>

LanWanUp(i) ==
    /\ Concerns(i, "WAN_UP")
    /\ i \in is_active
    /\ handle_wan_up_ex(i, {walk.msg.f} \cap ip_type[i])
    /\ Returns(i)
    /\ UNCHANGED <<queue, instances, is_active, ip_type, active, gateway, if_cat, wan_up, tether>>

LanWanDown(i) ==
    /\ Concerns(i, "WAN_DOWN")
    /\ i \in is_active
    /\ handle_wan_down(i, {walk.msg.f} \cap ip_type[i])
    /\ Returns(i)
    /\ UNCHANGED <<queue, instances, is_active, ip_type, active, gateway, if_cat, wan_up, tether>>

(* The link went down: the rules of the backhaul that is up go, and the      *)
(* instance asks to be deleted.                                              *)
LanDown(i) ==
    /\ Concerns(i, IF i = Wlan THEN "WLAN_LINK_DOWN" ELSE "LINK_DOWN")
    /\ i \in is_active
    /\ handle_wan_down(i, IF ip_type[i] = {} THEN {} ELSE {f \in Fams : isWanUP(i, f)})
    /\ is_active' = is_active \ {i}
    /\ if_cat' = IF i = Wlan THEN "UNKNOWN_IF" ELSE if_cat
    /\ Post(<<LinkEvent("DELETE_SELF", i)>>)
    /\ Returns(i)
    /\ UNCHANGED <<instances, ip_type, active, gateway, wan_up, tether>>

LanDelete(i) ==
    /\ Concerns(i, "DELETE_SELF")
    /\ Deleted(i)
    /\ ul_set' = [ul_set EXCEPT ![i] = {}]
    /\ Returns(i)
    /\ UNCHANGED <<queue, is_active, active, gateway, if_cat, wan_up, tether, rules>>

-----------------------------------------------------------------------------
(* Modem instances.                                                          *)

RoutesStayActive(w, fs) ==
    /\ gateway' = gateway \ {w}
    /\ UNCHANGED active

(* handle_route_del_evt_ex, for the families of fs that are active.          *)
RoutesGone(w, fs) ==
    /\ gateway' = gateway \ {w}
    /\ active' = [active EXCEPT ![w] = @ \ fs]

WanAddress(w) ==
    /\ Concerns(w, "ADDR_ADD")
    /\ ip_type' = [ip_type EXCEPT ![w] = @ \cup {walk.msg.f}]
    /\ Returns(w)
    /\ UNCHANGED <<queue, instances, is_active, ul_set, active, gateway, if_cat, wan_up, tether, rules>>

(* post_wan_up_tether_evt, after the family's first route was added.         *)
WanRouteAdd(w) ==
    LET f == walk.msg.f
        t == walk.msg.i
    IN  /\ Calls(w, "ROUTE_ADD")
        /\ walk.msg.w = w
        /\ IF f \in ip_type[w]
           THEN /\ wan_up' = IF f \in active[w] THEN wan_up ELSE wan_up \cup {f}
                /\ gateway' = IF f \in active[w] THEN gateway ELSE gateway \cup {w}
                /\ active' = [active EXCEPT ![w] = @ \cup {f}]
                /\ tether' = [tether EXCEPT ![f] = Append(@, t)]
                /\ Post(<<Event("WAN_UP", t, f, NoIf)>>)
           ELSE UNCHANGED <<queue, active, gateway, wan_up, tether>>
        /\ Returns(w)
        /\ UNCHANGED <<instances, is_active, ip_type, ul_set, if_cat, rules>>

(* The upstream moved to another interface: the old one's route is cleaned.  *)
WanRouteElsewhere(w) ==
    LET f == walk.msg.f
    IN  /\ Calls(w, "ROUTE_ADD")
        /\ walk.msg.w # w
        /\ IF f \in active[w]
           THEN /\ RoutesGone(w, {f})
                /\ wan_up' = wan_up \ {f}
           ELSE UNCHANGED <<active, gateway, wan_up>>
        /\ Returns(w)
        /\ UNCHANGED <<queue, instances, is_active, ip_type, ul_set, if_cat, tether, rules>>

(* post_wan_down_tether_evt; the route goes with the last tethered interface. *)
WanRouteDel(w) ==
    LET f == walk.msg.f
        t == walk.msg.i
        told == t \in ToSet(tether[f])
        last == RemoveFirst(tether[f], t) = <<>>
        mine == walk.msg.w = w /\ f \in active[w]
    IN  /\ Calls(w, "ROUTE_DEL")
        /\ tether' = IF mine THEN [tether EXCEPT ![f] = RemoveFirst(@, t)] ELSE tether
        /\ Post(IF mine /\ told THEN <<Event("WAN_DOWN", t, f, NoIf)>> ELSE <<>>)
        /\ IF mine /\ last
           THEN /\ RoutesGone(w, {f})
                /\ wan_up' = wan_up \ {f}
           ELSE UNCHANGED <<active, gateway, wan_up>>
        /\ Returns(w)
        /\ UNCHANGED <<instances, is_active, ip_type, ul_set, if_cat, rules>>

(* handle_down_evt_ex, then the instance is deleted.                         *)
WanDown(w) ==
    LET fs == IF w \in gateway THEN ip_type[w] ELSE {}
        told(f) == [n \in DOMAIN tether[f] |-> Event("WAN_DOWN", tether[f][n], f, NoIf)]
    IN  /\ Concerns(w, "LINK_DOWN")
        /\ RoutesGone(w, Fams)
        /\ wan_up' = wan_up \ fs
        /\ tether' = [f \in Fams |-> IF f \in fs THEN <<>> ELSE tether[f]]
        /\ Post((IF "v4" \in fs THEN told("v4") ELSE <<>>)
                \o (IF "v6" \in fs THEN told("v6") ELSE <<>>))
        /\ Deleted(w)
        /\ Returns(w)
        /\ UNCHANGED <<is_active, ul_set, if_cat, rules>>

-----------------------------------------------------------------------------
(* The kernel and the threads that report what it does.  The driver's thread *)
(* tells of the access point and of the upstreams, the netlink thread of     *)
(* everything else.                                                          *)
Changes == UNCHANGED <<walk, daemon>>
DriverSees(e) == /\ Len(driver) < MaxDriver
                 /\ driver' = Append(driver, e)
                 /\ UNCHANGED queue
NetlinkSees(e) == /\ Len(queue) < MaxQueue
                  /\ Post(<<e>>)
                  /\ UNCHANGED driver
Told(i, e) == IF i = Wlan THEN DriverSees(e) ELSE NetlinkSees(e)

LinkUp(i) ==
    /\ Changes
    /\ i \notin kernel.link
    /\ kernel' = [kernel EXCEPT !.link = @ \cup {i}]
    /\ Told(i, LinkEvent(IF i = Wlan THEN "WLAN_LINK_UP"
                         ELSE IF i = Usb THEN "USB_LINK_UP" ELSE "LINK_UP", i))

LinkDown(i) ==
    /\ Changes
    /\ kernel.changes < MaxChanges
    /\ i \in kernel.link
    /\ kernel' = [kernel EXCEPT !.link = @ \ {i}, !.addr[i] = {}, !.changes = @ + 1]
    /\ Told(i, LinkEvent(IF i = Wlan THEN "WLAN_LINK_DOWN" ELSE "LINK_DOWN", i))

NewAddress(i, f) ==
    /\ Changes
    /\ i \in kernel.link
    /\ f \notin kernel.addr[i]
    /\ kernel' = [kernel EXCEPT !.addr[i] = @ \cup {f}]
    /\ NetlinkSees(Event("ADDR_ADD", i, f, NoIf))

(* The system lets a tethered interface use an upstream, or stops it.        *)
Upstream(t, f, w) ==
    /\ Changes
    /\ kernel.changes < MaxChanges
    /\ kernel.upstream[t][f] = NoIf
    /\ f \in kernel.addr[w]
    /\ OneUpstream => \A o \in LanSide : kernel.upstream[o][f] \in {NoIf, w}
    /\ kernel' = [kernel EXCEPT !.upstream[t][f] = w, !.changes = @ + 1]
    /\ DriverSees(Event("ROUTE_ADD", t, f, w))

NoUpstream(t, f) ==
    /\ Changes
    /\ kernel.upstream[t][f] # NoIf
    /\ kernel' = [kernel EXCEPT !.upstream[t][f] = NoIf]
    /\ DriverSees(Event("ROUTE_DEL", t, f, kernel.upstream[t][f]))

DriverPosts ==
    /\ driver # <<>>
    /\ Post(<<Head(driver)>>)
    /\ driver' = Tail(driver)
    /\ UNCHANGED <<walk, daemon, kernel>>

-----------------------------------------------------------------------------
Init ==
    /\ queue = <<>>
    /\ walk = Idle
    /\ instances = <<>>
    /\ is_active = {}
    /\ ip_type = [i \in Ifs |-> {}]
    /\ ul_set = [i \in LanSide |-> {}]
    /\ active = [w \in Wans |-> {}]
    /\ gateway = {}
    /\ if_cat = "UNKNOWN_IF"
    /\ wan_up = {}
    /\ tether = [f \in Fams |-> <<>>]
    /\ rules = [i \in LanSide |-> [f \in Fams |-> 0]]
    /\ driver = <<>>
    /\ kernel = [link |-> {}, addr |-> [i \in Ifs |-> {}],
                 upstream |-> [t \in LanSide |-> [f \in Fams |-> NoIf]], changes |-> 0]

CommandThread ==
    \/ Process
    \/ AccessPointIsUp
    \/ \E i \in Ifs : LinkIsUp(i)
    \/ \E i \in LanSide : \/ Ignored(i)
                          \/ LanAddress(i)
                          \/ LanWanUp(i)
                          \/ LanWanDown(i)
                          \/ LanDown(i)
                          \/ LanDelete(i)
    \/ \E w \in Wans : \/ WanAddress(w)
                       \/ WanRouteAdd(w)
                       \/ WanRouteElsewhere(w)
                       \/ WanRouteDel(w)
                       \/ WanDown(w)

Kernel ==
    \/ \E i \in Ifs : LinkUp(i) \/ LinkDown(i)
    \/ \E i \in Ifs, f \in Fams : NewAddress(i, f)
    \/ \E t \in LanSide, f \in Fams, w \in Wans : Upstream(t, f, w)
    \/ \E t \in LanSide, f \in Fams : NoUpstream(t, f)

Next == CommandThread \/ DriverPosts \/ Kernel

Spec == Init /\ [][Next]_vars

-----------------------------------------------------------------------------
Quiet == Asleep /\ queue = <<>> /\ driver = <<>>

(* IPACM_Wan keeps wan_up for all modem interfaces, each of which sets and   *)
(* clears it for itself: while the system uses one upstream at a time, it    *)
(* says that some interface has its default route in hardware.               *)
WanUpIsTrue == \A f \in Fams : f \in wan_up <=> \E w \in Wans : f \in active[w]

ToldSoon(i, f) ==
    LET news(e) == e.ev \in {"WAN_UP", "WAN_DOWN"} /\ e.i = i /\ e.f = f
    IN  \/ \E n \in DOMAIN queue : news(queue[n])
        \/ news(walk.msg) /\ i \in walk.rest

(* A tethered interface's uplink rules follow the backhaul: unless an event  *)
(* that tells the interface is on its way, the rules of a family are there   *)
(* just when the interface has an address of it and may use an upstream that *)
(* is up, in whichever order link, address and backhaul came and went.       *)
RulesFollowWan ==
    \A i \in is_active, f \in Fams :
        \/ ToldSoon(i, f)
        \/ /\ f \in ul_set[i] <=> f \in ip_type[i] /\ isWanUP(i, f)
           /\ f \in ul_set[i] => rules[i][f] > 0

(* When every event is handled, no instance is left of a link that is gone,  *)
(* and those that work know all their addresses, also the ones the kernel    *)
(* told of before the instance was made (create_iface_instance asks for      *)
(* them, event_callback drops what comes earlier).                           *)
InStepWithKernel ==
    Quiet => /\ ToSet(instances) \subseteq kernel.link
             /\ \A i \in is_active \cup (Wans \cap ToSet(instances)) : ip_type[i] = kernel.addr[i]
=============================================================================
