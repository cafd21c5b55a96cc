-------------------------------- MODULE Agps --------------------------------
(***************************************************************************)
(* Assisted GPS data connections (loc_eng_agps.cpp, loc_eng.cpp): four     *)
(* resource state machines share connections among clients.  Requests,     *)
(* releases and the answers of those who open connections are messages,    *)
(* handled one after the other by the task that MsgTask models.            *)
(*                                                                         *)
(* Clients are the modem (an ATL connection handle, or one for an          *)
(* emergency session), the BIT daemon and the users of Wi-Fi.  Connections *)
(* are opened by the Android framework and, for emergency sessions, by the *)
(* modem's data services.  Clients and openers are outside the repository. *)
(***************************************************************************)
EXTENDS Naturals, Sequences, FiniteSets, SequencesExt

CONSTANTS
  AtlClients,   \* handles the modem opens with requestATL
  EsClients,    \* handles the modem opens with requestSuplES
  BitClients,   \* BIT daemons
  WifiClients,  \* users of Wi-Fi
  Casts,        \* the sets of clients that may be there together
  Patience,     \* values of patient
  MaxRequests,  \* bound: requests of all clients together
  MaxQueue      \* bound: messages a client or an opener finds waiting at most

Modem     == AtlClients \cup EsClients
Clients   == Modem \cup BitClients \cup WifiClients
Framework == {"agnss", "internet", "wifi"}
Machines  == Framework \cup {"ds"}

ASSUME AgpsAssumption ==
  /\ MaxRequests \in Nat /\ MaxQueue \in Nat
  /\ Patience \subseteq BOOLEAN
  /\ Casts \subseteq SUBSET Clients
  /\ IsFiniteSet(Clients)
  /\ AtlClients \cap EsClients = {}
  /\ Modem \cap (BitClients \cup WifiClients) = {}
  /\ BitClients \cap WifiClients = {}

VARIABLES
  state,      \* mStatePtr of each machine
  active,     \* its subscribers that are not inactive ...
  inactive,   \* ... and those that have left and wait for the close
  mRetries,   \* DSStateMachine::mRetries
  timers,     \* retry timers that run
  queue,      \* messages of the task, oldest first
  calls,      \* requests and releases each opener has not looked at
  conn,       \* the connection each opener keeps
  client,     \* what each client knows of its connection
  requests,   \* requests made so far
  patient,    \* clients wait for the answer before they release
  restarted   \* the modem has restarted

machineVars == <<state, active, inactive>>
openerVars  == <<calls, conn>>
vars == <<machineVars, mRetries, timers, queue, openerVars, client, requests,
          patient, restarted>>

States == {"Released", "Pending", "Acquired", "Releasing"}
ClientStates == {"absent", "new", "requested", "open", "releasing", "closed"}

MAX_START_DATA_CALL_RETRIES == 4

Request(c, m)  == [type |-> "request", client |-> c, machine |-> m]
Release(c)     == [type |-> "release", client |-> c]
RsrcEvent(m, e) == [type |-> "event", machine |-> m, event |-> e]
EngineUp       == [type |-> "engine up"]

Events   == {"granted", "released", "denied"}
Messages == {Request(c, m) : c \in Clients, m \in Machines}
              \cup {Release(c) : c \in Clients}
              \cup {RsrcEvent(m, e) : m \in Machines, e \in Events}
              \cup {EngineUp}

Subscribers(m) == active[m] \cup inactive[m]

TypeOK ==
  /\ state \in [Machines -> States]
  /\ active \in [Machines -> SUBSET Clients]
  /\ inactive \in [Machines -> SUBSET Clients]
  /\ \A m \in Machines : active[m] \cap inactive[m] = {}
  /\ mRetries \in 0 .. MAX_START_DATA_CALL_RETRIES
  /\ timers \in Nat
  /\ queue \in Seq(Messages)
  /\ calls \in [Machines -> Seq({"request", "release"})]
  /\ conn \in [Machines -> {"down", "opening", "up"}]
  /\ client \in [Clients -> ClientStates]
  /\ requests \in 0 .. MaxRequests
  /\ patient \in Patience
  /\ restarted \in BOOLEAN

Init ==
  /\ state = [m \in Machines |-> "Released"]
  /\ active = [m \in Machines |-> {}]
  /\ inactive = [m \in Machines |-> {}]
  /\ mRetries = 0 /\ timers = 0
  /\ queue = <<>>
  /\ calls = [m \in Machines |-> <<>>]
  /\ conn = [m \in Machines |-> "down"]
  /\ client \in {[c \in Clients |-> IF c \in cast THEN "new" ELSE "absent"] : cast \in Casts}
  /\ requests = 0
  /\ patient \in Patience
  /\ restarted = FALSE
----------------------------------------------------------------------------
(* What a handler does besides changing its machine.                       *)

rest == Tail(queue)

Become(m, s, a, i) ==
  /\ state' = [state EXCEPT ![m] = s]
  /\ active' = [active EXCEPT ![m] = a]
  /\ inactive' = [inactive EXCEPT ![m] = i]

\* What a client makes of a status it is told.  The modem answers for each
\* of its releases, so one that has released waits for the close status.
Told(c, status) ==
  IF status = "granted"
    THEN IF client[c] = "requested" THEN "open" ELSE client[c]
    ELSE IF status = "denied" /\ c \in Modem /\ client[c] = "releasing"
           THEN "releasing" ELSE "closed"

TellAll(S, status) == client' = [c \in Clients |-> IF c \in S THEN Told(c, status) ELSE client[c]]

\* notifyRsrcStatus of the subscribers S of m.  Wi-Fi users are not told of
\* their own unsubscription; an emergency session is not told of a release.
Notify(m, S, status) ==
  LET hears == CASE m = "wifi" -> status # "unsubscribed"
                 [] m = "ds"   -> status \notin {"released", "denied"}
                 [] OTHER      -> TRUE
  IN TellAll(IF hears THEN S ELSE {}, status)

\* informStatus(RSRC_DENIED): each falls back to a connection of agnss
FallBack(hs) ==
  /\ mRetries' = 0
  /\ queue' = rest \o [i \in 1 .. Len(hs) |-> Request(hs[i], "agnss")]

NoCall == queue' = rest /\ UNCHANGED <<mRetries, timers, calls>>

\* sendRsrcRequest that its opener accepts
Call(m, action) ==
  /\ calls' = [calls EXCEPT ![m] = Append(@, action)]
  /\ queue' = rest
  /\ UNCHANGED <<mRetries, timers>>

\* DSStateMachine::sendRsrcRequest for handle h when the data call cannot be
\* started: busy (and the timer may not start either), or no profile or an
\* error or busy too often.
DataCallFails(h) ==
  /\ UNCHANGED calls
  /\ \/ /\ mRetries < MAX_START_DATA_CALL_RETRIES
        /\ mRetries' = mRetries + 1
        /\ timers' \in {timers, timers + 1}
        /\ queue' = rest
     \/ FallBack(<<h>>) /\ UNCHANGED timers
----------------------------------------------------------------------------
(* AgpsStateMachine::subscribeRsrc and unsubscribeRsrc, in each state.     *)

\* addSubscriber: a client in the list, inactive or not, is not added again
WithSubscriber(m, c) == IF c \in inactive[m] THEN active[m] ELSE active[m] \cup {c}

\* sendRsrcRequest names the active subscriber at the head of the list: the
\* one just added or, if it was there already, one of several.
Heads(m, c) == IF c \in Subscribers(m) THEN active[m] ELSE {c}

Refused(m) == m = "wifi" /\ Subscribers(m) # {}    \* mEnforceSingleSubscriber

SubscribeRefused(m, c) ==
  /\ Refused(m)
  /\ TellAll({c}, "denied")
  /\ NoCall
  /\ UNCHANGED machineVars

SubscribeReleased(m, c) ==
  /\ state[m] = "Released" /\ ~Refused(m)
  /\ \/ Call(m, "request") /\ Become(m, "Pending", WithSubscriber(m, c), inactive[m])
     \/ /\ m = "ds"
        /\ \E h \in Heads(m, c) : DataCallFails(h)
        /\ Become(m, "Released", WithSubscriber(m, c), inactive[m])
  /\ UNCHANGED client

SubscribeWaits(m, c) ==
  /\ state[m] \in {"Pending", "Releasing"} /\ ~Refused(m)
  /\ Become(m, state[m], WithSubscriber(m, c), inactive[m])
  /\ NoCall
  /\ UNCHANGED client

SubscribeAcquired(m, c) ==
  /\ state[m] = "Acquired" /\ ~Refused(m)
  /\ Notify(m, {c}, "granted")
  /\ Become(m, "Acquired", WithSubscriber(m, c), inactive[m])
  /\ NoCall

Subscribe(m, c) == SubscribeRefused(m, c) \/ SubscribeReleased(m, c)
                     \/ SubscribeWaits(m, c) \/ SubscribeAcquired(m, c)

waitForCloseComplete(m) == m \in {"wifi", "ds"}

UnsubscribeReleased(m, c) ==
  /\ state[m] = "Released"
  /\ Notify(m, {c}, "unsubscribed")
  /\ NoCall
  /\ UNCHANGED machineVars

\* mutant: a connection without active subscribers is kept
LeaveKeepsConnection(m, a, i) ==
  \/ /\ a \cup i # {}
     /\ Become(m, state[m], a, i) /\ NoCall
  \/ /\ a \cup i = {}
     /\ Become(m, "Released", a, i)
     /\ IF state[m] = "Releasing" THEN NoCall ELSE Call(m, "release")

\* what is left of machine m, a active and i inactive, decides
Leave(m, a, i) ==
  \/ /\ a # {} \/ (state[m] = "Releasing" /\ i # {})
     /\ Become(m, state[m], a, i) /\ NoCall
  \/ /\ a = {} /\ state[m] # "Releasing"
     /\ Become(m, IF i = {} THEN "Released" ELSE "Releasing", a, i)
     /\ Call(m, "release")
  \/ /\ a \cup i = {} /\ state[m] = "Releasing"
     /\ Become(m, "Released", a, i) /\ NoCall

UnsubscribeHeld(m, c) ==
  /\ state[m] # "Released"
  /\ Notify(m, {c}, "unsubscribed")
  /\ Leave(m, active[m] \ {c},
           IF waitForCloseComplete(m) THEN inactive[m] \cup {c} ELSE inactive[m] \ {c})

Unsubscribe(m, c) == UnsubscribeReleased(m, c) \/ UnsubscribeHeld(m, c)
----------------------------------------------------------------------------
(* onRsrcEvent for the opener's answers.                                   *)

Ignore == NoCall /\ UNCHANGED <<machineVars, client>>

\* mutant: subscribers are not told
GrantedUntold(m) ==
  \/ /\ state[m] = "Pending"
     /\ Become(m, "Acquired", active[m], inactive[m])
     /\ NoCall /\ UNCHANGED client
  \/ state[m] # "Pending" /\ Ignore

Granted(m) ==
  \/ /\ state[m] = "Pending"
     /\ Notify(m, active[m], "granted")
     /\ Become(m, "Acquired", active[m], inactive[m])
     /\ NoCall
  \/ state[m] # "Pending" /\ Ignore

\* mutants: the wrong group is told; postNotifyDelete is not set
DropAllTellsInactive(m, status) ==
  /\ Notify(m, inactive[m], status)
  /\ Become(m, "Released", {}, {})
  /\ NoCall
\* All subscribers are told and dropped.
DropAll(m, status) ==
  /\ Notify(m, Subscribers(m), status)
  /\ Become(m, "Released", {}, {})
  /\ IF m = "ds" /\ status = "denied"
       THEN (\E hs \in SetToSeqs(Subscribers(m)) : FallBack(hs)) /\ UNCHANGED <<timers, calls>>
       ELSE NoCall

\* The close is complete: those who left are told, and the connection is
\* requested again for those who came meanwhile.
CloseComplete(m, status) ==
  /\ state[m] = "Releasing"
  /\ Notify(m, inactive[m], status)
  /\ \/ active[m] = {} /\ Become(m, "Released", {}, {}) /\ NoCall
     \/ /\ active[m] # {} /\ Become(m, "Pending", active[m], {})
        /\ Call(m, "request") \/ (m = "ds" /\ \E h \in active[m] : DataCallFails(h))

Denied(m) ==
  \/ state[m] = "Pending" /\ DropAll(m, "denied")
  \/ CloseComplete(m, "denied")
  \/ state[m] \in {"Released", "Acquired"} /\ Ignore

\* mutant: a pending request takes a release for its answer
ReleasedPending(m) ==
  \/ state[m] \in {"Acquired", "Pending"} /\ DropAll(m, "released")
  \/ CloseComplete(m, "released")
  \/ state[m] = "Released" /\ Ignore

Released(m) ==
  \/ state[m] = "Acquired" /\ DropAll(m, "released")
  \/ CloseComplete(m, "released")
  \/ /\ state[m] \in {"Released", "Pending"}
     /\ IF m = "ds" THEN Denied(m) ELSE Ignore   \* "Switching event to RSRC_DENIED"
----------------------------------------------------------------------------
(* The messages' proc().                                                   *)

Home(c) == CASE c \in AtlClients -> "agnss" [] c \in EsClients -> "ds"
             [] c \in BitClients -> "internet" [] OTHER -> "wifi"

\* LocEngReleaseATL asks agnss, internet and ds in turn; other clients
\* release at the machine they subscribed to.
Asked(c) == IF c \in Modem THEN Machines \ {"wifi"} ELSE {Home(c)}

AskedBefore(m) == CASE m = "internet" -> {"agnss"} [] m = "ds" -> {"agnss", "internet"}
                    [] OTHER -> {}

Finds(c, m) == m \in Asked(c) /\ c \in Subscribers(m)
                 /\ \A n \in AskedBefore(m) \cap Asked(c) : c \notin Subscribers(n)

HandleRelease(c) ==
  \/ \E m \in Machines : Finds(c, m) /\ Unsubscribe(m, c)
  \/ /\ \A m \in Asked(c) : c \notin Subscribers(m)
     /\ TellAll({c} \cap Modem, "closed")
     /\ NoCall /\ UNCHANGED machineVars

\* loc_eng_handle_engine_up: the lists are flushed, the states stay
HandleEngineUp ==
  /\ active' = [active EXCEPT !["agnss"] = {}, !["internet"] = {}]
  /\ inactive' = [inactive EXCEPT !["agnss"] = {}, !["internet"] = {}]
  /\ NoCall
  /\ UNCHANGED <<state, client>>

HandleEvent(m, e) ==
  \/ e = "granted" /\ Granted(m)
  \/ e = "denied" /\ Denied(m)
  \/ e = "released" /\ Released(m)

Handle ==
  /\ queue # <<>>
  /\ LET msg == Head(queue) IN
       \/ msg.type = "request" /\ Subscribe(msg.machine, msg.client)
       \/ msg.type = "release" /\ HandleRelease(msg.client)
       \/ msg.type = "event" /\ HandleEvent(msg.machine, msg.event)
       \/ msg.type = "engine up" /\ HandleEngineUp
  /\ UNCHANGED <<conn, requests, patient, restarted>>

\* DSStateMachine::retryCallback, on the timer's thread
RetryCallback ==
  /\ timers > 0
  /\ timers' = timers - 1
  /\ \/ \E h \in active["ds"] : queue' = Append(queue, Request(h, "ds"))
     \/ active["ds"] = {} /\ UNCHANGED queue
  /\ UNCHANGED <<machineVars, mRetries, openerVars, client, requests, patient, restarted>>
----------------------------------------------------------------------------
(* Clients.  A handle of the modem is not used again; other clients ask as *)
(* often as they like.                                                     *)

Room == Len(queue) < MaxQueue

ClientRequests(c) ==
  /\ Room /\ requests < MaxRequests
  /\ client[c] = "new" \/ (client[c] = "closed" /\ c \notin Modem)
  /\ client' = [client EXCEPT ![c] = "requested"]
  /\ requests' = requests + 1
  /\ queue' = Append(queue, Request(c, Home(c)))
  /\ UNCHANGED <<machineVars, mRetries, timers, openerVars, patient, restarted>>

ClientReleases(c) ==
  /\ Room
  /\ client[c] = "open" \/ (client[c] = "requested" /\ ~patient)
  /\ client' = [client EXCEPT ![c] = "releasing"]
  /\ queue' = Append(queue, Release(c))
  /\ UNCHANGED <<machineVars, mRetries, timers, openerVars, requests, patient, restarted>>

\* The modem restarts and forgets its handles.
ModemRestarts ==
  /\ Room /\ ~restarted
  /\ restarted' = TRUE
  /\ client' = [c \in Clients |-> IF c \in Modem /\ client[c] \notin {"absent", "new"} THEN "closed" ELSE client[c]]
  /\ queue' = Append(queue, EngineUp)
  /\ UNCHANGED <<machineVars, mRetries, timers, openerVars, requests, patient>>
----------------------------------------------------------------------------
(* Openers.  One request or release after the other; a release of what is  *)
(* not open is not answered, and cancels what is being opened.             *)

Connect(m, to, answers) ==
  /\ conn' = [conn EXCEPT ![m] = to]
  /\ queue' = queue \o answers
  /\ UNCHANGED <<machineVars, mRetries, timers, client, requests, patient, restarted>>

TakeCall(m) ==
  /\ Room /\ calls[m] # <<>>
  /\ calls' = [calls EXCEPT ![m] = Tail(@)]
  /\ \/ /\ Head(calls[m]) = "request"
        /\ Connect(m, IF conn[m] = "up" THEN "up" ELSE "opening",
                   IF conn[m] = "up" THEN <<RsrcEvent(m, "granted")>> ELSE <<>>)
     \/ /\ Head(calls[m]) = "release"
        /\ Connect(m, "down", IF conn[m] = "down" THEN <<>> ELSE <<RsrcEvent(m, "released")>>)

\* the data services report a call that fails as a disconnection
OpenEnds(m) ==
  /\ Room /\ conn[m] = "opening"
  /\ \/ Connect(m, "up", <<RsrcEvent(m, "granted")>>)
     \/ Connect(m, "down", <<RsrcEvent(m, IF m = "ds" THEN "released" ELSE "denied")>>)
  /\ UNCHANGED calls

ConnectionLost(m) ==
  /\ Room /\ conn[m] = "up"
  /\ Connect(m, "down", <<RsrcEvent(m, "released")>>)
  /\ UNCHANGED calls

Next ==
  \/ Handle \/ RetryCallback
  \/ \E c \in Clients : ClientRequests(c) \/ ClientReleases(c)
  \/ ModemRestarts
  \/ \E m \in Machines : TakeCall(m) \/ OpenEnds(m) \/ ConnectionLost(m)

Spec == Init /\ [][Next]_vars

\* The task handles its messages, a running timer expires, and openers look
\* at their calls and come to an end with what they open; no client has to
\* do anything.
FairSpec ==
  /\ Spec
  /\ WF_vars(Handle) /\ WF_vars(RetryCallback)
  /\ \A m \in Machines : WF_vars(TakeCall(m)) /\ WF_vars(OpenEnds(m))
----------------------------------------------------------------------------
(* Connections the framework opens: state and list of subscribers agree    *)
(* until the modem restarts.  A machine with subscribers is not Released   *)
(* ("subscriber list not empty"), one without active subscribers neither   *)
(* requests nor keeps its connection, and Releasing ends by an answer to   *)
(* somebody.                                                               *)
StateMatchesSubscribers ==
  ~restarted => \A m \in Framework :
    /\ state[m] = "Released" <=> Subscribers(m) = {}
    /\ state[m] \in {"Pending", "Acquired"} => active[m] # {}
    /\ state[m] = "Releasing" => inactive[m] # {}

\* nothing between machine and opener is on its way
Quiet(m) == calls[m] = <<>> /\ \A i \in 1 .. Len(queue) : \A e \in Events : queue[i] # RsrcEvent(m, e)

OneEmergencySession == \A c, d \in EsClients : client[c] # "absent" /\ client[d] # "absent" => c = d

(* If clients wait for the answer before they release, machine and opener  *)
(* agree once their messages have arrived: no connection stays open that   *)
(* no machine knows of, and no machine relies on one that is gone.  For    *)
(* agnss this needs a single emergency session at most: of two, one may    *)
(* fall back to agnss while the other opens its data call, the release of  *)
(* the first, asked of agnss first, then overtakes the answer there.       *)
InStepWithOpener ==
  patient => \A m \in Framework : Quiet(m) /\ (m = "agnss" => OneEmergencySession) =>
    /\ state[m] = "Acquired" <=> conn[m] = "up"
    /\ state[m] = "Pending" <=> conn[m] = "opening"

(* A client other than an emergency session that has been told its         *)
(* connection is open holds an acquired one: it is told of every loss.     *)
OpenMeansAcquired ==
  ~restarted => \A c \in Clients \ EsClients :
    client[c] = "open" => c \in active[Home(c)] /\ state[Home(c)] = "Acquired"

(* No machine keeps a connection for a client that is done with it.        *)
NoForgottenSubscriber ==
  ~restarted => \A c \in Clients \ EsClients :
    client[c] \in {"new", "closed"} => c \notin Subscribers(Home(c))

(* Every request and every release, emergency sessions excepted, is        *)
(* answered, unless the modem restarts.                                    *)
RequestsAnswered ==
  \A c \in Clients \ EsClients :
    client[c] = "requested" ~> client[c] # "requested" \/ restarted
ReleasesAnswered ==
  \A c \in Clients \ EsClients :
    client[c] = "releasing" ~> client[c] # "releasing" \/ restarted
ClientsAnswered == RequestsAnswered /\ ReleasesAnswered

(* What a client believes of its connection is so: the two above.          *)
ClientsAreRight == OpenMeansAcquired /\ NoForgottenSubscriber
============================================================================
