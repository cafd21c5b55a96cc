---------------------------- MODULE Agps_proofs ----------------------------
(***************************************************************************)
(* Proofs about Agps for any clients, casts and bounds: types, that a      *)
(* machine's state and its list of subscribers agree, that what a client   *)
(* believes is what the machine has listed, and that machine and opener    *)
(* are in step.                                                            *)
(***************************************************************************)
EXTENDS Agps, SequenceTheorems, FiniteSetTheorems, TLAPS

(* What may wait for the task: no "engine up" before the modem restarts.   *)
Expected == IF restarted THEN Messages ELSE Messages \ {EngineUp}

(* State s with active subscribers a and inactive ones i suits machine m.  *)
(* Only Wi-Fi users wait for the close among the framework's clients, and  *)
(* only the lists of the others are flushed when the modem restarts.       *)
Fits(m, s, a, i) ==
  /\ s \in States /\ a \in SUBSET Clients /\ i \in SUBSET Clients /\ a \cap i = {}
  /\ m \in Framework =>
       /\ s = "Released" => a \cup i = {}
       /\ m # "wifi" => i = {}
  /\ m \in Framework /\ (~restarted \/ m = "wifi") =>
       /\ a \cup i = {} => s = "Released"
       /\ s \in {"Pending", "Acquired"} => a # {}
       /\ s = "Releasing" => i # {}

MachineInv ==
  /\ state \in [Machines -> States]
  /\ active \in [Machines -> SUBSET Clients]
  /\ inactive \in [Machines -> SUBSET Clients]
  /\ \A m \in Machines : Fits(m, state[m], active[m], inactive[m])

RestInv ==
  /\ mRetries \in 0 .. MAX_START_DATA_CALL_RETRIES
  /\ timers \in Nat
  /\ queue \in Seq(Expected)
  /\ calls \in [Machines -> Seq({"request", "release"})]
  /\ conn \in [Machines -> {"down", "opening", "up"}]
  /\ client \in [Clients -> ClientStates]
  /\ requests \in 0 .. MaxRequests
  /\ patient \in Patience
  /\ restarted \in BOOLEAN

Inv == MachineInv /\ RestInv

(* A machine that becomes what fits it keeps the invariant of all.         *)
LEMMA Becoming ==
  ASSUME MachineInv, UNCHANGED restarted,
         NEW m \in Machines, NEW s, NEW a, NEW i, Fits(m, s, a, i), Become(m, s, a, i)
  PROVE  MachineInv'
<1>1. /\ state' \in [Machines -> States] /\ active' \in [Machines -> SUBSET Clients]
      /\ inactive' \in [Machines -> SUBSET Clients]
  BY DEF MachineInv, Become, Fits
<1>2. ASSUME NEW n \in Machines
      PROVE  Fits(n, state[n], active[n], inactive[n])'
  <2>1. CASE n = m
    <3>1. state'[n] = s /\ active'[n] = a /\ inactive'[n] = i
      BY <2>1 DEF MachineInv, Become
    <3> QED BY <2>1, <3>1 DEF Fits
  <2>2. CASE n # m
    <3>1. state'[n] = state[n] /\ active'[n] = active[n] /\ inactive'[n] = inactive[n]
      BY <2>2 DEF MachineInv, Become
    <3> QED BY <3>1 DEF MachineInv, Fits
  <2> QED BY <2>1, <2>2
<1> QED BY <1>1, <1>2 DEF MachineInv

(* A machine that does not change keeps it.                                *)
LEMMA Staying ==
  ASSUME MachineInv, UNCHANGED <<machineVars, restarted>>
  PROVE  MachineInv'
BY DEF MachineInv, machineVars, Fits

(* What subscribeRsrc does to the machine suits it.                        *)
LEMMA SubscribeFits ==
  ASSUME MachineInv, UNCHANGED restarted,
         NEW m \in Machines, NEW c \in Clients, Subscribe(m, c)
  PROVE  MachineInv'
<1> DEFINE a == WithSubscriber(m, c)
<1>0. Fits(m, state[m], active[m], inactive[m])
  BY DEF MachineInv
<1>1. a \in SUBSET Clients /\ a \cap inactive[m] = {} /\ active[m] \subseteq a
  BY <1>0 DEF WithSubscriber, Fits
<1>2. inactive[m] = {} => a # {}
  BY DEF WithSubscriber
<1>3. CASE SubscribeRefused(m, c)
  BY <1>3, Staying DEF SubscribeRefused
<1>4. CASE SubscribeReleased(m, c)
  <2>1. Fits(m, "Pending", a, inactive[m])
    BY <1>0, <1>1, <1>2, <1>4 DEF SubscribeReleased, Fits, States
  <2>2. m = "ds" => Fits(m, "Released", a, inactive[m])
    BY <1>0, <1>1 DEF Fits, States, Framework
  <2>3. Become(m, "Pending", a, inactive[m]) \/ (m = "ds" /\ Become(m, "Released", a, inactive[m]))
    BY <1>4 DEF SubscribeReleased
  <2> HIDE DEF a
  <2> QED BY <2>1, <2>2, <2>3, Becoming
<1>5. CASE SubscribeWaits(m, c) \/ SubscribeAcquired(m, c)
  <2>1. Fits(m, state[m], a, inactive[m]) /\ Become(m, state[m], a, inactive[m])
    BY <1>0, <1>1, <1>2, <1>5 DEF SubscribeWaits, SubscribeAcquired, Fits
  <2> QED BY <2>1, Becoming
<1> QED BY <1>3, <1>4, <1>5 DEF Subscribe

(* What unsubscribeRsrc does to the machine suits it.                      *)
LEMMA UnsubscribeFits ==
  ASSUME MachineInv, UNCHANGED restarted,
         NEW m \in Machines, NEW c \in Clients, Unsubscribe(m, c)
  PROVE  MachineInv'
<1> DEFINE a == active[m] \ {c}
           i == IF waitForCloseComplete(m) THEN inactive[m] \cup {c} ELSE inactive[m] \ {c}
<1>0. Fits(m, state[m], active[m], inactive[m])
  BY DEF MachineInv
<1>1. CASE UnsubscribeReleased(m, c)
  BY <1>1, Staying DEF UnsubscribeReleased
<1>2. CASE UnsubscribeHeld(m, c)
  <2>1. a \in SUBSET Clients /\ i \in SUBSET Clients /\ a \cap i = {}
    BY <1>0 DEF Fits
  <2>2. m \in Framework =>
          /\ m # "wifi" => i = {} /\ (~restarted => state[m] # "Releasing")
          /\ m = "wifi" => i # {}
    BY <1>0 DEF Fits, waitForCloseComplete, Framework
  <2>3. Leave(m, a, i) /\ state[m] # "Released"
    BY <1>2 DEF UnsubscribeHeld
  <2> HIDE DEF a, i
  <2>4. PICK s : /\ Become(m, s, a, i)
                 /\ \/ s = state[m] /\ (a # {} \/ (state[m] = "Releasing" /\ i # {}))
                    \/ s = (IF i = {} THEN "Released" ELSE "Releasing") /\ a = {}
                    \/ s = "Released" /\ a \cup i = {}
    BY <2>3 DEF Leave
  <2>5. Fits(m, s, a, i)
    <3>1. s \in States /\ (s = "Released" => a \cup i = {})
      BY <1>0, <2>3, <2>4 DEF Fits, States
    <3>2. m \in Framework /\ (~restarted \/ m = "wifi") =>
            /\ a \cup i = {} => s = "Released"
            /\ s \in {"Pending", "Acquired"} => a # {}
            /\ s = "Releasing" => i # {}
      BY <1>0, <2>2, <2>4 DEF Fits
    <3> QED BY <2>1, <2>2, <3>1, <3>2 DEF Fits
  <2> QED BY <2>4, <2>5, Becoming
<1> QED BY <1>1, <1>2 DEF Unsubscribe

(* What an answer does to the machine suits it.                            *)
LEMMA EventFits ==
  ASSUME MachineInv, UNCHANGED restarted,
         NEW m \in Machines, NEW e, HandleEvent(m, e)
  PROVE  MachineInv'
<1>0. Fits(m, state[m], active[m], inactive[m])
  BY DEF MachineInv
<1>1. CASE Ignore
  BY <1>1, Staying DEF Ignore
<1>2. CASE \E st : DropAll(m, st)
  <2>1. Fits(m, "Released", {}, {})
    BY DEF Fits, States
  <2> QED BY <1>2, <2>1, Becoming DEF DropAll
<1>3. CASE \E st : CloseComplete(m, st)
  <2>1. Fits(m, "Released", {}, {})
    BY DEF Fits, States
  <2>2. active[m] # {} => Fits(m, "Pending", active[m], {})
    BY <1>0 DEF Fits, States
  <2> QED BY <1>3, <2>1, <2>2, Becoming DEF CloseComplete
<1>4. CASE Granted(m)
  <2>1. state[m] = "Pending" => Fits(m, "Acquired", active[m], inactive[m])
    BY <1>0 DEF Fits, States
  <2> QED BY <1>1, <1>4, <2>1, Becoming DEF Granted
<1>5. CASE Denied(m)
  BY <1>1, <1>2, <1>3, <1>5 DEF Denied
<1>6. CASE Released(m)
  BY <1>1, <1>2, <1>3, <1>5, <1>6 DEF Released
<1> QED BY <1>4, <1>5, <1>6 DEF HandleEvent

(***************************************************************************)
(* The other variables.                                                    *)
(***************************************************************************)

CallsInv ==
  /\ mRetries \in 0 .. MAX_START_DATA_CALL_RETRIES
  /\ timers \in Nat
  /\ queue \in Seq(Expected)
  /\ calls \in [Machines -> Seq({"request", "release"})]

ClientInv == client \in [Clients -> ClientStates]

(* Messages that may be posted at any time.                                *)
LEMMA Postable ==
  /\ \A c \in Clients, m \in Machines : Request(c, m) \in Expected
  /\ \A c \in Clients : Release(c) \in Expected
  /\ \A m \in Machines, e \in Events : RsrcEvent(m, e) \in Expected
<1>1. /\ \A c \in Clients, m \in Machines : Request(c, m) \in Messages
      /\ \A c \in Clients : Release(c) \in Messages
      /\ \A m \in Machines, e \in Events : RsrcEvent(m, e) \in Messages
  BY DEF Messages
<1>2. EngineUp.type = "engine up"
  BY DEF EngineUp
<1>3. \A c, m : Request(c, m).type = "request"
  BY DEF Request
<1>4. \A c : Release(c).type = "release"
  BY DEF Release
<1>5. \A m, e : RsrcEvent(m, e).type = "event"
  BY DEF RsrcEvent
<1> QED BY <1>1, <1>2, <1>3, <1>4, <1>5 DEF Expected

(* Taking the oldest message leaves messages.                              *)
LEMMA Taking ==
  ASSUME CallsInv, queue # <<>>
  PROVE  rest \in Seq(Expected) /\ Head(queue) \in Expected
BY HeadTailProperties DEF CallsInv, rest

(* Falling back posts requests.                                            *)
LEMMA FallingBack ==
  ASSUME CallsInv, queue # <<>>, NEW hs \in Seq(Clients), FallBack(hs)
  PROVE  mRetries' \in 0 .. MAX_START_DATA_CALL_RETRIES /\ queue' \in Seq(Expected)
<1> DEFINE new == [i \in 1 .. Len(hs) |-> Request(hs[i], "agnss")]
<1>1. \A i \in 1 .. Len(hs) : Request(hs[i], "agnss") \in Expected
  BY Postable, ElementOfSeq DEF Machines, Framework
<1>2. Len(hs) \in Nat
  BY LenProperties
<1>3. new \in Seq(Expected)
  BY <1>1, <1>2, SeqDef
<1>4. queue' = rest \o new /\ mRetries' = 0
  BY DEF FallBack
<1> HIDE DEF new
<1> QED BY <1>3, <1>4, Taking, ConcatProperties DEF MAX_START_DATA_CALL_RETRIES

(* A call that fails, one that succeeds and no call at all.                *)
LEMMA CallsKept ==
  ASSUME CallsInv, queue # <<>>, UNCHANGED restarted, NEW m \in Machines,
         \/ NoCall
         \/ \E action \in {"request", "release"} : Call(m, action)
         \/ \E h \in Clients : DataCallFails(h)
  PROVE  CallsInv'
<1>1. rest \in Seq(Expected) /\ Expected' = Expected
  BY Taking DEF Expected
<1>2. CASE NoCall
  BY <1>1, <1>2 DEF NoCall, CallsInv
<1>3. ASSUME NEW action \in {"request", "release"}, Call(m, action)
      PROVE  CallsInv'
  <2>1. calls[m] \in Seq({"request", "release"})
    BY DEF CallsInv
  <2>2. Append(calls[m], action) \in Seq({"request", "release"})
    BY <2>1, AppendProperties
  <2>3. calls' \in [Machines -> Seq({"request", "release"})]
    BY <1>3, <2>2 DEF Call, CallsInv
  <2> QED BY <1>1, <1>3, <2>3 DEF Call, CallsInv
<1>4. ASSUME NEW h \in Clients, DataCallFails(h)
      PROVE  CallsInv'
  <2>1. CASE FallBack(<<h>>) /\ UNCHANGED timers
    <3>1. <<h>> \in Seq(Clients)
      OBVIOUS
    <3>2. mRetries' \in 0 .. MAX_START_DATA_CALL_RETRIES /\ queue' \in Seq(Expected)
      BY <2>1, <3>1, FallingBack
    <3> QED BY <1>1, <1>4, <2>1, <3>2 DEF DataCallFails, CallsInv
  <2>2. CASE /\ mRetries < MAX_START_DATA_CALL_RETRIES /\ mRetries' = mRetries + 1
             /\ timers' \in {timers, timers + 1} /\ queue' = rest
    BY <1>1, <1>4, <2>2 DEF DataCallFails, CallsInv, MAX_START_DATA_CALL_RETRIES
  <2> QED BY <1>4, <2>1, <2>2 DEF DataCallFails
<1> QED BY <1>2, <1>3, <1>4

(* Telling clients keeps them typed.                                       *)
LEMMA Telling ==
  ASSUME ClientInv, NEW S, NEW status, TellAll(S, status)
  PROVE  ClientInv'
<1>1. \A c \in Clients : Told(c, status) \in ClientStates
  BY DEF ClientInv, Told, ClientStates
<1> QED BY <1>1 DEF TellAll, ClientInv

(* So does notifying subscribers.                                          *)
LEMMA Notifying ==
  ASSUME ClientInv, NEW m, NEW S, NEW status, Notify(m, S, status)
  PROVE  ClientInv'
<1>1. \E T : TellAll(T, status)
  BY DEF Notify
<1> QED BY <1>1, Telling

(* What each message's handler does to the rest.                           *)
LEMMA SubscribeKeeps ==
  ASSUME MachineInv, CallsInv, ClientInv, queue # <<>>, UNCHANGED restarted,
         NEW m \in Machines, NEW c \in Clients, Subscribe(m, c)
  PROVE  CallsInv' /\ ClientInv'
<1>1. CASE SubscribeRefused(m, c)
  BY <1>1, CallsKept, Telling DEF SubscribeRefused
<1>2. CASE SubscribeReleased(m, c)
  <2>1. ClientInv'
    BY <1>2 DEF SubscribeReleased, ClientInv
  <2>2. Heads(m, c) \subseteq Clients
    BY DEF Heads, MachineInv
  <2> QED BY <1>2, <2>1, <2>2, CallsKept DEF SubscribeReleased
<1>3. CASE SubscribeWaits(m, c)
  BY <1>3, CallsKept DEF SubscribeWaits, ClientInv
<1>4. CASE SubscribeAcquired(m, c)
  BY <1>4, CallsKept, Notifying DEF SubscribeAcquired
<1> QED BY <1>1, <1>2, <1>3, <1>4 DEF Subscribe

LEMMA UnsubscribeKeeps ==
  ASSUME CallsInv, ClientInv, queue # <<>>, UNCHANGED restarted,
         NEW m \in Machines, NEW c \in Clients, Unsubscribe(m, c)
  PROVE  CallsInv' /\ ClientInv'
<1>1. CASE UnsubscribeReleased(m, c)
  BY <1>1, CallsKept, Notifying DEF UnsubscribeReleased
<1>2. CASE UnsubscribeHeld(m, c)
  <2>1. NoCall \/ Call(m, "release")
    BY <1>2 DEF UnsubscribeHeld, Leave
  <2> QED BY <1>2, <2>1, CallsKept, Notifying DEF UnsubscribeHeld
<1> QED BY <1>1, <1>2 DEF Unsubscribe

LEMMA DropAllKeeps ==
  ASSUME MachineInv, CallsInv, ClientInv, queue # <<>>, UNCHANGED restarted,
         NEW m \in Machines, NEW status, DropAll(m, status)
  PROVE  CallsInv' /\ ClientInv'
<1>1. ClientInv'
  BY Notifying DEF DropAll
<1>2. CASE NoCall
  BY <1>1, <1>2, CallsKept
<1>3. ASSUME NEW hs \in SetToSeqs(Subscribers(m)), FallBack(hs), UNCHANGED <<timers, calls>>
      PROVE  CallsInv'
  <2>1. Subscribers(m) \subseteq Clients
    BY DEF Subscribers, MachineInv
  <2>2. Cardinality(Subscribers(m)) \in Nat
    BY <2>1, AgpsAssumption, FS_Subset, FS_CardinalityType DEF AgpsAssumption
  <2>3. hs \in [1 .. Cardinality(Subscribers(m)) -> Clients]
    BY <1>3, <2>1 DEF SetToSeqs
  <2>4. hs \in Seq(Clients)
    BY <2>2, <2>3, SeqDef
  <2>5. mRetries' \in 0 .. MAX_START_DATA_CALL_RETRIES /\ queue' \in Seq(Expected)
    BY <1>3, <2>4, FallingBack
  <2> QED BY <1>3, <2>5 DEF CallsInv, Expected
<1> QED BY <1>1, <1>2, <1>3 DEF DropAll

LEMMA EventKeeps ==
  ASSUME MachineInv, CallsInv, ClientInv, queue # <<>>, UNCHANGED restarted,
         NEW m \in Machines, NEW e, HandleEvent(m, e)
  PROVE  CallsInv' /\ ClientInv'
<1>1. CASE Ignore
  BY <1>1, CallsKept DEF Ignore, ClientInv
<1>2. CASE \E st : DropAll(m, st)
  BY <1>2, DropAllKeeps
<1>3. CASE \E st : CloseComplete(m, st)
  <2>1. active[m] \subseteq Clients
    BY DEF MachineInv
  <2>2. \/ NoCall \/ Call(m, "request") \/ \E h \in Clients : DataCallFails(h)
    BY <1>3, <2>1 DEF CloseComplete
  <2>3. ClientInv'
    BY <1>3, Notifying DEF CloseComplete
  <2> QED BY <2>2, <2>3, CallsKept
<1>4. CASE Granted(m)
  BY <1>1, <1>4, CallsKept, Notifying DEF Granted
<1>5. CASE Denied(m)
  BY <1>1, <1>2, <1>3, <1>5 DEF Denied
<1>6. CASE Released(m)
  BY <1>1, <1>2, <1>3, <1>5, <1>6 DEF Released
<1> QED BY <1>4, <1>5, <1>6 DEF HandleEvent

----------------------------------------------------------------------------
(***************************************************************************)
(* The steps.                                                              *)
(***************************************************************************)

(* A message in the queue is what its type says it is.                     *)
LEMMA Reading ==
  ASSUME NEW msg \in Expected
  PROVE  /\ msg.type = "request" => msg.machine \in Machines /\ msg.client \in Clients
         /\ msg.type = "release" => msg.client \in Clients
         /\ msg.type = "event" => msg.machine \in Machines
         /\ msg.type = "engine up" => restarted
<1>1. CASE msg = EngineUp
  BY <1>1 DEF Expected, EngineUp
<1>2. ASSUME NEW c \in Clients, NEW m \in Machines, msg = Request(c, m)
      PROVE  msg.type = "request" /\ msg.machine \in Machines /\ msg.client \in Clients
  BY <1>2 DEF Request
<1>3. ASSUME NEW c \in Clients, msg = Release(c)
      PROVE  msg.type = "release" /\ msg.client \in Clients
  BY <1>3 DEF Release
<1>4. ASSUME NEW m \in Machines, NEW e \in Events, msg = RsrcEvent(m, e)
      PROVE  msg.type = "event" /\ msg.machine \in Machines
  BY <1>4 DEF RsrcEvent
<1>5. \/ msg = EngineUp
      \/ \E c \in Clients, m \in Machines : msg = Request(c, m)
      \/ \E c \in Clients : msg = Release(c)
      \/ \E m \in Machines, e \in Events : msg = RsrcEvent(m, e)
  BY DEF Expected, Messages
<1> QED BY <1>1, <1>2, <1>3, <1>4, <1>5

(* Handling a message keeps the invariant.                                 *)
LEMMA Handling ==
  ASSUME Inv, Handle
  PROVE  Inv'
<1> DEFINE msg == Head(queue)
<1>1. /\ queue # <<>> /\ UNCHANGED <<conn, requests, patient, restarted>>
      /\ MachineInv /\ CallsInv /\ ClientInv
  BY DEF Handle, Inv, RestInv, CallsInv, ClientInv
<1>2. msg \in Expected
  BY <1>1, Taking
<1>3. /\ msg.type = "request" => msg.machine \in Machines /\ msg.client \in Clients
      /\ msg.type = "release" => msg.client \in Clients
      /\ msg.type = "event" => msg.machine \in Machines
      /\ msg.type = "engine up" => restarted
  BY <1>2, Reading
<1>4. \/ msg.type = "request" /\ Subscribe(msg.machine, msg.client)
      \/ msg.type = "release" /\ HandleRelease(msg.client)
      \/ msg.type = "event" /\ HandleEvent(msg.machine, msg.event)
      \/ msg.type = "engine up" /\ HandleEngineUp
  BY DEF Handle
<1> HIDE DEF msg
<1>5. MachineInv' /\ CallsInv' /\ ClientInv'
  <2>1. CASE msg.type = "request" /\ Subscribe(msg.machine, msg.client)
    BY <1>1, <1>3, <2>1, SubscribeFits, SubscribeKeeps
  <2>2. CASE msg.type = "release" /\ HandleRelease(msg.client)
    <3>1. ASSUME NEW m \in Machines, Unsubscribe(m, msg.client)
          PROVE  MachineInv' /\ CallsInv' /\ ClientInv'
      BY <1>1, <1>3, <2>2, <3>1, UnsubscribeFits, UnsubscribeKeeps
    <3>2. CASE NoCall /\ UNCHANGED machineVars /\ TellAll({msg.client} \cap Modem, "closed")
      <4>1. "agnss" \in Machines
        BY DEF Machines, Framework
      <4> QED BY <1>1, <3>2, <4>1, Staying, CallsKept, Telling
    <3> QED BY <2>2, <3>1, <3>2 DEF HandleRelease
  <2>3. CASE msg.type = "event" /\ HandleEvent(msg.machine, msg.event)
    BY <1>1, <1>3, <2>3, EventFits, EventKeeps
  <2>4. CASE msg.type = "engine up" /\ HandleEngineUp
    <3>1. restarted
      BY <1>3, <2>4
    <3>2. MachineInv'
      BY <1>1, <2>4, <3>1 DEF HandleEngineUp, MachineInv, Fits, Machines, Framework
    <3>3. "agnss" \in Machines
      BY DEF Machines, Framework
    <3> QED BY <1>1, <2>4, <3>2, <3>3, CallsKept DEF HandleEngineUp, ClientInv
  <2> QED BY <1>4, <2>1, <2>2, <2>3, <2>4
<1> QED BY <1>1, <1>5 DEF Inv, RestInv, CallsInv, ClientInv

(* A message posted by a client, an opener or the timer is expected.       *)
LEMMA Posting ==
  ASSUME queue \in Seq(Expected), UNCHANGED restarted, NEW msg \in Expected,
         queue' = Append(queue, msg) \/ queue' = queue \o <<msg>>
  PROVE  queue' \in Seq(Expected')
<1>1. Expected' = Expected
  BY DEF Expected
<1>2. Append(queue, msg) \in Seq(Expected)
  BY AppendProperties
<1>3. <<msg>> \in Seq(Expected)
  OBVIOUS
<1>4. queue \o <<msg>> \in Seq(Expected)
  BY <1>3, ConcatProperties
<1> QED BY <1>1, <1>2, <1>4

(* The clients', the timer's and the openers' steps keep it.               *)
LEMMA Others ==
  ASSUME Inv,
         \/ RetryCallback
         \/ \E c \in Clients : ClientRequests(c) \/ ClientReleases(c)
         \/ ModemRestarts
         \/ \E m \in Machines : TakeCall(m) \/ OpenEnds(m) \/ ConnectionLost(m)
         \/ UNCHANGED vars
  PROVE  Inv'
<1>1. queue \in Seq(Expected)
  BY DEF Inv, RestInv
<1>2. CASE RetryCallback
  <2>1. active["ds"] \subseteq Clients /\ "ds" \in Machines
    BY DEF Inv, MachineInv, Machines
  <2>2. queue' \in Seq(Expected)'
    <3>1. CASE \E h \in active["ds"] : queue' = Append(queue, Request(h, "ds"))
      BY <1>1, <1>2, <2>1, <3>1, Postable, Posting DEF RetryCallback
    <3>2. CASE UNCHANGED queue
      BY <1>1, <1>2, <3>2 DEF RetryCallback, Expected
    <3> QED BY <1>2, <3>1, <3>2 DEF RetryCallback
  <2>3. MachineInv'
    BY <1>2, Staying DEF Inv, RetryCallback
  <2>4. timers' \in Nat
    BY <1>2 DEF RetryCallback, Inv, RestInv
  <2> QED BY <1>2, <2>2, <2>3, <2>4 DEF RetryCallback, openerVars, Inv, RestInv
<1>3. ASSUME NEW c \in Clients, ClientRequests(c) \/ ClientReleases(c)
      PROVE  Inv'
  <2>1. Home(c) \in Machines
    BY DEF Home, Machines, Framework
  <2>2. queue' \in Seq(Expected)'
    BY <1>1, <1>3, <2>1, Postable, Posting DEF ClientRequests, ClientReleases
  <2>3. MachineInv'
    BY <1>3, Staying DEF Inv, ClientRequests, ClientReleases
  <2>4. client' \in [Clients -> ClientStates]
    BY <1>3 DEF ClientRequests, ClientReleases, Inv, RestInv, ClientStates
  <2>5. requests' \in 0 .. MaxRequests
    BY <1>3, AgpsAssumption DEF AgpsAssumption, ClientRequests, ClientReleases, Inv, RestInv
  <2> QED BY <1>3, <2>2, <2>3, <2>4, <2>5
          DEF ClientRequests, ClientReleases, openerVars, Inv, RestInv
<1>4. CASE ModemRestarts
  <2>1. restarted' = TRUE /\ restarted = FALSE /\ queue' = Append(queue, EngineUp)
    BY <1>4 DEF ModemRestarts, Inv, RestInv
  <2>2. queue' \in Seq(Expected)'
    <3>1. Expected' = Messages /\ EngineUp \in Messages /\ Expected \subseteq Messages
      BY <2>1 DEF Expected, Messages
    <3>2. queue \in Seq(Messages)
      BY <1>1, <3>1, SeqMonotonic
    <3>3. Append(queue, EngineUp) \in Seq(Messages)
      BY <3>1, <3>2, AppendProperties
    <3> QED BY <2>1, <3>1, <3>3
  <2>3. MachineInv'
    BY <1>4, <2>1 DEF ModemRestarts, machineVars, Inv, MachineInv, Fits
  <2>4. client' \in [Clients -> ClientStates]
    BY <1>4 DEF ModemRestarts, Inv, RestInv, ClientStates
  <2> QED BY <1>4, <2>1, <2>2, <2>3, <2>4 DEF ModemRestarts, openerVars, Inv, RestInv
<1>5. ASSUME NEW m \in Machines, TakeCall(m) \/ OpenEnds(m) \/ ConnectionLost(m)
      PROVE  Inv'
  <2>1. PICK to \in {"down", "opening", "up"} :
          \/ Connect(m, to, <<>>)
          \/ \E e \in Events : Connect(m, to, <<RsrcEvent(m, e)>>)
    BY <1>5 DEF TakeCall, OpenEnds, ConnectionLost, Events
  <2>2. queue' \in Seq(Expected)'
    <3>1. CASE Connect(m, to, <<>>)
      <4>1. queue' = queue /\ UNCHANGED restarted
        BY <1>1, <3>1, ConcatEmptySeq DEF Connect
      <4> QED BY <1>1, <4>1 DEF Expected
    <3>2. ASSUME NEW e \in Events, Connect(m, to, <<RsrcEvent(m, e)>>)
          PROVE  queue' \in Seq(Expected)'
      BY <1>1, <3>2, Postable, Posting DEF Connect
    <3> QED BY <2>1, <3>1, <3>2
  <2>3. /\ conn' = [conn EXCEPT ![m] = to]
        /\ UNCHANGED <<machineVars, mRetries, timers, client, requests, patient, restarted>>
    BY <2>1 DEF Connect
  <2>4. MachineInv'
    BY <2>3, Staying DEF Inv
  <2>5. calls' \in [Machines -> Seq({"request", "release"})]
    <3>1. CASE UNCHANGED calls
      BY <3>1 DEF Inv, RestInv
    <3>2. CASE TakeCall(m)
      <4>1. calls[m] \in Seq({"request", "release"}) /\ calls[m] # <<>>
        BY <3>2 DEF TakeCall, Inv, RestInv
      <4>2. Tail(calls[m]) \in Seq({"request", "release"})
        BY <4>1, HeadTailProperties
      <4> QED BY <3>2, <4>2 DEF TakeCall, Inv, RestInv
    <3> QED BY <1>5, <3>1, <3>2 DEF OpenEnds, ConnectionLost
  <2> QED BY <2>2, <2>3, <2>4, <2>5 DEF Inv, RestInv
<1>6. CASE UNCHANGED vars
  <2>1. MachineInv'
    BY <1>6, Staying DEF vars, Inv
  <2> QED BY <1>6, <2>1 DEF vars, openerVars, Inv, RestInv, Expected
<1> QED BY <1>2, <1>3, <1>4, <1>5, <1>6

(* The invariant, from the first state on.                                 *)
LEMMA Invariance == Spec => []Inv
<1>1. Init => Inv
  <2> SUFFICES ASSUME Init PROVE Inv
    OBVIOUS
  <2>1. MachineInv
    BY DEF Init, MachineInv, Fits, States
  <2>2. queue \in Seq(Expected) /\ calls \in [Machines -> Seq({"request", "release"})]
    <3>1. <<>> \in Seq(Expected) /\ <<>> \in Seq({"request", "release"})
      BY EmptySeq
    <3> QED BY <3>1 DEF Init
  <2>3. client \in [Clients -> ClientStates]
    BY DEF Init, ClientStates
  <2>4. /\ mRetries \in 0 .. MAX_START_DATA_CALL_RETRIES /\ timers \in Nat
        /\ requests \in 0 .. MaxRequests
    BY AgpsAssumption DEF AgpsAssumption, Init, MAX_START_DATA_CALL_RETRIES
  <2>5. conn \in [Machines -> {"down", "opening", "up"}]
    BY DEF Init
  <2>6. patient \in Patience /\ restarted \in BOOLEAN
    BY DEF Init
  <2> QED BY <2>1, <2>2, <2>3, <2>4, <2>5, <2>6 DEF Inv, RestInv
<1>2. Inv /\ [Next]_vars => Inv'
  BY Handling, Others DEF Next
<1> QED BY <1>1, <1>2, PTL DEF Spec

(* Every reachable state is well typed: among others no client is in a     *)
(* list twice, active and inactive, and an emergency session is never      *)
(* retried more often than MAX_START_DATA_CALL_RETRIES.                    *)
THEOREM TypeCorrect == Spec => []TypeOK
<1>1. Inv => TypeOK
  <2> SUFFICES ASSUME Inv PROVE TypeOK
    OBVIOUS
  <2>1. Expected \subseteq Messages
    BY DEF Expected
  <2>2. queue \in Seq(Messages)
    BY <2>1, SeqMonotonic DEF Inv, RestInv
  <2> QED BY <2>2 DEF TypeOK, Inv, RestInv, MachineInv, Fits
<1> QED BY <1>1, Invariance, PTL

(* Whatever the clients do and the openers answer, and in whichever order, *)
(* the state of a connection the framework opens and the list of those who *)
(* use it agree until the modem restarts.                                  *)
THEOREM StatesMatch == Spec => []StateMatchesSubscribers
<1>1. Inv => StateMatchesSubscribers
  BY DEF Inv, MachineInv, Fits, StateMatchesSubscribers, Subscribers, Machines
<1> QED BY <1>1, Invariance, PTL
----------------------------------------------------------------------------
(***************************************************************************)
(* What clients believe.                                                   *)
(***************************************************************************)

(* Clients that only ever use one machine: emergency sessions may fall     *)
(* back from ds to agnss.                                                  *)
Ordinary == Clients \ EsClients

(* c is in the list of its own machine only, not once it is done, and      *)
(* open means acquired.                                                    *)
Believes(c) ==
  /\ \A m \in Machines : c \in Subscribers(m) => m = Home(c)
  /\ client[c] \in {"absent", "new", "closed"} => c \notin Subscribers(Home(c))
  /\ client[c] = "open" => c \in active[Home(c)] /\ state[Home(c)] = "Acquired"

(* A request that waits is the only one of its client, which is not in the *)
(* list yet; a release that waits belongs to no open connection, and one   *)
(* of an earlier connection comes before the request of the next.          *)
Posted(c) ==
  /\ \A i \in 1 .. Len(queue) : \A m \in Machines : queue[i] = Request(c, m) =>
       /\ m = Home(c)
       /\ c \notin Subscribers(Home(c)) /\ client[c] \in {"requested", "releasing"}
       /\ \A j \in 1 .. Len(queue) : queue[j] = Request(c, m) => j = i
       /\ c \in Modem => \A j \in 1 .. i : queue[j] # Release(c)
  /\ \A i \in 1 .. Len(queue) : queue[i] = Release(c) =>
       /\ client[c] \notin {"absent", "new", "open"}
       /\ client[c] = "requested" => \E j \in i + 1 .. Len(queue) : queue[j] = Request(c, Home(c))

BeliefInv == ~restarted => \A c \in Ordinary : Believes(c) /\ Posted(c)

(* What a handler posts: requests of emergency sessions that fall back.    *)
Shifted == \E s \in Seq(Messages) :
  /\ queue' = rest \o s
  /\ \A k \in 1 .. Len(s) : \E d \in EsClients, m \in Machines : s[k] = Request(d, m)

(* The two kinds of messages differ, and each names its client.            *)
LEMMA Kinds ==
  ASSUME NEW c, NEW d, NEW m, NEW n
  PROVE  /\ Request(c, m) # Release(d)
         /\ Request(c, m) = Request(d, n) => c = d /\ m = n
         /\ Release(c) = Release(d) => c = d
<1>1. Request(c, m).type = "request" /\ Release(d).type = "release"
  BY DEF Request, Release
<1>2. Request(c, m).client = c /\ Request(d, n).client = d
  BY DEF Request
<1>3. Request(c, m).machine = m /\ Request(d, n).machine = n
  BY DEF Request
<1>4. Release(c).client = c /\ Release(d).client = d
  BY DEF Release
<1> QED BY <1>1, <1>2, <1>3, <1>4

(* A request and a release in the queue are what their clients posted.     *)
LEMMA Naming ==
  ASSUME NEW msg \in Messages
  PROVE  /\ msg.type = "request" => msg = Request(msg.client, msg.machine)
         /\ msg.type = "release" => msg = Release(msg.client)
<1>1. CASE \E c \in Clients, m \in Machines : msg = Request(c, m)
  BY <1>1 DEF Request
<1>2. CASE \E c \in Clients : msg = Release(c)
  BY <1>2 DEF Release
<1>3. CASE \E m \in Machines, e \in Events : msg = RsrcEvent(m, e)
  BY <1>3 DEF RsrcEvent
<1>4. CASE msg = EngineUp
  BY <1>4 DEF EngineUp
<1> QED BY <1>1, <1>2, <1>3, <1>4 DEF Messages

(* A handler takes the head, and the messages of ordinary clients move up. *)
LEMMA Shifting ==
  ASSUME queue \in Seq(Messages), queue # <<>>, Shifted, NEW c \in Ordinary
  PROVE  /\ \A i \in 1 .. Len(queue') : \A m \in Machines :
              queue'[i] = Request(c, m) => i + 1 \in 1 .. Len(queue) /\ queue[i + 1] = Request(c, m)
         /\ \A i \in 1 .. Len(queue') :
              queue'[i] = Release(c) => i + 1 \in 1 .. Len(queue) /\ queue[i + 1] = Release(c)
         /\ \A i \in 2 .. Len(queue) : i - 1 \in 1 .. Len(queue') /\ queue'[i - 1] = queue[i]
<1>1. PICK s \in Seq(Messages) :
        /\ queue' = rest \o s
        /\ \A k \in 1 .. Len(s) : \E d \in EsClients, m \in Machines : s[k] = Request(d, m)
  BY DEF Shifted
<1>2. /\ rest \in Seq(Messages) /\ Len(rest) = Len(queue) - 1
      /\ \A i \in 1 .. Len(rest) : rest[i] = queue[i + 1]
      /\ Len(queue) \in Nat \ {0} /\ Len(s) \in Nat
  BY HeadTailProperties, EmptySeq, LenProperties DEF rest
<1>3. /\ Len(queue') = Len(rest) + Len(s)
      /\ \A i \in 1 .. Len(queue') : queue'[i] = IF i <= Len(rest) THEN rest[i] ELSE s[i - Len(rest)]
  <2>1. /\ Len(rest \o s) = Len(rest) + Len(s)
        /\ \A i \in 1 .. Len(rest) + Len(s) :
             (rest \o s)[i] = IF i <= Len(rest) THEN rest[i] ELSE s[i - Len(rest)]
    BY <1>2, ConcatProperties
  <2> QED BY <1>1, <2>1
<1>4. ASSUME NEW i \in 1 .. Len(queue'), i > Len(rest)
      PROVE  \E d \in EsClients, n \in Machines : queue'[i] = Request(d, n)
  <2>1. i - Len(rest) \in 1 .. Len(s) /\ queue'[i] = s[i - Len(rest)]
    BY <1>2, <1>3, <1>4
  <2> QED BY <1>1, <2>1
<1>5. \A i \in 1 .. Len(queue') : i <= Len(rest) => i + 1 \in 1 .. Len(queue) /\ queue'[i] = queue[i + 1]
  BY <1>2, <1>3
<1>6. c \notin EsClients
  BY DEF Ordinary
<1>7. ASSUME NEW i \in 1 .. Len(queue'), NEW m \in Machines, queue'[i] = Request(c, m)
      PROVE  i + 1 \in 1 .. Len(queue) /\ queue[i + 1] = Request(c, m)
  <2>1. ~(i > Len(rest))
    BY <1>4, <1>6, <1>7, Kinds
  <2> QED BY <1>2, <1>5, <1>7, <2>1
<1>8. ASSUME NEW i \in 1 .. Len(queue'), queue'[i] = Release(c)
      PROVE  i + 1 \in 1 .. Len(queue) /\ queue[i + 1] = Release(c)
  <2>1. ~(i > Len(rest))
    BY SMTT(60), <1>4, <1>8, Kinds
  <2> QED BY <1>2, <1>5, <1>8, <2>1
<1>9. ASSUME NEW i \in 2 .. Len(queue)
      PROVE  i - 1 \in 1 .. Len(queue') /\ queue'[i - 1] = queue[i]
  BY <1>2, <1>3
<1> QED BY <1>7, <1>8, <1>9

(* The head of the queue is a request of c, or concerns c otherwise.       *)
Requested(c) == c \in Subscribers(Home(c)) \/ Head(queue) = Request(c, Home(c))
Moves(c) ==
  /\ c \in Subscribers(Home(c))' => Requested(c)
  /\ \/ client'[c] = client[c]
     \/ client'[c] = "closed" /\ (Requested(c) \/ (c \in Modem /\ Head(queue) = Release(c)))
     \/ client[c] = "requested" /\ client'[c] = "open" /\ Requested(c)

(* A client's messages stay in order when it moves with the head.          *)
LEMMA PostedMoves ==
  ASSUME queue \in Seq(Messages), queue # <<>>, Shifted, NEW c \in Ordinary, Posted(c), Moves(c)
  PROVE  Posted(c)'
<1> DEFINE h == Home(c)
<1>h. h \in Machines
  BY DEF Home, Machines, Framework
<1> HIDE DEF h
<1>n. Len(queue) \in Nat \ {0} /\ Len(queue') \in Nat /\ 1 \in 1 .. Len(queue) /\ queue[1] = Head(queue)
  <2>1. Len(queue) \in Nat /\ Len(queue) # 0
    BY EmptySeq, LenProperties
  <2>2. PICK s \in Seq(Messages) : queue' = rest \o s
    BY DEF Shifted
  <2>3. queue' \in Seq(Messages)
    BY <2>2, HeadTailProperties, ConcatProperties DEF rest
  <2> QED BY <2>1, <2>3, LenProperties
<1>1. ASSUME Requested(c), NEW i \in 1 .. Len(queue'), NEW m \in Machines, queue'[i] = Request(c, m)
      PROVE  FALSE
  <2>1. i + 1 \in 1 .. Len(queue) /\ queue[i + 1] = Request(c, m)
    BY <1>1, Shifting
  <2>2. m = h /\ c \notin Subscribers(h) /\ \A j \in 1 .. Len(queue) : queue[j] = Request(c, m) => j = i + 1
    BY <2>1 DEF Posted, h
  <2>3. queue[1] = Request(c, m)
    BY <1>1, <1>n, <2>2 DEF Requested, h
  <2> QED BY <1>n, <2>2, <2>3
<1>2. ASSUME NEW i \in 1 .. Len(queue'), NEW m \in Machines, queue'[i] = Request(c, m)
      PROVE  /\ m = h
             /\ c \notin Subscribers(h)' /\ client'[c] \in {"requested", "releasing"}
             /\ \A j \in 1 .. Len(queue') : queue'[j] = Request(c, m) => j = i
             /\ c \in Modem => \A j \in 1 .. i : queue'[j] # Release(c)
  <2>1. i + 1 \in 1 .. Len(queue) /\ queue[i + 1] = Request(c, m)
    BY <1>2, Shifting
  <2>2. /\ m = h /\ c \notin Subscribers(h) /\ client[c] \in {"requested", "releasing"}
        /\ \A j \in 1 .. Len(queue) : queue[j] = Request(c, m) => j = i + 1
        /\ c \in Modem => \A j \in 1 .. i + 1 : queue[j] # Release(c)
    BY <2>1 DEF Posted, h
  <2>3. ~Requested(c)
    BY <1>1, <1>2
  <2>4. c \notin Subscribers(h)'
    BY <2>3 DEF Moves, h
  <2>5. ~(c \in Modem /\ Head(queue) = Release(c))
    BY <1>n, <2>2
  <2>6. client'[c] = client[c]
    BY <2>3, <2>5 DEF Moves
  <2>7. ASSUME NEW j \in 1 .. Len(queue'), queue'[j] = Request(c, m)
        PROVE  j = i
    <3>1. j + 1 \in 1 .. Len(queue) /\ queue[j + 1] = Request(c, m)
      BY <2>7, Shifting
    <3> QED BY <2>2, <3>1
  <2>8. ASSUME c \in Modem, NEW j \in 1 .. i
        PROVE  queue'[j] # Release(c)
    <3>1. j \in 1 .. Len(queue') /\ j + 1 \in 1 .. i + 1
      BY <1>n
    <3>2. queue[j + 1] # Release(c)
      BY <2>2, <2>8, <3>1
    <3> QED BY <3>1, <3>2, Shifting
  <2> QED BY <2>2, <2>4, <2>6, <2>7, <2>8
<1>3. ASSUME NEW i \in 1 .. Len(queue'), queue'[i] = Release(c)
      PROVE  /\ client'[c] \notin {"absent", "new", "open"}
             /\ client'[c] = "requested" => \E j \in i + 1 .. Len(queue') : queue'[j] = Request(c, h)
  <2>1. i + 1 \in 1 .. Len(queue) /\ queue[i + 1] = Release(c)
    BY <1>3, Shifting
  <2>2. /\ client[c] \notin {"absent", "new", "open"}
        /\ client[c] = "requested" => \E j \in i + 1 + 1 .. Len(queue) : queue[j] = Request(c, h)
    BY <2>1 DEF Posted, h
  <2>3. CASE client[c] = "requested"
    <3>1. PICK j \in i + 1 + 1 .. Len(queue) : queue[j] = Request(c, h)
      BY <2>2, <2>3
    <3>2. j \in 2 .. Len(queue)
      BY <1>n
    <3>3. j - 1 \in i + 1 .. Len(queue') /\ j - 1 \in 1 .. Len(queue') /\ queue'[j - 1] = Request(c, h)
      BY <1>n, <3>1, <3>2, Shifting
    <3>4. ~Requested(c)
      BY <1>1, <1>h, <3>3
    <3> QED BY <2>3, <3>3, <3>4 DEF Moves
  <2>4. CASE client[c] # "requested"
    BY <2>2, <2>4 DEF Moves
  <2> QED BY <2>3, <2>4
<1> QED BY <1>2, <1>3 DEF Posted, h

(* A client that is notified makes of the status what Told says.           *)
LEMMA Hearing ==
  ASSUME NEW m, NEW S, NEW status, Notify(m, S, status), NEW c \in Clients
  PROVE  /\ c \notin S => client'[c] = client[c]
         /\ client'[c] \in {client[c], Told(c, status)}
         /\ c \in S /\ (m \in {"agnss", "internet"} \/ (m = "wifi" /\ status # "unsubscribed"))
              => client'[c] = Told(c, status)
  BY DEF Notify, TellAll

(* What a machine becomes, and that the others stay.                       *)
LEMMA Machine ==
  ASSUME MachineInv, NEW m \in Machines, NEW s, NEW a, NEW i, Become(m, s, a, i)
  PROVE  /\ state'[m] = s /\ active'[m] = a /\ inactive'[m] = i /\ Subscribers(m)' = a \cup i
         /\ \A n \in Machines \ {m} :
              /\ state'[n] = state[n] /\ active'[n] = active[n] /\ inactive'[n] = inactive[n]
              /\ Subscribers(n)' = Subscribers(n)
  BY DEF MachineInv, Become, Subscribers

(* A client of another machine is not concerned.                           *)
LEMMA Elsewhere ==
  ASSUME MachineInv, NEW m \in Machines, NEW s, NEW a, NEW i, Become(m, s, a, i) \/ UNCHANGED machineVars,
         NEW c \in Ordinary, Believes(c), m # Home(c), c \notin a \cup i, client'[c] = client[c]
  PROVE  Believes(c)' /\ Moves(c)
<1>1. Home(c) \in Machines
  BY DEF Home, Machines, Framework
<1>2. CASE Become(m, s, a, i)
  <2>1. /\ state'[Home(c)] = state[Home(c)] /\ active'[Home(c)] = active[Home(c)]
        /\ Subscribers(Home(c))' = Subscribers(Home(c))
    BY <1>1, <1>2, Machine
  <2>2. ASSUME NEW n \in Machines, c \in Subscribers(n)'
        PROVE  n = Home(c)
    BY <1>2, <2>2, Machine DEF Believes
  <2> QED BY <2>1, <2>2 DEF Believes, Moves, Requested
<1>3. CASE UNCHANGED machineVars
  BY <1>3 DEF machineVars, Believes, Moves, Requested, Subscribers
<1> QED BY <1>2, <1>3

(* A client of the machine that stays in its list as it is.                *)
LEMMA Remaining ==
  ASSUME MachineInv, NEW m \in Machines, NEW s, NEW a, NEW i, Become(m, s, a, i),
         NEW c \in Ordinary, Believes(c), m = Home(c),
         c \in a \cup i => c \in Subscribers(m),
         client[c] = "open" => s = "Acquired" /\ c \in a,
         client'[c] = client[c]
  PROVE  Believes(c)' /\ Moves(c)
<1>1. /\ state'[m] = s /\ active'[m] = a /\ Subscribers(m)' = a \cup i
      /\ \A n \in Machines \ {m} : Subscribers(n)' = Subscribers(n)
  BY Machine
<1>2. \A n \in Machines : c \in Subscribers(n)' => n = Home(c)
  BY <1>1 DEF Believes
<1> QED BY <1>1, <1>2 DEF Believes, Moves, Requested

(* A client that is told its connection is open by the machine it is with. *)
LEMMA Opening ==
  ASSUME MachineInv, NEW m \in Machines, NEW a, NEW i, Become(m, "Acquired", a, i),
         NEW c \in Ordinary, Believes(c), m = Home(c), c \in a, Requested(c),
         client[c] \notin {"absent", "new", "closed"},
         client'[c] = Told(c, "granted")
  PROVE  Believes(c)' /\ Moves(c)
<1>1. /\ state'[m] = "Acquired" /\ active'[m] = a /\ Subscribers(m)' = a \cup i
      /\ \A n \in Machines \ {m} : Subscribers(n)' = Subscribers(n)
  BY Machine
<1>2. \A n \in Machines : c \in Subscribers(n)' => n = Home(c)
  BY <1>1 DEF Believes
<1>3. client'[c] = (IF client[c] = "requested" THEN "open" ELSE client[c])
  BY DEF Told
<1> QED BY <1>1, <1>2, <1>3 DEF Believes, Moves

(* A client that is told the end of its connection, and is in no list.     *)
LEMMA Leaving ==
  ASSUME MachineInv, NEW m \in Machines, NEW s, NEW a, NEW i, Become(m, s, a, i) \/ UNCHANGED machineVars,
         NEW c \in Ordinary, Believes(c), m = Home(c), Requested(c),
         UNCHANGED machineVars => c \notin Subscribers(m),
         ~UNCHANGED machineVars => c \notin a \cup i,
         NEW status \in {"released", "denied", "unsubscribed"},
         client'[c] = Told(c, status)
  PROVE  Believes(c)' /\ Moves(c)
<1>1. /\ c \notin Subscribers(m)'
      /\ \A n \in Machines : c \in Subscribers(n)' => n = Home(c)
  <2>1. CASE UNCHANGED machineVars
    BY <2>1 DEF machineVars, Subscribers, Believes
  <2>2. CASE ~UNCHANGED machineVars
    <3>1. /\ Subscribers(m)' = a \cup i
          /\ \A n \in Machines \ {m} : Subscribers(n)' = Subscribers(n)
      BY <2>2, Machine
    <3> QED BY <2>2, <3>1 DEF Believes
  <2> QED BY <2>1, <2>2
<1>2. client'[c] = "closed" \/ (client[c] = "releasing" /\ client'[c] = "releasing")
  BY DEF Told
<1> QED BY <1>1, <1>2 DEF Believes, Moves

(* A client that enters the list.                                          *)
LEMMA Entering ==
  ASSUME MachineInv, NEW m \in Machines, NEW s, NEW a, NEW i, Become(m, s, a, i),
         NEW c \in Ordinary, Believes(c), m = Home(c), Requested(c),
         client[c] \in {"requested", "releasing"}, client'[c] = client[c]
  PROVE  Believes(c)' /\ Moves(c)
<1>1. \A n \in Machines \ {m} : Subscribers(n)' = Subscribers(n)
  BY Machine
<1>2. \A n \in Machines : c \in Subscribers(n)' => n = Home(c)
  BY <1>1 DEF Believes
<1> QED BY <1>2 DEF Believes, Moves

(* A client nothing happens to.                                            *)
LEMMA Idling ==
  ASSUME NEW c, Believes(c), UNCHANGED machineVars, client'[c] = client[c]
  PROVE  Believes(c)' /\ Moves(c)
  BY DEF machineVars, Believes, Moves, Requested, Subscribers

(* Ordinary clients use machines the framework opens connections for.      *)
LEMMA Homes ==
  ASSUME NEW c \in Ordinary
  PROVE  /\ Home(c) \in Framework /\ Home(c) \in Machines /\ c \in Clients
         /\ Home(c) \in Asked(c)
         /\ c \in Modem => Home(c) = "agnss"
  BY AgpsAssumption DEF AgpsAssumption, Ordinary, Home, Framework, Machines, Clients, Modem, Asked

(* subscribeRsrc, for the client that asks and for any other.              *)
LEMMA SubscribeBelieved ==
  ASSUME MachineInv, ClientInv, ~restarted, queue # <<>>, queue \in Seq(Messages),
         NEW m \in Machines, NEW d \in Clients, Head(queue) = Request(d, m), Subscribe(m, d),
         NEW c \in Ordinary, Believes(c), Posted(c)
  PROVE  Believes(c)' /\ Moves(c)
<1> USE Homes
<1>0. 1 \in 1 .. Len(queue) /\ queue[1] = Head(queue)
  BY EmptySeq, LenProperties
<1>1. CASE c = d
  <2>1. m = Home(c) /\ c \notin Subscribers(m) /\ client[c] \in {"requested", "releasing"} /\ Requested(c)
    <3>1. queue[1] = Request(c, m)
      BY <1>0, <1>1
    <3> QED BY <1>0, <3>1 DEF Posted, Requested
  <2>2. CASE SubscribeRefused(m, d)
    <3>1. UNCHANGED machineVars /\ client'[c] = Told(c, "denied")
      BY <1>1, <2>2 DEF SubscribeRefused, TellAll
    <3> QED BY <2>1, <3>1, Leaving
  <2>3. CASE SubscribeReleased(m, d) \/ SubscribeWaits(m, d)
    <3>1. \E s, a, i : Become(m, s, a, i)
      BY <2>3 DEF SubscribeReleased, SubscribeWaits
    <3>2. client'[c] = client[c]
      BY <2>3 DEF SubscribeReleased, SubscribeWaits
    <3> QED BY <2>1, <3>1, <3>2, Entering
  <2>4. CASE SubscribeAcquired(m, d)
    <3>1. Notify(m, {c}, "granted") /\ Become(m, "Acquired", active[m] \cup {c}, inactive[m])
      BY <1>1, <2>1, <2>4 DEF SubscribeAcquired, WithSubscriber, Subscribers
    <3>2. client'[c] = Told(c, "granted")
      BY <2>1, <3>1, Hearing DEF Framework
    <3> QED BY <2>1, <3>1, <3>2, Opening
  <2> QED BY <2>2, <2>3, <2>4 DEF Subscribe, SubscribeRefused
<1>2. CASE c # d
  <2>1. client'[c] = client[c]
    BY <1>2, Hearing DEF Subscribe, SubscribeRefused, SubscribeReleased, SubscribeWaits,
       SubscribeAcquired, TellAll
  <2>2. CASE UNCHANGED machineVars
    BY <2>1, <2>2, Idling
  <2>3. CASE \E s \in States : /\ Become(m, s, WithSubscriber(m, d), inactive[m])
                               /\ state[m] = "Acquired" => s = "Acquired"
    <3>1. PICK s \in States : /\ Become(m, s, WithSubscriber(m, d), inactive[m])
                              /\ state[m] = "Acquired" => s = "Acquired"
      BY <2>3
    <3>2. /\ c \in WithSubscriber(m, d) \cup inactive[m] => c \in Subscribers(m)
          /\ active[m] \subseteq WithSubscriber(m, d)
      BY <1>2 DEF WithSubscriber, Subscribers
    <3>3. CASE m = Home(c)
      <4>1. client[c] = "open" => s = "Acquired" /\ c \in WithSubscriber(m, d)
        BY <3>1, <3>2, <3>3 DEF Believes
      <4> QED BY <2>1, <3>1, <3>2, <3>3, <4>1, Remaining
    <3>4. CASE m # Home(c)
      <4>1. c \notin WithSubscriber(m, d) \cup inactive[m]
        BY <3>2, <3>4 DEF Believes
      <4> QED BY <2>1, <3>1, <3>4, <4>1, Elsewhere
    <3> QED BY <3>3, <3>4
  <2>4. ASSUME ~UNCHANGED machineVars
        PROVE  \E s \in States : /\ Become(m, s, WithSubscriber(m, d), inactive[m])
                                 /\ state[m] = "Acquired" => s = "Acquired"
    <3>1. ~SubscribeRefused(m, d)
      BY <2>4 DEF SubscribeRefused
    <3>2. CASE SubscribeReleased(m, d)
      BY <3>2 DEF SubscribeReleased, States
    <3>3. CASE SubscribeWaits(m, d)
      BY <3>3 DEF SubscribeWaits, States
    <3>4. CASE SubscribeAcquired(m, d)
      BY <3>4 DEF SubscribeAcquired, States
    <3> QED BY <3>1, <3>2, <3>3, <3>4 DEF Subscribe
  <2> QED BY <2>2, <2>3, <2>4
<1> QED BY <1>1, <1>2

(* unsubscribeRsrc, for the client that leaves and for any other.          *)
LEMMA ReleaseBelieved ==
  ASSUME MachineInv, ClientInv, ~restarted, queue # <<>>, queue \in Seq(Messages),
         NEW d \in Clients, Head(queue) = Release(d), HandleRelease(d),
         NEW c \in Ordinary, Believes(c), Posted(c)
  PROVE  Believes(c)' /\ Moves(c)
<1> USE Homes
<1>0. 1 \in 1 .. Len(queue) /\ queue[1] = Head(queue)
  BY EmptySeq, LenProperties
<1>1. CASE \A m \in Asked(d) : d \notin Subscribers(m)
  <2>0. UNCHANGED machineVars /\ TellAll({d} \cap Modem, "closed")
    BY <1>1 DEF HandleRelease, Finds
  <2>1. CASE c = d /\ c \in Modem
    <3>1. client'[c] = "closed" /\ c \notin Subscribers(Home(c))
      BY <1>1, <2>0, <2>1 DEF TellAll, Told
    <3> QED BY <2>0, <2>1, <3>1 DEF Believes, Moves, machineVars, Subscribers, Requested
  <2>2. CASE ~(c = d /\ c \in Modem)
    <3>1. client'[c] = client[c]
      BY <2>0, <2>2 DEF TellAll
    <3> QED BY <2>0, <3>1, Idling
  <2> QED BY <2>1, <2>2
<1>2. CASE ~\A m \in Asked(d) : d \notin Subscribers(m)
  <2>0. PICK m \in Machines : Finds(d, m) /\ Unsubscribe(m, d)
    BY <1>2 DEF HandleRelease
  <2>1. d \in Subscribers(m)
    BY <2>0 DEF Finds
  <2>2. CASE UnsubscribeReleased(m, d)
    <3>1. c # d
      <4>1. SUFFICES ASSUME c = d PROVE FALSE
        OBVIOUS
      <4>2. m = Home(c) /\ m \in Framework
        BY <2>1, <4>1 DEF Believes
      <4>3. active[m] \cup inactive[m] = {}
        BY <2>2, <4>2 DEF MachineInv, Fits, UnsubscribeReleased
      <4> QED BY <2>1, <4>3 DEF Subscribers
    <3>2. UNCHANGED machineVars /\ client'[c] = client[c]
      BY <2>2, <3>1, Hearing DEF UnsubscribeReleased
    <3> QED BY <3>2, Idling
  <2>3. CASE UnsubscribeHeld(m, d)
    <3> DEFINE a == active[m] \ {d}
               i == IF waitForCloseComplete(m) THEN inactive[m] \cup {d} ELSE inactive[m] \ {d}
    <3>1. Notify(m, {d}, "unsubscribed") /\ Leave(m, a, i) /\ state[m] # "Released"
      BY <2>3 DEF UnsubscribeHeld
    <3>2. /\ \E s : Become(m, s, a, i)
          /\ a # {} => Become(m, state[m], a, i)
      BY <3>1 DEF Leave
    <3>3. PICK s : Become(m, s, a, i)
      BY <3>2
    <3>4. a # {} => s = state[m]
      <4>1. state'[m] = s
        BY <3>3, Machine
      <4>2. a # {} => state'[m] = state[m]
        BY <3>2, Machine
      <4> QED BY <4>1, <4>2
    <3>5. /\ d \notin a /\ a \subseteq active[m] /\ i \subseteq inactive[m] \cup {d}
          /\ ~waitForCloseComplete(m) => d \notin i
          /\ \A x \in active[m] \ {d} : x \in a
      OBVIOUS
    <3> HIDE DEF a, i
    <3>6. CASE c = d
      <4>1. m = Home(c) /\ m \in Framework /\ Requested(c)
        BY <2>1, <3>6 DEF Believes, Requested
      <4>2. CASE m = "wifi"
        <5>1. client'[c] = client[c]
          BY <3>1, <4>2 DEF Notify, TellAll
        <5>2. client[c] # "open"
          BY <1>0, <3>6 DEF Posted
        <5> QED BY <2>1, <3>3, <3>6, <4>1, <5>1, <5>2, Remaining
      <4>3. CASE m # "wifi"
        <5>1. m \in {"agnss", "internet"} /\ ~waitForCloseComplete(m)
          BY <4>1, <4>3 DEF Framework, waitForCloseComplete
        <5>2. client'[c] = Told(c, "unsubscribed")
          BY <3>1, <3>6, <5>1, Hearing
        <5>3. c \notin a \cup i
          BY <3>5, <3>6, <5>1
        <5>4. UNCHANGED machineVars => c \notin Subscribers(m)
          <6>1. Subscribers(m)' = a \cup i
            BY <3>3, Machine
          <6> QED BY <5>3, <6>1 DEF machineVars, Subscribers
        <5> QED BY <3>3, <4>1, <5>2, <5>3, <5>4, Leaving
      <4> QED BY <4>2, <4>3
    <3>7. CASE c # d
      <4>1. client'[c] = client[c]
        BY <3>1, <3>7, Hearing
      <4>2. CASE m = Home(c)
        <5>1. c \in a \cup i => c \in Subscribers(m)
          BY <3>5, <3>7 DEF Subscribers
        <5>2. client[c] = "open" => s = "Acquired" /\ c \in a
          BY <3>4, <3>5, <3>7, <4>2 DEF Believes
        <5> QED BY <3>3, <4>1, <4>2, <5>1, <5>2, Remaining
      <4>3. CASE m # Home(c)
        <5>1. c \notin a \cup i
          BY <3>5, <3>7, <4>3 DEF Believes, Subscribers
        <5> QED BY <3>3, <4>1, <4>3, <5>1, Elsewhere
      <4> QED BY <4>2, <4>3
    <3> QED BY <3>6, <3>7
  <2> QED BY <2>0, <2>2, <2>3 DEF Unsubscribe
<1> QED BY <1>1, <1>2

(* The answers of those who open connections.                              *)
LEMMA DropBelieved ==
  ASSUME MachineInv, ClientInv, NEW m \in Machines, NEW status \in {"released", "denied"},
         DropAll(m, status), NEW c \in Ordinary, Believes(c)
  PROVE  Believes(c)' /\ Moves(c)
<1> USE Homes
<1>1. Notify(m, Subscribers(m), status) /\ Become(m, "Released", {}, {})
  BY DEF DropAll
<1>2. CASE c \in Subscribers(m)
  <2>1. m = Home(c) /\ m \in Framework /\ Requested(c)
    BY <1>2 DEF Believes, Requested
  <2>2. client'[c] = Told(c, status)
    BY <1>1, <1>2, <2>1, Hearing DEF Framework
  <2>3. UNCHANGED machineVars => c \notin Subscribers(m)
    <3>1. Subscribers(m)' = {}
      BY <1>1, Machine
    <3> QED BY <3>1 DEF machineVars, Subscribers
  <2> QED BY <1>1, <2>1, <2>2, <2>3, Leaving
<1>3. CASE c \notin Subscribers(m)
  <2>1. client'[c] = client[c]
    BY <1>1, <1>3, Hearing
  <2>2. CASE m = Home(c)
    <3>1. client[c] # "open"
      BY <1>3, <2>2 DEF Believes, Subscribers
    <3> QED BY <1>1, <2>1, <2>2, <3>1, Remaining
  <2>3. CASE m # Home(c)
    BY <1>1, <2>1, <2>3, Elsewhere
  <2> QED BY <2>2, <2>3
<1> QED BY <1>2, <1>3

LEMMA CloseBelieved ==
  ASSUME MachineInv, ClientInv, NEW m \in Machines, NEW status \in {"released", "denied"},
         CloseComplete(m, status), NEW c \in Ordinary, Believes(c)
  PROVE  Believes(c)' /\ Moves(c)
<1> USE Homes
<1>1. /\ state[m] = "Releasing" /\ Notify(m, inactive[m], status)
      /\ \E s : Become(m, s, active[m], {})
  BY DEF CloseComplete
<1>2. PICK s : Become(m, s, active[m], {})
  BY <1>1
<1>3. active[m] \cap inactive[m] = {}
  BY DEF MachineInv, Fits
<1>4. CASE c \in inactive[m]
  <2>1. m = Home(c) /\ m \in Framework /\ Requested(c)
    BY <1>4 DEF Believes, Requested, Subscribers
  <2>2. client'[c] = Told(c, status)
    BY <1>1, <1>4, <2>1, Hearing DEF Framework
  <2>3. c \notin active[m] \cup {}
    BY <1>3, <1>4
  <2>4. UNCHANGED machineVars => c \notin Subscribers(m)
    <3>1. Subscribers(m)' = active[m] \cup {}
      BY <1>2, Machine
    <3> QED BY <2>3, <3>1 DEF machineVars, Subscribers
  <2> QED BY <1>2, <2>1, <2>2, <2>3, <2>4, Leaving
<1>5. CASE c \notin inactive[m]
  <2>1. client'[c] = client[c]
    BY <1>1, <1>5, Hearing
  <2>2. CASE m = Home(c)
    <3>1. client[c] # "open"
      BY <1>1, <2>2 DEF Believes
    <3>2. c \in active[m] \cup {} => c \in Subscribers(m)
      BY DEF Subscribers
    <3> QED BY <1>2, <2>1, <2>2, <3>1, <3>2, Remaining
  <2>3. CASE m # Home(c)
    <3>1. c \notin active[m] \cup {}
      BY <2>3 DEF Believes, Subscribers
    <3> QED BY <1>2, <2>1, <2>3, <3>1, Elsewhere
  <2> QED BY <2>2, <2>3
<1> QED BY <1>4, <1>5

LEMMA EventBelieved ==
  ASSUME MachineInv, ClientInv, NEW m \in Machines, NEW e, HandleEvent(m, e),
         NEW c \in Ordinary, Believes(c)
  PROVE  Believes(c)' /\ Moves(c)
<1> USE Homes
<1>1. CASE Ignore
  <2>1. UNCHANGED machineVars /\ client'[c] = client[c]
    BY <1>1 DEF Ignore
  <2> QED BY <2>1, Idling
<1>2. CASE state[m] = "Pending" /\ Granted(m)
  <2>1. Notify(m, active[m], "granted") /\ Become(m, "Acquired", active[m], inactive[m])
    BY <1>2 DEF Granted
  <2>2. CASE c \in active[m]
    <3>1. m = Home(c) /\ m \in Framework /\ Requested(c)
      BY <2>2 DEF Believes, Requested, Subscribers
    <3>2. client'[c] = Told(c, "granted")
      BY <2>1, <2>2, <3>1, Hearing DEF Framework
    <3>3. client[c] \notin {"absent", "new", "closed"}
      BY <2>2, <3>1 DEF Believes, Subscribers
    <3> QED BY <2>1, <2>2, <3>1, <3>2, <3>3, Opening
  <2>3. CASE c \notin active[m]
    <3>1. client'[c] = client[c]
      BY <2>1, <2>3, Hearing
    <3>2. CASE m = Home(c)
      <4>1. client[c] # "open" /\ (c \in active[m] \cup inactive[m] => c \in Subscribers(m))
        BY <2>3, <3>2 DEF Believes, Subscribers
      <4> QED BY <2>1, <3>1, <3>2, <4>1, Remaining
    <3>3. CASE m # Home(c)
      <4>1. c \notin active[m] \cup inactive[m]
        BY <3>3 DEF Believes, Subscribers
      <4> QED BY <2>1, <3>1, <3>3, <4>1, Elsewhere
    <3> QED BY <3>2, <3>3
  <2> QED BY <2>2, <2>3
<1>3. CASE DropAll(m, "denied") \/ DropAll(m, "released")
  BY <1>3, DropBelieved
<1>4. CASE CloseComplete(m, "denied") \/ CloseComplete(m, "released")
  BY <1>4, CloseBelieved
<1> QED BY <1>1, <1>2, <1>3, <1>4 DEF HandleEvent, Granted, Denied, Released

(* Only emergency sessions are in the list of ds, so only theirs are the   *)
(* requests handlers post.                                                 *)
LEMMA HandlerShifts ==
  ASSUME Inv, ~restarted, BeliefInv, Handle
  PROVE  Shifted
<1>1. ASSUME NEW hs \in Seq(EsClients), FallBack(hs)
      PROVE  Shifted
  <2> DEFINE s == [i \in 1 .. Len(hs) |-> Request(hs[i], "agnss")]
  <2>1. Len(hs) \in Nat /\ \A i \in 1 .. Len(hs) : hs[i] \in EsClients
    BY ElementOfSeq, LenProperties
  <2>2. "agnss" \in Machines /\ EsClients \subseteq Clients
    BY DEF Machines, Framework, Clients, Modem
  <2>3. \A i \in 1 .. Len(hs) : Request(hs[i], "agnss") \in Messages
    BY <2>1, <2>2 DEF Messages
  <2>4. s \in Seq(Messages) /\ Len(s) = Len(hs)
    BY <2>1, <2>3, IsASeq
  <2>5. \A k \in 1 .. Len(s) : \E d \in EsClients, m \in Machines : s[k] = Request(d, m)
    BY <2>1, <2>2, <2>4
  <2>6. queue' = rest \o s
    BY <1>1 DEF FallBack
  <2> HIDE DEF s
  <2> QED BY <2>4, <2>5, <2>6 DEF Shifted
<1>2. ASSUME queue' = rest
      PROVE  Shifted
  <2>1. queue \in Seq(Messages) /\ queue # <<>>
    BY SeqMonotonic DEF Inv, RestInv, Expected, Handle
  <2>2. rest \in Seq(Messages)
    BY <2>1, HeadTailProperties DEF rest
  <2>3. <<>> \in Seq(Messages) /\ Len(<<>>) = 0 /\ rest \o <<>> = rest
    BY <2>2, EmptySeq, ConcatEmptySeq
  <2>4. \A k \in 1 .. Len(<<>>) : \E d \in EsClients, m \in Machines : <<>>[k] = Request(d, m)
    BY <2>3
  <2>5. queue' = rest \o <<>>
    BY <1>2, <2>3
  <2> QED BY <2>3, <2>4, <2>5 DEF Shifted
<1>3. ASSUME NEW h \in EsClients, DataCallFails(h)
      PROVE  Shifted
  <2>1. CASE queue' = rest
    BY <1>2, <2>1
  <2>2. ASSUME FallBack(<<h>>)
        PROVE  Shifted
    <3>1. <<h>> \in Seq(EsClients)
      OBVIOUS
    <3> QED BY <1>1, <2>2, <3>1
  <2> QED BY <1>3, <2>1, <2>2 DEF DataCallFails
<1>4. Subscribers("ds") \subseteq EsClients
  <2> SUFFICES ASSUME NEW c \in Subscribers("ds"), c \notin EsClients PROVE FALSE
    OBVIOUS
  <2>1. c \in Ordinary /\ "ds" \in Machines
    BY DEF Ordinary, Subscribers, Inv, MachineInv, Machines
  <2>2. Home(c) = "ds"
    BY <2>1 DEF BeliefInv, Believes
  <2> QED BY <2>1, <2>2, Homes DEF Framework
<1>5. ASSUME NEW m \in Machines, NEW c \in Clients, Head(queue) = Request(c, m), Subscribe(m, c)
      PROVE  Shifted
  <2>1. CASE NoCall \/ Call(m, "request")
    BY <1>2, <2>1 DEF NoCall, Call
  <2>2. CASE m = "ds" /\ \E h \in Heads(m, c) : DataCallFails(h)
    <3>1. c \in EsClients
      <4> SUFFICES ASSUME c \in Ordinary PROVE FALSE
        BY DEF Ordinary
      <4>1. 1 \in 1 .. Len(queue) /\ queue[1] = Request(c, m)
        <5>1. queue \in Seq(Expected) /\ queue # <<>>
          BY DEF Handle, Inv, RestInv
        <5>2. Len(queue) \in Nat \ {0} /\ queue[1] = Head(queue)
          BY <5>1, EmptySeq, LenProperties
        <5> QED BY <1>5, <5>2
      <4>2. m = Home(c)
        BY <4>1 DEF BeliefInv, Posted
      <4> QED BY <2>2, <4>2, Homes DEF Framework
    <3>2. Heads(m, c) \subseteq EsClients
      BY <1>4, <2>2, <3>1 DEF Heads, Subscribers
    <3> QED BY <1>3, <2>2, <3>2
  <2> QED BY <1>5, <2>1, <2>2 DEF Subscribe, SubscribeRefused, SubscribeReleased, SubscribeWaits, SubscribeAcquired
<1>6. ASSUME NEW c \in Clients, HandleRelease(c)
      PROVE  Shifted
  <2>1. queue' = rest
    BY <1>6 DEF HandleRelease, Unsubscribe, UnsubscribeReleased, UnsubscribeHeld, Leave, NoCall, Call
  <2> QED BY <1>2, <2>1
<1>7. ASSUME NEW m \in Machines, NEW e, HandleEvent(m, e)
      PROVE  Shifted
  <2>1. CASE NoCall \/ Call(m, "request")
    BY <1>2, <2>1 DEF NoCall, Call
  <2>2. CASE m = "ds" /\ \E h \in active[m] : DataCallFails(h)
    <3>1. active[m] \subseteq EsClients
      BY <1>4, <2>2 DEF Subscribers
    <3> QED BY <1>3, <2>2, <3>1
  <2>3. ASSUME m = "ds", NEW hs \in SetToSeqs(Subscribers(m)), FallBack(hs)
        PROVE  Shifted
    <3>1. hs \in Seq(EsClients)
      <4>1. hs \in [1 .. Cardinality(Subscribers("ds")) -> Subscribers("ds")]
        BY <2>3 DEF SetToSeqs
      <4>2. IsFiniteSet(Subscribers("ds"))
        <5>1. Subscribers("ds") \subseteq Clients
          BY DEF Subscribers, Inv, MachineInv, Machines
        <5> QED BY <5>1, AgpsAssumption, FS_Subset DEF AgpsAssumption
      <4>3. Cardinality(Subscribers("ds")) \in Nat
        BY <4>2, FS_CardinalityType
      <4>4. hs \in [1 .. Cardinality(Subscribers("ds")) -> EsClients]
        BY <1>4, <4>1
      <4> QED BY <4>3, <4>4, SeqDef
    <3> QED BY <1>1, <2>3, <3>1
  <2>4. CASE CloseComplete(m, "denied") \/ CloseComplete(m, "released")
    BY <2>1, <2>2, <2>4 DEF CloseComplete
  <2>5. CASE DropAll(m, "denied") \/ DropAll(m, "released")
    BY <2>1, <2>3, <2>5 DEF DropAll
  <2>6. CASE Ignore
    BY <2>1, <2>6 DEF Ignore
  <2>7. CASE Granted(m)
    BY <2>1, <2>7 DEF Granted, Ignore
  <2> QED BY <1>7, <2>4, <2>5, <2>6, <2>7 DEF HandleEvent, Denied, Released
<1>8. Head(queue) \in Expected
  BY HeadTailProperties DEF Inv, RestInv, Handle
<1>9. CASE HandleEngineUp
  BY <1>2, <1>9 DEF HandleEngineUp, NoCall
<1> DEFINE msg == Head(queue)
<1>10. msg \in Messages
  BY <1>8 DEF Expected
<1>11. CASE msg.type = "request" /\ Subscribe(msg.machine, msg.client)
  BY <1>5, <1>8, <1>10, <1>11, Reading, Naming
<1>12. CASE msg.type = "release" /\ HandleRelease(msg.client)
  BY <1>6, <1>8, <1>12, Reading
<1>13. CASE msg.type = "event" /\ HandleEvent(msg.machine, msg.event)
  BY <1>7, <1>8, <1>13, Reading
<1> QED BY <1>9, <1>11, <1>12, <1>13 DEF Handle

(* Handling a message.                                                     *)
LEMMA HandlingBelieved ==
  ASSUME Inv, BeliefInv, Handle
  PROVE  BeliefInv'
<1> SUFFICES ASSUME ~restarted, NEW c \in Ordinary
             PROVE  Believes(c)' /\ Posted(c)'
  BY DEF BeliefInv, Handle, Ordinary
<1> DEFINE msg == Head(queue)
<1>1. /\ Believes(c) /\ Posted(c)
      /\ MachineInv /\ ClientInv /\ queue # <<>>
  BY DEF BeliefInv, Inv, RestInv, ClientInv, Handle
<1>2. queue \in Seq(Messages)
  BY SeqMonotonic DEF Inv, RestInv, Expected
<1>3. msg \in Expected /\ msg \in Messages
  BY <1>1, HeadTailProperties DEF Inv, RestInv, Expected
<1>4. Believes(c)' /\ Moves(c)
  <2>1. CASE msg.type = "request" /\ Subscribe(msg.machine, msg.client)
    <3>1. msg = Request(msg.client, msg.machine) /\ msg.client \in Clients /\ msg.machine \in Machines
      BY <1>3, <2>1, Reading, Naming
    <3> QED BY <1>1, <1>2, <2>1, <3>1, SubscribeBelieved
  <2>2. CASE msg.type = "release" /\ HandleRelease(msg.client)
    <3>1. msg = Release(msg.client) /\ msg.client \in Clients
      BY <1>3, <2>2, Reading, Naming
    <3> QED BY <1>1, <1>2, <2>2, <3>1, ReleaseBelieved
  <2>3. CASE msg.type = "event" /\ HandleEvent(msg.machine, msg.event)
    <3>1. msg.machine \in Machines
      BY <1>3, <2>3, Reading
    <3> QED BY <1>1, <2>3, <3>1, EventBelieved
  <2>4. msg.type # "engine up"
    BY <1>3, Reading
  <2> QED BY <2>1, <2>2, <2>3, <2>4 DEF Handle
<1> HIDE DEF msg
<1>5. Shifted
  BY HandlerShifts
<1> QED BY <1>1, <1>2, <1>4, <1>5, PostedMoves

(* A step that leaves the machines alone and posts at most one message     *)
(* that is not c's.                                                        *)
LEMMA NothingNew ==
  ASSUME queue \in Seq(Messages), NEW c \in Ordinary, Believes(c), Posted(c),
         UNCHANGED machineVars, client'[c] = client[c],
         \/ queue' = queue
         \/ \E msg \in Messages : /\ queue' = Append(queue, msg)
                                  /\ msg # Release(c) /\ \A m \in Machines : msg # Request(c, m)
  PROVE  Believes(c)' /\ Posted(c)'
<1>1. Believes(c)'
  BY Idling
<1>2. CASE queue' = queue
  BY <1>1, <1>2 DEF Posted, machineVars, Subscribers
<1>3. ASSUME NEW msg \in Messages, queue' = Append(queue, msg),
             msg # Release(c), \A m \in Machines : msg # Request(c, m)
      PROVE  Posted(c)'
  <2>1. /\ Len(queue) \in Nat /\ Len(queue') = Len(queue) + 1
        /\ \A i \in 1 .. Len(queue) : queue'[i] = queue[i]
        /\ queue'[Len(queue) + 1] = msg
    BY <1>3, AppendProperties, LenProperties
  <2>2. ASSUME NEW i \in 1 .. Len(queue'), NEW m \in Machines, queue'[i] = Request(c, m)
        PROVE  i \in 1 .. Len(queue) /\ queue[i] = Request(c, m)
    BY <1>3, <2>1, <2>2
  <2>3. ASSUME NEW i \in 1 .. Len(queue'), queue'[i] = Release(c)
        PROVE  i \in 1 .. Len(queue) /\ queue[i] = Release(c)
    BY <1>3, <2>1, <2>3
  <2>4. Subscribers(Home(c))' = Subscribers(Home(c))
    BY DEF machineVars, Subscribers
  <2>5. ASSUME NEW i \in 1 .. Len(queue'), NEW m \in Machines, queue'[i] = Request(c, m)
        PROVE  /\ m = Home(c)
               /\ c \notin Subscribers(Home(c))' /\ client'[c] \in {"requested", "releasing"}
               /\ \A j \in 1 .. Len(queue') : queue'[j] = Request(c, m) => j = i
               /\ c \in Modem => \A j \in 1 .. i : queue'[j] # Release(c)
    <3>1. i \in 1 .. Len(queue) /\ queue[i] = Request(c, m)
      BY <2>2, <2>5
    <3>2. /\ m = Home(c) /\ c \notin Subscribers(Home(c)) /\ client[c] \in {"requested", "releasing"}
          /\ \A j \in 1 .. Len(queue) : queue[j] = Request(c, m) => j = i
          /\ c \in Modem => \A j \in 1 .. i : queue[j] # Release(c)
      BY <3>1 DEF Posted
    <3>3. c \in Modem => \A j \in 1 .. i : queue'[j] # Release(c)
      <4>1. \A j \in 1 .. i : j \in 1 .. Len(queue)
        BY <2>1, <3>1
      <4> QED BY <2>1, <3>2, <4>1
    <3> QED BY <2>2, <2>4, <3>2, <3>3
  <2>6. ASSUME NEW i \in 1 .. Len(queue'), queue'[i] = Release(c)
        PROVE  /\ client'[c] \notin {"absent", "new", "open"}
               /\ client'[c] = "requested" => \E j \in i + 1 .. Len(queue') : queue'[j] = Request(c, Home(c))
    <3>1. i \in 1 .. Len(queue) /\ queue[i] = Release(c)
      BY <2>3, <2>6
    <3>2. /\ client[c] \notin {"absent", "new", "open"}
          /\ client[c] = "requested" => \E j \in i + 1 .. Len(queue) : queue[j] = Request(c, Home(c))
      BY <3>1 DEF Posted
    <3>3. CASE client[c] = "requested"
      <4>1. PICK j \in i + 1 .. Len(queue) : queue[j] = Request(c, Home(c))
        BY <3>2, <3>3
      <4>2. j \in 1 .. Len(queue) /\ j \in i + 1 .. Len(queue')
        BY <2>1, <3>1
      <4> QED BY <2>1, <3>3, <4>1, <4>2
    <3> QED BY <3>2, <3>3
  <2> QED BY <2>5, <2>6 DEF Posted
<1> QED BY <1>1, <1>2, <1>3

(* A client that asks, and one that releases.                              *)
LEMMA RequestBelieved ==
  ASSUME Inv, ~restarted, NEW c \in Ordinary, Believes(c), Posted(c), ClientRequests(c)
  PROVE  Believes(c)' /\ Posted(c)'
<1> DEFINE h == Home(c)
           n == Len(queue) + 1
<1>h. h \in Machines /\ c \in Clients /\ (c \in Modem => client[c] = "new")
  BY Homes DEF ClientRequests
<1>1. /\ client[c] \in {"new", "closed"} /\ client'[c] = "requested"
      /\ queue' = Append(queue, Request(c, h)) /\ UNCHANGED machineVars
  BY <1>h DEF ClientRequests, Inv, RestInv
<1> HIDE DEF h
<1>2. /\ Len(queue) \in Nat /\ Len(queue') = n
      /\ \A i \in 1 .. Len(queue) : queue'[i] = queue[i]
      /\ queue'[n] = Request(c, h)
  <2>1. Request(c, h) \in Expected
    BY <1>h, Postable
  <2> QED BY <1>1, <2>1, AppendProperties, LenProperties DEF Inv, RestInv
<1>3. \A i \in 1 .. Len(queue), m \in Machines : queue[i] # Request(c, m)
  BY <1>1 DEF Posted
<1>4. Subscribers(h)' = Subscribers(h) /\ c \notin Subscribers(h)
  BY <1>1 DEF machineVars, Subscribers, Believes, h
<1>5. ASSUME NEW i \in 1 .. Len(queue'), NEW m \in Machines, queue'[i] = Request(c, m)
      PROVE  i = n /\ m = h
  <2>1. i = n
    BY <1>2, <1>3, <1>5
  <2> QED BY <1>2, <1>5, <2>1, Kinds
<1>6. ASSUME NEW i \in 1 .. Len(queue'), queue'[i] = Release(c)
      PROVE  i \in 1 .. Len(queue) /\ queue[i] = Release(c)
  <2>1. i # n
    BY <1>2, <1>6, Kinds
  <2> QED BY <1>2, <1>6, <2>1
<1>7. ASSUME c \in Modem, NEW j \in 1 .. Len(queue')
      PROVE  queue'[j] # Release(c)
  BY <1>h, <1>6, <1>7 DEF Posted
<1>8. ASSUME NEW i \in 1 .. Len(queue'), queue'[i] = Release(c)
      PROVE  \E j \in i + 1 .. Len(queue') : queue'[j] = Request(c, h)
  <2>1. n \in i + 1 .. Len(queue')
    BY <1>2, <1>6, <1>8
  <2> QED BY <1>2, <2>1
<1>9. Posted(c)'
  <2>1. ASSUME NEW i \in 1 .. Len(queue'), NEW m \in Machines, queue'[i] = Request(c, m)
        PROVE  /\ \A j \in 1 .. Len(queue') : queue'[j] = Request(c, m) => j = i
               /\ c \in Modem => \A j \in 1 .. i : queue'[j] # Release(c)
    <3>1. \A j \in 1 .. i : j \in 1 .. Len(queue')
      BY <1>2
    <3> QED BY <1>5, <1>7, <2>1, <3>1
  <2> QED BY <1>1, <1>4, <1>5, <1>8, <2>1 DEF Posted, h
<1>10. Believes(c)'
  BY <1>1 DEF Believes, machineVars, Subscribers
<1> QED BY <1>9, <1>10

LEMMA PartingBelieved ==
  ASSUME Inv, ~restarted, NEW c \in Ordinary, Believes(c), Posted(c), ClientReleases(c)
  PROVE  Believes(c)' /\ Posted(c)'
<1> DEFINE h == Home(c)
           n == Len(queue) + 1
<1>h. h \in Machines /\ c \in Clients
  BY Homes
<1>1. /\ client[c] \in {"open", "requested"} /\ client'[c] = "releasing"
      /\ queue' = Append(queue, Release(c)) /\ UNCHANGED machineVars
  BY <1>h DEF ClientReleases, Inv, RestInv
<1> HIDE DEF h
<1>2. /\ Len(queue) \in Nat /\ Len(queue') = n
      /\ \A i \in 1 .. Len(queue) : queue'[i] = queue[i]
      /\ queue'[n] = Release(c)
  <2>1. Release(c) \in Expected
    BY <1>h, Postable
  <2> QED BY <1>1, <2>1, AppendProperties, LenProperties DEF Inv, RestInv
<1>3. Subscribers(h)' = Subscribers(h)
  BY <1>1 DEF machineVars, Subscribers
<1>4. ASSUME NEW i \in 1 .. Len(queue'), NEW m \in Machines, queue'[i] = Request(c, m)
      PROVE  i \in 1 .. Len(queue) /\ queue[i] = Request(c, m)
  <2>1. i # n
    BY <1>2, <1>4, Kinds
  <2> QED BY <1>2, <1>4, <2>1
<1>5. ASSUME NEW i \in 1 .. Len(queue'), NEW m \in Machines, queue'[i] = Request(c, m)
      PROVE  /\ m = h
             /\ c \notin Subscribers(h)'
             /\ \A j \in 1 .. Len(queue') : queue'[j] = Request(c, m) => j = i
             /\ c \in Modem => \A j \in 1 .. i : queue'[j] # Release(c)
  <2>1. i \in 1 .. Len(queue) /\ queue[i] = Request(c, m)
    BY <1>4, <1>5
  <2>2. /\ m = h /\ c \notin Subscribers(h)
        /\ \A j \in 1 .. Len(queue) : queue[j] = Request(c, m) => j = i
        /\ c \in Modem => \A j \in 1 .. i : queue[j] # Release(c)
    BY <2>1 DEF Posted, h
  <2>3. \A j \in 1 .. i : j \in 1 .. Len(queue)
    BY <1>2, <2>1
  <2> QED BY <1>2, <1>3, <1>4, <2>2, <2>3
<1>6. Posted(c)'
  BY <1>1, <1>5 DEF Posted, h
<1>7. Believes(c)'
  BY <1>1 DEF Believes, machineVars, Subscribers
<1> QED BY <1>6, <1>7

(* The other steps.                                                        *)
LEMMA OthersBelieved ==
  ASSUME Inv, BeliefInv,
         \/ RetryCallback
         \/ \E c \in Clients : ClientRequests(c) \/ ClientReleases(c)
         \/ ModemRestarts
         \/ \E m \in Machines : TakeCall(m) \/ OpenEnds(m) \/ ConnectionLost(m)
         \/ UNCHANGED vars
  PROVE  BeliefInv'
<1> SUFFICES ASSUME ~restarted', NEW c \in Ordinary
             PROVE  Believes(c)' /\ Posted(c)'
  BY DEF BeliefInv, Ordinary
<1>1. ~restarted
  BY DEF RetryCallback, ClientRequests, ClientReleases, ModemRestarts, TakeCall, OpenEnds,
         ConnectionLost, Connect, vars
<1>2. Believes(c) /\ Posted(c) /\ c \in Clients /\ queue \in Seq(Messages)
  BY <1>1, SeqMonotonic DEF BeliefInv, Ordinary, Inv, RestInv, Expected
<1>3. ASSUME UNCHANGED machineVars, client'[c] = client[c],
             \/ queue' = queue
             \/ \E d \in Clients \ {c}, m \in Machines : queue' = Append(queue, Request(d, m))
             \/ \E d \in Clients \ {c} : queue' = Append(queue, Release(d))
             \/ \E m \in Machines, e \in Events : queue' = Append(queue, RsrcEvent(m, e))
      PROVE  Believes(c)' /\ Posted(c)'
  <2>1. ASSUME NEW d \in Clients \ {c}, NEW m \in Machines
        PROVE  /\ Request(d, m) \in Messages /\ Request(d, m) # Release(c)
               /\ \A n \in Machines : Request(d, m) # Request(c, n)
    BY Kinds DEF Messages
  <2>2. ASSUME NEW d \in Clients \ {c}
        PROVE  /\ Release(d) \in Messages /\ Release(d) # Release(c)
               /\ \A n \in Machines : Release(d) # Request(c, n)
    BY Kinds DEF Messages
  <2>3. ASSUME NEW m \in Machines, NEW e \in Events
        PROVE  /\ RsrcEvent(m, e) \in Messages /\ RsrcEvent(m, e) # Release(c)
               /\ \A n \in Machines : RsrcEvent(m, e) # Request(c, n)
    <3>1. RsrcEvent(m, e).type = "event" /\ Release(c).type = "release"
      BY DEF RsrcEvent, Release
    <3>2. \A n \in Machines : Request(c, n).type = "request"
      BY DEF Request
    <3> QED BY <3>1, <3>2 DEF Messages
  <2>4. \/ queue' = queue
        \/ \E msg \in Messages : /\ queue' = Append(queue, msg)
                                 /\ msg # Release(c) /\ \A n \in Machines : msg # Request(c, n)
    BY <1>3, <2>1, <2>2, <2>3
  <2> QED BY <1>2, <1>3, <2>4, NothingNew
<1>4. CASE RetryCallback
  <2>1. active["ds"] \subseteq Clients \ {c}
    <3>1. "ds" \in Machines /\ Home(c) # "ds"
      BY Homes DEF Machines, Framework
    <3>2. c \notin Subscribers("ds")
      BY <1>2, <3>1 DEF Believes
    <3> QED BY <3>1, <3>2 DEF Subscribers, Inv, MachineInv
  <2>2. "ds" \in Machines
    BY DEF Machines
  <2> QED BY <1>3, <1>4, <2>1, <2>2 DEF RetryCallback
<1>5. ASSUME NEW d \in Clients, ClientRequests(d)
      PROVE  Believes(c)' /\ Posted(c)'
  <2>1. CASE d = c
    BY <1>1, <1>2, <1>5, <2>1, RequestBelieved
  <2>2. CASE d # c
    <3>1. Home(d) \in Machines
      BY DEF Home, Machines, Framework
    <3>2. UNCHANGED machineVars /\ client'[c] = client[c] /\ queue' = Append(queue, Request(d, Home(d)))
      BY <1>2, <1>5, <2>2 DEF ClientRequests, Inv, RestInv
    <3> QED BY <1>3, <2>2, <3>1, <3>2
  <2> QED BY <2>1, <2>2
<1>6. ASSUME NEW d \in Clients, ClientReleases(d)
      PROVE  Believes(c)' /\ Posted(c)'
  <2>1. CASE d = c
    BY <1>1, <1>2, <1>6, <2>1, PartingBelieved
  <2>2. CASE d # c
    <3>1. UNCHANGED machineVars /\ client'[c] = client[c] /\ queue' = Append(queue, Release(d))
      BY <1>2, <1>6, <2>2 DEF ClientReleases, Inv, RestInv
    <3> QED BY <1>3, <2>2, <3>1
  <2> QED BY <2>1, <2>2
<1>7. ~ModemRestarts
  BY DEF ModemRestarts
<1>8. ASSUME NEW m \in Machines, TakeCall(m) \/ OpenEnds(m) \/ ConnectionLost(m)
      PROVE  Believes(c)' /\ Posted(c)'
  <2>1. UNCHANGED machineVars /\ client' = client
    BY <1>8 DEF TakeCall, OpenEnds, ConnectionLost, Connect
  <2>2. queue' = queue \o <<>> \/ \E e \in Events : queue' = queue \o <<RsrcEvent(m, e)>>
    BY <1>8 DEF TakeCall, OpenEnds, ConnectionLost, Connect, Events
  <2>3. queue \o <<>> = queue
    BY <1>2, ConcatEmptySeq
  <2>4. \A e \in Events : queue \o <<RsrcEvent(m, e)>> = Append(queue, RsrcEvent(m, e))
    <3> TAKE e \in Events
    <3>1. RsrcEvent(m, e) \in Messages
      BY DEF Messages
    <3> QED BY <1>2, <3>1, AppendIsConcat
  <2>5. queue' = queue \/ \E e \in Events : queue' = Append(queue, RsrcEvent(m, e))
    BY <2>2, <2>3, <2>4
  <2> QED BY <1>3, <2>1, <2>5
<1>9. CASE UNCHANGED vars
  BY <1>3, <1>9 DEF vars
<1> QED BY <1>4, <1>5, <1>6, <1>7, <1>8, <1>9

(* Until the modem restarts, what an ordinary client believes of its       *)
(* connection is so: one that has been told it is open holds an acquired   *)
(* connection, and no machine keeps one for a client that is done, however *)
(* requests, releases and answers overtake each other in the queue.        *)
THEOREM BeliefsAreRight == Spec => []ClientsAreRight
<1>1. Init => BeliefInv
  BY DEF Init, BeliefInv, Believes, Posted, Subscribers, Ordinary, Machines, Framework, Home
<1>2. Inv /\ BeliefInv /\ [Next]_vars => BeliefInv'
  BY HandlingBelieved, OthersBelieved DEF Next
<1>3. BeliefInv => ClientsAreRight
  BY DEF BeliefInv, Believes, ClientsAreRight, OpenMeansAcquired, NoForgottenSubscriber, Ordinary
<1> QED BY <1>1, <1>2, <1>3, Invariance, PTL DEF Spec
----------------------------------------------------------------------------
(***************************************************************************)
(* Machines and openers.                                                   *)
(***************************************************************************)

(* c's messages in the queue: requests at m, and a release.                *)
Asking(c, m) == \E i \in 1 .. Len(queue) : queue[i] = Request(c, m)
Going(c)     == \E i \in 1 .. Len(queue) : queue[i] = Release(c)
Single(c)    == \A i \in 1 .. Len(queue) : \A j \in 1 .. Len(queue) : \A m \in Machines : \A n \in Machines :
                  queue[i] = Request(c, m) /\ queue[j] = Request(c, n) => i = j
Before(c)    == \A i \in 1 .. Len(queue) : \A j \in 1 .. Len(queue) : \A m \in Machines :
                  queue[i] = Request(c, m) /\ queue[j] = Release(c) => j < i

(* The machines c may be with: emergency sessions fall back to agnss.      *)
Wants(c, m) == m = Home(c) \/ (c \in EsClients /\ m = "agnss")

(* c has asked for a connection, and is not done with it for good.         *)
Known(c) == client[c] \notin {"absent", "new"} /\ (c \notin Modem => client[c] # "closed")

(* A request that waits is the only one of its client and comes after its  *)
(* releases; the client is in no list of the framework's yet.  A client    *)
(* that has been told its connection is open, or releases it, is not among *)
(* those that wait for it: its machine has the connection, or has dropped  *)
(* the client.  This does not depend on the modem's restarts.              *)
Settled(c) ==
  /\ \A m \in Machines : c \in Subscribers(m) \/ Asking(c, m) => Wants(c, m) /\ Known(c)
  /\ \A m \in Machines : Asking(c, m) => client[c] # "open" /\ \A n \in Framework : c \notin Subscribers(n)
  /\ Single(c) /\ Before(c)
  /\ Going(c) => client[c] \notin {"absent", "new"}
  /\ \A n \in Framework : c \in active[n] /\ (client[c] = "open" \/ Going(c)) => state[n] = "Acquired"

(* Where the only emergency session's request is: in the queue, with the   *)
(* retry timer or with the data services, in one place at most; and then   *)
(* the session is not with agnss, and its connection is not open.          *)
Tokens(c) ==
  /\ timers <= 1
  /\ state["ds"] = "Releasing" => active["ds"] = {}
  /\ timers > 0 \/ (\E m \in Machines : Asking(c, m)) \/ client[c] = "new" => state["ds"] = "Released"
  /\ (\E m \in Machines : Asking(c, m)) \/ client[c] = "new" => timers = 0
  /\ timers > 0 \/ state["ds"] = "Pending" => c \notin Subscribers("agnss") /\ client[c] # "open"

Alone(c) == c \in Clients /\ (c \in EsClients => OneEmergencySession)

AllSettled == \A c \in Clients : Alone(c) => Settled(c) /\ (c \in EsClients => Tokens(c))
StepInv == patient => AllSettled

(* The queue after a handler: without its head, and with s.                *)
Foreign(c, s) == \A k \in 1 .. Len(s) : s[k] # Release(c) /\ \A m \in Machines : s[k] # Request(c, m)

(* Whether c's request is the message that is handled.                     *)
Heard(c) == \E m \in Machines : Head(queue) = Request(c, m)

(* Nothing of c is posted: what waits has waited before.                   *)
LEMMA MovingUp ==
  ASSUME queue \in Seq(Messages), queue # <<>>, NEW c, Single(c), Before(c),
         NEW s \in Seq(Messages), Foreign(c, s), queue' = rest \o s
  PROVE  /\ \A m \in Machines : Asking(c, m)' => Asking(c, m) /\ ~Heard(c)
         /\ Going(c)' => Going(c) /\ ~Heard(c)
         /\ Single(c)' /\ Before(c)'
<1>1. /\ rest \in Seq(Messages) /\ Len(rest) = Len(queue) - 1
      /\ \A i \in 1 .. Len(rest) : rest[i] = queue[i + 1]
      /\ Len(queue) \in Nat \ {0} /\ Len(s) \in Nat /\ queue[1] = Head(queue)
  BY HeadTailProperties, EmptySeq, LenProperties DEF rest
<1>2. /\ Len(queue') = Len(rest) + Len(s)
      /\ \A i \in 1 .. Len(queue') : queue'[i] = IF i <= Len(rest) THEN rest[i] ELSE s[i - Len(rest)]
  <2>1. /\ Len(rest \o s) = Len(rest) + Len(s)
        /\ \A i \in 1 .. Len(rest) + Len(s) :
             (rest \o s)[i] = IF i <= Len(rest) THEN rest[i] ELSE s[i - Len(rest)]
    BY <1>1, ConcatProperties
  <2> QED BY <2>1
<1>3. ASSUME NEW i \in 1 .. Len(queue'),
             queue'[i] = Release(c) \/ \E m \in Machines : queue'[i] = Request(c, m)
      PROVE  i + 1 \in 1 .. Len(queue) /\ queue'[i] = queue[i + 1]
  <2>1. ~(i > Len(rest))
    <3>1. ASSUME i > Len(rest)
          PROVE  i - Len(rest) \in 1 .. Len(s) /\ queue'[i] = s[i - Len(rest)]
      BY <1>1, <1>2, <3>1
    <3> QED BY <1>3, <3>1 DEF Foreign
  <2> QED BY <1>1, <1>2, <2>1
<1>4. 1 \in 1 .. Len(queue)
  BY <1>1
<1>5. ASSUME NEW i \in 1 .. Len(queue'), NEW m \in Machines, queue'[i] = Request(c, m)
      PROVE  Asking(c, m) /\ ~Heard(c)
  <2>1. i + 1 \in 1 .. Len(queue) /\ queue[i + 1] = Request(c, m)
    BY <1>3, <1>5
  <2>2. i + 1 # 1
    BY <1>2
  <2>3. ~Heard(c)
    BY <1>1, <1>4, <2>1, <2>2 DEF Heard, Single
  <2> QED BY <2>1, <2>3 DEF Asking
<1>6. ASSUME NEW i \in 1 .. Len(queue'), queue'[i] = Release(c)
      PROVE  Going(c) /\ ~Heard(c)
  <2>1. i + 1 \in 1 .. Len(queue) /\ queue[i + 1] = Release(c)
    BY <1>3, <1>6
  <2>2. ~(i + 1 < 1)
    BY <1>2
  <2>3. ~Heard(c)
    BY <1>1, <1>4, <2>1, <2>2 DEF Heard, Before
  <2> QED BY <2>1, <2>3 DEF Going
<1>7. Single(c)'
  <2>1. ASSUME NEW i \in 1 .. Len(queue'), NEW j \in 1 .. Len(queue'), NEW m \in Machines, NEW n \in Machines,
               queue'[i] = Request(c, m), queue'[j] = Request(c, n)
        PROVE  i = j
    <3>1. /\ i + 1 \in 1 .. Len(queue) /\ queue[i + 1] = Request(c, m)
          /\ j + 1 \in 1 .. Len(queue) /\ queue[j + 1] = Request(c, n)
      BY <1>3, <2>1
    <3>2. i + 1 = j + 1
      BY <3>1 DEF Single
    <3> QED BY <3>2
  <2> QED BY <2>1 DEF Single
<1>8. Before(c)'
  <2>1. ASSUME NEW i \in 1 .. Len(queue'), NEW j \in 1 .. Len(queue'), NEW m \in Machines,
               queue'[i] = Request(c, m), queue'[j] = Release(c)
        PROVE  j < i
    <3>1. /\ i + 1 \in 1 .. Len(queue) /\ queue[i + 1] = Request(c, m)
          /\ j + 1 \in 1 .. Len(queue) /\ queue[j + 1] = Release(c)
      BY <1>3, <2>1
    <3>2. j + 1 < i + 1
      BY <3>1 DEF Before
    <3> QED BY <3>2
  <2> QED BY <2>1 DEF Before
<1>9. \A m \in Machines : Asking(c, m)' => Asking(c, m) /\ ~Heard(c)
  BY <1>5 DEF Asking
<1>10. Going(c)' => Going(c) /\ ~Heard(c)
  BY <1>6 DEF Going
<1> QED BY <1>7, <1>8, <1>9, <1>10

(* A request of c is posted behind the others, none of them c's.           *)
LEMMA PostingOne ==
  ASSUME NEW q \in Seq(Messages), NEW c, NEW k \in Machines, Request(c, k) \in Messages,
         \A i \in 1 .. Len(q) : \A m \in Machines : q[i] # Request(c, m),
         queue' = Append(q, Request(c, k))
  PROVE  /\ \A m \in Machines : Asking(c, m)' => m = k
         /\ Going(c)' => \E i \in 1 .. Len(q) : q[i] = Release(c)
         /\ Single(c)' /\ Before(c)'
<1>1. /\ Len(queue') = Len(q) + 1 /\ Len(q) \in Nat
      /\ \A i \in 1 .. Len(q) : queue'[i] = q[i]
      /\ queue'[Len(q) + 1] = Request(c, k)
  BY AppendProperties, LenProperties
<1>2. ASSUME NEW i \in 1 .. Len(queue'), NEW m \in Machines, queue'[i] = Request(c, m)
      PROVE  i = Len(q) + 1 /\ m = k
  <2>1. i = Len(q) + 1
    BY <1>1, <1>2
  <2> QED BY <1>1, <1>2, <2>1, Kinds
<1>3. ASSUME NEW i \in 1 .. Len(queue'), queue'[i] = Release(c)
      PROVE  i \in 1 .. Len(q) /\ q[i] = Release(c) /\ i < Len(q) + 1
  <2>1. i # Len(q) + 1
    BY <1>1, <1>3, Kinds
  <2> QED BY <1>1, <1>3, <2>1
<1>4. \A m \in Machines : Asking(c, m)' => m = k
  BY <1>2 DEF Asking
<1>5. Going(c)' => \E i \in 1 .. Len(q) : q[i] = Release(c)
  BY <1>3 DEF Going
<1>6. Single(c)'
  BY <1>2 DEF Single
<1>7. Before(c)'
  BY <1>2, <1>3 DEF Before
<1> QED BY <1>4, <1>5, <1>6, <1>7

(* What a handler does to the lists c is in ...                            *)
Lists(c) ==
  /\ \A m \in Machines : c \in Subscribers(m)' => c \in Subscribers(m) \/ Head(queue) = Request(c, m)
  /\ \A m \in Framework : c \in active'[m] => c \in active[m] \/ Head(queue) = Request(c, m)
  /\ \A m \in Framework : state[m] = "Acquired" /\ state'[m] # "Acquired" => active'[m] = {}

(* ... and what it tells c.                                                *)
Closes(c) ==
  /\ client'[c] = "closed"
  /\ \/ c \in Modem /\ Head(queue) = Release(c)
     \/ /\ Heard(c) \/ \E m \in Machines : c \in Subscribers(m)
        /\ c \in Modem \/ \A m \in Machines : c \notin Subscribers(m)'
Opens(c) ==
  /\ client[c] = "requested" /\ client'[c] = "open"
  /\ \E m \in Machines : /\ state'[m] = "Acquired"
                         /\ Head(queue) = Request(c, m) \/ (c \in active[m] /\ state[m] = "Pending")
Tells(c) == client'[c] = client[c] \/ Closes(c) \/ Opens(c)

(* A machine that becomes something treats c's lists so.                   *)
LEMMA BecomeLists ==
  ASSUME MachineInv, NEW m \in Machines, NEW s, NEW a, NEW i, Become(m, s, a, i), NEW c,
         c \in a \cup i => c \in Subscribers(m) \/ Head(queue) = Request(c, m),
         m \in Framework /\ c \in a => c \in active[m] \/ Head(queue) = Request(c, m),
         m \in Framework /\ state[m] = "Acquired" /\ s # "Acquired" => a = {}
  PROVE  Lists(c)
<1>1. Framework \subseteq Machines
  BY DEF Machines
<1>2. /\ state'[m] = s /\ active'[m] = a /\ Subscribers(m)' = a \cup i
      /\ \A n \in Machines \ {m} : state'[n] = state[n] /\ active'[n] = active[n] /\ Subscribers(n)' = Subscribers(n)
  BY Machine
<1>3. \A n \in Machines : c \in Subscribers(n)' => c \in Subscribers(n) \/ Head(queue) = Request(c, n)
  BY <1>2
<1>4. \A n \in Framework : c \in active'[n] => c \in active[n] \/ Head(queue) = Request(c, n)
  BY <1>1, <1>2
<1>5. \A n \in Framework : state[n] = "Acquired" /\ state'[n] # "Acquired" => active'[n] = {}
  BY <1>1, <1>2
<1> QED BY <1>3, <1>4, <1>5 DEF Lists

LEMMA StayLists ==
  ASSUME UNCHANGED machineVars, NEW c
  PROVE  Lists(c)
BY DEF machineVars, Lists, Subscribers

LEMMA SubscribeLists ==
  ASSUME MachineInv, NEW m \in Machines, NEW d, Head(queue) = Request(d, m), Subscribe(m, d), NEW c
  PROVE  Lists(c)
<1> DEFINE a == WithSubscriber(m, d)
<1>1. /\ c \in a \cup inactive[m] => c \in Subscribers(m) \/ Head(queue) = Request(c, m)
      /\ c \in a => c \in active[m] \/ Head(queue) = Request(c, m)
  BY DEF WithSubscriber, Subscribers
<1> HIDE DEF a
<1>2. CASE UNCHANGED machineVars
  BY <1>2, StayLists
<1>3. CASE \E s : Become(m, s, a, inactive[m]) /\ (state[m] = "Acquired" => s = "Acquired")
  BY <1>1, <1>3, BecomeLists
<1>4. SubscribeReleased(m, d) => Become(m, "Pending", a, inactive[m]) \/ Become(m, "Released", a, inactive[m])
  BY DEF SubscribeReleased, a
<1>5. SubscribeReleased(m, d) => state[m] # "Acquired"
  BY DEF SubscribeReleased
<1>6. SubscribeWaits(m, d) \/ SubscribeAcquired(m, d) => Become(m, state[m], a, inactive[m])
  BY DEF SubscribeWaits, SubscribeAcquired, a
<1>7. SubscribeRefused(m, d) => UNCHANGED machineVars
  BY DEF SubscribeRefused
<1> QED BY <1>2, <1>3, <1>4, <1>5, <1>6, <1>7 DEF Subscribe

LEMMA UnsubscribeLists ==
  ASSUME MachineInv, NEW m \in Machines, NEW d \in Subscribers(m), Unsubscribe(m, d), NEW c
  PROVE  Lists(c)
<1> DEFINE a == active[m] \ {d}
           i == IF waitForCloseComplete(m) THEN inactive[m] \cup {d} ELSE inactive[m] \ {d}
<1>1. c \in a => c \in active[m]
  OBVIOUS
<1>2. c \in a \cup i => c \in Subscribers(m)
  BY DEF Subscribers
<1>3. CASE UnsubscribeReleased(m, d)
  BY <1>3, StayLists DEF UnsubscribeReleased
<1>4. CASE UnsubscribeHeld(m, d)
  <2>1. Leave(m, a, i)
    BY <1>4 DEF UnsubscribeHeld
  <2> HIDE DEF a, i
  <2>2. \/ Become(m, state[m], a, i)
        \/ a = {} /\ \E s : Become(m, s, a, i)
    BY <2>1 DEF Leave
  <2> QED BY <1>1, <1>2, <2>2, BecomeLists
<1> QED BY <1>3, <1>4 DEF Unsubscribe

LEMMA EventLists ==
  ASSUME MachineInv, NEW m \in Machines, NEW e, HandleEvent(m, e), NEW c
  PROVE  Lists(c)
<1>1. CASE Ignore
  BY <1>1, StayLists DEF Ignore
<1>2. ASSUME NEW status, DropAll(m, status)
      PROVE  Lists(c)
  <2>1. Become(m, "Released", {}, {})
    BY <1>2 DEF DropAll
  <2> QED BY <2>1, BecomeLists
<1>3. ASSUME NEW status, CloseComplete(m, status)
      PROVE  Lists(c)
  <2>1. PICK s : Become(m, s, active[m], {})
    BY <1>3 DEF CloseComplete
  <2>2. state[m] # "Acquired"
    BY <1>3 DEF CloseComplete
  <2>3. c \in active[m] \cup {} => c \in Subscribers(m)
    BY DEF Subscribers
  <2> QED BY <2>1, <2>2, <2>3, BecomeLists
<1>4. CASE Become(m, "Acquired", active[m], inactive[m])
  <2>1. c \in active[m] \cup inactive[m] => c \in Subscribers(m)
    BY DEF Subscribers
  <2> QED BY <1>4, <2>1, BecomeLists
<1>5. Granted(m) => Ignore \/ Become(m, "Acquired", active[m], inactive[m])
  BY DEF Granted
<1>6. Denied(m) => Ignore \/ DropAll(m, "denied") \/ CloseComplete(m, "denied")
  BY DEF Denied
<1>7. Released(m) => Ignore \/ Denied(m) \/ DropAll(m, "released") \/ CloseComplete(m, "released")
  BY DEF Released
<1> QED BY <1>1, <1>2, <1>3, <1>4, <1>5, <1>6, <1>7 DEF HandleEvent

LEMMA EngineUpLists ==
  ASSUME MachineInv, HandleEngineUp, NEW c
  PROVE  Lists(c)
<1>1. \A m \in Machines : /\ state'[m] = state[m]
                          /\ active'[m] \subseteq active[m] /\ inactive'[m] \subseteq inactive[m]
  BY DEF HandleEngineUp, MachineInv
<1> QED BY <1>1 DEF Lists, Subscribers, Machines

(* A client in the list of the framework's machines only: not the modem's. *)
LEMMA OwnMachine ==
  ASSUME NEW c \in Clients, c \notin Modem, NEW m, Wants(c, m)
  PROVE  m = Home(c) /\ m \in {"internet", "wifi"}
BY DEF Wants, Home, Modem, Clients

LEMMA SubscribeTells ==
  ASSUME MachineInv, ClientInv, NEW m \in Machines, NEW d, Head(queue) = Request(d, m), Subscribe(m, d),
         NEW c \in Clients, Settled(c), Heard(c) => \E n \in Machines : Asking(c, n)
  PROVE  Tells(c)
<1>1. CASE SubscribeRefused(m, d)
  <2>1. UNCHANGED machineVars /\ client' = [x \in Clients |-> IF x \in {d} THEN Told(x, "denied") ELSE client[x]]
    BY <1>1 DEF SubscribeRefused, TellAll
  <2>2. CASE c = d
    <3>1. Heard(c)
      BY <2>2 DEF Heard
    <3>2. client'[c] = client[c] \/ client'[c] = "closed"
      BY <2>1, <2>2 DEF Told
    <3>3. c \in Modem \/ \A n \in Machines : c \notin Subscribers(n)'
      <4>1. SUFFICES ASSUME c \notin Modem, NEW n \in Machines, c \in Subscribers(n)
                     PROVE  FALSE
        BY <2>1 DEF machineVars, Subscribers
      <4>2. n \in Framework
        BY <4>1, OwnMachine DEF Settled, Framework
      <4> QED BY <3>1, <4>1, <4>2 DEF Settled
    <3> QED BY <3>1, <3>2, <3>3 DEF Tells, Closes
  <2>3. CASE c # d
    BY <2>1, <2>3 DEF Tells
  <2> QED BY <2>2, <2>3
<1>2. CASE SubscribeReleased(m, d) \/ SubscribeWaits(m, d)
  BY <1>2 DEF SubscribeReleased, SubscribeWaits, Tells
<1>3. CASE SubscribeAcquired(m, d)
  <2>1. Notify(m, {d}, "granted") /\ Become(m, "Acquired", WithSubscriber(m, d), inactive[m])
    BY <1>3 DEF SubscribeAcquired
  <2>2. state'[m] = "Acquired"
    BY <2>1, Machine
  <2>3. CASE c = d
    <3>1. client'[c] = client[c] \/ (client[c] = "requested" /\ client'[c] = "open")
      BY <2>1, Hearing DEF Told
    <3> QED BY <2>2, <2>3, <3>1 DEF Tells, Opens
  <2>4. CASE c # d
    BY <2>1, <2>4, Hearing DEF Tells
  <2> QED BY <2>3, <2>4
<1> QED BY <1>1, <1>2, <1>3 DEF Subscribe

LEMMA ReleaseTells ==
  ASSUME MachineInv, ClientInv, NEW d \in Clients, Head(queue) = Release(d), HandleRelease(d),
         NEW c \in Clients, Settled(c)
  PROVE  Tells(c)
<1>1. CASE \A m \in Asked(d) : d \notin Subscribers(m)
  <2>1. TellAll({d} \cap Modem, "closed")
    BY <1>1 DEF HandleRelease, Finds
  <2>2. c \in {d} \cap Modem => client'[c] = "closed"
    BY <2>1 DEF TellAll, Told
  <2>3. c \notin {d} \cap Modem => client'[c] = client[c]
    BY <2>1 DEF TellAll
  <2> QED BY <2>2, <2>3 DEF Tells, Closes
<1>2. CASE ~\A m \in Asked(d) : d \notin Subscribers(m)
  <2>0. PICK m \in Machines : Finds(d, m) /\ Unsubscribe(m, d)
    BY <1>2 DEF HandleRelease
  <2>1. d \in Subscribers(m) /\ Notify(m, {d}, "unsubscribed")
    BY <2>0 DEF Finds, Unsubscribe, UnsubscribeReleased, UnsubscribeHeld
  <2>2. CASE c # d
    BY <2>1, <2>2, Hearing DEF Tells
  <2>3. CASE c = d
    <3>1. client'[c] = client[c] \/ client'[c] = "closed"
      BY <2>1, <2>3, Hearing DEF Told
    <3>2. ASSUME c \notin Modem, client'[c] # client[c], NEW n \in Machines
          PROVE  c \notin Subscribers(n)'
      <4>1. m = Home(c) /\ m \in {"internet", "wifi"} /\ (c \in Subscribers(n) => n = m)
        BY <2>1, <2>3, <3>2, OwnMachine DEF Settled
      <4>2. m # "wifi"
        BY <2>1, <3>2 DEF Notify, TellAll
      <4>3. m \in Framework /\ Subscribers(m) # {}
        BY <2>1, <4>1 DEF Framework
      <4>4. state[m] # "Released"
        BY <4>3 DEF MachineInv, Fits, Subscribers
      <4>5. Leave(m, active[m] \ {d}, inactive[m] \ {d})
        BY <2>0, <4>1, <4>2, <4>4 DEF Unsubscribe, UnsubscribeReleased, UnsubscribeHeld, waitForCloseComplete
      <4>6. \E s : Become(m, s, active[m] \ {d}, inactive[m] \ {d})
        BY <4>5 DEF Leave
      <4>7. Subscribers(m)' = (active[m] \ {d}) \cup (inactive[m] \ {d})
        BY <4>6, Machine
      <4>8. n # m => Subscribers(n)' = Subscribers(n)
        BY <4>6, Machine
      <4> QED BY <2>3, <4>1, <4>7, <4>8
    <3> QED BY <2>1, <2>3, <3>1, <3>2 DEF Tells, Closes
  <2> QED BY <2>2, <2>3
<1> QED BY <1>1, <1>2

LEMMA EventTells ==
  ASSUME MachineInv, ClientInv, NEW m \in Machines, NEW e, HandleEvent(m, e),
         NEW c \in Clients, Settled(c)
  PROVE  Tells(c)
<1>1. CASE Ignore
  BY <1>1 DEF Ignore, Tells
<1>2. ASSUME NEW status \in {"released", "denied"}, NEW S, Notify(m, S, status), S \subseteq Subscribers(m),
             NEW s, NEW a, Become(m, s, a, {}), a \cap S = {}
      PROVE  Tells(c)
  <2>1. CASE c \notin S
    BY <1>2, <2>1, Hearing DEF Tells
  <2>2. CASE c \in S
    <3>1. client'[c] = client[c] \/ client'[c] = "closed"
      BY <1>2, Hearing DEF Told
    <3>2. ASSUME c \notin Modem, NEW n \in Machines
          PROVE  c \notin Subscribers(n)'
      <4>1. c \in Subscribers(n) => n = m
        BY <1>2, <2>2, <3>2, OwnMachine DEF Settled
      <4>2. Subscribers(m)' = a \cup {}
        BY <1>2, Machine
      <4>3. n # m => Subscribers(n)' = Subscribers(n)
        BY <1>2, Machine
      <4> QED BY <1>2, <2>2, <4>1, <4>2, <4>3
    <3> QED BY <1>2, <2>2, <3>1, <3>2 DEF Tells, Closes
  <2> QED BY <2>1, <2>2
<1>3. ASSUME NEW status \in {"released", "denied"}, DropAll(m, status)
      PROVE  Tells(c)
  BY <1>2, <1>3 DEF DropAll
<1>4. ASSUME NEW status \in {"released", "denied"}, CloseComplete(m, status)
      PROVE  Tells(c)
  <2>1. active[m] \cap inactive[m] = {} /\ inactive[m] \subseteq Subscribers(m)
    BY DEF MachineInv, Fits, Subscribers
  <2>2. Notify(m, inactive[m], status) /\ \E s : Become(m, s, active[m], {})
    BY <1>4 DEF CloseComplete
  <2> QED BY <1>2, <2>1, <2>2
<1>5. CASE state[m] = "Pending" /\ Granted(m)
  <2>1. Notify(m, active[m], "granted") /\ Become(m, "Acquired", active[m], inactive[m])
    BY <1>5 DEF Granted
  <2>2. state'[m] = "Acquired"
    BY <2>1, Machine
  <2>3. CASE c \notin active[m]
    BY <2>1, <2>3, Hearing DEF Tells
  <2>4. CASE c \in active[m]
    <3>1. client'[c] = client[c] \/ (client[c] = "requested" /\ client'[c] = "open")
      BY <2>1, Hearing DEF Told
    <3> QED BY <1>5, <2>2, <2>4, <3>1 DEF Tells, Opens
  <2> QED BY <2>3, <2>4
<1>6. Granted(m) => Ignore \/ state[m] = "Pending"
  BY DEF Granted
<1>7. Denied(m) => Ignore \/ DropAll(m, "denied") \/ CloseComplete(m, "denied")
  BY DEF Denied
<1>8. Released(m) => Ignore \/ Denied(m) \/ DropAll(m, "released") \/ CloseComplete(m, "released")
  BY DEF Released
<1> QED BY <1>1, <1>3, <1>4, <1>5, <1>6, <1>7, <1>8 DEF HandleEvent

(* What a handler posts: nothing of c's, or the request of an emergency    *)
(* session that could not open its data call.                              *)
PostsNot(c) == \E s \in Seq(Messages) : Foreign(c, s) /\ queue' = rest \o s
FallsBack(c) ==
  /\ c \in EsClients
  /\ queue' = Append(rest, Request(c, "agnss"))
  /\ Head(queue) = Request(c, "ds") \/ (state["ds"] = "Pending" /\ c \in Subscribers("ds"))
  /\ UNCHANGED <<client, timers>>
  /\ state'["ds"] = "Released"
  /\ \A m \in Framework : active'[m] = active[m] /\ inactive'[m] = inactive[m] /\ state'[m] = state[m]

(* The messages of the task, and what is left of them.                     *)
QueueInv == queue \in Seq(Messages) /\ queue # <<>>

LEMMA RestOnly ==
  ASSUME QueueInv, NEW c, queue' = rest
  PROVE  PostsNot(c)
<1>1. rest \in Seq(Messages)
  BY HeadTailProperties DEF QueueInv, rest
<1>2. <<>> \in Seq(Messages) /\ Len(<<>>) = 0 /\ rest \o <<>> = rest
  BY <1>1, EmptySeq, ConcatEmptySeq
<1>3. Foreign(c, <<>>)
  BY <1>2 DEF Foreign
<1>4. queue' = rest \o <<>>
  BY <1>2
<1> QED BY <1>2, <1>3, <1>4 DEF PostsNot

LEMMA FallBackOthers ==
  ASSUME QueueInv, NEW hs \in Seq(Clients), FallBack(hs), NEW c, \A k \in 1 .. Len(hs) : hs[k] # c
  PROVE  PostsNot(c)
<1> DEFINE s == [k \in 1 .. Len(hs) |-> Request(hs[k], "agnss")]
<1>1. Len(hs) \in Nat /\ \A k \in 1 .. Len(hs) : hs[k] \in Clients
  BY ElementOfSeq, LenProperties
<1>2. "agnss" \in Machines
  BY DEF Machines, Framework
<1>3. \A k \in 1 .. Len(hs) : Request(hs[k], "agnss") \in Messages
  BY <1>1, <1>2 DEF Messages
<1>4. s \in Seq(Messages) /\ Len(s) = Len(hs)
  BY <1>1, <1>3, IsASeq
<1>5. \A k \in 1 .. Len(s) : s[k] # Release(c) /\ \A m \in Machines : s[k] # Request(c, m)
  BY <1>4, Kinds
<1>6. queue' = rest \o s
  BY DEF FallBack
<1> HIDE DEF s
<1> QED BY <1>4, <1>5, <1>6 DEF PostsNot, Foreign

LEMMA FallBackOne ==
  ASSUME QueueInv, NEW c \in Clients, FallBack(<<c>>)
  PROVE  queue' = Append(rest, Request(c, "agnss"))
<1>1. rest \in Seq(Messages)
  BY HeadTailProperties DEF QueueInv, rest
<1>2. Request(c, "agnss") \in Messages
  BY DEF Messages, Machines, Framework
<1>3. rest \o <<Request(c, "agnss")>> = Append(rest, Request(c, "agnss"))
  BY <1>1, <1>2, AppendIsConcat
<1>4. [i \in 1 .. Len(<<c>>) |-> Request(<<c>>[i], "agnss")] = <<Request(c, "agnss")>>
  OBVIOUS
<1>5. queue' = rest \o <<Request(c, "agnss")>>
  BY <1>4 DEF FallBack
<1> QED BY <1>3, <1>5

(* A data call that fails lets one client fall back at most.               *)
LEMMA CallFailing ==
  ASSUME QueueInv, NEW h \in Clients, DataCallFails(h), NEW c
  PROVE  \/ PostsNot(c)
         \/ /\ h = c /\ queue' = Append(rest, Request(c, "agnss")) /\ UNCHANGED timers
<1>1. CASE queue' = rest
  BY <1>1, RestOnly
<1>2. CASE FallBack(<<h>>) /\ UNCHANGED timers
  <2>1. CASE h = c
    BY <1>2, <2>1, FallBackOne
  <2>2. CASE h # c
    <3>1. <<h>> \in Seq(Clients) /\ \A k \in 1 .. Len(<<h>>) : <<h>>[k] # c
      BY <2>2
    <3> QED BY <1>2, <3>1, FallBackOthers
  <2> QED BY <2>1, <2>2
<1> QED BY <1>1, <1>2 DEF DataCallFails

(* Only one emergency session there is can be with ds.                     *)
LEMMA WithDs ==
  ASSUME NEW c, Wants(c, "ds")
  PROVE  c \in EsClients
BY DEF Wants, Home

LEMMA OnlyOne ==
  ASSUME AllSettled, OneEmergencySession,
         NEW c \in Clients, c \in Subscribers("ds") \/ Asking(c, "ds"),
         NEW d \in Clients, d \in Subscribers("ds") \/ Asking(d, "ds")
  PROVE  c = d
<1>1. ASSUME NEW x \in Clients, x \in Subscribers("ds") \/ Asking(x, "ds")
      PROVE  x \in EsClients /\ client[x] # "absent"
  <2>1. Alone(x) /\ "ds" \in Machines
    BY DEF Alone, Machines
  <2>2. Wants(x, "ds") /\ Known(x)
    BY <1>1, <2>1 DEF AllSettled, Settled
  <2> QED BY <2>2, WithDs DEF Known
<1>2. c \in EsClients /\ client[c] # "absent" /\ d \in EsClients /\ client[d] # "absent"
  BY <1>1
<1> QED BY <1>2 DEF OneEmergencySession

LEMMA HeadAsks ==
  ASSUME QueueInv, NEW c, NEW m, Head(queue) = Request(c, m)
  PROVE  Asking(c, m)
<1>1. Len(queue) \in Nat \ {0} /\ queue[1] = Head(queue)
  BY EmptySeq, LenProperties DEF QueueInv
<1> QED BY <1>1 DEF Asking

LEMMA SubscribePosts ==
  ASSUME QueueInv, MachineInv, AllSettled,
         NEW m \in Machines, NEW d \in Clients, Head(queue) = Request(d, m), Subscribe(m, d),
         NEW c \in Clients, Alone(c)
  PROVE  PostsNot(c) \/ FallsBack(c)
<1>1. CASE queue' = rest
  BY <1>1, RestOnly
<1>2. ASSUME m = "ds", NEW h \in Heads(m, d), DataCallFails(h), UNCHANGED client,
             Become(m, "Released", WithSubscriber(m, d), inactive[m])
      PROVE  PostsNot(c) \/ FallsBack(c)
  <2>1. h \in Clients
    BY <1>2 DEF Heads, MachineInv
  <2>2. SUFFICES ASSUME h = c, queue' = Append(rest, Request(c, "agnss")), UNCHANGED timers
                 PROVE  FallsBack(c)
    BY <1>2, <2>1, CallFailing
  <2>3. Asking(d, "ds") /\ (c = d \/ c \in Subscribers("ds"))
    BY <1>2, <2>2, HeadAsks DEF Heads, Subscribers
  <2>4. c \in EsClients
    <3>1. Wants(c, "ds")
      BY <2>3 DEF AllSettled, Settled, Machines
    <3> QED BY <3>1, WithDs
  <2>5. c = d
    BY <2>3, <2>4, OnlyOne DEF Alone
  <2>6. /\ state'["ds"] = "Released"
        /\ \A n \in Framework : active'[n] = active[n] /\ inactive'[n] = inactive[n] /\ state'[n] = state[n]
    <3>1. \A n \in Framework : n \in Machines \ {m}
      BY <1>2 DEF Framework, Machines
    <3> QED BY <1>2, <3>1, Machine
  <2> QED BY <1>2, <2>2, <2>4, <2>5, <2>6 DEF FallsBack
<1>3. SubscribeReleased(m, d) =>
        \/ queue' = rest
        \/ /\ m = "ds" /\ UNCHANGED client
           /\ \E h \in Heads(m, d) : DataCallFails(h)
           /\ Become(m, "Released", WithSubscriber(m, d), inactive[m])
  BY DEF SubscribeReleased, Call
<1>4. SubscribeRefused(m, d) \/ SubscribeWaits(m, d) \/ SubscribeAcquired(m, d) => queue' = rest
  BY DEF SubscribeRefused, SubscribeWaits, SubscribeAcquired, NoCall
<1> QED BY <1>1, <1>2, <1>3, <1>4 DEF Subscribe

LEMMA ReleasePosts ==
  ASSUME QueueInv, NEW d, HandleRelease(d), NEW c
  PROVE  PostsNot(c)
<1>1. queue' = rest
  BY DEF HandleRelease, Unsubscribe, UnsubscribeReleased, UnsubscribeHeld, Leave, NoCall, Call
<1> QED BY <1>1, RestOnly

(* Falling back when ds has dropped its subscribers.                       *)
LEMMA DropPosts ==
  ASSUME QueueInv, MachineInv, ClientInv, AllSettled, state["ds"] = "Pending", DropAll("ds", "denied"),
         NEW c \in Clients, Alone(c)
  PROVE  PostsNot(c) \/ FallsBack(c)
<1>1. PICK hs \in SetToSeqs(Subscribers("ds")) : FallBack(hs) /\ UNCHANGED <<timers, calls>>
  BY DEF DropAll
<1>2. Subscribers("ds") \subseteq Clients /\ "ds" \in Machines
  BY DEF Subscribers, MachineInv, Machines
<1>3. IsFiniteSet(Subscribers("ds")) /\ Cardinality(Subscribers("ds")) \in Nat
  BY <1>2, AgpsAssumption, FS_Subset, FS_CardinalityType DEF AgpsAssumption
<1>4. hs \in [1 .. Cardinality(Subscribers("ds")) -> Subscribers("ds")]
  BY <1>1 DEF SetToSeqs
<1>5. hs \in Seq(Clients)
  <2>1. hs \in [1 .. Cardinality(Subscribers("ds")) -> Clients]
    BY <1>2, <1>4
  <2> QED BY <1>3, <2>1, SeqDef
<1>6. CASE c \notin Subscribers("ds")
  <2>1. \A k \in 1 .. Len(hs) : hs[k] # c
    BY <1>3, <1>4, <1>5, <1>6
  <2> QED BY <1>1, <1>5, <2>1, FallBackOthers
<1>7. CASE c \in Subscribers("ds")
  <2>1. c \in EsClients
    <3>1. Wants(c, "ds")
      BY <1>2, <1>7 DEF AllSettled, Settled
    <3> QED BY <3>1, WithDs
  <2>2. Subscribers("ds") = {c}
    BY <1>2, <1>7, <2>1, OnlyOne DEF Alone
  <2>3. Cardinality(Subscribers("ds")) = 1
    BY <2>2, FS_Singleton
  <2>4. hs = <<c>>
    <3>1. hs \in [1 .. 1 -> {c}]
      BY <1>4, <2>2, <2>3
    <3>2. Len(hs) = 1 /\ hs[1] = c
      BY <1>5, <3>1
    <3> QED BY <1>5, <3>2
  <2>5. queue' = Append(rest, Request(c, "agnss"))
    BY <1>1, <2>4, FallBackOne
  <2>6. Notify("ds", Subscribers("ds"), "denied") /\ Become("ds", "Released", {}, {})
    BY DEF DropAll
  <2>7. client' = client
    <3>1. client' = [x \in Clients |-> IF x \in {} THEN Told(x, "denied") ELSE client[x]]
      BY <2>6 DEF Notify, TellAll
    <3> QED BY <3>1 DEF ClientInv
  <2>8. /\ state'["ds"] = "Released"
        /\ \A n \in Framework : active'[n] = active[n] /\ inactive'[n] = inactive[n] /\ state'[n] = state[n]
    <3>1. \A n \in Framework : n \in Machines \ {"ds"}
      BY DEF Framework, Machines
    <3> QED BY <1>2, <2>6, <3>1, Machine
  <2> QED BY <1>1, <1>7, <2>1, <2>5, <2>7, <2>8 DEF FallsBack
<1> QED BY <1>6, <1>7

LEMMA EventPosts ==
  ASSUME QueueInv, MachineInv, ClientInv, AllSettled,
         NEW m \in Machines, NEW e, HandleEvent(m, e), NEW c \in Clients, Alone(c)
  PROVE  PostsNot(c) \/ FallsBack(c)
<1>1. CASE queue' = rest
  BY <1>1, RestOnly
<1>2. ASSUME NEW status, CloseComplete(m, status)
      PROVE  PostsNot(c) \/ FallsBack(c)
  <2>1. \/ queue' = rest
        \/ m = "ds" /\ \E h \in active[m] : DataCallFails(h)
    BY <1>2 DEF CloseComplete, NoCall, Call
  <2>2. ASSUME m = "ds", NEW h \in active[m], DataCallFails(h)
        PROVE  PostsNot(c)
    <3>1. h \in Clients
      BY DEF MachineInv
    <3>2. h # c
      <4>1. SUFFICES ASSUME h = c PROVE FALSE
        OBVIOUS
      <4>2. Wants(c, "ds")
        BY <2>2, <4>1 DEF AllSettled, Settled, Machines, Subscribers
      <4>3. Tokens(c)
        BY <4>2, WithDs DEF AllSettled
      <4> QED BY <1>2, <2>2, <4>3 DEF Tokens, CloseComplete
    <3> QED BY <2>2, <3>1, <3>2, CallFailing
  <2> QED BY <1>1, <2>1, <2>2
<1>3. ASSUME NEW status, DropAll(m, status), ~(m = "ds" /\ status = "denied")
      PROVE  PostsNot(c)
  <2>1. queue' = rest
    BY <1>3 DEF DropAll, NoCall
  <2> QED BY <2>1, RestOnly
<1>4. CASE m = "ds" /\ state["ds"] = "Pending" /\ DropAll("ds", "denied")
  BY <1>4, DropPosts
<1>5. CASE Ignore
  BY <1>5, RestOnly DEF Ignore, NoCall
<1>6. CASE Granted(m)
  BY <1>5, <1>6, RestOnly DEF Granted, NoCall
<1>7. CASE Denied(m)
  <2>1. CASE state[m] = "Pending" /\ DropAll(m, "denied")
    BY <1>3, <1>4, <2>1
  <2> QED BY <1>2, <1>5, <1>7, <2>1 DEF Denied
<1>8. CASE Released(m)
  <2>1. CASE DropAll(m, "released")
    BY <1>3, <2>1
  <2> QED BY <1>2, <1>5, <1>7, <1>8, <2>1 DEF Released
<1> QED BY <1>6, <1>7, <1>8 DEF HandleEvent

(* c's messages after a handler.                                           *)
LEMMA QueueMoves ==
  ASSUME QueueInv, NEW c \in Clients, Settled(c), c \in EsClients => Tokens(c), PostsNot(c) \/ FallsBack(c)
  PROVE  /\ \A m \in Machines : Asking(c, m)' => (Asking(c, m) /\ ~Heard(c)) \/ (FallsBack(c) /\ m = "agnss")
         /\ Going(c)' => Going(c) /\ ~Heard(c)
         /\ Single(c)' /\ Before(c)'
<1>1. CASE PostsNot(c)
  BY <1>1, MovingUp DEF PostsNot, QueueInv, Settled
<1>2. CASE FallsBack(c)
  <2>1. /\ rest \in Seq(Messages) /\ Len(rest) = Len(queue) - 1
        /\ \A i \in 1 .. Len(rest) : rest[i] = queue[i + 1]
        /\ Len(queue) \in Nat \ {0} /\ queue[1] = Head(queue)
    BY HeadTailProperties, EmptySeq, LenProperties DEF QueueInv, rest
  <2>2. 1 \in 1 .. Len(queue) /\ \A i \in 1 .. Len(rest) : i + 1 \in 1 .. Len(queue) /\ i + 1 # 1 /\ ~(i + 1 < 1)
    BY <2>1
  <2>3. "ds" \in Machines /\ "agnss" \in Machines /\ Request(c, "agnss") \in Messages
    BY DEF Machines, Framework, Messages
  <2>4. ASSUME NEW i \in 1 .. Len(rest), NEW m \in Machines, rest[i] = Request(c, m)
        PROVE  FALSE
    <3>1. i + 1 \in 1 .. Len(queue) /\ queue[i + 1] = Request(c, m)
      BY <2>1, <2>2, <2>4
    <3>2. Head(queue) # Request(c, "ds")
      BY <2>1, <2>2, <2>3, <3>1 DEF Settled, Single
    <3>3. Asking(c, m) /\ state["ds"] = "Pending"
      BY <1>2, <3>1, <3>2 DEF Asking, FallsBack
    <3> QED BY <1>2, <3>3 DEF FallsBack, Tokens
  <2>5. queue' = Append(rest, Request(c, "agnss"))
    BY <1>2 DEF FallsBack
  <2>6. /\ \A m \in Machines : Asking(c, m)' => m = "agnss"
        /\ Going(c)' => \E i \in 1 .. Len(rest) : rest[i] = Release(c)
        /\ Single(c)' /\ Before(c)'
    <3> HIDE DEF rest
    <3> QED BY <2>1, <2>3, <2>4, <2>5, PostingOne
  <2>7. ASSUME NEW i \in 1 .. Len(rest), rest[i] = Release(c)
        PROVE  Going(c) /\ ~Heard(c)
    <3>1. i + 1 \in 1 .. Len(queue) /\ queue[i + 1] = Release(c)
      BY <2>1, <2>2, <2>7
    <3>2. ~Heard(c)
      BY <2>1, <2>2, <3>1 DEF Settled, Before, Heard
    <3> QED BY <3>1, <3>2 DEF Going
  <2> QED BY <1>2, <2>6, <2>7
<1> QED BY <1>1, <1>2

(* An emergency session is with agnss or ds only.                          *)
LEMMA EsHome ==
  ASSUME NEW c \in EsClients
  PROVE  c \in Clients /\ c \in Modem /\ Home(c) = "ds" /\ \A n \in Framework : Wants(c, n) => n = "agnss"
<1>1. c \notin AtlClients
  BY AgpsAssumption DEF AgpsAssumption
<1>2. c \in Clients /\ c \in Modem
  BY DEF Modem, Clients
<1>3. Home(c) = "ds"
  <2>1. c \notin BitClients
    BY <1>2, AgpsAssumption DEF AgpsAssumption
  <2> QED BY <1>1, <2>1 DEF Home
<1>4. \A n \in Framework : Wants(c, n) => n = "agnss"
  BY <1>3 DEF Wants, Framework
<1> QED BY <1>2, <1>3, <1>4
LEMMA SettledMoves ==
  ASSUME QueueInv, MachineInv, NEW c \in Clients, Settled(c), c \in EsClients => Tokens(c),
         Lists(c), Tells(c), PostsNot(c) \/ FallsBack(c)
  PROVE  Settled(c)'
<1>1. /\ \A m \in Machines : Asking(c, m)' => (Asking(c, m) /\ ~Heard(c)) \/ (FallsBack(c) /\ m = "agnss")
      /\ Going(c)' => Going(c) /\ ~Heard(c)
      /\ Single(c)' /\ Before(c)'
  BY QueueMoves
<1>2. \A m : Head(queue) = Request(c, m) => Asking(c, m)
  BY HeadAsks
<1>3. Framework \subseteq Machines /\ "ds" \in Machines /\ Machines \subseteq Framework \cup {"ds"} /\ "agnss" \in Framework
  BY DEF Machines, Framework
<1>4. FallsBack(c) => Asking(c, "ds") \/ c \in Subscribers("ds")
  BY <1>2 DEF FallsBack
<1>5. FallsBack(c) => c \in EsClients /\ c \in Modem
  BY EsHome DEF FallsBack
<1>6. \A m \in Machines : c \in Subscribers(m)' => c \in Subscribers(m) \/ (Asking(c, m) /\ Heard(c))
  BY <1>2 DEF Lists, Heard
<1>7. ASSUME NEW m \in Machines, c \in Subscribers(m)' \/ Asking(c, m)'
      PROVE  Wants(c, m)' /\ Known(c)'
  <2>1. Known(c)
    BY <1>1, <1>3, <1>4, <1>6, <1>7 DEF Settled
  <2>2. Wants(c, m)
    <3>1. CASE FallsBack(c) /\ m = "agnss"
      BY <1>5, <3>1 DEF Wants
    <3> QED BY <1>1, <1>6, <1>7, <3>1 DEF Settled
  <2>3. ASSUME Closes(c), c \notin Modem
        PROVE  FALSE
    <3>1. c \notin Subscribers(m)'
      BY <2>3 DEF Closes
    <3>2. Asking(c, m) /\ ~Heard(c)
      BY <1>1, <1>5, <1>7, <2>3, <3>1
    <3>3. PICK n \in Machines : c \in Subscribers(n)
      BY <2>3, <3>2 DEF Closes
    <3>4. n \in Framework
      BY <2>3, <3>3, OwnMachine DEF Settled, Framework
    <3> QED BY <3>2, <3>3, <3>4 DEF Settled
  <2>4. Known(c)'
    BY <2>1, <2>3 DEF Known, Tells, Closes, Opens
  <2> QED BY <2>2, <2>4 DEF Wants
<1>8. ASSUME NEW m \in Machines, Asking(c, m)'
      PROVE  client'[c] # "open" /\ \A n \in Framework : c \notin Subscribers(n)'
  <2>1. CASE Asking(c, m) /\ ~Heard(c)
    <3>1. client[c] # "open" /\ \A n \in Framework : c \notin Subscribers(n)
      BY <2>1 DEF Settled
    <3>2. \A n \in Framework : c \notin Subscribers(n)'
      BY <1>3, <1>6, <2>1, <3>1
    <3>3. ~Opens(c)
      <4>1. SUFFICES ASSUME NEW k \in Machines, c \in active[k], state[k] = "Pending" PROVE FALSE
        BY <2>1 DEF Opens, Heard
      <4>2. c \in Subscribers(k) /\ k = "ds"
        BY <1>3, <3>1, <4>1 DEF Subscribers
      <4>3. c \in EsClients
        BY <4>2, WithDs DEF Settled
      <4> QED BY <2>1, <4>1, <4>2, <4>3 DEF Tokens
    <3> QED BY <3>1, <3>2, <3>3 DEF Tells, Closes
  <2>2. CASE FallsBack(c)
    <3>1. client[c] # "open" /\ \A n \in Framework : c \notin Subscribers(n)
      <4>1. CASE Asking(c, "ds")
        BY <1>3, <4>1 DEF Settled
      <4>2. CASE state["ds"] = "Pending"
        <5>1. c \notin Subscribers("agnss") /\ client[c] # "open"
          BY <1>5, <2>2, <4>2 DEF Tokens
        <5> QED BY <1>3, <1>5, <2>2, <5>1, EsHome DEF Settled
      <4> QED BY <1>2, <2>2, <4>1, <4>2 DEF FallsBack
    <3> QED BY <2>2, <3>1 DEF FallsBack, Subscribers
  <2> QED BY <1>1, <1>8, <2>1, <2>2
<1>9. Going(c)' => client'[c] \notin {"absent", "new"}
  BY <1>1 DEF Settled, Tells, Closes, Opens
<1>10. ASSUME NEW n \in Framework, c \in active'[n], client'[c] = "open" \/ Going(c)', state'[n] # "Acquired"
       PROVE  FALSE
  <2>1. state[n] # "Acquired" /\ (c \in active[n] \/ Head(queue) = Request(c, n))
    BY <1>10 DEF Lists
  <2>2. ~Going(c)'
    BY <1>1, <2>1 DEF Settled, Heard, Machines
  <2>3. client[c] # "open"
    BY <1>2, <1>3, <2>1 DEF Settled
  <2>4. PICK k \in Machines : state'[k] = "Acquired" /\ (Head(queue) = Request(c, k) \/ (c \in active[k] /\ state[k] = "Pending"))
    BY <1>10, <2>2, <2>3 DEF Tells, Closes, Opens
  <2>5. k # n
    BY <1>10, <2>4
  <2>6. CASE Head(queue) = Request(c, k)
    <3>1. c \notin Subscribers(n)
      BY <1>2, <2>6 DEF Settled
    <3>2. Head(queue) = Request(c, n)
      BY <2>1, <3>1 DEF Subscribers
    <3> QED BY <2>5, <2>6, <3>2, Kinds
  <2>7. CASE c \in active[k] /\ state[k] = "Pending"
    <3>1. c \in Subscribers(k) /\ Wants(c, k)
      BY <2>7 DEF Settled, Subscribers
    <3>2. CASE Head(queue) = Request(c, n)
      <4>1. Asking(c, n) /\ n \in Machines
        BY <1>2, <1>3, <3>2
      <4>2. k = "ds"
        BY <1>3, <3>1, <4>1 DEF Settled
      <4>3. c \in EsClients
        BY <3>1, <4>2, WithDs
      <4> QED BY <2>7, <4>1, <4>2, <4>3 DEF Tokens
    <3>3. CASE c \in active[n]
      <4>1. c \in Subscribers(n) /\ Wants(c, n)
        BY <1>3, <3>3 DEF Settled, Subscribers
      <4>2. c \in EsClients
        BY <2>5, <3>1, <4>1 DEF Wants
      <4>3. n = "agnss" /\ k = "ds"
        BY <1>3, <2>5, <3>1, <4>1, <4>2, EsHome
      <4> QED BY <2>7, <4>1, <4>2, <4>3 DEF Tokens
    <3> QED BY <2>1, <3>2, <3>3
  <2> QED BY <2>4, <2>6, <2>7
<1> QED BY <1>1, <1>7, <1>8, <1>9, <1>10 DEF Settled

(* What a handler does to ds and its timer: it starts nothing ...          *)
DsKeeps ==
  /\ timers' = timers
  /\ state'["ds"] = "Pending" => state["ds"] = "Pending"
  /\ state'["ds"] = "Releasing" => active'["ds"] = {}
  /\ state["ds"] = "Released" => state'["ds"] = "Released"
(* ... or it tries d's data call.                                          *)
DsTries(d) ==
  /\ Head(queue) = Request(d, "ds") /\ state["ds"] = "Released"
  /\ UNCHANGED client
  /\ \A m \in Framework : Subscribers(m)' = Subscribers(m)
  /\ \/ state'["ds"] = "Pending" /\ timers' = timers
     \/ state'["ds"] = "Released" /\ timers' \in {timers, timers + 1}
DsActs == DsKeeps \/ \E d \in EsClients : DsTries(d)

(* A machine other than ds leaves it alone.                                *)
LEMMA DsOther ==
  ASSUME MachineInv, state["ds"] = "Releasing" => active["ds"] = {}, UNCHANGED timers,
         \/ UNCHANGED machineVars
         \/ \E m \in Machines \ {"ds"} : \E s, a, i : Become(m, s, a, i)
  PROVE  DsKeeps
<1>1. "ds" \in Machines
  BY DEF Machines
<1>2. state'["ds"] = state["ds"] /\ active'["ds"] = active["ds"]
  BY <1>1, Machine DEF machineVars
<1> QED BY <1>2 DEF DsKeeps

(* ds becomes something it has not asked for.                              *)
LEMMA DsBecomes ==
  ASSUME MachineInv, UNCHANGED timers, NEW s, NEW a, NEW i, Become("ds", s, a, i),
         s = "Pending" => state["ds"] = "Pending",
         s = "Releasing" => a = {},
         state["ds"] = "Released" => s = "Released"
  PROVE  DsKeeps
<1>1. state'["ds"] = s /\ active'["ds"] = a
  BY Machine DEF Machines
<1> QED BY <1>1 DEF DsKeeps

LEMMA SubscribeDs ==
  ASSUME QueueInv, MachineInv, ClientInv, AllSettled, OneEmergencySession,
         state["ds"] = "Releasing" => active["ds"] = {},
         NEW m \in Machines, NEW d \in Clients, Head(queue) = Request(d, m), Subscribe(m, d)
  PROVE  DsActs
<1>1. CASE m # "ds"
  <2>1. UNCHANGED timers
    BY <1>1 DEF Subscribe, SubscribeRefused, SubscribeReleased, SubscribeWaits, SubscribeAcquired, NoCall, Call
  <2>2. UNCHANGED machineVars \/ \E s, a, i : Become(m, s, a, i)
    BY DEF Subscribe, SubscribeRefused, SubscribeReleased, SubscribeWaits, SubscribeAcquired
  <2> QED BY <1>1, <2>1, <2>2, DsOther DEF DsActs
<1>2. CASE m = "ds"
  <2>1. Asking(d, "ds")
    BY <1>2, HeadAsks
  <2>2. d \in EsClients
    BY <2>1, WithDs DEF AllSettled, Settled, Alone, Machines
  <2>3. state["ds"] = "Released"
    BY <2>1, <2>2 DEF AllSettled, Tokens, Alone, Machines
  <2>4. SubscribeReleased("ds", d)
    BY <1>2, <2>3 DEF Subscribe, SubscribeRefused, Refused, SubscribeWaits, SubscribeAcquired
  <2>5. PICK s : /\ Become("ds", s, WithSubscriber("ds", d), inactive["ds"])
                 /\ \/ s = "Pending" /\ timers' = timers
                    \/ s = "Released" /\ timers' \in {timers, timers + 1}
    BY <2>4 DEF SubscribeReleased, Call, DataCallFails
  <2>6. /\ state'["ds"] = s
        /\ \A n \in Framework : Subscribers(n)' = Subscribers(n)
    <3>1. "ds" \in Machines /\ \A n \in Framework : n \in Machines \ {"ds"}
      BY DEF Framework, Machines
    <3> QED BY <2>5, <3>1, Machine
  <2>7. UNCHANGED client
    BY <2>4 DEF SubscribeReleased
  <2>8. DsTries(d)
    BY <1>2, <2>3, <2>5, <2>6, <2>7 DEF DsTries
  <2> QED BY <2>2, <2>8 DEF DsActs
<1> QED BY <1>1, <1>2

LEMMA ReleaseDs ==
  ASSUME MachineInv, state["ds"] = "Releasing" => active["ds"] = {}, NEW d, HandleRelease(d)
  PROVE  DsKeeps
<1>1. UNCHANGED timers
  BY DEF HandleRelease, Unsubscribe, UnsubscribeReleased, UnsubscribeHeld, Leave, NoCall, Call
<1>2. CASE UNCHANGED machineVars
  BY <1>1, <1>2, DsOther
<1>3. ASSUME NEW m \in Machines, NEW a, NEW i, Leave(m, a, i), state[m] # "Released", a \subseteq active[m]
      PROVE  DsKeeps
  <2>1. CASE m # "ds"
    BY <1>1, <1>3, <2>1, DsOther DEF Leave
  <2>2. CASE m = "ds"
    <3>1. PICK s : /\ Become("ds", s, a, i)
                   /\ \/ s = state["ds"] /\ (a # {} \/ state["ds"] = "Releasing")
                      \/ s \in {"Released", "Releasing"} /\ a = {}
      BY <1>3, <2>2 DEF Leave
    <3>2. s = "Releasing" => a = {}
      BY <1>3, <2>2, <3>1
    <3>3. s = "Pending" => state["ds"] = "Pending"
      BY <3>1
    <3> QED BY <1>1, <1>3, <2>2, <3>1, <3>2, <3>3, DsBecomes
  <2> QED BY <2>1, <2>2
<1>4. \/ UNCHANGED machineVars
      \/ \E m \in Machines : \E i : Leave(m, active[m] \ {d}, i) /\ state[m] # "Released"
  BY DEF HandleRelease, Unsubscribe, UnsubscribeReleased, UnsubscribeHeld
<1> QED BY <1>2, <1>3, <1>4

LEMMA EventDs ==
  ASSUME MachineInv, state["ds"] = "Releasing" => active["ds"] = {},
         NEW m \in Machines, NEW e, HandleEvent(m, e)
  PROVE  DsKeeps
<1>1. CASE Ignore
  BY <1>1, DsOther DEF Ignore, NoCall
<1>2. ASSUME NEW status, DropAll(m, status)
      PROVE  DsKeeps
  <2>1. UNCHANGED timers /\ Become(m, "Released", {}, {})
    BY <1>2 DEF DropAll, NoCall
  <2>2. CASE m # "ds"
    BY <2>1, <2>2, DsOther
  <2>3. CASE m = "ds"
    BY <2>1, <2>3, DsBecomes
  <2> QED BY <2>2, <2>3
<1>3. ASSUME NEW status, CloseComplete(m, status)
      PROVE  DsKeeps
  <2>1. CASE m # "ds"
    <3>1. UNCHANGED timers /\ \E s : Become(m, s, active[m], {})
      BY <1>3, <2>1 DEF CloseComplete, NoCall, Call
    <3> QED BY <2>1, <3>1, DsOther
  <2>2. CASE m = "ds"
    <3>1. active["ds"] = {} /\ state["ds"] = "Releasing"
      BY <1>3, <2>2 DEF CloseComplete
    <3>2. UNCHANGED timers /\ Become("ds", "Released", {}, {})
      BY <1>3, <2>2, <3>1 DEF CloseComplete, NoCall
    <3> QED BY <3>2, DsBecomes
  <2> QED BY <2>1, <2>2
<1>4. CASE state[m] = "Pending" /\ Granted(m)
  <2>1. UNCHANGED timers /\ Become(m, "Acquired", active[m], inactive[m])
    BY <1>4 DEF Granted, NoCall
  <2>2. CASE m # "ds"
    BY <2>1, <2>2, DsOther
  <2>3. CASE m = "ds"
    BY <1>4, <2>1, <2>3, DsBecomes
  <2> QED BY <2>2, <2>3
<1>5. Granted(m) => Ignore \/ state[m] = "Pending"
  BY DEF Granted
<1>6. Denied(m) => Ignore \/ DropAll(m, "denied") \/ CloseComplete(m, "denied")
  BY DEF Denied
<1>7. Released(m) => Ignore \/ Denied(m) \/ DropAll(m, "released") \/ CloseComplete(m, "released")
  BY DEF Released
<1> QED BY <1>1, <1>2, <1>3, <1>4, <1>5, <1>6, <1>7 DEF HandleEvent

LEMMA EngineUpDs ==
  ASSUME MachineInv, state["ds"] = "Releasing" => active["ds"] = {}, HandleEngineUp
  PROVE  DsKeeps
<1>1. active'["ds"] = active["ds"] /\ state' = state /\ timers' = timers
  BY DEF HandleEngineUp, MachineInv, Machines, NoCall
<1> QED BY <1>1 DEF DsKeeps

(* The emergency session's request is in one place after a handler, too.   *)
LEMMA TokensMove ==
  ASSUME QueueInv, MachineInv, AllSettled, OneEmergencySession, timers \in Nat,
         NEW c \in EsClients, Lists(c), Tells(c), PostsNot(c) \/ FallsBack(c), DsActs, Settled(c)'
  PROVE  Tokens(c)'
<1>0. c \in Clients /\ Settled(c) /\ Tokens(c)
  BY EsHome DEF AllSettled, Alone
<1>1. \A m \in Machines : Asking(c, m)' => (Asking(c, m) /\ ~Heard(c)) \/ (FallsBack(c) /\ m = "agnss")
  BY <1>0, QueueMoves
<1>2. \A m : Head(queue) = Request(c, m) => Asking(c, m)
  BY HeadAsks
<1>3. "ds" \in Machines /\ "agnss" \in Machines /\ "agnss" \in Framework
      /\ Machines \subseteq Framework \cup {"ds"}
  BY DEF Machines, Framework
<1>4. CASE FallsBack(c)
  <2>1. timers = 0
    <3>1. CASE state["ds"] = "Pending"
      BY <1>0, <3>1 DEF Tokens
    <3>2. CASE Head(queue) = Request(c, "ds")
      BY <1>0, <1>2, <1>3, <3>2 DEF Tokens
    <3> QED BY <1>4, <3>1, <3>2 DEF FallsBack
  <2>2. timers' = 0 /\ state'["ds"] = "Released"
    BY <1>4, <2>1 DEF FallsBack
  <2> QED BY <2>2 DEF Tokens
<1>5. CASE DsKeeps /\ PostsNot(c)
  <2>1. \A m \in Machines : Asking(c, m)' => Asking(c, m)
    BY <1>0, <1>5, MovingUp DEF PostsNot, QueueInv, Settled
  <2>2. client'[c] = "new" => client[c] = "new"
    BY DEF Tells, Closes, Opens
  <2>3. timers' <= 1 /\ (state'["ds"] = "Releasing" => active'["ds"] = {})
    BY <1>0, <1>5 DEF Tokens, DsKeeps
  <2>4. /\ timers' > 0 \/ (\E m \in Machines : Asking(c, m)') \/ client'[c] = "new" => state'["ds"] = "Released"
        /\ (\E m \in Machines : Asking(c, m)') \/ client'[c] = "new" => timers' = 0
    BY <1>0, <1>5, <2>1, <2>2 DEF Tokens, DsKeeps
  <2>5. ASSUME timers' > 0 \/ state'["ds"] = "Pending"
        PROVE  c \notin Subscribers("agnss")' /\ client'[c] # "open"
    <3>1. timers > 0 \/ state["ds"] = "Pending"
      BY <1>5, <2>5 DEF DsKeeps
    <3>2. c \notin Subscribers("agnss") /\ client[c] # "open"
      BY <1>0, <3>1 DEF Tokens
    <3>3. \A m \in Machines : ~Asking(c, m)
      BY <1>0, <3>1 DEF Tokens
    <3>4. c \notin Subscribers("agnss")'
      BY <1>2, <1>3, <3>2, <3>3 DEF Lists
    <3>5. ~Opens(c)
      <4>1. SUFFICES ASSUME NEW k \in Machines, state'[k] = "Acquired", c \in active[k], state[k] = "Pending"
                     PROVE  FALSE
        BY <1>2, <3>3 DEF Opens
      <4>2. c \in Subscribers(k) /\ Wants(c, k)
        BY <1>0, <4>1 DEF Settled, Subscribers
      <4>3. k = "ds"
        BY <1>3, <3>2, <4>2, EsHome
      <4>4. timers > 0
        BY <1>5, <2>5, <4>1, <4>3 DEF DsKeeps
      <4> QED BY <1>0, <4>1, <4>3, <4>4 DEF Tokens
    <3> QED BY <3>2, <3>4, <3>5 DEF Tells, Closes
  <2> QED BY <2>3, <2>4, <2>5 DEF Tokens
<1>6. ASSUME NEW d \in EsClients, DsTries(d), PostsNot(c)
      PROVE  Tokens(c)'
  <2>1. d \in Clients /\ Asking(d, "ds") /\ Settled(d) /\ Tokens(d)
    BY <1>6, HeadAsks, EsHome DEF DsTries, AllSettled, Alone
  <2>2. timers = 0 /\ client[d] # "absent"
    BY <1>3, <2>1 DEF Tokens, Settled, Known
  <2>3. /\ timers' <= 1 /\ state'["ds"] # "Releasing"
        /\ timers' > 0 => state'["ds"] = "Released"
    BY <1>6, <2>2 DEF DsTries
  <2>4. client' = client
    BY <1>6 DEF DsTries
  <2>5. CASE c = d
    <3>1. \A m \in Machines : ~Asking(c, m)'
      <4>1. Heard(c)
        BY <1>3, <1>6, <2>5 DEF DsTries, Heard
      <4> QED BY <1>0, <1>6, <4>1, MovingUp DEF PostsNot, QueueInv, Settled
    <3>2. client[c] # "new" /\ client[c] # "open"
      BY <1>0, <1>3, <2>1, <2>5 DEF Settled, Known
    <3>3. c \notin Subscribers("agnss")'
      BY <1>0, <1>3, <1>6, <2>1, <2>5 DEF Settled, DsTries
    <3> QED BY <2>3, <2>4, <3>1, <3>2, <3>3 DEF Tokens
  <2>6. CASE c # d
    <3>1. client[c] = "absent"
      BY <2>2, <2>6 DEF OneEmergencySession
    <3>2. \A m \in Machines : ~Asking(c, m)' /\ c \notin Subscribers(m)'
      BY <2>4, <3>1 DEF Settled, Known
    <3> QED BY <1>3, <2>3, <2>4, <3>1, <3>2 DEF Tokens
  <2> QED BY <2>5, <2>6
<1> QED BY <1>4, <1>5, <1>6 DEF DsActs

(* A client that is there stays there.                                     *)
LEMMA StaysThere ==
  ASSUME Inv, [Next]_vars, NEW c \in Clients, client[c] # "absent"
  PROVE  client'[c] # "absent"
<1>0. ClientInv
  BY DEF Inv, RestInv, ClientInv
<1>1. ASSUME NEW S, NEW status, TellAll(S, status)
      PROVE  client'[c] # "absent"
  BY <1>1 DEF TellAll, Told
<1>2. ASSUME NEW m, NEW S, NEW status, Notify(m, S, status)
      PROVE  client'[c] # "absent"
  <2>1. \E T : TellAll(T, status)
    BY <1>2 DEF Notify
  <2> QED BY <1>1, <2>1
<1>3. CASE client' = client
  BY <1>3
<1>4. ASSUME NEW m, NEW d, Subscribe(m, d)
      PROVE  client'[c] # "absent"
  BY <1>1, <1>2, <1>3, <1>4 DEF Subscribe, SubscribeRefused, SubscribeReleased, SubscribeWaits, SubscribeAcquired
<1>5. ASSUME NEW d, HandleRelease(d)
      PROVE  client'[c] # "absent"
  BY <1>1, <1>2, <1>5 DEF HandleRelease, Unsubscribe, UnsubscribeReleased, UnsubscribeHeld
<1>6. ASSUME NEW m, NEW e, HandleEvent(m, e)
      PROVE  client'[c] # "absent"
  <2>1. CASE Ignore
    BY <1>3, <2>1 DEF Ignore
  <2>2. ASSUME NEW st, DropAll(m, st) \/ CloseComplete(m, st)
        PROVE  client'[c] # "absent"
    BY <1>2, <2>2 DEF DropAll, CloseComplete
  <2>3. CASE Granted(m)
    BY <1>2, <2>1, <2>3 DEF Granted
  <2>4. CASE Denied(m)
    BY <2>1, <2>2, <2>4 DEF Denied
  <2>5. CASE Released(m)
    BY <2>1, <2>2, <2>4, <2>5 DEF Released
  <2> QED BY <1>6, <2>3, <2>4, <2>5 DEF HandleEvent
<1>7. CASE Handle
  BY <1>3, <1>4, <1>5, <1>6, <1>7 DEF Handle, HandleEngineUp
<1>8. CASE RetryCallback
  BY <1>3, <1>8 DEF RetryCallback
<1>9. ASSUME NEW d \in Clients, ClientRequests(d) \/ ClientReleases(d)
      PROVE  client'[c] # "absent"
  BY <1>0, <1>9 DEF ClientRequests, ClientReleases, ClientInv
<1>10. CASE ModemRestarts
  BY <1>10 DEF ModemRestarts
<1>11. ASSUME NEW m \in Machines, TakeCall(m) \/ OpenEnds(m) \/ ConnectionLost(m)
       PROVE  client'[c] # "absent"
  BY <1>3, <1>11 DEF TakeCall, OpenEnds, ConnectionLost, Connect
<1>12. CASE UNCHANGED vars
  BY <1>3, <1>12 DEF vars
<1> QED BY <1>7, <1>8, <1>9, <1>10, <1>11, <1>12 DEF Next

LEMMA StaysAlone ==
  ASSUME Inv, [Next]_vars
  PROVE  /\ OneEmergencySession' => OneEmergencySession
         /\ \A c \in Clients : Alone(c)' => Alone(c)
<1>1. OneEmergencySession' => OneEmergencySession
  <2>1. \A c \in EsClients : client[c] # "absent" => client'[c] # "absent"
    BY StaysThere, EsHome
  <2> QED BY <2>1 DEF OneEmergencySession
<1> QED BY <1>1 DEF Alone

(* Handling a message keeps clients settled.                               *)
LEMMA HandlerLists ==
  ASSUME Inv, Handle, NEW c
  PROVE  Lists(c)
<1> DEFINE msg == Head(queue)
<1>1. MachineInv
  BY DEF Inv
<1>2. msg \in Expected /\ msg \in Messages
  BY HeadTailProperties DEF Inv, RestInv, Expected, Handle
<1>3. CASE msg.type = "request" /\ Subscribe(msg.machine, msg.client)
  BY <1>1, <1>2, <1>3, Reading, Naming, SubscribeLists
<1>4. CASE msg.type = "release" /\ HandleRelease(msg.client)
  <2>1. UNCHANGED machineVars \/ \E m \in Machines : \E d \in Subscribers(m) : Unsubscribe(m, d)
    BY <1>4 DEF HandleRelease, Finds
  <2> QED BY <1>1, <2>1, StayLists, UnsubscribeLists
<1>5. CASE msg.type = "event" /\ HandleEvent(msg.machine, msg.event)
  BY <1>1, <1>2, <1>5, Reading, EventLists
<1>6. CASE HandleEngineUp
  BY <1>1, <1>6, EngineUpLists
<1> QED BY <1>3, <1>4, <1>5, <1>6 DEF Handle

LEMMA HandlingSettles ==
  ASSUME Inv, AllSettled, Handle
  PROVE  AllSettled'
<1> DEFINE msg == Head(queue)
<1>1. /\ MachineInv /\ ClientInv /\ timers \in Nat
      /\ Inv'
  BY Handling DEF Inv, RestInv, ClientInv
<1>2. QueueInv
  BY SeqMonotonic DEF Inv, RestInv, Expected, Handle, QueueInv
<1>3. msg \in Expected /\ msg \in Messages
  BY <1>2, HeadTailProperties DEF Inv, RestInv, Expected, QueueInv
<1>4. [Next]_vars
  BY DEF Next
<1> SUFFICES ASSUME NEW c \in Clients, Alone(c)'
             PROVE  Settled(c)' /\ (c \in EsClients => Tokens(c)')
  BY DEF AllSettled
<1>5. Alone(c) /\ Settled(c) /\ (c \in EsClients => Tokens(c) /\ OneEmergencySession)
  BY <1>1, <1>4, StaysAlone DEF AllSettled, Alone
<1>6. Heard(c) => \E n \in Machines : Asking(c, n)
  BY <1>2, HeadAsks DEF Heard
<1>7. c \in EsClients => (state["ds"] = "Releasing" => active["ds"] = {})
  BY <1>5 DEF Tokens
<1>8. /\ Tells(c) /\ (PostsNot(c) \/ FallsBack(c))
      /\ c \in EsClients => DsActs
  <2>1. CASE msg.type = "request" /\ Subscribe(msg.machine, msg.client)
    <3>1. msg = Request(msg.client, msg.machine) /\ msg.client \in Clients /\ msg.machine \in Machines
      BY <1>3, <2>1, Reading, Naming
    <3>2. \E m \in Machines, d \in Clients : Head(queue) = Request(d, m) /\ Subscribe(m, d)
      BY <2>1, <3>1
    <3> QED BY <1>1, <1>2, <1>5, <1>6, <1>7, <3>2, SubscribeTells, SubscribePosts, SubscribeDs
  <2>2. CASE msg.type = "release" /\ HandleRelease(msg.client)
    <3>1. msg = Release(msg.client) /\ msg.client \in Clients
      BY <1>3, <2>2, Reading, Naming
    <3>2. PICK d \in Clients : Head(queue) = Release(d) /\ HandleRelease(d)
      BY <2>2, <3>1
    <3> QED BY <1>1, <1>2, <1>5, <1>7, <3>2, ReleaseTells, ReleasePosts, ReleaseDs DEF DsActs
  <2>3. CASE msg.type = "event" /\ HandleEvent(msg.machine, msg.event)
    <3>1. \E m \in Machines : \E e : HandleEvent(m, e)
      BY <1>3, <2>3, Reading
    <3> QED BY <1>1, <1>2, <1>5, <1>7, <3>1, EventTells, EventPosts, EventDs DEF DsActs
  <2>4. CASE HandleEngineUp
    <3>1. client' = client /\ queue' = rest
      BY <2>4 DEF HandleEngineUp, NoCall
    <3>2. Tells(c)
      BY <3>1 DEF Tells
    <3> QED BY <1>1, <1>2, <1>7, <2>4, <3>1, <3>2, EngineUpDs, RestOnly DEF DsActs
  <2> QED BY <2>1, <2>2, <2>3, <2>4 DEF Handle
<1>9. Settled(c)'
  BY <1>1, <1>2, <1>5, <1>8, HandlerLists, SettledMoves
<1>10. c \in EsClients => Tokens(c)'
  BY <1>1, <1>2, <1>5, <1>8, <1>9, HandlerLists, TokensMove
<1> QED BY <1>9, <1>10

(* Nothing of c's is posted, and nothing handled.                          *)
LEMMA WaitingOn ==
  ASSUME queue \in Seq(Messages), NEW c, Single(c), Before(c),
         \/ queue' = queue
         \/ \E msg \in Messages : /\ queue' = Append(queue, msg)
                                  /\ msg # Release(c) /\ \A m \in Machines : msg # Request(c, m)
  PROVE  /\ \A m \in Machines : Asking(c, m)' => Asking(c, m)
         /\ Going(c)' => Going(c)
         /\ Single(c)' /\ Before(c)'
<1>1. CASE queue' = queue
  BY <1>1 DEF Asking, Going, Single, Before
<1>2. ASSUME NEW msg \in Messages, queue' = Append(queue, msg),
             msg # Release(c), \A m \in Machines : msg # Request(c, m)
      PROVE  /\ \A m \in Machines : Asking(c, m)' => Asking(c, m)
             /\ Going(c)' => Going(c)
             /\ Single(c)' /\ Before(c)'
  <2>1. /\ Len(queue) \in Nat /\ Len(queue') = Len(queue) + 1
        /\ \A i \in 1 .. Len(queue) : queue'[i] = queue[i]
        /\ queue'[Len(queue) + 1] = msg
    BY <1>2, AppendProperties, LenProperties
  <2>2. ASSUME NEW i \in 1 .. Len(queue'), NEW m \in Machines, queue'[i] = Request(c, m)
        PROVE  i \in 1 .. Len(queue) /\ queue[i] = Request(c, m)
    BY <1>2, <2>1, <2>2
  <2>3. ASSUME NEW i \in 1 .. Len(queue'), queue'[i] = Release(c)
        PROVE  i \in 1 .. Len(queue) /\ queue[i] = Release(c)
    BY <1>2, <2>1, <2>3
  <2>4. \A m \in Machines : Asking(c, m)' => Asking(c, m)
    BY <2>2 DEF Asking
  <2>5. Going(c)' => Going(c)
    BY <2>3 DEF Going
  <2>6. Single(c)'
    BY <2>2 DEF Single
  <2>7. Before(c)'
    BY <2>2, <2>3 DEF Before
  <2> QED BY <2>4, <2>5, <2>6, <2>7
<1> QED BY <1>1, <1>2

(* c is not concerned by a step that leaves the machines alone.            *)
LEMMA Unconcerned ==
  ASSUME queue \in Seq(Messages), NEW c, Settled(c), c \in EsClients => Tokens(c), UNCHANGED machineVars,
         \/ queue' = queue
         \/ \E msg \in Messages : /\ queue' = Append(queue, msg)
                                  /\ msg # Release(c) /\ \A m \in Machines : msg # Request(c, m),
         \/ client'[c] = client[c]
         \/ c \in Modem /\ client[c] \notin {"absent", "new"} /\ client'[c] = "closed",
         timers \in Nat,
         \/ timers' = timers
         \/ timers > 0 /\ timers' = timers - 1
  PROVE  Settled(c)' /\ (c \in EsClients => Tokens(c)')
<1>1. /\ \A m \in Machines : Asking(c, m)' => Asking(c, m)
      /\ Going(c)' => Going(c)
      /\ Single(c)' /\ Before(c)'
  BY WaitingOn DEF Settled
<1>2. /\ \A m : Subscribers(m)' = Subscribers(m)
      /\ active' = active /\ state' = state
  BY DEF machineVars, Subscribers
<1>3. Known(c) => Known(c)'
  BY DEF Known
<1>4. Settled(c)'
  <2>1. \A m \in Machines : c \in Subscribers(m)' \/ Asking(c, m)' => Wants(c, m)' /\ Known(c)'
    BY <1>1, <1>2, <1>3 DEF Settled, Wants
  <2>2. \A m \in Machines : Asking(c, m)' => client'[c] # "open" /\ \A n \in Framework : c \notin Subscribers(n)'
    BY <1>1, <1>2 DEF Settled
  <2>3. Going(c)' => client'[c] \notin {"absent", "new"}
    BY <1>1 DEF Settled
  <2>4. \A n \in Framework : c \in active'[n] /\ (client'[c] = "open" \/ Going(c)') => state'[n] = "Acquired"
    BY <1>1, <1>2 DEF Settled
  <2> QED BY <1>1, <2>1, <2>2, <2>3, <2>4 DEF Settled
<1>5. ASSUME c \in EsClients
      PROVE  Tokens(c)'
  <2>1. timers' <= timers /\ (timers' > 0 => timers > 0) /\ (timers = 0 => timers' = 0)
    OBVIOUS
  <2>2. client'[c] = "new" => client[c] = "new"
    OBVIOUS
  <2>3. timers' <= 1 /\ (state'["ds"] = "Releasing" => active'["ds"] = {})
    BY <1>2, <1>5, <2>1 DEF Tokens
  <2>4. /\ timers' > 0 \/ (\E m \in Machines : Asking(c, m)') \/ client'[c] = "new" => state'["ds"] = "Released"
        /\ (\E m \in Machines : Asking(c, m)') \/ client'[c] = "new" => timers' = 0
    BY <1>1, <1>2, <1>5, <2>1, <2>2 DEF Tokens
  <2>5. timers' > 0 \/ state'["ds"] = "Pending" => c \notin Subscribers("agnss")' /\ client'[c] # "open"
    BY <1>2, <1>5, <2>1 DEF Tokens
  <2> QED BY <2>3, <2>4, <2>5 DEF Tokens
<1> QED BY <1>4, <1>5

(* c's request is posted: by c, or by the timer that retries its data call.*)
LEMMA Requesting ==
  ASSUME queue \in Seq(Messages), NEW c \in Clients, Settled(c), c \in EsClients => Tokens(c),
         UNCHANGED machineVars, NEW k \in Machines, Wants(c, k), queue' = Append(queue, Request(c, k)),
         \A m \in Machines : ~Asking(c, m), \A n \in Framework : c \notin Subscribers(n),
         c \in EsClients => state["ds"] = "Released" /\ timers' = 0,
         Known(c)', client'[c] # "open"
  PROVE  Settled(c)' /\ (c \in EsClients => Tokens(c)')
<1>1. /\ \A m \in Machines : Asking(c, m)' => m = k
      /\ Single(c)' /\ Before(c)'
  <2>1. Request(c, k) \in Messages
    BY DEF Messages
  <2>2. \A i \in 1 .. Len(queue) : \A m \in Machines : queue[i] # Request(c, m)
    BY DEF Asking
  <2> QED BY <2>1, <2>2, PostingOne
<1>2. /\ \A m : Subscribers(m)' = Subscribers(m)
      /\ active' = active /\ state' = state
  BY DEF machineVars, Subscribers
<1>3. Settled(c)'
  <2>1. \A m \in Machines : c \in Subscribers(m)' \/ Asking(c, m)' => Wants(c, m)' /\ Known(c)'
    BY <1>1, <1>2 DEF Settled, Wants
  <2>2. \A n \in Framework : c \notin active'[n]
    BY <1>2 DEF Subscribers
  <2> QED BY <1>1, <1>2, <2>1, <2>2 DEF Settled, Known
<1>4. c \in EsClients => Tokens(c)'
  BY <1>2 DEF Tokens
<1> QED BY <1>3, <1>4

(* c's release is posted.                                                  *)
LEMMA Releasing ==
  ASSUME queue \in Seq(Messages), NEW c \in Clients, Settled(c), c \in EsClients => Tokens(c),
         UNCHANGED <<machineVars, timers>>, queue' = Append(queue, Release(c)),
         client[c] = "open", client'[c] = "releasing"
  PROVE  Settled(c)' /\ (c \in EsClients => Tokens(c)')
<1>1. Release(c) \in Messages /\ \A m : Release(c) # Request(c, m)
  BY Kinds DEF Messages
<1>2. /\ Len(queue) \in Nat /\ Len(queue') = Len(queue) + 1
      /\ \A i \in 1 .. Len(queue) : queue'[i] = queue[i]
      /\ queue'[Len(queue) + 1] = Release(c)
  BY <1>1, AppendProperties, LenProperties
<1>3. ASSUME NEW m \in Machines
      PROVE  \A i \in 1 .. Len(queue') : queue'[i] # Request(c, m)
  <2>1. ~Asking(c, m)
    BY DEF Settled
  <2>2. \A i \in 1 .. Len(queue) : queue[i] # Request(c, m)
    BY <2>1 DEF Asking
  <2> QED BY <1>1, <1>2, <2>2
<1>4. \A m \in Machines : ~Asking(c, m)'
  BY <1>3 DEF Asking
<1>5. Single(c)' /\ Before(c)'
  BY <1>3 DEF Single, Before
<1>6. /\ \A m : Subscribers(m)' = Subscribers(m)
      /\ active' = active /\ state' = state
  BY DEF machineVars, Subscribers
<1>7. Settled(c)'
  <2>1. \A m \in Machines : c \in Subscribers(m)' \/ Asking(c, m)' => Wants(c, m)' /\ Known(c)'
    BY <1>4, <1>6 DEF Settled, Wants, Known
  <2>2. \A n \in Framework : c \in active'[n] => state'[n] = "Acquired"
    BY <1>6 DEF Settled
  <2> QED BY <1>4, <1>5, <2>1, <2>2 DEF Settled
<1>8. c \in EsClients => Tokens(c)'
  BY <1>4, <1>6 DEF Tokens
<1> QED BY <1>7, <1>8

(* The other steps keep clients settled, too.                              *)
LEMMA OthersSettle ==
  ASSUME Inv, AllSettled, patient,
         \/ RetryCallback
         \/ \E c \in Clients : ClientRequests(c) \/ ClientReleases(c)
         \/ ModemRestarts
         \/ \E m \in Machines : TakeCall(m) \/ OpenEnds(m) \/ ConnectionLost(m)
         \/ UNCHANGED vars
  PROVE  AllSettled'
<1>0. [Next]_vars
  BY DEF Next
<1> SUFFICES ASSUME NEW c \in Clients, Alone(c)'
             PROVE  Settled(c)' /\ (c \in EsClients => Tokens(c)')
  BY DEF AllSettled
<1>1. Alone(c) /\ Settled(c) /\ (c \in EsClients => Tokens(c) /\ OneEmergencySession)
  BY <1>0, StaysAlone DEF AllSettled, Alone
<1>2. queue \in Seq(Messages) /\ timers \in Nat /\ client \in [Clients -> ClientStates]
  BY SeqMonotonic DEF Inv, RestInv, Expected
<1>3. ASSUME NEW d \in Clients, d # c
      PROVE  /\ Release(d) # Release(c) /\ \A m \in Machines : Release(d) # Request(c, m)
             /\ Release(d) \in Messages
             /\ \A n \in Machines : /\ Request(d, n) # Release(c) /\ Request(d, n) \in Messages
                                    /\ \A m \in Machines : Request(d, n) # Request(c, m)
  <2>1. Release(d) \in Messages /\ \A n \in Machines : Request(d, n) \in Messages
    BY DEF Messages
  <2>2. Release(d) # Release(c) /\ \A m : Release(d) # Request(c, m)
    BY <1>3, Kinds
  <2>3. \A n, m : Request(d, n) # Release(c) /\ Request(d, n) # Request(c, m)
    BY <1>3, Kinds
  <2> QED BY <2>1, <2>2, <2>3
<1>4. "ds" \in Machines /\ "agnss" \in Machines /\ Framework \subseteq Machines
  BY DEF Machines, Framework
<1>5. CASE RetryCallback
  <2>1. /\ timers > 0 /\ timers' = timers - 1 /\ UNCHANGED machineVars /\ client' = client
        /\ \/ \E h \in active["ds"] : queue' = Append(queue, Request(h, "ds"))
           \/ queue' = queue
    BY <1>5 DEF RetryCallback
  <2>2. CASE queue' = queue
    BY <1>1, <1>2, <2>1, <2>2, Unconcerned
  <2>3. ASSUME NEW h \in active["ds"], queue' = Append(queue, Request(h, "ds"))
        PROVE  Settled(c)' /\ (c \in EsClients => Tokens(c)')
    <3>1. h \in Clients
      BY <1>4 DEF Inv, MachineInv
    <3>2. CASE h # c
      BY <1>1, <1>2, <1>3, <1>4, <2>1, <2>3, <3>1, <3>2, Unconcerned
    <3>3. CASE h = c
      <4>1. c \in Subscribers("ds")
        BY <2>3, <3>3 DEF Subscribers
      <4>2. Wants(c, "ds") /\ Known(c)
        BY <1>1, <1>4, <4>1 DEF Settled
      <4>3. c \in EsClients
        BY <4>2, WithDs
      <4>4. /\ \A m \in Machines : ~Asking(c, m)
            /\ state["ds"] = "Released" /\ timers' = 0
            /\ c \notin Subscribers("agnss") /\ client[c] # "open"
        BY <1>1, <1>2, <2>1, <4>3 DEF Tokens
      <4>5. \A n \in Framework : c \notin Subscribers(n)
        BY <1>1, <1>4, <4>3, <4>4, EsHome DEF Settled
      <4>6. Known(c)' /\ client'[c] # "open"
        BY <2>1, <4>2, <4>4 DEF Known
      <4> QED BY <1>1, <1>2, <1>4, <2>1, <2>3, <3>3, <4>2, <4>4, <4>5, <4>6, Requesting
    <3> QED BY <3>2, <3>3
  <2> QED BY <2>1, <2>2, <2>3
<1>6. ASSUME NEW d \in Clients, ClientRequests(d)
      PROVE  Settled(c)' /\ (c \in EsClients => Tokens(c)')
  <2>1. /\ client[d] = "new" \/ (client[d] = "closed" /\ d \notin Modem)
        /\ client' = [client EXCEPT ![d] = "requested"]
        /\ queue' = Append(queue, Request(d, Home(d)))
        /\ UNCHANGED machineVars /\ timers' = timers
    BY <1>6 DEF ClientRequests
  <2>2. Home(d) \in Machines
    BY DEF Home, Machines, Framework
  <2>3. CASE d # c
    <3>1. client'[c] = client[c]
      BY <1>2, <2>1, <2>3
    <3> QED BY <1>1, <1>2, <1>3, <2>1, <2>2, <2>3, <3>1, Unconcerned
  <2>4. CASE d = c
    <3>1. ~Known(c)
      BY <2>1, <2>4 DEF Known
    <3>2. \A m \in Machines : ~Asking(c, m) /\ c \notin Subscribers(m)
      BY <1>1, <3>1 DEF Settled
    <3>3. c \in EsClients => state["ds"] = "Released" /\ timers' = 0
      BY <1>1, <2>1, <2>4, EsHome DEF Tokens
    <3>4. Known(c)' /\ client'[c] # "open"
      BY <1>2, <2>1, <2>4 DEF Known
    <3>5. Wants(c, Home(c))
      BY DEF Wants
    <3> HIDE DEF Wants
    <3> QED BY <1>1, <1>2, <1>4, <2>1, <2>2, <2>4, <3>2, <3>3, <3>4, <3>5, Requesting
  <2> QED BY <2>3, <2>4
<1>7. ASSUME NEW d \in Clients, ClientReleases(d)
      PROVE  Settled(c)' /\ (c \in EsClients => Tokens(c)')
  <2>1. /\ client[d] = "open"
        /\ client' = [client EXCEPT ![d] = "releasing"]
        /\ queue' = Append(queue, Release(d))
        /\ UNCHANGED machineVars /\ timers' = timers
    BY <1>7 DEF ClientReleases
  <2>2. CASE d # c
    <3>1. client'[c] = client[c]
      BY <1>2, <2>1, <2>2
    <3> QED BY <1>1, <1>2, <1>3, <2>1, <2>2, <3>1, Unconcerned
  <2>3. CASE d = c
    <3>1. client'[c] = "releasing"
      BY <1>2, <2>1, <2>3
    <3> QED BY <1>1, <1>2, <2>1, <2>3, <3>1, Releasing
  <2> QED BY <2>2, <2>3
<1>8. CASE ModemRestarts
  <2>1. /\ queue' = Append(queue, EngineUp) /\ UNCHANGED machineVars /\ timers' = timers
        /\ client' = [x \in Clients |-> IF x \in Modem /\ client[x] \notin {"absent", "new"} THEN "closed" ELSE client[x]]
    BY <1>8 DEF ModemRestarts
  <2>2. /\ EngineUp \in Messages /\ EngineUp # Release(c) /\ \A m \in Machines : EngineUp # Request(c, m)
    <3>1. EngineUp.type = "engine up" /\ Release(c).type = "release" /\ \A m : Request(c, m).type = "request"
      BY DEF EngineUp, Release, Request
    <3>2. EngineUp \in Messages
      BY DEF Messages
    <3>3. EngineUp # Release(c) /\ \A m : EngineUp # Request(c, m)
      BY <3>1
    <3> QED BY <3>2, <3>3
  <2>3. \/ client'[c] = client[c]
        \/ c \in Modem /\ client[c] \notin {"absent", "new"} /\ client'[c] = "closed"
    BY <2>1
  <2> QED BY <1>1, <1>2, <2>1, <2>2, <2>3, Unconcerned
<1>9. ASSUME NEW m \in Machines, TakeCall(m) \/ OpenEnds(m) \/ ConnectionLost(m)
      PROVE  Settled(c)' /\ (c \in EsClients => Tokens(c)')
  <2>1. UNCHANGED machineVars /\ client' = client /\ timers' = timers
    BY <1>9 DEF TakeCall, OpenEnds, ConnectionLost, Connect
  <2>2. queue' = queue \o <<>> \/ \E e \in Events : queue' = queue \o <<RsrcEvent(m, e)>>
    BY <1>9 DEF TakeCall, OpenEnds, ConnectionLost, Connect, Events
  <2>3. ASSUME NEW e \in Events
        PROVE  /\ RsrcEvent(m, e) \in Messages
               /\ RsrcEvent(m, e) # Release(c) /\ \A n \in Machines : RsrcEvent(m, e) # Request(c, n)
    <3>1. RsrcEvent(m, e).type = "event" /\ Release(c).type = "release" /\ \A n : Request(c, n).type = "request"
      BY DEF RsrcEvent, Release, Request
    <3>2. RsrcEvent(m, e) \in Messages
      BY DEF Messages
    <3>3. RsrcEvent(m, e) # Release(c) /\ \A n : RsrcEvent(m, e) # Request(c, n)
      BY <3>1
    <3> QED BY <3>2, <3>3
  <2>4. \A e \in Events : queue \o <<RsrcEvent(m, e)>> = Append(queue, RsrcEvent(m, e))
    BY <1>2, <2>3, AppendIsConcat
  <2>5. queue' = queue \/ \E e \in Events : queue' = Append(queue, RsrcEvent(m, e))
    BY <1>2, <2>2, <2>4, ConcatEmptySeq
  <2> QED BY <1>1, <1>2, <2>1, <2>3, <2>5, Unconcerned
<1>10. CASE UNCHANGED vars
  BY <1>1, <1>2, <1>10, Unconcerned DEF vars
<1> QED BY <1>5, <1>6, <1>7, <1>8, <1>9, <1>10

LEMMA Settling == Spec => []StepInv
<1>1. Init => StepInv
  <2> SUFFICES ASSUME Init, NEW c \in Clients
               PROVE  Settled(c) /\ Tokens(c)
    BY DEF StepInv, AllSettled
  <2>1. Len(queue) = 0 /\ \A i \in 1 .. Len(queue) : FALSE
    BY DEF Init
  <2>2. /\ \A m : ~Asking(c, m)
        /\ ~Going(c) /\ Single(c) /\ Before(c)
    BY <2>1 DEF Asking, Going, Single, Before
  <2>3. \A m \in Machines : c \notin Subscribers(m) /\ active[m] = {} /\ state[m] = "Released"
    BY DEF Init, Subscribers
  <2>4. Settled(c)
    BY <2>2, <2>3 DEF Settled, Machines
  <2>5. timers = 0 /\ "ds" \in Machines
    BY DEF Init, Machines
  <2> QED BY <2>3, <2>4, <2>5 DEF Tokens
<1>2. Inv /\ StepInv /\ [Next]_vars => StepInv'
  <2> SUFFICES ASSUME Inv, [Next]_vars, patient, AllSettled PROVE AllSettled'
    BY DEF StepInv, Next, Handle, RetryCallback, ClientRequests, ClientReleases, ModemRestarts,
           TakeCall, OpenEnds, ConnectionLost, Connect, vars
  <2> QED BY HandlingSettles, OthersSettle DEF Next
<1> QED BY <1>1, <1>2, Invariance, PTL DEF Spec

(***************************************************************************)
(* What a machine's opener has answered and the task has not handled.      *)
(***************************************************************************)

(* Message msg is an answer of m's opener.                                 *)
AnswerOf(m, msg) == \E e \in Events : msg = RsrcEvent(m, e)

(* The answers of m's opener in the queue are es, in that order.           *)
Says(m, es) ==
  /\ es \in Seq(Events)
  /\ \E f \in [1 .. Len(es) -> 1 .. Len(queue)] :
       /\ \A k \in 1 .. Len(es) : queue[f[k]] = RsrcEvent(m, es[k])
       /\ \A j \in 1 .. Len(es) : \A k \in 1 .. Len(es) : j < k => f[j] < f[k]
       /\ \A i \in 1 .. Len(queue) : AnswerOf(m, queue[i]) => \E k \in 1 .. Len(es) : f[k] = i

(* None of the messages s is an answer of m's opener.                      *)
Answerless(m, s) == \A k \in 1 .. Len(s) : ~AnswerOf(m, s[k])

LEMMA AnswersDiffer ==
  ASSUME NEW m, NEW n, NEW d, NEW e
  PROVE  RsrcEvent(m, d) = RsrcEvent(n, e) => m = n /\ d = e
BY DEF RsrcEvent

(* An opener whose answers have arrived says nothing.                      *)
LEMMA QuietSays ==
  ASSUME NEW m, NEW es, Says(m, es), Quiet(m), queue \in Seq(Messages)
  PROVE  es = <<>>
<1> SUFFICES ASSUME es # <<>> PROVE FALSE
  OBVIOUS
<1>1. Len(es) \in Nat \ {0} /\ 1 \in 1 .. Len(es)
  BY EmptySeq DEF Says
<1>2. PICK i \in 1 .. Len(queue) : queue[i] = RsrcEvent(m, es[1])
  BY <1>1 DEF Says
<1>3. es[1] \in Events
  BY <1>1, ElementOfSeq DEF Says
<1> QED BY <1>2, <1>3 DEF Quiet

LEMMA NothingSaid ==
  ASSUME NEW m, queue = <<>>
  PROVE  Says(m, <<>>)
<1>1. <<>> \in Seq(Events) /\ Len(<<>>) = 0
  BY EmptySeq
<1>2. 1 .. 0 = {}
  OBVIOUS
<1>3. [x \in {} |-> x] \in [{} -> {}]
  OBVIOUS
<1> QED BY <1>1, <1>2, <1>3 DEF Says

(* Messages that are not answers of m's opener are posted.                 *)
LEMMA SaysNoMore ==
  ASSUME NEW m, NEW es, Says(m, es), queue \in Seq(Messages),
         NEW s \in Seq(Messages), Answerless(m, s), queue' = queue \o s
  PROVE  Says(m, es)'
<1>1. /\ Len(queue) \in Nat /\ Len(s) \in Nat /\ Len(queue') = Len(queue) + Len(s)
      /\ \A i \in 1 .. Len(queue') : queue'[i] = IF i <= Len(queue) THEN queue[i] ELSE s[i - Len(queue)]
  BY ConcatProperties, LenProperties
<1>2. PICK f \in [1 .. Len(es) -> 1 .. Len(queue)] :
        /\ \A k \in 1 .. Len(es) : queue[f[k]] = RsrcEvent(m, es[k])
        /\ \A j \in 1 .. Len(es) : \A k \in 1 .. Len(es) : j < k => f[j] < f[k]
        /\ \A i \in 1 .. Len(queue) : AnswerOf(m, queue[i]) => \E k \in 1 .. Len(es) : f[k] = i
  BY DEF Says
<1>3. 1 .. Len(queue) \subseteq 1 .. Len(queue') /\ \A i \in 1 .. Len(queue) : queue'[i] = queue[i]
  BY <1>1
<1>4. f \in [1 .. Len(es) -> 1 .. Len(queue')]
  BY <1>3
<1>5. \A k \in 1 .. Len(es) : queue'[f[k]] = RsrcEvent(m, es[k])
  BY <1>2, <1>3
<1>6. ASSUME NEW i \in 1 .. Len(queue'), AnswerOf(m, queue'[i])
      PROVE  \E k \in 1 .. Len(es) : f[k] = i
  <2>1. ~(i > Len(queue))
    <3>1. ASSUME i > Len(queue)
          PROVE  i - Len(queue) \in 1 .. Len(s) /\ queue'[i] = s[i - Len(queue)]
      BY <1>1, <3>1
    <3> QED BY <1>6, <3>1 DEF Answerless
  <2>2. i \in 1 .. Len(queue)
    BY <1>1, <2>1
  <2> QED BY <1>2, <1>3, <1>6, <2>2
<1>7. \A i \in 1 .. Len(queue') : AnswerOf(m, queue'[i]) => \E k \in 1 .. Len(es) : f[k] = i
  BY <1>6
<1>8. es \in Seq(Events)
  BY DEF Says
<1> QED BY <1>2, <1>4, <1>5, <1>7, <1>8 DEF Says, AnswerOf

(* The opener answers once more.                                           *)
LEMMA SaysMore ==
  ASSUME NEW m \in Machines, NEW es, Says(m, es), queue \in Seq(Messages),
         NEW e \in Events, queue' = Append(queue, RsrcEvent(m, e))
  PROVE  Says(m, Append(es, e))'
<1> DEFINE more == Append(es, e)
<1>0. RsrcEvent(m, e) \in Messages /\ es \in Seq(Events)
  BY DEF Messages, Says
<1>1. /\ Len(queue) \in Nat /\ Len(queue') = Len(queue) + 1
      /\ \A i \in 1 .. Len(queue) : queue'[i] = queue[i]
      /\ queue'[Len(queue) + 1] = RsrcEvent(m, e)
  BY <1>0, AppendProperties, LenProperties
<1>2. /\ more \in Seq(Events) /\ Len(es) \in Nat /\ Len(more) = Len(es) + 1
      /\ \A k \in 1 .. Len(es) : more[k] = es[k]
      /\ more[Len(es) + 1] = e
  BY <1>0, AppendProperties, LenProperties
<1> HIDE DEF more
<1>3. PICK f \in [1 .. Len(es) -> 1 .. Len(queue)] :
        /\ \A k \in 1 .. Len(es) : queue[f[k]] = RsrcEvent(m, es[k])
        /\ \A j \in 1 .. Len(es) : \A k \in 1 .. Len(es) : j < k => f[j] < f[k]
        /\ \A i \in 1 .. Len(queue) : AnswerOf(m, queue[i]) => \E k \in 1 .. Len(es) : f[k] = i
  BY DEF Says
<1> DEFINE g == [k \in 1 .. Len(more) |-> IF k \in 1 .. Len(es) THEN f[k] ELSE Len(queue) + 1]
<1>4. /\ \A k \in 1 .. Len(es) : k \in 1 .. Len(more) /\ g[k] = f[k] /\ f[k] \in 1 .. Len(queue)
      /\ Len(es) + 1 \in 1 .. Len(more) /\ g[Len(es) + 1] = Len(queue) + 1
      /\ \A k \in 1 .. Len(more) : k \in 1 .. Len(es) \/ k = Len(es) + 1
  BY SMTT(60), <1>2, <1>3
<1>5. g \in [1 .. Len(more) -> 1 .. Len(queue')]
  BY <1>1, <1>4
<1> HIDE DEF g
<1>6. \A k \in 1 .. Len(more) : queue'[g[k]] = RsrcEvent(m, more[k])
  BY <1>1, <1>2, <1>3, <1>4
<1>7. \A j \in 1 .. Len(more) : \A k \in 1 .. Len(more) : j < k => g[j] < g[k]
  <2> SUFFICES ASSUME NEW j \in 1 .. Len(more), NEW k \in 1 .. Len(more), j < k PROVE g[j] < g[k]
    OBVIOUS
  <2>1. j \in 1 .. Len(es)
    BY <1>2
  <2>2. CASE k \in 1 .. Len(es)
    BY <1>3, <1>4, <2>1, <2>2
  <2>3. CASE k = Len(es) + 1
    BY <1>1, <1>4, <2>1, <2>3
  <2> QED BY <1>4, <2>2, <2>3
<1>8. \A i \in 1 .. Len(queue') : AnswerOf(m, queue'[i]) => \E k \in 1 .. Len(more) : g[k] = i
  <2> SUFFICES ASSUME NEW i \in 1 .. Len(queue'), AnswerOf(m, queue'[i])
               PROVE  \E k \in 1 .. Len(more) : g[k] = i
    OBVIOUS
  <2>1. CASE i = Len(queue) + 1
    BY <1>4, <2>1
  <2>2. CASE i \in 1 .. Len(queue)
    BY <1>1, <1>3, <1>4, <2>2
  <2> QED BY <1>1, <2>1, <2>2
<1>9. Says(m, more)'
  BY <1>2, <1>5, <1>6, <1>7, <1>8 DEF Says, AnswerOf
<1> QED BY <1>9 DEF more

(* The task takes its oldest message and posts some that are not answers.  *)
LEMMA Taken ==
  ASSUME queue \in Seq(Messages), queue # <<>>, NEW s \in Seq(Messages), queue' = rest \o s
  PROVE  /\ Len(queue) \in Nat \ {0} /\ queue[1] = Head(queue) /\ 1 \in 1 .. Len(queue)
         /\ \A i \in 1 .. Len(queue) : i # 1 => i - 1 \in 1 .. Len(queue') /\ queue'[i - 1] = queue[i]
         /\ \A i \in 1 .. Len(queue') : \/ i + 1 \in 1 .. Len(queue) /\ queue'[i] = queue[i + 1]
                                        \/ \E k \in 1 .. Len(s) : queue'[i] = s[k]
<1>1. /\ rest \in Seq(Messages) /\ Len(rest) = Len(queue) - 1
      /\ \A i \in 1 .. Len(rest) : rest[i] = queue[i + 1]
      /\ Len(queue) \in Nat \ {0} /\ Len(s) \in Nat /\ queue[1] = Head(queue)
  BY HeadTailProperties, EmptySeq, LenProperties DEF rest
<1>2. /\ Len(queue') = Len(rest) + Len(s)
      /\ \A i \in 1 .. Len(queue') : queue'[i] = IF i <= Len(rest) THEN rest[i] ELSE s[i - Len(rest)]
  BY <1>1, ConcatProperties
<1>3. \A i \in 1 .. Len(queue) : i # 1 => i - 1 \in 1 .. Len(queue') /\ queue'[i - 1] = queue[i]
  BY <1>1, <1>2
<1>4. ASSUME NEW i \in 1 .. Len(queue')
      PROVE  \/ i + 1 \in 1 .. Len(queue) /\ queue'[i] = queue[i + 1]
             \/ \E k \in 1 .. Len(s) : queue'[i] = s[k]
  <2>1. CASE i <= Len(rest)
    BY <1>1, <1>2, <2>1
  <2>2. CASE ~(i <= Len(rest))
    <3>1. i - Len(rest) \in 1 .. Len(s)
      BY <1>1, <1>2, <2>2
    <3> QED BY <1>2, <2>2, <3>1
  <2> QED BY <2>1, <2>2
<1> QED BY <1>1, <1>3, <1>4

LEMMA SaysStill ==
  ASSUME queue \in Seq(Messages), queue # <<>>, NEW m, NEW es, Says(m, es), ~AnswerOf(m, Head(queue)),
         NEW s \in Seq(Messages), Answerless(m, s), queue' = rest \o s
  PROVE  Says(m, es)'
<1>1. PICK f \in [1 .. Len(es) -> 1 .. Len(queue)] :
        /\ \A k \in 1 .. Len(es) : queue[f[k]] = RsrcEvent(m, es[k])
        /\ \A j \in 1 .. Len(es) : \A k \in 1 .. Len(es) : j < k => f[j] < f[k]
        /\ \A i \in 1 .. Len(queue) : AnswerOf(m, queue[i]) => \E k \in 1 .. Len(es) : f[k] = i
  BY DEF Says
<1>2. es \in Seq(Events) /\ \A k \in 1 .. Len(es) : es[k] \in Events
  BY ElementOfSeq DEF Says
<1>3. \A k \in 1 .. Len(es) : f[k] # 1
  <2> SUFFICES ASSUME NEW k \in 1 .. Len(es), f[k] = 1 PROVE FALSE
    OBVIOUS
  <2>1. queue[1] = RsrcEvent(m, es[k]) /\ es[k] \in Events
    BY <1>1, <1>2
  <2>2. queue[1] = Head(queue)
    BY Taken
  <2> QED BY <2>1, <2>2 DEF AnswerOf
<1> DEFINE g == [k \in 1 .. Len(es) |-> f[k] - 1]
<1>4. \A k \in 1 .. Len(es) : /\ f[k] \in 1 .. Len(queue) /\ g[k] = f[k] - 1
                              /\ g[k] \in 1 .. Len(queue') /\ queue'[g[k]] = RsrcEvent(m, es[k])
  BY <1>1, <1>3, Taken
<1>5. g \in [1 .. Len(es) -> 1 .. Len(queue')]
  BY <1>4
<1> HIDE DEF g
<1>6. \A j \in 1 .. Len(es) : \A k \in 1 .. Len(es) : j < k => g[j] < g[k]
  BY <1>1, <1>4
<1>7. ASSUME NEW i \in 1 .. Len(queue'), AnswerOf(m, queue'[i])
      PROVE  \E k \in 1 .. Len(es) : g[k] = i
  <2>1. i + 1 \in 1 .. Len(queue) /\ queue'[i] = queue[i + 1]
    BY <1>7, Taken DEF Answerless
  <2>2. PICK k \in 1 .. Len(es) : f[k] = i + 1
    BY <1>1, <1>7, <2>1
  <2>3. g[k] = i
    BY <1>4, <2>2
  <2> QED BY <2>3
<1>8. \A i \in 1 .. Len(queue') : AnswerOf(m, queue'[i]) => \E k \in 1 .. Len(es) : g[k] = i
  BY <1>7
<1> QED BY <1>2, <1>4, <1>5, <1>6, <1>8 DEF Says, AnswerOf

LEMMA SaysLess ==
  ASSUME queue \in Seq(Messages), queue # <<>>, NEW m, NEW es, Says(m, es),
         NEW e \in Events, Head(queue) = RsrcEvent(m, e),
         NEW s \in Seq(Messages), Answerless(m, s), queue' = rest \o s
  PROVE  es # <<>> /\ Head(es) = e /\ Says(m, Tail(es))'
<1>1. PICK f \in [1 .. Len(es) -> 1 .. Len(queue)] :
        /\ \A k \in 1 .. Len(es) : queue[f[k]] = RsrcEvent(m, es[k])
        /\ \A j \in 1 .. Len(es) : \A k \in 1 .. Len(es) : j < k => f[j] < f[k]
        /\ \A i \in 1 .. Len(queue) : AnswerOf(m, queue[i]) => \E k \in 1 .. Len(es) : f[k] = i
  BY DEF Says
<1>2. es \in Seq(Events) /\ Len(es) \in Nat
  BY LenProperties DEF Says
<1>3. PICK p \in 1 .. Len(es) : f[p] = 1
  BY <1>1, Taken DEF AnswerOf
<1>4. es # <<>>
  <2>1. Len(es) # 0
    BY <1>2, <1>3
  <2> QED BY <2>1, EmptySeq
<1> DEFINE t == Tail(es)
<1>5. /\ t \in Seq(Events) /\ Len(t) = Len(es) - 1 /\ Len(t) \in Nat
      /\ \A k \in 1 .. Len(t) : t[k] = es[k + 1] /\ k + 1 \in 1 .. Len(es)
      /\ 1 \in 1 .. Len(es) /\ Head(es) = es[1]
  <2>1. Len(es) \in Nat \ {0}
    BY <1>2, <1>4, EmptySeq
  <2>2. /\ t \in Seq(Events) /\ Len(t) = Len(es) - 1
        /\ \A k \in 1 .. Len(t) : t[k] = es[k + 1]
    BY <1>2, <1>4, HeadTailProperties
  <2> QED BY <2>1, <2>2
<1> HIDE DEF t
<1>6. p = 1
  <2>1. ~(1 < p)
    <3>1. f[1] \in 1 .. Len(queue)
      BY <1>5
    <3>2. ~(f[1] < 1)
      BY <3>1
    <3> QED BY <1>1, <1>3, <1>5, <3>2
  <2> QED BY <1>2, <2>1
<1>7. Head(es) = e
  <2>1. RsrcEvent(m, es[1]) = RsrcEvent(m, e)
    BY <1>1, <1>3, <1>6, Taken
  <2> QED BY <1>5, <2>1, AnswersDiffer
<1>8. \A k \in 1 .. Len(t) : f[k + 1] \in 1 .. Len(queue) /\ f[k + 1] # 1
  <2> SUFFICES ASSUME NEW k \in 1 .. Len(t) PROVE f[k + 1] \in 1 .. Len(queue) /\ f[k + 1] # 1
    OBVIOUS
  <2>1. k + 1 \in 1 .. Len(es) /\ 1 < k + 1
    BY <1>5
  <2>2. f[1] < f[k + 1] /\ f[1] = 1
    BY <1>1, <1>3, <1>5, <1>6, <2>1
  <2>3. f[k + 1] \in 1 .. Len(queue)
    BY <2>1
  <2> QED BY <2>2, <2>3
<1> DEFINE g == [k \in 1 .. Len(t) |-> f[k + 1] - 1]
<1>9. \A k \in 1 .. Len(t) : /\ g[k] = f[k + 1] - 1
                             /\ g[k] \in 1 .. Len(queue') /\ queue'[g[k]] = RsrcEvent(m, t[k])
  <2> SUFFICES ASSUME NEW k \in 1 .. Len(t)
               PROVE  f[k + 1] - 1 \in 1 .. Len(queue') /\ queue'[f[k + 1] - 1] = RsrcEvent(m, t[k])
    OBVIOUS
  <2>1. k + 1 \in 1 .. Len(es) /\ t[k] = es[k + 1]
    BY <1>5
  <2>2. queue[f[k + 1]] = RsrcEvent(m, t[k])
    BY <1>1, <2>1
  <2>3. f[k + 1] \in 1 .. Len(queue) /\ f[k + 1] # 1
    BY <1>8
  <2> QED BY <2>2, <2>3, Taken
<1>10. g \in [1 .. Len(t) -> 1 .. Len(queue')]
  BY <1>9
<1> HIDE DEF g
<1>11. \A j \in 1 .. Len(t) : \A k \in 1 .. Len(t) : j < k => g[j] < g[k]
  <2> SUFFICES ASSUME NEW j \in 1 .. Len(t), NEW k \in 1 .. Len(t), j < k PROVE g[j] < g[k]
    OBVIOUS
  <2>1. f[j + 1] < f[k + 1]
    BY <1>1, <1>5
  <2> QED BY <1>8, <1>9, <2>1
<1>12. ASSUME NEW i \in 1 .. Len(queue'), AnswerOf(m, queue'[i])
       PROVE  \E k \in 1 .. Len(t) : g[k] = i
  <2>1. i + 1 \in 1 .. Len(queue) /\ queue'[i] = queue[i + 1]
    BY <1>12, Taken DEF Answerless
  <2>2. PICK k \in 1 .. Len(es) : f[k] = i + 1
    BY <1>1, <1>12, <2>1
  <2>3. k # 1
    BY <1>3, <1>6, <2>2
  <2>4. k - 1 \in 1 .. Len(t) /\ (k - 1) + 1 = k
    BY <1>5, <2>3
  <2>5. g[k - 1] = i
    <3>1. g[k - 1] = f[(k - 1) + 1] - 1
      BY <1>9, <2>4
    <3>2. f[(k - 1) + 1] = i + 1
      BY <2>2, <2>4
    <3> QED BY <3>1, <3>2
  <2> QED BY <2>4, <2>5
<1>13. \A i \in 1 .. Len(queue') : AnswerOf(m, queue'[i]) => \E k \in 1 .. Len(t) : g[k] = i
  BY <1>12
<1>14. Says(m, t)'
  BY ZenonT(60), <1>5, <1>9, <1>10, <1>11, <1>13 DEF Says, AnswerOf
<1> QED BY <1>4, <1>7, <1>14 DEF t

(***************************************************************************)
(* What is posted: a handler posts requests at agnss only, clients and the *)
(* timer post no answers.                                                  *)
(***************************************************************************)

FallsBackOnly == \E s \in Seq(Messages) :
  /\ queue' = rest \o s
  /\ \A k \in 1 .. Len(s) : \E h \in Clients : s[k] = Request(h, "agnss")

LEMMA HandlerPosts ==
  ASSUME Inv, Handle
  PROVE  FallsBackOnly
<1> DEFINE msg == Head(queue)
<1>1. QueueInv /\ MachineInv
  BY SeqMonotonic DEF Inv, RestInv, Expected, Handle, QueueInv
<1>2. ASSUME NEW hs \in Seq(Clients), FallBack(hs)
      PROVE  FallsBackOnly
  <2> DEFINE s == [i \in 1 .. Len(hs) |-> Request(hs[i], "agnss")]
  <2>1. Len(hs) \in Nat /\ \A i \in 1 .. Len(hs) : hs[i] \in Clients
    BY ElementOfSeq, LenProperties
  <2>2. \A i \in 1 .. Len(hs) : Request(hs[i], "agnss") \in Messages
    BY <2>1 DEF Messages, Machines, Framework
  <2>3. s \in Seq(Messages) /\ Len(s) = Len(hs)
    BY <2>1, <2>2, IsASeq
  <2>4. \A k \in 1 .. Len(s) : \E h \in Clients : s[k] = Request(h, "agnss")
    BY <2>1, <2>3
  <2>5. queue' = rest \o s
    BY <1>2 DEF FallBack
  <2> HIDE DEF s
  <2> QED BY <2>3, <2>4, <2>5 DEF FallsBackOnly
<1>3. ASSUME queue' = rest
      PROVE  FallsBackOnly
  <2>1. rest \in Seq(Messages)
    BY <1>1, HeadTailProperties DEF QueueInv, rest
  <2>2. <<>> \in Seq(Messages) /\ Len(<<>>) = 0 /\ rest \o <<>> = rest
    BY <2>1, EmptySeq, ConcatEmptySeq
  <2>3. \A k \in 1 .. Len(<<>>) : \E h \in Clients : <<>>[k] = Request(h, "agnss")
    BY <2>2
  <2>4. queue' = rest \o <<>>
    BY <1>3, <2>2
  <2> QED BY <2>2, <2>3, <2>4 DEF FallsBackOnly
<1>4. ASSUME NEW h \in Clients, DataCallFails(h)
      PROVE  FallsBackOnly
  <2>1. <<h>> \in Seq(Clients)
    OBVIOUS
  <2> QED BY <1>2, <1>3, <1>4, <2>1 DEF DataCallFails
<1>5. msg \in Expected /\ msg \in Messages
  BY <1>1, HeadTailProperties DEF Inv, RestInv, Expected, QueueInv
<1>6. \A m \in Machines : active[m] \in SUBSET Clients /\ Subscribers(m) \in SUBSET Clients
  BY <1>1 DEF MachineInv, Subscribers
<1>7. ASSUME NEW m \in Machines, NEW c \in Clients, Subscribe(m, c)
      PROVE  FallsBackOnly
  <2>1. Heads(m, c) \subseteq Clients
    BY <1>6 DEF Heads
  <2>2. queue' = rest \/ \E h \in Heads(m, c) : DataCallFails(h)
    BY <1>7 DEF Subscribe, SubscribeRefused, SubscribeReleased, SubscribeWaits, SubscribeAcquired, NoCall, Call
  <2> QED BY <1>3, <1>4, <2>1, <2>2
<1>8. ASSUME NEW c, HandleRelease(c)
      PROVE  FallsBackOnly
  <2>1. queue' = rest
    BY <1>8 DEF HandleRelease, Unsubscribe, UnsubscribeReleased, UnsubscribeHeld, Leave, NoCall, Call
  <2> QED BY <1>3, <2>1
<1>9. ASSUME NEW m \in Machines, NEW e, HandleEvent(m, e)
      PROVE  FallsBackOnly
  <2>1. CASE Ignore \/ Granted(m)
    BY <1>3, <2>1 DEF Ignore, Granted, NoCall
  <2>2. ASSUME NEW st, CloseComplete(m, st)
        PROVE  FallsBackOnly
    <3>1. queue' = rest \/ \E h \in active[m] : DataCallFails(h)
      BY <2>2 DEF CloseComplete, NoCall, Call
    <3> QED BY <1>3, <1>4, <1>6, <3>1
  <2>3. ASSUME NEW st, DropAll(m, st)
        PROVE  FallsBackOnly
    <3>1. queue' = rest \/ \E hs \in SetToSeqs(Subscribers(m)) : FallBack(hs)
      BY <2>3 DEF DropAll, NoCall
    <3>2. Subscribers(m) \in SUBSET Clients /\ IsFiniteSet(Subscribers(m))
      BY <1>6, AgpsAssumption, FS_Subset DEF AgpsAssumption
    <3>3. SetToSeqs(Subscribers(m)) \subseteq [1 .. Cardinality(Subscribers(m)) -> Subscribers(m)]
      BY DEF SetToSeqs
    <3>4. Cardinality(Subscribers(m)) \in Nat
      BY <3>2, FS_CardinalityType
    <3>5. [1 .. Cardinality(Subscribers(m)) -> Subscribers(m)] \subseteq Seq(Clients)
      BY <3>2, <3>4, SeqDef
    <3> QED BY <1>2, <1>3, <3>1, <3>3, <3>5
  <2> QED BY <1>9, <2>1, <2>2, <2>3 DEF HandleEvent, Denied, Released
<1>10. CASE msg.type = "request" /\ Subscribe(msg.machine, msg.client)
  BY <1>5, <1>7, <1>10, Reading
<1>11. CASE msg.type = "event" /\ HandleEvent(msg.machine, msg.event)
  BY <1>5, <1>9, <1>11, Reading
<1>12. CASE HandleEngineUp
  BY <1>3, <1>12 DEF HandleEngineUp, NoCall
<1> QED BY <1>8, <1>10, <1>11, <1>12 DEF Handle

(* The timer, clients and the modem post one message, or none.             *)
LEMMA ClientsPost ==
  ASSUME Inv, \/ RetryCallback
              \/ \E c \in Clients : ClientRequests(c) \/ ClientReleases(c)
              \/ ModemRestarts
  PROVE  /\ UNCHANGED <<machineVars, openerVars>>
         /\ \/ queue' = queue
            \/ \E msg \in Messages :
                 /\ queue' = Append(queue, msg)
                 /\ \A m : ~AnswerOf(m, msg)
                 /\ \A c, m : msg = Request(c, m) => m = Home(c) \/ m = "ds"
<1>1. /\ \A c \in Clients, m \in Machines : Request(c, m) \in Messages
      /\ \A c \in Clients : Release(c) \in Messages
      /\ EngineUp \in Messages
  BY DEF Messages
<1>2. /\ \A c, m : Request(c, m).type = "request"
      /\ \A c : Release(c).type = "release"
      /\ EngineUp.type = "engine up"
      /\ \A m, e : RsrcEvent(m, e).type = "event"
  BY DEF Request, Release, EngineUp, RsrcEvent
<1>3. /\ \A c, m, n : ~AnswerOf(m, Request(c, n))
      /\ \A c, m : ~AnswerOf(m, Release(c))
      /\ \A m : ~AnswerOf(m, EngineUp)
  BY <1>2 DEF AnswerOf
<1>4. /\ \A c, d, m : Release(c) # Request(d, m)
      /\ \A d, m : EngineUp # Request(d, m)
  BY <1>2
<1>5. \A c, d, m, n : Request(c, m) = Request(d, n) => c = d /\ m = n
  BY Kinds
<1>6. CASE RetryCallback
  <2>1. /\ UNCHANGED <<machineVars, openerVars>>
        /\ queue' = queue \/ \E h \in active["ds"] : queue' = Append(queue, Request(h, "ds"))
    BY <1>6 DEF RetryCallback
  <2>2. active["ds"] \subseteq Clients /\ "ds" \in Machines
    BY DEF Inv, MachineInv, Machines
  <2> QED BY <1>1, <1>3, <1>5, <2>1, <2>2
<1>7. ASSUME NEW c \in Clients, ClientRequests(c)
      PROVE  /\ UNCHANGED <<machineVars, openerVars>>
             /\ queue' = Append(queue, Request(c, Home(c))) /\ Home(c) \in Machines
  BY <1>7 DEF ClientRequests, Home, Machines, Framework
<1>8. ASSUME NEW c \in Clients, ClientReleases(c)
      PROVE  /\ UNCHANGED <<machineVars, openerVars>>
             /\ queue' = Append(queue, Release(c))
  BY <1>8 DEF ClientReleases
<1>9. CASE ModemRestarts
  BY <1>1, <1>3, <1>4, <1>9 DEF ModemRestarts
<1>10. ASSUME NEW c \in Clients, ClientRequests(c) \/ ClientReleases(c)
       PROVE  /\ UNCHANGED <<machineVars, openerVars>>
              /\ \E msg \in Messages :
                   /\ queue' = Append(queue, msg)
                   /\ \A m : ~AnswerOf(m, msg)
                   /\ \A d, m : msg = Request(d, m) => m = Home(d) \/ m = "ds"
  <2>1. CASE ClientRequests(c)
    <3>1. Request(c, Home(c)) \in Messages
      BY <1>1, <1>7, <2>1
    <3>2. \A d, m : Request(c, Home(c)) = Request(d, m) => m = Home(d)
      BY <1>5
    <3> QED BY <1>3, <1>7, <2>1, <3>1, <3>2
  <2>2. CASE ClientReleases(c)
    BY <1>1, <1>3, <1>4, <1>8, <2>2
  <2> QED BY <1>10, <2>1, <2>2
<1> QED BY <1>6, <1>9, <1>10

(* Openers post one answer of their machine's, or none.                    *)
LEMMA OpenersPost ==
  ASSUME Inv, NEW m \in Machines, TakeCall(m) \/ OpenEnds(m) \/ ConnectionLost(m)
  PROVE  /\ UNCHANGED machineVars
         /\ \A n \in Machines \ {m} : calls'[n] = calls[n] /\ conn'[n] = conn[n]
         /\ queue' = queue \/ \E e \in Events : queue' = Append(queue, RsrcEvent(m, e))
<1>1. UNCHANGED machineVars
  BY DEF TakeCall, OpenEnds, ConnectionLost, Connect
<1>2. \A n \in Machines \ {m} : calls'[n] = calls[n] /\ conn'[n] = conn[n]
  BY DEF TakeCall, OpenEnds, ConnectionLost, Connect, Inv, RestInv
<1>3. queue' = queue \o <<>> \/ \E e \in Events : queue' = queue \o <<RsrcEvent(m, e)>>
  BY DEF TakeCall, OpenEnds, ConnectionLost, Connect, Events
<1>4. queue \in Seq(Messages) /\ \A e \in Events : RsrcEvent(m, e) \in Messages
  BY SeqMonotonic DEF Inv, RestInv, Expected, Messages
<1>5. /\ queue \o <<>> = queue
      /\ \A e \in Events : queue \o <<RsrcEvent(m, e)>> = Append(queue, RsrcEvent(m, e))
  BY <1>4, ConcatEmptySeq, AppendIsConcat
<1> QED BY <1>1, <1>2, <1>3, <1>5

(* Emergency sessions are never with the BIT daemon's machine nor Wi-Fi's. *)
EsElsewhere == \A c \in EsClients : \A m \in {"internet", "wifi"} : c \notin Subscribers(m) /\ ~Asking(c, m)

LEMMA StayingElsewhere == Spec => []EsElsewhere
<1>1. Init => EsElsewhere
  <2> SUFFICES ASSUME Init PROVE EsElsewhere
    OBVIOUS
  <2>1. Len(queue) = 0 /\ \A i \in 1 .. Len(queue) : FALSE
    BY DEF Init
  <2> QED BY <2>1 DEF Init, EsElsewhere, Asking, Subscribers, Machines, Framework
<1>2. Inv /\ EsElsewhere /\ [Next]_vars => EsElsewhere'
  <2> SUFFICES ASSUME Inv, EsElsewhere, [Next]_vars,
                      NEW c \in EsClients, NEW m \in {"internet", "wifi"}
               PROVE  c \notin Subscribers(m)' /\ ~Asking(c, m)'
    BY DEF EsElsewhere
  <2>1. c \notin Subscribers(m) /\ ~Asking(c, m) /\ c \in Clients /\ Home(c) = "ds" /\ m \in Machines
    BY EsHome DEF EsElsewhere, Machines, Framework
  <2>2. queue \in Seq(Messages)
    BY SeqMonotonic DEF Inv, RestInv, Expected
  <2>3. CASE Handle
    <3>1. QueueInv
      BY <2>2, <2>3 DEF QueueInv, Handle
    <3>2. c \notin Subscribers(m)'
      BY <2>1, <2>3, <3>1, HandlerLists, HeadAsks DEF Lists
    <3>3. PICK s \in Seq(Messages) :
            queue' = rest \o s /\ \A k \in 1 .. Len(s) : \E h \in Clients : s[k] = Request(h, "agnss")
      BY <2>3, HandlerPosts DEF FallsBackOnly
    <3>4. ASSUME NEW i \in 1 .. Len(queue'), queue'[i] = Request(c, m)
          PROVE  FALSE
      <4>1. CASE i + 1 \in 1 .. Len(queue) /\ queue'[i] = queue[i + 1]
        <5>1. PICK j \in 1 .. Len(queue) : queue[j] = Request(c, m)
          BY <3>4, <4>1
        <5> QED BY <2>1, <5>1 DEF Asking
      <4>2. CASE \E k \in 1 .. Len(s) : queue'[i] = s[k]
        <5>1. PICK h \in Clients : queue'[i] = Request(h, "agnss")
          BY <3>3, <4>2
        <5>2. Request(h, "agnss") = Request(c, m)
          BY <3>4, <5>1
        <5>3. m = "agnss"
          BY <5>2, Kinds
        <5> QED BY <5>3
      <4> QED BY <3>1, <3>3, <4>1, <4>2, Taken DEF QueueInv
    <3> QED BY <3>2, <3>4 DEF Asking
  <2>4. ASSUME UNCHANGED machineVars,
               \/ queue' = queue
               \/ \E msg \in Messages : queue' = Append(queue, msg) /\ msg # Request(c, m)
        PROVE  c \notin Subscribers(m)' /\ ~Asking(c, m)'
    <3>1. c \notin Subscribers(m)'
      BY <2>1, <2>4 DEF Subscribers, machineVars
    <3>2. CASE queue' = queue
      BY <2>1, <3>1, <3>2 DEF Asking
    <3>3. ASSUME NEW msg \in Messages, queue' = Append(queue, msg), msg # Request(c, m)
          PROVE  ~Asking(c, m)'
      <4>1. /\ Len(queue') = Len(queue) + 1 /\ Len(queue) \in Nat
            /\ \A i \in 1 .. Len(queue) : queue'[i] = queue[i]
            /\ queue'[Len(queue) + 1] = msg
        BY <2>2, <3>3, AppendProperties, LenProperties
      <4>2. \A i \in 1 .. Len(queue') : i \in 1 .. Len(queue) \/ i = Len(queue) + 1
        BY <4>1
      <4> QED BY <2>1, <3>3, <4>1, <4>2 DEF Asking
    <3> QED BY <2>4, <3>1, <3>2, <3>3
  <2>5. CASE \/ RetryCallback
             \/ \E d \in Clients : ClientRequests(d) \/ ClientReleases(d)
             \/ ModemRestarts
    BY <2>1, <2>4, <2>5, ClientsPost
  <2>6. ASSUME NEW n \in Machines, TakeCall(n) \/ OpenEnds(n) \/ ConnectionLost(n)
        PROVE  c \notin Subscribers(m)' /\ ~Asking(c, m)'
    <3>1. \A e \in Events : RsrcEvent(n, e) \in Messages
      BY DEF Messages
    <3>2. \A e : RsrcEvent(n, e).type = "event" /\ Request(c, m).type = "request"
      BY DEF RsrcEvent, Request
    <3>3. \A e : RsrcEvent(n, e) # Request(c, m)
      BY <3>2
    <3> QED BY <2>4, <2>6, <3>1, <3>3, OpenersPost
  <2>7. CASE UNCHANGED vars
    BY <2>4, <2>7 DEF vars
  <2> QED BY <2>3, <2>5, <2>6, <2>7 DEF Next
<1> QED BY <1>1, <1>2, Invariance, PTL DEF Spec

(***************************************************************************)
(* Machine and opener.  What may be between a machine in state s and its   *)
(* opener: calls cs the opener has not looked at, its connection cn and    *)
(* answers es the machine has not seen.  The answer to the last release,   *)
(* or the news of a loss that crossed it, may still be on its way when the *)
(* machine is Released or has asked again; a Pending machine ignores it.   *)
(***************************************************************************)

Stale == {<<>>, <<"released">>}

PendingLink(cs, cn, es) ==
  \/ cs = <<"release", "request">> /\ cn = "up" /\ es = <<>>
  \/ cs \in {<<"request">>, <<"release", "request">>} /\ cn = "down" /\ es \in Stale
  \/ cs = <<>> /\ cn = "opening" /\ es \in Stale
  \/ cs = <<>> /\ cn = "up" /\ \E o \in Stale : es = Append(o, "granted")
  \/ cs = <<>> /\ cn = "down" /\ \E o \in Stale : es = Append(o, "denied")
  \/ cs = <<>> /\ cn = "down" /\ \E o \in Stale : es = Append(Append(o, "granted"), "released")

Link(s, cs, cn, es) ==
  \/ s = "Acquired" /\ cs = <<>> /\ cn = "up" /\ es = <<>>
  \/ s = "Acquired" /\ cs = <<>> /\ cn = "down" /\ es = <<"released">>
  \/ s \in {"Releasing", "Released"} /\ cs = <<"release">> /\ cn = "up" /\ es = <<>>
  \/ s \in {"Releasing", "Released"} /\ cs \in {<<>>, <<"release">>} /\ cn = "down" /\ es = <<"released">>
  \/ s = "Released" /\ cs \in {<<>>, <<"release">>} /\ cn = "down" /\ es = <<>>
  \/ s = "Pending" /\ PendingLink(cs, cn, es)

(* The short sequences a link is made of.                                  *)
LEMMA Pairs ==
  ASSUME NEW c, NEW d
  PROVE  Append(<<c>>, d) = <<c, d>>
<1> DEFINE S == {c, d}
           s == Append(<<c>>, d)
           t == <<c, d>>
<1>1. <<c>> \in Seq(S) /\ Len(<<c>>) = 1 /\ <<c>>[1] = c
  OBVIOUS
<1>2. t \in Seq(S) /\ Len(t) = 2 /\ t[1] = c /\ t[2] = d
  OBVIOUS
<1>3. s \in Seq(S) /\ Len(s) = 2 /\ s[1] = c /\ s[2] = d
  BY <1>1, AppendProperties
<1> HIDE DEF S, s, t
<1>4. \A i \in 1 .. Len(s) : i = 1 \/ i = 2
  BY <1>3
<1>5. s = t
  BY <1>2, <1>3, <1>4, SeqEqual
<1> QED BY <1>5 DEF s, t

LEMMA Triples ==
  ASSUME NEW c, NEW d, NEW e
  PROVE  Append(<<c, d>>, e) = <<c, d, e>>
<1> DEFINE S == {c, d, e}
           s == Append(<<c, d>>, e)
           t == <<c, d, e>>
<1>1. <<c, d>> \in Seq(S) /\ Len(<<c, d>>) = 2 /\ <<c, d>>[1] = c /\ <<c, d>>[2] = d
  OBVIOUS
<1>2. t \in Seq(S) /\ Len(t) = 3 /\ t[1] = c /\ t[2] = d /\ t[3] = e
  OBVIOUS
<1>3. s \in Seq(S) /\ Len(s) = 3 /\ s[1] = c /\ s[2] = d /\ s[3] = e
  BY <1>1, AppendProperties
<1> HIDE DEF S, s, t
<1>4. \A i \in 1 .. Len(s) : i = 1 \/ i = 2 \/ i = 3
  BY <1>3
<1>5. s = t
  BY <1>2, <1>3, <1>4, SeqEqual
<1> QED BY <1>5 DEF s, t

LEMMA Calls ==
  /\ Append(<<>>, "request") = <<"request">>
  /\ Append(<<>>, "release") = <<"release">>
  /\ Append(<<"release">>, "request") = <<"release", "request">>
  /\ Head(<<"request">>) = "request" /\ Tail(<<"request">>) = <<>>
  /\ Head(<<"release">>) = "release" /\ Tail(<<"release">>) = <<>>
  /\ Head(<<"release", "request">>) = "release" /\ Tail(<<"release", "request">>) = <<"request">>
  /\ <<"request">> # <<>> /\ <<"release">> # <<>> /\ <<"release", "request">> # <<>>
<1>1. Append(<<>>, "request") = <<"request">>
  OBVIOUS
<1>2. Append(<<>>, "release") = <<"release">>
  OBVIOUS
<1>3. Append(<<"release">>, "request") = <<"release", "request">>
  BY Pairs
<1>4. Head(<<"request">>) = "request" /\ Head(<<"release">>) = "release"
  OBVIOUS
<1>5. Tail(<<"request">>) = <<>>
  OBVIOUS
<1>6. Tail(<<"release">>) = <<>>
  OBVIOUS
<1>7. Head(<<"release", "request">>) = "release"
  OBVIOUS
<1>8. Tail(<<"release", "request">>) = <<"request">>
  OBVIOUS
<1>9. <<"request">> # <<>> /\ <<"release">> # <<>> /\ <<"release", "request">> # <<>>
  OBVIOUS
<1> QED BY <1>1, <1>2, <1>3, <1>4, <1>5, <1>6, <1>7, <1>8, <1>9

LEMMA Answers ==
  /\ Append(<<>>, "released") = <<"released">>
  /\ Head(<<"released">>) = "released" /\ Tail(<<"released">>) = <<>>
  /\ \A e : Head(Append(<<>>, e)) = e /\ Tail(Append(<<>>, e)) = <<>>
  /\ \A e : Head(Append(<<"released">>, e)) = "released" /\ Tail(Append(<<"released">>, e)) = Append(<<>>, e)
  /\ \A d, e : /\ Head(Append(Append(<<>>, d), e)) = d /\ Tail(Append(Append(<<>>, d), e)) = Append(<<>>, e)
               /\ Head(Append(Append(<<"released">>, d), e)) = "released"
               /\ Tail(Append(Append(<<"released">>, d), e)) = Append(Append(<<>>, d), e)
<1>1. Append(<<>>, "released") = <<"released">>
  OBVIOUS
<1>2. Head(<<"released">>) = "released" /\ Tail(<<"released">>) = <<>>
  OBVIOUS
<1>3. \A e : Append(<<>>, e) = <<e>>
  OBVIOUS
<1>4. \A e : Append(<<"released">>, e) = <<"released", e>>
  BY Pairs
<1>5. \A e : Head(<<e>>) = e /\ Tail(<<e>>) = <<>>
  OBVIOUS
<1>6. \A d, e : Head(<<d, e>>) = d /\ Tail(<<d, e>>) = <<e>>
  OBVIOUS
<1>7. \A c, d, e : Head(<<c, d, e>>) = c /\ Tail(<<c, d, e>>) = <<d, e>>
  OBVIOUS
<1>8. \A e : Head(Append(<<>>, e)) = e /\ Tail(Append(<<>>, e)) = <<>>
  BY <1>3, <1>5
<1>9. \A e : Head(Append(<<"released">>, e)) = "released" /\ Tail(Append(<<"released">>, e)) = Append(<<>>, e)
  BY <1>3, <1>4, <1>6
<1>10. \A d, e : Head(Append(Append(<<>>, d), e)) = d /\ Tail(Append(Append(<<>>, d), e)) = Append(<<>>, e)
  <2> SUFFICES ASSUME NEW d, NEW e
               PROVE  Head(Append(Append(<<>>, d), e)) = d /\ Tail(Append(Append(<<>>, d), e)) = Append(<<>>, e)
    OBVIOUS
  <2>1. Append(Append(<<>>, d), e) = <<d, e>>
    <3>1. Append(<<>>, d) = <<d>>
      BY <1>3
    <3> QED BY <3>1, Pairs
  <2>2. Head(<<d, e>>) = d /\ Tail(<<d, e>>) = <<e>> /\ Append(<<>>, e) = <<e>>
    BY <1>3, <1>6
  <2> QED BY <2>1, <2>2
<1>11. \A d, e : /\ Head(Append(Append(<<"released">>, d), e)) = "released"
                 /\ Tail(Append(Append(<<"released">>, d), e)) = Append(Append(<<>>, d), e)
  <2> SUFFICES ASSUME NEW d, NEW e
               PROVE  /\ Head(Append(Append(<<"released">>, d), e)) = "released"
                      /\ Tail(Append(Append(<<"released">>, d), e)) = Append(Append(<<>>, d), e)
    OBVIOUS
  <2>1. Append(Append(<<"released">>, d), e) = <<"released", d, e>>
    <3>1. Append(<<"released">>, d) = <<"released", d>>
      BY Pairs
    <3> QED BY <3>1, Triples
  <2>2. Append(Append(<<>>, d), e) = <<d, e>>
    <3>1. Append(<<>>, d) = <<d>>
      BY <1>3
    <3> QED BY <3>1, Pairs
  <2>3. Head(<<"released", d, e>>) = "released" /\ Tail(<<"released", d, e>>) = <<d, e>>
    BY <1>7
  <2> QED BY <2>1, <2>2, <2>3
<1> QED BY <1>1, <1>2, <1>8, <1>9, <1>10, <1>11

(* A link when the machine requests ...                                    *)
LEMMA LinkRequested ==
  ASSUME NEW cs, NEW cn, NEW es, Link("Released", cs, cn, es)
  PROVE  Link("Pending", Append(cs, "request"), cn, es)
<1>1. \/ cs = <<"release">> /\ cn = "up" /\ es = <<>>
      \/ cs \in {<<>>, <<"release">>} /\ cn = "down" /\ es \in Stale
  BY DEF Link, Stale
<1>2. PendingLink(Append(cs, "request"), cn, es)
  BY <1>1, Calls DEF PendingLink
<1> QED BY <1>2 DEF Link

(* ... when it releases, with subscribers left that wait or with none ...  *)
LEMMA LinkReleased ==
  ASSUME NEW cs, NEW cn, NEW es, Link("Acquired", cs, cn, es), NEW s \in {"Releasing", "Released"}
  PROVE  Link(s, Append(cs, "release"), cn, es)
<1>1. cs = <<>> /\ ((cn = "up" /\ es = <<>>) \/ (cn = "down" /\ es = <<"released">>))
  BY DEF Link
<1> QED BY <1>1, Calls DEF Link

LEMMA LinkGivenUp ==
  ASSUME NEW cs, NEW cn, NEW es, Link("Releasing", cs, cn, es)
  PROVE  Link("Released", cs, cn, es)
BY DEF Link

(* ... when it sees an answer, which is one it expects or ignores ...      *)
LEMMA LinkHeard ==
  ASSUME NEW s, NEW cs, NEW cn, NEW es, Link(s, cs, cn, es), es # <<>>
  PROVE  \/ Head(es) = "released" /\ s = "Acquired" /\ Link("Released", cs, cn, Tail(es))
         \/ Head(es) = "released" /\ s = "Releasing" /\ Link("Released", cs, cn, Tail(es))
         \/ Head(es) = "released" /\ s \in {"Released", "Pending"} /\ Link(s, cs, cn, Tail(es))
         \/ Head(es) = "granted" /\ s = "Pending" /\ Link("Acquired", cs, cn, Tail(es))
         \/ Head(es) = "denied" /\ s = "Pending" /\ Link("Released", cs, cn, Tail(es))
<1>1. CASE s = "Acquired"
  <2>1. cs = <<>> /\ cn = "down" /\ es = <<"released">>
    BY <1>1 DEF Link
  <2> QED BY <1>1, <2>1, Answers DEF Link
<1>2. CASE s \in {"Releasing", "Released"}
  <2>1. cs \in {<<>>, <<"release">>} /\ cn = "down" /\ es = <<"released">>
    BY <1>2 DEF Link
  <2> QED BY <1>2, <2>1, Answers DEF Link
<1>3. CASE s = "Pending"
  <2>1. PendingLink(cs, cn, es)
    BY <1>3 DEF Link
  <2>2. CASE \/ cs \in {<<"request">>, <<"release", "request">>} /\ cn = "down"
             \/ cs = <<>> /\ cn = "opening"
    <3>1. es = <<"released">>
      <4>1. es \in Stale
        BY <2>1, <2>2, Calls DEF PendingLink
      <4> QED BY <4>1 DEF Stale
    <3>2. PendingLink(cs, cn, <<>>)
      BY <2>2 DEF PendingLink, Stale
    <3>3. Link("Pending", cs, cn, <<>>)
      BY <3>2 DEF Link
    <3> QED BY <1>3, <3>1, <3>3, Answers
  <2>3. ASSUME cs = <<>>, cn = "up", NEW o \in Stale, es = Append(o, "granted")
        PROVE  \/ Head(es) = "released" /\ Link("Pending", cs, cn, Tail(es))
               \/ Head(es) = "granted" /\ Link("Acquired", cs, cn, Tail(es))
    <3>1. CASE o = <<>>
      BY <2>3, <3>1, Answers DEF Link
    <3>2. CASE o = <<"released">>
      <4>1. Head(es) = "released" /\ Tail(es) = Append(<<>>, "granted")
        BY <2>3, <3>2, Answers
      <4>2. PendingLink(cs, cn, Tail(es))
        BY <2>3, <4>1 DEF PendingLink, Stale
      <4> QED BY <4>1, <4>2 DEF Link
    <3> QED BY <3>1, <3>2 DEF Stale
  <2>4. ASSUME cs = <<>>, cn = "down", NEW o \in Stale, es = Append(o, "denied")
        PROVE  \/ Head(es) = "released" /\ Link("Pending", cs, cn, Tail(es))
               \/ Head(es) = "denied" /\ Link("Released", cs, cn, Tail(es))
    <3>1. CASE o = <<>>
      BY <2>4, <3>1, Answers DEF Link
    <3>2. CASE o = <<"released">>
      <4>1. Head(es) = "released" /\ Tail(es) = Append(<<>>, "denied")
        BY <2>4, <3>2, Answers
      <4>2. PendingLink(cs, cn, Tail(es))
        BY <2>4, <4>1 DEF PendingLink, Stale
      <4> QED BY <4>1, <4>2 DEF Link
    <3> QED BY <3>1, <3>2 DEF Stale
  <2>5. ASSUME cs = <<>>, cn = "down", NEW o \in Stale, es = Append(Append(o, "granted"), "released")
        PROVE  \/ Head(es) = "released" /\ Link("Pending", cs, cn, Tail(es))
               \/ Head(es) = "granted" /\ Link("Acquired", cs, cn, Tail(es))
    <3>1. CASE o = <<>>
      BY <2>5, <3>1, Answers DEF Link
    <3>2. CASE o = <<"released">>
      <4>1. Head(es) = "released" /\ Tail(es) = Append(Append(<<>>, "granted"), "released")
        BY <2>5, <3>2, Answers
      <4>2. PendingLink(cs, cn, Tail(es))
        BY <2>5, <4>1 DEF PendingLink, Stale
      <4> QED BY <4>1, <4>2 DEF Link
    <3> QED BY <3>1, <3>2 DEF Stale
  <2>6. \/ cs \in {<<"request">>, <<"release", "request">>} /\ cn = "down"
        \/ cs = <<>> /\ cn = "opening"
        \/ cs = <<>> /\ cn = "up" /\ \E o \in Stale : es = Append(o, "granted")
        \/ cs = <<>> /\ cn = "down" /\ \E o \in Stale : es = Append(o, "denied")
        \/ cs = <<>> /\ cn = "down" /\ \E o \in Stale : es = Append(Append(o, "granted"), "released")
    BY <2>1 DEF PendingLink
  <2> QED BY <1>3, <2>2, <2>3, <2>4, <2>5, <2>6
<1> QED BY <1>1, <1>2, <1>3 DEF Link

(* ... when the opener looks at a call ...                                 *)
LEMMA LinkTaken ==
  ASSUME NEW s, NEW cs, NEW cn, NEW es, Link(s, cs, cn, es), cs # <<>>
  PROVE  \/ Head(cs) = "request" /\ cn # "up" /\ Link(s, Tail(cs), "opening", es)
         \/ Head(cs) = "release" /\ cn = "down" /\ Link(s, Tail(cs), "down", es)
         \/ Head(cs) = "release" /\ cn = "up" /\ Link(s, Tail(cs), "down", Append(es, "released"))
<1>1. CASE s = "Pending"
  <2>1. \/ cs = <<"release", "request">> /\ cn = "up" /\ es = <<>>
        \/ cs = <<"request">> /\ cn = "down" /\ es \in Stale
        \/ cs = <<"release", "request">> /\ cn = "down" /\ es \in Stale
    BY <1>1 DEF Link, PendingLink
  <2>2. CASE cs = <<"release", "request">> /\ cn = "up" /\ es = <<>>
    <3>1. PendingLink(<<"request">>, "down", Append(es, "released"))
      BY <2>2, Answers DEF PendingLink, Stale
    <3> QED BY <1>1, <2>2, <3>1, Calls DEF Link
  <2>3. CASE cs = <<"request">> /\ cn = "down" /\ es \in Stale
    <3>1. PendingLink(<<>>, "opening", es)
      BY <2>3 DEF PendingLink
    <3> QED BY <1>1, <2>3, <3>1, Calls DEF Link
  <2>4. CASE cs = <<"release", "request">> /\ cn = "down" /\ es \in Stale
    <3>1. PendingLink(<<"request">>, "down", es)
      BY <2>4 DEF PendingLink
    <3> QED BY <1>1, <2>4, <3>1, Calls DEF Link
  <2> QED BY <2>1, <2>2, <2>3, <2>4
<1>2. CASE s # "Pending"
  <2>1. /\ s \in {"Releasing", "Released"} /\ cs = <<"release">>
        /\ \/ cn = "up" /\ es = <<>>
           \/ cn = "down" /\ es = <<"released">>
           \/ cn = "down" /\ es = <<>> /\ s = "Released"
    BY <1>2 DEF Link
  <2> QED BY <2>1, Calls, Answers DEF Link
<1> QED BY <1>1, <1>2

(* ... when it has opened the connection or failed to ...                  *)
LEMMA LinkEnds ==
  ASSUME NEW s, NEW cs, NEW es, Link(s, cs, "opening", es)
  PROVE  Link(s, cs, "up", Append(es, "granted")) /\ Link(s, cs, "down", Append(es, "denied"))
<1>1. s = "Pending" /\ cs = <<>> /\ es \in Stale
  BY DEF Link, PendingLink
<1>2. PendingLink(cs, "up", Append(es, "granted")) /\ PendingLink(cs, "down", Append(es, "denied"))
  BY <1>1 DEF PendingLink
<1> QED BY <1>1, <1>2 DEF Link

(* ... and when the connection is lost.                                    *)
LEMMA LinkLost ==
  ASSUME NEW s, NEW cs, NEW es, Link(s, cs, "up", es)
  PROVE  Link(s, cs, "down", Append(es, "released"))
<1>1. CASE s = "Pending"
  <2>1. \/ cs = <<"release", "request">> /\ es = <<>>
        \/ cs = <<>> /\ \E o \in Stale : es = Append(o, "granted")
    BY <1>1 DEF Link, PendingLink
  <2>2. CASE cs = <<"release", "request">> /\ es = <<>>
    <3>1. PendingLink(cs, "down", Append(es, "released"))
      BY <2>2, Answers DEF PendingLink, Stale
    <3> QED BY <1>1, <3>1 DEF Link
  <2>3. CASE cs = <<>> /\ \E o \in Stale : es = Append(o, "granted")
    <3>1. PendingLink(cs, "down", Append(es, "released"))
      BY <2>3 DEF PendingLink
    <3> QED BY <1>1, <3>1 DEF Link
  <2> QED BY <2>1, <2>2, <2>3
<1>2. CASE s # "Pending"
  <2>1. /\ es = <<>>
        /\ (s = "Acquired" /\ cs = <<>>) \/ (s \in {"Releasing", "Released"} /\ cs = <<"release">>)
    BY <1>2 DEF Link
  <2> QED BY <2>1, Answers DEF Link
<1> QED BY <1>1, <1>2

(***************************************************************************)
(* What handlers do to a machine of the framework's and its calls.         *)
(***************************************************************************)

Idle(m)     == state'[m] = state[m] /\ calls'[m] = calls[m]
Requests(m) == state'[m] = "Pending" /\ calls'[m] = Append(calls[m], "request")
Becomes(m, s) == state'[m] = s /\ calls'[m] = calls[m]

CallsTyped == calls \in [Machines -> Seq({"request", "release"})]

LEMMA CallsOfOthers ==
  ASSUME CallsTyped, NEW m \in Machines, NEW n \in Machines, NEW action, Call(n, action)
  PROVE  calls'[m] = IF m = n THEN Append(calls[m], action) ELSE calls[m]
BY DEF Call, CallsTyped

LEMMA CallAndBecome ==
  ASSUME MachineInv, CallsTyped, NEW n \in Machines, NEW s, NEW a, NEW i, Become(n, s, a, i),
         NEW action, Call(n, action), NEW m \in Machines
  PROVE  /\ n # m => Idle(m)
         /\ n = m => state'[m] = s /\ calls'[m] = Append(calls[m], action)
<1>1. CASE n = m
  <2>1. state'[m] = s
    BY <1>1, Machine
  <2>2. calls'[m] = Append(calls[m], action)
    BY <1>1, CallsOfOthers
  <2> QED BY <1>1, <2>1, <2>2
<1>2. CASE n # m
  <2>1. state'[m] = state[m]
    BY <1>2, Machine
  <2>2. calls'[m] = calls[m]
    BY <1>2, CallsOfOthers
  <2> QED BY <1>2, <2>1, <2>2 DEF Idle
<1> QED BY <1>1, <1>2

LEMMA SubscribeEdge ==
  ASSUME MachineInv, CallsTyped, NEW n \in Machines, NEW c, Subscribe(n, c), NEW m \in Framework
  PROVE  Idle(m) \/ (state[m] = "Released" /\ Requests(m))
<1>0. m \in Machines /\ m # "ds"
  BY DEF Machines, Framework
<1>1. CASE SubscribeRefused(n, c)
  BY <1>1 DEF SubscribeRefused, NoCall, Idle, machineVars
<1>2. CASE SubscribeReleased(n, c)
  <2>1. state[n] = "Released"
    BY <1>2 DEF SubscribeReleased
  <2>2. CASE Call(n, "request") /\ Become(n, "Pending", WithSubscriber(n, c), inactive[n])
    BY <1>0, <2>1, <2>2, CallAndBecome DEF Requests
  <2>3. CASE /\ n = "ds" /\ \E h \in Heads(n, c) : DataCallFails(h)
             /\ Become(n, "Released", WithSubscriber(n, c), inactive[n])
    <3>1. calls' = calls
      BY <2>3 DEF DataCallFails
    <3> QED BY <1>0, <2>3, <3>1, Machine DEF Idle
  <2> QED BY <1>2, <2>2, <2>3 DEF SubscribeReleased
<1>3. CASE SubscribeWaits(n, c) \/ SubscribeAcquired(n, c)
  <2>1. Become(n, state[n], WithSubscriber(n, c), inactive[n]) /\ calls' = calls
    BY <1>3 DEF SubscribeWaits, SubscribeAcquired, NoCall
  <2> QED BY <1>0, <2>1, Machine DEF Idle
<1> QED BY <1>1, <1>2, <1>3 DEF Subscribe

(* The last active subscriber leaves only a connection that is there, or   *)
(* one that is being closed.                                               *)
LEMMA ReleaseEdge ==
  ASSUME MachineInv, CallsTyped, NEW d \in Clients, HandleRelease(d), Going(d),
         NEW m \in Framework, d \in Subscribers(m) => Settled(d)
  PROVE  \/ Idle(m)
         \/ state[m] = "Acquired" /\ state'[m] \in {"Releasing", "Released"} /\ calls'[m] = Append(calls[m], "release")
         \/ state[m] = "Releasing" /\ Becomes(m, "Released")
<1>0. m \in Machines
  BY DEF Machines
<1>1. ASSUME UNCHANGED machineVars, NoCall
      PROVE  Idle(m)
  BY <1>1 DEF Idle, machineVars, NoCall
<1>2. ASSUME NEW n \in Machines, d \in Subscribers(n), UnsubscribeHeld(n, d)
      PROVE  \/ Idle(m)
             \/ state[m] = "Acquired" /\ state'[m] \in {"Releasing", "Released"} /\ calls'[m] = Append(calls[m], "release")
             \/ state[m] = "Releasing" /\ Becomes(m, "Released")
  <2> DEFINE a == active[n] \ {d}
             i == IF waitForCloseComplete(n) THEN inactive[n] \cup {d} ELSE inactive[n] \ {d}
  <2>1. state[n] # "Released" /\ Leave(n, a, i)
    BY <1>2 DEF UnsubscribeHeld
  <2>2. n = m /\ a = {} /\ state[n] # "Releasing" => state[n] = "Acquired"
    <3> SUFFICES ASSUME n = m, a = {}, state[n] # "Releasing" PROVE state[n] = "Acquired"
      OBVIOUS
    <3>1. Fits(m, state[m], active[m], inactive[m]) /\ Settled(d)
      BY <1>0, <1>2 DEF MachineInv
    <3>2. CASE d \in active[m]
      BY <3>1, <3>2 DEF Settled
    <3>3. CASE d \notin active[m]
      <4>1. active[m] = {} /\ inactive[m] # {}
        BY <1>2, <3>3 DEF Subscribers
      <4>2. state[m] \in States /\ state[m] \notin {"Pending", "Acquired"}
        BY <3>1, <4>1 DEF Fits
      <4> QED BY <2>1, <4>2 DEF States
    <3> QED BY <3>2, <3>3
  <2> HIDE DEF a, i
  <2>3. CASE (a # {} \/ (state[n] = "Releasing" /\ i # {})) /\ Become(n, state[n], a, i) /\ NoCall
    <3>1. calls' = calls
      BY <2>3 DEF NoCall
    <3> QED BY <1>0, <2>3, <3>1, Machine DEF Idle
  <2>4. CASE /\ a = {} /\ state[n] # "Releasing"
             /\ Become(n, IF i = {} THEN "Released" ELSE "Releasing", a, i)
             /\ Call(n, "release")
    <3>1. PICK s \in {"Releasing", "Released"} : Become(n, s, a, i)
      BY <2>4
    <3>2. n = m => state[m] = "Acquired"
      BY <2>2, <2>4
    <3> QED BY <1>0, <2>4, <3>1, <3>2, CallAndBecome
  <2>5. CASE a \cup i = {} /\ state[n] = "Releasing" /\ Become(n, "Released", a, i) /\ NoCall
    <3>1. calls' = calls
      BY <2>5 DEF NoCall
    <3> QED BY <1>0, <2>5, <3>1, Machine DEF Idle, Becomes
  <2> QED BY <2>1, <2>3, <2>4, <2>5 DEF Leave
<1>3. \/ UNCHANGED machineVars /\ NoCall
      \/ \E n \in Machines : d \in Subscribers(n) /\ UnsubscribeHeld(n, d)
  BY DEF HandleRelease, Finds, Unsubscribe, UnsubscribeReleased
<1> QED BY <1>1, <1>2, <1>3

(* What the answer e does.                                                 *)
Hears(m, e) ==
  \/ e = "granted" /\ state[m] = "Pending" /\ Becomes(m, "Acquired")
  \/ e = "denied" /\ state[m] = "Pending" /\ Becomes(m, "Released")
  \/ e = "denied" /\ state[m] # "Pending"
  \/ e = "released" /\ state[m] = "Acquired" /\ Becomes(m, "Released")
  \/ e = "released" /\ state[m] = "Releasing" /\ (Becomes(m, "Released") \/ Requests(m))
  \/ e = "released" /\ state[m] \in {"Released", "Pending"} /\ Idle(m)
  \/ e = "granted" /\ state[m] # "Pending" /\ Idle(m)

LEMMA EventEdge ==
  ASSUME MachineInv, CallsTyped, NEW n \in Machines, NEW e, HandleEvent(n, e), NEW m \in Framework
  PROVE  (n # m => Idle(m)) /\ (n = m => Hears(m, e))
<1>0. m \in Machines /\ m # "ds"
  BY DEF Machines, Framework
<1>1. ASSUME Ignore
      PROVE  Idle(m)
  BY <1>1 DEF Ignore, NoCall, machineVars, Idle
<1>2. ASSUME NEW st, DropAll(n, st)
      PROVE  (n # m => Idle(m)) /\ (n = m => Becomes(m, "Released"))
  <2>1. Become(n, "Released", {}, {}) /\ calls' = calls
    BY <1>2 DEF DropAll, NoCall
  <2> QED BY <1>0, <2>1, Machine DEF Idle, Becomes
<1>3. ASSUME NEW st, CloseComplete(n, st)
      PROVE  /\ state[n] = "Releasing"
             /\ n # m => Idle(m)
             /\ n = m => Becomes(m, "Released") \/ Requests(m)
  <2>1. CASE Become(n, "Released", {}, {}) /\ NoCall
    <3>1. calls' = calls
      BY <2>1 DEF NoCall
    <3> QED BY <1>0, <1>3, <2>1, <3>1, Machine DEF Idle, Becomes, CloseComplete
  <2>2. CASE Become(n, "Pending", active[n], {}) /\ Call(n, "request")
    BY <1>0, <1>3, <2>2, CallAndBecome DEF Requests, CloseComplete
  <2>3. CASE Become(n, "Pending", active[n], {}) /\ n = "ds" /\ \E h \in active[n] : DataCallFails(h)
    <3>1. calls' = calls
      BY <2>3 DEF DataCallFails
    <3> QED BY <1>0, <1>3, <2>3, <3>1, Machine DEF Idle, CloseComplete
  <2> QED BY <1>3, <2>1, <2>2, <2>3 DEF CloseComplete
<1>4. state[n] \in States
  BY DEF MachineInv
<1>5. CASE e = "granted" /\ Granted(n)
  <2>1. CASE state[n] = "Pending" /\ Become(n, "Acquired", active[n], inactive[n]) /\ NoCall
    <3>1. calls' = calls
      BY <2>1 DEF NoCall
    <3> QED BY <1>0, <1>5, <2>1, <3>1, Machine DEF Idle, Becomes, Hears
  <2>2. CASE state[n] # "Pending" /\ Ignore
    BY <1>1, <1>5, <2>2 DEF Hears
  <2> QED BY <1>5, <2>1, <2>2 DEF Granted
<1>6. ASSUME Denied(n)
      PROVE  /\ n # m => Idle(m)
             /\ n = m /\ state[m] = "Pending" => Becomes(m, "Released")
  <2>1. CASE state[n] = "Pending" /\ DropAll(n, "denied")
    BY <1>2, <2>1
  <2>2. CASE CloseComplete(n, "denied")
    BY <1>3, <2>2
  <2>3. CASE state[n] \in {"Released", "Acquired"} /\ Ignore
    BY <1>1, <2>3
  <2> QED BY <1>6, <2>1, <2>2, <2>3 DEF Denied
<1>7. CASE e = "denied" /\ Denied(n)
  BY <1>6, <1>7 DEF Hears
<1>8. CASE e = "released" /\ Released(n)
  <2>1. CASE state[n] = "Acquired" /\ DropAll(n, "released")
    BY <1>2, <1>8, <2>1 DEF Hears
  <2>2. CASE CloseComplete(n, "released")
    BY <1>3, <1>8, <2>2 DEF Hears
  <2>3. CASE state[n] \in {"Released", "Pending"} /\ (IF n = "ds" THEN Denied(n) ELSE Ignore)
    BY <1>0, <1>1, <1>6, <1>8, <2>3 DEF Hears
  <2> QED BY <1>8, <2>1, <2>2, <2>3 DEF Released
<1> QED BY <1>5, <1>7, <1>8 DEF HandleEvent

(* Between a machine and its opener is what links them.                    *)
Linked(m) == \E es : Says(m, es) /\ Link(state[m], calls[m], conn[m], es)

AllLinked == \A m \in Framework : (m = "agnss" => OneEmergencySession) => Linked(m)
LinkInv   == patient => AllLinked

LEMMA HandlerLinks ==
  ASSUME Inv, AllSettled, EsElsewhere, Handle,
         NEW m \in Framework, m = "agnss" => OneEmergencySession, Linked(m)
  PROVE  Linked(m)'
<1> DEFINE msg == Head(queue)
<1>1. MachineInv /\ CallsTyped /\ QueueInv
  BY SeqMonotonic DEF Inv, RestInv, Expected, Handle, QueueInv, CallsTyped
<1>2. msg \in Expected /\ msg \in Messages /\ m \in Machines /\ conn' = conn
  BY <1>1, HeadTailProperties DEF Inv, RestInv, Expected, QueueInv, Handle, Machines
<1>3. PICK es : Says(m, es) /\ Link(state[m], calls[m], conn[m], es)
  BY DEF Linked
<1>4. PICK s \in Seq(Messages) :
        queue' = rest \o s /\ \A k \in 1 .. Len(s) : \E h \in Clients : s[k] = Request(h, "agnss")
  BY HandlerPosts DEF FallsBackOnly
<1>5. Answerless(m, s)
  <2> SUFFICES ASSUME NEW k \in 1 .. Len(s), AnswerOf(m, s[k]) PROVE FALSE
    BY DEF Answerless
  <2>1. PICK h \in Clients, e \in Events : s[k] = Request(h, "agnss") /\ s[k] = RsrcEvent(m, e)
    BY <1>4 DEF AnswerOf
  <2>2. Request(h, "agnss").type = "request" /\ RsrcEvent(m, e).type = "event"
    BY DEF Request, RsrcEvent
  <2> QED BY <2>1, <2>2
<1>6. ASSUME ~AnswerOf(m, msg),
             \/ Idle(m)
             \/ state[m] = "Released" /\ Requests(m)
             \/ /\ state[m] = "Acquired" /\ state'[m] \in {"Releasing", "Released"}
                /\ calls'[m] = Append(calls[m], "release")
             \/ state[m] = "Releasing" /\ Becomes(m, "Released")
      PROVE  Linked(m)'
  <2>1. Says(m, es)'
    BY <1>1, <1>3, <1>4, <1>5, <1>6, SaysStill DEF QueueInv
  <2>2. Link(state'[m], calls'[m], conn'[m], es)
    <3>1. CASE Idle(m)
      BY <1>2, <1>3, <3>1 DEF Idle
    <3>2. CASE state[m] = "Released" /\ Requests(m)
      BY <1>2, <1>3, <3>2, LinkRequested DEF Requests
    <3>3. CASE /\ state[m] = "Acquired" /\ state'[m] \in {"Releasing", "Released"}
               /\ calls'[m] = Append(calls[m], "release")
      BY <1>2, <1>3, <3>3, LinkReleased
    <3>4. CASE state[m] = "Releasing" /\ Becomes(m, "Released")
      BY <1>2, <1>3, <3>4, LinkGivenUp DEF Becomes
    <3> QED BY <1>6, <3>1, <3>2, <3>3, <3>4
  <2> QED BY <2>1, <2>2 DEF Linked, Link
<1>7. ASSUME NEW e \in Events, msg = RsrcEvent(m, e), Hears(m, e)
      PROVE  Linked(m)'
  <2>1. es # <<>> /\ Head(es) = e /\ Says(m, Tail(es))'
    BY <1>1, <1>3, <1>4, <1>5, <1>7, SaysLess DEF QueueInv
  <2>2. \/ e = "released" /\ state[m] = "Acquired" /\ Link("Released", calls[m], conn[m], Tail(es))
        \/ e = "released" /\ state[m] = "Releasing" /\ Link("Released", calls[m], conn[m], Tail(es))
        \/ e = "released" /\ state[m] \in {"Released", "Pending"} /\ Link(state[m], calls[m], conn[m], Tail(es))
        \/ e = "granted" /\ state[m] = "Pending" /\ Link("Acquired", calls[m], conn[m], Tail(es))
        \/ e = "denied" /\ state[m] = "Pending" /\ Link("Released", calls[m], conn[m], Tail(es))
    BY <1>3, <2>1, LinkHeard
  <2>3. Link(state'[m], calls'[m], conn'[m], Tail(es))
    <3>1. CASE e = "released" /\ state[m] = "Acquired" /\ Link("Released", calls[m], conn[m], Tail(es))
      BY <1>2, <1>7, <3>1 DEF Hears, Becomes
    <3>2. CASE e = "released" /\ state[m] = "Releasing" /\ Link("Released", calls[m], conn[m], Tail(es))
      <4>1. Becomes(m, "Released") \/ Requests(m)
        BY <1>7, <3>2 DEF Hears
      <4>2. CASE Becomes(m, "Released")
        BY <1>2, <3>2, <4>2 DEF Becomes
      <4>3. CASE Requests(m)
        BY <1>2, <3>2, <4>3, LinkRequested DEF Requests
      <4> QED BY <4>1, <4>2, <4>3
    <3>3. CASE e = "released" /\ state[m] \in {"Released", "Pending"} /\ Link(state[m], calls[m], conn[m], Tail(es))
      BY <1>2, <1>7, <3>3 DEF Hears, Idle
    <3>4. CASE e = "granted" /\ state[m] = "Pending" /\ Link("Acquired", calls[m], conn[m], Tail(es))
      BY <1>2, <1>7, <3>4 DEF Hears, Becomes
    <3>5. CASE e = "denied" /\ state[m] = "Pending" /\ Link("Released", calls[m], conn[m], Tail(es))
      BY <1>2, <1>7, <3>5 DEF Hears, Becomes
    <3> QED BY <2>2, <3>1, <3>2, <3>3, <3>4, <3>5
  <2> DEFINE t == Tail(es)
  <2>4. Says(m, t)' /\ Link(state'[m], calls'[m], conn'[m], t)
    BY <2>1, <2>3
  <2> HIDE DEF t
  <2> QED BY <2>4 DEF Linked, Link
<1>8. msg.type # "event" => ~AnswerOf(m, msg)
  <2>1. \A e : RsrcEvent(m, e).type = "event"
    BY DEF RsrcEvent
  <2> QED BY <2>1 DEF AnswerOf
<1>9. CASE msg.type = "request" /\ Subscribe(msg.machine, msg.client)
  <2>1. msg.machine \in Machines
    BY <1>2, <1>9, Reading
  <2> QED BY <1>1, <1>6, <1>8, <1>9, <2>1, SubscribeEdge
<1>10. CASE msg.type = "release" /\ HandleRelease(msg.client)
  <2>1. msg = Release(msg.client) /\ msg.client \in Clients
    BY <1>2, <1>10, Reading, Naming
  <2>2. PICK d \in Clients : msg = Release(d) /\ HandleRelease(d)
    BY <1>10, <2>1
  <2>3. Going(d)
    <3>1. 1 \in 1 .. Len(queue) /\ queue[1] = msg
      BY <1>1, <1>4, Taken DEF QueueInv
    <3> QED BY <2>2, <3>1 DEF Going
  <2>4. d \in Subscribers(m) => Settled(d)
    <3>1. d \in EsClients /\ d \in Subscribers(m) => m = "agnss"
      BY DEF EsElsewhere, Framework
    <3>2. d \in Subscribers(m) => Alone(d)
      BY <3>1 DEF Alone
    <3> QED BY <3>2 DEF AllSettled
  <2> QED BY <1>1, <1>6, <1>8, <1>10, <2>2, <2>3, <2>4, ReleaseEdge
<1>11. CASE msg.type = "event" /\ HandleEvent(msg.machine, msg.event)
  <2>1. PICK n \in Machines, e \in Events : msg = RsrcEvent(n, e)
    <3>1. /\ (\A c, n : Request(c, n).type = "request") /\ \A d : Release(d).type = "release"
          /\ EngineUp.type = "engine up"
      BY DEF Request, Release, EngineUp
    <3>2. \/ \E c \in Clients, n \in Machines : msg = Request(c, n)
          \/ \E c \in Clients : msg = Release(c)
          \/ \E n \in Machines, e \in Events : msg = RsrcEvent(n, e)
          \/ msg = EngineUp
      BY <1>2 DEF Messages
    <3> QED BY <1>11, <3>1, <3>2
  <2>2. msg.machine = n /\ msg.event = e
    BY <2>1 DEF RsrcEvent
  <2>3. (n # m => Idle(m)) /\ (n = m => Hears(m, e))
    BY <1>1, <1>11, <2>2, EventEdge
  <2>4. n # m => ~AnswerOf(m, msg)
    BY <2>1, AnswersDiffer DEF AnswerOf
  <2> QED BY <1>6, <1>7, <2>1, <2>3, <2>4
<1>12. CASE msg.type = "engine up" /\ HandleEngineUp
  <2>1. Idle(m)
    BY <1>12 DEF HandleEngineUp, NoCall, Idle
  <2> QED BY <1>6, <1>8, <1>12, <2>1
<1> QED BY <1>9, <1>10, <1>11, <1>12 DEF Handle

LEMMA OthersLink ==
  ASSUME Inv, NEW m \in Framework, Linked(m),
         \/ RetryCallback
         \/ \E c \in Clients : ClientRequests(c) \/ ClientReleases(c)
         \/ ModemRestarts
         \/ \E n \in Machines : TakeCall(n) \/ OpenEnds(n) \/ ConnectionLost(n)
         \/ UNCHANGED vars
  PROVE  Linked(m)'
<1>1. queue \in Seq(Messages) /\ CallsTyped /\ m \in Machines /\ conn \in [Machines -> {"down", "opening", "up"}]
  BY SeqMonotonic DEF Inv, RestInv, Expected, CallsTyped, Machines
<1>2. PICK es : Says(m, es) /\ Link(state[m], calls[m], conn[m], es)
  BY DEF Linked
<1>3. ASSUME NEW msg \in Messages, ~AnswerOf(m, msg), queue' = Append(queue, msg)
      PROVE  Says(m, es)'
  <2>1. <<msg>> \in Seq(Messages) /\ Len(<<msg>>) = 1 /\ <<msg>>[1] = msg
    OBVIOUS
  <2>2. Answerless(m, <<msg>>)
    BY <1>3, <2>1 DEF Answerless
  <2>3. queue' = queue \o <<msg>>
    BY <1>1, <1>3, AppendIsConcat
  <2> QED BY <1>1, <1>2, <2>1, <2>2, <2>3, SaysNoMore
<1>4. ASSUME queue' = queue
      PROVE  Says(m, es)'
  BY <1>2, <1>4 DEF Says
<1>5. ASSUME Says(m, es)', state'[m] = state[m], calls'[m] = calls[m], conn'[m] = conn[m]
      PROVE  Linked(m)'
  <2>1. Link(state'[m], calls'[m], conn'[m], es)
    BY <1>2, <1>5
  <2> QED BY <1>5, <2>1 DEF Linked, Link
<1>6. CASE \/ RetryCallback
           \/ \E c \in Clients : ClientRequests(c) \/ ClientReleases(c)
           \/ ModemRestarts
  <2>1. UNCHANGED <<machineVars, openerVars>> /\ Says(m, es)'
    BY <1>3, <1>4, <1>6, ClientsPost
  <2> QED BY <1>5, <2>1 DEF machineVars, openerVars
<1>7. CASE UNCHANGED vars
  BY <1>4, <1>5, <1>7 DEF vars, machineVars, openerVars
<1>8. ASSUME NEW n \in Machines, n # m, TakeCall(n) \/ OpenEnds(n) \/ ConnectionLost(n)
      PROVE  Linked(m)'
  <2>1. \A e \in Events : RsrcEvent(n, e) \in Messages /\ ~AnswerOf(m, RsrcEvent(n, e))
    BY <1>8, AnswersDiffer DEF AnswerOf, Messages
  <2>2. Says(m, es)'
    BY <1>3, <1>4, <1>8, <2>1, OpenersPost
  <2> QED BY <1>1, <1>5, <1>8, <2>2, OpenersPost DEF machineVars
<1>9. ASSUME TakeCall(m) \/ OpenEnds(m) \/ ConnectionLost(m)
      PROVE  Linked(m)'
  <2>1. state' = state
    BY <1>9 DEF TakeCall, OpenEnds, ConnectionLost, Connect, machineVars
  <2>2. ASSUME NEW e \in Events, queue' = queue \o <<RsrcEvent(m, e)>>
        PROVE  Says(m, Append(es, e))'
    <3>1. queue' = Append(queue, RsrcEvent(m, e))
      BY <1>1, <2>2, AppendIsConcat DEF Messages
    <3> QED BY <1>1, <1>2, <3>1, SaysMore
  <2>3. ASSUME queue' = queue \o <<>>
        PROVE  Says(m, es)'
    BY <1>1, <1>4, <2>3, ConcatEmptySeq
  <2>4. ASSUME NEW t, Says(m, t)', Link(state[m], calls'[m], conn'[m], t)
        PROVE  Linked(m)'
    BY <2>1, <2>4 DEF Linked, Link
  <2>5. CASE TakeCall(m)
    <3>1. calls[m] # <<>> /\ calls'[m] = Tail(calls[m])
      BY <1>1, <2>5 DEF TakeCall, CallsTyped
    <3>2. CASE Head(calls[m]) = "request"
      <4>1. conn[m] # "up" /\ Link(state[m], Tail(calls[m]), "opening", es)
        BY <1>2, <3>1, <3>2, LinkTaken
      <4>2. Connect(m, "opening", <<>>)
        BY <2>5, <3>2, <4>1 DEF TakeCall
      <4>3. conn'[m] = "opening" /\ Says(m, es)'
        BY <1>1, <2>3, <4>2 DEF Connect
      <4> QED BY <2>4, <3>1, <4>1, <4>3
    <3>3. CASE Head(calls[m]) = "release" /\ conn[m] = "down"
      <4>1. Link(state[m], Tail(calls[m]), "down", es)
        BY <1>2, <3>1, <3>3, LinkTaken
      <4>2. Connect(m, "down", <<>>)
        BY <2>5, <3>3 DEF TakeCall
      <4>3. conn'[m] = "down" /\ Says(m, es)'
        BY <1>1, <2>3, <4>2 DEF Connect
      <4> QED BY <2>4, <3>1, <4>1, <4>3
    <3>4. CASE Head(calls[m]) = "release" /\ conn[m] # "down"
      <4>1. Link(state[m], Tail(calls[m]), "down", Append(es, "released"))
        BY <1>2, <3>1, <3>4, LinkTaken
      <4>2. Connect(m, "down", <<RsrcEvent(m, "released")>>)
        BY <2>5, <3>4 DEF TakeCall
      <4>3. conn'[m] = "down" /\ Says(m, Append(es, "released"))'
        BY <1>1, <2>2, <4>2 DEF Connect, Events
      <4> QED BY <2>4, <3>1, <4>1, <4>3
    <3> QED BY <2>5, <3>2, <3>3, <3>4 DEF TakeCall
  <2>6. CASE OpenEnds(m)
    <3>1. /\ conn[m] = "opening" /\ calls' = calls
          /\ \/ Connect(m, "up", <<RsrcEvent(m, "granted")>>)
             \/ Connect(m, "down", <<RsrcEvent(m, "denied")>>)
      BY <2>6 DEF OpenEnds, Framework
    <3>2. Link(state[m], calls[m], "up", Append(es, "granted")) /\ Link(state[m], calls[m], "down", Append(es, "denied"))
      BY <1>2, <3>1, LinkEnds
    <3>3. \/ conn'[m] = "up" /\ Says(m, Append(es, "granted"))'
          \/ conn'[m] = "down" /\ Says(m, Append(es, "denied"))'
      BY <1>1, <2>2, <3>1 DEF Connect, Events
    <3> QED BY <2>4, <3>1, <3>2, <3>3
  <2>7. CASE ConnectionLost(m)
    <3>1. conn[m] = "up" /\ calls' = calls /\ Connect(m, "down", <<RsrcEvent(m, "released")>>)
      BY <2>7 DEF ConnectionLost
    <3>2. Link(state[m], calls[m], "down", Append(es, "released"))
      BY <1>2, <3>1, LinkLost
    <3>3. conn'[m] = "down" /\ Says(m, Append(es, "released"))'
      BY <1>1, <2>2, <3>1 DEF Connect, Events
    <3> QED BY <2>4, <3>1, <3>2, <3>3
  <2> QED BY <1>9, <2>5, <2>6, <2>7
<1> QED BY <1>6, <1>7, <1>8, <1>9

LEMMA Linking == Spec => []LinkInv
<1>1. Init => LinkInv
  <2> SUFFICES ASSUME Init, NEW m \in Framework
               PROVE  Linked(m)
    BY DEF LinkInv, AllLinked
  <2>1. m \in Machines
    BY DEF Machines
  <2>2. state[m] = "Released" /\ calls[m] = <<>> /\ conn[m] = "down" /\ queue = <<>>
    BY <2>1 DEF Init
  <2>3. Says(m, <<>>)
    BY <2>2, NothingSaid
  <2>4. Link(state[m], calls[m], conn[m], <<>>)
    BY <2>2 DEF Link
  <2> QED BY <2>3, <2>4 DEF Linked
<1>2. Inv /\ StepInv /\ EsElsewhere /\ LinkInv /\ [Next]_vars => LinkInv'
  <2> SUFFICES ASSUME Inv, StepInv, EsElsewhere, LinkInv, [Next]_vars, patient',
                      NEW m \in Framework, m = "agnss" => OneEmergencySession'
               PROVE  Linked(m)'
    BY DEF LinkInv, AllLinked
  <2>1. patient
    BY DEF Next, Handle, RetryCallback, ClientRequests, ClientReleases, ModemRestarts,
           TakeCall, OpenEnds, ConnectionLost, Connect, vars
  <2>2. m = "agnss" => OneEmergencySession
    BY StaysAlone
  <2>3. AllSettled /\ Linked(m)
    BY <2>1, <2>2 DEF StepInv, LinkInv, AllLinked
  <2> QED BY <2>2, <2>3, HandlerLinks, OthersLink DEF Next
<1> QED BY <1>1, <1>2, Invariance, Settling, StayingElsewhere, PTL DEF Spec

(* A machine of the framework's and its opener agree once their messages   *)
(* have arrived: no connection stays open that no machine knows of, and no *)
(* machine relies on one that is gone.                                     *)
THEOREM InStepWithOpeners == Spec => []InStepWithOpener
<1>1. Inv /\ LinkInv => InStepWithOpener
  <2> SUFFICES ASSUME Inv, LinkInv, patient, NEW m \in Framework, Quiet(m), m = "agnss" => OneEmergencySession
               PROVE  /\ state[m] = "Acquired" <=> conn[m] = "up"
                      /\ state[m] = "Pending" <=> conn[m] = "opening"
    BY DEF InStepWithOpener
  <2>1. queue \in Seq(Messages)
    BY SeqMonotonic DEF Inv, RestInv, Expected
  <2>2. PICK es : Says(m, es) /\ Link(state[m], calls[m], conn[m], es)
    BY DEF LinkInv, AllLinked, Linked
  <2>3. es = <<>> /\ calls[m] = <<>>
    BY <2>1, <2>2, QuietSays DEF Quiet
  <2>4. Link(state[m], <<>>, conn[m], <<>>)
    BY <2>2, <2>3
  <2>5. \A e : Append(<<>>, e) # <<>> /\ Append(<<"released">>, e) # <<>>
    OBVIOUS
  <2>6. \A e : Append(Append(<<>>, "granted"), e) # <<>> /\ Append(Append(<<"released">>, "granted"), e) # <<>>
    OBVIOUS
  <2>7. state[m] = "Pending" => conn[m] = "opening"
    <3> SUFFICES ASSUME state[m] = "Pending" PROVE conn[m] = "opening"
      OBVIOUS
    <3>1. PendingLink(<<>>, conn[m], <<>>)
      BY <2>4 DEF Link
    <3> QED BY <2>5, <2>6, <3>1, Calls DEF PendingLink, Stale
  <2>8. \/ state[m] = "Acquired" /\ conn[m] = "up"
        \/ state[m] = "Pending"
        \/ state[m] = "Released" /\ conn[m] = "down"
    <3>1. <<"released">> # <<>>
      OBVIOUS
    <3> QED BY <2>4, <3>1, Calls DEF Link
  <2> QED BY <2>7, <2>8
<1> QED BY <1>1, Invariance, Linking, PTL
============================================================================
