--------------------------- MODULE NiSessions_proofs ---------------------------
(***************************************************************************)
(* Proofs about NiSessions, for any bounds: every state is well typed, a   *)
(* session that holds a request has a thread that will clear it, a request *)
(* is answered and freed once, and prompt answers are the request's own.   *)
(***************************************************************************)
EXTENDS NiSessions, TLAPS

\* A request that has been accepted, whether or not it has its reqID yet.
Issued(n) == n =< reqIDCounter \/ (task = "accepted" /\ n = reqIDCounter + 1)

(* Where the message task is, and which threads have not been created.     *)
TaskInv ==
  /\ task = "accepted" => reqIDCounter + 1 \in Requests /\ kind[reqIDCounter + 1] = on
  /\ task = "identified" => reqIDCounter \in Requests /\ kind[reqIDCounter] = on
  /\ task \in {"restart", "wake"} => restarts # 0
  /\ \A n \in Requests :
       n > reqIDCounter \/ (task = "identified" /\ n = reqIDCounter) => pc[n] = "none"

(* What a session holds was accepted for it; while the task sets it up it  *)
(* is the newest request.                                                  *)
HoldInv ==
  \A s \in Sessions : rawRequest[s] # NULL =>
    /\ kind[rawRequest[s]] = s
    /\ Issued(rawRequest[s])
    /\ task = "accepted" /\ on = s => rawRequest[s] = reqIDCounter + 1
    /\ task = "identified" /\ on = s => rawRequest[s] = reqIDCounter

TypeInv == TypeOK /\ TaskInv /\ HoldInv

\* A message about n is on its way to the modem.
InMessage(n) == (\E t \in Requests : \E a \in msg[t] : a.request = n) \/ \E a \in outbox : a.request = n

(* A request is in one place: in a session whose thread has not made an    *)
(* answer of it, in one message, or with the modem.                        *)
PlaceInv ==
  /\ \A t \in Requests, u \in Requests : \A a \in msg[t], b \in msg[u] :
       a.request = b.request => t = u /\ a = b
  /\ \A t \in Requests : \A a \in msg[t], b \in outbox : a.request # b.request
  /\ \A a \in outbox, b \in outbox : a.request = b.request => a = b
  /\ \A n \in Requests : InMessage(n) => informed[n] = <<>> /\ Issued(n)
  /\ \A n \in Requests : informed[n] # <<>> => Issued(n) /\ Len(informed[n]) = 1
  /\ \A s \in Sessions : rawRequest[s] # NULL /\ tLock[s] = NULL =>
       ~InMessage(rawRequest[s]) /\ informed[rawRequest[s]] = <<>>

(* Until the modem restarts it has been freed only when it is in none.     *)
FreeInv ==
  restarts = 0 =>
    /\ \A n \in Requests : InMessage(n) => freed[n] = 0
    /\ \A n \in Requests : freed[n] # 0 => Issued(n) /\ freed[n] = 1
    /\ \A s \in Sessions : rawRequest[s] # NULL /\ tLock[s] = NULL => freed[rawRequest[s]] = 0
----------------------------------------------------------------------------
USE DEF Sessions, Requests, NULL

(* An answer the thread makes is one.                                      *)
LEMMA MessageType ==
  ASSUME NEW m \in Requests, NEW r \in Responses \cup {"unset"}
  PROVE  Message(m, r) \in SUBSET Answers
BY DEF Message, Answer, Answers

(* Threads and the user leave the task alone and give no session a request.*)
LEMMA RestKept ==
  ASSUME TypeInv, UNCHANGED <<requestVars, taskVars, restarts>>,
         \A s \in Sessions : rawRequest'[s] \in {rawRequest[s], NULL},
         \A t \in Requests : pc[t] = "none" => pc'[t] = "none"
  PROVE  TaskInv' /\ HoldInv'
<1>1. TaskInv'
  BY DEF TypeInv, TaskInv, requestVars, taskVars
<1>2. HoldInv'
  BY DEF TypeInv, HoldInv, Issued, requestVars, taskVars
<1> QED BY <1>1, <1>2

(* The end of the wait keeps the types.                                    *)
LEMMA FinishTypes ==
  ASSUME TypeInv, NEW n \in Requests, NEW r \in Responses \cup {"unset"},
         pc[n] \in {"start", "waiting"}, tLock[kind[n]] = NULL,
         Finish(n, kind[n], r), resp' \in [Sessions -> Responses \cup {"unset"}], ThreadOnly
  PROVE  TypeInv'
<1> USE DEF TypeInv
<1>0. kind[n] \in Sessions /\ n \in Nat /\ n # NULL
  BY NiAssumption DEF TypeOK, NiAssumption
<1>1. CASE rawRequest[kind[n]] = NULL
  <2>1. TypeOK'
    <3>1. \A s \in Sessions, t \in Requests : (tLock[s] = t <=> pc[t] = "clearing" /\ kind[t] = s)'
      <4>1. pc' = [pc EXCEPT ![n] = "forgetting"] /\ tLock' = tLock /\ kind' = kind
        BY <1>1 DEF Finish, ThreadOnly, requestVars
      <4>2. \A s \in Sessions, t \in Requests : (tLock[s] = t <=> pc[t] = "clearing" /\ kind[t] = s)
        BY DEF TypeOK
      <4>3. DOMAIN pc = Requests /\ DOMAIN tLock = Sessions /\ pc[n] # "clearing"
        BY DEF TypeOK
      <4> QED BY <1>0, <4>1, <4>2, <4>3
    <3>2. pc' \in [Requests -> {"none", "failed", "start", "waiting", "clearing", "forgetting",
                                "sending", "done"}]
      BY SMTT(60), <1>1 DEF TypeOK, Finish
    <3>3. respRecvd' \in [Sessions -> BOOLEAN] /\ tLock' \in [Sessions -> Requests \cup {NULL}]
      BY <1>0, <1>1 DEF TypeOK, Finish, ResetFlag
    <3> QED BY <3>1, <3>2, <3>3, <1>1 DEF TypeOK, Finish, ThreadOnly, requestVars, taskVars, userVars
  <2>2. TaskInv' /\ HoldInv'
    BY <1>0, <1>1, <2>1 DEF TypeOK, TaskInv, HoldInv, Issued, Finish, ThreadOnly, requestVars, taskVars
  <2> QED BY <2>1, <2>2
<1>2. CASE rawRequest[kind[n]] # NULL
  <2>0. rawRequest[kind[n]] \in Requests
    BY <1>0, <1>2 DEF TypeOK
  <2>1. Message(rawRequest[kind[n]], r) \in SUBSET Answers
    BY <2>0, MessageType
  <2>2. msg' \in [Requests -> SUBSET Answers]
    BY <1>2, <2>1 DEF Finish, TypeOK
  <2>3. freed' \in [Requests -> Nat]
    BY <1>2, <2>0 DEF Finish, TypeOK
  <2>4. TypeOK'
    <3>1. \A s \in Sessions, t \in Requests : (tLock[s] = t <=> pc[t] = "clearing" /\ kind[t] = s)'
      <4>1. pc' = [pc EXCEPT ![n] = "clearing"] /\ tLock' = [tLock EXCEPT ![kind[n]] = n] /\ kind' = kind
        BY <1>2 DEF Finish, ThreadOnly, requestVars
      <4>2. \A s \in Sessions, t \in Requests : (tLock[s] = t <=> pc[t] = "clearing" /\ kind[t] = s)
        BY DEF TypeOK
      <4>3. DOMAIN pc = Requests /\ DOMAIN tLock = Sessions /\ pc[n] # "clearing"
        BY DEF TypeOK
      <4> QED BY <1>0, <4>1, <4>2, <4>3
    <3>2. pc' \in [Requests -> {"none", "failed", "start", "waiting", "clearing", "forgetting",
                                "sending", "done"}]
      BY <1>2 DEF TypeOK, Finish
    <3>3. respRecvd' \in [Sessions -> BOOLEAN] /\ tLock' \in [Sessions -> Requests \cup {NULL}]
      BY <1>0, <1>2 DEF TypeOK, Finish, ResetFlag
    <3> QED BY <3>1, <3>2, <3>3, <1>2, <2>2, <2>3 DEF TypeOK, Finish, ThreadOnly, requestVars, taskVars, userVars
  <2>5. TaskInv' /\ HoldInv'
    BY <1>0, <1>2, <2>4 DEF TypeOK, TaskInv, HoldInv, Issued, Finish, ThreadOnly, requestVars, taskVars
  <2> QED BY <2>4, <2>5
<1> QED BY <1>1, <1>2

(* What the message task does keeps the types.                             *)
LEMMA TaskTypes ==
  ASSUME TypeInv,
         (\E s \in Sessions : Accept(s)) \/ EngineDown \/ TaskGoesOn
  PROVE  TypeInv'
<1> USE NiAssumption DEF NiAssumption, TypeInv
<1>1. ASSUME NEW s \in Sessions, Accept(s) PROVE TypeInv'
  <2>0. reqIDCounter + 1 \in Requests /\ pc[reqIDCounter + 1] = "none"
    BY <1>1 DEF Accept, TypeOK, TaskInv
  <2>1. TypeOK'
    BY <1>1, <2>0 DEF Accept, TypeOK, threadVars, userVars, fates
  <2>2. TaskInv' /\ HoldInv'
    BY SMTT(60), <1>1, <2>0, <2>1 DEF Accept, TypeOK, TaskInv, HoldInv, Issued, threadVars
  <2> QED BY <2>1, <2>2
<1>2. ASSUME EngineDown PROVE TypeInv'
  <2>1. TypeOK'
    BY <1>2 DEF EngineDown, TypeOK, sessionVars, requestVars, threadVars, userVars, fates
  <2>2. TaskInv' /\ HoldInv'
    BY <1>2, <2>1 DEF EngineDown, TypeOK, TaskInv, HoldInv, Issued, sessionVars, requestVars, threadVars
  <2> QED BY <2>1, <2>2
<1>3. ASSUME Identify PROVE TypeInv'
  <2>1. TypeOK'
    BY <1>3 DEF Identify, TypeOK, TaskInv, threadVars, userVars, fates
  <2>2. TaskInv' /\ HoldInv'
    <3>1. /\ task = "accepted" /\ task' = "identified" /\ reqIDCounter' = reqIDCounter + 1
          /\ UNCHANGED <<rawRequest, kind, pc, on, restarts>>
          /\ reqIDCounter \in Nat
      BY <1>3 DEF Identify, threadVars, TypeOK
    <3>2. \A t \in Requests : t > reqIDCounter + 1 \/ t = reqIDCounter + 1 => t > reqIDCounter
      BY <3>1
    <3>3. TaskInv'
      BY <3>1, <3>2 DEF TaskInv
    <3>4. \A t \in Requests : t =< reqIDCounter => t =< reqIDCounter + 1
      BY <3>1
    <3>5. \A s \in Sessions : rawRequest[s] # NULL => rawRequest[s] \in Requests
      BY DEF TypeOK
    <3>6. HoldInv'
      BY <3>1, <3>4, <3>5 DEF HoldInv, Issued
    <3> QED BY <3>3, <3>6
  <2> QED BY <2>1, <2>2
<1>4. ASSUME Spawn PROVE TypeInv'
  <2>1. PICK q \in {"start", "failed"} : pc' = [pc EXCEPT ![reqIDCounter] = q]
    BY <1>4 DEF Spawn
  <2>2. reqIDCounter \in Requests /\ pc[reqIDCounter] = "none"
    BY <1>4 DEF Spawn, TypeOK, TaskInv
  <2>3. TypeOK'
    <3>1. pc' \in [Requests -> {"none", "failed", "start", "waiting", "clearing", "forgetting",
                                "sending", "done"}]
      BY <2>1, <2>2 DEF TypeOK
    <3>2. \A s \in Sessions, t \in Requests : (tLock[s] = t <=> pc[t] = "clearing" /\ kind[t] = s)'
      <4>1. \A s \in Sessions, t \in Requests : (tLock[s] = t <=> pc[t] = "clearing" /\ kind[t] = s)
        BY DEF TypeOK
      <4>2. tLock' = tLock /\ kind' = kind /\ q # "clearing" /\ DOMAIN pc = Requests
        BY <1>4, <2>1 DEF Spawn, sessionVars, requestVars, TypeOK
      <4> QED BY <2>1, <2>2, <4>1, <4>2
    <3> QED BY <1>4, <3>1, <3>2 DEF Spawn, TypeOK, sessionVars, requestVars, userVars, fates
  <2>4. TaskInv' /\ HoldInv'
    BY SMTT(60), <1>4, <2>1, <2>2, <2>3 DEF Spawn, TypeOK, TaskInv, HoldInv, Issued, sessionVars, requestVars
  <2> QED BY <2>3, <2>4
<1>5. ASSUME HandleAnswer PROVE TypeInv'
  <2>1. PICK b \in outbox :
          /\ outbox' = outbox \ {b}
          /\ informed' = [informed EXCEPT ![b.request] = Append(@, b.response)]
          /\ freed' = [freed EXCEPT ![b.request] = @ + 1]
    BY <1>5 DEF HandleAnswer
  <2>2. b.request \in Requests /\ b.response \in Responses \cup {"unset"}
    BY DEF TypeOK, Answers
  <2>3. informed' \in [Requests -> Seq(Responses \cup {"unset"})]
    BY SMTT(60), <2>1, <2>2 DEF TypeOK
  <2>4. outbox' \in SUBSET Answers /\ freed' \in [Requests -> Nat]
    BY SMTT(60), <2>1, <2>2 DEF TypeOK
  <2>5. TypeOK'
    BY SMTT(60), <1>5, <2>3, <2>4 DEF HandleAnswer, TypeOK, sessionVars, requestVars, threadVars, taskVars, userVars
  <2>6. TaskInv' /\ HoldInv'
    BY <1>5, <2>5 DEF HandleAnswer, TypeOK, TaskInv, HoldInv, Issued, sessionVars, requestVars,
                      threadVars, taskVars
  <2> QED BY <2>5, <2>6
<1>6. ASSUME RestartFree PROVE TypeInv'
  <2>1. TypeOK'
    <3>1. freed' \in [Requests -> Nat]
      <4>1. CASE rawRequest[on] = NULL
        BY <1>6, <4>1 DEF RestartFree, TypeOK
      <4>2. CASE rawRequest[on] # NULL
        <5>1. rawRequest[on] \in Requests
          BY <4>2 DEF TypeOK
        <5>2. freed' = [freed EXCEPT ![rawRequest[on]] = @ + 1] /\ freed \in [Requests -> Nat]
          BY <1>6, <4>2 DEF RestartFree, TypeOK
        <5> QED BY <5>1, <5>2
      <4> QED BY <4>1, <4>2
    <3>2. rawRequest' \in [Sessions -> Requests \cup {NULL}]
      BY <1>6 DEF RestartFree, TypeOK
    <3>3. task' \in {"idle", "accepted", "identified", "restart", "wake"} /\ on' \in Sessions
      BY <1>6 DEF RestartFree, NextSession, TypeOK
    <3> QED BY <1>6, <3>1, <3>2, <3>3 DEF RestartFree, TypeOK, requestVars, threadVars, userVars
  <2>2. TaskInv' /\ HoldInv'
    BY <1>6, <2>1 DEF RestartFree, NextSession, TypeOK, TaskInv, HoldInv, Issued, requestVars, threadVars
  <2> QED BY <2>1, <2>2
<1>7. ASSUME RestartWake PROVE TypeInv'
  <2>1. TypeOK'
    BY <1>7 DEF RestartWake, NextSession, TypeOK, requestVars, threadVars, userVars, fates
  <2>2. TaskInv' /\ HoldInv'
    BY <1>7, <2>1 DEF RestartWake, NextSession, TypeOK, TaskInv, HoldInv, Issued, requestVars, threadVars
  <2> QED BY <2>1, <2>2
<1> QED BY <1>1, <1>2, <1>3, <1>4, <1>5, <1>6, <1>7 DEF TaskGoesOn

(* What a request's thread does keeps the types.                           *)
LEMMA ThreadTypes ==
  ASSUME TypeInv, NEW n \in Requests, Thread(n)
  PROVE  TypeInv'
<1> USE NiAssumption DEF NiAssumption, TypeInv
<1>0. kind[n] \in Sessions /\ n # NULL
  BY DEF TypeOK
<1>1. ASSUME pc[n] \in {"start", "waiting"}, tLock[kind[n]] = NULL, UNCHANGED resp, ThreadOnly,
             Finish(n, kind[n], resp[kind[n]])
      PROVE  TypeInv'
  BY <1>0, <1>1, FinishTypes DEF TypeOK
<1>2. ASSUME Start(n) PROVE TypeInv'
  <2>1. CASE respRecvd[kind[n]]
    BY <1>1, <1>2, <2>1 DEF Start
  <2>2. CASE ~respRecvd[kind[n]]
    <3>1. TypeOK'
      <4>1. \A s \in Sessions, t \in Requests : (tLock[s] = t <=> pc[t] = "clearing" /\ kind[t] = s)'
        <5>1. \A s \in Sessions, t \in Requests : (tLock[s] = t <=> pc[t] = "clearing" /\ kind[t] = s)
          BY DEF TypeOK
        <5>2. pc' = [pc EXCEPT ![n] = "waiting"] /\ tLock' = tLock /\ kind' = kind
          BY <1>2, <2>2 DEF Start, ThreadOnly, requestVars
        <5>3. pc[n] = "start" /\ DOMAIN pc = Requests
          BY <1>2 DEF Start, TypeOK
        <5> QED BY <5>1, <5>2, <5>3
      <4>2. pc' \in [Requests -> {"none", "failed", "start", "waiting", "clearing", "forgetting",
                                  "sending", "done"}]
        <5>1. pc' = [pc EXCEPT ![n] = "waiting"]
          BY <1>2, <2>2 DEF Start
        <5> QED BY <5>1 DEF TypeOK
      <4> QED BY SMTT(60), <1>2, <2>2, <4>1, <4>2 DEF Start, ThreadOnly, TypeOK, requestVars, taskVars, userVars
    <3>2. TaskInv' /\ HoldInv'
      BY <1>2, <2>2, <3>1 DEF Start, ThreadOnly, TypeOK, TaskInv, HoldInv, Issued, requestVars, taskVars
    <3> QED BY <3>1, <3>2
  <2> QED BY <2>1, <2>2
<1>3. ASSUME Resume(n) PROVE TypeInv'
  BY <1>1, <1>3 DEF Resume
<1>4. ASSUME Timeout(n) PROVE TypeInv'
  <2>1. resp' \in [Sessions -> Responses \cup {"unset"}]
    BY <1>0, <1>4 DEF Timeout, TypeOK, Responses
  <2>2. "NORESP" \in Responses \cup {"unset"}
    BY DEF Responses
  <2> QED BY <1>4, <2>1, <2>2, FinishTypes DEF Timeout
<1>5. ASSUME Clear(n) PROVE TypeInv'
  <2>1. rawRequest' = [rawRequest EXCEPT ![kind[n]] = NULL] /\ pc[n] = "clearing"
    BY <1>5 DEF Clear
  <2>2. \A s \in Sessions, t \in Requests : (tLock[s] = t <=> pc[t] = "clearing" /\ kind[t] = s)'
    <3>1. \A s \in Sessions, t \in Requests : (tLock[s] = t <=> pc[t] = "clearing" /\ kind[t] = s)
      BY DEF TypeOK
    <3>2. /\ tLock' = [tLock EXCEPT ![kind[n]] = NULL]
          /\ pc' = [pc EXCEPT ![n] = "forgetting"]
          /\ kind' = kind /\ DOMAIN pc = Requests /\ DOMAIN tLock = Sessions
      BY <1>5 DEF Clear, Leave, requestVars, TypeOK
    <3>3. \A t \in Requests : t # NULL
      OBVIOUS
    <3> QED BY <1>0, <2>1, <3>1, <3>2, <3>3
  <2>3. TypeOK'
    BY SMTT(60), <1>5, <2>1, <2>2 DEF Clear, Leave, TypeOK, requestVars, taskVars, userVars, fates
  <2>4. TaskInv' /\ HoldInv'
    <3>1. UNCHANGED <<requestVars, taskVars, restarts>>
      BY <1>5 DEF Clear, Leave
    <3>2. \A s \in Sessions : rawRequest'[s] \in {rawRequest[s], NULL}
      BY <1>5 DEF Clear, Leave, TypeOK
    <3>3. \A t \in Requests : pc[t] = "none" => pc'[t] = "none"
      BY <1>5 DEF Clear, Leave, TypeOK
    <3> QED BY <3>1, <3>2, <3>3, RestKept
  <2> QED BY <2>3, <2>4
<1>6. ASSUME Forget(n) PROVE TypeInv'
  <2>1. TypeOK'
    BY <1>6 DEF Forget, TypeOK, requestVars, taskVars, userVars, fates
  <2>2. TaskInv' /\ HoldInv'
    <3>1. UNCHANGED <<requestVars, taskVars, restarts>>
      BY <1>6 DEF Forget
    <3>2. \A s \in Sessions : rawRequest'[s] \in {rawRequest[s], NULL}
      BY <1>6 DEF Forget, TypeOK
    <3>3. \A t \in Requests : pc[t] = "none" => pc'[t] = "none"
      BY <1>6 DEF Forget, TypeOK
    <3> QED BY <3>1, <3>2, <3>3, RestKept
  <2> QED BY <2>1, <2>2
<1>7. ASSUME Send(n) PROVE TypeInv'
  <2>1. TypeOK'
    BY <1>7 DEF Send, TypeOK, sessionVars, requestVars, taskVars, userVars, fates
  <2>2. TaskInv' /\ HoldInv'
    <3>1. UNCHANGED <<requestVars, taskVars, restarts>>
      BY <1>7 DEF Send
    <3>2. \A s \in Sessions : rawRequest'[s] \in {rawRequest[s], NULL}
      BY <1>7 DEF Send, sessionVars, TypeOK
    <3>3. \A t \in Requests : pc[t] = "none" => pc'[t] = "none"
      BY <1>7 DEF Send, TypeOK
    <3> QED BY <3>1, <3>2, <3>3, RestKept
  <2> QED BY <2>1, <2>2
<1> QED BY <1>2, <1>3, <1>4, <1>5, <1>6, <1>7 DEF Thread
(* What the user's call does keeps the types.                              *)
LEMMA UserTypes ==
  ASSUME TypeInv,
         (\E n \in Requests, r \in UserResponses : Respond(n, r)) \/ UserGoesOn
  PROVE  TypeInv'
<1> USE DEF TypeInv
<1>1. ASSUME NEW n \in Requests, NEW r \in UserResponses, Respond(n, r) PROVE TypeOK'
  BY <1>1 DEF Respond, TypeOK, sessionVars, requestVars, threadVars, taskVars, fates
<1>2. ASSUME NEW s \in Sessions, NEW r \in Responses, Store(s, r)
      PROVE  resp' \in [Sessions -> Responses \cup {"unset"}] /\ respRecvd' \in [Sessions -> BOOLEAN]
  BY <1>2 DEF Store, TypeOK
<1>3. ASSUME RespondIgnore PROVE TypeOK'
  <2>1. resp' \in [Sessions -> Responses \cup {"unset"}] /\ respRecvd' \in [Sessions -> BOOLEAN]
    BY <1>2, <1>3 DEF RespondIgnore, Responses
  <2> QED BY <1>3, <2>1 DEF RespondIgnore, Store, TypeOK, requestVars, threadVars, taskVars, fates
<1>4. ASSUME RespondSet PROVE TypeOK'
  <2>1. resp' \in [Sessions -> Responses \cup {"unset"}] /\ respRecvd' \in [Sessions -> BOOLEAN]
    BY <1>2, <1>4 DEF RespondSet, Responses, TypeOK
  <2> QED BY <1>4, <2>1 DEF RespondSet, Store, TypeOK, UserResponses, requestVars, threadVars,
                            taskVars, fates
<1>5. UNCHANGED <<rawRequest, pc, requestVars, taskVars, restarts>>
  BY DEF UserGoesOn, Respond, RespondIgnore, RespondSet, Store, sessionVars, threadVars
<1>6. TaskInv' /\ HoldInv'
  BY <1>5, RestKept
<1> QED BY <1>1, <1>3, <1>4, <1>6 DEF UserGoesOn

(* The inductive invariant holds in the first state and every step keeps   *)
(* it.                                                                     *)
LEMMA TypeStep == TypeInv /\ [Next]_vars => TypeInv'
<1> SUFFICES ASSUME TypeInv, [Next]_vars PROVE TypeInv'
  OBVIOUS
<1>1. CASE Next
  BY <1>1, TaskTypes, ThreadTypes, UserTypes DEF Next
<1>2. CASE UNCHANGED vars
  BY <1>2 DEF vars, sessionVars, requestVars, threadVars, taskVars, userVars, fates, TypeInv,
              TypeOK, TaskInv, HoldInv, Issued
<1> QED BY <1>1, <1>2

LEMMA InitTypes == Init => TypeInv
<1> SUFFICES ASSUME Init PROVE TypeInv
  OBVIOUS
<1>1. \A n \in Requests : n # 0 /\ n \in Nat
  BY NiAssumption DEF NiAssumption
<1>2. TypeOK
  BY <1>1, NiAssumption DEF Init, TypeOK, UserResponses, Responses, NiAssumption
<1>3. TaskInv /\ HoldInv
  BY <1>1 DEF Init, TaskInv, HoldInv
<1> QED BY <1>2, <1>3 DEF TypeInv

(* Every state is well typed; in particular tLock is held between two      *)
(* steps by just the thread that is clearing its session.                  *)
THEOREM TypeCorrect == Spec => []TypeOK
<1>1. TypeInv => TypeOK
  BY DEF TypeInv
<1> QED BY <1>1, InitTypes, TypeStep, PTL DEF Spec
----------------------------------------------------------------------------
(* A step that sets up no session keeps the threads of those that go on    *)
(* holding their request.                                                  *)
LEMMA ThreadsKept ==
  ASSUME TypeInv, SessionHasThread, UNCHANGED kind,
         task \in {"accepted", "identified"} => UNCHANGED <<task, on>>,
         \A s \in Sessions : rawRequest'[s] \in {rawRequest[s], NULL},
         \A n \in Requests : pc[n] = "failed" => pc'[n] = "failed",
         \A n \in Requests : pc[n] \in {"start", "waiting", "clearing"} =>
           pc'[n] \in {"start", "waiting", "clearing"} \/ rawRequest'[kind[n]] = NULL
  PROVE  SessionHasThread'
<1> SUFFICES ASSUME NEW s \in Sessions, rawRequest'[s] # NULL
             PROVE  \/ task' \in {"accepted", "identified"} /\ on' = s
                    \/ pc'[rawRequest'[s]] = "failed"
                    \/ \E n \in Requests : kind'[n] = s /\ pc'[n] \in {"start", "waiting", "clearing"}
  BY DEF SessionHasThread
<1>1. rawRequest'[s] = rawRequest[s] /\ rawRequest[s] \in Requests
  BY DEF TypeInv, TypeOK
<1>2. CASE task \in {"accepted", "identified"} /\ on = s
  BY <1>2
<1>3. CASE pc[rawRequest[s]] = "failed"
  BY <1>1, <1>3
<1>4. CASE \E n \in Requests : kind[n] = s /\ pc[n] \in {"start", "waiting", "clearing"}
  BY <1>4
<1> QED BY <1>1, <1>2, <1>3, <1>4 DEF SessionHasThread

LEMMA SessionHasThreadStep == TypeInv /\ SessionHasThread /\ [Next]_vars => SessionHasThread'
<1> SUFFICES ASSUME TypeInv, SessionHasThread, [Next]_vars PROVE SessionHasThread'
  OBVIOUS
<1>0. /\ DOMAIN pc = Requests /\ DOMAIN kind = Requests /\ DOMAIN rawRequest = Sessions
      /\ reqIDCounter \in Nat /\ on \in Sessions
      /\ \A n \in Requests : kind[n] \in Sessions
      /\ \A s \in Sessions : rawRequest[s] # NULL => rawRequest[s] \in Requests
  BY NiAssumption DEF TypeInv, TypeOK, NiAssumption
<1>1. ASSUME NEW s \in Sessions, Accept(s) PROVE SessionHasThread'
  <2>1. /\ task = "idle" /\ task' = "accepted" /\ on' = s /\ pc' = pc
        /\ kind' = [kind EXCEPT ![reqIDCounter + 1] = s]
        /\ \A t \in Sessions : t # s => rawRequest'[t] = rawRequest[t]
    BY <1>0, <1>1 DEF Accept, threadVars
  <2>2. \A n \in Requests : n = reqIDCounter + 1 => pc[n] = "none"
    BY <1>0 DEF TypeInv, TaskInv
  <2>3. \A n \in Requests : pc[n] # "none" => kind'[n] = kind[n]
    BY <1>0, <2>1, <2>2
  <2> QED BY <2>1, <2>3 DEF SessionHasThread
<1>2. ASSUME Identify PROVE SessionHasThread'
  BY <1>2 DEF Identify, SessionHasThread, threadVars
<1>3. ASSUME Spawn PROVE SessionHasThread'
  <2>1. PICK q \in {"start", "failed"} : pc' = [pc EXCEPT ![reqIDCounter] = q]
    BY <1>3 DEF Spawn
  <2>2. /\ task = "identified" /\ kind' = kind /\ rawRequest' = rawRequest
        /\ reqIDCounter \in Requests /\ kind[reqIDCounter] = on /\ pc[reqIDCounter] = "none"
    BY <1>3 DEF Spawn, TypeInv, TaskInv, sessionVars, requestVars
  <2>3. \A n \in Requests : pc[n] # "none" => pc'[n] = pc[n]
    BY <1>0, <2>1, <2>2
  <2>4. rawRequest[on] # NULL => rawRequest[on] = reqIDCounter
    BY <1>0, <2>2 DEF TypeInv, HoldInv
  <2>5. pc'[reqIDCounter] = q
    BY <1>0, <2>1, <2>2
  <2>6. ASSUME NEW s \in Sessions, rawRequest[s] # NULL, s # on
        PROVE  \/ pc'[rawRequest[s]] = "failed"
               \/ \E n \in Requests : kind[n] = s /\ pc'[n] \in {"start", "waiting", "clearing"}
    BY <1>0, <2>3, <2>6 DEF SessionHasThread
  <2>7. rawRequest[on] # NULL =>
          \/ pc'[rawRequest[on]] = "failed"
          \/ \E n \in Requests : kind[n] = on /\ pc'[n] \in {"start", "waiting", "clearing"}
    BY <2>2, <2>4, <2>5
  <2> QED BY <2>2, <2>6, <2>7 DEF SessionHasThread
<1>4. ASSUME HandleAnswer \/ EngineDown \/ RestartFree \/ RestartWake PROVE SessionHasThread'
  <2>1. UNCHANGED <<kind, pc>> /\ task \notin {"accepted", "identified"}
    BY <1>4 DEF HandleAnswer, EngineDown, RestartFree, RestartWake, requestVars, threadVars
  <2>2. \A s \in Sessions : rawRequest'[s] \in {rawRequest[s], NULL}
    BY <1>0, <1>4 DEF HandleAnswer, EngineDown, RestartFree, RestartWake, sessionVars
  <2> QED BY <2>1, <2>2, ThreadsKept
<1>5. ASSUME NEW n \in Requests, Thread(n) PROVE SessionHasThread'
  <2>1. UNCHANGED <<kind, task, on>>
    BY <1>5 DEF Thread, Start, Resume, Timeout, Clear, Leave, Forget, Send, ThreadOnly, requestVars, taskVars
  <2>2. \A s \in Sessions : rawRequest'[s] \in {rawRequest[s], NULL}
    BY <1>0, <1>5 DEF Thread, Start, Resume, Timeout, Clear, Forget, Send, ThreadOnly, sessionVars
  <2>3. pc[n] # "failed" /\ \A t \in Requests : t # n => pc'[t] = pc[t]
    BY <1>0, <1>5 DEF Thread, Start, Resume, Timeout, Finish, Clear, Leave, Forget, Send
  <2>4. pc[n] \in {"start", "waiting", "clearing"} =>
          pc'[n] \in {"start", "waiting", "clearing"} \/ rawRequest'[kind[n]] = NULL
    BY <1>0, <1>5 DEF Thread, Start, Resume, Timeout, Finish, Clear, Leave, Forget, Send, ThreadOnly
  <2> QED BY <2>1, <2>2, <2>3, <2>4, ThreadsKept
<1>6. ASSUME (\E n \in Requests, r \in UserResponses : Respond(n, r)) \/ UserGoesOn
      PROVE  SessionHasThread'
  BY <1>6 DEF SessionHasThread, UserGoesOn, Respond, RespondIgnore, RespondSet, Store, sessionVars,
              requestVars, threadVars, taskVars
<1>7. CASE UNCHANGED vars
  BY <1>7 DEF SessionHasThread, vars, sessionVars, requestVars, threadVars, taskVars
<1> QED BY <1>1, <1>2, <1>3, <1>4, <1>5, <1>6, <1>7 DEF Next, TaskGoesOn

(* No session is occupied for ever: whatever request it holds, some thread *)
(* is there to clear it, unless pthread_create failed.                     *)
THEOREM SessionsHaveThreads == Spec => []SessionHasThread
<1>1. Init => SessionHasThread
  BY DEF Init, SessionHasThread
<1> QED BY <1>1, InitTypes, TypeStep, SessionHasThreadStep, PTL DEF Spec
----------------------------------------------------------------------------
OnceInv == PlaceInv /\ FreeInv

(* A step that moves no message keeps every request in its place: sessions *)
(* keep, drop or are given a new request.                                  *)
LEMMA PlaceKept ==
  ASSUME OnceInv, UNCHANGED <<msg, outbox, informed>>,
         \A n \in Requests : Issued(n) => Issued(n)',
         \A s \in Sessions : rawRequest'[s] # NULL /\ tLock'[s] = NULL =>
           \/ rawRequest'[s] = rawRequest[s] /\ tLock[s] = NULL
           \/ rawRequest'[s] \in Requests /\ ~Issued(rawRequest'[s]),
         restarts' = 0 => restarts = 0 /\ freed' = freed
  PROVE  OnceInv'
<1>1. \A n \in Requests : InMessage(n)' <=> InMessage(n)
  BY DEF InMessage
<1>2. ASSUME NEW s \in Sessions, rawRequest'[s] # NULL, tLock'[s] = NULL
      PROVE  /\ ~InMessage(rawRequest[s])' /\ informed'[rawRequest'[s]] = <<>>
             /\ restarts' = 0 => freed'[rawRequest'[s]] = 0
  <2>1. CASE rawRequest'[s] = rawRequest[s] /\ tLock[s] = NULL
    <3>1. /\ ~InMessage(rawRequest[s]) /\ informed[rawRequest[s]] = <<>>
          /\ restarts = 0 => freed[rawRequest[s]] = 0
      BY <1>2, <2>1 DEF OnceInv, PlaceInv, FreeInv
    <3> QED BY <2>1, <3>1 DEF InMessage
  <2>2. CASE rawRequest'[s] \in Requests /\ ~Issued(rawRequest'[s])
    <3>1. PICK n \in Requests : n = rawRequest'[s]
      BY <2>2
    <3>2. /\ ~InMessage(n) /\ informed[n] = <<>>
          /\ restarts = 0 => freed[n] = 0
      BY <2>2, <3>1 DEF OnceInv, PlaceInv, FreeInv
    <3> QED BY <3>1, <3>2 DEF InMessage
  <2> QED BY <1>2, <2>1, <2>2
<1>3. PlaceInv'
  <2>1. \A n \in Requests : InMessage(n)' => informed'[n] = <<>> /\ Issued(n)'
    BY <1>1 DEF OnceInv, PlaceInv
  <2>2. \A n \in Requests : informed'[n] # <<>> => Issued(n)' /\ Len(informed'[n]) = 1
    BY DEF OnceInv, PlaceInv
  <2> QED BY <1>2, <2>1, <2>2 DEF OnceInv, PlaceInv
<1>4. FreeInv'
  BY <1>1, <1>2 DEF OnceInv, FreeInv
<1> QED BY <1>3, <1>4 DEF OnceInv

(* The message task takes an answer to the modem: it had been told nothing *)
(* of the request, and no other message about it is left.                  *)
LEMMA HandleOnce ==
  ASSUME TypeInv, OnceInv, HandleAnswer
  PROVE  OnceInv'
<1>1. PICK b \in outbox :
        /\ outbox' = outbox \ {b}
        /\ informed' = [informed EXCEPT ![b.request] = Append(@, b.response)]
        /\ freed' = [freed EXCEPT ![b.request] = @ + 1]
  BY DEF HandleAnswer
<1> DEFINE m == b.request
<1>2. m \in Requests /\ b.response \in Responses \cup {"unset"}
  BY DEF TypeInv, TypeOK, Answers
<1>3. UNCHANGED <<rawRequest, tLock, msg, restarts>> /\ \A n \in Requests : Issued(n)' <=> Issued(n)
  BY DEF HandleAnswer, Issued, sessionVars, requestVars, threadVars, taskVars
<1>4. InMessage(m) /\ informed[m] = <<>> /\ Issued(m)
  BY <1>2 DEF InMessage, OnceInv, PlaceInv
<1>5. informed'[m] = <<b.response>> /\ \A n \in Requests : n # m => informed'[n] = informed[n]
  BY <1>1, <1>2, <1>4 DEF TypeInv, TypeOK
<1>6. ~InMessage(m)' /\ \A n \in Requests : InMessage(n)' => InMessage(n)
  BY <1>1, <1>3 DEF InMessage, OnceInv, PlaceInv
<1>7. restarts = 0 => freed'[m] = 1
  BY <1>1, <1>2, <1>4 DEF OnceInv, FreeInv, TypeInv, TypeOK
<1>8. \A n \in Requests : n # m => freed'[n] = freed[n]
  BY <1>1, <1>2 DEF TypeInv, TypeOK
<1>9. \A s \in Sessions : rawRequest[s] # NULL /\ tLock[s] = NULL =>
        rawRequest[s] \in Requests /\ rawRequest[s] # m
  BY <1>4 DEF OnceInv, PlaceInv, TypeInv, TypeOK
<1> HIDE DEF m
<1>10. PlaceInv'
  <2>1. Len(informed'[m]) = 1
    BY <1>2, <1>5
  <2>2. outbox' \subseteq outbox
    BY <1>1
  <2>3. ASSUME NEW n \in Requests
        PROVE  /\ InMessage(n)' => informed'[n] = <<>> /\ Issued(n)'
               /\ informed'[n] # <<>> => Issued(n)' /\ Len(informed'[n]) = 1
    <3>1. CASE n = m
      BY <1>3, <1>4, <1>6, <2>1, <3>1
    <3>2. CASE n # m
      BY <1>3, <1>5, <1>6, <3>2 DEF OnceInv, PlaceInv
    <3> QED BY <3>1, <3>2
  <2>4. ASSUME NEW s \in Sessions, rawRequest'[s] # NULL, tLock'[s] = NULL
        PROVE  ~InMessage(rawRequest[s])' /\ informed'[rawRequest'[s]] = <<>>
    <3>1. rawRequest[s] \in Requests /\ rawRequest[s] # m /\ rawRequest'[s] = rawRequest[s]
      BY <1>3, <1>9, <2>4
    <3>2. ~InMessage(rawRequest[s]) /\ informed[rawRequest[s]] = <<>>
      BY <1>3, <2>4 DEF OnceInv, PlaceInv
    <3>3. ~InMessage(rawRequest[s])'
      BY <1>1, <1>3, <3>1, <3>2 DEF InMessage
    <3> QED BY <1>5, <3>1, <3>2, <3>3
  <2>5. /\ \A t \in Requests, u \in Requests : \A x \in msg'[t], y \in msg'[u] :
             x.request = y.request => t = u /\ x = y
        /\ \A t \in Requests : \A x \in msg'[t], y \in outbox' : x.request # y.request
        /\ \A x \in outbox', y \in outbox' : x.request = y.request => x = y
    BY <1>3, <2>2 DEF OnceInv, PlaceInv
  <2> QED BY <2>3, <2>4, <2>5 DEF PlaceInv
<1>11. FreeInv'
  <2> SUFFICES ASSUME restarts = 0 PROVE FreeInv'
    BY <1>3 DEF FreeInv
  <2>1. ASSUME NEW n \in Requests
        PROVE  /\ InMessage(n)' => freed'[n] = 0
               /\ freed'[n] # 0 => Issued(n)' /\ freed'[n] = 1
    <3>1. CASE n = m
      BY <1>3, <1>4, <1>6, <1>7, <3>1
    <3>2. CASE n # m
      BY <1>3, <1>6, <1>8, <3>2 DEF OnceInv, FreeInv
    <3> QED BY <3>1, <3>2
  <2>2. \A s \in Sessions : rawRequest'[s] # NULL /\ tLock'[s] = NULL => freed'[rawRequest'[s]] = 0
    BY <1>3, <1>8, <1>9 DEF OnceInv, FreeInv
  <2> QED BY <2>1, <2>2 DEF FreeInv
<1> QED BY <1>10, <1>11 DEF OnceInv
(* The end of the wait takes the request from the session, under the lock, *)
(* into one message or frees it.                                           *)
LEMMA FinishOnce ==
  ASSUME TypeInv, OnceInv, NEW n \in Requests, NEW r, tLock[kind[n]] = NULL,
         Finish(n, kind[n], r), ThreadOnly
  PROVE  OnceInv'
<1>a. PICK s \in Sessions : s = kind[n]
  BY DEF TypeInv, TypeOK
<1>0. /\ n # NULL /\ UNCHANGED <<rawRequest, outbox, informed, restarts>>
      /\ \A t \in Requests : Issued(t)' <=> Issued(t)
      /\ tLock[s] = NULL /\ Finish(n, s, r)
  BY <1>a, NiAssumption DEF TypeInv, TypeOK, ThreadOnly, Issued, requestVars, taskVars, NiAssumption
<1>1. CASE rawRequest[s] = NULL
  <2>1. UNCHANGED <<tLock, msg, freed>>
    BY <1>0, <1>1 DEF Finish
  <2> QED BY <1>0, <2>1, PlaceKept
<1>2. CASE rawRequest[s] # NULL
  <2>m. PICK m \in Requests : m = rawRequest[s]
    BY <1>2 DEF TypeInv, TypeOK
  <2>1. kind[m] = s /\ Issued(m)
    BY <1>2, <2>m DEF HoldInv, TypeInv
  <2>2. ~InMessage(m) /\ informed[m] = <<>> /\ (restarts = 0 => freed[m] = 0)
    <3>1. ~InMessage(rawRequest[s]) /\ informed[m] = <<>> /\ (restarts = 0 => freed[m] = 0)
      BY <1>0, <1>2, <2>m DEF OnceInv, PlaceInv, FreeInv
    <3> QED BY <2>m, <3>1 DEF InMessage
  <2>3. /\ \A t \in Requests : t # n => msg'[t] = msg[t]
        /\ msg'[n] \subseteq {Answer(m, r)}
        /\ r = "IGNORE" => msg'[n] = {}
    <3>1. msg' = [msg EXCEPT ![n] = Message(m, r)] /\ DOMAIN msg = Requests
      BY <1>0, <1>2, <2>m DEF Finish, TypeInv, TypeOK
    <3>2. msg'[n] = Message(m, r)
      BY <3>1
    <3> QED BY <3>1, <3>2 DEF Message
  <2>4. /\ \A t \in Requests : t # m => freed'[t] = freed[t]
        /\ freed'[m] = IF r = "IGNORE" THEN freed[m] + 1 ELSE freed[m]
    <3>1. /\ freed' = [freed EXCEPT ![m] = IF r = "IGNORE" THEN @ + 1 ELSE @]
          /\ DOMAIN freed = Requests
      BY <1>0, <1>2, <2>m DEF Finish, TypeInv, TypeOK
    <3> QED BY <3>1
  <2>5. tLock'[s] # NULL /\ \A t \in Sessions : t # s => tLock'[t] = tLock[t]
    BY <1>0, <1>2 DEF Finish, TypeInv, TypeOK
  <2>6. \A t \in Sessions : t # s /\ rawRequest[t] # NULL =>
          rawRequest[t] \in Requests /\ rawRequest[t] # m
    BY <2>1 DEF TypeInv, TypeOK, HoldInv
  <2>7. \A x \in msg'[n] : x.request = m
    BY <2>3 DEF Answer
  <2>8. /\ \A t \in Requests : t # m /\ InMessage(t)' => InMessage(t)
        /\ InMessage(m)' => r # "IGNORE"
    <3>1. ASSUME NEW t \in Requests, t # m, InMessage(t)' PROVE InMessage(t)
      BY <1>0, <2>3, <2>7, <3>1 DEF InMessage
    <3>2. ASSUME r = "IGNORE", InMessage(m)' PROVE InMessage(m)
      BY <1>0, <2>3, <3>2 DEF InMessage
    <3> QED BY <2>2, <3>1, <3>2
  <2>9. PlaceInv'
    <3>1. \A t \in Requests : InMessage(t)' => informed'[t] = <<>> /\ Issued(t)'
      BY <1>0, <2>1, <2>2, <2>8 DEF OnceInv, PlaceInv
    <3>2. \A t \in Requests : informed'[t] # <<>> => Issued(t)' /\ Len(informed'[t]) = 1
      BY <1>0 DEF OnceInv, PlaceInv
    <3>3. ASSUME NEW t \in Sessions, rawRequest'[t] # NULL, tLock'[t] = NULL
          PROVE  ~InMessage(rawRequest[t])' /\ informed'[rawRequest'[t]] = <<>>
      <4>1. t # s /\ tLock[t] = NULL /\ rawRequest'[t] = rawRequest[t] /\ rawRequest[t] # NULL
        BY <1>0, <2>5, <3>3
      <4>2. ~InMessage(rawRequest[t]) /\ informed[rawRequest[t]] = <<>>
        BY <4>1 DEF OnceInv, PlaceInv
      <4>3. rawRequest[t] \in Requests /\ rawRequest[t] # m
        BY <2>6, <4>1
      <4>4. ~InMessage(rawRequest[t])'
        BY <1>0, <2>3, <2>7, <4>2, <4>3 DEF InMessage
      <4> QED BY <1>0, <4>2, <4>4
    <3>4. \A t \in Requests : t # n =>
            (\A x \in msg'[t], y \in msg'[n] : x.request # y.request)
      BY <2>2, <2>3, <2>7 DEF InMessage
    <3>5. \A t \in Requests, u \in Requests : \A x \in msg'[t], y \in msg'[u] :
            x.request = y.request => t = u /\ x = y
      BY <2>3, <3>4 DEF OnceInv, PlaceInv
    <3>6. \A t \in Requests : \A x \in msg'[t], y \in outbox' : x.request # y.request
      BY <1>0, <2>2, <2>3, <2>7 DEF OnceInv, PlaceInv, InMessage
    <3>7. \A x \in outbox', y \in outbox' : x.request = y.request => x = y
      BY <1>0 DEF OnceInv, PlaceInv
    <3> QED BY <3>1, <3>2, <3>3, <3>5, <3>6, <3>7 DEF PlaceInv
  <2>10. FreeInv'
    <3> SUFFICES ASSUME restarts = 0 PROVE FreeInv'
      BY <1>0 DEF FreeInv
    <3>1. ASSUME NEW t \in Requests
          PROVE  /\ InMessage(t)' => freed'[t] = 0
                 /\ freed'[t] # 0 => Issued(t)' /\ freed'[t] = 1
      <4>1. CASE t = m
        <5>1. r = "IGNORE" => ~InMessage(m)' /\ freed'[m] = 1
          BY <2>2, <2>4, <2>8
        <5>2. r # "IGNORE" => freed'[m] = 0
          BY <2>2, <2>4
        <5> QED BY <1>0, <2>1, <4>1, <5>1, <5>2
      <4>2. CASE t # m
        BY <1>0, <2>4, <2>8, <4>2 DEF OnceInv, FreeInv
      <4> QED BY <4>1, <4>2
    <3>2. \A t \in Sessions : rawRequest'[t] # NULL /\ tLock'[t] = NULL => freed'[rawRequest'[t]] = 0
      BY <1>0, <2>4, <2>5, <2>6 DEF OnceInv, FreeInv
    <3> QED BY <3>1, <3>2 DEF FreeInv
  <2> QED BY <2>9, <2>10 DEF OnceInv
<1> QED BY <1>1, <1>2

(* A thread's answer goes to the message task and is its own no longer.    *)
LEMMA SendOnce ==
  ASSUME TypeInv, OnceInv, NEW n \in Requests, Send(n)
  PROVE  OnceInv'
<1>1. /\ outbox' = outbox \cup msg[n] /\ msg'[n] = {}
      /\ \A t \in Requests : t # n => msg'[t] = msg[t]
      /\ UNCHANGED <<rawRequest, tLock, informed, freed, restarts>>
      /\ \A t \in Requests : Issued(t)' <=> Issued(t)
  BY DEF Send, TypeInv, TypeOK, Issued, sessionVars, requestVars, taskVars, fates
<1>2. \A t \in Requests : InMessage(t)' => InMessage(t)
  BY <1>1 DEF InMessage
<1>3. ASSUME NEW s \in Sessions, rawRequest'[s] # NULL, tLock'[s] = NULL
      PROVE  ~InMessage(rawRequest[s])'
  <2>1. ~InMessage(rawRequest[s]) /\ rawRequest'[s] = rawRequest[s]
    BY <1>1, <1>3 DEF OnceInv, PlaceInv
  <2> QED BY <1>1, <2>1 DEF InMessage
<1>4. PlaceInv'
  <2>1. \A t \in Requests, u \in Requests : \A x \in msg'[t], y \in msg'[u] :
          x.request = y.request => t = u /\ x = y
    BY <1>1 DEF OnceInv, PlaceInv
  <2>2. \A t \in Requests : \A x \in msg'[t], y \in outbox' : x.request # y.request
    BY <1>1 DEF OnceInv, PlaceInv
  <2>3. \A x \in outbox', y \in outbox' : x.request = y.request => x = y
    BY <1>1 DEF OnceInv, PlaceInv
  <2>4. \A t \in Requests : InMessage(t)' => informed'[t] = <<>> /\ Issued(t)'
    BY <1>1, <1>2 DEF OnceInv, PlaceInv
  <2>5. \A t \in Requests : informed'[t] # <<>> => Issued(t)' /\ Len(informed'[t]) = 1
    BY <1>1 DEF OnceInv, PlaceInv
  <2>6. \A s \in Sessions : rawRequest'[s] # NULL /\ tLock'[s] = NULL => informed'[rawRequest'[s]] = <<>>
    BY <1>1 DEF OnceInv, PlaceInv
  <2> QED BY <1>3, <2>1, <2>2, <2>3, <2>4, <2>5, <2>6 DEF PlaceInv
<1>5. FreeInv'
  BY <1>1, <1>2 DEF OnceInv, FreeInv
<1> QED BY <1>4, <1>5 DEF OnceInv
(* The task's other steps move no message; a request is accepted into a    *)
(* session that holds none, and under a number that is new.                *)
LEMMA TaskOnce ==
  ASSUME TypeInv, OnceInv,
         (\E s \in Sessions : Accept(s)) \/ EngineDown \/ TaskGoesOn
  PROVE  OnceInv'
<1>0. reqIDCounter \in Nat
  BY NiAssumption DEF TypeInv, TypeOK, NiAssumption
<1>1. ASSUME NEW s \in Sessions, Accept(s) PROVE OnceInv'
  <2>1. /\ UNCHANGED <<msg, outbox, informed, freed, restarts, tLock, reqIDCounter>>
        /\ task = "idle" /\ task' = "accepted"
        /\ rawRequest' = [rawRequest EXCEPT ![s] = reqIDCounter + 1] /\ DOMAIN rawRequest = Sessions
        /\ reqIDCounter + 1 \in Requests
    BY <1>0, <1>1, NiAssumption DEF Accept, threadVars, fates, TypeInv, TypeOK, NiAssumption
  <2>2. ~Issued(reqIDCounter + 1) /\ \A t \in Requests : Issued(t) => Issued(t)'
    BY <1>0, <2>1 DEF Issued
  <2>3. ASSUME NEW t \in Sessions, rawRequest'[t] # NULL, tLock'[t] = NULL
        PROVE  \/ rawRequest'[t] = rawRequest[t] /\ tLock[t] = NULL
               \/ rawRequest'[t] \in Requests /\ ~Issued(rawRequest'[t])
    <3>1. CASE t = s
      <4>1. rawRequest'[t] = reqIDCounter + 1
        BY <2>1, <3>1
      <4> QED BY <2>1, <2>2, <4>1
    <3>2. CASE t # s
      BY <2>1, <2>3, <3>2
    <3> QED BY <3>1, <3>2
  <2> QED BY <2>1, <2>2, <2>3, PlaceKept
<1>2. ASSUME EngineDown \/ Identify \/ Spawn \/ RestartWake PROVE OnceInv'
  <2>1. UNCHANGED <<msg, outbox, informed, freed, rawRequest, tLock>>
    BY <1>2 DEF EngineDown, Identify, Spawn, RestartWake, sessionVars, threadVars, fates
  <2>2. \A t \in Requests : Issued(t) => Issued(t)'
    BY <1>0, <1>2 DEF EngineDown, Identify, Spawn, RestartWake, NextSession, Issued, requestVars
  <2>3. restarts' = 0 => restarts = 0
    BY <1>2 DEF EngineDown, Identify, Spawn, RestartWake, TypeInv, TypeOK
  <2> QED BY <2>1, <2>2, <2>3, PlaceKept
<1>3. ASSUME HandleAnswer PROVE OnceInv'
  BY <1>3, HandleOnce
<1>4. ASSUME RestartFree PROVE OnceInv'
  <2>1. UNCHANGED <<msg, outbox, informed, tLock, restarts>> /\ restarts # 0
    BY <1>4 DEF RestartFree, threadVars, TypeInv, TaskInv
  <2>2. \A t \in Requests : Issued(t) => Issued(t)'
    BY <1>4 DEF RestartFree, Issued, requestVars
  <2>3. \A t \in Sessions : rawRequest'[t] \in {rawRequest[t], NULL}
    BY <1>4 DEF RestartFree, TypeInv, TypeOK
  <2> QED BY <2>1, <2>2, <2>3, PlaceKept
<1> QED BY <1>1, <1>2, <1>3, <1>4 DEF TaskGoesOn

(* A thread's steps: the end of the wait and Send move the answer.         *)
LEMMA ThreadOnce ==
  ASSUME TypeInv, OnceInv, NEW n \in Requests, Thread(n)
  PROVE  OnceInv'
<1>1. ASSUME Start(n), ~respRecvd[kind[n]] PROVE OnceInv'
  <2>1. /\ UNCHANGED <<msg, outbox, informed, freed, rawRequest, tLock, restarts>>
        /\ \A t \in Requests : Issued(t) => Issued(t)'
    BY <1>1 DEF Start, ThreadOnly, Issued, requestVars, taskVars
  <2> QED BY <2>1, PlaceKept
<1>2. ASSUME (Start(n) /\ respRecvd[kind[n]]) \/ Resume(n) \/ Timeout(n) PROVE OnceInv'
  BY <1>2, FinishOnce DEF Start, Resume, Timeout
<1>3. ASSUME Clear(n) PROVE OnceInv'
  <2>1. /\ UNCHANGED <<msg, outbox, informed, freed, restarts>>
        /\ \A t \in Requests : Issued(t) => Issued(t)'
    BY <1>3 DEF Clear, Leave, Issued, requestVars, taskVars, fates
  <2>2. ASSUME NEW s \in Sessions, rawRequest'[s] # NULL, tLock'[s] = NULL
        PROVE  rawRequest'[s] = rawRequest[s] /\ tLock[s] = NULL
    BY <1>3, <2>2 DEF Clear, Leave, TypeInv, TypeOK
  <2> QED BY <2>1, <2>2, PlaceKept
<1>4. ASSUME Forget(n) PROVE OnceInv'
  <2>1. /\ UNCHANGED <<msg, outbox, informed, freed, rawRequest, tLock, restarts>>
        /\ \A t \in Requests : Issued(t) => Issued(t)'
    BY <1>4 DEF Forget, Issued, requestVars, taskVars, fates
  <2> QED BY <2>1, PlaceKept
<1>5. ASSUME Send(n) PROVE OnceInv'
  BY <1>5, SendOnce
<1> QED BY <1>1, <1>2, <1>3, <1>4, <1>5 DEF Thread

LEMMA OnceStep == TypeInv /\ OnceInv /\ [Next]_vars => OnceInv'
<1> SUFFICES ASSUME TypeInv, OnceInv, [Next]_vars PROVE OnceInv'
  OBVIOUS
<1>1. CASE (\E s \in Sessions : Accept(s)) \/ EngineDown \/ TaskGoesOn
  BY <1>1, TaskOnce
<1>2. CASE \E n \in Requests : Thread(n)
  BY <1>2, ThreadOnce
<1>3. CASE (\E n \in Requests, r \in UserResponses : Respond(n, r)) \/ UserGoesOn \/ UNCHANGED vars
  <2>1. UNCHANGED <<msg, outbox, informed, freed, rawRequest, tLock, restarts, reqIDCounter, task>>
    BY <1>3 DEF UserGoesOn, Respond, RespondIgnore, RespondSet, Store, vars, sessionVars, requestVars,
                threadVars, taskVars, fates
  <2>2. \A t \in Requests : Issued(t) => Issued(t)'
    BY <2>1 DEF Issued
  <2> QED BY <2>1, <2>2, PlaceKept
<1> QED BY <1>1, <1>2, <1>3 DEF Next

(* The modem is told of a request at most once, and until it restarts a    *)
(* request is freed at most once: between the session, its thread, the     *)
(* message and the task a request is in one place at a time.               *)
THEOREM RequestsOnce == Spec => []EachRequestOnce
<1>1. Init => OnceInv
  <2>1. ASSUME Init PROVE PlaceInv /\ FreeInv
    BY <2>1 DEF Init, PlaceInv, FreeInv, InMessage
  <2> QED BY <2>1 DEF OnceInv
<1>2. TypeInv /\ OnceInv => EachRequestOnce
  <2> SUFFICES ASSUME TypeInv, OnceInv, NEW n \in Requests
               PROVE  Len(informed[n]) =< 1 /\ (restarts = 0 => freed[n] =< 1)
    BY DEF EachRequestOnce
  <2>1. Len(informed[n]) = 0 \/ Len(informed[n]) = 1
    <3>1. CASE informed[n] = <<>>
      <4>1. Len(<<>>) = 0
        OBVIOUS
      <4> QED BY <3>1, <4>1, Zenon
    <3>2. CASE informed[n] # <<>>
      BY <3>2 DEF OnceInv, PlaceInv
    <3> QED BY <3>1, <3>2, Zenon
  <2>2. restarts = 0 => freed[n] =< 1
    BY DEF OnceInv, FreeInv
  <2>3. \A k : k = 0 \/ k = 1 => k =< 1
    OBVIOUS
  <2> QED BY <2>1, <2>2, <2>3, Zenon
<1> QED BY <1>1, <1>2, InitTypes, TypeStep, OnceStep, PTL DEF Spec
----------------------------------------------------------------------------
(* PromptAnswersAreOwn: while the modem has not restarted, a thread that   *)
(* has not cleared its session finds its own request there; so a response  *)
(* that is stored while its session waits is one to that request.          *)

Busy(n) == pc[n] \in {"start", "waiting", "clearing"}

OwnResponses(n) == given[n] \cup {"NORESP"}

Own(A) == \A a \in A : a.response \in OwnResponses(a.request)

SessionInv ==
  /\ \A n \in Requests : Busy(n) => rawRequest[kind[n]] = n
  /\ task \in {"accepted", "identified"} => rawRequest[on] # NULL
  /\ \A s \in Sessions : reqID[s] # NULL => kind[reqID[s]] = s /\ reqID[s] =< reqIDCounter

\* The response being stored is for a session that still waits for it.
UserInv ==
  user # "idle" =>
    /\ rawRequest[to] # NULL /\ ~respRecvd[to]
    /\ pc[rawRequest[to]] \in {"start", "waiting"} /\ say \in given[rawRequest[to]]
    /\ user = "ignore" => to = "es"

FlagInv ==
  \A s \in Sessions : respRecvd[s] /\ resp[s] # "IGNORE" =>
    /\ rawRequest[s] # NULL /\ resp[s] \in given[rawRequest[s]]
    /\ pc[rawRequest[s]] # "clearing"

AnswerInv == (\A t \in Requests : Own(msg[t])) /\ Own(outbox) /\ AnswersAreOwn

PromptInv == SessionInv /\ UserInv /\ FlagInv /\ AnswerInv

OwnInv == prompt /\ restarts = 0 => PromptInv

LEMMA Types ==
  ASSUME TypeInv
  PROVE  /\ DOMAIN pc = Requests /\ DOMAIN kind = Requests /\ DOMAIN rawRequest = Sessions
         /\ DOMAIN reqID = Sessions /\ DOMAIN resp = Sessions /\ DOMAIN respRecvd = Sessions
         /\ DOMAIN tLock = Sessions /\ DOMAIN msg = Requests /\ DOMAIN informed = Requests
         /\ DOMAIN given = Requests
         /\ reqIDCounter \in Nat /\ on \in Sessions /\ to \in Sessions
         /\ \A n \in Requests : kind[n] \in Sessions /\ given[n] \subseteq UserResponses
         /\ \A s \in Sessions : rawRequest[s] # NULL => rawRequest[s] \in Requests
         /\ \A s \in Sessions : reqID[s] # NULL => reqID[s] \in Requests
         /\ \A s \in Sessions : resp[s] \in Responses \cup {"unset"}
         /\ outbox \subseteq Answers /\ \A n \in Requests : msg[n] \subseteq Answers
BY NiAssumption DEF TypeInv, TypeOK, NiAssumption

\* The end of a wait: the thread takes its own request, with the response to it,
\* and a session whose response is being stored does not end.
LEMMA EndIs ==
  ASSUME TypeInv, SessionInv, UserInv, FlagInv, prompt, NEW n \in Requests,
         (Start(n) /\ respRecvd[kind[n]]) \/ Resume(n) \/ Timeout(n)
  PROVE  /\ rawRequest[kind[n]] = n /\ kind[n] \in Sessions
         /\ pc' = [pc EXCEPT ![n] = "clearing"]
         /\ respRecvd' = [respRecvd EXCEPT ![kind[n]] = FALSE]
         /\ \A s \in Sessions : s # kind[n] => resp'[s] = resp[s]
         /\ \E r \in OwnResponses(n) \cup {"IGNORE"} : msg' = [msg EXCEPT ![n] = Message(n, r)]
         /\ user # "idle" => to # kind[n]
         /\ ThreadOnly
<1>0. /\ DOMAIN pc = Requests /\ DOMAIN resp = Sessions /\ kind[n] \in Sessions
      /\ DOMAIN respRecvd = Sessions
  BY Types
<1>1. pc[n] \in {"start", "waiting"} /\ ThreadOnly
  BY DEF Start, Resume, Timeout
<1>2. rawRequest[kind[n]] = n /\ n # NULL
  BY <1>1 DEF SessionInv, Busy
<1>3. PICK r \in OwnResponses(n) \cup {"IGNORE"} : Finish(n, kind[n], r)
  <2>1. CASE Timeout(n)
    <3>1. Finish(n, kind[n], "NORESP")
      BY <2>1 DEF Timeout
    <3>2. "NORESP" \in OwnResponses(n)
      BY DEF OwnResponses
    <3> QED BY <3>1, <3>2
  <2>2. CASE ~Timeout(n)
    <3>1. Finish(n, kind[n], resp[kind[n]]) /\ respRecvd[kind[n]]
      BY <2>2 DEF Start, Resume
    <3>2. resp[kind[n]] \in given[n] \cup {"IGNORE"}
      BY <1>0, <1>2, <3>1 DEF FlagInv
    <3>3. resp[kind[n]] \in OwnResponses(n) \cup {"IGNORE"}
      BY <3>2 DEF OwnResponses
    <3> QED BY <3>1, <3>3
  <2> QED BY <2>1, <2>2
<1>4. /\ pc' = [pc EXCEPT ![n] = "clearing"]
      /\ respRecvd' = [respRecvd EXCEPT ![kind[n]] = FALSE]
      /\ msg' = [msg EXCEPT ![n] = Message(n, r)]
  BY <1>2, <1>3 DEF Finish, ResetFlag
<1>5. \A s \in Sessions : s # kind[n] => resp'[s] = resp[s]
  BY <1>0 DEF Start, Resume, Timeout
<1>6. user # "idle" => to # kind[n]
  <2> SUFFICES ASSUME user # "idle", to = kind[n] PROVE FALSE
    OBVIOUS
  <2>1. ~respRecvd[kind[n]]
    BY DEF UserInv
  <2> QED BY <2>1 DEF Timeout, Resume
<1> QED BY <1>0, <1>1, <1>2, <1>3, <1>4, <1>5, <1>6

\* A step of the thread that is not the end of its wait.
LEMMA OtherThreadStep ==
  ASSUME TypeInv, NEW n \in Requests, Thread(n),
         ~((Start(n) /\ respRecvd[kind[n]]) \/ Resume(n) \/ Timeout(n))
  PROVE  /\ UNCHANGED <<requestVars, taskVars, userVars, resp, respRecvd, informed, restarts, prompt>>
         /\ \/ /\ pc[n] = "start" /\ pc' = [pc EXCEPT ![n] = "waiting"]
               /\ UNCHANGED <<rawRequest, reqID, msg, outbox>>
            \/ Clear(n) \/ Forget(n) \/ Send(n)
BY DEF Thread, Start, Clear, Leave, Forget, Send, ThreadOnly, sessionVars, requestVars, taskVars, userVars,
       threadVars, fates

LEMMA SessionStep ==
  ASSUME TypeInv, PromptInv, prompt, restarts = 0, [Next]_vars
  PROVE  SessionInv'
<1>0. SessionInv /\ UserInv /\ FlagInv /\ TaskInv /\ HoldInv
  BY DEF PromptInv, TypeInv
<1>1. ASSUME NEW s \in Sessions, Accept(s) PROVE SessionInv'
  <2> DEFINE new == reqIDCounter + 1
  <2>1. /\ rawRequest[s] = NULL /\ rawRequest' = [rawRequest EXCEPT ![s] = new]
        /\ kind' = [kind EXCEPT ![new] = s] /\ task' = "accepted" /\ on' = s
        /\ UNCHANGED <<reqID, reqIDCounter, pc>> /\ new \in Nat /\ new # NULL
    BY <1>1, Types DEF Accept, threadVars
  <2>2. \A n \in Requests : Busy(n) => n # new /\ kind[n] # s
    <3>1. ASSUME NEW n \in Requests, Busy(n) PROVE n # new
      BY <1>0, <3>1, Types DEF TaskInv, Busy
    <3>2. ASSUME NEW n \in Requests, Busy(n) PROVE kind[n] # s
      BY <1>0, <2>1, <3>2 DEF SessionInv
    <3> QED BY <3>1, <3>2
  <2>3. ASSUME NEW n \in Requests, Busy(n)' PROVE rawRequest'[kind'[n]] = n
    <3>1. Busy(n) /\ kind'[n] = kind[n]
      BY <2>1, <2>2, <2>3, Types DEF Busy
    <3>2. kind[n] # s /\ kind[n] \in Sessions /\ rawRequest[kind[n]] = n
      BY <1>0, <2>2, <3>1, Types DEF SessionInv
    <3> QED BY <2>1, <3>1, <3>2, Types
  <2>4. rawRequest'[on'] # NULL
    BY <2>1, Types
  <2>5. ASSUME NEW t \in Sessions, reqID'[t] # NULL
        PROVE  kind'[reqID'[t]] = t /\ reqID'[t] =< reqIDCounter'
    <3>1. reqID'[t] = reqID[t] /\ reqID[t] =< reqIDCounter /\ reqID[t] \in Requests /\ kind[reqID[t]] = t
      BY <1>0, <2>1, <2>5, Types DEF SessionInv
    <3>2. reqID[t] # new
      BY <3>1, Types
    <3> QED BY <2>1, <3>1, <3>2, Types
  <2> QED BY <2>3, <2>4, <2>5 DEF SessionInv
<1>2. ASSUME Identify PROVE SessionInv'
  <2>1. /\ task = "accepted" /\ reqIDCounter' = reqIDCounter + 1
        /\ reqID' = [reqID EXCEPT ![on] = reqIDCounter + 1]
        /\ UNCHANGED <<rawRequest, kind, pc, on>> /\ kind[reqIDCounter + 1] = on
    BY <1>0, <1>2 DEF Identify, threadVars, TaskInv
  <2>2. \A n \in Requests : Busy(n)' => rawRequest'[kind'[n]] = n
    BY <1>0, <2>1 DEF SessionInv, Busy
  <2>3. rawRequest'[on'] # NULL
    BY <1>0, <2>1 DEF SessionInv
  <2>4. ASSUME NEW t \in Sessions, reqID'[t] # NULL
        PROVE  kind'[reqID'[t]] = t /\ reqID'[t] =< reqIDCounter'
    <3>1. CASE t = on
      BY <2>1, <3>1, Types
    <3>2. CASE t # on
      <4>1. reqID'[t] = reqID[t] /\ reqID[t] =< reqIDCounter /\ kind[reqID[t]] = t /\ reqID[t] \in Requests
        BY <1>0, <2>1, <2>4, <3>2, Types DEF SessionInv
      <4> QED BY <2>1, <4>1, Types
    <3> QED BY <3>1, <3>2
  <2> QED BY <2>2, <2>3, <2>4 DEF SessionInv
<1>3. ASSUME Spawn PROVE SessionInv'
  <2>1. PICK q \in {"start", "failed"} : pc' = [pc EXCEPT ![reqIDCounter] = q]
    BY <1>3 DEF Spawn
  <2>2. /\ task = "identified" /\ task' = "idle" /\ UNCHANGED <<rawRequest, reqID, kind, reqIDCounter>>
        /\ kind[reqIDCounter] = on
    BY <1>0, <1>3 DEF Spawn, sessionVars, requestVars, TaskInv
  <2>3. rawRequest[on] = reqIDCounter
    BY <1>0, <2>2, Types DEF SessionInv, HoldInv
  <2>4. ASSUME NEW n \in Requests, Busy(n)' PROVE rawRequest'[kind'[n]] = n
    <3>1. CASE n = reqIDCounter
      BY <2>2, <2>3, <3>1
    <3>2. CASE n # reqIDCounter
      BY <1>0, <2>1, <2>2, <2>4, <3>2, Types DEF SessionInv, Busy
    <3> QED BY <3>1, <3>2
  <2> QED BY <1>0, <2>2, <2>4 DEF SessionInv
<1>4. ASSUME HandleAnswer \/ EngineDown PROVE SessionInv'
  <2>1. /\ UNCHANGED <<rawRequest, reqID, kind, reqIDCounter, pc>>
        /\ task' \notin {"accepted", "identified"}
    BY <1>4 DEF HandleAnswer, EngineDown, sessionVars, requestVars, threadVars, taskVars
  <2> QED BY <1>0, <2>1 DEF SessionInv, Busy
<1>5. ~RestartFree /\ ~RestartWake
  BY <1>0 DEF RestartFree, RestartWake, TaskInv
<1>6. ASSUME NEW n \in Requests, Thread(n) PROVE SessionInv'
  <2>1. CASE (Start(n) /\ respRecvd[kind[n]]) \/ Resume(n) \/ Timeout(n)
    <3>1. /\ rawRequest[kind[n]] = n /\ pc' = [pc EXCEPT ![n] = "clearing"]
          /\ UNCHANGED <<rawRequest, reqID, kind, reqIDCounter, task, on>>
      BY <1>0, <2>1, EndIs DEF ThreadOnly, requestVars, taskVars
    <3>2. \A t \in Requests : Busy(t)' => rawRequest'[kind'[t]] = t
      BY <1>0, <3>1, Types DEF SessionInv, Busy
    <3> QED BY <1>0, <3>1, <3>2 DEF SessionInv
  <2>2. CASE ~((Start(n) /\ respRecvd[kind[n]]) \/ Resume(n) \/ Timeout(n))
    <3>1. /\ UNCHANGED <<kind, reqIDCounter, task, on>>
          /\ \/ /\ pc[n] = "start" /\ pc' = [pc EXCEPT ![n] = "waiting"]
                /\ UNCHANGED <<rawRequest, reqID, msg, outbox>>
             \/ Clear(n) \/ Forget(n) \/ Send(n)
      BY <1>6, <2>2, OtherThreadStep DEF requestVars, taskVars
    <3>2. CASE pc[n] = "start" /\ pc' = [pc EXCEPT ![n] = "waiting"] /\ UNCHANGED <<rawRequest, reqID>>
      <4>1. \A t \in Requests : Busy(t)' => rawRequest'[kind'[t]] = t
        BY <1>0, <3>1, <3>2, Types DEF SessionInv, Busy
      <4> QED BY <1>0, <3>1, <3>2, <4>1 DEF SessionInv
    <3>3. CASE Clear(n)
      <4>1. /\ pc[n] = "clearing" /\ pc' = [pc EXCEPT ![n] = "forgetting"]
            /\ rawRequest' = [rawRequest EXCEPT ![kind[n]] = NULL] /\ reqID' = reqID
        BY <3>3 DEF Clear, Leave
      <4>2. rawRequest[kind[n]] = n /\ kind[n] \in Sessions
        BY <1>0, <4>1, Types DEF SessionInv, Busy
      <4>3. ASSUME NEW t \in Requests, Busy(t)' PROVE rawRequest'[kind'[t]] = t
        <5>1. t # n /\ Busy(t)
          BY <4>1, <4>3, Types DEF Busy
        <5>2. rawRequest[kind[t]] = t
          BY <1>0, <5>1 DEF SessionInv
        <5>3. kind[t] # kind[n] /\ kind[t] \in Sessions
          BY <4>2, <5>1, <5>2, Types
        <5> QED BY <3>1, <4>1, <5>2, <5>3, Types
      <4>4. task \in {"accepted", "identified"} => rawRequest'[on] # NULL
        <5> SUFFICES ASSUME task \in {"accepted", "identified"} PROVE on # kind[n]
          BY <1>0, <4>1, Types DEF SessionInv
        <5>1. rawRequest[on] # NULL
          BY <1>0 DEF SessionInv
        <5>2. pc[rawRequest[on]] = "none"
          BY <1>0, <5>1, Types DEF HoldInv, TaskInv
        <5> QED BY <4>1, <4>2, <5>2
      <4> QED BY <1>0, <3>1, <4>1, <4>3, <4>4 DEF SessionInv
    <3>4. CASE Forget(n) \/ Send(n)
      <4>1. /\ pc[n] \in {"forgetting", "sending"} /\ rawRequest' = rawRequest
            /\ \E q \in {"sending", "done"} : pc' = [pc EXCEPT ![n] = q]
            /\ reqID' = reqID \/ reqID' = [reqID EXCEPT ![kind[n]] = NULL]
        BY <3>4 DEF Forget, Send, sessionVars
      <4>2. \A t \in Requests : Busy(t)' => rawRequest'[kind'[t]] = t
        BY <1>0, <3>1, <4>1, Types DEF SessionInv, Busy
      <4>3. \A t \in Sessions : reqID'[t] # NULL => reqID'[t] = reqID[t]
        BY <4>1, Types
      <4> QED BY <1>0, <3>1, <4>1, <4>2, <4>3 DEF SessionInv
    <3> QED BY <3>1, <3>2, <3>3, <3>4
  <2> QED BY <2>1, <2>2
<1>7. ASSUME (\E n \in Requests, r \in UserResponses : Respond(n, r)) \/ UserGoesOn \/ UNCHANGED vars
      PROVE  SessionInv'
  <2>1. UNCHANGED <<rawRequest, reqID, kind, reqIDCounter, pc, task, on>>
    BY <1>7 DEF UserGoesOn, Respond, RespondIgnore, RespondSet, Store, vars, sessionVars,
                requestVars, threadVars, taskVars
  <2> QED BY <1>0, <2>1 DEF SessionInv, Busy
<1> QED BY <1>1, <1>2, <1>3, <1>4, <1>5, <1>6, <1>7 DEF Next, TaskGoesOn

LEMMA UserStep ==
  ASSUME TypeInv, PromptInv, prompt, restarts = 0, [Next]_vars
  PROVE  UserInv'
<1>0. SessionInv /\ UserInv /\ FlagInv /\ TaskInv /\ HoldInv
  BY DEF PromptInv, TypeInv
<1> DEFINE k == rawRequest[to]
<1>k. user # "idle" => /\ k \in Requests /\ k # NULL /\ kind[k] = to /\ ~respRecvd[to] /\ to \in Sessions
                       /\ pc[k] \in {"start", "waiting"} /\ say \in given[k]
                       /\ user = "ignore" => to = "es"
  BY <1>0, Types DEF UserInv, HoldInv
<1>1. ASSUME UNCHANGED <<user, to, say, given>>,
             user # "idle" => /\ rawRequest'[to] = k /\ respRecvd'[to] = respRecvd[to]
                              /\ pc'[k] \in {"start", "waiting"}
      PROVE  UserInv'
  BY <1>1, <1>k DEF UserInv
<1> HIDE DEF k
<1>2. ASSUME NEW s \in Sessions, Accept(s) PROVE UserInv'
  <2>1. /\ rawRequest[s] = NULL /\ rawRequest' = [rawRequest EXCEPT ![s] = reqIDCounter + 1]
        /\ UNCHANGED <<user, to, say, given, respRecvd, pc>>
    BY <1>2 DEF Accept, threadVars, userVars
  <2>2. user # "idle" => rawRequest'[to] = k
    BY <1>k, <2>1, Types DEF k
  <2> QED BY <1>1, <1>k, <2>1, <2>2
<1>3. ASSUME Identify \/ HandleAnswer \/ EngineDown PROVE UserInv'
  <2>1. UNCHANGED <<user, to, say, given, respRecvd, pc, rawRequest>>
    BY <1>3 DEF Identify, HandleAnswer, EngineDown, sessionVars, threadVars, userVars
  <2> QED BY <1>1, <1>k, <2>1 DEF k
<1>4. ASSUME Spawn PROVE UserInv'
  <2>1. PICK q \in {"start", "failed"} : pc' = [pc EXCEPT ![reqIDCounter] = q]
    BY <1>4 DEF Spawn
  <2>2. UNCHANGED <<user, to, say, given, respRecvd, rawRequest>> /\ pc[reqIDCounter] = "none"
    BY <1>0, <1>4 DEF Spawn, sessionVars, userVars, TaskInv
  <2>3. user # "idle" => pc'[k] = pc[k]
    BY <1>k, <2>1, <2>2, Types
  <2> QED BY <1>1, <1>k, <2>2, <2>3 DEF k
<1>5. ~RestartFree /\ ~RestartWake
  BY <1>0 DEF RestartFree, RestartWake, TaskInv
<1>6. ASSUME NEW n \in Requests, Thread(n) PROVE UserInv'
  <2>1. CASE (Start(n) /\ respRecvd[kind[n]]) \/ Resume(n) \/ Timeout(n)
    <3>1. /\ pc' = [pc EXCEPT ![n] = "clearing"]
          /\ respRecvd' = [respRecvd EXCEPT ![kind[n]] = FALSE]
          /\ user # "idle" => to # kind[n]
          /\ UNCHANGED <<rawRequest, user, to, say, given>>
      BY <1>0, <2>1, EndIs DEF ThreadOnly, userVars
    <3>2. user # "idle" => pc'[k] = pc[k] /\ respRecvd'[to] = respRecvd[to]
      BY <1>k, <3>1, Types
    <3> QED BY <1>1, <1>k, <3>1, <3>2 DEF k
  <2>2. CASE ~((Start(n) /\ respRecvd[kind[n]]) \/ Resume(n) \/ Timeout(n))
    <3>1. /\ UNCHANGED <<user, to, say, given, respRecvd>>
          /\ \/ /\ pc[n] = "start" /\ pc' = [pc EXCEPT ![n] = "waiting"]
                /\ UNCHANGED <<rawRequest, reqID, msg, outbox>>
             \/ Clear(n) \/ Forget(n) \/ Send(n)
      BY <1>6, <2>2, OtherThreadStep DEF userVars
    <3>2. CASE pc[n] = "start" /\ pc' = [pc EXCEPT ![n] = "waiting"] /\ UNCHANGED rawRequest
      <4>1. user # "idle" => pc'[k] \in {"start", "waiting"}
        BY <1>k, <3>2, Types
      <4> QED BY <1>1, <3>1, <3>2, <4>1 DEF k
    <3>3. CASE Clear(n)
      <4>1. /\ pc[n] = "clearing" /\ pc' = [pc EXCEPT ![n] = "forgetting"]
            /\ rawRequest' = [rawRequest EXCEPT ![kind[n]] = NULL]
        BY <3>3 DEF Clear, Leave
      <4>2. rawRequest[kind[n]] = n
        BY <1>0, <4>1 DEF SessionInv, Busy
      <4>3. user # "idle" => to # kind[n] /\ k # n
        BY <1>k, <4>1, <4>2 DEF k
      <4>4. user # "idle" => rawRequest'[to] = k /\ pc'[k] = pc[k]
        BY <1>k, <4>1, <4>3, Types DEF k
      <4> QED BY <1>1, <1>k, <3>1, <4>4
    <3>4. CASE Forget(n) \/ Send(n)
      <4>1. /\ pc[n] \in {"forgetting", "sending"} /\ rawRequest' = rawRequest
            /\ \E q \in {"sending", "done"} : pc' = [pc EXCEPT ![n] = q]
        BY <3>4 DEF Forget, Send, sessionVars
      <4>2. user # "idle" => pc'[k] = pc[k]
        BY <1>k, <4>1, Types
      <4> QED BY <1>1, <1>k, <3>1, <4>1, <4>2 DEF k
    <3> QED BY <3>1, <3>2, <3>3, <3>4
  <2> QED BY <2>1, <2>2
<1>7. ASSUME NEW n \in Requests, NEW r \in UserResponses, Respond(n, r) PROVE UserInv'
  <2>1. /\ user = "idle" /\ Waits(n) /\ given' = [given EXCEPT ![n] = @ \cup {r}]
        /\ UNCHANGED <<rawRequest, reqID, respRecvd, pc, kind>>
    BY <1>7 DEF Respond, sessionVars, requestVars, threadVars
  <2>2. /\ pc[n] \in {"start", "waiting"} /\ ~respRecvd[kind[n]]
        /\ rawRequest[kind[n]] = n /\ n # NULL /\ r \in given'[n]
    BY <1>0, <2>1, Types DEF Waits, SessionInv, Busy
  <2>3. \A s \in Sessions : Active(s, n) => kind[n] = s
    BY <1>0, <2>2 DEF Active, SessionInv
  <2>4. \/ to' = kind[n] /\ say' = r /\ (user' = "ignore" => to' = "es")
        \/ user' = "idle"
    BY <1>7, <2>1, <2>3 DEF Respond
  <2> QED BY <2>1, <2>2, <2>4 DEF UserInv
<1>8. CASE RespondIgnore
  <2>1. /\ user = "ignore" /\ respRecvd' = [respRecvd EXCEPT !["supl"] = TRUE]
        /\ UNCHANGED <<rawRequest, pc, to, say, given>>
    BY <1>8 DEF RespondIgnore, Store, threadVars
  <2>2. respRecvd'[to] = respRecvd[to]
    BY <1>k, <2>1, Types
  <2> QED BY <1>k, <2>1, <2>2 DEF UserInv, k
<1>9. CASE RespondSet
  BY <1>9 DEF RespondSet, UserInv
<1>10. CASE UNCHANGED vars
  BY <1>1, <1>k, <1>10 DEF vars, sessionVars, threadVars, userVars, k
<1> QED BY <1>2, <1>3, <1>4, <1>5, <1>6, <1>7, <1>8, <1>9, <1>10 DEF Next, TaskGoesOn, UserGoesOn

LEMMA FlagStep ==
  ASSUME TypeInv, PromptInv, prompt, restarts = 0, [Next]_vars
  PROVE  FlagInv'
<1>0. SessionInv /\ UserInv /\ FlagInv /\ TaskInv /\ HoldInv
  BY DEF PromptInv, TypeInv
<1> DEFINE Set(s) == respRecvd[s] /\ resp[s] # "IGNORE"
\* A step that stores no response.
<1>1. ASSUME \A n \in Requests : given[n] \subseteq given'[n],
             \A s \in Sessions : Set(s)' =>
               /\ Set(s) /\ resp'[s] = resp[s] /\ rawRequest'[s] = rawRequest[s]
               /\ pc'[rawRequest[s]] = pc[rawRequest[s]] \/ pc'[rawRequest[s]] # "clearing"
      PROVE  FlagInv'
  <2> SUFFICES ASSUME NEW s \in Sessions, Set(s)'
               PROVE  /\ rawRequest'[s] # NULL /\ resp'[s] \in given'[rawRequest'[s]]
                      /\ pc'[rawRequest'[s]] # "clearing"
    BY DEF FlagInv
  <2>1. /\ rawRequest[s] # NULL /\ resp[s] \in given[rawRequest[s]] /\ pc[rawRequest[s]] # "clearing"
        /\ rawRequest[s] \in Requests
    BY <1>0, <1>1, Types DEF FlagInv
  <2> QED BY <1>1, <2>1
<1>2. ASSUME NEW s \in Sessions, Accept(s) PROVE FlagInv'
  <2>1. /\ rawRequest[s] = NULL /\ rawRequest' = [rawRequest EXCEPT ![s] = reqIDCounter + 1]
        /\ UNCHANGED <<resp, respRecvd, pc, given>>
    BY <1>2 DEF Accept, threadVars, userVars
  <2>2. ASSUME NEW t \in Sessions, Set(t) PROVE rawRequest'[t] = rawRequest[t]
    <3>1. t # s
      BY <1>0, <2>1, <2>2 DEF FlagInv
    <3> QED BY <2>1, <3>1, Types
  <2> QED BY <1>1, <2>1, <2>2
<1>3. ASSUME Identify \/ HandleAnswer \/ EngineDown \/ UNCHANGED vars PROVE FlagInv'
  <2>1. UNCHANGED <<resp, given, respRecvd, pc, rawRequest>>
    BY <1>3 DEF Identify, HandleAnswer, EngineDown, sessionVars, threadVars, userVars, vars
  <2> QED BY <1>1, <2>1
<1>4. ASSUME Spawn PROVE FlagInv'
  <2>1. PICK q \in {"start", "failed"} : pc' = [pc EXCEPT ![reqIDCounter] = q]
    BY <1>4 DEF Spawn
  <2>2. UNCHANGED <<resp, given, respRecvd, rawRequest>>
    BY <1>4 DEF Spawn, sessionVars, userVars
  <2>3. ASSUME NEW s \in Sessions, Set(s)
        PROVE  pc'[rawRequest[s]] = pc[rawRequest[s]] \/ pc'[rawRequest[s]] # "clearing"
    <3>1. rawRequest[s] \in Requests
      BY <1>0, <2>3, Types DEF FlagInv
    <3> QED BY <2>1, <3>1, Types
  <2> QED BY <1>1, <2>2, <2>3
<1>5. ~RestartFree /\ ~RestartWake
  BY <1>0 DEF RestartFree, RestartWake, TaskInv
<1>6. ASSUME NEW n \in Requests, Thread(n) PROVE FlagInv'
  <2>1. CASE (Start(n) /\ respRecvd[kind[n]]) \/ Resume(n) \/ Timeout(n)
    <3>1. /\ pc' = [pc EXCEPT ![n] = "clearing"] /\ kind[n] \in Sessions
          /\ respRecvd' = [respRecvd EXCEPT ![kind[n]] = FALSE]
          /\ \A s \in Sessions : s # kind[n] => resp'[s] = resp[s]
          /\ UNCHANGED <<rawRequest, given>>
      BY <1>0, <2>1, EndIs DEF ThreadOnly, userVars
    <3>2. ASSUME NEW s \in Sessions, Set(s)'
          PROVE  Set(s) /\ resp'[s] = resp[s] /\ pc'[rawRequest[s]] = pc[rawRequest[s]]
      <4>1. s # kind[n] /\ Set(s) /\ resp'[s] = resp[s]
        BY <3>1, <3>2, Types
      <4>2. rawRequest[s] \in Requests /\ kind[rawRequest[s]] = s
        BY <1>0, <4>1, Types DEF FlagInv, HoldInv
      <4> QED BY <3>1, <4>1, <4>2, Types
    <3> QED BY <1>1, <3>1, <3>2
  <2>2. CASE ~((Start(n) /\ respRecvd[kind[n]]) \/ Resume(n) \/ Timeout(n))
    <3>1. /\ UNCHANGED <<given, resp, respRecvd>>
          /\ \/ /\ pc[n] = "start" /\ pc' = [pc EXCEPT ![n] = "waiting"]
                /\ UNCHANGED <<rawRequest, reqID, msg, outbox>>
             \/ Clear(n) \/ Forget(n) \/ Send(n)
      BY <1>6, <2>2, OtherThreadStep DEF userVars
    <3>2. CASE pc[n] = "start" /\ pc' = [pc EXCEPT ![n] = "waiting"] /\ UNCHANGED rawRequest
      <4>1. ASSUME NEW s \in Sessions, Set(s)
            PROVE  pc'[rawRequest[s]] = pc[rawRequest[s]] \/ pc'[rawRequest[s]] # "clearing"
        <5>1. rawRequest[s] \in Requests
          BY <1>0, <4>1, Types DEF FlagInv
        <5> QED BY <3>2, <5>1, Types
      <4> QED BY <1>1, <3>1, <3>2, <4>1
    <3>3. CASE Clear(n)
      <4>1. /\ pc[n] = "clearing" /\ pc' = [pc EXCEPT ![n] = "forgetting"]
            /\ rawRequest' = [rawRequest EXCEPT ![kind[n]] = NULL]
        BY <3>3 DEF Clear, Leave
      <4>2. rawRequest[kind[n]] = n /\ kind[n] \in Sessions
        BY <1>0, <4>1, Types DEF SessionInv, Busy
      <4>3. ASSUME NEW s \in Sessions, Set(s)
            PROVE  rawRequest'[s] = rawRequest[s]
                   /\ (pc'[rawRequest[s]] = pc[rawRequest[s]] \/ pc'[rawRequest[s]] # "clearing")
        <5>1. rawRequest[s] \in Requests /\ s # kind[n]
          BY <1>0, <4>1, <4>2, <4>3, Types DEF FlagInv
        <5> QED BY <4>1, <4>2, <5>1, Types
      <4> QED BY <1>1, <3>1, <4>3
    <3>4. CASE Forget(n) \/ Send(n)
      <4>1. rawRequest' = rawRequest /\ \E q \in {"sending", "done"} : pc' = [pc EXCEPT ![n] = q]
        BY <3>4 DEF Forget, Send, sessionVars
      <4>2. ASSUME NEW s \in Sessions, Set(s)
            PROVE  pc'[rawRequest[s]] = pc[rawRequest[s]] \/ pc'[rawRequest[s]] # "clearing"
        <5>1. rawRequest[s] \in Requests
          BY <1>0, <4>2, Types DEF FlagInv
        <5> QED BY <4>1, <5>1, Types
      <4> QED BY <1>1, <3>1, <4>1, <4>2
    <3> QED BY <3>1, <3>2, <3>3, <3>4
  <2> QED BY <2>1, <2>2
<1>7. ASSUME NEW n \in Requests, NEW r \in UserResponses, Respond(n, r) PROVE FlagInv'
  <2>1. /\ given' = [given EXCEPT ![n] = @ \cup {r}]
        /\ UNCHANGED <<rawRequest, resp, respRecvd, pc>>
    BY <1>7 DEF Respond, sessionVars, threadVars
  <2>2. \A m \in Requests : given[m] \subseteq given'[m]
    BY <2>1, Types
  <2> QED BY <1>1, <2>1, <2>2
<1>8. CASE RespondIgnore
  <2>1. /\ resp' = [resp EXCEPT !["supl"] = "IGNORE"] /\ respRecvd' = [respRecvd EXCEPT !["supl"] = TRUE]
        /\ UNCHANGED <<rawRequest, pc, given>>
    BY <1>8 DEF RespondIgnore, Store, threadVars
  <2>2. ASSUME NEW s \in Sessions, Set(s)' PROVE Set(s) /\ resp'[s] = resp[s]
    BY <2>1, <2>2, Types
  <2> QED BY <1>1, <2>1, <2>2
<1>9. CASE RespondSet
  <2>1. /\ user # "idle"
        /\ resp' = [resp EXCEPT ![to] = say] /\ respRecvd' = [respRecvd EXCEPT ![to] = TRUE]
        /\ UNCHANGED <<rawRequest, pc, given>>
    BY <1>9 DEF RespondSet, Store, threadVars
  <2>2. ASSUME NEW s \in Sessions, Set(s)'
        PROVE  /\ rawRequest'[s] # NULL /\ resp'[s] \in given'[rawRequest'[s]]
               /\ pc'[rawRequest'[s]] # "clearing"
    <3>1. CASE s = to
      BY <1>0, <2>1, <3>1, Types DEF UserInv
    <3>2. CASE s # to
      <4>1. Set(s) /\ resp'[s] = resp[s]
        BY <2>1, <2>2, <3>2, Types
      <4> QED BY <1>0, <2>1, <4>1 DEF FlagInv
    <3> QED BY <3>1, <3>2
  <2> QED BY <2>2 DEF FlagInv
<1> QED BY <1>2, <1>3, <1>4, <1>5, <1>6, <1>7, <1>8, <1>9 DEF Next, TaskGoesOn, UserGoesOn

LEMMA AnswerStep ==
  ASSUME TypeInv, PromptInv, prompt, restarts = 0, [Next]_vars
  PROVE  AnswerInv'
<1>0. SessionInv /\ UserInv /\ FlagInv /\ AnswerInv /\ TaskInv
  BY DEF PromptInv, TypeInv
<1>1. ASSUME UNCHANGED <<msg, outbox, informed>>, \A n \in Requests : given[n] \subseteq given'[n]
      PROVE  AnswerInv'
  <2>1. \A n \in Requests : OwnResponses(n) \subseteq OwnResponses(n)'
    BY <1>1 DEF OwnResponses
  <2>2. ASSUME NEW A \in SUBSET Answers, Own(A)
        PROVE  \A a \in A : a.response \in OwnResponses(a.request)'
    <3> SUFFICES ASSUME NEW a \in A PROVE a.response \in OwnResponses(a.request)'
      OBVIOUS
    <3>1. a.request \in Requests /\ a.response \in OwnResponses(a.request)
      BY <2>2 DEF Answers, Own
    <3> QED BY <2>1, <3>1
  <2>3. \A t \in Requests : Own(msg[t])'
    <3> SUFFICES ASSUME NEW t \in Requests PROVE Own(msg[t])'
      OBVIOUS
    <3>1. Own(msg[t]) /\ msg[t] \in SUBSET Answers /\ msg'[t] = msg[t]
      BY <1>0, <1>1, Types DEF AnswerInv
    <3> QED BY <2>2, <3>1 DEF Own
  <2>4. Own(outbox)'
    <3>1. Own(outbox) /\ outbox \in SUBSET Answers /\ outbox' = outbox
      BY <1>0, <1>1, Types DEF AnswerInv
    <3> QED BY <2>2, <3>1 DEF Own
  <2>5. AnswersAreOwn'
    BY <1>0, <1>1 DEF AnswerInv, AnswersAreOwn, Told
  <2> QED BY <2>3, <2>4, <2>5 DEF AnswerInv
<1>2. ASSUME (\E s \in Sessions : Accept(s)) \/ Identify \/ Spawn \/ EngineDown \/ UserGoesOn \/ UNCHANGED vars
      PROVE  AnswerInv'
  <2>1. UNCHANGED <<msg, outbox, informed, given>>
    BY <1>2 DEF Accept, Identify, Spawn, EngineDown, UserGoesOn, RespondIgnore, RespondSet, Store,
                threadVars, userVars, fates, vars
  <2> QED BY <1>1, <2>1
<1>3. ASSUME NEW n \in Requests, NEW r \in UserResponses, Respond(n, r) PROVE AnswerInv'
  <2>1. given' = [given EXCEPT ![n] = @ \cup {r}] /\ UNCHANGED <<msg, outbox, informed>>
    BY <1>3 DEF Respond, threadVars, fates
  <2>2. \A m \in Requests : given[m] \subseteq given'[m]
    BY <2>1, Types
  <2> QED BY <1>1, <2>1, <2>2
<1>4. ~RestartFree /\ ~RestartWake
  BY <1>0 DEF RestartFree, RestartWake, TaskInv
<1>5. ASSUME HandleAnswer PROVE AnswerInv'
  <2>1. PICK a \in outbox : /\ outbox' = outbox \ {a}
                            /\ informed' = [informed EXCEPT ![a.request] = Append(@, a.response)]
    BY <1>5 DEF HandleAnswer
  <2>2. UNCHANGED <<msg, given>>
    BY <1>5 DEF HandleAnswer, threadVars, userVars
  <2>3. a.response \in OwnResponses(a.request) /\ a.request \in Requests
    BY <1>0, Types DEF AnswerInv, Own, Answers
  <2>4. (\A t \in Requests : Own(msg[t])') /\ Own(outbox)'
    BY <1>0, <2>1, <2>2 DEF AnswerInv, Own, OwnResponses
  <2>5. ASSUME NEW n \in Requests PROVE Told(n)' \subseteq OwnResponses(n)
    <3>1. Told(n) \subseteq OwnResponses(n)
      BY <1>0 DEF AnswerInv, AnswersAreOwn, OwnResponses
    <3>2. CASE n = a.request
      <4>1. informed'[n] = Append(informed[n], a.response)
        BY <2>1, <2>3, <3>2, Types
      <4>2. informed[n] \in Seq(Responses \cup {"unset"})
        BY DEF TypeInv, TypeOK
      <4>3. \A i \in DOMAIN informed'[n] :
              informed'[n][i] = a.response \/ (i \in DOMAIN informed[n] /\ informed'[n][i] = informed[n][i])
        BY <4>1, <4>2
      <4> QED BY <2>3, <3>1, <3>2, <4>3 DEF Told
    <3>3. CASE n # a.request
      <4>1. informed'[n] = informed[n]
        BY <2>1, <2>3, <3>3, Types
      <4> QED BY <3>1, <4>1 DEF Told
    <3> QED BY <3>2, <3>3
  <2>6. AnswersAreOwn'
    BY <2>2, <2>5 DEF AnswersAreOwn, OwnResponses
  <2> QED BY <2>4, <2>6 DEF AnswerInv
<1>6. ASSUME NEW n \in Requests, Thread(n) PROVE AnswerInv'
  <2>1. CASE (Start(n) /\ respRecvd[kind[n]]) \/ Resume(n) \/ Timeout(n)
    <3>1. UNCHANGED <<outbox, informed, given>>
      BY <1>0, <2>1, EndIs DEF ThreadOnly, userVars
    <3>2. PICK r \in OwnResponses(n) \cup {"IGNORE"} : msg' = [msg EXCEPT ![n] = Message(n, r)]
      BY <1>0, <2>1, EndIs
    <3>3. \A a \in Message(n, r) : a.request = n /\ a.response \in OwnResponses(n)
      BY <3>2 DEF Message, Answer
    <3>4. \A t \in Requests : Own(msg[t])'
      <4> SUFFICES ASSUME NEW t \in Requests, NEW a \in msg'[t] PROVE a.response \in OwnResponses(a.request)'
        BY DEF Own
      <4>1. OwnResponses(a.request)' = OwnResponses(a.request)
        BY <3>1 DEF OwnResponses
      <4>2. CASE t = n
        <5>1. a \in Message(n, r)
          BY <3>2, <4>2, Types
        <5> QED BY <3>3, <4>1, <5>1
      <4>3. CASE t # n
        <5>1. a \in msg[t]
          BY <3>2, <4>3, Types
        <5> QED BY <1>0, <4>1, <5>1 DEF AnswerInv, Own
      <4> QED BY <4>2, <4>3
    <3>5. Own(outbox)' /\ AnswersAreOwn'
      BY <1>0, <3>1 DEF AnswerInv, Own, OwnResponses, AnswersAreOwn, Told
    <3> QED BY <3>4, <3>5 DEF AnswerInv
  <2>2. CASE ~((Start(n) /\ respRecvd[kind[n]]) \/ Resume(n) \/ Timeout(n))
    <3>1. /\ UNCHANGED <<given, informed>>
          /\ \/ UNCHANGED <<msg, outbox>>
             \/ Clear(n) \/ Forget(n) \/ Send(n)
      BY <1>6, <2>2, OtherThreadStep DEF userVars
    <3>2. CASE UNCHANGED <<msg, outbox>> \/ Clear(n) \/ Forget(n)
      <4>1. UNCHANGED <<msg, outbox>>
        BY <3>2 DEF Clear, Leave, Forget
      <4> QED BY <1>1, <3>1, <4>1
    <3>3. CASE Send(n)
      <4>1. outbox' = outbox \cup msg[n] /\ msg' = [msg EXCEPT ![n] = {}]
        BY <3>3 DEF Send
      <4>2. \A t \in Requests : msg'[t] \subseteq msg[t]
        BY <4>1, Types
      <4>3. \A t \in Requests : Own(msg[t])'
        BY <1>0, <3>1, <4>2 DEF AnswerInv, Own, OwnResponses
      <4>4. Own(outbox)'
        BY <1>0, <3>1, <4>1 DEF AnswerInv, Own, OwnResponses
      <4>5. AnswersAreOwn'
        BY <1>0, <3>1 DEF AnswerInv, AnswersAreOwn, Told
      <4> QED BY <4>3, <4>4, <4>5 DEF AnswerInv
    <3> QED BY <3>1, <3>2, <3>3
  <2> QED BY <2>1, <2>2
<1> QED BY <1>2, <1>3, <1>4, <1>5, <1>6 DEF Next, TaskGoesOn

LEMMA OwnStep == TypeInv /\ OwnInv /\ [Next]_vars => OwnInv'
<1> SUFFICES ASSUME TypeInv, OwnInv, [Next]_vars, prompt', restarts' = 0
             PROVE  PromptInv'
  BY DEF OwnInv
<1>1. prompt' = prompt
  BY DEF Next, Accept, EngineDown, TaskGoesOn, Identify, Spawn, HandleAnswer, RestartFree, RestartWake,
         Thread, Start, Resume, Timeout, Clear, Leave, Forget, Send, ThreadOnly, Respond, UserGoesOn,
         RespondIgnore, RespondSet, Store, vars
<1>2. restarts \in Nat /\ (restarts' = restarts \/ restarts' = restarts + 1)
  BY DEF Next, Accept, EngineDown, TaskGoesOn, Identify, Spawn, HandleAnswer, RestartFree, RestartWake,
         Thread, Start, Resume, Timeout, Clear, Leave, Forget, Send, ThreadOnly, Respond, UserGoesOn,
         RespondIgnore, RespondSet, Store, vars, TypeInv, TypeOK
<1>3. prompt /\ restarts = 0
  <2>1. restarts = 0
    BY <1>2
  <2> QED BY <1>1, <2>1
<1>4. PromptInv
  BY <1>3 DEF OwnInv
<1> QED BY <1>3, <1>4, SessionStep, UserStep, FlagStep, AnswerStep DEF PromptInv

(* The modem is told what the user responded to that very request, or that *)
(* there was no response, as long as responses come while their session    *)
(* waits (loc_eng_ni_respond finds the session without the lock) and the   *)
(* modem does not restart.                                                 *)
THEOREM OwnAnswers == Spec => []PromptAnswersAreOwn
<1>1. Init => OwnInv
  BY DEF Init, OwnInv, PromptInv, SessionInv, UserInv, FlagInv, AnswerInv, Busy, Own, AnswersAreOwn, Told
<1>2. OwnInv => PromptAnswersAreOwn
  BY DEF OwnInv, PromptInv, AnswerInv, PromptAnswersAreOwn
<1> QED BY <1>1, <1>2, InitTypes, TypeStep, OwnStep, PTL DEF Spec
=============================================================================
