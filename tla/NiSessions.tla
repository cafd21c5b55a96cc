------------------------------ MODULE NiSessions ------------------------------
(***************************************************************************)
(* Network-initiated location requests (loc_eng_ni.cpp).  The modem asks,  *)
(* the user is notified, and a thread of the request's own waits for the   *)
(* answer or the timeout and answers the modem.  There is one session for  *)
(* emergency SUPL requests and one for all others.                         *)
(*                                                                         *)
(* Three kinds of threads meet: the engine's message task (new requests,   *)
(* answers on their way to the modem, the modem's restart), the            *)
(* framework's thread (the user's response) and the sessions' own threads. *)
(* A critical section of tLock is one step, but for the end of a session's *)
(* thread, which holds it over two; what is read or written without the    *)
(* lock is a step of its own.  A session's thread in                       *)
(* pthread_cond_timedwait may resume whenever respRecvd is set, and may    *)
(* time out at any moment: respTimeLeft is not modelled.                   *)
(*                                                                         *)
(* Requests are named by the reqID they will be given.                     *)
(***************************************************************************)
EXTENDS Naturals, Sequences

CONSTANTS
  MaxRequests,   \* bound: requests accepted
  MaxResponses,  \* bound: responses of the user
  MaxRestarts,   \* bound: restarts of the modem
  Prompt         \* values of prompt

ASSUME NiAssumption ==
  /\ MaxRequests \in Nat /\ MaxResponses \in Nat /\ MaxRestarts \in Nat
  /\ Prompt \subseteq BOOLEAN

Sessions == {"es", "supl"}
Requests == 1 .. MaxRequests
NULL     == 0

UserResponses == {"ACCEPT", "DENY"}
Responses     == UserResponses \cup {"NORESP", "IGNORE"}

VARIABLES
  rawRequest,    \* per session: the request it holds, or NULL
  reqID, resp, respRecvd,
  tLock,         \* per session: the thread that holds it over a step, or NULL
  reqIDCounter,
  kind,          \* the session each request was accepted for
  pc,            \* where the thread of each request is in ni_thread_proc
  msg,           \* the answer it has made and not yet sent, if any
  task, on,      \* where the message task is, and in which session
  outbox,        \* LocEngInformNiResponse messages sent to the task
  user, to, say, \* where loc_eng_ni_respond is, its session and response
  given,         \* history: what the user responded to each request
  informed,      \* history: what the modem was told of each request, in order
  freed,         \* history: how often each rawRequest was freed
  responses, restarts,
  prompt         \* responses find their session waiting, and no timeout overtakes them

sessionVars == <<rawRequest, reqID, resp, respRecvd, tLock>>
requestVars == <<reqIDCounter, kind>>
threadVars  == <<pc, msg>>
taskVars    == <<task, on>>
userVars    == <<user, to, say, given, responses>>
fates       == <<informed, freed>>
vars == <<sessionVars, requestVars, threadVars, taskVars, outbox, userVars, fates,
          restarts, prompt>>

Answer(n, r) == [request |-> n, response |-> r]
Answers == [request : Requests, response : Responses \cup {"unset"}]

\* The lock is held over a step by exactly the thread that clears its session.
TypeOK ==
  /\ rawRequest \in [Sessions -> Requests \cup {NULL}]
  /\ reqID \in [Sessions -> Requests \cup {NULL}]
  /\ resp \in [Sessions -> Responses \cup {"unset"}]
  /\ respRecvd \in [Sessions -> BOOLEAN]
  /\ tLock \in [Sessions -> Requests \cup {NULL}]
  /\ \A s \in Sessions, n \in Requests : tLock[s] = n <=> pc[n] = "clearing" /\ kind[n] = s
  /\ reqIDCounter \in Requests \cup {0}
  /\ kind \in [Requests -> Sessions]
  /\ pc \in [Requests -> {"none", "failed", "start", "waiting", "clearing", "forgetting",
                          "sending", "done"}]
  /\ msg \in [Requests -> SUBSET Answers]
  /\ task \in {"idle", "accepted", "identified", "restart", "wake"}
  /\ on \in Sessions
  /\ outbox \subseteq Answers
  /\ user \in {"idle", "ignore", "set"}
  /\ to \in Sessions
  /\ say \in UserResponses
  /\ given \in [Requests -> SUBSET UserResponses]
  /\ informed \in [Requests -> Seq(Responses \cup {"unset"})]
  /\ freed \in [Requests -> Nat]
  /\ responses \in Nat /\ restarts \in Nat
  /\ prompt \in BOOLEAN

Init ==
  /\ rawRequest = [s \in Sessions |-> NULL]
  /\ reqID = [s \in Sessions |-> NULL]
  /\ resp = [s \in Sessions |-> "unset"]
  /\ respRecvd = [s \in Sessions |-> FALSE]
  /\ tLock = [s \in Sessions |-> NULL]
  /\ reqIDCounter = 0
  /\ kind = [n \in Requests |-> "es"]
  /\ pc = [n \in Requests |-> "none"]
  /\ msg = [n \in Requests |-> {}]
  /\ task = "idle" /\ on = "es"
  /\ outbox = {}
  /\ user = "idle" /\ to = "es" /\ say = "DENY"
  /\ given = [n \in Requests |-> {}]
  /\ informed = [n \in Requests |-> <<>>]
  /\ freed = [n \in Requests |-> 0]
  /\ responses = 0 /\ restarts = 0
  /\ prompt \in Prompt
----------------------------------------------------------------------------
(* The message task: loc_eng_ni_request_handler.  A request that meets a   *)
(* session in progress is freed and changes nothing.                       *)

Accept(s) ==
  /\ task = "idle" /\ reqIDCounter < MaxRequests
  /\ rawRequest["es"] = NULL
  /\ s = "supl" => rawRequest["supl"] = NULL
  /\ rawRequest' = [rawRequest EXCEPT ![s] = reqIDCounter + 1]
  /\ kind' = [kind EXCEPT ![reqIDCounter + 1] = s]
  /\ task' = "accepted" /\ on' = s
  /\ UNCHANGED <<reqID, resp, respRecvd, tLock, reqIDCounter, threadVars, outbox, userVars,
                 fates, restarts, prompt>>

Identify ==
  /\ task = "accepted"
  /\ reqIDCounter' = reqIDCounter + 1
  /\ reqID' = [reqID EXCEPT ![on] = reqIDCounter + 1]
  /\ task' = "identified"
  /\ UNCHANGED <<rawRequest, resp, respRecvd, tLock, kind, threadVars, on, outbox, userVars,
                 fates, restarts, prompt>>

\* pthread_create, which may fail, and the notification
Spawn ==
  /\ task = "identified"
  /\ \E p \in {"start", "failed"} : pc' = [pc EXCEPT ![reqIDCounter] = p]
  /\ task' = "idle"
  /\ UNCHANGED <<sessionVars, requestVars, msg, on, outbox, userVars, fates, restarts, prompt>>

Notified(n) == n =< reqIDCounter /\ ~(task = "identified" /\ n = reqIDCounter)

\* LocEngInformNiResponse: proc() and the destructor, which frees the request
HandleAnswer ==
  /\ task = "idle"
  /\ \E a \in outbox :
       /\ outbox' = outbox \ {a}
       /\ informed' = [informed EXCEPT ![a.request] = Append(@, a.response)]
       /\ freed' = [freed EXCEPT ![a.request] = @ + 1]
  /\ UNCHANGED <<sessionVars, requestVars, threadVars, taskVars, userVars, restarts, prompt>>

\* loc_eng_ni_reset_on_engine_restart, first of the emergency session
EngineDown ==
  /\ task = "idle" /\ restarts < MaxRestarts
  /\ task' = "restart" /\ on' = "es"
  /\ restarts' = restarts + 1
  /\ UNCHANGED <<sessionVars, requestVars, threadVars, outbox, userVars, fates, prompt>>

NextSession ==
  /\ on' = IF on = "es" THEN "supl" ELSE "es"
  /\ task' = IF on = "es" THEN "restart" ELSE "idle"

\* without the lock: a request its thread has already made an answer of is
\* freed all the same
RestartFree ==
  /\ task = "restart"
  /\ IF rawRequest[on] = NULL
       THEN NextSession /\ UNCHANGED <<rawRequest, freed>>
       ELSE /\ freed' = [freed EXCEPT ![rawRequest[on]] = @ + 1]
            /\ rawRequest' = [rawRequest EXCEPT ![on] = NULL]
            /\ task' = "wake" /\ UNCHANGED on
  /\ UNCHANGED <<reqID, resp, respRecvd, tLock, requestVars, threadVars, outbox, userVars,
                 informed, restarts, prompt>>

RestartWake ==
  /\ task = "wake" /\ tLock[on] = NULL
  /\ respRecvd' = [respRecvd EXCEPT ![on] = TRUE]
  /\ NextSession
  /\ UNCHANGED <<rawRequest, reqID, resp, tLock, requestVars, threadVars, outbox, userVars,
                 fates, restarts, prompt>>
----------------------------------------------------------------------------
(* A request's thread: ni_thread_proc.                                     *)

\* Mutant: the flag is left for the next session.
KeepFlag(s) == UNCHANGED respRecvd

\* "Reset the user response flag for the next session"
ResetFlag(s) == respRecvd' = [respRecvd EXCEPT ![s] = FALSE]

\* Mutant: an ignored request is answered as well.
MessageAnyway(m, r) == {Answer(m, r)}

Message(m, r) == IF r = "IGNORE" THEN {} ELSE {Answer(m, r)}

\* the end of the wait with response r, under the lock
Finish(n, s, r) ==
  /\ ResetFlag(s)
  /\ IF rawRequest[s] = NULL
       THEN /\ pc' = [pc EXCEPT ![n] = "forgetting"]
            /\ UNCHANGED <<tLock, msg, freed>>
       ELSE /\ pc' = [pc EXCEPT ![n] = "clearing"]
            /\ tLock' = [tLock EXCEPT ![s] = n]
            /\ msg' = [msg EXCEPT ![n] = Message(rawRequest[s], r)]
            /\ freed' = [freed EXCEPT ![rawRequest[s]] = IF r = "IGNORE" THEN @ + 1 ELSE @]

ThreadOnly == UNCHANGED <<rawRequest, reqID, requestVars, taskVars, outbox, userVars, informed,
                          restarts, prompt>>

Start(n) ==
  /\ pc[n] = "start" /\ tLock[kind[n]] = NULL
  /\ IF respRecvd[kind[n]]
       THEN Finish(n, kind[n], resp[kind[n]])
       ELSE /\ pc' = [pc EXCEPT ![n] = "waiting"]
            /\ UNCHANGED <<respRecvd, tLock, msg, freed>>
  /\ UNCHANGED resp
  /\ ThreadOnly

Resume(n) ==
  /\ pc[n] = "waiting" /\ tLock[kind[n]] = NULL
  /\ respRecvd[kind[n]]
  /\ Finish(n, kind[n], resp[kind[n]])
  /\ UNCHANGED resp
  /\ ThreadOnly

\* Mutant: the time-out does not end the loop.
TimeoutWaitsOn(n) ==
  /\ pc[n] = "waiting" /\ tLock[kind[n]] = NULL
  /\ resp' = [resp EXCEPT ![kind[n]] = "NORESP"]
  /\ UNCHANGED <<respRecvd, tLock, threadVars, freed>>
  /\ ThreadOnly

\* ETIMEDOUT counts even if a response has come in before the lock was taken.
Timeout(n) ==
  /\ pc[n] = "waiting" /\ tLock[kind[n]] = NULL
  /\ prompt => user = "idle"
  /\ resp' = [resp EXCEPT ![kind[n]] = "NORESP"]
  /\ Finish(n, kind[n], "NORESP")
  /\ ThreadOnly

Leave(n, s) ==
  /\ tLock' = [tLock EXCEPT ![s] = NULL]
  /\ pc' = [pc EXCEPT ![n] = "forgetting"]
  /\ UNCHANGED <<reqID, resp, respRecvd, requestVars, msg, taskVars, outbox, userVars, fates,
                 restarts, prompt>>

\* Mutants: the session keeps its request; the lock is not given back.
ClearKeepsRequest(n) == pc[n] = "clearing" /\ Leave(n, kind[n]) /\ UNCHANGED rawRequest
Clear(n) ==
  /\ pc[n] = "clearing"
  /\ rawRequest' = [rawRequest EXCEPT ![kind[n]] = NULL]
  /\ Leave(n, kind[n])

\* after the unlock, whatever request the session holds by now
Forget(n) ==
  /\ pc[n] = "forgetting"
  /\ reqID' = [reqID EXCEPT ![kind[n]] = NULL]
  /\ pc' = [pc EXCEPT ![n] = "sending"]
  /\ UNCHANGED <<rawRequest, resp, respRecvd, tLock, requestVars, msg, taskVars, outbox,
                 userVars, fates, restarts, prompt>>

Send(n) ==
  /\ pc[n] = "sending"
  /\ outbox' = outbox \cup msg[n]
  /\ msg' = [msg EXCEPT ![n] = {}]
  /\ pc' = [pc EXCEPT ![n] = "done"]
  /\ UNCHANGED <<sessionVars, requestVars, taskVars, userVars, fates, restarts, prompt>>
----------------------------------------------------------------------------
(* The framework's thread: loc_eng_ni_respond.                             *)

Active(s, n) == reqID[s] = n /\ rawRequest[s] # NULL

Waits(n) == pc[n] \in {"start", "waiting"} /\ ~respRecvd[kind[n]]

\* the session is chosen without the lock; a response to no active session is
\* dropped
Respond(n, r) ==
  /\ user = "idle" /\ responses < MaxResponses
  /\ Notified(n)
  /\ prompt => Waits(n) /\ \A s \in Sessions : tLock[s] = NULL
  /\ given' = [given EXCEPT ![n] = @ \cup {r}]
  /\ responses' = responses + 1
  /\ \/ /\ Active("es", n)
        /\ to' = "es" /\ say' = r
        /\ user' = IF r = "ACCEPT" /\ rawRequest["supl"] # NULL THEN "ignore" ELSE "set"
     \/ /\ ~Active("es", n) /\ Active("supl", n)
        /\ to' = "supl" /\ say' = r /\ user' = "set"
     \/ /\ ~Active("es", n) /\ ~Active("supl", n)
        /\ UNCHANGED <<user, to, say>>
  /\ UNCHANGED <<sessionVars, requestVars, threadVars, taskVars, outbox, fates, restarts, prompt>>

Store(s, r) ==
  /\ tLock[s] = NULL
  /\ resp' = [resp EXCEPT ![s] = r]
  /\ respRecvd' = [respRecvd EXCEPT ![s] = TRUE]
  /\ UNCHANGED <<rawRequest, reqID, tLock, requestVars, threadVars, taskVars, outbox,
                 given, responses, fates, restarts, prompt>>

\* an accepted emergency session ends the other one
RespondIgnore ==
  /\ user = "ignore" /\ Store("supl", "IGNORE")
  /\ user' = "set" /\ UNCHANGED <<to, say>>

\* (to and say, locals of the call, go back to where they were)
RespondSet ==
  /\ user = "set" /\ Store(to, say)
  /\ user' = "idle" /\ to' = "es" /\ say' = "DENY"
----------------------------------------------------------------------------
TaskGoesOn == Identify \/ Spawn \/ HandleAnswer \/ RestartFree \/ RestartWake

Thread(n) == Start(n) \/ Resume(n) \/ Timeout(n) \/ Clear(n) \/ Forget(n) \/ Send(n)

UserGoesOn == RespondIgnore \/ RespondSet

Next ==
  \/ \E s \in Sessions : Accept(s)
  \/ EngineDown
  \/ TaskGoesOn
  \/ \E n \in Requests : Thread(n)
  \/ \E n \in Requests, r \in UserResponses : Respond(n, r)
  \/ UserGoesOn

Spec == Init /\ [][Next]_vars

\* The task goes on with what it has begun and with its messages, threads run
\* and time passes, loc_eng_ni_respond returns; nobody has to ask or respond.
FairSpec ==
  /\ Spec
  /\ WF_vars(TaskGoesOn) /\ WF_vars(UserGoesOn)
  /\ \A n \in Requests : WF_vars(Thread(n))
----------------------------------------------------------------------------
(* No session is occupied for ever: one that holds a request has a thread  *)
(* that will clear it, though perhaps not the request's own, unless        *)
(* pthread_create failed ("For robustness, spawn a thread ... to clear up  *)
(* the notification status").                                              *)
SessionHasThread ==
  \A s \in Sessions : rawRequest[s] # NULL =>
    \/ task \in {"accepted", "identified"} /\ on = s
    \/ pc[rawRequest[s]] = "failed"
    \/ \E n \in Requests : kind[n] = s /\ pc[n] \in {"start", "waiting", "clearing"}

(* The modem is told of a request at most once, restart or not, and a      *)
(* request is freed at most once unless the modem has restarted: the       *)
(* session, its thread, the message and the task hand it over without      *)
(* keeping it.                                                             *)
EachRequestOnce ==
  \A n \in Requests :
    /\ Len(informed[n]) =< 1
    /\ restarts = 0 => freed[n] =< 1

Told(n) == {informed[n][i] : i \in DOMAIN informed[n]}

(* "ID to check against response": the modem is told of a request what the *)
(* user responded to it, or that there was no response.                    *)
AnswersAreOwn == \A n \in Requests : Told(n) \subseteq given[n] \cup {"NORESP"}

(* It is so if responses come while their session waits for them and do    *)
(* not race its time-out, and the modem does not restart.                  *)
PromptAnswersAreOwn == prompt /\ restarts = 0 => AnswersAreOwn

(* Every request that got its thread is answered, ignored or, at a         *)
(* restart, thrown away: none is left waiting.                             *)
RequestsEnd ==
  \A s \in Sessions, n \in Requests :
    rawRequest[s] = n ~> freed[n] > 0 \/ pc[n] = "failed"
============================================================================
