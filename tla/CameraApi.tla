------------------------------- MODULE CameraApi -------------------------------
(***************************************************************************)
(* The threads around the HAL1 camera state machine.  Framework threads    *)
(* queue an API event and sleep until its result is in m_apiResultList;    *)
(* the state machine thread serves the API queue before the event queue;   *)
(* the callback notifier posts SNAPSHOT_DONE and sleeps until it has been  *)
(* handled; the live snapshot thread, the post processor and the daemon's  *)
(* callbacks post without waiting; the destructor ends the state machine   *)
(* thread first and joins the notifier next.                               *)
(***************************************************************************)
EXTENDS CameraStateMachine, Sequences, SequencesExt

CONSTANTS Callers,          \* framework threads
          Calls,            \* the API events they issue
          MaxCalls,         \* bound: calls made in all
          FlashNeeded,      \* take_picture may have to prepare before it takes
          RetroSnapshots,   \* getNumOfRetroSnapshots() > 0
          DaemonMayDie,
          MayClose

ASSUME ApiAssumption ==
    /\ Calls \subseteq ApiEvents
    /\ MaxCalls \in Nat
    /\ {FlashNeeded, RetroSnapshots, DaemonMayDie, MayClose} \subseteq BOOLEAN

VARIABLES
    api_queue, evt_queue,   \* sequences of [evt, arg]
    m_apiResultList,        \* sequence of <<evt, status>>
    call,                   \* per caller: the API events it still has to see answered
    woken,                  \* per caller: broadcast to since it last looked
    calls,                  \* calls made so far
    notifier,               \* cbNotifyRoutine: "idle", "got" the last picture, "waiting"
    retro,                  \* the ZSL channel and a retro-active picture: "no",
                            \* "frames" outstanding, waiting for "prepare"
    daemon,                 \* whether the camera daemon lives
    closing,                \* the destructor: "open", "joiningSm", "joiningNotifier", "closed"
    smExited                \* whether the state machine thread has left its loop

threadVars == <<call, woken, calls>>
queueVars  == <<api_queue, evt_queue, m_apiResultList>>
lifeVars   == <<closing, smExited, daemon>>
apiVars    == <<vars, threadVars, queueVars, lifeVars, notifier, retro>>

CallArguments(evt) == CASE evt = "SET_PREVIEW_WINDOW" -> BOOLEAN
                        [] evt = "SET_PARAMS" -> Settings
                        [] OTHER -> {TRUE}

Exit == Event("EXIT", TRUE)

AInit ==
    /\ Init
    /\ api_queue = <<>> /\ evt_queue = <<>> /\ m_apiResultList = <<>>
    /\ call = [c \in Callers |-> <<>>]
    /\ woken = [c \in Callers |-> FALSE]
    /\ calls = 0
    /\ notifier = "idle"
    /\ retro = "no"
    /\ daemon = TRUE
    /\ closing = "open"
    /\ smExited = FALSE

\* The state machine's and the hardware's variables, untouched.
CameraUnchanged == UNCHANGED <<smVars, hwVars, msgVars, confVars, bRetroPicture, out>>

-----------------------------------------------------------------------------
(* Framework threads: lockAPI, processAPI, waitAPIResult, unlockAPI.       *)
(* m_lock is held from lockAPI to the wait, so queueing is one step, and   *)
(* from waking to the next wait or unlockAPI, so that is one step, too.    *)

Waiting == {c \in Callers : call[c] # <<>>}

\* procAPI
ProcApi(evt, arg) == api_queue' = Append(api_queue, Event(evt, arg))

\* procEvt
ProcEvt(evt) == evt_queue' = Append(evt_queue, Event(evt, TRUE))

\* take_picture: a retro-active picture is taken first and prepared then.
RetroCall ==
    /\ RetroSnapshots /\ par.zsl /\ ~mLongshotEnabled
    /\ m_state \notin {"RECORDING", "VIDEO_PIC_TAKING"}

Steps(evt) ==
    CASE evt = "TAKE_PICTURE" /\ RetroCall -> {<<"TAKE_PICTURE", "PREPARE_SNAPSHOT">>}
      [] evt = "TAKE_PICTURE" /\ ~RetroCall ->
           {<<"TAKE_PICTURE">>} \cup (IF FlashNeeded THEN {<<"PREPARE_SNAPSHOT", "TAKE_PICTURE">>} ELSE {})
      [] OTHER -> {<<evt>>}

Call(c) ==
    /\ call[c] = <<>> /\ calls < MaxCalls
    /\ closing = "open" /\ daemon
    /\ \E evt \in Calls : \E arg \in CallArguments(evt), steps \in Steps(evt) :
         /\ call' = [call EXCEPT ![c] = steps]
         /\ ProcApi(Head(steps), arg)
         /\ bRetroPicture' = IF evt = "TAKE_PICTURE" THEN RetroCall ELSE bRetroPicture
    /\ calls' = calls + 1
    /\ woken' = [woken EXCEPT ![c] = FALSE]
    /\ UNCHANGED <<smVars, hwVars, msgVars, confVars, out, evt_queue, m_apiResultList,
                   notifier, retro, lifeVars>>

\* waitAPIResult after pthread_cond_wait: the first result of this event is
\* taken, and if there is none the caller waits again.
Answered(c) == \E i \in DOMAIN m_apiResultList : m_apiResultList[i][1] = Head(call[c])

TakeResult(evt) ==
    LET i == CHOOSE i \in DOMAIN m_apiResultList :
               /\ m_apiResultList[i][1] = evt
               /\ \A j \in 1..(i - 1) : m_apiResultList[j][1] # evt
    IN  m_apiResultList' = RemoveAt(m_apiResultList, i)

Wake(c) ==
    /\ c \in Waiting /\ woken[c]
    /\ woken' = [woken EXCEPT ![c] = FALSE]
    /\ \/ /\ Answered(c)
          /\ TakeResult(Head(call[c]))
          /\ call' = [call EXCEPT ![c] = Tail(call[c])]
          /\ \/ Tail(call[c]) = <<>> /\ UNCHANGED api_queue
             \/ Tail(call[c]) # <<>> /\ ProcApi(Head(Tail(call[c])), TRUE)
       \/ /\ ~Answered(c)
          /\ UNCHANGED <<m_apiResultList, call, api_queue>>
    /\ CameraUnchanged
    /\ UNCHANGED <<evt_queue, calls, notifier, retro, lifeVars>>

-----------------------------------------------------------------------------
(* The state machine thread: smEvtProcRoutine, one event per round.        *)

\* What a handler posts: the live snapshot's CANCEL_PICTURE goes to the API
\* queue, a burst's SNAPSHOT_DONE to the event queue.
Posted(evts) == [k \in 1..Cardinality(evts) |-> Event(SetToSeq(evts)[k], TRUE)]

\* Mutant: pthread_cond_signal instead of pthread_cond_broadcast.
SignalOne ==
    /\ m_apiResultList' = m_apiResultList \o SetToSeq(out'.api)
    /\ \/ \E c \in Waiting : out'.api # {} /\ woken' = [woken EXCEPT ![c] = TRUE]
       \/ (out'.api = {} \/ Waiting = {}) /\ UNCHANGED woken
    /\ notifier' = IF out'.evt # {} /\ notifier = "waiting" THEN "idle" ELSE notifier

\* signalAPIResult appends and broadcasts; signalEvtResult wakes the notifier.
Signal ==
    /\ m_apiResultList' = m_apiResultList \o SetToSeq(out'.api)
    /\ woken' = [c \in Callers |-> woken[c] \/ (out'.api # {} /\ c \in Waiting)]
    /\ notifier' = IF out'.evt # {} /\ notifier = "waiting" THEN "idle" ELSE notifier

\* A retro-active ZSL picture starts with the frames already buffered; with the
\* recording hint it is a live snapshot and has none.
RetroAfter(e) ==
    retro' = CASE capture' = "none" -> "no"
               [] /\ e.evt = "TAKE_PICTURE" /\ bRetroPicture /\ ZslPreview(par)
                  /\ m_state = "PREVIEWING" /\ m_state' = "PREVIEW_PIC_TAKING" -> "frames"
               [] OTHER -> retro

Handle(e) == StateMachine(e) /\ Signal /\ RetroAfter(e)

\* The API queue is looked at first.
NextApi ==
    /\ ~smExited
    /\ api_queue # <<>> /\ Head(api_queue) # Exit
    /\ Handle(Head(api_queue))
    /\ api_queue' = Tail(api_queue)
    /\ evt_queue' = evt_queue \o Posted(out'.posted)
    /\ UNCHANGED <<call, calls, lifeVars>>

NextEvt ==
    /\ ~smExited
    /\ api_queue = <<>> /\ evt_queue # <<>>
    /\ Handle(Head(evt_queue))
    /\ evt_queue' = Tail(evt_queue) \o Posted(out'.posted)
    /\ UNCHANGED <<api_queue, call, calls, lifeVars>>

NextExit ==
    /\ ~smExited
    /\ api_queue # <<>> /\ Head(api_queue) = Exit
    /\ smExited' = TRUE
    /\ api_queue' = Tail(api_queue)
    /\ CameraUnchanged
    /\ UNCHANGED <<evt_queue, m_apiResultList, threadVars, notifier, retro, closing, daemon>>

-----------------------------------------------------------------------------
(* The other threads of the HAL.                                           *)

\* processAPI refuses once m_smThreadActive is cleared; nobody waits here.
PostApi(evts) ==
    api_queue' = IF closing = "open" THEN api_queue \o Posted(evts) ELSE api_queue

LiveThread ==
    /\ LiveSnapshot
    /\ PostApi(out'.posted)
    /\ UNCHANGED <<threadVars, evt_queue, m_apiResultList, notifier, retro, lifeVars>>

\* The last frame has reached the post processor: stopCapture() posts a
\* STOP_CAPTURE_CHANNEL nobody waits for if isRegularCapture().
FramesIn ==
    /\ daemon /\ capture = "frames" /\ liveThread # "running" /\ retro = "no"
    /\ capture' = "jpeg"
    /\ PostApi(IF par.hint \/ par.zsl \/ mLongshotEnabled THEN {} ELSE {"STOP_CAPTURE_CHANNEL"})
    /\ UNCHANGED <<smVars, channels, liveThread, prepSnapshot, msgVars, confVars, bRetroPicture, out,
                   threadVars, evt_queue, m_apiResultList, notifier, retro, lifeVars>>

\* The notifier takes the last JPEG of a picture from its queue.
NotifierTake ==
    /\ notifier = "idle" /\ closing \in {"open", "joiningSm"}
    /\ capture = "jpeg" /\ ~mLongshotEnabled
    /\ capture' = "none"
    /\ notifier' = "got"
    /\ UNCHANGED <<smVars, channels, liveThread, prepSnapshot, msgVars, confVars, bRetroPicture, out,
                   threadVars, queueVars, retro, lifeVars>>

\* processSyncEvt: posting and going to sleep happen under m_evtLock.
NotifierPost ==
    /\ notifier = "got"
    /\ ProcEvt("SNAPSHOT_DONE")
    /\ notifier' = "waiting"
    /\ CameraUnchanged
    /\ UNCHANGED <<threadVars, api_queue, m_apiResultList, retro, lifeVars>>

\* zsl_channel_cb: the last retro-active frame carries bReadyForPrepareSnapshot.
RetroReady ==
    /\ daemon /\ retro = "frames"
    /\ retro' = "prepare"
    /\ ProcEvt("READY_FOR_SNAPSHOT")
    /\ CameraUnchanged
    /\ UNCHANGED <<threadVars, api_queue, m_apiResultList, notifier, lifeVars>>

\* metadata_stream_cb_routine: CAM_INTF_META_PREP_SNAPSHOT_DONE.
PrepareDone ==
    /\ daemon /\ prepSnapshot
    /\ prepSnapshot' = FALSE
    /\ retro' = IF retro = "prepare" THEN "no" ELSE retro
    /\ ProcEvt("PREP_SNAPSHOT_DONE")
    /\ UNCHANGED <<smVars, channels, liveThread, capture, msgVars, confVars, bRetroPicture, out,
                   threadVars, api_queue, m_apiResultList, notifier, lifeVars>>

\* camEvtHandle
DaemonDies ==
    /\ DaemonMayDie /\ daemon
    /\ daemon' = FALSE
    /\ ProcEvt("DAEMON_DIED")
    /\ CameraUnchanged
    /\ UNCHANGED <<threadVars, api_queue, m_apiResultList, notifier, retro, closing, smExited>>

-----------------------------------------------------------------------------
(* ~QCamera2HardwareInterface                                              *)

\* Mutant: the state machine thread is joined without being told to end.
CloseWithoutExit ==
    /\ MayClose /\ closing = "open"
    /\ Waiting = {}
    /\ closing' = "joiningSm"
    /\ CameraUnchanged
    /\ UNCHANGED <<threadVars, queueVars, notifier, retro, smExited, daemon>>

Close ==
    /\ MayClose /\ closing = "open"
    /\ Waiting = {}
    /\ closing' = "joiningSm"
    /\ api_queue' = Append(api_queue, Exit)
    /\ CameraUnchanged
    /\ UNCHANGED <<threadVars, evt_queue, m_apiResultList, notifier, retro, smExited, daemon>>

\* releaseThread has joined the state machine thread.
SmJoined ==
    /\ closing = "joiningSm" /\ smExited
    /\ closing' = "joiningNotifier"
    /\ CameraUnchanged
    /\ UNCHANGED <<threadVars, queueVars, notifier, retro, smExited, daemon>>

\* closeCamera: m_cbNotifier.exit() joins the notifier, which sees the EXIT
\* once it is back in its loop; then every channel is stopped and deleted.
NotifierJoined ==
    /\ closing = "joiningNotifier" /\ notifier = "idle"
    /\ closing' = "closed"
    /\ channels' = DelChannels(channels, Channels)
    /\ capture' = "none"
    /\ m_apiResultList' = <<>>
    /\ UNCHANGED <<smVars, liveThread, prepSnapshot, msgVars, confVars, bRetroPicture, out,
                   threadVars, api_queue, evt_queue, notifier, retro, smExited, daemon>>

StateMachineThread == NextApi \/ NextEvt \/ NextExit

Environment == FramesIn \/ RetroReady \/ PrepareDone

Notifier == NotifierTake \/ NotifierPost

Destructor == SmJoined \/ NotifierJoined

ANext ==
    \/ \E c \in Callers : Call(c) \/ Wake(c)
    \/ StateMachineThread \/ LiveThread \/ Notifier \/ Environment
    \/ DaemonDies \/ Close \/ Destructor

\* Every thread that can run does, and a live daemon delivers the frames and
\* the metadata it owes.  Nobody has to call, to close or to die.
AFairness ==
    /\ WF_apiVars(StateMachineThread)
    /\ WF_apiVars(LiveThread)
    /\ WF_apiVars(Notifier)
    /\ WF_apiVars(FramesIn) /\ WF_apiVars(RetroReady) /\ WF_apiVars(PrepareDone)
    /\ WF_apiVars(Destructor)
    /\ \A c \in Callers : WF_apiVars(Wake(c))

ASpec == AInit /\ [][ANext]_apiVars /\ AFairness

-----------------------------------------------------------------------------
(* Properties                                                              *)

CountIn(seq, evt) == Cardinality({i \in DOMAIN seq : seq[i].evt = evt})

CountResults(evt) == Cardinality({i \in DOMAIN m_apiResultList : m_apiResultList[i][1] = evt})

\* Answers that come with a later event: a prepared snapshot's, and a
\* retro-active picture's.
Deferred(evt) ==
    CASE evt = "PREPARE_SNAPSHOT" ->
           IF prepSnapshot THEN 1 ELSE CountIn(evt_queue, "PREP_SNAPSHOT_DONE")
      [] evt = "TAKE_PICTURE" ->
           IF retro = "frames" THEN 1 ELSE CountIn(evt_queue, "READY_FOR_SNAPSHOT")
      [] OTHER -> 0

\* Retro-active pictures are promised no answers: READY_FOR_SNAPSHOT never comes
\* if one is cut short, and one PREP_SNAPSHOT_DONE may have to serve two callers.
RetroPictures == RetroSnapshots /\ par.zsl

WaitingFor(evt) == Cardinality({c \in Waiting : Head(call[c]) = evt})

\* Every framework call that waits is queued, answered or owed an answer by the
\* daemon, exactly once: no handler answers twice or forgets to answer, and no
\* caller takes a result that was meant for another event.  (The daemon's death
\* is answered to whoever might be waiting for a picture.)
EachCallAnsweredOnce ==
    daemon /\ ~RetroPictures => \A evt \in Calls \cup {"PREPARE_SNAPSHOT"} :
        WaitingFor(evt) = CountIn(api_queue, evt) + CountResults(evt) + Deferred(evt)

\* waitAPIResult searches the list only after pthread_cond_wait has returned:
\* when there are results for all who wait for an event, none of them is left
\* asleep (signalAPIResult broadcasts, it does not signal).
NoLostBroadcast ==
    daemon => \A c \in Waiting :
        CountResults(Head(call[c])) >= WaitingFor(Head(call[c])) => woken[c]

\* Every API call returns: waitAPIResult comes back in every caller, unless
\* pictures are retro-active or the daemon has died on a PREPARE_SNAPSHOT.
DiedPreparing(c) == ~daemon /\ call[c] # <<>> /\ Head(call[c]) = "PREPARE_SNAPSHOT"
CallsReturn ==
    \A c \in Callers :
        call[c] # <<>> ~> call[c] = <<>> \/ RetroPictures \/ DiedPreparing(c)

\* The notifier is always released from processSyncEvt: every state answers
\* SNAPSHOT_DONE, the ones without a picture, too.
NotifierAnswered == notifier = "waiting" ~> notifier = "idle" \/ closing # "open"

\* The destructor returns: the state machine thread and the notifier end if no
\* picture is under way.  (A notifier that has posted SNAPSHOT_DONE waits for the
\* state machine thread, which the destructor has ended before.)
QuietCloseEnds ==
    closing = "joiningSm" /\ notifier = "idle" /\ ~CaptureRunning(m_state) ~> closing = "closed"

\* Nobody waits for ever: callers, the notifier and the destructor.
WaitsEnd == CallsReturn /\ NotifierAnswered /\ QuietCloseEnds

\* A picture comes to its end: while the daemon lives and the camera is open the
\* state machine leaves the capture states, the live snapshot's thread included.
PicturesEnd ==
    CaptureRunning(m_state) ~> ~CaptureRunning(m_state) \/ ~daemon \/ closing # "open"
=============================================================================
