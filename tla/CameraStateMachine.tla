-------------------------- MODULE CameraStateMachine --------------------------
(***************************************************************************)
(* The HAL1 camera state machine: QCameraStateMachine's eight states, the  *)
(* handler of each, and the QCamera2HardwareInterface operations a handler *)
(* calls.  A handler runs to completion on the state machine thread, so    *)
(* one event is one step.  The operations that reach the camera daemon may *)
(* fail; what they leave behind is part of their outcome.                  *)
(*                                                                         *)
(* This module has no Next of its own: CameraEvents delivers events in any *)
(* order, CameraApi through the real queues and their waiting callers.     *)
(***************************************************************************)
EXTENDS Naturals, FiniteSets

CONSTANTS Settings,       \* what SET_PARAMS may carry: [zsl, hint, raw] records
          HalCallsFail,   \* whether calls into the camera daemon may fail
          EarlyRestart    \* persist.camera.feature.restart (default 0)

ASSUME CameraAssumption ==
    /\ Settings \subseteq [zsl : BOOLEAN, hint : BOOLEAN, raw : BOOLEAN]
    /\ HalCallsFail \in BOOLEAN
    /\ EarlyRestart \in BOOLEAN

VARIABLES
    m_state,        \* QCameraStateMachine::m_state
    channels,       \* m_channels: channel type -> "absent", "added", "started"
    mPreviewWindow, \* whether a preview window is set
    par,            \* the parameters the control flow reads, see ParamsType
    mLongshotEnabled,
    bRetroPicture,
    m_bDelayPreviewMsgs,
    m_DelayedMsgs,  \* whether CAMERA_MSG_PREVIEW_FRAME is recorded as delayed
    frameMsg,       \* whether CAMERA_MSG_PREVIEW_FRAME is in mMsgEnabled
    liveThread,     \* mLiveSnapshotThread: "none", "running" or "ended"
    capture,        \* the picture the post processor works on: "none",
                    \* "frames" (frames outstanding), "jpeg" (encoding)
    prepSnapshot,   \* whether the daemon owes a PREP_SNAPSHOT_DONE
    out             \* what the last step signalled and posted

smVars   == m_state
hwVars   == <<channels, liveThread, capture, prepSnapshot>>
msgVars  == <<m_bDelayPreviewMsgs, m_DelayedMsgs, frameMsg>>
confVars == <<mPreviewWindow, par, mLongshotEnabled>>
vars     == <<smVars, hwVars, msgVars, confVars, bRetroPicture, out>>

States == {"PREVIEW_STOPPED", "PREVIEW_READY", "PREVIEWING", "PREPARE_SNAPSHOT",
           "PIC_TAKING", "RECORDING", "VIDEO_PIC_TAKING", "PREVIEW_PIC_TAKING"}

Channels == {"ZSL", "CAPTURE", "PREVIEW", "VIDEO", "SNAPSHOT", "RAW"}

\* API events no state acts on: they are answered, and change nothing here.
Queries == {"SET_CALLBACKS", "GET_PARAMS", "PUT_PARAMS", "MSG_TYPE_ENABLED",
            "RECORDING_ENABLED", "STORE_METADATA_IN_BUFS", "DUMP", 
            "START_AUTO_FOCUS", "STOP_AUTO_FOCUS", "RELEASE_RECORIDNG_FRAME"}

\* The other API events.  SEND_COMMAND is split by the command it carries.
ApiEvents == Queries \cup
    {"SET_PREVIEW_WINDOW", "ENABLE_MSG_TYPE", "DISABLE_MSG_TYPE", "SET_PARAMS",
     "START_PREVIEW", "START_NODISPLAY_PREVIEW", "STOP_PREVIEW", "PREVIEW_ENABLED",
     "START_RECORDING", "STOP_RECORDING", "PREPARE_SNAPSHOT", "TAKE_PICTURE",
     "CANCEL_PICTURE", "LONGSHOT_ON", "LONGSHOT_OFF", "RELEASE", "REG_FACE_IMAGE"}

\* Events the HAL and the daemon send; the first two as well as API events.
InternalEvents == {"STOP_CAPTURE_CHANNEL", "SNAPSHOT_DONE", "PREP_SNAPSHOT_DONE",
                   "READY_FOR_SNAPSHOT", "DAEMON_DIED"}

\* m_bRecordingHint and m_bZslMode have staged copies (_new) that a commit
\* copies over; the recording hint also has a key in the parameter map, and
\* m_tempMap holds its staged text.  The picture format takes effect at once.
ParamsType == [zsl : BOOLEAN, zslNew : BOOLEAN, raw : BOOLEAN,
               hint : BOOLEAN, hintNew : BOOLEAN, hintKey : BOOLEAN, hintTemp : BOOLEAN]

TypeOK ==
    /\ m_state \in States
    /\ channels \in [Channels -> {"absent", "added", "started"}]
    /\ mPreviewWindow \in BOOLEAN
    /\ par \in ParamsType
    /\ mLongshotEnabled \in BOOLEAN
    /\ bRetroPicture \in BOOLEAN
    /\ m_bDelayPreviewMsgs \in BOOLEAN
    /\ m_DelayedMsgs \in BOOLEAN
    /\ frameMsg \in BOOLEAN
    /\ liveThread \in {"none", "running", "ended"}
    /\ capture \in {"none", "frames", "jpeg"}
    /\ prepSnapshot \in BOOLEAN
    /\ out \in [api : SUBSET ((ApiEvents \cup InternalEvents) \X BOOLEAN),
                evt : SUBSET InternalEvents,
                posted : SUBSET (ApiEvents \cup InternalEvents)]

NoOutput == [api |-> {}, evt |-> {}, posted |-> {}]

\* An event and what it carries.
Event(evt, arg) == [evt |-> evt, arg |-> arg]

CommittedParams(s) == [zsl |-> s.zsl, zslNew |-> s.zsl, raw |-> s.raw, hint |-> s.hint,
                       hintNew |-> s.hint, hintKey |-> s.hint, hintTemp |-> s.hint]

Init ==
    /\ m_state = "PREVIEW_STOPPED"
    /\ channels = [k \in Channels |-> "absent"]
    /\ mPreviewWindow = FALSE
    /\ \E s \in Settings : par = CommittedParams(s)
    /\ mLongshotEnabled = FALSE
    /\ bRetroPicture = FALSE
    /\ m_bDelayPreviewMsgs = FALSE
    /\ m_DelayedMsgs = FALSE
    /\ frameMsg = FALSE
    /\ liveThread = "none"
    /\ capture = "none"
    /\ prepSnapshot = FALSE
    /\ out = NoOutput

-----------------------------------------------------------------------------
(* The hardware interface.  An operation that can fail is the set of its   *)
(* outcomes [ok, ch]: the return code and the channels it leaves.          *)

Outcome(ok, ch) == [ok |-> ok, ch |-> ch]

Failing(chs) == IF HalCallsFail THEN {Outcome(FALSE, ch) : ch \in chs} ELSE {}

Rc == IF HalCallsFail THEN BOOLEAN ELSE {TRUE}

\* delChannel: deleting an active channel stops it.
DelChannels(ch, ks) == [k \in Channels |-> IF k \in ks THEN "absent" ELSE ch[k]]

StopChannels(ch, ks) ==
    [k \in Channels |-> IF k \in ks /\ ch[k] = "started" THEN "added" ELSE ch[k]]

AddChannels(ch, ks) == [k \in Channels |-> IF k \in ks THEN "added" ELSE ch[k]]

\* startChannel: a channel that does not exist is an error.
StartChannel(ch, k) ==
    IF ch[k] = "absent"
      THEN {Outcome(FALSE, ch)}
      ELSE {Outcome(TRUE, [ch EXCEPT ![k] = "started"])} \cup Failing({ch})

PreviewFamily == {"ZSL", "PREVIEW", "VIDEO", "SNAPSHOT"}

ZslPreview(p) == p.zsl /\ ~p.hint

\* preparePreview: adding a channel deletes the one there was, and a failure
\* deletes what the same call had added (the ZSL branch adds only one).
PreparePreview(ch, p) ==
    LET ks == IF ZslPreview(p) THEN {"ZSL"}
              ELSE IF p.hint THEN {"SNAPSHOT", "VIDEO", "PREVIEW"} ELSE {"PREVIEW"}
    IN  {Outcome(TRUE, AddChannels(ch, ks))}
          \cup Failing({ch, DelChannels(ch, ks)}
                 \cup IF p.hint THEN {DelChannels(ch, {"SNAPSHOT"}),
                                      DelChannels(ch, {"SNAPSHOT", "VIDEO"})} ELSE {})

UnpreparePreview(ch) == DelChannels(ch, PreviewFamily)

StartPreview(ch, p) == StartChannel(ch, IF ZslPreview(p) THEN "ZSL" ELSE "PREVIEW")

\* Mutant: only the ZSL branch, without unpreparePreview.
StopPreviewZslOnly(ch) == DelChannels(ch, {"ZSL"})

StopPreview(ch) == UnpreparePreview(StopChannels(ch, {"ZSL", "PREVIEW"}))

\* prepare, then start, and unprepare if the start fails: the sequence every
\* handler that (re)starts preview runs.  "prepared" tells whether it got as
\* far as applyDelayedMsgs.
PrepareAndStart(ch, p) ==
    {[ok |-> FALSE, ch |-> o.ch, prepared |-> FALSE] :
         o \in {o \in PreparePreview(ch, p) : ~o.ok}}
    \cup UNION {{[ok |-> s.ok, prepared |-> TRUE,
                  ch |-> IF s.ok THEN s.ch ELSE UnpreparePreview(s.ch)] :
                      s \in StartPreview(o.ch, p)} :
                  o \in {o \in PreparePreview(ch, p) : o.ok}}

\* commitParamChanges
CommitParams(p) == [p EXCEPT !.zsl = p.zslNew, !.hint = p.hintNew, !.hintKey = p.hintTemp]

\* updateParameters stages what changed and reports whether that needs a
\* restart.  The hint is looked at only when its text differs from the key.
HintChanged(p, s) == s.hint # p.hintKey

NeedRestart(p, s) == s.zsl # p.zslNew \/ (HintChanged(p, s) /\ s.hint # p.hint)

UpdateParams(p, s) ==
    [p EXCEPT !.zslNew = s.zsl, !.raw = s.raw,
              !.hintNew = IF HintChanged(p, s) THEN s.hint ELSE @,
              !.hintTemp = IF HintChanged(p, s) THEN s.hint ELSE @]

\* updateRecordingHintValue(TRUE) commits whatever is staged with it.
HintSet(p) == {CommitParams([p EXCEPT !.hintNew = TRUE])}
                 \cup IF HalCallsFail THEN {[p EXCEPT !.hintNew = TRUE]} ELSE {}

\* startRecording: without the recording hint preview is restarted with it.
\* [ok, ch, par]: a failure part way leaves what was done so far.
StartRecording(ch, p) ==
    LET Video(c, q) == {[ok |-> v.ok, ch |-> v.ch, par |-> q] : v \in StartChannel(c, "VIDEO")}
        Stage(o, q) == IF o.ok THEN Video(o.ch, q)
                       ELSE {[ok |-> FALSE, ch |-> o.ch, par |-> q]}
        Restart(q)  == UNION {IF o.ok THEN UNION {Stage(s, q) : s \in StartChannel(o.ch, "PREVIEW")}
                              ELSE Stage(o, q) : o \in PreparePreview(StopPreview(ch), q)}
    IN  IF p.hint THEN Video(ch, p) ELSE UNION {Restart(q) : q \in HintSet(p)}

\* takePicture.  Without ZSL the preview channel is deleted and a CAPTURE (or
\* RAW) channel is added and started; startAdvancedCapture alone fails after
\* the start without undoing it.
TakePicture(ch, p, longshot) ==
    LET k  == IF p.raw THEN "RAW" ELSE "CAPTURE"
        c1 == DelChannels(ch, {"PREVIEW"})
    IN  IF p.zsl
          THEN IF ch["ZSL"] = "absent" THEN {Outcome(FALSE, ch)}
               ELSE {Outcome(TRUE, ch)} \cup Failing({ch})
          ELSE {Outcome(TRUE, [c1 EXCEPT ![k] = "started"])}
                 \cup Failing({[c1 EXCEPT ![k] = "absent"]}
                        \cup (IF p.raw THEN {c1} ELSE {[c1 EXCEPT ![k] = "started"]})
                        \cup (IF longshot THEN {c1} ELSE {}))

\* longShot: another picture on the channel of the running burst.
LongShot(ch, p) ==
    LET k == IF p.zsl THEN "ZSL" ELSE "CAPTURE"
    IN  IF ch[k] = "absent" THEN {FALSE} ELSE Rc

\* Mutants: a cancelled picture takes the ZSL channel along; or stops nothing.
CancelPictureStopsZsl(ch, p) == DelChannels(ch, {"ZSL", "CAPTURE", "RAW"})
CancelPictureStopsNothing(ch, p) == ch

\* cancelPicture; a ZSL channel keeps running.
CancelPicture(ch, p) ==
    IF p.zsl THEN ch ELSE DelChannels(ch, {IF p.raw THEN "RAW" ELSE "CAPTURE"})

\* isCaptureRunning
CaptureRunning(s) == s \in {"PIC_TAKING", "VIDEO_PIC_TAKING", "PREVIEW_PIC_TAKING"}

-----------------------------------------------------------------------------
(* What handlers signal: signalAPIResult and signalEvtResult.              *)

Answer(evt, ok) == out' = [NoOutput EXCEPT !.api = {<<evt, ok>>}]

Silent == out' = NoOutput

\* Steps that only answer.
Only(evt, ok) == Answer(evt, ok) /\ UNCHANGED <<smVars, hwVars, msgVars, confVars>>

Ignore == Silent /\ UNCHANGED <<smVars, hwVars, msgVars, confVars>>

\* Mutant: the delay ends, but what was delayed is dropped.
ApplyDelayedMsgsLost ==
    /\ frameMsg' = frameMsg
    /\ m_DelayedMsgs' = FALSE
    /\ m_bDelayPreviewMsgs' = FALSE

\* applyDelayedMsgs
ApplyDelayedMsgs ==
    /\ frameMsg' = (frameMsg \/ (m_bDelayPreviewMsgs /\ m_DelayedMsgs))
    /\ m_DelayedMsgs' = (m_DelayedMsgs /\ ~m_bDelayPreviewMsgs)
    /\ m_bDelayPreviewMsgs' = FALSE

ApplyDelayedMsgsIf(done) ==
    IF done THEN ApplyDelayedMsgs ELSE UNCHANGED msgVars

\* enableMsgType and disableMsgType with CAMERA_MSG_PREVIEW_FRAME.
SetFrameMsg(e) ==
    /\ e.evt \in {"ENABLE_MSG_TYPE", "DISABLE_MSG_TYPE"}
    /\ frameMsg' = (e.evt = "ENABLE_MSG_TYPE")
    /\ Answer(e.evt, TRUE)
    /\ UNCHANGED <<smVars, hwVars, confVars, m_bDelayPreviewMsgs, m_DelayedMsgs>>

\* SET_PARAMS when nothing has to restart, or where a restart is not done:
\* stage, and commit unless staging failed.
UpdateAndCommit(e) ==
    /\ LET staged == UpdateParams(par, e.arg)
       IN  \/ par' = CommitParams(staged) /\ Answer(e.evt, TRUE)
           \/ HalCallsFail /\ par' = staged /\ Answer(e.evt, FALSE)
    /\ UNCHANGED <<smVars, hwVars, msgVars, mPreviewWindow, mLongshotEnabled>>

\* sendCommand(CAMERA_CMD_LONGSHOT_ON) 
LongshotOn(e) ==
    /\ mLongshotEnabled' = (mLongshotEnabled \/ ~CaptureRunning(m_state))
    /\ Answer(e.evt, ~CaptureRunning(m_state))
    /\ UNCHANGED <<smVars, hwVars, msgVars, mPreviewWindow, par>>

\* sendCommand(CAMERA_CMD_LONGSHOT_OFF): a running burst is cancelled and its
\* SNAPSHOT_DONE posted.
LongshotOff(e) ==
    LET cancel == mLongshotEnabled /\ CaptureRunning(m_state)
    IN  /\ mLongshotEnabled' = FALSE
        /\ channels' = IF cancel THEN CancelPicture(channels, par) ELSE channels
        /\ capture' = IF cancel THEN "none" ELSE capture
        /\ out' = [NoOutput EXCEPT !.api = {<<e.evt, TRUE>>},
                                   !.posted = IF cancel THEN {"SNAPSHOT_DONE"} ELSE {}]
        /\ UNCHANGED <<msgVars, liveThread, prepSnapshot, mPreviewWindow, par>>

\* pthread_join in cancelLiveSnapshot: the handler goes on when the thread ends.
LiveThreadJoinable == liveThread # "running"

\* takeLiveSnapshot: the thread does the rest (LiveSnapshot below).
TakeLiveSnapshot(from, to, e) ==
    /\ \E ok \in Rc :
         /\ liveThread' = IF ok THEN "running" ELSE liveThread
         /\ m_state' = IF ok THEN to ELSE from
         /\ Answer(e.evt, ok)
    /\ UNCHANGED <<channels, capture, prepSnapshot, msgVars, confVars>>

\* The live snapshot thread (takeLiveSnapshot_internal): it starts the
\* SNAPSHOT channel; if it cannot, it posts a CANCEL_PICTURE of its own, except
\* when configureOnlineRotation fails, which ends it without a word.
LiveSnapshot ==
    /\ liveThread = "running"
    /\ liveThread' = "ended"
    /\ \/ \E o \in StartChannel(channels, "SNAPSHOT") :
            /\ channels' = o.ch
            /\ capture' = IF o.ok THEN "frames" ELSE capture
            /\ out' = [NoOutput EXCEPT !.posted = IF o.ok THEN {} ELSE {"CANCEL_PICTURE"}]
       \/ HalCallsFail /\ channels["SNAPSHOT"] # "absent" /\ Silent
          /\ UNCHANGED <<channels, capture>>
    /\ UNCHANGED <<smVars, msgVars, confVars, prepSnapshot, bRetroPicture>>

-----------------------------------------------------------------------------
(* procEvtPreviewStoppedState *)

StoppedStartPreview(e) ==
    /\ e.evt \in {"START_PREVIEW", "START_NODISPLAY_PREVIEW"}
    /\ \/ /\ e.evt = "START_PREVIEW" /\ ~mPreviewWindow
          /\ \E o \in PreparePreview(channels, par) :
               /\ channels' = o.ch
               /\ m_state' = IF o.ok THEN "PREVIEW_READY" ELSE m_state
               /\ Answer(e.evt, o.ok)
          /\ UNCHANGED msgVars
       \/ /\ e.evt = "START_NODISPLAY_PREVIEW" \/ mPreviewWindow
          /\ \E o \in PrepareAndStart(channels, par) :
               /\ channels' = o.ch
               /\ ApplyDelayedMsgsIf(o.prepared)
               /\ m_state' = IF o.ok THEN "PREVIEWING" ELSE m_state
               /\ Answer(e.evt, o.ok)
    /\ UNCHANGED <<liveThread, capture, prepSnapshot, confVars>>

StoppedSettings(e) ==
    \/ /\ e.evt = "SET_PREVIEW_WINDOW"
       /\ mPreviewWindow' = e.arg
       /\ Answer(e.evt, TRUE)
       /\ UNCHANGED <<smVars, hwVars, msgVars, par, mLongshotEnabled>>
    \/ SetFrameMsg(e)
    \/ e.evt = "SET_PARAMS" /\ UpdateAndCommit(e)
    \/ e.evt = "LONGSHOT_ON" /\ LongshotOn(e)
    \/ e.evt = "LONGSHOT_OFF" /\ LongshotOff(e) /\ UNCHANGED smVars

\* release() stops and deletes every channel.
StoppedRelease(e) ==
    /\ e.evt = "RELEASE"
    /\ channels' = DelChannels(channels, Channels)
    /\ Answer(e.evt, TRUE)
    /\ UNCHANGED <<smVars, liveThread, capture, prepSnapshot, msgVars, confVars>>

StoppedOther(e) ==
    \/ /\ e.evt \in Queries \cup {"STOP_PREVIEW", "PREVIEW_ENABLED", "CANCEL_PICTURE",
                                  "REG_FACE_IMAGE"}
       /\ Only(e.evt, TRUE)
    \/ /\ e.evt \in {"START_RECORDING", "STOP_RECORDING", "PREPARE_SNAPSHOT", "TAKE_PICTURE"}
       /\ Only(e.evt, FALSE)

\* SNAPSHOT_DONE where no picture is taken: only its poster is told.
SnapshotDoneIgnored(e) ==
    /\ e.evt = "SNAPSHOT_DONE"
    /\ out' = [NoOutput EXCEPT !.evt = {"SNAPSHOT_DONE"}]
    /\ UNCHANGED <<smVars, hwVars, msgVars, confVars>>

NotForThisState(e, ignored) == e.evt \in ignored /\ Ignore

ProcEvtPreviewStoppedState(e) ==
    \/ StoppedStartPreview(e) \/ StoppedSettings(e) \/ StoppedRelease(e)
    \/ StoppedOther(e) \/ SnapshotDoneIgnored(e)
    \/ NotForThisState(e, InternalEvents \ {"SNAPSHOT_DONE"})

-----------------------------------------------------------------------------
(* procEvtPreviewReadyState *)

ReadySetPreviewWindow(e) ==
    /\ e.evt = "SET_PREVIEW_WINDOW"
    /\ mPreviewWindow' = e.arg
    /\ \/ /\ ~e.arg
          /\ Answer(e.evt, TRUE)
          /\ UNCHANGED <<smVars, channels, msgVars>>
       \/ /\ e.arg
          /\ ApplyDelayedMsgs
          /\ \E o \in StartPreview(channels, par) :
               /\ channels' = IF o.ok THEN o.ch ELSE UnpreparePreview(o.ch)
               /\ m_state' = IF o.ok THEN "PREVIEWING" ELSE "PREVIEW_STOPPED"
               /\ Answer(e.evt, o.ok)
    /\ UNCHANGED <<liveThread, capture, prepSnapshot, par, mLongshotEnabled>>

\* SET_PARAMS with a restart: the result of the commit is not looked at.
ReadyRestart(e) ==
    LET staged == UpdateParams(par, e.arg)
    IN  /\ e.evt = "SET_PARAMS" /\ NeedRestart(par, e.arg)
        /\ \/ HalCallsFail /\ par' = staged /\ Answer(e.evt, FALSE) /\ UNCHANGED <<smVars, channels>>
           \/ \E committed \in Rc :
                /\ par' = IF committed THEN CommitParams(staged) ELSE staged
                /\ \E o \in PreparePreview(UnpreparePreview(channels), par') :
                     /\ channels' = o.ch
                     /\ m_state' = IF o.ok THEN m_state ELSE "PREVIEW_STOPPED"
                     /\ Answer(e.evt, o.ok)
        /\ UNCHANGED <<liveThread, capture, prepSnapshot, msgVars, mPreviewWindow, mLongshotEnabled>>

ReadySettings(e) ==
    \/ SetFrameMsg(e)
    \/ e.evt = "SET_PARAMS" /\ ~NeedRestart(par, e.arg) /\ UpdateAndCommit(e)
    \/ e.evt = "LONGSHOT_ON" /\ LongshotOn(e)
    \/ e.evt = "LONGSHOT_OFF" /\ LongshotOff(e) /\ UNCHANGED smVars

ReadyStopPreview(e) ==
    /\ e.evt = "STOP_PREVIEW"
    /\ channels' = UnpreparePreview(channels)
    /\ m_state' = "PREVIEW_STOPPED"
    /\ Answer(e.evt, TRUE)
    /\ UNCHANGED <<liveThread, capture, prepSnapshot, msgVars, confVars>>

ReadyOther(e) ==
    \/ e.evt \in Queries \cup {"START_PREVIEW", "PREVIEW_ENABLED", "REG_FACE_IMAGE"}
       /\ Only(e.evt, TRUE)
    \/ /\ e.evt \in {"START_NODISPLAY_PREVIEW", "START_RECORDING", "STOP_RECORDING",
                     "PREPARE_SNAPSHOT", "TAKE_PICTURE", "CANCEL_PICTURE", "RELEASE"}
       /\ Only(e.evt, FALSE)

ProcEvtPreviewReadyState(e) ==
    \/ ReadySetPreviewWindow(e) \/ ReadyRestart(e) \/ ReadySettings(e)
    \/ ReadyStopPreview(e) \/ ReadyOther(e) \/ SnapshotDoneIgnored(e)
    \/ NotForThisState(e, InternalEvents \ {"SNAPSHOT_DONE"})

-----------------------------------------------------------------------------
(* procEvtPreviewingState *)

\* SET_PARAMS with a restart: preview goes down, the parameters are committed
\* and preview comes up again; m_state changes only if that fails.
PreviewRestart(e, onFail) ==
    LET staged == UpdateParams(par, e.arg)
    IN  /\ e.evt = "SET_PARAMS" /\ NeedRestart(par, e.arg)
        /\ \/ HalCallsFail /\ par' = staged /\ Answer(e.evt, FALSE)
              /\ UNCHANGED <<smVars, channels, msgVars>>
           \/ \E committed \in Rc :
                /\ par' = IF committed THEN CommitParams(staged) ELSE staged
                /\ \E o \in PrepareAndStart(StopPreview(channels), par') :
                     /\ channels' = o.ch
                     /\ ApplyDelayedMsgsIf(o.prepared)
                     /\ m_state' = IF o.ok THEN m_state ELSE onFail
                     /\ Answer(e.evt, o.ok)
        /\ UNCHANGED <<liveThread, capture, prepSnapshot, mPreviewWindow, mLongshotEnabled>>

\* While preview messages are delayed, enabling CAMERA_MSG_PREVIEW_FRAME only
\* records it, and disabling it drops the record.
PreviewingFrameMsg(e) ==
    \/ /\ e.evt = "ENABLE_MSG_TYPE" /\ m_bDelayPreviewMsgs
       /\ m_DelayedMsgs' = TRUE
       /\ Answer(e.evt, TRUE)
       /\ UNCHANGED <<smVars, hwVars, confVars, m_bDelayPreviewMsgs, frameMsg>>
    \/ /\ e.evt = "DISABLE_MSG_TYPE" /\ m_bDelayPreviewMsgs /\ m_DelayedMsgs
       /\ m_DelayedMsgs' = FALSE
       /\ m_bDelayPreviewMsgs' = FALSE
       /\ frameMsg' = FALSE
       /\ Answer(e.evt, TRUE)
       /\ UNCHANGED <<smVars, hwVars, confVars>>
    \/ /\ ~m_bDelayPreviewMsgs \/ (e.evt = "DISABLE_MSG_TYPE" /\ ~m_DelayedMsgs)
       /\ SetFrameMsg(e)

\* A LONGSHOT_ON that finds too few ZSL buffers restarts preview; m_state stays
\* PREVIEWING even if the restart fails.
PreviewingLongshotOn(e) ==
    /\ e.evt = "LONGSHOT_ON"
    /\ \/ LongshotOn(e)
       \/ /\ par.zsl /\ channels["ZSL"] # "absent"
          /\ mLongshotEnabled' = TRUE
          /\ \E o \in PrepareAndStart(StopPreview(channels), par) :
               /\ channels' = o.ch
               /\ ApplyDelayedMsgsIf(o.prepared)
               /\ Answer(e.evt, o.ok)
          /\ UNCHANGED <<smVars, liveThread, capture, prepSnapshot, mPreviewWindow, par>>

PreviewingSettings(e) ==
    \/ PreviewingFrameMsg(e)
    \/ PreviewRestart(e, "PREVIEW_STOPPED")
    \/ e.evt = "SET_PARAMS" /\ ~NeedRestart(par, e.arg) /\ UpdateAndCommit(e)
    \/ PreviewingLongshotOn(e)
    \/ e.evt = "LONGSHOT_OFF" /\ LongshotOff(e) /\ UNCHANGED smVars

\* START_PREVIEW and PREVIEW_ENABLED also end the delay of preview messages.
PreviewingStartPreview(e) ==
    /\ e.evt \in {"START_PREVIEW", "START_NODISPLAY_PREVIEW", "PREVIEW_ENABLED"}
    /\ ApplyDelayedMsgs
    /\ Answer(e.evt, TRUE)
    /\ UNCHANGED <<smVars, hwVars, confVars>>

PreviewingStopPreview(e) ==
    /\ e.evt = "STOP_PREVIEW"
    /\ channels' = StopPreview(channels)
    /\ ApplyDelayedMsgs
    /\ m_state' = "PREVIEW_STOPPED"
    /\ Answer(e.evt, TRUE)
    /\ UNCHANGED <<liveThread, capture, prepSnapshot, confVars>>

\* If startRecording fails m_state stays PREVIEWING, whatever it has undone.
PreviewingStartRecording(e) ==
    /\ e.evt = "START_RECORDING"
    /\ \E o \in StartRecording(channels, par) :
         /\ channels' = o.ch
         /\ par' = o.par
         /\ m_state' = IF o.ok THEN "RECORDING" ELSE m_state
         /\ ApplyDelayedMsgsIf(o.ok)
         /\ Answer(e.evt, o.ok)
    /\ UNCHANGED <<liveThread, capture, prepSnapshot, mPreviewWindow, mLongshotEnabled>>

\* Mutant: answered at once, and again by the event.
PrepareAnsweredTwice(e) ==
    /\ e.evt = "PREPARE_SNAPSHOT"
    /\ m_state' = "PREPARE_SNAPSHOT"
    /\ prepSnapshot' = TRUE
    /\ ApplyDelayedMsgs
    /\ Answer(e.evt, TRUE)
    /\ UNCHANGED <<channels, liveThread, capture, confVars>>

\* A success is answered by the PREP_SNAPSHOT_DONE event, not here.
PreviewingPrepareSnapshot(e) ==
    /\ e.evt = "PREPARE_SNAPSHOT"
    /\ \/ /\ m_state' = "PREPARE_SNAPSHOT"
          /\ prepSnapshot' = TRUE
          /\ ApplyDelayedMsgs
          /\ Silent
          /\ UNCHANGED <<channels, liveThread, capture, confVars>>
       \/ HalCallsFail /\ Only(e.evt, FALSE)

\* With ZSL or longshot preview keeps running; a retro-active picture is then
\* answered by READY_FOR_SNAPSHOT.  Without, preview is given up.
PreviewingTakePicture(e) ==
    LET zsl == par.zsl \/ mLongshotEnabled
    IN  /\ e.evt = "TAKE_PICTURE" /\ ~par.hint
        /\ m_bDelayPreviewMsgs' = (zsl \/ m_bDelayPreviewMsgs)
        /\ \E o \in TakePicture(channels, par, mLongshotEnabled) :
             /\ channels' = o.ch
             /\ \/ zsl  /\ m_state' = IF o.ok THEN "PREVIEW_PIC_TAKING" ELSE "PREVIEWING"
                \/ ~zsl /\ m_state' = IF o.ok THEN "PIC_TAKING" ELSE "PREVIEW_STOPPED"
             /\ capture' = IF o.ok THEN "frames" ELSE capture
             /\ IF zsl /\ o.ok /\ bRetroPicture THEN Silent ELSE Answer(e.evt, o.ok)
        /\ UNCHANGED <<liveThread, prepSnapshot, m_DelayedMsgs, frameMsg, confVars>>

PreviewingLiveSnapshot(e) ==
    /\ e.evt = "TAKE_PICTURE" /\ par.hint
    /\ TakeLiveSnapshot("PREVIEWING", "PREVIEW_PIC_TAKING", e)

PreviewingOther(e) ==
    \/ e.evt \in Queries \cup {"REG_FACE_IMAGE"} /\ Only(e.evt, TRUE)
    \/ e.evt \in {"SET_PREVIEW_WINDOW", "CANCEL_PICTURE", "STOP_RECORDING", "RELEASE"}
       /\ Only(e.evt, FALSE)

ProcEvtPreviewingState(e) ==
    \/ PreviewingSettings(e) \/ PreviewingStartPreview(e) \/ PreviewingStopPreview(e)
    \/ PreviewingStartRecording(e) \/ PreviewingPrepareSnapshot(e)
    \/ PreviewingTakePicture(e) \/ PreviewingLiveSnapshot(e)
    \/ PreviewingOther(e) \/ SnapshotDoneIgnored(e)
    \/ NotForThisState(e, InternalEvents \ {"SNAPSHOT_DONE"})

-----------------------------------------------------------------------------
(* procEvtPrepareSnapshotState *)

\* Every API event is refused, but REG_FACE_IMAGE, which is not answered.
PreparingApi(e) ==
    \/ e.evt \in ApiEvents \ {"REG_FACE_IMAGE"} /\ Only(e.evt, FALSE)
    \/ NotForThisState(e, {"REG_FACE_IMAGE"})

PreparingDone(e) ==
    /\ e.evt = "PREP_SNAPSHOT_DONE"
    /\ m_state' = "PREVIEWING"
    /\ Answer("PREPARE_SNAPSHOT", TRUE)
    /\ UNCHANGED <<hwVars, msgVars, confVars>>

ProcEvtPrepareSnapshotState(e) ==
    \/ PreparingApi(e) \/ PreparingDone(e) \/ SnapshotDoneIgnored(e)
    \/ NotForThisState(e, InternalEvents \ {"SNAPSHOT_DONE", "PREP_SNAPSHOT_DONE"})

-----------------------------------------------------------------------------
(* procEvtPicTakingState *)

\* SET_PARAMS takes effect at once here, even a change that needs a restart.
PicSettings(e) ==
    \/ SetFrameMsg(e)
    \/ e.evt = "SET_PARAMS" /\ UpdateAndCommit(e)
    \/ e.evt = "LONGSHOT_ON" /\ LongshotOn(e)
    \/ e.evt = "LONGSHOT_OFF" /\ LongshotOff(e) /\ m_state' = "PREVIEWING"

\* STOP_PREVIEW and CANCEL_PICTURE give up the picture.
PicCancel(e) ==
    /\ e.evt \in {"STOP_PREVIEW", "CANCEL_PICTURE"}
    /\ channels' = CancelPicture(channels, par)
    /\ capture' = "none"
    /\ m_state' = "PREVIEW_STOPPED"
    /\ Answer(e.evt, TRUE)
    /\ UNCHANGED <<liveThread, prepSnapshot, msgVars, confVars>>

\* TAKE_PICTURE: the next picture of a burst, and an error without one.
BurstTakePicture(e) ==
    /\ e.evt = "TAKE_PICTURE"
    /\ \E ok \in IF mLongshotEnabled THEN LongShot(channels, par) ELSE {FALSE} :
         /\ capture' = IF ok THEN "frames" ELSE capture
         /\ Answer(e.evt, ok)
    /\ UNCHANGED <<smVars, channels, liveThread, prepSnapshot, msgVars, confVars>>

PicOther(e) ==
    \/ e.evt \in Queries \cup {"PREVIEW_ENABLED", "REG_FACE_IMAGE"} /\ Only(e.evt, TRUE)
    \/ /\ e.evt \in {"SET_PREVIEW_WINDOW", "PREPARE_SNAPSHOT", "START_RECORDING",
                     "STOP_RECORDING", "START_PREVIEW", "START_NODISPLAY_PREVIEW", "RELEASE"}
       /\ Only(e.evt, FALSE)

\* The daemon's death answers whoever waits for a picture.
PicDaemonDied(e) ==
    /\ e.evt = "DAEMON_DIED"
    /\ out' = [NoOutput EXCEPT !.api = {<<"PREPARE_SNAPSHOT", TRUE>>, <<"TAKE_PICTURE", TRUE>>}]
    /\ UNCHANGED <<smVars, hwVars, msgVars, confVars>>

\* All frames are in: the CAPTURE channel stops, and with EarlyRestart it is
\* given up and preview comes up again, m_state staying PIC_TAKING.
PicStopCaptureChannel(e) ==
    LET stopped == StopChannels(channels, {"CAPTURE"})
        done(ok) == Answer(e.evt, ok)
        \* stopChannel: NO_INIT when the channel is not active, an error when
        \* there is none; no channel is touched in the RAW format
        rc == IF par.raw THEN {TRUE} ELSE IF channels["CAPTURE"] = "started" THEN Rc ELSE {FALSE}
    IN  /\ e.evt = "STOP_CAPTURE_CHANNEL"
        /\ \E ok \in rc :
             IF ~(EarlyRestart /\ ok)
               THEN /\ channels' = IF par.raw THEN channels ELSE stopped
                    /\ done(ok) /\ UNCHANGED msgVars
               ELSE \E p \in PreparePreview(IF par.raw THEN channels ELSE stopped, par) :
                      IF ~p.ok THEN channels' = p.ch /\ done(FALSE) /\ UNCHANGED msgVars
                      ELSE \E s \in StartPreview(p.ch, par) :
                             channels' = s.ch /\ done(s.ok) /\ ApplyDelayedMsgs
        /\ UNCHANGED <<smVars, liveThread, capture, prepSnapshot, confVars>>

\* Mutant: m_state is not set back.
PicSnapshotDoneStays(e) ==
    /\ e.evt = "SNAPSHOT_DONE"
    /\ channels' = CancelPicture(channels, par)
    /\ capture' = "none"
    /\ out' = [NoOutput EXCEPT !.evt = {"SNAPSHOT_DONE"}]
    /\ UNCHANGED <<smVars, liveThread, prepSnapshot, msgVars, confVars>>

PicSnapshotDone(e) ==
    /\ e.evt = "SNAPSHOT_DONE"
    /\ channels' = CancelPicture(channels, par)
    /\ capture' = "none"
    /\ m_state' = IF EarlyRestart THEN "PREVIEWING" ELSE "PREVIEW_STOPPED"
    /\ out' = [NoOutput EXCEPT !.evt = {"SNAPSHOT_DONE"}]
    /\ UNCHANGED <<liveThread, prepSnapshot, msgVars, confVars>>

ProcEvtPicTakingState(e) ==
    \/ PicSettings(e) \/ PicCancel(e) \/ BurstTakePicture(e) \/ PicOther(e)
    \/ PicDaemonDied(e) \/ PicStopCaptureChannel(e) \/ PicSnapshotDone(e)
    \/ NotForThisState(e, {"PREP_SNAPSHOT_DONE", "READY_FOR_SNAPSHOT"})

-----------------------------------------------------------------------------
(* procEvtRecordingState *)

\* Parameters that need a restart are refused, but stay staged.
RecordingSetParams(e) ==
    /\ e.evt = "SET_PARAMS"
    /\ \/ ~NeedRestart(par, e.arg) /\ UpdateAndCommit(e)
       \/ /\ NeedRestart(par, e.arg)
          /\ par' = UpdateParams(par, e.arg)
          /\ Answer(e.evt, FALSE)
          /\ UNCHANGED <<smVars, hwVars, msgVars, mPreviewWindow, mLongshotEnabled>>

RecordingSettings(e) ==
    \/ SetFrameMsg(e) \/ RecordingSetParams(e)
    \/ e.evt = "LONGSHOT_ON" /\ LongshotOn(e)
    \/ e.evt = "LONGSHOT_OFF" /\ LongshotOff(e) /\ UNCHANGED smVars

RecordingTakePicture(e) ==
    /\ e.evt = "TAKE_PICTURE"
    /\ TakeLiveSnapshot("RECORDING", "VIDEO_PIC_TAKING", e)

\* Mutant: the wrong channel.
StopRecordingWrongChannel(ch) == StopChannels(ch, {"SNAPSHOT"})

\* stopRecording
StopRecording(ch) == StopChannels(ch, {"VIDEO"})

RecordingStop(e) ==
    /\ \/ /\ e.evt = "STOP_RECORDING"
          /\ channels' = StopRecording(channels)
          /\ m_state' = "PREVIEWING"
       \/ /\ e.evt = "STOP_PREVIEW"
          /\ channels' = StopPreview(StopRecording(channels))
          /\ m_state' = "PREVIEW_STOPPED"
    /\ Answer(e.evt, TRUE)
    /\ UNCHANGED <<liveThread, capture, prepSnapshot, msgVars, confVars>>

RecordingOther(e) ==
    \/ /\ e.evt \in Queries \cup {"START_PREVIEW", "SET_PREVIEW_WINDOW", "PREVIEW_ENABLED",
                                  "START_RECORDING", "PREPARE_SNAPSHOT", "REG_FACE_IMAGE"}
       /\ Only(e.evt, TRUE)
    \/ e.evt \in {"CANCEL_PICTURE", "START_NODISPLAY_PREVIEW", "RELEASE"} /\ Only(e.evt, FALSE)

ProcEvtRecordingState(e) ==
    \/ RecordingSettings(e) \/ RecordingTakePicture(e) \/ RecordingStop(e)
    \/ RecordingOther(e) \/ SnapshotDoneIgnored(e)
    \/ NotForThisState(e, InternalEvents \ {"SNAPSHOT_DONE"})

-----------------------------------------------------------------------------
(* procEvtVideoPicTakingState *)

\* cancelLiveSnapshot: join the thread, stop the SNAPSHOT channel.
CancelLiveSnapshot ==
    /\ LiveThreadJoinable
    /\ liveThread' = "none"
    /\ capture' = "none"

LiveStopped == StopChannels(channels, {"SNAPSHOT"})

VideoPicStop(e) ==
    /\ \/ /\ e.evt = "STOP_RECORDING"
          /\ channels' = StopRecording(LiveStopped)
          /\ m_state' = "PREVIEWING"
       \/ /\ e.evt = "STOP_PREVIEW"
          /\ channels' = StopPreview(StopRecording(LiveStopped))
          /\ m_state' = "PREVIEW_STOPPED"
       \/ /\ e.evt = "CANCEL_PICTURE"
          /\ channels' = LiveStopped
          /\ m_state' = "RECORDING"
    /\ CancelLiveSnapshot
    /\ Answer(e.evt, TRUE)
    /\ UNCHANGED <<prepSnapshot, msgVars, confVars>>

VideoPicSnapshotDone(e) ==
    /\ e.evt = "SNAPSHOT_DONE"
    /\ channels' = LiveStopped
    /\ m_state' = "RECORDING"
    /\ CancelLiveSnapshot
    /\ out' = [NoOutput EXCEPT !.evt = {"SNAPSHOT_DONE"}]
    /\ UNCHANGED <<prepSnapshot, msgVars, confVars>>

VideoPicOther(e) ==
    \/ e.evt \in Queries \cup {"PREVIEW_ENABLED", "REG_FACE_IMAGE"} /\ Only(e.evt, TRUE)
    \/ /\ e.evt \in {"SET_PREVIEW_WINDOW", "START_RECORDING", "START_PREVIEW",
                     "START_NODISPLAY_PREVIEW", "PREPARE_SNAPSHOT", "TAKE_PICTURE", "RELEASE"}
       /\ Only(e.evt, FALSE)

ProcEvtVideoPicTakingState(e) ==
    \/ RecordingSettings(e) \/ VideoPicStop(e) \/ VideoPicOther(e) \/ VideoPicSnapshotDone(e)
    \/ NotForThisState(e, InternalEvents \ {"SNAPSHOT_DONE"})

-----------------------------------------------------------------------------
(* procEvtPreviewPicTakingState *)

PreviewPicSettings(e) ==
    \/ SetFrameMsg(e)
    \/ PreviewRestart(e, "PIC_TAKING")
    \/ e.evt = "SET_PARAMS" /\ ~NeedRestart(par, e.arg) /\ UpdateAndCommit(e)
    \/ e.evt = "LONGSHOT_ON" /\ LongshotOn(e)
    \/ e.evt = "LONGSHOT_OFF" /\ LongshotOff(e) /\ m_state' = "PREVIEWING"

\* What ends the picture: cancelPicture for ZSL and bursts, else the live one.
PicturePart ==
    IF par.zsl \/ mLongshotEnabled
      THEN capture' = "none" /\ UNCHANGED liveThread
      ELSE CancelLiveSnapshot

PictureEnded ==
    IF par.zsl \/ mLongshotEnabled THEN CancelPicture(channels, par) ELSE LiveStopped

PreviewPicCancel(e) ==
    /\ \/ /\ e.evt = "CANCEL_PICTURE"
          /\ channels' = PictureEnded
          /\ m_state' = "PREVIEWING"
       \/ /\ e.evt = "STOP_PREVIEW"
          /\ channels' = UnpreparePreview(PictureEnded)
          /\ m_state' = "PREVIEW_STOPPED"
    /\ PicturePart
    /\ Answer(e.evt, TRUE)
    /\ UNCHANGED <<prepSnapshot, msgVars, confVars>>

PreviewPicStartRecording(e) ==
    /\ e.evt = "START_RECORDING"
    /\ \/ (par.zsl \/ mLongshotEnabled) /\ Only(e.evt, FALSE)
       \/ /\ ~(par.zsl \/ mLongshotEnabled)
          /\ \E o \in StartRecording(channels, par) :
               /\ channels' = o.ch
               /\ par' = o.par
               /\ m_state' = IF o.ok THEN "VIDEO_PIC_TAKING" ELSE m_state
               /\ Answer(e.evt, o.ok)
          /\ UNCHANGED <<liveThread, capture, prepSnapshot, msgVars, mPreviewWindow, mLongshotEnabled>>

\* Only a retro-active picture may be prepared once it has been taken.
PreviewPicPrepareSnapshot(e) ==
    /\ e.evt = "PREPARE_SNAPSHOT"
    /\ \/ /\ bRetroPicture
          /\ prepSnapshot' = TRUE
          /\ Silent
          /\ UNCHANGED <<smVars, channels, liveThread, capture, msgVars, confVars>>
       \/ (~bRetroPicture \/ HalCallsFail) /\ Only(e.evt, FALSE)

PreviewPicOther(e) ==
    \/ e.evt \in Queries \cup {"PREVIEW_ENABLED", "REG_FACE_IMAGE"} /\ Only(e.evt, TRUE)
    \/ /\ e.evt \in {"STOP_RECORDING", "START_PREVIEW", "START_NODISPLAY_PREVIEW",
                     "SET_PREVIEW_WINDOW", "RELEASE"}
       /\ Only(e.evt, FALSE)

\* The two events a retro-active picture's caller waits for.
PreviewPicRetro(e) ==
    \/ e.evt = "PREP_SNAPSHOT_DONE" /\ bRetroPicture /\ Only("PREPARE_SNAPSHOT", TRUE)
    \/ e.evt = "READY_FOR_SNAPSHOT" /\ bRetroPicture /\ Only("TAKE_PICTURE", TRUE)
    \/ ~bRetroPicture /\ NotForThisState(e, {"PREP_SNAPSHOT_DONE", "READY_FOR_SNAPSHOT"})

PreviewPicSnapshotDone(e) ==
    /\ e.evt = "SNAPSHOT_DONE"
    /\ channels' = PictureEnded
    /\ m_state' = "PREVIEWING"
    /\ PicturePart
    /\ out' = [NoOutput EXCEPT !.evt = {"SNAPSHOT_DONE"},
                               !.api = IF bRetroPicture THEN {<<"SNAPSHOT_DONE", TRUE>>} ELSE {}]
    /\ UNCHANGED <<prepSnapshot, msgVars, confVars>>

ProcEvtPreviewPicTakingState(e) ==
    \/ PreviewPicSettings(e) \/ PreviewPicCancel(e) \/ BurstTakePicture(e)
    \/ PreviewPicStartRecording(e) \/ PreviewPicPrepareSnapshot(e)
    \/ PreviewPicOther(e) \/ PreviewPicRetro(e) \/ PreviewPicSnapshotDone(e)
    \/ NotForThisState(e, {"STOP_CAPTURE_CHANNEL", "DAEMON_DIED"})

-----------------------------------------------------------------------------
\* stateMachine(): one event, handled to completion in the current state.
StateMachine(e) ==
    /\ \/ m_state = "PREVIEW_STOPPED"    /\ ProcEvtPreviewStoppedState(e)
       \/ m_state = "PREVIEW_READY"      /\ ProcEvtPreviewReadyState(e)
       \/ m_state = "PREVIEWING"         /\ ProcEvtPreviewingState(e)
       \/ m_state = "PREPARE_SNAPSHOT"   /\ ProcEvtPrepareSnapshotState(e)
       \/ m_state = "PIC_TAKING"         /\ ProcEvtPicTakingState(e)
       \/ m_state = "RECORDING"          /\ ProcEvtRecordingState(e)
       \/ m_state = "VIDEO_PIC_TAKING"   /\ ProcEvtVideoPicTakingState(e)
       \/ m_state = "PREVIEW_PIC_TAKING" /\ ProcEvtPreviewPicTakingState(e)
    /\ UNCHANGED bRetroPicture

-----------------------------------------------------------------------------
(* What the states promise.  The comments of qcamera_state_enum_t say of    *)
(* each state which streams run in it; the handlers have to keep the        *)
(* channels and m_state together over every sequence of calls.              *)

PreviewUp == \E k \in {"ZSL", "PREVIEW"} : channels[k] = "started"

\* startRecording, stopRecording and the restarts between them keep the video
\* channel running in exactly the two recording states.
VideoRunsWhileRecording ==
    channels["VIDEO"] = "started" <=> m_state \in {"RECORDING", "VIDEO_PIC_TAKING"}

\* "preview is stopped": whatever ended preview - a stop, the end of a picture,
\* a restart that failed - left none of its channels running.
StoppedMeansStopped ==
    m_state = "PREVIEW_STOPPED" => \A k \in PreviewFamily : channels[k] # "started"

\* "taking picture (preview stopped)": takePicture gives up every preview
\* channel before the capture channel starts, and no restart brings one back.
PictureStopsPreview ==
    m_state = "PIC_TAKING" => \A k \in PreviewFamily : channels[k] # "started"

\* Preview has one path: the ZSL channel and the PREVIEW channel never exist
\* together (preparePreview and takePicture delete and add them).
OnePreviewPath ==
    channels["ZSL"] = "absent" \/ channels["PREVIEW"] = "absent"

\* The two together, whatever calls the daemon refuses.
PreviewConsistent == StoppedMeansStopped /\ OnePreviewPath

\* "previewing", "recording (preview running)", "taking live snapshot during
\* recording (preview running)", "taking ZSL/live snapshot (... preview
\* running)": what isPreviewRunning() reports, runs.
PreviewRunsAsStated ==
    m_state \in {"PREVIEWING", "RECORDING", "VIDEO_PIC_TAKING", "PREVIEW_PIC_TAKING"} => PreviewUp

\* A capture channel runs only while a picture is taken: SNAPSHOT_DONE and the
\* commands that end a picture early (cancelPicture) leave none behind.
CaptureOnlyInPicture ==
    channels["CAPTURE"] = "started" \/ channels["RAW"] = "started" => m_state = "PIC_TAKING"

\* The live snapshot thread and its channel do not outlive the picture: every
\* way out of a live snapshot goes through cancelLiveSnapshot.  (With ZSL the
\* handlers take the picture for one of the ZSL channel and do not.)
LiveEndsWithPicture ==
    ~par.zsl /\ m_state \notin {"PREVIEW_PIC_TAKING", "VIDEO_PIC_TAKING"} =>
        liveThread = "none" /\ channels["SNAPSHOT"] # "started"

\* What a picture starts, it ends: the three above.
PicturesOwnTheirChannels == CaptureOnlyInPicture /\ PictureStopsPreview /\ LiveEndsWithPicture
=============================================================================
