----------------------------- MODULE CameraEvents -----------------------------
(***************************************************************************)
(* The camera state machine under every order of events: the framework     *)
(* issues any command at any time, and what the HAL's other threads post   *)
(* (the post processor, the callback notifier, the live snapshot thread,   *)
(* the metadata callback) waits in "pending" and is delivered in any order *)
(* and arbitrarily late.  The queues of the real HAL allow fewer orders;   *)
(* CameraApi models them.                                                  *)
(***************************************************************************)
EXTENDS CameraStateMachine

CONSTANTS Commands,   \* the API events the framework issues
          KeepMode,   \* SET_PARAMS leaves ZSL mode and picture format alone
          MaxPending  \* bound: how many posted events may be waiting

ASSUME CommandsAssumption == Commands \subseteq ApiEvents

VARIABLES pending,    \* events posted and not yet handled
          wanted      \* the framework's last accepted word on CAMERA_MSG_PREVIEW_FRAME

evVars == <<vars, pending, wanted>>

EInit == Init /\ pending = {} /\ wanted = FALSE

Arguments(evt) == CASE evt = "SET_PREVIEW_WINDOW" -> BOOLEAN
                    [] evt = "SET_PARAMS" ->
                         {s \in Settings : KeepMode => s.zsl = par.zsl /\ s.raw = par.raw}
                    [] OTHER -> {TRUE}

Post(evts) ==
    /\ pending' = pending \cup evts
    /\ Cardinality(pending') =< MaxPending

\* A framework call, handled.
Command ==
    \E evt \in Commands : \E arg \in Arguments(evt) :
        /\ StateMachine(Event(evt, arg))
        /\ Post(out'.posted)
        /\ wanted' = IF <<"ENABLE_MSG_TYPE", TRUE>> \in out'.api THEN TRUE
                     ELSE wanted /\ <<"DISABLE_MSG_TYPE", TRUE>> \notin out'.api

\* A posted event, handled.
Deliver ==
    \E evt \in pending :
        /\ StateMachine(Event(evt, TRUE))
        /\ pending' = (pending \ {evt}) \cup out'.posted
        /\ UNCHANGED wanted

Live == LiveSnapshot /\ Post(out'.posted) /\ UNCHANGED wanted

\* The last frame of a picture reaches the post processor: stopCapture posts
\* STOP_CAPTURE_CHANNEL if this is a regular capture of one picture.
LastFrame ==
    /\ capture = "frames"
    /\ capture' = "jpeg"
    /\ \/ Post({})
       \/ ~par.hint /\ ~par.zsl /\ ~mLongshotEnabled /\ Post({"STOP_CAPTURE_CHANNEL"})
    /\ Silent
    /\ UNCHANGED <<smVars, channels, liveThread, prepSnapshot, msgVars, confVars, bRetroPicture, wanted>>

\* The last JPEG is handed to the callback notifier, which posts SNAPSHOT_DONE
\* unless this is a burst.
LastJpeg ==
    /\ capture = "jpeg" /\ ~mLongshotEnabled
    /\ capture' = "none"
    /\ Post({"SNAPSHOT_DONE"})
    /\ Silent
    /\ UNCHANGED <<smVars, channels, liveThread, prepSnapshot, msgVars, confVars, bRetroPicture, wanted>>

\* The metadata callback and the ZSL channel's callback.
PrepDone ==
    /\ prepSnapshot
    /\ prepSnapshot' = FALSE
    /\ Post({"PREP_SNAPSHOT_DONE"})
    /\ Silent
    /\ UNCHANGED <<smVars, channels, liveThread, capture, msgVars, confVars, bRetroPicture, wanted>>

ENext == Command \/ Deliver \/ Live \/ LastFrame \/ LastJpeg \/ PrepDone

ESpec == EInit /\ [][ENext]_evVars

-----------------------------------------------------------------------------
\* Preview frame callbacks the framework asked for, and the HAL accepted, are
\* on, or recorded as delayed while the delay of a ZSL picture lasts.
WantedFramesComeBack ==
    wanted => frameMsg \/ (m_bDelayPreviewMsgs /\ m_DelayedMsgs)
=============================================================================
