----------------------------- MODULE Camera_proofs -----------------------------
(***************************************************************************)
(* What holds of the camera state machine for every set of settings and    *)
(* commands: of video and of the preview messages with or without failing  *)
(* daemon calls and early restart; of preview and of pictures under the    *)
(* conditions each theorem names; and of the threads around it, that every *)
(* call of the framework is answered once and that no wait is slept        *)
(* through.                                                                *)
(***************************************************************************)
EXTENDS CameraEvents, CameraApi, FiniteSetTheorems, SequenceTheorems, WellFoundedInduction, TLAPS

ChannelsType == [Channels -> {"absent", "added", "started"}]

NoVideo(ch) == ch["VIDEO"] # "started"

-----------------------------------------------------------------------------
(* The operations on channels, and what they do to the video channel.      *)

\* An outcome's two parts.
LEMMA OutcomeProp ==
    ASSUME NEW ok, NEW ch
    PROVE  Outcome(ok, ch).ok = ok /\ Outcome(ok, ch).ch = ch
BY DEF Outcome

\* delChannel leaves the other channels as they were.
LEMMA DelChannelsProp ==
    ASSUME NEW ch \in ChannelsType, NEW ks
    PROVE  /\ DelChannels(ch, ks) \in ChannelsType
           /\ \A k \in Channels : k \notin ks => DelChannels(ch, ks)[k] = ch[k]
           /\ \A k \in Channels : k \in ks => DelChannels(ch, ks)[k] = "absent"
BY DEF DelChannels, ChannelsType

\* stopChannel stops, and does not start or delete.
LEMMA StopChannelsProp ==
    ASSUME NEW ch \in ChannelsType, NEW ks
    PROVE  /\ StopChannels(ch, ks) \in ChannelsType
           /\ \A k \in Channels : k \notin ks => StopChannels(ch, ks)[k] = ch[k]
           /\ \A k \in Channels : k \in ks => StopChannels(ch, ks)[k] # "started"
BY DEF StopChannels, ChannelsType

\* addChannel does not start what it adds.
LEMMA AddChannelsProp ==
    ASSUME NEW ch \in ChannelsType, NEW ks
    PROVE  /\ AddChannels(ch, ks) \in ChannelsType
           /\ \A k \in Channels : k \notin ks => AddChannels(ch, ks)[k] = ch[k]
           /\ \A k \in Channels : k \in ks => AddChannels(ch, ks)[k] = "added"
BY DEF AddChannels, ChannelsType

\* startChannel starts its channel or nothing.
LEMMA StartChannelProp ==
    ASSUME NEW ch \in ChannelsType, NEW k \in Channels, NEW o \in StartChannel(ch, k)
    PROVE  /\ o.ok \in BOOLEAN
           /\ o.ch \in ChannelsType
           /\ \A j \in Channels \ {k} : o.ch[j] = ch[j]
           /\ o.ok => o.ch[k] = "started"
           /\ ~o.ok => o.ch = ch
<1>1. \/ o = Outcome(TRUE, [ch EXCEPT ![k] = "started"])
      \/ o = Outcome(FALSE, ch)
  BY DEF StartChannel, Failing
<1>2. [ch EXCEPT ![k] = "started"] \in ChannelsType
  BY DEF ChannelsType
<1>3. ASSUME NEW ok \in BOOLEAN, NEW c, o = Outcome(ok, c) PROVE o.ok = ok /\ o.ch = c
  BY <1>3 DEF Outcome
<1> QED BY <1>1, <1>2, <1>3 DEF ChannelsType

\* preparePreview starts nothing: it adds, or deletes what it had added.
LEMMA PreparePreviewProp ==
    ASSUME NEW ch \in ChannelsType, NEW p, NEW o \in PreparePreview(ch, p)
    PROVE  /\ o.ok \in BOOLEAN
           /\ o.ch \in ChannelsType
           /\ NoVideo(ch) => NoVideo(o.ch)
<1> DEFINE ks == IF ZslPreview(p) THEN {"ZSL"}
                 ELSE IF p.hint THEN {"SNAPSHOT", "VIDEO", "PREVIEW"} ELSE {"PREVIEW"}
<1>1. \/ o = Outcome(TRUE, AddChannels(ch, ks))
      \/ o = Outcome(FALSE, ch)
      \/ \E js : o = Outcome(FALSE, DelChannels(ch, js))
  BY DEF PreparePreview, Failing
<1> HIDE DEF ks
<1>2. \/ o.ch = AddChannels(ch, ks)
      \/ o.ch = ch
      \/ \E js : o.ch = DelChannels(ch, js)
  BY <1>1 DEF Outcome
<1>5. o.ok \in BOOLEAN
  <2>1. o.ok = TRUE \/ o.ok = FALSE
    BY <1>1, OutcomeProp
  <2> QED BY <2>1
<1>3. ASSUME NEW js PROVE /\ DelChannels(ch, js) \in ChannelsType
                          /\ NoVideo(ch) => NoVideo(DelChannels(ch, js))
  BY DelChannelsProp DEF NoVideo, Channels
<1>4. /\ AddChannels(ch, ks) \in ChannelsType
      /\ NoVideo(ch) => NoVideo(AddChannels(ch, ks))
  BY AddChannelsProp DEF NoVideo, Channels
<1> QED BY <1>2, <1>3, <1>4, <1>5

\* unpreparePreview leaves no video channel.
LEMMA UnpreparePreviewProp ==
    ASSUME NEW ch \in ChannelsType
    PROVE  UnpreparePreview(ch) \in ChannelsType /\ NoVideo(UnpreparePreview(ch))
BY DelChannelsProp DEF UnpreparePreview, PreviewFamily, NoVideo, Channels

\* Stopping preview first stops and then unprepares it: no video channel is left.
LEMMA StopPreviewProp ==
    ASSUME NEW ch \in ChannelsType
    PROVE  StopPreview(ch) \in ChannelsType /\ NoVideo(StopPreview(ch))
BY StopChannelsProp, UnpreparePreviewProp DEF StopPreview

\* startPreview does not touch the video channel.
LEMMA StartPreviewProp ==
    ASSUME NEW ch \in ChannelsType, NEW p, NEW o \in StartPreview(ch, p)
    PROVE  /\ o.ok \in BOOLEAN
           /\ o.ch \in ChannelsType
           /\ NoVideo(ch) => NoVideo(o.ch)
<1> DEFINE k == IF ZslPreview(p) THEN "ZSL" ELSE "PREVIEW"
<1>1. k \in Channels \ {"VIDEO"} /\ "VIDEO" \in Channels
  BY DEF Channels
<1>2. o \in StartChannel(ch, k)
  BY DEF StartPreview
<1> HIDE DEF k
<1> QED BY <1>1, <1>2, StartChannelProp DEF NoVideo

\* Neither does bringing preview up, whether that succeeds or is undone.
LEMMA PrepareAndStartProp ==
    ASSUME NEW ch \in ChannelsType, NEW p, NEW o \in PrepareAndStart(ch, p)
    PROVE  /\ o.ok \in BOOLEAN
           /\ o.ch \in ChannelsType
           /\ NoVideo(ch) => NoVideo(o.ch)
<1>1. CASE \E q \in PreparePreview(ch, p) : o = [ok |-> FALSE, ch |-> q.ch, prepared |-> FALSE]
  <2>1. PICK q \in PreparePreview(ch, p) : o = [ok |-> FALSE, ch |-> q.ch, prepared |-> FALSE]
    BY <1>1
  <2>2. o.ok = FALSE /\ o.ch = q.ch
    BY <2>1
  <2> QED BY <2>2, PreparePreviewProp
<1>2. CASE \E q \in PreparePreview(ch, p) : \E s \in StartPreview(q.ch, p) :
             o = [ok |-> s.ok, prepared |-> TRUE,
                  ch |-> IF s.ok THEN s.ch ELSE UnpreparePreview(s.ch)]
  <2>1. PICK q \in PreparePreview(ch, p) : \E s \in StartPreview(q.ch, p) :
             o = [ok |-> s.ok, prepared |-> TRUE,
                  ch |-> IF s.ok THEN s.ch ELSE UnpreparePreview(s.ch)]
    BY <1>2
  <2>2. PICK s \in StartPreview(q.ch, p) :
             o = [ok |-> s.ok, prepared |-> TRUE,
                  ch |-> IF s.ok THEN s.ch ELSE UnpreparePreview(s.ch)]
    BY <2>1
  <2>3. q.ch \in ChannelsType /\ (NoVideo(ch) => NoVideo(q.ch))
    BY PreparePreviewProp
  <2>4. s.ok \in BOOLEAN /\ s.ch \in ChannelsType /\ (NoVideo(q.ch) => NoVideo(s.ch))
    BY <2>3, StartPreviewProp
  <2>5. o.ok = s.ok /\ o.ch = IF s.ok THEN s.ch ELSE UnpreparePreview(s.ch)
    BY <2>2
  <2> QED BY <2>3, <2>4, <2>5, UnpreparePreviewProp
<1> QED BY <1>1, <1>2 DEF PrepareAndStart

\* startRecording: the video channel runs afterwards if and only if it succeeds.
LEMMA StartRecordingProp ==
    ASSUME NEW ch \in ChannelsType, NoVideo(ch), NEW p, NEW o \in StartRecording(ch, p)
    PROVE  /\ o.ok \in BOOLEAN
           /\ o.ch \in ChannelsType
           /\ o.ok => o.ch["VIDEO"] = "started"
           /\ ~o.ok => NoVideo(o.ch)
<1> DEFINE Video(c, q) == {[ok |-> v.ok, ch |-> v.ch, par |-> q] : v \in StartChannel(c, "VIDEO")}
           Stage(r, q) == IF r.ok THEN Video(r.ch, q)
                          ELSE {[ok |-> FALSE, ch |-> r.ch, par |-> q]}
           Done(x) == /\ x.ok \in BOOLEAN
                      /\ x.ch \in ChannelsType
                      /\ x.ok => x.ch["VIDEO"] = "started"
                      /\ ~x.ok => NoVideo(x.ch)
<1>1. ASSUME NEW c \in ChannelsType, NoVideo(c), NEW q, NEW x \in Video(c, q) PROVE Done(x)
  <2>1. PICK v \in StartChannel(c, "VIDEO") : x = [ok |-> v.ok, ch |-> v.ch, par |-> q]
    OBVIOUS
  <2>2. x.ok = v.ok /\ x.ch = v.ch
    BY <2>1
  <2>3. "VIDEO" \in Channels
    BY DEF Channels
  <2> QED BY <1>1, <2>2, <2>3, StartChannelProp DEF NoVideo
<1>2. ASSUME NEW r, r.ch \in ChannelsType, NoVideo(r.ch), NEW q, NEW x \in Stage(r, q)
      PROVE  Done(x)
  <2>1. CASE r.ok
    BY <1>1, <1>2, <2>1
  <2>2. CASE ~r.ok
    <3>1. x = [ok |-> FALSE, ch |-> r.ch, par |-> q]
      BY <2>2
    <3>2. x.ok = FALSE /\ x.ch = r.ch
      BY <3>1
    <3> QED BY <1>2, <3>2
  <2> QED BY <2>1, <2>2
<1>3. CASE p.hint
  BY <1>1, <1>3 DEF StartRecording
<1>4. CASE ~p.hint
  <2>0. PICK q : \E r \in PreparePreview(StopPreview(ch), q) :
            o \in IF r.ok THEN UNION {Stage(s, q) : s \in StartChannel(r.ch, "PREVIEW")}
                  ELSE Stage(r, q)
    BY <1>4 DEF StartRecording
  <2>1. PICK r \in PreparePreview(StopPreview(ch), q) :
            o \in IF r.ok THEN UNION {Stage(s, q) : s \in StartChannel(r.ch, "PREVIEW")}
                  ELSE Stage(r, q)
    BY <2>0
  <2>2. r.ch \in ChannelsType /\ NoVideo(r.ch)
    BY StopPreviewProp, PreparePreviewProp
  <2>3. CASE r.ok
    <3>1. PICK s \in StartChannel(r.ch, "PREVIEW") : o \in Stage(s, q)
      BY <2>1, <2>3
    <3>2. s.ch \in ChannelsType /\ NoVideo(s.ch)
      <4>1. "PREVIEW" \in Channels /\ "VIDEO" \in Channels
        BY DEF Channels
      <4> QED BY <2>2, <4>1, StartChannelProp DEF NoVideo
    <3> QED BY <1>2, <3>1, <3>2
  <2>4. CASE ~r.ok
    BY <1>2, <2>1, <2>2, <2>4
  <2> QED BY <2>3, <2>4
<1> QED BY <1>3, <1>4

\* stopRecording stops the video channel.
LEMMA StopRecordingProp ==
    ASSUME NEW ch \in ChannelsType
    PROVE  StopRecording(ch) \in ChannelsType /\ NoVideo(StopRecording(ch))
BY StopChannelsProp DEF StopRecording, NoVideo, Channels

\* cancelPicture deletes a picture's channel, never the video channel.
LEMMA CancelPictureProp ==
    ASSUME NEW ch \in ChannelsType, NEW p
    PROVE  CancelPicture(ch, p) \in ChannelsType /\ CancelPicture(ch, p)["VIDEO"] = ch["VIDEO"]
BY DelChannelsProp DEF CancelPicture, Channels

\* takePicture, failing or not, leaves the video channel alone.
LEMMA TakePictureProp ==
    ASSUME NEW ch \in ChannelsType, NEW p, NEW longshot, NEW o \in TakePicture(ch, p, longshot)
    PROVE  /\ o.ok \in BOOLEAN
           /\ o.ch \in ChannelsType
           /\ o.ch["VIDEO"] = ch["VIDEO"]
<1> DEFINE k == IF p.raw THEN "RAW" ELSE "CAPTURE"
           c == DelChannels(ch, {"PREVIEW"})
<1>1. \/ o = Outcome(TRUE, ch) \/ o = Outcome(FALSE, ch) \/ o = Outcome(FALSE, c)
      \/ \E ok \in BOOLEAN, x \in {"absent", "started"} : o = Outcome(ok, [c EXCEPT ![k] = x])
  BY DEF TakePicture, Failing
<1>2. c \in ChannelsType /\ c["VIDEO"] = ch["VIDEO"]
  BY DelChannelsProp DEF Channels
<1>3. k \in Channels \ {"VIDEO"} /\ "VIDEO" \in Channels
  BY DEF Channels
<1> HIDE DEF k, c
<1>4. ASSUME NEW x \in {"absent", "started"}
      PROVE  [c EXCEPT ![k] = x] \in ChannelsType /\ [c EXCEPT ![k] = x]["VIDEO"] = c["VIDEO"]
  BY <1>2, <1>3 DEF ChannelsType
<1>5. o.ok \in BOOLEAN
  <2>1. o.ok = TRUE \/ o.ok = FALSE
    BY <1>1, OutcomeProp
  <2> QED BY <2>1
<1>6. \/ o.ch = ch \/ o.ch = c
      \/ \E x \in {"absent", "started"} : o.ch = [c EXCEPT ![k] = x]
  <2>1. ASSUME NEW ok \in BOOLEAN, NEW x \in {"absent", "started"}, o = Outcome(ok, [c EXCEPT ![k] = x])
        PROVE  o.ch = [c EXCEPT ![k] = x]
    BY <2>1, OutcomeProp
  <2>2. o = Outcome(TRUE, ch) \/ o = Outcome(FALSE, ch) => o.ch = ch
    BY ZenonT(60), OutcomeProp
  <2>3. o = Outcome(FALSE, c) => o.ch = c
    BY OutcomeProp
  <2> QED BY <1>1, <2>1, <2>2, <2>3
<1> QED BY <1>2, <1>4, <1>5, <1>6

-----------------------------------------------------------------------------
(* The handlers: video runs in the recording states.  The invariant is      *)
(* inductive once it says that m_state is a state and channels a function.  *)

VideoInv ==
    /\ m_state \in States
    /\ channels \in ChannelsType
    /\ VideoRunsWhileRecording

\* Most handlers stay outside the recording states and start no video.
LEMMA NotRecording ==
    ASSUME VideoInv, m_state' \in States \ {"RECORDING", "VIDEO_PIC_TAKING"},
           channels' \in ChannelsType, NoVideo(channels')
    PROVE  VideoInv'
BY DEF VideoInv, VideoRunsWhileRecording, NoVideo

\* The others stay within them and leave the video channel alone.
LEMMA StillRecording ==
    ASSUME VideoInv, m_state \in {"RECORDING", "VIDEO_PIC_TAKING"},
           m_state' \in {"RECORDING", "VIDEO_PIC_TAKING"},
           channels' \in ChannelsType, channels'["VIDEO"] = channels["VIDEO"]
    PROVE  VideoInv'
BY DEF VideoInv, VideoRunsWhileRecording, States

\* A step that touches neither m_state nor a channel keeps the invariant.
LEMMA Untouched ==
    ASSUME VideoInv, UNCHANGED <<smVars, channels>>
    PROVE  VideoInv'
BY DEF VideoInv, VideoRunsWhileRecording, smVars

\* The handlers of messages, parameters, queries and refusals are such steps.
LEMMA SettingsKeepVideo ==
    ASSUME VideoInv, NEW e,
           SetFrameMsg(e) \/ UpdateAndCommit(e) \/ LongshotOn(e) \/ SnapshotDoneIgnored(e)
           \/ PreviewingFrameMsg(e) \/ (\E S : NotForThisState(e, S)) \/ (\E evt, ok : Only(evt, ok))
           \/ BurstTakePicture(e)
    PROVE  VideoInv'
<1>1. UNCHANGED <<smVars, channels>>
  BY DEF SetFrameMsg, UpdateAndCommit, LongshotOn, SnapshotDoneIgnored, PreviewingFrameMsg,
         NotForThisState, Ignore, Only, BurstTakePicture, hwVars
<1> QED BY <1>1, Untouched

\* Turning longshot off may cancel a picture, which is not the video channel.
LEMMA LongshotOffKeepsVideo ==
    ASSUME VideoInv, NEW e, LongshotOff(e)
    PROVE  channels' \in ChannelsType /\ channels'["VIDEO"] = channels["VIDEO"]
BY CancelPictureProp DEF LongshotOff, VideoInv

\* procEvtPreviewStoppedState keeps the invariant: preview starts, video does not.
LEMMA StoppedStep ==
    ASSUME VideoInv, m_state = "PREVIEW_STOPPED", NEW e, ProcEvtPreviewStoppedState(e)
    PROVE  VideoInv'
<1>1. channels \in ChannelsType /\ NoVideo(channels)
  BY DEF VideoInv, VideoRunsWhileRecording, NoVideo
<1>2. CASE StoppedStartPreview(e)
  <2>1. m_state' \in {"PREVIEW_STOPPED", "PREVIEW_READY", "PREVIEWING"}
    BY <1>2 DEF StoppedStartPreview
  <2>2. channels' \in ChannelsType /\ NoVideo(channels')
    BY <1>1, <1>2, PreparePreviewProp, PrepareAndStartProp DEF StoppedStartPreview
  <2> QED BY <2>1, <2>2, NotRecording DEF States
<1>3. CASE StoppedSettings(e)
  <2>1. CASE LongshotOff(e) /\ UNCHANGED smVars
    BY <1>1, <2>1, LongshotOffKeepsVideo, NotRecording DEF smVars, States, NoVideo
  <2>2. CASE UNCHANGED <<smVars, hwVars>>
    BY <2>2, Untouched DEF hwVars
  <2> QED BY <1>3, <2>1, <2>2, SettingsKeepVideo DEF StoppedSettings
<1>4. CASE StoppedRelease(e)
  <2>1. channels' \in ChannelsType /\ NoVideo(channels')
    BY <1>1, <1>4, DelChannelsProp DEF StoppedRelease, NoVideo, Channels
  <2> QED BY <1>4, <2>1, NotRecording DEF StoppedRelease, smVars, States
<1>5. CASE StoppedOther(e)
  BY <1>5, SettingsKeepVideo DEF StoppedOther
<1> QED BY <1>2, <1>3, <1>4, <1>5, SettingsKeepVideo DEF ProcEvtPreviewStoppedState

\* procEvtPreviewReadyState keeps it: it starts and unprepares preview.
LEMMA ReadyStep ==
    ASSUME VideoInv, m_state = "PREVIEW_READY", NEW e, ProcEvtPreviewReadyState(e)
    PROVE  VideoInv'
<1>1. channels \in ChannelsType /\ NoVideo(channels)
  BY DEF VideoInv, VideoRunsWhileRecording, NoVideo
<1>2. CASE ReadySetPreviewWindow(e)
  <2>1. m_state' \in {"PREVIEW_STOPPED", "PREVIEW_READY", "PREVIEWING"}
    BY <1>2 DEF ReadySetPreviewWindow, smVars
  <2>2. channels' \in ChannelsType /\ NoVideo(channels')
    BY <1>1, <1>2, StartPreviewProp, UnpreparePreviewProp DEF ReadySetPreviewWindow
  <2> QED BY <2>1, <2>2, NotRecording DEF States
<1>3. CASE ReadyRestart(e)
  <2>1. m_state' \in {"PREVIEW_STOPPED", "PREVIEW_READY"}
    BY <1>3 DEF ReadyRestart, smVars
  <2>2. channels' = channels \/ \E o \in PreparePreview(UnpreparePreview(channels), par') : channels' = o.ch
    BY <1>3 DEF ReadyRestart
  <2>3. channels' \in ChannelsType /\ NoVideo(channels')
    BY <1>1, <2>2, UnpreparePreviewProp, PreparePreviewProp
  <2> QED BY <2>1, <2>3, NotRecording DEF States
<1>4. CASE ReadySettings(e)
  <2>1. CASE LongshotOff(e) /\ UNCHANGED smVars
    BY <1>1, <2>1, LongshotOffKeepsVideo, NotRecording DEF smVars, States, NoVideo
  <2> QED BY <1>4, <2>1, SettingsKeepVideo DEF ReadySettings
<1>5. CASE ReadyStopPreview(e)
  BY <1>1, <1>5, UnpreparePreviewProp, NotRecording DEF ReadyStopPreview, States
<1>6. CASE ReadyOther(e)
  BY <1>6, SettingsKeepVideo DEF ReadyOther
<1> QED BY <1>2, <1>3, <1>4, <1>5, <1>6, SettingsKeepVideo DEF ProcEvtPreviewReadyState

\* A restart of preview, wherever it is done, starts no video.
LEMMA PreviewRestartKeepsVideo ==
    ASSUME VideoInv, NoVideo(channels), NEW e, NEW onFail, PreviewRestart(e, onFail)
    PROVE  /\ m_state' \in {m_state, onFail}
           /\ channels' \in ChannelsType /\ NoVideo(channels')
<1>1. m_state' \in {m_state, onFail}
  BY DEF PreviewRestart, smVars
<1>2. channels' = channels \/ \E o \in PrepareAndStart(StopPreview(channels), par') : channels' = o.ch
  BY DEF PreviewRestart
<1> QED BY <1>1, <1>2, StopPreviewProp, PrepareAndStartProp DEF VideoInv

\* procEvtPreviewingState keeps it: only a startRecording that succeeds starts
\* video, and that one enters RECORDING.
LEMMA PreviewingStep ==
    ASSUME VideoInv, m_state = "PREVIEWING", NEW e, ProcEvtPreviewingState(e)
    PROVE  VideoInv'
<1>1. channels \in ChannelsType /\ NoVideo(channels)
  BY DEF VideoInv, VideoRunsWhileRecording, NoVideo
<1>2. CASE PreviewingSettings(e)
  <2>1. CASE PreviewRestart(e, "PREVIEW_STOPPED")
    BY <1>1, <2>1, PreviewRestartKeepsVideo, NotRecording DEF States
  <2>2. CASE PreviewingLongshotOn(e)
    <3>1. LongshotOn(e) \/ (UNCHANGED smVars /\ \E o \in PrepareAndStart(StopPreview(channels), par) : channels' = o.ch)
      BY <2>2 DEF PreviewingLongshotOn
    <3>2. CASE UNCHANGED smVars /\ \E o \in PrepareAndStart(StopPreview(channels), par) : channels' = o.ch
      BY <1>1, <3>2, StopPreviewProp, PrepareAndStartProp, NotRecording DEF smVars, States
    <3> QED BY <3>1, <3>2, SettingsKeepVideo
  <2>3. CASE LongshotOff(e) /\ UNCHANGED smVars
    BY <1>1, <2>3, LongshotOffKeepsVideo, NotRecording DEF smVars, States, NoVideo
  <2> QED BY <1>2, <2>1, <2>2, <2>3, SettingsKeepVideo DEF PreviewingSettings
<1>3. CASE PreviewingStartPreview(e)
  BY <1>3, Untouched DEF PreviewingStartPreview, hwVars
<1>4. CASE PreviewingStopPreview(e)
  BY <1>1, <1>4, StopPreviewProp, NotRecording DEF PreviewingStopPreview, States
<1>5. CASE PreviewingStartRecording(e)
  <2>1. PICK o \in StartRecording(channels, par) :
            channels' = o.ch /\ m_state' = IF o.ok THEN "RECORDING" ELSE m_state
    BY <1>5 DEF PreviewingStartRecording
  <2> QED BY <1>1, <2>1, StartRecordingProp DEF VideoInv, VideoRunsWhileRecording, States, NoVideo
<1>6. CASE PreviewingPrepareSnapshot(e)
  <2>1. channels' = channels /\ m_state' \in {"PREVIEWING", "PREPARE_SNAPSHOT"}
    BY <1>6 DEF PreviewingPrepareSnapshot, Only, smVars, hwVars
  <2> QED BY <1>1, <2>1, NotRecording DEF States
<1>7. CASE PreviewingTakePicture(e)
  <2>1. m_state' \in {"PREVIEW_PIC_TAKING", "PREVIEWING", "PIC_TAKING", "PREVIEW_STOPPED"}
    BY <1>7 DEF PreviewingTakePicture
  <2>2. \E o \in TakePicture(channels, par, mLongshotEnabled) : channels' = o.ch
    BY <1>7 DEF PreviewingTakePicture
  <2> QED BY <1>1, <2>1, <2>2, TakePictureProp, NotRecording DEF States, NoVideo
<1>8. CASE PreviewingLiveSnapshot(e)
  <2>1. channels' = channels /\ m_state' \in {"PREVIEWING", "PREVIEW_PIC_TAKING"}
    BY <1>8 DEF PreviewingLiveSnapshot, TakeLiveSnapshot
  <2> QED BY <1>1, <2>1, NotRecording DEF States
<1>9. CASE PreviewingOther(e)
  BY <1>9, SettingsKeepVideo DEF PreviewingOther
<1> QED BY <1>2, <1>3, <1>4, <1>5, <1>6, <1>7, <1>8, <1>9, SettingsKeepVideo DEF ProcEvtPreviewingState

\* procEvtPrepareSnapshotState keeps it: it only goes back to PREVIEWING.
LEMMA PrepareSnapshotStep ==
    ASSUME VideoInv, m_state = "PREPARE_SNAPSHOT", NEW e, ProcEvtPrepareSnapshotState(e)
    PROVE  VideoInv'
<1>1. channels \in ChannelsType /\ NoVideo(channels)
  BY DEF VideoInv, VideoRunsWhileRecording, NoVideo
<1>2. CASE PreparingDone(e)
  BY <1>1, <1>2, NotRecording DEF PreparingDone, hwVars, States
<1>3. CASE PreparingApi(e)
  BY <1>3, SettingsKeepVideo DEF PreparingApi
<1> QED BY <1>2, <1>3, SettingsKeepVideo DEF ProcEvtPrepareSnapshotState

\* procEvtPicTakingState keeps it, the early restart of preview included.
LEMMA PicTakingStep ==
    ASSUME VideoInv, m_state = "PIC_TAKING", NEW e, ProcEvtPicTakingState(e)
    PROVE  VideoInv'
<1>1. channels \in ChannelsType /\ NoVideo(channels)
  BY DEF VideoInv, VideoRunsWhileRecording, NoVideo
<1>2. CASE PicSettings(e)
  <2>1. CASE LongshotOff(e) /\ m_state' = "PREVIEWING"
    BY <1>1, <2>1, LongshotOffKeepsVideo, NotRecording DEF States, NoVideo
  <2> QED BY <1>2, <2>1, SettingsKeepVideo DEF PicSettings
<1>3. CASE PicCancel(e)
  BY <1>1, <1>3, CancelPictureProp, NotRecording DEF PicCancel, States, NoVideo
<1>4. CASE PicOther(e)
  BY <1>4, SettingsKeepVideo DEF PicOther
<1>5. CASE PicDaemonDied(e)
  BY <1>5, Untouched DEF PicDaemonDied, hwVars
<1>6. CASE PicStopCaptureChannel(e)
  <2> DEFINE stopped == IF par.raw THEN channels ELSE StopChannels(channels, {"CAPTURE"})
  <2>1. stopped \in ChannelsType /\ NoVideo(stopped)
    BY <1>1, StopChannelsProp DEF NoVideo, Channels
  <2>2. \/ channels' = stopped
        \/ \E q \in PreparePreview(stopped, par) :
              channels' = q.ch \/ \E s \in StartPreview(q.ch, par) : channels' = s.ch
    BY <1>6 DEF PicStopCaptureChannel
  <2>3. m_state' = m_state
    BY <1>6 DEF PicStopCaptureChannel, smVars
  <2> HIDE DEF stopped
  <2>4. channels' \in ChannelsType /\ NoVideo(channels')
    BY <2>1, <2>2, PreparePreviewProp, StartPreviewProp
  <2> QED BY <2>3, <2>4, NotRecording DEF States
<1>7. CASE PicSnapshotDone(e)
  <2>1. m_state' \in {"PREVIEWING", "PREVIEW_STOPPED"}
    BY <1>7 DEF PicSnapshotDone
  <2> QED BY <1>1, <1>7, <2>1, CancelPictureProp, NotRecording DEF PicSnapshotDone, States, NoVideo
<1> QED BY <1>2, <1>3, <1>4, <1>5, <1>6, <1>7, SettingsKeepVideo DEF ProcEvtPicTakingState

\* RECORDING and VIDEO_PIC_TAKING share the handlers of the settings.
LEMMA RecordingSettingsKeepVideo ==
    ASSUME VideoInv, m_state \in {"RECORDING", "VIDEO_PIC_TAKING"}, NEW e, RecordingSettings(e)
    PROVE  VideoInv'
<1>1. CASE RecordingSetParams(e)
  <2>1. UpdateAndCommit(e) \/ UNCHANGED <<smVars, channels>>
    BY <1>1 DEF RecordingSetParams, hwVars
  <2> QED BY <2>1, SettingsKeepVideo, Untouched
<1>2. CASE LongshotOff(e) /\ UNCHANGED smVars
  BY <1>2, LongshotOffKeepsVideo, StillRecording DEF smVars
<1> QED BY <1>1, <1>2, SettingsKeepVideo DEF RecordingSettings

\* procEvtRecordingState keeps it: whatever leaves RECORDING stops video.
LEMMA RecordingStep ==
    ASSUME VideoInv, m_state = "RECORDING", NEW e, ProcEvtRecordingState(e)
    PROVE  VideoInv'
<1>1. channels \in ChannelsType
  BY DEF VideoInv
<1>2. CASE RecordingTakePicture(e)
  <2>1. channels' = channels /\ m_state' \in {"RECORDING", "VIDEO_PIC_TAKING"}
    BY <1>2 DEF RecordingTakePicture, TakeLiveSnapshot
  <2> QED BY <1>1, <2>1, StillRecording
<1>3. CASE RecordingStop(e)
  <2>1. m_state' \in {"PREVIEWING", "PREVIEW_STOPPED"}
    BY <1>3 DEF RecordingStop
  <2>2. channels' = StopRecording(channels) \/ channels' = StopPreview(StopRecording(channels))
    BY <1>3 DEF RecordingStop
  <2> QED BY <1>1, <2>1, <2>2, StopRecordingProp, StopPreviewProp, NotRecording DEF States
<1>4. CASE RecordingOther(e)
  BY <1>4, SettingsKeepVideo DEF RecordingOther
<1> QED BY <1>2, <1>3, <1>4, SettingsKeepVideo, RecordingSettingsKeepVideo DEF ProcEvtRecordingState

\* cancelLiveSnapshot stops the SNAPSHOT channel alone.
LEMMA LiveStoppedProp ==
    ASSUME channels \in ChannelsType
    PROVE  LiveStopped \in ChannelsType /\ LiveStopped["VIDEO"] = channels["VIDEO"]
BY StopChannelsProp DEF LiveStopped, Channels

\* procEvtVideoPicTakingState keeps it: ending the live snapshot alone goes
\* back to RECORDING, ending the recording stops video as well.
LEMMA VideoPicStep ==
    ASSUME VideoInv, m_state = "VIDEO_PIC_TAKING", NEW e, ProcEvtVideoPicTakingState(e)
    PROVE  VideoInv'
<1>1. channels \in ChannelsType
  BY DEF VideoInv
<1>2. CASE VideoPicStop(e)
  <2>1. CASE /\ m_state' \in {"PREVIEWING", "PREVIEW_STOPPED"}
             /\ \/ channels' = StopRecording(LiveStopped)
                \/ channels' = StopPreview(StopRecording(LiveStopped))
    BY <1>1, <2>1, LiveStoppedProp, StopRecordingProp, StopPreviewProp, NotRecording DEF States
  <2>2. CASE m_state' = "RECORDING" /\ channels' = LiveStopped
    BY <1>1, <2>2, LiveStoppedProp, StillRecording
  <2> QED BY <1>2, <2>1, <2>2 DEF VideoPicStop
<1>3. CASE VideoPicSnapshotDone(e)
  BY <1>1, <1>3, LiveStoppedProp, StillRecording DEF VideoPicSnapshotDone
<1>4. CASE VideoPicOther(e)
  BY <1>4, SettingsKeepVideo DEF VideoPicOther
<1> QED BY <1>2, <1>3, <1>4, SettingsKeepVideo, RecordingSettingsKeepVideo DEF ProcEvtVideoPicTakingState

\* procEvtPreviewPicTakingState keeps it: a startRecording that succeeds
\* enters VIDEO_PIC_TAKING.
LEMMA PreviewPicStep ==
    ASSUME VideoInv, m_state = "PREVIEW_PIC_TAKING", NEW e, ProcEvtPreviewPicTakingState(e)
    PROVE  VideoInv'
<1>1. channels \in ChannelsType /\ NoVideo(channels)
  BY DEF VideoInv, VideoRunsWhileRecording, NoVideo
<1>2. PictureEnded \in ChannelsType /\ NoVideo(PictureEnded)
  BY <1>1, CancelPictureProp, LiveStoppedProp DEF PictureEnded, NoVideo
<1>3. CASE PreviewPicSettings(e)
  <2>1. CASE PreviewRestart(e, "PIC_TAKING")
    BY <1>1, <2>1, PreviewRestartKeepsVideo, NotRecording DEF States
  <2>2. CASE LongshotOff(e) /\ m_state' = "PREVIEWING"
    BY <1>1, <2>2, LongshotOffKeepsVideo, NotRecording DEF States, NoVideo
  <2> QED BY <1>3, <2>1, <2>2, SettingsKeepVideo DEF PreviewPicSettings
<1>4. CASE PreviewPicCancel(e)
  <2>1. m_state' \in {"PREVIEWING", "PREVIEW_STOPPED"}
    BY <1>4 DEF PreviewPicCancel
  <2>2. channels' = PictureEnded \/ channels' = UnpreparePreview(PictureEnded)
    BY <1>4 DEF PreviewPicCancel
  <2> QED BY <1>2, <2>1, <2>2, UnpreparePreviewProp, NotRecording DEF States
<1>5. CASE PreviewPicStartRecording(e)
  <2>1. CASE Only(e.evt, FALSE)
    BY <2>1, SettingsKeepVideo
  <2>2. CASE \E o \in StartRecording(channels, par) :
               channels' = o.ch /\ m_state' = IF o.ok THEN "VIDEO_PIC_TAKING" ELSE m_state
    BY <1>1, <2>2, StartRecordingProp DEF VideoInv, VideoRunsWhileRecording, States, NoVideo
  <2> QED BY <1>5, <2>1, <2>2 DEF PreviewPicStartRecording
<1>6. CASE PreviewPicPrepareSnapshot(e)
  <2>1. Only(e.evt, FALSE) \/ UNCHANGED <<smVars, channels>>
    BY <1>6 DEF PreviewPicPrepareSnapshot
  <2> QED BY <2>1, SettingsKeepVideo, Untouched
<1>7. CASE PreviewPicOther(e) \/ PreviewPicRetro(e)
  BY <1>7, SettingsKeepVideo DEF PreviewPicOther, PreviewPicRetro
<1>8. CASE PreviewPicSnapshotDone(e)
  BY <1>2, <1>8, NotRecording DEF PreviewPicSnapshotDone, States
<1> QED BY <1>3, <1>4, <1>5, <1>6, <1>7, <1>8, SettingsKeepVideo DEF ProcEvtPreviewPicTakingState

\* The live snapshot thread starts or leaves the SNAPSHOT channel.
LEMMA LiveSnapshotStep ==
    ASSUME VideoInv, LiveSnapshot
    PROVE  VideoInv'
<1>1. m_state' = m_state
  BY DEF LiveSnapshot, smVars
<1>2. channels' = channels \/ \E o \in StartChannel(channels, "SNAPSHOT") : channels' = o.ch
  BY DEF LiveSnapshot
<1>3. channels' \in ChannelsType /\ channels'["VIDEO"] = channels["VIDEO"]
  BY <1>2, StartChannelProp DEF VideoInv, Channels
<1> QED BY <1>1, <1>3 DEF VideoInv, VideoRunsWhileRecording

\* Every event, handled in whichever state, keeps the invariant.
LEMMA StateMachineStep ==
    ASSUME VideoInv, NEW e, StateMachine(e)
    PROVE  VideoInv'
BY StoppedStep, ReadyStep, PreviewingStep, PrepareSnapshotStep, PicTakingStep, RecordingStep,
   VideoPicStep, PreviewPicStep DEF StateMachine

\* The video channel runs in exactly the two recording states, whatever the
\* framework sets and calls, whatever the daemon refuses and in whichever order
\* the other threads' events arrive.
THEOREM VideoAsStated == ESpec => []VideoRunsWhileRecording
<1>1. EInit => VideoInv
  BY DEF EInit, Init, VideoInv, VideoRunsWhileRecording, States, Channels, ChannelsType
<1>2. VideoInv /\ [ENext]_evVars => VideoInv'
  <2> SUFFICES ASSUME VideoInv, [ENext]_evVars PROVE VideoInv'
    OBVIOUS
  <2>1. CASE Command \/ Deliver
    BY <2>1, StateMachineStep DEF Command, Deliver
  <2>2. CASE Live
    BY <2>2, LiveSnapshotStep DEF Live
  <2>3. CASE LastFrame \/ LastJpeg \/ PrepDone
    BY <2>3, Untouched DEF LastFrame, LastJpeg, PrepDone
  <2>4. CASE UNCHANGED evVars
    BY <2>4, Untouched DEF evVars, vars, hwVars
  <2> QED BY <2>1, <2>2, <2>3, <2>4 DEF ENext
<1>3. VideoInv => VideoRunsWhileRecording
  BY DEF VideoInv
<1> QED BY <1>1, <1>2, <1>3, PTL DEF ESpec

-----------------------------------------------------------------------------
(* The delay of preview messages.  As stated the property is inductive, once *)
(* nothing but the framework is known to switch the messages off.            *)

FramesOn == frameMsg \/ (m_bDelayPreviewMsgs /\ m_DelayedMsgs)

FramesInv ==
    /\ "DISABLE_MSG_TYPE" \notin pending
    /\ WantedFramesComeBack

\* What the handling of event "evt" has to guarantee.
FramesKept(evt) ==
    /\ "DISABLE_MSG_TYPE" \notin out'.posted
    /\ <<"ENABLE_MSG_TYPE", TRUE>> \in out'.api => FramesOn'
    /\ \/ FramesOn => FramesOn'
       \/ evt = "DISABLE_MSG_TYPE" /\ <<"DISABLE_MSG_TYPE", TRUE>> \in out'.api

\* A step that signals nothing about the messages ...
NoWord ==
    /\ "DISABLE_MSG_TYPE" \notin out'.posted
    /\ <<"ENABLE_MSG_TYPE", TRUE>> \notin out'.api

\* ... and one that leaves the delay alone, ends it or begins it.
DelayMoves ==
    \/ UNCHANGED msgVars
    \/ ApplyDelayedMsgs
    \/ /\ UNCHANGED <<m_DelayedMsgs, frameMsg>>
       /\ m_bDelayPreviewMsgs => m_bDelayPreviewMsgs'

\* What was on, or recorded as delayed, is so after any of these.
LEMMA DelayMovesKeep ==
    ASSUME NoWord, DelayMoves, NEW evt
    PROVE  FramesKept(evt)
<1>1. FramesOn => FramesOn'
  <2>1. CASE UNCHANGED msgVars
    BY <2>1 DEF msgVars, FramesOn
  <2>2. CASE ApplyDelayedMsgs
    <3>1. FramesOn => frameMsg'
      BY <2>2 DEF ApplyDelayedMsgs, FramesOn
    <3> QED BY <3>1 DEF FramesOn
  <2>3. CASE UNCHANGED <<m_DelayedMsgs, frameMsg>> /\ (m_bDelayPreviewMsgs => m_bDelayPreviewMsgs')
    BY <2>3 DEF FramesOn
  <2> QED BY <2>1, <2>2, <2>3 DEF DelayMoves
<1> QED BY <1>1 DEF NoWord, FramesKept

\* applyDelayedMsgs is called or not, depending on how far a restart came.
LEMMA ApplyIfMoves ==
    ASSUME NEW done, ApplyDelayedMsgsIf(done)
    PROVE  DelayMoves
BY DEF ApplyDelayedMsgsIf, DelayMoves

\* An answer to anything but an enableMsgType says nothing about the messages.
LEMMA AnswerProp ==
    ASSUME NEW evt, NEW ok, Answer(evt, ok)
    PROVE  /\ out'.posted = {}
           /\ out'.api = {<<evt, ok>>}
           /\ evt # "ENABLE_MSG_TYPE" => NoWord
BY DEF Answer, NoOutput, NoWord

\* Nor does silence.
LEMMA SilentProp ==
    ASSUME Silent PROVE NoWord
BY DEF Silent, NoOutput, NoWord

\* enableMsgType and disableMsgType do what they answer.
LEMMA SetFrameMsgKeeps ==
    ASSUME NEW e, SetFrameMsg(e)
    PROVE  FramesKept(e.evt)
<1>1. out'.posted = {} /\ out'.api = {<<e.evt, TRUE>>}
  BY AnswerProp DEF SetFrameMsg
<1>2. CASE e.evt = "ENABLE_MSG_TYPE"
  <2>1. frameMsg' = TRUE
    BY <1>2 DEF SetFrameMsg
  <2> QED BY <1>1, <1>2, <2>1 DEF FramesKept, FramesOn
<1>3. CASE e.evt = "DISABLE_MSG_TYPE"
  BY <1>1, <1>3 DEF FramesKept
<1> QED BY <1>2, <1>3 DEF SetFrameMsg

\* A handler that answers its event once and only moves the delay.
LEMMA AnsweredKeeps ==
    ASSUME NEW evt, evt # "ENABLE_MSG_TYPE", \E ok : Answer(evt, ok), DelayMoves
    PROVE  FramesKept(evt)
BY AnswerProp, DelayMovesKeep

\* The simple steps: answer or refuse an event, ignore it, tell its poster.
LEMMA SimpleKeeps ==
    ASSUME NEW e,
           \/ \E ok : Only(e.evt, ok) /\ e.evt # "ENABLE_MSG_TYPE"
           \/ Only(e.evt, FALSE)
           \/ \E S : NotForThisState(e, S)
           \/ SnapshotDoneIgnored(e)
    PROVE  FramesKept(e.evt)
<1>1. CASE \E ok : Only(e.evt, ok) /\ e.evt # "ENABLE_MSG_TYPE"
  BY <1>1, AnsweredKeeps DEF Only, DelayMoves
<1>2. CASE Only(e.evt, FALSE)
  <2>1. out'.posted = {} /\ out'.api = {<<e.evt, FALSE>>}
    BY <1>2, AnswerProp DEF Only
  <2>2. NoWord
    BY <2>1 DEF NoWord
  <2> QED BY <1>2, <2>2, DelayMovesKeep DEF Only, DelayMoves
<1>3. CASE \E S : NotForThisState(e, S)
  BY <1>3, SilentProp, DelayMovesKeep DEF NotForThisState, Ignore, DelayMoves
<1>4. CASE SnapshotDoneIgnored(e)
  <2>1. NoWord
    BY <1>4 DEF SnapshotDoneIgnored, NoOutput, NoWord
  <2> QED BY <1>4, <2>1, DelayMovesKeep DEF SnapshotDoneIgnored, DelayMoves
<1> QED BY <1>1, <1>2, <1>3, <1>4

\* Parameters and longshot do not touch the messages, but where preview is
\* restarted the delay ends.
LEMMA SettingsKeepFrames ==
    ASSUME NEW e,
           \/ e.evt = "SET_PARAMS" /\ UpdateAndCommit(e)
           \/ e.evt = "LONGSHOT_ON" /\ LongshotOn(e)
           \/ e.evt = "LONGSHOT_OFF" /\ LongshotOff(e)
           \/ BurstTakePicture(e)
           \/ \E onFail : PreviewRestart(e, onFail)
    PROVE  FramesKept(e.evt)
<1>1. CASE (e.evt = "SET_PARAMS" /\ UpdateAndCommit(e)) \/ (e.evt = "LONGSHOT_ON" /\ LongshotOn(e))
  BY <1>1, AnsweredKeeps DEF UpdateAndCommit, LongshotOn, DelayMoves
<1>2. CASE e.evt = "LONGSHOT_OFF" /\ LongshotOff(e)
  <2>1. NoWord
    BY <1>2 DEF LongshotOff, NoOutput, NoWord
  <2> QED BY <1>2, <2>1, DelayMovesKeep DEF LongshotOff, DelayMoves
<1>3. CASE BurstTakePicture(e)
  BY <1>3, AnsweredKeeps DEF BurstTakePicture, DelayMoves
<1>4. CASE \E onFail : PreviewRestart(e, onFail)
  <2>1. /\ e.evt = "SET_PARAMS"
        /\ \E ok : Answer(e.evt, ok)
        /\ UNCHANGED msgVars \/ \E done : ApplyDelayedMsgsIf(done)
    BY <1>4 DEF PreviewRestart
  <2> QED BY <2>1, ApplyIfMoves, AnsweredKeeps DEF DelayMoves
<1> QED BY <1>1, <1>2, <1>3, <1>4

\* procEvtPreviewStoppedState keeps them: a start of preview ends the delay.
LEMMA StoppedKeepsFrames ==
    ASSUME NEW e, ProcEvtPreviewStoppedState(e)
    PROVE  FramesKept(e.evt)
<1>1. CASE StoppedStartPreview(e)
  <2>1. /\ e.evt # "ENABLE_MSG_TYPE"
        /\ \E ok : Answer(e.evt, ok)
        /\ UNCHANGED msgVars \/ \E done : ApplyDelayedMsgsIf(done)
    BY <1>1 DEF StoppedStartPreview
  <2> QED BY <2>1, ApplyIfMoves, AnsweredKeeps DEF DelayMoves
<1>2. CASE StoppedSettings(e)
  <2>1. CASE e.evt = "SET_PREVIEW_WINDOW" /\ Answer(e.evt, TRUE) /\ UNCHANGED msgVars
    BY <2>1, AnsweredKeeps DEF DelayMoves
  <2> QED BY <1>2, <2>1, SetFrameMsgKeeps, SettingsKeepFrames DEF StoppedSettings
<1>3. CASE StoppedRelease(e)
  BY <1>3, AnsweredKeeps DEF StoppedRelease, DelayMoves
<1>4. CASE StoppedOther(e)
  BY <1>4, SimpleKeeps DEF StoppedOther, Queries
<1> QED BY <1>1, <1>2, <1>3, <1>4, SimpleKeeps DEF ProcEvtPreviewStoppedState

\* procEvtPreviewReadyState: so does the window that starts preview.
LEMMA ReadyKeepsFrames ==
    ASSUME NEW e, ProcEvtPreviewReadyState(e)
    PROVE  FramesKept(e.evt)
<1>1. CASE ReadySetPreviewWindow(e) \/ ReadyRestart(e) \/ ReadyStopPreview(e)
  <2>1. /\ e.evt # "ENABLE_MSG_TYPE"
        /\ \E ok : Answer(e.evt, ok)
        /\ UNCHANGED msgVars \/ ApplyDelayedMsgs
    BY <1>1 DEF ReadySetPreviewWindow, ReadyRestart, ReadyStopPreview
  <2> QED BY <2>1, AnsweredKeeps DEF DelayMoves
<1>2. CASE ReadySettings(e)
  BY <1>2, SetFrameMsgKeeps, SettingsKeepFrames DEF ReadySettings
<1>3. CASE ReadyOther(e)
  BY <1>3, SimpleKeeps DEF ReadyOther, Queries
<1> QED BY <1>1, <1>2, <1>3, SimpleKeeps DEF ProcEvtPreviewReadyState

\* While messages are delayed, enabling them is recorded and disabling them
\* drops the record: the word given is kept either way.
LEMMA PreviewingFrameMsgKeeps ==
    ASSUME NEW e, PreviewingFrameMsg(e)
    PROVE  FramesKept(e.evt)
<1>1. CASE /\ e.evt = "ENABLE_MSG_TYPE" /\ m_bDelayPreviewMsgs
           /\ m_DelayedMsgs' = TRUE
           /\ Answer(e.evt, TRUE)
           /\ UNCHANGED m_bDelayPreviewMsgs
  <2>1. out'.posted = {}
    BY <1>1, AnswerProp
  <2>2. FramesOn'
    BY <1>1 DEF FramesOn
  <2> QED BY <2>1, <2>2 DEF FramesKept
<1>2. CASE e.evt = "DISABLE_MSG_TYPE" /\ Answer(e.evt, TRUE)
  <2>1. out'.posted = {} /\ out'.api = {<<"DISABLE_MSG_TYPE", TRUE>>}
    BY <1>2, AnswerProp
  <2> QED BY <1>2, <2>1 DEF FramesKept
<1>3. CASE SetFrameMsg(e)
  BY <1>3, SetFrameMsgKeeps
<1> QED BY <1>1, <1>2, <1>3 DEF PreviewingFrameMsg

\* procEvtPreviewingState: a picture begins the delay; what ends it applies it.
LEMMA PreviewingKeepsFrames ==
    ASSUME NEW e, ProcEvtPreviewingState(e)
    PROVE  FramesKept(e.evt)
<1>1. CASE PreviewingSettings(e)
  <2>1. CASE PreviewingLongshotOn(e)
    <3>1. CASE \E ok, done : Answer(e.evt, ok) /\ ApplyDelayedMsgsIf(done)
      BY <2>1, <3>1, ApplyIfMoves, AnsweredKeeps DEF PreviewingLongshotOn
    <3> QED BY <2>1, <3>1, SettingsKeepFrames DEF PreviewingLongshotOn
  <2> QED BY <1>1, <2>1, PreviewingFrameMsgKeeps, SettingsKeepFrames DEF PreviewingSettings
<1>2. CASE PreviewingStartPreview(e) \/ PreviewingStopPreview(e)
  <2>1. e.evt # "ENABLE_MSG_TYPE" /\ Answer(e.evt, TRUE) /\ ApplyDelayedMsgs
    BY <1>2 DEF PreviewingStartPreview, PreviewingStopPreview
  <2> QED BY <2>1, AnsweredKeeps DEF DelayMoves
<1>3. CASE PreviewingStartRecording(e)
  <2>1. e.evt # "ENABLE_MSG_TYPE" /\ \E ok, done : Answer(e.evt, ok) /\ ApplyDelayedMsgsIf(done)
    BY <1>3 DEF PreviewingStartRecording
  <2> QED BY <2>1, ApplyIfMoves, AnsweredKeeps
<1>4. CASE PreviewingPrepareSnapshot(e)
  <2>1. CASE ApplyDelayedMsgs /\ Silent
    BY <2>1, SilentProp, DelayMovesKeep DEF DelayMoves
  <2>2. CASE Only(e.evt, FALSE)
    BY <2>2, SimpleKeeps
  <2> QED BY <1>4, <2>1, <2>2 DEF PreviewingPrepareSnapshot
<1>5. CASE PreviewingTakePicture(e)
  <2>1. DelayMoves
    BY <1>5 DEF PreviewingTakePicture, DelayMoves
  <2>2. e.evt = "TAKE_PICTURE" /\ (Silent \/ \E ok : Answer(e.evt, ok))
    BY <1>5 DEF PreviewingTakePicture
  <2> QED BY <2>1, <2>2, SilentProp, DelayMovesKeep, AnsweredKeeps
<1>6. CASE PreviewingLiveSnapshot(e)
  BY <1>6, AnsweredKeeps DEF PreviewingLiveSnapshot, TakeLiveSnapshot, DelayMoves
<1>7. CASE PreviewingOther(e)
  BY <1>7, SimpleKeeps DEF PreviewingOther, Queries
<1> QED BY <1>1, <1>2, <1>3, <1>4, <1>5, <1>6, <1>7, SimpleKeeps DEF ProcEvtPreviewingState

\* procEvtPrepareSnapshotState refuses every word, and keeps what it has.
LEMMA PrepareSnapshotKeepsFrames ==
    ASSUME NEW e, ProcEvtPrepareSnapshotState(e)
    PROVE  FramesKept(e.evt)
<1>1. CASE PreparingDone(e)
  <2>1. NoWord
    BY <1>1 DEF PreparingDone, Answer, NoOutput, NoWord
  <2> QED BY <1>1, <2>1, DelayMovesKeep DEF PreparingDone, DelayMoves
<1> QED BY <1>1, SimpleKeeps DEF ProcEvtPrepareSnapshotState, PreparingApi

\* procEvtPicTakingState: the early restart of preview applies the delay.
LEMMA PicTakingKeepsFrames ==
    ASSUME NEW e, ProcEvtPicTakingState(e)
    PROVE  FramesKept(e.evt)
<1>1. CASE PicSettings(e)
  BY <1>1, SetFrameMsgKeeps, SettingsKeepFrames DEF PicSettings
<1>2. CASE PicCancel(e)
  BY <1>2, AnsweredKeeps DEF PicCancel, DelayMoves
<1>3. CASE PicOther(e)
  BY <1>3, SimpleKeeps DEF PicOther, Queries
<1>4. CASE PicDaemonDied(e)
  <2>1. NoWord
    BY <1>4 DEF PicDaemonDied, NoOutput, NoWord
  <2> QED BY <1>4, <2>1, DelayMovesKeep DEF PicDaemonDied, DelayMoves
<1>5. CASE PicStopCaptureChannel(e)
  <2>1. /\ e.evt = "STOP_CAPTURE_CHANNEL"
        /\ \E ok : Answer(e.evt, ok)
        /\ UNCHANGED msgVars \/ ApplyDelayedMsgs
    BY <1>5 DEF PicStopCaptureChannel
  <2> QED BY <2>1, AnsweredKeeps DEF DelayMoves
<1>6. CASE PicSnapshotDone(e)
  <2>1. NoWord
    BY <1>6 DEF PicSnapshotDone, NoOutput, NoWord
  <2> QED BY <1>6, <2>1, DelayMovesKeep DEF PicSnapshotDone, DelayMoves
<1> QED BY <1>1, <1>2, <1>3, <1>4, <1>5, <1>6, SettingsKeepFrames, SimpleKeeps DEF ProcEvtPicTakingState

\* RECORDING and VIDEO_PIC_TAKING share the handlers of the settings.
LEMMA RecordingSettingsKeepFrames ==
    ASSUME NEW e, RecordingSettings(e)
    PROVE  FramesKept(e.evt)
<1>1. CASE RecordingSetParams(e)
  <2>1. CASE UpdateAndCommit(e)
    BY <1>1, <2>1, SettingsKeepFrames DEF RecordingSetParams
  <2>2. CASE Answer(e.evt, FALSE) /\ UNCHANGED msgVars
    BY <1>1, <2>2, AnsweredKeeps DEF RecordingSetParams, DelayMoves
  <2> QED BY <1>1, <2>1, <2>2 DEF RecordingSetParams
<1> QED BY <1>1, SetFrameMsgKeeps, SettingsKeepFrames DEF RecordingSettings

\* procEvtRecordingState moves nothing but by enableMsgType and disableMsgType.
LEMMA RecordingKeepsFrames ==
    ASSUME NEW e, ProcEvtRecordingState(e)
    PROVE  FramesKept(e.evt)
<1>1. CASE RecordingTakePicture(e)
  BY <1>1, AnsweredKeeps DEF RecordingTakePicture, TakeLiveSnapshot, DelayMoves
<1>2. CASE RecordingStop(e)
  BY <1>2, AnsweredKeeps DEF RecordingStop, DelayMoves
<1>3. CASE RecordingOther(e)
  BY <1>3, SimpleKeeps DEF RecordingOther, Queries
<1> QED BY <1>1, <1>2, <1>3, RecordingSettingsKeepFrames, SimpleKeeps DEF ProcEvtRecordingState

\* Nor does procEvtVideoPicTakingState.
LEMMA VideoPicKeepsFrames ==
    ASSUME NEW e, ProcEvtVideoPicTakingState(e)
    PROVE  FramesKept(e.evt)
<1>1. CASE VideoPicStop(e)
  BY <1>1, AnsweredKeeps DEF VideoPicStop, DelayMoves
<1>2. CASE VideoPicOther(e)
  BY <1>2, SimpleKeeps DEF VideoPicOther, Queries
<1>3. CASE VideoPicSnapshotDone(e)
  <2>1. NoWord
    BY <1>3 DEF VideoPicSnapshotDone, NoOutput, NoWord
  <2> QED BY <1>3, <2>1, DelayMovesKeep DEF VideoPicSnapshotDone, DelayMoves
<1> QED BY <1>1, <1>2, <1>3, RecordingSettingsKeepFrames, SimpleKeeps DEF ProcEvtVideoPicTakingState

\* procEvtPreviewPicTakingState: a restart of preview applies the delay.
LEMMA PreviewPicKeepsFrames ==
    ASSUME NEW e, ProcEvtPreviewPicTakingState(e)
    PROVE  FramesKept(e.evt)
<1>1. CASE PreviewPicSettings(e)
  BY <1>1, SetFrameMsgKeeps, SettingsKeepFrames DEF PreviewPicSettings
<1>2. CASE PreviewPicCancel(e)
  BY <1>2, AnsweredKeeps DEF PreviewPicCancel, DelayMoves
<1>3. CASE PreviewPicStartRecording(e)
  <2>1. CASE Only(e.evt, FALSE)
    BY <2>1, SimpleKeeps
  <2>2. CASE (\E ok : Answer(e.evt, ok)) /\ UNCHANGED msgVars
    BY <1>3, <2>2, AnsweredKeeps DEF PreviewPicStartRecording, DelayMoves
  <2> QED BY <1>3, <2>1, <2>2 DEF PreviewPicStartRecording
<1>4. CASE PreviewPicPrepareSnapshot(e)
  <2>1. CASE Only(e.evt, FALSE)
    BY <2>1, SimpleKeeps
  <2>2. CASE Silent /\ UNCHANGED msgVars
    BY <2>2, SilentProp, DelayMovesKeep DEF DelayMoves
  <2> QED BY <1>4, <2>1, <2>2 DEF PreviewPicPrepareSnapshot
<1>5. CASE PreviewPicOther(e)
  BY <1>5, SimpleKeeps DEF PreviewPicOther, Queries
<1>6. CASE PreviewPicRetro(e)
  <2>1. CASE Only("PREPARE_SNAPSHOT", TRUE) \/ Only("TAKE_PICTURE", TRUE)
    <3>1. NoWord
      <4>1. \E evt \in {"PREPARE_SNAPSHOT", "TAKE_PICTURE"}, ok \in {TRUE} : Answer(evt, ok)
        BY <2>1 DEF Only
      <4> QED BY <4>1, AnswerProp
    <3> QED BY <2>1, <3>1, DelayMovesKeep DEF Only, DelayMoves
  <2> QED BY <1>6, <2>1, SimpleKeeps DEF PreviewPicRetro
<1>7. CASE PreviewPicSnapshotDone(e)
  <2>1. NoWord
    BY <1>7 DEF PreviewPicSnapshotDone, NoOutput, NoWord
  <2> QED BY <1>7, <2>1, DelayMovesKeep DEF PreviewPicSnapshotDone, DelayMoves
<1> QED BY <1>1, <1>2, <1>3, <1>4, <1>5, <1>6, <1>7, SettingsKeepFrames, SimpleKeeps
        DEF ProcEvtPreviewPicTakingState

\* CAMERA_MSG_PREVIEW_FRAME, once the HAL has accepted it, is on or recorded as
\* delayed until the framework takes it back: no picture, restart, recording or
\* failure loses it, in whichever order the other threads' events arrive.
THEOREM FramesAsWanted == ESpec => []WantedFramesComeBack
<1>1. EInit => FramesInv
  BY DEF EInit, FramesInv, WantedFramesComeBack
<1>2. FramesInv /\ [ENext]_evVars => FramesInv'
  <2> SUFFICES ASSUME FramesInv, [ENext]_evVars PROVE FramesInv'
    OBVIOUS
  <2>1. ASSUME NEW e, StateMachine(e) PROVE FramesKept(e.evt)
    BY <2>1, StoppedKeepsFrames, ReadyKeepsFrames, PreviewingKeepsFrames, PrepareSnapshotKeepsFrames,
       PicTakingKeepsFrames, RecordingKeepsFrames, VideoPicKeepsFrames, PreviewPicKeepsFrames
       DEF StateMachine
  <2>2. CASE Command
    <3>1. PICK evt \in Commands : \E arg \in Arguments(evt) :
              /\ StateMachine(Event(evt, arg))
              /\ Post(out'.posted)
              /\ wanted' = IF <<"ENABLE_MSG_TYPE", TRUE>> \in out'.api THEN TRUE
                           ELSE wanted /\ <<"DISABLE_MSG_TYPE", TRUE>> \notin out'.api
      BY <2>2 DEF Command
    <3>2. \E arg : FramesKept(Event(evt, arg).evt)
      BY <2>1, <3>1
    <3>3. FramesKept(evt)
      BY <3>2 DEF Event
    <3>4. "DISABLE_MSG_TYPE" \notin pending'
      BY <3>1, <3>3 DEF Post, FramesKept, FramesInv
    <3>5. CASE <<"ENABLE_MSG_TYPE", TRUE>> \in out'.api
      BY <3>3, <3>4, <3>5 DEF FramesKept, FramesOn, FramesInv, WantedFramesComeBack
    <3>6. CASE <<"ENABLE_MSG_TYPE", TRUE>> \notin out'.api
      <4>1. wanted' => wanted /\ <<"DISABLE_MSG_TYPE", TRUE>> \notin out'.api
        BY <3>1, <3>6
      <4> QED BY <3>3, <3>4, <4>1 DEF FramesKept, FramesOn, FramesInv, WantedFramesComeBack
    <3> QED BY <3>5, <3>6
  <2>3. CASE Deliver
    <3>1. PICK evt \in pending : /\ StateMachine(Event(evt, TRUE))
                                 /\ pending' = (pending \ {evt}) \cup out'.posted
                                 /\ UNCHANGED wanted
      BY <2>3 DEF Deliver
    <3>2. FramesKept(Event(evt, TRUE).evt)
      BY <2>1, <3>1
    <3>3. FramesKept(evt) /\ evt # "DISABLE_MSG_TYPE"
      BY <3>1, <3>2 DEF Event, FramesInv
    <3> QED BY <3>1, <3>3 DEF FramesKept, FramesOn, FramesInv, WantedFramesComeBack
  <2>4. CASE Live
    <3>1. "DISABLE_MSG_TYPE" \notin out'.posted
      <4>1. out' = [NoOutput EXCEPT !.posted = {}] \/ out' = [NoOutput EXCEPT !.posted = {"CANCEL_PICTURE"}] \/ Silent
        BY <2>4 DEF Live, LiveSnapshot
      <4> QED BY <4>1 DEF NoOutput, Silent
    <3>2. UNCHANGED <<msgVars, wanted>>
      BY <2>4 DEF Live, LiveSnapshot
    <3> QED BY <2>4, <3>1, <3>2 DEF Live, Post, msgVars, FramesInv, WantedFramesComeBack
  <2>5. CASE LastFrame \/ LastJpeg \/ PrepDone
    BY <2>5 DEF LastFrame, LastJpeg, PrepDone, Post, msgVars, FramesInv, WantedFramesComeBack
  <2>6. CASE UNCHANGED evVars
    BY <2>6 DEF evVars, vars, msgVars, FramesInv, WantedFramesComeBack
  <2> QED BY <2>2, <2>3, <2>4, <2>5, <2>6 DEF ENext
<1>3. FramesInv => WantedFramesComeBack
  BY DEF FramesInv
<1> QED BY <1>1, <1>2, <1>3, PTL DEF ESpec

-----------------------------------------------------------------------------
(* The preview paths, with any call into the daemon failing.  Which preview *)
(* channels exist fits the committed parameters, and while preview is       *)
(* stopped or given up for a picture none exists.  SET_PARAMS is left out:  *)
(* RECORDING refuses a change that needs a restart but keeps it staged, and *)
(* the next commit puts it into effect under the running preview.           *)

Fits(ch, p) ==
    /\ ch["ZSL"] # "absent" => ZslPreview(p)
    /\ ch["PREVIEW"] # "absent" => ~ZslPreview(p)
    /\ ch["VIDEO"] # "absent" \/ ch["SNAPSHOT"] # "absent" => p.hint

NoPreview(ch) == \A k \in PreviewFamily : ch[k] = "absent"

PathsFit ==
    /\ m_state \in States
    /\ channels \in ChannelsType
    /\ Fits(channels, par)
    /\ m_state \in {"PREVIEW_STOPPED", "PIC_TAKING"} => NoPreview(channels)

\* Most operations bring up no preview channel that did not exist.
AddsNone(ch, c) ==
    /\ c \in ChannelsType
    /\ \A k \in PreviewFamily : ch[k] = "absent" => c[k] = "absent"

LEMMA AddsNoneFits ==
    ASSUME NEW ch, NEW c, AddsNone(ch, c)
    PROVE  /\ \A p : Fits(ch, p) => Fits(c, p)
           /\ NoPreview(ch) => NoPreview(c)
BY DEF AddsNone, Fits, NoPreview, PreviewFamily

LEMMA AddsNoneTwice ==
    ASSUME NEW ch, NEW b, NEW c, AddsNone(ch, b), AddsNone(b, c)
    PROVE  AddsNone(ch, c)
BY DEF AddsNone

LEMMA DeletesAddNone ==
    ASSUME NEW ch \in ChannelsType, NEW ks
    PROVE  AddsNone(ch, DelChannels(ch, ks))
BY DelChannelsProp DEF AddsNone, PreviewFamily, Channels, DelChannels

LEMMA StopsAddNone ==
    ASSUME NEW ch \in ChannelsType, NEW ks
    PROVE  AddsNone(ch, StopChannels(ch, ks))
BY StopChannelsProp DEF AddsNone, PreviewFamily, Channels, StopChannels

\* startChannel is refused for a channel that does not exist.
LEMMA StartsAddNone ==
    ASSUME NEW ch \in ChannelsType, NEW k \in Channels, NEW o \in StartChannel(ch, k)
    PROVE  AddsNone(ch, o.ch)
<1>1. CASE ch[k] = "absent"
  <2>1. o = Outcome(FALSE, ch)
    BY <1>1 DEF StartChannel
  <2> QED BY ZenonT(60), <2>1, OutcomeProp DEF AddsNone
<1>2. CASE ch[k] # "absent"
  BY <1>2, StartChannelProp DEF AddsNone, PreviewFamily, Channels
<1> QED BY <1>1, <1>2

LEMMA CancelAddsNone ==
    ASSUME NEW ch \in ChannelsType, NEW p
    PROVE  AddsNone(ch, CancelPicture(ch, p))
<1>1. AddsNone(ch, ch)
  BY DEF AddsNone
<1> QED BY <1>1, DeletesAddNone DEF CancelPicture

\* takePicture touches no preview channel but the one it deletes.
LEMMA TakePictureAddsNone ==
    ASSUME NEW ch \in ChannelsType, NEW p, NEW longshot, NEW o \in TakePicture(ch, p, longshot)
    PROVE  /\ AddsNone(ch, o.ch)
           /\ ~p.zsl => o.ch["PREVIEW"] = "absent"
<1> DEFINE k == IF p.raw THEN "RAW" ELSE "CAPTURE"
           c == DelChannels(ch, {"PREVIEW"})
<1>1. \/ p.zsl /\ o = Outcome(TRUE, ch)
      \/ p.zsl /\ o = Outcome(FALSE, ch)
      \/ o = Outcome(FALSE, c)
      \/ \E ok \in BOOLEAN, x \in {"absent", "started"} : o = Outcome(ok, [c EXCEPT ![k] = x])
  BY DEF TakePicture, Failing
<1>2. AddsNone(ch, c) /\ c \in ChannelsType /\ c["PREVIEW"] = "absent"
  BY DeletesAddNone, DelChannelsProp DEF Channels
<1>3. k \in Channels /\ k \notin PreviewFamily /\ "PREVIEW" \in PreviewFamily
  BY DEF Channels, PreviewFamily
<1>4. AddsNone(ch, ch)
  BY DEF AddsNone
<1> HIDE DEF k, c
<1>5. ASSUME NEW x \in {"absent", "started"}
      PROVE  /\ [c EXCEPT ![k] = x] \in ChannelsType
             /\ \A j \in PreviewFamily : [c EXCEPT ![k] = x][j] = c[j]
  BY <1>2, <1>3 DEF ChannelsType, PreviewFamily, Channels
<1>6. ASSUME NEW x \in {"absent", "started"}
      PROVE  /\ AddsNone(ch, [c EXCEPT ![k] = x])
             /\ [c EXCEPT ![k] = x]["PREVIEW"] = "absent"
  BY <1>2, <1>3, <1>5 DEF AddsNone
<1>7. \/ p.zsl /\ o.ch = ch
      \/ o.ch = c
      \/ \E x \in {"absent", "started"} : o.ch = [c EXCEPT ![k] = x]
  <2>1. ASSUME NEW ok \in BOOLEAN, NEW x \in {"absent", "started"}, o = Outcome(ok, [c EXCEPT ![k] = x])
        PROVE  o.ch = [c EXCEPT ![k] = x]
    BY <2>1, OutcomeProp
  <2>2. o = Outcome(TRUE, ch) \/ o = Outcome(FALSE, ch) => o.ch = ch
    BY ZenonT(60), OutcomeProp
  <2>3. o = Outcome(FALSE, c) => o.ch = c
    BY OutcomeProp
  <2> QED BY <1>1, <2>1, <2>2, <2>3
<1> QED BY <1>2, <1>4, <1>6, <1>7

\* unpreparePreview and stopPreview leave no preview channel.
LEMMA NoPreviewLeft ==
    ASSUME NEW ch \in ChannelsType
    PROVE  /\ NoPreview(UnpreparePreview(ch))
           /\ NoPreview(StopPreview(ch))
           /\ UnpreparePreview(ch) \in ChannelsType
           /\ StopPreview(ch) \in ChannelsType
<1>1. ASSUME NEW c \in ChannelsType
      PROVE  UnpreparePreview(c) \in ChannelsType /\ NoPreview(UnpreparePreview(c))
  BY DelChannelsProp DEF UnpreparePreview, NoPreview, PreviewFamily, Channels
<1> QED BY <1>1, StopChannelsProp DEF StopPreview

\* Channels that are absent fit any parameters.
LEMMA NoPreviewFits ==
    ASSUME NEW ch, NoPreview(ch), NEW p
    PROVE  Fits(ch, p)
BY DEF NoPreview, Fits, PreviewFamily

\* preparePreview adds what fits; where it fails it adds nothing.
LEMMA PreparePreviewFits ==
    ASSUME NEW ch \in ChannelsType, NEW p, Fits(ch, p), NEW o \in PreparePreview(ch, p)
    PROVE  /\ Fits(o.ch, p)
           /\ ~o.ok => AddsNone(ch, o.ch)
<1> DEFINE ks == IF ZslPreview(p) THEN {"ZSL"}
                 ELSE IF p.hint THEN {"SNAPSHOT", "VIDEO", "PREVIEW"} ELSE {"PREVIEW"}
<1>1. \/ o = Outcome(TRUE, AddChannels(ch, ks))
      \/ o = Outcome(FALSE, ch)
      \/ \E js : o = Outcome(FALSE, DelChannels(ch, js))
  BY DEF PreparePreview, Failing
<1>2. CASE o = Outcome(TRUE, AddChannels(ch, ks))
  <2>1. o.ch = AddChannels(ch, ks) /\ o.ok
    BY <1>2, OutcomeProp
  <2>2. /\ "ZSL" \in Channels /\ "PREVIEW" \in Channels /\ "VIDEO" \in Channels /\ "SNAPSHOT" \in Channels
        /\ "ZSL" \in ks <=> ZslPreview(p)
        /\ "PREVIEW" \in ks <=> ~ZslPreview(p)
        /\ "VIDEO" \in ks \/ "SNAPSHOT" \in ks => p.hint
    BY DEF Channels
  <2> HIDE DEF ks
  <2>3. Fits(AddChannels(ch, ks), p)
    BY <2>2, AddChannelsProp DEF Fits
  <2> QED BY <2>1, <2>3
<1>3. ASSUME NEW c, AddsNone(ch, c), o = Outcome(FALSE, c)
      PROVE  Fits(o.ch, p) /\ ~o.ok /\ AddsNone(ch, o.ch)
  BY <1>3, OutcomeProp, AddsNoneFits
<1>4. AddsNone(ch, ch)
  BY DEF AddsNone
<1>5. ASSUME NEW js PROVE AddsNone(ch, DelChannels(ch, js))
  BY DeletesAddNone
<1> QED BY <1>1, <1>2, <1>3, <1>4, <1>5

\* startPreview starts what preparePreview added.
LEMMA StartPreviewAddsNone ==
    ASSUME NEW ch \in ChannelsType, NEW p, NEW o \in StartPreview(ch, p)
    PROVE  AddsNone(ch, o.ch) /\ o.ch \in ChannelsType
<1>1. (IF ZslPreview(p) THEN "ZSL" ELSE "PREVIEW") \in Channels
  BY DEF Channels
<1>2. AddsNone(ch, o.ch)
  BY <1>1, StartsAddNone DEF StartPreview
<1> QED BY <1>2 DEF AddsNone

\* Preview comes up with what fits, or is taken back.
LEMMA PrepareAndStartFits ==
    ASSUME NEW ch \in ChannelsType, NEW p, Fits(ch, p), NEW o \in PrepareAndStart(ch, p)
    PROVE  /\ o.ch \in ChannelsType
           /\ Fits(o.ch, p)
           /\ ~o.ok /\ NoPreview(ch) => NoPreview(o.ch)
<1>1. CASE \E q \in PreparePreview(ch, p) : ~q.ok /\ o = [ok |-> FALSE, ch |-> q.ch, prepared |-> FALSE]
  <2>1. PICK q \in PreparePreview(ch, p) : ~q.ok /\ o = [ok |-> FALSE, ch |-> q.ch, prepared |-> FALSE]
    BY <1>1
  <2>2. o.ch = q.ch
    BY <2>1
  <2> QED BY <2>1, <2>2, PreparePreviewProp, PreparePreviewFits, AddsNoneFits
<1>2. CASE \E q \in PreparePreview(ch, p) : \E s \in StartPreview(q.ch, p) :
             o = [ok |-> s.ok, prepared |-> TRUE,
                  ch |-> IF s.ok THEN s.ch ELSE UnpreparePreview(s.ch)]
  <2>1. PICK q \in PreparePreview(ch, p) : \E s \in StartPreview(q.ch, p) :
             o = [ok |-> s.ok, prepared |-> TRUE,
                  ch |-> IF s.ok THEN s.ch ELSE UnpreparePreview(s.ch)]
    BY <1>2
  <2>2. PICK s \in StartPreview(q.ch, p) :
             o = [ok |-> s.ok, prepared |-> TRUE,
                  ch |-> IF s.ok THEN s.ch ELSE UnpreparePreview(s.ch)]
    BY <2>1
  <2>3. q.ch \in ChannelsType /\ Fits(q.ch, p)
    BY PreparePreviewProp, PreparePreviewFits
  <2>4. s.ch \in ChannelsType /\ Fits(s.ch, p)
    BY <2>3, StartPreviewAddsNone, AddsNoneFits
  <2>5. o.ok = s.ok /\ o.ch = IF s.ok THEN s.ch ELSE UnpreparePreview(s.ch)
    BY <2>2
  <2>6. CASE s.ok
    BY <2>4, <2>5, <2>6
  <2>7. CASE ~s.ok
    BY <2>4, <2>5, <2>7, NoPreviewLeft, NoPreviewFits
  <2> QED BY <2>6, <2>7
<1> QED BY <1>1, <1>2 DEF PrepareAndStart

\* startRecording: whatever it restarts, and however far it comes, the
\* channels fit the parameters it leaves.
LEMMA StartRecordingFits ==
    ASSUME NEW ch \in ChannelsType, NEW p, Fits(ch, p), NEW o \in StartRecording(ch, p)
    PROVE  o.ch \in ChannelsType /\ Fits(o.ch, o.par)
<1> DEFINE Video(c, q) == {[ok |-> v.ok, ch |-> v.ch, par |-> q] : v \in StartChannel(c, "VIDEO")}
           Stage(r, q) == IF r.ok THEN Video(r.ch, q)
                          ELSE {[ok |-> FALSE, ch |-> r.ch, par |-> q]}
           Done(x) == x.ch \in ChannelsType /\ Fits(x.ch, x.par)
<1>0. "VIDEO" \in Channels /\ "PREVIEW" \in Channels
  BY DEF Channels
<1>1. ASSUME NEW c \in ChannelsType, NEW q, Fits(c, q), NEW x \in Video(c, q) PROVE Done(x)
  <2>1. PICK v \in StartChannel(c, "VIDEO") : x = [ok |-> v.ok, ch |-> v.ch, par |-> q]
    OBVIOUS
  <2>2. x.ch = v.ch /\ x.par = q
    BY <2>1
  <2>3. AddsNone(c, v.ch)
    BY <1>0, StartsAddNone
  <2>4. Fits(v.ch, q)
    BY <1>1, <2>3, AddsNoneFits
  <2> QED BY <2>2, <2>3, <2>4 DEF AddsNone
<1>2. ASSUME NEW r, r.ch \in ChannelsType, NEW q, Fits(r.ch, q), NEW x \in Stage(r, q)
      PROVE  Done(x)
  <2>1. CASE r.ok
    BY <1>1, <1>2, <2>1
  <2>2. CASE ~r.ok
    <3>1. x = [ok |-> FALSE, ch |-> r.ch, par |-> q]
      BY <2>2
    <3>2. x.ch = r.ch /\ x.par = q
      BY <3>1
    <3> QED BY <1>2, <3>2
  <2> QED BY <2>1, <2>2
<1>3. CASE p.hint
  BY <1>1, <1>3 DEF StartRecording
<1>4. CASE ~p.hint
  <2>0. PICK q : \E r \in PreparePreview(StopPreview(ch), q) :
            o \in IF r.ok THEN UNION {Stage(s, q) : s \in StartChannel(r.ch, "PREVIEW")}
                  ELSE Stage(r, q)
    BY <1>4 DEF StartRecording
  <2>1. PICK r \in PreparePreview(StopPreview(ch), q) :
            o \in IF r.ok THEN UNION {Stage(s, q) : s \in StartChannel(r.ch, "PREVIEW")}
                  ELSE Stage(r, q)
    BY <2>0
  <2>2. StopPreview(ch) \in ChannelsType /\ Fits(StopPreview(ch), q)
    BY NoPreviewLeft, NoPreviewFits
  <2>3. r.ch \in ChannelsType /\ Fits(r.ch, q)
    BY <2>2, PreparePreviewProp, PreparePreviewFits
  <2>4. CASE r.ok
    <3>1. PICK s \in StartChannel(r.ch, "PREVIEW") : o \in Stage(s, q)
      BY <2>1, <2>4
    <3>2. AddsNone(r.ch, s.ch)
      BY <1>0, <2>3, StartsAddNone
    <3>3. s.ch \in ChannelsType /\ Fits(s.ch, q)
      BY <2>3, <3>2, AddsNoneFits DEF AddsNone
    <3> QED BY <1>2, <3>1, <3>3
  <2>5. CASE ~r.ok
    BY <1>2, <2>1, <2>3, <2>5
  <2> QED BY <2>4, <2>5
<1> QED BY <1>3, <1>4

\* Handlers that add no preview channel, within a state ...
LEMMA FewerInState ==
    ASSUME PathsFit, UNCHANGED <<m_state, par>>, AddsNone(channels, channels')
    PROVE  PathsFit'
BY AddsNoneFits DEF PathsFit, AddsNone

\* ... and on the way to a state in which preview may run.
LEMMA FewerInPreview ==
    ASSUME PathsFit, UNCHANGED par, AddsNone(channels, channels'),
           m_state' \in States \ {"PREVIEW_STOPPED", "PIC_TAKING"}
    PROVE  PathsFit'
BY AddsNoneFits DEF PathsFit, AddsNone

\* Handlers that leave no preview channel may enter any state.
LEMMA NoneLeft ==
    ASSUME channels' \in ChannelsType, NoPreview(channels'), m_state' \in States
    PROVE  PathsFit'
BY NoPreviewFits DEF PathsFit

LEMMA PathsUntouched ==
    ASSUME PathsFit, UNCHANGED <<m_state, channels, par>>
    PROVE  PathsFit'
BY DEF PathsFit

\* The handlers of messages, queries and refusals touch none of the three.
LEMMA SettingsKeepPaths ==
    ASSUME PathsFit, NEW e,
           SetFrameMsg(e) \/ LongshotOn(e) \/ SnapshotDoneIgnored(e)
           \/ PreviewingFrameMsg(e) \/ (\E S : NotForThisState(e, S)) \/ (\E evt, ok : Only(evt, ok))
           \/ BurstTakePicture(e)
    PROVE  PathsFit'
<1>1. UNCHANGED <<smVars, channels, par>>
  BY DEF SetFrameMsg, LongshotOn, SnapshotDoneIgnored, PreviewingFrameMsg,
         NotForThisState, Ignore, Only, BurstTakePicture, hwVars, confVars
<1> QED BY <1>1, PathsUntouched DEF smVars

LEMMA LongshotOffAddsNone ==
    ASSUME channels \in ChannelsType, NEW e, LongshotOff(e)
    PROVE  AddsNone(channels, channels') /\ par' = par
<1>1. AddsNone(channels, channels)
  BY DEF AddsNone
<1> QED BY <1>1, CancelAddsNone DEF LongshotOff

\* procEvtPreviewStoppedState keeps them.
LEMMA StoppedKeepsPaths ==
    ASSUME PathsFit, m_state = "PREVIEW_STOPPED", NEW e, e.evt # "SET_PARAMS",
           ProcEvtPreviewStoppedState(e)
    PROVE  PathsFit'
<1>1. channels \in ChannelsType /\ NoPreview(channels) /\ Fits(channels, par)
  BY DEF PathsFit
<1>2. CASE StoppedStartPreview(e)
  <2>1. par' = par
    BY <1>2 DEF StoppedStartPreview, confVars
  <2>2. CASE \E o \in PreparePreview(channels, par) :
               channels' = o.ch /\ m_state' = IF o.ok THEN "PREVIEW_READY" ELSE m_state
    <3>1. PICK o \in PreparePreview(channels, par) :
               channels' = o.ch /\ m_state' = IF o.ok THEN "PREVIEW_READY" ELSE m_state
      BY <2>2
    <3>2. o.ch \in ChannelsType /\ Fits(o.ch, par) /\ (~o.ok => NoPreview(o.ch))
      BY <1>1, PreparePreviewProp, PreparePreviewFits, AddsNoneFits
    <3>3. m_state' \in States /\ (m_state' = "PREVIEW_STOPPED" => ~o.ok) /\ m_state' # "PIC_TAKING"
      BY <3>1 DEF States
    <3> QED BY <2>1, <3>1, <3>2, <3>3 DEF PathsFit
  <2>3. CASE \E o \in PrepareAndStart(channels, par) :
               channels' = o.ch /\ m_state' = IF o.ok THEN "PREVIEWING" ELSE m_state
    <3>1. PICK o \in PrepareAndStart(channels, par) :
               channels' = o.ch /\ m_state' = IF o.ok THEN "PREVIEWING" ELSE m_state
      BY <2>3
    <3>2. o.ch \in ChannelsType /\ Fits(o.ch, par) /\ (~o.ok => NoPreview(o.ch))
      BY <1>1, PrepareAndStartFits
    <3>3. m_state' \in States /\ (m_state' = "PREVIEW_STOPPED" => ~o.ok) /\ m_state' # "PIC_TAKING"
      BY <3>1 DEF States
    <3> QED BY <2>1, <3>1, <3>2, <3>3 DEF PathsFit
  <2> QED BY <1>2, <2>2, <2>3 DEF StoppedStartPreview
<1>3. CASE StoppedSettings(e)
  <2>1. CASE LongshotOff(e) /\ UNCHANGED smVars
    BY <1>1, <2>1, LongshotOffAddsNone, FewerInState DEF smVars
  <2>2. CASE UNCHANGED <<smVars, hwVars, par>>
    BY <2>2, PathsUntouched DEF hwVars, smVars
  <2> QED BY <1>3, <2>1, <2>2, SettingsKeepPaths DEF StoppedSettings
<1>4. CASE StoppedRelease(e)
  BY <1>1, <1>4, DeletesAddNone, FewerInState DEF StoppedRelease, smVars, confVars
<1>5. CASE StoppedOther(e)
  BY <1>5, SettingsKeepPaths DEF StoppedOther
<1> QED BY <1>2, <1>3, <1>4, <1>5, SettingsKeepPaths DEF ProcEvtPreviewStoppedState

\* procEvtPreviewReadyState keeps them: a start that fails takes preview back.
LEMMA ReadyKeepsPaths ==
    ASSUME PathsFit, m_state = "PREVIEW_READY", NEW e, e.evt # "SET_PARAMS",
           ProcEvtPreviewReadyState(e)
    PROVE  PathsFit'
<1>1. channels \in ChannelsType
  BY DEF PathsFit
<1>2. CASE ReadySetPreviewWindow(e)
  <2>1. par' = par
    BY <1>2 DEF ReadySetPreviewWindow
  <2>2. CASE UNCHANGED <<smVars, channels>>
    BY <2>1, <2>2, PathsUntouched DEF smVars
  <2>3. CASE \E o \in StartPreview(channels, par) :
               /\ channels' = IF o.ok THEN o.ch ELSE UnpreparePreview(o.ch)
               /\ m_state' = IF o.ok THEN "PREVIEWING" ELSE "PREVIEW_STOPPED"
    <3>1. PICK o \in StartPreview(channels, par) :
               /\ channels' = IF o.ok THEN o.ch ELSE UnpreparePreview(o.ch)
               /\ m_state' = IF o.ok THEN "PREVIEWING" ELSE "PREVIEW_STOPPED"
      BY <2>3
    <3>2. AddsNone(channels, o.ch) /\ o.ch \in ChannelsType
      BY <1>1, StartPreviewAddsNone
    <3>3. CASE o.ok
      BY <2>1, <3>1, <3>2, <3>3, FewerInPreview DEF States
    <3>4. CASE ~o.ok
      BY <3>1, <3>2, <3>4, NoPreviewLeft, NoneLeft DEF States
    <3> QED BY <3>3, <3>4
  <2> QED BY <1>2, <2>2, <2>3 DEF ReadySetPreviewWindow
<1>3. CASE ReadySettings(e)
  <2>1. CASE LongshotOff(e) /\ UNCHANGED smVars
    BY <1>1, <2>1, LongshotOffAddsNone, FewerInState DEF smVars
  <2> QED BY <1>3, <2>1, SettingsKeepPaths DEF ReadySettings
<1>4. CASE ReadyStopPreview(e)
  BY <1>1, <1>4, NoPreviewLeft, NoneLeft DEF ReadyStopPreview, States
<1>5. CASE ReadyOther(e)
  BY <1>5, SettingsKeepPaths DEF ReadyOther
<1>6. ~ReadyRestart(e)
  BY DEF ReadyRestart
<1> QED BY <1>2, <1>3, <1>4, <1>5, <1>6, SettingsKeepPaths DEF ProcEvtPreviewReadyState

\* procEvtPreviewingState keeps them: a picture without ZSL gives preview up,
\* and a failing start of one does so as well.
LEMMA PreviewingKeepsPaths ==
    ASSUME PathsFit, m_state = "PREVIEWING", NEW e, e.evt # "SET_PARAMS",
           ProcEvtPreviewingState(e)
    PROVE  PathsFit'
<1>1. channels \in ChannelsType /\ Fits(channels, par)
  BY DEF PathsFit
<1>2. CASE PreviewingSettings(e)
  <2>1. CASE LongshotOff(e) /\ UNCHANGED smVars
    BY <1>1, <2>1, LongshotOffAddsNone, FewerInState DEF smVars
  <2>2. CASE PreviewingLongshotOn(e)
    <3>1. CASE LongshotOn(e)
      BY <3>1, SettingsKeepPaths
    <3>2. CASE \E o \in PrepareAndStart(StopPreview(channels), par) :
                 channels' = o.ch /\ UNCHANGED <<smVars, par>>
      <4>1. StopPreview(channels) \in ChannelsType /\ Fits(StopPreview(channels), par)
        BY <1>1, NoPreviewLeft, NoPreviewFits
      <4>2. channels' \in ChannelsType /\ Fits(channels', par)
        BY <3>2, <4>1, PrepareAndStartFits
      <4> QED BY <3>2, <4>2 DEF PathsFit, smVars
    <3> QED BY <2>2, <3>1, <3>2 DEF PreviewingLongshotOn
  <2>3. ~PreviewRestart(e, "PREVIEW_STOPPED")
    BY DEF PreviewRestart
  <2> QED BY <1>2, <2>1, <2>2, <2>3, SettingsKeepPaths DEF PreviewingSettings
<1>3. CASE PreviewingStartPreview(e)
  BY <1>3, PathsUntouched DEF PreviewingStartPreview, smVars, hwVars, confVars
<1>4. CASE PreviewingStopPreview(e)
  BY <1>1, <1>4, NoPreviewLeft, NoneLeft DEF PreviewingStopPreview, States
<1>5. CASE PreviewingStartRecording(e)
  <2>1. PICK o \in StartRecording(channels, par) :
            /\ channels' = o.ch
            /\ par' = o.par
            /\ m_state' = IF o.ok THEN "RECORDING" ELSE m_state
    BY <1>5 DEF PreviewingStartRecording
  <2>2. o.ch \in ChannelsType /\ Fits(o.ch, o.par)
    BY <1>1, StartRecordingFits
  <2> QED BY <2>1, <2>2 DEF PathsFit, States
<1>6. CASE PreviewingPrepareSnapshot(e)
  <2>1. UNCHANGED <<channels, par>> /\ m_state' \in {"PREVIEWING", "PREPARE_SNAPSHOT"}
    BY <1>6 DEF PreviewingPrepareSnapshot, Only, smVars, hwVars, confVars
  <2> QED BY <1>1, <2>1 DEF PathsFit, States
<1>7. CASE PreviewingTakePicture(e)
  <2>1. PICK o \in TakePicture(channels, par, mLongshotEnabled) :
            /\ channels' = o.ch
            /\ \/ /\ par.zsl \/ mLongshotEnabled
                  /\ m_state' \in {"PREVIEW_PIC_TAKING", "PREVIEWING"}
               \/ /\ ~par.zsl
                  /\ m_state' \in {"PIC_TAKING", "PREVIEW_STOPPED"}
    BY <1>7 DEF PreviewingTakePicture
  <2>2. par' = par /\ ~par.hint
    BY <1>7 DEF PreviewingTakePicture, confVars
  <2>3. AddsNone(channels, o.ch) /\ o.ch \in ChannelsType
    BY <1>1, TakePictureAddsNone DEF AddsNone
  <2>4. CASE m_state' \in {"PREVIEW_PIC_TAKING", "PREVIEWING"}
    BY <2>1, <2>2, <2>3, <2>4, FewerInPreview DEF States
  <2>5. CASE ~par.zsl /\ m_state' \in {"PIC_TAKING", "PREVIEW_STOPPED"}
    <3>1. o.ch["PREVIEW"] = "absent" /\ Fits(o.ch, par)
      BY <1>1, <2>3, <2>5, TakePictureAddsNone, AddsNoneFits
    <3>2. NoPreview(o.ch)
      BY <2>2, <2>5, <3>1 DEF Fits, ZslPreview, NoPreview, PreviewFamily
    <3> QED BY <2>1, <2>3, <2>5, <3>2, NoneLeft DEF States
  <2> QED BY <2>1, <2>4, <2>5
<1>8. CASE PreviewingLiveSnapshot(e)
  <2>1. UNCHANGED <<channels, par>> /\ m_state' \in {"PREVIEWING", "PREVIEW_PIC_TAKING"}
    BY <1>8 DEF PreviewingLiveSnapshot, TakeLiveSnapshot, confVars
  <2> QED BY <1>1, <2>1 DEF PathsFit, States
<1>9. CASE PreviewingOther(e)
  BY <1>9, SettingsKeepPaths DEF PreviewingOther
<1> QED BY <1>2, <1>3, <1>4, <1>5, <1>6, <1>7, <1>8, <1>9, SettingsKeepPaths DEF ProcEvtPreviewingState

\* procEvtPrepareSnapshotState only goes back to PREVIEWING.
LEMMA PrepareSnapshotKeepsPaths ==
    ASSUME PathsFit, m_state = "PREPARE_SNAPSHOT", NEW e, ProcEvtPrepareSnapshotState(e)
    PROVE  PathsFit'
<1>1. CASE PreparingDone(e)
  BY <1>1 DEF PreparingDone, hwVars, confVars, States, PathsFit
<1>2. CASE PreparingApi(e)
  BY <1>2, SettingsKeepPaths DEF PreparingApi
<1> QED BY <1>1, <1>2, SettingsKeepPaths DEF ProcEvtPrepareSnapshotState

\* procEvtPicTakingState brings no preview channel back, unless the capture
\* channel is given up early.
LEMMA PicTakingKeepsPaths ==
    ASSUME ~EarlyRestart, PathsFit, m_state = "PIC_TAKING", NEW e, e.evt # "SET_PARAMS",
           ProcEvtPicTakingState(e)
    PROVE  PathsFit'
<1>1. channels \in ChannelsType /\ NoPreview(channels)
  BY DEF PathsFit
<1>2. AddsNone(channels, CancelPicture(channels, par))
  BY <1>1, CancelAddsNone
<1>3. CancelPicture(channels, par) \in ChannelsType /\ NoPreview(CancelPicture(channels, par))
  BY <1>1, <1>2, AddsNoneFits DEF AddsNone
<1>4. CASE PicSettings(e)
  <2>1. CASE LongshotOff(e) /\ m_state' = "PREVIEWING"
    BY <1>1, <2>1, LongshotOffAddsNone, FewerInPreview DEF States
  <2> QED BY <1>4, <2>1, SettingsKeepPaths DEF PicSettings
<1>5. CASE PicCancel(e) \/ PicSnapshotDone(e)
  <2>1. channels' = CancelPicture(channels, par) /\ m_state' \in States
    BY <1>5 DEF PicCancel, PicSnapshotDone, States
  <2> QED BY <1>3, <2>1, NoneLeft
<1>6. CASE PicOther(e)
  BY <1>6, SettingsKeepPaths DEF PicOther
<1>7. CASE PicDaemonDied(e)
  BY <1>7, PathsUntouched DEF PicDaemonDied, hwVars, smVars, confVars
<1>8. CASE PicStopCaptureChannel(e)
  <2>1. channels' = channels \/ channels' = StopChannels(channels, {"CAPTURE"})
    BY <1>8 DEF PicStopCaptureChannel
  <2>2. AddsNone(channels, channels')
    BY <1>1, <2>1, StopsAddNone DEF AddsNone
  <2> QED BY <1>8, <2>2, FewerInState DEF PicStopCaptureChannel, smVars, confVars
<1> QED BY <1>4, <1>5, <1>6, <1>7, <1>8, SettingsKeepPaths DEF ProcEvtPicTakingState

\* RECORDING and VIDEO_PIC_TAKING share the handlers of the settings.
LEMMA RecordingSettingsKeepPaths ==
    ASSUME PathsFit, NEW e, e.evt # "SET_PARAMS", RecordingSettings(e)
    PROVE  PathsFit'
<1>1. ~RecordingSetParams(e)
  BY DEF RecordingSetParams
<1>2. CASE LongshotOff(e) /\ UNCHANGED smVars
  BY <1>2, LongshotOffAddsNone, FewerInState DEF smVars, PathsFit
<1> QED BY <1>1, <1>2, SettingsKeepPaths DEF RecordingSettings

\* procEvtRecordingState stops video, or all of preview.
LEMMA RecordingKeepsPaths ==
    ASSUME PathsFit, m_state = "RECORDING", NEW e, e.evt # "SET_PARAMS", ProcEvtRecordingState(e)
    PROVE  PathsFit'
<1>1. channels \in ChannelsType
  BY DEF PathsFit
<1>2. CASE RecordingTakePicture(e)
  <2>1. UNCHANGED <<channels, par>> /\ m_state' \in {"RECORDING", "VIDEO_PIC_TAKING"}
    BY <1>2 DEF RecordingTakePicture, TakeLiveSnapshot, confVars
  <2> QED BY <2>1 DEF PathsFit, States
<1>3. CASE RecordingStop(e)
  <2>1. AddsNone(channels, StopRecording(channels)) /\ StopRecording(channels) \in ChannelsType
    BY <1>1, StopsAddNone DEF StopRecording, AddsNone
  <2>2. par' = par
    BY <1>3 DEF RecordingStop, confVars
  <2>3. CASE channels' = StopRecording(channels) /\ m_state' = "PREVIEWING"
    BY <2>1, <2>2, <2>3, FewerInPreview DEF States
  <2>4. CASE channels' = StopPreview(StopRecording(channels)) /\ m_state' = "PREVIEW_STOPPED"
    BY <2>1, <2>4, NoPreviewLeft, NoneLeft DEF States
  <2> QED BY <1>3, <2>3, <2>4 DEF RecordingStop
<1>4. CASE RecordingOther(e)
  BY <1>4, SettingsKeepPaths DEF RecordingOther
<1> QED BY <1>2, <1>3, <1>4, SettingsKeepPaths, RecordingSettingsKeepPaths DEF ProcEvtRecordingState

\* procEvtVideoPicTakingState stops the live snapshot, and then what it ends.
LEMMA VideoPicKeepsPaths ==
    ASSUME PathsFit, m_state = "VIDEO_PIC_TAKING", NEW e, e.evt # "SET_PARAMS",
           ProcEvtVideoPicTakingState(e)
    PROVE  PathsFit'
<1>1. channels \in ChannelsType
  BY DEF PathsFit
<1>2. AddsNone(channels, LiveStopped) /\ LiveStopped \in ChannelsType
  BY <1>1, StopsAddNone DEF LiveStopped, AddsNone
<1>3. /\ AddsNone(LiveStopped, StopRecording(LiveStopped))
      /\ StopRecording(LiveStopped) \in ChannelsType
  BY <1>2, StopsAddNone DEF StopRecording, AddsNone
<1>4. CASE VideoPicStop(e)
  <2>1. par' = par
    BY <1>4 DEF VideoPicStop, confVars
  <2>2. CASE channels' = StopRecording(LiveStopped) /\ m_state' = "PREVIEWING"
    BY <1>2, <1>3, <2>1, <2>2, AddsNoneTwice, FewerInPreview DEF States
  <2>3. CASE channels' = StopPreview(StopRecording(LiveStopped)) /\ m_state' = "PREVIEW_STOPPED"
    BY <1>3, <2>3, NoPreviewLeft, NoneLeft DEF States
  <2>4. CASE channels' = LiveStopped /\ m_state' = "RECORDING"
    BY <1>2, <2>1, <2>4, FewerInPreview DEF States
  <2> QED BY <1>4, <2>2, <2>3, <2>4 DEF VideoPicStop
<1>5. CASE VideoPicSnapshotDone(e)
  BY <1>2, <1>5, FewerInPreview DEF VideoPicSnapshotDone, States, confVars
<1>6. CASE VideoPicOther(e)
  BY <1>6, SettingsKeepPaths DEF VideoPicOther
<1> QED BY <1>4, <1>5, <1>6, SettingsKeepPaths, RecordingSettingsKeepPaths
        DEF ProcEvtVideoPicTakingState

\* procEvtPreviewPicTakingState ends the picture, unprepares preview on
\* STOP_PREVIEW, and may start recording.
LEMMA PreviewPicKeepsPaths ==
    ASSUME PathsFit, m_state = "PREVIEW_PIC_TAKING", NEW e, e.evt # "SET_PARAMS",
           ProcEvtPreviewPicTakingState(e)
    PROVE  PathsFit'
<1>1. channels \in ChannelsType /\ Fits(channels, par)
  BY DEF PathsFit
<1>2. AddsNone(channels, PictureEnded) /\ PictureEnded \in ChannelsType
  BY <1>1, CancelAddsNone, StopsAddNone DEF PictureEnded, LiveStopped, AddsNone
<1>3. CASE PreviewPicSettings(e)
  <2>1. ~PreviewRestart(e, "PIC_TAKING")
    BY DEF PreviewRestart
  <2>2. CASE LongshotOff(e) /\ m_state' = "PREVIEWING"
    BY <1>1, <2>2, LongshotOffAddsNone, FewerInPreview DEF States
  <2> QED BY <1>3, <2>1, <2>2, SettingsKeepPaths DEF PreviewPicSettings
<1>4. CASE PreviewPicCancel(e)
  <2>1. par' = par
    BY <1>4 DEF PreviewPicCancel, confVars
  <2>2. CASE channels' = PictureEnded /\ m_state' = "PREVIEWING"
    BY <1>2, <2>1, <2>2, FewerInPreview DEF States
  <2>3. CASE channels' = UnpreparePreview(PictureEnded) /\ m_state' = "PREVIEW_STOPPED"
    BY <1>2, <2>3, NoPreviewLeft, NoneLeft DEF States
  <2> QED BY <1>4, <2>2, <2>3 DEF PreviewPicCancel
<1>5. CASE PreviewPicStartRecording(e)
  <2>1. CASE Only(e.evt, FALSE)
    BY <2>1, SettingsKeepPaths
  <2>2. CASE \E o \in StartRecording(channels, par) :
               /\ channels' = o.ch
               /\ par' = o.par
               /\ m_state' = IF o.ok THEN "VIDEO_PIC_TAKING" ELSE m_state
    <3>1. channels' \in ChannelsType /\ Fits(channels', par')
      BY <1>1, <2>2, StartRecordingFits
    <3>2. m_state' \in {"VIDEO_PIC_TAKING", "PREVIEW_PIC_TAKING"}
      BY <2>2
    <3> QED BY <3>1, <3>2 DEF PathsFit, States
  <2> QED BY <1>5, <2>1, <2>2 DEF PreviewPicStartRecording
<1>6. CASE PreviewPicPrepareSnapshot(e)
  <2>1. Only(e.evt, FALSE) \/ UNCHANGED <<smVars, channels, confVars>>
    BY <1>6 DEF PreviewPicPrepareSnapshot
  <2> QED BY <2>1, SettingsKeepPaths, PathsUntouched DEF smVars, confVars
<1>7. CASE PreviewPicOther(e) \/ PreviewPicRetro(e)
  BY <1>7, SettingsKeepPaths DEF PreviewPicOther, PreviewPicRetro
<1>8. CASE PreviewPicSnapshotDone(e)
  BY <1>2, <1>8, FewerInPreview DEF PreviewPicSnapshotDone, States, confVars
<1> QED BY <1>3, <1>4, <1>5, <1>6, <1>7, <1>8, SettingsKeepPaths DEF ProcEvtPreviewPicTakingState

\* The live snapshot thread starts no channel that does not exist.
LEMMA LiveSnapshotKeepsPaths ==
    ASSUME PathsFit, LiveSnapshot
    PROVE  PathsFit'
<1>1. UNCHANGED <<m_state, par>>
  BY DEF LiveSnapshot, smVars, confVars
<1>2. channels' = channels \/ \E o \in StartChannel(channels, "SNAPSHOT") : channels' = o.ch
  BY DEF LiveSnapshot
<1>3. channels \in ChannelsType /\ "SNAPSHOT" \in Channels
  BY DEF PathsFit, Channels
<1>4. AddsNone(channels, channels')
  BY <1>2, <1>3, StartsAddNone DEF AddsNone
<1> QED BY <1>1, <1>4, FewerInState

LEMMA StateMachineKeepsPaths ==
    ASSUME ~EarlyRestart, PathsFit, NEW e, e.evt # "SET_PARAMS", StateMachine(e)
    PROVE  PathsFit'
BY StoppedKeepsPaths, ReadyKeepsPaths, PreviewingKeepsPaths, PrepareSnapshotKeepsPaths,
   PicTakingKeepsPaths, RecordingKeepsPaths, VideoPicKeepsPaths, PreviewPicKeepsPaths
   DEF StateMachine

-----------------------------------------------------------------------------
(* What a handler posts: the SNAPSHOT_DONE of a burst cancelled by          *)
(* LONGSHOT_OFF, and nothing else.                                          *)

PostsLittle == out'.posted \subseteq {"SNAPSHOT_DONE"}

LEMMA AnswersPostLittle ==
    ASSUME \/ \E evt, ok : Answer(evt, ok) \/ Only(evt, ok)
           \/ Silent \/ Ignore
           \/ \E e : \/ SetFrameMsg(e) \/ UpdateAndCommit(e) \/ LongshotOn(e) \/ LongshotOff(e)
                     \/ SnapshotDoneIgnored(e) \/ BurstTakePicture(e)
                     \/ \E S : NotForThisState(e, S)
                     \/ \E onFail : PreviewRestart(e, onFail)
                     \/ \E from, to : TakeLiveSnapshot(from, to, e)
    PROVE  PostsLittle
<1>1. ASSUME NEW evt, NEW ok, Answer(evt, ok) PROVE PostsLittle
  BY <1>1, AnswerProp DEF PostsLittle
<1>2. ASSUME Silent PROVE PostsLittle
  BY <1>2 DEF PostsLittle, Silent, NoOutput
<1>3. ASSUME NEW e, LongshotOff(e) PROVE PostsLittle
  BY <1>3 DEF PostsLittle, LongshotOff, NoOutput
<1>4. ASSUME NEW e, SnapshotDoneIgnored(e) PROVE PostsLittle
  BY <1>4 DEF PostsLittle, SnapshotDoneIgnored, NoOutput
<1> QED BY <1>1, <1>2, <1>3, <1>4
        DEF Only, Ignore, SetFrameMsg, UpdateAndCommit, LongshotOn, BurstTakePicture,
            NotForThisState, PreviewRestart, TakeLiveSnapshot

LEMMA PreviewHandlersPostLittle ==
    ASSUME NEW e, ProcEvtPreviewStoppedState(e) \/ ProcEvtPreviewReadyState(e)
                  \/ ProcEvtPreviewingState(e) \/ ProcEvtPrepareSnapshotState(e)
    PROVE  PostsLittle
<1>1. CASE ProcEvtPreviewStoppedState(e)
  BY <1>1, AnswersPostLittle DEF ProcEvtPreviewStoppedState, StoppedStartPreview, StoppedSettings,
     StoppedRelease, StoppedOther
<1>2. CASE ProcEvtPreviewReadyState(e)
  BY <1>2, AnswersPostLittle DEF ProcEvtPreviewReadyState, ReadySetPreviewWindow, ReadyRestart,
     ReadySettings, ReadyStopPreview, ReadyOther
<1>3. CASE ProcEvtPreviewingState(e)
  <2>1. CASE PreviewingSettings(e)
    BY <2>1, AnswersPostLittle DEF PreviewingSettings, PreviewingFrameMsg, PreviewingLongshotOn
  <2> QED BY <1>3, <2>1, AnswersPostLittle DEF ProcEvtPreviewingState, PreviewingStartPreview,
          PreviewingStopPreview, PreviewingStartRecording, PreviewingPrepareSnapshot,
          PreviewingTakePicture, PreviewingLiveSnapshot, PreviewingOther
<1>4. CASE ProcEvtPrepareSnapshotState(e)
  BY <1>4, AnswersPostLittle DEF ProcEvtPrepareSnapshotState, PreparingApi, PreparingDone
<1> QED BY <1>1, <1>2, <1>3, <1>4

LEMMA PictureHandlersPostLittle ==
    ASSUME NEW e, ProcEvtPicTakingState(e) \/ ProcEvtRecordingState(e)
                  \/ ProcEvtVideoPicTakingState(e) \/ ProcEvtPreviewPicTakingState(e)
    PROVE  PostsLittle
<1>1. ASSUME NEW ap, NEW ev, out' = [NoOutput EXCEPT !.evt = ev, !.api = ap] PROVE PostsLittle
  BY <1>1 DEF PostsLittle, NoOutput
<1>2. ASSUME NEW ev, out' = [NoOutput EXCEPT !.evt = ev] PROVE PostsLittle
  BY <1>2 DEF PostsLittle, NoOutput
<1>3. ASSUME NEW ap, out' = [NoOutput EXCEPT !.api = ap] PROVE PostsLittle
  BY <1>3 DEF PostsLittle, NoOutput
<1>4. CASE ProcEvtPicTakingState(e)
  <2>1. CASE PicStopCaptureChannel(e)
    BY <2>1, AnswersPostLittle DEF PicStopCaptureChannel
  <2>2. CASE PicDaemonDied(e) \/ PicSnapshotDone(e)
    BY <2>2, <1>2, <1>3 DEF PicDaemonDied, PicSnapshotDone
  <2> QED BY <1>4, <2>1, <2>2, AnswersPostLittle DEF ProcEvtPicTakingState, PicSettings, PicCancel,
          PicOther
<1>5. ASSUME RecordingSettings(e) PROVE PostsLittle
  BY <1>5, AnswersPostLittle DEF RecordingSettings, RecordingSetParams
<1>6. CASE ProcEvtRecordingState(e)
  BY <1>5, <1>6, AnswersPostLittle DEF ProcEvtRecordingState, RecordingTakePicture, RecordingStop,
     RecordingOther
<1>7. CASE ProcEvtVideoPicTakingState(e)
  <2>1. CASE VideoPicSnapshotDone(e)
    BY <2>1, <1>2 DEF VideoPicSnapshotDone
  <2> QED BY <1>5, <1>7, <2>1, AnswersPostLittle DEF ProcEvtVideoPicTakingState, VideoPicStop,
          VideoPicOther
<1>8. CASE ProcEvtPreviewPicTakingState(e)
  <2>1. CASE PreviewPicSnapshotDone(e)
    BY <2>1, <1>1 DEF PreviewPicSnapshotDone
  <2>2. CASE PreviewPicStartRecording(e) \/ PreviewPicPrepareSnapshot(e)
    BY <2>2, AnswersPostLittle DEF PreviewPicStartRecording, PreviewPicPrepareSnapshot
  <2> QED BY <1>8, <2>1, <2>2, AnswersPostLittle DEF ProcEvtPreviewPicTakingState,
          PreviewPicSettings, PreviewPicCancel, PreviewPicOther, PreviewPicRetro
<1> QED BY <1>4, <1>6, <1>7, <1>8

LEMMA HandlersPostLittle ==
    ASSUME NEW e, StateMachine(e)
    PROVE  PostsLittle
BY PreviewHandlersPostLittle, PictureHandlersPostLittle DEF StateMachine

\* The live snapshot thread posts a CANCEL_PICTURE at most.
LEMMA LivePostsCancel ==
    ASSUME LiveSnapshot
    PROVE  out'.posted \subseteq {"CANCEL_PICTURE"}
<1>1. \/ out' = [NoOutput EXCEPT !.posted = {}]
      \/ out' = [NoOutput EXCEPT !.posted = {"CANCEL_PICTURE"}]
      \/ Silent
  BY DEF LiveSnapshot
<1> QED BY <1>1 DEF NoOutput, Silent

\* Nobody but the framework sends commands, so what it never sends is never
\* handled: only these events wait in "pending".
PostedEvents == {"SNAPSHOT_DONE", "CANCEL_PICTURE", "STOP_CAPTURE_CHANNEL", "PREP_SNAPSHOT_DONE"}

\* A step handles a command or a posted event, or is one of the other threads'.
LEMMA EventOrThread ==
    ASSUME pending \subseteq PostedEvents, [ENext]_evVars
    PROVE  /\ pending' \subseteq PostedEvents
           /\ \/ \E evt \in Commands : \E arg \in Arguments(evt) : StateMachine(Event(evt, arg))
              \/ \E evt \in PostedEvents : StateMachine(Event(evt, TRUE))
              \/ LiveSnapshot
              \/ UNCHANGED <<smVars, channels, liveThread, confVars>>
<1>1. CASE Command
  <2>1. PICK evt \in Commands : \E arg \in Arguments(evt) :
            StateMachine(Event(evt, arg)) /\ Post(out'.posted)
    BY <1>1 DEF Command
  <2>2. PostsLittle
    BY <2>1, HandlersPostLittle
  <2> QED BY <2>1, <2>2 DEF PostsLittle, Post, PostedEvents
<1>2. CASE Deliver
  <2>1. PICK evt \in pending : /\ StateMachine(Event(evt, TRUE))
                               /\ pending' = (pending \ {evt}) \cup out'.posted
    BY <1>2 DEF Deliver
  <2>2. PostsLittle
    BY <2>1, HandlersPostLittle
  <2> QED BY <2>1, <2>2 DEF PostsLittle, PostedEvents
<1>3. CASE Live
  BY <1>3, LivePostsCancel DEF Live, Post, PostedEvents
<1>4. CASE LastFrame \/ LastJpeg \/ PrepDone
  BY <1>4 DEF LastFrame, LastJpeg, PrepDone, Post, PostedEvents
<1>5. CASE UNCHANGED evVars
  BY <1>5 DEF evVars, vars, hwVars
<1> QED BY <1>1, <1>2, <1>3, <1>4, <1>5 DEF ENext

\* Stopping preview stops all of it, and the ZSL path and the plain one never
\* exist together, whatever calls the daemon refuses on the way.
THEOREM PreviewPathsAreRight ==
    ASSUME ~EarlyRestart, "SET_PARAMS" \notin Commands
    PROVE  ESpec => []PreviewConsistent
<1> DEFINE PathInv == PathsFit /\ pending \subseteq PostedEvents
<1>1. EInit => PathInv
  BY DEF EInit, Init, PathsFit, States, Channels, ChannelsType, Fits, NoPreview, PreviewFamily
<1>2. PathInv /\ [ENext]_evVars => PathInv'
  <2> SUFFICES ASSUME PathInv, [ENext]_evVars PROVE PathInv'
    OBVIOUS
  <2>1. ASSUME NEW evt, evt # "SET_PARAMS", NEW arg, StateMachine(Event(evt, arg)) PROVE PathsFit'
    <3>1. Event(evt, arg).evt # "SET_PARAMS"
      BY <2>1 DEF Event
    <3> QED BY <2>1, <3>1, StateMachineKeepsPaths
  <2>2. UNCHANGED <<smVars, channels, liveThread, confVars>> => PathsFit'
    BY PathsUntouched DEF smVars, confVars
  <2>3. "SET_PARAMS" \notin PostedEvents
    BY DEF PostedEvents
  <2>4. PathsFit'
    <3>1. CASE \E evt \in Commands : \E arg \in Arguments(evt) : StateMachine(Event(evt, arg))
      BY <2>1, <3>1
    <3>2. CASE \E evt \in PostedEvents : StateMachine(Event(evt, TRUE))
      BY <2>1, <2>3, <3>2
    <3> QED BY <2>2, <3>1, <3>2, EventOrThread, LiveSnapshotKeepsPaths
  <2> QED BY <2>4, EventOrThread
<1>3. PathInv => PreviewConsistent
  BY DEF PathsFit, NoPreview, Fits, PreviewConsistent, StoppedMeansStopped, OnePreviewPath
<1> QED BY <1>1, <1>2, <1>3, PTL DEF ESpec

-----------------------------------------------------------------------------
(* Preview runs where the states say so, if the daemon refuses no call.     *)
(* Longshot is left out: turning it off during a picture goes back to       *)
(* PREVIEWING although takePicture had deleted the preview channel.         *)

PreviewStates == {"PREVIEWING", "PREPARE_SNAPSHOT", "RECORDING", "VIDEO_PIC_TAKING",
                  "PREVIEW_PIC_TAKING"}

Up(ch) == ch["ZSL"] = "started" \/ ch["PREVIEW"] = "started"

\* The operations of pictures and of video leave the two preview paths alone.
SamePaths(ch, c) ==
    /\ c \in ChannelsType
    /\ c["ZSL"] = ch["ZSL"] /\ c["PREVIEW"] = ch["PREVIEW"]

LEMMA PictureKeepsPaths ==
    ASSUME NEW ch \in ChannelsType
    PROVE  /\ SamePaths(ch, ch)
           /\ SamePaths(ch, StopRecording(ch))
           /\ SamePaths(ch, StopChannels(ch, {"SNAPSHOT"}))
           /\ SamePaths(ch, StopChannels(ch, {"CAPTURE"}))
           /\ \A p : SamePaths(ch, CancelPicture(ch, p))
           /\ \A k \in {"VIDEO", "SNAPSHOT"} : \A o \in StartChannel(ch, k) : SamePaths(ch, o.ch)
<1>1. "ZSL" \in Channels /\ "PREVIEW" \in Channels
  BY DEF Channels
<1>2. ASSUME NEW ks, "ZSL" \notin ks, "PREVIEW" \notin ks PROVE SamePaths(ch, StopChannels(ch, ks))
  BY <1>1, <1>2, StopChannelsProp DEF SamePaths
<1>3. ASSUME NEW ks, "ZSL" \notin ks, "PREVIEW" \notin ks PROVE SamePaths(ch, DelChannels(ch, ks))
  BY <1>1, <1>3, DelChannelsProp DEF SamePaths
<1>4. SamePaths(ch, ch)
  BY DEF SamePaths
<1>5. ASSUME NEW p PROVE SamePaths(ch, CancelPicture(ch, p))
  <2>1. CASE p.zsl
    BY <1>4, <2>1 DEF CancelPicture
  <2>2. CASE ~p.zsl
    BY <1>3, <2>2 DEF CancelPicture
  <2> QED BY <2>1, <2>2
<1>6. ASSUME NEW k \in {"VIDEO", "SNAPSHOT"}, NEW o \in StartChannel(ch, k) PROVE SamePaths(ch, o.ch)
  <2>1. k \in Channels /\ k # "ZSL" /\ k # "PREVIEW"
    BY DEF Channels
  <2> QED BY <1>1, <2>1, StartChannelProp DEF SamePaths
<1> QED BY <1>2, <1>4, <1>5, <1>6 DEF StopRecording

\* What preparePreview and startPreview bring up, runs.
LEMMA PrepareSucceeds ==
    ASSUME ~HalCallsFail, NEW ch \in ChannelsType, NEW p, NEW o \in PreparePreview(ch, p)
    PROVE  /\ o.ok
           /\ ZslPreview(p) => o.ch["ZSL"] = "added"
           /\ ~ZslPreview(p) => o.ch["PREVIEW"] = "added"
           /\ p.hint => o.ch["VIDEO"] = "added"
<1> DEFINE ks == IF ZslPreview(p) THEN {"ZSL"}
                 ELSE IF p.hint THEN {"SNAPSHOT", "VIDEO", "PREVIEW"} ELSE {"PREVIEW"}
<1>1. o = Outcome(TRUE, AddChannels(ch, ks))
  BY DEF PreparePreview, Failing
<1>2. /\ "ZSL" \in Channels /\ "PREVIEW" \in Channels /\ "VIDEO" \in Channels
      /\ ZslPreview(p) => "ZSL" \in ks
      /\ ~ZslPreview(p) => "PREVIEW" \in ks
      /\ p.hint => "VIDEO" \in ks
  BY DEF Channels, ZslPreview
<1> HIDE DEF ks
<1>3. o.ok /\ o.ch = AddChannels(ch, ks)
  BY <1>1, OutcomeProp
<1> QED BY <1>2, <1>3, AddChannelsProp

LEMMA StartSucceeds ==
    ASSUME ~HalCallsFail, NEW ch \in ChannelsType, NEW k \in Channels, ch[k] # "absent",
           NEW o \in StartChannel(ch, k)
    PROVE  o.ok
<1>1. o = Outcome(TRUE, [ch EXCEPT ![k] = "started"])
  BY DEF StartChannel, Failing
<1> QED BY <1>1, OutcomeProp

\* startPreview starts one of the paths, or fails.
LEMMA StartPreviewUp ==
    ASSUME NEW ch \in ChannelsType, NEW p, NEW o \in StartPreview(ch, p), o.ok
    PROVE  Up(o.ch)
<1>1. CASE ZslPreview(p)
  BY <1>1, StartChannelProp DEF StartPreview, Up, Channels
<1>2. CASE ~ZslPreview(p)
  BY <1>2, StartChannelProp DEF StartPreview, Up, Channels
<1> QED BY <1>1, <1>2

LEMMA PrepareAndStartUp ==
    ASSUME ~HalCallsFail, NEW ch \in ChannelsType, NEW p, NEW o \in PrepareAndStart(ch, p)
    PROVE  o.ok /\ o.ch \in ChannelsType /\ Up(o.ch)
<1>1. PICK q \in PreparePreview(ch, p) : \E s \in StartPreview(q.ch, p) :
             o = [ok |-> s.ok, prepared |-> TRUE,
                  ch |-> IF s.ok THEN s.ch ELSE UnpreparePreview(s.ch)]
  BY PrepareSucceeds DEF PrepareAndStart
<1>2. PICK s \in StartPreview(q.ch, p) :
             o = [ok |-> s.ok, prepared |-> TRUE,
                  ch |-> IF s.ok THEN s.ch ELSE UnpreparePreview(s.ch)]
  BY <1>1
<1>3. o.ok = s.ok /\ o.ch = IF s.ok THEN s.ch ELSE UnpreparePreview(s.ch)
  BY <1>2
<1>4. q.ch \in ChannelsType
  BY PreparePreviewProp
<1>5. s.ok
  <2>1. CASE ZslPreview(p)
    BY <1>4, <2>1, PrepareSucceeds, StartSucceeds DEF StartPreview, Channels
  <2>2. CASE ~ZslPreview(p)
    BY <1>4, <2>2, PrepareSucceeds, StartSucceeds DEF StartPreview, Channels
  <2> QED BY <2>1, <2>2
<1>6. Up(s.ch) /\ s.ch \in ChannelsType
  BY <1>4, <1>5, StartPreviewUp, StartPreviewAddsNone
<1> QED BY <1>3, <1>5, <1>6

\* startRecording may stop preview, and then has it running again.
LEMMA StartRecordingUp ==
    ASSUME ~HalCallsFail, NEW ch \in ChannelsType, Up(ch), NEW p \in ParamsType,
           NEW o \in StartRecording(ch, p)
    PROVE  o.ch \in ChannelsType /\ Up(o.ch)
<1> DEFINE Video(c, q) == {[ok |-> v.ok, ch |-> v.ch, par |-> q] : v \in StartChannel(c, "VIDEO")}
           Stage(r, q) == IF r.ok THEN Video(r.ch, q)
                          ELSE {[ok |-> FALSE, ch |-> r.ch, par |-> q]}
<1>1. ASSUME NEW c \in ChannelsType, Up(c), NEW q, NEW x \in Video(c, q)
      PROVE  x.ch \in ChannelsType /\ Up(x.ch)
  <2>1. PICK v \in StartChannel(c, "VIDEO") : x = [ok |-> v.ok, ch |-> v.ch, par |-> q]
    OBVIOUS
  <2>2. x.ch = v.ch
    BY <2>1
  <2>3. SamePaths(c, v.ch)
    BY PictureKeepsPaths
  <2> QED BY <1>1, <2>2, <2>3 DEF SamePaths, Up
<1>2. CASE p.hint
  BY <1>1, <1>2 DEF StartRecording
<1>3. CASE ~p.hint
  <2>0. PICK q \in HintSet(p) : \E r \in PreparePreview(StopPreview(ch), q) :
            o \in IF r.ok THEN UNION {Stage(s, q) : s \in StartChannel(r.ch, "PREVIEW")}
                  ELSE Stage(r, q)
    BY <1>3 DEF StartRecording
  <2>1. PICK r \in PreparePreview(StopPreview(ch), q) :
            o \in IF r.ok THEN UNION {Stage(s, q) : s \in StartChannel(r.ch, "PREVIEW")}
                  ELSE Stage(r, q)
    BY <2>0
  <2>2. r.ok /\ r.ch \in ChannelsType
    BY NoPreviewLeft, PreparePreviewProp, PrepareSucceeds
  <2>3. PICK s \in StartChannel(r.ch, "PREVIEW") : o \in Stage(s, q)
    BY <2>1, <2>2
  <2>4. r.ch["PREVIEW"] # "absent"
    <3>1. ~ZslPreview(q)
      <4>1. q = CommitParams([p EXCEPT !.hintNew = TRUE])
        BY <2>0 DEF HintSet
      <4> QED BY <4>1 DEF CommitParams, ZslPreview, ParamsType
    <3> QED BY <3>1, NoPreviewLeft, PrepareSucceeds
  <2>5. s.ok /\ s.ch \in ChannelsType /\ Up(s.ch)
    BY <2>2, <2>4, StartSucceeds, StartChannelProp DEF Channels, Up
  <2> QED BY <1>1, <2>3, <2>5
<1> QED BY <1>2, <1>3

-----------------------------------------------------------------------------
(* The parameters.  They change when SET_PARAMS stages and commits them, and *)
(* when startRecording sets the recording hint.                              *)

ParMoves(e) ==
    \/ par' = par
    \/ /\ e.evt = "SET_PARAMS"
       /\ par' \in {UpdateParams(par, e.arg), CommitParams(UpdateParams(par, e.arg))}
    \/ par' \in HintSet(par)

LEMMA RecordingMovesPar ==
    ASSUME NEW ch, NEW p, NEW o \in StartRecording(ch, p)
    PROVE  o.par = p \/ o.par \in HintSet(p)
<1> DEFINE Video(c, q) == {[ok |-> v.ok, ch |-> v.ch, par |-> q] : v \in StartChannel(c, "VIDEO")}
           Stage(r, q) == IF r.ok THEN Video(r.ch, q)
                          ELSE {[ok |-> FALSE, ch |-> r.ch, par |-> q]}
<1>1. ASSUME NEW c, NEW q, NEW x \in Video(c, q) PROVE x.par = q
  OBVIOUS
<1>2. ASSUME NEW r, NEW q, NEW x \in Stage(r, q) PROVE x.par = q
  <2>1. CASE r.ok
    BY <1>1, <2>1
  <2>2. CASE ~r.ok
    BY <2>2
  <2> QED BY <2>1, <2>2
<1>3. CASE p.hint
  BY <1>1, <1>3 DEF StartRecording
<1>4. CASE ~p.hint
  <2>1. PICK q \in HintSet(p) : \E r \in PreparePreview(StopPreview(ch), q) :
            o \in IF r.ok THEN UNION {Stage(s, q) : s \in StartChannel(r.ch, "PREVIEW")}
                  ELSE Stage(r, q)
    BY <1>4 DEF StartRecording
  <2>2. \E r : o \in Stage(r, q)
    <3>1. PICK r : o \in IF r.ok THEN UNION {Stage(s, q) : s \in StartChannel(r.ch, "PREVIEW")}
                         ELSE Stage(r, q)
      BY <2>1
    <3>2. CASE r.ok
      BY <3>1, <3>2
    <3>3. CASE ~r.ok
      BY <3>1, <3>3
    <3> QED BY <3>2, <3>3
  <2>3. o.par = q
    BY <1>2, <2>2
  <2> QED BY <2>1, <2>3
<1> QED BY <1>3, <1>4

LEMMA SettingsMovePar ==
    ASSUME NEW e,
           \/ e.evt = "SET_PARAMS" /\ UpdateAndCommit(e)
           \/ RecordingSetParams(e) \/ ReadyRestart(e)
           \/ \E onFail : PreviewRestart(e, onFail)
           \/ SetFrameMsg(e) \/ LongshotOn(e) \/ LongshotOff(e) \/ SnapshotDoneIgnored(e)
           \/ BurstTakePicture(e)
           \/ \E S : NotForThisState(e, S)
           \/ \E evt, ok : Only(evt, ok)
    PROVE  ParMoves(e)
<1>1. CASE (e.evt = "SET_PARAMS" /\ UpdateAndCommit(e)) \/ RecordingSetParams(e)
  BY <1>1 DEF UpdateAndCommit, RecordingSetParams, ParMoves
<1>2. CASE ReadyRestart(e)
  BY <1>2 DEF ReadyRestart, ParMoves
<1>3. CASE \E onFail : PreviewRestart(e, onFail)
  BY <1>3 DEF PreviewRestart, ParMoves
<1>4. CASE \/ SetFrameMsg(e) \/ LongshotOn(e) \/ LongshotOff(e) \/ SnapshotDoneIgnored(e)
           \/ BurstTakePicture(e)
           \/ \E S : NotForThisState(e, S)
           \/ \E evt, ok : Only(evt, ok)
  BY <1>4 DEF SetFrameMsg, LongshotOn, LongshotOff, SnapshotDoneIgnored, BurstTakePicture,
     NotForThisState, Ignore, Only, confVars, ParMoves
<1> QED BY <1>1, <1>2, <1>3, <1>4

LEMMA PreviewHandlersMovePar ==
    ASSUME NEW e, ProcEvtPreviewStoppedState(e) \/ ProcEvtPreviewReadyState(e)
                  \/ ProcEvtPreviewingState(e) \/ ProcEvtPrepareSnapshotState(e)
    PROVE  ParMoves(e)
<1>0. ASSUME UNCHANGED par PROVE ParMoves(e)
  BY <1>0 DEF ParMoves
<1>1. CASE ProcEvtPreviewStoppedState(e)
  BY <1>0, <1>1, SettingsMovePar DEF ProcEvtPreviewStoppedState, StoppedStartPreview,
     StoppedSettings, StoppedRelease, StoppedOther, confVars
<1>2. CASE ProcEvtPreviewReadyState(e)
  BY <1>0, <1>2, SettingsMovePar DEF ProcEvtPreviewReadyState, ReadySetPreviewWindow,
     ReadySettings, ReadyStopPreview, ReadyOther, confVars
<1>3. CASE ProcEvtPreviewingState(e)
  <2>1. CASE PreviewingSettings(e)
    BY <1>0, <2>1, SettingsMovePar DEF PreviewingSettings, PreviewingFrameMsg,
       PreviewingLongshotOn, confVars
  <2>2. CASE PreviewingStartRecording(e)
    BY <2>2, RecordingMovesPar DEF PreviewingStartRecording, ParMoves
  <2> QED BY <1>0, <1>3, <2>1, <2>2, SettingsMovePar DEF ProcEvtPreviewingState,
          PreviewingStartPreview, PreviewingStopPreview, PreviewingPrepareSnapshot,
          PreviewingTakePicture, PreviewingLiveSnapshot, TakeLiveSnapshot, PreviewingOther, confVars
<1>4. CASE ProcEvtPrepareSnapshotState(e)
  BY <1>0, <1>4, SettingsMovePar DEF ProcEvtPrepareSnapshotState, PreparingApi, PreparingDone,
     confVars
<1> QED BY <1>1, <1>2, <1>3, <1>4

LEMMA PictureHandlersMovePar ==
    ASSUME NEW e, ProcEvtPicTakingState(e) \/ ProcEvtRecordingState(e)
                  \/ ProcEvtVideoPicTakingState(e) \/ ProcEvtPreviewPicTakingState(e)
    PROVE  ParMoves(e)
<1>0. ASSUME UNCHANGED par PROVE ParMoves(e)
  BY <1>0 DEF ParMoves
<1>1. CASE ProcEvtPicTakingState(e)
  BY <1>0, <1>1, SettingsMovePar DEF ProcEvtPicTakingState, PicSettings, PicCancel, PicOther,
     PicDaemonDied, PicStopCaptureChannel, PicSnapshotDone, confVars
<1>2. ASSUME RecordingSettings(e) PROVE ParMoves(e)
  BY <1>2, SettingsMovePar DEF RecordingSettings
<1>3. CASE ProcEvtRecordingState(e)
  BY <1>0, <1>2, <1>3, SettingsMovePar DEF ProcEvtRecordingState, RecordingTakePicture,
     TakeLiveSnapshot, RecordingStop, RecordingOther, confVars
<1>4. CASE ProcEvtVideoPicTakingState(e)
  BY <1>0, <1>2, <1>4, SettingsMovePar DEF ProcEvtVideoPicTakingState, VideoPicStop,
     VideoPicOther, VideoPicSnapshotDone, confVars
<1>5. CASE ProcEvtPreviewPicTakingState(e)
  <2>1. CASE PreviewPicStartRecording(e)
    BY <2>1, RecordingMovesPar, SettingsMovePar DEF PreviewPicStartRecording, ParMoves
  <2> QED BY <1>0, <1>5, <2>1, SettingsMovePar DEF ProcEvtPreviewPicTakingState,
          PreviewPicSettings, PreviewPicCancel, PreviewPicPrepareSnapshot, PreviewPicOther,
          PreviewPicRetro, PreviewPicSnapshotDone, confVars
<1> QED BY <1>1, <1>3, <1>4, <1>5

LEMMA HandlersMovePar ==
    ASSUME NEW e, StateMachine(e)
    PROVE  ParMoves(e)
BY PreviewHandlersMovePar, PictureHandlersMovePar DEF StateMachine

\* What SET_PARAMS carries is one of the settings.
Carries(e) == e.evt = "SET_PARAMS" => e.arg \in Settings

LEMMA ParamsStayTyped ==
    ASSUME par \in ParamsType, NEW e, Carries(e), ParMoves(e)
    PROVE  par' \in ParamsType
<1>1. ASSUME NEW p \in ParamsType PROVE CommitParams(p) \in ParamsType
  BY DEF CommitParams, ParamsType
<1>2. ASSUME NEW s \in Settings PROVE UpdateParams(par, s) \in ParamsType
  <2>1. s \in [zsl : BOOLEAN, hint : BOOLEAN, raw : BOOLEAN]
    BY CameraAssumption
  <2> QED BY <2>1 DEF UpdateParams, HintChanged, ParamsType
<1>3. ASSUME NEW q \in HintSet(par) PROVE q \in ParamsType
  <2>1. [par EXCEPT !.hintNew = TRUE] \in ParamsType
    BY DEF ParamsType
  <2>2. q = CommitParams([par EXCEPT !.hintNew = TRUE]) \/ q = [par EXCEPT !.hintNew = TRUE]
    BY DEF HintSet
  <2> QED BY <1>1, <2>1, <2>2
<1> QED BY <1>1, <1>2, <1>3 DEF ParMoves, Carries

-----------------------------------------------------------------------------
(* The handlers: the states in which preview runs are entered by what        *)
(* starts it, and left by what stops it.                                     *)

UpInv ==
    /\ m_state \in States
    /\ channels \in ChannelsType
    /\ par \in ParamsType
    /\ ~mLongshotEnabled
    /\ m_state \in PreviewStates => Up(channels)

\* An event other than the two longshot commands.
NoLongshot(e) == e.evt \notin {"LONGSHOT_ON", "LONGSHOT_OFF"}

UpStep ==
    /\ m_state' \in States
    /\ channels' \in ChannelsType
    /\ mLongshotEnabled' = mLongshotEnabled
    /\ m_state' \in PreviewStates => Up(channels')

LEMMA UpSame ==
    ASSUME UpInv, m_state' \in States, UNCHANGED mLongshotEnabled, SamePaths(channels, channels'),
           m_state' \in PreviewStates => m_state \in PreviewStates
    PROVE  UpStep
BY DEF UpInv, UpStep, SamePaths, Up

LEMMA UpUp ==
    ASSUME m_state' \in States, UNCHANGED mLongshotEnabled, channels' \in ChannelsType, Up(channels')
    PROVE  UpStep
BY DEF UpStep

LEMMA UpDown ==
    ASSUME m_state' \in States \ PreviewStates, UNCHANGED mLongshotEnabled, channels' \in ChannelsType
    PROVE  UpStep
BY DEF UpStep

LEMMA UpUntouched ==
    ASSUME UpInv, UNCHANGED <<m_state, channels, mLongshotEnabled>>
    PROVE  UpStep
BY DEF UpInv, UpStep

LEMMA SettingsKeepUp ==
    ASSUME UpInv, NEW e,
           SetFrameMsg(e) \/ UpdateAndCommit(e) \/ SnapshotDoneIgnored(e) \/ RecordingSetParams(e)
           \/ PreviewingFrameMsg(e) \/ (\E S : NotForThisState(e, S)) \/ (\E evt, ok : Only(evt, ok))
           \/ BurstTakePicture(e)
    PROVE  UpStep
<1>1. UNCHANGED <<m_state, channels, mLongshotEnabled>>
  BY DEF SetFrameMsg, UpdateAndCommit, SnapshotDoneIgnored, RecordingSetParams, PreviewingFrameMsg,
         NotForThisState, Ignore, Only, BurstTakePicture, hwVars, confVars, smVars
<1> QED BY <1>1, UpUntouched

\* SET_PARAMS takes preview down and has it running again.
LEMMA PreviewRestartUp ==
    ASSUME ~HalCallsFail, UpInv, m_state \in PreviewStates, NEW e, NEW onFail, PreviewRestart(e, onFail)
    PROVE  UpStep
<1>1. \E p : \E o \in PrepareAndStart(StopPreview(channels), p) :
          channels' = o.ch /\ m_state' = IF o.ok THEN m_state ELSE onFail
  BY DEF PreviewRestart
<1>2. PICK p : \E o \in PrepareAndStart(StopPreview(channels), p) :
          channels' = o.ch /\ m_state' = IF o.ok THEN m_state ELSE onFail
  BY <1>1
<1>3. StopPreview(channels) \in ChannelsType
  BY NoPreviewLeft DEF UpInv
<1>4. channels' \in ChannelsType /\ Up(channels') /\ m_state' = m_state
  BY <1>2, <1>3, PrepareAndStartUp
<1>5. UNCHANGED mLongshotEnabled
  BY DEF PreviewRestart
<1> QED BY <1>4, <1>5, UpUp DEF UpInv

LEMMA StoppedKeepsUp ==
    ASSUME ~HalCallsFail, UpInv, m_state = "PREVIEW_STOPPED", NEW e, NoLongshot(e),
           ProcEvtPreviewStoppedState(e)
    PROVE  UpStep
<1>1. channels \in ChannelsType
  BY DEF UpInv
<1>2. CASE StoppedStartPreview(e)
  <2>1. UNCHANGED mLongshotEnabled
    BY <1>2 DEF StoppedStartPreview, confVars
  <2>2. CASE \E o \in PreparePreview(channels, par) :
               channels' = o.ch /\ m_state' = IF o.ok THEN "PREVIEW_READY" ELSE m_state
    <3>1. channels' \in ChannelsType
      BY <1>1, <2>2, PreparePreviewProp
    <3>2. m_state' \in {"PREVIEW_READY", "PREVIEW_STOPPED"}
      BY <2>2
    <3> QED BY <2>1, <3>1, <3>2, UpDown DEF States, PreviewStates
  <2>3. CASE \E o \in PrepareAndStart(channels, par) :
               channels' = o.ch /\ m_state' = IF o.ok THEN "PREVIEWING" ELSE m_state
    <3>1. channels' \in ChannelsType /\ Up(channels')
      BY <1>1, <2>3, PrepareAndStartUp
    <3>2. m_state' \in {"PREVIEWING", "PREVIEW_STOPPED"}
      BY <2>3
    <3> QED BY <2>1, <3>1, <3>2, UpUp DEF States
  <2> QED BY <1>2, <2>2, <2>3 DEF StoppedStartPreview
<1>3. CASE StoppedSettings(e)
  <2>1. CASE UNCHANGED <<smVars, hwVars, mLongshotEnabled>>
    BY <2>1, UpUntouched DEF hwVars, smVars
  <2> QED BY <1>3, <2>1, SettingsKeepUp DEF StoppedSettings, NoLongshot
<1>4. CASE StoppedRelease(e)
  <2>1. channels' \in ChannelsType
    BY <1>1, <1>4, DelChannelsProp DEF StoppedRelease
  <2> QED BY <1>4, <2>1, UpDown DEF StoppedRelease, smVars, confVars, States, PreviewStates
<1>5. CASE StoppedOther(e)
  BY <1>5, SettingsKeepUp DEF StoppedOther
<1> QED BY <1>2, <1>3, <1>4, <1>5, SettingsKeepUp DEF ProcEvtPreviewStoppedState

LEMMA ReadyKeepsUp ==
    ASSUME UpInv, m_state = "PREVIEW_READY", NEW e, NoLongshot(e), ProcEvtPreviewReadyState(e)
    PROVE  UpStep
<1>1. channels \in ChannelsType
  BY DEF UpInv
<1>2. CASE ReadySetPreviewWindow(e)
  <2>1. UNCHANGED mLongshotEnabled
    BY <1>2 DEF ReadySetPreviewWindow
  <2>2. CASE UNCHANGED <<smVars, channels>>
    BY <2>1, <2>2, UpUntouched DEF smVars
  <2>3. CASE \E o \in StartPreview(channels, par) :
               /\ channels' = IF o.ok THEN o.ch ELSE UnpreparePreview(o.ch)
               /\ m_state' = IF o.ok THEN "PREVIEWING" ELSE "PREVIEW_STOPPED"
    <3>1. PICK o \in StartPreview(channels, par) :
               /\ channels' = IF o.ok THEN o.ch ELSE UnpreparePreview(o.ch)
               /\ m_state' = IF o.ok THEN "PREVIEWING" ELSE "PREVIEW_STOPPED"
      BY <2>3
    <3>2. o.ch \in ChannelsType
      BY <1>1, StartPreviewAddsNone
    <3>3. CASE o.ok
      BY <1>1, <2>1, <3>1, <3>2, <3>3, StartPreviewUp, UpUp DEF States
    <3>4. CASE ~o.ok
      BY <2>1, <3>1, <3>2, <3>4, NoPreviewLeft, UpDown DEF States, PreviewStates
    <3> QED BY <3>3, <3>4
  <2> QED BY <1>2, <2>2, <2>3 DEF ReadySetPreviewWindow
<1>3. CASE ReadyRestart(e)
  <2>1. UNCHANGED mLongshotEnabled
    BY <1>3 DEF ReadyRestart
  <2>2. CASE UNCHANGED <<smVars, channels>>
    BY <2>1, <2>2, UpUntouched DEF smVars
  <2>3. CASE \E p : \E o \in PreparePreview(UnpreparePreview(channels), p) :
               channels' = o.ch /\ m_state' = IF o.ok THEN m_state ELSE "PREVIEW_STOPPED"
    <3>1. channels' \in ChannelsType
      BY <1>1, <2>3, NoPreviewLeft, PreparePreviewProp
    <3>2. m_state' \in {"PREVIEW_READY", "PREVIEW_STOPPED"}
      BY <2>3
    <3> QED BY <2>1, <3>1, <3>2, UpDown DEF States, PreviewStates
  <2> QED BY <1>3, <2>2, <2>3 DEF ReadyRestart
<1>4. CASE ReadySettings(e)
  BY <1>4, SettingsKeepUp DEF ReadySettings, NoLongshot
<1>5. CASE ReadyStopPreview(e)
  BY <1>1, <1>5, NoPreviewLeft, UpDown DEF ReadyStopPreview, confVars, States, PreviewStates
<1>6. CASE ReadyOther(e)
  BY <1>6, SettingsKeepUp DEF ReadyOther
<1> QED BY <1>2, <1>3, <1>4, <1>5, <1>6, SettingsKeepUp DEF ProcEvtPreviewReadyState

LEMMA PreviewingKeepsUp ==
    ASSUME ~HalCallsFail, UpInv, m_state = "PREVIEWING", NEW e, NoLongshot(e),
           ProcEvtPreviewingState(e)
    PROVE  UpStep
<1>1. channels \in ChannelsType /\ Up(channels) /\ par \in ParamsType
  BY DEF UpInv, PreviewStates
<1>2. CASE PreviewingSettings(e)
  <2>1. CASE PreviewRestart(e, "PREVIEW_STOPPED")
    BY <2>1, PreviewRestartUp DEF PreviewStates
  <2> QED BY <1>2, <2>1, SettingsKeepUp DEF PreviewingSettings, PreviewingLongshotOn, NoLongshot
<1>3. CASE PreviewingStartPreview(e)
  BY <1>3, UpUntouched DEF PreviewingStartPreview, smVars, hwVars, confVars
<1>4. CASE PreviewingStopPreview(e)
  BY <1>1, <1>4, NoPreviewLeft, UpDown DEF PreviewingStopPreview, confVars, States, PreviewStates
<1>5. CASE PreviewingStartRecording(e)
  <2>1. PICK o \in StartRecording(channels, par) :
            channels' = o.ch /\ m_state' = IF o.ok THEN "RECORDING" ELSE m_state
    BY <1>5 DEF PreviewingStartRecording
  <2>2. o.ch \in ChannelsType /\ Up(o.ch)
    BY <1>1, StartRecordingUp
  <2>3. UNCHANGED mLongshotEnabled
    BY <1>5 DEF PreviewingStartRecording
  <2> QED BY <2>1, <2>2, <2>3, UpUp DEF States
<1>6. CASE PreviewingPrepareSnapshot(e)
  <2>1. UNCHANGED <<channels, mLongshotEnabled>> /\ m_state' \in {"PREVIEWING", "PREPARE_SNAPSHOT"}
    BY <1>6 DEF PreviewingPrepareSnapshot, Only, smVars, hwVars, confVars
  <2> QED BY <1>1, <2>1, UpUp DEF States
<1>7. CASE PreviewingTakePicture(e)
  <2>1. PICK o \in TakePicture(channels, par, mLongshotEnabled) :
            /\ channels' = o.ch
            /\ \/ /\ par.zsl
                  /\ m_state' \in {"PREVIEW_PIC_TAKING", "PREVIEWING"}
               \/ /\ ~par.zsl
                  /\ m_state' \in {"PIC_TAKING", "PREVIEW_STOPPED"}
    BY <1>7 DEF PreviewingTakePicture, UpInv
  <2>2. UNCHANGED mLongshotEnabled
    BY <1>7 DEF PreviewingTakePicture, confVars
  <2>3. CASE par.zsl /\ m_state' \in {"PREVIEW_PIC_TAKING", "PREVIEWING"}
    <3>1. o.ch = channels
      BY ZenonT(60), <2>3, OutcomeProp DEF TakePicture, Failing
    <3> QED BY <1>1, <2>1, <2>2, <2>3, <3>1, UpUp DEF States
  <2>4. CASE m_state' \in {"PIC_TAKING", "PREVIEW_STOPPED"}
    BY <1>1, <2>1, <2>2, <2>4, TakePictureProp, UpDown DEF States, PreviewStates
  <2> QED BY <2>1, <2>3, <2>4
<1>8. CASE PreviewingLiveSnapshot(e)
  <2>1. UNCHANGED <<channels, mLongshotEnabled>> /\ m_state' \in {"PREVIEWING", "PREVIEW_PIC_TAKING"}
    BY <1>8 DEF PreviewingLiveSnapshot, TakeLiveSnapshot, confVars
  <2> QED BY <1>1, <2>1, UpUp DEF States
<1>9. CASE PreviewingOther(e)
  BY <1>9, SettingsKeepUp DEF PreviewingOther
<1> QED BY <1>2, <1>3, <1>4, <1>5, <1>6, <1>7, <1>8, <1>9, SettingsKeepUp DEF ProcEvtPreviewingState

LEMMA PrepareSnapshotKeepsUp ==
    ASSUME UpInv, m_state = "PREPARE_SNAPSHOT", NEW e, ProcEvtPrepareSnapshotState(e)
    PROVE  UpStep
<1>1. channels \in ChannelsType /\ Up(channels)
  BY DEF UpInv, PreviewStates
<1>2. CASE PreparingDone(e)
  BY <1>1, <1>2, UpUp DEF PreparingDone, hwVars, confVars, States
<1>3. CASE PreparingApi(e)
  BY <1>3, SettingsKeepUp DEF PreparingApi
<1> QED BY <1>2, <1>3, SettingsKeepUp DEF ProcEvtPrepareSnapshotState

LEMMA PicTakingKeepsUp ==
    ASSUME ~EarlyRestart, UpInv, m_state = "PIC_TAKING", NEW e, NoLongshot(e),
           ProcEvtPicTakingState(e)
    PROVE  UpStep
<1>1. channels \in ChannelsType
  BY DEF UpInv
<1>2. CASE PicSettings(e)
  BY <1>2, SettingsKeepUp DEF PicSettings, NoLongshot
<1>3. CASE PicCancel(e) \/ PicSnapshotDone(e)
  <2>1. /\ channels' = CancelPicture(channels, par) /\ m_state' = "PREVIEW_STOPPED"
        /\ UNCHANGED mLongshotEnabled
    BY <1>3 DEF PicCancel, PicSnapshotDone, confVars
  <2> QED BY <1>1, <2>1, CancelPictureProp, UpDown DEF States, PreviewStates
<1>4. CASE PicOther(e)
  BY <1>4, SettingsKeepUp DEF PicOther
<1>5. CASE PicDaemonDied(e)
  BY <1>5, UpUntouched DEF PicDaemonDied, smVars, hwVars, confVars
<1>6. CASE PicStopCaptureChannel(e)
  <2>1. channels' = channels \/ channels' = StopChannels(channels, {"CAPTURE"})
    BY <1>6 DEF PicStopCaptureChannel
  <2> QED BY <1>1, <1>6, <2>1, StopChannelsProp, UpDown
          DEF PicStopCaptureChannel, smVars, confVars, States, PreviewStates
<1> QED BY <1>2, <1>3, <1>4, <1>5, <1>6, SettingsKeepUp DEF ProcEvtPicTakingState

LEMMA RecordingKeepsUp ==
    ASSUME UpInv, m_state = "RECORDING", NEW e, NoLongshot(e), ProcEvtRecordingState(e)
    PROVE  UpStep
<1>1. channels \in ChannelsType /\ m_state \in PreviewStates
  BY DEF UpInv, PreviewStates
<1>2. CASE RecordingSettings(e)
  BY <1>2, SettingsKeepUp DEF RecordingSettings, NoLongshot
<1>3. CASE RecordingTakePicture(e)
  <2>1. UNCHANGED <<channels, mLongshotEnabled>> /\ m_state' \in {"RECORDING", "VIDEO_PIC_TAKING"}
    BY <1>3 DEF RecordingTakePicture, TakeLiveSnapshot, confVars
  <2> QED BY <1>1, <2>1, PictureKeepsPaths, UpSame DEF States
<1>4. CASE RecordingStop(e)
  <2>1. SamePaths(channels, StopRecording(channels)) /\ StopRecording(channels) \in ChannelsType
    BY <1>1, PictureKeepsPaths, StopRecordingProp
  <2>2. UNCHANGED mLongshotEnabled
    BY <1>4 DEF RecordingStop, confVars
  <2>3. CASE channels' = StopRecording(channels) /\ m_state' = "PREVIEWING"
    BY <1>1, <2>1, <2>2, <2>3, UpSame DEF States
  <2>4. CASE channels' = StopPreview(StopRecording(channels)) /\ m_state' = "PREVIEW_STOPPED"
    BY <2>1, <2>2, <2>4, NoPreviewLeft, UpDown DEF States, PreviewStates
  <2> QED BY <1>4, <2>3, <2>4 DEF RecordingStop
<1>5. CASE RecordingOther(e)
  BY <1>5, SettingsKeepUp DEF RecordingOther
<1> QED BY <1>2, <1>3, <1>4, <1>5, SettingsKeepUp DEF ProcEvtRecordingState

LEMMA VideoPicKeepsUp ==
    ASSUME UpInv, m_state = "VIDEO_PIC_TAKING", NEW e, NoLongshot(e), ProcEvtVideoPicTakingState(e)
    PROVE  UpStep
<1>1. channels \in ChannelsType /\ m_state \in PreviewStates
  BY DEF UpInv, PreviewStates
<1>2. SamePaths(channels, LiveStopped) /\ LiveStopped \in ChannelsType
  BY <1>1, PictureKeepsPaths DEF LiveStopped, SamePaths
<1>3. SamePaths(channels, StopRecording(LiveStopped)) /\ StopRecording(LiveStopped) \in ChannelsType
  <2>1. SamePaths(LiveStopped, StopRecording(LiveStopped))
    BY <1>2, PictureKeepsPaths
  <2> QED BY <1>2, <2>1 DEF SamePaths
<1>4. CASE RecordingSettings(e)
  BY <1>4, SettingsKeepUp DEF RecordingSettings, NoLongshot
<1>5. CASE VideoPicStop(e)
  <2>1. UNCHANGED mLongshotEnabled
    BY <1>5 DEF VideoPicStop, confVars
  <2>2. CASE channels' = StopRecording(LiveStopped) /\ m_state' = "PREVIEWING"
    BY <1>1, <1>3, <2>1, <2>2, UpSame DEF States
  <2>3. CASE channels' = StopPreview(StopRecording(LiveStopped)) /\ m_state' = "PREVIEW_STOPPED"
    BY <1>3, <2>1, <2>3, NoPreviewLeft, UpDown DEF States, PreviewStates
  <2>4. CASE channels' = LiveStopped /\ m_state' = "RECORDING"
    BY <1>1, <1>2, <2>1, <2>4, UpSame DEF States
  <2> QED BY <1>5, <2>2, <2>3, <2>4 DEF VideoPicStop
<1>6. CASE VideoPicSnapshotDone(e)
  BY <1>1, <1>2, <1>6, UpSame DEF VideoPicSnapshotDone, States, confVars
<1>7. CASE VideoPicOther(e)
  BY <1>7, SettingsKeepUp DEF VideoPicOther
<1> QED BY <1>4, <1>5, <1>6, <1>7, SettingsKeepUp DEF ProcEvtVideoPicTakingState

LEMMA PreviewPicKeepsUp ==
    ASSUME ~HalCallsFail, UpInv, m_state = "PREVIEW_PIC_TAKING", NEW e, NoLongshot(e),
           ProcEvtPreviewPicTakingState(e)
    PROVE  UpStep
<1>1. channels \in ChannelsType /\ Up(channels) /\ m_state \in PreviewStates /\ par \in ParamsType
  BY DEF UpInv, PreviewStates
<1>2. SamePaths(channels, PictureEnded) /\ PictureEnded \in ChannelsType
  BY <1>1, PictureKeepsPaths DEF PictureEnded, LiveStopped, SamePaths
<1>3. CASE PreviewPicSettings(e)
  BY <1>1, <1>3, PreviewRestartUp, SettingsKeepUp DEF PreviewPicSettings, NoLongshot
<1>4. CASE PreviewPicCancel(e)
  <2>1. UNCHANGED mLongshotEnabled
    BY <1>4 DEF PreviewPicCancel, confVars
  <2>2. CASE channels' = PictureEnded /\ m_state' = "PREVIEWING"
    BY <1>1, <1>2, <2>1, <2>2, UpSame DEF States
  <2>3. CASE channels' = UnpreparePreview(PictureEnded) /\ m_state' = "PREVIEW_STOPPED"
    BY <1>2, <2>1, <2>3, NoPreviewLeft, UpDown DEF States, PreviewStates
  <2> QED BY <1>4, <2>2, <2>3 DEF PreviewPicCancel
<1>5. CASE PreviewPicStartRecording(e)
  <2>1. CASE Only(e.evt, FALSE)
    BY <2>1, SettingsKeepUp
  <2>2. CASE \E o \in StartRecording(channels, par) :
               /\ channels' = o.ch
               /\ m_state' = IF o.ok THEN "VIDEO_PIC_TAKING" ELSE m_state
               /\ UNCHANGED mLongshotEnabled
    <3>1. channels' \in ChannelsType /\ Up(channels')
      BY <1>1, <2>2, StartRecordingUp
    <3>2. m_state' \in {"VIDEO_PIC_TAKING", "PREVIEW_PIC_TAKING"}
      BY <2>2
    <3> QED BY <2>2, <3>1, <3>2, UpUp DEF States
  <2> QED BY <1>5, <2>1, <2>2 DEF PreviewPicStartRecording
<1>6. CASE PreviewPicPrepareSnapshot(e)
  <2>1. Only(e.evt, FALSE) \/ UNCHANGED <<smVars, channels, confVars>>
    BY <1>6 DEF PreviewPicPrepareSnapshot
  <2> QED BY <2>1, SettingsKeepUp, UpUntouched DEF smVars, confVars
<1>7. CASE PreviewPicOther(e) \/ PreviewPicRetro(e)
  BY <1>7, SettingsKeepUp DEF PreviewPicOther, PreviewPicRetro
<1>8. CASE PreviewPicSnapshotDone(e)
  BY <1>1, <1>2, <1>8, UpSame DEF PreviewPicSnapshotDone, States, confVars
<1> QED BY <1>3, <1>4, <1>5, <1>6, <1>7, <1>8, SettingsKeepUp DEF ProcEvtPreviewPicTakingState

LEMMA StateMachineKeepsUp ==
    ASSUME ~HalCallsFail, ~EarlyRestart, UpInv, NEW e, NoLongshot(e), Carries(e), StateMachine(e)
    PROVE  UpInv'
<1>1. UpStep
  BY StoppedKeepsUp, ReadyKeepsUp, PreviewingKeepsUp, PrepareSnapshotKeepsUp, PicTakingKeepsUp,
     RecordingKeepsUp, VideoPicKeepsUp, PreviewPicKeepsUp DEF StateMachine
<1>2. par' \in ParamsType
  BY HandlersMovePar, ParamsStayTyped DEF UpInv
<1> QED BY <1>1, <1>2 DEF UpInv, UpStep

\* The commands of CameraEvents carry settings.
LEMMA EventsCarry ==
    ASSUME NEW evt, NEW arg, arg \in Arguments(evt) \/ evt # "SET_PARAMS"
    PROVE  Carries(Event(evt, arg))
BY DEF Carries, Event, Arguments

\* In PREVIEWING, RECORDING and the two states that take a picture beside
\* them, one of the preview paths runs: no restart for a parameter, no picture
\* and no recording that begins or ends leaves the state without its preview.
THEOREM PreviewRuns ==
    ASSUME ~HalCallsFail, ~EarlyRestart, {"LONGSHOT_ON", "LONGSHOT_OFF"} \cap Commands = {}
    PROVE  ESpec => []PreviewRunsAsStated
<1> DEFINE RunInv == UpInv /\ pending \subseteq PostedEvents
<1>1. EInit => RunInv
  <2>1. ASSUME EInit PROVE par \in ParamsType
    <3>1. PICK s \in Settings : par = CommittedParams(s)
      BY <2>1 DEF EInit, Init
    <3>2. s \in [zsl : BOOLEAN, hint : BOOLEAN, raw : BOOLEAN]
      BY CameraAssumption
    <3> QED BY <3>1, <3>2 DEF CommittedParams, ParamsType
  <2> QED BY <2>1 DEF EInit, Init, UpInv, States, Channels, ChannelsType, PreviewStates
<1>2. RunInv /\ [ENext]_evVars => RunInv'
  <2> SUFFICES ASSUME RunInv, [ENext]_evVars PROVE RunInv'
    OBVIOUS
  <2>1. ASSUME NEW evt, evt \notin {"LONGSHOT_ON", "LONGSHOT_OFF"}, NEW arg,
               arg \in Arguments(evt) \/ evt # "SET_PARAMS", StateMachine(Event(evt, arg))
        PROVE  UpInv'
    <3>1. NoLongshot(Event(evt, arg))
      BY <2>1 DEF Event, NoLongshot
    <3> QED BY <2>1, <3>1, EventsCarry, StateMachineKeepsUp
  <2>2. UNCHANGED <<smVars, channels, liveThread, confVars>> => UpInv'
    BY DEF smVars, confVars, UpInv
  <2>3. PostedEvents \cap {"SET_PARAMS", "LONGSHOT_ON", "LONGSHOT_OFF"} = {}
    BY DEF PostedEvents
  <2>4. LiveSnapshot => UpInv'
    <3> SUFFICES ASSUME LiveSnapshot PROVE UpInv'
      OBVIOUS
    <3>1. UNCHANGED <<m_state, mLongshotEnabled, par>>
      BY DEF LiveSnapshot, smVars, confVars
    <3>2. SamePaths(channels, channels')
      BY PictureKeepsPaths DEF LiveSnapshot, UpInv
    <3>3. UpStep
      BY <3>1, <3>2, UpSame DEF UpInv
    <3> QED BY <3>1, <3>3 DEF UpInv, UpStep
  <2>5. UpInv'
    <3>1. CASE \E evt \in Commands : \E arg \in Arguments(evt) : StateMachine(Event(evt, arg))
      BY <2>1, <3>1
    <3>2. CASE \E evt \in PostedEvents : StateMachine(Event(evt, TRUE))
      BY <2>1, <2>3, <3>2
    <3> QED BY <2>2, <2>4, <3>1, <3>2, EventOrThread
  <2> QED BY <2>5, EventOrThread
<1>3. RunInv => PreviewRunsAsStated
  BY DEF UpInv, Up, PreviewStates, PreviewRunsAsStated, PreviewUp
<1> QED BY <1>1, <1>2, <1>3, PTL DEF ESpec

-----------------------------------------------------------------------------
(* Pictures end what they start, if the daemon refuses no call.  SET_PARAMS  *)
(* leaves ZSL mode and picture format alone: PIC_TAKING commits a change of  *)
(* either at once, and cancelPicture then looks for another channel.         *)

LivePics == {"PREVIEW_PIC_TAKING", "VIDEO_PIC_TAKING"}

Outside == States \ (LivePics \cup {"PIC_TAKING"})

PicInv ==
    /\ m_state \in States
    /\ channels \in ChannelsType
    /\ par \in ParamsType
    /\ par.zslNew = par.zsl
    /\ ~mLongshotEnabled
    /\ channels["ZSL"] # "absent" => par.zsl
    /\ m_state = "PIC_TAKING" => ~par.zsl
    /\ channels["CAPTURE"] = "started" => m_state = "PIC_TAKING" /\ ~par.raw
    /\ channels["RAW"] = "started" => m_state = "PIC_TAKING" /\ par.raw
    /\ VideoRunsWhileRecording
    /\ PictureStopsPreview
    /\ LiveEndsWithPicture

\* What a step has to establish, the mode and the format being unchanged and
\* video being looked after by VideoInv.
PicStep ==
    /\ m_state' \in States
    /\ channels' \in ChannelsType
    /\ mLongshotEnabled' = mLongshotEnabled
    /\ channels'["ZSL"] # "absent" => par.zsl
    /\ m_state' = "PIC_TAKING" => ~par.zsl
    /\ channels'["CAPTURE"] = "started" => m_state' = "PIC_TAKING" /\ ~par.raw
    /\ channels'["RAW"] = "started" => m_state' = "PIC_TAKING" /\ par.raw
    /\ m_state' = "PIC_TAKING" => \A k \in {"ZSL", "PREVIEW", "SNAPSHOT"} : channels'[k] # "started"
    /\ ~par.zsl /\ m_state' \notin LivePics => liveThread' = "none" /\ channels'["SNAPSHOT"] # "started"

\* Operations that start no picture channel, and add a ZSL channel only in
\* ZSL mode.
Quiet(ch, c, zsl) ==
    /\ c \in ChannelsType
    /\ c["ZSL"] # "absent" => ch["ZSL"] # "absent" \/ zsl
    /\ \A k \in {"CAPTURE", "RAW", "SNAPSHOT"} : c[k] = "started" => ch[k] = "started"

LEMMA QuietTwice ==
    ASSUME NEW ch, NEW b, NEW c, NEW zsl, Quiet(ch, b, zsl), Quiet(b, c, zsl)
    PROVE  Quiet(ch, c, zsl)
BY DEF Quiet

LEMMA QuietOps ==
    ASSUME NEW ch \in ChannelsType, NEW zsl
    PROVE  /\ Quiet(ch, ch, zsl)
           /\ \A ks : Quiet(ch, DelChannels(ch, ks), zsl)
           /\ \A ks : Quiet(ch, StopChannels(ch, ks), zsl)
           /\ \A p : Quiet(ch, CancelPicture(ch, p), zsl)
           /\ Quiet(ch, UnpreparePreview(ch), zsl)
           /\ Quiet(ch, StopPreview(ch), zsl)
           /\ Quiet(ch, StopRecording(ch), zsl)
           /\ \A k \in {"ZSL", "PREVIEW", "VIDEO"} : \A o \in StartChannel(ch, k) : Quiet(ch, o.ch, zsl)
           /\ \A p : \A o \in StartPreview(ch, p) : Quiet(ch, o.ch, zsl)
<1>0. /\ "ZSL" \in Channels /\ "ZSL" \in PreviewFamily
      /\ \A k \in {"CAPTURE", "RAW", "SNAPSHOT"} : k \in Channels
      /\ \A k \in {"ZSL", "PREVIEW", "VIDEO"} : k \in Channels /\ k \notin {"CAPTURE", "RAW", "SNAPSHOT"}
  BY DEF Channels, PreviewFamily
<1>1. Quiet(ch, ch, zsl)
  BY DEF Quiet
<1>2. ASSUME NEW c \in ChannelsType, NEW ks PROVE Quiet(c, DelChannels(c, ks), zsl)
  <2>1. \A k \in Channels : DelChannels(c, ks)[k] = "absent" \/ DelChannels(c, ks)[k] = c[k]
    BY DelChannelsProp
  <2> QED BY <1>0, <2>1, DelChannelsProp DEF Quiet
<1>3. ASSUME NEW ks PROVE Quiet(ch, StopChannels(ch, ks), zsl) /\ StopChannels(ch, ks) \in ChannelsType
  <2>1. \A k \in Channels : StopChannels(ch, ks)[k] = "started" => ch[k] = "started"
    BY DEF StopChannels
  <2>2. \A k \in Channels : StopChannels(ch, ks)[k] # "absent" => ch[k] # "absent"
    BY DEF StopChannels
  <2>3. StopChannels(ch, ks) \in ChannelsType
    BY StopChannelsProp
  <2> QED BY <1>0, <2>1, <2>2, <2>3 DEF Quiet
<1>4. ASSUME NEW p PROVE Quiet(ch, CancelPicture(ch, p), zsl)
  BY <1>1, <1>2 DEF CancelPicture
<1>5. Quiet(ch, UnpreparePreview(ch), zsl)
  BY <1>2 DEF UnpreparePreview
<1>6. Quiet(ch, StopPreview(ch), zsl)
  <2> DEFINE c == StopChannels(ch, {"ZSL", "PREVIEW"})
  <2>1. Quiet(ch, c, zsl) /\ c \in ChannelsType
    BY <1>3
  <2>2. Quiet(c, DelChannels(c, PreviewFamily), zsl)
    BY <1>2, <2>1
  <2>3. StopPreview(ch) = DelChannels(c, PreviewFamily)
    BY DEF StopPreview, UnpreparePreview
  <2> HIDE DEF c
  <2> QED BY <2>1, <2>2, <2>3, QuietTwice
<1>7. Quiet(ch, StopRecording(ch), zsl)
  BY <1>3 DEF StopRecording
<1>8. ASSUME NEW k \in {"ZSL", "PREVIEW", "VIDEO"}, NEW o \in StartChannel(ch, k) PROVE Quiet(ch, o.ch, zsl)
  <2>1. k \in Channels /\ o.ch \in ChannelsType /\ \A j \in Channels \ {k} : o.ch[j] = ch[j]
    BY <1>0, StartChannelProp
  <2>2. AddsNone(ch, o.ch)
    BY <2>1, StartsAddNone
  <2>3. o.ch["ZSL"] # "absent" => ch["ZSL"] # "absent"
    BY <1>0, <2>2 DEF AddsNone
  <2>4. \A j \in {"CAPTURE", "RAW", "SNAPSHOT"} : o.ch[j] = ch[j]
    BY <1>0, <2>1
  <2> QED BY <2>1, <2>3, <2>4 DEF Quiet
<1>9. ASSUME NEW p, NEW o \in StartPreview(ch, p) PROVE Quiet(ch, o.ch, zsl)
  BY <1>8 DEF StartPreview
<1> QED BY <1>1, <1>2, <1>3, <1>4, <1>5, <1>6, <1>7, <1>8, <1>9

LEMMA PrepareQuiet ==
    ASSUME NEW ch \in ChannelsType, NEW p, NEW o \in PreparePreview(ch, p)
    PROVE  Quiet(ch, o.ch, p.zsl)
<1> DEFINE ks == IF ZslPreview(p) THEN {"ZSL"}
                 ELSE IF p.hint THEN {"SNAPSHOT", "VIDEO", "PREVIEW"} ELSE {"PREVIEW"}
<1>1. \/ o = Outcome(TRUE, AddChannels(ch, ks))
      \/ o = Outcome(FALSE, ch)
      \/ \E js : o = Outcome(FALSE, DelChannels(ch, js))
  BY DEF PreparePreview, Failing
<1>2. Quiet(ch, AddChannels(ch, ks), p.zsl)
  <2>1. /\ "ZSL" \in Channels
        /\ \A k \in {"CAPTURE", "RAW", "SNAPSHOT"} : k \in Channels
        /\ "ZSL" \in ks => p.zsl
    BY DEF Channels, ZslPreview
  <2> HIDE DEF ks
  <2>2. \A k \in Channels : AddChannels(ch, ks)[k] = "started" => ch[k] = "started"
    BY AddChannelsProp
  <2> QED BY <2>1, <2>2, AddChannelsProp DEF Quiet
<1> HIDE DEF ks
<1>3. o.ch = AddChannels(ch, ks) \/ o.ch = ch \/ \E js : o.ch = DelChannels(ch, js)
  BY <1>1 DEF Outcome
<1> QED BY <1>2, <1>3, QuietOps

LEMMA PrepareAndStartQuiet ==
    ASSUME NEW ch \in ChannelsType, NEW p, NEW o \in PrepareAndStart(ch, p)
    PROVE  Quiet(ch, o.ch, p.zsl)
<1>1. CASE \E q \in PreparePreview(ch, p) : o = [ok |-> FALSE, ch |-> q.ch, prepared |-> FALSE]
  <2>1. PICK q \in PreparePreview(ch, p) : o = [ok |-> FALSE, ch |-> q.ch, prepared |-> FALSE]
    BY <1>1
  <2>2. o.ch = q.ch
    BY <2>1
  <2> QED BY <2>2, PrepareQuiet
<1>2. CASE \E q \in PreparePreview(ch, p) : \E s \in StartPreview(q.ch, p) :
             o = [ok |-> s.ok, prepared |-> TRUE,
                  ch |-> IF s.ok THEN s.ch ELSE UnpreparePreview(s.ch)]
  <2>1. PICK q \in PreparePreview(ch, p) : \E s \in StartPreview(q.ch, p) :
             o = [ok |-> s.ok, prepared |-> TRUE,
                  ch |-> IF s.ok THEN s.ch ELSE UnpreparePreview(s.ch)]
    BY <1>2
  <2>2. PICK s \in StartPreview(q.ch, p) :
             o = [ok |-> s.ok, prepared |-> TRUE,
                  ch |-> IF s.ok THEN s.ch ELSE UnpreparePreview(s.ch)]
    BY <2>1
  <2>3. o.ch = s.ch \/ o.ch = UnpreparePreview(s.ch)
    BY <2>2
  <2>4. Quiet(ch, q.ch, p.zsl) /\ q.ch \in ChannelsType
    BY PrepareQuiet, PreparePreviewProp
  <2>5. Quiet(q.ch, s.ch, p.zsl) /\ s.ch \in ChannelsType
    BY <2>4, QuietOps, StartPreviewAddsNone
  <2>6. Quiet(s.ch, o.ch, p.zsl)
    BY <2>3, <2>5, QuietOps
  <2> QED BY <2>4, <2>5, <2>6, QuietTwice
<1> QED BY <1>1, <1>2 DEF PrepareAndStart

\* The recording restarts preview without the ZSL channel.
LEMMA StartRecordingQuiet ==
    ASSUME ~HalCallsFail, NEW ch \in ChannelsType, NEW p \in ParamsType, p.zslNew = p.zsl,
           NEW o \in StartRecording(ch, p)
    PROVE  Quiet(ch, o.ch, p.zsl)
<1> DEFINE Video(c, q) == {[ok |-> v.ok, ch |-> v.ch, par |-> q] : v \in StartChannel(c, "VIDEO")}
           Stage(r, q) == IF r.ok THEN Video(r.ch, q)
                          ELSE {[ok |-> FALSE, ch |-> r.ch, par |-> q]}
<1>1. ASSUME NEW c \in ChannelsType, NEW q, NEW x \in Video(c, q) PROVE Quiet(c, x.ch, p.zsl)
  <2>1. PICK v \in StartChannel(c, "VIDEO") : x = [ok |-> v.ok, ch |-> v.ch, par |-> q]
    OBVIOUS
  <2>2. x.ch = v.ch
    BY <2>1
  <2> QED BY <2>2, QuietOps
<1>2. CASE p.hint
  BY <1>1, <1>2 DEF StartRecording
<1>3. CASE ~p.hint
  <2>0. PICK q \in HintSet(p) : \E r \in PreparePreview(StopPreview(ch), q) :
            o \in IF r.ok THEN UNION {Stage(s, q) : s \in StartChannel(r.ch, "PREVIEW")}
                  ELSE Stage(r, q)
    BY <1>3 DEF StartRecording
  <2>1. PICK r \in PreparePreview(StopPreview(ch), q) :
            o \in IF r.ok THEN UNION {Stage(s, q) : s \in StartChannel(r.ch, "PREVIEW")}
                  ELSE Stage(r, q)
    BY <2>0
  <2>2. q.zsl = p.zsl
    <3>1. q = CommitParams([p EXCEPT !.hintNew = TRUE])
      BY <2>0 DEF HintSet
    <3> QED BY <3>1 DEF CommitParams, ParamsType
  <2>3. Quiet(ch, StopPreview(ch), p.zsl) /\ StopPreview(ch) \in ChannelsType
    BY QuietOps, NoPreviewLeft
  <2>4. Quiet(StopPreview(ch), r.ch, p.zsl) /\ r.ch \in ChannelsType /\ r.ok
    BY <2>2, <2>3, PrepareQuiet, PreparePreviewProp, PrepareSucceeds
  <2>5. PICK s \in StartChannel(r.ch, "PREVIEW") : o \in Stage(s, q)
    BY <2>1, <2>4
  <2>6. Quiet(r.ch, s.ch, p.zsl) /\ s.ch \in ChannelsType
    BY <2>4, QuietOps DEF Quiet
  <2>7. Quiet(s.ch, o.ch, p.zsl)
    <3>1. CASE s.ok
      BY <1>1, <2>5, <2>6, <3>1
    <3>2. CASE ~s.ok
      <4>1. o = [ok |-> FALSE, ch |-> s.ch, par |-> q]
        BY <2>5, <3>2
      <4>2. o.ch = s.ch
        BY <4>1
      <4> QED BY <2>6, <4>2, QuietOps
    <3> QED BY <3>1, <3>2
  <2> QED BY <2>3, <2>4, <2>6, <2>7, QuietTwice
<1> QED BY <1>2, <1>3

-----------------------------------------------------------------------------
(* The handlers.  Outside the states that take a picture nothing of one      *)
(* runs; within them anything may that the way out will end.                 *)

LEMMA QuietOutside ==
    ASSUME PicInv, m_state \in Outside, m_state' \in Outside, UNCHANGED <<liveThread, mLongshotEnabled>>,
           Quiet(channels, channels', par.zsl)
    PROVE  PicStep
BY DEF PicInv, PicStep, Quiet, Outside, LivePics, LiveEndsWithPicture

LEMMA QuietInPicture ==
    ASSUME PicInv, m_state # "PIC_TAKING", m_state' \in LivePics, UNCHANGED mLongshotEnabled,
           Quiet(channels, channels', par.zsl)
    PROVE  PicStep
BY DEF PicInv, PicStep, Quiet, States, LivePics

LEMMA LivePictureEnds ==
    ASSUME PicInv, m_state \in LivePics, m_state' \in Outside, UNCHANGED mLongshotEnabled,
           Quiet(channels, channels', par.zsl),
           par.zsl \/ (liveThread' = "none" /\ channels'["SNAPSHOT"] # "started")
    PROVE  PicStep
BY DEF PicInv, PicStep, Quiet, Outside, LivePics

LEMMA PicUntouched ==
    ASSUME PicInv, UNCHANGED <<m_state, channels, liveThread, mLongshotEnabled>>
    PROVE  PicStep
BY DEF PicInv, PicStep, PictureStopsPreview, LiveEndsWithPicture, LivePics, PreviewFamily

LEMMA SettingsKeepPictures ==
    ASSUME PicInv, NEW e,
           SetFrameMsg(e) \/ UpdateAndCommit(e) \/ SnapshotDoneIgnored(e) \/ RecordingSetParams(e)
           \/ PreviewingFrameMsg(e) \/ (\E S : NotForThisState(e, S)) \/ (\E evt, ok : Only(evt, ok))
           \/ BurstTakePicture(e)
    PROVE  PicStep
<1>1. UNCHANGED <<m_state, channels, liveThread, mLongshotEnabled>>
  BY DEF SetFrameMsg, UpdateAndCommit, SnapshotDoneIgnored, RecordingSetParams, PreviewingFrameMsg,
         NotForThisState, Ignore, Only, BurstTakePicture, hwVars, confVars, smVars
<1> QED BY <1>1, PicUntouched

\* A restart of preview, where the state stays.
LEMMA PreviewRestartQuiet ==
    ASSUME ~HalCallsFail, PicInv, NEW e, NEW onFail, PreviewRestart(e, onFail), par'.zsl = par.zsl
    PROVE  /\ Quiet(channels, channels', par.zsl)
           /\ UNCHANGED <<m_state, liveThread, mLongshotEnabled>>
<1>1. PICK o \in PrepareAndStart(StopPreview(channels), par') :
          channels' = o.ch /\ m_state' = IF o.ok THEN m_state ELSE onFail
  BY DEF PreviewRestart
<1>2. Quiet(channels, StopPreview(channels), par.zsl) /\ StopPreview(channels) \in ChannelsType
  BY QuietOps, NoPreviewLeft DEF PicInv
<1>3. Quiet(StopPreview(channels), o.ch, par.zsl) /\ o.ok
  BY <1>2, PrepareAndStartQuiet, PrepareAndStartUp
<1>4. UNCHANGED <<liveThread, mLongshotEnabled>>
  BY DEF PreviewRestart
<1> QED BY <1>1, <1>2, <1>3, <1>4, QuietTwice

LEMMA StoppedKeepsPictures ==
    ASSUME PicInv, m_state = "PREVIEW_STOPPED", NEW e, NoLongshot(e), ProcEvtPreviewStoppedState(e)
    PROVE  PicStep
<1>1. channels \in ChannelsType /\ m_state \in Outside
  BY DEF PicInv, Outside, States, LivePics
<1>2. CASE StoppedStartPreview(e)
  <2>1. UNCHANGED <<liveThread, mLongshotEnabled>>
    BY <1>2 DEF StoppedStartPreview, confVars
  <2>2. m_state' \in {"PREVIEW_STOPPED", "PREVIEW_READY", "PREVIEWING"}
    BY <1>2 DEF StoppedStartPreview
  <2>3. Quiet(channels, channels', par.zsl)
    BY <1>1, <1>2, PrepareQuiet, PrepareAndStartQuiet DEF StoppedStartPreview
  <2> QED BY <1>1, <2>1, <2>2, <2>3, QuietOutside DEF Outside, States, LivePics
<1>3. CASE StoppedSettings(e)
  <2>1. CASE UNCHANGED <<smVars, hwVars, mLongshotEnabled>>
    BY <2>1, PicUntouched DEF hwVars, smVars
  <2> QED BY <1>3, <2>1, SettingsKeepPictures DEF StoppedSettings, NoLongshot
<1>4. CASE StoppedRelease(e)
  BY <1>1, <1>4, QuietOps, QuietOutside DEF StoppedRelease, smVars, confVars
<1>5. CASE StoppedOther(e)
  BY <1>5, SettingsKeepPictures DEF StoppedOther
<1> QED BY <1>2, <1>3, <1>4, <1>5, SettingsKeepPictures DEF ProcEvtPreviewStoppedState

LEMMA ReadyKeepsPictures ==
    ASSUME PicInv, m_state = "PREVIEW_READY", NEW e, NoLongshot(e), par'.zsl = par.zsl,
           ProcEvtPreviewReadyState(e)
    PROVE  PicStep
<1>1. channels \in ChannelsType /\ m_state \in Outside
  BY DEF PicInv, Outside, States, LivePics
<1>2. {"PREVIEW_STOPPED", "PREVIEW_READY", "PREVIEWING"} \subseteq Outside
  BY DEF Outside, States, LivePics
<1>3. CASE ReadySetPreviewWindow(e)
  <2>1. UNCHANGED <<liveThread, mLongshotEnabled>>
    BY <1>3 DEF ReadySetPreviewWindow
  <2>2. CASE UNCHANGED <<smVars, channels>>
    BY <2>1, <2>2, PicUntouched DEF smVars
  <2>3. CASE \E o \in StartPreview(channels, par) :
               /\ channels' = IF o.ok THEN o.ch ELSE UnpreparePreview(o.ch)
               /\ m_state' = IF o.ok THEN "PREVIEWING" ELSE "PREVIEW_STOPPED"
    <3>1. PICK o \in StartPreview(channels, par) :
               /\ channels' = IF o.ok THEN o.ch ELSE UnpreparePreview(o.ch)
               /\ m_state' = IF o.ok THEN "PREVIEWING" ELSE "PREVIEW_STOPPED"
      BY <2>3
    <3>2. Quiet(channels, o.ch, par.zsl) /\ o.ch \in ChannelsType
      BY <1>1, QuietOps, StartPreviewAddsNone
    <3>3. Quiet(o.ch, channels', par.zsl)
      BY <3>1, <3>2, QuietOps
    <3>4. m_state' \in Outside
      BY <1>2, <3>1
    <3> QED BY <1>1, <2>1, <3>2, <3>3, <3>4, QuietTwice, QuietOutside
  <2> QED BY <1>3, <2>2, <2>3 DEF ReadySetPreviewWindow
<1>4. CASE ReadyRestart(e)
  <2>1. UNCHANGED <<liveThread, mLongshotEnabled>>
    BY <1>4 DEF ReadyRestart
  <2>2. CASE UNCHANGED <<smVars, channels>>
    BY <2>1, <2>2, PicUntouched DEF smVars
  <2>3. CASE \E o \in PreparePreview(UnpreparePreview(channels), par') :
               channels' = o.ch /\ m_state' = IF o.ok THEN m_state ELSE "PREVIEW_STOPPED"
    <3>1. Quiet(channels, UnpreparePreview(channels), par.zsl) /\ UnpreparePreview(channels) \in ChannelsType
      BY <1>1, QuietOps, NoPreviewLeft
    <3>2. Quiet(UnpreparePreview(channels), channels', par.zsl)
      BY <2>3, <3>1, PrepareQuiet
    <3>3. m_state' \in Outside
      BY <1>1, <1>2, <2>3
    <3> QED BY <1>1, <2>1, <3>1, <3>2, <3>3, QuietTwice, QuietOutside
  <2> QED BY <1>4, <2>2, <2>3 DEF ReadyRestart
<1>5. CASE ReadySettings(e)
  BY <1>5, SettingsKeepPictures DEF ReadySettings, NoLongshot
<1>6. CASE ReadyStopPreview(e)
  BY <1>1, <1>2, <1>6, QuietOps, QuietOutside DEF ReadyStopPreview, confVars
<1>7. CASE ReadyOther(e)
  BY <1>7, SettingsKeepPictures DEF ReadyOther
<1> QED BY <1>3, <1>4, <1>5, <1>6, <1>7, SettingsKeepPictures DEF ProcEvtPreviewReadyState

\* takePicture without ZSL gives up preview before it starts its channel.
LEMMA TakePictureKeepsPictures ==
    ASSUME ~HalCallsFail, PicInv, m_state = "PREVIEWING", NEW e, PreviewingTakePicture(e)
    PROVE  PicStep
<1>1. channels \in ChannelsType /\ m_state \in Outside /\ m_state # "PIC_TAKING"
  BY DEF PicInv, Outside, States, LivePics
<1>2. PICK o \in TakePicture(channels, par, mLongshotEnabled) :
          /\ channels' = o.ch
          /\ \/ par.zsl /\ m_state' = IF o.ok THEN "PREVIEW_PIC_TAKING" ELSE "PREVIEWING"
             \/ ~par.zsl /\ m_state' = IF o.ok THEN "PIC_TAKING" ELSE "PREVIEW_STOPPED"
  BY DEF PreviewingTakePicture, PicInv
<1>3. UNCHANGED <<liveThread, mLongshotEnabled>>
  BY DEF PreviewingTakePicture, confVars
<1>4. CASE par.zsl
  <2>1. o.ch = channels
    BY <1>4, OutcomeProp DEF TakePicture, Failing
  <2>2. Quiet(channels, channels', par.zsl)
    BY <1>1, <1>2, <2>1, QuietOps
  <2>3. m_state' \in LivePics \/ m_state' \in Outside
    BY <1>2, <1>4 DEF LivePics, Outside, States
  <2> QED BY <1>1, <1>3, <2>2, <2>3, QuietInPicture, QuietOutside
<1>5. CASE ~par.zsl
  <2> DEFINE k == IF par.raw THEN "RAW" ELSE "CAPTURE"
             c == DelChannels(channels, {"PREVIEW"})
  <2>1. o = Outcome(TRUE, [c EXCEPT ![k] = "started"])
    BY <1>5 DEF TakePicture, Failing
  <2>2. /\ c \in ChannelsType
        /\ c["PREVIEW"] = "absent"
        /\ \A j \in {"ZSL", "SNAPSHOT", "CAPTURE", "RAW"} : c[j] = channels[j]
    BY <1>1, DelChannelsProp DEF Channels
  <2>3. k \in {"RAW", "CAPTURE"} /\ (k = "RAW" <=> par.raw)
    OBVIOUS
  <2> HIDE DEF k, c
  <2>4. channels' = [c EXCEPT ![k] = "started"] /\ m_state' = "PIC_TAKING"
    BY <1>2, <1>5, <2>1, OutcomeProp
  <2>5. channels' \in ChannelsType
    BY <2>2, <2>4 DEF ChannelsType
  <2>6. \A j \in Channels : j # k => channels'[j] = c[j]
    BY <2>2, <2>4 DEF ChannelsType
  <2>7. /\ channels["ZSL"] = "absent" /\ channels["SNAPSHOT"] # "started" /\ liveThread = "none"
        /\ channels["CAPTURE"] # "started" /\ channels["RAW"] # "started"
    BY <1>1, <1>5 DEF PicInv, LiveEndsWithPicture
  <2>8. /\ channels'["ZSL"] = "absent" /\ channels'["PREVIEW"] = "absent"
        /\ channels'["SNAPSHOT"] # "started"
    BY <2>2, <2>3, <2>6, <2>7 DEF Channels
  <2>9. /\ channels'["CAPTURE"] = "started" => ~par.raw
        /\ channels'["RAW"] = "started" => par.raw
    BY <2>2, <2>3, <2>6, <2>7 DEF Channels
  <2> QED BY <1>3, <1>5, <2>4, <2>5, <2>7, <2>8, <2>9 DEF PicStep, States
<1> QED BY <1>4, <1>5

LEMMA PreviewingKeepsPictures ==
    ASSUME ~HalCallsFail, PicInv, m_state = "PREVIEWING", NEW e, NoLongshot(e), par'.zsl = par.zsl,
           ProcEvtPreviewingState(e)
    PROVE  PicStep
<1>1. channels \in ChannelsType /\ m_state \in Outside /\ m_state # "PIC_TAKING"
  BY DEF PicInv, Outside, States, LivePics
<1>2. {"PREVIEW_STOPPED", "PREVIEWING", "RECORDING", "PREPARE_SNAPSHOT"} \subseteq Outside
  BY DEF Outside, States, LivePics
<1>3. CASE PreviewingSettings(e)
  <2>1. CASE PreviewRestart(e, "PREVIEW_STOPPED")
    BY <1>1, <2>1, PreviewRestartQuiet, QuietOutside
  <2> QED BY <1>3, <2>1, SettingsKeepPictures DEF PreviewingSettings, PreviewingLongshotOn, NoLongshot
<1>4. CASE PreviewingStartPreview(e)
  BY <1>4, PicUntouched DEF PreviewingStartPreview, smVars, hwVars, confVars
<1>5. CASE PreviewingStopPreview(e)
  BY <1>1, <1>2, <1>5, QuietOps, QuietOutside DEF PreviewingStopPreview, confVars
<1>6. CASE PreviewingStartRecording(e)
  <2>1. PICK o \in StartRecording(channels, par) :
            channels' = o.ch /\ m_state' = IF o.ok THEN "RECORDING" ELSE m_state
    BY <1>6 DEF PreviewingStartRecording
  <2>2. UNCHANGED <<liveThread, mLongshotEnabled>>
    BY <1>6 DEF PreviewingStartRecording
  <2>3. Quiet(channels, channels', par.zsl)
    BY <2>1, StartRecordingQuiet DEF PicInv
  <2>4. m_state' \in Outside
    BY <1>1, <1>2, <2>1
  <2> QED BY <1>1, <2>2, <2>3, <2>4, QuietOutside
<1>7. CASE PreviewingPrepareSnapshot(e)
  <2>1. /\ UNCHANGED <<channels, liveThread, mLongshotEnabled>>
        /\ m_state' \in {"PREVIEWING", "PREPARE_SNAPSHOT"}
    BY <1>7 DEF PreviewingPrepareSnapshot, Only, smVars, hwVars, confVars
  <2> QED BY <1>1, <1>2, <2>1, QuietOps, QuietOutside
<1>8. CASE PreviewingTakePicture(e)
  BY <1>8, TakePictureKeepsPictures
<1>9. CASE PreviewingLiveSnapshot(e)
  <2>1. UNCHANGED <<channels, mLongshotEnabled>> /\ m_state' \in LivePics
    BY <1>9 DEF PreviewingLiveSnapshot, TakeLiveSnapshot, confVars, LivePics, Rc
  <2> QED BY <1>1, <2>1, QuietOps, QuietInPicture
<1>10. CASE PreviewingOther(e)
  BY <1>10, SettingsKeepPictures DEF PreviewingOther
<1> QED BY <1>3, <1>4, <1>5, <1>6, <1>7, <1>8, <1>9, <1>10, SettingsKeepPictures
        DEF ProcEvtPreviewingState

LEMMA PrepareSnapshotKeepsPictures ==
    ASSUME PicInv, m_state = "PREPARE_SNAPSHOT", NEW e, ProcEvtPrepareSnapshotState(e)
    PROVE  PicStep
<1>1. channels \in ChannelsType
  BY DEF PicInv
<1>2. CASE PreparingDone(e)
  BY <1>1, <1>2, QuietOps, QuietOutside DEF PreparingDone, hwVars, confVars, States, Outside, LivePics
<1>3. CASE PreparingApi(e)
  BY <1>3, SettingsKeepPictures DEF PreparingApi
<1> QED BY <1>2, <1>3, SettingsKeepPictures DEF ProcEvtPrepareSnapshotState

\* cancelPicture deletes the one picture channel that may run.
LEMMA PicTakingKeepsPictures ==
    ASSUME ~EarlyRestart, PicInv, m_state = "PIC_TAKING", NEW e, NoLongshot(e),
           ProcEvtPicTakingState(e)
    PROVE  PicStep
<1>1. /\ channels \in ChannelsType /\ ~par.zsl
      /\ channels["ZSL"] = "absent" /\ liveThread = "none"
      /\ channels["CAPTURE"] = "started" => ~par.raw
      /\ channels["RAW"] = "started" => par.raw
      /\ \A k \in {"ZSL", "PREVIEW", "SNAPSHOT"} : channels[k] # "started"
  BY DEF PicInv, LiveEndsWithPicture, PictureStopsPreview, PreviewFamily
<1>2. CASE PicSettings(e)
  BY <1>2, SettingsKeepPictures DEF PicSettings, NoLongshot
<1>3. CASE PicCancel(e) \/ PicSnapshotDone(e)
  <2> DEFINE k == IF par.raw THEN "RAW" ELSE "CAPTURE"
  <2>1. /\ channels' = DelChannels(channels, {k}) /\ m_state' = "PREVIEW_STOPPED"
        /\ UNCHANGED <<liveThread, mLongshotEnabled>>
    BY <1>1, <1>3 DEF PicCancel, PicSnapshotDone, confVars, CancelPicture
  <2>2. k \in {"RAW", "CAPTURE"} /\ (k = "RAW" <=> par.raw)
    OBVIOUS
  <2> HIDE DEF k
  <2>3. /\ channels' \in ChannelsType
        /\ channels'[k] = "absent"
        /\ \A j \in Channels : j # k => channels'[j] = channels[j]
    BY <1>1, <2>1, <2>2, DelChannelsProp DEF Channels
  <2>4. channels'["ZSL"] = "absent" /\ channels'["SNAPSHOT"] # "started"
    BY <1>1, <2>2, <2>3 DEF Channels
  <2>5. channels'["CAPTURE"] # "started" /\ channels'["RAW"] # "started"
    BY <1>1, <2>2, <2>3 DEF Channels
  <2> QED BY <1>1, <2>1, <2>3, <2>4, <2>5 DEF PicStep, States
<1>4. CASE PicOther(e)
  BY <1>4, SettingsKeepPictures DEF PicOther
<1>5. CASE PicDaemonDied(e)
  BY <1>5, PicUntouched DEF PicDaemonDied, smVars, hwVars, confVars
<1>6. CASE PicStopCaptureChannel(e)
  <2>1. channels' = channels \/ channels' = StopChannels(channels, {"CAPTURE"})
    BY <1>6 DEF PicStopCaptureChannel
  <2>2. UNCHANGED <<m_state, liveThread, mLongshotEnabled>>
    BY <1>6 DEF PicStopCaptureChannel, smVars, confVars
  <2>3. CASE channels' = channels
    BY <2>2, <2>3, PicUntouched
  <2>4. CASE channels' = StopChannels(channels, {"CAPTURE"})
    <3>1. /\ channels' \in ChannelsType
          /\ channels'["CAPTURE"] # "started"
          /\ \A j \in {"ZSL", "PREVIEW", "SNAPSHOT", "RAW"} : channels'[j] = channels[j]
      BY <1>1, <2>4, StopChannelsProp DEF Channels
    <3>2. \A k \in {"ZSL", "PREVIEW", "SNAPSHOT"} : channels'[k] # "started"
      BY <1>1, <3>1
    <3> QED BY <1>1, <2>2, <3>1, <3>2 DEF PicStep, States
  <2> QED BY <2>1, <2>3, <2>4
<1> QED BY <1>2, <1>3, <1>4, <1>5, <1>6, SettingsKeepPictures DEF ProcEvtPicTakingState

LEMMA RecordingKeepsPictures ==
    ASSUME ~HalCallsFail, PicInv, m_state = "RECORDING", NEW e, NoLongshot(e), ProcEvtRecordingState(e)
    PROVE  PicStep
<1>1. channels \in ChannelsType /\ m_state \in Outside /\ m_state # "PIC_TAKING"
  BY DEF PicInv, Outside, States, LivePics
<1>2. {"PREVIEW_STOPPED", "PREVIEWING"} \subseteq Outside
  BY DEF Outside, States, LivePics
<1>3. CASE RecordingSettings(e)
  BY <1>3, SettingsKeepPictures DEF RecordingSettings, NoLongshot
<1>4. CASE RecordingTakePicture(e)
  <2>1. UNCHANGED <<channels, mLongshotEnabled>> /\ m_state' \in LivePics
    BY <1>4 DEF RecordingTakePicture, TakeLiveSnapshot, confVars, LivePics, Rc
  <2> QED BY <1>1, <2>1, QuietOps, QuietInPicture
<1>5. CASE RecordingStop(e)
  <2>1. Quiet(channels, StopRecording(channels), par.zsl) /\ StopRecording(channels) \in ChannelsType
    BY <1>1, QuietOps, StopRecordingProp
  <2>2. Quiet(StopRecording(channels), StopPreview(StopRecording(channels)), par.zsl)
    BY <2>1, QuietOps
  <2>3. /\ UNCHANGED <<liveThread, mLongshotEnabled>>
        /\ m_state' \in {"PREVIEW_STOPPED", "PREVIEWING"}
        /\ channels' \in {StopRecording(channels), StopPreview(StopRecording(channels))}
    BY <1>5 DEF RecordingStop, confVars
  <2>4. Quiet(channels, channels', par.zsl)
    BY <2>1, <2>2, <2>3, QuietTwice
  <2> QED BY <1>1, <1>2, <2>3, <2>4, QuietOutside
<1>6. CASE RecordingOther(e)
  BY <1>6, SettingsKeepPictures DEF RecordingOther
<1> QED BY <1>3, <1>4, <1>5, <1>6, SettingsKeepPictures DEF ProcEvtRecordingState

\* cancelLiveSnapshot leaves neither the thread nor its channel, and what
\* stops recording or preview afterwards brings neither back.
LEMMA LiveStoppedEnds ==
    ASSUME channels \in ChannelsType
    PROVE  /\ LiveStopped \in ChannelsType
           /\ LiveStopped["SNAPSHOT"] # "started"
           /\ \A zsl : Quiet(channels, LiveStopped, zsl)
           /\ \A c, zsl : Quiet(LiveStopped, c, zsl) => /\ c["SNAPSHOT"] # "started"
                                                        /\ Quiet(channels, c, zsl)
<1>1. LiveStopped \in ChannelsType /\ LiveStopped["SNAPSHOT"] # "started"
  BY StopChannelsProp DEF LiveStopped, Channels
<1>2. \A zsl : Quiet(channels, LiveStopped, zsl)
  BY QuietOps DEF LiveStopped
<1>3. ASSUME NEW c, NEW zsl, Quiet(LiveStopped, c, zsl)
      PROVE  c["SNAPSHOT"] # "started" /\ Quiet(channels, c, zsl)
  BY <1>1, <1>2, <1>3, QuietTwice DEF Quiet
<1> QED BY <1>1, <1>2, <1>3

LEMMA VideoPicKeepsPictures ==
    ASSUME PicInv, m_state = "VIDEO_PIC_TAKING", NEW e, NoLongshot(e), ProcEvtVideoPicTakingState(e)
    PROVE  PicStep
<1>1. channels \in ChannelsType /\ m_state \in LivePics
  BY DEF PicInv, LivePics
<1>2. {"PREVIEW_STOPPED", "PREVIEWING", "RECORDING"} \subseteq Outside
  BY DEF Outside, States, LivePics
<1>3. CASE RecordingSettings(e)
  BY <1>3, SettingsKeepPictures DEF RecordingSettings, NoLongshot
<1>4. CASE VideoPicStop(e) \/ VideoPicSnapshotDone(e)
  <2>1. /\ liveThread' = "none" /\ UNCHANGED mLongshotEnabled
        /\ m_state' \in {"PREVIEW_STOPPED", "PREVIEWING", "RECORDING"}
        /\ channels' \in {StopRecording(LiveStopped), StopPreview(StopRecording(LiveStopped)), LiveStopped}
    BY <1>4 DEF VideoPicStop, VideoPicSnapshotDone, CancelLiveSnapshot, confVars
  <2>2. LiveStopped \in ChannelsType
    BY <1>1, LiveStoppedEnds
  <2>3. Quiet(LiveStopped, StopRecording(LiveStopped), par.zsl) /\ StopRecording(LiveStopped) \in ChannelsType
    BY <2>2, QuietOps, StopRecordingProp
  <2>4. Quiet(LiveStopped, StopPreview(StopRecording(LiveStopped)), par.zsl)
    BY <2>3, QuietOps, QuietTwice
  <2>5. Quiet(LiveStopped, channels', par.zsl)
    BY <2>1, <2>2, <2>3, <2>4, QuietOps
  <2>6. channels'["SNAPSHOT"] # "started" /\ Quiet(channels, channels', par.zsl)
    BY <1>1, <2>5, LiveStoppedEnds
  <2> QED BY <1>1, <1>2, <2>1, <2>6, LivePictureEnds
<1>5. CASE VideoPicOther(e)
  BY <1>5, SettingsKeepPictures DEF VideoPicOther
<1> QED BY <1>3, <1>4, <1>5, SettingsKeepPictures DEF ProcEvtVideoPicTakingState

LEMMA PreviewPicKeepsPictures ==
    ASSUME ~HalCallsFail, PicInv, m_state = "PREVIEW_PIC_TAKING", NEW e, NoLongshot(e),
           par'.zsl = par.zsl, ProcEvtPreviewPicTakingState(e)
    PROVE  PicStep
<1>1. channels \in ChannelsType /\ m_state \in LivePics /\ m_state # "PIC_TAKING" /\ ~mLongshotEnabled
  BY DEF PicInv, LivePics
<1>2. {"PREVIEW_STOPPED", "PREVIEWING"} \subseteq Outside
  BY DEF Outside, States, LivePics
<1>3. /\ PictureEnded \in ChannelsType
      /\ Quiet(channels, PictureEnded, par.zsl)
      /\ par.zsl \/ \A c : Quiet(PictureEnded, c, par.zsl) => c["SNAPSHOT"] # "started"
  <2>1. CASE par.zsl
    BY <1>1, <2>1, QuietOps DEF PictureEnded, Quiet
  <2>2. CASE ~par.zsl
    BY <1>1, <2>2, LiveStoppedEnds DEF PictureEnded
  <2> QED BY <2>1, <2>2
<1>4. CASE PreviewPicSettings(e)
  <2>1. CASE PreviewRestart(e, "PIC_TAKING")
    BY <1>1, <2>1, PreviewRestartQuiet, QuietInPicture
  <2> QED BY <1>4, <2>1, SettingsKeepPictures DEF PreviewPicSettings, NoLongshot
<1>5. CASE PreviewPicCancel(e) \/ PreviewPicSnapshotDone(e)
  <2>1. /\ par.zsl \/ liveThread' = "none"
        /\ UNCHANGED mLongshotEnabled
        /\ m_state' \in {"PREVIEW_STOPPED", "PREVIEWING"}
        /\ channels' \in {PictureEnded, UnpreparePreview(PictureEnded)}
    BY <1>1, <1>5 DEF PreviewPicCancel, PreviewPicSnapshotDone, PicturePart, CancelLiveSnapshot, confVars
  <2>2. Quiet(PictureEnded, channels', par.zsl)
    BY <1>3, <2>1, QuietOps
  <2>3. Quiet(channels, channels', par.zsl) /\ (par.zsl \/ channels'["SNAPSHOT"] # "started")
    BY <1>3, <2>2, QuietTwice
  <2> QED BY <1>1, <1>2, <2>1, <2>3, LivePictureEnds
<1>6. CASE PreviewPicStartRecording(e)
  <2>1. CASE Only(e.evt, FALSE)
    BY <2>1, SettingsKeepPictures
  <2>2. CASE \E o \in StartRecording(channels, par) :
               /\ channels' = o.ch
               /\ m_state' = IF o.ok THEN "VIDEO_PIC_TAKING" ELSE m_state
               /\ UNCHANGED mLongshotEnabled
    <3>1. Quiet(channels, channels', par.zsl)
      BY <2>2, StartRecordingQuiet DEF PicInv
    <3>2. m_state' \in LivePics
      BY <1>1, <2>2 DEF LivePics
    <3> QED BY <1>1, <2>2, <3>1, <3>2, QuietInPicture
  <2> QED BY <1>6, <2>1, <2>2 DEF PreviewPicStartRecording
<1>7. CASE PreviewPicPrepareSnapshot(e)
  <2>1. Only(e.evt, FALSE) \/ UNCHANGED <<smVars, channels, liveThread, confVars>>
    BY <1>7 DEF PreviewPicPrepareSnapshot
  <2> QED BY <2>1, SettingsKeepPictures, PicUntouched DEF smVars, confVars
<1>8. CASE PreviewPicOther(e) \/ PreviewPicRetro(e)
  BY <1>8, SettingsKeepPictures DEF PreviewPicOther, PreviewPicRetro
<1> QED BY <1>4, <1>5, <1>6, <1>7, <1>8, SettingsKeepPictures DEF ProcEvtPreviewPicTakingState

\* SET_PARAMS with the mode and the format as they are.
KeepsMode(e) == e.evt = "SET_PARAMS" => e.arg.zsl = par.zsl /\ e.arg.raw = par.raw

LEMMA ModeStays ==
    ASSUME ~HalCallsFail, par \in ParamsType, par.zslNew = par.zsl, NEW e, Carries(e), KeepsMode(e),
           ParMoves(e)
    PROVE  par'.zsl = par.zsl /\ par'.raw = par.raw /\ par'.zslNew = par.zsl
<1>1. CASE par' = par
  BY <1>1
<1>2. CASE /\ e.evt = "SET_PARAMS"
           /\ par' \in {UpdateParams(par, e.arg), CommitParams(UpdateParams(par, e.arg))}
  <2>1. e.arg \in [zsl : BOOLEAN, hint : BOOLEAN, raw : BOOLEAN]
    BY <1>2, CameraAssumption DEF Carries
  <2>2. /\ UpdateParams(par, e.arg) \in ParamsType
        /\ UpdateParams(par, e.arg).zsl = par.zsl
        /\ UpdateParams(par, e.arg).zslNew = par.zsl
        /\ UpdateParams(par, e.arg).raw = par.raw
    BY <1>2, <2>1 DEF UpdateParams, HintChanged, ParamsType, KeepsMode
  <2>3. ASSUME NEW p \in ParamsType, p.zsl = par.zsl, p.zslNew = par.zsl, p.raw = par.raw
        PROVE  /\ CommitParams(p).zsl = par.zsl
               /\ CommitParams(p).zslNew = par.zsl
               /\ CommitParams(p).raw = par.raw
    BY <2>3 DEF CommitParams, ParamsType
  <2> QED BY <1>2, <2>2, <2>3
<1>3. CASE par' \in HintSet(par)
  <2>1. par' = CommitParams([par EXCEPT !.hintNew = TRUE])
    BY <1>3 DEF HintSet
  <2> QED BY <2>1 DEF CommitParams, ParamsType
<1> QED BY <1>1, <1>2, <1>3 DEF ParMoves

LEMMA PicStepSuffices ==
    ASSUME PicInv, PicStep, par' \in ParamsType, par'.zsl = par.zsl, par'.raw = par.raw,
           par'.zslNew = par.zsl, VideoInv'
    PROVE  PicInv'
<1>1. PictureStopsPreview'
  BY DEF PicStep, PictureStopsPreview, PreviewFamily, VideoInv, VideoRunsWhileRecording
<1>2. LiveEndsWithPicture'
  BY DEF PicStep, LiveEndsWithPicture, LivePics
<1> QED BY <1>1, <1>2 DEF PicInv, PicStep, VideoInv

LEMMA StateMachineKeepsPictures ==
    ASSUME ~HalCallsFail, ~EarlyRestart, PicInv, NEW e, NoLongshot(e), Carries(e), KeepsMode(e),
           StateMachine(e)
    PROVE  PicInv'
<1>1. par' \in ParamsType
  BY HandlersMovePar, ParamsStayTyped DEF PicInv
<1>2. par'.zsl = par.zsl /\ par'.raw = par.raw /\ par'.zslNew = par.zsl
  BY HandlersMovePar, ModeStays DEF PicInv
<1>3. PicStep
  BY <1>2, StoppedKeepsPictures, ReadyKeepsPictures, PreviewingKeepsPictures,
     PrepareSnapshotKeepsPictures, PicTakingKeepsPictures, RecordingKeepsPictures,
     VideoPicKeepsPictures, PreviewPicKeepsPictures DEF StateMachine
<1>4. VideoInv'
  BY StateMachineStep DEF PicInv, VideoInv
<1> QED BY <1>1, <1>2, <1>3, <1>4, PicStepSuffices

\* In PIC_TAKING the live snapshot thread is not running.
LEMMA LiveSnapshotKeepsPictures ==
    ASSUME PicInv, LiveSnapshot
    PROVE  PicInv'
<1>1. UNCHANGED <<m_state, par, mLongshotEnabled>> /\ liveThread = "running"
  BY DEF LiveSnapshot, smVars, confVars
<1>2. channels' = channels \/ \E o \in StartChannel(channels, "SNAPSHOT") : channels' = o.ch
  BY DEF LiveSnapshot
<1>3. channels' \in ChannelsType /\ \A k \in Channels \ {"SNAPSHOT"} : channels'[k] = channels[k]
  BY <1>2, StartChannelProp DEF PicInv, Channels
<1>4. par.zsl \/ m_state \in LivePics
  BY <1>1 DEF PicInv, LiveEndsWithPicture, LivePics
<1>5. m_state # "PIC_TAKING"
  BY <1>4 DEF PicInv, LivePics
<1>6. /\ channels'["ZSL"] = channels["ZSL"]
      /\ channels'["CAPTURE"] = channels["CAPTURE"]
      /\ channels'["RAW"] = channels["RAW"]
  BY <1>3 DEF Channels
<1>7. PicStep
  BY <1>1, <1>3, <1>4, <1>5, <1>6 DEF PicInv, PicStep
<1>8. VideoInv'
  BY LiveSnapshotStep DEF PicInv, VideoInv
<1> QED BY <1>1, <1>7, <1>8, PicStepSuffices DEF PicInv

\* A picture's own channel runs only while the picture is taken, no preview
\* channel runs beside it, and a live snapshot ends with its thread joined and
\* its channel stopped: whichever command or event ends the picture.
THEOREM PicturesAreRight ==
    ASSUME ~HalCallsFail, ~EarlyRestart, KeepMode, {"LONGSHOT_ON", "LONGSHOT_OFF"} \cap Commands = {}
    PROVE  ESpec => []PicturesOwnTheirChannels
<1> DEFINE OwnInv == PicInv /\ pending \subseteq PostedEvents
<1>1. EInit => OwnInv
  <2>1. ASSUME EInit PROVE par \in ParamsType /\ par.zslNew = par.zsl
    <3>1. PICK s \in Settings : par = CommittedParams(s)
      BY <2>1 DEF EInit, Init
    <3>2. s \in [zsl : BOOLEAN, hint : BOOLEAN, raw : BOOLEAN]
      BY CameraAssumption
    <3> QED BY <3>1, <3>2 DEF CommittedParams, ParamsType
  <2>2. ASSUME EInit PROVE /\ channels \in ChannelsType
                           /\ \A k \in Channels : channels[k] = "absent"
                           /\ m_state = "PREVIEW_STOPPED" /\ liveThread = "none"
                           /\ ~mLongshotEnabled /\ pending = {}
    BY <2>2 DEF EInit, Init, ChannelsType
  <2>3. ASSUME EInit PROVE VideoRunsWhileRecording /\ PictureStopsPreview /\ LiveEndsWithPicture
    BY <2>2, <2>3 DEF VideoRunsWhileRecording, PictureStopsPreview, LiveEndsWithPicture, Channels
  <2> QED BY <2>1, <2>2, <2>3 DEF PicInv, States, Channels
<1>2. OwnInv /\ [ENext]_evVars => OwnInv'
  <2> SUFFICES ASSUME OwnInv, [ENext]_evVars PROVE OwnInv'
    OBVIOUS
  <2>1. ASSUME NEW evt, evt \notin {"LONGSHOT_ON", "LONGSHOT_OFF"}, NEW arg,
               arg \in Arguments(evt) \/ evt # "SET_PARAMS", StateMachine(Event(evt, arg))
        PROVE  PicInv'
    <3>1. NoLongshot(Event(evt, arg))
      BY <2>1 DEF Event, NoLongshot
    <3>2. KeepsMode(Event(evt, arg))
      BY <2>1 DEF Event, KeepsMode, Arguments
    <3> QED BY <2>1, <3>1, <3>2, EventsCarry, StateMachineKeepsPictures
  <2>2. UNCHANGED <<smVars, channels, liveThread, confVars>> => PicInv'
    BY DEF smVars, confVars, PicInv, VideoRunsWhileRecording, PictureStopsPreview, LiveEndsWithPicture
  <2>3. PostedEvents \cap {"SET_PARAMS", "LONGSHOT_ON", "LONGSHOT_OFF"} = {}
    BY DEF PostedEvents
  <2>4. PicInv'
    <3>1. CASE \E evt \in Commands : \E arg \in Arguments(evt) : StateMachine(Event(evt, arg))
      BY <2>1, <3>1
    <3>2. CASE \E evt \in PostedEvents : StateMachine(Event(evt, TRUE))
      BY <2>1, <2>3, <3>2
    <3> QED BY <2>2, <3>1, <3>2, EventOrThread, LiveSnapshotKeepsPictures
  <2> QED BY <2>4, EventOrThread
<1>3. OwnInv => PicturesOwnTheirChannels
  BY DEF PicInv, PicturesOwnTheirChannels, CaptureOnlyInPicture
<1> QED BY <1>1, <1>2, <1>3, PTL DEF ESpec

-----------------------------------------------------------------------------
(* Counting in the queues: by the names of what is in them.                  *)

PlacesOf(f, v) == {i \in DOMAIN f : f[i] = v}

CountOf(f, v) == Cardinality(PlacesOf(f, v))

Evts(q) == [i \in DOMAIN q |-> q[i].evt]

Firsts(r) == [i \in DOMAIN r |-> r[i][1]]

LEMMA PlacesFinite ==
    ASSUME NEW S, NEW s \in Seq(S), NEW v
    PROVE  IsFiniteSet(PlacesOf(s, v)) /\ CountOf(s, v) \in Nat
<1>1. DOMAIN s = 1 .. Len(s) /\ Len(s) \in Nat
  OBVIOUS
<1>2. PlacesOf(s, v) \subseteq 1 .. Len(s)
  BY <1>1 DEF PlacesOf
<1>3. IsFiniteSet(1 .. Len(s))
  BY <1>1, FS_Interval
<1> QED BY <1>2, <1>3, FS_Subset, FS_CardinalityType DEF CountOf

LEMMA CountNone ==
    ASSUME NEW f, NEW v, \A i \in DOMAIN f : f[i] # v
    PROVE  CountOf(f, v) = 0
<1>1. PlacesOf(f, v) = {}
  BY DEF PlacesOf
<1> QED BY <1>1, FS_EmptySet DEF CountOf

LEMMA CountSome ==
    ASSUME NEW S, NEW s \in Seq(S), NEW v, NEW i \in DOMAIN s, s[i] = v
    PROVE  CountOf(s, v) >= 1
<1>1. PlacesOf(s, v) # {}
  BY DEF PlacesOf
<1> QED BY <1>1, PlacesFinite, FS_EmptySet DEF CountOf

LEMMA CountAppend ==
    ASSUME NEW S, NEW s \in Seq(S), NEW x \in S, NEW v
    PROVE  CountOf(Append(s, x), v) = IF x = v THEN CountOf(s, v) + 1 ELSE CountOf(s, v)
<1>1. DOMAIN s = 1 .. Len(s) /\ Len(s) \in Nat /\ DOMAIN Append(s, x) = 1 .. (Len(s) + 1)
  OBVIOUS
<1>2. /\ \A i \in 1 .. Len(s) : Append(s, x)[i] = s[i]
      /\ Append(s, x)[Len(s) + 1] = x
  OBVIOUS
<1>3. CASE x = v
  <2>1. PlacesOf(Append(s, x), v) = PlacesOf(s, v) \cup {Len(s) + 1}
    BY <1>1, <1>2, <1>3 DEF PlacesOf
  <2>2. Len(s) + 1 \notin PlacesOf(s, v)
    BY <1>1 DEF PlacesOf
  <2> QED BY <1>3, <2>1, <2>2, PlacesFinite, FS_AddElement DEF CountOf
<1>4. CASE x # v
  <2>1. PlacesOf(Append(s, x), v) = PlacesOf(s, v)
    BY <1>1, <1>2, <1>4 DEF PlacesOf
  <2> QED BY <1>4, <2>1 DEF CountOf
<1> QED BY <1>3, <1>4

LEMMA RemoveAtProp ==
    ASSUME NEW S, NEW s \in Seq(S), NEW i \in 1 .. Len(s)
    PROVE  /\ RemoveAt(s, i) \in Seq(S)
           /\ Len(RemoveAt(s, i)) = Len(s) - 1
           /\ \A j \in 1 .. (Len(s) - 1) : RemoveAt(s, i)[j] = IF j < i THEN s[j] ELSE s[j + 1]
<1> DEFINE a == SubSeq(s, 1, i - 1)
           b == SubSeq(s, i + 1, Len(s))
<1>1. a \in Seq(S) /\ Len(a) = i - 1 /\ \A j \in 1 .. (i - 1) : a[j] = s[j]
  OBVIOUS
<1>2. b \in Seq(S) /\ Len(b) = Len(s) - i /\ \A j \in 1 .. (Len(s) - i) : b[j] = s[i + j]
  OBVIOUS
<1>3. RemoveAt(s, i) = a \o b
  BY DEF RemoveAt
<1> HIDE DEF a, b
<1>4. /\ a \o b \in Seq(S) /\ Len(a \o b) = Len(s) - 1
      /\ \A j \in 1 .. (Len(s) - 1) : (a \o b)[j] = IF j <= i - 1 THEN a[j] ELSE b[j - (i - 1)]
  <2>1. Len(a) + Len(b) = Len(s) - 1
    BY <1>1, <1>2
  <2>2. /\ a \o b \in Seq(S) /\ Len(a \o b) = Len(a) + Len(b)
        /\ \A j \in 1 .. (Len(a) + Len(b)) :
             (a \o b)[j] = IF j <= Len(a) THEN a[j] ELSE b[j - Len(a)]
    BY <1>1, <1>2, ConcatProperties
  <2> QED BY <1>1, <2>1, <2>2
<1>5. ASSUME NEW j \in 1 .. (Len(s) - 1) PROVE (a \o b)[j] = IF j < i THEN s[j] ELSE s[j + 1]
  <2>1. CASE j < i
    BY <1>1, <1>4, <2>1
  <2>2. CASE ~(j < i)
    <3>1. (a \o b)[j] = b[j - (i - 1)]
      BY <1>4, <2>2
    <3>2. b[j - (i - 1)] = s[i + (j - (i - 1))]
      <4>1. j - (i - 1) \in 1 .. (Len(s) - i)
        BY <2>2
      <4> QED BY <1>2, <4>1
    <3>3. i + (j - (i - 1)) = j + 1
      OBVIOUS
    <3> QED BY <2>2, <3>1, <3>2, <3>3
  <2> QED BY <2>1, <2>2
<1> QED BY <1>3, <1>4, <1>5

LEMMA CountRemoveAt ==
    ASSUME NEW S, NEW s \in Seq(S), NEW i \in 1 .. Len(s), NEW v
    PROVE  CountOf(RemoveAt(s, i), v) = IF s[i] = v THEN CountOf(s, v) - 1 ELSE CountOf(s, v)
<1> DEFINE r == RemoveAt(s, i)
           n == Len(s)
           Place(j) == IF j < i THEN j ELSE j + 1
           f == [j \in PlacesOf(r, v) |-> Place(j)]
<1>1. n \in Nat /\ DOMAIN s = 1 .. n /\ r \in Seq(S) /\ DOMAIN r = 1 .. (n - 1)
  BY RemoveAtProp
<1>2. \A j \in 1 .. (n - 1) : r[j] = s[Place(j)] /\ Place(j) \in 1 .. n /\ Place(j) # i
  <2> SUFFICES ASSUME NEW j \in 1 .. (n - 1)
               PROVE  r[j] = s[Place(j)] /\ Place(j) \in 1 .. n /\ Place(j) # i
    OBVIOUS
  <2>1. r[j] = IF j < i THEN s[j] ELSE s[j + 1]
    BY RemoveAtProp
  <2> QED BY <1>1, <2>1
<1>3. \A j, k \in 1 .. (n - 1) : Place(j) = Place(k) => j = k
  BY <1>1
<1>4. \A k \in 1 .. n : k # i => \E j \in 1 .. (n - 1) : Place(j) = k
  <2> SUFFICES ASSUME NEW k \in 1 .. n, k # i PROVE \E j \in 1 .. (n - 1) : Place(j) = k
    OBVIOUS
  <2>1. CASE k < i
    BY <1>1, <2>1
  <2>2. CASE k > i
    <3>1. k - 1 \in 1 .. (n - 1) /\ Place(k - 1) = k
      BY <1>1, <2>2
    <3> QED BY <3>1
  <2> QED BY <1>1, <2>1, <2>2
<1> HIDE DEF Place, n, r
<1>5. f \in Bijection(PlacesOf(r, v), PlacesOf(s, v) \ {i})
  <2>1. \A j \in PlacesOf(r, v) : Place(j) \in PlacesOf(s, v) \ {i}
    BY <1>1, <1>2 DEF PlacesOf
  <2>2. \A j, k \in PlacesOf(r, v) : f[j] = f[k] => j = k
    BY <1>1, <1>3 DEF PlacesOf
  <2>3. \A k \in PlacesOf(s, v) \ {i} : \E j \in PlacesOf(r, v) : f[j] = k
    BY <1>1, <1>2, <1>4 DEF PlacesOf
  <2>4. f \in [PlacesOf(r, v) -> PlacesOf(s, v) \ {i}]
    BY <2>1
  <2> HIDE DEF f
  <2> QED BY <2>2, <2>3, <2>4 DEF Bijection, Injection, Surjection, IsInjective
<1>6. IsFiniteSet(PlacesOf(r, v)) /\ IsFiniteSet(PlacesOf(s, v))
  BY <1>1, PlacesFinite
<1>7. CountOf(r, v) = Cardinality(PlacesOf(s, v) \ {i})
  BY <1>5, <1>6, FS_Bijection DEF ExistsBijection, CountOf
<1>8. CASE s[i] = v
  <2>1. i \in PlacesOf(s, v)
    BY <1>1, <1>8 DEF PlacesOf, n
  <2> QED BY <1>6, <1>7, <1>8, <2>1, FS_RemoveElement DEF CountOf, r
<1>9. CASE s[i] # v
  <2>1. PlacesOf(s, v) \ {i} = PlacesOf(s, v)
    BY <1>9 DEF PlacesOf
  <2> QED BY <1>7, <1>9, <2>1 DEF CountOf, r
<1> QED BY <1>8, <1>9

LEMMA CountTail ==
    ASSUME NEW S, NEW s \in Seq(S), s # <<>>, NEW v
    PROVE  CountOf(Tail(s), v) = IF Head(s) = v THEN CountOf(s, v) - 1 ELSE CountOf(s, v)
<1>1. 1 \in 1 .. Len(s) /\ Head(s) = s[1]
  OBVIOUS
<1>2. Tail(s) = RemoveAt(s, 1)
  <2>1. /\ RemoveAt(s, 1) \in Seq(S)
        /\ Len(RemoveAt(s, 1)) = Len(s) - 1
        /\ \A j \in 1 .. (Len(s) - 1) : RemoveAt(s, 1)[j] = s[j + 1]
    BY <1>1, RemoveAtProp
  <2>2. /\ Tail(s) \in Seq(S)
        /\ Len(Tail(s)) = Len(s) - 1
        /\ \A j \in 1 .. (Len(s) - 1) : Tail(s)[j] = s[j + 1]
    BY HeadTailProperties
  <2>3. \A j \in 1 .. Len(Tail(s)) : Tail(s)[j] = RemoveAt(s, 1)[j]
    BY <2>1, <2>2
  <2> QED BY <2>1, <2>2, <2>3, SeqEqual
<1>3. CountOf(RemoveAt(s, 1), v) = IF s[1] = v THEN CountOf(s, v) - 1 ELSE CountOf(s, v)
  BY <1>1, CountRemoveAt
<1> QED BY <1>1, <1>2, <1>3

-----------------------------------------------------------------------------
(* The queues: what queueing and taking do to their members and counts.      *)

IsSeq(q) == \E S : q \in Seq(S)

LEMMA CountInOf ==
    ASSUME NEW q, NEW v
    PROVE  CountIn(q, v) = CountOf(Evts(q), v)
<1>1. DOMAIN Evts(q) = DOMAIN q /\ \A i \in DOMAIN q : Evts(q)[i] = q[i].evt
  BY DEF Evts
<1>2. {i \in DOMAIN q : q[i].evt = v} = PlacesOf(Evts(q), v)
  BY <1>1 DEF PlacesOf
<1> QED BY <1>2 DEF CountIn, CountOf

LEMMA EvtsProp ==
    ASSUME NEW S, NEW q \in Seq(S)
    PROVE  /\ Evts(q) \in Seq({m.evt : m \in S})
           /\ Len(Evts(q)) = Len(q)
           /\ \A i \in 1 .. Len(q) : Evts(q)[i] = q[i].evt /\ q[i] \in S
<1> DEFINE T == {m.evt : m \in S}
<1>1. DOMAIN q = 1 .. Len(q) /\ Len(q) \in Nat /\ \A i \in 1 .. Len(q) : q[i] \in S
  BY LenProperties, ElementOfSeq
<1>2. \A i \in 1 .. Len(q) : q[i].evt \in T
  BY <1>1
<1> HIDE DEF T
<1>3. Evts(q) = [i \in 1 .. Len(q) |-> q[i].evt]
  BY <1>1 DEF Evts
<1>4. Evts(q) \in [1 .. Len(q) -> T]
  BY <1>2, <1>3
<1>5. Evts(q) \in Seq(T)
  BY <1>1, <1>4, SeqDef
<1>6. Len(Evts(q)) = Len(q)
  BY <1>1, <1>3, <1>5, LenProperties
<1> QED BY <1>1, <1>3, <1>5, <1>6 DEF T

LEMMA QueueType ==
    ASSUME NEW q, IsSeq(q), NEW v
    PROVE  /\ CountIn(q, v) \in Nat
           /\ (\A m \in ToSet(q) : m.evt # v) => CountIn(q, v) = 0
           /\ (\E m \in ToSet(q) : m.evt = v) => CountIn(q, v) >= 1
<1>1. PICK S : q \in Seq(S)
  BY DEF IsSeq
<1>2. /\ Evts(q) \in Seq({m.evt : m \in S})
      /\ DOMAIN Evts(q) = DOMAIN q
      /\ \A i \in DOMAIN q : Evts(q)[i] = q[i].evt
  BY <1>1, EvtsProp DEF Evts
<1>3. CountIn(q, v) \in Nat
  BY <1>2, CountInOf, PlacesFinite
<1>4. ASSUME \A m \in ToSet(q) : m.evt # v PROVE CountIn(q, v) = 0
  <2>1. \A i \in DOMAIN Evts(q) : Evts(q)[i] # v
    BY <1>2, <1>4 DEF ToSet
  <2> QED BY <2>1, CountInOf, CountNone
<1>5. ASSUME NEW m \in ToSet(q), m.evt = v PROVE CountIn(q, v) >= 1
  <2>1. PICK i \in DOMAIN q : q[i] = m
    BY <1>5 DEF ToSet
  <2>2. i \in DOMAIN Evts(q) /\ Evts(q)[i] = v
    BY <1>2, <1>5, <2>1
  <2> QED BY <1>2, <2>2, CountInOf, CountSome
<1> QED BY <1>3, <1>4, <1>5

LEMMA QueueAppend ==
    ASSUME NEW q, IsSeq(q), NEW m
    PROVE  /\ IsSeq(Append(q, m))
           /\ ToSet(Append(q, m)) = ToSet(q) \cup {m}
           /\ \A v : CountIn(Append(q, m), v) =
                        IF m.evt = v THEN CountIn(q, v) + 1 ELSE CountIn(q, v)
<1>1. PICK S : q \in Seq(S)
  BY DEF IsSeq
<1> DEFINE T == S \cup {m}
           N == {x.evt : x \in T}
<1>2. q \in Seq(T) /\ m \in T
  BY <1>1, SeqMonotonic
<1>3. m.evt \in N
  BY <1>2
<1>4. Evts(q) \in Seq(N) /\ Len(Evts(q)) = Len(q) /\ \A i \in 1 .. Len(q) : Evts(q)[i] = q[i].evt
  BY <1>2, EvtsProp
<1> HIDE DEF T
<1>5. /\ Append(q, m) \in Seq(T) /\ Len(Append(q, m)) = Len(q) + 1
      /\ \A i \in 1 .. Len(q) : Append(q, m)[i] = q[i]
      /\ Append(q, m)[Len(q) + 1] = m
  BY <1>2, AppendProperties
<1>6. /\ Evts(Append(q, m)) \in Seq(N) /\ Len(Evts(Append(q, m))) = Len(q) + 1
      /\ \A i \in 1 .. (Len(q) + 1) : Evts(Append(q, m))[i] = Append(q, m)[i].evt
  BY <1>5, EvtsProp
<1> HIDE DEF N
<1>7. /\ Append(Evts(q), m.evt) \in Seq(N) /\ Len(Append(Evts(q), m.evt)) = Len(q) + 1
      /\ \A i \in 1 .. Len(q) : Append(Evts(q), m.evt)[i] = q[i].evt
      /\ Append(Evts(q), m.evt)[Len(q) + 1] = m.evt
  BY <1>3, <1>4, AppendProperties
<1>8. Len(q) \in Nat /\ DOMAIN q = 1 .. Len(q)
  BY <1>1, LenProperties
<1>9. Evts(Append(q, m)) = Append(Evts(q), m.evt)
  <2>1. \A i \in 1 .. (Len(q) + 1) : Evts(Append(q, m))[i] = Append(Evts(q), m.evt)[i]
    BY <1>5, <1>6, <1>7, <1>8
  <2> QED BY <1>6, <1>7, <2>1, SeqEqual
<1>10. ASSUME NEW v PROVE CountIn(Append(q, m), v) =
                             IF m.evt = v THEN CountIn(q, v) + 1 ELSE CountIn(q, v)
  <2>1. CountOf(Append(Evts(q), m.evt), v) =
           IF m.evt = v THEN CountOf(Evts(q), v) + 1 ELSE CountOf(Evts(q), v)
    BY <1>3, <1>4, CountAppend
  <2> QED BY <1>9, <2>1, CountInOf
<1>11. ToSet(Append(q, m)) = ToSet(q) \cup {m}
  <2>1. DOMAIN Append(q, m) = 1 .. (Len(q) + 1)
    BY <1>5, LenProperties
  <2> QED BY <1>5, <1>8, <2>1 DEF ToSet
<1> QED BY <1>5, <1>10, <1>11 DEF IsSeq

LEMMA QueueTail ==
    ASSUME NEW q, IsSeq(q), q # <<>>
    PROVE  /\ IsSeq(Tail(q))
           /\ Head(q) \in ToSet(q)
           /\ ToSet(Tail(q)) \subseteq ToSet(q)
           /\ \A v : CountIn(Tail(q), v) =
                        IF Head(q).evt = v THEN CountIn(q, v) - 1 ELSE CountIn(q, v)
<1>1. PICK S : q \in Seq(S)
  BY DEF IsSeq
<1> DEFINE N == {x.evt : x \in S}
<1>2. /\ Tail(q) \in Seq(S) /\ Len(Tail(q)) = Len(q) - 1
      /\ \A i \in 1 .. (Len(q) - 1) : Tail(q)[i] = q[i + 1]
  BY <1>1, HeadTailProperties
<1>3. Len(q) \in Nat /\ Len(q) # 0 /\ DOMAIN q = 1 .. Len(q) /\ Head(q) = q[1]
  BY <1>1, EmptySeq, LenProperties
<1>4. Evts(q) \in Seq(N) /\ Len(Evts(q)) = Len(q) /\ \A i \in 1 .. Len(q) : Evts(q)[i] = q[i].evt
  BY <1>1, EvtsProp
<1>5. /\ Evts(Tail(q)) \in Seq(N) /\ Len(Evts(Tail(q))) = Len(q) - 1
      /\ \A i \in 1 .. (Len(q) - 1) : Evts(Tail(q))[i] = Tail(q)[i].evt
  BY <1>2, EvtsProp
<1> HIDE DEF N
<1>6. Evts(q) # <<>>
  BY <1>3, <1>4, EmptySeq
<1>7. /\ Tail(Evts(q)) \in Seq(N) /\ Len(Tail(Evts(q))) = Len(q) - 1
      /\ \A i \in 1 .. (Len(q) - 1) : Tail(Evts(q))[i] = Evts(q)[i + 1]
  BY <1>4, <1>6, HeadTailProperties
<1>8. Evts(Tail(q)) = Tail(Evts(q))
  <2>1. \A i \in 1 .. (Len(q) - 1) : Evts(Tail(q))[i] = Tail(Evts(q))[i]
    BY <1>2, <1>3, <1>4, <1>5, <1>7
  <2> QED BY <1>5, <1>7, <2>1, SeqEqual
<1>9. Head(Evts(q)) = Head(q).evt
  BY <1>3, <1>4, <1>6
<1>10. ASSUME NEW v PROVE CountIn(Tail(q), v) =
                             IF Head(q).evt = v THEN CountIn(q, v) - 1 ELSE CountIn(q, v)
  <2>1. CountOf(Tail(Evts(q)), v) =
           IF Head(Evts(q)) = v THEN CountOf(Evts(q), v) - 1 ELSE CountOf(Evts(q), v)
    BY <1>4, <1>6, CountTail
  <2> QED BY <1>8, <1>9, <2>1, CountInOf
<1>11. Head(q) \in ToSet(q)
  BY <1>3 DEF ToSet
<1>12. ToSet(Tail(q)) \subseteq ToSet(q)
  <2>1. DOMAIN Tail(q) = 1 .. (Len(q) - 1)
    BY <1>2, LenProperties
  <2>2. \A i \in 1 .. (Len(q) - 1) : i + 1 \in 1 .. Len(q)
    BY <1>3
  <2> QED BY <1>2, <1>3, <2>1, <2>2 DEF ToSet
<1> QED BY <1>2, <1>10, <1>11, <1>12 DEF IsSeq

-----------------------------------------------------------------------------
(* The result list: signalAPIResult appends, waitAPIResult takes out.        *)

CountRes(r, v) == Cardinality({i \in DOMAIN r : r[i][1] = v})

LEMMA CountResOf ==
    ASSUME NEW r, NEW v
    PROVE  CountRes(r, v) = CountOf(Firsts(r), v)
<1>1. DOMAIN Firsts(r) = DOMAIN r /\ \A i \in DOMAIN r : Firsts(r)[i] = r[i][1]
  BY DEF Firsts
<1>2. {i \in DOMAIN r : r[i][1] = v} = PlacesOf(Firsts(r), v)
  BY <1>1 DEF PlacesOf
<1> QED BY <1>2 DEF CountRes, CountOf

LEMMA FirstsProp ==
    ASSUME NEW S, NEW r \in Seq(S)
    PROVE  /\ Firsts(r) \in Seq({x[1] : x \in S})
           /\ Len(Firsts(r)) = Len(r)
           /\ \A i \in 1 .. Len(r) : Firsts(r)[i] = r[i][1] /\ r[i] \in S
<1> DEFINE T == {x[1] : x \in S}
<1>1. DOMAIN r = 1 .. Len(r) /\ Len(r) \in Nat /\ \A i \in 1 .. Len(r) : r[i] \in S
  BY LenProperties, ElementOfSeq
<1>2. \A i \in 1 .. Len(r) : r[i][1] \in T
  BY <1>1
<1> HIDE DEF T
<1>3. Firsts(r) = [i \in 1 .. Len(r) |-> r[i][1]]
  BY <1>1 DEF Firsts
<1>4. Firsts(r) \in [1 .. Len(r) -> T]
  BY <1>2, <1>3
<1>5. Firsts(r) \in Seq(T)
  BY <1>1, <1>4, SeqDef
<1>6. Len(Firsts(r)) = Len(r)
  BY <1>1, <1>3, <1>5, LenProperties
<1> QED BY <1>1, <1>3, <1>5, <1>6 DEF T

LEMMA ResultsType ==
    ASSUME NEW r, IsSeq(r), NEW v
    PROVE  CountRes(r, v) \in Nat
BY CountResOf, FirstsProp, PlacesFinite DEF IsSeq

LEMMA ResultsAppend ==
    ASSUME NEW r, IsSeq(r), NEW x
    PROVE  /\ IsSeq(Append(r, x))
           /\ \A v : CountRes(Append(r, x), v) =
                        IF x[1] = v THEN CountRes(r, v) + 1 ELSE CountRes(r, v)
<1>1. PICK S : r \in Seq(S)
  BY DEF IsSeq
<1> DEFINE T == S \cup {x}
           N == {y[1] : y \in T}
<1>2. r \in Seq(T) /\ x \in T
  BY <1>1, SeqMonotonic
<1>3. x[1] \in N
  BY <1>2
<1>4. Firsts(r) \in Seq(N) /\ Len(Firsts(r)) = Len(r) /\ \A i \in 1 .. Len(r) : Firsts(r)[i] = r[i][1]
  BY <1>2, FirstsProp
<1> HIDE DEF T
<1>5. /\ Append(r, x) \in Seq(T) /\ Len(Append(r, x)) = Len(r) + 1
      /\ \A i \in 1 .. Len(r) : Append(r, x)[i] = r[i]
      /\ Append(r, x)[Len(r) + 1] = x
  BY <1>2, AppendProperties
<1>6. /\ Firsts(Append(r, x)) \in Seq(N) /\ Len(Firsts(Append(r, x))) = Len(r) + 1
      /\ \A i \in 1 .. (Len(r) + 1) : Firsts(Append(r, x))[i] = Append(r, x)[i][1]
  BY ZenonT(60), <1>5, FirstsProp
<1> HIDE DEF N
<1>7. /\ Append(Firsts(r), x[1]) \in Seq(N) /\ Len(Append(Firsts(r), x[1])) = Len(r) + 1
      /\ \A i \in 1 .. Len(r) : Append(Firsts(r), x[1])[i] = r[i][1]
      /\ Append(Firsts(r), x[1])[Len(r) + 1] = x[1]
  BY <1>3, <1>4, AppendProperties
<1>8. Len(r) \in Nat
  BY <1>1, LenProperties
<1>9. Firsts(Append(r, x)) = Append(Firsts(r), x[1])
  <2>1. \A i \in 1 .. (Len(r) + 1) : Firsts(Append(r, x))[i] = Append(Firsts(r), x[1])[i]
    BY <1>5, <1>6, <1>7, <1>8
  <2> QED BY <1>6, <1>7, <2>1, SeqEqual
<1>10. ASSUME NEW v PROVE CountRes(Append(r, x), v) =
                             IF x[1] = v THEN CountRes(r, v) + 1 ELSE CountRes(r, v)
  <2>1. CountOf(Append(Firsts(r), x[1]), v) =
           IF x[1] = v THEN CountOf(Firsts(r), v) + 1 ELSE CountOf(Firsts(r), v)
    BY <1>3, <1>4, CountAppend
  <2> QED BY <1>9, <2>1, CountResOf
<1> QED BY <1>5, <1>10 DEF IsSeq

LEMMA ResultsRemove ==
    ASSUME NEW r, IsSeq(r), NEW i \in DOMAIN r
    PROVE  /\ IsSeq(RemoveAt(r, i))
           /\ \A v : CountRes(RemoveAt(r, i), v) =
                        IF r[i][1] = v THEN CountRes(r, v) - 1 ELSE CountRes(r, v)
<1>1. PICK S : r \in Seq(S)
  BY DEF IsSeq
<1> DEFINE N == {y[1] : y \in S}
<1>2. Len(r) \in Nat /\ i \in 1 .. Len(r)
  BY <1>1, LenProperties
<1>3. /\ RemoveAt(r, i) \in Seq(S) /\ Len(RemoveAt(r, i)) = Len(r) - 1
      /\ \A j \in 1 .. (Len(r) - 1) : RemoveAt(r, i)[j] = IF j < i THEN r[j] ELSE r[j + 1]
  BY <1>1, <1>2, RemoveAtProp
<1>4. Firsts(r) \in Seq(N) /\ Len(Firsts(r)) = Len(r) /\ \A j \in 1 .. Len(r) : Firsts(r)[j] = r[j][1]
  BY <1>1, FirstsProp
<1>5. /\ Firsts(RemoveAt(r, i)) \in Seq(N) /\ Len(Firsts(RemoveAt(r, i))) = Len(r) - 1
      /\ \A j \in 1 .. (Len(r) - 1) : Firsts(RemoveAt(r, i))[j] = RemoveAt(r, i)[j][1]
  BY <1>3, FirstsProp
<1> HIDE DEF N
<1>6. /\ RemoveAt(Firsts(r), i) \in Seq(N) /\ Len(RemoveAt(Firsts(r), i)) = Len(r) - 1
      /\ \A j \in 1 .. (Len(r) - 1) :
           RemoveAt(Firsts(r), i)[j] = IF j < i THEN Firsts(r)[j] ELSE Firsts(r)[j + 1]
  BY <1>2, <1>4, RemoveAtProp
<1>7. Firsts(RemoveAt(r, i)) = RemoveAt(Firsts(r), i)
  <2>1. ASSUME NEW j \in 1 .. (Len(r) - 1)
        PROVE  Firsts(RemoveAt(r, i))[j] = RemoveAt(Firsts(r), i)[j]
    <3>1. j \in 1 .. Len(r) /\ j + 1 \in 1 .. Len(r)
      BY <1>2
    <3>2. /\ Firsts(RemoveAt(r, i))[j] = RemoveAt(r, i)[j][1]
          /\ RemoveAt(r, i)[j] = IF j < i THEN r[j] ELSE r[j + 1]
      BY <1>3, <1>5
    <3>3. RemoveAt(Firsts(r), i)[j] = IF j < i THEN Firsts(r)[j] ELSE Firsts(r)[j + 1]
      BY <1>6
    <3>4. Firsts(r)[j] = r[j][1] /\ Firsts(r)[j + 1] = r[j + 1][1]
      BY <1>4, <3>1
    <3> QED BY <3>2, <3>3, <3>4
  <2>2. \A j \in 1 .. Len(Firsts(RemoveAt(r, i))) :
           Firsts(RemoveAt(r, i))[j] = RemoveAt(Firsts(r), i)[j]
    BY <1>5, <2>1
  <2> QED BY <1>5, <1>6, <2>2, SeqEqual
<1>8. ASSUME NEW v PROVE CountRes(RemoveAt(r, i), v) =
                            IF r[i][1] = v THEN CountRes(r, v) - 1 ELSE CountRes(r, v)
  <2>1. CountOf(RemoveAt(Firsts(r), i), v) =
           IF Firsts(r)[i] = v THEN CountOf(Firsts(r), v) - 1 ELSE CountOf(Firsts(r), v)
    BY <1>2, <1>4, CountRemoveAt
  <2> QED BY <1>2, <1>4, <1>7, <2>1, CountResOf
<1> QED BY <1>3, <1>8 DEF IsSeq

\* A set of at most one element as a sequence.
LEMMA SetToSeqOne ==
    /\ SetToSeq({}) = <<>>
    /\ \A x : SetToSeq({x}) = <<x>>
<1>1. SetToSeq({}) = <<>>
  <2>1. <<>> \in [1 .. Cardinality({}) -> {}]
    BY FS_EmptySet
  <2>2. \A f \in [1 .. Cardinality({}) -> {}] : f = <<>> /\ IsInjective(f)
    BY FS_EmptySet DEF IsInjective
  <2>3. \E f \in [1 .. Cardinality({}) -> {}] : IsInjective(f)
    BY <2>1, <2>2
  <2> QED BY <2>2, <2>3 DEF SetToSeq
<1>2. ASSUME NEW x PROVE SetToSeq({x}) = <<x>>
  <2>1. Cardinality({x}) = 1
    BY FS_Singleton
  <2>2. <<x>> \in [1 .. 1 -> {x}]
    OBVIOUS
  <2>3. \A f \in [1 .. 1 -> {x}] : f = <<x>> /\ IsInjective(f)
    BY DEF IsInjective
  <2>4. \E f \in [1 .. Cardinality({x}) -> {x}] : IsInjective(f)
    BY <2>1, <2>2, <2>3
  <2> QED BY <2>1, <2>3, <2>4 DEF SetToSeq
<1> QED BY <1>1, <1>2

LEMMA PostedOne ==
    /\ Posted({}) = <<>>
    /\ \A evt : Posted({evt}) = <<Event(evt, TRUE)>>
<1>1. Posted({}) = <<>>
  <2>1. Posted({}) = [k \in 1 .. 0 |-> Event(SetToSeq({})[k], TRUE)]
    BY FS_EmptySet DEF Posted
  <2>2. 1 .. 0 = {}
    OBVIOUS
  <2> QED BY <2>1, <2>2
<1>2. ASSUME NEW evt PROVE Posted({evt}) = <<Event(evt, TRUE)>>
  <2> DEFINE m == Event(evt, TRUE)
  <2>1. Cardinality({evt}) = 1 /\ SetToSeq({evt}) = <<evt>>
    BY FS_Singleton, SetToSeqOne
  <2>2. Posted({evt}) = [k \in 1 .. 1 |-> Event(<<evt>>[k], TRUE)]
    BY <2>1 DEF Posted
  <2>3. \A k \in 1 .. 1 : Event(<<evt>>[k], TRUE) = m
    <3>1. \A k \in 1 .. 1 : <<evt>>[k] = evt
      OBVIOUS
    <3> QED BY <3>1
  <2> HIDE DEF m
  <2>4. Posted({evt}) \in [1 .. 1 -> {m}]
    BY <2>2, <2>3
  <2>5. \A f \in [1 .. 1 -> {m}] : f = <<m>>
    OBVIOUS
  <2> QED BY <2>4, <2>5 DEF m
<1> QED BY <1>1, <1>2

LEMMA ConcatOne ==
    ASSUME NEW q, IsSeq(q)
    PROVE  /\ q \o <<>> = q
           /\ \A x : q \o <<x>> = Append(q, x)
<1>1. PICK S : q \in Seq(S)
  BY DEF IsSeq
<1>2. q \o <<>> = q
  BY <1>1, ConcatEmptySeq
<1>3. ASSUME NEW x PROVE q \o <<x>> = Append(q, x)
  BY <1>1, SeqMonotonic, AppendIsConcat
<1> QED BY <1>2, <1>3

-----------------------------------------------------------------------------
(* Answers: a handler answers its own event, once, but for PREPARE_SNAPSHOT, *)
(* which the PREP_SNAPSHOT_DONE that comes later answers.                    *)

\* Events nobody waits for.
Unawaited == {"SNAPSHOT_DONE", "PREP_SNAPSHOT_DONE", "READY_FOR_SNAPSHOT", "DAEMON_DIED"}

Told(e) == \E ok : out'.api = {<<e.evt, ok>>}

SamePreparing ==
    /\ m_state' = "PREPARE_SNAPSHOT" <=> m_state = "PREPARE_SNAPSHOT"
    /\ prepSnapshot' = prepSnapshot

Prepares(e) ==
    /\ e.evt = "PREPARE_SNAPSHOT" /\ out'.api = {}
    /\ m_state # "PREPARE_SNAPSHOT" /\ m_state' = "PREPARE_SNAPSHOT"
    /\ prepSnapshot' = TRUE

Prepared(e) ==
    /\ e.evt = "PREP_SNAPSHOT_DONE"
    /\ out'.api = {<<"PREPARE_SNAPSHOT", TRUE>>}
    /\ m_state = "PREPARE_SNAPSHOT" /\ m_state' # "PREPARE_SNAPSHOT"
    /\ prepSnapshot' = prepSnapshot

AnswersOwn(e) ==
    \/ e.evt \notin Unawaited /\ Told(e) /\ SamePreparing
    \/ /\ e.evt \in InternalEvents /\ out'.api = {} /\ SamePreparing
       /\ m_state = "PREPARE_SNAPSHOT" => e.evt # "PREP_SNAPSHOT_DONE"
    \/ Prepares(e)
    \/ Prepared(e)

LEMMA AnswerTells ==
    ASSUME NEW e, \E ok : Answer(e.evt, ok), e.evt \notin Unawaited, SamePreparing
    PROVE  AnswersOwn(e)
<1>1. PICK ok : Answer(e.evt, ok)
  OBVIOUS
<1>2. out'.api = {<<e.evt, ok>>}
  BY <1>1 DEF Answer, NoOutput
<1> QED BY <1>2 DEF AnswersOwn, Told

LEMMA OnlyTells ==
    ASSUME NEW e, \E ok : Only(e.evt, ok), e.evt \notin Unawaited
    PROVE  AnswersOwn(e)
BY AnswerTells DEF Only, smVars, hwVars, SamePreparing

LEMMA Ignored ==
    ASSUME NEW e, NEW S \in SUBSET InternalEvents, NotForThisState(e, S),
           m_state = "PREPARE_SNAPSHOT" => "PREP_SNAPSHOT_DONE" \notin S
    PROVE  AnswersOwn(e)
BY DEF NotForThisState, Ignore, Silent, NoOutput, smVars, hwVars, SamePreparing, AnswersOwn

LEMMA SnapshotDoneUntold ==
    ASSUME NEW e, e.evt = "SNAPSHOT_DONE", \E ev : out' = [NoOutput EXCEPT !.evt = ev], SamePreparing
    PROVE  AnswersOwn(e)
BY DEF NoOutput, AnswersOwn, InternalEvents

LEMMA SettingsTell ==
    ASSUME NEW e, e.evt \notin Unawaited,
           \/ SetFrameMsg(e)
           \/ UpdateAndCommit(e)
           \/ LongshotOn(e)
           \/ BurstTakePicture(e)
           \/ RecordingSetParams(e)
    PROVE  AnswersOwn(e)
<1>1. SamePreparing
  BY DEF SetFrameMsg, UpdateAndCommit, LongshotOn, BurstTakePicture, RecordingSetParams,
     smVars, hwVars, SamePreparing
<1>2. \E ok : Answer(e.evt, ok)
  BY DEF SetFrameMsg, UpdateAndCommit, LongshotOn, BurstTakePicture, RecordingSetParams
<1> QED BY <1>1, <1>2, AnswerTells

LEMMA LongshotOffTells ==
    ASSUME NEW e, e.evt = "LONGSHOT_OFF", LongshotOff(e),
           (m_state # "PREPARE_SNAPSHOT" /\ m_state' # "PREPARE_SNAPSHOT") \/ m_state' = m_state
    PROVE  AnswersOwn(e)
<1>1. SamePreparing
  BY DEF LongshotOff, SamePreparing
<1>2. out'.api = {<<e.evt, TRUE>>}
  BY DEF LongshotOff, NoOutput
<1> QED BY <1>1, <1>2 DEF AnswersOwn, Told, Unawaited

LEMMA StoppedTells ==
    ASSUME m_state = "PREVIEW_STOPPED", NEW e, ProcEvtPreviewStoppedState(e)
    PROVE  AnswersOwn(e)
<1>1. CASE StoppedStartPreview(e)
  <2>1. SamePreparing
    BY <1>1 DEF StoppedStartPreview, SamePreparing
  <2>2. (\E ok : Answer(e.evt, ok)) /\ e.evt \notin Unawaited
    BY <1>1 DEF StoppedStartPreview, Unawaited
  <2> QED BY <2>1, <2>2, AnswerTells
<1>2. CASE StoppedSettings(e)
  <2>1. CASE e.evt = "SET_PREVIEW_WINDOW" /\ Answer(e.evt, TRUE) /\ UNCHANGED <<smVars, hwVars>>
    BY <2>1, AnswerTells DEF smVars, hwVars, SamePreparing, Unawaited
  <2>2. CASE e.evt = "LONGSHOT_OFF" /\ LongshotOff(e) /\ UNCHANGED smVars
    BY <2>2, LongshotOffTells DEF smVars
  <2> QED BY <1>2, <2>1, <2>2, SettingsTell DEF StoppedSettings, SetFrameMsg, Unawaited
<1>3. CASE StoppedRelease(e)
  BY <1>3, AnswerTells DEF StoppedRelease, smVars, SamePreparing, Unawaited
<1>4. CASE StoppedOther(e)
  BY <1>4, OnlyTells DEF StoppedOther, Queries, Unawaited
<1>5. CASE SnapshotDoneIgnored(e)
  BY <1>5, SnapshotDoneUntold DEF SnapshotDoneIgnored, smVars, hwVars, SamePreparing
<1>6. CASE NotForThisState(e, InternalEvents \ {"SNAPSHOT_DONE"})
  BY <1>6, Ignored
<1> QED BY <1>1, <1>2, <1>3, <1>4, <1>5, <1>6 DEF ProcEvtPreviewStoppedState

LEMMA RestartTells ==
    ASSUME NEW e, NEW onFail, PreviewRestart(e, onFail),
           m_state # "PREPARE_SNAPSHOT" /\ onFail # "PREPARE_SNAPSHOT"
    PROVE  AnswersOwn(e)
<1>1. SamePreparing
  BY DEF PreviewRestart, smVars, SamePreparing
<1>2. (\E ok : Answer(e.evt, ok)) /\ e.evt = "SET_PARAMS"
  BY DEF PreviewRestart
<1> QED BY <1>1, <1>2, AnswerTells DEF Unawaited

LEMMA ReadyTells ==
    ASSUME m_state = "PREVIEW_READY", NEW e, ProcEvtPreviewReadyState(e)
    PROVE  AnswersOwn(e)
<1>1. CASE ReadySetPreviewWindow(e)
  <2>1. SamePreparing
    BY <1>1 DEF ReadySetPreviewWindow, smVars, SamePreparing
  <2>2. (\E ok : Answer(e.evt, ok)) /\ e.evt \notin Unawaited
    BY <1>1 DEF ReadySetPreviewWindow, Unawaited
  <2> QED BY <2>1, <2>2, AnswerTells
<1>2. CASE ReadyRestart(e)
  <2>1. SamePreparing
    BY <1>2 DEF ReadyRestart, smVars, SamePreparing
  <2>2. (\E ok : Answer(e.evt, ok)) /\ e.evt \notin Unawaited
    BY <1>2 DEF ReadyRestart, Unawaited
  <2> QED BY <2>1, <2>2, AnswerTells
<1>3. CASE ReadySettings(e)
  BY <1>3, SettingsTell, LongshotOffTells DEF ReadySettings, SetFrameMsg, Unawaited, smVars
<1>4. CASE ReadyStopPreview(e)
  BY <1>4, AnswerTells DEF ReadyStopPreview, SamePreparing, Unawaited
<1>5. CASE ReadyOther(e)
  BY <1>5, OnlyTells DEF ReadyOther, Queries, Unawaited
<1>6. CASE SnapshotDoneIgnored(e)
  BY <1>6, SnapshotDoneUntold DEF SnapshotDoneIgnored, smVars, hwVars, SamePreparing
<1>7. CASE NotForThisState(e, InternalEvents \ {"SNAPSHOT_DONE"})
  BY <1>7, Ignored
<1> QED BY <1>1, <1>2, <1>3, <1>4, <1>5, <1>6, <1>7 DEF ProcEvtPreviewReadyState

LEMMA PreviewingTells ==
    ASSUME m_state = "PREVIEWING", NEW e, ProcEvtPreviewingState(e),
           bRetroPicture => ~PreviewingTakePicture(e)
    PROVE  AnswersOwn(e)
<1>1. CASE PreviewingSettings(e)
  <2>1. CASE PreviewingFrameMsg(e)
    <3>1. SamePreparing
      BY <2>1 DEF PreviewingFrameMsg, SetFrameMsg, smVars, hwVars, SamePreparing
    <3>2. (\E ok : Answer(e.evt, ok)) /\ e.evt \notin Unawaited
      BY <2>1 DEF PreviewingFrameMsg, SetFrameMsg, Unawaited
    <3> QED BY <3>1, <3>2, AnswerTells
  <2>2. CASE PreviewRestart(e, "PREVIEW_STOPPED")
    BY <2>2, RestartTells
  <2>3. CASE PreviewingLongshotOn(e)
    <3>1. CASE LongshotOn(e)
      BY <2>3, <3>1, SettingsTell DEF PreviewingLongshotOn, Unawaited
    <3>2. CASE ~LongshotOn(e)
      <4>1. SamePreparing
        BY <2>3, <3>2 DEF PreviewingLongshotOn, smVars, SamePreparing
      <4>2. (\E ok : Answer(e.evt, ok)) /\ e.evt \notin Unawaited
        BY <2>3, <3>2 DEF PreviewingLongshotOn, Unawaited
      <4> QED BY <4>1, <4>2, AnswerTells
    <3> QED BY <3>1, <3>2
  <2> QED BY <1>1, <2>1, <2>2, <2>3, SettingsTell, LongshotOffTells
          DEF PreviewingSettings, Unawaited, smVars
<1>2. CASE PreviewingStartPreview(e)
  BY <1>2, AnswerTells DEF PreviewingStartPreview, smVars, hwVars, SamePreparing, Unawaited
<1>3. CASE PreviewingStopPreview(e)
  BY <1>3, AnswerTells DEF PreviewingStopPreview, SamePreparing, Unawaited
<1>4. CASE PreviewingStartRecording(e)
  <2>1. SamePreparing
    BY <1>4 DEF PreviewingStartRecording, SamePreparing
  <2>2. (\E ok : Answer(e.evt, ok)) /\ e.evt \notin Unawaited
    BY <1>4 DEF PreviewingStartRecording, Unawaited
  <2> QED BY <2>1, <2>2, AnswerTells
<1>5. CASE PreviewingPrepareSnapshot(e)
  <2>1. CASE Only(e.evt, FALSE)
    BY <1>5, <2>1, OnlyTells DEF PreviewingPrepareSnapshot, Unawaited
  <2>2. CASE ~Only(e.evt, FALSE)
    <3>1. /\ e.evt = "PREPARE_SNAPSHOT" /\ m_state' = "PREPARE_SNAPSHOT"
          /\ prepSnapshot' = TRUE /\ Silent
      BY <1>5, <2>2 DEF PreviewingPrepareSnapshot
    <3>2. out'.api = {}
      BY <3>1 DEF Silent, NoOutput
    <3> QED BY <3>1, <3>2 DEF AnswersOwn, Prepares
  <2> QED BY <2>1, <2>2
<1>6. CASE PreviewingTakePicture(e)
  <2>1. SamePreparing
    BY <1>6 DEF PreviewingTakePicture, SamePreparing
  <2>2. (\E ok : Answer(e.evt, ok)) /\ e.evt \notin Unawaited
    BY <1>6 DEF PreviewingTakePicture, Unawaited
  <2> QED BY <2>1, <2>2, AnswerTells
<1>7. CASE PreviewingLiveSnapshot(e)
  <2>1. SamePreparing
    BY <1>7 DEF PreviewingLiveSnapshot, TakeLiveSnapshot, SamePreparing
  <2>2. (\E ok : Answer(e.evt, ok)) /\ e.evt \notin Unawaited
    BY <1>7 DEF PreviewingLiveSnapshot, TakeLiveSnapshot, Unawaited
  <2> QED BY <2>1, <2>2, AnswerTells
<1>8. CASE PreviewingOther(e)
  BY <1>8, OnlyTells DEF PreviewingOther, Queries, Unawaited
<1>9. CASE SnapshotDoneIgnored(e)
  BY <1>9, SnapshotDoneUntold DEF SnapshotDoneIgnored, smVars, hwVars, SamePreparing
<1>10. CASE NotForThisState(e, InternalEvents \ {"SNAPSHOT_DONE"})
  BY <1>10, Ignored
<1> QED BY <1>1, <1>2, <1>3, <1>4, <1>5, <1>6, <1>7, <1>8, <1>9, <1>10 DEF ProcEvtPreviewingState

LEMMA PreparingTells ==
    ASSUME m_state = "PREPARE_SNAPSHOT", NEW e, e.evt # "REG_FACE_IMAGE", ProcEvtPrepareSnapshotState(e)
    PROVE  AnswersOwn(e)
<1>1. CASE PreparingApi(e)
  <2>1. e.evt \in ApiEvents /\ Only(e.evt, FALSE)
    BY <1>1 DEF PreparingApi, NotForThisState
  <2>2. e.evt \notin Unawaited
    BY <2>1 DEF ApiEvents, Queries, Unawaited
  <2> QED BY <2>1, <2>2, OnlyTells
<1>2. CASE PreparingDone(e)
  <2>1. out'.api = {<<"PREPARE_SNAPSHOT", TRUE>>}
    BY <1>2 DEF PreparingDone, Answer, NoOutput
  <2> QED BY <1>2, <2>1 DEF PreparingDone, hwVars, AnswersOwn, Prepared
<1>3. CASE SnapshotDoneIgnored(e)
  BY <1>3, SnapshotDoneUntold DEF SnapshotDoneIgnored, smVars, hwVars, SamePreparing
<1>4. CASE NotForThisState(e, InternalEvents \ {"SNAPSHOT_DONE", "PREP_SNAPSHOT_DONE"})
  BY <1>4, Ignored
<1> QED BY <1>1, <1>2, <1>3, <1>4 DEF ProcEvtPrepareSnapshotState

LEMMA PicTakingTells ==
    ASSUME m_state = "PIC_TAKING", NEW e, e.evt # "DAEMON_DIED", ProcEvtPicTakingState(e)
    PROVE  AnswersOwn(e)
<1>1. CASE PicSettings(e)
  BY <1>1, SettingsTell, LongshotOffTells DEF PicSettings, SetFrameMsg, Unawaited
<1>2. CASE PicCancel(e)
  BY <1>2, AnswerTells DEF PicCancel, SamePreparing, Unawaited
<1>3. CASE BurstTakePicture(e)
  BY <1>3, SettingsTell DEF BurstTakePicture, Unawaited
<1>4. CASE PicOther(e)
  BY <1>4, OnlyTells DEF PicOther, Queries, Unawaited
<1>5. CASE PicStopCaptureChannel(e)
  <2>1. SamePreparing
    BY <1>5 DEF PicStopCaptureChannel, smVars, SamePreparing
  <2>2. (\E ok : Answer(e.evt, ok)) /\ e.evt \notin Unawaited
    BY <1>5 DEF PicStopCaptureChannel, Unawaited
  <2> QED BY <2>1, <2>2, AnswerTells
<1>6. CASE PicSnapshotDone(e)
  BY <1>6, SnapshotDoneUntold DEF PicSnapshotDone, SamePreparing
<1>7. CASE NotForThisState(e, {"PREP_SNAPSHOT_DONE", "READY_FOR_SNAPSHOT"})
  BY <1>7, Ignored DEF InternalEvents
<1> QED BY <1>1, <1>2, <1>3, <1>4, <1>5, <1>6, <1>7 DEF ProcEvtPicTakingState, PicDaemonDied

LEMMA RecordingSettingsTell ==
    ASSUME m_state # "PREPARE_SNAPSHOT", NEW e, RecordingSettings(e)
    PROVE  AnswersOwn(e)
BY SettingsTell, LongshotOffTells
   DEF RecordingSettings, SetFrameMsg, RecordingSetParams, Unawaited, smVars

LEMMA RecordingTells ==
    ASSUME m_state = "RECORDING", NEW e, ProcEvtRecordingState(e)
    PROVE  AnswersOwn(e)
<1>1. CASE RecordingTakePicture(e)
  <2>1. SamePreparing
    BY <1>1 DEF RecordingTakePicture, TakeLiveSnapshot, SamePreparing
  <2>2. (\E ok : Answer(e.evt, ok)) /\ e.evt \notin Unawaited
    BY <1>1 DEF RecordingTakePicture, TakeLiveSnapshot, Unawaited
  <2> QED BY <2>1, <2>2, AnswerTells
<1>2. CASE RecordingStop(e)
  BY <1>2, AnswerTells DEF RecordingStop, SamePreparing, Unawaited
<1>3. CASE RecordingOther(e)
  BY <1>3, OnlyTells DEF RecordingOther, Queries, Unawaited
<1>4. CASE SnapshotDoneIgnored(e)
  BY <1>4, SnapshotDoneUntold DEF SnapshotDoneIgnored, smVars, hwVars, SamePreparing
<1>5. CASE NotForThisState(e, InternalEvents \ {"SNAPSHOT_DONE"})
  BY <1>5, Ignored
<1> QED BY <1>1, <1>2, <1>3, <1>4, <1>5, RecordingSettingsTell DEF ProcEvtRecordingState

LEMMA VideoPicTells ==
    ASSUME m_state = "VIDEO_PIC_TAKING", NEW e, ProcEvtVideoPicTakingState(e)
    PROVE  AnswersOwn(e)
<1>1. CASE VideoPicStop(e)
  BY <1>1, AnswerTells DEF VideoPicStop, SamePreparing, Unawaited
<1>2. CASE VideoPicOther(e)
  BY <1>2, OnlyTells DEF VideoPicOther, Queries, Unawaited
<1>3. CASE VideoPicSnapshotDone(e)
  BY <1>3, SnapshotDoneUntold DEF VideoPicSnapshotDone, SamePreparing
<1>4. CASE NotForThisState(e, InternalEvents \ {"SNAPSHOT_DONE"})
  BY <1>4, Ignored
<1> QED BY <1>1, <1>2, <1>3, <1>4, RecordingSettingsTell DEF ProcEvtVideoPicTakingState

LEMMA PreviewPicTells ==
    ASSUME m_state = "PREVIEW_PIC_TAKING", NEW e, ProcEvtPreviewPicTakingState(e),
           bRetroPicture => ~(\/ PreviewPicPrepareSnapshot(e) \/ PreviewPicRetro(e)
                              \/ PreviewPicSnapshotDone(e))
    PROVE  AnswersOwn(e)
<1>1. CASE PreviewPicSettings(e)
  BY <1>1, SettingsTell, LongshotOffTells, RestartTells DEF PreviewPicSettings, SetFrameMsg, Unawaited
<1>2. CASE PreviewPicCancel(e)
  BY <1>2, AnswerTells DEF PreviewPicCancel, SamePreparing, Unawaited
<1>3. CASE BurstTakePicture(e)
  BY <1>3, SettingsTell DEF BurstTakePicture, Unawaited
<1>4. CASE PreviewPicStartRecording(e)
  <2>1. CASE Only(e.evt, FALSE)
    BY <1>4, <2>1, OnlyTells DEF PreviewPicStartRecording, Unawaited
  <2>2. CASE ~Only(e.evt, FALSE)
    <3>1. SamePreparing
      BY <1>4, <2>2 DEF PreviewPicStartRecording, SamePreparing
    <3>2. (\E ok : Answer(e.evt, ok)) /\ e.evt \notin Unawaited
      BY <1>4, <2>2 DEF PreviewPicStartRecording, Unawaited
    <3> QED BY <3>1, <3>2, AnswerTells
  <2> QED BY <2>1, <2>2
<1>5. CASE PreviewPicPrepareSnapshot(e)
  BY <1>5, OnlyTells DEF PreviewPicPrepareSnapshot, Unawaited
<1>6. CASE PreviewPicOther(e)
  BY <1>6, OnlyTells DEF PreviewPicOther, Queries, Unawaited
<1>7. CASE PreviewPicRetro(e)
  BY <1>7, Ignored DEF PreviewPicRetro, InternalEvents
<1>8. CASE PreviewPicSnapshotDone(e)
  <2>1. out' = [NoOutput EXCEPT !.evt = {"SNAPSHOT_DONE"}, !.api = {}]
    BY <1>8 DEF PreviewPicSnapshotDone
  <2> QED BY <1>8, <2>1 DEF PreviewPicSnapshotDone, NoOutput, SamePreparing, AnswersOwn, InternalEvents
<1>9. CASE NotForThisState(e, {"STOP_CAPTURE_CHANNEL", "DAEMON_DIED"})
  BY <1>9, Ignored DEF InternalEvents
<1> QED BY <1>1, <1>2, <1>3, <1>4, <1>5, <1>6, <1>7, <1>8, <1>9 DEF ProcEvtPreviewPicTakingState

LEMMA HandlersAnswer ==
    ASSUME ~bRetroPicture, NEW e, e.evt \notin {"REG_FACE_IMAGE", "DAEMON_DIED"}, StateMachine(e)
    PROVE  AnswersOwn(e)
BY StoppedTells, ReadyTells, PreviewingTells, PreparingTells, PicTakingTells, RecordingTells,
   VideoPicTells, PreviewPicTells DEF StateMachine

-----------------------------------------------------------------------------
(* The live snapshot thread posts no CANCEL_PICTURE: with the recording hint *)
(* the SNAPSHOT channel exists from the start of preview to its end.         *)

Has(ch) == ch["SNAPSHOT"] # "absent"

HintStates == LivePics \cup {"RECORDING"}

LiveFit ==
    /\ par.hint /\ m_state # "PREVIEW_STOPPED" => Has(channels)
    /\ m_state \in HintStates => par.hint
    /\ m_state = "PIC_TAKING" => ~par.hint
    /\ liveThread = "running" => m_state \in LivePics

LiveInv ==
    /\ VideoInv
    /\ par \in ParamsType
    /\ ~par.zsl /\ ~par.zslNew
    /\ ~mLongshotEnabled
    /\ LiveFit

LiveStep ==
    /\ mLongshotEnabled' = mLongshotEnabled
    /\ par'.hint /\ m_state' # "PREVIEW_STOPPED" => Has(channels')
    /\ m_state' \in HintStates => par'.hint
    /\ m_state' = "PIC_TAKING" => ~par'.hint
    /\ liveThread' = "running" => m_state' \in LivePics

\* Events that change neither the parameters' mode nor the burst mode.
PlainEvent(e) == e.evt \notin {"SET_PARAMS", "LONGSHOT_ON", "LONGSHOT_OFF"}

LEMMA HasOps ==
    ASSUME NEW ch \in ChannelsType, Has(ch)
    PROVE  /\ \A ks : Has(StopChannels(ch, ks))
           /\ Has(StopRecording(ch))
           /\ \A p : Has(CancelPicture(ch, p))
           /\ \A k \in Channels : \A o \in StartChannel(ch, k) : Has(o.ch)
<1>1. "SNAPSHOT" \in Channels
  BY DEF Channels
<1>2. ASSUME NEW ks PROVE Has(StopChannels(ch, ks))
  BY <1>1 DEF StopChannels, Has
<1>3. ASSUME NEW p PROVE Has(CancelPicture(ch, p))
  BY <1>1, DelChannelsProp DEF CancelPicture, Has
<1>4. ASSUME NEW k \in Channels, NEW o \in StartChannel(ch, k) PROVE Has(o.ch)
  <2>1. CASE k = "SNAPSHOT"
    BY <1>4, <2>1, StartChannelProp DEF Has
  <2>2. CASE k # "SNAPSHOT"
    BY <1>1, <1>4, <2>2, StartChannelProp DEF Has
  <2> QED BY <2>1, <2>2
<1> QED BY <1>2, <1>3, <1>4 DEF StopRecording

LEMMA PrepareHas ==
    ASSUME ~HalCallsFail, NEW ch \in ChannelsType, NEW p, p.hint, NEW o \in PreparePreview(ch, p)
    PROVE  Has(o.ch)
<1>1. o = Outcome(TRUE, AddChannels(ch, {"SNAPSHOT", "VIDEO", "PREVIEW"}))
  BY DEF PreparePreview, Failing, ZslPreview
<1>2. o.ch = AddChannels(ch, {"SNAPSHOT", "VIDEO", "PREVIEW"})
  BY <1>1, OutcomeProp
<1> QED BY <1>2, AddChannelsProp DEF Has, Channels

LEMMA StartPreviewHas ==
    ASSUME NEW ch \in ChannelsType, Has(ch), NEW p, NEW o \in StartPreview(ch, p)
    PROVE  Has(o.ch)
BY HasOps DEF StartPreview, Channels

LEMMA PrepareAndStartHas ==
    ASSUME ~HalCallsFail, NEW ch \in ChannelsType, NEW p, p.hint, NEW o \in PrepareAndStart(ch, p)
    PROVE  o.ok => Has(o.ch)
<1>1. PICK q \in PreparePreview(ch, p) : \E s \in StartPreview(q.ch, p) :
             o = [ok |-> s.ok, prepared |-> TRUE,
                  ch |-> IF s.ok THEN s.ch ELSE UnpreparePreview(s.ch)]
  BY PrepareSucceeds DEF PrepareAndStart
<1>2. PICK s \in StartPreview(q.ch, p) :
             o = [ok |-> s.ok, prepared |-> TRUE,
                  ch |-> IF s.ok THEN s.ch ELSE UnpreparePreview(s.ch)]
  BY <1>1
<1>3. q.ch \in ChannelsType /\ Has(q.ch)
  BY PrepareHas, PreparePreviewProp
<1>4. Has(s.ch)
  BY <1>3, StartPreviewHas
<1> QED BY <1>2, <1>4

LEMMA StartRecordingHas ==
    ASSUME ~HalCallsFail, NEW ch \in ChannelsType, NEW p \in ParamsType, p.hint => Has(ch),
           NEW o \in StartRecording(ch, p)
    PROVE  Has(o.ch) /\ o.par.hint
<1> DEFINE Video(c, q) == {[ok |-> v.ok, ch |-> v.ch, par |-> q] : v \in StartChannel(c, "VIDEO")}
           Stage(r, q) == IF r.ok THEN Video(r.ch, q)
                          ELSE {[ok |-> FALSE, ch |-> r.ch, par |-> q]}
<1>1. ASSUME NEW c \in ChannelsType, Has(c), NEW q, NEW x \in Video(c, q)
      PROVE  Has(x.ch) /\ x.par = q
  <2>1. PICK v \in StartChannel(c, "VIDEO") : x = [ok |-> v.ok, ch |-> v.ch, par |-> q]
    OBVIOUS
  <2>2. Has(v.ch)
    BY <1>1, HasOps DEF Channels
  <2> QED BY <2>1, <2>2
<1>2. CASE p.hint
  <2>1. o \in Video(ch, p)
    BY <1>2 DEF StartRecording
  <2> HIDE DEF Video
  <2> QED BY <1>1, <1>2, <2>1
<1>3. CASE ~p.hint
  <2>0. PICK q \in HintSet(p) : \E r \in PreparePreview(StopPreview(ch), q) :
            o \in IF r.ok THEN UNION {Stage(s, q) : s \in StartChannel(r.ch, "PREVIEW")}
                  ELSE Stage(r, q)
    BY <1>3 DEF StartRecording
  <2>1. PICK r \in PreparePreview(StopPreview(ch), q) :
            o \in IF r.ok THEN UNION {Stage(s, q) : s \in StartChannel(r.ch, "PREVIEW")}
                  ELSE Stage(r, q)
    BY <2>0
  <2>2. q.hint
    <3>1. q = CommitParams([p EXCEPT !.hintNew = TRUE])
      BY <2>0 DEF HintSet
    <3> QED BY <3>1 DEF CommitParams, ParamsType
  <2>3. r.ok /\ r.ch \in ChannelsType /\ Has(r.ch)
    BY <2>2, NoPreviewLeft, PreparePreviewProp, PrepareSucceeds, PrepareHas
  <2>4. PICK s \in StartChannel(r.ch, "PREVIEW") : o \in Stage(s, q)
    BY <2>1, <2>3
  <2>5. s.ch \in ChannelsType /\ Has(s.ch)
    BY <2>3, StartChannelProp, HasOps DEF Channels
  <2>6. CASE s.ok
    BY <1>1, <2>2, <2>4, <2>5, <2>6
  <2>7. CASE ~s.ok
    BY <2>2, <2>4, <2>5, <2>7
  <2> QED BY <2>6, <2>7
<1> QED BY <1>2, <1>3

LEMMA LiveUntouched ==
    ASSUME LiveInv, UNCHANGED <<m_state, channels, liveThread, par, mLongshotEnabled>>
    PROVE  LiveStep
BY DEF LiveInv, LiveFit, LiveStep

LEMMA SettingsKeepLive ==
    ASSUME LiveInv, NEW e,
           \/ SetFrameMsg(e) \/ SnapshotDoneIgnored(e) \/ BurstTakePicture(e) \/ PreviewingFrameMsg(e)
           \/ \E S : NotForThisState(e, S)
           \/ \E evt, ok : Only(evt, ok)
    PROVE  LiveStep
<1>1. UNCHANGED <<m_state, channels, liveThread, par, mLongshotEnabled>>
  BY DEF SetFrameMsg, SnapshotDoneIgnored, BurstTakePicture, PreviewingFrameMsg, NotForThisState,
     Ignore, Only, smVars, hwVars, confVars
<1> QED BY <1>1, LiveUntouched

LEMMA StoppedKeepsLive ==
    ASSUME ~HalCallsFail, LiveInv, m_state = "PREVIEW_STOPPED", NEW e, PlainEvent(e),
           ProcEvtPreviewStoppedState(e)
    PROVE  LiveStep
<1>0. channels \in ChannelsType /\ liveThread # "running"
  BY DEF LiveInv, LiveFit, VideoInv, LivePics
<1>1. CASE StoppedStartPreview(e)
  <2>1. /\ UNCHANGED <<liveThread, par, mLongshotEnabled>>
        /\ m_state' \in {"PREVIEW_STOPPED", "PREVIEW_READY", "PREVIEWING"}
    BY <1>1 DEF StoppedStartPreview, confVars
  <2>2. par.hint /\ m_state' # "PREVIEW_STOPPED" => Has(channels')
    <3>1. ASSUME NEW o \in PreparePreview(channels, par), par.hint PROVE Has(o.ch)
      BY <1>0, <3>1, PrepareHas
    <3>2. ASSUME NEW o \in PrepareAndStart(channels, par), par.hint PROVE o.ok => Has(o.ch)
      BY <1>0, <3>2, PrepareAndStartHas
    <3> QED BY <1>1, <3>1, <3>2 DEF StoppedStartPreview
  <2> QED BY <1>0, <2>1, <2>2 DEF LiveStep, HintStates, LivePics
<1>2. CASE StoppedSettings(e)
  BY <1>2, SettingsKeepLive, LiveUntouched
     DEF StoppedSettings, PlainEvent, smVars, hwVars
<1>3. CASE StoppedRelease(e)
  BY <1>0, <1>3 DEF StoppedRelease, smVars, confVars, LiveStep, HintStates, LivePics
<1> QED BY <1>1, <1>2, <1>3, SettingsKeepLive DEF ProcEvtPreviewStoppedState, StoppedOther

LEMMA ReadyKeepsLive ==
    ASSUME ~HalCallsFail, LiveInv, m_state = "PREVIEW_READY", NEW e, PlainEvent(e),
           ProcEvtPreviewReadyState(e)
    PROVE  LiveStep
<1>0. channels \in ChannelsType /\ liveThread # "running" /\ (par.hint => Has(channels))
  BY DEF LiveInv, LiveFit, VideoInv, LivePics
<1>1. CASE ReadySetPreviewWindow(e)
  <2>1. /\ UNCHANGED <<liveThread, par, mLongshotEnabled>>
        /\ m_state' \in {"PREVIEW_STOPPED", "PREVIEW_READY", "PREVIEWING"}
    BY <1>1 DEF ReadySetPreviewWindow, smVars
  <2>2. par.hint /\ m_state' # "PREVIEW_STOPPED" => Has(channels')
    <3>1. ASSUME NEW o \in StartPreview(channels, par), par.hint PROVE Has(o.ch)
      BY <1>0, <3>1, StartPreviewHas
    <3> QED BY <1>0, <1>1, <3>1 DEF ReadySetPreviewWindow
  <2> QED BY <1>0, <2>1, <2>2 DEF LiveStep, HintStates, LivePics
<1>2. CASE ReadyRestart(e) \/ ReadySettings(e)
  BY <1>2, SettingsKeepLive DEF ReadyRestart, ReadySettings, PlainEvent
<1>3. CASE ReadyStopPreview(e)
  BY <1>0, <1>3 DEF ReadyStopPreview, confVars, LiveStep, HintStates, LivePics
<1> QED BY <1>1, <1>2, <1>3, SettingsKeepLive DEF ProcEvtPreviewReadyState, ReadyOther

LEMMA PreviewingKeepsLive ==
    ASSUME ~HalCallsFail, LiveInv, m_state = "PREVIEWING", NEW e, PlainEvent(e),
           ProcEvtPreviewingState(e)
    PROVE  LiveStep
<1>0. /\ channels \in ChannelsType /\ liveThread # "running" /\ (par.hint => Has(channels))
      /\ par \in ParamsType /\ ~par.zsl /\ ~mLongshotEnabled
  BY DEF LiveInv, LiveFit, VideoInv, LivePics
<1>1. CASE PreviewingSettings(e)
  BY <1>1, SettingsKeepLive DEF PreviewingSettings, PreviewRestart, PreviewingLongshotOn, PlainEvent
<1>2. CASE PreviewingStartPreview(e)
  BY <1>2, LiveUntouched DEF PreviewingStartPreview, smVars, hwVars, confVars
<1>3. CASE PreviewingStopPreview(e)
  BY <1>0, <1>3 DEF PreviewingStopPreview, confVars, LiveStep, HintStates, LivePics
<1>4. CASE PreviewingStartRecording(e)
  <2>1. Has(channels') /\ par'.hint
    BY <1>0, <1>4, StartRecordingHas DEF PreviewingStartRecording
  <2>2. /\ UNCHANGED <<liveThread, mLongshotEnabled>>
        /\ m_state' \in {"PREVIEWING", "RECORDING"}
    BY <1>4 DEF PreviewingStartRecording
  <2> QED BY <1>0, <2>1, <2>2 DEF LiveStep, HintStates, LivePics
<1>5. CASE PreviewingPrepareSnapshot(e)
  <2>1. /\ UNCHANGED <<channels, liveThread, par, mLongshotEnabled>>
        /\ m_state' \in {"PREVIEWING", "PREPARE_SNAPSHOT"}
    BY <1>5 DEF PreviewingPrepareSnapshot, Only, smVars, hwVars, confVars
  <2> QED BY <1>0, <2>1 DEF LiveStep, HintStates, LivePics
<1>6. CASE PreviewingTakePicture(e)
  <2>1. /\ UNCHANGED <<liveThread, par, mLongshotEnabled>> /\ ~par.hint
        /\ m_state' \in {"PIC_TAKING", "PREVIEW_STOPPED"}
    BY <1>0, <1>6 DEF PreviewingTakePicture, confVars
  <2> QED BY <1>0, <2>1 DEF LiveStep, HintStates, LivePics
<1>7. CASE PreviewingLiveSnapshot(e)
  <2>1. /\ UNCHANGED <<channels, par, mLongshotEnabled>> /\ par.hint
        /\ \/ m_state' = "PREVIEWING" /\ liveThread' = liveThread
           \/ m_state' = "PREVIEW_PIC_TAKING"
    BY <1>7 DEF PreviewingLiveSnapshot, TakeLiveSnapshot, confVars
  <2> QED BY <1>0, <2>1 DEF LiveStep, HintStates, LivePics
<1> QED BY <1>1, <1>2, <1>3, <1>4, <1>5, <1>6, <1>7, SettingsKeepLive
        DEF ProcEvtPreviewingState, PreviewingOther

LEMMA PreparingKeepsLive ==
    ASSUME LiveInv, m_state = "PREPARE_SNAPSHOT", NEW e, ProcEvtPrepareSnapshotState(e)
    PROVE  LiveStep
<1>1. CASE PreparingDone(e)
  BY <1>1 DEF PreparingDone, hwVars, confVars, LiveInv, LiveFit, LiveStep, HintStates, LivePics
<1> QED BY <1>1, SettingsKeepLive DEF ProcEvtPrepareSnapshotState, PreparingApi

LEMMA PicTakingKeepsLive ==
    ASSUME LiveInv, m_state = "PIC_TAKING", NEW e, PlainEvent(e), ProcEvtPicTakingState(e)
    PROVE  LiveStep
<1>0. liveThread # "running" /\ ~par.hint
  BY DEF LiveInv, LiveFit, LivePics
<1>1. CASE PicSettings(e)
  BY <1>1, SettingsKeepLive DEF PicSettings, PlainEvent
<1>2. CASE PicCancel(e) \/ PicSnapshotDone(e) \/ PicStopCaptureChannel(e) \/ PicDaemonDied(e)
  <2>1. /\ UNCHANGED <<liveThread, par, mLongshotEnabled>>
        /\ m_state' \in {"PREVIEW_STOPPED", "PREVIEWING", "PIC_TAKING"}
    BY <1>2 DEF PicCancel, PicSnapshotDone, PicStopCaptureChannel, PicDaemonDied, smVars, hwVars, confVars
  <2> QED BY <1>0, <2>1 DEF LiveStep, HintStates, LivePics
<1> QED BY <1>1, <1>2, SettingsKeepLive DEF ProcEvtPicTakingState, PicOther

LEMMA RecordingKeepsLive ==
    ASSUME LiveInv, m_state = "RECORDING", NEW e, PlainEvent(e), ProcEvtRecordingState(e)
    PROVE  LiveStep
<1>0. channels \in ChannelsType /\ liveThread # "running" /\ par.hint /\ Has(channels)
  BY DEF LiveInv, LiveFit, VideoInv, LivePics, HintStates
<1>1. CASE RecordingSettings(e)
  BY <1>1, SettingsKeepLive DEF RecordingSettings, RecordingSetParams, PlainEvent
<1>2. CASE RecordingTakePicture(e)
  <2>1. /\ UNCHANGED <<channels, par, mLongshotEnabled>>
        /\ \/ m_state' = "RECORDING" /\ liveThread' = liveThread
           \/ m_state' = "VIDEO_PIC_TAKING"
    BY <1>2 DEF RecordingTakePicture, TakeLiveSnapshot, confVars
  <2> QED BY <1>0, <2>1 DEF LiveStep, HintStates, LivePics
<1>3. CASE RecordingStop(e)
  <2>1. Has(StopRecording(channels))
    BY <1>0, HasOps
  <2>2. /\ UNCHANGED <<liveThread, par, mLongshotEnabled>>
        /\ \/ m_state' = "PREVIEWING" /\ channels' = StopRecording(channels)
           \/ m_state' = "PREVIEW_STOPPED"
    BY <1>3 DEF RecordingStop, confVars
  <2> QED BY <1>0, <2>1, <2>2 DEF LiveStep, HintStates, LivePics
<1> QED BY <1>1, <1>2, <1>3, SettingsKeepLive DEF ProcEvtRecordingState, RecordingOther

LEMMA VideoPicKeepsLive ==
    ASSUME LiveInv, m_state = "VIDEO_PIC_TAKING", NEW e, PlainEvent(e), ProcEvtVideoPicTakingState(e)
    PROVE  LiveStep
<1>0. channels \in ChannelsType /\ par.hint /\ Has(channels)
  BY DEF LiveInv, LiveFit, VideoInv, LivePics, HintStates
<1>1. CASE RecordingSettings(e)
  BY <1>1, SettingsKeepLive DEF RecordingSettings, RecordingSetParams, PlainEvent
<1>2. CASE VideoPicStop(e) \/ VideoPicSnapshotDone(e)
  <2>1. LiveStopped \in ChannelsType /\ Has(LiveStopped)
    BY <1>0, HasOps, StopChannelsProp DEF LiveStopped
  <2>2. Has(StopRecording(LiveStopped))
    BY <2>1, HasOps
  <2>3. /\ liveThread' = "none" /\ UNCHANGED <<par, mLongshotEnabled>>
        /\ \/ m_state' = "PREVIEWING" /\ channels' = StopRecording(LiveStopped)
           \/ m_state' = "PREVIEW_STOPPED"
           \/ m_state' = "RECORDING" /\ channels' = LiveStopped
    BY <1>2 DEF VideoPicStop, VideoPicSnapshotDone, CancelLiveSnapshot, confVars
  <2> QED BY <1>0, <2>1, <2>2, <2>3 DEF LiveStep, HintStates, LivePics
<1> QED BY <1>1, <1>2, SettingsKeepLive DEF ProcEvtVideoPicTakingState, VideoPicOther

LEMMA PreviewPicKeepsLive ==
    ASSUME ~HalCallsFail, LiveInv, m_state = "PREVIEW_PIC_TAKING", NEW e, PlainEvent(e),
           ProcEvtPreviewPicTakingState(e)
    PROVE  LiveStep
<1>0. /\ channels \in ChannelsType /\ par.hint /\ Has(channels)
      /\ par \in ParamsType /\ ~par.zsl /\ ~mLongshotEnabled
  BY DEF LiveInv, LiveFit, VideoInv, LivePics, HintStates
<1>1. CASE PreviewPicSettings(e)
  BY <1>1, SettingsKeepLive DEF PreviewPicSettings, PreviewRestart, PlainEvent
<1>2. CASE PreviewPicCancel(e) \/ PreviewPicSnapshotDone(e)
  <2>1. PictureEnded = LiveStopped /\ Has(LiveStopped)
    BY <1>0, HasOps DEF PictureEnded, LiveStopped
  <2>2. /\ liveThread' = "none" /\ UNCHANGED <<par, mLongshotEnabled>>
        /\ \/ m_state' = "PREVIEWING" /\ channels' = PictureEnded
           \/ m_state' = "PREVIEW_STOPPED"
    BY <1>0, <1>2 DEF PreviewPicCancel, PreviewPicSnapshotDone, PicturePart, CancelLiveSnapshot, confVars
  <2> QED BY <1>0, <2>1, <2>2 DEF LiveStep, HintStates, LivePics
<1>3. CASE PreviewPicStartRecording(e) /\ ~Only(e.evt, FALSE)
  <2>1. Has(channels') /\ par'.hint
    BY <1>0, <1>3, StartRecordingHas DEF PreviewPicStartRecording
  <2>2. /\ UNCHANGED <<liveThread, mLongshotEnabled>>
        /\ m_state' \in {"PREVIEW_PIC_TAKING", "VIDEO_PIC_TAKING"}
    BY <1>3 DEF PreviewPicStartRecording
  <2> QED BY <1>0, <2>1, <2>2 DEF LiveStep, HintStates, LivePics
<1>4. CASE PreviewPicPrepareSnapshot(e) \/ Only(e.evt, FALSE)
  <2>1. UNCHANGED <<m_state, channels, liveThread, par, mLongshotEnabled>>
    BY <1>4 DEF PreviewPicPrepareSnapshot, Only, smVars, hwVars, confVars
  <2> QED BY <2>1, LiveUntouched
<1> QED BY <1>1, <1>2, <1>3, <1>4, SettingsKeepLive
        DEF ProcEvtPreviewPicTakingState, PreviewPicOther, PreviewPicRetro

LEMMA HintOnlyRises ==
    ASSUME ~HalCallsFail, par \in ParamsType, ~par.zsl, ~par.zslNew, NEW e, PlainEvent(e), ParMoves(e)
    PROVE  par' \in ParamsType /\ ~par'.zsl /\ ~par'.zslNew
<1>1. CASE par' = par
  BY <1>1
<1>2. CASE par' \in HintSet(par)
  <2>1. par' = CommitParams([par EXCEPT !.hintNew = TRUE])
    BY <1>2 DEF HintSet
  <2> QED BY <2>1 DEF CommitParams, ParamsType
<1> QED BY <1>1, <1>2 DEF ParMoves, PlainEvent

LEMMA StateMachineKeepsLive ==
    ASSUME ~HalCallsFail, LiveInv, NEW e, PlainEvent(e), StateMachine(e)
    PROVE  LiveInv'
<1>1. LiveStep
  BY StoppedKeepsLive, ReadyKeepsLive, PreviewingKeepsLive, PreparingKeepsLive, PicTakingKeepsLive,
     RecordingKeepsLive, VideoPicKeepsLive, PreviewPicKeepsLive DEF StateMachine
<1>2. par' \in ParamsType /\ ~par'.zsl /\ ~par'.zslNew
  BY HintOnlyRises, HandlersMovePar DEF LiveInv
<1>3. VideoInv'
  BY StateMachineStep DEF LiveInv
<1>4. LiveFit'
  BY <1>1 DEF LiveStep, LiveFit, Has
<1> QED BY <1>1, <1>2, <1>3, <1>4 DEF LiveInv, LiveStep

\* The thread finds its channel.
LEMMA LiveSnapshotKeepsLive ==
    ASSUME ~HalCallsFail, LiveInv, LiveSnapshot
    PROVE  LiveInv' /\ out'.posted = {}
<1>1. /\ UNCHANGED <<m_state, par, mLongshotEnabled>>
      /\ liveThread = "running" /\ liveThread' = "ended"
  BY DEF LiveSnapshot, smVars, confVars
<1>2. channels \in ChannelsType /\ Has(channels) /\ "SNAPSHOT" \in Channels
  BY <1>1 DEF LiveInv, LiveFit, VideoInv, LivePics, HintStates, Channels
<1>3. PICK o \in StartChannel(channels, "SNAPSHOT") :
        /\ channels' = o.ch
        /\ out' = [NoOutput EXCEPT !.posted = IF o.ok THEN {} ELSE {"CANCEL_PICTURE"}]
  BY DEF LiveSnapshot
<1>4. o.ok
  BY <1>2, StartSucceeds DEF Has
<1>5. out'.posted = {}
  BY <1>3, <1>4 DEF NoOutput
<1>6. VideoInv'
  BY LiveSnapshotStep DEF LiveInv
<1>7. Has(channels')
  BY <1>2, <1>3, HasOps
<1>8. LiveFit'
  BY <1>1, <1>7 DEF LiveInv, LiveFit, Has
<1> QED BY <1>1, <1>5, <1>6, <1>8 DEF LiveInv

-----------------------------------------------------------------------------
(* The framework's callers.                                                  *)

Waitable == Calls \cup {"PREPARE_SNAPSHOT"}

CallSteps == {<<>>} \cup {<<evt>> : evt \in Waitable}
               \cup (IF "TAKE_PICTURE" \in Calls
                       THEN {<<"PREPARE_SNAPSHOT", "TAKE_PICTURE">>, <<"TAKE_PICTURE", "PREPARE_SNAPSHOT">>}
                       ELSE {})

\* The caller waits for "v" in the first of these steps.
Awaits(steps, v) == steps # <<>> /\ Head(steps) = v

Waiters(f, v) == {c \in Callers : Awaits(f[c], v)}

LEMMA StepsProp ==
    ASSUME NEW s \in CallSteps, s # <<>>
    PROVE  Head(s) \in Waitable /\ Tail(s) \in CallSteps
<1>1. CASE \E evt \in Waitable : s = <<evt>>
  BY <1>1 DEF CallSteps
<1>2. CASE "TAKE_PICTURE" \in Calls /\ s = <<"PREPARE_SNAPSHOT", "TAKE_PICTURE">>
  <2>1. Head(s) = "PREPARE_SNAPSHOT" /\ Tail(s) = <<"TAKE_PICTURE">>
    BY <1>2
  <2> QED BY <1>2, <2>1 DEF CallSteps, Waitable
<1>3. CASE "TAKE_PICTURE" \in Calls /\ s = <<"TAKE_PICTURE", "PREPARE_SNAPSHOT">>
  <2>1. Head(s) = "TAKE_PICTURE" /\ Tail(s) = <<"PREPARE_SNAPSHOT">>
    BY <1>3
  <2> QED BY <1>3, <2>1 DEF CallSteps, Waitable
<1> QED BY <1>1, <1>2, <1>3 DEF CallSteps

LEMMA CallTakesSteps ==
    ASSUME NEW evt \in Calls, NEW s \in Steps(evt)
    PROVE  s \in CallSteps /\ s # <<>>
<1>1. CASE evt = "TAKE_PICTURE"
  <2>1. s \in {<<"TAKE_PICTURE", "PREPARE_SNAPSHOT">>, <<"TAKE_PICTURE">>,
               <<"PREPARE_SNAPSHOT", "TAKE_PICTURE">>}
    BY <1>1 DEF Steps
  <2> QED BY <1>1, <2>1 DEF CallSteps, Waitable
<1>2. CASE evt # "TAKE_PICTURE"
  BY <1>2 DEF Steps, CallSteps, Waitable
<1> QED BY <1>1, <1>2

LEMMA WaitersMove ==
    ASSUME NEW f, NEW g, NEW c \in Callers, \A d \in Callers \ {c} : g[d] = f[d],
           NEW v, IsFiniteSet(Waiters(f, v))
    PROVE  /\ IsFiniteSet(Waiters(g, v))
           /\ Cardinality(Waiters(f, v)) \in Nat
           /\ (Awaits(f[c], v) <=> Awaits(g[c], v)) =>
                 Cardinality(Waiters(g, v)) = Cardinality(Waiters(f, v))
           /\ ~Awaits(f[c], v) /\ Awaits(g[c], v) =>
                 Cardinality(Waiters(g, v)) = Cardinality(Waiters(f, v)) + 1
           /\ Awaits(f[c], v) /\ ~Awaits(g[c], v) =>
                 Cardinality(Waiters(g, v)) = Cardinality(Waiters(f, v)) - 1
<1> DEFINE F == Waiters(f, v)
           G == Waiters(g, v)
<1>1. \A d \in Callers \ {c} : g[d] = f[d]
  OBVIOUS
<1>2. c \in F <=> Awaits(f[c], v)
  BY DEF Waiters
<1>3. c \in G <=> Awaits(g[c], v)
  BY DEF Waiters
<1>4. \A d \in Callers \ {c} : d \in F <=> d \in G
  BY <1>1 DEF Waiters
<1>5. F \subseteq Callers /\ G \subseteq Callers
  BY DEF Waiters
<1>6. IsFiniteSet(F) /\ Cardinality(F) \in Nat
  BY FS_CardinalityType
<1> HIDE DEF F, G
<1>7. CASE Awaits(f[c], v) <=> Awaits(g[c], v)
  <2>1. F = G
    BY <1>2, <1>3, <1>4, <1>5, <1>7
  <2> QED BY <1>6, <1>7, <2>1 DEF F, G
<1>8. CASE ~Awaits(f[c], v) /\ Awaits(g[c], v)
  <2>1. G = F \cup {c} /\ c \notin F
    BY <1>2, <1>3, <1>4, <1>5, <1>8
  <2>2. IsFiniteSet(G) /\ Cardinality(G) = Cardinality(F) + 1
    BY <1>6, <2>1, FS_AddElement
  <2> QED BY <1>6, <1>8, <2>2 DEF F, G
<1>9. CASE Awaits(f[c], v) /\ ~Awaits(g[c], v)
  <2>1. G = F \ {c} /\ c \in F
    BY <1>2, <1>3, <1>4, <1>5, <1>9
  <2>2. IsFiniteSet(G) /\ Cardinality(G) = Cardinality(F) - 1
    BY <1>6, <2>1, FS_RemoveElement
  <2> QED BY <1>6, <1>9, <2>2 DEF F, G
<1> QED BY <1>7, <1>8, <1>9

-----------------------------------------------------------------------------
(* The invariant.  Its first part holds always, its second while the daemon  *)
(* lives and pictures are not retro-active.                                  *)

\* Every event the framework issues is answered in every state.
AlwaysAnswered == "REG_FACE_IMAGE" \notin Calls

\* No SET_PARAMS takes a camera with retro-active pictures in or out of ZSL mode.
ModeKept == RetroSnapshots => "SET_PARAMS" \notin Calls \/ \A s \in Settings : ~s.zsl

\* If the framework cancels pictures, nobody else does.
CancelsAreCalls ==
    "CANCEL_PICTURE" \in Calls =>
        /\ ~HalCallsFail
        /\ Calls \cap {"SET_PARAMS", "LONGSHOT_ON", "LONGSHOT_OFF"} = {}
        /\ \A s \in Settings : s.zsl => RetroSnapshots

ModeInv ==
    /\ par \in ParamsType
    /\ RetroSnapshots => /\ par.zslNew = par.zsl
                         /\ (\A s \in Settings : ~s.zsl) => ~par.zsl

\* What may be queued for the state machine thread.
ApiMessage(m) ==
    /\ m.evt \in Waitable \cup {"CANCEL_PICTURE", "STOP_CAPTURE_CHANNEL", "EXIT"}
    /\ Carries(m)

QueuesInv ==
    /\ IsSeq(api_queue) /\ IsSeq(evt_queue)
    /\ \A m \in ToSet(api_queue) : ApiMessage(m)
    /\ \A m \in ToSet(evt_queue) : m.evt \in Unawaited

CallersInv ==
    /\ call \in [Callers -> CallSteps]
    /\ \A v : IsFiniteSet(Waiters(call, v))
    /\ woken \in [Callers -> BOOLEAN]
    /\ closing # "open" => \A c \in Callers : call[c] = <<>>

ShapeInv == ModeInv /\ QueuesInv /\ CallersInv

PrepInv ==
    LET done == CountIn(evt_queue, "PREP_SNAPSHOT_DONE")
    IN  IF m_state = "PREPARE_SNAPSHOT"
          THEN IF prepSnapshot THEN done = 0 ELSE done = 1
          ELSE ~prepSnapshot /\ done = 0

\* An answer owed by the daemon.
Owed(state, evt) == IF evt = "PREPARE_SNAPSHOT" /\ state = "PREPARE_SNAPSHOT" THEN 1 ELSE 0

Balanced ==
    \A evt \in Waitable :
        Cardinality(Waiters(call, evt)) =
            CountIn(api_queue, evt) + CountRes(m_apiResultList, evt) + Owed(m_state, evt)

Ordinary == daemon /\ ~RetroPictures

PlainInv ==
    /\ ~bRetroPicture /\ retro = "no"
    /\ IsSeq(m_apiResultList)
    /\ \A m \in ToSet(evt_queue) : m.evt \in {"SNAPSHOT_DONE", "PREP_SNAPSHOT_DONE"}
    /\ PrepInv
    /\ "CANCEL_PICTURE" \in Calls /\ closing = "open" => LiveInv
    /\ Balanced

ApiInv == ShapeInv /\ (Ordinary => PlainInv)

LEMMA WaitableProp ==
    /\ Waitable \cap {"CANCEL_PICTURE", "STOP_CAPTURE_CHANNEL", "EXIT"} \subseteq Calls \cap {"CANCEL_PICTURE"}
    /\ Waitable \cap InternalEvents = {}
    /\ Waitable \cap Unawaited = {}
BY ApiAssumption DEF Waitable, ApiEvents, Queries, InternalEvents, Unawaited

\* What the run checks follows.
LEMMA BalancedCounts ==
    ASSUME ApiInv
    PROVE  EachCallAnsweredOnce
<1> SUFFICES ASSUME daemon, ~RetroPictures, NEW evt \in Waitable
             PROVE  WaitingFor(evt) = CountIn(api_queue, evt) + CountResults(evt) + Deferred(evt)
  BY DEF EachCallAnsweredOnce, Waitable
<1>1. PlainInv /\ QueuesInv
  BY DEF ApiInv, ShapeInv, Ordinary
<1>2. {c \in Waiting : Head(call[c]) = evt} = Waiters(call, evt)
  BY DEF Waiting, Waiters, Awaits
<1>3. CountResults(evt) = CountRes(m_apiResultList, evt)
  BY DEF CountResults, CountRes
<1>4. CountIn(evt_queue, "READY_FOR_SNAPSHOT") = 0
  BY <1>1, QueueType DEF PlainInv, QueuesInv
<1>5. Deferred(evt) = Owed(m_state, evt)
  <2>1. CASE evt = "PREPARE_SNAPSHOT"
    BY <1>1, <2>1 DEF PlainInv, PrepInv, Deferred, Owed
  <2>2. CASE evt = "TAKE_PICTURE"
    BY <1>1, <1>4, <2>2 DEF PlainInv, Deferred, Owed
  <2>3. CASE evt # "PREPARE_SNAPSHOT" /\ evt # "TAKE_PICTURE"
    BY <2>3 DEF Deferred, Owed
  <2> QED BY <2>1, <2>2, <2>3
<1> QED BY <1>1, <1>2, <1>3, <1>5 DEF PlainInv, Balanced, WaitingFor

-----------------------------------------------------------------------------
(* The shape of queues and callers, kept by every step.                      *)

LEMMA SecondStep ==
    ASSUME NEW s \in CallSteps, s # <<>>, Tail(s) # <<>>
    PROVE  Head(Tail(s)) \in Waitable /\ Head(Tail(s)) # "SET_PARAMS"
<1>1. \A evt \in Waitable : Tail(<<evt>>) = <<>>
  OBVIOUS
<1>2. CASE "TAKE_PICTURE" \in Calls /\ s = <<"PREPARE_SNAPSHOT", "TAKE_PICTURE">>
  <2>1. Head(Tail(s)) = "TAKE_PICTURE"
    BY <1>2
  <2> QED BY <1>2, <2>1 DEF Waitable
<1>3. CASE "TAKE_PICTURE" \in Calls /\ s = <<"TAKE_PICTURE", "PREPARE_SNAPSHOT">>
  <2>1. Head(Tail(s)) = "PREPARE_SNAPSHOT"
    BY <1>3
  <2> QED BY <2>1 DEF Waitable
<1> QED BY <1>1, <1>2, <1>3 DEF CallSteps

LEMMA FirstStep ==
    ASSUME NEW evt \in Calls, NEW s \in Steps(evt), Head(s) = "SET_PARAMS"
    PROVE  evt = "SET_PARAMS"
<1>1. CASE evt = "TAKE_PICTURE"
  <2>1. s \in {<<"TAKE_PICTURE", "PREPARE_SNAPSHOT">>, <<"TAKE_PICTURE">>,
               <<"PREPARE_SNAPSHOT", "TAKE_PICTURE">>}
    BY <1>1 DEF Steps
  <2>2. Head(s) \in {"TAKE_PICTURE", "PREPARE_SNAPSHOT"}
    BY <2>1
  <2> QED BY <2>2
<1>2. CASE evt # "TAKE_PICTURE"
  BY <1>2 DEF Steps
<1> QED BY <1>1, <1>2

LEMMA HandlersKeepMode ==
    ASSUME ModeKept, ModeInv, NEW e, Carries(e), e.evt = "SET_PARAMS" => "SET_PARAMS" \in Calls,
           StateMachine(e)
    PROVE  ModeInv' /\ (RetroSnapshots => par'.zsl = par.zsl)
<1>1. ParMoves(e)
  BY HandlersMovePar
<1>2. par' \in ParamsType
  BY <1>1, ParamsStayTyped DEF ModeInv
<1>3. ASSUME RetroSnapshots PROVE par'.zslNew = par'.zsl /\ par'.zsl = par.zsl
  <2>1. par \in ParamsType /\ par.zslNew = par.zsl
    BY <1>3 DEF ModeInv
  <2>2. CASE par' = par
    BY <2>1, <2>2
  <2>3. CASE par' \in HintSet(par)
    <3>1. \/ par' = CommitParams([par EXCEPT !.hintNew = TRUE])
          \/ par' = [par EXCEPT !.hintNew = TRUE]
      BY <2>3 DEF HintSet
    <3> QED BY <2>1, <3>1 DEF CommitParams, ParamsType
  <2>4. CASE /\ e.evt = "SET_PARAMS"
             /\ par' \in {UpdateParams(par, e.arg), CommitParams(UpdateParams(par, e.arg))}
    <3>0. \A s \in Settings : ~s.zsl
      BY <1>3, <2>4 DEF ModeKept
    <3>1. e.arg \in Settings /\ ~e.arg.zsl /\ ~par.zsl
      <4>1. e.arg \in Settings
        BY <2>4 DEF Carries
      <4>2. ~e.arg.zsl
        BY <3>0, <4>1, Zenon
      <4>3. ~par.zsl
        BY <1>3, <3>0, Zenon DEF ModeInv
      <4> QED BY <4>1, <4>2, <4>3
    <3>2. e.arg \in [zsl : BOOLEAN, hint : BOOLEAN, raw : BOOLEAN]
      BY <3>1, CameraAssumption
    <3>3. /\ UpdateParams(par, e.arg) \in ParamsType
          /\ ~UpdateParams(par, e.arg).zsl /\ ~UpdateParams(par, e.arg).zslNew
      BY <2>1, <3>1, <3>2 DEF UpdateParams, HintChanged, ParamsType
    <3>4. ASSUME NEW p \in ParamsType, ~p.zsl, ~p.zslNew
          PROVE  ~CommitParams(p).zsl /\ ~CommitParams(p).zslNew
      BY <3>4 DEF CommitParams, ParamsType
    <3>5. ~par'.zsl /\ ~par'.zslNew
      BY <2>4, <3>1, <3>3, <3>4
    <3>6. {par'.zsl, par'.zslNew, par.zsl} \subseteq BOOLEAN
      BY <1>2, <2>1 DEF ParamsType
    <3> QED BY <3>1, <3>5, <3>6
  <2> QED BY <1>1, <2>2, <2>3, <2>4 DEF ParMoves
<1> QED BY <1>2, <1>3 DEF ModeInv

LEMMA PostedPlain ==
    ASSUME NEW q, IsSeq(q), NEW s, s \subseteq {"SNAPSHOT_DONE"}
    PROVE  /\ IsSeq(q \o Posted(s))
           /\ ToSet(q \o Posted(s)) \subseteq ToSet(q) \cup {Event("SNAPSHOT_DONE", TRUE)}
           /\ CountIn(q \o Posted(s), "PREP_SNAPSHOT_DONE") = CountIn(q, "PREP_SNAPSHOT_DONE")
<1>1. CASE s = {}
  BY <1>1, PostedOne, ConcatOne
<1>2. CASE s = {"SNAPSHOT_DONE"}
  <2> DEFINE m == Event("SNAPSHOT_DONE", TRUE)
  <2>1. q \o Posted(s) = Append(q, m)
    BY <1>2, PostedOne, ConcatOne
  <2>2. m.evt # "PREP_SNAPSHOT_DONE"
    BY DEF Event
  <2> HIDE DEF m
  <2>3. /\ IsSeq(Append(q, m))
        /\ ToSet(Append(q, m)) = ToSet(q) \cup {m}
        /\ CountIn(Append(q, m), "PREP_SNAPSHOT_DONE") = CountIn(q, "PREP_SNAPSHOT_DONE")
    BY <2>2, QueueAppend
  <2>4. ToSet(Append(q, m)) \subseteq ToSet(q) \cup {Event("SNAPSHOT_DONE", TRUE)}
    BY <2>3 DEF m
  <2> QED BY <2>1, <2>3, <2>4
<1> QED BY <1>1, <1>2

LEMMA Messages ==
    /\ \A evt \in {"CANCEL_PICTURE", "STOP_CAPTURE_CHANNEL", "EXIT"} : ApiMessage(Event(evt, TRUE))
    /\ \A evt \in Waitable \ {"SET_PARAMS"} : ApiMessage(Event(evt, TRUE))
    /\ \A evt \in Waitable : \A arg \in CallArguments(evt) : ApiMessage(Event(evt, arg))
<1>1. \A evt, arg : Event(evt, arg).evt = evt /\ Event(evt, arg).arg = arg
  BY DEF Event
<1>2. \A arg \in CallArguments("SET_PARAMS") : arg \in Settings
  BY DEF CallArguments
<1> QED BY <1>1, <1>2 DEF ApiMessage, Carries

LEMMA HandledHead ==
    ASSUME QueuesInv, api_queue # <<>>
    PROVE  /\ ApiMessage(Head(api_queue))
           /\ Head(api_queue).evt = "SET_PARAMS" => "SET_PARAMS" \in Calls
<1>1. ApiMessage(Head(api_queue))
  BY QueueTail DEF QueuesInv
<1> QED BY <1>1 DEF ApiMessage, Waitable

LEMMA EventHead ==
    ASSUME QueuesInv, evt_queue # <<>>
    PROVE  Head(evt_queue).evt \in Unawaited /\ Carries(Head(evt_queue))
<1>1. Head(evt_queue).evt \in Unawaited
  BY QueueTail DEF QueuesInv
<1> QED BY <1>1 DEF Carries, Unawaited

\* The mode is what it was where it decides how pictures are answered.
ModeStep == ModeInv' /\ (RetroSnapshots => par'.zsl = par.zsl)

LEMMA InitialShape ==
    ASSUME AInit, CancelsAreCalls
    PROVE  ApiInv
<1>1. PICK s \in Settings : par = CommittedParams(s)
  BY DEF AInit, Init
<1>2. s \in [zsl : BOOLEAN, hint : BOOLEAN, raw : BOOLEAN]
  BY CameraAssumption
<1>3. par \in ParamsType /\ par.zsl = s.zsl /\ par.zslNew = s.zsl
  BY <1>1, <1>2 DEF CommittedParams, ParamsType
<1>4. ModeInv
  BY <1>3 DEF ModeInv
<1>5. api_queue = <<>> /\ evt_queue = <<>> /\ m_apiResultList = <<>>
  BY DEF AInit
<1>6. IsSeq(<<>>) /\ ToSet(<<>>) = {}
  <2>1. <<>> \in Seq({})
    OBVIOUS
  <2> QED BY <2>1 DEF IsSeq, ToSet
<1>7. QueuesInv
  BY <1>5, <1>6 DEF QueuesInv
<1>8. \A v : Waiters(call, v) = {}
  BY DEF AInit, Waiters, Awaits
<1>9. CallersInv
  <2>1. call \in [Callers -> CallSteps] /\ woken \in [Callers -> BOOLEAN]
    BY DEF AInit, CallSteps
  <2>2. closing = "open"
    BY DEF AInit
  <2> QED BY <1>8, <2>1, <2>2, FS_EmptySet DEF CallersInv
<1>10. /\ \A v : CountIn(<<>>, v) = 0
       /\ \A v : CountRes(<<>>, v) = 0
       /\ Cardinality({}) = 0
  <2>1. DOMAIN <<>> = {}
    OBVIOUS
  <2> QED BY <2>1, FS_EmptySet DEF CountIn, CountRes
<1>11. ~bRetroPicture /\ retro = "no" /\ m_state = "PREVIEW_STOPPED" /\ ~prepSnapshot
       /\ liveThread = "none" /\ ~mLongshotEnabled /\ channels = [k \in Channels |-> "absent"]
  BY DEF AInit, Init
<1>12. Balanced
  <2> SUFFICES ASSUME NEW evt \in Waitable
               PROVE  Cardinality(Waiters(call, evt)) =
                         CountIn(api_queue, evt) + CountRes(m_apiResultList, evt) + Owed(m_state, evt)
    BY DEF Balanced
  <2>1. Waiters(call, evt) = {}
    BY <1>8
  <2>2. Cardinality(Waiters(call, evt)) = 0
    BY <1>10, <2>1
  <2>3. CountIn(api_queue, evt) = 0 /\ CountRes(m_apiResultList, evt) = 0
    BY <1>5, <1>10
  <2>4. Owed(m_state, evt) = 0
    BY <1>11 DEF Owed
  <2> QED BY <2>2, <2>3, <2>4
<1>13. PrepInv
  BY <1>5, <1>10, <1>11 DEF PrepInv
<1>14. VideoInv
  BY <1>11 DEF VideoInv, VideoRunsWhileRecording, States, Channels, ChannelsType
<1>15. ASSUME Ordinary, "CANCEL_PICTURE" \in Calls PROVE LiveInv
  <2>1. ~par.zsl /\ ~par.zslNew
    BY <1>1, <1>3, <1>15 DEF CancelsAreCalls, Ordinary, RetroPictures
  <2>2. LiveFit
    BY <1>11 DEF LiveFit, HintStates, LivePics
  <2> QED BY <1>3, <1>11, <1>14, <2>1, <2>2 DEF LiveInv
<1> QED BY <1>4, <1>5, <1>6, <1>7, <1>9, <1>11, <1>12, <1>13, <1>15 DEF ApiInv, ShapeInv, PlainInv

LEMMA ModeUntouched ==
    ASSUME ModeInv, par' = par
    PROVE  ModeStep
BY DEF ModeInv, ModeStep

LEMMA CallersStay ==
    ASSUME CallersInv, call' = call, woken' \in [Callers -> BOOLEAN],
           closing' = closing \/ Waiting = {}
    PROVE  CallersInv'
<1>1. closing' # "open" => \A c \in Callers : call[c] = <<>>
  BY DEF CallersInv, Waiting
<1> QED BY <1>1 DEF CallersInv

LEMMA PostApiAdds ==
    ASSUME QueuesInv, NEW x, ApiMessage(Event(x, TRUE)), NEW s, s \subseteq {x}, PostApi(s)
    PROVE  /\ IsSeq(api_queue')
           /\ \A m \in ToSet(api_queue') : ApiMessage(m)
           /\ \A v : v # x => CountIn(api_queue', v) = CountIn(api_queue, v)
           /\ s = {} => api_queue' = api_queue
<1> DEFINE m == Event(x, TRUE)
<1>1. IsSeq(api_queue) /\ \A n \in ToSet(api_queue) : ApiMessage(n)
  BY DEF QueuesInv
<1>2. ApiMessage(m) /\ m.evt = x
  BY DEF Event
<1>3. Posted({}) = <<>> /\ Posted({x}) = <<m>>
  BY PostedOne
<1> HIDE DEF m
<1>4. api_queue' = api_queue \/ (s = {x} /\ api_queue' = Append(api_queue, m))
  <2>1. s = {} \/ s = {x}
    OBVIOUS
  <2>2. api_queue' = api_queue \o Posted(s) \/ api_queue' = api_queue
    BY DEF PostApi
  <2>3. api_queue \o <<>> = api_queue /\ api_queue \o <<m>> = Append(api_queue, m)
    BY <1>1, ConcatOne
  <2> QED BY <1>3, <2>1, <2>2, <2>3
<1>5. CASE api_queue' = api_queue
  BY <1>1, <1>5
<1>6. CASE s = {x} /\ api_queue' = Append(api_queue, m)
  BY <1>1, <1>2, <1>6, QueueAppend
<1> QED BY <1>4, <1>5, <1>6

LEMMA ProcEvtAdds ==
    ASSUME QueuesInv, NEW evt \in Unawaited, ProcEvt(evt)
    PROVE  /\ IsSeq(evt_queue')
           /\ \A m \in ToSet(evt_queue') : m.evt \in Unawaited
           /\ \A m \in ToSet(evt_queue') : m \in ToSet(evt_queue) \/ m.evt = evt
           /\ \A v : CountIn(evt_queue', v) =
                        IF evt = v THEN CountIn(evt_queue, v) + 1 ELSE CountIn(evt_queue, v)
<1> DEFINE m == Event(evt, TRUE)
<1>1. evt_queue' = Append(evt_queue, m) /\ m.evt = evt
  BY DEF ProcEvt, Event
<1> HIDE DEF m
<1> QED BY <1>1, QueueAppend DEF QueuesInv

LEMMA ProcApiAdds ==
    ASSUME QueuesInv, NEW evt, NEW arg, ApiMessage(Event(evt, arg)), ProcApi(evt, arg)
    PROVE  /\ IsSeq(api_queue')
           /\ \A m \in ToSet(api_queue') : ApiMessage(m)
           /\ \A v : CountIn(api_queue', v) =
                        IF evt = v THEN CountIn(api_queue, v) + 1 ELSE CountIn(api_queue, v)
<1> DEFINE m == Event(evt, arg)
<1>1. api_queue' = Append(api_queue, m) /\ m.evt = evt /\ ApiMessage(m)
  BY DEF ProcApi, Event
<1> HIDE DEF m
<1> QED BY <1>1, QueueAppend DEF QueuesInv

LEMMA HandlingKeepsQueues ==
    ASSUME QueuesInv, CallersInv, NextApi \/ NextEvt
    PROVE  QueuesInv' /\ CallersInv'
<1>1. QueuesInv /\ CallersInv
  OBVIOUS
<1>2. \/ NextApi /\ Handle(Head(api_queue)) /\ api_queue # <<>>
      \/ NextEvt /\ Handle(Head(evt_queue)) /\ evt_queue # <<>>
  BY DEF NextApi, NextEvt
<1>3. CallersInv'
  <2>1. call' = call /\ closing' = closing
    BY DEF NextApi, NextEvt, lifeVars
  <2>2. Signal
    BY <1>2 DEF Handle
  <2>3. woken' \in [Callers -> BOOLEAN]
    BY <1>1, <2>2 DEF Signal, CallersInv
  <2> QED BY <1>1, <2>1, <2>3, CallersStay
<1>4. PostsLittle
  BY <1>2, HandlersPostLittle DEF Handle
<1>5. \A q : IsSeq(q) =>
         /\ IsSeq(q \o Posted(out'.posted))
         /\ ToSet(q \o Posted(out'.posted)) \subseteq ToSet(q) \cup {Event("SNAPSHOT_DONE", TRUE)}
  BY <1>4, PostedPlain DEF PostsLittle
<1>6. Event("SNAPSHOT_DONE", TRUE).evt \in Unawaited
  BY DEF Event, Unawaited
<1>7. CASE NextApi /\ Handle(Head(api_queue)) /\ api_queue # <<>>
  <2>2. api_queue' = Tail(api_queue) /\ evt_queue' = evt_queue \o Posted(out'.posted)
    BY <1>7 DEF NextApi
  <2>3. QueuesInv'
    BY <1>1, <1>5, <1>6, <1>7, <2>2, QueueTail DEF QueuesInv
  <2> QED BY <1>3, <2>3
<1>8. CASE NextEvt /\ Handle(Head(evt_queue)) /\ evt_queue # <<>>
  <2>2. api_queue' = api_queue /\ evt_queue' = Tail(evt_queue) \o Posted(out'.posted)
    BY <1>8 DEF NextEvt
  <2>3. IsSeq(Tail(evt_queue)) /\ ToSet(Tail(evt_queue)) \subseteq ToSet(evt_queue)
    BY <1>1, <1>8, QueueTail DEF QueuesInv
  <2>4. /\ IsSeq(evt_queue')
        /\ ToSet(evt_queue') \subseteq ToSet(evt_queue) \cup {Event("SNAPSHOT_DONE", TRUE)}
    BY <1>5, <2>2, <2>3
  <2>5. QueuesInv'
    BY <1>1, <1>6, <2>2, <2>4 DEF QueuesInv
  <2> QED BY <1>3, <2>5
<1> QED BY <1>2, <1>7, <1>8

LEMMA CallingKeepsQueues ==
    ASSUME QueuesInv, CallersInv, NEW c \in Callers, Call(c) \/ Wake(c)
    PROVE  QueuesInv' /\ CallersInv'
<1>1. QueuesInv /\ CallersInv
  OBVIOUS
<1>4. evt_queue' = evt_queue
  BY DEF Call, Wake
<1>5. call \in [Callers -> CallSteps] /\ woken \in [Callers -> BOOLEAN]
  BY <1>1 DEF CallersInv
<1>6. ASSUME NEW s \in CallSteps, call' = [call EXCEPT ![c] = s] PROVE \A v : IsFiniteSet(Waiters(call', v))
  <2> SUFFICES ASSUME NEW v PROVE IsFiniteSet(Waiters(call', v))
    OBVIOUS
  <2>1. IsFiniteSet(Waiters(call, v))
    BY <1>1 DEF CallersInv
  <2>2. \A d \in Callers \ {c} : call'[d] = call[d]
    BY <1>5, <1>6
  <2> QED BY <2>1, <2>2, WaitersMove
<1>7. woken' \in [Callers -> BOOLEAN]
  BY <1>5 DEF Call, Wake
<1>8. CASE Call(c)
  <2>1. PICK evt \in Calls : \E arg \in CallArguments(evt), steps \in Steps(evt) :
          /\ call' = [call EXCEPT ![c] = steps]
          /\ ProcApi(Head(steps), arg)
    BY <1>8 DEF Call
  <2>2. PICK arg \in CallArguments(evt), steps \in Steps(evt) :
          /\ call' = [call EXCEPT ![c] = steps]
          /\ ProcApi(Head(steps), arg)
    BY <2>1
  <2>3. steps \in CallSteps /\ steps # <<>> /\ Head(steps) \in Waitable
    BY CallTakesSteps, StepsProp
  <2>4. ApiMessage(Event(Head(steps), arg))
    <3>1. CASE Head(steps) = "SET_PARAMS"
      BY <2>3, <3>1, FirstStep, Messages
    <3>2. CASE Head(steps) # "SET_PARAMS"
      BY <2>3, <3>2 DEF ApiMessage, Carries, Event
    <3> QED BY <3>1, <3>2
  <2>5. QueuesInv'
    BY <1>1, <1>4, <2>2, <2>4, ProcApiAdds DEF QueuesInv
  <2>6. closing = "open" /\ closing' = closing
    BY <1>8 DEF Call, lifeVars
  <2>7. call' \in [Callers -> CallSteps]
    BY <1>5, <2>2, <2>3
  <2>8. CallersInv'
    BY <1>6, <1>7, <2>2, <2>3, <2>6, <2>7 DEF CallersInv
  <2> QED BY <2>5, <2>8
<1>9. CASE Wake(c)
  <2>1. closing' = closing /\ call[c] # <<>> /\ call[c] \in CallSteps
    BY <1>5, <1>9 DEF Wake, Waiting, lifeVars
  <2>2. CASE UNCHANGED <<call, api_queue>>
    BY <1>1, <1>4, <1>7, <2>1, <2>2, CallersStay DEF QueuesInv
  <2>3. CASE /\ call' = [call EXCEPT ![c] = Tail(call[c])]
             /\ \/ Tail(call[c]) = <<>> /\ UNCHANGED api_queue
                \/ Tail(call[c]) # <<>> /\ ProcApi(Head(Tail(call[c])), TRUE)
    <3>1. Tail(call[c]) \in CallSteps
      BY <2>1, StepsProp
    <3>2. closing = "open"
      BY <1>1, <2>1 DEF CallersInv
    <3>3. call' \in [Callers -> CallSteps]
      BY <1>5, <2>3, <3>1
    <3>4. CallersInv'
      BY <1>6, <1>7, <2>1, <2>3, <3>1, <3>2, <3>3 DEF CallersInv
    <3>5. QueuesInv'
      <4>1. CASE Tail(call[c]) = <<>>
        BY <1>1, <1>4, <2>3, <4>1 DEF QueuesInv
      <4>2. CASE Tail(call[c]) # <<>>
        <5>1. ApiMessage(Event(Head(Tail(call[c])), TRUE))
          BY <2>1, <4>2, SecondStep, Messages
        <5> QED BY <1>1, <1>4, <2>3, <4>2, <5>1, ProcApiAdds DEF QueuesInv
      <4> QED BY <4>1, <4>2
    <3> QED BY <3>4, <3>5
  <2> QED BY <1>9, <2>2, <2>3 DEF Wake
<1> QED BY <1>8, <1>9

LEMMA OthersKeepQueues ==
    ASSUME QueuesInv, CallersInv,
           \/ NextExit \/ LiveThread \/ Notifier \/ Environment \/ DaemonDies \/ Close \/ Destructor
           \/ UNCHANGED apiVars
    PROVE  QueuesInv' /\ CallersInv'
<1>1. QueuesInv /\ CallersInv
  OBVIOUS
<1>2. UNCHANGED <<call, woken>> /\ (closing' = closing \/ closing # "open" \/ Waiting = {})
  BY DEF NextExit, LiveThread, Notifier, Environment, DaemonDies, Close, Destructor, FramesIn,
     NotifierTake, NotifierPost, RetroReady, PrepareDone, SmJoined, NotifierJoined, apiVars, vars,
     CameraUnchanged, threadVars, lifeVars
<1>3. closing # "open" => Waiting = {}
  BY <1>1 DEF CallersInv, Waiting
<1>4. CallersInv'
  BY <1>1, <1>2, <1>3, CallersStay DEF CallersInv
<1>5. QueuesInv'
  <2>1. CASE NextExit
    BY <1>1, <2>1, QueueTail DEF NextExit, QueuesInv
  <2>2. CASE LiveThread
    <3>1. PostApi(out'.posted) /\ out'.posted \subseteq {"CANCEL_PICTURE"} /\ evt_queue' = evt_queue
      BY <2>2, LivePostsCancel DEF LiveThread
    <3>2. ApiMessage(Event("CANCEL_PICTURE", TRUE))
      BY Messages
    <3> QED BY <1>1, <3>1, <3>2, PostApiAdds DEF QueuesInv
  <2>3. CASE FramesIn
    <3>1. PICK s \in SUBSET {"STOP_CAPTURE_CHANNEL"} : PostApi(s)
      BY <2>3 DEF FramesIn
    <3>2. evt_queue' = evt_queue
      BY <2>3 DEF FramesIn
    <3>3. ApiMessage(Event("STOP_CAPTURE_CHANNEL", TRUE))
      BY Messages
    <3> QED BY <1>1, <3>1, <3>2, <3>3, PostApiAdds DEF QueuesInv
  <2>4. CASE NotifierPost \/ RetroReady \/ PrepareDone \/ DaemonDies
    <3>1. \E evt \in Unawaited : ProcEvt(evt)
      BY <2>4 DEF NotifierPost, RetroReady, PrepareDone, DaemonDies, Unawaited
    <3>2. api_queue' = api_queue
      BY <2>4 DEF NotifierPost, RetroReady, PrepareDone, DaemonDies
    <3> QED BY <1>1, <3>1, <3>2, ProcEvtAdds DEF QueuesInv
  <2>5. CASE Close
    <3>1. ProcApi("EXIT", TRUE) /\ evt_queue' = evt_queue
      BY <2>5 DEF Close, Exit, ProcApi
    <3> QED BY <1>1, <3>1, ProcApiAdds, Messages DEF QueuesInv
  <2>6. CASE NotifierTake \/ Destructor \/ UNCHANGED apiVars
    <3>1. UNCHANGED <<api_queue, evt_queue>>
      BY <2>6 DEF NotifierTake, Destructor, SmJoined, NotifierJoined, apiVars, queueVars
    <3> QED BY <1>1, <3>1 DEF QueuesInv
  <2> QED BY <2>1, <2>2, <2>3, <2>4, <2>5, <2>6 DEF Notifier, Environment
<1> QED BY <1>4, <1>5

\* Queues and callers keep their shape.
LEMMA QueuesKept ==
    ASSUME QueuesInv, CallersInv, [ANext]_apiVars
    PROVE  QueuesInv' /\ CallersInv'
BY HandlingKeepsQueues, CallingKeepsQueues, OthersKeepQueues DEF ANext, StateMachineThread

LEMMA ModeIsKept ==
    ASSUME ModeKept, ModeInv, QueuesInv, [ANext]_apiVars
    PROVE  ModeStep
<1>1. CASE NextApi
  BY <1>1, HandledHead, HandlersKeepMode DEF NextApi, Handle, ModeStep, ApiMessage
<1>2. CASE NextEvt
  BY <1>2, EventHead, HandlersKeepMode DEF NextEvt, Handle, ModeStep, Unawaited
<1>3. CASE \/ \E c \in Callers : Call(c) \/ Wake(c)
           \/ NextExit \/ LiveThread \/ Notifier \/ Environment \/ DaemonDies \/ Close \/ Destructor
           \/ UNCHANGED apiVars
  <2>1. par' = par
    BY <1>3 DEF Call, Wake, NextExit, LiveThread, Notifier, Environment, DaemonDies, Close, Destructor,
       FramesIn, NotifierTake, NotifierPost, RetroReady, PrepareDone, SmJoined, NotifierJoined, apiVars, vars,
       CameraUnchanged, LiveSnapshot, confVars
  <2> QED BY <2>1, ModeUntouched
<1> QED BY <1>1, <1>2, <1>3 DEF ANext, StateMachineThread

\* Every step keeps the shape, and nothing makes the camera ordinary again.
LEMMA ShapeKept ==
    ASSUME ModeKept, ShapeInv, [ANext]_apiVars
    PROVE  ShapeInv' /\ ModeStep /\ (Ordinary' => Ordinary)
<1>1. ShapeInv' /\ ModeStep
  BY QueuesKept, ModeIsKept DEF ShapeInv, ModeStep
<1>2. daemon' => daemon
  BY DEF ANext, StateMachineThread, NextApi, NextEvt, NextExit, LiveThread, Notifier, Environment,
     DaemonDies, Close, Destructor, FramesIn, NotifierTake, NotifierPost, RetroReady, PrepareDone,
     SmJoined, NotifierJoined, Call, Wake, apiVars, lifeVars
<1>3. RetroPictures => RetroPictures'
  BY <1>1 DEF ModeStep, RetroPictures
<1> QED BY <1>1, <1>2, <1>3 DEF Ordinary

-----------------------------------------------------------------------------
(* The accounts: what a step adds for one event on one side it adds on the   *)
(* other.                                                                    *)

LEMMA NoEventTwice ==
    ASSUME NEW v \in Waitable
    PROVE  v \notin InternalEvents /\ v \notin Unawaited /\ v \notin {"STOP_CAPTURE_CHANNEL", "EXIT"}
BY WaitableProp, ApiAssumption DEF Waitable, ApiEvents, Queries

\* An event handled is an answer given or owed.
LEMMA AnswerCounts ==
    ASSUME IsSeq(m_apiResultList), NEW e, AnswersOwn(e), Signal, NEW v, v \notin InternalEvents
    PROVE  /\ IsSeq(m_apiResultList')
           /\ CountRes(m_apiResultList', v) + Owed(m_state', v) =
                 (CountRes(m_apiResultList, v) + Owed(m_state, v)) + (IF e.evt = v THEN 1 ELSE 0)
<1>1. m_apiResultList' = m_apiResultList \o SetToSeq(out'.api)
  BY DEF Signal
<1>2. CountRes(m_apiResultList, v) \in Nat
  BY ResultsType
<1>3. ASSUME out'.api = {} PROVE m_apiResultList' = m_apiResultList
  BY <1>1, <1>3, SetToSeqOne, ConcatOne
<1>4. ASSUME NEW x, NEW n, out'.api = {x}, x[1] = n
      PROVE  /\ IsSeq(m_apiResultList')
             /\ CountRes(m_apiResultList', v) =
                   IF n = v THEN CountRes(m_apiResultList, v) + 1 ELSE CountRes(m_apiResultList, v)
  <2>1. m_apiResultList' = Append(m_apiResultList, x)
    BY <1>1, <1>4, SetToSeqOne, ConcatOne
  <2> QED BY <1>4, <2>1, ResultsAppend
<1>5. CASE e.evt \notin Unawaited /\ Told(e) /\ SamePreparing
  <2>1. PICK ok : out'.api = {<<e.evt, ok>>}
    BY <1>5 DEF Told
  <2> DEFINE x == <<e.evt, ok>>
  <2>2. /\ IsSeq(m_apiResultList')
        /\ CountRes(m_apiResultList', v) =
              IF e.evt = v THEN CountRes(m_apiResultList, v) + 1 ELSE CountRes(m_apiResultList, v)
    <3>1. out'.api = {x} /\ x[1] = e.evt
      BY <2>1
    <3> HIDE DEF x
    <3> QED BY <1>4, <3>1
  <2>3. Owed(m_state', v) = Owed(m_state, v) /\ Owed(m_state, v) \in Nat
    BY <1>5 DEF Owed, SamePreparing
  <2> QED BY <1>2, <2>2, <2>3
<1>6. CASE e.evt \in InternalEvents /\ out'.api = {} /\ SamePreparing
  <2>1. Owed(m_state', v) = Owed(m_state, v) /\ Owed(m_state, v) \in Nat
    BY <1>6 DEF Owed, SamePreparing
  <2> QED BY <1>2, <1>3, <1>6, <2>1
<1>7. CASE Prepares(e)
  <2>1. m_apiResultList' = m_apiResultList
    BY <1>3, <1>7 DEF Prepares
  <2>2. Owed(m_state, v) = 0 /\ Owed(m_state', v) = IF e.evt = v THEN 1 ELSE 0
    BY <1>7 DEF Owed, Prepares
  <2> QED BY <1>2, <2>1, <2>2
<1>8. CASE Prepared(e)
  <2>1. out'.api = {<<"PREPARE_SNAPSHOT", TRUE>>}
    BY <1>8 DEF Prepared
  <2>2. /\ IsSeq(m_apiResultList')
        /\ CountRes(m_apiResultList', v) =
              IF "PREPARE_SNAPSHOT" = v THEN CountRes(m_apiResultList, v) + 1 ELSE CountRes(m_apiResultList, v)
    <3>1. <<"PREPARE_SNAPSHOT", TRUE>>[1] = "PREPARE_SNAPSHOT"
      OBVIOUS
    <3> QED BY <1>4, <2>1, <3>1, Zenon
  <2>3. Owed(m_state', v) = 0 /\ Owed(m_state, v) = IF "PREPARE_SNAPSHOT" = v THEN 1 ELSE 0
    BY <1>8 DEF Owed, Prepared
  <2>4. e.evt # v
    BY <1>8 DEF Prepared, InternalEvents
  <2> QED BY <1>2, <2>2, <2>3, <2>4
<1> QED BY <1>5, <1>6, <1>7, <1>8 DEF AnswersOwn

\* The daemon's one debt moves through PREP_SNAPSHOT_DONE to its handler.
LEMMA PreparingCounts ==
    ASSUME PrepInv, NEW e, AnswersOwn(e),
           LET done == CountIn(evt_queue, "PREP_SNAPSHOT_DONE")
           IN  /\ done \in Nat
               /\ e.evt = "PREP_SNAPSHOT_DONE" => done >= 1
               /\ CountIn(evt_queue', "PREP_SNAPSHOT_DONE") =
                     IF e.evt = "PREP_SNAPSHOT_DONE" THEN done - 1 ELSE done
    PROVE  PrepInv'
<1> DEFINE done == CountIn(evt_queue, "PREP_SNAPSHOT_DONE")
           after == CountIn(evt_queue', "PREP_SNAPSHOT_DONE")
<1>1. done \in Nat /\ (e.evt = "PREP_SNAPSHOT_DONE" => done >= 1)
      /\ after = IF e.evt = "PREP_SNAPSHOT_DONE" THEN done - 1 ELSE done
  OBVIOUS
<1>2. IF m_state = "PREPARE_SNAPSHOT" THEN IF prepSnapshot THEN done = 0 ELSE done = 1
      ELSE ~prepSnapshot /\ done = 0
  BY DEF PrepInv
<1>3. SUFFICES IF m_state' = "PREPARE_SNAPSHOT" THEN IF prepSnapshot' THEN after = 0 ELSE after = 1
               ELSE ~prepSnapshot' /\ after = 0
  BY DEF PrepInv
<1> HIDE DEF done, after
<1>4. CASE e.evt \notin Unawaited /\ Told(e) /\ SamePreparing
  <2>1. after = done
    BY <1>1, <1>4 DEF Unawaited
  <2> QED BY <1>2, <1>4, <2>1 DEF SamePreparing
<1>5. CASE /\ e.evt \in InternalEvents /\ out'.api = {} /\ SamePreparing
           /\ m_state = "PREPARE_SNAPSHOT" => e.evt # "PREP_SNAPSHOT_DONE"
  <2>1. after = done
    BY <1>1, <1>2, <1>5
  <2> QED BY <1>2, <1>5, <2>1 DEF SamePreparing
<1>6. CASE Prepares(e)
  BY <1>1, <1>2, <1>6 DEF Prepares
<1>7. CASE Prepared(e)
  BY <1>1, <1>2, <1>7 DEF Prepared
<1> QED BY <1>4, <1>5, <1>6, <1>7 DEF AnswersOwn

LEMMA BalancedStays ==
    ASSUME Balanced, UNCHANGED <<call, m_state, m_apiResultList>>,
           \A v \in Waitable : CountIn(api_queue', v) = CountIn(api_queue, v)
    PROVE  Balanced'
BY DEF Balanced

LEMMA LiveStays ==
    ASSUME LiveInv, UNCHANGED <<m_state, channels, par, mLongshotEnabled, liveThread>>
    PROVE  LiveInv'
BY DEF LiveInv, LiveFit, VideoInv, VideoRunsWhileRecording, Has

\* All of the invariant's second part, of a step that handles no event.
LEMMA PlainStays ==
    ASSUME PlainInv, QueuesInv, UNCHANGED <<m_state, prepSnapshot>>,
           ~bRetroPicture' /\ retro' = "no", IsSeq(m_apiResultList'), Balanced',
           \/ evt_queue' = evt_queue
           \/ ProcEvt("SNAPSHOT_DONE"),
           "CANCEL_PICTURE" \in Calls /\ closing' = "open" => LiveInv'
    PROVE  PlainInv'
<1>1. PrepInv /\ \A m \in ToSet(evt_queue) : m.evt \in {"SNAPSHOT_DONE", "PREP_SNAPSHOT_DONE"}
  BY DEF PlainInv
<1>2. PrepInv' /\ \A m \in ToSet(evt_queue') : m.evt \in {"SNAPSHOT_DONE", "PREP_SNAPSHOT_DONE"}
  <2>1. CASE evt_queue' = evt_queue
    BY <1>1, <2>1 DEF PrepInv
  <2>2. CASE ProcEvt("SNAPSHOT_DONE")
    <3>0. "SNAPSHOT_DONE" \in Unawaited
      BY DEF Unawaited
    <3>1. /\ \A m \in ToSet(evt_queue') : m \in ToSet(evt_queue) \/ m.evt = "SNAPSHOT_DONE"
          /\ CountIn(evt_queue', "PREP_SNAPSHOT_DONE") = CountIn(evt_queue, "PREP_SNAPSHOT_DONE")
      BY <2>2, <3>0, ProcEvtAdds
    <3> QED BY <1>1, <3>1 DEF PrepInv
  <2> QED BY <2>1, <2>2
<1> QED BY <1>2 DEF PlainInv

LEMMA RetroStays ==
    ASSUME ~bRetroPicture, retro = "no", NEW e, StateMachine(e), RetroAfter(e)
    PROVE  ~bRetroPicture' /\ retro' = "no"
BY DEF StateMachine, RetroAfter

\* An event of the API queue: one fewer there, one more answered or owed.
LEMMA NextApiKeepsPlain ==
    ASSUME AlwaysAnswered, CancelsAreCalls, QueuesInv, PlainInv, NextApi
    PROVE  PlainInv'
<1> DEFINE e == Head(api_queue)
           done == CountIn(evt_queue, "PREP_SNAPSHOT_DONE")
<1>1. /\ IsSeq(api_queue) /\ IsSeq(evt_queue) /\ IsSeq(m_apiResultList)
      /\ ~bRetroPicture /\ retro = "no" /\ PrepInv /\ Balanced
      /\ \A m \in ToSet(evt_queue) : m.evt \in {"SNAPSHOT_DONE", "PREP_SNAPSHOT_DONE"}
  BY DEF QueuesInv, PlainInv
<1>2. /\ api_queue # <<>> /\ api_queue' = Tail(api_queue)
      /\ evt_queue' = evt_queue \o Posted(out'.posted)
      /\ UNCHANGED <<call, closing>>
  BY DEF NextApi, lifeVars
<1>3. StateMachine(e) /\ Signal /\ RetroAfter(e)
  BY DEF NextApi, Handle
<1>4. ApiMessage(e)
  BY <1>2, HandledHead
<1>5. \A v : CountIn(api_queue', v) = IF e.evt = v THEN CountIn(api_queue, v) - 1 ELSE CountIn(api_queue, v)
  BY <1>1, <1>2, QueueTail
<1>6. e.evt \notin Unawaited /\ e.evt # "REG_FACE_IMAGE"
  BY <1>4, WaitableProp DEF ApiMessage, AlwaysAnswered, Waitable, Unawaited
<1>7. /\ CountIn(evt_queue', "PREP_SNAPSHOT_DONE") = done
      /\ ToSet(evt_queue') \subseteq ToSet(evt_queue) \cup {Event("SNAPSHOT_DONE", TRUE)}
  <2>1. out'.posted \subseteq {"SNAPSHOT_DONE"}
    BY <1>3, HandlersPostLittle DEF PostsLittle
  <2> QED BY <1>1, <1>2, <2>1, PostedPlain
<1> HIDE DEF e
<1>8. AnswersOwn(e)
  BY <1>1, <1>3, <1>6, HandlersAnswer DEF Unawaited
<1>9. ~bRetroPicture' /\ retro' = "no"
  BY <1>1, <1>3, RetroStays
<1>10. IsSeq(m_apiResultList')
  <2>1. "NONE" \notin InternalEvents
    BY DEF InternalEvents
  <2> QED BY <1>1, <1>3, <1>8, <2>1, AnswerCounts
<1>11. \A m \in ToSet(evt_queue') : m.evt \in {"SNAPSHOT_DONE", "PREP_SNAPSHOT_DONE"}
  BY <1>1, <1>7 DEF Event
<1>12. PrepInv'
  <2>1. done \in Nat
    BY <1>1, QueueType
  <2> QED BY <1>1, <1>6, <1>7, <1>8, <2>1, PreparingCounts DEF Unawaited
<1>13. ASSUME "CANCEL_PICTURE" \in Calls, closing' = "open" PROVE LiveInv'
  <2>1. LiveInv /\ ~HalCallsFail
    BY <1>2, <1>13 DEF PlainInv, CancelsAreCalls
  <2>2. PlainEvent(e)
    BY <1>4, <1>13 DEF ApiMessage, PlainEvent, CancelsAreCalls, Waitable
  <2> QED BY <1>3, <2>1, <2>2, StateMachineKeepsLive
<1>14. Balanced'
  <2> SUFFICES ASSUME NEW v \in Waitable
               PROVE  Cardinality(Waiters(call', v)) =
                         CountIn(api_queue', v) + CountRes(m_apiResultList', v) + Owed(m_state', v)
    BY DEF Balanced
  <2>1. Cardinality(Waiters(call', v)) =
           CountIn(api_queue, v) + CountRes(m_apiResultList, v) + Owed(m_state, v)
    BY <1>1, <1>2 DEF Balanced
  <2>2. CountRes(m_apiResultList', v) + Owed(m_state', v) =
           (CountRes(m_apiResultList, v) + Owed(m_state, v)) + (IF e.evt = v THEN 1 ELSE 0)
    BY <1>1, <1>3, <1>8, NoEventTwice, AnswerCounts
  <2>3. /\ CountIn(api_queue, v) \in Nat
        /\ CountRes(m_apiResultList, v) \in Nat /\ CountRes(m_apiResultList', v) \in Nat
        /\ Owed(m_state, v) \in Nat /\ Owed(m_state', v) \in Nat
    BY <1>1, <1>10, QueueType, ResultsType DEF Owed
  <2> QED BY <1>5, <2>1, <2>2, <2>3
<1> QED BY <1>9, <1>10, <1>11, <1>12, <1>13, <1>14 DEF PlainInv

\* An event of the other queue: nobody's call, but it may pay what is owed.
LEMMA NextEvtKeepsPlain ==
    ASSUME CancelsAreCalls, QueuesInv, PlainInv, NextEvt
    PROVE  PlainInv'
<1> DEFINE e == Head(evt_queue)
           done == CountIn(evt_queue, "PREP_SNAPSHOT_DONE")
<1>1. /\ IsSeq(evt_queue) /\ IsSeq(m_apiResultList)
      /\ ~bRetroPicture /\ retro = "no" /\ PrepInv /\ Balanced
      /\ \A m \in ToSet(evt_queue) : m.evt \in {"SNAPSHOT_DONE", "PREP_SNAPSHOT_DONE"}
  BY DEF QueuesInv, PlainInv
<1>2. /\ evt_queue # <<>> /\ evt_queue' = Tail(evt_queue) \o Posted(out'.posted)
      /\ UNCHANGED <<api_queue, call, closing>>
  BY DEF NextEvt, lifeVars
<1>3. StateMachine(e) /\ Signal /\ RetroAfter(e)
  BY DEF NextEvt, Handle
<1>4. /\ IsSeq(Tail(evt_queue)) /\ e \in ToSet(evt_queue)
      /\ ToSet(Tail(evt_queue)) \subseteq ToSet(evt_queue)
      /\ CountIn(Tail(evt_queue), "PREP_SNAPSHOT_DONE") =
            IF e.evt = "PREP_SNAPSHOT_DONE" THEN done - 1 ELSE done
  BY <1>1, <1>2, QueueTail
<1>5. e.evt \in {"SNAPSHOT_DONE", "PREP_SNAPSHOT_DONE"}
  BY <1>1, <1>4
<1>6. done \in Nat /\ (e.evt = "PREP_SNAPSHOT_DONE" => done >= 1)
  BY <1>1, <1>4, QueueType
<1>7. /\ CountIn(evt_queue', "PREP_SNAPSHOT_DONE") = CountIn(Tail(evt_queue), "PREP_SNAPSHOT_DONE")
      /\ ToSet(evt_queue') \subseteq ToSet(Tail(evt_queue)) \cup {Event("SNAPSHOT_DONE", TRUE)}
  <2>1. out'.posted \subseteq {"SNAPSHOT_DONE"}
    BY <1>3, HandlersPostLittle DEF PostsLittle
  <2> QED BY <1>2, <1>4, <2>1, PostedPlain
<1> HIDE DEF e
<1>8. AnswersOwn(e)
  BY <1>1, <1>3, <1>5, HandlersAnswer
<1>9. ~bRetroPicture' /\ retro' = "no"
  BY <1>1, <1>3, RetroStays
<1>10. IsSeq(m_apiResultList')
  <2>1. "NONE" \notin InternalEvents
    BY DEF InternalEvents
  <2> QED BY <1>1, <1>3, <1>8, <2>1, AnswerCounts
<1>11. \A m \in ToSet(evt_queue') : m.evt \in {"SNAPSHOT_DONE", "PREP_SNAPSHOT_DONE"}
  BY <1>1, <1>4, <1>7 DEF Event
<1>12. PrepInv'
  BY <1>1, <1>4, <1>6, <1>7, <1>8, PreparingCounts
<1>13. ASSUME "CANCEL_PICTURE" \in Calls, closing' = "open" PROVE LiveInv'
  <2>1. LiveInv /\ ~HalCallsFail
    BY <1>2, <1>13 DEF PlainInv, CancelsAreCalls
  <2>2. PlainEvent(e)
    BY <1>5 DEF PlainEvent
  <2> QED BY <1>3, <2>1, <2>2, StateMachineKeepsLive
<1>14. Balanced'
  <2> SUFFICES ASSUME NEW v \in Waitable
               PROVE  Cardinality(Waiters(call', v)) =
                         CountIn(api_queue', v) + CountRes(m_apiResultList', v) + Owed(m_state', v)
    BY DEF Balanced
  <2>1. /\ Cardinality(Waiters(call', v)) =
              CountIn(api_queue, v) + CountRes(m_apiResultList, v) + Owed(m_state, v)
        /\ CountIn(api_queue', v) = CountIn(api_queue, v)
    BY <1>1, <1>2 DEF Balanced
  <2>2. CountRes(m_apiResultList', v) + Owed(m_state', v) =
           (CountRes(m_apiResultList, v) + Owed(m_state, v)) + (IF e.evt = v THEN 1 ELSE 0)
    BY <1>1, <1>3, <1>8, NoEventTwice, AnswerCounts
  <2>3. e.evt # v
    BY <1>5, NoEventTwice DEF Unawaited
  <2>4. /\ CountIn(api_queue, v) \in Nat
        /\ CountRes(m_apiResultList, v) \in Nat /\ CountRes(m_apiResultList', v) \in Nat
        /\ Owed(m_state, v) \in Nat /\ Owed(m_state', v) \in Nat
    BY <1>1, <1>10, QueueType, ResultsType DEF Owed, QueuesInv
  <2> QED BY <2>1, <2>2, <2>3, <2>4
<1> QED BY <1>9, <1>10, <1>11, <1>12, <1>13, <1>14 DEF PlainInv

LEMMA LiveThreadKeepsPlain ==
    ASSUME CancelsAreCalls, QueuesInv, PlainInv, LiveThread
    PROVE  PlainInv'
<1>1. /\ LiveSnapshot /\ PostApi(out'.posted)
      /\ UNCHANGED <<call, evt_queue, m_apiResultList, retro, closing, m_state, prepSnapshot, bRetroPicture>>
  BY DEF LiveThread, LiveSnapshot, threadVars, lifeVars, smVars
<1>2. ~bRetroPicture /\ retro = "no" /\ Balanced /\ IsSeq(m_apiResultList)
  BY DEF PlainInv
<1>3. out'.posted \subseteq {"CANCEL_PICTURE"} /\ ApiMessage(Event("CANCEL_PICTURE", TRUE))
  BY <1>1, LivePostsCancel, Messages
<1>4. /\ \A v : v # "CANCEL_PICTURE" => CountIn(api_queue', v) = CountIn(api_queue, v)
      /\ out'.posted = {} => api_queue' = api_queue
  BY <1>1, <1>3, PostApiAdds
<1>5. ASSUME "CANCEL_PICTURE" \in Calls, closing = "open" PROVE LiveInv' /\ out'.posted = {}
  <2>1. LiveInv /\ ~HalCallsFail
    BY <1>5 DEF PlainInv, CancelsAreCalls
  <2> QED BY <1>1, <2>1, LiveSnapshotKeepsLive
<1>6. \A v \in Waitable : CountIn(api_queue', v) = CountIn(api_queue, v)
  <2>1. CASE "CANCEL_PICTURE" \notin Calls
    <3>1. "CANCEL_PICTURE" \notin Waitable
      BY <2>1 DEF Waitable
    <3> QED BY <1>4, <3>1
  <2>2. CASE closing # "open"
    <3>1. api_queue' = api_queue
      BY <1>1, <2>2 DEF PostApi
    <3> QED BY <3>1
  <2>3. CASE "CANCEL_PICTURE" \in Calls /\ closing = "open"
    <3>1. api_queue' = api_queue
      BY <1>4, <1>5, <2>3
    <3> QED BY <3>1
  <2> QED BY <2>1, <2>2, <2>3
<1>7. Balanced'
  BY <1>1, <1>2, <1>6, BalancedStays
<1> QED BY <1>1, <1>2, <1>5, <1>7, PlainStays

\* The threads that handle no event and wait for none.
LEMMA OthersKeepPlain ==
    ASSUME QueuesInv, PlainInv,
           NextExit \/ FramesIn \/ Notifier \/ RetroReady \/ Close \/ SmJoined \/ UNCHANGED apiVars
    PROVE  PlainInv'
<1>1. ~bRetroPicture /\ retro = "no" /\ Balanced /\ IsSeq(m_apiResultList)
  BY DEF PlainInv
<1>2. /\ ~RetroReady
      /\ UNCHANGED <<call, m_apiResultList, retro, m_state, prepSnapshot, bRetroPicture,
                     channels, par, mLongshotEnabled, liveThread>>
      /\ closing' = "open" => closing = "open"
  <2>1. ~RetroReady
    BY <1>1 DEF RetroReady
  <2> QED BY <2>1 DEF NextExit, FramesIn, Notifier, NotifierTake, NotifierPost, Close, SmJoined, apiVars,
          vars, CameraUnchanged, smVars, hwVars, confVars, threadVars, queueVars, lifeVars
<1>3. "CANCEL_PICTURE" \in Calls /\ closing' = "open" => LiveInv'
  BY <1>2, LiveStays DEF PlainInv
<1>4. evt_queue' = evt_queue \/ ProcEvt("SNAPSHOT_DONE")
  BY <1>2 DEF NextExit, FramesIn, Notifier, NotifierTake, NotifierPost, Close, SmJoined, apiVars, queueVars
<1>5. \A v \in Waitable : CountIn(api_queue', v) = CountIn(api_queue, v)
  <2>1. CASE NextExit
    <3>1. /\ api_queue # <<>> /\ Head(api_queue).evt = "EXIT" /\ api_queue' = Tail(api_queue)
          /\ IsSeq(api_queue)
      BY <2>1 DEF NextExit, Exit, Event, QueuesInv
    <3>2. \A v : CountIn(Tail(api_queue), v) =
                    IF Head(api_queue).evt = v THEN CountIn(api_queue, v) - 1 ELSE CountIn(api_queue, v)
      BY <3>1, QueueTail
    <3> QED BY <3>1, <3>2, NoEventTwice
  <2>2. CASE FramesIn
    <3>1. PICK s \in SUBSET {"STOP_CAPTURE_CHANNEL"} : PostApi(s)
      BY <2>2 DEF FramesIn
    <3>2. ApiMessage(Event("STOP_CAPTURE_CHANNEL", TRUE))
      BY Messages
    <3>3. \A v : v # "STOP_CAPTURE_CHANNEL" => CountIn(api_queue', v) = CountIn(api_queue, v)
      BY <3>1, <3>2, PostApiAdds
    <3> QED BY <3>3, NoEventTwice
  <2>3. CASE Close
    <3>1. ProcApi("EXIT", TRUE)
      BY <2>3 DEF Close, Exit, ProcApi
    <3>2. ApiMessage(Event("EXIT", TRUE))
      BY Messages
    <3>3. \A v : CountIn(api_queue', v) =
                    IF "EXIT" = v THEN CountIn(api_queue, v) + 1 ELSE CountIn(api_queue, v)
      BY <3>1, <3>2, ProcApiAdds
    <3> QED BY <3>3, NoEventTwice
  <2>4. CASE Notifier \/ SmJoined \/ UNCHANGED apiVars
    <3>1. api_queue' = api_queue
      BY <2>4 DEF Notifier, NotifierTake, NotifierPost, SmJoined, apiVars, queueVars
    <3> QED BY <3>1
  <2> QED BY <1>2, <2>1, <2>2, <2>3, <2>4
<1>6. Balanced'
  BY <1>1, <1>2, <1>5, BalancedStays
<1> QED BY <1>1, <1>2, <1>3, <1>4, <1>6, PlainStays

\* The daemon's answer to a prepared snapshot: what was owed is queued.
LEMMA PrepareDoneKeepsPlain ==
    ASSUME QueuesInv, PlainInv, PrepareDone
    PROVE  PlainInv'
<1>1. /\ ~bRetroPicture /\ retro = "no" /\ Balanced /\ IsSeq(m_apiResultList) /\ PrepInv
      /\ \A m \in ToSet(evt_queue) : m.evt \in {"SNAPSHOT_DONE", "PREP_SNAPSHOT_DONE"}
  BY DEF PlainInv
<1>2. /\ prepSnapshot /\ ~prepSnapshot' /\ ProcEvt("PREP_SNAPSHOT_DONE") /\ retro' = "no"
      /\ UNCHANGED <<call, m_apiResultList, api_queue, m_state, bRetroPicture, closing,
                     channels, par, mLongshotEnabled, liveThread>>
  BY <1>1 DEF PrepareDone, smVars, confVars, threadVars, lifeVars
<1>3. "PREP_SNAPSHOT_DONE" \in Unawaited
  BY DEF Unawaited
<1>4. /\ \A m \in ToSet(evt_queue') : m \in ToSet(evt_queue) \/ m.evt = "PREP_SNAPSHOT_DONE"
      /\ CountIn(evt_queue', "PREP_SNAPSHOT_DONE") = CountIn(evt_queue, "PREP_SNAPSHOT_DONE") + 1
  BY <1>2, <1>3, ProcEvtAdds
<1>5. m_state = "PREPARE_SNAPSHOT" /\ CountIn(evt_queue, "PREP_SNAPSHOT_DONE") = 0
  BY <1>1, <1>2 DEF PrepInv
<1>6. PrepInv'
  BY <1>2, <1>4, <1>5 DEF PrepInv
<1>7. Balanced'
  BY <1>1, <1>2, BalancedStays
<1>8. "CANCEL_PICTURE" \in Calls /\ closing' = "open" => LiveInv'
  BY <1>2, LiveStays DEF PlainInv
<1> QED BY <1>1, <1>2, <1>4, <1>6, <1>7, <1>8 DEF PlainInv

\* The destructor drops the results when nobody waits for any.
LEMMA NotifierJoinedKeepsPlain ==
    ASSUME QueuesInv, CallersInv, PlainInv, NotifierJoined
    PROVE  PlainInv'
<1>1. /\ closing = "joiningNotifier" /\ closing' = "closed" /\ m_apiResultList' = <<>>
      /\ UNCHANGED <<call, retro, m_state, prepSnapshot, bRetroPicture, evt_queue, api_queue>>
  BY DEF NotifierJoined, smVars, threadVars
<1>2. ~bRetroPicture /\ retro = "no" /\ Balanced /\ IsSeq(m_apiResultList) /\ IsSeq(api_queue)
  BY DEF PlainInv, QueuesInv
<1>3. IsSeq(<<>>) /\ \A v : CountRes(<<>>, v) = 0
  <2>1. DOMAIN <<>> = {} /\ <<>> \in Seq({})
    OBVIOUS
  <2> QED BY <2>1, FS_EmptySet DEF CountRes, IsSeq
<1>4. Balanced'
  <2> SUFFICES ASSUME NEW v \in Waitable
               PROVE  Cardinality(Waiters(call', v)) =
                         CountIn(api_queue', v) + CountRes(m_apiResultList', v) + Owed(m_state', v)
    BY DEF Balanced
  <2>1. Waiters(call, v) = {}
    BY <1>1 DEF CallersInv, Waiters, Awaits
  <2>2. Cardinality(Waiters(call, v)) = 0
    BY <2>1, FS_EmptySet
  <2>3. Cardinality(Waiters(call, v)) =
           CountIn(api_queue, v) + CountRes(m_apiResultList, v) + Owed(m_state, v)
    BY <1>2 DEF Balanced
  <2>4. CountIn(api_queue, v) \in Nat /\ CountRes(m_apiResultList, v) \in Nat /\ Owed(m_state, v) \in Nat
    BY <1>2, QueueType, ResultsType DEF Owed
  <2>5. CountIn(api_queue, v) = 0 /\ Owed(m_state, v) = 0
    BY <2>2, <2>3, <2>4
  <2>6. CountRes(m_apiResultList', v) = 0
    BY <1>1, <1>3
  <2> QED BY <1>1, <2>2, <2>5, <2>6
<1>5. IsSeq(m_apiResultList')
  BY <1>1, <1>3
<1> QED BY <1>1, <1>2, <1>4, <1>5, PlainStays

\* waitAPIResult's search finds the first result there is.
LEMMA FirstResult ==
    ASSUME NEW r, IsSeq(r), NEW v, \E i \in DOMAIN r : r[i][1] = v
    PROVE  \E i \in DOMAIN r : r[i][1] = v /\ \A j \in 1 .. (i - 1) : r[j][1] # v
<1> DEFINE T == {i \in DOMAIN r : r[i][1] = v}
<1>1. T \subseteq Nat /\ T # {} /\ DOMAIN r = 1 .. Len(r) /\ Len(r) \in Nat
  BY LenProperties DEF IsSeq
<1>2. \E i \in T : \A j \in T : ~(<<j, i>> \in OpToRel(<, Nat))
  <2> HIDE DEF T
  <2> QED BY <1>1, NatLessThanWellFounded, WFMin
<1>3. PICK i \in T : \A j \in T : ~(<<j, i>> \in OpToRel(<, Nat))
  BY <1>2
<1>4. ASSUME NEW j \in 1 .. (i - 1) PROVE r[j][1] # v
  <2>1. j \in DOMAIN r /\ j < i /\ i \in Nat /\ j \in Nat
    BY <1>1
  <2>2. <<j, i>> \in OpToRel(<, Nat)
    BY <2>1 DEF OpToRel
  <2> QED BY <1>3, <2>1, <2>2
<1> QED BY <1>4

LEMMA CallKeepsPlain ==
    ASSUME QueuesInv, CallersInv, PlainInv, Ordinary, NEW c \in Callers, Call(c)
    PROVE  PlainInv'
<1>1. ~bRetroPicture /\ retro = "no" /\ Balanced /\ IsSeq(m_apiResultList) /\ IsSeq(api_queue)
  BY DEF PlainInv, QueuesInv
<1>2. ~RetroCall
  BY DEF Ordinary, RetroPictures, RetroCall
<1>3. /\ UNCHANGED <<m_state, channels, par, mLongshotEnabled, liveThread, prepSnapshot,
                     m_apiResultList, evt_queue, retro, closing>>
      /\ call[c] = <<>> /\ ~bRetroPicture'
  BY <1>1, <1>2 DEF Call, smVars, hwVars, confVars, lifeVars
<1>4. PICK evt \in Calls : \E arg \in CallArguments(evt), steps \in Steps(evt) :
        /\ call' = [call EXCEPT ![c] = steps]
        /\ ProcApi(Head(steps), arg)
  BY DEF Call
<1>5. PICK arg \in CallArguments(evt), steps \in Steps(evt) :
        /\ call' = [call EXCEPT ![c] = steps]
        /\ ProcApi(Head(steps), arg)
  BY <1>4
<1>6. steps \in CallSteps /\ steps # <<>>
  BY CallTakesSteps
<1> DEFINE m == Event(Head(steps), arg)
<1>7. api_queue' = Append(api_queue, m) /\ m.evt = Head(steps)
  BY <1>5 DEF ProcApi, Event
<1> HIDE DEF m
<1>8. \A v : CountIn(api_queue', v) =
                IF Head(steps) = v THEN CountIn(api_queue, v) + 1 ELSE CountIn(api_queue, v)
  BY <1>1, <1>7, QueueAppend
<1>9. Balanced'
  <2> SUFFICES ASSUME NEW v \in Waitable
               PROVE  Cardinality(Waiters(call', v)) =
                         CountIn(api_queue', v) + CountRes(m_apiResultList', v) + Owed(m_state', v)
    BY DEF Balanced
  <2>1. call \in [Callers -> CallSteps] /\ IsFiniteSet(Waiters(call, v))
    BY DEF CallersInv
  <2>2. /\ Cardinality(Waiters(call, v)) \in Nat
        /\ Cardinality(Waiters(call', v)) = IF Head(steps) = v THEN Cardinality(Waiters(call, v)) + 1
                                            ELSE Cardinality(Waiters(call, v))
    <3>1. ~Awaits(call[c], v) /\ (Awaits(steps, v) <=> Head(steps) = v)
      BY <1>3, <1>6 DEF Awaits
    <3>2. call'[c] = steps /\ \A d \in Callers \ {c} : call'[d] = call[d]
      BY <1>5, <2>1
    <3>3. /\ Cardinality(Waiters(call, v)) \in Nat
          /\ (Awaits(call[c], v) <=> Awaits(steps, v)) =>
                Cardinality(Waiters(call', v)) = Cardinality(Waiters(call, v))
          /\ ~Awaits(call[c], v) /\ Awaits(steps, v) =>
                Cardinality(Waiters(call', v)) = Cardinality(Waiters(call, v)) + 1
          /\ Awaits(call[c], v) /\ ~Awaits(steps, v) =>
                Cardinality(Waiters(call', v)) = Cardinality(Waiters(call, v)) - 1
      BY <2>1, <3>2, WaitersMove
    <3> QED BY <3>1, <3>3
  <2>3. Cardinality(Waiters(call, v)) =
           CountIn(api_queue, v) + CountRes(m_apiResultList, v) + Owed(m_state, v)
    BY <1>1 DEF Balanced
  <2>4. CountIn(api_queue, v) \in Nat /\ CountRes(m_apiResultList, v) \in Nat /\ Owed(m_state, v) \in Nat
    BY <1>1, QueueType, ResultsType DEF Owed
  <2> QED BY <1>3, <1>8, <2>2, <2>3, <2>4
<1>10. "CANCEL_PICTURE" \in Calls /\ closing' = "open" => LiveInv'
  BY <1>3, LiveStays DEF PlainInv
<1> QED BY <1>1, <1>3, <1>9, <1>10, PlainStays

LEMMA WakeKeepsPlain ==
    ASSUME QueuesInv, CallersInv, PlainInv, NEW c \in Callers, Wake(c)
    PROVE  PlainInv'
<1>1. ~bRetroPicture /\ retro = "no" /\ Balanced /\ IsSeq(m_apiResultList) /\ IsSeq(api_queue)
  BY DEF PlainInv, QueuesInv
<1>2. /\ UNCHANGED <<m_state, channels, par, mLongshotEnabled, liveThread, prepSnapshot,
                     bRetroPicture, evt_queue, retro, closing>>
      /\ call[c] # <<>>
  BY DEF Wake, Waiting, CameraUnchanged, smVars, hwVars, confVars, lifeVars
<1>3. "CANCEL_PICTURE" \in Calls /\ closing' = "open" => LiveInv'
  BY <1>2, LiveStays DEF PlainInv
<1>4. CASE UNCHANGED <<m_apiResultList, call, api_queue>>
  <2>1. Balanced'
    BY <1>1, <1>2, <1>4, BalancedStays
  <2> QED BY <1>1, <1>2, <1>3, <1>4, <2>1, PlainStays
<1>5. CASE /\ Answered(c)
           /\ TakeResult(Head(call[c]))
           /\ call' = [call EXCEPT ![c] = Tail(call[c])]
           /\ \/ Tail(call[c]) = <<>> /\ UNCHANGED api_queue
              \/ Tail(call[c]) # <<>> /\ ProcApi(Head(Tail(call[c])), TRUE)
  <2> DEFINE this == Head(call[c])
             rest == Tail(call[c])
             m    == Event(Head(rest), TRUE)
  <2>1. \E i \in DOMAIN m_apiResultList : m_apiResultList[i][1] = this
    BY <1>5 DEF Answered
  <2>2. \E i \in DOMAIN m_apiResultList :
           m_apiResultList[i][1] = this /\ m_apiResultList' = RemoveAt(m_apiResultList, i)
    <3>1. \E i \in DOMAIN m_apiResultList :
             /\ m_apiResultList[i][1] = this
             /\ \A j \in 1 .. (i - 1) : m_apiResultList[j][1] # this
      BY <1>1, <2>1, FirstResult
    <3> QED BY <1>5, <3>1 DEF TakeResult
  <2>3. /\ IsSeq(m_apiResultList')
        /\ \A v : CountRes(m_apiResultList', v) =
                     IF this = v THEN CountRes(m_apiResultList, v) - 1 ELSE CountRes(m_apiResultList, v)
    BY <1>1, <2>2, ResultsRemove
  <2>4. /\ call' = [call EXCEPT ![c] = rest]
        /\ \/ rest = <<>> /\ api_queue' = api_queue
           \/ rest # <<>> /\ api_queue' = Append(api_queue, m) /\ m.evt = Head(rest)
    BY <1>5 DEF ProcApi, Event
  <2> HIDE DEF m, this, rest
  <2>5. \A v : CountIn(api_queue', v) =
                  IF rest # <<>> /\ Head(rest) = v THEN CountIn(api_queue, v) + 1 ELSE CountIn(api_queue, v)
    <3>1. CASE rest = <<>> /\ api_queue' = api_queue
      BY <3>1
    <3>2. CASE rest # <<>> /\ api_queue' = Append(api_queue, m) /\ m.evt = Head(rest)
      BY <1>1, <3>2, QueueAppend
    <3> QED BY <2>4, <3>1, <3>2
  <2>6. Balanced'
    <3> SUFFICES ASSUME NEW v \in Waitable
                 PROVE  Cardinality(Waiters(call', v)) =
                           CountIn(api_queue', v) + CountRes(m_apiResultList', v) + Owed(m_state', v)
      BY DEF Balanced
    <3>1. call \in [Callers -> CallSteps] /\ IsFiniteSet(Waiters(call, v))
      BY DEF CallersInv
    <3>2. /\ Cardinality(Waiters(call, v)) \in Nat
          /\ (Awaits(call[c], v) <=> Awaits(rest, v)) =>
                Cardinality(Waiters(call', v)) = Cardinality(Waiters(call, v))
          /\ ~Awaits(call[c], v) /\ Awaits(rest, v) =>
                Cardinality(Waiters(call', v)) = Cardinality(Waiters(call, v)) + 1
          /\ Awaits(call[c], v) /\ ~Awaits(rest, v) =>
                Cardinality(Waiters(call', v)) = Cardinality(Waiters(call, v)) - 1
      <4>1. call'[c] = rest /\ \A d \in Callers \ {c} : call'[d] = call[d]
        BY <2>4, <3>1
      <4> QED BY <3>1, <4>1, WaitersMove
    <3>3. Cardinality(Waiters(call, v)) =
             CountIn(api_queue, v) + CountRes(m_apiResultList, v) + Owed(m_state, v)
      BY <1>1 DEF Balanced
    <3>4. /\ CountIn(api_queue, v) \in Nat /\ CountRes(m_apiResultList, v) \in Nat
          /\ CountRes(m_apiResultList', v) \in Nat /\ Owed(m_state, v) \in Nat
      BY <1>1, <2>3, QueueType, ResultsType DEF Owed
    <3>5. /\ CountRes(m_apiResultList', v) =
                IF Awaits(call[c], v) THEN CountRes(m_apiResultList, v) - 1 ELSE CountRes(m_apiResultList, v)
          /\ CountIn(api_queue', v) =
                IF Awaits(rest, v) THEN CountIn(api_queue, v) + 1 ELSE CountIn(api_queue, v)
      BY <1>2, <2>3, <2>5 DEF Awaits, this
    <3>6. Owed(m_state', v) = Owed(m_state, v)
      BY <1>2
    <3> QED BY <3>2, <3>3, <3>4, <3>5, <3>6
  <2> QED BY <1>1, <1>2, <1>3, <2>3, <2>6, PlainStays
<1> QED BY <1>4, <1>5 DEF Wake

LEMMA ApiInvKept ==
    ASSUME AlwaysAnswered, ModeKept, CancelsAreCalls, ApiInv, [ANext]_apiVars
    PROVE  ApiInv'
<1>1. ShapeInv /\ ShapeInv' /\ (Ordinary' => Ordinary)
  BY ShapeKept DEF ApiInv
<1>2. ASSUME Ordinary' PROVE PlainInv'
  <2>1. Ordinary /\ PlainInv /\ QueuesInv /\ CallersInv
    BY <1>1, <1>2 DEF ApiInv, ShapeInv
  <2>2. ~DaemonDies
    BY <1>2 DEF DaemonDies, Ordinary
  <2>3. CASE \E c \in Callers : Call(c) \/ Wake(c)
    BY <2>1, <2>3, CallKeepsPlain, WakeKeepsPlain
  <2>4. CASE NextApi \/ NextEvt \/ LiveThread
    BY <2>1, <2>4, NextApiKeepsPlain, NextEvtKeepsPlain, LiveThreadKeepsPlain
  <2>5. CASE NextExit \/ FramesIn \/ Notifier \/ RetroReady \/ Close \/ SmJoined \/ UNCHANGED apiVars
    BY <2>1, <2>5, OthersKeepPlain
  <2>6. CASE PrepareDone \/ NotifierJoined
    BY <2>1, <2>6, PrepareDoneKeepsPlain, NotifierJoinedKeepsPlain
  <2> QED BY <2>2, <2>3, <2>4, <2>5, <2>6 DEF ANext, StateMachineThread, Environment, Destructor
<1> QED BY <1>1, <1>2 DEF ApiInv

\* Every framework call asleep in waitAPIResult is queued for smEvtProcRoutine,
\* answered by signalAPIResult or owed an answer by the daemon, exactly once: for
\* any number of callers, any of the calls and settings, the daemon's and the
\* destructor's steps at any time.  REG_FACE_IMAGE is not among the calls (the
\* PREPARE_SNAPSHOT state never answers it), no SET_PARAMS changes the ZSL mode of
\* a camera that takes retro-active pictures, and a framework that cancels
\* pictures does so where no live snapshot's thread cancels them, too.
THEOREM CallsAnsweredOnce ==
    ASSUME AlwaysAnswered, ModeKept, CancelsAreCalls
    PROVE  ASpec => []EachCallAnsweredOnce
<1>1. AInit => ApiInv
  BY InitialShape
<1>2. ApiInv /\ [ANext]_apiVars => ApiInv'
  BY ApiInvKept
<1>3. ApiInv => EachCallAnsweredOnce
  BY BalancedCounts
<1> QED BY <1>1, <1>2, <1>3, PTL DEF ASpec

-----------------------------------------------------------------------------
(* What is answered at most, retro-active pictures included: their answers   *)
(* come with a later event, and may not come at all.                         *)

AnswersAtMost(e) ==
    \/ out'.api = {} /\ prepSnapshot' = prepSnapshot
    \/ out'.api = {} /\ prepSnapshot' /\ e.evt = "PREPARE_SNAPSHOT"
    \/ /\ prepSnapshot' = prepSnapshot
       /\ \/ e.evt \notin Unawaited /\ Told(e)
          \/ e.evt = "SNAPSHOT_DONE" /\ Told(e)
          \/ e.evt = "PREP_SNAPSHOT_DONE" /\ out'.api = {<<"PREPARE_SNAPSHOT", TRUE>>}
          \/ e.evt = "READY_FOR_SNAPSHOT" /\ out'.api = {<<"TAKE_PICTURE", TRUE>>}

LEMMA OwnIsAtMost ==
    ASSUME NEW e, AnswersOwn(e)
    PROVE  AnswersAtMost(e)
BY DEF AnswersOwn, AnswersAtMost, SamePreparing, Prepares, Prepared

LEMMA OnlyProp ==
    ASSUME NEW evt, NEW ok, Only(evt, ok)
    PROVE  out'.api = {<<evt, ok>>} /\ prepSnapshot' = prepSnapshot
BY DEF Only, Answer, NoOutput, hwVars

\* A retro-active picture is answered when its frames are in.
LEMMA RetroTaken ==
    ASSUME NEW e, PreviewingTakePicture(e), bRetroPicture
    PROVE  AnswersAtMost(e)
<1>1. e.evt = "TAKE_PICTURE" /\ prepSnapshot' = prepSnapshot
  BY DEF PreviewingTakePicture
<1>2. Silent \/ \E ok : Answer(e.evt, ok)
  BY DEF PreviewingTakePicture
<1>3. out'.api = {} \/ Told(e)
  BY <1>2 DEF Silent, Answer, NoOutput, Told
<1> QED BY <1>1, <1>3 DEF AnswersAtMost, Unawaited

LEMMA RetroPicAnswers ==
    ASSUME NEW e, bRetroPicture,
           PreviewPicPrepareSnapshot(e) \/ PreviewPicRetro(e) \/ PreviewPicSnapshotDone(e)
    PROVE  AnswersAtMost(e)
<1>1. CASE PreviewPicPrepareSnapshot(e)
  <2>1. CASE Only(e.evt, FALSE)
    BY <1>1, <2>1, OnlyProp DEF PreviewPicPrepareSnapshot, AnswersAtMost, Told, Unawaited
  <2>2. CASE Silent /\ prepSnapshot' = TRUE
    BY <1>1, <2>2 DEF PreviewPicPrepareSnapshot, Silent, NoOutput, AnswersAtMost
  <2> QED BY <1>1, <2>1, <2>2 DEF PreviewPicPrepareSnapshot
<1>2. CASE PreviewPicRetro(e)
  <2>1. CASE e.evt = "PREP_SNAPSHOT_DONE" /\ Only("PREPARE_SNAPSHOT", TRUE)
    BY <2>1, OnlyProp DEF AnswersAtMost
  <2>2. CASE e.evt = "READY_FOR_SNAPSHOT" /\ Only("TAKE_PICTURE", TRUE)
    BY <2>2, OnlyProp DEF AnswersAtMost
  <2> QED BY <1>2, <2>1, <2>2 DEF PreviewPicRetro
<1>3. CASE PreviewPicSnapshotDone(e)
  <2>1. /\ e.evt = "SNAPSHOT_DONE" /\ prepSnapshot' = prepSnapshot
        /\ out' = [NoOutput EXCEPT !.evt = {"SNAPSHOT_DONE"}, !.api = {<<"SNAPSHOT_DONE", TRUE>>}]
    BY <1>3 DEF PreviewPicSnapshotDone
  <2>2. out'.api = {<<"SNAPSHOT_DONE", TRUE>>}
    BY <2>1 DEF NoOutput
  <2> QED BY <2>1, <2>2 DEF AnswersAtMost, Told
<1> QED BY <1>1, <1>2, <1>3

LEMMA HandlersAnswerAtMost ==
    ASSUME NEW e, e.evt # "DAEMON_DIED", StateMachine(e)
    PROVE  AnswersAtMost(e)
<1>1. CASE m_state = "PREVIEWING" /\ ProcEvtPreviewingState(e)
  BY <1>1, PreviewingTells, OwnIsAtMost, RetroTaken
<1>2. CASE m_state = "PREVIEW_PIC_TAKING" /\ ProcEvtPreviewPicTakingState(e)
  BY <1>2, PreviewPicTells, OwnIsAtMost, RetroPicAnswers
<1>3. CASE m_state = "PREPARE_SNAPSHOT" /\ ProcEvtPrepareSnapshotState(e)
  <2>1. CASE e.evt # "REG_FACE_IMAGE"
    BY <1>3, <2>1, PreparingTells, OwnIsAtMost
  <2>2. CASE e.evt = "REG_FACE_IMAGE"
    <3>1. NotForThisState(e, {"REG_FACE_IMAGE"})
      BY <1>3, <2>2 DEF ProcEvtPrepareSnapshotState, PreparingApi, PreparingDone, SnapshotDoneIgnored,
         NotForThisState, InternalEvents
    <3> QED BY <3>1 DEF NotForThisState, Ignore, Silent, NoOutput, hwVars, AnswersAtMost
  <2> QED BY <2>1, <2>2
<1>4. CASE m_state \notin {"PREVIEWING", "PREVIEW_PIC_TAKING", "PREPARE_SNAPSHOT"}
  BY <1>4, StoppedTells, ReadyTells, PicTakingTells, RecordingTells, VideoPicTells, OwnIsAtMost DEF StateMachine
<1> QED BY <1>1, <1>2, <1>3, <1>4 DEF StateMachine

\* Frames are waited for only after a picture that has not been answered.
LEMMA RetroUnanswered ==
    ASSUME NEW e, StateMachine(e), RetroAfter(e), retro' = "frames", retro # "frames"
    PROVE  e.evt = "TAKE_PICTURE" /\ out'.api = {}
<1>1. /\ e.evt = "TAKE_PICTURE" /\ bRetroPicture /\ par.zsl /\ ~par.hint
      /\ m_state = "PREVIEWING" /\ m_state' = "PREVIEW_PIC_TAKING"
  BY DEF RetroAfter, ZslPreview
<1>2. ProcEvtPreviewingState(e)
  BY <1>1 DEF StateMachine
<1>3. PreviewingTakePicture(e)
  <2>1. ~PreviewingSettings(e) /\ ~PreviewingStartPreview(e) /\ ~PreviewingStopPreview(e)
    BY <1>1 DEF PreviewingSettings, PreviewingFrameMsg, SetFrameMsg, PreviewRestart, PreviewingLongshotOn,
       PreviewingStartPreview, PreviewingStopPreview
  <2>2. ~PreviewingStartRecording(e) /\ ~PreviewingPrepareSnapshot(e) /\ ~PreviewingLiveSnapshot(e)
    BY <1>1 DEF PreviewingStartRecording, PreviewingPrepareSnapshot, PreviewingLiveSnapshot
  <2>3. ~PreviewingOther(e) /\ ~SnapshotDoneIgnored(e)
        /\ ~NotForThisState(e, InternalEvents \ {"SNAPSHOT_DONE"})
    BY <1>1 DEF PreviewingOther, Queries, SnapshotDoneIgnored, NotForThisState, InternalEvents
  <2> QED BY <1>2, <2>1, <2>2, <2>3 DEF ProcEvtPreviewingState
<1>4. PICK o \in TakePicture(channels, par, mLongshotEnabled) :
         /\ m_state' = IF o.ok THEN "PREVIEW_PIC_TAKING" ELSE "PREVIEWING"
         /\ IF o.ok /\ bRetroPicture THEN Silent ELSE Answer(e.evt, o.ok)
  BY <1>1, <1>3 DEF PreviewingTakePicture
<1>5. Silent
  BY <1>1, <1>4
<1> QED BY <1>1, <1>5 DEF Silent, NoOutput

-----------------------------------------------------------------------------
(* The accounts with retro-active pictures: no more is queued, answered or   *)
(* owed for an event than there are who wait for it.                         *)

\* The daemon still owes the event that answers v.
Flag(v) ==
    IF (v = "PREPARE_SNAPSHOT" /\ prepSnapshot) \/ (v = "TAKE_PICTURE" /\ retro = "frames") THEN 1 ELSE 0

\* The event that answers v.
Payer(v) ==
    CASE v = "PREPARE_SNAPSHOT" -> "PREP_SNAPSHOT_DONE"
      [] v = "TAKE_PICTURE"     -> "READY_FOR_SNAPSHOT"
      [] OTHER                  -> "NONE"

\* All there is for those who wait for v.
Due(v) == CountIn(api_queue, v) + CountRes(m_apiResultList, v) + Flag(v) + CountIn(evt_queue, Payer(v))

AtMost == \A v \in Waitable : Due(v) <= Cardinality(Waiters(call, v))

\* The framework's own CANCEL_PICTURE is not mixed with a live snapshot's.
CancelsApart ==
    "CANCEL_PICTURE" \in Calls =>
        /\ ~HalCallsFail
        /\ Calls \cap {"SET_PARAMS", "LONGSHOT_ON", "LONGSHOT_OFF"} = {}
        /\ \A s \in Settings : ~s.zsl

DueInv ==
    /\ IsSeq(m_apiResultList)
    /\ \A m \in ToSet(evt_queue) : m.evt # "DAEMON_DIED"
    /\ AtMost
    /\ "CANCEL_PICTURE" \in Calls /\ closing = "open" => LiveInv

LEMMA WaitersType ==
    ASSUME CallersInv, NEW v
    PROVE  Cardinality(Waiters(call, v)) \in Nat
BY FS_CardinalityType DEF CallersInv

LEMMA PayerProp ==
    ASSUME NEW v \in Waitable
    PROVE  /\ Payer(v) \in {"PREP_SNAPSHOT_DONE", "READY_FOR_SNAPSHOT", "NONE"}
           /\ Payer(v) \notin Waitable \cup {"CANCEL_PICTURE", "STOP_CAPTURE_CHANNEL", "EXIT"}
<1>1. Payer(v) \in {"PREP_SNAPSHOT_DONE", "READY_FOR_SNAPSHOT", "NONE"}
  BY DEF Payer
<1>2. "NONE" \notin Waitable
  BY ApiAssumption DEF Waitable, ApiEvents, Queries
<1>3. {"PREP_SNAPSHOT_DONE", "READY_FOR_SNAPSHOT"} \cap Waitable = {}
  BY WaitableProp DEF Unawaited
<1> QED BY <1>1, <1>2, <1>3

\* What one handled event adds to the results and takes from what is owed.
LEMMA HandlingPays ==
    ASSUME IsSeq(m_apiResultList), NEW e, StateMachine(e), Signal, RetroAfter(e), e.evt # "DAEMON_DIED",
           NEW v \in Waitable
    PROVE  /\ IsSeq(m_apiResultList')
           /\ CountRes(m_apiResultList', v) + Flag(v)' <=
                 (CountRes(m_apiResultList, v) + Flag(v))
                    + (IF e.evt = v \/ e.evt = Payer(v) THEN 1 ELSE 0)
<1> DEFINE r == CountRes(m_apiResultList, v)
           n == CountRes(m_apiResultList', v)
           more == IF e.evt = v \/ e.evt = Payer(v) THEN 1 ELSE 0
<1>1. m_apiResultList' = m_apiResultList \o SetToSeq(out'.api)
  BY DEF Signal
<1>2. r \in Nat
  BY ResultsType
<1>3. ASSUME out'.api = {} PROVE m_apiResultList' = m_apiResultList
  BY <1>1, <1>3, SetToSeqOne, ConcatOne
<1>4. ASSUME NEW x, NEW w, out'.api = {x}, x[1] = w
      PROVE  IsSeq(m_apiResultList') /\ n = IF w = v THEN r + 1 ELSE r
  <2>1. m_apiResultList' = Append(m_apiResultList, x)
    BY <1>1, <1>4, SetToSeqOne, ConcatOne
  <2> QED BY <1>4, <2>1, ResultsAppend
<1>5. AnswersAtMost(e)
  BY HandlersAnswerAtMost
<1>6. retro' = "frames" /\ retro # "frames" => e.evt = "TAKE_PICTURE" /\ out'.api = {}
  BY RetroUnanswered
<1>7. Flag(v) \in {0, 1} /\ Flag(v)' \in {0, 1}
  BY DEF Flag
<1>8. SUFFICES IsSeq(m_apiResultList') /\ n + Flag(v)' <= (r + Flag(v)) + more
  OBVIOUS
<1>9. more \in {0, 1}
  OBVIOUS
<1>10. ASSUME out'.api # {}, prepSnapshot' = prepSnapshot PROVE Flag(v)' <= Flag(v)
  <2>1. retro' = "frames" => retro = "frames"
    BY <1>6, <1>10
  <2> QED BY <1>10, <2>1 DEF Flag
<1>11. ASSUME NEW x, NEW w, out'.api = {x}, x[1] = w, prepSnapshot' = prepSnapshot, w = v => more = 1
       PROVE  IsSeq(m_apiResultList') /\ n + Flag(v)' <= (r + Flag(v)) + more
  <2>1. IsSeq(m_apiResultList') /\ n = IF w = v THEN r + 1 ELSE r
    BY <1>4, <1>11
  <2>2. Flag(v)' <= Flag(v)
    BY <1>10, <1>11
  <2> HIDE DEF r, n, more
  <2> QED BY <1>2, <1>7, <1>9, <1>11, <2>1, <2>2
<1>12. CASE out'.api = {}
  <2>1. IsSeq(m_apiResultList') /\ n = r
    BY <1>3, <1>12
  <2>2. Flag(v)' <= Flag(v) + more
    <3>1. CASE v = "PREPARE_SNAPSHOT"
      <4>1. prepSnapshot' => prepSnapshot \/ e.evt = "PREPARE_SNAPSHOT"
        BY <1>5 DEF AnswersAtMost
      <4> QED BY <3>1, <4>1 DEF Flag
    <3>2. CASE v = "TAKE_PICTURE"
      BY <1>6, <3>2 DEF Flag
    <3>3. CASE v # "PREPARE_SNAPSHOT" /\ v # "TAKE_PICTURE"
      BY <3>3 DEF Flag
    <3> QED BY <3>1, <3>2, <3>3
  <2> HIDE DEF r, n, more
  <2> QED BY <1>2, <1>7, <1>9, <2>1, <2>2
<1>13. CASE prepSnapshot' = prepSnapshot /\ Told(e)
  <2>1. PICK ok : out'.api = {<<e.evt, ok>>}
    BY <1>13 DEF Told
  <2>2. <<e.evt, ok>>[1] = e.evt /\ (e.evt = v => more = 1)
    OBVIOUS
  <2> HIDE DEF r, n, more
  <2> QED BY <1>11, <1>13, <2>1, <2>2
<1>14. CASE prepSnapshot' = prepSnapshot /\ e.evt = "PREP_SNAPSHOT_DONE" /\ out'.api = {<<"PREPARE_SNAPSHOT", TRUE>>}
  <2>1. <<"PREPARE_SNAPSHOT", TRUE>>[1] = "PREPARE_SNAPSHOT" /\ ("PREPARE_SNAPSHOT" = v => more = 1)
    BY <1>14 DEF Payer
  <2> HIDE DEF r, n, more
  <2> QED BY <1>11, <1>14, <2>1
<1>15. CASE prepSnapshot' = prepSnapshot /\ e.evt = "READY_FOR_SNAPSHOT" /\ out'.api = {<<"TAKE_PICTURE", TRUE>>}
  <2>1. <<"TAKE_PICTURE", TRUE>>[1] = "TAKE_PICTURE" /\ ("TAKE_PICTURE" = v => more = 1)
    BY <1>15 DEF Payer
  <2> HIDE DEF r, n, more
  <2> QED BY <1>11, <1>15, <2>1
<1> HIDE DEF r, n, more
<1> QED BY <1>5, <1>12, <1>13, <1>14, <1>15 DEF AnswersAtMost

LEMMA PostedElse ==
    ASSUME NEW q, IsSeq(q), NEW s, s \subseteq {"SNAPSHOT_DONE"}, NEW v, v # "SNAPSHOT_DONE"
    PROVE  CountIn(q \o Posted(s), v) = CountIn(q, v)
<1>1. CASE s = {}
  BY <1>1, PostedOne, ConcatOne
<1>2. CASE s = {"SNAPSHOT_DONE"}
  <2> DEFINE m == Event("SNAPSHOT_DONE", TRUE)
  <2>1. q \o Posted(s) = Append(q, m) /\ m.evt # v
    BY <1>2, PostedOne, ConcatOne DEF Event
  <2> HIDE DEF m
  <2> QED BY <2>1, QueueAppend
<1> QED BY <1>1, <1>2

LEMMA LiveAgain ==
    ASSUME DueInv, UNCHANGED <<m_state, channels, par, mLongshotEnabled, liveThread>>,
           closing' = "open" => closing = "open"
    PROVE  "CANCEL_PICTURE" \in Calls /\ closing' = "open" => LiveInv'
BY LiveStays DEF DueInv

\* The state machine's round, from either queue.
LEMMA HandlingKeepsDue ==
    ASSUME CancelsApart, QueuesInv, CallersInv, DueInv, NextApi \/ NextEvt
    PROVE  DueInv'
<1>1. /\ IsSeq(api_queue) /\ IsSeq(evt_queue) /\ IsSeq(m_apiResultList)
      /\ \A m \in ToSet(evt_queue) : m.evt # "DAEMON_DIED" /\ m.evt \in Unawaited
      /\ AtMost
  BY DEF QueuesInv, DueInv
<1>2. call' = call /\ closing' = closing
  BY DEF NextApi, NextEvt, lifeVars
<1>3. ASSUME NEW e, StateMachine(e), Signal, RetroAfter(e), e.evt # "DAEMON_DIED",
             e.evt \in Waitable \cup {"CANCEL_PICTURE", "STOP_CAPTURE_CHANNEL", "EXIT"} \cup Unawaited,
             IsSeq(evt_queue'),
             \A m \in ToSet(evt_queue') : m \in ToSet(evt_queue) \/ m = Event("SNAPSHOT_DONE", TRUE),
             \A v \in Waitable :
                CountIn(api_queue', v) + CountIn(evt_queue', Payer(v)) =
                   (CountIn(api_queue, v) + CountIn(evt_queue, Payer(v)))
                      - (IF e.evt = v \/ e.evt = Payer(v) THEN 1 ELSE 0),
             IsSeq(api_queue')
      PROVE  DueInv'
  <2>1. \A v \in Waitable :
           /\ IsSeq(m_apiResultList')
           /\ CountRes(m_apiResultList', v) + Flag(v)' <=
                 (CountRes(m_apiResultList, v) + Flag(v))
                    + (IF e.evt = v \/ e.evt = Payer(v) THEN 1 ELSE 0)
    BY <1>1, <1>3, HandlingPays
  <2>2. IsSeq(m_apiResultList')
    <3>1. "PREPARE_SNAPSHOT" \in Waitable
      BY DEF Waitable
    <3> QED BY <2>1, <3>1
  <2>3. AtMost'
    <3> SUFFICES ASSUME NEW v \in Waitable PROVE Due(v)' <= Cardinality(Waiters(call', v))
      BY DEF AtMost
    <3> DEFINE more == IF e.evt = v \/ e.evt = Payer(v) THEN 1 ELSE 0
               a  == CountIn(api_queue, v)
               a2 == CountIn(api_queue', v)
               b  == CountIn(evt_queue, Payer(v))
               b2 == CountIn(evt_queue', Payer(v))
               r  == CountRes(m_apiResultList, v)
               r2 == CountRes(m_apiResultList', v)
               w  == Cardinality(Waiters(call, v))
    <3>1. a + r + Flag(v) + b <= w
      BY <1>1 DEF AtMost, Due
    <3>2. a \in Nat /\ b \in Nat /\ r \in Nat /\ a2 \in Nat /\ b2 \in Nat /\ r2 \in Nat /\ w \in Nat
      BY <1>1, <1>3, <2>2, QueueType, ResultsType, WaitersType
    <3>3. Flag(v) \in {0, 1} /\ Flag(v)' \in {0, 1} /\ more \in {0, 1}
      BY DEF Flag
    <3>4. a2 + b2 = (a + b) - more
      BY <1>3
    <3>5. r2 + Flag(v)' <= (r + Flag(v)) + more
      BY <2>1
    <3>6. Due(v)' = a2 + r2 + Flag(v)' + b2
      BY DEF Due
    <3> HIDE DEF more, a, a2, b, b2, r, r2, w
    <3>7. a2 + r2 + Flag(v)' + b2 <= w
      BY <3>1, <3>2, <3>3, <3>4, <3>5
    <3> QED BY <1>2, <3>6, <3>7 DEF w
  <2>4. ASSUME "CANCEL_PICTURE" \in Calls, closing' = "open" PROVE LiveInv'
    <3>1. LiveInv /\ ~HalCallsFail
      BY <1>2, <2>4 DEF DueInv, CancelsApart
    <3>2. PlainEvent(e)
      BY <1>3, <2>4 DEF PlainEvent, CancelsApart, Waitable, Unawaited
    <3> QED BY <1>3, <3>1, <3>2, StateMachineKeepsLive
  <2>5. \A m \in ToSet(evt_queue') : m.evt # "DAEMON_DIED"
    BY <1>1, <1>3 DEF Event
  <2> QED BY <2>2, <2>3, <2>4, <2>5 DEF DueInv
<1>4. CASE NextApi
  <2> DEFINE e == Head(api_queue)
  <2>1. /\ api_queue # <<>> /\ api_queue' = Tail(api_queue)
        /\ evt_queue' = evt_queue \o Posted(out'.posted)
        /\ StateMachine(e) /\ Signal /\ RetroAfter(e)
    BY <1>4 DEF NextApi, Handle
  <2>2. e.evt \in Waitable \cup {"CANCEL_PICTURE", "STOP_CAPTURE_CHANNEL", "EXIT"}
    BY <2>1, HandledHead DEF ApiMessage
  <2>3. out'.posted \subseteq {"SNAPSHOT_DONE"}
    BY <2>1, HandlersPostLittle DEF PostsLittle
  <2>4. /\ IsSeq(evt_queue')
        /\ ToSet(evt_queue') \subseteq ToSet(evt_queue) \cup {Event("SNAPSHOT_DONE", TRUE)}
        /\ \A v \in Waitable : CountIn(evt_queue', Payer(v)) = CountIn(evt_queue, Payer(v))
    <3>1. \A v \in Waitable : Payer(v) # "SNAPSHOT_DONE"
      BY PayerProp
    <3>2. \A v \in Waitable : CountIn(evt_queue', Payer(v)) = CountIn(evt_queue, Payer(v))
      BY <1>1, <2>1, <2>3, <3>1, PostedElse
    <3> QED BY <1>1, <2>1, <2>3, <3>2, PostedPlain
  <2>5. /\ IsSeq(api_queue')
        /\ \A v : CountIn(api_queue', v) = IF e.evt = v THEN CountIn(api_queue, v) - 1 ELSE CountIn(api_queue, v)
    BY <1>1, <2>1, QueueTail
  <2> HIDE DEF e
  <2>6. \A v \in Waitable : e.evt # Payer(v)
    BY <2>2, PayerProp
  <2>7. \A v \in Waitable :
           CountIn(api_queue', v) + CountIn(evt_queue', Payer(v)) =
              (CountIn(api_queue, v) + CountIn(evt_queue, Payer(v)))
                 - (IF e.evt = v \/ e.evt = Payer(v) THEN 1 ELSE 0)
    <3> SUFFICES ASSUME NEW v \in Waitable
                 PROVE  CountIn(api_queue', v) + CountIn(evt_queue', Payer(v)) =
                           (CountIn(api_queue, v) + CountIn(evt_queue, Payer(v)))
                              - (IF e.evt = v \/ e.evt = Payer(v) THEN 1 ELSE 0)
      OBVIOUS
    <3>1. CountIn(api_queue, v) \in Nat /\ CountIn(evt_queue, Payer(v)) \in Nat
      BY <1>1, QueueType
    <3> QED BY <2>4, <2>5, <2>6, <3>1
  <2>8. e.evt # "DAEMON_DIED"
    BY <2>2, NoEventTwice DEF Unawaited
  <2> QED BY <1>3, <2>1, <2>2, <2>4, <2>5, <2>7, <2>8
<1>5. CASE NextEvt
  <2> DEFINE e == Head(evt_queue)
  <2>1. /\ evt_queue # <<>> /\ api_queue' = api_queue
        /\ evt_queue' = Tail(evt_queue) \o Posted(out'.posted)
        /\ StateMachine(e) /\ Signal /\ RetroAfter(e)
    BY <1>5 DEF NextEvt, Handle
  <2>2. out'.posted \subseteq {"SNAPSHOT_DONE"}
    BY <2>1, HandlersPostLittle DEF PostsLittle
  <2>3. /\ IsSeq(Tail(evt_queue)) /\ e \in ToSet(evt_queue)
        /\ ToSet(Tail(evt_queue)) \subseteq ToSet(evt_queue)
        /\ \A v : CountIn(Tail(evt_queue), v) =
                     IF e.evt = v THEN CountIn(evt_queue, v) - 1 ELSE CountIn(evt_queue, v)
    BY <1>1, <2>1, QueueTail
  <2>4. /\ IsSeq(evt_queue')
        /\ ToSet(evt_queue') \subseteq ToSet(Tail(evt_queue)) \cup {Event("SNAPSHOT_DONE", TRUE)}
        /\ \A v \in Waitable : CountIn(evt_queue', Payer(v)) = CountIn(Tail(evt_queue), Payer(v))
    <3>1. \A v \in Waitable : Payer(v) # "SNAPSHOT_DONE"
      BY PayerProp
    <3>2. \A v \in Waitable : CountIn(evt_queue', Payer(v)) = CountIn(Tail(evt_queue), Payer(v))
      BY <2>1, <2>2, <2>3, <3>1, PostedElse
    <3> QED BY <2>1, <2>2, <2>3, <3>2, PostedPlain
  <2>5. e.evt \in Unawaited /\ e.evt # "DAEMON_DIED"
    BY <1>1, <2>3
  <2> HIDE DEF e
  <2>6. \A v \in Waitable : e.evt # v
    BY <2>5, NoEventTwice
  <2>7. \A v \in Waitable :
           CountIn(api_queue', v) + CountIn(evt_queue', Payer(v)) =
              (CountIn(api_queue, v) + CountIn(evt_queue, Payer(v)))
                 - (IF e.evt = v \/ e.evt = Payer(v) THEN 1 ELSE 0)
    <3> SUFFICES ASSUME NEW v \in Waitable
                 PROVE  CountIn(api_queue', v) + CountIn(evt_queue', Payer(v)) =
                           (CountIn(api_queue, v) + CountIn(evt_queue, Payer(v)))
                              - (IF e.evt = v \/ e.evt = Payer(v) THEN 1 ELSE 0)
      OBVIOUS
    <3>1. CountIn(api_queue, v) \in Nat /\ CountIn(evt_queue, Payer(v)) \in Nat
      BY <1>1, QueueType
    <3>2. CountIn(evt_queue', Payer(v)) =
             IF e.evt = Payer(v) THEN CountIn(evt_queue, Payer(v)) - 1 ELSE CountIn(evt_queue, Payer(v))
      BY <2>3, <2>4
    <3>3. CountIn(api_queue', v) = CountIn(api_queue, v) /\ e.evt # v
      BY <2>1, <2>6
    <3> QED BY <3>1, <3>2, <3>3
  <2>8. IsSeq(api_queue')
    BY <1>1, <2>1
  <2> QED BY <1>3, <2>1, <2>3, <2>4, <2>5, <2>7, <2>8
<1> QED BY <1>4, <1>5

\* A step that queues no event somebody waits for and pays what it takes.
LEMMA DueStays ==
    ASSUME DueInv, QueuesInv, CallersInv, UNCHANGED <<call, m_apiResultList>>, IsSeq(evt_queue'),
           \A v \in Waitable : CountIn(api_queue', v) = CountIn(api_queue, v),
           \A v \in Waitable :
              Flag(v)' + CountIn(evt_queue', Payer(v)) = Flag(v) + CountIn(evt_queue, Payer(v)),
           \A m \in ToSet(evt_queue') : m.evt # "DAEMON_DIED",
           "CANCEL_PICTURE" \in Calls /\ closing' = "open" => LiveInv'
    PROVE  DueInv'
<1>1. AtMost'
  <2> SUFFICES ASSUME NEW v \in Waitable PROVE Due(v)' <= Cardinality(Waiters(call', v))
    BY DEF AtMost
  <2> DEFINE a == CountIn(api_queue, v)
             b == CountIn(evt_queue, Payer(v))
             b2 == CountIn(evt_queue', Payer(v))
             r == CountRes(m_apiResultList, v)
             w == Cardinality(Waiters(call, v))
  <2>1. a + r + Flag(v) + b <= w
    BY DEF DueInv, AtMost, Due
  <2>2. a \in Nat /\ b \in Nat /\ r \in Nat /\ b2 \in Nat /\ w \in Nat
    BY QueueType, ResultsType, WaitersType DEF DueInv, QueuesInv
  <2>3. Flag(v) \in {0, 1} /\ Flag(v)' \in {0, 1} /\ Flag(v)' + b2 = Flag(v) + b
    BY DEF Flag
  <2>4. Due(v)' = a + r + Flag(v)' + b2
    BY DEF Due
  <2> HIDE DEF a, b, b2, r, w
  <2>5. a + r + Flag(v)' + b2 <= w
    BY <2>1, <2>2, <2>3
  <2> QED BY <2>4, <2>5 DEF w
<1> QED BY <1>1 DEF DueInv

\* Who starts or ends another wait does not change the waiters for v.
LEMMA WaitersStay ==
    ASSUME NEW f, NEW g, NEW c \in Callers, NEW v,
           \A d \in Callers \ {c} : g[d] = f[d], ~Awaits(f[c], v), ~Awaits(g[c], v)
    PROVE  Waiters(g, v) = Waiters(f, v)
<1>1. \A d \in Callers : Awaits(g[d], v) <=> Awaits(f[d], v)
  <2> SUFFICES ASSUME NEW d \in Callers PROVE Awaits(g[d], v) <=> Awaits(f[d], v)
    OBVIOUS
  <2>1. CASE d = c
    BY <2>1
  <2>2. CASE d # c
    BY <2>2
  <2> QED BY <2>1, <2>2
<1> QED BY <1>1 DEF Waiters

LEMMA WaitersLess ==
    ASSUME NEW f, NEW g, NEW c \in Callers, NEW v,
           \A d \in Callers \ {c} : g[d] = f[d], IsFiniteSet(Waiters(f, v)),
           Awaits(f[c], v), ~Awaits(g[c], v)
    PROVE  /\ Cardinality(Waiters(f, v)) \in Nat
           /\ Cardinality(Waiters(g, v)) = Cardinality(Waiters(f, v)) - 1
<1>1. \A d \in Callers \ {c} : Awaits(g[d], v) <=> Awaits(f[d], v)
  OBVIOUS
<1>2. Waiters(g, v) = Waiters(f, v) \ {c} /\ c \in Waiters(f, v)
  BY <1>1 DEF Waiters
<1> QED BY <1>2, FS_CardinalityType, FS_RemoveElement

LEMMA WaitersMore ==
    ASSUME NEW f, NEW g, NEW c \in Callers, NEW v,
           \A d \in Callers \ {c} : g[d] = f[d], IsFiniteSet(Waiters(f, v)),
           ~Awaits(f[c], v), Awaits(g[c], v)
    PROVE  /\ Cardinality(Waiters(f, v)) \in Nat
           /\ Cardinality(Waiters(g, v)) = Cardinality(Waiters(f, v)) + 1
<1>1. \A d \in Callers \ {c} : Awaits(g[d], v) <=> Awaits(f[d], v)
  OBVIOUS
<1>2. Waiters(g, v) = Waiters(f, v) \cup {c} /\ c \notin Waiters(f, v)
  BY <1>1 DEF Waiters
<1> QED BY <1>2, FS_CardinalityType, FS_AddElement

LEMMA CallKeepsDue ==
    ASSUME QueuesInv, CallersInv, DueInv, NEW c \in Callers, Call(c)
    PROVE  DueInv'
<1>1. AtMost /\ IsSeq(m_apiResultList) /\ IsSeq(api_queue) /\ IsSeq(evt_queue)
  BY DEF DueInv, QueuesInv
<1>2. /\ UNCHANGED <<m_state, channels, par, mLongshotEnabled, liveThread, prepSnapshot,
                     m_apiResultList, evt_queue, retro, closing>>
      /\ call[c] = <<>>
  BY DEF Call, smVars, hwVars, confVars, lifeVars
<1>3. PICK evt \in Calls : \E arg \in CallArguments(evt), steps \in Steps(evt) :
        /\ call' = [call EXCEPT ![c] = steps]
        /\ ProcApi(Head(steps), arg)
  BY DEF Call
<1>4. PICK arg \in CallArguments(evt), steps \in Steps(evt) :
        /\ call' = [call EXCEPT ![c] = steps]
        /\ ProcApi(Head(steps), arg)
  BY <1>3
<1>5. steps \in CallSteps /\ steps # <<>>
  BY CallTakesSteps
<1> DEFINE m == Event(Head(steps), arg)
<1>6. api_queue' = Append(api_queue, m) /\ m.evt = Head(steps)
  BY <1>4 DEF ProcApi, Event
<1> HIDE DEF m
<1>7. \A v : CountIn(api_queue', v) =
                IF Head(steps) = v THEN CountIn(api_queue, v) + 1 ELSE CountIn(api_queue, v)
  BY <1>1, <1>6, QueueAppend
<1>8. AtMost'
  <2> SUFFICES ASSUME NEW v \in Waitable PROVE Due(v)' <= Cardinality(Waiters(call', v))
    BY DEF AtMost
  <2>1. call \in [Callers -> CallSteps] /\ IsFiniteSet(Waiters(call, v))
    BY DEF CallersInv
  <2>2. ~Awaits(call[c], v) /\ (Awaits(steps, v) <=> Head(steps) = v)
    BY <1>2, <1>5 DEF Awaits
  <2>3. call'[c] = steps /\ \A d \in Callers \ {c} : call'[d] = call[d]
    BY <1>4, <2>1
  <2>4. Cardinality(Waiters(call, v)) \in Nat
    BY WaitersType
  <2>5. Cardinality(Waiters(call', v)) = IF Head(steps) = v THEN Cardinality(Waiters(call, v)) + 1
                                         ELSE Cardinality(Waiters(call, v))
    <3>1. CASE Head(steps) = v
      <4>1. ~Awaits(call[c], v) /\ Awaits(call'[c], v)
        BY <2>2, <2>3, <3>1
      <4>2. Cardinality(Waiters(call', v)) = Cardinality(Waiters(call, v)) + 1
        BY <2>1, <2>3, <4>1, WaitersMore
      <4> QED BY <3>1, <4>2
    <3>2. CASE Head(steps) # v
      <4>1. ~Awaits(call[c], v) /\ ~Awaits(call'[c], v)
        BY <2>2, <2>3, <3>2
      <4>2. Cardinality(Waiters(call', v)) = Cardinality(Waiters(call, v))
        BY <2>3, <4>1, WaitersStay
      <4> QED BY <3>2, <4>2
    <3> QED BY <3>1, <3>2
  <2> DEFINE a == CountIn(api_queue, v)
             a2 == CountIn(api_queue', v)
             b == CountIn(evt_queue, Payer(v))
             r == CountRes(m_apiResultList, v)
             w == Cardinality(Waiters(call, v))
             w2 == Cardinality(Waiters(call', v))
  <2>6. a2 = (IF Head(steps) = v THEN a + 1 ELSE a) /\ w2 = (IF Head(steps) = v THEN w + 1 ELSE w) /\ w \in Nat
    BY <1>7, <2>4, <2>5
  <2>7. a + r + Flag(v) + b <= w
    BY <1>1 DEF AtMost, Due
  <2>8. a \in Nat /\ b \in Nat /\ r \in Nat /\ Flag(v) \in {0, 1}
    BY <1>1, QueueType, ResultsType DEF Flag
  <2>9. Due(v)' = a2 + r + Flag(v) + b
    <3>1. Flag(v)' = Flag(v)
      BY <1>2 DEF Flag
    <3> QED BY <1>2, <3>1 DEF Due
  <2> HIDE DEF a, a2, b, r, w, w2
  <2>10. a2 + r + Flag(v) + b <= w2
    <3>1. CASE Head(steps) = v
      BY <2>6, <2>7, <2>8, <3>1
    <3>2. CASE Head(steps) # v
      BY <2>6, <2>7, <2>8, <3>2
    <3> QED BY <3>1, <3>2
  <2> QED BY <2>9, <2>10 DEF w2
<1>9. "CANCEL_PICTURE" \in Calls /\ closing' = "open" => LiveInv'
  BY <1>2, LiveAgain
<1>10. IsSeq(m_apiResultList') /\ \A x \in ToSet(evt_queue') : x.evt # "DAEMON_DIED"
  BY <1>2 DEF DueInv
<1> QED BY <1>8, <1>9, <1>10 DEF DueInv

LEMMA WakeKeepsDue ==
    ASSUME QueuesInv, CallersInv, DueInv, NEW c \in Callers, Wake(c)
    PROVE  DueInv'
<1>1. AtMost /\ IsSeq(m_apiResultList) /\ IsSeq(api_queue) /\ IsSeq(evt_queue)
  BY DEF DueInv, QueuesInv
<1>2. /\ UNCHANGED <<m_state, channels, par, mLongshotEnabled, liveThread, prepSnapshot,
                     evt_queue, retro, closing>>
      /\ call[c] # <<>>
  BY DEF Wake, Waiting, CameraUnchanged, smVars, hwVars, confVars, lifeVars
<1>3. "CANCEL_PICTURE" \in Calls /\ closing' = "open" => LiveInv'
  BY <1>2, LiveAgain
<1>4. \A x \in ToSet(evt_queue') : x.evt # "DAEMON_DIED"
  BY <1>2 DEF DueInv
<1>5. CASE UNCHANGED <<m_apiResultList, call, api_queue>>
  <2>1. \A v : Flag(v)' = Flag(v)
    BY <1>2 DEF Flag
  <2>2. AtMost'
    BY <1>1, <1>2, <1>5, <2>1 DEF AtMost, Due
  <2> QED BY <1>1, <1>3, <1>4, <1>5, <2>2 DEF DueInv
<1>6. CASE /\ Answered(c)
           /\ TakeResult(Head(call[c]))
           /\ call' = [call EXCEPT ![c] = Tail(call[c])]
           /\ \/ Tail(call[c]) = <<>> /\ UNCHANGED api_queue
              \/ Tail(call[c]) # <<>> /\ ProcApi(Head(Tail(call[c])), TRUE)
  <2> DEFINE this == Head(call[c])
             rest == Tail(call[c])
             m    == Event(Head(rest), TRUE)
  <2>1. \E i \in DOMAIN m_apiResultList : m_apiResultList[i][1] = this
    BY <1>6 DEF Answered
  <2>2. \E i \in DOMAIN m_apiResultList :
           m_apiResultList[i][1] = this /\ m_apiResultList' = RemoveAt(m_apiResultList, i)
    <3>1. \E i \in DOMAIN m_apiResultList :
             /\ m_apiResultList[i][1] = this
             /\ \A j \in 1 .. (i - 1) : m_apiResultList[j][1] # this
      BY <1>1, <2>1, FirstResult
    <3> QED BY <1>6, <3>1 DEF TakeResult
  <2>3. /\ IsSeq(m_apiResultList')
        /\ \A v : CountRes(m_apiResultList', v) =
                     IF this = v THEN CountRes(m_apiResultList, v) - 1 ELSE CountRes(m_apiResultList, v)
    BY <1>1, <2>2, ResultsRemove
  <2>4. /\ call' = [call EXCEPT ![c] = rest]
        /\ \/ rest = <<>> /\ api_queue' = api_queue
           \/ rest # <<>> /\ api_queue' = Append(api_queue, m) /\ m.evt = Head(rest)
    BY <1>6 DEF ProcApi, Event
  <2> HIDE DEF m, rest
  <2>5. \A v : CountIn(api_queue', v) =
                  IF rest # <<>> /\ Head(rest) = v THEN CountIn(api_queue, v) + 1 ELSE CountIn(api_queue, v)
    <3>1. CASE rest = <<>> /\ api_queue' = api_queue
      BY <3>1
    <3>2. CASE rest # <<>> /\ api_queue' = Append(api_queue, m) /\ m.evt = Head(rest)
      BY <1>1, <3>2, QueueAppend
    <3> QED BY <2>4, <3>1, <3>2
  <2>6. AtMost'
    <3> SUFFICES ASSUME NEW v \in Waitable PROVE Due(v)' <= Cardinality(Waiters(call', v))
      BY DEF AtMost
    <3> DEFINE a == CountIn(api_queue, v)
               a2 == CountIn(api_queue', v)
               b == CountIn(evt_queue, Payer(v))
               r == CountRes(m_apiResultList, v)
               r2 == CountRes(m_apiResultList', v)
               w == Cardinality(Waiters(call, v))
               w2 == Cardinality(Waiters(call', v))
    <3>1. call \in [Callers -> CallSteps] /\ IsFiniteSet(Waiters(call, v))
      BY DEF CallersInv
    <3>2. call'[c] = rest /\ \A d \in Callers \ {c} : call'[d] = call[d]
      BY <2>4, <3>1
    <3>3. /\ w \in Nat
          /\ (Awaits(call[c], v) <=> Awaits(rest, v)) => w2 = w
          /\ ~Awaits(call[c], v) /\ Awaits(rest, v) => w2 = w + 1
          /\ Awaits(call[c], v) /\ ~Awaits(rest, v) => w2 = w - 1
      BY <3>1, <3>2, WaitersMove
    <3>4. r2 = IF Awaits(call[c], v) THEN r - 1 ELSE r
      BY <1>2, <2>3 DEF Awaits
    <3>5. a2 = IF Awaits(rest, v) THEN a + 1 ELSE a
      BY <2>5 DEF Awaits
    <3>6. a + r + Flag(v) + b <= w
      BY <1>1 DEF AtMost, Due
    <3>7. a \in Nat /\ b \in Nat /\ r \in Nat /\ r2 \in Nat /\ Flag(v) \in {0, 1}
      BY <1>1, <2>3, QueueType, ResultsType DEF Flag
    <3>8. Due(v)' = a2 + r2 + Flag(v) + b
      BY <1>2 DEF Due, Flag
    <3> HIDE DEF a, a2, b, r, r2, w, w2
    <3>9. a2 + r2 + Flag(v) + b <= w2
      <4>1. CASE Awaits(rest, v)
        BY <3>3, <3>4, <3>5, <3>6, <3>7, <4>1
      <4>2. CASE ~Awaits(rest, v)
        BY <3>3, <3>4, <3>5, <3>6, <3>7, <4>2
      <4> QED BY <4>1, <4>2
    <3> QED BY <3>8, <3>9 DEF w2
  <2> QED BY <1>3, <1>4, <2>3, <2>6 DEF DueInv
<1> QED BY <1>5, <1>6 DEF Wake

LEMMA LiveThreadKeepsDue ==
    ASSUME CancelsApart, QueuesInv, CallersInv, DueInv, LiveThread
    PROVE  DueInv'
<1>1. /\ LiveSnapshot /\ PostApi(out'.posted)
      /\ UNCHANGED <<call, evt_queue, m_apiResultList, retro, closing, m_state, prepSnapshot>>
  BY DEF LiveThread, LiveSnapshot, threadVars, lifeVars, smVars
<1>2. IsSeq(evt_queue') /\ \A m \in ToSet(evt_queue') : m.evt # "DAEMON_DIED"
  BY <1>1 DEF DueInv, QueuesInv
<1>3. out'.posted \subseteq {"CANCEL_PICTURE"} /\ ApiMessage(Event("CANCEL_PICTURE", TRUE))
  BY <1>1, LivePostsCancel, Messages
<1>4. /\ \A v : v # "CANCEL_PICTURE" => CountIn(api_queue', v) = CountIn(api_queue, v)
      /\ out'.posted = {} => api_queue' = api_queue
  BY <1>1, <1>3, PostApiAdds
<1>5. ASSUME "CANCEL_PICTURE" \in Calls, closing = "open" PROVE LiveInv' /\ out'.posted = {}
  <2>1. LiveInv /\ ~HalCallsFail
    BY <1>5 DEF DueInv, CancelsApart
  <2> QED BY <1>1, <2>1, LiveSnapshotKeepsLive
<1>6. \A v \in Waitable : CountIn(api_queue', v) = CountIn(api_queue, v)
  <2>1. CASE "CANCEL_PICTURE" \notin Calls
    <3>1. "CANCEL_PICTURE" \notin Waitable
      BY <2>1 DEF Waitable
    <3> QED BY <1>4, <3>1
  <2>2. CASE closing # "open"
    <3>1. api_queue' = api_queue
      BY <1>1, <2>2 DEF PostApi
    <3> QED BY <3>1
  <2>3. CASE "CANCEL_PICTURE" \in Calls /\ closing = "open"
    <3>1. api_queue' = api_queue
      BY <1>4, <1>5, <2>3
    <3> QED BY <3>1
  <2> QED BY <2>1, <2>2, <2>3
<1>7. \A v \in Waitable : Flag(v)' + CountIn(evt_queue', Payer(v)) = Flag(v) + CountIn(evt_queue, Payer(v))
  BY <1>1 DEF Flag
<1> QED BY <1>1, <1>2, <1>5, <1>6, <1>7, DueStays

\* The threads that handle no event and wait for none.
LEMMA OthersKeepDue ==
    ASSUME QueuesInv, CallersInv, DueInv,
           NextExit \/ FramesIn \/ Notifier \/ Close \/ SmJoined \/ UNCHANGED apiVars
    PROVE  DueInv'
<1>1. /\ UNCHANGED <<call, m_apiResultList, retro, m_state, prepSnapshot,
                     channels, par, mLongshotEnabled, liveThread>>
      /\ closing' = "open" => closing = "open"
  BY DEF NextExit, FramesIn, Notifier, NotifierTake, NotifierPost, Close, SmJoined, apiVars,
     vars, CameraUnchanged, smVars, hwVars, confVars, threadVars, queueVars, lifeVars
<1>2. "CANCEL_PICTURE" \in Calls /\ closing' = "open" => LiveInv'
  BY <1>1, LiveAgain
<1>3. /\ IsSeq(evt_queue') /\ \A m \in ToSet(evt_queue') : m.evt # "DAEMON_DIED"
      /\ \A v \in Waitable : CountIn(evt_queue', Payer(v)) = CountIn(evt_queue, Payer(v))
  <2>1. evt_queue' = evt_queue \/ ProcEvt("SNAPSHOT_DONE")
    BY DEF NextExit, FramesIn, Notifier, NotifierTake, NotifierPost, Close, SmJoined, apiVars, queueVars
  <2>2. CASE evt_queue' = evt_queue
    BY <2>2 DEF DueInv, QueuesInv
  <2>3. CASE ProcEvt("SNAPSHOT_DONE")
    <3>1. "SNAPSHOT_DONE" \in Unawaited
      BY DEF Unawaited
    <3>2. /\ IsSeq(evt_queue')
          /\ \A m \in ToSet(evt_queue') : m \in ToSet(evt_queue) \/ m.evt = "SNAPSHOT_DONE"
          /\ \A v : CountIn(evt_queue', v) =
                       IF "SNAPSHOT_DONE" = v THEN CountIn(evt_queue, v) + 1 ELSE CountIn(evt_queue, v)
      BY <2>3, <3>1, ProcEvtAdds
    <3> QED BY <3>2, PayerProp DEF DueInv
  <2> QED BY <2>1, <2>2, <2>3
<1>4. \A v \in Waitable : CountIn(api_queue', v) = CountIn(api_queue, v)
  <2>1. CASE NextExit
    <3>1. /\ api_queue # <<>> /\ Head(api_queue).evt = "EXIT" /\ api_queue' = Tail(api_queue)
          /\ IsSeq(api_queue)
      BY <2>1 DEF NextExit, Exit, Event, QueuesInv
    <3>2. \A v : CountIn(Tail(api_queue), v) =
                    IF Head(api_queue).evt = v THEN CountIn(api_queue, v) - 1 ELSE CountIn(api_queue, v)
      BY <3>1, QueueTail
    <3> QED BY <3>1, <3>2, NoEventTwice
  <2>2. CASE FramesIn
    <3>1. PICK s \in SUBSET {"STOP_CAPTURE_CHANNEL"} : PostApi(s)
      BY <2>2 DEF FramesIn
    <3>2. ApiMessage(Event("STOP_CAPTURE_CHANNEL", TRUE))
      BY Messages
    <3>3. \A v : v # "STOP_CAPTURE_CHANNEL" => CountIn(api_queue', v) = CountIn(api_queue, v)
      BY <3>1, <3>2, PostApiAdds
    <3> QED BY <3>3, NoEventTwice
  <2>3. CASE Close
    <3>1. ProcApi("EXIT", TRUE)
      BY <2>3 DEF Close, Exit, ProcApi
    <3>2. ApiMessage(Event("EXIT", TRUE))
      BY Messages
    <3>3. \A v : CountIn(api_queue', v) =
                    IF "EXIT" = v THEN CountIn(api_queue, v) + 1 ELSE CountIn(api_queue, v)
      BY <3>1, <3>2, ProcApiAdds
    <3> QED BY <3>3, NoEventTwice
  <2>4. CASE Notifier \/ SmJoined \/ UNCHANGED apiVars
    <3>1. api_queue' = api_queue
      BY <2>4 DEF Notifier, NotifierTake, NotifierPost, SmJoined, apiVars, queueVars
    <3> QED BY <3>1
  <2> QED BY <2>1, <2>2, <2>3, <2>4
<1>5. \A v \in Waitable : Flag(v)' + CountIn(evt_queue', Payer(v)) = Flag(v) + CountIn(evt_queue, Payer(v))
  <2>1. \A v \in Waitable : Flag(v)' = Flag(v)
    BY <1>1 DEF Flag
  <2> QED BY <1>3, <2>1
<1> QED BY <1>1, <1>2, <1>3, <1>4, <1>5, DueStays

\* The daemon's answers: what was owed is queued.
LEMMA DaemonKeepsDue ==
    ASSUME QueuesInv, CallersInv, DueInv, RetroReady \/ PrepareDone
    PROVE  DueInv'
<1>1. /\ UNCHANGED <<call, m_apiResultList, api_queue, m_state, closing, channels, par,
                     mLongshotEnabled, liveThread>>
      /\ IsSeq(evt_queue)
  BY DEF RetroReady, PrepareDone, CameraUnchanged, QueuesInv, smVars, hwVars, confVars, threadVars, lifeVars
<1>2. "CANCEL_PICTURE" \in Calls /\ closing' = "open" => LiveInv'
  BY <1>1, LiveAgain
<1>3. \A v : CountIn(evt_queue, v) \in Nat
  BY <1>1, QueueType
<1>4. CASE RetroReady
  <2>1. retro = "frames" /\ retro' = "prepare" /\ prepSnapshot' = prepSnapshot /\ ProcEvt("READY_FOR_SNAPSHOT")
    BY <1>4 DEF RetroReady, CameraUnchanged, hwVars
  <2>2. "READY_FOR_SNAPSHOT" \in Unawaited
    BY DEF Unawaited
  <2>3. /\ IsSeq(evt_queue')
        /\ \A m \in ToSet(evt_queue') : m \in ToSet(evt_queue) \/ m.evt = "READY_FOR_SNAPSHOT"
        /\ \A v : CountIn(evt_queue', v) =
                     IF "READY_FOR_SNAPSHOT" = v THEN CountIn(evt_queue, v) + 1 ELSE CountIn(evt_queue, v)
    BY <2>1, <2>2, ProcEvtAdds
  <2>4. ASSUME NEW v \in Waitable
        PROVE  Flag(v)' + CountIn(evt_queue', Payer(v)) = Flag(v) + CountIn(evt_queue, Payer(v))
    <3>1. CASE v = "TAKE_PICTURE"
      <4>1. Payer(v) = "READY_FOR_SNAPSHOT"
        BY <3>1 DEF Payer
      <4>2. Flag(v) = 1 /\ Flag(v)' = 0
        BY <2>1, <3>1 DEF Flag
      <4> QED BY <1>3, <2>3, <4>1, <4>2
    <3>2. CASE v # "TAKE_PICTURE"
      <4>1. Payer(v) # "READY_FOR_SNAPSHOT"
        BY <3>2 DEF Payer
      <4>2. Flag(v)' = Flag(v)
        BY <2>1, <3>2 DEF Flag
      <4> QED BY <2>3, <4>1, <4>2
    <3> QED BY <3>1, <3>2
  <2>5. \A m \in ToSet(evt_queue') : m.evt # "DAEMON_DIED"
    BY <2>3 DEF DueInv
  <2> QED BY <1>1, <1>2, <2>3, <2>4, <2>5, DueStays
<1>5. CASE PrepareDone
  <2>1. /\ prepSnapshot /\ ~prepSnapshot' /\ ProcEvt("PREP_SNAPSHOT_DONE")
        /\ retro' = "frames" <=> retro = "frames"
    BY <1>5 DEF PrepareDone
  <2>2. "PREP_SNAPSHOT_DONE" \in Unawaited
    BY DEF Unawaited
  <2>3. /\ IsSeq(evt_queue')
        /\ \A m \in ToSet(evt_queue') : m \in ToSet(evt_queue) \/ m.evt = "PREP_SNAPSHOT_DONE"
        /\ \A v : CountIn(evt_queue', v) =
                     IF "PREP_SNAPSHOT_DONE" = v THEN CountIn(evt_queue, v) + 1 ELSE CountIn(evt_queue, v)
    BY <2>1, <2>2, ProcEvtAdds
  <2>4. ASSUME NEW v \in Waitable
        PROVE  Flag(v)' + CountIn(evt_queue', Payer(v)) = Flag(v) + CountIn(evt_queue, Payer(v))
    <3>1. CASE v = "PREPARE_SNAPSHOT"
      <4>1. Payer(v) = "PREP_SNAPSHOT_DONE"
        BY <3>1 DEF Payer
      <4>2. Flag(v) = 1 /\ Flag(v)' = 0
        BY <2>1, <3>1 DEF Flag
      <4> QED BY <1>3, <2>3, <4>1, <4>2
    <3>2. CASE v # "PREPARE_SNAPSHOT"
      <4>1. Payer(v) # "PREP_SNAPSHOT_DONE"
        BY <3>2 DEF Payer
      <4>2. Flag(v)' = Flag(v)
        BY <2>1, <3>2 DEF Flag
      <4> QED BY <2>3, <4>1, <4>2
    <3> QED BY <3>1, <3>2
  <2>5. \A m \in ToSet(evt_queue') : m.evt # "DAEMON_DIED"
    BY <2>3 DEF DueInv
  <2> QED BY <1>1, <1>2, <2>3, <2>4, <2>5, DueStays
<1> QED BY <1>4, <1>5

\* The destructor drops the results.
LEMMA NotifierJoinedKeepsDue ==
    ASSUME QueuesInv, CallersInv, DueInv, NotifierJoined
    PROVE  DueInv'
<1>1. /\ closing' = "closed" /\ m_apiResultList' = <<>>
      /\ UNCHANGED <<call, retro, prepSnapshot, evt_queue, api_queue>>
  BY DEF NotifierJoined, threadVars
<1>2. IsSeq(<<>>) /\ \A v : CountRes(<<>>, v) = 0
  <2>1. DOMAIN <<>> = {} /\ <<>> \in Seq({})
    OBVIOUS
  <2> QED BY <2>1, FS_EmptySet DEF CountRes, IsSeq
<1>3. AtMost'
  <2> SUFFICES ASSUME NEW v \in Waitable PROVE Due(v)' <= Cardinality(Waiters(call', v))
    BY DEF AtMost
  <2> DEFINE a == CountIn(api_queue, v)
             b == CountIn(evt_queue, Payer(v))
             r == CountRes(m_apiResultList, v)
             w == Cardinality(Waiters(call, v))
  <2>1. a + r + Flag(v) + b <= w
    BY DEF DueInv, AtMost, Due
  <2>2. a \in Nat /\ b \in Nat /\ r \in Nat /\ w \in Nat /\ Flag(v) \in {0, 1}
    BY QueueType, ResultsType, WaitersType DEF DueInv, QueuesInv, Flag
  <2>3. Due(v)' = a + 0 + Flag(v) + b
    <3>1. Flag(v)' = Flag(v) /\ CountRes(m_apiResultList', v) = 0
      BY <1>1, <1>2 DEF Flag
    <3> QED BY <1>1, <3>1 DEF Due
  <2>4. Cardinality(Waiters(call', v)) = w
    BY <1>1
  <2> HIDE DEF a, b, r, w
  <2> QED BY <2>1, <2>2, <2>3, <2>4
<1>4. IsSeq(m_apiResultList') /\ \A m \in ToSet(evt_queue') : m.evt # "DAEMON_DIED"
  BY <1>1, <1>2 DEF DueInv
<1> QED BY <1>1, <1>3, <1>4 DEF DueInv

LEMMA InitialDue ==
    ASSUME CancelsApart, AInit
    PROVE  QueuesInv /\ CallersInv /\ DueInv
<1>1. CancelsAreCalls
  BY DEF CancelsApart, CancelsAreCalls
<1>2. ShapeInv /\ (Ordinary => PlainInv)
  BY <1>1, InitialShape DEF ApiInv
<1>3. /\ api_queue = <<>> /\ evt_queue = <<>> /\ m_apiResultList = <<>>
      /\ ~prepSnapshot /\ retro = "no" /\ daemon
  BY DEF AInit, Init
<1>4. DOMAIN <<>> = {} /\ IsSeq(<<>>)
  BY DEF IsSeq
<1>5. \A v : CountIn(<<>>, v) = 0 /\ CountRes(<<>>, v) = 0
  BY <1>4, FS_EmptySet DEF CountIn, CountRes
<1>6. AtMost
  <2> SUFFICES ASSUME NEW v \in Waitable PROVE Due(v) <= Cardinality(Waiters(call, v))
    BY DEF AtMost
  <2>1. Flag(v) = 0
    BY <1>3 DEF Flag
  <2>2. Due(v) = 0
    BY <1>3, <1>5, <2>1 DEF Due
  <2>3. Cardinality(Waiters(call, v)) \in Nat
    BY <1>2, WaitersType DEF ShapeInv
  <2> QED BY <2>2, <2>3
<1>7. ASSUME "CANCEL_PICTURE" \in Calls, closing = "open" PROVE LiveInv
  <2>1. PICK s \in Settings : par = CommittedParams(s)
    BY DEF AInit, Init
  <2>2. ~par.zsl
    BY <1>7, <2>1 DEF CancelsApart, CommittedParams
  <2>3. PlainInv
    BY <1>2, <1>3, <2>2 DEF Ordinary, RetroPictures
  <2> QED BY <1>7, <2>3 DEF PlainInv
<1>8. \A m \in ToSet(evt_queue) : m.evt # "DAEMON_DIED"
  BY <1>3, <1>4 DEF ToSet
<1> QED BY <1>2, <1>3, <1>4, <1>6, <1>7, <1>8 DEF DueInv, ShapeInv

\* Every step of a living daemon keeps the accounts.
LEMMA DueKept ==
    ASSUME CancelsApart, QueuesInv, CallersInv, DueInv, [ANext]_apiVars, ~DaemonDies
    PROVE  DueInv'
<1>1. CASE \E c \in Callers : Call(c) \/ Wake(c)
  BY <1>1, CallKeepsDue, WakeKeepsDue
<1>2. CASE NextApi \/ NextEvt
  BY <1>2, HandlingKeepsDue
<1>3. CASE LiveThread
  BY <1>3, LiveThreadKeepsDue
<1>4. CASE NextExit \/ FramesIn \/ Notifier \/ Close \/ SmJoined \/ UNCHANGED apiVars
  BY <1>4, OthersKeepDue
<1>5. CASE RetroReady \/ PrepareDone \/ NotifierJoined
  BY <1>5, DaemonKeepsDue, NotifierJoinedKeepsDue
<1> QED BY <1>1, <1>2, <1>3, <1>4, <1>5 DEF ANext, StateMachineThread, Environment, Destructor

-----------------------------------------------------------------------------
(* The broadcast: who sleeps waits for an event that is still queued, or     *)
(* still owed, for one of those who wait for it.                             *)

Broadcast ==
    \A c \in Callers : \A v :
        Awaits(call[c], v) /\ CountRes(m_apiResultList, v) >= Cardinality(Waiters(call, v)) => woken[c]

BroadcastInv == QueuesInv /\ CallersInv /\ (daemon => DueInv /\ Broadcast)

LEMMA QueuedIsMissing ==
    ASSUME QueuesInv', CallersInv', DueInv', NEW v \in Waitable, CountIn(api_queue', v) >= 1
    PROVE  ~(CountRes(m_apiResultList', v) >= Cardinality(Waiters(call', v)))
<1>1. Due(v)' <= Cardinality(Waiters(call', v))
  BY DEF DueInv, AtMost
<1>2. /\ CountIn(api_queue', v) \in Nat /\ CountRes(m_apiResultList', v) \in Nat
      /\ Flag(v)' \in {0, 1} /\ CountIn(evt_queue', Payer(v)) \in Nat
      /\ Cardinality(Waiters(call', v)) \in Nat
  BY QueueType, ResultsType, FS_CardinalityType DEF DueInv, QueuesInv, CallersInv, Flag
<1>3. CountIn(api_queue', v) + CountRes(m_apiResultList', v) + Flag(v)' + CountIn(evt_queue', Payer(v))
         <= Cardinality(Waiters(call', v))
  BY <1>1 DEF Due
<1> QED BY <1>2, <1>3

LEMMA BroadcastStays ==
    ASSUME Broadcast, UNCHANGED <<call, m_apiResultList>>, \A c \in Callers : woken[c] => woken'[c]
    PROVE  Broadcast'
BY DEF Broadcast

LEMMA HandlingBroadcasts ==
    ASSUME Broadcast, CallersInv, IsSeq(m_apiResultList), NextApi \/ NextEvt
    PROVE  Broadcast'
<1>1. Signal /\ call' = call
  BY DEF NextApi, NextEvt, Handle
<1>2. \A c \in Callers : woken'[c] = (woken[c] \/ (out'.api # {} /\ c \in Waiting))
  BY <1>1 DEF Signal
<1>3. CASE out'.api = {}
  <2>1. m_apiResultList' = m_apiResultList
    BY <1>1, <1>3, SetToSeqOne, ConcatOne DEF Signal
  <2> QED BY <1>1, <1>2, <2>1, BroadcastStays
<1>4. CASE out'.api # {}
  BY <1>1, <1>2, <1>4 DEF Broadcast, Awaits, Waiting
<1> QED BY <1>3, <1>4

LEMMA CallBroadcasts ==
    ASSUME Broadcast, QueuesInv, CallersInv, QueuesInv', CallersInv', DueInv', NEW c \in Callers, Call(c)
    PROVE  Broadcast'
<1>1. PICK evt \in Calls : \E arg \in CallArguments(evt), steps \in Steps(evt) :
        /\ call' = [call EXCEPT ![c] = steps]
        /\ ProcApi(Head(steps), arg)
  BY DEF Call
<1>2. PICK arg \in CallArguments(evt), steps \in Steps(evt) :
        /\ call' = [call EXCEPT ![c] = steps]
        /\ ProcApi(Head(steps), arg)
  BY <1>1
<1>3. steps \in CallSteps /\ steps # <<>> /\ Head(steps) \in Waitable
  BY CallTakesSteps, StepsProp
<1>4. /\ call \in [Callers -> CallSteps] /\ woken \in [Callers -> BOOLEAN] /\ IsSeq(api_queue)
      /\ call[c] = <<>> /\ m_apiResultList' = m_apiResultList /\ woken' = [woken EXCEPT ![c] = FALSE]
  BY DEF CallersInv, QueuesInv, Call
<1> DEFINE m == Event(Head(steps), arg)
<1>5. api_queue' = Append(api_queue, m) /\ m.evt = Head(steps)
  BY <1>2 DEF ProcApi, Event
<1> HIDE DEF m
<1>6. CountIn(api_queue', Head(steps)) = CountIn(api_queue, Head(steps)) + 1
      /\ CountIn(api_queue, Head(steps)) \in Nat
  BY <1>4, <1>5, QueueAppend, QueueType
<1>7. ~(CountRes(m_apiResultList', Head(steps)) >= Cardinality(Waiters(call', Head(steps))))
  BY <1>3, <1>6, QueuedIsMissing
<1> SUFFICES ASSUME NEW d \in Callers, NEW v, Awaits(call'[d], v),
                    CountRes(m_apiResultList', v) >= Cardinality(Waiters(call', v))
             PROVE  woken'[d]
  BY DEF Broadcast
<1>8. v # Head(steps)
  BY <1>7
<1>9. d # c /\ call'[d] = call[d] /\ woken'[d] = woken[d]
  BY <1>2, <1>4, <1>8 DEF Awaits
<1>10. Cardinality(Waiters(call', v)) = Cardinality(Waiters(call, v))
  <2>1. call'[c] = steps /\ \A x \in Callers \ {c} : call'[x] = call[x]
    BY <1>2, <1>4
  <2>2. ~Awaits(call[c], v) /\ ~Awaits(call'[c], v)
    BY <1>4, <1>8, <2>1 DEF Awaits
  <2>3. IsFiniteSet(Waiters(call, v))
    BY DEF CallersInv
  <2> QED BY <2>1, <2>2, WaitersStay
<1> QED BY <1>4, <1>9, <1>10 DEF Broadcast

LEMMA WakeBroadcasts ==
    ASSUME Broadcast, QueuesInv, CallersInv, DueInv, QueuesInv', CallersInv', DueInv',
           NEW c \in Callers, Wake(c)
    PROVE  Broadcast'
<1>1. /\ call \in [Callers -> CallSteps] /\ woken \in [Callers -> BOOLEAN]
      /\ IsSeq(api_queue) /\ IsSeq(m_apiResultList)
      /\ call[c] # <<>> /\ woken' = [woken EXCEPT ![c] = FALSE]
      /\ \A v : IsFiniteSet(Waiters(call, v))
  BY DEF CallersInv, QueuesInv, DueInv, Wake, Waiting
<1> SUFFICES ASSUME NEW d \in Callers, NEW v, Awaits(call'[d], v),
                    CountRes(m_apiResultList', v) >= Cardinality(Waiters(call', v))
             PROVE  woken'[d]
  BY DEF Broadcast
<1>2. CASE ~Answered(c) /\ UNCHANGED <<m_apiResultList, call, api_queue>>
  <2>1. CASE d # c
    BY <1>1, <1>2, <2>1 DEF Broadcast
  <2>2. CASE d = c
    <3>1. v = Head(call[c]) /\ c \in Waiters(call, v)
      BY <1>2, <2>2 DEF Awaits, Waiters
    <3>2. {i \in DOMAIN m_apiResultList : m_apiResultList[i][1] = v} = {}
      BY <1>2, <3>1 DEF Answered
    <3>3. CountRes(m_apiResultList, v) = 0
      BY <3>2, FS_EmptySet DEF CountRes
    <3>4. Cardinality(Waiters(call, v)) \in Nat /\ Cardinality(Waiters(call, v)) # 0
      BY <1>1, <3>1, FS_CardinalityType, FS_EmptySet
    <3> QED BY <1>2, <3>3, <3>4
  <2> QED BY <2>1, <2>2
<1>3. CASE /\ Answered(c)
           /\ TakeResult(Head(call[c]))
           /\ call' = [call EXCEPT ![c] = Tail(call[c])]
           /\ \/ Tail(call[c]) = <<>> /\ UNCHANGED api_queue
              \/ Tail(call[c]) # <<>> /\ ProcApi(Head(Tail(call[c])), TRUE)
  <2> DEFINE this == Head(call[c])
             rest == Tail(call[c])
             m    == Event(Head(rest), TRUE)
  <2>1. PICK i \in DOMAIN m_apiResultList :
           m_apiResultList[i][1] = this /\ m_apiResultList' = RemoveAt(m_apiResultList, i)
    <3>1. \E i \in DOMAIN m_apiResultList : m_apiResultList[i][1] = this
      BY <1>3 DEF Answered
    <3>2. \E i \in DOMAIN m_apiResultList :
             /\ m_apiResultList[i][1] = this
             /\ \A j \in 1 .. (i - 1) : m_apiResultList[j][1] # this
      BY <1>1, <3>1, FirstResult
    <3> QED BY <1>3, <3>2 DEF TakeResult
  <2>2. CountRes(m_apiResultList', v) =
           IF this = v THEN CountRes(m_apiResultList, v) - 1 ELSE CountRes(m_apiResultList, v)
    BY <1>1, <2>1, ResultsRemove
  <2>3. /\ call'[c] = rest /\ \A x \in Callers \ {c} : call'[x] = call[x]
        /\ rest # <<>> => api_queue' = Append(api_queue, m) /\ m.evt = Head(rest)
    BY <1>1, <1>3 DEF ProcApi, Event
  <2>4. rest # <<>> => Head(rest) \in Waitable
    BY <1>1, SecondStep
  <2> HIDE DEF m, this, rest
  <2>5. ~Awaits(rest, v)
    <3> SUFFICES ASSUME Awaits(rest, v) PROVE FALSE
      OBVIOUS
    <3>1. rest # <<>> /\ v = Head(rest) /\ v \in Waitable
      BY <2>4 DEF Awaits
    <3>2. CountIn(api_queue', v) = CountIn(api_queue, v) + 1 /\ CountIn(api_queue, v) \in Nat
      <4>1. api_queue' = Append(api_queue, m) /\ m.evt = v
        BY <2>3, <3>1
      <4> QED BY <1>1, <4>1, QueueAppend, QueueType
    <3> QED BY <3>1, <3>2, QueuedIsMissing
  <2>6. d # c /\ Awaits(call[d], v) /\ woken'[d] = woken[d]
    BY <1>1, <2>3, <2>5
  <2>7. Awaits(call[c], v) <=> this = v
    BY <1>1 DEF Awaits, this
  <2>8. CountRes(m_apiResultList, v) \in Nat
    BY <1>1, ResultsType
  <2>9. CountRes(m_apiResultList, v) >= Cardinality(Waiters(call, v))
    <3>1. CASE this = v
      <4>1. Awaits(call[c], v) /\ ~Awaits(call'[c], v)
        BY <2>3, <2>5, <2>7, <3>1
      <4>2. /\ Cardinality(Waiters(call, v)) \in Nat
            /\ Cardinality(Waiters(call', v)) = Cardinality(Waiters(call, v)) - 1
        BY <1>1, <2>3, <4>1, WaitersLess
      <4> QED BY <2>2, <2>8, <3>1, <4>2
    <3>2. CASE this # v
      <4>1. ~Awaits(call[c], v) /\ ~Awaits(call'[c], v)
        BY <2>3, <2>5, <2>7, <3>2
      <4>2. Cardinality(Waiters(call', v)) = Cardinality(Waiters(call, v))
        BY <2>3, <4>1, WaitersStay
      <4> QED BY <2>2, <3>2, <4>2
    <3> QED BY <3>1, <3>2
  <2> QED BY <2>6, <2>9 DEF Broadcast
<1> QED BY <1>2, <1>3 DEF Wake

\* When signalAPIResult has left results for all who wait for an event, every one
\* of them is awake or has been broadcast to: for any calls and settings, failing
\* daemon calls, retro-active pictures and the destructor included.  Only where the
\* framework cancels pictures is the camera kept from live snapshots that cancel
\* themselves.
THEOREM BroadcastReachesAll ==
    ASSUME CancelsApart
    PROVE  ASpec => []NoLostBroadcast
<1>1. AInit => BroadcastInv
  <2>1. AInit => Broadcast
    BY DEF AInit, Broadcast, Awaits
  <2> QED BY <2>1, InitialDue DEF BroadcastInv
<1>2. BroadcastInv /\ [ANext]_apiVars => BroadcastInv'
  <2> SUFFICES ASSUME BroadcastInv, [ANext]_apiVars PROVE BroadcastInv'
    OBVIOUS
  <2>1. QueuesInv /\ CallersInv /\ QueuesInv' /\ CallersInv'
    BY QueuesKept DEF BroadcastInv
  <2>2. ASSUME daemon' PROVE DueInv' /\ Broadcast'
    <3>1. ~DaemonDies
      BY <2>2 DEF DaemonDies
    <3>2. daemon
      BY <2>2 DEF ANext, StateMachineThread, NextApi, NextEvt, NextExit, LiveThread, Notifier, Environment,
         DaemonDies, Close, Destructor, FramesIn, NotifierTake, NotifierPost, RetroReady, PrepareDone,
         SmJoined, NotifierJoined, Call, Wake, apiVars, lifeVars
    <3>3. DueInv /\ Broadcast
      BY <3>2 DEF BroadcastInv
    <3>4. DueInv'
      BY <2>1, <3>1, <3>3, DueKept
    <3> SUFFICES Broadcast'
      BY <3>4
    <3>5. CASE \E c \in Callers : Call(c) \/ Wake(c)
      BY <2>1, <3>3, <3>4, <3>5, CallBroadcasts, WakeBroadcasts
    <3>6. CASE NextApi \/ NextEvt
      BY <2>1, <3>3, <3>6, HandlingBroadcasts DEF DueInv
    <3>7. CASE \/ NextExit \/ LiveThread \/ Notifier \/ Environment \/ Close \/ SmJoined
               \/ UNCHANGED apiVars
      <4>1. UNCHANGED <<call, m_apiResultList, woken>>
        BY <3>7 DEF NextExit, LiveThread, Notifier, Environment, Close, FramesIn,
           NotifierTake, NotifierPost, RetroReady, PrepareDone, SmJoined, apiVars, threadVars, queueVars
      <4> QED BY <3>3, <4>1, BroadcastStays
    <3>8. CASE NotifierJoined
      <4>1. \A c \in Callers : call'[c] = <<>>
        BY <2>1, <3>8 DEF NotifierJoined, CallersInv, threadVars
      <4> QED BY <4>1 DEF Broadcast, Awaits
    <3> QED BY <3>1, <3>5, <3>6, <3>7, <3>8 DEF ANext, StateMachineThread, Destructor
  <2> QED BY <2>1, <2>2 DEF BroadcastInv
<1>3. BroadcastInv => NoLostBroadcast
  <2> SUFFICES ASSUME BroadcastInv, daemon, NEW c \in Waiting,
                      CountResults(Head(call[c])) >= WaitingFor(Head(call[c]))
               PROVE  woken[c]
    BY DEF NoLostBroadcast
  <2> DEFINE v == Head(call[c])
  <2>1. c \in Callers /\ Awaits(call[c], v)
    BY DEF Waiting, Awaits
  <2>2. WaitingFor(v) = Cardinality(Waiters(call, v)) /\ CountResults(v) = CountRes(m_apiResultList, v)
    BY DEF WaitingFor, Waiting, Waiters, Awaits, CountResults, CountRes
  <2> HIDE DEF v
  <2> QED BY <2>1, <2>2 DEF BroadcastInv, Broadcast, v
<1> QED BY <1>1, <1>2, <1>3, PTL DEF ASpec
=============================================================================
