-------------------------------- MODULE Hal3 --------------------------------
(***************************************************************************)
(* The request pipeline of QCamera3HardwareInterface (QCamera3HWI.cpp):    *)
(* the camera service's requests, the metadata and the buffers of the      *)
(* streams' threads, reprocessing, the limit on requests in flight and     *)
(* flush, which takes mMutex twice and stops the channels in between.      *)
(*                                                                         *)
(* A request's frame is its number.  A buffer is <<frame, stream>>.  The   *)
(* lists are sets of frames and buffers: mPendingRequestsList is in the    *)
(* order of frame numbers, and so is what is told from it.                 *)
(***************************************************************************)
EXTENDS Integers, Sequences, FiniteSets, FiniteSetsExt

CONSTANTS MaxFrame,       \* bound: frames requested
          MinInflight,    \* MIN_INFLIGHT_REQUESTS
          MaxInflight,    \* MAX_INFLIGHT_REQUESTS
          EndNumbers      \* frame numbers that a read past the end of a list may give

ASSUME Hal3Assumption ==
  /\ MaxFrame \in Nat /\ EndNumbers \subseteq Nat /\ EndNumbers # {}
  /\ MinInflight \in Nat \ {0} /\ MaxInflight \in Nat /\ MinInflight <= MaxInflight

Frames == 1 .. MaxFrame
Kinds == {"preview", "picture", "reprocess"}
\* Streams of the buffers of a request; "blob" is the picture channel.
StreamsOf == [preview |-> {"prev"}, picture |-> {"prev", "blob"}, reprocess |-> {"blob"}]
Buffers == Frames \X {"prev", "blob"}

VARIABLES
  \* QCamera3HardwareInterface
  mFirstRequest, mPendingRequestsList, mPendingBuffersMap, mPendingFrameDropList,
  mPendingReprocessResultList, mPendingRequest, mWokenUpByDaemon,
  cached,      \* buffers kept in RequestedBufferInfo until their frame's metadata
  flush,       \* mFlush and how far flush is: "no", "begun", "streams", "stopped"
  \* the service's request thread in processCaptureRequest, and mRequestCond
  caller, signalled,
  \* the channels and the daemon: frames asked for, buffers given to them
  asked, busy,
  \* what the service has asked for and been told
  kind,        \* of the frames requested
  answers,     \* sequence of the frames' last results
  back,        \* how each buffer came back
  told         \* buffers with an ERROR_BUFFER

hwi == <<mFirstRequest, mPendingRequestsList, mPendingBuffersMap, mPendingFrameDropList,
         mPendingReprocessResultList, mPendingRequest, mWokenUpByDaemon, cached, flush>>
service == <<kind, answers, back, told>>
vars == <<hwi, caller, signalled, asked, busy, service>>

Requested == 1 .. Len(kind)
Of(f) == {f} \X StreamsOf[kind[f]]
\* pthread_cond_signal wakes the request thread if it waits.
Signal == signalled' = (signalled \/ caller = "waiting")
\* The buffers bs go back to the service, those in bad with STATUS_ERROR.
GiveBack(bs, bad) ==
  back' = [b \in Buffers |-> IF b \notin bs THEN back[b]
                             ELSE IF back[b] # "no" THEN "twice"
                             ELSE IF b \in bad THEN "bad" ELSE "ok"]
\* The frames of a set in their order, each told as how[f].
InOrder(fs) == CHOOSE order \in [1 .. Cardinality(fs) -> fs] :
                 \A i, j \in DOMAIN order : i < j => order[i] < order[j]
Told(fs, how) ==
  [i \in 1 .. Cardinality(fs) |-> [frame |-> InOrder(fs)[i], as |-> how[InOrder(fs)[i]]]]

Init ==
  /\ mFirstRequest = TRUE /\ mPendingRequestsList = {} /\ mPendingBuffersMap = {}
  /\ mPendingFrameDropList = {} /\ mPendingReprocessResultList = {} /\ mPendingRequest = 0
  /\ mWokenUpByDaemon = FALSE /\ cached = {} /\ flush = "no"
  /\ caller = "idle" /\ signalled = FALSE /\ asked = {} /\ busy = {}
  /\ kind = <<>> /\ answers = <<>> /\ back = [b \in Buffers |-> "no"] /\ told = {}

----------------------------------------------------------------------------
(* configure_streams: the service has everything back.                      *)
configureStreams ==
  /\ caller = "idle" /\ flush = "no" /\ ~mFirstRequest
  /\ \A f \in Requested, b \in Buffers : b \in Of(f) => back[b] # "no"
  /\ mFirstRequest' = TRUE
  /\ mPendingRequestsList' = {} /\ mPendingFrameDropList' = {}
  /\ mPendingBuffersMap' = {} /\ mPendingReprocessResultList' = {} /\ cached' = {}
  /\ asked' = {} /\ busy' = {}
  /\ UNCHANGED <<mPendingRequest, mWokenUpByDaemon, flush, caller, signalled, service>>

(* processCaptureRequest up to its wait.  A request during a flush is only  *)
(* put on the lists, and not counted.                                       *)
processCaptureRequest(k) ==
  LET f == Len(kind) + 1
      count == IF mFirstRequest THEN 0 ELSE mPendingRequest
  IN
  /\ caller = "idle" /\ f \in Frames
  /\ kind' = Append(kind, k)
  /\ mPendingRequestsList' = mPendingRequestsList \cup {f}
  /\ mPendingBuffersMap' = mPendingBuffersMap \cup ({f} \X StreamsOf[k])
  /\ mWokenUpByDaemon' = (mWokenUpByDaemon /\ ~mFirstRequest)
  /\ IF flush # "no"
     THEN /\ mPendingRequest' = count
          /\ UNCHANGED <<mFirstRequest, asked, busy, caller>>
     ELSE /\ mPendingRequest' = count + 1
          /\ mFirstRequest' = FALSE
          /\ asked' = IF k = "reprocess" THEN asked ELSE asked \cup {f}
          /\ busy' = busy \cup ({f} \X StreamsOf[k])
          /\ caller' = IF count + 1 >= MinInflight THEN "waiting" ELSE "idle"
  /\ UNCHANGED <<mPendingFrameDropList, mPendingReprocessResultList, cached, flush,
                 signalled, answers, back, told>>

\* The request thread wakes up and looks again; the daemon's wish for more requests
\* lets it return below the higher limit.
Unblocked ==
  mPendingRequest < MinInflight \/ (mWokenUpByDaemon /\ mPendingRequest < MaxInflight)
Wake ==
  /\ caller = "waiting" /\ signalled /\ signalled' = FALSE
  /\ caller' = IF Unblocked THEN "idle" ELSE "waiting"
  /\ mWokenUpByDaemon' = FALSE
  /\ UNCHANGED <<mFirstRequest, mPendingRequestsList, mPendingBuffersMap,
                 mPendingFrameDropList, mPendingReprocessResultList, mPendingRequest,
                 cached, flush, asked, busy, service>>
\* Five seconds are over: -ENODEV, after which the service sends no more requests.
TimeOut ==
  /\ caller = "waiting" /\ caller' = "failed" /\ signalled' = FALSE
  /\ UNCHANGED <<hwi, asked, busy, service>>

(* camEvtHandle, CAM_EVENT_TYPE_DAEMON_PULL_REQ.                            *)
PullRequest ==
  /\ mWokenUpByDaemon' = TRUE /\ Signal
  /\ UNCHANGED <<mFirstRequest, mPendingRequestsList, mPendingBuffersMap,
                 mPendingFrameDropList, mPendingReprocessResultList, mPendingRequest,
                 cached, flush, caller, asked, busy, service>>

----------------------------------------------------------------------------
(* handleMetadataWithLock for frame n; the frames of the streams in drop    *)
(* are lost.  Earlier pending frames get an empty result.  The loop over    *)
(* the pending requests is taken as a whole.                                *)
\* A variant: only the frame itself.
UptoExact(n) == {f \in mPendingRequestsList : f = n}
\* The requests that end by metadata of frame n.
Upto(n) == {f \in mPendingRequestsList : f <= n}
\* A cached reprocess result of the next frame is told after the first of the loop's frames.
handlePendingReprocResults(n) ==
  IF Upto(n) = {} THEN {} ELSE mPendingReprocessResultList \cap {n + 1}
\* Buffers reported as dropped; the picture stream's never are.
Dropped(n, drop) == {b \in UNION {Of(f) : f \in Upto(n)} : b[2] \in drop \ {"blob"}}
\* A variant: the list is searched before the frame's drops are added.
MarkedEarly(n, drop, bs) == {b \in bs : b[1] = n /\ b \in mPendingFrameDropList}
\* A cached buffer is bad if the drop list has its stream for frame n, not for its own.
MarkedBad(n, drop, bs) == {b \in bs : b[1] = n /\ b \in Dropped(n, drop)}

\* A variant: one request per metadata.
EndedOnce(n) == Cardinality(mPendingRequestsList \cap {n})
\* How many requests end by the metadata.
Ended(n) ==
  Cardinality(mPendingRequestsList \cap (Upto(n) \cup handlePendingReprocResults(n)))

Results(n) ==
  LET told1 == Told(Upto(n), [f \in Upto(n) |-> IF f = n THEN "result" ELSE "dummy"])
      after == handlePendingReprocResults(n) \cap mPendingRequestsList
      late == Told(after, [f \in after |-> "reprocess"])
  IN IF Upto(n) = {} THEN <<>> ELSE <<Head(told1)>> \o late \o Tail(told1)

handleMetadataWithLock(n, drop) ==
  LET gone == Upto(n)
      late == handlePendingReprocResults(n)
      given == {b \in cached : b[1] \in gone}
      bad == MarkedBad(n, drop, given)
  IN
  /\ flush # "stopped" /\ n \in asked
  /\ asked' = {f \in asked : f > n}
  /\ answers' = answers \o Results(n)
  /\ told' = told \cup Dropped(n, drop)
  /\ mPendingFrameDropList' = (mPendingFrameDropList \cup Dropped(n, drop)) \ bad
  /\ GiveBack(given \cup ((late \cap mPendingRequestsList) \X {"blob"}), bad)
  /\ cached' = cached \ given
  /\ mPendingBuffersMap' = mPendingBuffersMap \ given
  /\ mPendingRequestsList' = mPendingRequestsList \ (gone \cup late)
  /\ mPendingReprocessResultList' = mPendingReprocessResultList \ late
  /\ mPendingRequest' = mPendingRequest - Ended(n)
  /\ Signal
  /\ UNCHANGED <<mFirstRequest, mWokenUpByDaemon, flush, caller, busy, kind>>

\* Metadata without a valid frame number only signals.
OtherMetadata ==
  /\ flush # "stopped" /\ ~mFirstRequest /\ Signal
  /\ UNCHANGED <<hwi, caller, asked, busy, service>>

----------------------------------------------------------------------------
(* handleBufferWithLock in its three cases: the frame is no longer pending, *)
(* it is a reprocessing, or its metadata is awaited.                        *)
Arrives(b) == flush \in {"no", "begun"} /\ b \in busy /\ busy' = busy \ {b}

\* Preview frames come in the order of their buffers; a picture's jpeg at any time.
InTurn(b) == b[2] = "prev" => \A c \in busy : c[2] = "prev" => c[1] >= b[1]

\* A variant: the buffer stays in the map.
StillWith(b) == mPendingBuffersMap
\* The map without a buffer that goes back.
Without(b) == mPendingBuffersMap \ {b}

BufferAfterResult(b) ==
  /\ Arrives(b) /\ InTurn(b) /\ b[1] \notin mPendingRequestsList
  /\ GiveBack({b}, mPendingFrameDropList)
  /\ mPendingFrameDropList' = mPendingFrameDropList \ {b}
  /\ mPendingBuffersMap' = Without(b)
  /\ UNCHANGED <<mFirstRequest, mPendingRequestsList, mPendingReprocessResultList,
                 mPendingRequest, mWokenUpByDaemon, cached, flush, caller, signalled, asked,
                 kind, answers, told>>

BufferOfReprocess(b) ==
  LET f == b[1]
      notifyNow == \A g \in mPendingRequestsList : g >= f
  IN
  /\ Arrives(b) /\ f \in mPendingRequestsList /\ kind[f] = "reprocess"
  /\ mPendingBuffersMap' = Without(b)
  /\ IF notifyNow
     THEN /\ answers' = Append(answers, [frame |-> f, as |-> "reprocess"])
          /\ GiveBack({b}, {})
          /\ mPendingRequestsList' = mPendingRequestsList \ {f}
          /\ mPendingRequest' = mPendingRequest - 1
          /\ UNCHANGED mPendingReprocessResultList
     ELSE /\ mPendingReprocessResultList' = mPendingReprocessResultList \cup {f}
          /\ UNCHANGED <<answers, back, mPendingRequestsList, mPendingRequest>>
  /\ UNCHANGED <<mFirstRequest, mPendingFrameDropList, mWokenUpByDaemon, cached, flush,
                 caller, signalled, asked, kind, told>>

BufferBeforeResult(b) ==
  /\ Arrives(b) /\ InTurn(b) /\ b[1] \in mPendingRequestsList /\ kind[b[1]] # "reprocess"
  /\ cached' = cached \cup {b}
  /\ UNCHANGED <<mFirstRequest, mPendingRequestsList, mPendingBuffersMap,
                 mPendingFrameDropList, mPendingReprocessResultList, mPendingRequest,
                 mWokenUpByDaemon, flush, caller, signalled, asked, service>>

----------------------------------------------------------------------------
(* flush sets mFlush, stops the streams and then the metadata channel       *)
(* without the lock, and with it answers everything as an error.            *)
flushBegin ==
  /\ flush = "no" /\ flush' = "begun"
  /\ UNCHANGED <<mFirstRequest, mPendingRequestsList, mPendingBuffersMap,
                 mPendingFrameDropList, mPendingReprocessResultList, mPendingRequest,
                 mWokenUpByDaemon, cached, caller, signalled, asked, busy, service>>
StopChannels ==
  /\ \/ flush = "begun" /\ flush' = "streams"
     \/ flush = "streams" /\ flush' = "stopped"
  /\ UNCHANGED <<mFirstRequest, mPendingRequestsList, mPendingBuffersMap,
                 mPendingFrameDropList, mPendingReprocessResultList, mPendingRequest,
                 mWokenUpByDaemon, cached, caller, signalled, asked, busy, service>>

\* The oldest pending frame; without one the end of the list is read as a request.
Oldest(end) == IF mPendingRequestsList = {} THEN end ELSE Min(mPendingRequestsList)
\* Buffers whose frames already have their metadata: ERROR_BUFFER.
Answered(end) == {b \in mPendingBuffersMap : b[1] < Oldest(end)}
flushEnd(end) ==
  LET rest == {b[1] : b \in mPendingBuffersMap \ Answered(end)}
  IN
  /\ flush = "stopped" /\ flush' = "no"
  /\ told' = told \cup Answered(end)
  /\ answers' = answers \o
       Told(rest, [f \in rest |-> IF mPendingRequestsList = {} THEN "stray" ELSE "error"])
  /\ GiveBack(mPendingBuffersMap, mPendingBuffersMap)
  /\ mPendingRequest' = 0 /\ Signal
  /\ mPendingRequestsList' = {} /\ mPendingBuffersMap' = {} /\ mPendingFrameDropList' = {}
  /\ mPendingReprocessResultList' = {} /\ cached' = {}
  /\ asked' = {} /\ busy' = {}
  /\ UNCHANGED <<mFirstRequest, mWokenUpByDaemon, caller, kind>>

Next ==
  \/ configureStreams
  \/ \E k \in Kinds : processCaptureRequest(k)
  \/ Wake
  \/ TimeOut
  \/ PullRequest
  \/ \E n \in Frames, drop \in {{}, {"prev"}} : handleMetadataWithLock(n, drop)
  \/ OtherMetadata
  \/ \E b \in Buffers : BufferAfterResult(b)
  \/ \E b \in Buffers : BufferOfReprocess(b)
  \/ \E b \in Buffers : BufferBeforeResult(b)
  \/ flushBegin
  \/ StopChannels
  \/ \E end \in EndNumbers : flushEnd(end)

Spec == Init /\ [][Next]_vars

----------------------------------------------------------------------------
\* Frames requested whose images the sensor takes.
Captures == {f \in Requested : kind[f] # "reprocess"}
AnswersOf(f) == {i \in DOMAIN answers : answers[i].frame = f /\ answers[i].as # "stray"}

(* Every buffer of a capture is in the pending map until it goes back, and  *)
(* goes back once, with or after its frame's result ("If the frame number   *)
(* doesn't exist in the pending request list, directly send the buffer").   *)
(* A reprocessed buffer never goes back twice.                              *)
BuffersAccounted ==
  /\ \A b \in Buffers : back[b] # "twice"
  /\ \A f \in Captures : \A b \in Of(f) :
       /\ b \in mPendingBuffersMap <=> back[b] = "no"
       /\ back[b] # "no" => f \notin mPendingRequestsList

(* Every capture is pending or has had its last result, only one, and       *)
(* results of captures come in the order of their frames, whatever metadata *)
(* was skipped and whenever a flush came.  (A flush that finds no pending   *)
(* request may send a stray ERROR_REQUEST: see the README.)                 *)
AnswersInOrder ==
  /\ \A f \in Requested : Cardinality(AnswersOf(f)) <= 1
  /\ \A f \in Captures : f \in mPendingRequestsList <=> AnswersOf(f) = {}
  /\ \A f, g \in Captures : \A i \in AnswersOf(f), j \in AnswersOf(g) : f < g => i < j

(* A buffer of an answered frame that comes back bad was reported with      *)
(* ERROR_BUFFER or a stray ERROR_REQUEST, and one reported comes back bad   *)
(* unless its frame's metadata was skipped.                                 *)
HasAnswer(f, as) == \E i \in AnswersOf(f) : answers[i].as \in as
Stray(f) == \E i \in DOMAIN answers : answers[i] = [frame |-> f, as |-> "stray"]
DropsAgree ==
  \A b \in Buffers : b[1] \in Captures =>
    /\ back[b] = "bad" /\ HasAnswer(b[1], {"result", "dummy"}) => b \in told \/ Stray(b[1])
    /\ b \in told /\ back[b] = "ok" => HasAnswer(b[1], {"dummy"})

(* The limit works.  Outside a flush mPendingRequest is the length of the   *)
(* pending list; it never passes the higher limit; and the request thread   *)
(* does not sleep while there is room below the lower one ("Unblock         *)
(* capture_request if max_buffer hasn't been reached"), unless the room was *)
(* made by a reprocessing, which does not signal.                           *)
CountIsTrue == flush = "no" => mPendingRequest = Cardinality(mPendingRequestsList)
NeverOverLimit == mPendingRequest <= MaxInflight
NoLostSignal ==
  caller = "waiting" /\ ~signalled /\ mPendingRequest < MinInflight =>
    \E f \in Requested \ mPendingRequestsList : kind[f] = "reprocess"
LimitWorks == CountIsTrue /\ NeverOverLimit /\ NoLostSignal
=============================================================================
