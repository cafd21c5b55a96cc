# Verification development for the nextbit ether device tree

TLA+ modules, TLC configurations and TLAPS proofs for the programs of this
repository: the Qualcomm camera HAL and its stack, the GPS HAL, the IP
accelerator's configuration daemon and a few small device HALs.  Paths below
are relative to `src/`.

Every definition is translated from the code.  `PROJECT.json` names, for each
definition, the lines it stands for (`map`), the runs with their properties, for
each property a plausible fault in the code that breaks it (`mutants`), the
hazards found while reading, the findings and the theorems.

## 1. What is here

| module | models | checked with | proved in |
|---|---|---|---|
| `MsgTask` | GPS message task: `msg_q`, `linked_list`, `LocThread`, `MsgTask` | `MCMsgTask` | `MsgTask_proofs` |
| `OrderedTask` | abstract: what a message task promises | by refinement from `MsgTask` | `MsgTask_proofs` |
| `Agps` | the four AGPS resource state machines, their subscribers and openers | `MCAgps` | `Agps_proofs` |
| `NiSessions` | network-initiated location requests: two sessions, their threads, the user's responses | itself | `NiSessions_proofs` |
| `CameraStateMachine` | HAL1 camera state machine: every event in each of eight states, and the hardware operations called | through the next two | |
| `CameraEvents` | the state machine with events in any order | `MCCameraEvents` | `Camera_proofs` |
| `CameraApi` | the state machine with its real queues, callers, notifier, live snapshot thread and destructor | `MCCameraApi` | `Camera_proofs` |
| `SuperBuf` | mm-camera's bundled channel: buffers and their references, frames matched into super buffers, requests of the HAL | `MCSuperBuf` | `SuperBuf_proofs` |
| `Hal3` | HAL3's request pipeline: requests, metadata, buffers, reprocessing, the limit on requests in flight, flush | `MCHal3` | `Hal3_proofs` |
| `NatTable` | the IPA NAT driver: collision chains in the memory the hardware reads | `MCNatTable` | `Nat_proofs` |
| `NatMap` | abstract: what the NAT driver promises | by refinement from `NatTable` | `Nat_proofs` |
| `NatApp` | IPACM's cache of connections and its client lists, over `NatMap` | `MCNatApp` | `Nat_proofs` |
| `Ipacm` | IPACM's event queue, dispatch, interface life cycles and uplink rules | `MCIpacm` | `Ipacm_proofs` |

## 2. Inventory

For each part: its state, its operations, what it interacts with, what is hard,
and what makes it correct.  Parts without a module are
left out for the reason given in section 7.

### GPS (`gps/`)

* **Message task** (`gps/utils/msg_q.c`, `linked_list.c`, `LocThread.cpp`,
  `MsgTask.cpp`).  State: a list of messages, the `unblocked` flag, a condition
  variable, a delegate counted by thread and parent, a runnable.  Operations:
  `sendMsg`, the loop, `destroy`.  Every other GPS part runs on it.  Hard: test
  and wait against send and unblock; which of two users frees the delegate;
  flushes on three paths.  Correct: no lost wakeup, each message once and in
  order, nothing used after it is freed, `destroy` ends.
* **AGPS** (`loc_eng_agps.cpp`, the messages of `loc_eng.cpp`).  State: four
  machines (AGNSS, internet, Wi-Fi, and the data services' "ds"), each with a
  state and a list of subscribers that may be inactive; a retry counter and
  retry timers.  Operations: `requestATL`, `requestSuplES`, `requestWifi`,
  `releaseATL`, the framework's and data services' answers, the retry callback,
  the engine restart.  Hard: answers for earlier requests, a subscriber that
  leaves while others wait, the fallback of an emergency session, a restarted
  modem.  Correct: a machine's state, its list and its opener's connection agree;
  each client that has an open connection really has one and none is forgotten.
* **Network-initiated sessions** (`loc_eng_ni.cpp`).  Two sessions (emergency or
  not); each request has a thread that waits for the user or the timeout and answers
  the modem through the engine's task.  Hard: answer against timeout, a new request
  while the old one's thread ends, engine restart.  Correct: no session stays
  occupied, each request is answered once and with its own answer.
* **Timers** (`LocTimer.cpp`, `LocHeap.cpp`).  A heap of timers per clock, one
  timer descriptor armed for the earliest, a poll thread, a message task.
  Hard: stop against expiry on four threads, re-arming, client deletion.
* **Data daemon connection** (`loc_eng_dmn_conn*.c*`).  A thread with a start
  handshake that reads requests from a pipe or queue and calls into AGPS.
* **Engine** (`loc_eng.cpp`, `loc.cpp`, `LocEngAdapter.cpp`, `gps/core`): the
  navigation session, position mode, the modem's restart, fan-out of events.
* **NMEA, XTRA, logging, configuration**: formatting and tables.

### Camera (`camera/QCamera2/`)

* **State machine** (`HAL/QCameraStateMachine.cpp`).  State: `m_state`, delayed
  preview messages.  Operations: one handler per state and event, run to
  completion on one thread; each calls `QCamera2HardwareInterface`, which starts,
  stops, adds and deletes channels and may fail.  Hard: sequences of legal calls
  over eight states; failures half way through an operation; events of a picture
  that arrive when it is over.  Correct: the channels that run are those the
  state says.
* **API threads and queues** (`HAL/QCamera2HWI.cpp`).  State: API queue, event
  queue, the list of results, the condition variable, `m_evtResult`.  Hard: every
  caller must be answered once; the notifier waits for the state machine; the
  destructor ends the one and joins the other; the daemon may die.
* **Callback notifier, post processor, parameters, channels, streams, memory**
  (the rest of `HAL/`): queues with worker threads; staged parameters.
* **HAL3** (`HAL3/QCamera3HWI.cpp`), used instead of HAL1 when the service asks for
  it.  State: the pending requests, the pending buffers, the dropped frames, reprocess
  results kept for later, a count of requests in flight, `mFlush`.  Operations:
  `processCaptureRequest`, the metadata and buffer callbacks of the streams, `flush`,
  `configureStreams`.  Hard: metadata is skipped or late; a buffer comes before or after
  its frame's metadata; flush takes the lock twice and stops the channels in between; the
  request thread sleeps on a limit five places count for.  Correct: each buffer goes back
  once, each frame is answered once and in order.
* **Queue and command thread** (`util/`): used by all of the above.
* **mm-camera** (`stack/mm-camera-interface/`): stream and channel state
  machines, poll and command threads, super buffers matched by frame number,
  reference counts of buffers, one slot for daemon events.
* **mm-jpeg** and the **qomx core**: encoding jobs, abort and completion.

### IPACM and ipanat (`data-ipa-cfg-mgr/`)

* **Event dispatch** (`IPACM_EvtDispatcher.cpp`, `IPACM_CmdQueue.cpp`,
  `IPACM_IfaceManager.cpp`).  A queue that three threads post to (netlink, the
  driver's messages, the command thread itself) and one takes from, a list of
  listeners, instances made when a link comes up.  Instances delete themselves by
  posting an event to themselves.  Hard: events that overtake a deletion or were
  sent before the instance existed; a listener that leaves the list during a walk.
* **Interfaces** (`IPACM_Wan.cpp`, `IPACM_Lan.cpp`, `IPACM_Wlan.cpp`).  Each
  instance keeps its addresses, the rules it has in the hardware, and flags that
  mirror the state of others (`wan_up`, the interfaces that tether).  Hard: link,
  address and upstream come in any order.  Correct: the rules in hardware follow
  the backhaul, and none outlives its instance.
* **Connection tracking** (`IPACM_Conntrack_NATApp.cpp`, `IPACM_ConntrackListener.cpp`).
  A cache of connections, a list of those whose client is not known yet, clients in power
  save, the handle of a NAT table that exists while the WAN is up.  Hard: the cache
  is loaded into a table that comes and goes with another address.
* **NAT driver** (`ipanat/src/ipa_nat_drv*.c`).  Two hash tables with expansions in
  memory shared with the hardware, linked by entry numbers; handles.  Hard: deletion
  from two chains at once, heads that die before their chain.

### Small HALs

Lights (`liblight/lights.c`), fingerprint (`fingerprint/`), amplifier calibration
(`audio_amplifier/audio_amplifier.c`, three threads with one condition),
`init/` and `libshims/` (no state).  Everything else is configuration: make
files, policies, scripts, overlays.

The most important hazards of these parts, each at its line, are listed in
`PROJECT.json`, also those of parts that have no module.

## 3. The modules and the code

### `MsgTask`

A step is a critical section of the queue's mutex, or a single unlocked access to
a field two threads share.  `pthread_cond_wait` gives the mutex up, so sleeping
(`pc = "waiting"`) and resuming (`Resume`) are steps of their own, and so are
the reads of `mRunnable` (`Enter`) and `mJoinable`.  `Offer`, `Send`, `SendRefused` and
`SendNoMemory` are `sendMsg` with the outcomes of `msg_q_snd`; `Loop`, `Receive`,
`Handle`, `Clear`, `Flush`, `QDestroy` and `ThreadBye` are the thread; `Unblock`,
`DeleteThread`, `Stop`, `Join`, `OwnerBye` are `MsgTask::destroy` on the owner's
thread.  Messages are their sender and number.  `accepted`, `handled` and
`dropped` are history.  A sender stops when the owner begins `destroy`, as the
adapters' clients do.

### `Agps`

A message of the engine's task is one step (`Handle` and its disjuncts), with
everything the handler calls: the machine's transition, notification of its
subscribers, the call to the opener.  The subscribers of a machine are two sets,
`active` and `inactive` (the order of the list is not observable: notifications
are told to all who match).  `calls` and `conn` are the opener's side, `client`
what each client knows; both are outside the repository and modelled from how
`loc_eng.cpp` and the engine's callbacks use them.  `RetryCallback` is the data
service's retry on its timer's thread.  `ModemRestarts` covers the restart the
engine handles (`EngineUp`), which releases nothing of its own accord.  A handle is
used for one connection, as the modem numbers them.

`patient` is chosen at the start: with patient clients nobody releases before
the answer has come; with impatient ones a release may overtake it.

### `NiSessions`

`Accept`, `Identify` and `Spawn` are `loc_eng_ni_request_handler` on the engine's
task, which holds no lock; `EngineDown`, `RestartFree` and `RestartWake` are
`loc_eng_ni_reset_on_engine_restart`, emergency session first, `HandleAnswer` the
message that takes an answer to the modem and frees the request.  `Start`, `Resume`,
`Timeout`, `Clear`, `Forget` and `Send` are `ni_thread_proc`, one thread per request;
`Respond`, `RespondIgnore` and `RespondSet` are `loc_eng_ni_respond`.  A critical
section of `tLock` is a step, except that the end of the wait is two (`Finish`,
`Clear`), since the restart writes `rawRequest` without the lock; the test of `reqID`
and `rawRequest` in `loc_eng_ni_respond`, the clearing of `reqID` after the unlock
and the task's writes are steps of their own.  A waiting thread may time out at any
moment and may resume whenever `respRecvd` is set (a signal that is lost or
spurious makes no difference: the loop tests the flag).  `given`, `informed` and
`freed` are history.  `prompt`, chosen at the start, says that responses find
their session waiting and no timeout overtakes them.

### `CameraStateMachine`, `CameraEvents`, `CameraApi`

`CameraStateMachine` has a definition per state (`ProcEvtPreviewStoppedState`,
`ProcEvtPreviewingState`, ... in the order of the source) and one per hardware operation (`StartRecording`,
`TakePicture`, ...).  An operation is the set of its outcomes, a return code with
the channels it leaves: a failing call leaves what the calls before it did.
`par` holds the parameters the control flow reads, committed and staged
separately, as `updateParameters` and `commitParameters` do.  `out` is what the
step signals (`signalAPIResult`, `signalEvtResult`) and posts.

`CameraEvents` delivers events in any order: the framework issues any command at
any time, and what other threads post waits in the set `pending` arbitrarily
long.  It over-approximates the queues, so its safety properties hold of them.

`CameraApi` has the queues.  `Call` and `Wake` are the framework's threads
(`lockAPI` ... `waitAPIResult` ... `unlockAPI`; the mutex is held from the lock to the
wait, so queueing is one step, and from waking to the next wait); `NextApi`,
`NextEvt`, `NextExit` are `smEvtProcRoutine`, which looks at the API queue first;
`NotifierTake` and `NotifierPost` are the notifier up to `processSyncEvt`;
`LiveThread`, `FramesIn`, `RetroReady`, `PrepareDone`, `DaemonDies` are the threads that
post; `Close`, `SmJoined`, `NotifierJoined` are the destructor.

### `SuperBuf`

The bundled channel of mm-camera.  `Deliver` is the poll thread with
`mm_stream_handle_rcvd_buf` and `mm_stream_data_notify`; `ChannelCommand` the
channel's command thread with `mm_channel_process_stream_buf`, that is
`comp_and_enqueue`, `handle_metadata`, dispatch and the trimming of the queue;
`SuperBufCb` its callback thread; `AppData`, `AppDataDone` the command thread of the
metadata stream; `Request`, `Cancel`, `Flush`, `Return`, `Stop`, `Restart` the HAL.  `mm_channel_stop`
is a sequence of steps (`Stop`, `StopStream`, `Unlink`, `Stopped`), since streams go off one by one while
the poll thread delivers.  A buffer is named by the frame it holds.  Three of
the HAL's channels are explored, chosen at the start (`use`): ZSL, ZSL with scene
selection, and the live snapshot with metadata lent by the preview.

### `Hal3`

A step is a section under `mMutex`.  `processCaptureRequest` goes up to the wait on
`mRequestCond`; `Wake` and `TimeOut` are its loop, `PullRequest` the daemon's event.
`handleMetadataWithLock` takes the loop over the pending requests as a whole; its parts
are operators (`Upto`, `Dropped`, `MarkedBad`, `handlePendingReprocResults`).
`handleBufferWithLock` has three cases and three actions: `BufferAfterResult`,
`BufferOfReprocess`, `BufferBeforeResult`.  `flush` is four steps: `flushBegin`, two of
`StopChannels` (the streams, then the metadata channel; between them metadata still
comes and buffers do not), `flushEnd`.  Requests, buffers and results are told by frame
number, so the lists are sets.  The preview stream returns buffers in order; the picture
channel and its post processor return a JPEG at any time.  With no request pending `flush`
reads the end of the list as a request: `EndNumbers` holds the frame numbers that may
give.  `answers`, `back` and `told` are what the service has seen.

### `NatTable`, `NatMap`, `NatApp`

`NatTable` has one action per call of the driver (`AddIpv4Tbl`, `AddRule`, `DelRule`,
`DelIpv4Tbl`).  An entry number is as the links number them: the base table from 0, its
expansion after it.  Choice of entries, linking, unlinking, moving a head, renaming an
index entry and removing dead heads are operators of their own.  `NatMap` is what a
client may rely on, a map from handles to rules; `NatTable` implements it with
`ruleOf`, the rules by handle, for `rules`.

`NatApp` uses `NatMap` as its driver.  A handler of the event thread is a step, with
everything it calls in both classes: `TriggerWANUp`, `TriggerWANDown`,
`HandleNeighIpAddrAddEvt`, `HandleNeighIpAddrDelEvt`, `NewConnection`, `ConnectionEnds`,
`PowerSave`, `PowerRecover`.  `cache` is an array of entries as in the code, so a free
slot is one with no connection; `temp` is a bag.  `stale` records that a table was
made for a new address over entries still enabled.

### `Ipacm`

`Process` takes an event from the queue and starts its walk over the listeners, of which
`walk.rest` are still to call, in the order in which they registered (`Turn`); each
callback (`LinkIsUp`, `AccessPointIsUp`, `Lan...`, `Wan...`) is a step of the command
thread, during which others may post.  `Kernel` is the system: links, addresses and
upstreams change, and the netlink thread or the driver's thread tells of it; the second
posts in a step of its own (`DriverPosts`), so its events may be overtaken.  The
handlers' flags are kept as the code has them: `ip_type`, `ul_set`
(`modem_ul_v4_set`, `_v6_set`), `active`, `gateway`, `wan_up`, `tether`.  `rules` counts
the uplink rules in hardware.

## 4. Runs

| run | configuration | question |
|---|---|---|
| `msgtask` | 2 senders, 2 messages each, detached and joinable | no wakeup is lost, life times nest, nothing leaks, the task ends and drains, and it implements `OrderedTask` |
| `agps` | four casts of clients, patient and impatient, 3 requests, one restart | the machines agree with subscribers, openers and clients; clients are answered |
| `ni` | 2 requests, 2 responses, one restart, prompt or not | no session stays occupied, each request is answered and freed once, ends, and prompt responses reach their request |
| `camera_commands` | five settings, all commands but `SET_PARAMS`, daemon failing | stopped means stopped, one preview path, video runs exactly while recording, frames come back |
| `camera_pictures` | four settings, no bursts, `SET_PARAMS` of anything but ZSL and the picture format, daemon not failing | previewing states have preview, captures only in pictures, live snapshots end with their picture |
| `api` | 2 callers, 4 calls, photo, video and ZSL, flash, retro-active pictures, death and close | each call is answered once, no broadcast lost, nobody waits for ever, pictures end |
| `superbuf` | 2 streams of 3 buffers, frames 1 to 3, ZSL and live snapshot | references match holders, the queue's count is right, bundles agree and are in order, buffers come back, flash sequences end, future frames are waited for |
| `hal3` | 3 requests of three kinds, limits 2 and 3 | buffers go back once, frames are answered in order, drops and errors agree, the limit works |
| `nat_table` | five rules that collide, a table of 4 and an expansion of 3 | what was added is found and nothing else, links agree, and the driver is `NatMap` |
| `nat_app` | 2 clients, 3 connections, 2 addresses | the cache is consistent and the table is what the cache says |
| `nat_stale_handle` | the same | the finding of section 5 |
| `ipacm` | an access point, a USB interface, two modem interfaces | uplink rules follow the backhaul, `wan_up` is true, instances follow the kernel |

**Bounds.**  `MsgTask`: two senders are enough to have one inside `msg_q_snd` while
the other's message is taken; two messages each give the list more than one
element before, at and after the unblock.  `Agps`: casts are pairs because a
machine only distinguishes "nobody", "one" and "others remain"; three requests let
one client come back for a second session while another's is open; a client or
opener acts only while fewer than `MaxQueue` = 3 messages wait, enough for an
answer, a release and a request to cross.  `NiSessions`: two requests follow one
another in a session or share the two; two responses can both be for one request,
or the first be late for the one and hit the other; one restart meets each stage
of a request.  `CameraEvents`: nothing grows but
`pending`, and two posted events that overtake one another are all the pairs a
picture produces; commands are unbounded in number.  `CameraApi`: four calls
reach a picture started, prepared, cancelled and taken again with two callers
asleep for the same event.  `SuperBuf`: three frames of two streams are one that is
matched, one that waits and one that overtakes; with one super buffer kept for
look-back, water mark 1 and no unmatched frame allowed, three buffers per stream are
the least the channel is meant to run with; `MaxAsks`, `MaxHints`, `MaxCmds` = 1 and
requests of at most two super buffers let a burst begin, be cut short and be repeated
after a restart, which sets the counters back.  Larger single uses (four frames,
two hints, one unmatched frame, scene selection) were run once and pass.  `Hal3`:
three frames are one whose metadata is skipped, one that answers for it and one
behind; the limits 2 and 3 (3 and 6 in `cam_types.h`) put both within reach; limits 1
and 2 pass too.  Reconfigurations, flushes and wake-ups are unbounded.  `NatTable`:
four rules in one chain are a head, a middle, an end and one more than the expansion
holds; calls are unbounded.  `AddFaults` is FALSE: see section 5.  `NatApp`: three cache
entries hold all three connections, two temporary ones are fewer than all; a
third handle is used last.  `Ipacm`: a change of `MaxChanges` = 2 is a link lost or an
upstream chosen (links and addresses that come are not counted), `MaxDriver` and
`MaxQueue` bound what waits when the next thing happens, not what a handler posts; one
family, since the second repeats the first (but see section 5); the modem's two
interfaces are symmetric (`WansAlike`).  With one modem interface four changes pass too.

`EView` hides `out` in the runs of `CameraEvents`: every step overwrites it and
no guard reads its old value, so states that differ in it have the same future.
The command sets of `MCCameraEvents` keep two of the queries for all of them:
queries change nothing.

**Fairness.**  `MsgTask`: the scheduler runs the thread, and an owner that has
begun `destroy`; nobody has to send or destroy.  `Agps`: the task handles its
messages, a running timer expires, an opener looks at its calls and ends what it
opens, with either result; no client has to act.  `NiSessions`: the task goes on with
what it has begun, a request's thread runs and its time passes, and
`loc_eng_ni_respond` returns; nobody has to ask or respond.  `CameraApi`: each thread
that can run does, and a live daemon delivers the frames and the metadata it
owes; nobody has to call, close or die.  All of it is weak fairness.  The other modules
state safety only.

**Deadlock** is checked in `msgtask` (`Quiescent` is its one legitimate end),
`camera_*`, `superbuf` and `nat_*`.  In `agps`, `ni`, `api`, `hal3` and `ipacm`
the bounded clients, frames or changes may be used up, so the system may stop.

## 5. What the checks show

*Message task.*  `NoLostWakeup`: the receiver never sleeps on a queue with a message,
whatever the order of send, test and wait.  `LifetimesNest`, `NothingLeaked`: delegate,
task and thread outlive who runs on them and are deleted.  `KeepsGoing`: a destroyed task
ends and messages drain.
`ImplementsOrderedTask`: the task is an ordered at-most-once executor that discards
only after `destroy` has begun; this is what `Agps` assumes of its queue.

*AGPS.*  `StateMatchesSubscribers`, `InStepWithOpener` (patient clients, once
messages have arrived), `ClientsAreRight` (who has been told of an open connection has
one, and no subscriber is forgotten), `ClientsAnswered` (requests and releases end).

*Network-initiated sessions.*  `SessionHasThread`: an occupied session has a thread
that will clear it, though not always the thread of the request it holds.
`EachRequestOnce`: hand-over from session to thread to message to task leaves no
copy behind.  `RequestsEnd`: each request with a thread is freed.
`PromptAnswersAreOwn`: the modem hears what the user said of that request; without
`prompt` it may not (below).

*HAL1.*  `VideoRunsWhileRecording` holds under everything; `PreviewConsistent` (stopped
means stopped, and one preview path) with failing calls without `SET_PARAMS`;
`PreviewRunsAsStated` and `PicturesOwnTheirChannels` with a daemon that does not fail
and without bursts.  `WantedFramesComeBack` relates the delayed messages of a ZSL
picture to what the framework asked for.  `EachCallAnsweredOnce`, `NoLostBroadcast`,
`WaitsEnd` (callers, notifier and a quiet close) and `PicturesEnd` are about the
threads around it; `EachCallAnsweredOnce` and `WaitsEnd` leave out retro-active
pictures (`RetroPictures`), see below.

*mm-camera.*  `RefsMatchHolders`: a buffer's reference count is the number of those who
hold it, and the kernel has the rest, so no buffer goes back while in use and none is
lost.  `QueueConsistent`: `match_cnt` is the number of matched nodes and they are at the
head, without which the trimming loops never end.  `BundlesAgree`: super buffers
of the normal priority are of one frame and in order.  `BuffersComeBack`: a
channel at rest leaves each stream a buffer to go on with, and metadata lent to the
live snapshot is back when that is stopped.  `ZslEndsWithRequest`,
`FutureFrameIsWaitedFor`: the flash sequence.

*HAL3.*  `BuffersAccounted`: a buffer of a capture is in the pending map until it goes
back, which it does once, with or after its frame's result.  `AnswersInOrder`: each
capture is pending or answered once, in the order of frames.  `DropsAgree`: buffers
come back bad just when they were reported, but for skipped metadata (below).
`LimitWorks`: `mPendingRequest` is the number of requests pending outside a flush, never
passes the higher limit, and the request thread does not sleep below the lower one.

*IPA.*  `FoundAsAdded`: following the hardware's hash and links from either side leads to
every rule that has a handle and to no other.  `TableConsistent`: the links of both
tables lead back, dead heads have a chain.  `ImplementsNatMap`: refinement.
`CacheConsistent`, `TableMatchesCache`: the connection cache counts right, has no
connection twice, and the enabled entries are the driver's rules.  `RulesFollowWan`: unless
the event that tells it is on its way, a tethered interface has its uplink rules just
when it has an address and an upstream that is up.  `WanUpIsTrue`, `InStepWithKernel`.

### Finding (the run that must end in a counterexample)

`nat_stale_handle`: `NatApp::Reset` means to clear the enabled flag of every entry
("NAT tbl deleted, reset enabled bit") but compares instead of assigning
(`IPACM_Conntrack_NATApp.cpp:197`).  After the WAN has come up with another address,
entries are enabled with handles of the old table; ending one of those
connections deletes another's rule.

### Other places where a property stops holding

The properties above are stated or configured around these.  Each was met in a
run of an earlier or larger configuration or, where so said, by reading.

* Message task: a joinable task destroyed before its thread has run is never deleted,
  although `LocThread.h:75` says it will be.
* AGPS: after an emergency session has fallen back to SUPL its subscriber stays in
  the released "ds" machine, whose list "should really be empty"
  (`loc_eng_agps.cpp:288`); an impatient client's release may cross the grant, which
  leaves the framework's connection without an owner; the "ds" machine waits for ever when a
  new request meets `Releasing`; a retry timer that cannot be started loses the
  request; `mRetries` is not reset on success; a data call closed by force is
  not reported to the modem; a handle asked for again while it is inactive in
  `Releasing` is lost; after an engine restart a machine may stay `Acquired`
  without subscribers; of two emergency sessions one may fall back to the framework's machine
  while the data call of the other opens, and its release, asked of the framework's machine
  first, overtakes the answer there; the retry callback uses the machine on the timer's thread
  without a lock.
* Network-initiated sessions: a response matched with its session without the lock
  and stored after the session's timeout answers the session's next request
  (`loc_eng_ni.h:47`, `loc_eng_ni.cpp:235`); `reqID` cleared after the unlock makes the
  response to a request accepted in between "not an active session"; a restart may free a
  request that its thread has already put in a message, and leaves `respRecvd` set
  if the thread has gone; a response to the SUPL session may overwrite the `IGNORE`
  an accepted emergency request stored there; a thread that could not be created
  leaves its session occupied until the modem restarts.
* HAL1: parameters that need a restart and were refused while recording are
  committed by the next `SET_PARAMS`, although `QCameraStateMachine.cpp:2098` says they
  cannot be set; the caller of `PREPARE_SNAPSHOT` is never answered when the daemon dies;
  turning bursts off in `PIC_TAKING` goes to `PREVIEWING` without preview;
  with early restart (off by default) preview may run in `PREVIEW_STOPPED`; a
  `SET_PARAMS` whose restart fails half way may leave both preview paths or a
  running live snapshot; `START_RECORDING` repeated after a failed restart records
  without preview; `REG_FACE_IMAGE` is not answered in `PREPARE_SNAPSHOT`; closing
  the camera during a picture may hang in the join of the notifier; a retro-active
  picture cut short leaves `take_picture` waiting; `DISABLE_MSG_TYPE` in a ZSL
  picture may be undone by the delayed messages; with ZSL the live snapshot's
  thread is not joined, so that one cancelled in `PREVIEW_PIC_TAKING` may post its
  `CANCEL_PICTURE` much later, whose answer a framework thread cancelling another picture
  takes for its own (`QCameraStateMachine.cpp:2966`; seven calls, found when
  `NoLostBroadcast` was proved); a failed online rotation leaves the picture without an
  end; with live snapshots and failing calls an answer nobody waits for stays in
  the result list.
* mm-camera: a burst with flash does not wait for the flash to be off, as
  `led_off_start_frame_id` of an earlier range, or 0, ends the wait
  (`mm_camera_channel.c:2261`, `2245`); the flush before autofocus lowers
  `expected_frame_id` (`QCamera2HWI.cpp:4567`); `match_cnt`, `nomatch_frame_id` and
  `pending_cnt` survive a stop and start of the same channel (HAL1 adds a new one); with
  scene selection `pending_cnt` is never counted down; a second request overwrites the
  count of the first; by reading: frame numbers are compared without regard to
  roll-over (`2045`), `last_buf_ptr->next` is read after the node was freed.
* HAL3: `flush` with no request pending reads the end of the list (`2924`), and may send an
  `ERROR_REQUEST` for frames already answered; of two reprocess results kept
  for later, or after a skipped frame, one is never sent (`2093`, `2244`); a
  reprocessing under way gets an empty result when a later frame's metadata comes; its
  completion does not wake the request thread; a drop of a skipped frame is looked up
  under the frame number of the metadata (`2051`), so the buffer comes back good although it was
  reported.  By reading: the loop's iterator may point to an entry that
  `handlePendingReprocResults` erased; an error return after the request was put on the
  list leaves it there uncounted; metadata no pending frame matches is not returned to its
  channel; buffers are marked with their next frame number after they were queued
  (`QCamera3Channel.cpp:737`); the picture channel's queue of JPEG settings is not emptied
  on stop and pairs by order of arrival, so mixing captures and reprocessings
  can take the wrong settings.
* NAT: a command that fails while a rule is added leaves the chain linked to an entry
  that is not enabled (`AddFaults`).  By reading: deletion of a table that does not match, or
  whose ioctl fails, leaves the table, and the next add writes past `ip4_tbl`;
  `CacheEntry` reads `cnt` before it is set and does not look at ALG ports; temporary
  entries have no public address, so flushing them never adds them; `AddTable` restores
  connections of clients in power save; time stamps are updated on another thread
  without a lock; a connection that ends while its client is away stays cached; a failed
  allocation in `UpdateCache` is reported as success.
* IPACM: `handle_down_evt` removes the uplink rules only of upstreams `isWanUP` still
  lists (`IPACM_Wlan.cpp:2308`, `IPACM_Lan.cpp:2491`); when the upstream's route
  was deleted just before, it no longer does, the event that would remove the rules finds
  the interface inactive, and they stay in the hardware, their handles lost with the
  instance ("finished deleting wan filtering rules", `IPACM_Wlan.cpp:2319`).  With two
  upstreams at a time (`OneUpstream` FALSE) `wan_up` and the rules disagree
  (`IPACM_Wan.cpp:581`); with both families the loss of the v6 upstream clears
  `is_default_gateway` for v4 too (`IPACM_Wan.cpp:4191`).  By reading: a link that goes
  down and up before the instance's `DELETE_SELF` leaves no instance and `if_cat` at
  `WLAN_IF`; a listener that deletes itself frees the node the dispatcher goes to next
  (`IPACM_EvtDispatcher.cpp:129`); a second access point ignores `WAN_DOWN`; a
  `ROUTE_ADD` handled before the interface's address is lost.
* Timers (no module): `MsgTimerExpire` pops the head of the heap whatever it is; `expire`
  disarms the descriptor on the poll thread; it copies the client and calls it later; a
  container whose descriptor could not be made is NULL for its next user.
* Amplifier (no module): the write thread may return without signalling, and calibration
  waits for ever (`audio_amplifier.c:130`).

## 6. What is proved

TLAPS proves the following for every value of the constants that satisfies the
modules' assumptions, from nothing else.

* `MsgTask_proofs`: `TypeCorrect`, `NoWakeupLost`, `LifetimesAreNested`,
  `NothingIsLeaked`, `MessagesOnce`, `TaskIsOrdered`.
  The type invariant alone is inductive.
  The life-time properties need `LifeInv`: `SharedInv` counts the delegate's users
  by the program counters of thread and owner, `JoinInv` says where the owner of a
  joinable task can be while the thread lives, `TaskInv` that the task is deleted
  only past the loop, and `NoLostWakeup` itself, since an owner can only be joining
  a thread that has been woken.  `MessagesOnce` needs `OrderInv`: besides the
  equation, that nothing is in hand outside `proc` and that nothing has been
  dropped while the loop still runs; otherwise a message handled after a flush
  would be out of order.  `TaskIsOrdered`, the refinement of `OrderedTask`, adds
  `CloseInv`: the queue is unblocked only after the owner closed the task, and the thread
  leaves its loop only then, so that a flush is the abstract discard.  One lemma
  per kind of step says which abstract step it is, or that the queue and the hand
  together (`Inbox`) do not change.
* `Camera_proofs`, of the state machine: `VideoAsStated` from `VideoInv` (the type of the state and of
  the channels, and the equivalence itself) and `FramesAsWanted` from
  `FramesInv`, for any settings, commands and failures.  Three more hold under the
  conditions of the runs that check them, stated as hypotheses.  `PreviewPathsAreRight`
  (any call failing, no `SET_PARAMS`, no early restart) from `PathsFit`: the channels there
  are fit the committed parameters, and in `PREVIEW_STOPPED` and `PIC_TAKING` no
  preview channel exists.  `PreviewRuns` (no failing call, no early restart, no bursts) from
  `UpInv`, which adds `PREPARE_SNAPSHOT` to the states with a running preview.
  `PicturesAreRight` (besides, `SET_PARAMS` leaves ZSL mode and picture format) from
  `PicInv`: the committed ZSL mode is the staged one, a ZSL channel exists only in ZSL
  mode, and a running capture channel is the one `cancelPicture` will look for.  Each has a
  lemma per handler of each state and per hardware
  operation, saying what the operation does to the channels or message flags it
  could disturb; the step case follows from them.  `HandlersPostLittle` and
  `HandlersMovePar` say of all handlers what they post and how the parameters change.
* `Camera_proofs`, of the threads around it: `CallsAnsweredOnce` and
  `BroadcastReachesAll`, both by counting who waits for an event.
  `CallsAnsweredOnce` needs `ApiInv`: `ShapeInv` (what may be queued, the steps a
  caller may be in, the ZSL mode) always, and `PlainInv` while the daemon lives and pictures
  are not retro-active: `Balanced` is the equation of the property with
  the state in the place of the flag, `PrepInv` says that in `PREPARE_SNAPSHOT`, and only
  there, one answer is under way, as the daemon's debt or as a queued event.
  `HandlersAnswer` shows of every handler in every state
  that it answers its own event once, or hands the answer on (`Prepares`, `Prepared`).
  Three hypotheses: `REG_FACE_IMAGE` is not issued (`PREPARE_SNAPSHOT` forgets it); no
  `SET_PARAMS` changes the ZSL mode under retro-active pictures (a picture begun before would
  be judged by the mode after); and a framework that cancels pictures does so without failing
  calls, `SET_PARAMS` and bursts, where `LiveInv` shows that no live snapshot fails and
  posts a `CANCEL_PICTURE` of its own.
  `BroadcastReachesAll` covers retro-active pictures, too, where the equation fails. It
  needs only that nothing is left over: `AtMost`, no more is queued, answered or
  owed for an event than there are who wait for it.  Then one who starts to wait has
  his event in the queue, so the results do not suffice for all, and `signalAPIResult`
  wakes everybody when they do.  Its one hypothesis, `CancelsApart`, is the last of the three
  above without ZSL: with it the property fails (section 5).  The configuration of
  `api` has both ZSL and `CANCEL_PICTURE` and is not under that hypothesis; its four calls
  are too few for the counterexample, so there the run and the theorem cover
  different cases.
* `Agps_proofs`: `TypeCorrect` and `StatesMatch` from `Inv`, the conjunction of
  `MachineInv` (states, disjointness of active and inactive, the agreement of state
  and list until the modem restarts) and `RestInv` (queue, timers, calls, clients).
  One lemma per transition of a framework machine; the "ds" machine is shown
  to leave the framework's lists alone but for the fallback, which is a request.
  `BeliefsAreRight` needs `BeliefInv`: what messages in the queue say of a client (a request, a
  release, an answer) agrees with what the client believes and with the machine's lists;
  until the modem restarts, and not for emergency sessions.
  `InStepWithOpeners` says that machine and opener agree once their messages have arrived.  It
  needs `LinkInv`: the calls the opener has not looked at, its connection and the answers the
  machine has not seen (`Says`: the events of one machine in the queue, which other messages may
  separate) are one of a dozen combinations `Link` lists for each state.  What makes it inductive is
  `StepInv`, which is where the patience of clients is used: a client with a release on its way
  is in no list whose connection is still being opened, it has one request in the queue at
  most, none behind its release, and the only emergency session is with agnss or has
  something under way at the data services (`Tokens`), never both.  This holds also
  across a restart of the modem, which flushes lists and leaves the states.
* `NiSessions_proofs`: `TypeCorrect`, `SessionsHaveThreads`, `RequestsOnce` and `OwnAnswers`.  `TypeInv`
  adds to the types `TaskInv` (where the task is in setting up the newest request, and
  that threads of requests to come do not exist) and `HoldInv` (a session holds
  requests that were accepted for it).  `SessionHasThread` is inductive with it: a
  thread gives up a session only when it holds nothing.  `RequestsOnce` needs
  `PlaceInv`, that a request is in one session not yet cleared, one thread's
  message, one queued message or with the modem, and `FreeInv`, that until a restart
  it is freed only in the last of them or when ignored.  `OwnAnswers` needs `OwnInv`: as long as
  responses are prompt, the answer in a session, in its thread's message and in the queue is one
  given to the request it is of.
* `Nat_proofs`, of the table: `TableIsMap`, that `NatTable` implements `NatMap`, for any hashes and
  table sizes and whichever of the commands that add a rule fail.  It needs `HandleInv`: a
  handle names an enabled entry that is not dead, and no two name the same; then a deletion,
  which may move an index entry and clear dead heads, takes the rule from no other handle.
  `RulesFoundAsAdded` and `TableIsConsistent` are for `AddFaults` = FALSE, since a link that is
  not written leaves its rule unreachable.  They need `ChainInv`: both tables are `Linked`
  (links lead from used entry to used entry with the same home and back, and every used entry
  of the expansion is in the chain of its home), an enabled entry has a handle or is a dead head with
  others behind it, rule and index entries name each other, and handles can be looked up.
  `Chain` is stated as what every closed set holds, so that no induction on its length is
  needed.  Three lemmas say when a table stays linked, whichever table it is: `HeadsChange` (a
  head is taken or given back), `AppendLinked` (an entry behind the last) and `RemoveLinked`
  (one taken out).  A deleted index head, whose place the entry behind it takes, is the
  removal of that entry with another name in the head.  That a handle is free and below
  the number of entries when an entry is free (`HandleLeft`) is by counting: the
  handles in use name usable entries of their own, of which there are two fewer.
* `Nat_proofs`, of its client: `CacheIsConsistent` and `TableAlwaysMatches`, from `Core /\ Rest`
  (`Core` is the cache, its count and the table, `Rest` the types of the listener and the
  lists).  `TableMatchesCache` is not inductive alone: an entry deleted with its rule must
  be the only one of its connection, and a free slot must be there when the count
  says so.  Each handler is a composition of operators on cache and table, and has the lemma
  that it keeps `Core` whenever its parts do.
* `Ipacm_proofs`: `InStep`, for any interfaces and families, from `LinkInv` and
  `DeleteInv`.  What an event on its way says of an interface may be stale; then the link's
  going down is on its way behind it (`Recanted`), in the queue or still with the driver's
  thread.  An instance that works has such an event ahead of it, or its link is up and each
  address the kernel has is known or ahead.  One that has gone down has exactly one
  `DELETE_SELF` ahead.  `WanUpStaysTrue` and `RulesAreRight` are for one family
  (`OneFamily`; with two, `is_default_gateway` is shared and the properties are false, see
  section 5) and one upstream at a time (`OneBackhaul`: the system chooses one, or there is
  one modem interface).  The upstream events ahead form a `Chain` of assignments of
  upstreams to tethered interfaces, from what the modem instances have heard to what the
  system has now; `UpInv` says that the instances' routes, `tether` and `wan_up` agree with
  the beginning of such a chain.  `NewsInv` says of the news a tethered interface has ahead
  that the last are right, and that without news its rules are; it uses the two others.
* `SuperBuf_proofs`: `BuffersAreAccountedFor` from `RefsInv`: for each place a buffer can be
  in (the channel's commands, its queue, the callback, the HAL, a linked stream's commands)
  what is in it is a frame the kernel has delivered, and `refcnt` is the number of places,
  so that one removed from a place is counted down once.  The count of a queue is the sum
  over its nodes; the lemmas on it say what appending, dropping and filling a node do.
  `LoopsEnd`, `BundlesAreOfOneFrame` and `FlashEndsWithRequest` from `FrameInv`: nodes are in
  the order of frames, matched ones first in burst mode, what is matched is of one frame and
  after what was dispatched.  A channel with live snapshots is assumed to have one stream
  besides the metadata (`LiveAssumption`: `addSnapshotChannel`, `QCamera2HWI.cpp:5337`, and the
  linked stream, `:3886`), since with low priority a queue of three streams can hold a matched node
  behind an unmatched one.  `AllBuffersComeBack` counts what the queue can keep, and
  therefore needs `NumBufs > WaterMark + MaxUnmatched + 1`, which `getBufNumRequired`
  (`QCamera2HWI.cpp:1529`) sees to.  `FutureFrames`, an action property, from `AwaitInv`:
  while the channel awaits a frame of the future, nothing is queued and the expected frame
  is beyond every frame there will be, so that nothing enters.
* `Hal3_proofs`: `BuffersComeBackOnce` from `RequestInv` (what is pending was
  requested, and kept results are of reprocessings) and `BufferInv`: a buffer that is
  with its stream, pending or kept has not gone back, and one that is cached is pending and no
  longer with its stream, which is what keeps metadata and a late buffer from both
  returning it.  `LimitHolds` from `LimitInv`,
  which adds that an idle request thread finds the count below the higher limit and that
  nothing is pending before the first request;
  the arithmetic is on the cardinality of the pending list, so the lemmas show which
  requests a step ends.  `AnswersComeInOrder` from `AnswerInv`: every last result is of a request
  no longer pending and the only one of it, results of captures are in order and for
  frames before all that are pending, and a buffer in the map is of a pending request or of a frame
  before all of them; without the last a flush, which answers what is in the map, could
  answer a frame twice.  That a set of frames is told in its order (`InOrderIs`) is shown by
  counting how many of the set are below each.  `DropsAreReported` adds `DropInv`: what was reported is no
  longer pending and in the drop list until it comes back.

Only model-checked: everything temporal (liveness and `ENABLED` are outside the
prover).

## 7. What is left out

Of the modelled parts:

* `MsgTask`: `linked_list_search` (used by other parts), `LocThread::stop` other than
  through deletion, creation failures after the thread has started.
* `Agps`: bearers, APNs, the configuration without a data service client, requests
  of a type other than SUPL.  Emergency sessions are excluded from the properties
  on answers because of the subscriber they leave behind.
* `NiSessions`: `respTimeLeft` (so also that it is cleared after the unlock, which may
  make the next request wait for no time: a timeout may come at any moment anyway),
  the muting of a session that overrides privacy.
* HAL1: `SET_PARAMS` with a failing daemon, and early restart, are in the model but
  in no passing run; `VideoAsStated` and `FramesAsWanted` cover them.  Stream
  set-up, 3A, face detection, histogram, exif, advanced capture,
  thermal events, internal JPEG events and notifications; the object life times
  of channels; the flushing of the notifier's preview and video queues; the post
  processor's own jobs.
* `SuperBuf`: manual start and stop of ZSL, bracketing, the one-frame zoom, capture
  settings, diverted frames, batches of buffers, frame 0, the poll descriptor of a
  stream without buffers, channels of one stream, failed allocations and ioctls.
* `Hal3`: urgent metadata and the count of partial results, the picture channel and its
  post processor (a JPEG may come at any time), input buffers and their fences, error
  returns of the channels, the raw dump, support and analysis channels, translation of
  settings and metadata.
* `NatTable`: time stamps, dumps, a second table.  `NatApp`: the Wi-Fi station as WAN,
  embedded connections, the time stamps' thread.
* `Ipacm`: the NAT's listeners, changes of configuration, station, ECM, ODU, Ethernet
  and eMBMS interfaces, the Ethernet bridge and software routing, the clients' routes and
  headers, statistics, failed allocations and ioctls.

Parts without a module, and why:

* GPS timers: which timer expires is a matter of clock values and of a heap whose shape
  no client sees; the parts that are not are listed in section 5 and open.
* GPS data daemon connection: a pipe from a daemon that is not here; its requests enter
  the messages of `Agps`.  GPS engine sessions, adapters, contexts: one flag on one thread and a fan-out of
  messages to the task of `MsgTask`.  NMEA, XTRA, configuration, logging: formatting.
* HAL1's parameter text, channels, memory classes and device wrapper: data, or forwarding
  that the modelled operations include.
* mm-camera's poll thread, socket and event slot; mm-jpeg and qomx, job queues before an
  OMX component that is not here and whose callbacks would all be assumed.
* Lights, fingerprint, amplifier, init, shims: one function under one lock, a forwarder, a
  calibration that runs once, and no state.

## 8. What remains

In the order in which it would add most: the picture channel and post processor of HAL3
(which settings go with which frame); the timers over `OrderedTask`; the
station and second-family behaviour of IPACM; mm-camera's poll thread and event slot.
