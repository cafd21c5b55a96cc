------------------------------ MODULE SuperBuf ------------------------------
(***************************************************************************)
(* The bundled channel of mm-camera-interface (mm_camera_channel.c and     *)
(* mm_camera_stream.c under src/camera/QCamera2/stack): the frames of the  *)
(* channel's streams are matched into super buffers by the channel's       *)
(* command thread, and dispatched to the HAL when it has asked for them.   *)
(*                                                                         *)
(* Actors: the kernel and the poll thread (Deliver), the channel's command *)
(* thread (ChannelCommand), its callback thread (SuperBufCb), the command  *)
(* thread of the metadata stream (AppData, AppDataDone) and the HAL        *)
(* (Request, Cancel, Flush, Return, Stop, Restart).                        *)
(*                                                                         *)
(* A buffer is known by the number of the frame it holds: numbers of one   *)
(* stream increase, so a frame names its buffer until the buffer is back   *)
(* in the kernel.  kernel[s] counts the buffers of s that are there.       *)
(***************************************************************************)
EXTENDS Integers, Sequences, FiniteSets, SequencesExt

CONSTANTS Streams,       \* the streams of the channel
          Meta,          \* the metadata stream, which has a data callback
          NumBufs,       \* stream_info->num_bufs
          WaterMark,     \* attr.water_mark
          LookBack,      \* attr.look_back
          MaxUnmatched,  \* attr.max_unmatched_frames
          FrameSkip,     \* attr.post_frame_skip
          Uses,          \* the HAL's channels that are explored (see use)
          MaxFrame,      \* bound: the last frame number
          MaxHints,      \* bound: metadata with snapshot information
          MaxAsks,       \* bound: requests and flushes of the HAL
          MaxNum,        \* bound: super buffers per request
          MaxCmds        \* bound: frames waiting for the command thread

Frames == 1 .. MaxFrame

ASSUME SuperBufAssumption ==
  /\ Meta \in Streams
  /\ IsFiniteSet(Streams)
  /\ NumBufs \in Nat \ {0}
  /\ {WaterMark, LookBack, MaxUnmatched, FrameSkip} \subseteq Nat
  /\ Uses \subseteq {"zsl", "scene", "live"}
  /\ {MaxFrame, MaxHints, MaxAsks, MaxNum, MaxCmds} \subseteq Nat

\* The live snapshot's channel has the snapshot stream and the preview's metadata
\* (addSnapshotChannel and takeLiveSnapshot_internal of QCamera2HWI.cpp).
ASSUME LiveAssumption ==
  "live" \in Uses => \E s \in Streams \ {Meta} : Streams = {Meta, s}

VARIABLES
  use,      \* which channel of QCamera2HWI.cpp this is: "zsl" (burst), "scene"
            \* (ZSL with scene selection, continuous), "live" (live snapshot:
            \* continuous, low priority, metadata linked from the preview)
  state,    \* "active", "stopping" or "stopped"
  on,       \* streams that are MM_STREAM_STATE_ACTIVE
  linked,   \* is_linked of the live channel's metadata stream
  kernel,   \* buf_status[].in_kernel, counted
  refcnt,   \* buf_status[].buf_refcnt of the buffer with that frame
  last,     \* the last frame number of each stream
  hints,    \* metadata with snapshot information so far
  asks,     \* requests and flushes of the HAL so far
  cmds,     \* cmd_thread.cmd_queue of the channel
  ch,       \* the fields of mm_channel_t and of its superbuf_queue
  cbs,      \* cb_thread.cmd_queue of the channel
  scmds,    \* cmd_thread.cmd_queue of the metadata stream
  scb,      \* the frame whose data callback has been called, or 0
  held,     \* how often the HAL holds a frame
  awaits    \* auxiliary: the last metadata that said anything of the kind said
            \* NEED_FUTURE_FRAME, and no flush or burst with flash came since

hal == <<asks, held>>
vars == <<use, state, on, linked, kernel, refcnt, last, hints, asks, cmds, ch,
          cbs, scmds, scb, held, awaits>>

-----------------------------------------------------------------------------
(* The channel's fields.                                                   *)

Burst  == use = "zsl"
Low    == use = "live"
Linked(s) == use = "live" /\ s = Meta      \* s_obj->ch_obj # my_obj

NoHint == [prep |-> "none", good |-> 0]
Hints  == [prep : {"none", "done", "future"}, good : {0} \cup Frames]

FreshChannel ==
  [q |-> <<>>, match_cnt |-> 0, expected |-> 0, nomatch |-> 0,
   pending_cnt |-> 0, pending_retro_cnt |-> 0, bWait |-> FALSE,
   needLEDFlash |-> FALSE, bracketing |-> FALSE, startZsl |-> FALSE,
   stopZsl |-> FALSE, burstSnapNum |-> 0, led_off |-> 0, once |-> FALSE,
   hung |-> FALSE, released |-> {}, dispatched |-> <<>>]

\* Frame numbers above MaxFrame are all alike: no frame reaches them.
Capped(n) == IF n > MaxFrame THEN MaxFrame + 1 ELSE n

\* expected_frame_id += max_future_frame_offset (100)
FutureOffset == MaxFrame + 1

NoSlots  == [s \in Streams |-> 0]
Bufs(node) == {<<s, node.slot[s]>> : s \in {t \in Streams : node.slot[t] # 0}}
AllBufs(nodes) == UNION {Bufs(nodes[i]) : i \in DOMAIN nodes}
Matched(nodes) == {i \in DOMAIN nodes : nodes[i].matched}
Lowest(S) == CHOOSE i \in S : \A j \in S : i <= j

\* The nodes mm_channel_superbuf_dequeue would return one after the other.
Ready(nodes) ==
  LET waiting == DOMAIN nodes \ Matched(nodes)
  IN IF waiting = {} THEN Len(nodes) ELSE Lowest(waiting) - 1

Init ==
  /\ use \in Uses
  /\ state = "active"
  /\ on = Streams
  /\ linked = (use = "live")
  /\ kernel = [s \in Streams |-> NumBufs]
  /\ refcnt = [s \in Streams |-> [f \in Frames |-> 0]]
  /\ last = [s \in Streams |-> 0]
  /\ hints = 0 /\ asks = 0
  /\ cmds = <<>> /\ ch = FreshChannel
  /\ cbs = <<>> /\ scmds = <<>> /\ scb = 0
  /\ held = [s \in Streams |-> [f \in Frames |-> 0]]
  /\ awaits = FALSE

-----------------------------------------------------------------------------
(* Buffers.                                                                *)

\* mm_stream_buf_done for each buffer of R: a buffer nobody refers to is an
\* error without effect, the last reference puts the buffer into the kernel.
\* A stream that is not active takes no buffer.
BufDone(R) ==
  LET effective == {r \in R : r[1] \in on /\ refcnt[r[1]][r[2]] > 0}
  IN /\ refcnt' = [s \in Streams |-> [f \in Frames |->
                     refcnt[s][f] - (IF <<s, f>> \in effective THEN 1 ELSE 0)]]
     /\ kernel' = [s \in Streams |->
          kernel[s] + Cardinality({r \in effective : r[1] = s
                                                    /\ refcnt[s][r[2]] = 1})]

\* A variant: the thread of the data callback is not counted.
ReceiversButCb(s) == IF ~Linked(s) \/ linked THEN 1 ELSE 0

\* Whoever receives the frame: the bundle or the channel it is linked to, and
\* the thread that calls the data callback.
Receivers(s) == (IF ~Linked(s) \/ linked THEN 1 ELSE 0)
                + (IF s = Meta THEN 1 ELSE 0)

\* mm_stream_data_notify: the kernel may have skipped frames.
Deliver(s) ==
  /\ s \in on /\ kernel[s] > 0
  /\ Len(cmds) < MaxCmds
  /\ \E f \in Frames, h \in Hints :
       /\ f > last[s]
       /\ h # NoHint => s = Meta /\ ~Linked(s) /\ hints < MaxHints
       /\ hints' = IF h # NoHint THEN hints + 1 ELSE hints
       /\ last' = [last EXCEPT ![s] = f]
       /\ kernel' = [kernel EXCEPT ![s] = @ - 1]
       /\ refcnt' = [refcnt EXCEPT ![s][f] = @ + Receivers(s)]
       /\ cmds' = IF ~Linked(s) \/ linked
                  THEN Append(cmds, [type |-> "data", s |-> s, f |-> f, hint |-> h])
                  ELSE cmds
       /\ scmds' = IF s = Meta THEN Append(scmds, f) ELSE scmds
  /\ UNCHANGED <<use, state, on, linked, ch, cbs, scb, hal, awaits>>

-----------------------------------------------------------------------------
(* The super buffer queue.  Each operator maps the channel's fields to what *)
(* the function of the same name leaves; released collects the buffers it   *)
(* hands to mm_channel_qbuf.                                                *)

Drop(b, nodes) == [b EXCEPT !.released = @ \cup AllBufs(nodes)]

\* mm_channel_superbuf_dequeue n times: the nodes leave from the head.
Dequeued(b, n) ==
  [b EXCEPT !.q = SubSeq(@, n + 1, Len(@)), !.match_cnt = @ - n]

\* A variant: the flush forgets match_cnt.
FlushKeepsCount(b) == [Drop(b, b.q) EXCEPT !.q = <<>>]

\* mm_channel_superbuf_flush: everything goes, matched or not.
superbuf_flush(b) ==
  [Drop(b, b.q) EXCEPT !.q = <<>>,
                       !.match_cnt = @ - Cardinality(Matched(b.q))]

\* The loops of mm_channel_superbuf_bufdone_overflow and mm_channel_superbuf_skip
\* dequeue until match_cnt is at most the mark.  While the head is not matched
\* they dequeue nothing and spin, holding the lock of the queue.
TrimTo(b, mark) ==
  LET excess == b.match_cnt - mark
  IN IF ~Burst \/ excess <= 0 THEN b
     ELSE IF excess > Ready(b.q) THEN [b EXCEPT !.hung = TRUE]
     ELSE Dequeued(Drop(b, SubSeq(b.q, 1, excess)), excess)

superbuf_bufdone_overflow(b) == TrimTo(b, WaterMark)

superbuf_skip(b) == TrimTo(b, LookBack)

\* A variant: frames that are on their way are still used.
PrepDoneFlushOnly(b, prep) ==
  CASE prep = "none" -> b
    [] prep = "done" -> [b EXCEPT !.bWait = FALSE, !.needLEDFlash = FALSE]
    [] prep = "future" ->
         [superbuf_flush(b) EXCEPT !.bWait = FALSE, !.needLEDFlash = TRUE]

\* prep_snapshot_done of the metadata: with NEED_FUTURE_FRAME nothing that is
\* already there may be used.
PrepDone(b, prep) ==
  CASE prep = "none" -> b
    [] prep = "done" -> [b EXCEPT !.bWait = FALSE, !.needLEDFlash = FALSE]
    [] prep = "future" ->
         [superbuf_flush(b) EXCEPT !.bWait = FALSE, !.needLEDFlash = TRUE,
                                   !.expected = Capped(@ + FutureOffset)]

\* good_frame_idx_range of the metadata: the frames to use begin with good.
GoodRange(b, good) ==
  IF good = 0 THEN b
  ELSE LET leds == b.needLEDFlash /\ b.burstSnapNum > 1
       IN [b EXCEPT !.expected = good, !.bracketing = TRUE,
                    !.led_off = IF leds THEN Capped(good + 1) ELSE @,
                    !.once = @ /\ ~leds]

\* A burst with flash goes on without it after the range's last frame.
LedOff(b, f) ==
  IF b.burstSnapNum > 1 /\ b.needLEDFlash /\ ~b.bracketing
     /\ f >= b.led_off /\ ~b.once
  THEN [b EXCEPT !.expected = b.led_off, !.once = TRUE, !.stopZsl = TRUE,
                 !.needLEDFlash = FALSE]
  ELSE b

handle_metadata(b, d) ==
  IF d.s = Meta /\ ~Linked(d.s)
  THEN LedOff(GoodRange(PrepDone(b, d.hint.prep), d.hint.good), d.f)
  ELSE b

\* A variant: the low priority rule in every channel.
TakesLater(b, node, s, f) ==
  /\ ~node.matched
  /\ \/ node.frame_idx = f
     \/ b.nomatch # 0 /\ b.nomatch <= f /\ node.slot[s] = 0 /\ s = Meta
     \/ s # Meta /\ node.slot[s] = 0 /\ node.frame_idx > f

\* Whether the scan of the queue stops at this unmatched node.
Takes(b, node, s, f) ==
  /\ ~node.matched
  /\ \/ node.frame_idx = f
     \/ b.nomatch # 0 /\ b.nomatch <= f /\ node.slot[s] = 0 /\ s = Meta
     \/ Low /\ s # Meta /\ node.slot[s] = 0 /\ node.frame_idx > f

Unmatched(nodes) == DOMAIN nodes \ Matched(nodes)

\* The queue without the nodes from .. to, and with a node before position i.
Without(nodes, from, to) == SubSeq(nodes, 1, from - 1) \o SubSeq(nodes, to + 1, Len(nodes))

\* found_super_buf: the frame fills its slot of node pos.  When the node is full
\* all nodes from last_buf, the first unmatched older one, to pos are released.
Join(b, d, pos) ==
  LET older == {i \in Unmatched(b.q) : i < pos /\ b.q[i].frame_idx < d.f}
      filled == [b.q[pos] EXCEPT !.slot[d.s] = d.f]
      full == \A s \in Streams : filled.slot[s] # 0
      b1 == [b EXCEPT !.nomatch = 0]
      b2 == [b1 EXCEPT !.q[pos] = [filled EXCEPT !.matched = full]]
      b3 == [b2 EXCEPT !.expected = Capped(d.f + FrameSkip), !.match_cnt = @ + 1]
      from == Lowest(older)
  IN IF b.q[pos].slot[d.s] # 0 THEN [b1 EXCEPT !.released = @ \cup {<<d.s, d.f>>}]
     ELSE IF ~full THEN b2
     ELSE IF older = {} THEN b3
     ELSE [Drop(b3, SubSeq(b3.q, from, pos - 1))
             EXCEPT !.q = Without(@, from, pos - 1)]

\* No node takes the frame: a new one does, in frame order among the unmatched
\* nodes.  If those are too many, the first older one makes room; without one
\* the frame itself is too old.
Enter(b, d) ==
  LET older == {i \in Unmatched(b.q) : b.q[i].frame_idx < d.f}
      over == Cardinality(Unmatched(b.q)) > MaxUnmatched
      node == [frame_idx |-> d.f, slot |-> [NoSlots EXCEPT ![d.s] = d.f],
               matched |-> Streams = {d.s}]
      b1 == IF over THEN [Drop(b, <<b.q[Lowest(older)]>>)
                            EXCEPT !.q = Without(@, Lowest(older), Lowest(older))]
            ELSE b
      at == {i \in Unmatched(b1.q) : b1.q[i].frame_idx > d.f}
  IN IF over /\ older = {} THEN [b EXCEPT !.released = @ \cup {<<d.s, d.f>>}]
     ELSE [b1 EXCEPT
             !.q = IF at # {} THEN InsertAt(@, Lowest(at), node) ELSE Append(@, node),
             !.expected = IF node.matched THEN Capped(d.f + FrameSkip) ELSE @,
             !.match_cnt = IF node.matched THEN @ + 1 ELSE @,
             !.nomatch = IF Low /\ d.s # Meta THEN d.f ELSE @]

\* mm_channel_superbuf_comp_and_enqueue
comp_and_enqueue(b0, d) ==
  LET b == handle_metadata(b0, d)
      takers == {i \in DOMAIN b.q : Takes(b, b.q[i], d.s, d.f)}
  IN IF \/ d.f < b.expected
        \/ b.nomatch # 0 /\ b.nomatch > d.f /\ d.s = Meta
     THEN [b EXCEPT !.released = @ \cup {<<d.s, d.f>>}]
     ELSE IF takers # {} THEN Join(b, d, Lowest(takers))
     ELSE Enter(b, d)

-----------------------------------------------------------------------------
(* The command thread.                                                     *)

\* A request, or its cancellation with num = 0.
NewRequest(b, num, retro) ==
  LET r == IF num = 0 \/ retro > num THEN num ELSE retro
  IN superbuf_skip([b EXCEPT !.pending_cnt = num, !.pending_retro_cnt = r,
                             !.bWait = FALSE, !.stopZsl = FALSE,
                             !.needLEDFlash = @ /\ r = 0])

\* A variant: the flash sequence is taken to be running still.
EndZslUnnoticed(b) == [b EXCEPT !.burstSnapNum = 0, !.stopZsl = FALSE,
                                !.needLEDFlash = FALSE, !.bracketing = FALSE]

EndZsl(b) == [b EXCEPT !.startZsl = FALSE, !.burstSnapNum = 0, !.stopZsl = FALSE,
                       !.needLEDFlash = FALSE, !.bracketing = FALSE]

\* The flash sequence of the backend is started and stopped with the request.
ZslSnapshot(b) ==
  IF b.pending_cnt > 0 /\ (b.needLEDFlash \/ b.bracketing) /\ ~b.startZsl
  THEN [b EXCEPT !.startZsl = TRUE, !.burstSnapNum = b.pending_cnt, !.bWait = FALSE]
  ELSE IF (b.pending_cnt = 0 \/ b.stopZsl) /\ b.startZsl
  THEN [EndZsl(b) EXCEPT !.bWait = FALSE]
  ELSE b

\* The dispatch loop: in burst mode as many as are pending, but after the last
\* retroactive one it waits for the metadata that says the snapshot is prepared.
Dispatch(b) ==
  LET wanted == IF b.pending_retro_cnt > 0 THEN b.pending_retro_cnt ELSE b.pending_cnt
      ready == Ready(b.q)
      n == IF b.bWait THEN 0
           ELSE IF ~Burst THEN ready
           ELSE IF wanted < ready THEN wanted ELSE ready
      b1 == [Dequeued(b, n) EXCEPT
               !.dispatched = [i \in 1 .. n |-> b.q[i].slot]]
      b2 == [b1 EXCEPT !.pending_cnt = @ - n,
                       !.pending_retro_cnt = IF @ > 0 THEN @ - n ELSE 0,
                       !.bWait = @ \/ (n > 0 /\ b.pending_retro_cnt = n)]
  IN IF ~Burst \/ n = 0 THEN b1
     ELSE IF (b2.pending_cnt = 0 \/ b2.stopZsl) /\ b2.startZsl THEN EndZsl(b2)
     ELSE b2

\* What process_stream_buf does after every command except a flush.
Proceed(b) ==
  IF b.hung THEN b
  ELSE LET b1 == superbuf_bufdone_overflow(ZslSnapshot(b))
       IN IF b1.hung THEN b1 ELSE Dispatch(b1)

\* mm_channel_process_stream_buf
process_stream_buf(b, c) ==
  CASE c.type = "data"  -> Proceed(comp_and_enqueue(b, c))
    [] c.type = "req"   -> Proceed(NewRequest(b, c.num, c.retro))
    [] c.type = "flush" -> superbuf_flush([b EXCEPT !.expected = c.f])

\* What a command makes of the auxiliary variable.
NowAwaits(c) ==
  IF ch.burstSnapNum > 1 \/ ch'.burstSnapNum > 1 \/ c.type = "flush" THEN FALSE
  ELSE IF c.type = "req" THEN awaits
  ELSE c.hint.good = 0 /\ (c.hint.prep = "future" \/ awaits)

ChannelCommand ==
  /\ cmds # <<>> /\ ~ch.hung
  /\ LET b == process_stream_buf(ch, Head(cmds))
     IN /\ ch' = [b EXCEPT !.released = {}, !.dispatched = <<>>]
        /\ BufDone(b.released)
        /\ cbs' = cbs \o b.dispatched
  /\ cmds' = Tail(cmds)
  /\ awaits' = NowAwaits(Head(cmds))
  /\ UNCHANGED <<use, state, on, linked, last, hints, scmds, scb, hal>>

-----------------------------------------------------------------------------
(* Callbacks and the HAL.                                                  *)

\* mm_channel_dispatch_super_buf: every buffer of the bundle is the HAL's now.
SuperBufCb ==
  /\ cbs # <<>>
  /\ held' = [s \in Streams |-> [held[s] EXCEPT ![Head(cbs)[s]] = @ + 1]]
  /\ cbs' = Tail(cbs)
  /\ UNCHANGED <<use, state, on, linked, kernel, refcnt, last, hints, asks, cmds,
                 ch, scmds, scb, awaits>>

\* mm_stream_dispatch_app_data: the callback gets a reference of its own ...
AppData ==
  /\ scmds # <<>> /\ scb = 0
  /\ scb' = Head(scmds)
  /\ scmds' = Tail(scmds)
  /\ refcnt' = [refcnt EXCEPT ![Meta][Head(scmds)] = @ + 1]
  /\ held' = [held EXCEPT ![Meta][Head(scmds)] = @ + 1]
  /\ UNCHANGED <<use, state, on, linked, kernel, last, hints, asks, cmds, ch, cbs, awaits>>

\* ... and the reference of the thread is dropped when it has returned.
AppDataDone ==
  /\ scb # 0
  /\ BufDone({<<Meta, scb>>})
  /\ scb' = 0
  /\ UNCHANGED <<use, state, on, linked, last, hints, cmds, ch, cbs, scmds, hal, awaits>>

\* The HAL gives a buffer back (mm_channel_qbuf).
Return(s) ==
  \E f \in Frames :
    /\ held[s][f] > 0
    /\ held' = [held EXCEPT ![s][f] = @ - 1]
    /\ BufDone({<<s, f>>})
    /\ UNCHANGED <<use, state, on, linked, last, hints, asks, cmds, ch, cbs,
                   scmds, scb, awaits>>

Send(c) ==
  /\ state = "active" /\ asks < MaxAsks
  /\ asks' = asks + 1
  /\ cmds' = Append(cmds, c)
  /\ UNCHANGED <<use, state, on, linked, kernel, refcnt, last, hints, ch, cbs,
                 scmds, scb, held, awaits>>

\* QCameraPicChannel::takePicture of the ZSL channel, whatever its notify mode.
Request ==
  /\ use # "live"
  /\ \E num \in 1 .. MaxNum, retro \in 0 .. MaxNum :
       Send([type |-> "req", num |-> num, retro |-> retro])

\* QCameraPicChannel::cancelPicture
Cancel == use # "live" /\ Send([type |-> "req", num |-> 0, retro |-> 0])

\* QCameraPicChannel::flushSuperbuffer, when the lens has come into focus.
Flush == use # "live" /\ \E f \in Frames : Send([type |-> "flush", f |-> f])

\* mm_channel_stop begins: no more calls of the HAL than this one.
Stop ==
  /\ state = "active"
  /\ state' = "stopping"
  /\ UNCHANGED <<use, on, linked, kernel, refcnt, last, hints, cmds, ch, cbs,
                 scmds, scb, hal, awaits>>

\* One stream is stopped, metadata last: its thread is joined with its queue
\* empty, and its buffers are no longer registered.
StopStream(s) ==
  /\ state = "stopping" /\ s \in on /\ ~Linked(s)
  /\ s = Meta => on = {Meta} /\ scmds = <<>> /\ scb = 0
  /\ on' = on \ {s}
  /\ refcnt' = [refcnt EXCEPT ![s] = [f \in Frames |-> 0]]
  /\ kernel' = [kernel EXCEPT ![s] = 0]
  /\ UNCHANGED <<use, state, linked, last, hints, cmds, ch, cbs, scmds, scb, hal, awaits>>

\* A variant: what the channel has of the linked stream is not flushed.
UnlinkOnly ==
  /\ state = "stopping" /\ linked /\ on = {Meta}
  /\ linked' = FALSE
  /\ UNCHANGED <<use, state, on, kernel, refcnt, last, hints, cmds, ch, cbs, scmds,
                 scb, hal, awaits>>

\* A linked stream goes on without the channel: it is unlinked, and what the
\* channel has of it is to be flushed.
Unlink ==
  /\ state = "stopping" /\ linked /\ on = {Meta}
  /\ linked' = FALSE
  /\ cmds' = Append(cmds, [type |-> "flush", f |-> 0])
  /\ UNCHANGED <<use, state, on, kernel, refcnt, last, hints, ch, cbs, scmds,
                 scb, hal, awaits>>

\* Both threads of the channel have emptied their queues and are joined; the
\* nodes of the queue are freed, whatever they hold.
Stopped ==
  /\ state = "stopping" /\ ~linked /\ on \subseteq {s \in Streams : Linked(s)}
  /\ cmds = <<>> /\ cbs = <<>> /\ ~ch.hung
  /\ state' = "stopped"
  /\ ch' = [ch EXCEPT !.q = <<>>]
  /\ UNCHANGED <<use, on, linked, kernel, refcnt, last, hints, cmds, cbs, scmds,
                 scb, hal, awaits>>

\* The HAL deletes the channel and adds one again, with nothing of the old one
\* in its hands.
Restart ==
  /\ state = "stopped"
  /\ scmds = <<>> /\ scb = 0
  /\ \A s \in Streams, f \in Frames : held[s][f] = 0
  /\ use' = use /\ state' = "active" /\ on' = Streams /\ linked' = (use = "live")
  /\ kernel' = [s \in Streams |-> NumBufs]
  /\ refcnt' = [s \in Streams |-> [f \in Frames |-> 0]]
  /\ last' = [s \in Streams |-> 0]
  /\ hints' = 0 /\ asks' = 0
  /\ cmds' = <<>> /\ ch' = FreshChannel
  /\ cbs' = <<>> /\ scmds' = <<>> /\ scb' = 0
  /\ held' = held /\ awaits' = FALSE

Next ==
  \/ \E s \in Streams : Deliver(s) \/ Return(s) \/ StopStream(s)
  \/ ChannelCommand \/ SuperBufCb \/ AppData \/ AppDataDone
  \/ Request \/ Cancel \/ Flush
  \/ Stop \/ Unlink \/ Stopped \/ Restart

Spec == Init /\ [][Next]_vars

-----------------------------------------------------------------------------
(* Properties.                                                             *)

\* How many places hold the buffer with frame f of stream s.
Holders(s, f) ==
  Cardinality({i \in DOMAIN cmds : cmds[i].type = "data" /\ cmds[i].s = s /\ cmds[i].f = f})
  + Cardinality({i \in DOMAIN ch.q : ch.q[i].slot[s] = f})
  + Cardinality({i \in DOMAIN cbs : cbs[i][s] = f})
  + held[s][f]
  + (IF s = Meta THEN Cardinality({i \in DOMAIN scmds : scmds[i] = f})
                      + (IF scb = f THEN 1 ELSE 0)
     ELSE 0)

\* A buffer is referred to exactly as often as it is held, by the queues of three
\* threads, the super buffer queue, a callback in progress and the HAL, and is in
\* the kernel exactly when nobody holds it: no reference is lost (the buffer would
\* never come back) or dropped twice (the camera would write into a picture that
\* is being encoded).
RefsMatchHolders ==
  \A s \in on :
    /\ \A f \in Frames : refcnt[s][f] = Holders(s, f)
    /\ kernel[s] + Cardinality({f \in Frames : refcnt[s][f] > 0}) = NumBufs

\* The queue of super buffers is what its loops take it for: match_cnt counts the
\* matched nodes and they come first in burst mode (otherwise the loops that trim
\* the queue to a mark never end), and at most one unmatched node more than allowed
\* is kept (otherwise the loop that drops one goes on from a freed node).
QueueConsistent ==
  /\ state # "stopped" => ch.match_cnt = Cardinality(Matched(ch.q))
  /\ Burst => Matched(ch.q) = 1 .. Ready(ch.q)
  /\ ~ch.hung
  /\ Cardinality(Unmatched(ch.q)) <= MaxUnmatched + 1

\* What the channel has matched, in the order in which it reaches the HAL.
Bundles == cbs \o [i \in 1 .. Ready(ch.q) |-> ch.q[i].slot]

\* With normal priority all buffers of a super buffer are of one frame, and super
\* buffers reach the HAL in the order of their frames, however the streams' frames
\* were delayed, skipped, flushed or discarded for the metadata's sake.
BundlesAgree ==
  ~Low => /\ \A i \in DOMAIN Bundles : \A s, t \in Streams :
               Bundles[i][s] = Bundles[i][t]
          /\ \A i, j \in DOMAIN Bundles : i < j => Bundles[i][Meta] < Bundles[j][Meta]

\* With enough buffers a stream never stops for want of one: when the threads are
\* idle and the HAL holds nothing, every stream has a buffer in the kernel.
NeverStarved ==
  /\ state = "active" /\ cmds = <<>> /\ cbs = <<>> /\ scmds = <<>> /\ scb = 0
  /\ \A s \in Streams, f \in Frames : held[s][f] = 0
  => \A s \in Streams : kernel[s] > 0

\* Metadata lent to the live snapshot channel goes back to the preview when that
\* channel is stopped in the middle of its work.
LentMetadataComesBack ==
  /\ state = "stopped" /\ use = "live" /\ scmds = <<>> /\ scb = 0
  /\ \A f \in Frames : held[Meta][f] = 0
  => kernel[Meta] = NumBufs

\* No buffer is kept from its stream: both of the above.
BuffersComeBack == NeverStarved /\ LentMetadataComesBack

\* The flash sequence of the backend lasts no longer than the request it is for.
ZslEndsWithRequest == ch.startZsl => ch.pending_cnt > 0

\* After NEED_FUTURE_FRAME, "Set expected frame id to a future frame idx, large
\* enough to wait for good_frame_idx_range" (mm_camera_channel.c:2088): for a single
\* picture no super buffer is dispatched before metadata has named the good frames,
\* unless the HAL flushes the queue.  (A burst does not wait: see the README.)
FutureFrameIsWaitedFor ==
  [][ awaits /\ awaits' => Len(cbs') <= Len(cbs) ]_vars
=============================================================================
