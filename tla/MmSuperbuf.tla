------------------------------ MODULE MmSuperbuf ------------------------------
(***************************************************************************)
(* The superbuf queue of a channel (mm_camera_channel.c): the command      *)
(* thread gathers the frames its bundled streams deliver by frame index,   *)
(* keeps the matched superbufs and hands those that were asked for to the  *)
(* callback thread.  Around it the kernel, which delivers frames of every  *)
(* stream in order but may lose some, the API, whose requests enter the    *)
(* same command queue, and the user, who returns the buffers.              *)
(*                                                                         *)
(* A buffer is the frame it holds, <<stream, frame>>.  The state the       *)
(* command thread works on, flags and queue, is the record ch, and its     *)
(* operations are functions of such records.                               *)
(***************************************************************************)
EXTENDS Integers, FiniteSets, SequencesExt

CONSTANTS
    Streams,        \* the streams of the bundle
    Meta,           \* the one that carries metadata
    Modes,          \* notify modes used: "BURST", "CONTINUOUS"
    Contents,       \* what metadata frames may say (see Metadata)
    Generals,       \* general commands the API uses
    water_mark, look_back, post_frame_skip, max_unmatched_frames,
    FutureOffset,   \* max_future_frame_offset, 100 in the code
    MaxFrame,       \* bound: frames per stream
    MaxCmds,        \* bound: commands in the queue when one more is sent
    MaxApi          \* bound: API commands

SuperbufAssumption ==
    /\ Meta \in Streams /\ IsFiniteSet(Streams)
    /\ {water_mark, look_back, post_frame_skip, max_unmatched_frames, FutureOffset,
        MaxFrame, MaxCmds, MaxApi} \subseteq Nat

VARIABLES
    ch,             \* the channel's flags and its superbuf queue
    cmd_queue,      \* commands to the command thread
    cb_queue,       \* superbufs for the callback thread
    delivered,      \* superbufs the user got, in order
    held,           \* buffers with the user
    returned,       \* buffers queued to the kernel again
    last,           \* last frame captured, per stream
    api             \* API commands so far

vars == <<ch, cmd_queue, cb_queue, delivered, held, returned, last, api>>

Frames == 1..MaxFrame

\* What a metadata frame says: nothing of interest, that prepare snapshot is
\* done (and whether future frames are needed), the range of good frames, both
\* of these, or that the crop of the snapshot stream is 1x.
Metadata ==
    {[kind |-> k] : k \in {"plain", "prep_future", "prep_done", "both", "crop_1x"}}
        \cup [kind : {"good"}, min : Frames, max : Frames, skip : {0, 1}]

Node == [frame_idx : Frames, bufs : SUBSET Streams, matched : BOOLEAN]

Channel ==
    [ list : Seq(Node), match_cnt : Nat, notify_mode : {"BURST", "CONTINUOUS"},
      expected_frame_id : Nat, expected_frame_id_without_led : Nat,
      led_off_start_frame_id : Nat, frame_skip_count : Nat, once : BOOLEAN,
      pending_cnt : Nat, pending_retro_cnt : Nat, burstSnapNum : Nat,
      bWaitForPrepSnapshotDone : BOOLEAN, needLEDFlash : BOOLEAN,
      stopZslSnapshot : BOOLEAN, unLockAEC : BOOLEAN, manualZSLSnapshot : BOOLEAN,
      startZSlSnapshotCalled : BOOLEAN, need3ABracketing : BOOLEAN,
      isFlashBracketingEnabled : BOOLEAN, isZoom1xFrameRequested : BOOLEAN,
      zsl : BOOLEAN,                    \* external: daemon prepares a snapshot
      out : Seq([frame_idx : Frames, bufs : SUBSET Streams, bReady : BOOLEAN,
                 bUnlockAEC : BOOLEAN]),    \* superbufs sent while handling
      qbuf : SUBSET (Streams \X Frames),    \* buffers returned while handling
      spin : BOOLEAN ]                  \* a loop that takes matched nodes spins

\* A new channel, or one whose bundle was initialised by mm_channel_start().
StartedChannel ==
    [ list |-> <<>>, match_cnt |-> 0, notify_mode |-> "BURST",
      expected_frame_id |-> 0, expected_frame_id_without_led |-> 0,
      led_off_start_frame_id |-> 0, frame_skip_count |-> 0, once |-> FALSE,
      pending_cnt |-> 0, pending_retro_cnt |-> 0, burstSnapNum |-> 0,
      bWaitForPrepSnapshotDone |-> FALSE, needLEDFlash |-> FALSE,
      stopZslSnapshot |-> FALSE, unLockAEC |-> FALSE, manualZSLSnapshot |-> FALSE,
      startZSlSnapshotCalled |-> FALSE, need3ABracketing |-> FALSE,
      isFlashBracketingEnabled |-> FALSE, isZoom1xFrameRequested |-> FALSE,
      zsl |-> FALSE, out |-> <<>>, qbuf |-> {}, spin |-> FALSE ]

TypeOK ==
    /\ ch \in Channel /\ ch.out = <<>> /\ ch.qbuf = {}
    /\ \A i \in DOMAIN cmd_queue :
         cmd_queue[i].type \in {"DATA", "REQ", "START_ZSL", "STOP_ZSL", "NOTIFY", "FLUSH", "GENERAL"}
    /\ held \subseteq Streams \X Frames /\ returned \subseteq Streams \X Frames
    /\ last \in [Streams -> 0..MaxFrame] /\ api \in 0..MaxApi

-----------------------------------------------------------------------------
(* The queue of superbufs. *)

BufsOf(node) == {<<s, node.frame_idx>> : s \in node.bufs}

MistakenHeadMatched(c) == c.list # <<>>

\* mm_channel_superbuf_dequeue_internal(): the head, if it may be taken.
HeadMatched(c) == c.list # <<>> /\ Head(c.list).matched

MistakenDequeue(c) == [c EXCEPT !.list = Tail(@)]

Dequeue(c) ==
    [c EXCEPT !.list = Tail(@),
              !.match_cnt = IF Head(c.list).matched THEN @ - 1 ELSE @]

\* The head's buffers go back to the kernel.
DropHead(c) == [Dequeue(c) EXCEPT !.qbuf = @ \cup BufsOf(Head(c.list))]

\* The loops that return matched superbufs until few are left: they take the
\* head only, so with an unmatched head they would never end.
DropMatchedAbove(c, limit) ==
    LET Step(d, node) == IF d.match_cnt > limit /\ HeadMatched(d) THEN DropHead(d) ELSE d
        dropped == FoldLeft(Step, c, c.list)
    IN  IF dropped.match_cnt > limit THEN [dropped EXCEPT !.spin = TRUE] ELSE dropped

BufdoneOverflow(c) ==
    IF c.notify_mode = "CONTINUOUS" THEN c ELSE DropMatchedAbove(c, water_mark)

Skip(c) ==
    IF c.notify_mode = "CONTINUOUS" THEN c ELSE DropMatchedAbove(c, look_back)

Flush(c) == FoldLeft(LAMBDA d, node : DropHead(d), c, c.list)

FlushMatched(c) ==
    FoldLeft(LAMBDA d, node : IF HeadMatched(d) THEN DropHead(d) ELSE d, c, c.list)

-----------------------------------------------------------------------------
(* mm_channel_handle_metadata(), with the metadata's content.              *)

Expect(c, id) == [c EXCEPT !.expected_frame_id = id]

\* A snapshot at 1x zoom was asked for: only a frame cropped to 1x will do.
WaitForZoom1x(c, frame, m) ==
    IF m.kind = "crop_1x"
    THEN [c EXCEPT !.isZoom1xFrameRequested = FALSE, !.expected_frame_id = frame + 1]
    ELSE FlushMatched(Expect(c, c.expected_frame_id + FutureOffset))

PrepSnapshotDone(c, needFuture) ==
    LET woken == [c EXCEPT !.bWaitForPrepSnapshotDone = FALSE]
    IN  IF needFuture
        THEN [Flush(Expect(woken, c.expected_frame_id + FutureOffset))
                EXCEPT !.needLEDFlash = TRUE]
        ELSE [woken EXCEPT !.needLEDFlash = FALSE]

GoodFrames(c, m) ==
    IF c.needLEDFlash /\ c.burstSnapNum > 1
    THEN [c EXCEPT !.expected_frame_id = m.min, !.led_off_start_frame_id = m.max,
                   !.once = FALSE, !.frame_skip_count = m.skip]
    ELSE Expect(c, m.min)

\* Bracketing ends, or for flash bracketing the frames without flash follow.
GoodFramesForBracketing(c, m) ==
    IF c.isFlashBracketingEnabled
    THEN [c EXCEPT !.expected_frame_id = m.min, !.expected_frame_id_without_led = m.max]
    ELSE [c EXCEPT !.expected_frame_id = m.min, !.need3ABracketing = FALSE]

\* The flash goes off after its frames: the rest of the burst is without it.
LedOff(c, frame) ==
    IF /\ c.burstSnapNum > 1 /\ c.needLEDFlash /\ ~c.isFlashBracketingEnabled
       /\ frame >= c.led_off_start_frame_id /\ ~c.once
    THEN [c EXCEPT !.expected_frame_id = c.led_off_start_frame_id + c.frame_skip_count,
                   !.once = TRUE, !.stopZslSnapshot = TRUE]
    ELSE c

HandleMetadata(c, frame, m) ==
    CASE c.isZoom1xFrameRequested            -> WaitForZoom1x(c, frame, m)
      [] ~c.isZoom1xFrameRequested ->
           LET first == CASE m.kind = "prep_future" -> PrepSnapshotDone(c, TRUE)
                          [] m.kind = "prep_done"   -> PrepSnapshotDone(c, FALSE)
                          [] m.kind = "good"        -> GoodFrames(c, m)
                          [] OTHER ->
                               IF c.need3ABracketing
                               THEN Expect(FlushMatched(c), c.expected_frame_id + FutureOffset)
                               ELSE c
               second == IF m.kind = "good" THEN GoodFramesForBracketing(first, m) ELSE first
           IN  LedOff(second, frame)

-----------------------------------------------------------------------------
(* mm_channel_superbuf_comp_and_enqueue(). *)

Return(c, s, f) == [c EXCEPT !.qbuf = @ \cup {<<s, f>>}]

Unmatched(c) == {i \in DOMAIN c.list : ~c.list[i].matched}
Older(c, f)  == {i \in Unmatched(c) : c.list[i].frame_idx < f}
Newer(c, f)  == {i \in Unmatched(c) : c.list[i].frame_idx > f}
First(I)     == CHOOSE i \in I : \A j \in I : i <= j

\* Remove the nodes with these positions and return their buffers.
RemoveNodes(c, I) ==
    [c EXCEPT !.list = [i \in 1..(Len(@) - Cardinality(I)) |->
                          @[CHOOSE k \in DOMAIN @ \ I :
                              Cardinality({j \in DOMAIN @ \ I : j <= k}) = i]],
              !.qbuf = @ \cup UNION {BufsOf(c.list[i]) : i \in I}]

\* A superbuf became complete: the next one expected.
ExpectAfterMatch(c, f) ==
    IF c.isFlashBracketingEnabled
    THEN [c EXCEPT !.expected_frame_id = c.expected_frame_id_without_led,
                   !.isFlashBracketingEnabled = f < c.expected_frame_id_without_led]
    ELSE Expect(c, f + post_frame_skip)

\* The frame's superbuf is there, at position pos.  If it is now complete,
\* everything from the first older unmatched superbuf up to it is returned.
JoinSuperbuf(c, s, f, pos) ==
    LET joined   == [c.list[pos] EXCEPT !.bufs = @ \cup {s}]
        complete == joined.bufs = Streams
        filled   == [c EXCEPT !.list[pos] = [joined EXCEPT !.matched = complete]]
        older    == {i \in Older(c, f) : i < pos}
    IN  IF ~complete
        THEN filled
        ELSE LET counted == [ExpectAfterMatch(filled, f) EXCEPT !.match_cnt = @ + 1]
             IN  IF older = {} THEN counted
                 ELSE RemoveNodes(counted, First(older)..(pos - 1))

\* A new superbuf, before the first newer unmatched one; with too many
\* unmatched ones the first older one makes room, or else the frame is dropped.
NewSuperbuf(c, s, f) ==
    LET tooMany == max_unmatched_frames < Cardinality(Unmatched(c))
        room    == IF tooMany THEN RemoveNodes(c, {First(Older(c, f))}) ELSE c
        single  == Streams = {s}
        node    == [frame_idx |-> f, bufs |-> {s}, matched |-> single]
        at      == IF Newer(room, f) = {} THEN Len(room.list) + 1 ELSE First(Newer(room, f))
        added   == [room EXCEPT !.list = InsertAt(@, at, node)]
    IN  IF tooMany /\ Older(c, f) = {}
        THEN Return(c, s, f)
        ELSE IF single
             THEN [Expect(added, f + post_frame_skip) EXCEPT !.match_cnt = @ + 1]
             ELSE added

CompAndEnqueue(c, s, f, m) ==
    LET seen == IF s = Meta THEN HandleMetadata(c, f, m) ELSE c
        same == {i \in Unmatched(seen) : seen.list[i].frame_idx = f}
    IN  IF s = Meta /\ m.kind = "both"
        THEN Return(c, s, f)
        ELSE IF f < seen.expected_frame_id
             THEN Return(seen, s, f)
             ELSE IF same # {} THEN JoinSuperbuf(seen, s, f, First(same))
                               ELSE NewSuperbuf(seen, s, f)

-----------------------------------------------------------------------------
(* mm_channel_process_stream_buf(): one command of the command thread. *)

Request(c, num, retro) ==
    Skip([c EXCEPT !.pending_cnt = num,
                   !.pending_retro_cnt = IF num = 0 \/ retro > num THEN num ELSE retro,
                   !.needLEDFlash = @ /\ ~((IF num = 0 \/ retro > num THEN num ELSE retro) > 0),
                   !.bWaitForPrepSnapshotDone = FALSE,
                   !.stopZslSnapshot = FALSE, !.unLockAEC = FALSE])

GeneralCmd(c, type, start) ==
    CASE type = "BRACKETING"       -> [Flush(c) EXCEPT !.need3ABracketing = start]
      [] type = "FLASH_BRACKETING" -> [c EXCEPT !.isFlashBracketingEnabled = start]
      [] type = "ZOOM_1X"          -> [c EXCEPT !.isZoom1xFrameRequested = start]

Apply(c, cmd, m) ==
    CASE cmd.type = "DATA"      -> CompAndEnqueue(c, cmd.stream, cmd.frame, m)
      [] cmd.type = "REQ"       -> Request(c, cmd.num, cmd.retro)
      [] cmd.type = "START_ZSL" -> [c EXCEPT !.manualZSLSnapshot = TRUE, !.zsl = TRUE]
      [] cmd.type = "STOP_ZSL"  -> [c EXCEPT !.manualZSLSnapshot = FALSE, !.zsl = FALSE]
      [] cmd.type = "NOTIFY"    -> [c EXCEPT !.notify_mode = cmd.mode]
      [] cmd.type = "GENERAL"   -> GeneralCmd(c, cmd.general, cmd.start)

\* The snapshot the daemon prepares starts with a request that needs the flash
\* or bracketing and stops with the last superbuf, or when told to.
StartZslSnapshot(c) ==
    [c EXCEPT !.zsl = TRUE, !.startZSlSnapshotCalled = TRUE, !.burstSnapNum = c.pending_cnt,
              !.bWaitForPrepSnapshotDone = FALSE, !.needLEDFlash = FALSE]

StopZslSnapshot(c) ==
    [c EXCEPT !.zsl = FALSE, !.startZSlSnapshotCalled = FALSE, !.burstSnapNum = 0,
              !.stopZslSnapshot = FALSE, !.unLockAEC = TRUE]

MayStopZsl(c) ==
    /\ c.pending_cnt = 0 \/ c.stopZslSnapshot
    /\ ~c.manualZSLSnapshot /\ c.startZSlSnapshotCalled

ZslSnapshot(c) ==
    IF /\ c.pending_cnt > 0 /\ (c.needLEDFlash \/ c.need3ABracketing)
       /\ ~c.manualZSLSnapshot /\ ~c.startZSlSnapshotCalled
    THEN StartZslSnapshot(c)
    ELSE IF MayStopZsl(c)
    THEN [StopZslSnapshot(c) EXCEPT !.needLEDFlash = FALSE, !.need3ABracketing = FALSE,
                                    !.bWaitForPrepSnapshotDone = FALSE]
    ELSE c

\* One superbuf for the callback thread.  The last of the retro superbufs is
\* marked for prepare snapshot, and nothing follows it until that is done.
Count(c) ==
    IF c.notify_mode # "BURST"
    THEN c
    ELSE LET counted == [c EXCEPT !.pending_cnt = @ - 1,
                                  !.pending_retro_cnt = IF @ > 0 THEN @ - 1 ELSE @,
                                  !.bWaitForPrepSnapshotDone = @ \/ c.pending_retro_cnt = 1]
         IN  IF MayStopZsl(counted) THEN StopZslSnapshot(counted) ELSE counted

DispatchOne(c) ==
    LET counted == Count(c)
        node    == Head(c.list)
    IN  [Dequeue(counted) EXCEPT
           !.out = Append(@, [frame_idx |-> node.frame_idx, bufs |-> node.bufs,
                              bReady |-> c.notify_mode = "BURST" /\ c.pending_retro_cnt = 1,
                              bUnlockAEC |-> counted.unLockAEC]),
           !.unLockAEC = FALSE]

MistakenWanted(c) == c.pending_cnt > 0 \/ c.notify_mode = "CONTINUOUS"

Wanted(c) ==
    /\ c.pending_cnt > 0 \/ c.notify_mode = "CONTINUOUS"
    /\ ~c.bWaitForPrepSnapshotDone

Dispatch(c) ==
    FoldLeft(LAMBDA d, node : IF Wanted(d) /\ HeadMatched(d) THEN DispatchOne(d) ELSE d,
             c, c.list)

ProcessStreamBuf(c, cmd, m) ==
    IF cmd.type = "FLUSH"
    THEN Flush(Expect(c, cmd.frame))
    ELSE Dispatch(BufdoneOverflow(ZslSnapshot(Apply(c, cmd, m))))

-----------------------------------------------------------------------------

Init ==
    /\ ch \in {[StartedChannel EXCEPT !.notify_mode = mode] : mode \in Modes}
    /\ cmd_queue = <<>> /\ cb_queue = <<>> /\ delivered = <<>>
    /\ held = {} /\ returned = {}
    /\ last = [s \in Streams |-> 0] /\ api = 0

\* The poll thread reads a frame, perhaps not the next one, and enqueues it.
Capture(s, f) ==
    /\ f > last[s]
    /\ Len(cmd_queue) < MaxCmds
    /\ last' = [last EXCEPT ![s] = f]
    /\ cmd_queue' = Append(cmd_queue, [type |-> "DATA", stream |-> s, frame |-> f])
    /\ UNCHANGED <<ch, cb_queue, delivered, held, returned, api>>

\* The API's commands.  A cancel is a request for none.
ApiCmds ==
    [type : {"REQ"}, num : 0..2, retro : 0..2]
      \cup [type : {"START_ZSL", "STOP_ZSL"}]
      \cup [type : {"NOTIFY"}, mode : Modes]
      \cup [type : {"FLUSH"}, frame : {0}]
      \cup [type : {"GENERAL"}, general : Generals, start : BOOLEAN]

SendCmd(cmd) ==
    /\ api < MaxApi /\ Len(cmd_queue) < MaxCmds
    /\ api' = api + 1
    /\ cmd_queue' = Append(cmd_queue, cmd)
    /\ UNCHANGED <<ch, cb_queue, delivered, held, returned, last>>

Handle ==
    /\ cmd_queue # <<>> /\ ~ch.spin
    /\ cmd_queue' = Tail(cmd_queue)
    /\ \E m \in IF Head(cmd_queue).type = "DATA" /\ Head(cmd_queue).stream = Meta
                THEN {x \in Metadata : x.kind \in Contents} ELSE {[kind |-> "plain"]} :
         LET done == ProcessStreamBuf(ch, Head(cmd_queue), m)
         IN  /\ ch' = [done EXCEPT !.out = <<>>, !.qbuf = {}]
             /\ cb_queue' = cb_queue \o done.out
             /\ returned' = returned \cup done.qbuf
    /\ UNCHANGED <<delivered, held, last, api>>

\* mm_channel_dispatch_super_buf().
DispatchSuperBuf ==
    /\ cb_queue # <<>>
    /\ cb_queue' = Tail(cb_queue)
    /\ delivered' = Append(delivered, Head(cb_queue))
    /\ held' = held \cup BufsOf(Head(cb_queue))
    /\ UNCHANGED <<ch, cmd_queue, returned, last, api>>

UserReturns(buf) ==
    /\ buf \in held
    /\ held' = held \ {buf}
    /\ returned' = returned \cup {buf}
    /\ UNCHANGED <<ch, cmd_queue, cb_queue, delivered, last, api>>

Next ==
    \/ \E s \in Streams, f \in Frames : Capture(s, f)
    \/ \E cmd \in ApiCmds : SendCmd(cmd)
    \/ Handle
    \/ DispatchSuperBuf
    \/ \E buf \in held : UserReturns(buf)

Spec == Init /\ [][Next]_vars

-----------------------------------------------------------------------------
(* Properties. *)

\* match_cnt counts the matched superbufs and all of them are in front: the
\* loops in mm_channel_superbuf_bufdone_overflow() and _skip(), which hold the
\* queue's lock and take only a matched head, always end.
LoopsEnd ==
    /\ ~ch.spin
    /\ ch.match_cnt = Cardinality({i \in DOMAIN ch.list : ch.list[i].matched})
    /\ \A i, j \in DOMAIN ch.list : i < j /\ ch.list[j].matched => ch.list[i].matched

\* Every captured buffer is in exactly one place: a command, a superbuf, the
\* callback queue, the user's hands, or back in the kernel.  None leaks when
\* superbufs are skipped, flushed, thrown out or overflow, and none is queued
\* to the kernel while someone may still read it.
Commanded == {<<cmd_queue[i].stream, cmd_queue[i].frame>> :
                i \in {k \in DOMAIN cmd_queue : cmd_queue[k].type = "DATA"}}
Gathered  == UNION {BufsOf(ch.list[i]) : i \in DOMAIN ch.list}
Announced == UNION {BufsOf(cb_queue[i]) : i \in DOMAIN cb_queue}
Places    == <<Commanded, Gathered, Announced, held, returned>>

BufferHasOneOwner ==
    \A i, j \in DOMAIN Places : i # j => Places[i] \cap Places[j] = {}

Captured == Commanded \cup Gathered \cup Announced \cup held \cup returned

NoBufferLost ==
    [][\A i \in DOMAIN Places : Places[i] \subseteq Captured']_vars

\* What the user gets is complete, one buffer of every stream, and the frames
\* come in ascending order whatever the metadata did to the expected frame.
Sent == delivered \o cb_queue

SuperbufsInOrder ==
    /\ \A i \in DOMAIN Sent : Sent[i].bufs = Streams
    /\ \A i, j \in DOMAIN Sent : i < j => Sent[i].frame_idx < Sent[j].frame_idx

\* A snapshot the daemon was told to prepare is stopped with the last superbuf
\* of the request, by a cancel, or by the API that started it by hand.
PreparedOnlyForRequests ==
    ch.startZSlSnapshotCalled => ch.pending_cnt > 0 \/ ch.manualZSLSnapshot

\* Between the last retro superbuf and the daemon's answer to prepare snapshot
\* nothing is sent but for a new request: the frames before it have the wrong
\* exposure.
NothingSentWhileWaiting ==
    [][ch.bWaitForPrepSnapshotDone /\ ch'.bWaitForPrepSnapshotDone
         /\ Len(cb_queue') > Len(cb_queue) => Head(cmd_queue).type = "REQ"]_vars

=============================================================================
