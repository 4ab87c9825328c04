------------------------------- MODULE MmStream -------------------------------
(***************************************************************************)
(* A stream of mm_camera_stream.c with the threads that move its buffers:  *)
(* the control thread that configures, starts and stops it under the       *)
(* channel's lock, the poll thread that reads frames, the stream's command *)
(* thread that calls back, and the users (the application of the callback, *)
(* the superbuf queue of the channel) that return buffers without that     *)
(* lock.  The poll thread's own protocol is PollThread.                    *)
(*                                                                         *)
(* buf_lock makes one step of what is done under it.  The user returns its *)
(* buffers before the stream is fully stopped or forgets them, as          *)
(* mm_camera_qbuf() assumes.                                               *)
(***************************************************************************)
EXTENDS Naturals, Sequences, FiniteSets

CONSTANTS
    Buffers,
    Bundled,        \* the channel gathers superbufs (is_bundled)
    HasCb,          \* a callback is registered for the stream
    InitiallyHeld,  \* buffers without initial_reg_flag: the user has them
    MaxPipe         \* bound of PollThread

StreamAssumption ==
    /\ IsFiniteSet(Buffers) /\ InitiallyHeld \subseteq Buffers
    /\ Bundled \in BOOLEAN /\ HasCb \in BOOLEAN /\ (Bundled \/ HasCb)
    /\ Buffers \cap {"none", "wait", "EXIT"} = {}   \* names of no meaning

VARIABLES
    state, thread, ctl, pipe, entry, armed, released,   \* of PollThread
    st,             \* the stream's state
    pc,             \* where the control thread is in START or STOP
    streaming,      \* kernel: between STREAMON and STREAMOFF
    queued,         \* queued_buffer_count
    refcnt,         \* buf_refcnt of each buffer
    kernel,         \* buffers queued to the kernel
    filled,         \* those of them that hold a frame
    poll,           \* where the poll thread is in the data callback
    frame,          \* the buffer it read, as a set
    cbq,            \* the stream's command queue: buffers and "EXIT"
    cmd,            \* its command thread: "none", "wait" or the buffer in a callback
    exiting,        \* it has taken EXIT
    uses,           \* <<who, buffer>>: the user or the channel has it
    returning,      \* buffers given back whose user saw the stream active
    readded         \* history: the descriptor was added again during a STOP

Poll == INSTANCE PollThread

pollVars   == <<state, thread, ctl, pipe, entry, armed, released>>
bufVars    == <<queued, refcnt, kernel, filled>>
threadVars == <<poll, frame, cbq, cmd, exiting>>
userVars   == <<uses, returning>>
ctlVars    == <<st, pc, streaming>>
vars       == <<pollVars, bufVars, threadVars, userVars, ctlVars, readded>>

Users == {"user", "channel"}
Stopping == {"step1", "streamoff", "release", "join"}

TypeOK ==
    /\ st \in {"INITED", "ACQUIRED", "CFG", "BUFFED", "REG", "ACTIVE", "NOTUSED"}
    /\ pc \in {"idle", "on_failed", "unreg", "put"} \cup Stopping
    /\ streaming \in BOOLEAN /\ readded \in BOOLEAN
    /\ queued \in 0..Cardinality(Buffers)
    /\ refcnt \in [Buffers -> 0..4]
    /\ filled \subseteq kernel /\ kernel \subseteq Buffers
    /\ poll \in {"poll", "notify", "read", "counted", "accounted"}
    /\ frame \subseteq Buffers /\ Cardinality(frame) <= 1
    /\ \A i \in DOMAIN cbq : cbq[i] \in Buffers \cup {"EXIT"}
    /\ cmd \in {"none", "wait"} \cup Buffers /\ exiting \in BOOLEAN
    /\ uses \subseteq Users \X Buffers /\ returning \subseteq Users \X Buffers

\* The channel launched its poll thread and initialised the stream.
\* The poll thread runs, and the stream is added with nothing registered.
InitPolling ==
    /\ state = "POLL" /\ thread = "polling" /\ ctl = "idle" /\ pipe = <<>>
    /\ entry = FALSE /\ armed = FALSE /\ released = FALSE
InitAdded ==
    /\ st = "INITED" /\ pc = "idle" /\ streaming = FALSE
    /\ queued = 0 /\ refcnt = [b \in Buffers |-> 0] /\ kernel = {} /\ filled = {}
    /\ poll = "poll" /\ frame = {} /\ cbq = <<>> /\ cmd = "none" /\ exiting = FALSE
    /\ uses = {} /\ returning = {} /\ readded = FALSE
Init == InitPolling /\ InitAdded

-----------------------------------------------------------------------------
(* Buffers, under buf_lock. *)

\* mm_stream_qbuf(): the first buffer of an empty queue starts the polling.
Qbuf(b) ==
    /\ queued' = queued + 1
    /\ kernel' = kernel \cup {b}
    /\ IF queued = 0 THEN Poll!AddPollFd(FALSE) ELSE UNCHANGED pollVars
    /\ readded' = (readded \/ (queued = 0 /\ pc \in Stopping))

\* mm_stream_buf_done(): back to the kernel when its last user returns it.
BufDone(b) ==
    IF refcnt[b] = 0
    THEN UNCHANGED <<refcnt, queued, kernel, pollVars, readded>>
    ELSE /\ refcnt' = [refcnt EXCEPT ![b] = @ - 1]
         /\ IF refcnt[b] = 1 THEN Qbuf(b)
                             ELSE UNCHANGED <<queued, kernel, pollVars, readded>>

DelAsync == IF entry THEN Poll!DelPollFd(FALSE) ELSE UNCHANGED pollVars

\* A synchronous delete, or a wait for the asynchronous one that came first.
DelSync == IF entry THEN Poll!DelPollFd(TRUE) ELSE Poll!CommitUpdates

-----------------------------------------------------------------------------
(* The control thread.  mm_channel_stop() has STOP followed by UNREG_BUF and *)
(* PUT_BUF.                                                                  *)

Idle(from) == pc = "idle" /\ st \in from

Acquire ==
    /\ Idle({"INITED"}) /\ st' = "ACQUIRED"
    /\ UNCHANGED <<pollVars, bufVars, threadVars, userVars, pc, streaming, readded>>

\* The state is CFG even when mm_stream_config() failed.
SetFmt ==
    /\ Idle({"ACQUIRED", "CFG"}) /\ st' = "CFG"
    /\ UNCHANGED <<pollVars, bufVars, threadVars, userVars, pc, streaming, readded>>

ReleaseStream ==
    /\ Idle({"ACQUIRED", "CFG"}) /\ st' = "NOTUSED"
    /\ UNCHANGED <<pollVars, bufVars, threadVars, userVars, pc, streaming, readded>>

\* A buffer returned while the stream stops may have it polled again, see
\* StoppedNotPolled; starts after that are left out.
GetBufs ==
    /\ Idle({"CFG"}) /\ ~readded
    /\ st' = "BUFFED"
    /\ refcnt' = [b \in Buffers |-> 0]
    /\ UNCHANGED <<pollVars, queued, kernel, filled, threadVars, userVars, pc, streaming, readded>>

\* Buffers without the flag are with the user, who has a reference.
RegBufs ==
    /\ Idle({"BUFFED"}) /\ st' = "REG"
    /\ refcnt' = [b \in Buffers |-> IF b \in InitiallyHeld THEN 1 ELSE 0]
    /\ kernel' = Buffers \ InitiallyHeld /\ queued' = Cardinality(kernel')
    /\ IF kernel' # {} THEN Poll!AddPollFd(FALSE) ELSE UNCHANGED pollVars
    /\ uses' = {"user"} \X InitiallyHeld
    /\ UNCHANGED <<filled, threadVars, returning, pc, streaming, readded>>

Start ==
    /\ Idle({"REG"})
    /\ cmd' = IF HasCb THEN "wait" ELSE "none"
    /\ st' = "ACTIVE"
    /\ \/ streaming' = TRUE /\ pc' = "idle"
       \/ streaming' = FALSE /\ pc' = "on_failed"
    /\ UNCHANGED <<pollVars, bufVars, poll, frame, cbq, exiting, userVars, readded>>

\* STREAMON failed, or STOP: first the descriptor is deleted synchronously.

Stop ==
    /\ Idle({"ACTIVE"}) \/ pc = "on_failed"
    /\ DelSync
    /\ pc' = "step1"
    /\ UNCHANGED <<bufVars, threadVars, userVars, st, streaming, readded>>

Step1Done ==
    /\ pc = "step1" /\ ctl = "idle"
    /\ pc' = "streamoff"
    /\ UNCHANGED <<pollVars, bufVars, threadVars, userVars, st, streaming, readded>>

\* step2: the kernel gives up all buffers; queued_buffer_count stays.
StreamOff ==
    /\ pc = "streamoff"
    /\ streaming' = FALSE /\ kernel' = {} /\ filled' = {}
    /\ pc' = "release"
    /\ UNCHANGED <<pollVars, queued, refcnt, threadVars, userVars, st, readded>>

ReleaseCmdThread ==
    /\ pc = "release"
    /\ IF HasCb THEN cbq' = Append(cbq, "EXIT") ELSE UNCHANGED cbq
    /\ pc' = "join"
    /\ UNCHANGED <<pollVars, bufVars, poll, frame, cmd, exiting, userVars, st, streaming, readded>>

Stopped ==
    /\ pc = "join" /\ cmd = "none"
    /\ pc' = "unreg" /\ st' = "REG" /\ cbq' = <<>>
    /\ UNCHANGED <<pollVars, bufVars, poll, frame, cmd, exiting, userVars, streaming, readded>>

\* Whoever still holds a buffer forgets it.
UnregBufs ==
    /\ pc = "unreg" /\ returning = {}
    /\ pc' = "put" /\ st' = "BUFFED"
    /\ kernel' = {} /\ filled' = {} /\ refcnt' = [b \in Buffers |-> 0]
    /\ uses' = {}
    /\ UNCHANGED <<pollVars, queued, threadVars, returning, streaming, readded>>

PutBufs ==
    /\ pc = "put" /\ pc' = "idle" /\ st' = "CFG"
    /\ UNCHANGED <<pollVars, bufVars, threadVars, userVars, streaming, readded>>

-----------------------------------------------------------------------------
(* The kernel and the poll thread. *)

Fill(b) ==
    /\ streaming /\ b \in kernel \ filled
    /\ filled' = filled \cup {b}
    /\ UNCHANGED <<pollVars, queued, refcnt, kernel, threadVars, userVars, ctlVars, readded>>

PollPipe ==
    /\ poll = "poll"
    /\ Poll!ProcPipe
    /\ UNCHANGED <<bufVars, threadVars, userVars, ctlVars, readded>>

\* poll() reports data and nothing in the pipe; the entry's callback is there
\* and finds the stream active.
Notify ==
    /\ poll = "poll" /\ pipe = <<>> /\ armed /\ filled # {}
    /\ entry /\ st = "ACTIVE"
    /\ poll' = "notify"
    /\ UNCHANGED <<pollVars, bufVars, frame, cbq, cmd, exiting, userVars, ctlVars, readded>>

\* DQBUF, which fails when the stream was switched off in between.
ReadFrame ==
    /\ poll = "notify"
    /\ \/ /\ filled = {} /\ poll' = "poll"
          /\ UNCHANGED <<filled, kernel, frame>>
       \/ \E b \in filled :
            /\ filled' = filled \ {b} /\ kernel' = kernel \ {b}
            /\ frame' = {b} /\ poll' = "read"
    /\ UNCHANGED <<pollVars, queued, refcnt, cbq, cmd, exiting, userVars, ctlVars, readded>>

\* With nothing queued there is nothing to poll for.
CountRead ==
    /\ poll = "read" /\ poll' = "counted"
    /\ queued' = queued - 1
    /\ IF queued = 1 THEN DelAsync ELSE UNCHANGED pollVars
    /\ UNCHANGED <<refcnt, kernel, filled, frame, cbq, cmd, exiting, userVars, ctlVars, readded>>

MistakenAccount ==
    /\ poll = "counted" /\ poll' = "accounted"
    /\ refcnt' = [b \in Buffers |->
          IF b \in frame THEN refcnt[b] + 1 ELSE refcnt[b]]
    /\ UNCHANGED <<pollVars, queued, kernel, filled, frame, cbq, cmd, exiting, userVars, ctlVars, readded>>

\* One reference for the superbuf and one for the callbacks.
Account ==
    /\ poll = "counted" /\ poll' = "accounted"
    /\ refcnt' = [b \in Buffers |->
          IF b \in frame THEN refcnt[b] + (IF Bundled THEN 1 ELSE 0) + (IF HasCb THEN 1 ELSE 0)
                         ELSE refcnt[b]]
    /\ UNCHANGED <<pollVars, queued, kernel, filled, frame, cbq, cmd, exiting, userVars, ctlVars, readded>>

HandleRcvdBuf ==
    /\ poll = "accounted" /\ poll' = "poll" /\ frame' = {}
    /\ \E b \in frame :
         /\ uses' = IF Bundled THEN uses \cup {<<"channel", b>>} ELSE uses
         /\ cbq'  = IF HasCb THEN Append(cbq, b) ELSE cbq
    /\ UNCHANGED <<pollVars, bufVars, cmd, exiting, returning, ctlVars, readded>>

-----------------------------------------------------------------------------
(* The stream's command thread, mm_stream_dispatch_app_data(). *)

\* EXIT ends the thread when the queue is drained.
TakeCmd ==
    /\ cmd = "wait" /\ cbq # <<>>
    /\ cbq' = Tail(cbq)
    /\ IF Head(cbq) = "EXIT"
       THEN exiting' = TRUE /\ UNCHANGED <<cmd, refcnt, uses>>
       ELSE /\ cmd' = Head(cbq) /\ UNCHANGED exiting
            /\ refcnt' = [refcnt EXCEPT ![Head(cbq)] = @ + 1]
            /\ uses' = uses \cup {<<"user", Head(cbq)>>}
    /\ UNCHANGED <<pollVars, queued, kernel, filled, poll, frame, returning, ctlVars, readded>>

CallbackDone ==
    /\ cmd \in Buffers /\ cmd' = "wait"
    /\ BufDone(cmd)
    /\ UNCHANGED <<filled, poll, frame, cbq, exiting, userVars, ctlVars>>

CmdThreadEnds ==
    /\ exiting /\ cmd = "wait" /\ cbq = <<>>
    /\ cmd' = "none" /\ exiting' = FALSE
    /\ UNCHANGED <<pollVars, bufVars, poll, frame, cbq, userVars, ctlVars, readded>>

-----------------------------------------------------------------------------
(* A user returns a buffer: mm_stream_fsm_fn(QBUF) looks at the state first. *)
(* Buffers that were with the window come back in callbacks, not before the  *)
(* stream is started.                                                        *)

UserReturns(w, b) ==
    /\ <<w, b>> \in uses /\ ~Idle({"REG"})
    /\ uses' = uses \ {<<w, b>>}
    /\ returning' = IF st = "ACTIVE" THEN returning \cup {<<w, b>>} ELSE returning
    /\ UNCHANGED <<pollVars, bufVars, threadVars, ctlVars, readded>>

UserBufDone(w, b) ==
    /\ <<w, b>> \in returning
    /\ returning' = returning \ {<<w, b>>}
    /\ BufDone(b)
    /\ UNCHANGED <<filled, threadVars, uses, ctlVars>>

Control ==
    \/ Acquire \/ SetFmt \/ ReleaseStream \/ GetBufs \/ RegBufs \/ Start \/ Stop
Continue == Step1Done \/ StreamOff \/ ReleaseCmdThread \/ Stopped \/ UnregBufs \/ PutBufs
FailedStart == pc = "on_failed" /\ Stop
PollThreadRuns == PollPipe \/ Notify \/ ReadFrame \/ CountRead \/ Account \/ HandleRcvdBuf
CmdThreadRuns == TakeCmd \/ CallbackDone \/ CmdThreadEnds

Next ==
    \/ Control \/ Continue \/ PollThreadRuns \/ CmdThreadRuns
    \/ \E b \in Buffers : Fill(b)
    \/ \E w \in Users, b \in Buffers : UserReturns(w, b) \/ UserBufDone(w, b)

Fairness ==
    /\ WF_vars(FailedStart) /\ WF_vars(Continue)
    /\ WF_vars(PollThreadRuns) /\ WF_vars(CmdThreadRuns)
    /\ WF_vars(\E w \in Users, b \in Buffers : UserBufDone(w, b))

Spec == Init /\ [][Next]_vars /\ Fairness

-----------------------------------------------------------------------------
(* Properties. *)

Count(S) == Cardinality(S)

\* Each reference of a buffer has somebody who will return it, and each one
\* who holds it has a reference, while the stream is started.
Holders(b) ==
    Count({w \in Users : <<w, b>> \in uses}) + Count({w \in Users : <<w, b>> \in returning})
      + Count({i \in DOMAIN cbq : cbq[i] = b}) + (IF cmd = b THEN 1 ELSE 0)
      + (IF poll = "accounted" /\ b \in frame
         THEN (IF Bundled THEN 1 ELSE 0) + (IF HasCb THEN 1 ELSE 0) ELSE 0)

RefsHaveHolders ==
    st = "ACTIVE" /\ pc \in {"idle", "step1", "streamoff"} =>
      \A b \in Buffers : refcnt[b] = Holders(b)

\* The kernel fills no buffer somebody reads, and no started stream loses one.
KernelOwnsAlone ==
    st = "ACTIVE" /\ pc \in {"idle", "step1", "streamoff"} =>
      \A b \in Buffers : (b \in kernel) = (Holders(b) = 0 /\ b \notin frame)

\* While the stream runs and buffers are queued, the poll thread polls it or
\* has the command to: no order of reads and returns, each of which may start
\* or stop the polling, leaves frames unread.
PolledWhileQueued ==
    st = "ACTIVE" /\ pc = "idle" /\ queued > 0
      => entry /\ (armed \/ Poll!Pending({"UPDATED", "UPDATED_ASYNC"}))

\* After step 1 of mm_stream_streamoff() the poll thread is in no callback of
\* the stream, unless a buffer returned meanwhile had it polled again.
QuietAfterStep1 ==
    pc \in {"streamoff", "release", "join"} /\ ~readded => ~armed /\ poll = "poll"

\* All of these.
StreamSound ==
    TypeOK /\ RefsHaveHolders /\ KernelOwnsAlone /\ PolledWhileQueued /\ QuietAfterStep1

\* STOP, and a START that failed, return: the joins and waits for two other
\* threads, which add and delete the descriptor themselves, do not block it.
StopReturns == pc # "idle" ~> pc = "idle"

\* mm_stream_streamoff() says "step1: remove fd from data poll thread", and
\* mm_camera_qbuf() that buffers are returned "before channel/stream is fully
\* stopped": a stopped stream should not be polled.
StoppedNotPolled == st = "CFG" => ~entry

=============================================================================
