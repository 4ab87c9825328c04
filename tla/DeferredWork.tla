------------------------------ MODULE DeferredWork ------------------------------
(***************************************************************************)
(* The deferred work of QCamera2HardwareInterface.  The state machine's     *)
(* thread builds the channels of the preview and of a picture; a second     *)
(* thread allocates the buffers of their streams and starts the post        *)
(* processor; the channel's own thread brings the frames.  They meet in     *)
(* mDeffOngoingJobs[] and on one condition, mDeffCond.                       *)
(*                                                                          *)
(* An operation of the state machine's thread is a sequence of steps, one   *)
(* for each call another thread may see the effect of; a step may fail      *)
(* where MayFail says so.  Buffers are only there or not there.             *)
(***************************************************************************)
EXTENDS Integers, FiniteSets, SequencesExt

CONSTANTS
    MaxJobs,        \* MAX_ONGOING_JOBS
    Previews,       \* how the preview may be started
    Pictures,       \* and a picture taken
    RawYuv,         \* persist.camera.raw_yuv
    EarlyCancel,    \* cancel_picture() may come before the picture is done
    MayFail         \* <<operation, step>> pairs that may fail

DeferredAssumption ==
    /\ MaxJobs \in Nat \ {0}
    /\ Previews \subseteq {"normal", "video", "zsl"}
    /\ Pictures \subseteq {"jpeg", "longshot", "raw"}
    /\ {RawYuv, EarlyCancel} \subseteq BOOLEAN

Slots == 0 .. MaxJobs - 1
Jobs == {"snapshot", "postview", "metadata", "reproc", "raw"}
Types == {"metadata", "preview", "postview", "snapshot", "raw", "video"}
Kinds == {"PREVIEW", "VIDEO", "SNAPSHOT", "CAPTURE", "RAW", "ZSL"}
Ids == 1..5         \* channel objects; as many as can be referred to at once
NoChannel == 0
NoWork == [cmd |-> "none", id |-> 0, ch |-> NoChannel, type |-> "none"]

VARIABLES
    mDeffOngoingJobs,
    mCmdQueue,
    dw,             \* work the deferred thread has in hand
    deleting,       \* it is in delChannel(), the start having failed
    job,            \* mSnapshotJob, mPostviewJob, mMetadataJob, mReprocJob, mRawdataJob
    wait,           \* of the two other threads, in waitDefferedWork()
    m_channels,
    building,       \* channel add...Channel() has not installed yet
    streams,        \* of each channel: its streams and where their buffers are
    active,         \* channels that stream
    post,           \* source channel of the started post processor
    sm,             \* operation of the state machine's thread and its step
    phase,          \* what is running: nothing, the preview, a picture
    cb,             \* the capture channel's callback thread
    done,           \* the picture is done
    fault           \* what the program died of

vars == <<mDeffOngoingJobs, mCmdQueue, dw, deleting, job, wait, m_channels,
          building, streams, active, post, sm, phase, cb, done, fault>>

S(do, arg) == [do |-> do, arg |-> arg]
Idle == [op |-> "idle", pc |-> 1]
Threads == {"sm", "cb"}
Dead == <<>>        \* streams of an object that does not exist
Alive(c) == streams[c] # Dead

----------------------------------------------------------------------------
\* The operations, step by step.
AddPreviewChannel == <<S("new", "PREVIEW"), S("add", "metadata"),
                       S("add", "preview"), S("install", "PREVIEW")>>
AddVideoChannel == <<S("new", "VIDEO"), S("add", "video"), S("install", "VIDEO")>>
AddSnapshotChannel == <<S("new", "SNAPSHOT"), S("add", "snapshot"), S("install", "SNAPSHOT")>>
AddZSLChannel ==
    <<S("drop", "PREVIEW"), S("new", "ZSL"), S("add", "metadata"),
      S("add", "preview"), S("add", "snapshot")>>
        \o (IF RawYuv THEN <<S("add", "raw")>> ELSE <<>>) \o <<S("install", "ZSL")>>
AddRawChannel ==
    <<S("new", "RAW"), S("add", "metadata"), S("wait", "metadata"),
      S("add", "raw"), S("wait", "raw"), S("install", "RAW")>>
AddCaptureChannel(op) ==
    <<S("new", "CAPTURE"), S("add", "metadata"),
      S("add", IF op = "longshot" THEN "preview" ELSE "postview"), S("add", "snapshot")>>
        \o (IF RawYuv THEN <<S("add", "raw")>> ELSE <<>>) \o <<S("install", "CAPTURE")>>

AddRecordingChannels == AddSnapshotChannel \o AddVideoChannel
PreparePreview(op) ==
    CASE op = "zsl"    -> AddZSLChannel
      [] op = "video"  -> AddRecordingChannels \o AddPreviewChannel
      [] op = "normal" -> AddPreviewChannel \o <<S("wait", "metadata")>>
UnpreparePreview == <<S("drop", "ZSL"), S("drop", "PREVIEW"), S("drop", "VIDEO"), S("drop", "SNAPSHOT")>>

WaitForBuffers == <<S("wait", "snapshot"), S("wait", "metadata"), S("wait", "raw"),
                    S("queue", "postview"), S("wait", "postview")>>
StartCapture == <<S("config", "CAPTURE"), S("queue", "reproc"), S("enter", "CAPTURE"), S("start", "CAPTURE")>>
TakeJpeg == AddCaptureChannel("jpeg") \o <<S("drop", "PREVIEW"), S("declare", "")>>
                \o WaitForBuffers \o StartCapture
TakeLongshot == <<S("drop", "PREVIEW"), S("declare", "")>>
                    \o AddCaptureChannel("longshot") \o StartCapture
TakeRaw == <<S("drop", "PREVIEW")>> \o AddRawChannel \o <<S("ppstart", "RAW"), S("start", "RAW")>>
TakePicture(op) ==
    CASE op = "jpeg" -> TakeJpeg [] op = "longshot" -> TakeLongshot [] op = "raw" -> TakeRaw

\* Mutant: it does not wait for the reprocess job.
CancelAtOnce == <<S("ppstop", ""), S("drop", "CAPTURE"), S("drop", "RAW")>>
CancelPicture == <<S("wait", "reproc"), S("ppstop", ""), S("drop", "CAPTURE"), S("drop", "RAW")>>

Steps(op) ==
    CASE op \in Previews      -> PreparePreview(op)
      [] op \in Pictures      -> TakePicture(op)
      [] op = "stopPreview"   -> UnpreparePreview
      [] op = "cancelPicture" -> CancelPicture
      [] op = "stopCapture"   -> <<S("stop", "CAPTURE")>>

Step == Steps(sm.op)[sm.pc]
At(do) == sm.op # "idle" /\ Step.do = do
Arg == Step.arg

\* Where the thread is next, and what is running after the last one.
After == IF sm.pc = Len(Steps(sm.op)) THEN Idle ELSE [sm EXCEPT !.pc = @ + 1]
PhaseAfter ==
    IF sm.pc < Len(Steps(sm.op)) \/ sm.op = "stopCapture" THEN phase
    ELSE IF sm.op \in Previews THEN "preview"
    ELSE IF sm.op \in Pictures THEN "picture" ELSE "stopped"
Advance == sm' = After /\ phase' = PhaseAfter

----------------------------------------------------------------------------
\* queueDefferedWork(): the first free slot, or -1.
FreeSlots == {i \in Slots : ~mDeffOngoingJobs[i]}
SlotOf == IF FreeSlots = {} THEN -1 ELSE CHOOSE i \in FreeSlots : \A j \in FreeSlots : i <= j

QueueDefferedWork(name, cmd, ch, type) ==
    /\ job' = [job EXCEPT ![name] = SlotOf]
    /\ IF SlotOf = -1 THEN UNCHANGED <<mCmdQueue, mDeffOngoingJobs>>
       ELSE /\ mDeffOngoingJobs' = [mDeffOngoingJobs EXCEPT ![SlotOf] = TRUE]
            /\ mCmdQueue' = Append(mCmdQueue, [cmd |-> cmd, id |-> SlotOf, ch |-> ch, type |-> type])

\* What waitDefferedWork() reads: job_id is a reference, and who returned first
\* has set it to MAX_ONGOING_JOBS, one past the array.
Reads(name) == IF job[name] \in Slots THEN {mDeffOngoingJobs[job[name]]} ELSE BOOLEAN

\* One round of waitDefferedWork() by thread t, up to the sleep or the return.
WaitDefferedWork(t, name) ==
    \/ /\ wait[t] = "no" /\ job[name] \notin Slots
       /\ UNCHANGED <<job, wait>>
    \/ /\ wait[t] = "woken" \/ job[name] \in Slots
       /\ FALSE \in Reads(name)
       /\ job' = [job EXCEPT ![name] = MaxJobs]
       /\ wait' = [wait EXCEPT ![t] = "no"]
Sleeps(t, name) ==
    /\ wait[t] = "woken" \/ job[name] \in Slots
    /\ TRUE \in Reads(name)
    /\ wait' = [wait EXCEPT ![t] = "asleep"]
    /\ UNCHANGED job

\* mDeffCond.signal() wakes one of those that sleep.
Signal ==
    IF \A t \in Threads : wait[t] # "asleep" THEN UNCHANGED wait
    ELSE \E t \in Threads : wait[t] = "asleep" /\ wait' = [wait EXCEPT ![t] = "woken"]

----------------------------------------------------------------------------
\* Channels and streams.
Referred == {m_channels[k] : k \in Kinds} \cup {building, post, dw.ch}
                \cup {mCmdQueue[i].ch : i \in DOMAIN mCmdQueue}
NewId == CHOOSE c \in Ids : c \notin Referred /\ ~Alive(c)

\* A stream gets its buffers from the deferred thread, or when it starts.
Deferred(type) ==
    /\ type \in {"snapshot", "postview", "metadata", "raw"}
    /\ sm.op \in {"normal", "jpeg", "raw"}

\* QCameraChannel::addStream(); a deferred stream has no buffers yet.
AddStream(c, type) ==
    streams' = [streams EXCEPT ![c] =
        Append(@, [type |-> type, bufs |-> IF Deferred(type) THEN "none" ELSE "own"])]

\* delete of the channels C: ~QCameraStream() uses the buffers of a deferred
\* stream whether it has them or not.
Broken(C) == \E c \in C : \E s \in Range(streams[c]) : s.bufs = "none"
Destroyed(C) ==
    /\ streams' = [c \in Ids |-> IF c \in C THEN Dead ELSE streams[c]]
    /\ active' = active \ C
    /\ fault' = IF Broken(C) THEN "null" ELSE fault
Objects(K) == {m_channels[k] : k \in K} \ {NoChannel}
Without(K) == [k \in Kinds |-> IF k \in K THEN NoChannel ELSE m_channels[k]]

\* Stopping the capture channel ends its callback thread, which must return.
CanStop(K) == "CAPTURE" \in K /\ m_channels["CAPTURE"] \in active => cb = "idle"

----------------------------------------------------------------------------
\* The state machine's thread.
Running == fault = "none"
KeepDeferred == UNCHANGED <<mDeffOngoingJobs, mCmdQueue, dw, deleting, job, wait>>
KeepChannels == UNCHANGED <<m_channels, building, streams, active>>

Begin(op) ==
    /\ Running /\ sm = Idle
    /\ \/ op \in Previews /\ phase = "stopped"
       \/ op \in Pictures /\ phase = "preview" /\ m_channels["PREVIEW"] # NoChannel
          /\ m_channels["VIDEO"] = NoChannel
       \/ op = "stopPreview" /\ phase = "preview"
       \/ op = "cancelPicture" /\ phase = "picture" /\ (EarlyCancel \/ done)
       \/ op = "stopCapture" /\ phase = "picture" /\ done
          /\ m_channels["CAPTURE"] \in active
    /\ sm' = [op |-> op, pc |-> 1]
    /\ done' = IF op \in Pictures THEN FALSE ELSE done
    /\ KeepDeferred /\ KeepChannels /\ UNCHANGED <<post, phase, cb, fault>>

New ==
    /\ Running /\ At("new") /\ Advance
    /\ building' = NewId
    \* an old one of the kind is deleted first
    /\ Destroyed(Objects({Arg}))
    /\ m_channels' = Without({Arg})
    /\ KeepDeferred /\ UNCHANGED <<post, cb, done>>

\* addStreamToChannel(); the postview stream gets no job here.
AddStreamToChannel ==
    /\ Running /\ At("add") /\ Advance
    /\ AddStream(building, Arg)
    /\ IF Deferred(Arg) /\ Arg # "postview"
       THEN QueueDefferedWork(Arg, "alloc", building, Arg)
       ELSE UNCHANGED <<job, mCmdQueue, mDeffOngoingJobs>>
    /\ UNCHANGED <<dw, deleting, wait, m_channels, building, active, post, cb, done, fault>>

Install ==
    /\ Running /\ At("install") /\ Advance
    /\ m_channels' = [m_channels EXCEPT ![Arg] = building]
    /\ building' = NoChannel
    /\ KeepDeferred /\ UNCHANGED <<streams, active, post, cb, done, fault>>

\* stopChannel() and delChannel().
Drop ==
    /\ Running /\ At("drop") /\ CanStop({Arg}) /\ Advance
    /\ Destroyed(Objects({Arg}))
    /\ m_channels' = Without({Arg})
    /\ KeepDeferred /\ UNCHANGED <<building, post, cb, done>>

StopCaptureChannel ==
    /\ Running /\ At("stop") /\ CanStop({Arg}) /\ Advance
    /\ active' = active \ {m_channels[Arg]}
    /\ KeepDeferred /\ UNCHANGED <<m_channels, building, streams, post, cb, done, fault>>

DeclareSnapshotStreams ==
    /\ Running /\ At("declare") /\ Advance
    /\ KeepDeferred /\ KeepChannels /\ UNCHANGED <<post, cb, done, fault>>

Wait ==
    /\ Running /\ At("wait") /\ wait["sm"] # "asleep"
    /\ \/ WaitDefferedWork("sm", Arg) /\ Advance
       \/ Sleeps("sm", Arg) /\ UNCHANGED <<sm, phase>>
    /\ KeepChannels
    /\ UNCHANGED <<mDeffOngoingJobs, mCmdQueue, dw, deleting, post, cb, done, fault>>

Queue ==
    /\ Running /\ At("queue") /\ Advance
    /\ IF Arg = "reproc"
       THEN QueueDefferedWork("reproc", "pproc", m_channels["CAPTURE"], "none")
       ELSE QueueDefferedWork("postview", "alloc", m_channels["CAPTURE"], "postview")
    /\ KeepChannels /\ UNCHANGED <<dw, deleting, wait, post, cb, done, fault>>

\* config() lets the stack have the buffers of the deferred streams.
Config ==
    /\ Running /\ At("config") /\ m_channels[Arg] # NoChannel /\ Advance
    /\ KeepDeferred /\ KeepChannels /\ UNCHANGED <<post, cb, done, fault>>

\* m_channels[CAPTURE]->start(): the pointer is read, then the call runs.
EnterStart ==
    /\ Running /\ At("enter") /\ Advance
    /\ fault' = IF m_channels[Arg] = NoChannel THEN "gone" ELSE fault
    /\ KeepDeferred /\ KeepChannels /\ UNCHANGED <<post, cb, done>>
Start ==
    /\ Running /\ At("start") /\ Advance
    /\ fault' = IF m_channels[Arg] = NoChannel THEN "gone" ELSE fault
    /\ active' = active \cup Objects({Arg})
    \* a raw picture has no callback through waitDefferedWork()
    /\ done' = (sm.op = "raw")
    /\ KeepDeferred /\ UNCHANGED <<m_channels, building, streams, post, cb>>

PostProcStart ==
    /\ Running /\ At("ppstart") /\ Advance
    /\ post' = m_channels[Arg]
    /\ KeepDeferred /\ KeepChannels /\ UNCHANGED <<cb, done, fault>>
PostProcStop ==
    /\ Running /\ At("ppstop") /\ Advance
    /\ post' = NoChannel
    /\ KeepDeferred /\ KeepChannels /\ UNCHANGED <<cb, done, fault>>

\* The channels a failed step leaves the operation to delete.
KindsDeleted ==
    CASE sm.op \in {"jpeg", "longshot"} /\ Step.do \in {"config", "start"} -> {"CAPTURE"}
      [] sm.op = "jpeg" /\ Step.do = "declare" -> {"CAPTURE"}
      [] sm.op = "raw" /\ Step.do \in {"ppstart", "start"} -> {"RAW"}
      [] sm.op = "video" -> {"SNAPSHOT", "VIDEO"}
      [] OTHER -> {}
\* takePicture() goes on after addCaptureChannel() failed.
DropPreviewPc == Len(AddCaptureChannel("jpeg")) + 1

Fails ==
    /\ Running /\ sm.op # "idle" /\ <<sm.op, Step.do>> \in MayFail
    /\ Step.do \in {"add", "declare", "config", "ppstart", "start"}
    /\ Destroyed(Objects(KindsDeleted) \cup ({building} \ {NoChannel}))
    /\ m_channels' = Without(KindsDeleted)
    /\ building' = NoChannel
    /\ post' = IF sm.op = "raw" /\ Step.do = "start" THEN NoChannel ELSE post
    /\ IF sm.op = "jpeg" /\ Step.do = "add"
       THEN sm' = [sm EXCEPT !.pc = DropPreviewPc] /\ UNCHANGED phase
       ELSE sm' = Idle /\ phase' = "stopped"
    /\ KeepDeferred /\ UNCHANGED <<cb, done>>

----------------------------------------------------------------------------
\* The deferred thread, defferedWorkRoutine().
Dequeue ==
    /\ Running /\ dw = NoWork /\ mCmdQueue # <<>> /\ Head(mCmdQueue).ch # NoChannel
    /\ dw' = Head(mCmdQueue) /\ mCmdQueue' = Tail(mCmdQueue)
    /\ KeepChannels
    /\ UNCHANGED <<mDeffOngoingJobs, deleting, job, wait, post, sm, phase, cb, done, fault>>

\* Without a channel the work is left as it is, its slot with it.
SkipNull ==
    /\ Running /\ dw = NoWork /\ mCmdQueue # <<>> /\ Head(mCmdQueue).ch = NoChannel
    /\ mCmdQueue' = Tail(mCmdQueue)
    /\ KeepChannels
    /\ UNCHANGED <<mDeffOngoingJobs, dw, deleting, job, wait, post, sm, phase, cb, done, fault>>

FinishWork ==
    /\ mDeffOngoingJobs' = [mDeffOngoingJobs EXCEPT ![dw.id] = FALSE]
    /\ dw' = NoWork
    /\ Signal
    /\ UNCHANGED <<mCmdQueue, job, sm, phase, cb, done>>

AllocateBuffers ==
    /\ Running /\ dw.cmd = "alloc"
    /\ fault' = IF Alive(dw.ch) THEN fault ELSE "freed"
    /\ streams' = [streams EXCEPT ![dw.ch] =
          [i \in DOMAIN @ |-> IF @[i].type = dw.type THEN [@[i] EXCEPT !.bufs = "ready"] ELSE @[i]]]
    /\ FinishWork
    /\ UNCHANGED <<deleting, m_channels, building, active, post>>

PprocStart ==
    /\ Running /\ dw.cmd = "pproc" /\ ~deleting
    /\ fault' = IF Alive(dw.ch) THEN fault ELSE "freed"
    /\ post' = dw.ch
    /\ FinishWork
    /\ UNCHANGED <<deleting, m_channels, building, streams, active>>

\* The start failed: delChannel(CAPTURE) on this thread, then the work is done.
PprocFails ==
    /\ Running /\ dw.cmd = "pproc" /\ ~deleting /\ <<"pproc", "start">> \in MayFail
    /\ deleting' = TRUE
    /\ fault' = IF Alive(dw.ch) THEN fault ELSE "freed"
    /\ KeepChannels
    /\ UNCHANGED <<mDeffOngoingJobs, mCmdQueue, dw, job, wait, post, sm, phase, cb, done>>
DelChannel ==
    /\ Running /\ deleting /\ CanStop({"CAPTURE"})
    /\ Destroyed(Objects({"CAPTURE"}))
    /\ m_channels' = Without({"CAPTURE"})
    /\ deleting' = FALSE
    /\ FinishWork
    /\ UNCHANGED <<building, post>>

----------------------------------------------------------------------------
\* The capture channel's callback thread, capture_channel_cb_routine().
Frame ==
    /\ Running /\ cb = "idle" /\ m_channels["CAPTURE"] \in active \ {NoChannel} /\ ~done
    /\ cb' = "frame"
    /\ KeepDeferred /\ KeepChannels /\ UNCHANGED <<post, sm, phase, done, fault>>

FrameWaits ==
    /\ Running /\ cb = "frame" /\ wait["cb"] # "asleep"
    /\ \/ WaitDefferedWork("cb", "reproc") /\ cb' = "process"
       \/ Sleeps("cb", "reproc") /\ UNCHANGED cb
    /\ KeepChannels
    /\ UNCHANGED <<mDeffOngoingJobs, mCmdQueue, dw, deleting, post, sm, phase, done, fault>>
\* processData(); the picture is done some time later.
ProcessData ==
    /\ Running /\ cb = "process"
    /\ cb' = "idle" /\ done' = TRUE
    /\ KeepDeferred /\ KeepChannels /\ UNCHANGED <<post, sm, phase, fault>>

----------------------------------------------------------------------------
Init ==
    /\ mDeffOngoingJobs = [i \in Slots |-> FALSE] /\ mCmdQueue = <<>>
    /\ dw = NoWork /\ deleting = FALSE
    /\ job = [j \in Jobs |-> -1] /\ wait = [t \in Threads |-> "no"]
    /\ m_channels = [k \in Kinds |-> NoChannel] /\ building = NoChannel
    /\ streams = [c \in Ids |-> Dead] /\ active = {} /\ post = NoChannel
    /\ sm = Idle /\ phase = "stopped" /\ cb = "idle" /\ done = FALSE /\ fault = "none"

MachineSteps ==
    \/ New \/ AddStreamToChannel \/ Install \/ Drop \/ StopCaptureChannel
    \/ DeclareSnapshotStreams \/ Wait \/ Queue \/ Config \/ EnterStart \/ Start
    \/ PostProcStart \/ PostProcStop
DeferredSteps == Dequeue \/ AllocateBuffers \/ PprocStart

Ops == Previews \cup Pictures \cup {"stopPreview", "cancelPicture", "stopCapture"}
Next ==
    \/ \E op \in Ops : Begin(op)
    \/ MachineSteps \/ DeferredSteps
    \/ Fails \/ SkipNull \/ PprocFails \/ DelChannel
    \/ Frame \/ FrameWaits \/ ProcessData

Spec == Init /\ [][Next]_vars
\* Threads that can go on do.
Fairness ==
    /\ WF_vars(MachineSteps)
    /\ WF_vars(DeferredSteps \/ SkipNull \/ DelChannel)
    /\ WF_vars(FrameWaits \/ ProcessData)
FairSpec == Spec /\ Fairness

----------------------------------------------------------------------------
\* Types.
TypeOK ==
    /\ mDeffOngoingJobs \in [Slots -> BOOLEAN]
    /\ \A i \in DOMAIN mCmdQueue : mCmdQueue[i].ch \in Ids \cup {NoChannel}
    /\ dw.ch \in Ids \cup {NoChannel} /\ (dw.cmd = "alloc" => dw.type \in Types)
    /\ deleting \in BOOLEAN
    /\ job \in [Jobs -> -1 .. MaxJobs] /\ wait \in [Threads -> {"no", "asleep", "woken"}]
    /\ m_channels \in [Kinds -> Ids \cup {NoChannel}] /\ building \in Ids \cup {NoChannel}
    /\ \A c \in Ids : \A s \in Range(streams[c]) :
           s.type \in Types /\ s.bufs \in {"own", "none", "ready"}
    /\ active \subseteq Ids /\ post \in Ids \cup {NoChannel}
    /\ sm.op \in Ops \cup {"idle"} /\ phase \in {"stopped", "preview", "picture"}
    /\ cb \in {"idle", "frame", "process"} /\ done \in BOOLEAN
    /\ fault \in {"none", "null", "freed", "gone"}

\* A slot stands for one piece of work from the moment it is queued to the
\* moment it is done: nobody waits for the work of somebody else, and no
\* work is done in the name of a slot that is free (queueDefferedWork()).
Pending == (IF dw = NoWork THEN <<>> ELSE <<dw>>) \o mCmdQueue
OneSlotOneWork ==
    /\ \A i, j \in DOMAIN Pending : Pending[i].id = Pending[j].id => i = j
    /\ \A i \in DOMAIN Pending : mDeffOngoingJobs[Pending[i].id]

\* When takePicture() configures the capture channel every stream of it has
\* its buffers, whichever thread was to allocate them.
BuffersBeforeConfig ==
    At("config") /\ Running => ~Broken(Objects({"CAPTURE"}))

\* A frame is handed to the post processor only after its start on the
\* deferred thread, and with the channel it was started for.
FramesFindPostProc == cb = "process" => post # NoChannel /\ post = m_channels["CAPTURE"]

\* cancelPicture() stops the post processor only when no start is still to
\* come: one that comes after would leave it running without a picture.
NoStartAfterStop ==
    At("ppstop") => \A i \in DOMAIN Pending : Pending[i].cmd # "pproc"

\* When nothing runs and no operation is under way no channel is left, be it
\* after a stop, a cancelled picture or a start that failed half way.
NothingLeft == sm = Idle /\ phase = "stopped" => \A c \in Ids : ~Alive(c)

\* The three ways the program can die here.  A stream is destroyed before it
\* has its buffers; deferred work meets a channel that was deleted; start()
\* is called for a channel the other thread has deleted.
BuffersBeforeDelete == fault # "null"
WorkFindsChannel == fault # "freed"
StartFindsChannel == fault # "gone"

\* What a thread has begun it brings to an end: operations of the state
\* machine return, and so do the callbacks.
OperationsEnd == (sm # Idle) ~> (sm = Idle \/ ~Running)
CallbacksEnd == (cb # "idle") ~> (cb = "idle" \/ ~Running)
==============================================================================
