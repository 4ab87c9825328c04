----------------------------- MODULE CameraDevice -----------------------------
(***************************************************************************)
(* The part of QCamera2HardwareInterface (HAL/QCamera2HWI.cpp) that the    *)
(* state machine drives through its m_parent pointer: the channels, the    *)
(* postprocessor, the parameters that decide which channels a mode uses,   *)
(* autofocus and the live snapshot thread.                                 *)
(*                                                                         *)
(* The module has no variables.  A device is a record and an operation is  *)
(* the set of outcomes [ok, dev] it can have from a device: one per way    *)
(* the HAL call can succeed or fail.  Failures exist only when Faults.     *)
(*                                                                         *)
(* In every module a definition named Mistaken<name> is <name> with a      *)
(* plausible mistake.  No other definition uses it: the mutation runs put  *)
(* it in the place of <name> to see which property notices.                *)
(***************************************************************************)
EXTENDS Naturals, FiniteSets

CONSTANTS
    Faults,          \* can a call into the camera or jpeg stack fail?
    RawPicture,      \* is the picture format raw (else jpeg, nv16 or nv21)?
    DefaultZsl,      \* build flag DEFAULT_ZSL_MODE_ON
    MaxLive          \* bound: live snapshot threads that run at a time

ASSUME DeviceAssumption ==
    /\ Faults \in BOOLEAN /\ RawPicture \in BOOLEAN /\ DefaultZsl \in BOOLEAN
    /\ MaxLive \in Nat \ {0}

-----------------------------------------------------------------------------

ChannelType == {"ZSL", "CAPTURE", "PREVIEW", "VIDEO", "SNAPSHOT", "RAW"}

\* A channel object does not exist, exists but does not stream, streams, or
\* outlives its mm-camera channel (delChannel(type, false)).
ChannelState == {"none", "added", "started", "closed"}

FocusMode  == {"AUTO", "CONTINUOUS", "FIXED"}
FocusState == {"NOT_FOCUSED", "SCANNING", "FOCUSED", "CANCELLED"}

\* The picture in the pipeline: asked for, at the postprocessor, encoded by
\* the jpeg stack, waiting in the callback queue, delivered.
Shot == {"none", "armed", "frame", "encoded", "ready", "done"}

\* The application's value of the recording hint, which startRecording()
\* bypasses.
HintKey == {"unset", "hint_on", "hint_off"}

Device ==
    [ m_channels    : [ChannelType -> ChannelState],
      mPreviewWindow : BOOLEAN,             \* is there a window?
      m_bZslMode : BOOLEAN, m_bZslMode_new : BOOLEAN,
      m_bRecordingHint : BOOLEAN, m_bRecordingHint_new : BOOLEAN,
      hintKey       : HintKey,              \* KEY_RECORDING_HINT
      hintKey_new   : HintKey,              \* and in m_tempMap
      mFocusMode    : FocusMode,
      mLongshotEnabled : BOOLEAN,
      bRetroPicture : BOOLEAN,
      m_currentFocusState : FocusState,
      m_postprocessor : BOOLEAN,            \* data processing started?
      shot          : Shot,
      reprocJobs    : Nat,                  \* PPROC_START jobs not yet run
      mLiveSnapshotThread : 0..MaxLive,     \* the last one created, 0 for none
      liveThreads   : SUBSET (1..MaxLive),  \* created and not yet finished
      lens          : {"idle", "scanning", "cancelling"},   \* external
      preparing     : BOOLEAN,   \* external: prepare_snapshot unanswered
      retroReady    : BOOLEAN ]  \* external: retro frames not yet announced

\* The device once openCamera() has returned.
OpenedDevice ==
    [ m_channels    |-> [ch \in ChannelType |-> "none"],
      mPreviewWindow |-> FALSE,
      m_bZslMode |-> DefaultZsl, m_bZslMode_new |-> DefaultZsl,
      m_bRecordingHint |-> FALSE, m_bRecordingHint_new |-> FALSE,
      hintKey       |-> "unset", hintKey_new |-> "unset",
      mFocusMode    |-> "AUTO",
      mLongshotEnabled |-> FALSE,
      bRetroPicture |-> FALSE,
      m_currentFocusState |-> "NOT_FOCUSED",
      m_postprocessor |-> FALSE,
      shot          |-> "none",
      reprocJobs    |-> 0,
      mLiveSnapshotThread |-> 0,
      liveThreads   |-> {},
      lens          |-> "idle",
      preparing     |-> FALSE,
      retroReady    |-> FALSE ]

Outcome == [ok : BOOLEAN, dev : Device]

Done(d) == [ok |-> TRUE, dev |-> d]
Fail(d) == [ok |-> FALSE, dev |-> d]

\* A call that leaves dOk when it succeeds and, if it can fail, dFail.
Try(dOk, dFail) == {Done(dOk)} \cup (IF Faults THEN {Fail(dFail)} ELSE {})

-----------------------------------------------------------------------------
(* Channels. *)

Exists(d, ch)  == d.m_channels[ch] # "none"
Started(d, ch) == d.m_channels[ch] = "started"

SetChannels(d, chs, s) ==
    [d EXCEPT !.m_channels = [c \in ChannelType |-> IF c \in chs THEN s ELSE @[c]]]

DelChannels(d, chs) == SetChannels(d, chs, "none")

\* stop() of a channel that does not exist is an error the callers ignore.
StopChannel(d, ch) ==
    IF Started(d, ch) THEN SetChannels(d, {ch}, "added") ELSE d

StartChannel(d, ch) ==
    IF Exists(d, ch) THEN Try(SetChannels(d, {ch}, "started"), d) ELSE {Fail(d)}

\* Adding deletes what it replaces first; an existing preview channel is kept.
AddChannel(d, ch) ==
    IF ch = "PREVIEW" /\ Exists(d, ch)
    THEN {Done(d)}
    ELSE LET gone == DelChannels(d, IF ch = "ZSL" THEN {"ZSL", "PREVIEW"} ELSE {ch})
         IN  Try(SetChannels(gone, {ch}, "added"), gone)

-----------------------------------------------------------------------------
(* Preview and recording. *)

\* Continue with one operation after another succeeded.
AndThen(outcomes, Op(_)) ==
    UNION {IF o.ok THEN Op(o.dev) ELSE {o} : o \in outcomes}

\* Give up with a clean-up after a failure.
OrElse(outcomes, Undo(_)) ==
    {IF o.ok THEN o ELSE Fail(Undo(o.dev)) : o \in outcomes}

UsesZslChannel(d) == d.m_bZslMode /\ ~d.m_bRecordingHint

MistakenUnpreparePreview(d) == DelChannels(d, {"PREVIEW", "VIDEO", "SNAPSHOT"})

UnpreparePreview(d) == DelChannels(d, {"ZSL", "PREVIEW", "VIDEO", "SNAPSHOT"})

AddRecordingChannels(d) ==
    AndThen(AddChannel(d, "SNAPSHOT"),
            LAMBDA e : OrElse(AddChannel(e, "VIDEO"),
                              LAMBDA f : DelChannels(f, {"SNAPSHOT"})))

AddPreviewChannels(d) ==
    IF UsesZslChannel(d) THEN AddChannel(d, "ZSL")
    ELSE IF d.m_bRecordingHint
    THEN AndThen(AddRecordingChannels(d),
                 LAMBDA e : OrElse(AddChannel(e, "PREVIEW"),
                                   LAMBDA f : DelChannels(f, {"SNAPSHOT", "VIDEO"})))
    ELSE AddChannel(d, "PREVIEW")

\* setStreamConfigure() may fail before any channel is touched.
PreparePreview(d) ==
    AddPreviewChannels(d) \cup (IF Faults THEN {Fail(d)} ELSE {})

StartPreview(d) ==
    StartChannel(d, IF UsesZslChannel(d) THEN "ZSL" ELSE "PREVIEW")

\* What every caller makes of the two.
PrepareAndStartPreview(d) ==
    AndThen(PreparePreview(d), LAMBDA e : OrElse(StartPreview(e), UnpreparePreview))

StopPreview(d) ==
    [UnpreparePreview(d) EXCEPT !.m_currentFocusState = "NOT_FOCUSED"]

\* commitParamChanges() puts every staged value in force once the daemon
\* accepted the batch.
Commit(d) ==
    Try([d EXCEPT !.m_bZslMode = d.m_bZslMode_new,
                  !.m_bRecordingHint = d.m_bRecordingHint_new,
                  !.hintKey = d.hintKey_new], d)

\* startRecording() switches a camera preview to camcorder mode first; it
\* does not look at what updateRecordingHintValue() returns.
EnterRecordingMode(d) ==
    UNION {AndThen(PreparePreview(o.dev), LAMBDA e : StartChannel(e, "PREVIEW"))
             : o \in Commit([StopPreview(d) EXCEPT !.m_bRecordingHint_new = TRUE])}

StartRecording(d) ==
    AndThen(IF d.m_bRecordingHint THEN {Done(d)} ELSE EnterRecordingMode(d),
            LAMBDA e : StartChannel(e, "VIDEO"))

MistakenStopRecording(d) == StopChannel(d, "SNAPSHOT")

StopRecording(d) == StopChannel(d, "VIDEO")

-----------------------------------------------------------------------------
(* Parameters.  A set_parameters call changes at most one of the values     *)
(* that matter here; "resize" stands for every other change that needs a    *)
(* preview restart, "plain" for those that do not.                          *)

ParamChange == {"zsl_on", "zsl_off", "hint_on", "hint_off", "resize", "plain",
                "focus_auto", "focus_continuous", "focus_fixed"}

\* A hint that repeats the application's last value is not looked at, even if
\* startRecording() has changed the hint in force since.
NewHint(d, p) == p \in {"hint_on", "hint_off"} /\ d.hintKey # p

Staged(d, p) ==
    CASE p \in {"zsl_on", "zsl_off"} -> [d EXCEPT !.m_bZslMode_new = (p = "zsl_on")]
      [] NewHint(d, p) -> [d EXCEPT !.m_bRecordingHint_new = (p = "hint_on"), !.hintKey_new = p]
      [] p = "focus_auto"              -> [d EXCEPT !.mFocusMode = "AUTO"]
      [] p = "focus_continuous"        -> [d EXCEPT !.mFocusMode = "CONTINUOUS"]
      [] p = "focus_fixed"             -> [d EXCEPT !.mFocusMode = "FIXED"]
      [] OTHER                         -> d

\* zsl is compared with the last value asked for, the hint with the one in force.
NeedRestart(d, p) ==
    \/ p = "resize"
    \/ p \in {"zsl_on", "zsl_off"}   /\ d.m_bZslMode_new # (p = "zsl_on")
    \/ NewHint(d, p) /\ d.m_bRecordingHint # (p = "hint_on")

\* One bad value fails the call but leaves the other values staged.
UpdateParameters(d, p) ==
    Try(Staged(d, p), Staged(d, p)) \cup (IF Faults THEN {Fail(d)} ELSE {})

\* The restart a running preview goes through.
RestartPreview(d) ==
    UNION {PrepareAndStartPreview(o.dev) : o \in Commit(StopPreview(d))}

-----------------------------------------------------------------------------
(* Autofocus.  The lens is external: it moves after do_auto_focus() and     *)
(* reports through the metadata stream, also after cancel_auto_focus().     *)

IsAFRunning(d) == d.m_currentFocusState = "SCANNING" /\ d.mFocusMode = "AUTO"

AutoFocus(d) ==
    IF d.mFocusMode = "FIXED" THEN {Done(d)}
    ELSE Try([d EXCEPT !.lens = "scanning"], d)

CancelAutoFocus(d) ==
    IF d.mFocusMode = "FIXED" THEN {Done(d)}
    ELSE LET e == [d EXCEPT !.m_currentFocusState = "CANCELLED"]
         IN  Try([e EXCEPT !.lens = IF @ = "scanning" THEN "cancelling" ELSE @], e)

\* prepare_snapshot() of the camera stack, answered by PREP_SNAPSHOT_DONE.
PrepareHardwareForSnapshot(d) == Try([d EXCEPT !.preparing = TRUE], d)

-----------------------------------------------------------------------------
(* Pictures. *)

IsRegularCapture(d) ==
    ~d.mLongshotEnabled /\ ~d.m_bRecordingHint /\ ~d.m_bZslMode

\* The reprocess channel may fail before data processing starts, the jpeg
\* session of a regular capture only after.
PostProcStart(d) ==
    LET started == [d EXCEPT !.m_postprocessor = TRUE, !.shot = "armed"]
    IN  Try(started, d)
          \cup (IF Faults /\ IsRegularCapture(d) THEN {Fail(started)} ELSE {})

PostProcStop(d) == [d EXCEPT !.m_postprocessor = FALSE, !.shot = "none"]

TakeZslPicture(d) ==
    IF ~Exists(d, "ZSL") THEN {Fail(d)}
    ELSE AndThen(PostProcStart(d),
                 LAMBDA e : Try([e EXCEPT !.retroReady = e.bRetroPicture], PostProcStop(e)))

PictureChannel == IF RawPicture THEN "RAW" ELSE "CAPTURE"

TakeRawPicture(d) ==
    AndThen(AddChannel(DelChannels(d, {"PREVIEW"}), "RAW"),
            LAMBDA e : OrElse(AndThen(PostProcStart(e),
                                      LAMBDA f : OrElse(StartChannel(f, "RAW"), PostProcStop)),
                              LAMBDA f : DelChannels(f, {"RAW"})))

\* declareSnapshotStreams() or config() may fail before the postprocessor job
\* is queued, start() or, for a longshot, the first request after it.
StartCapture(d) ==
    LET queued == [d EXCEPT !.reprocJobs = @ + 1]
    IN  Try(SetChannels(queued, {"CAPTURE"}, "started"), DelChannels(d, {"CAPTURE"}))
          \cup (IF Faults THEN {Fail(DelChannels(queued, {"CAPTURE"}))} ELSE {})

\* A longshot declares its streams, then adds the channel, and gives up if one
\* of them fails.  A regular capture adds the channel first and never looks
\* whether that worked: see CaptureJobStuck.
TakeNonZslPicture(d) ==
    LET e == DelChannels(d, {"PREVIEW"})
    IN  IF d.mLongshotEnabled
        THEN AndThen(AddChannel(e, "CAPTURE"), StartCapture)
               \cup (IF Faults THEN {Fail(e)} ELSE {})
        ELSE StartCapture(SetChannels(e, {"CAPTURE"}, "added"))

\* The deferred worker skips a job without a channel but leaves it marked as
\* ongoing: when addCaptureChannel() failed, waitDefferedWork(mPostviewJob)
\* in takePicture() never returns.
CaptureJobStuck(d) ==
    Faults /\ ~d.m_bZslMode /\ ~RawPicture /\ ~d.mLongshotEnabled

TakePicture(d) ==
    IF d.m_bZslMode THEN TakeZslPicture(d)
    ELSE IF RawPicture THEN TakeRawPicture(d)
    ELSE TakeNonZslPicture(d)

\* defferedWorkRoutine(), CMD_DEFF_PPROC_START.
RunReprocJob(d) ==
    OrElse(PostProcStart([d EXCEPT !.reprocJobs = @ - 1]),
           LAMBDA e : DelChannels(e, {"CAPTURE"}))

LongShot(d) ==
    IF Exists(d, IF d.m_bZslMode THEN "ZSL" ELSE "CAPTURE") THEN Try(d, d) ELSE {Fail(d)}

\* cancelPicture() first waits for the deferred postprocessor start.
CanCancelPicture(d) == d.reprocJobs = 0

CancelPicture(d) ==
    IF d.m_bZslMode THEN PostProcStop(d)
    ELSE DelChannels(PostProcStop(d), {PictureChannel})

StopCaptureChannel(d, destroy) ==
    IF RawPicture \/ ~Exists(d, "CAPTURE") THEN d
    ELSE IF destroy THEN SetChannels(d, {"CAPTURE"}, "closed")
    ELSE StopChannel(d, "CAPTURE")

TakeLiveSnapshot(d) ==
    {Done([d EXCEPT !.mLiveSnapshotThread = t, !.liveThreads = @ \cup {t}]) :
        t \in (1..MaxLive) \ d.liveThreads}
      \cup (IF Faults THEN {Fail(d)} ELSE {})

\* takeLiveSnapshot_internal(), the body of thread t.
RunLiveSnapshot(d, t) ==
    {[o EXCEPT !.dev.liveThreads = @ \ {t}] :
        o \in AndThen(PostProcStart(d), LAMBDA e : StartChannel(e, "SNAPSHOT"))}

\* cancelLiveSnapshot() first joins the thread.
CanCancelLiveSnapshot(d) == d.mLiveSnapshotThread \notin d.liveThreads

CancelLiveSnapshot(d) ==
    StopChannel(PostProcStop([d EXCEPT !.mLiveSnapshotThread = 0]), "SNAPSHOT")

\* release() stops and deletes every channel.
Release(d) == DelChannels(d, ChannelType)

=============================================================================
