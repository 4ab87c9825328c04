-------------------------- MODULE QCameraStateMachine --------------------------
(***************************************************************************)
(* HAL/QCameraStateMachine.cpp: what the state machine thread does with    *)
(* one command, in each of the eight states.  A command is a record        *)
(* [evt, arg]; an internal event (QCAMERA_SM_EVT_EVT_INTERNAL) goes by the *)
(* name of its kind.  Every handler is a relation between the state before *)
(* and after it, with the result it signals.                               *)
(*                                                                         *)
(* Left out: the internal events that only inform the application (faces,  *)
(* histogram, zoom, scene detection) and thermal levels, which change the  *)
(* frame rate and nothing the other handlers look at.                      *)
(***************************************************************************)
EXTENDS CameraDevice, Sequences

CONSTANT
    PreviewRestartEnabled   \* property persist.camera.feature.restart

ASSUME RestartAssumption == PreviewRestartEnabled \in BOOLEAN

VARIABLES
    m_state,          \* the state of the machine
    dev,              \* the hardware interface the machine drives
    evt_queue,        \* events waiting for the machine
    m_apiResultList,  \* results signalled to API callers, oldest first
    m_evtResult       \* has the event result the callback thread waits for come?

smVars == <<m_state, dev, evt_queue, m_apiResultList, m_evtResult>>

State == {"PREVIEW_STOPPED", "PREVIEW_READY", "PREVIEWING", "PREPARE_SNAPSHOT",
          "PIC_TAKING", "RECORDING", "VIDEO_PIC_TAKING", "PREVIEW_PIC_TAKING"}

\* API calls that do the same in every state but PREPARE_SNAPSHOT and have no
\* effect on the others.
PlainOps == {"SET_CALLBACKS", "ENABLE_MSG_TYPE", "DISABLE_MSG_TYPE", "MSG_TYPE_ENABLED",
             "GET_PARAMS", "PUT_PARAMS", "STORE_METADATA_IN_BUFS", "DUMP"}

NoArgOps == PlainOps \cup
    {"REG_FACE_IMAGE", "START_PREVIEW", "START_NODISPLAY_PREVIEW", "STOP_PREVIEW",
     "PREVIEW_ENABLED", "START_RECORDING", "STOP_RECORDING", "RECORDING_ENABLED",
     "RELEASE_RECORDING_FRAME", "PREPARE_SNAPSHOT", "TAKE_PICTURE", "CANCEL_PICTURE",
     "START_AUTO_FOCUS", "STOP_AUTO_FOCUS", "RELEASE"}

ApiEvent == NoArgOps \cup {"SET_PREVIEW_WINDOW", "SET_PARAMS", "SEND_COMMAND"}

Cmd(evt)           == [evt |-> evt, arg |-> "none"]
CmdWith(evt, arg)  == [evt |-> evt, arg |-> arg]

ApiCommand ==
    [evt : NoArgOps, arg : {"none"}]
      \cup [evt : {"SET_PREVIEW_WINDOW"}, arg : {"window", "null"}]
      \cup [evt : {"SET_PARAMS"}, arg : ParamChange]
      \cup [evt : {"SEND_COMMAND"}, arg : {"LONGSHOT_ON", "LONGSHOT_OFF", "OTHER"}]

\* Posted on the API queue too, by the postprocessor, and nobody waits for it.
StopCaptureCommand == Cmd("STOP_CAPTURE_CHANNEL")

Event ==
    [evt : {"FOCUS_UPDATE"}, arg : FocusState \ {"CANCELLED"}]
      \cup [evt : {"PREP_SNAPSHOT_DONE", "READY_FOR_SNAPSHOT", "EVT_NOTIFY",
                   "JPEG_EVT_NOTIFY", "SNAPSHOT_DONE"}, arg : {"none"}]

Result ==
    [request_api : ApiEvent \cup {"STOP_CAPTURE_CHANNEL", "SNAPSHOT_DONE"},
     status      : {"NO_ERROR", "INVALID_OPERATION", "ERROR"},
     enabled     : BOOLEAN]

SMTypeOK ==
    /\ m_state \in State
    /\ dev \in Device
    /\ evt_queue \in Seq(Event)
    /\ m_apiResultList \in Seq(Result)
    /\ m_evtResult \in BOOLEAN

SMInit ==
    /\ m_state = "PREVIEW_STOPPED"
    /\ dev = OpenedDevice
    /\ evt_queue = <<>>
    /\ m_apiResultList = <<>>
    /\ m_evtResult = FALSE

-----------------------------------------------------------------------------
(* Ways a handler ends. *)

\* signalAPIResult()
Signal(evt, status, enabled) ==
    m_apiResultList' = Append(m_apiResultList,
        [request_api |-> evt, status |-> status, enabled |-> enabled])

Status(ok) == IF ok THEN "NO_ERROR" ELSE "ERROR"

Reply(evt, status) == Signal(evt, status, FALSE) /\ UNCHANGED <<evt_queue, m_evtResult>>

NoReply == UNCHANGED <<evt_queue, m_apiResultList, m_evtResult>>

\* signalEvtResult()
EvtReply == m_evtResult' = TRUE /\ UNCHANGED <<evt_queue, m_apiResultList>>

Stay == UNCHANGED <<m_state, dev>>

Acknowledge(cmd) == Stay /\ Reply(cmd.evt, "NO_ERROR")
Refuse(cmd)      == Stay /\ Reply(cmd.evt, "INVALID_OPERATION")
Ignore           == Stay /\ NoReply

Report(cmd, b) ==
    Stay /\ Signal(cmd.evt, "NO_ERROR", b) /\ UNCHANGED <<evt_queue, m_evtResult>>

\* An operation of the device that takes the machine to one state when it
\* succeeds and to another when it fails.
Perform(cmd, outcomes, success, failure) ==
    \E o \in outcomes :
        /\ dev' = o.dev
        /\ m_state' = IF o.ok THEN success ELSE failure
        /\ Reply(cmd.evt, Status(o.ok))

\* An operation whose result does not decide the next state.  A stop reports
\* an error if there was nothing to stop or the stack refused; the channel is
\* inactive either way.
Finish(cmd, d, next) ==
    /\ dev' = d
    /\ m_state' = next
    /\ Reply(cmd.evt, "NO_ERROR")

FinishStop(cmd, d, next) ==
    /\ dev' = d
    /\ m_state' = next
    /\ \E status \in {"NO_ERROR", "ERROR"} : Reply(cmd.evt, status)

-----------------------------------------------------------------------------
(* Handling that several states share. *)

IsCaptureRunning == m_state \in {"PIC_TAKING", "VIDEO_PIC_TAKING", "PREVIEW_PIC_TAKING"}

DoAutoFocus(cmd) ==
    cmd.evt = "START_AUTO_FOCUS" /\ Perform(cmd, AutoFocus(dev), m_state, m_state)

\* A focus run in progress is answered by processAutoFocusEvent(), later.
DoCancelAutoFocus(cmd) ==
    /\ cmd.evt = "STOP_AUTO_FOCUS"
    /\ \E o \in CancelAutoFocus(dev) :
        /\ dev' = o.dev
        /\ UNCHANGED m_state
        /\ IF IsAFRunning(dev) THEN NoReply ELSE Reply(cmd.evt, Status(o.ok))

\* processAutoFocusEvent()
DoFocusUpdate(cmd) ==
    /\ cmd.evt = "FOCUS_UPDATE"
    /\ dev' = [dev EXCEPT !.m_currentFocusState = cmd.arg]
    /\ UNCHANGED m_state
    /\ IF /\ dev.mFocusMode = "AUTO"
          /\ cmd.arg # "SCANNING"
          /\ dev.m_currentFocusState = "CANCELLED"
       THEN Reply("STOP_AUTO_FOCUS", "NO_ERROR")
       ELSE NoReply

\* A prepared snapshot is answered by PREP_SNAPSHOT_DONE, later.
MistakenDoPrepareSnapshot(cmd, next) ==
    /\ cmd.evt = "PREPARE_SNAPSHOT"
    /\ Perform(cmd, PrepareHardwareForSnapshot(dev), next, m_state)

DoPrepareSnapshot(cmd, next) ==
    /\ cmd.evt = "PREPARE_SNAPSHOT"
    /\ \E o \in PrepareHardwareForSnapshot(dev) :
        /\ dev' = o.dev
        /\ m_state' = IF o.ok THEN next ELSE m_state
        /\ IF o.ok THEN NoReply ELSE Reply(cmd.evt, "ERROR")

\* sendCommand(); ending a longshot cancels the picture and posts the event
\* that tells the machine so.
LongshotOn(cmd) ==
    /\ cmd.arg = "LONGSHOT_ON"
    /\ UNCHANGED m_state
    /\ IF IsCaptureRunning
       THEN UNCHANGED dev /\ Reply(cmd.evt, "ERROR")
       ELSE dev' = [dev EXCEPT !.mLongshotEnabled = TRUE] /\ Reply(cmd.evt, "NO_ERROR")

LongshotOff(cmd, next) ==
    /\ cmd.arg = "LONGSHOT_OFF"
    /\ m_state' = next
    /\ Signal(cmd.evt, "NO_ERROR", FALSE)
    /\ UNCHANGED m_evtResult
    /\ IF dev.mLongshotEnabled /\ IsCaptureRunning
       THEN /\ CanCancelPicture(dev)
            /\ dev' = [CancelPicture(dev) EXCEPT !.mLongshotEnabled = FALSE]
            /\ evt_queue' = Append(evt_queue, Cmd("SNAPSHOT_DONE"))
       ELSE /\ dev' = [dev EXCEPT !.mLongshotEnabled = FALSE]
            /\ UNCHANGED evt_queue

DoSendCommand(cmd, afterLongshot) ==
    /\ cmd.evt = "SEND_COMMAND"
    /\ \/ LongshotOn(cmd)
       \/ LongshotOff(cmd, afterLongshot)
       \/ cmd.arg = "OTHER" /\ Acknowledge(cmd)

\* updateParameters() failing, in every state that accepts parameters.
ParamsRejected(cmd) ==
    \E u \in UpdateParameters(dev, cmd.arg) :
        ~u.ok /\ dev' = u.dev /\ UNCHANGED m_state /\ Reply(cmd.evt, "ERROR")

\* commitParameterChanges() with no restart asked for.
ParamsCommitted(cmd) ==
    \E u \in UpdateParameters(dev, cmd.arg) :
        u.ok /\ Perform(cmd, Commit(u.dev), m_state, m_state)

\* SET_PARAMS where a restart of the preview is possible: restarted is what
\* may come of it, failed the state the machine is in when it fails.
UpdatedDevices(cmd) == {u.dev : u \in {o \in UpdateParameters(dev, cmd.arg) : o.ok}}

SetParams(cmd, restarted, failed) ==
    /\ cmd.evt = "SET_PARAMS"
    /\ \/ ParamsRejected(cmd)
       \/ ~NeedRestart(dev, cmd.arg) /\ ParamsCommitted(cmd)
       \/ NeedRestart(dev, cmd.arg) /\ Perform(cmd, restarted, m_state, failed)

\* While recording a restart is refused, with the values left staged.
SetParamsRecording(cmd) ==
    /\ cmd.evt = "SET_PARAMS"
    /\ \/ ParamsRejected(cmd)
       \/ ~NeedRestart(dev, cmd.arg) /\ ParamsCommitted(cmd)
       \/ /\ NeedRestart(dev, cmd.arg)
          /\ dev' = Staged(dev, cmd.arg)
          /\ UNCHANGED m_state
          /\ Reply(cmd.evt, "ERROR")

\* An event only the waiting thread has to hear of.
DoSnapshotDoneIgnored(cmd) == cmd.evt = "SNAPSHOT_DONE" /\ Stay /\ EvtReply

\* The encoder finished the picture in the pipeline, if it is still there.
DoJpegNotify(cmd) ==
    /\ cmd.evt = "JPEG_EVT_NOTIFY"
    /\ dev' = [dev EXCEPT !.shot = IF @ = "encoded" THEN "ready" ELSE @]
    /\ UNCHANGED m_state
    /\ NoReply

\* CAM_EVENT_TYPE_DAEMON_DIED: the application is told, the machine stays.
DoEvtNotify(cmd) == cmd.evt = "EVT_NOTIFY" /\ Ignore

IgnoreOneOf(cmd, evts)      == cmd.evt \in evts /\ Ignore
AcknowledgeOneOf(cmd, evts) == cmd.evt \in evts /\ Acknowledge(cmd)
RefuseOneOf(cmd, evts)      == cmd.evt \in evts /\ Refuse(cmd)

DoEnabled(cmd, preview, recording) ==
    \/ cmd.evt = "PREVIEW_ENABLED" /\ Report(cmd, preview)
    \/ cmd.evt = "RECORDING_ENABLED" /\ Report(cmd, recording)

-----------------------------------------------------------------------------
(* PREVIEW_STOPPED. *)

PreviewStoppedPreview(cmd) ==
    \/ /\ cmd.evt = "SET_PREVIEW_WINDOW"
       /\ Finish(cmd, [dev EXCEPT !.mPreviewWindow = (cmd.arg = "window")], m_state)
    \/ /\ cmd.evt = "SET_PARAMS"
       /\ ParamsRejected(cmd) \/ ParamsCommitted(cmd)
    \/ /\ cmd.evt = "START_PREVIEW"
       /\ IF dev.mPreviewWindow
          THEN Perform(cmd, PrepareAndStartPreview(dev), "PREVIEWING", m_state)
          ELSE Perform(cmd, PreparePreview(dev), "PREVIEW_READY", m_state)
    \/ /\ cmd.evt = "START_NODISPLAY_PREVIEW"
       /\ Perform(cmd, PrepareAndStartPreview(dev), "PREVIEWING", m_state)
    \/ AcknowledgeOneOf(cmd, {"STOP_PREVIEW"})

PreviewStoppedOther(cmd) ==
    \/ AcknowledgeOneOf(cmd, PlainOps \cup {"REG_FACE_IMAGE", "START_AUTO_FOCUS", "CANCEL_PICTURE"})
    \/ DoEnabled(cmd, FALSE, FALSE)
    \/ cmd.evt = "RELEASE" /\ FinishStop(cmd, Release(dev), m_state)
    \/ DoSendCommand(cmd, m_state)
    \/ RefuseOneOf(cmd, {"START_RECORDING", "STOP_RECORDING", "RELEASE_RECORDING_FRAME",
                         "PREPARE_SNAPSHOT", "TAKE_PICTURE"})
    \/ DoCancelAutoFocus(cmd)

PreviewStoppedEvent(cmd) ==
    \/ DoEvtNotify(cmd)
    \/ DoSnapshotDoneIgnored(cmd)
    \/ IgnoreOneOf(cmd, {"FOCUS_UPDATE", "PREP_SNAPSHOT_DONE", "READY_FOR_SNAPSHOT",
                         "JPEG_EVT_NOTIFY", "STOP_CAPTURE_CHANNEL"})

procEvtPreviewStoppedState(cmd) ==
    PreviewStoppedPreview(cmd) \/ PreviewStoppedOther(cmd) \/ PreviewStoppedEvent(cmd)

-----------------------------------------------------------------------------
(* PREVIEW_READY: prepared, waiting for a window. *)

\* Commit, whether it works or not, and prepare the preview again.
MistakenReprepare(d) == RestartPreview(d)

Reprepare(d) == UNION {PreparePreview(o.dev) : o \in Commit(UnpreparePreview(d))}

PreviewReadyPreview(cmd) ==
    \/ /\ cmd.evt = "SET_PREVIEW_WINDOW"
       /\ IF cmd.arg = "window"
          THEN LET d == [dev EXCEPT !.mPreviewWindow = TRUE]
               IN  Perform(cmd, OrElse(StartPreview(d), UnpreparePreview),
                           "PREVIEWING", "PREVIEW_STOPPED")
          ELSE Finish(cmd, [dev EXCEPT !.mPreviewWindow = FALSE], m_state)
    \/ SetParams(cmd, UNION {Reprepare(d) : d \in UpdatedDevices(cmd)}, "PREVIEW_STOPPED")
    \/ cmd.evt = "STOP_PREVIEW" /\ Finish(cmd, UnpreparePreview(dev), "PREVIEW_STOPPED")

PreviewReadyOther(cmd) ==
    \/ AcknowledgeOneOf(cmd, PlainOps \cup {"REG_FACE_IMAGE", "START_PREVIEW"})
    \/ DoEnabled(cmd, TRUE, FALSE)
    \/ DoAutoFocus(cmd)
    \/ DoCancelAutoFocus(cmd)
    \/ DoSendCommand(cmd, m_state)
    \/ RefuseOneOf(cmd, {"START_NODISPLAY_PREVIEW", "START_RECORDING", "STOP_RECORDING",
                         "PREPARE_SNAPSHOT", "TAKE_PICTURE", "CANCEL_PICTURE",
                         "RELEASE_RECORDING_FRAME", "RELEASE"})

PreviewReadyEvent(cmd) ==
    \/ DoEvtNotify(cmd)
    \/ DoSnapshotDoneIgnored(cmd)
    \/ IgnoreOneOf(cmd, {"FOCUS_UPDATE", "PREP_SNAPSHOT_DONE", "READY_FOR_SNAPSHOT",
                         "JPEG_EVT_NOTIFY", "STOP_CAPTURE_CHANNEL"})

procEvtPreviewReadyState(cmd) ==
    PreviewReadyPreview(cmd) \/ PreviewReadyOther(cmd) \/ PreviewReadyEvent(cmd)

-----------------------------------------------------------------------------
(* PREVIEWING. *)

PreviewingPreview(cmd) ==
    \/ RefuseOneOf(cmd, {"SET_PREVIEW_WINDOW"})
    \/ SetParams(cmd, UNION {RestartPreview(d) : d \in UpdatedDevices(cmd)}, "PREVIEW_STOPPED")
    \/ AcknowledgeOneOf(cmd, {"START_PREVIEW", "START_NODISPLAY_PREVIEW"})
    \/ cmd.evt = "STOP_PREVIEW" /\ Finish(cmd, StopPreview(dev), "PREVIEW_STOPPED")

\* A picture taken without zero shutter lag ends the preview; what comes of a
\* retro picture is answered by READY_FOR_SNAPSHOT.
PreviewingTakePicture(cmd) ==
    /\ cmd.evt = "TAKE_PICTURE"
    /\ IF dev.m_bRecordingHint
       THEN Perform(cmd, TakeLiveSnapshot(dev), "PREVIEW_PIC_TAKING", "PREVIEWING")
       ELSE IF dev.m_bZslMode \/ dev.mLongshotEnabled
       THEN \E o \in TakePicture(dev) :
               /\ dev' = o.dev
               /\ m_state' = IF o.ok THEN "PREVIEW_PIC_TAKING" ELSE "PREVIEWING"
               /\ IF dev.bRetroPicture /\ o.ok THEN NoReply ELSE Reply(cmd.evt, Status(o.ok))
       ELSE Perform(cmd, TakePicture(dev), "PIC_TAKING", "PREVIEW_STOPPED")

PreviewingCapture(cmd) ==
    \/ cmd.evt = "START_RECORDING" /\ Perform(cmd, StartRecording(dev), "RECORDING", m_state)
    \/ DoPrepareSnapshot(cmd, "PREPARE_SNAPSHOT")
    \/ PreviewingTakePicture(cmd)

PreviewingOther(cmd) ==
    \/ AcknowledgeOneOf(cmd, PlainOps \cup {"REG_FACE_IMAGE"})
    \/ DoEnabled(cmd, TRUE, FALSE)
    \/ DoAutoFocus(cmd)
    \/ DoCancelAutoFocus(cmd)
    \/ DoSendCommand(cmd, m_state)
    \/ RefuseOneOf(cmd, {"CANCEL_PICTURE", "STOP_RECORDING", "RELEASE_RECORDING_FRAME", "RELEASE"})

PreviewingEvent(cmd) ==
    \/ DoFocusUpdate(cmd)
    \/ DoEvtNotify(cmd)
    \/ DoSnapshotDoneIgnored(cmd)
    \/ IgnoreOneOf(cmd, {"PREP_SNAPSHOT_DONE", "READY_FOR_SNAPSHOT", "JPEG_EVT_NOTIFY",
                         "STOP_CAPTURE_CHANNEL"})

procEvtPreviewingState(cmd) ==
    PreviewingPreview(cmd) \/ PreviewingCapture(cmd) \/ PreviewingOther(cmd) \/ PreviewingEvent(cmd)

-----------------------------------------------------------------------------
(* PREPARE_SNAPSHOT: waiting for the flash and focus to settle. *)

MistakenPrepareSnapshotDone(cmd) ==
    cmd.evt = "PREP_SNAPSHOT_DONE" /\ UNCHANGED dev /\ m_state' = "PREVIEWING" /\ NoReply

PrepareSnapshotDone(cmd) ==
    /\ cmd.evt = "PREP_SNAPSHOT_DONE"
    /\ UNCHANGED dev
    /\ m_state' = "PREVIEWING"
    /\ Reply("PREPARE_SNAPSHOT", "NO_ERROR")

\* REG_FACE_IMAGE falls through to the default branch, without an answer.
procEvtPrepareSnapshotState(cmd) ==
    \/ RefuseOneOf(cmd, ApiEvent \ {"REG_FACE_IMAGE"})
    \/ DoFocusUpdate(cmd)
    \/ PrepareSnapshotDone(cmd)
    \/ DoEvtNotify(cmd)
    \/ DoSnapshotDoneIgnored(cmd)
    \/ IgnoreOneOf(cmd, {"REG_FACE_IMAGE", "STOP_CAPTURE_CHANNEL", "READY_FOR_SNAPSHOT",
                         "JPEG_EVT_NOTIFY"})

(* PIC_TAKING: a picture without zero shutter lag. *)

LongShotOrRefuse(cmd) ==
    /\ cmd.evt = "TAKE_PICTURE"
    /\ IF dev.mLongshotEnabled
       THEN Perform(cmd, LongShot(dev), m_state, m_state)
       ELSE Refuse(cmd)

\* SET_PARAMS does not look at needRestart here.
PicTakingPreview(cmd) ==
    \/ RefuseOneOf(cmd, {"SET_PREVIEW_WINDOW"})
    \/ cmd.evt = "SET_PARAMS" /\ (ParamsRejected(cmd) \/ ParamsCommitted(cmd))
    \/ /\ cmd.evt \in {"STOP_PREVIEW", "CANCEL_PICTURE"}
       /\ CanCancelPicture(dev)
       /\ Finish(cmd, CancelPicture(dev), "PREVIEW_STOPPED")

PicTakingOther(cmd) ==
    \/ AcknowledgeOneOf(cmd, PlainOps \cup {"REG_FACE_IMAGE"})
    \/ DoEnabled(cmd, FALSE, FALSE)
    \/ DoAutoFocus(cmd)
    \/ DoCancelAutoFocus(cmd)
    \/ DoSendCommand(cmd, "PREVIEWING")
    \/ LongShotOrRefuse(cmd)
    \/ RefuseOneOf(cmd, {"PREPARE_SNAPSHOT", "START_RECORDING", "STOP_RECORDING",
                         "RELEASE_RECORDING_FRAME", "START_PREVIEW",
                         "START_NODISPLAY_PREVIEW", "RELEASE"})

\* The frame is reprocessed: the capture channel can go and, with the restart
\* property, the preview comes back while the picture is still being encoded.
DoStopCaptureChannel(cmd) ==
    /\ cmd = StopCaptureCommand
    /\ LET stopped == StopCaptureChannel(dev, PreviewRestartEnabled)
       IN  Perform(cmd, IF PreviewRestartEnabled
                        THEN AndThen(PreparePreview(stopped), StartPreview)
                        ELSE {Done(stopped)},
                   m_state, m_state)

PicTakingEvent(cmd) ==
    \/ DoFocusUpdate(cmd)
    \/ DoEvtNotify(cmd)
    \/ DoJpegNotify(cmd)
    \/ DoStopCaptureChannel(cmd)
    \/ /\ cmd.evt = "SNAPSHOT_DONE"
       /\ CanCancelPicture(dev)
       /\ dev' = CancelPicture(dev)
       /\ m_state' = IF PreviewRestartEnabled THEN "PREVIEWING" ELSE "PREVIEW_STOPPED"
       /\ EvtReply
    \/ IgnoreOneOf(cmd, {"PREP_SNAPSHOT_DONE", "READY_FOR_SNAPSHOT"})

procEvtPicTakingState(cmd) ==
    PicTakingPreview(cmd) \/ PicTakingOther(cmd) \/ PicTakingEvent(cmd)

-----------------------------------------------------------------------------
(* RECORDING. *)

RecordingPreview(cmd) ==
    \/ AcknowledgeOneOf(cmd, {"START_PREVIEW", "SET_PREVIEW_WINDOW"})
    \/ SetParamsRecording(cmd)
    \/ DoEnabled(cmd, FALSE, TRUE)

RecordingOther(cmd) ==
    \/ AcknowledgeOneOf(cmd, PlainOps \cup {"REG_FACE_IMAGE", "START_RECORDING",
                                           "RELEASE_RECORDING_FRAME", "PREPARE_SNAPSHOT"})
    \/ DoAutoFocus(cmd)
    \/ DoCancelAutoFocus(cmd)
    \/ DoSendCommand(cmd, m_state)
    \/ /\ cmd.evt = "TAKE_PICTURE"
       /\ Perform(cmd, TakeLiveSnapshot(dev), "VIDEO_PIC_TAKING", "RECORDING")
    \/ cmd.evt = "STOP_RECORDING" /\ FinishStop(cmd, StopRecording(dev), "PREVIEWING")
    \/ /\ cmd.evt = "STOP_PREVIEW"
       /\ Finish(cmd, StopPreview(StopRecording(dev)), "PREVIEW_STOPPED")
    \/ RefuseOneOf(cmd, {"CANCEL_PICTURE", "START_NODISPLAY_PREVIEW", "RELEASE"})

RecordingEvent(cmd) ==
    \/ DoFocusUpdate(cmd)
    \/ DoEvtNotify(cmd)
    \/ DoSnapshotDoneIgnored(cmd)
    \/ IgnoreOneOf(cmd, {"PREP_SNAPSHOT_DONE", "READY_FOR_SNAPSHOT", "JPEG_EVT_NOTIFY",
                         "STOP_CAPTURE_CHANNEL"})

procEvtRecordingState(cmd) ==
    RecordingPreview(cmd) \/ RecordingOther(cmd) \/ RecordingEvent(cmd)

-----------------------------------------------------------------------------
(* VIDEO_PIC_TAKING: a picture taken while recording. *)

VideoPicTakingPreview(cmd) ==
    \/ RefuseOneOf(cmd, {"SET_PREVIEW_WINDOW"})
    \/ SetParamsRecording(cmd)
    \/ DoEnabled(cmd, TRUE, TRUE)

VideoPicTakingCancel(cmd) ==
    /\ CanCancelLiveSnapshot(dev)
    /\ LET cancelled == CancelLiveSnapshot(dev)
       IN  \/ /\ cmd.evt = "STOP_RECORDING"
              /\ FinishStop(cmd, StopRecording(cancelled), "PREVIEWING")
           \/ /\ cmd.evt = "CANCEL_PICTURE"
              /\ FinishStop(cmd, cancelled, "RECORDING")
           \/ /\ cmd.evt = "STOP_PREVIEW"
              /\ Finish(cmd, StopPreview(StopRecording(cancelled)), "PREVIEW_STOPPED")

VideoPicTakingOther(cmd) ==
    \/ AcknowledgeOneOf(cmd, PlainOps \cup {"REG_FACE_IMAGE", "RELEASE_RECORDING_FRAME"})
    \/ DoAutoFocus(cmd)
    \/ DoCancelAutoFocus(cmd)
    \/ DoSendCommand(cmd, m_state)
    \/ RefuseOneOf(cmd, {"START_RECORDING", "START_PREVIEW", "START_NODISPLAY_PREVIEW",
                         "PREPARE_SNAPSHOT", "TAKE_PICTURE", "RELEASE"})

VideoPicTakingEvent(cmd) ==
    \/ DoFocusUpdate(cmd)
    \/ DoEvtNotify(cmd)
    \/ DoJpegNotify(cmd)
    \/ /\ cmd.evt = "SNAPSHOT_DONE"
       /\ CanCancelLiveSnapshot(dev)
       /\ dev' = CancelLiveSnapshot(dev)
       /\ m_state' = "RECORDING"
       /\ EvtReply
    \/ IgnoreOneOf(cmd, {"PREP_SNAPSHOT_DONE", "READY_FOR_SNAPSHOT", "STOP_CAPTURE_CHANNEL"})

procEvtVideoPicTakingState(cmd) ==
    \/ VideoPicTakingPreview(cmd)
    \/ VideoPicTakingCancel(cmd)
    \/ VideoPicTakingOther(cmd)
    \/ VideoPicTakingEvent(cmd)

-----------------------------------------------------------------------------
(* PREVIEW_PIC_TAKING: a picture taken while the preview streams - a zero   *)
(* shutter lag picture, a longshot or a live snapshot before recording.     *)

\* Which of the three is decided again each time, from the parameters and the
\* longshot flag as they are now.
CancelsAsPicture(d)    == d.m_bZslMode \/ d.mLongshotEnabled
CanCancelPreviewPic(d) ==
    IF CancelsAsPicture(d) THEN CanCancelPicture(d) ELSE CanCancelLiveSnapshot(d)
CancelPreviewPic(d) ==
    IF CancelsAsPicture(d) THEN CancelPicture(d) ELSE CancelLiveSnapshot(d)

PreviewPicTakingPreview(cmd) ==
    \/ SetParams(cmd, UNION {RestartPreview(d) : d \in UpdatedDevices(cmd)}, "PIC_TAKING")
    \/ DoEnabled(cmd, TRUE, FALSE)
    \/ /\ cmd.evt = "STOP_PREVIEW"
       /\ CanCancelPreviewPic(dev)
       /\ IF CancelsAsPicture(dev)
          THEN Finish(cmd, UnpreparePreview(CancelPreviewPic(dev)), "PREVIEW_STOPPED")
          ELSE FinishStop(cmd, UnpreparePreview(CancelPreviewPic(dev)), "PREVIEW_STOPPED")

PreviewPicTakingCapture(cmd) ==
    \/ DoSendCommand(cmd, "PREVIEWING")
    \/ /\ cmd.evt = "CANCEL_PICTURE"
       /\ CanCancelPreviewPic(dev)
       /\ FinishStop(cmd, CancelPreviewPic(dev), "PREVIEWING")
    \/ /\ cmd.evt = "START_RECORDING"
       /\ IF CancelsAsPicture(dev) THEN Refuse(cmd)
          ELSE Perform(cmd, StartRecording(dev), "VIDEO_PIC_TAKING", m_state)
    \/ LongShotOrRefuse(cmd)
    \/ /\ cmd.evt = "PREPARE_SNAPSHOT"
       /\ IF dev.bRetroPicture THEN DoPrepareSnapshot(cmd, m_state) ELSE Refuse(cmd)

PreviewPicTakingOther(cmd) ==
    \/ AcknowledgeOneOf(cmd, PlainOps \cup {"REG_FACE_IMAGE", "RELEASE_RECORDING_FRAME"})
    \/ DoAutoFocus(cmd)
    \/ DoCancelAutoFocus(cmd)
    \/ RefuseOneOf(cmd, {"STOP_RECORDING", "START_PREVIEW", "START_NODISPLAY_PREVIEW",
                         "SET_PREVIEW_WINDOW", "RELEASE"})

\* The first answer of a retro picture is READY_FOR_SNAPSHOT's; its end is
\* signalled to the API callers too, none of whom waits for it.
PreviewPicTakingEvent(cmd) ==
    \/ DoFocusUpdate(cmd)
    \/ DoEvtNotify(cmd)
    \/ DoJpegNotify(cmd)
    \/ /\ cmd.evt \in {"PREP_SNAPSHOT_DONE", "READY_FOR_SNAPSHOT"}
       /\ Stay
       /\ IF dev.bRetroPicture
          THEN Reply(IF cmd.evt = "READY_FOR_SNAPSHOT" THEN "TAKE_PICTURE"
                     ELSE "PREPARE_SNAPSHOT", "NO_ERROR")
          ELSE NoReply
    \/ /\ cmd.evt = "SNAPSHOT_DONE"
       /\ CanCancelPreviewPic(dev)
       /\ dev' = CancelPreviewPic(dev)
       /\ m_state' = "PREVIEWING"
       /\ m_evtResult' = TRUE
       /\ UNCHANGED evt_queue
       /\ IF dev.bRetroPicture THEN Signal(cmd.evt, "NO_ERROR", FALSE)
          ELSE UNCHANGED m_apiResultList
    \/ IgnoreOneOf(cmd, {"STOP_CAPTURE_CHANNEL"})

procEvtPreviewPicTakingState(cmd) ==
    \/ PreviewPicTakingPreview(cmd)
    \/ PreviewPicTakingCapture(cmd)
    \/ PreviewPicTakingOther(cmd)
    \/ PreviewPicTakingEvent(cmd)

-----------------------------------------------------------------------------

stateMachine(cmd) ==
    \/ m_state = "PREVIEW_STOPPED"    /\ procEvtPreviewStoppedState(cmd)
    \/ m_state = "PREVIEW_READY"      /\ procEvtPreviewReadyState(cmd)
    \/ m_state = "PREVIEWING"         /\ procEvtPreviewingState(cmd)
    \/ m_state = "PREPARE_SNAPSHOT"   /\ procEvtPrepareSnapshotState(cmd)
    \/ m_state = "PIC_TAKING"         /\ procEvtPicTakingState(cmd)
    \/ m_state = "RECORDING"          /\ procEvtRecordingState(cmd)
    \/ m_state = "VIDEO_PIC_TAKING"   /\ procEvtVideoPicTakingState(cmd)
    \/ m_state = "PREVIEW_PIC_TAKING" /\ procEvtPreviewPicTakingState(cmd)

\* A command that never ends: see CaptureJobStuck.
TakePictureStuck(cmd) ==
    /\ m_state = "PREVIEWING"
    /\ cmd.evt = "TAKE_PICTURE"
    /\ ~dev.m_bRecordingHint
    /\ CaptureJobStuck(dev)
    /\ m_state' = "PIC_TAKING"
    /\ dev' = DelChannels(dev, {"PREVIEW", "CAPTURE"})
    /\ NoReply

isRecording == m_state \in {"RECORDING", "VIDEO_PIC_TAKING"}

=============================================================================
