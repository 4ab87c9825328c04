------------------------------- MODULE MCHal --------------------------------
(***************************************************************************)
(* The components of the first camera HAL that have threads of their own,   *)
(* side by side: the post-processor, the reprocess channel, the JPEG        *)
(* encoder's interface, the frames of a stream, the deferred work; and what *)
(* follows the framework's calls: the requests of the third camera HAL, the *)
(* power HAL and the torch.  A behaviour is about one of them, in an        *)
(* instance small enough for TLC; part says which.                          *)
(***************************************************************************)
EXTENDS Naturals, FiniteSets, Sequences

VARIABLES
    part,           \* the component, and instance, that this behaviour is about
    \* QCameraPostProc
    postprocM_inputPPQ, postprocM_ongoingPPQ, m_inputJpegQ, m_ongoingJpegQ, m_inputRawQ,
    m_inputSaveQ, m_dataProcTh, m_saveProcTh, postprocSm, capture, reproc, encoder,
    evts, brought, back, refused, answered,
    \* StreamFrames
    session, on, ready, kernel, mDataQ, frame, tell, notes, app, window, mLocalFlag,
    msg, mActive, picture, kept, stale, dead,
    \* DeferredWork
    mDeffOngoingJobs, mCmdQueue, dw, deleting, job, wait, m_channels, building, streams,
    active, post, deferredSm, phase, cb, done, fault,
    \* ReprocChannel
    reprocP, sets, chan, maps, works, src, reprocM_inputPPQ, reprocM_ongoingPPQ, jpegs,
    errors, gone, heap, lost, face,
    \* MmJpeg
    sess, comp, given, session_handle_q, out_buf_q, job_queue, ongoing_job_q, job_sem,
    job_lock, mgr, client, created, started, asked, told, quit, over,
    \* QCamera3Requests
    mPendingRequestsList, mPendingBuffers, mPendingFrameDropList,
    mPendingReprocessResultList, mPendingRequest, mFlush, mFirstRequest,
    mWokenUpByDaemon, caller, signalled, toStop, kindOf, requestMetas, bufs, pic,
    requestLost, fw,
    \* PowerHal
    current_power_profile, active_hints, locks, next, launch_handle, launch_mode,
    lock_handle, recent, display_hint_sent, first_display_off_hint, interactive,
    display, launching, sustained,
    \* QCameraFlash
    gCamCapability, flash, led, device, status

postprocVars == <<postprocM_inputPPQ, postprocM_ongoingPPQ, m_inputJpegQ,
                   m_ongoingJpegQ, m_inputRawQ, m_inputSaveQ, m_dataProcTh,
                   m_saveProcTh, postprocSm, capture, reproc, encoder, evts, brought,
                   back, refused, answered>>
framesVars == <<session, on, ready, kernel, mDataQ, frame, tell, notes, app, window,
                 mLocalFlag, msg, mActive, picture, kept, stale, dead>>
deferredVars == <<mDeffOngoingJobs, mCmdQueue, dw, deleting, job, wait, m_channels,
                   building, streams, active, post, deferredSm, phase, cb, done, fault>>
reprocVars == <<reprocP, sets, chan, maps, works, src, reprocM_inputPPQ,
                 reprocM_ongoingPPQ, jpegs, errors, gone, heap, lost, face>>
jpegVars == <<sess, comp, given, session_handle_q, out_buf_q, job_queue, ongoing_job_q,
               job_sem, job_lock, mgr, client, created, started, asked, told, quit, over>>
requestVars == <<mPendingRequestsList, mPendingBuffers, mPendingFrameDropList,
                  mPendingReprocessResultList, mPendingRequest, mFlush, mFirstRequest,
                  mWokenUpByDaemon, caller, signalled, toStop, kindOf, requestMetas,
                  bufs, pic, requestLost, fw>>
powerVars == <<current_power_profile, active_hints, locks, next, launch_handle,
                launch_mode, lock_handle, recent, display_hint_sent,
                first_display_off_hint, interactive, display, launching, sustained>>
torchVars == <<gCamCapability, flash, led, device, status>>

\* What may fail in the post-processor and in the reprocess channel.
PostProcFaults == {"reproc", "session", "encode", "reprocess", "jpeg"}
ReprocFaults == {"init", "info", "add", "start", "map_meta", "map_input", "param", "capture"}

\* Failures the code of the deferred work gets over: no work is pending, no
\* deferred stream is without buffers.  And all failures.
Harmless == {<<"zsl", "add">>, <<"video", "add">>, <<"jpeg", "config">>,
             <<"longshot", "declare">>, <<"longshot", "add">>, <<"longshot", "config">>,
             <<"raw", "ppstart">>, <<"raw", "start">>}
AnyFailure ==
    {"normal", "video", "zsl", "jpeg", "longshot", "raw",
     "stopPreview", "cancelPicture", "stopCapture"}
        \X {"add", "declare", "config", "ppstart", "start"}
    \cup {<<"pproc", "start">>}

Picture(feats, snaps, zsl) == [fmt |-> "JPEG", on |-> feats, snaps |-> snaps, zsl |-> zsl,
                               recording |-> FALSE, longshot |-> FALSE]
\* Pictures that are turned, scaled or neither, one frame each.
OfflinePictures == {Picture(feats, 1, FALSE) : feats \in SUBSET {"ROTATION", "SCALE"}}
\* Frames of a stream that runs: pictures of several frames, ZSL, a longshot.
OnlinePictures == {Picture({"ROTATION"}, 2, FALSE), Picture({}, 3, TRUE),
                   Picture({"DENOISE2D", "FLIP"}, 2, TRUE),
                   [Picture({"SCALE"}, 1, TRUE) EXCEPT !.longshot = TRUE],
                   [Picture({"ROTATION"}, 1, FALSE) EXCEPT !.recording = TRUE]}

-----------------------------------------------------------------------------
\* The capture channel runs on; a copied, stopped source; raw pictures; pictures saved.
ZslProc == INSTANCE QCameraPostProc WITH
    Zsl <- TRUE, Reprocess <- FALSE,
    Regular <- FALSE, Raw <- FALSE, SaveProc <- FALSE, Faults <- PostProcFaults,
    MaxFrames <- 2, MaxTakes <- 2, m_inputPPQ <- postprocM_inputPPQ,
    m_ongoingPPQ <- postprocM_ongoingPPQ, sm <- postprocSm
RegularProc == INSTANCE QCameraPostProc WITH
    Zsl <- FALSE, Reprocess <- TRUE,
    Regular <- TRUE, Raw <- FALSE, SaveProc <- FALSE, Faults <- PostProcFaults,
    MaxFrames <- 2, MaxTakes <- 2, m_inputPPQ <- postprocM_inputPPQ,
    m_ongoingPPQ <- postprocM_ongoingPPQ, sm <- postprocSm
RawProc == INSTANCE QCameraPostProc WITH
    Zsl <- TRUE, Reprocess <- TRUE,
    Regular <- FALSE, Raw <- TRUE, SaveProc <- FALSE, Faults <- PostProcFaults,
    MaxFrames <- 2, MaxTakes <- 2, m_inputPPQ <- postprocM_inputPPQ,
    m_ongoingPPQ <- postprocM_ongoingPPQ, sm <- postprocSm
SaveProc == INSTANCE QCameraPostProc WITH
    Zsl <- TRUE, Reprocess <- FALSE,
    Regular <- FALSE, Raw <- FALSE, SaveProc <- TRUE, Faults <- PostProcFaults,
    MaxFrames <- 2, MaxTakes <- 2, m_inputPPQ <- postprocM_inputPPQ,
    m_ongoingPPQ <- postprocM_ongoingPPQ, sm <- postprocSm

\* An image kept whole, and one cropped beyond its edge.
Whole == [src |-> 8, left |-> 0, width |-> 0, dst |-> 8]
Outside == [src |-> 8, left |-> 2, width |-> 0, dst |-> 8]
Plain == [main |-> Whole, thumb |-> Whole]

\* Frames for the window, for preview callbacks, for raw callbacks, for the encoder.
\* With them an encoder (DisplayFrames!Encoder, ...): two sessions with two buffers,
\* with one buffer, on an engine for one job; one session, set up for jobs that
\* cannot all be done.  And requests (DisplayFrames!Requests, ...): results lost and
\* late, flushes, callers that wait, reprocess requests.
DisplayFrames == INSTANCE StreamFrames_proofs WITH
    Kind <- "display", N <- 3,
    MinUndequeued <- 1, MaxSessions <- 2, MaxNotes <- 2, MsgChanges <- TRUE,
    WindowFaults <- {"import"}, Pictures <- FALSE,
    NumSessions <- 2, NumDstBufs <- 2, MaxOngoing <- 2, MaxJobs <- 2,
    Faults <- {"encode"}, Asks <- {Plain}, OnlyWhenStopping <- TRUE,
    Kinds <- {"still"}, MinInflight <- 2, MaxInflight <- 3, MetaLost <- TRUE,
    Drops <- TRUE, Flushes <- FALSE, Waits5s <- TRUE, MaxFrames <- 3,
    metas <- requestMetas, lost <- requestLost
CallbackFrames == INSTANCE StreamFrames_proofs WITH
    Kind <- "nodisplay", N <- 2,
    MinUndequeued <- 1, MaxSessions <- 2, MaxNotes <- 2, MsgChanges <- TRUE,
    WindowFaults <- {}, Pictures <- FALSE,
    NumSessions <- 2, NumDstBufs <- 1, MaxOngoing <- 2, MaxJobs <- 2,
    Faults <- {"encode", "state"}, Asks <- {Plain}, OnlyWhenStopping <- TRUE,
    Kinds <- {"preview", "still"}, MinInflight <- 2, MaxInflight <- 3, MetaLost <- FALSE,
    Drops <- FALSE, Flushes <- TRUE, Waits5s <- TRUE, MaxFrames <- 2,
    metas <- requestMetas, lost <- requestLost
RdiFrames == INSTANCE StreamFrames_proofs WITH
    Kind <- "rdi", N <- 2, MinUndequeued <- 1,
    MaxSessions <- 1, MaxNotes <- 2, MsgChanges <- TRUE, WindowFaults <- {},
    Pictures <- FALSE,
    NumSessions <- 2, NumDstBufs <- 2, MaxOngoing <- 1, MaxJobs <- 2,
    Faults <- {"encode"}, Asks <- {Plain}, OnlyWhenStopping <- TRUE,
    Kinds <- {"preview", "still"}, MinInflight <- 2, MaxInflight <- 3, MetaLost <- TRUE,
    Drops <- FALSE, Flushes <- FALSE, Waits5s <- FALSE, MaxFrames <- 3,
    metas <- requestMetas, lost <- requestLost
VideoFrames == INSTANCE StreamFrames_proofs WITH
    Kind <- "video", N <- 2,
    MinUndequeued <- 1, MaxSessions <- 2, MaxNotes <- 2, MsgChanges <- FALSE,
    WindowFaults <- {}, Pictures <- TRUE,
    NumSessions <- 1, NumDstBufs <- 1, MaxOngoing <- 1, MaxJobs <- 2,
    Faults <- {"configure", "state"},
    Asks <- {Plain, [Plain EXCEPT !.main = Outside], [Plain EXCEPT !.thumb = Outside]},
    OnlyWhenStopping <- TRUE,
    Kinds <- {"preview", "reprocess"}, MinInflight <- 2, MaxInflight <- 3, MetaLost <- FALSE,
    Drops <- FALSE, Flushes <- FALSE, Waits5s <- FALSE, MaxFrames <- 4,
    metas <- requestMetas, lost <- requestLost

\* Failures the code gets over, and any failure at all.
Deferred == INSTANCE DeferredWork WITH
    MaxJobs <- 6,
    Previews <- {"normal", "video", "zsl"}, Pictures <- {"jpeg", "longshot", "raw"},
    RawYuv <- TRUE, EarlyCancel <- FALSE, MayFail <- Harmless, sm <- deferredSm
Failing == INSTANCE DeferredWork WITH
    MaxJobs <- 6,
    Previews <- {"normal", "video", "zsl"}, Pictures <- {"jpeg", "longshot", "raw"},
    RawYuv <- FALSE, EarlyCancel <- TRUE, MayFail <- AnyFailure, sm <- deferredSm

\* Frames of a stopped stream, and of one that runs.
Offline == INSTANCE ReprocChannel WITH
    Params <- OfflinePictures,
    Source <- {"METADATA", "POSTVIEW", "SNAPSHOT"}, Supported <- {"ROTATION", "SCALE"},
    MinPP <- {}, HdrFrames <- 3, BracketFrames <- 2, LongshotStages <- 2,
    Faults <- ReprocFaults, MaxFrames <- 3, MaxSets <- 0, p <- reprocP,
    m_inputPPQ <- reprocM_inputPPQ, m_ongoingPPQ <- reprocM_ongoingPPQ
Online == INSTANCE ReprocChannel WITH
    Params <- OnlinePictures,
    Source <- {"METADATA", "POSTVIEW", "SNAPSHOT"}, Supported <- {"ROTATION", "SCALE"},
    MinPP <- {"EFFECT", "SHARPNESS"}, HdrFrames <- 3, BracketFrames <- 2,
    LongshotStages <- 2, Faults <- ReprocFaults, MaxFrames <- 4, MaxSets <- 1,
    p <- reprocP, m_inputPPQ <- reprocM_inputPPQ, m_ongoingPPQ <- reprocM_ongoingPPQ

\* Hints of all kinds; a perfd that refuses, a governor that changes.  The torch of
\* flashes that may fail to open, and to light.
Power == INSTANCE PowerHal_proofs WITH
    Durations <- {100, 600, 2000}, Repeats <- FALSE,
    GovernorChanges <- FALSE, AcqFails <- FALSE, MaxHandle <- 6,
    Cameras <- 0..3, WithFlash <- {0, 1}, Faults <- {"query", "init", "register"}
Refusals == INSTANCE PowerHal_proofs WITH
    Durations <- {100}, Repeats <- TRUE,
    GovernorChanges <- TRUE, AcqFails <- TRUE, MaxHandle <- 4,
    Cameras <- 0..3, WithFlash <- {0, 1},
    Faults <- {"query", "init", "register", "on", "off"}

-----------------------------------------------------------------------------
Parts == {"zsl", "regular", "raw", "save", "display", "nodisplay", "rdi", "video",
          "deferred", "failing", "offline", "online", "jpeg", "one_buffer",
          "one_engine", "setup", "results", "flushes", "callers", "reprocess",
          "power", "refusals", "torch", "torch_faults"}

\* The instances keep to the assumptions of their modules.
ASSUME InstancesAssumption ==
    /\ ZslProc!PostProcAssumption /\ RegularProc!PostProcAssumption /\
       RawProc!PostProcAssumption /\ SaveProc!PostProcAssumption
    /\ DisplayFrames!FramesAssumption /\ CallbackFrames!FramesAssumption /\
       RdiFrames!FramesAssumption /\ VideoFrames!FramesAssumption
    /\ Deferred!DeferredAssumption /\ Failing!DeferredAssumption
    /\ Offline!ReprocAssumption /\ Online!ReprocAssumption
    /\ DisplayFrames!Encoder!JpegAssumption /\ CallbackFrames!Encoder!JpegAssumption /\
       RdiFrames!Encoder!JpegAssumption /\ VideoFrames!Encoder!JpegAssumption
    /\ DisplayFrames!Requests!RequestsAssumption /\ CallbackFrames!Requests!RequestsAssumption /\
       RdiFrames!Requests!RequestsAssumption /\ VideoFrames!Requests!RequestsAssumption
    /\ Power!PowerAssumption /\ Refusals!PowerAssumption
    /\ Power!Torch!FlashAssumption /\ Refusals!Torch!FlashAssumption

\* A component the behaviour is not about stays in an initial state.
Init ==
    /\ part \in Parts
    /\ CASE part = "regular" -> RegularProc!Init
         [] part = "raw" -> RawProc!Init
         [] part = "save" -> SaveProc!Init
         [] OTHER -> ZslProc!Init
    /\ CASE part = "nodisplay" -> CallbackFrames!Init
         [] part = "rdi" -> RdiFrames!Init
         [] part = "video" -> VideoFrames!Init
         [] OTHER -> DisplayFrames!Init
    /\ CASE part = "failing" -> Failing!Init
         [] OTHER -> Deferred!Init
    /\ CASE part = "online" -> Online!Init
         [] OTHER -> Offline!Init
    /\ part \in {"offline", "online"} \/ reprocP = CHOOSE q \in OfflinePictures : TRUE
    /\ CASE part = "one_buffer" -> CallbackFrames!Encoder!Init
         [] part = "one_engine" -> RdiFrames!Encoder!Init
         [] part = "setup" -> VideoFrames!Encoder!Init
         [] OTHER -> DisplayFrames!Encoder!Init
    /\ CASE part = "flushes" -> CallbackFrames!Requests!Init
         [] part = "callers" -> RdiFrames!Requests!Init
         [] part = "reprocess" -> VideoFrames!Requests!Init
         [] OTHER -> DisplayFrames!Requests!Init
    /\ CASE part = "refusals" -> Refusals!Init
         [] OTHER -> Power!Init
    /\ CASE part = "torch_faults" -> Refusals!Torch!Init
         [] OTHER -> Power!Torch!Init

\* The steps of each component, in its instances.
PostprocNext ==
    \/ part = "zsl" /\ ZslProc!Next
          /\ UNCHANGED <<part, framesVars, deferredVars, reprocVars, jpegVars,
                        requestVars, powerVars, torchVars>>
    \/ part = "regular" /\ RegularProc!Next
          /\ UNCHANGED <<part, framesVars, deferredVars, reprocVars, jpegVars,
                        requestVars, powerVars, torchVars>>
    \/ part = "raw" /\ RawProc!Next
          /\ UNCHANGED <<part, framesVars, deferredVars, reprocVars, jpegVars,
                        requestVars, powerVars, torchVars>>
    \/ part = "save" /\ SaveProc!Next
          /\ UNCHANGED <<part, framesVars, deferredVars, reprocVars, jpegVars,
                        requestVars, powerVars, torchVars>>

FramesNext ==
    \/ part = "display" /\ DisplayFrames!Next
          /\ UNCHANGED <<part, postprocVars, deferredVars, reprocVars, jpegVars,
                        requestVars, powerVars, torchVars>>
    \/ part = "nodisplay" /\ CallbackFrames!Next
          /\ UNCHANGED <<part, postprocVars, deferredVars, reprocVars, jpegVars,
                        requestVars, powerVars, torchVars>>
    \/ part = "rdi" /\ RdiFrames!Next
          /\ UNCHANGED <<part, postprocVars, deferredVars, reprocVars, jpegVars,
                        requestVars, powerVars, torchVars>>
    \/ part = "video" /\ VideoFrames!Next
          /\ UNCHANGED <<part, postprocVars, deferredVars, reprocVars, jpegVars,
                        requestVars, powerVars, torchVars>>

DeferredNext ==
    \/ part = "deferred" /\ Deferred!Next
          /\ UNCHANGED <<part, postprocVars, framesVars, reprocVars, jpegVars,
                        requestVars, powerVars, torchVars>>
    \/ part = "failing" /\ Failing!Next
          /\ UNCHANGED <<part, postprocVars, framesVars, reprocVars, jpegVars,
                        requestVars, powerVars, torchVars>>

ReprocNext ==
    \/ part = "offline" /\ Offline!Next
          /\ UNCHANGED <<part, postprocVars, framesVars, deferredVars, jpegVars,
                        requestVars, powerVars, torchVars>>
    \/ part = "online" /\ Online!Next
          /\ UNCHANGED <<part, postprocVars, framesVars, deferredVars, jpegVars,
                        requestVars, powerVars, torchVars>>

JpegNext ==
    \/ part = "jpeg" /\ DisplayFrames!Encoder!Next
          /\ UNCHANGED <<part, postprocVars, framesVars, deferredVars, reprocVars,
                        requestVars, powerVars, torchVars>>
    \/ part = "one_buffer" /\ CallbackFrames!Encoder!Next
          /\ UNCHANGED <<part, postprocVars, framesVars, deferredVars, reprocVars,
                        requestVars, powerVars, torchVars>>
    \/ part = "one_engine" /\ RdiFrames!Encoder!Next
          /\ UNCHANGED <<part, postprocVars, framesVars, deferredVars, reprocVars,
                        requestVars, powerVars, torchVars>>
    \/ part = "setup" /\ VideoFrames!Encoder!Next
          /\ UNCHANGED <<part, postprocVars, framesVars, deferredVars, reprocVars,
                        requestVars, powerVars, torchVars>>

RequestsNext ==
    \/ part = "results" /\ DisplayFrames!Requests!Next
          /\ UNCHANGED <<part, postprocVars, framesVars, deferredVars, reprocVars,
                        jpegVars, powerVars, torchVars>>
    \/ part = "flushes" /\ CallbackFrames!Requests!Next
          /\ UNCHANGED <<part, postprocVars, framesVars, deferredVars, reprocVars,
                        jpegVars, powerVars, torchVars>>
    \/ part = "callers" /\ RdiFrames!Requests!Next
          /\ UNCHANGED <<part, postprocVars, framesVars, deferredVars, reprocVars,
                        jpegVars, powerVars, torchVars>>
    \/ part = "reprocess" /\ VideoFrames!Requests!Next
          /\ UNCHANGED <<part, postprocVars, framesVars, deferredVars, reprocVars,
                        jpegVars, powerVars, torchVars>>

PowerNext ==
    \/ part = "power" /\ Power!Next
          /\ UNCHANGED <<part, postprocVars, framesVars, deferredVars, reprocVars,
                        jpegVars, requestVars, torchVars>>
    \/ part = "refusals" /\ Refusals!Next
          /\ UNCHANGED <<part, postprocVars, framesVars, deferredVars, reprocVars,
                        jpegVars, requestVars, torchVars>>

TorchNext ==
    \/ part = "torch" /\ Power!Torch!Next
          /\ UNCHANGED <<part, postprocVars, framesVars, deferredVars, reprocVars,
                        jpegVars, requestVars, powerVars>>
    \/ part = "torch_faults" /\ Refusals!Torch!Next
          /\ UNCHANGED <<part, postprocVars, framesVars, deferredVars, reprocVars,
                        jpegVars, requestVars, powerVars>>

Next ==
    \/ PostprocNext \/ FramesNext \/ DeferredNext \/ ReprocNext
    \/ JpegNext \/ RequestsNext \/ PowerNext \/ TorchNext

vars == <<part, postprocVars, framesVars, deferredVars, reprocVars, jpegVars,
          requestVars, powerVars, torchVars>>

\* The fairness of each component (Fairness of its module), while the behaviour
\* is about it.
Spec ==
    /\ Init /\ [][Next]_vars
    /\ WF_postprocVars(\/ part = "zsl" /\ ZslProc!StateMachine
                       \/ part = "regular" /\ RegularProc!StateMachine
                       \/ part = "raw" /\ RawProc!StateMachine
                       \/ part = "save" /\ SaveProc!StateMachine)
    /\ WF_postprocVars(\/ part = "zsl" /\ ZslProc!dataProcessRoutine
                       \/ part = "regular" /\ RegularProc!dataProcessRoutine
                       \/ part = "raw" /\ RawProc!dataProcessRoutine
                       \/ part = "save" /\ SaveProc!dataProcessRoutine)
    /\ WF_postprocVars(\/ part = "zsl" /\ ZslProc!dataSaveRoutine
                       \/ part = "regular" /\ RegularProc!dataSaveRoutine
                       \/ part = "raw" /\ RawProc!dataSaveRoutine
                       \/ part = "save" /\ SaveProc!dataSaveRoutine)
    /\ WF_postprocVars(\/ part = "zsl" /\ ZslProc!processPPData
                       \/ part = "regular" /\ RegularProc!processPPData
                       \/ part = "raw" /\ RawProc!processPPData
                       \/ part = "save" /\ SaveProc!processPPData)
    /\ WF_postprocVars(\/ part = "zsl" /\ ZslProc!jpegEvtHandle
                       \/ part = "regular" /\ RegularProc!jpegEvtHandle
                       \/ part = "raw" /\ RawProc!jpegEvtHandle
                       \/ part = "save" /\ SaveProc!jpegEvtHandle)
    /\ WF_postprocVars(\/ part = "zsl" /\ ZslProc!stop
                       \/ part = "regular" /\ RegularProc!stop
                       \/ part = "raw" /\ RawProc!stop
                       \/ part = "save" /\ SaveProc!stop)
    /\ WF_framesVars(\/ part = "nodisplay" /\ CallbackFrames!ThreadStep
                     \/ part = "video" /\ VideoFrames!ThreadStep)
    /\ WF_framesVars(\/ part = "nodisplay" /\ CallbackFrames!cbNotifyRoutine
                     \/ part = "video" /\ VideoFrames!cbNotifyRoutine)
    /\ \A b \in 1..2, s \in 1..2 :
          WF_framesVars(\/ part = "nodisplay" /\ CallbackFrames!releaseRecordingFrame([buf |-> b, ses |-> s])
                        \/ part = "video" /\ VideoFrames!releaseRecordingFrame([buf |-> b, ses |-> s]))
    /\ WF_deferredVars(part = "deferred" /\ Deferred!MachineSteps)
    /\ WF_deferredVars(part = "deferred" /\ (Deferred!DeferredSteps \/ Deferred!SkipNull \/ Deferred!DelChannel))
    /\ WF_deferredVars(part = "deferred" /\ (Deferred!FrameWaits \/ Deferred!ProcessData))
    /\ WF_jpegVars(\/ part = "jpeg" /\ DisplayFrames!Encoder!mm_jpeg_jobmgr_thread
                   \/ part = "one_engine" /\ RdiFrames!Encoder!mm_jpeg_jobmgr_thread
                   \/ part = "setup" /\ VideoFrames!Encoder!mm_jpeg_jobmgr_thread)
    /\ WF_jpegVars(\/ part = "jpeg" /\ DisplayFrames!Encoder!CallGoesOn
                   \/ part = "one_engine" /\ RdiFrames!Encoder!CallGoesOn
                   \/ part = "setup" /\ VideoFrames!Encoder!CallGoesOn)
    /\ WF_jpegVars(\/ part = "jpeg" /\ DisplayFrames!Encoder!StoppingGoesOn
                   \/ part = "one_engine" /\ RdiFrames!Encoder!StoppingGoesOn
                   \/ part = "setup" /\ VideoFrames!Encoder!StoppingGoesOn)
    /\ \A s \in 1..2 :
          WF_jpegVars(\/ part = "jpeg" /\ DisplayFrames!Encoder!Component(s)
                      \/ part = "one_engine" /\ RdiFrames!Encoder!Component(s)
                      \/ part = "setup" /\ s = 1 /\ VideoFrames!Encoder!Component(s))
    /\ WF_requestVars(part = "callers" /\ RdiFrames!Requests!handleMetadataWithLock)
    /\ WF_requestVars(part = "callers" /\ RdiFrames!Requests!captureResultCb)
    /\ WF_requestVars(part = "callers" /\ RdiFrames!Requests!Wake)
    /\ WF_requestVars(part = "callers" /\ RdiFrames!Requests!StopChannel)
    /\ WF_requestVars(part = "callers" /\ RdiFrames!Requests!FlushEnd)

-----------------------------------------------------------------------------
\* Every frame goes back to its channel once, wherever a job fails or the
\* post-processor stops, and jobs end in the session they were made for; a
\* reprocess works on the frame, and in the stream, that it was asked for
\* (QCameraPostProc.cpp, QCameraChannel.cpp, QCameraStream.cpp).
PostProcessingSound ==
    /\ part = "zsl" => ZslProc!GivenBackOnce /\ ZslProc!JobsInSession
    /\ part = "regular" => RegularProc!GivenBackOnce
    /\ part = "raw" => RawProc!GivenBackOnce
    /\ part = "save" => SaveProc!TypeOK /\ SaveProc!GivenBackOnce
    /\ part = "offline" =>
         /\ Offline!TypeOK /\ Offline!WorksOnItsFrame
         /\ Offline!RequestFitsChannel /\ Offline!HeapOwned
    /\ part = "online" => Online!QueueMatchesBackend /\ Online!ChannelHasWork

\* A buffer of a stream has one owner at a time and none is stranded, and the
\* window and the HAL agree on whose each of its buffers is (QCamera2HWICallbacks.cpp,
\* QCameraStream.cpp, QCameraMem.cpp).
FramesSound ==
    /\ part = "display" => DisplayFrames!FramesSound
    /\ part = "nodisplay" => CallbackFrames!FramesSound
    /\ part = "rdi" => RdiFrames!FramesSound
    /\ part = "video" => VideoFrames!FramesSound

\* Deferred jobs and deferred buffers are done before they are needed and leave
\* nothing behind; a picture that was given up is not started later, whatever
\* fails (QCamera2HWI.cpp).
DeferredSound ==
    /\ part = "deferred" =>
         /\ Deferred!TypeOK /\ Deferred!BuffersBeforeConfig
         /\ Deferred!FramesFindPostProc /\ Deferred!NothingLeft
    /\ part = "failing" => Failing!OneSlotOneWork /\ Failing!NoStartAfterStop

\* Sessions and output buffers are shared without two jobs in one, and no more
\* jobs encode than the engine takes (mm_jpeg.c).
JpegSound ==
    /\ part = "jpeg" => DisplayFrames!Encoder!TypeOK /\ DisplayFrames!Encoder!JobsApart
    /\ part = "one_buffer" => CallbackFrames!Encoder!JobsApart
    /\ part = "one_engine" => RdiFrames!Encoder!WithinEngine
    /\ part = "setup" => VideoFrames!Encoder!TypeOK /\ VideoFrames!Encoder!JobsApart

\* What holds the framework back is what is in flight, each buffer goes back
\* once, and results go in the order of the frames, reprocessed ones too
\* (QCamera3HWI.cpp).
RequestsSound ==
    /\ part = "results" =>
         /\ DisplayFrames!Requests!TypeOK /\ DisplayFrames!Requests!InFlightCounted
         /\ DisplayFrames!Requests!RoomForNext /\ DisplayFrames!Requests!BackOnce
         /\ DisplayFrames!Requests!ResultsInOrder
    /\ part = "flushes" =>
         CallbackFrames!Requests!InFlightCounted /\ CallbackFrames!Requests!BackOnce
    /\ part = "reprocess" =>
         /\ VideoFrames!Requests!InFlightCounted /\ VideoFrames!Requests!ResultsInOrder
         /\ VideoFrames!Requests!BackOnce

\* Hints that come in any order leave the locks, the profile and the cores as the
\* state says, and a torch and an open camera never hold one flash (power.c,
\* QCameraFlash.cpp, QCamera2Factory.cpp).
HintsSound ==
    /\ part = "power" =>
         /\ Power!TypeOK /\ Power!OneOfEach /\ Power!LaunchKnown
         /\ Power!NoCoresWhenOff /\ Power!NoDarkTuningWhenOn
    /\ part = "refusals" =>
         Refusals!ListMatchesLocks /\ Refusals!ProfileHeld /\ Refusals!LaunchKnown
    /\ part = "torch" => Power!Torch!TypeOK /\ Power!Torch!Exclusive /\ Power!Torch!FlagIsLight
    /\ part = "torch_faults" => Refusals!Torch!BusyMeansOpen /\ Refusals!Torch!StatusRight

\* In no step: a stop leaves work in a queue, a job is answered twice, a channel
\* that is kept for the next picture is released, or a flush ends that has not
\* answered every request.
StepsSound ==
    /\ ZslProc!StoppedClean /\ RegularProc!StoppedClean
    /\ DisplayFrames!Encoder!AnsweredOnce /\ Offline!KeptNotReleased
    /\ CallbackFrames!Requests!FlushAnswersAll

\* What was begun comes to its end: stops, deferred operations and callbacks,
\* aborts and destroys, waits for room; frames go back to their channel, the kernel
\* or the framework, and jobs are answered.  0 stands for the calls, the others for
\* the frames and jobs.
Begun(k) ==
    \/ k = 0 /\ part \in {"zsl", "regular", "save"} /\ postprocSm.at # "idle"
    \/ k # 0 /\ part \in {"zsl", "raw", "save"} /\ brought >= k
    \/ k # 0 /\ part \in {"nodisplay", "video"} /\ on /\ k \notin kernel /\ k \notin window
    \/ k = 0 /\ part = "deferred" /\ deferredSm # Deferred!Idle
    \/ k = 1 /\ part = "deferred" /\ cb # "idle"
    \/ k = 0 /\ part = "jpeg" /\ client.at \notin {"idle", "stopping", "closed"}
    \/ k # 0 /\ part \in {"one_engine", "setup"} /\ started >= k
    \/ k = 0 /\ part = "callers" /\ caller = "wait"
    \/ k = 1 /\ part = "callers" /\ RdiFrames!Requests!Given # {}
Ended(k) ==
    \/ k = 0 /\ part \in {"zsl", "regular", "save"} /\ postprocSm.at = "idle"
    \/ k # 0 /\ part \in {"zsl", "raw", "save"} /\ (back[k] = 1 \/ k \in refused)
    \/ k # 0 /\ part \in {"nodisplay", "video"} /\ (k \in kernel \/ k \in window \/ ~on \/ ~mActive)
    \/ k = 0 /\ part = "deferred" /\ (deferredSm = Deferred!Idle \/ ~Deferred!Running)
    \/ k = 1 /\ part = "deferred" /\ (cb = "idle" \/ ~Deferred!Running)
    \/ k = 0 /\ part = "jpeg" /\ client.at \in {"idle", "stopping", "closed"}
    \/ k # 0 /\ part \in {"one_engine", "setup"} /\ (told[k] # <<>> \/ k \in quit)
    \/ k = 0 /\ part = "callers" /\ caller # "wait"
    \/ k = 1 /\ part = "callers" /\
         \A b \in RdiFrames!Requests!Buffers : \E i \in DOMAIN fw.back : fw.back[i] = b

WorkEnds == \A k \in 0..2 : Begun(k) ~> Ended(k)
=============================================================================
