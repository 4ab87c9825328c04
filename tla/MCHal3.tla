------------------------------- MODULE MCHal3 -------------------------------
(***************************************************************************)
(* The components of the third camera HAL under its requests (which are in  *)
(* MCHal), side by side: the configuration of streams, the buffers of a     *)
(* channel, the path of a picture.  A behaviour is about one of them, in an *)
(* instance small enough for TLC; part says which.                          *)
(***************************************************************************)
EXTENDS Integers, FiniteSets, Sequences

VARIABLES
    part,           \* the component, and instance, that this behaviour is about
    \* QCamera3Config
    h, event,
    \* QCamera3Buffers
    made, buffersActive, handle, reg, number, defs, mapped, driver, queueing, dataQ,
    buffersReq, cb, halt, held, next, stops, buffersResults,
    \* QCamera3Picture
    kind, back, pictureResults, slots, started, inputConfig, reproc, ids, free,
    settingsQ, pictureActive, inputPPQ, inputMetaQ, inputFWKPPQ, ongoingPPQ, inputJpegQ,
    ongoingJpegQ, offline, cmds, dp, pictureReq, flush, flushes, sensor, due, metaDue,
    pictureMetas, atReproc, encoder, crashed

configVars == <<h, event>>
buffersVars == <<made, buffersActive, handle, reg, number, defs, mapped, driver,
                  queueing, dataQ, buffersReq, cb, halt, held, next, stops,
                  buffersResults>>
pictureVars == <<kind, back, pictureResults, slots, started, inputConfig, reproc, ids,
                  free, settingsQ, pictureActive, inputPPQ, inputMetaQ, inputFWKPPQ,
                  ongoingPPQ, inputJpegQ, ongoingJpegQ, offline, cmds, dp, pictureReq,
                  flush, flushes, sensor, due, metaDue, pictureMetas, atReproc, encoder,
                  crashed>>

\* The lists of streams that the framework asks for.
Stills == {<<"preview", "jpeg">>, <<"raw", "preview">>, <<"preview", "yuv", "jpeg">>,
           <<"jpeg">>, <<"preview", "jpeg", "hugeJpeg">>, <<"video", "jpeg">>}
Mixed == {<<"preview", "jpeg">>, <<"raw", "preview">>, <<"preview", "video">>,
          <<"zsl", "video">>, <<"input", "yuv", "jpeg">>}

-----------------------------------------------------------------------------
\* Lists with raw and still streams; and lists that are tried again.
Config == INSTANCE QCamera3Config WITH
    Configs <- Stills,
    Big <- {"preview", "yuv", "hugeJpeg"}, Odd <- {"hugeJpeg"}, FourK <- FALSE,
    RawDump <- TRUE, Faults <- TRUE, EarlyFlush <- FALSE
Retry == INSTANCE QCamera3Config WITH
    Configs <- Mixed, Big <- {"preview"},
    Odd <- {}, FourK <- FALSE, RawDump <- FALSE, Faults <- TRUE, EarlyFlush <- FALSE

\* Buffers registered anew at any time, a stop in between; buffers that come back.
ChannelBuffers == INSTANCE QCamera3Buffers WITH
    Buffers <- 1..3, Slots <- 3,
    MaxFrame <- 3, MaxStops <- 1, Faults <- {"init", "map"}, SlowSensor <- TRUE,
    active <- buffersActive, req <- buffersReq, results <- buffersResults
Returns == INSTANCE QCamera3Buffers WITH
    Buffers <- 1..2, Slots <- 3, MaxFrame <- 3,
    MaxStops <- 1, Faults <- {}, SlowSensor <- TRUE, active <- buffersActive,
    req <- buffersReq, results <- buffersResults

\* Pictures that are reprocessed, or not; of the sensor and of the framework; flushes.
Pictures == INSTANCE QCamera3Picture WITH
    MaxPics <- 3, Bufs <- 2,
    Kinds <- {"sensor"}, NeedReproc <- TRUE, Mixed <- FALSE, MaxFlushes <- 0,
    LateCallback <- FALSE, Faults <- {}, results <- pictureResults,
    active <- pictureActive, req <- pictureReq, metas <- pictureMetas
Direct == INSTANCE QCamera3Picture WITH
    MaxPics <- 3, Bufs <- 2,
    Kinds <- {"sensor"}, NeedReproc <- FALSE, Mixed <- FALSE, MaxFlushes <- 0,
    LateCallback <- FALSE, Faults <- {"encode"}, results <- pictureResults,
    active <- pictureActive, req <- pictureReq, metas <- pictureMetas
Inputs == INSTANCE QCamera3Picture WITH
    MaxPics <- 4, Bufs <- 3,
    Kinds <- {"sensor", "input"}, NeedReproc <- TRUE, Mixed <- FALSE, MaxFlushes <- 0,
    LateCallback <- FALSE, Faults <- {}, results <- pictureResults,
    active <- pictureActive, req <- pictureReq, metas <- pictureMetas
Flushed == INSTANCE QCamera3Picture WITH
    MaxPics <- 3, Bufs <- 2,
    Kinds <- {"sensor", "input"}, NeedReproc <- TRUE, Mixed <- FALSE, MaxFlushes <- 2,
    LateCallback <- FALSE, Faults <- {}, results <- pictureResults,
    active <- pictureActive, req <- pictureReq, metas <- pictureMetas

-----------------------------------------------------------------------------
Parts == {"config", "retry", "buffers", "returns", "picture", "direct", "mixed",
          "picture_flush"}

\* The instances keep to the assumptions of their modules.
ASSUME InstancesAssumption ==
    /\ Config!ConfigAssumption /\ Retry!ConfigAssumption
    /\ ChannelBuffers!BuffersAssumption /\ Returns!BuffersAssumption
    /\ Pictures!PictureAssumption /\ Direct!PictureAssumption /\ Inputs!PictureAssumption /\
       Flushed!PictureAssumption

\* A component the behaviour is not about stays in an initial state.
Init ==
    /\ part \in Parts
    /\ CASE part = "retry" -> Retry!Init
         [] OTHER -> Config!Init
    /\ CASE part = "returns" -> Returns!Init
         [] OTHER -> ChannelBuffers!Init
    /\ CASE part = "direct" -> Direct!Init
         [] part = "mixed" -> Inputs!Init
         [] part = "picture_flush" -> Flushed!Init
         [] OTHER -> Pictures!Init

Next ==
    \/ part = "config" /\ Config!Next
          /\ UNCHANGED <<part, buffersVars, pictureVars>>
    \/ part = "retry" /\ Retry!Next
          /\ UNCHANGED <<part, buffersVars, pictureVars>>
    \/ part = "buffers" /\ ChannelBuffers!Next
          /\ UNCHANGED <<part, configVars, pictureVars>>
    \/ part = "returns" /\ Returns!Next
          /\ UNCHANGED <<part, configVars, pictureVars>>
    \/ part = "picture" /\ Pictures!Next
          /\ UNCHANGED <<part, configVars, buffersVars>>
    \/ part = "direct" /\ Direct!Next
          /\ UNCHANGED <<part, configVars, buffersVars>>
    \/ part = "mixed" /\ Inputs!Next
          /\ UNCHANGED <<part, configVars, buffersVars>>
    \/ part = "picture_flush" /\ Flushed!Next
          /\ UNCHANGED <<part, configVars, buffersVars>>

vars == <<part, configVars, buffersVars, pictureVars>>

\* The fairness of each component (Fairness of its module), while the behaviour
\* is about it.
Spec ==
    /\ Init /\ [][Next]_vars
    /\ WF_buffersVars(part = "returns" /\ Returns!Return)
    /\ WF_buffersVars(part = "returns" /\ Returns!Back)
    /\ WF_buffersVars(part = "returns" /\ (Returns!Exits \/ Returns!putBufs \/ Returns!Restart))
    /\ \A s \in 0..2, b \in 1..2 :
          WF_buffersVars(part = "returns" /\ Returns!processDataNotify([slot |-> s, buf |-> b]))
    /\ WF_pictureVars(part = "picture" /\ Pictures!queueJpegSetting)
    /\ WF_pictureVars(part = "picture" /\ \E b \in 1..2 : Pictures!processData(b))
    /\ WF_pictureVars(part = "picture" /\ Pictures!processPPMetadata)
    /\ WF_pictureVars(part = "picture" /\ Pictures!DataProc)
    /\ WF_pictureVars(part = "picture" /\ Pictures!processPPData)
    /\ WF_pictureVars(part = "picture" /\ Pictures!jpegEvtHandle)
    /\ WF_pictureVars(part = "picture" /\ Pictures!FlushStep)

-----------------------------------------------------------------------------
\* A configuration leaves nothing of the one before it, starts all its channels
\* or none, and the daemon knows the streams before they start; refused, it can
\* be asked for again.  A channel's slots, mappings and the driver agree which
\* buffer is which (QCamera3HWI.cpp, QCamera3Channel.cpp, QCamera3Mem.cpp).
StreamsSound ==
    /\ part = "config" =>
         /\ Config!TypeOK /\ Config!NoLeftovers /\ Config!RawLast
         /\ Config!RunTogether /\ Config!ToldFirst /\ Config!NoNullCall
    /\ part = "retry" => Retry!RetryWorks /\ Retry!RunTogether
    /\ part = "buffers" =>
         /\ ChannelBuffers!TypeOK /\ ChannelBuffers!DriverHasRight
         /\ ChannelBuffers!MappedIffDescribed /\ ChannelBuffers!NothingForgotten

\* The frame, the settings and the metadata of a picture are those of one
\* request; its buffers are in one place and mapped while they are used; after a
\* flush nothing is left (QCamera3PostProc.cpp, QCamera3Channel.cpp).
PictureSound ==
    /\ part = "picture" =>
         /\ Pictures!TypeOK /\ Pictures!NoBufferLost
         /\ Pictures!RightPicture /\ Pictures!CallbackHasJob
    /\ part = "direct" => Direct!BufferOnce /\ Direct!RightPicture
    /\ part = "mixed" =>
         /\ Inputs!RightPicture /\ Inputs!MappedWhileReprocessed
         /\ Inputs!EncodesLiveMemory /\ Inputs!NoFreedJob
    /\ part = "picture_flush" => Flushed!BufferOnce /\ Flushed!FlushLeavesNothing

\* A result carries the number of the frame its buffer was asked for with.
StepsSound == ChannelBuffers!RightNumber

\* Each buffer of a channel comes back, each picture.
Asks(k) ==
    \/ part = "returns" /\ \E r \in held : r.buf = k
    \/ part = "picture" /\ k \in Pictures!Waiting
Gets(k) ==
    \/ part = "returns" /\ \A r \in held : r.buf # k
    \/ part = "picture" /\ k \in back

AllComesBack == \A k \in 1..3 : Asks(k) ~> Gets(k)
=============================================================================
