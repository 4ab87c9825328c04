------------------------------ MODULE MCTables ------------------------------
(***************************************************************************)
(* The components that nobody waits for, side by side: they are called, and *)
(* what matters is what they keep.  The superbuf queue of a channel, the    *)
(* parameters, the thermal adapter, the memory of the streams and its       *)
(* layout.  A behaviour is about one of them, in an instance small enough   *)
(* for TLC; part says which.                                                *)
(***************************************************************************)
EXTENDS Integers, FiniteSets, Sequences

VARIABLES
    part,           \* the component, and instance, that this behaviour is about
    \* MmSuperbuf
    ch, cmd_queue, cb_queue, delivered, held, returned, last, api,
    \* QCameraParameters
    par, backend, event,
    \* QCameraThermal
    adapter, client, given, call, cams, reported, reports, opens,
    \* QCameraMem
    live, size, pool, st, memoryInfo, cnt, req, mapped, more, lost, broken,
    \* FrameLayout
    layoutInfo, planes, stage, frame_offset, mFrameLenOffset, bufs, driver

superbufVars == <<ch, cmd_queue, cb_queue, delivered, held, returned, last, api>>
paramVars == <<par, backend, event>>
thermalVars == <<adapter, client, given, call, cams, reported, reports, opens>>
memoryVars == <<live, size, pool, st, memoryInfo, cnt, req, mapped, more, lost, broken>>
layoutVars == <<layoutInfo, planes, stage, frame_offset, mFrameLenOffset, bufs, driver>>

\* The value of a variable of a component with large values, while it is idle.
Empty == "empty"

\* Frames in a thousandth of a second: 7.5 to 30, 15, and 1 to 30 of them.
PreviewRanges == {<<7500, 30000>>, <<15000, 15000>>, <<1000, 30000>>}
\* The padding that the sensor code of this device reports.
SensorPadding == [width |-> 32, height |-> 32, plane |-> 4096]

-----------------------------------------------------------------------------
\* Burst mode: retro requests, cancels, flushes, prepare snapshot.
Superbuf == INSTANCE MmSuperbuf WITH
    Streams <- {"meta", "snap"}, Meta <- "meta",
    Modes <- {"BURST"}, Contents <- {"plain", "prep_future", "prep_done", "good"},
    Generals <- {}, water_mark <- 1, look_back <- 1, post_frame_skip <- 1,
    max_unmatched_frames <- 0, FutureOffset <- 100, MaxFrame <- 3, MaxCmds <- 1,
    MaxApi <- 1
\* Both notify modes, bracketing and the wait for 1x zoom.
Bracketing == INSTANCE MmSuperbuf WITH
    Streams <- {"meta", "snap"}, Meta <- "meta",
    Modes <- {"BURST", "CONTINUOUS"}, Contents <- {"plain", "both", "crop_1x", "good"},
    Generals <- {"BRACKETING", "FLASH_BRACKETING", "ZOOM_1X"}, water_mark <- 1,
    look_back <- 0, post_frame_skip <- 1, max_unmatched_frames <- 1,
    FutureOffset <- 100, MaxFrame <- 2, MaxCmds <- 2, MaxApi <- 1

\* Commits that fail; what turns the flash on; faces; sizes; rates; HDR in the sensor; the same again.
Batches == INSTANCE QCameraParameters WITH
    Keys <- {"effect", "scene", "zoom"},
    Missing <- {"effect"}, BadValues <- TRUE, Faults <- TRUE,
    Commits <- {"thermal", "frameSkip", "longshot", "raw"}, Repeats <- FALSE,
    HdrKind <- "none"
Flash == INSTANCE QCameraParameters WITH
    Keys <- {"flash", "scene", "aeBracket", "chroma", "burst"}, Missing <- {},
    BadValues <- FALSE, Faults <- FALSE, Commits <- {"hdrScene"}, Repeats <- FALSE,
    HdrKind <- "burst"
Faces == INSTANCE QCameraParameters WITH
    Keys <- {"hint", "faceRec", "brightness"},
    Missing <- {}, BadValues <- FALSE, Faults <- FALSE,
    Commits <- {"faces", "histogram", "hdrBracket", "afBracket", "flashBracket"},
    Repeats <- FALSE, HdrKind <- "none"
Resizes == INSTANCE QCameraParameters WITH
    Keys <- {"previewSize", "pictureSize", "videoSize", "zsl", "hint", "hfr"},
    Missing <- {"videoSize"}, BadValues <- FALSE, Faults <- FALSE, Commits <- {},
    Repeats <- FALSE, HdrKind <- "none"
Rates == INSTANCE QCameraParameters WITH
    Keys <- {"hfr", "hsr", "fpsRange", "frameRate"}, Missing <- {}, BadValues <- FALSE,
    Faults <- FALSE, Commits <- {"thermal"}, Repeats <- FALSE, HdrKind <- "none"
Sensor == INSTANCE QCameraParameters WITH
    Keys <- {"scene", "zsl", "sceneSelection"}, Missing <- {}, BadValues <- FALSE,
    Faults <- FALSE, Commits <- {"hint"}, Repeats <- FALSE, HdrKind <- "sensor"
Again == INSTANCE QCameraParameters WITH
    Keys <- {"hfr", "hsr", "zsl", "scene", "optiZoom"}, Missing <- {},
    BadValues <- FALSE, Faults <- FALSE, Commits <- {}, Repeats <- TRUE,
    HdrKind <- "burst"

Thermal == INSTANCE QCameraThermal WITH
    Cameras <- {1, 2}, Ranges <- PreviewRanges,
    HfrRange <- <<120000, 120000>>, LowestRate <- 5000, Mode <- "fps", MaxReports <- 2,
    MaxOpens <- 2

\* Streams with memory of the heap, of the pool, of the pool but later, and of a video.
Memory == INSTANCE QCameraMem WITH
    Streams <- {"heap", "pooled", "deferred", "video"}, Info <- {"heap"},
    Pooled <- {"pooled", "deferred"}, Dyn <- {"pooled"}, Deferred <- {"deferred"},
    HeapSize <- 4, Sizes <- {1, 2}, First <- 2, Total <- 3, MoreFails <- FALSE,
    DeferredFails <- FALSE, DeferredMapFails <- FALSE, info <- memoryInfo
NoMemory == INSTANCE QCameraMem WITH
    Streams <- {"heap", "pooled", "deferred", "video"}, Info <- {"heap"},
    Pooled <- {"pooled", "deferred"}, Dyn <- {"pooled"}, Deferred <- {"deferred"},
    HeapSize <- 4, Sizes <- {1, 2}, First <- 2, Total <- 3, MoreFails <- FALSE,
    DeferredFails <- TRUE, DeferredMapFails <- FALSE, info <- memoryInfo

Layout == INSTANCE FrameLayout WITH
    Widths <- {0, 62, 176}, Heights <- {2, 146},
    Padding <- SensorPadding, NumBufs <- 2, info <- layoutInfo

-----------------------------------------------------------------------------
Parts == {"superbuf", "bracketing", "batches", "flash", "faces", "sizes", "rates",
          "sensor", "repeats", "thermal", "memory", "no_memory", "layout"}

\* The instances keep to the assumptions of their modules.
ASSUME InstancesAssumption ==
    /\ Superbuf!SuperbufAssumption /\ Bracketing!SuperbufAssumption
    /\ Batches!ParametersAssumption /\ Flash!ParametersAssumption /\
       Faces!ParametersAssumption /\ Resizes!ParametersAssumption /\
       Rates!ParametersAssumption /\ Sensor!ParametersAssumption /\
       Again!ParametersAssumption
    /\ Thermal!ThermalAssumption
    /\ Memory!MemAssumption /\ NoMemory!MemAssumption
    /\ Layout!LayoutAssumption

\* A component the behaviour is not about stays in an initial state.
Init ==
    /\ part \in Parts
    /\ CASE part = "bracketing" -> Bracketing!Init
         [] OTHER -> Superbuf!Init
    /\ CASE part = "batches" -> Batches!Init
         [] part = "flash" -> Flash!Init
         [] part = "faces" -> Faces!Init
         [] part = "sizes" -> Resizes!Init
         [] part = "rates" -> Rates!Init
         [] part = "sensor" -> Sensor!Init
         [] part = "repeats" -> Again!Init
         [] OTHER -> par = Empty /\ backend = Empty /\ event = Empty
    /\ Thermal!Init
    /\ CASE part = "no_memory" -> NoMemory!Init
         [] OTHER -> Memory!Init
    /\ CASE part = "layout" -> Layout!Init
         [] OTHER -> layoutInfo = Empty /\ planes = Empty /\ stage = Empty /\ frame_offset = Empty /\ mFrameLenOffset = Empty /\ bufs = Empty /\ driver = Empty

Next ==
    \/ part = "superbuf" /\ Superbuf!Next
          /\ UNCHANGED <<part, paramVars, thermalVars, memoryVars, layoutVars>>
    \/ part = "bracketing" /\ Bracketing!Next
          /\ UNCHANGED <<part, paramVars, thermalVars, memoryVars, layoutVars>>
    \/ part = "batches" /\ Batches!Next
          /\ UNCHANGED <<part, superbufVars, thermalVars, memoryVars, layoutVars>>
    \/ part = "flash" /\ Flash!Next
          /\ UNCHANGED <<part, superbufVars, thermalVars, memoryVars, layoutVars>>
    \/ part = "faces" /\ Faces!Next
          /\ UNCHANGED <<part, superbufVars, thermalVars, memoryVars, layoutVars>>
    \/ part = "sizes" /\ Resizes!Next
          /\ UNCHANGED <<part, superbufVars, thermalVars, memoryVars, layoutVars>>
    \/ part = "rates" /\ Rates!Next
          /\ UNCHANGED <<part, superbufVars, thermalVars, memoryVars, layoutVars>>
    \/ part = "sensor" /\ Sensor!Next
          /\ UNCHANGED <<part, superbufVars, thermalVars, memoryVars, layoutVars>>
    \/ part = "repeats" /\ Again!Next
          /\ UNCHANGED <<part, superbufVars, thermalVars, memoryVars, layoutVars>>
    \/ part = "thermal" /\ Thermal!Next
          /\ UNCHANGED <<part, superbufVars, paramVars, memoryVars, layoutVars>>
    \/ part = "memory" /\ Memory!Next
          /\ UNCHANGED <<part, superbufVars, paramVars, thermalVars, layoutVars>>
    \/ part = "no_memory" /\ NoMemory!Next
          /\ UNCHANGED <<part, superbufVars, paramVars, thermalVars, layoutVars>>
    \/ part = "layout" /\ Layout!Next
          /\ UNCHANGED <<part, superbufVars, paramVars, thermalVars, memoryVars>>

vars == <<part, superbufVars, paramVars, thermalVars, memoryVars, layoutVars>>

Spec == Init /\ [][Next]_vars

-----------------------------------------------------------------------------
\* Every captured buffer is in one place, whatever frames are lost, flushed or
\* skipped; the loops under the queue's lock end; the user gets complete
\* superbufs in ascending order; and the daemon prepares a snapshot only while
\* one is asked for (mm_camera_channel.c).
SuperbufsSound ==
    /\ part = "superbuf" =>
         /\ Superbuf!TypeOK /\ Superbuf!LoopsEnd /\ Superbuf!BufferHasOneOwner
         /\ Superbuf!SuperbufsInOrder /\ Superbuf!PreparedOnlyForRequests
    /\ part = "bracketing" => Bracketing!LoopsEnd /\ Bracketing!BufferHasOneOwner

\* The daemon has what the parameters' state says, also when a batch is refused;
\* the flash, the faces and the video rate follow from all the settings made, in
\* any order; and the frame rate follows the hottest sensor, with nobody called
\* after the last camera closed (QCameraParameters.cpp, QCameraThermalAdapter.cpp).
SettingsSound ==
    /\ part = "batches" => Batches!TypeOK /\ Batches!BackendAgrees
    /\ part = "flash" => Flash!LedRight /\ Flash!TorchHeld
    /\ part = "faces" => Faces!FacesRight /\ Faces!BackendAgrees
    /\ part = "rates" => Rates!VideoRateRight
    /\ part = "sensor" => Sensor!BackendAgrees
    /\ part = "thermal" =>
         /\ Thermal!TypeOK /\ Thermal!NoCallAfterClose /\ Thermal!LibraryThere
         /\ Thermal!RangeFollowsLevel /\ Thermal!CooledDown

\* A piece of memory has one owner, is freed once and is as large as it must be,
\* and the daemon has mapped what is there; whoever describes the planes of a
\* frame, they fit and all agree (QCameraMem.cpp, QCameraStream.cpp,
\* mm_camera_stream.c).
MemorySound ==
    /\ part = "memory" =>
         /\ Memory!TypeOK /\ Memory!OneOwner /\ Memory!NothingElseLost
         /\ Memory!LargeEnough /\ Memory!DaemonAgrees
    /\ part = "no_memory" => NoMemory!OneOwner /\ NoMemory!LargeEnough
    /\ part = "layout" => Layout!TypeOK /\ Layout!PictureFits /\ Layout!OneLayout

\* In no step: a buffer of the superbuf queue leaks, or is sent for no request
\* while the daemon prepares; the picture size changes with no word of it;
\* settings made again disturb the daemon; a thermal level that was taken is
\* forgotten.
StepsSound ==
    /\ Superbuf!NoBufferLost /\ Bracketing!NoBufferLost
    /\ Superbuf!NothingSentWhileWaiting
    /\ Thermal!TakenLevelKnown
    /\ [][/\ part = "sizes" => Resizes!KeepsDims
          /\ part = "repeats" => Again!KeepsQuiet]_paramVars
=============================================================================
