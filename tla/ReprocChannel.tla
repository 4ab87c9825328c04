----------------------------- MODULE ReprocChannel -----------------------------
(***************************************************************************)
(* The reprocess channel of the post-processor: how QCamera2HardwareInterface *)
(* decides that pictures are processed again and configures the channel,    *)
(* how QCameraReprocessChannel hands frames to the backend, online by the   *)
(* index of a running stream or offline by mapping them, and registering a  *)
(* face, which has a reprocess channel of its own.  Of a source channel     *)
(* only the SNAPSHOT stream is processed again, so a reprocess channel has  *)
(* at most one stream.  The backend, behind the stream parameter            *)
(* DO_REPROCESS, works on one request after the other.                      *)
(***************************************************************************)
EXTENDS Naturals, Sequences, SequencesExt, FiniteSets

CONSTANTS
    Params,         \* what mParameters may hold: see ParamsType
    Source,         \* the types of the source channel's streams
    Supported,      \* qcom_supported_feature_mask
    MinPP,          \* min_required_pp_mask
    HdrFrames,      \* hdr_bracketing_setting.num_frames
    BracketFrames,  \* frames of the other bracketing captures
    LongshotStages, \* CAMERA_LONGSHOT_STAGES
    Faults,         \* what may fail
    MaxFrames,      \* bound: frames brought
    MaxSets         \* bound: set_parameters() calls

Features == {"EFFECT", "SHARPNESS", "CROP", "DENOISE2D", "CAC", "ROTATION", "HDR", "SCALE",
             "UBIFOCUS", "CHROMA_FLASH", "OPTIZOOM", "FLIP"}
StreamTypes == {"METADATA", "RAW", "POSTVIEW", "PREVIEW", "SNAPSHOT"}
\* on: features the application asked for; snaps: getNumOfSnapshots()
ParamsType == [fmt : {"JPEG", "NV21", "OTHER"}, on : SUBSET Features, snaps : 1..3,
               zsl : BOOLEAN, recording : BOOLEAN, longshot : BOOLEAN]

ReprocAssumption ==
    /\ Params \subseteq ParamsType /\ Source \subseteq StreamTypes
    /\ Supported \subseteq Features /\ MinPP \subseteq Features
    /\ {HdrFrames, BracketFrames, LongshotStages} \subseteq Nat \ {0}
    /\ MaxFrames \in Nat /\ MaxSets \in Nat
    /\ Faults \subseteq {"init", "info", "add", "start", "map_meta", "map_input", "param",
                         "image", "capture"}

VARIABLES
    p,              \* mParameters, mLongshotEnabled
    sets,           \* bound
    chan,           \* m_pReprocChannel
    maps,           \* what the backend has mapped at the channel's stream
    works,          \* requests the backend has not answered
    src,            \* the source channel, and the frames it will still bring
    m_inputPPQ, m_ongoingPPQ,
    jpegs,          \* frames on their way through the encoder
    errors,         \* CAMERA_MSG_ERROR sent
    gone,           \* history: frames given back to the source channel
    heap,           \* memory that was allocated and not freed
    lost,           \* history: of that, what nobody can free any more
    face            \* where registerFaceImage() is

vars == <<p, sets, chan, maps, works, src, m_inputPPQ, m_ongoingPPQ, jpegs, errors, gone, heap, lost,
          face>>

None == 0
NoChannel == [up |-> FALSE, streams |-> 0, offline |-> FALSE, mask |-> {}, burst |-> 0,
              bufs |-> 0, offlineBuffers |-> <<>>]
NoMaps == [META |-> None, INPUT |-> None]

Init ==
    /\ p \in Params /\ sets = 0 /\ chan = NoChannel /\ maps = NoMaps /\ works = <<>>
    /\ src = [up |-> FALSE, left |-> 0, next |-> 1] /\ m_inputPPQ = <<>> /\ m_ongoingPPQ = <<>>
    /\ jpegs = <<>> /\ errors = 0 /\ gone = {} /\ heap = {} /\ lost = {}
    /\ face = "none"
--------------------------------------------------------------------------------
\* isHDREnabled() and the rest of what a picture asks for
isHDREnabled == "HDR" \in p.on
Bracket == {"UBIFOCUS", "CHROMA_FLASH", "OPTIZOOM"} \cap p.on
PictureIsYuv == p.fmt \in {"JPEG", "NV21"}
\* a picture that is turned by the post-processor
needRotationReprocess == PictureIsYuv /\ "ROTATION" \in Supported \cap p.on /\ ~p.recording
\* a picture that is scaled by it
needScaleReprocess == PictureIsYuv /\ "SCALE" \in Supported \cap p.on
needReprocess ==
    /\ PictureIsYuv
    /\ \/ isHDREnabled
       \/ needRotationReprocess
       \/ p.zsl /\ (MinPP # {} \/ p.on \cap {"DENOISE2D", "CAC", "FLIP"} # {})
       \/ needScaleReprocess
       \/ Bracket # {}
isRegularCapture == p.snaps = 1 /\ ~p.longshot /\ ~p.recording /\ ~p.zsl

\* What addReprocChannel() asks the backend to do.
pp_config ==
    (IF p.zsl THEN (MinPP \cap ({"EFFECT", "CROP"} \cup
                                IF "OPTIZOOM" \in p.on THEN {} ELSE {"SHARPNESS"}))
                   \cup (p.on \cap {"DENOISE2D"})
              ELSE {})
    \cup (p.on \cap {"CAC", "HDR"})
    \cup (IF needRotationReprocess THEN {"ROTATION"} ELSE {})
    \cup (IF needScaleReprocess THEN {"SCALE"} ELSE {})
    \cup Bracket
\* Buffers of its stream: HDR works in place once there is another feature, the
\* image library does not.
minStreamBufNum ==
    LET others == pp_config \ {"HDR"}
        base == IF isHDREnabled /\ others # {} THEN HdrFrames
                ELSE IF p.longshot THEN LongshotStages ELSE p.snaps
    IN  base + IF others # {} /\ Bracket # {} THEN BracketFrames ELSE 0

\* The streams of the source that are processed again.
FromSource == Source \ {"METADATA", "RAW", "POSTVIEW", "PREVIEW"}
\* addReprocStreamsFromSource(): the channel with the stream as it is configured.
StreamConfig(isRegular) ==
    [up |-> TRUE, streams |-> Cardinality(FromSource), offline |-> isRegular,
     mask |-> pp_config \cup (IF p.zsl THEN p.on \cap {"FLIP"} ELSE {}),
     burst |-> IF p.longshot THEN 0 ELSE p.snaps,    \* 0: CAM_STREAMING_MODE_CONTINUOUS
     bufs |-> minStreamBufNum, offlineBuffers |-> <<>>]
--------------------------------------------------------------------------------
\* Deleting the channel: its streams free their stream info, the backend forgets.
StreamInfo == <<"info", 0>>
LeftInfo == <<"left_info", 0>>
Image == <<"image", 0>>
FaceInfo == <<"face_info", 0>>
Copy(f) == <<"copy", f>>
\* QCameraChannel::~QCameraChannel() with the streams' destructors
DeleteChannel(h) == h \ {StreamInfo}

\* addReprocChannel(), addReprocStreamsFromSource() and the start of the channel,
\* which a postprocessor that is started again deletes first.  What is done, or
\* what fails.  A stream that cannot be added leaves its stream info behind.
addReprocChannel(fault) ==
    /\ works' = <<>> /\ maps' = NoMaps
    /\ chan' = IF fault = "none" THEN StreamConfig(isRegularCapture) ELSE NoChannel
    /\ heap' = DeleteChannel(heap) \cup (IF fault = "none" THEN {StreamInfo}
                                         ELSE IF fault = "add" THEN {LeftInfo} ELSE {})
    /\ lost' = IF fault = "add" THEN lost \cup {LeftInfo} ELSE lost

\* QCameraPostProcessor::start() as a picture is taken; then the source channel
\* is started, which may fail with the reprocess channel in place.
start(fault) ==
    /\ ~src.up /\ m_ongoingPPQ = <<>> /\ m_inputPPQ = <<>> /\ jpegs = <<>> /\ face = "none"
    /\ src.next <= MaxFrames
    /\ IF needReprocess THEN addReprocChannel(fault)
       ELSE UNCHANGED <<chan, maps, works, heap, lost>>
    /\ LET frames == IF isHDREnabled THEN HdrFrames ELSE p.snaps
       IN  src' = IF fault = "none" THEN [src EXCEPT !.up = TRUE, !.left = frames] ELSE src
    /\ UNCHANGED <<p, sets, m_inputPPQ, m_ongoingPPQ, jpegs, errors, gone, face>>
StartOrFail ==
    \/ start("none")
    \/ \E f \in Faults \cap {"init", "info", "add", "start"} : needReprocess /\ start(f)
\* start_channel() of the capture channel fails: only the channel is deleted.
CaptureFails ==
    /\ "capture" \in Faults /\ src.up /\ m_inputPPQ = <<>> /\ works = <<>> /\ jpegs = <<>>
    /\ m_ongoingPPQ = <<>> /\ src' = [src EXCEPT !.up = FALSE, !.left = 0]
    /\ UNCHANGED <<p, sets, chan, maps, works, m_inputPPQ, m_ongoingPPQ, jpegs, errors, gone,
                   heap, lost, face>>

\* SET_PARAMS is answered in every state; some settings must wait, these not.
setParameters ==
    /\ sets < MaxSets /\ sets' = sets + 1 /\ p' \in Params
    /\ UNCHANGED <<chan, maps, works, src, m_inputPPQ, m_ongoingPPQ, jpegs, errors, gone, heap, lost, face>>

\* capture_channel_cb_routine() -> processData()
processData ==
    /\ src.up /\ src.left > 0 /\ src.next <= MaxFrames
    /\ src' = [src EXCEPT !.left = @ - 1, !.next = @ + 1]
    /\ IF needReprocess THEN m_inputPPQ' = Append(m_inputPPQ, src.next) /\ UNCHANGED jpegs
       ELSE /\ jpegs' = Append(jpegs, [src |-> src.next, from |-> None, keep |-> FALSE])
            /\ UNCHANGED m_inputPPQ
    /\ UNCHANGED <<p, sets, chan, maps, works, m_ongoingPPQ, errors, gone, heap, lost, face>>
--------------------------------------------------------------------------------
\* doReprocessOffline() for the one stream: which buffers are mapped and recorded,
\* at most two of them, and if the request is made.
HasMeta == "METADATA" \in Source
\* Mutant: the frame is mapped where the metadata belongs.
InputAtZero(f, fault) ==
    /\ maps' = [META |-> IF HasMeta THEN f - 1 ELSE maps.META, INPUT |-> maps.INPUT]
    /\ chan' = [chan EXCEPT !.offlineBuffers = @ \o <<"META", "INPUT">>]
    /\ works' = IF fault = "none" THEN Append(works, [frame |-> f, offline |-> TRUE, meta |-> HasMeta])
                ELSE works
doReprocessOffline(f, fault) ==
    /\ maps' = [META |-> IF HasMeta /\ fault # "map_meta" THEN f ELSE maps.META,
                INPUT |-> IF fault \in {"none", "param"} THEN f ELSE maps.INPUT]
    /\ chan' = [chan EXCEPT !.offlineBuffers = @ \o
                    CASE fault = "map_meta" -> <<>>
                      [] fault = "map_input" -> <<"META">>
                      [] OTHER -> <<"META", "INPUT">>]
    /\ works' = IF fault = "none" THEN Append(works, [frame |-> f, offline |-> TRUE, meta |-> HasMeta])
                ELSE works
\* doReprocess(): the backend finds the frame by its index.
doReprocess(f, fault) ==
    /\ works' = IF fault = "none" THEN Append(works, [frame |-> f, offline |-> FALSE, meta |-> HasMeta])
                ELSE works
    /\ UNCHANGED <<maps, chan>>
CanFail(f) ==
    \/ f = "none" \/ f = "param"
    \/ isRegularCapture /\ (f = "map_input" \/ (f = "map_meta" /\ HasMeta))

\* dequeue(false)
dequeueTail(q) == Front(q)
\* stopCapture(): a regular capture needs its channel no more.
stopCapture ==
    src' = IF isRegularCapture THEN [src EXCEPT !.up = FALSE, !.left = 0] ELSE src
\* releaseSuperBuf(): given back to the channel.
releaseSuperBuf(fs) == gone' = gone \cup fs
\* QCameraPostProcessor::reprocess(): the copies of a regular capture's buffers are
\* not freed when it fails.
reprocess(f, fault) ==
    LET job == [frame |-> f, keep |-> isRegularCapture]
        queued == Append(m_ongoingPPQ, job) IN
    /\ m_ongoingPPQ' = IF fault = "none" THEN queued ELSE dequeueTail(queued)
    /\ IF isRegularCapture
       THEN /\ doReprocessOffline(f, fault) /\ heap' = heap \cup {Copy(f)}
            /\ lost' = IF fault = "none" THEN lost ELSE lost \cup {Copy(f)}
       ELSE doReprocess(f, fault) /\ UNCHANGED <<heap, lost>>

\* DO_NEXT_JOB: the next frame of m_inputPPQ
DoNextJob ==
    /\ m_inputPPQ # <<>> /\ m_inputPPQ' = Tail(m_inputPPQ)
    /\ LET f == Head(m_inputPPQ) IN
       \/ /\ chan.up /\ reprocess(f, "none") /\ stopCapture /\ UNCHANGED <<errors, gone>>
       \/ /\ chan.up
          /\ \E fault \in Faults : CanFail(fault) /\ reprocess(f, fault)
          /\ errors' = errors + 1 /\ releaseSuperBuf({f}) /\ UNCHANGED src
       \/ /\ ~chan.up /\ errors' = errors + 1 /\ releaseSuperBuf({f})
          /\ UNCHANGED <<src, chan, maps, works, heap, lost, m_ongoingPPQ>>
    /\ UNCHANGED <<p, sets, jpegs, face>>

\* The backend is done with its oldest request: processPPData().  A picture of
\* NV21 is copied out at once, its source given back and the job freed.
processPPData ==
    /\ works # <<>> /\ works' = Tail(works)
    /\ m_ongoingPPQ # <<>> /\ m_ongoingPPQ' = Tail(m_ongoingPPQ)
    /\ LET job == Head(m_ongoingPPQ) IN
       IF p.fmt = "NV21"
       THEN /\ releaseSuperBuf({job.frame}) /\ UNCHANGED jpegs
            /\ lost' = lost \cup (heap \cap {Copy(job.frame)})
       ELSE /\ jpegs' = Append(jpegs, [src |-> None, from |-> job.frame, keep |-> job.keep])
            /\ UNCHANGED <<gone, lost>>
    /\ UNCHANGED <<p, sets, chan, maps, src, m_inputPPQ, errors, heap, face>>

\* What a picture gives back.
GivenBack(j) == {j.src} \cup IF j.keep THEN {} ELSE {j.from}
\* releaseJpegJobData() frees the copies,
freeCopies == heap' = heap \ {Copy(Head(jpegs).from)}
\* once the picture is encoded, and gives back what is to be given back.
releaseJpegJobData ==
    /\ jpegs # <<>> /\ jpegs' = Tail(jpegs)
    /\ releaseSuperBuf(GivenBack(Head(jpegs)) \ {None})
    /\ freeCopies
    /\ UNCHANGED <<p, sets, chan, maps, works, src, m_inputPPQ, m_ongoingPPQ, errors, lost, face>>
--------------------------------------------------------------------------------
\* QCameraReprocessChannel::stop() unmaps what was recorded.
unmapOffline ==
    maps' = [m \in DOMAIN maps |-> IF m \in ToSet(chan.offlineBuffers) THEN None ELSE maps[m]]
\* STOP_DATA_PROC, in two steps: first the offline buffers are unmapped,
StopUnmaps ==
    /\ chan.up /\ chan.offlineBuffers # <<>> /\ ~src.up /\ face = "none"
    /\ unmapOffline /\ chan' = [chan EXCEPT !.offlineBuffers = <<>>] /\ face' = "stopping"
    /\ UNCHANGED <<p, sets, works, src, m_inputPPQ, m_ongoingPPQ, jpegs, errors, gone, heap, lost>>
Flushed == {Copy(j.frame) : j \in ToSet(m_ongoingPPQ)}
\* then the channel is stopped and deleted and the queues flushed: the copies of
\* the jobs that were under way are not freed.
StopDataProc ==
    /\ face = "stopping" \/ (face = "none" /\ chan.offlineBuffers = <<>>)
    /\ chan.up \/ src.up \/ m_inputPPQ # <<>>
    /\ jpegs = <<>>
    /\ chan' = NoChannel /\ maps' = NoMaps /\ works' = <<>>
    /\ heap' = DeleteChannel(heap) /\ lost' = lost \cup (heap \cap Flushed)
    /\ releaseSuperBuf(ToSet(m_inputPPQ) \cup {j.frame : j \in {k \in ToSet(m_ongoingPPQ) : ~k.keep}})
    /\ m_inputPPQ' = <<>> /\ m_ongoingPPQ' = <<>>
    /\ src' = [src EXCEPT !.up = FALSE, !.left = 0] /\ face' = "none"
    /\ UNCHANGED <<p, sets, jpegs, errors>>
--------------------------------------------------------------------------------
\* registerFaceImage(), on the state machine's thread while no picture is taken:
\* the image, the channel of its own, and the request.
Free(h, what) == h \ what
Quiet == UNCHANGED <<p, sets, chan, maps, works, src, m_inputPPQ, m_ongoingPPQ, jpegs, errors, gone, lost>>
FaceImage ==
    /\ face = "none" /\ ~src.up /\ ~chan.up /\ m_inputPPQ = <<>> /\ jpegs = <<>>
    /\ face' = "image" /\ heap' = heap \cup {Image} /\ Quiet
FaceFails(fault) == heap' = Free(heap, {Image})
\* addOfflineReprocChannel() and the start of its channel
addOfflineReprocChannel ==
    /\ face = "image"
    /\ \/ face' = "channel" /\ heap' = heap \cup {FaceInfo}
       \/ \E fault \in Faults \cap {"init", "info", "add", "start"} :
             face' = "none" /\ FaceFails(fault)
    /\ Quiet
\* doReprocess(fd) maps the image, has it processed and unmaps it; then all of it
\* is freed, whatever came of it.
FaceEnds == heap' = Free(heap, {Image, FaceInfo})
doReprocessFace == face = "channel" /\ face' = "none" /\ FaceEnds /\ Quiet
registerFaceImage == FaceImage \/ addOfflineReprocChannel \/ doReprocessFace

Next == \/ StartOrFail \/ CaptureFails \/ setParameters \/ processData \/ DoNextJob
        \/ processPPData \/ releaseJpegJobData \/ StopUnmaps \/ StopDataProc \/ registerFaceImage
Spec == Init /\ [][Next]_vars
--------------------------------------------------------------------------------
TypeOK ==
    /\ p \in Params /\ sets \in 0..MaxSets /\ chan.up \in BOOLEAN /\ chan.streams \in 0..1
    /\ chan.mask \subseteq Features /\ maps \in [{"META", "INPUT"} -> 0..MaxFrames]
    /\ src.left \in 0..(HdrFrames + 2) /\ ToSet(m_inputPPQ) \subseteq 1..MaxFrames
    /\ gone \subseteq 0..MaxFrames /\ face \in {"none", "image", "channel", "stopping"}

\* The backend processes the frame it was asked to: for an offline request the
\* mapped buffers, of picture and metadata, are those of the frame until it is
\* done or the channel stops (doReprocessOffline()).
WorksOnItsFrame ==
    face # "stopping" => \A i \in DOMAIN works : works[i].offline =>
        maps.INPUT = works[i].frame /\ (works[i].meta => maps.META = works[i].frame)

\* A channel configured for frames of running streams is asked for these, one that
\* was configured for frames from outside for those (addReprocChannel() against
\* reprocess(), which both ask isRegularCapture()).
RequestFitsChannel == \A i \in DOMAIN works : works[i].offline = chan.offline

\* No more buffers are mapped for a stream than it was configured to have as input
\* (num_of_bufs in addReprocStreamsFromSource()).
DeclaredInputs == Len(chan.offlineBuffers) <= 2

\* The jobs that wait are those the backend has, in its order, also after one of
\* several requests failed (the dequeue(false) of reprocess()).
QueueMatchesBackend ==
    /\ Len(m_ongoingPPQ) = Len(works)
    /\ \A i \in DOMAIN works : m_ongoingPPQ[i].frame = works[i].frame

\* What is allocated belongs to a channel, to a job or to a face being registered
\* (src_reproc_bufs, stream info buffers, the image).
HeapOwned ==
    heap \subseteq (IF chan.up THEN {StreamInfo} ELSE {})
        \cup {Copy(j.frame) : j \in ToSet(m_ongoingPPQ)}
        \cup {Copy(j.from) : j \in ToSet(jpegs)}
        \cup (IF face \in {"image", "channel"} THEN {Image} ELSE {})
        \cup (IF face = "channel" THEN {FaceInfo} ELSE {})
        \cup lost

\* A channel that was thought necessary is asked for something (needReprocess()
\* against addReprocChannel()).
ChannelHasWork == chan.up => chan.mask # {}

\* Nothing is left behind (releaseOngoingPPData(), addReprocStreamsFromSource()).
NothingLost == lost = {}

\* The frame of a job whose source is kept is never given back to a channel that
\* is not there any more (reproc_frame_release).
KeptNotReleased == [][/\ \A i \in DOMAIN m_ongoingPPQ : m_ongoingPPQ[i].keep =>
                            m_ongoingPPQ[i].frame \notin gone'
                     /\ \A i \in DOMAIN jpegs : jpegs[i].keep => jpegs[i].from \notin gone']_vars
================================================================================
