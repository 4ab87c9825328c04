------------------------------ MODULE MCHal_proofs ------------------------------
(***************************************************************************)
(* The components of MCHal whose invariants are proved, in the instances   *)
(* that are model-checked: the frames of a stream of each kind, the JPEG   *)
(* encoder's interface and the requests of the third HAL                   *)
(* (StreamFrames_proofs), the power service and the torch                  *)
(* (PowerHal_proofs).  A behaviour takes the steps of one component; each  *)
(* of the others stays in an initial state.                                *)
(***************************************************************************)
EXTENDS MCHal, TLAPS

\* The invariants of the components, in the behaviours about them.
FramesPart ==
    /\ part = "display" => DisplayFrames!FramesInv
    /\ part = "nodisplay" => CallbackFrames!FramesInv
    /\ part = "rdi" => RdiFrames!FramesInv
    /\ part = "video" => VideoFrames!FramesInv

JpegPart ==
    /\ part = "jpeg" => DisplayFrames!EncoderInv
    /\ part = "one_buffer" => CallbackFrames!EncoderInv
    /\ part = "one_engine" => RdiFrames!EncoderInv
    /\ part = "setup" => VideoFrames!EncoderInv

RequestsPart ==
    /\ part = "results" => DisplayFrames!RequestsInv
    /\ part = "flushes" => CallbackFrames!RequestsInv
    /\ part = "callers" => RdiFrames!RequestsInv
    /\ part = "reprocess" => VideoFrames!RequestsInv

PowerPart ==
    /\ part = "power" => Power!PowerInv
    /\ part = "refusals" => Refusals!PowerInv

TorchPart ==
    /\ part = "torch" => Power!TorchInv
    /\ part = "torch_faults" => Refusals!TorchInv

-----------------------------------------------------------------------------
(* A step of the whole is one of the component that the behaviour is about. *)

FramesParts == {"display", "nodisplay", "rdi", "video"}
JpegParts == {"jpeg", "one_buffer", "one_engine", "setup"}
RequestsParts == {"results", "flushes", "callers", "reprocess"}
PowerParts == {"power", "refusals"}
TorchParts == {"torch", "torch_faults"}

\* One component takes the step, and is the one the behaviour is about; the
\* variables of the others stay.
LEMMA OneComponent ==
  ASSUME Next
  PROVE  /\ part' = part
         /\ \/ part \in FramesParts /\ FramesNext
            \/ part \notin FramesParts /\ UNCHANGED framesVars
         /\ \/ part \in JpegParts /\ JpegNext
            \/ part \notin JpegParts /\ UNCHANGED jpegVars
         /\ \/ part \in RequestsParts /\ RequestsNext
            \/ part \notin RequestsParts /\ UNCHANGED requestVars
         /\ \/ part \in PowerParts /\ PowerNext
            \/ part \notin PowerParts /\ UNCHANGED powerVars
         /\ \/ part \in TorchParts /\ TorchNext
            \/ part \notin TorchParts /\ UNCHANGED torchVars
<1>1. CASE PostprocNext
  BY <1>1 DEF PostprocNext, FramesParts, JpegParts, RequestsParts, PowerParts, TorchParts
<1>2. CASE FramesNext
  BY <1>2 DEF FramesNext, FramesParts, JpegParts, RequestsParts, PowerParts, TorchParts
<1>3. CASE DeferredNext
  BY <1>3 DEF DeferredNext, FramesParts, JpegParts, RequestsParts, PowerParts, TorchParts
<1>4. CASE ReprocNext
  BY <1>4 DEF ReprocNext, FramesParts, JpegParts, RequestsParts, PowerParts, TorchParts
<1>5. CASE JpegNext
  BY <1>5 DEF JpegNext, FramesParts, JpegParts, RequestsParts, PowerParts, TorchParts
<1>6. CASE RequestsNext
  BY <1>6 DEF RequestsNext, FramesParts, JpegParts, RequestsParts, PowerParts, TorchParts
<1>7. CASE PowerNext
  BY <1>7 DEF PowerNext, FramesParts, JpegParts, RequestsParts, PowerParts, TorchParts
<1>8. CASE TorchNext
  BY <1>8 DEF TorchNext, FramesParts, JpegParts, RequestsParts, PowerParts, TorchParts
<1> QED
  BY <1>1, <1>2, <1>3, <1>4, <1>5, <1>6, <1>7, <1>8 DEF Next

LEMMA PartStays == [Next]_vars => part' = part
BY OneComponent DEF vars

LEMMA FramesStep ==
  ASSUME [Next]_vars
  PROVE  /\ part' = "display" => part = "display" /\ [DisplayFrames!Next]_(DisplayFrames!vars)
         /\ part' = "nodisplay" => part = "nodisplay" /\ [CallbackFrames!Next]_(CallbackFrames!vars)
         /\ part' = "rdi" => part = "rdi" /\ [RdiFrames!Next]_(RdiFrames!vars)
         /\ part' = "video" => part = "video" /\ [VideoFrames!Next]_(VideoFrames!vars)
<1>1. CASE Next
  BY <1>1, OneComponent DEF FramesNext, FramesParts
<1>2. CASE UNCHANGED vars
  BY <1>2 DEF vars, framesVars, DisplayFrames!vars, CallbackFrames!vars, RdiFrames!vars,
              VideoFrames!vars
<1> QED
  BY <1>1, <1>2

LEMMA JpegStep ==
  ASSUME [Next]_vars
  PROVE  /\ part' = "jpeg" =>
              part = "jpeg" /\ [DisplayFrames!Encoder!Next]_(DisplayFrames!Encoder!vars)
         /\ part' = "one_buffer" =>
              part = "one_buffer" /\ [CallbackFrames!Encoder!Next]_(CallbackFrames!Encoder!vars)
         /\ part' = "one_engine" =>
              part = "one_engine" /\ [RdiFrames!Encoder!Next]_(RdiFrames!Encoder!vars)
         /\ part' = "setup" =>
              part = "setup" /\ [VideoFrames!Encoder!Next]_(VideoFrames!Encoder!vars)
<1>1. CASE Next
  BY <1>1, OneComponent DEF JpegNext, JpegParts
<1>2. CASE UNCHANGED vars
  BY <1>2 DEF vars, jpegVars, DisplayFrames!Encoder!vars, CallbackFrames!Encoder!vars,
              RdiFrames!Encoder!vars, VideoFrames!Encoder!vars
<1> QED
  BY <1>1, <1>2

LEMMA RequestsStep ==
  ASSUME [Next]_vars
  PROVE  /\ part' = "results" =>
              part = "results" /\ [DisplayFrames!Requests!Next]_(DisplayFrames!Requests!vars)
         /\ part' = "flushes" =>
              part = "flushes" /\ [CallbackFrames!Requests!Next]_(CallbackFrames!Requests!vars)
         /\ part' = "callers" =>
              part = "callers" /\ [RdiFrames!Requests!Next]_(RdiFrames!Requests!vars)
         /\ part' = "reprocess" =>
              part = "reprocess" /\ [VideoFrames!Requests!Next]_(VideoFrames!Requests!vars)
<1>1. CASE Next
  BY <1>1, OneComponent DEF RequestsNext, RequestsParts
<1>2. CASE UNCHANGED vars
  BY <1>2 DEF vars, requestVars,
      DisplayFrames!Requests!vars, DisplayFrames!Requests!list, DisplayFrames!Requests!ctl,
      DisplayFrames!Requests!backend,
      CallbackFrames!Requests!vars, CallbackFrames!Requests!list, CallbackFrames!Requests!ctl,
      CallbackFrames!Requests!backend,
      RdiFrames!Requests!vars, RdiFrames!Requests!list, RdiFrames!Requests!ctl,
      RdiFrames!Requests!backend,
      VideoFrames!Requests!vars, VideoFrames!Requests!list, VideoFrames!Requests!ctl,
      VideoFrames!Requests!backend
<1> QED
  BY <1>1, <1>2

LEMMA PowerStep ==
  ASSUME [Next]_vars
  PROVE  /\ part' = "power" => part = "power" /\ [Power!Next]_(Power!vars)
         /\ part' = "refusals" => part = "refusals" /\ [Refusals!Next]_(Refusals!vars)
<1>1. CASE Next
  BY <1>1, OneComponent DEF PowerNext, PowerParts
<1>2. CASE UNCHANGED vars
  BY <1>2 DEF vars, powerVars, Power!vars, Refusals!vars
<1> QED
  BY <1>1, <1>2

LEMMA TorchStep ==
  ASSUME [Next]_vars
  PROVE  /\ part' = "torch" => part = "torch" /\ [Power!Torch!Next]_(Power!Torch!vars)
         /\ part' = "torch_faults" =>
              part = "torch_faults" /\ [Refusals!Torch!Next]_(Refusals!Torch!vars)
<1>1. CASE Next
  BY <1>1, OneComponent DEF TorchNext, TorchParts
<1>2. CASE UNCHANGED vars
  BY <1>2 DEF vars, torchVars, Power!Torch!vars, Refusals!Torch!vars
<1> QED
  BY <1>1, <1>2

-----------------------------------------------------------------------------
(* The initial states, and the steps. *)

LEMMA InitFrames == Init => FramesPart
BY DisplayFrames!InitFrames, CallbackFrames!InitFrames, RdiFrames!InitFrames, VideoFrames!InitFrames,
   InstancesAssumption DEF Init, FramesPart

LEMMA FramesKept == FramesPart /\ [Next]_vars => FramesPart'
BY FramesStep, DisplayFrames!NextFrames, CallbackFrames!NextFrames, RdiFrames!NextFrames, VideoFrames!NextFrames,
   InstancesAssumption DEF FramesPart

LEMMA InitJpeg == Init => JpegPart
BY DisplayFrames!InitEncoder, CallbackFrames!InitEncoder, RdiFrames!InitEncoder, VideoFrames!InitEncoder,
   InstancesAssumption DEF Init, JpegPart

LEMMA JpegKept == JpegPart /\ [Next]_vars => JpegPart'
BY JpegStep, DisplayFrames!NextEncoder, CallbackFrames!NextEncoder, RdiFrames!NextEncoder, VideoFrames!NextEncoder,
   InstancesAssumption DEF JpegPart

LEMMA InitRequests == Init => RequestsPart
BY DisplayFrames!InitRequests, CallbackFrames!InitRequests, RdiFrames!InitRequests, VideoFrames!InitRequests,
   InstancesAssumption DEF Init, RequestsPart

LEMMA RequestsKept == RequestsPart /\ [Next]_vars => RequestsPart'
BY RequestsStep, DisplayFrames!NextRequests, CallbackFrames!NextRequests, RdiFrames!NextRequests, VideoFrames!NextRequests,
   InstancesAssumption DEF RequestsPart

LEMMA InitPower == Init => PowerPart
BY Power!InitPower, Refusals!InitPower, InstancesAssumption DEF Init, PowerPart

LEMMA PowerKept == PowerPart /\ [Next]_vars => PowerPart'
BY PowerStep, Power!NextPower, Refusals!NextPower, InstancesAssumption DEF PowerPart

LEMMA InitTorch == Init => TorchPart
BY Power!InitTorch, Refusals!InitTorch, InstancesAssumption DEF Init, TorchPart

LEMMA TorchKept == TorchPart /\ [Next]_vars => TorchPart'
BY TorchStep, Power!NextTorch, Refusals!NextTorch, InstancesAssumption DEF TorchPart

-----------------------------------------------------------------------------
\* In the streams of each kind, with a window that refuses the import of a buffer
\* and an application that changes what it wants to be told: a buffer has one owner
\* and none is stranded, and the window and the HAL agree on each of its buffers
\* (QCamera2HWICallbacks.cpp, QCameraStream.cpp, QCameraMem.cpp).
THEOREM HalFrames == Spec => []FramesSound
<1>1. FramesPart => FramesSound
  <2> SUFFICES ASSUME FramesPart PROVE FramesSound
    OBVIOUS
  <2>1. part = "display" => DisplayFrames!FramesSound
    BY DisplayFrames!InvFramesSound, InstancesAssumption DEF FramesPart
  <2>2. part = "nodisplay" => CallbackFrames!FramesSound
    BY CallbackFrames!InvFramesSound, InstancesAssumption DEF FramesPart
  <2>3. part = "rdi" => RdiFrames!FramesSound
    BY RdiFrames!InvFramesSound, InstancesAssumption DEF FramesPart
  <2>4. part = "video" => VideoFrames!FramesSound
    BY VideoFrames!InvFramesSound, InstancesAssumption DEF FramesPart
  <2> QED
    BY <2>1, <2>2, <2>3, <2>4 DEF FramesSound
<1> QED
  BY <1>1, InitFrames, FramesKept, PTL DEF Spec

\* The encoder's interface with two sessions and one or two output buffers, on an
\* engine for one job or two, and with one session set up for jobs that fail: no
\* two jobs share a session or an output buffer, and no more jobs that are wanted
\* encode than the engine takes (mm_jpeg.c).
THEOREM HalJpeg == Spec => []JpegSound
<1>1. JpegPart => JpegSound
  <2> SUFFICES ASSUME JpegPart PROVE JpegSound
    OBVIOUS
  <2>1. part = "jpeg" => DisplayFrames!Encoder!TypeOK /\ DisplayFrames!Encoder!JobsApart
    BY DisplayFrames!InvEncoder, InstancesAssumption DEF JpegPart
  <2>2. part = "one_buffer" => CallbackFrames!Encoder!JobsApart
    BY CallbackFrames!InvEncoder, InstancesAssumption DEF JpegPart
  <2>3. part = "one_engine" => RdiFrames!Encoder!WithinEngine
    BY RdiFrames!InvEncoder, InstancesAssumption DEF JpegPart
  <2>4. part = "setup" => VideoFrames!Encoder!TypeOK /\ VideoFrames!Encoder!JobsApart
    BY VideoFrames!InvEncoder, InstancesAssumption DEF JpegPart
  <2> QED
    BY <2>1, <2>2, <2>3, <2>4 DEF JpegSound
<1> QED
  BY <1>1, InitJpeg, JpegKept, PTL DEF Spec

\* And in none of these encoders is a job answered twice, or when its client has
\* destroyed the session or closed (mm_jpeg_fbd(), mm_jpegenc_job_done()).
THEOREM HalAnswersOnce == Spec => DisplayFrames!Encoder!AnsweredOnce
<1> DEFINE Once ==
      \A j \in 1..2 : told'[j] # told[j] => told[j] = <<>> /\ j \notin over
<1>1. JpegPart /\ [Next]_vars => Once
  <2> SUFFICES ASSUME JpegPart, [Next]_vars PROVE Once
    OBVIOUS
  <2>1. CASE part' = "jpeg"
    BY <2>1, JpegStep, DisplayFrames!AnswersOnce, InstancesAssumption
       DEF JpegPart, DisplayFrames!Encoder!Jobs
  <2>2. CASE part' = "one_buffer"
    BY <2>2, JpegStep, CallbackFrames!AnswersOnce, InstancesAssumption
       DEF JpegPart, CallbackFrames!Encoder!Jobs
  <2>3. CASE part' = "one_engine"
    BY <2>3, JpegStep, RdiFrames!AnswersOnce, InstancesAssumption
       DEF JpegPart, RdiFrames!Encoder!Jobs
  <2>4. CASE part' = "setup"
    BY <2>4, JpegStep, VideoFrames!AnswersOnce, InstancesAssumption
       DEF JpegPart, VideoFrames!Encoder!Jobs
  <2>5. CASE part' \notin {"jpeg", "one_buffer", "one_engine", "setup"}
    BY <2>5, OneComponent DEF vars, JpegParts, jpegVars
  <2> QED
    BY <2>1, <2>2, <2>3, <2>4, <2>5
<1>2. Once => [Once]_(DisplayFrames!Encoder!vars)
  OBVIOUS
<1>3. [][Once]_(DisplayFrames!Encoder!vars) => DisplayFrames!Encoder!AnsweredOnce
  BY DEF DisplayFrames!Encoder!AnsweredOnce, DisplayFrames!Encoder!Jobs
<1> HIDE DEF Once
<1> QED
  BY <1>1, <1>2, <1>3, InitJpeg, JpegKept, PTL DEF Spec

\* The requests of the third HAL as they are model-checked, with metadata that is lost
\* and buffers that are not filled, with flushes, and with pictures that are
\* reprocessed: the counter that holds the framework back is the number of requests
\* in flight, each buffer goes back once, and results go in the order of the frames
\* (QCamera3HWI.cpp).
THEOREM HalRequests == Spec => []RequestsSound
<1>1. RequestsPart => RequestsSound
  <2> SUFFICES ASSUME RequestsPart PROVE RequestsSound
    OBVIOUS
  <2>1. part = "results" =>
          /\ DisplayFrames!Requests!TypeOK /\ DisplayFrames!Requests!InFlightCounted
          /\ DisplayFrames!Requests!RoomForNext /\ DisplayFrames!Requests!BackOnce
          /\ DisplayFrames!Requests!ResultsInOrder
    BY DisplayFrames!InvRequests DEF RequestsPart, DisplayFrames!Paired
  <2>2. part = "flushes" =>
          CallbackFrames!Requests!InFlightCounted /\ CallbackFrames!Requests!BackOnce
    BY CallbackFrames!InvRequests DEF RequestsPart
  <2>3. part = "reprocess" =>
          /\ VideoFrames!Requests!InFlightCounted /\ VideoFrames!Requests!ResultsInOrder
          /\ VideoFrames!Requests!BackOnce
    BY VideoFrames!InvRequests DEF RequestsPart, VideoFrames!Paired
  <2> QED
    BY <2>1, <2>2, <2>3 DEF RequestsSound
<1> QED
  BY <1>1, InitRequests, RequestsKept, PTL DEF Spec

\* And when a flush returns, the framework has every buffer, and of every request a
\* result or an error, though requests came while the channels were stopped one
\* after the other (flush()).
THEOREM HalFlushAnswers == Spec => CallbackFrames!Requests!FlushAnswersAll
<1> DEFINE AllAnswered ==
      mFlush /\ ~mFlush' =>
          /\ CallbackFrames!Requests!ToSet(fw'.back) = CallbackFrames!Requests!Buffers
          /\ \A f \in CallbackFrames!Requests!Given :
                \/ f \in fw'.requestErrors
                \/ \E r \in CallbackFrames!Requests!ToSet(fw'.results) : r.frame = f
           Quiet == part # "flushes" => ~mFlush
<1>1. Init => Quiet
  BY CallbackFrames!InitNoFlush, RdiFrames!InitNoFlush, VideoFrames!InitNoFlush,
     DisplayFrames!InitNoFlush DEF Init
<1>2. Quiet /\ [Next]_vars => Quiet'
  <2> SUFFICES ASSUME ~mFlush, [Next]_vars, part' # "flushes" PROVE ~mFlush'
    BY PartStays
  <2>1. CASE part' \in {"results", "callers", "reprocess"}
    BY <2>1, RequestsStep, DisplayFrames!NoFlush, RdiFrames!NoFlush, VideoFrames!NoFlush
  <2>2. CASE part' \notin {"results", "flushes", "callers", "reprocess"}
    BY <2>2, OneComponent DEF vars, RequestsParts, requestVars
  <2> QED
    BY <2>1, <2>2
<1>3. RequestsPart /\ Quiet /\ [Next]_vars => AllAnswered
  <2> SUFFICES ASSUME RequestsPart, Quiet, [Next]_vars, mFlush, ~mFlush' PROVE AllAnswered
    OBVIOUS
  <2>1. part = "flushes" /\ part' = "flushes"
    BY PartStays
  <2> QED
    BY <2>1, RequestsStep, CallbackFrames!FlushAnswersStep, InstancesAssumption
       DEF RequestsPart
<1>4. AllAnswered => [AllAnswered]_(CallbackFrames!Requests!vars)
  OBVIOUS
<1>5. [][AllAnswered]_(CallbackFrames!Requests!vars) => CallbackFrames!Requests!FlushAnswersAll
  BY DEF CallbackFrames!Requests!FlushAnswersAll
<1> HIDE DEF AllAnswered, Quiet
<1> QED
  BY <1>1, <1>2, <1>3, <1>4, <1>5, InitRequests, RequestsKept, PTL DEF Spec

\* The power service and the torch as they are model-checked: hints in any order
\* leave one lock of a kind, known to the service, and no cores of a lit display
\* in the dark; a lit torch and an open camera never hold one flash, and the
\* framework knows (power-common.c, utils.c, QCameraFlash.cpp, QCamera2Factory.cpp).
THEOREM HalHints == Spec => []HintsSound
<1>1. PowerPart /\ TorchPart => HintsSound
  <2> SUFFICES ASSUME PowerPart, TorchPart PROVE HintsSound
    OBVIOUS
  <2>1. part = "power" => /\ Power!TypeOK /\ Power!OneOfEach /\ Power!LaunchKnown
                          /\ Power!NoCoresWhenOff /\ Power!NoDarkTuningWhenOn
    BY Power!InvPowerSound, Power!InvOneOfEach, Power!InvDisplay, InstancesAssumption
       DEF PowerPart, Power!Orderly
  <2>2. part = "refusals" =>
           Refusals!ListMatchesLocks /\ Refusals!ProfileHeld /\ Refusals!LaunchKnown
    BY Refusals!InvPowerSound, InstancesAssumption DEF PowerPart
  <2>3. part = "torch" => Power!Torch!TypeOK /\ Power!Torch!Exclusive /\ Power!Torch!FlagIsLight
    BY Power!TorchFacts, InstancesAssumption DEF TorchPart
  <2>4. part = "torch_faults" => Refusals!Torch!BusyMeansOpen /\ Refusals!Torch!StatusRight
    BY Refusals!TorchFacts, InstancesAssumption DEF TorchPart
  <2> QED
    BY <2>1, <2>2, <2>3, <2>4 DEF HintsSound
<1> QED
  BY <1>1, InitPower, PowerKept, InitTorch, TorchKept, PTL DEF Spec

=============================================================================
