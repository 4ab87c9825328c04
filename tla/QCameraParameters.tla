--------------------------- MODULE QCameraParameters ---------------------------
(***************************************************************************)
(* The parameters of the first camera HAL (QCameraParameters.cpp): what the *)
(* application asks for is compared with what is stored, checked against    *)
(* the tables of accepted values, staged in m_tempMap and in the batch for  *)
(* the daemon, and committed; some settings take effect on the object's     *)
(* fields or in the map at once, before the commit.                         *)
(*                                                                         *)
(* The state is the object, a record; a setter is a function on it, so that *)
(* updateParameters() is their composition in the code's order.  A run      *)
(* looks at some of the keys, the others are never given.                   *)
(***************************************************************************)
EXTENDS Naturals, Sequences, SequencesExt, FiniteSets, FiniteSetsExt, TLC

CONSTANTS
    Keys,       \* the keys the application uses
    Missing,    \* those it may leave out
    BadValues,  \* may it give a value the tables do not have?
    Faults,     \* may set_parms() fail?
    Commits,    \* the other callers of commitSetBatch() of the run
    Repeats,    \* does the run look at the same request made twice?
    HdrKind     \* of the capabilities: "none", "sensor" or "burst"

ParametersAssumption ==
    /\ Missing \subseteq Keys /\ {BadValues, Faults, Repeats} \subseteq BOOLEAN
    /\ HdrKind \in {"none", "sensor", "burst"}

None == "none"      \* get() returns NULL
Bad == "bad"        \* not in the table

Controls == {"brightness", "sharpness", "saturation", "contrast", "exposure"}
OnOff == {"zsl", "hsr", "afBracket", "chroma", "optiZoom", "denoise"}
Enable == {"mce", "lensShade", "redeye", "rdi", "secure", "dis", "vt", "sceneSelection", "faceRec"}

\* What the tables of the capabilities have.
Valid(k) ==
    CASE k \in Controls \cup {"zoom"} -> {"0", "1"}
      [] k \in OnOff -> {"off", "on"}
      [] k \in Enable -> {"disable", "enable"}
      [] k \in {"aecLock", "awbLock", "hint"} -> {"false", "true"}
      [] k = "previewSize" -> {"wide", "square"}
      [] k \in {"pictureSize", "videoSize"} -> {"big", "small"}
      [] k \in {"previewFormat", "pictureFormat"} -> {"nv21", "yv12"}
      [] k = "hfr" -> {"off", "60"}
      [] k = "frameRate" -> {"15", "30"}
      [] k = "fpsRange" -> {"15-15", "15-30", "30-30"}
      [] k = "scene" -> {"auto", "hdr", "beach"}
      [] k = "flash" -> {"off", "on", "torch"}
      [] k = "aeBracket" -> {"Off", "AE-Bracket"}
      [] k = "burst" -> {"1", "3"}
      [] OTHER -> {"auto", "manual"}

Default(k) ==
    CASE k = "pictureSize" -> "small" [] k = "videoSize" -> "big" [] k = "previewSize" -> "wide"
      [] k \in {"scene", "effect", "iso", "whiteBalance", "focusMode"} -> "auto"
      [] k = "aeBracket" -> "Off" [] k = "burst" -> "1" [] k = "fpsRange" -> "15-30"
      [] k = "frameRate" -> "30" [] k \in {"previewFormat", "pictureFormat"} -> "nv21"
      [] k \in Enable -> "disable" [] k \in OnOff \cup {"hfr", "flash"} -> "off"
      [] k \in {"aecLock", "awbLock", "hint"} -> "false" [] k \in Controls \cup {"zoom"} -> "0"
      [] OTHER -> "auto"

Inputs(k) == Valid(k) \cup (IF BadValues THEN {Bad} ELSE {}) \cup
             (IF k \in Missing THEN {None} ELSE {})
\* All p with p[k] \in Inputs(k), key by key.
Requests == FoldSet(LAMBDA k, ps : {(k :> v) @@ p : v \in Inputs(k), p \in ps}, {<<>>}, Keys)

Asked(p) == IF Repeats THEN p ELSE <<>>

VARIABLES
    par,        \* the object: its maps, its batch and its fields
    backend,    \* what the daemon has been sent, by entry
    event       \* history: the last call, "accepted", "rejected" or another, and its request

vars == <<par, backend, event>>

\* initDefaultParameters() stages and commits the defaults.
Init ==
    /\ par = [map |-> [k \in Keys |-> Default(k)], temp |-> <<>>, batch |-> <<>>,
              rc |-> "ok", restart |-> FALSE,
              zsl |-> FALSE, zslNew |-> FALSE, hint |-> FALSE, hintNew |-> FALSE,
              hdr |-> FALSE, sensorHdr |-> FALSE, hdrScene |-> FALSE, burst |-> "1",
              ae |-> FALSE, af |-> FALSE, chroma |-> FALSE, opti |-> FALSE,
              flash |-> "off", led |-> "off", torch |-> FALSE, releaseTorch |-> FALSE,
              face |-> {}, faceOn |-> FALSE, vt |-> FALSE, dis |-> FALSE, scene |-> "auto",
              sceneSelection |-> FALSE, fixed |-> FALSE, hfrFps |-> "0", live |-> "small",
              toAuto |-> FALSE, effectAgain |-> FALSE, histogram |-> FALSE]
    /\ backend = [e \in Keys \cup {"led", "fd"} |->
                    IF e \in Keys THEN Default(e) ELSE IF e = "led" THEN "off" ELSE {}]
    /\ event = [call |-> "init", asked |-> Asked([k \in Keys |-> Default(k)])]

Given(p, k) == IF k \in Keys THEN p[k] ELSE None
Stored(s, k) == IF k \in Keys THEN s.map[k] ELSE None
--------------------------------------------------------------------------------
\* The batch and what is staged.

initBatchUpdate(s) == [s EXCEPT !.temp = <<>>, !.batch = <<>>]
updateParamEntry(k, v, s) == [s EXCEPT !.temp = (k :> v) @@ @]
AddSetParmEntryToBatch(e, v, s) == [s EXCEPT !.batch = (e :> v) @@ @]
set(k, v, s) == [s EXCEPT !.map[k] = v]
BadValue(s) == [s EXCEPT !.rc = "bad"]

\* What is staged becomes what is stored.  A change to the automatic scene lets the
\* next update apply the effect again.
commitParamChanges(s) ==
    [s EXCEPT !.map = [k \in Keys |-> IF k \in DOMAIN s.temp THEN s.temp[k] ELSE s.map[k]],
              !.temp = <<>>, !.hint = s.hintNew, !.zsl = s.zslNew,
              !.effectAgain = @ \/ s.toAuto, !.toAuto = FALSE,
              !.torch = @ /\ ~s.releaseTorch, !.releaseTorch = FALSE]

commitSetBatch(s) ==
    \E ok \in IF Faults /\ s.batch # <<>> THEN BOOLEAN ELSE {TRUE} :
        /\ backend' = IF ok THEN s.batch @@ backend ELSE backend
        /\ par' = IF ok THEN commitParamChanges(s) ELSE s
--------------------------------------------------------------------------------
\* The setters: p is what is asked, s the object so far.

\* A setting with a table: its key is staged and its value goes into the batch.
Stage(k, v, s) == AddSetParmEntryToBatch(k, v, updateParamEntry(k, v, s))
LookUp(k, v, s) == IF v \in Valid(k) THEN Stage(k, v, s) ELSE BadValue(s)
Changed(k, p, s) == Given(p, k) # None /\ Given(p, k) # Stored(s, k)
setLookedUp(k, p, s) == IF Changed(k, p, s) THEN LookUp(k, p[k], s) ELSE s
setControl(k, p, s) ==
    IF ~Changed(k, p, s) THEN s ELSE IF p[k] \in Valid(k) THEN Stage(k, p[k], s) ELSE BadValue(s)
setZoom(p, s) ==    \* a missing level is no level
    IF p.zoom \notin Valid("zoom") THEN BadValue(s)
    ELSE IF Changed("zoom", p, s) THEN Stage("zoom", p.zoom, s) ELSE s

setEffect(p, s) ==
    IF p.effect # None /\ (p.effect # s.map.effect \/ s.effectAgain)
    THEN LookUp("effect", p.effect, [s EXCEPT !.effectAgain = FALSE]) ELSE s

\* Sizes are stored at once.
setPreviewSize(p, s) ==
    IF p.previewSize \notin Valid("previewSize") THEN BadValue(s)
    ELSE set("previewSize", p.previewSize,
             [s EXCEPT !.restart = @ \/ p.previewSize # s.map.previewSize])
setPictureSize(p, s) ==
    IF p.pictureSize \notin Valid("pictureSize") THEN BadValue(s)
    ELSE set("pictureSize", p.pictureSize,
             [s EXCEPT !.restart = @ \/ ((s.zsl \/ s.hint) /\ p.pictureSize # s.map.pictureSize)])
setVideoSize(p, s) ==   \* the preview's when it is missing: all of these record
    LET v == IF p.videoSize = None THEN "small" ELSE p.videoSize
    IN  IF v \notin Valid("videoSize") THEN BadValue(s)
        ELSE set("videoSize", v, [s EXCEPT !.restart = @ \/ (s.hint /\ v # s.map.videoSize)])

HighRate(p) == IF Given(p, "hsr") = "on" THEN "120" ELSE Given(p, "hfr")
LiveSizes(rate) == IF rate \in {"60", "120"} THEN {"small"} ELSE Valid("pictureSize")
setLiveSnapshotSize(p, s) ==
    LET rate == HighRate(p)
        pic == Given(p, "pictureSize")
        byAspect == IF Given(p, "previewSize") = "wide" THEN "small"
                    ELSE IF rate \in {"60", "120"} THEN Stored(s, "videoSize") ELSE pic
    IN  [s EXCEPT !.live = IF pic \in LiveSizes(rate) THEN pic ELSE byAspect]

setFormat(k, p, s) == IF p[k] \in Valid(k) THEN set(k, p[k], s) ELSE BadValue(s)
--------------------------------------------------------------------------------
setZslMode(p, s) ==
    IF ~Changed("zsl", p, s) THEN s
    ELSE IF p.zsl \notin Valid("zsl") THEN BadValue(s)
    ELSE set("zsl", p.zsl, AddSetParmEntryToBatch("zsl", p.zsl,
             [s EXCEPT !.zslNew = (p.zsl = "on"), !.restart = TRUE]))

setSceneSelectionMode(p, s) ==
    IF ~Changed("sceneSelection", p, s) THEN s
    ELSE IF p.sceneSelection = "disable" \/ (p.sceneSelection = "enable" /\ s.zslNew)
    THEN updateParamEntry("sceneSelection", p.sceneSelection,
             [s EXCEPT !.restart = TRUE, !.sceneSelection = (p.sceneSelection = "enable")])
    ELSE BadValue(s)

\* The faces wanted change the mask, and the batch gets the mask.
faceMask(new, s) ==
    IF new = s.face THEN s ELSE AddSetParmEntryToBatch("fd", new, [s EXCEPT !.face = new])
setFaceDetection(on, s) ==
    faceMask(IF on THEN s.face \cup {"detect"} ELSE s.face \ {"detect"}, s)
setFaceRecognition(p, s) ==
    IF ~Changed("faceRec", p, s) THEN s
    ELSE IF p.faceRec \notin Valid("faceRec") THEN BadValue(s)
    ELSE faceMask(IF p.faceRec = "enable" THEN s.face \cup {"recognize"}
                  ELSE s.face \ {"recognize"}, updateParamEntry("faceRec", p.faceRec, s))

setRecordingHintValue(on, s) ==
    AddSetParmEntryToBatch("hint", IF on THEN "true" ELSE "false",
        [s EXCEPT !.restart = @ \/ s.hint # on, !.hintNew = on])
setRecordingHint(p, s) ==
    IF ~Changed("hint", p, s) THEN s
    ELSE IF p.hint \notin Valid("hint") THEN BadValue(s)
    ELSE LET on == p.hint = "true"
             t == setRecordingHintValue(on, updateParamEntry("hint", p.hint, s))
         IN  IF s.faceOn THEN setFaceDetection(~on, t) ELSE t

\* What is asked, if it is new; otherwise what the property says.
setRdiMode(p, s) ==
    IF Changed("rdi", p, s) THEN LookUp("rdi", p.rdi, s)
    ELSE IF s.map.rdi # "disable" THEN Stage("rdi", "disable", s) ELSE s
setSecureMode(p, s) ==
    LET v == IF Changed("secure", p, s) THEN p.secure ELSE "disable"
    IN  IF v \in Valid("secure") /\ v # s.map.secure THEN updateParamEntry("secure", v, s) ELSE s

\* The rate is only noted, for the range.
setPreviewFrameRate(p, s) ==
    IF Changed("frameRate", p, s)
    THEN updateParamEntry("frameRate", p.frameRate, [s EXCEPT !.fixed = TRUE]) ELSE s
HsrJustOn(p, s) == Given(p, "hsr") = "on" /\ Stored(s, "hsr") # "on"
HfrJustSet(p, s) == /\ Given(p, "hfr") \in Valid("hfr") /\ Given(p, "hsr") # "on"
                    /\ (Changed("hfr", p, s) \/ Changed("hsr", p, s))
UpdateHFRFrameRate(p, s) ==
    [s EXCEPT !.hfrFps = IF HighRate(p) \notin {"60", "120"} THEN "0"
                         ELSE IF HsrJustOn(p, s) \/ HfrJustSet(p, s) THEN HighRate(p) ELSE @]
FixedRange(rate) == IF rate = "15" THEN "15-15" ELSE "30-30"
setPreviewFpsRange(p, s) ==
    LET same == p.fpsRange = s.map.fpsRange
        t == [UpdateHFRFrameRate(p, s) EXCEPT !.fixed = @ /\ ~same]
        range == IF same /\ s.fixed THEN FixedRange(p.frameRate) ELSE p.fpsRange
    IN  IF same /\ ~s.fixed /\ ~HsrJustOn(p, s) /\ ~HfrJustSet(p, s) THEN t
        ELSE IF range \notin Valid("fpsRange") THEN BadValue(t)
        ELSE AddSetParmEntryToBatch("fps", <<range, t.hfrFps>>, updateParamEntry("fpsRange", range, t))

setHighFrameRate(p, s) ==
    IF Changed("hfr", p, s) /\ p.hfr \in Valid("hfr")
    THEN Stage("hfr", p.hfr, [s EXCEPT !.restart = TRUE]) ELSE setLookedUp("hfr", p, s)
setHighSpeedRecording(p, s) ==
    IF ~Changed("hsr", p, s) THEN s
    ELSE AddSetParmEntryToBatch("hfr", HighRate(p),
             updateParamEntry("hsr", p.hsr, [s EXCEPT !.restart = TRUE]))

setDISValue(p, s) ==
    IF ~Changed("dis", p, s) THEN s
    ELSE IF p.dis \in Valid("dis")
    THEN Stage("dis", p.dis, [s EXCEPT !.restart = TRUE, !.dis = (p.dis = "enable")])
    ELSE BadValue([s EXCEPT !.dis = FALSE])
setVtEnable(p, s) ==
    IF ~Changed("vt", p, s) THEN s
    ELSE IF p.vt \in Valid("vt") THEN Stage("vt", p.vt, [s EXCEPT !.vt = TRUE])
    ELSE BadValue([s EXCEPT !.vt = FALSE])
--------------------------------------------------------------------------------
\* What a picture is taken with.

isHDREnabled(s) == s.burst = "1" /\ (s.hdr \/ s.hdrScene)
isAdvCamFeaturesEnabled(s) == s.af \/ s.chroma \/ s.opti \/ isHDREnabled(s)

\* HDR is on or off at once; the scene itself is staged.
setSceneMode(p, s) ==
    IF ~Changed("scene", p, s) THEN s
    ELSE LET hdr == p.scene = "hdr"
             t == [s EXCEPT !.toAuto = @ \/ p.scene = "auto",
                            !.sensorHdr = hdr /\ HdrKind = "sensor",
                            !.hdr = IF hdr THEN @ \/ HdrKind = "burst" ELSE FALSE,
                            !.restart = @ \/ s.sensorHdr \/ hdr \/ s.map.scene = "hdr"]
         IN  IF hdr /\ HdrKind = "none" THEN s
             ELSE IF p.scene \notin Valid("scene") THEN BadValue(t)
             ELSE IF t.sensorHdr THEN updateParamEntry("scene", p.scene, t)
             ELSE Stage("scene", p.scene,
                        [t EXCEPT !.scene = IF s.sceneSelection THEN p.scene ELSE @])

setAEBracket(p, s) ==
    IF isHDREnabled(s) THEN updateParamEntry("aeBracket", "Off", [s EXCEPT !.ae = FALSE])
    ELSE IF ~Changed("aeBracket", p, s) THEN s
    ELSE updateParamEntry("aeBracket", p.aeBracket, [s EXCEPT !.ae = (p.aeBracket = "AE-Bracket")])

Feature(k, f, p, s) ==
    IF ~Changed(k, p, s) THEN s
    ELSE IF p[k] \notin Valid(k) THEN BadValue([s EXCEPT !.restart = TRUE])
    ELSE updateParamEntry(k, p[k], [s EXCEPT ![f] = (p[k] = "on"), !.restart = TRUE])
setAFBracket(p, s) == Feature("afBracket", "af", p, s)
setChromaFlash(p, s) == Feature("chroma", "chroma", p, s)
setOptiZoom(p, s) == Feature("optiZoom", "opti", p, s)

setBurstNum(p, s) ==
    LET n == IF isAdvCamFeaturesEnabled(s) \/ p.burst \notin Valid("burst") THEN "1" ELSE p.burst
    IN  set("burst", n, AddSetParmEntryToBatch("burst", n, [s EXCEPT !.burst = n]))

\* The torch is taken at once and let go by the commit.
setFlash(p, s) ==
    IF ~Changed("flash", p, s) THEN s
    ELSE IF p.flash \notin Valid("flash") THEN BadValue(s)
    ELSE LET t == updateParamEntry("flash", p.flash, [s EXCEPT !.flash = p.flash])
         IN  IF s.hintNew THEN t
             ELSE IF p.flash = "torch" THEN [t EXCEPT !.torch = TRUE]
             ELSE [t EXCEPT !.releaseTorch = TRUE]

Led(s) == IF isHDREnabled(s) \/ s.ae \/ s.af \/ s.opti THEN "off"
          ELSE IF s.chroma THEN "on" ELSE s.flash
updateFlash(s) ==
    IF Led(s) = s.led THEN s ELSE AddSetParmEntryToBatch("led", Led(s), [s EXCEPT !.led = Led(s)])
--------------------------------------------------------------------------------
\* updateParameters(): every setter of the run's keys, in order; one that fails does
\* not stop the others.
Order == <<"previewSize", "videoSize", "pictureSize", "previewFormat", "pictureFormat", "zsl",
    "sceneSelection", "hint", "rdi", "secure", "frameRate", "fpsRange", "autoExposure", "effect",
    "brightness", "zoom", "sharpness", "saturation", "contrast", "focusMode", "iso", "flash",
    "aecLock", "awbLock", "lensShade", "mce", "dis", "hfr", "hsr", "exposure", "whiteBalance",
    "scene", "redeye", "aeBracket", "denoise", "faceRec", "vt", "afBracket", "chroma", "optiZoom",
    "burst">>
Setter(k, p, s) ==
    CASE k = "previewSize" -> setPreviewSize(p, s)    [] k = "videoSize" -> setVideoSize(p, s)
      [] k = "pictureSize" -> setPictureSize(p, s)    [] k = "zsl" -> setZslMode(p, s)
      [] k \in {"previewFormat", "pictureFormat"} -> setFormat(k, p, s)
      [] k = "sceneSelection" -> setSceneSelectionMode(p, s)
      [] k = "hint" -> setRecordingHint(p, s)         [] k = "rdi" -> setRdiMode(p, s)
      [] k = "secure" -> setSecureMode(p, s)          [] k = "effect" -> setEffect(p, s)
      [] k = "frameRate" -> setPreviewFrameRate(p, s) [] k = "fpsRange" -> setPreviewFpsRange(p, s)
      [] k \in Controls -> setControl(k, p, s)        [] k = "zoom" -> setZoom(p, s)
      [] k = "flash" -> setFlash(p, s)                [] k = "dis" -> setDISValue(p, s)
      [] k = "hfr" -> setHighFrameRate(p, s)          [] k = "hsr" -> setHighSpeedRecording(p, s)
      [] k = "scene" -> setSceneMode(p, s)            [] k = "aeBracket" -> setAEBracket(p, s)
      [] k = "faceRec" -> setFaceRecognition(p, s)    [] k = "vt" -> setVtEnable(p, s)
      [] k = "afBracket" -> setAFBracket(p, s)        [] k = "chroma" -> setChromaFlash(p, s)
      [] k = "optiZoom" -> setOptiZoom(p, s)          [] k = "burst" -> setBurstNum(p, s)
      [] OTHER -> setLookedUp(k, p, s)
updateParameters(p, s) ==
    LET t == FoldLeft(LAMBDA u, k : Setter(k, p, u),
                      [initBatchUpdate(s) EXCEPT !.restart = FALSE, !.rc = "ok"],
                      SelectSeq(Order, LAMBDA k : k \in Keys))
    IN  updateFlash(IF "pictureSize" \in Keys THEN setLiveSnapshotSize(p, t) ELSE t)

\* A setParameters() call: what all setters accept is committed, and the preview
\* restarted when they say so.
SetParameters ==
    \E p \in Requests :
        LET s == updateParameters(p, par)
        IN  IF s.rc = "ok"
            THEN commitSetBatch(s) /\ event' = [call |-> "accepted", asked |-> Asked(p)]
            ELSE /\ par' = s /\ backend' = backend
                 /\ event' = [call |-> "rejected", asked |-> Asked(p)]
--------------------------------------------------------------------------------
\* The other calls that start a batch of their own.
Alone(name, s) ==
    name \in Commits /\ commitSetBatch(s) /\ event' = [event EXCEPT !.call = name]
CommitAlone(name, e, v) == Alone(name, AddSetParmEntryToBatch(e, v, initBatchUpdate(par)))

FaceDetection ==
    \E on \in BOOLEAN :
        Alone("faces", setFaceDetection(on, initBatchUpdate([par EXCEPT !.faceOn = on])))
setHDRSceneEnable ==
    \E on \in BOOLEAN :
        /\ on # par.hdrScene
        /\ Alone("hdrScene", updateFlash(initBatchUpdate([par EXCEPT !.hdrScene = on])))
updateRecordingHintValue ==
    \E on \in BOOLEAN : Alone("hint", setRecordingHintValue(on, initBatchUpdate(par)))
setHistogram ==
    /\ "histogram" \in Commits
    /\ \E on \in BOOLEAN :
          /\ on # par.histogram
          /\ commitSetBatch(AddSetParmEntryToBatch("histogram", on,
                                [initBatchUpdate(par) EXCEPT !.histogram = on]))
    /\ event' = [event EXCEPT !.call = "histogram"]
adjustPreviewFpsRange == CommitAlone("thermal", "fps", <<"hot", "0">>)
setFrameSkip == CommitAlone("frameSkip", "frameSkip", "none")
setLongshotEnable == CommitAlone("longshot", "longshot", "on")
setHDRAEBracket == CommitAlone("hdrBracket", "hdrBracket", "on")
commitAFBracket == CommitAlone("afBracket", "focusBracket", "on")
commitFlashBracket == CommitAlone("flashBracket", "flashBracket", "on")
updateRAW == CommitAlone("raw", "maxDimension", "big")

Next ==
    \/ SetParameters \/ FaceDetection \/ setHDRSceneEnable \/ updateRecordingHintValue
    \/ setHistogram \/ adjustPreviewFpsRange \/ setFrameSkip \/ setLongshotEnable
    \/ setHDRAEBracket \/ commitAFBracket \/ commitFlashBracket \/ updateRAW
Spec == Init /\ [][Next]_vars
--------------------------------------------------------------------------------
\* What is stored, staged and asked stays within the tables.
TypeOK ==
    /\ \A k \in Keys : par.map[k] \in Valid(k)
    /\ DOMAIN par.temp \subseteq Keys
    /\ par.face \subseteq {"detect", "recognize"}

\* What getParameters() tells of a setting with a table is what the daemon has,
\* through refused batches and batches started in between.
BackendAgrees ==
    \A k \in Keys \cap ({"effect", "zoom", "autoExposure", "iso", "aecLock", "scene"} \cup Controls) :
        \/ backend[k] = par.map[k]
        \/ k = "scene" /\ HdrKind = "sensor" /\ par.map.scene = "hdr"   \* the sensor is told, not the scene's mode

\* The daemon's flash is what the scene and the brackets leave of the client's.
LedRight == backend.led = Led(par) /\ backend.led = par.led

\* The torch is held exactly while the stored mode is torch.
TorchHeld == par.torch <=> par.map.flash = "torch"

\* The daemon looks for the faces the mask names.
FacesRight == backend.fd = par.face

\* The streams the mode runs, and their sizes.
Dims(s) ==
    [preview |-> s.map.previewSize,
     snapshot |-> IF s.hint THEN s.live ELSE IF s.zsl THEN s.map.pictureSize ELSE None,
     video |-> IF s.hint THEN s.map.videoSize ELSE None]

\* An update that needs no restart leaves every running stream its size.
KeepsDims == event'.call = "accepted" /\ ~par'.restart => Dims(par') = Dims(par)
NoSilentResize == [][KeepsDims]_vars

\* The same parameters once more change nothing, so that the preview goes on.
KeepsQuiet ==
    event.call = "accepted" /\ event'.call = "accepted" /\ event'.asked = event.asked
        => par'.map = par.map /\ ~par'.restart
RepeatIsQuiet == [][KeepsQuiet]_vars

\* The video rate of the range in force is the high rate that is set.
VideoRateRight ==
    event.call = "accepted" =>
        par.hfrFps = (IF par.map.hsr = "on" THEN "120"
                      ELSE IF par.map.hfr = "60" THEN "60" ELSE "0")

\* "if preview needs restart after parameters updated": the stream's format too.
NoSilentFormat ==
    [][event'.call = "accepted" /\ ~par'.restart
        => par'.map.previewFormat = par.map.previewFormat]_vars

\* "if AVTimer is enabled".
AVTimerAsSet == par.vt => par.map.vt = "enable"

\* "set high speed recording value from user setting".
HsrInForce == par.map.hsr = "on" => backend.hfr = "120"
================================================================================
