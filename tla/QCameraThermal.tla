----------------------------- MODULE QCameraThermal -----------------------------
(***************************************************************************)
(* The thermal adapter and what its reports do: the singleton                *)
(* QCameraThermalAdapter registers two callbacks with the thermal client     *)
(* library, whose thread calls the camera that is open; the camera queues    *)
(* the level for its state machine, which lowers the frame rate or skips     *)
(* frames, and the frame rates the application sets are lowered by the last  *)
(* level.  Rates are in thousandths of a frame per second.                   *)
(***************************************************************************)
EXTENDS Naturals, Sequences, SequencesExt, FiniteSets

CONSTANTS
    Cameras,        \* camera devices
    Ranges,         \* <<min, max>> preview ranges the application may set
    HfrRange,       \* m_hfrFpsRange in high frame rate mode, <<>> if it is off
    LowestRate,     \* the smallest min_fps of fps_ranges_tbl
    Mode,           \* getThermalMode()
    MaxReports,     \* bound: levels the client reports
    MaxOpens        \* bound: openCamera() calls

ThermalAssumption ==
    /\ Cameras \subseteq Nat \ {0} /\ Cameras # {}
    /\ Ranges # {} /\ \A r \in Ranges : r \in Nat \X Nat /\ 1000 <= r[1] /\ r[1] <= r[2]
    /\ HfrRange = <<>> \/ HfrRange \in Nat \X Nat
    /\ LowestRate \in Nat /\ LowestRate >= 1000
    /\ Mode \in {"fps", "frameskip"}
    /\ MaxReports \in Nat /\ MaxOpens \in Nat

Levels == {"NO_ADJUSTMENT", "SLIGHT_ADJUSTMENT", "BIG_ADJUSTMENT", "SHUTDOWN"}
None == 0

VARIABLES
    adapter,    \* the singleton: mCallback, mHandle, mRegister, the two handles
    client,     \* handles registered with the thermal client library
    given,      \* how many handles it has given
    call,       \* the client's thread: the callback it is in
    cams,       \* each QCamera2HardwareInterface
    reported,   \* history: the last level a callback gave each open camera
    reports, opens \* bounds

vars == <<adapter, client, given, call, cams, reported, reports, opens>>

NoAdapter == [mCallback |-> None, mHandle |-> FALSE, syms |-> FALSE,
              mCameraHandle |-> None, mCamcorderHandle |-> None]
Closed == [open |-> FALSE, state |-> "PREVIEW_STOPPED", queue |-> <<>>,
           level |-> "NO_ADJUSTMENT", fps |-> <<>>, sent |-> <<>>, skip |-> "NO_SKIP"]
Idle == [handle |-> None, level |-> "NO_ADJUSTMENT", target |-> None]

Init ==
    /\ adapter = NoAdapter /\ client = {} /\ given = 0 /\ call = Idle
    /\ cams = [c \in Cameras |-> Closed]
    /\ reported = [c \in Cameras |-> "NO_ADJUSTMENT"] /\ reports = 0 /\ opens = 0
--------------------------------------------------------------------------------
\* calcThermalLevel(): preview and video range, and the skip pattern, of a level.
AtLeastOne(x) == IF x < 1000 THEN 1000 ELSE x
Less(r, tenths) == [i \in 1..2 |-> AtLeastOne(r[i] - (tenths * r[i]) \div 10)]
Lowest(r) == LET low == IF LowestRate < r[1] THEN LowestRate ELSE r[1] IN <<low, low>>
\* initially the video range is that of the preview
VideoRange(r) == IF HfrRange = <<>> THEN r ELSE HfrRange
calcThermalLevel(level, r) ==
    CASE level = "NO_ADJUSTMENT" -> [fps |-> r, video |-> VideoRange(r), skip |-> "NO_SKIP"]
      [] level = "SLIGHT_ADJUSTMENT" ->
            [fps |-> Less(r, 1), video |-> Less(VideoRange(r), 1), skip |-> "EVERY_2FRAME"]
      [] level = "BIG_ADJUSTMENT" ->
            [fps |-> Less(r, 2), video |-> Less(VideoRange(r), 2), skip |-> "EVERY_4FRAME"]
      [] level = "SHUTDOWN" -> [fps |-> Lowest(r), video |-> Lowest(r), skip |-> "MAX_SKIP"]
\* recalcFPSRange() returns its ranges in int: whole frames per second.
Whole(r) == [i \in 1..2 |-> (r[i] \div 1000) * 1000]
recalcFPSRange(level, r) ==
    LET adjusted == calcThermalLevel(level, r)
    IN  [fps |-> Whole(adjusted.fps), video |-> Whole(adjusted.video)]
\* setPreviewFpsRange(), adjustPreviewFpsRange(): what the backend is sent
Send(cam, adjusted) == [cam EXCEPT !.sent = <<adjusted.fps, adjusted.video>>]
--------------------------------------------------------------------------------
\* QCameraThermalAdapter::init(): what fails, and what stays then.
Fresh(n) == {given + i : i \in 1..n}
LibraryMissing(c) == adapter' = [adapter EXCEPT !.mHandle = FALSE, !.mCameraHandle = None]
                     /\ UNCHANGED <<client, given>>
\* error2 leaves mCallback and the functions of the library that is closed.
RegisterFails(c) ==
    /\ adapter' = [NoAdapter EXCEPT !.mCallback = c, !.syms = TRUE,
                                    !.mCamcorderHandle = adapter.mCamcorderHandle]
    /\ UNCHANGED <<client, given>>
\* error3 undoes the first registration.
SecondFails(c) ==
    /\ adapter' = [NoAdapter EXCEPT !.mCallback = c, !.syms = TRUE]
    /\ client' = client /\ given' = given + 1
init(c) ==
    \/ LibraryMissing(c) \/ RegisterFails(c) \/ SecondFails(c)
    \/ /\ adapter' = [mCallback |-> c, mHandle |-> TRUE, syms |-> TRUE,
                      mCameraHandle |-> given + 1, mCamcorderHandle |-> given + 2]
       /\ client' = client \cup Fresh(2) /\ given' = given + 2

\* openCamera(): a failing thermal adapter does not matter.
openCamera(c) ==
    /\ opens < MaxOpens /\ opens' = opens + 1 /\ ~cams[c].open
    /\ \A d \in Cameras : ~cams[d].open        \* one camera at a time
    /\ \E r \in Ranges : cams' =
          [cams EXCEPT ![c] = Send([Closed EXCEPT !.open = TRUE, !.fps = r],
                                   recalcFPSRange("NO_ADJUSTMENT", r))]
    /\ reported' = [reported EXCEPT ![c] = "NO_ADJUSTMENT"]
    /\ init(c) /\ UNCHANGED <<call, reports>>

\* Mutant: the second registration is forgotten.
HalfUnregistered == {adapter.mCameraHandle}
\* what deinit() unregisters, if it has the function
Unregistered == IF adapter.syms THEN {adapter.mCameraHandle, adapter.mCamcorderHandle} ELSE {}
\* deinit(): the client waits for a callback that is running before it forgets it.
deinit ==
    /\ call.handle \notin Unregistered \ {None}
    /\ client' = client \ Unregistered /\ adapter' = NoAdapter
\* closeCamera(); the interface is deleted, with the events its machine has not seen.
closeCamera(c) ==
    /\ cams[c].open /\ deinit
    /\ cams' = [cams EXCEPT ![c] = Closed]
    /\ UNCHANGED <<given, call, reported, reports, opens>>
--------------------------------------------------------------------------------
\* thermalCallback(), in two steps: which camera is it for,
ReportLevel ==
    /\ reports < MaxReports /\ reports' = reports + 1 /\ call.handle = None
    /\ \E h \in client, l \in Levels :
          call' = [handle |-> h, level |-> l, target |-> adapter.mCallback]
    /\ UNCHANGED <<adapter, client, given, cams, reported, opens>>
\* and thermalEvtHandle() of that camera, which queues the level.
thermalEvtHandle ==
    /\ call.handle # None /\ call' = Idle
    /\ IF call.target # None /\ cams[call.target].open
       THEN /\ cams' = [cams EXCEPT ![call.target].queue = Append(@, call.level)]
            /\ reported' = [reported EXCEPT ![call.target] = call.level]
       ELSE UNCHANGED <<cams, reported>>
    /\ UNCHANGED <<adapter, client, given, reports, opens>>

\* updateThermalLevel(): the level, and the measure of the mode.
updateThermalLevel(cam, level) ==
    LET adjusted == calcThermalLevel(level, cam.fps)
        known == [cam EXCEPT !.level = level]
    IN  IF Mode = "fps" THEN Send(known, adjusted) ELSE [known EXCEPT !.skip = adjusted.skip]
\* the states whose handler has nothing for THERMAL_NOTIFY
Drops == {"PREVIEW_READY", "PREPARE_SNAPSHOT"}
States == {"PREVIEW_STOPPED", "PREVIEW_READY", "PREVIEWING", "PREPARE_SNAPSHOT", "PIC_TAKING"}
\* THERMAL_NOTIFY in the state the machine is in
procThermalNotify(c) ==
    /\ cams[c].open /\ cams[c].queue # <<>>
    /\ LET cam == [cams[c] EXCEPT !.queue = Tail(@)] level == Head(cams[c].queue)
       IN  cams' = [cams EXCEPT ![c] = IF cam.state \in Drops THEN cam
                                       ELSE updateThermalLevel(cam, level)]
    /\ UNCHANGED <<adapter, client, given, call, reported, reports, opens>>

\* set_parameters(): setPreviewFpsRange(), which asks m_AdjustFPS
setPreviewFpsRange(c) ==
    /\ cams[c].open
    /\ \E r \in Ranges \ {cams[c].fps} :
          cams' = [cams EXCEPT ![c] = Send([@ EXCEPT !.fps = r], recalcFPSRange(@.level, r))]
    /\ UNCHANGED <<adapter, client, given, call, reported, reports, opens>>
\* The other commands, by the state they lead to.
OtherCommand(c) ==
    /\ cams[c].open /\ \E s \in States : s # cams[c].state /\ cams' = [cams EXCEPT ![c].state = s]
    /\ UNCHANGED <<adapter, client, given, call, reported, reports, opens>>

Next == \/ ReportLevel \/ thermalEvtHandle
        \/ \E c \in Cameras : openCamera(c) \/ closeCamera(c) \/ procThermalNotify(c)
                              \/ setPreviewFpsRange(c) \/ OtherCommand(c)
Spec == Init /\ [][Next]_vars
--------------------------------------------------------------------------------
TypeOK ==
    /\ adapter.mCallback \in Cameras \cup {None} /\ client \subseteq 1..given
    /\ call.level \in Levels /\ call.target \in Cameras \cup {None}
    /\ \A c \in Cameras : /\ cams[c].level \in Levels /\ cams[c].state \in States
                          /\ cams[c].fps \in Ranges \cup {<<>>}
                          /\ cams[c].open => \A r \in ToSet(cams[c].sent) : r[1] >= 1000 /\ r[1] <= r[2]
                          /\ cams[c].skip \in {"NO_SKIP", "EVERY_2FRAME", "EVERY_4FRAME", "MAX_SKIP"}

\* No callback reaches a camera that was closed and deleted: closeCamera() has
\* taken back what init() registered, all of it (deinit(), error2, error3).
NoCallAfterClose == call.target # None => cams[call.target].open

\* The client has no callback of an adapter that closed its library (init() and
\* deinit() of the singleton).
LibraryThere == client # {} => adapter.mHandle

\* The frame rate in force, in whole frames, is the one of the last level that was
\* seen for the last range that was set, in whichever order they came
\* (updateThermalLevel() against setPreviewFpsRange()).
RangeFollowsLevel == \A c \in Cameras : cams[c].open =>
    LET expected == calcThermalLevel(cams[c].level, cams[c].fps)
    IN  Whole(cams[c].sent[1]) = Whole(expected.fps) /\ Whole(cams[c].sent[2]) = Whole(expected.video)

\* When the device has cooled down the application has the rate it set, in the
\* mode that lowers rates and in the one that skips frames (calcThermalLevel()).
CooledDown == \A c \in Cameras : (cams[c].open /\ cams[c].level = "NO_ADJUSTMENT") =>
    Whole(cams[c].sent[1]) = Whole(cams[c].fps) /\ cams[c].skip = "NO_SKIP"

\* Once its events are handled a camera goes by the last level reported to it
\* (mThermalLevel in recalcFPSRange()),
LastLevelKnown == \A c \in Cameras : (cams[c].open /\ cams[c].queue = <<>>) =>
    cams[c].level = reported[c]
\* but for a level that came where the state machine does not take it.
TakenLevelKnown == [][\A c \in Cameras :
    (cams[c].open /\ cams'[c].open /\ cams[c].state \in {"PREVIEW_STOPPED", "PREVIEWING", "PIC_TAKING"}
        /\ Len(cams'[c].queue) < Len(cams[c].queue)) =>
    cams'[c].level = Head(cams[c].queue)]_vars
================================================================================
