----------------------------- MODULE QCameraFlash -----------------------------
(***************************************************************************)
(* The torch of the camera module: the module's calls (QCamera2Factory) with*)
(* HAL3 enabled, the flash units (QCameraFlash) and who has them, a HAL3    *)
(* device that opens and closes (QCamera3HardwareInterface), and what the   *)
(* framework is told of the torch.                                          *)
(*                                                                         *)
(* A call is one step: the camera service holds its lock around the module's*)
(* calls.  It sets its callbacks first and opens a camera once at a time.   *)
(***************************************************************************)
EXTENDS Naturals, FiniteSets

CONSTANTS
    Cameras,        \* ids below get_number_of_cameras()
    WithFlash,      \* the cameras that have a flash unit
    Faults          \* the calls that may fail

FaultKinds == {"query",     \* initCapabilities()
               "init",      \* open of the node or LED_INIT
               "on", "off", \* LED_LOW, LED_OFF
               "camera",    \* camera_open()
               "register"}  \* register_event_notify()

FlashAssumption == WithFlash \subseteq Cameras /\ Faults \subseteq FaultKinds

VARIABLES
    gCamCapability,  \* cameras whose capabilities are known
    flash,           \* of QCameraFlash: [fd, on, cameraOpen]
    led,             \* the light itself
    device,          \* a QCamera3HardwareInterface is open
    status           \* what torch_mode_status_change() told last

vars == <<gCamCapability, flash, led, device, status>>

Statuses == {"AVAILABLE_OFF", "AVAILABLE_ON", "NOT_AVAILABLE"}

TypeOK ==
    /\ gCamCapability \subseteq Cameras /\ device \subseteq Cameras
    /\ flash \in [Cameras -> [fd : BOOLEAN, on : BOOLEAN, cameraOpen : BOOLEAN]]
    /\ led \in [Cameras -> BOOLEAN] /\ status \in [Cameras -> Statuses]

Init ==
    /\ gCamCapability = {} /\ device = {}
    /\ flash = [c \in Cameras |-> [fd |-> FALSE, on |-> FALSE, cameraOpen |-> FALSE]]
    /\ led = [c \in Cameras |-> FALSE]
    /\ status = [c \in Cameras |-> "AVAILABLE_OFF"]

May(kind) == IF kind \in Faults THEN BOOLEAN ELSE {TRUE}

\* getFlashInfo(): no capabilities, no flash.
hasFlash(c) == c \in gCamCapability /\ c \in WithFlash

tell(c, s) == status' = [status EXCEPT ![c] = s]

\* What the HAL knows after initCapabilities().
known(c, ok) == IF ok THEN gCamCapability \cup {c} ELSE gCamCapability

\* getCamInfo(): initCapabilities() the first time, and again after a failure.
getCamInfo(c) ==
    \E ok \in May("query") :
        /\ c \notin gCamCapability
        /\ gCamCapability' = known(c, ok)
        /\ UNCHANGED <<flash, led, device, status>>

-----------------------------------------------------------------------------
(* QCameraFlash, on the record of a flash unit and its light.               *)

State(c) == [fd |-> flash[c].fd, on |-> flash[c].on, cameraOpen |-> flash[c].cameraOpen,
             led |-> led[c]]

Becomes(c, s) ==
    /\ flash' = [flash EXCEPT ![c] = [fd |-> s.fd, on |-> s.on, cameraOpen |-> s.cameraOpen]]
    /\ led' = [led EXCEPT ![c] = s.led]

setFlashMode(s, mode, ok) ==
    IF s.on = mode \/ ~s.fd \/ ~ok THEN s ELSE [s EXCEPT !.on = mode, !.led = mode]

\* The node is closed whether the LED could be switched off or not; LED_RELEASE
\* switches it off at last.
deinitFlash(s, ok) ==
    IF s.fd THEN [setFlashMode(s, FALSE, ok) EXCEPT !.fd = FALSE, !.led = FALSE] ELSE s

\* A unit that is not lit is left as it is.
reserved(s, ok) ==
    [IF s.on THEN deinitFlash(setFlashMode(s, FALSE, ok), ok) ELSE s
     EXCEPT !.cameraOpen = TRUE]

released(s) == [s EXCEPT !.cameraOpen = FALSE]

-----------------------------------------------------------------------------
(* The calls of the framework.                                              *)

\* initFlash() gives the unit to the torch.
initFlash(c) == ~flash[c].cameraOpen

torchOn(c) ==
    \E inited \in May("init"), ok \in May("on") :
        LET s == [State(c) EXCEPT !.fd = TRUE]
            t == setFlashMode(s, TRUE, ok)
        IN /\ hasFlash(c) /\ initFlash(c) /\ (flash[c].fd \/ inited)
           /\ Becomes(c, t)
           /\ IF ~s.on /\ t.on THEN tell(c, "AVAILABLE_ON") ELSE UNCHANGED status
           /\ UNCHANGED <<gCamCapability, device>>

saysOff(c) == tell(c, "AVAILABLE_OFF")

torchOff(c) ==
    \E ok \in May("off") :
        LET s == setFlashMode(State(c), FALSE, ok)
        IN /\ flash[c].on /\ flash[c].fd
           /\ IF s.on THEN Becomes(c, s) /\ UNCHANGED status
              ELSE Becomes(c, deinitFlash(s, ok)) /\ saysOff(c)
           /\ UNCHANGED <<gCamCapability, device>>

\* cameraDeviceOpen(), openCamera(): the flash first.  A device that could not
\* register for events is deleted, and its destructor closes the camera.
openCamera(c) ==
    \E opened \in May("camera"), registered \in May("register"), ok \in May("off") :
        LET s == reserved(State(c), ok)
            closed == opened /\ ~registered
        IN /\ c \notin device /\ c \in gCamCapability
           /\ Becomes(c, IF closed THEN released(s) ELSE s)
           /\ device' = IF opened /\ registered THEN device \cup {c} ELSE device
           /\ IF ~hasFlash(c) THEN UNCHANGED status
              ELSE IF closed THEN tell(c, "AVAILABLE_OFF")
              ELSE IF flash[c].cameraOpen THEN UNCHANGED status
              ELSE tell(c, "NOT_AVAILABLE")
           /\ UNCHANGED gCamCapability

closeCamera(c) ==
    /\ c \in device /\ device' = device \ {c}
    /\ Becomes(c, released(State(c)))
    /\ IF hasFlash(c) THEN tell(c, "AVAILABLE_OFF") ELSE UNCHANGED status
    /\ UNCHANGED gCamCapability

Next ==
    \E c \in Cameras :
        getCamInfo(c) \/ torchOn(c) \/ torchOff(c) \/ openCamera(c) \/ closeCamera(c)

Spec == Init /\ [][Next]_vars

-----------------------------------------------------------------------------
\* "Give control of the flash to the camera": a camera that has its flash
\* does not share it with a torch that is lit or holds the node.
Exclusive == \A c \in Cameras : flash[c].cameraOpen => ~flash[c].fd /\ ~led[c]

\* "-EBUSY: The flash unit or the resource needed to turn on the flash is busy,
\* typically because the flash is already in use": a flash is reserved exactly
\* while its camera is open.
BusyMeansOpen == \A c \in Cameras : flash[c].cameraOpen <=> c \in device

\* "Flash is already on, so treat this as a success": a flash believed to be
\* on is on, and one believed to be off is off.
FlagIsLight == \A c \in Cameras : flash[c].on = led[c]

\* What the framework was told last is how things are, whatever failed on the
\* way and however torch calls and cameras follow each other.
StatusRight ==
    \A c \in WithFlash \cap gCamCapability :
        status[c] = IF c \in device THEN "NOT_AVAILABLE"
                    ELSE IF led[c] THEN "AVAILABLE_ON" ELSE "AVAILABLE_OFF"

=============================================================================
