--------------------------- MODULE QCamera3Buffers ---------------------------
(***************************************************************************)
(* How one output stream of the HAL3 passes the framework's buffers to the *)
(* sensor and back: the slots of QCamera3GrallocMemory, the buffer         *)
(* definitions of QCamera3Stream, and the three threads that use them -    *)
(* the one in QCamera3RegularChannel::request(), the stream's data thread  *)
(* in streamCbRoutine(), and one that stops and restarts the channel for   *)
(* flush(), which lets no request in meanwhile.                            *)
(*                                                                         *)
(* A call under the lock of the memory or of the stream is one step; what  *)
(* the routines do between two of them is not.  A handle is identified by  *)
(* its buffer, and the framework asks for a buffer again only after it had *)
(* it back.                                                                *)
(***************************************************************************)
EXTENDS Integers, Sequences, FiniteSets, SequencesExt

CONSTANTS
    Buffers,        \* handles of the framework
    Slots,          \* MM_CAMERA_MAX_NUM_FRAMES
    MaxFrame,       \* bound: requests of a behaviour
    MaxStops,       \* bound: stops of a behaviour
    Faults,         \* of {"init", "import", "map", "unmap"}
    SlowSensor      \* no frame is ready before its request() returned

NoBuf == 0          \* a slot without a handle
BuffersAssumption == Slots \in Nat \ {0} /\ MaxFrame \in Nat /\ NoBuf \notin Buffers

Slot == 0 .. Slots - 1
NumBufs == Slots    \* mNumBufs, CAM_MAX_NUM_BUFS_PER_STREAM

VARIABLES
    made,           \* m_numStreams
    active,         \* m_bIsActive
    handle,         \* mBufferHandle
    reg,            \* the slots with memory: mMemInfo[].handle
    number,         \* mCurrentFrameNumbers
    defs,           \* mBufDefs: <<>> for NULL, or slot -> buffer described
    mapped,         \* the slots the daemon has mapped
    driver,         \* [slot, buf] queued with qbuf()
    queueing, dataQ,  \* mDataQ: whether it is active, and the slots in it
    req,            \* the thread in request(): [pc, buf, slot, late]
    cb,             \* the data thread: [pc, slot, buf, number]
    halt,           \* where the thread that stops the channel is
    held,           \* [buf, frame] the framework asked for and has not back
    next,           \* the next frame number
    stops,          \* stops so far
    results         \* what mChannelCB was given

memVars == <<handle, reg, number>>
strVars == <<defs, mapped, driver, queueing, dataQ>>
chVars == <<made, active>>
envVars == <<held, next, stops, results>>
vars == <<memVars, strVars, chVars, req, cb, halt, envVars>>

Idle == [pc |-> "idle", buf |-> NoBuf, slot |-> -1, late |-> FALSE]
NoCb == [pc |-> "idle", slot |-> -1, buf |-> NoBuf, number |-> -1]
Cnt == Cardinality(reg)

Init ==
    /\ made = FALSE /\ active = FALSE
    /\ handle = [s \in Slot |-> NoBuf] /\ reg = {} /\ number = [s \in Slot |-> -1]
    /\ defs = <<>> /\ mapped = {} /\ driver = {} /\ queueing = TRUE /\ dataQ = <<>>
    /\ req = Idle /\ cb = NoCb /\ halt = "idle"
    /\ held = {} /\ next = 0 /\ stops = 0 /\ results = <<>>

MayFail(f) == f \in Faults

-----------------------------------------------------------------------------
(* Slots of the memory *)

getMatchBufIndex(buf) == IF \E s \in Slot : handle[s] = buf
                         THEN CHOOSE s \in Slot :
                                handle[s] = buf /\ \A t \in Slot : handle[t] = buf => s <= t
                         ELSE -1
Full == Cnt >= Slots - 1
getFreeIndexLocked == CHOOSE s \in Slot \ reg : \A t \in Slot \ reg : s <= t

\* initialize() makes the stream, of a format and rotation it can stream and that
\* the interface accepts.
initialize == made' = TRUE
initializeFails == ~made /\ MayFail("init") /\ UNCHANGED made

-----------------------------------------------------------------------------
(* request() *)

requestEnds(ok, h) == req' = Idle /\ held' = IF ok THEN h ELSE {r \in h : r.buf # req.buf}

\* A request looks at m_bIsActive first.
Ask(b) ==
    /\ req.pc = "idle" /\ halt = "idle" /\ next < MaxFrame /\ \A r \in held : r.buf # b
    /\ held' = held \cup {[buf |-> b, frame |-> next]} /\ next' = next + 1
    /\ req' = [pc |-> IF active THEN "match" ELSE "register", buf |-> b, slot |-> -1,
               late |-> ~active]
    /\ UNCHANGED <<memVars, strVars, chVars, cb, halt, stops, results>>

\* A buffer that is known, or was refused memory before, is not registered again.
\* The handle is set first and stays when the import or the mapping fails.
registerBuffer ==
    /\ req.pc = "register"
    /\ \/ /\ Cnt > NumBufs - 1
          /\ requestEnds(FALSE, held) /\ UNCHANGED <<made, memVars>>
       \/ /\ Cnt <= NumBufs - 1 /\ initializeFails
          /\ requestEnds(FALSE, held) /\ UNCHANGED memVars
       \/ /\ Cnt <= NumBufs - 1 /\ initialize
          /\ \/ /\ getMatchBufIndex(req.buf) >= 0
                /\ req' = [req EXCEPT !.pc = IF req.late THEN "start" ELSE "found"]
                /\ UNCHANGED <<memVars, held>>
             \/ /\ getMatchBufIndex(req.buf) < 0 /\ Full
                /\ requestEnds(FALSE, held) /\ UNCHANGED memVars
             \/ /\ getMatchBufIndex(req.buf) < 0 /\ ~Full
                /\ handle' = [handle EXCEPT ![getFreeIndexLocked] = req.buf]
                /\ \/ /\ reg' = reg \cup {getFreeIndexLocked} /\ UNCHANGED held
                      /\ req' = [req EXCEPT !.pc = IF req.late THEN "start" ELSE "found"]
                   \/ /\ MayFail("import") /\ requestEnds(FALSE, held) /\ UNCHANGED reg
                /\ UNCHANGED number
    /\ UNCHANGED <<strVars, active, cb, halt, next, stops, results>>

\* start_channel() has getBufs() map and describe what is registered; when a
\* mapping fails, those before it are taken back.
getBufs ==
    /\ mapped' = mapped \cup reg
    /\ defs' = [s \in Slot |-> IF s \in reg THEN handle[s] ELSE NoBuf]

getBufsFails ==
    /\ MayFail("map")
    /\ UNCHANGED <<mapped, defs>>

startChannel == getBufs /\ active' = TRUE /\ queueing' = TRUE
startFails == getBufsFails /\ queueing' = FALSE /\ UNCHANGED active

start ==
    /\ req.pc = "start"
    /\ \/ /\ Cnt = 0 \/ active
          /\ req' = [req EXCEPT !.pc = "match"] /\ UNCHANGED <<mapped, defs, active, queueing, held>>
       \/ /\ Cnt > 0 /\ ~active /\ startChannel
          /\ req' = [req EXCEPT !.pc = "match"] /\ UNCHANGED held
       \/ /\ Cnt > 0 /\ ~active /\ startFails /\ requestEnds(FALSE, held)
    /\ UNCHANGED <<memVars, driver, dataQ, made, cb, halt, next, stops, results>>

match ==
    /\ req.pc = "match"
    /\ LET s == getMatchBufIndex(req.buf)
       IN req' = [req EXCEPT !.pc = IF s < 0 THEN "register" ELSE "bufDone",
                             !.slot = s, !.late = FALSE]
    /\ UNCHANGED <<memVars, strVars, chVars, cb, halt, envVars>>

\* After registering: a slot that is gone again ends the request.
found ==
    /\ req.pc = "found"
    /\ LET s == getMatchBufIndex(req.buf)
       IN IF s < 0 THEN requestEnds(FALSE, held)
          ELSE req' = [req EXCEPT !.pc = "bufDone", !.slot = s] /\ UNCHANGED held
    /\ UNCHANGED <<memVars, strVars, chVars, cb, halt, next, stops, results>>

\* QCamera3Stream::bufDone(): a slot not described yet is mapped and described.
CanQueue(s) == defs # <<>> /\ (defs[s] # NoBuf \/ Cnt > 0)
Describe(s) == IF defs[s] # NoBuf THEN defs ELSE [defs EXCEPT ![s] = handle[s]]
qbuf(s) == driver \cup {[slot |-> s, buf |-> Describe(s)[s]]}

bufDone ==
    /\ req.pc = "bufDone"
    /\ \/ /\ CanQueue(req.slot)
          /\ defs' = Describe(req.slot) /\ mapped' = mapped \cup {req.slot}
          /\ driver' = qbuf(req.slot)
          /\ req' = [req EXCEPT !.pc = "mark"] /\ UNCHANGED held
       \/ /\ ~CanQueue(req.slot) \/ (defs[req.slot] = NoBuf /\ MayFail("map"))
          /\ requestEnds(FALSE, held) /\ UNCHANGED <<defs, mapped, driver>>
    /\ UNCHANGED <<memVars, queueing, dataQ, chVars, cb, halt, next, stops, results>>

\* The frame number is noted after the buffer was queued, under another lock.
FrameOf(b) == (CHOOSE r \in held : r.buf = b).frame
\* Mutant: a slot that has a number keeps it.
markOnce(s, frame) == IF s \in reg /\ number[s] = -1 THEN [number EXCEPT ![s] = frame] ELSE number
mark(s, frame) == IF s \in reg THEN [number EXCEPT ![s] = frame] ELSE number

markFrameNumber ==
    /\ req.pc = "mark"
    /\ number' = IF \E r \in held : r.buf = req.buf THEN mark(req.slot, FrameOf(req.buf)) ELSE number
    /\ requestEnds(req.slot \in reg, held)
    /\ UNCHANGED <<handle, reg, strVars, chVars, cb, halt, next, stops, results>>

-----------------------------------------------------------------------------
(* A frame on its way back *)

Ready(d) == SlowSensor => ~(req.pc = "mark" /\ req.slot = d.slot)

\* dataNotifyCB() of the poll thread; a queue that was flushed takes nothing, and
\* the frame goes back to the sensor.
processDataNotify(d) ==
    /\ d \in driver /\ Ready(d) /\ active
    /\ IF queueing
       THEN dataQ' = Append(dataQ, d.slot) /\ driver' = driver \ {d}
       ELSE UNCHANGED <<dataQ, driver>>
    /\ UNCHANGED <<memVars, defs, mapped, queueing, chVars, req, cb, halt, envVars>>

dataProcRoutine ==
    /\ cb.pc = "idle" /\ dataQ # <<>> /\ halt \in {"idle", "exit"} /\ queueing
    /\ cb' = [NoCb EXCEPT !.pc = "look", !.slot = Head(dataQ)] /\ dataQ' = Tail(dataQ)
    /\ UNCHANGED <<memVars, defs, mapped, driver, queueing, chVars, req, halt, envVars>>

\* streamCbRoutine() notes whose buffer it is before it gives up the slot.
Look ==
    /\ cb.pc = "look"
    /\ cb' = [cb EXCEPT !.pc = "release", !.buf = handle[cb.slot],
                        !.number = IF cb.slot \in reg THEN number[cb.slot] ELSE -1]
    /\ UNCHANGED <<memVars, strVars, chVars, req, halt, envVars>>

Forget(s) == IF defs = <<>> THEN defs ELSE [defs EXCEPT ![s] = NoBuf]

\* When the daemon does not unmap, the slot stays described and mapped, and the
\* callback goes on.
bufRelease ==
    /\ cb.pc = "release"
    /\ \/ /\ defs' = Forget(cb.slot)
          /\ mapped' = IF defs # <<>> /\ defs[cb.slot] # NoBuf THEN mapped \ {cb.slot} ELSE mapped
       \/ MayFail("unmap") /\ UNCHANGED <<defs, mapped>>
    /\ cb' = [cb EXCEPT !.pc = "unregister"]
    /\ UNCHANGED <<memVars, driver, queueing, dataQ, chVars, req, halt, envVars>>

Unregister(s) == reg' = reg \ {s} /\ handle' = IF s \in reg THEN [handle EXCEPT ![s] = NoBuf] ELSE handle

unregisterBuffer ==
    /\ cb.pc = "unregister" /\ Unregister(cb.slot)
    /\ cb' = [cb EXCEPT !.pc = "callback"]
    /\ UNCHANGED <<number, strVars, chVars, req, halt, envVars>>

\* Mutant: 0 is taken for no number.
NumberIsSet(n) == n > 0
HasNumber(n) == n >= 0

\* A buffer without a frame number is not returned at all.
mChannelCB ==
    /\ cb.pc = "callback" /\ cb' = NoCb
    /\ IF HasNumber(cb.number)
       THEN /\ results' = Append(results, [buf |-> cb.buf, frame |-> cb.number])
            /\ held' = held \ {[buf |-> cb.buf, frame |-> cb.number]}
       ELSE UNCHANGED <<results, held>>
    /\ UNCHANGED <<memVars, strVars, chVars, req, halt, next, stops>>

-----------------------------------------------------------------------------
(* Stopping and starting again, as flush() does *)

Stop ==
    /\ halt = "idle" /\ stops < MaxStops /\ req.pc = "idle"
    /\ halt' = (IF active THEN "exit" ELSE "restart") /\ stops' = stops + 1
    /\ UNCHANGED <<memVars, strVars, chVars, req, cb, held, next, results>>

\* The data thread ends after its callback and gives what is queued to bufDone().
Exits ==
    /\ halt = "exit" /\ cb.pc = "idle" /\ halt' = "stop"
    /\ queueing' = FALSE /\ dataQ' = <<>>
    /\ driver' = driver \cup {[slot |-> s, buf |-> defs[s]] : s \in ToSet(dataQ)}
    /\ UNCHANGED <<memVars, defs, mapped, chVars, req, cb, envVars>>

\* stop_channel() and, from it, putBufs() and unregisterBuffers().
unregisterBuffers ==
    /\ reg' = {} /\ handle' = [s \in Slot |-> IF s \in reg THEN NoBuf ELSE handle[s]]

putBufs ==
    /\ halt = "stop" /\ halt' = "restart" /\ active' = FALSE
    /\ driver' = {} /\ defs' = <<>> /\ mapped' = {}
    /\ unregisterBuffers
    /\ UNCHANGED <<number, queueing, dataQ, made, req, cb, envVars>>

\* Every buffer the HAL knows of goes back with an error, and the channel starts
\* again if it still has buffers.
Restart ==
    /\ halt = "restart" /\ halt' = "idle" /\ held' = {}
    /\ \/ Cnt = 0 /\ UNCHANGED <<mapped, defs, active, queueing>>
       \/ Cnt > 0 /\ startChannel
       \/ Cnt > 0 /\ startFails
    /\ UNCHANGED <<memVars, driver, dataQ, made, req, cb, next, stops, results>>

Return == registerBuffer \/ start \/ match \/ found \/ bufDone \/ markFrameNumber
Back == dataProcRoutine \/ Look \/ bufRelease \/ unregisterBuffer \/ mChannelCB
Next == \/ \E b \in Buffers : Ask(b)
        \/ Return \/ Back
        \/ \E d \in driver : processDataNotify(d)
        \/ Stop \/ Exits \/ putBufs \/ Restart

Spec == Init /\ [][Next]_vars

\* The sensor fills what it was given and every thread runs.
Fairness ==
    /\ WF_vars(Return) /\ WF_vars(Back)
    /\ WF_vars(Exits \/ putBufs \/ Restart)
    /\ \A d \in [slot : Slot, buf : Buffers] : WF_vars(processDataNotify(d))
FairSpec == Spec /\ Fairness

-----------------------------------------------------------------------------
(* Properties *)

TypeOK ==
    /\ made \in BOOLEAN /\ active \in BOOLEAN /\ queueing \in BOOLEAN
    /\ handle \in [Slot -> Buffers \cup {NoBuf}] /\ reg \subseteq Slot
    /\ number \in [Slot -> -1 .. MaxFrame - 1]
    /\ defs = <<>> \/ defs \in [Slot -> Buffers \cup {NoBuf}]
    /\ mapped \subseteq Slot /\ driver \subseteq [slot : Slot, buf : Buffers]
    /\ req.pc \in {"idle", "register", "start", "match", "found", "bufDone", "mark"}
    /\ cb.pc \in {"idle", "look", "release", "unregister", "callback"}
    /\ halt \in {"idle", "exit", "stop", "restart"}
    /\ held \subseteq [buf : Buffers, frame : 0 .. MaxFrame - 1]

\* The sensor writes into the buffer that is registered in the slot, whatever slots
\* were given up and taken again: bufDone() describes a slot only when streamCbRoutine()
\* has undescribed it, and the callback gives the slot up in that order.
DriverHasRight ==
    \A d \in driver : d.slot \in reg /\ handle[d.slot] = d.buf

\* A buffer goes back once, with the number of the frame it was asked for, though its
\* slot had another number before and the number is noted after the buffer was queued.
RightNumber == [][results' # results => Last(results') \in held]_vars

\* What the daemon has mapped is what the stream describes: a mapping that fails takes
\* those made before it back, a stop leaves none.
MappedIffDescribed ==
    mapped = IF defs = <<>> THEN {} ELSE {s \in Slot : defs[s] # NoBuf}

\* A slot that has a handle has memory: what registerBuffer() says of a buffer is true
\* of it when no call is in progress.
RegisteredOnSuccess == req.pc = "bufDone" => req.slot \in reg

\* A buffer the HAL took is somewhere it comes back from: at the sensor, on its way,
\* or left over in a channel that is not running.
NothingForgotten ==
    req.pc = "idle" /\ halt = "idle" /\ active =>
        \A r \in held :
            \/ \E d \in driver : d.buf = r.buf
            \/ \E i \in DOMAIN dataQ : handle[dataQ[i]] = r.buf
            \/ cb.slot # -1 /\ r.buf \in {handle[cb.slot], cb.buf}

\* Every buffer asked for comes back, as a result or in error, while the channel runs
\* and when it is stopped in between.
AllReturned == \A b \in Buffers : (\E r \in held : r.buf = b) ~> (\A r \in held : r.buf # b)
=============================================================================
