------------------------------ MODULE MmInterface ------------------------------
(***************************************************************************)
(* The interface of mm-camera-interface to the HAL, for one camera:        *)
(* mm_camera_interface.c finds the camera of a handle under g_intf_lock and *)
(* hands over to its cam_lock, and mm_camera.c finds the channel under     *)
(* cam_lock and hands over to its ch_lock, each taken before the previous  *)
(* one is released.  Threads of the HAL call it concurrently.              *)
(*                                                                         *)
(* What a call does under its last lock is one step here; MmChannel and    *)
(* MmSuperbuf model what a channel does.                                   *)
(***************************************************************************)
EXTENDS Naturals, FiniteSets

CONSTANTS
    Threads,
    Slots,          \* MM_CAMERA_CHANNEL_MAX entries for channels
    Overlap,        \* may opens of the camera overlap?
    MaxOpens,       \* bound: camera objects ever allocated
    MaxChannels,    \* bound: channels ever added
    MaxRefs         \* bound: opens not closed yet

NoOne == "no one"

InterfaceAssumption ==
    /\ Overlap \in BOOLEAN /\ MaxOpens \in Nat /\ MaxChannels \in Nat
    /\ MaxRefs \in Nat \ {0}
    /\ IsFiniteSet(Threads) /\ IsFiniteSet(Slots)
    /\ NoOne \notin Threads
NoCamera == 0

VARIABLES
    intf,           \* who has g_intf_lock
    slot,           \* g_cam_ctrl.cam_obj[] of the camera
    objs,           \* the camera objects ever allocated
    ch,             \* their channels
    hdls,           \* generate_handler(): channel handles given out so far
    call,           \* the call each thread is in
    users           \* the handle of each open the HAL did not close

vars == <<intf, slot, objs, ch, hdls, call, users>>

Ids == 1..MaxOpens
Handles == 1..MaxChannels

CameraOps == {"camera", "add_channel"}
ChannelOps == {"channel", "qbuf", "del_channel"}
NoCall == [op |-> "none", at |-> "idle", obj |-> 0, hdl |-> 0, s |-> 0]

TypeOK ==
    /\ intf \in Threads \cup {NoOne}
    /\ slot \in Ids \cup {NoCamera}
    /\ objs \in [Ids -> [life : {"none", "alive", "freed"}, ref_count : 0..MaxRefs,
                         cam_lock : Threads \cup {NoOne}, fd : BOOLEAN]]
    /\ ch \in [Ids \X Slots -> [my_hdl : Handles \cup {0}, ch_lock : Threads \cup {NoOne}]]
    /\ hdls \in 0..MaxChannels
    /\ call \in [Threads ->
         [op : {"none", "open", "close", "error_close"} \cup CameraOps \cup ChannelOps,
          at : {"idle", "cam_lock", "locked", "ch_lock", "fsm", "destroy", "opening", "publish"},
          obj : Ids \cup {0}, hdl : Handles \cup {0}, s : Slots \cup {0}]]
    /\ users \in [Ids -> 0..MaxRefs]

Init ==
    /\ intf = NoOne /\ slot = NoCamera /\ hdls = 0
    /\ objs = [i \in Ids |-> [life |-> "none", ref_count |-> 0, cam_lock |-> NoOne, fd |-> FALSE]]
    /\ ch = [x \in Ids \X Slots |-> [my_hdl |-> 0, ch_lock |-> NoOne]]
    /\ call = [t \in Threads |-> NoCall]
    /\ users = [i \in Ids |-> 0]

Idle(t) == call[t].at = "idle"
At(t, op, at) == call[t].op \in op /\ call[t].at = at
Return(t) == call' = [call EXCEPT ![t] = NoCall]
Goto(t, at) == call' = [call EXCEPT ![t].at = at]

\* mm_camera_util_get_camera_by_handler(): handles are never given out twice.
Found(i) == slot = i

\* mm_camera_util_get_channel_by_handler()
SlotOf(i, h) == {s \in Slots : ch[<<i, s>>].my_hdl = h}

CamUnlock(i) == objs' = [objs EXCEPT ![i].cam_lock = NoOne]

-----------------------------------------------------------------------------
(* What the HAL does with it: a handle is used from its open to its close, a *)
(* channel from its add to its delete by one thread at a time, and buffers   *)
(* of it may be returned by any.  Every channel is deleted before the close. *)

Using(i) == {t \in Threads : call[t].obj = i /\ ~Idle(t)}
UsingChannel(h) == {t \in Threads : call[t].hdl = h /\ ~Idle(t)}
Channels(i) == {h \in Handles : SlotOf(i, h) # {}}

MayCall(i, op) ==
    /\ users[i] > 0
    /\ op = "add_channel" => hdls + Cardinality({t \in Threads : call[t].op = op}) < MaxChannels
    /\ op = "close" /\ users[i] = 1 =>
         Channels(i) = {} /\ \A t \in Using(i) : call[t].op = "camera"
MayCallChannel(h, op) ==
    op # "qbuf" => \A t \in UsingChannel(h) : call[t].op = "qbuf" /\ op = "channel"

-----------------------------------------------------------------------------
(* The calls of mm_camera_interface.c. *)

\* The camera is found under g_intf_lock, which is kept until cam_lock is had.
\* A call with a handle that is not found returns at once.
CallCamera(t, i, op) ==
    /\ Idle(t) /\ intf = NoOne /\ Found(i) /\ MayCall(i, op)
    /\ intf' = t
    /\ call' = [call EXCEPT ![t] = [NoCall EXCEPT !.op = op, !.at = "cam_lock", !.obj = i]]
    /\ UNCHANGED <<slot, objs, ch, hdls, users>>

CallChannel(t, i, h, op) ==
    /\ Idle(t) /\ intf = NoOne /\ Found(i) /\ MayCall(i, op)
    /\ h <= hdls /\ MayCallChannel(h, op)
    /\ intf' = t
    /\ call' = [call EXCEPT ![t] = [NoCall EXCEPT !.op = op, !.at = "cam_lock", !.obj = i, !.hdl = h]]
    /\ UNCHANGED <<slot, objs, ch, hdls, users>>

\* mm_camera_intf_close(): the last reference takes the camera out of its slot.
Close(t, i) ==
    /\ Idle(t) /\ intf = NoOne /\ Found(i) /\ MayCall(i, "close")
    /\ users' = [users EXCEPT ![i] = @ - 1]
    /\ objs' = [objs EXCEPT ![i].ref_count = @ - 1]
    /\ IF objs[i].ref_count > 1
       THEN UNCHANGED <<slot, intf, call>>
       ELSE /\ slot' = NoCamera /\ intf' = t
            /\ call' = [call EXCEPT ![t] = [NoCall EXCEPT !.op = "close", !.at = "cam_lock", !.obj = i]]
    /\ UNCHANGED <<ch, hdls>>

\* mm_camera_intf_error_close(): only the last user closes the descriptors.
ErrorClose(t, i) ==
    /\ Idle(t) /\ intf = NoOne /\ Found(i) /\ users[i] > 0
    /\ objs[i].ref_count = 1
    /\ intf' = t
    /\ call' = [call EXCEPT ![t] = [NoCall EXCEPT !.op = "error_close", !.at = "cam_lock", !.obj = i]]
    /\ UNCHANGED <<slot, objs, ch, hdls, users>>

TakeCamLock(t) ==
    /\ call[t].at = "cam_lock" /\ objs[call[t].obj].cam_lock = NoOne
    /\ intf' = NoOne
    /\ objs' = [objs EXCEPT ![call[t].obj].cam_lock = t]
    /\ Goto(t, "locked")
    /\ UNCHANGED <<slot, ch, hdls, users>>

-----------------------------------------------------------------------------
(* camera_open() *)

Opening == {t \in Threads : call[t].op = "open"}
AllUsers == {i \in Ids : users[i] > 0}

OpenAgain(t) ==
    /\ Idle(t) /\ intf = NoOne /\ slot # NoCamera
    /\ objs[slot].ref_count < MaxRefs
    /\ objs' = [objs EXCEPT ![slot].ref_count = @ + 1]
    /\ users' = [users EXCEPT ![slot] = @ + 1]
    /\ UNCHANGED <<intf, slot, ch, hdls, call>>

\* A new object, locked; the interface is unlocked while the device is opened.
OpenNew(t) ==
    /\ Idle(t) /\ intf = NoOne /\ slot = NoCamera
    /\ Overlap \/ Opening = {}
    /\ \E i \in Ids :
         /\ objs[i].life = "none" /\ \A j \in 1..(i - 1) : objs[j].life # "none"
         /\ objs' = [objs EXCEPT ![i] =
                [life |-> "alive", ref_count |-> 1, cam_lock |-> t, fd |-> FALSE]]
         /\ call' = [call EXCEPT ![t] = [NoCall EXCEPT !.op = "open", !.at = "opening", !.obj = i]]
    /\ UNCHANGED <<intf, slot, ch, hdls, users>>

\* mm_camera_open(): the device and the socket, both retried, and the event
\* threads, or nothing.
DeviceOpen(t) ==
    /\ At(t, {"open"}, "opening")
    /\ \E ok \in BOOLEAN :
         objs' = [objs EXCEPT ![call[t].obj].fd = ok, ![call[t].obj].cam_lock = NoOne]
    /\ Goto(t, "publish")
    /\ UNCHANGED <<intf, slot, ch, hdls, users>>

Publish(t) ==
    /\ At(t, {"open"}, "publish") /\ intf = NoOne
    /\ LET i == call[t].obj IN
         IF objs[i].fd
         THEN slot' = i /\ users' = [users EXCEPT ![i] = 1] /\ UNCHANGED objs
         ELSE slot' = NoCamera /\ objs' = [objs EXCEPT ![i].life = "freed"] /\ UNCHANGED users
    /\ Return(t)
    /\ UNCHANGED <<intf, ch, hdls>>

-----------------------------------------------------------------------------
(* The calls of mm_camera.c. *)

\* Calls that need no channel: capabilities, parameters, focus, prepare
\* snapshot, event registration.
CameraOp(t) ==
    /\ At(t, {"camera"}, "locked")
    /\ CamUnlock(call[t].obj) /\ Return(t)
    /\ UNCHANGED <<intf, slot, ch, hdls, users>>

MistakenAddChannel(t) ==
    /\ At(t, {"add_channel"}, "locked")
    /\ LET i == call[t].obj
           s == CHOOSE x \in Slots : \A y \in Slots : x <= y
       IN /\ hdls' = hdls + 1
          /\ ch' = [ch EXCEPT ![<<i, s>>] = [my_hdl |-> hdls + 1, ch_lock |-> NoOne]]
    /\ CamUnlock(call[t].obj) /\ Return(t)
    /\ UNCHANGED <<intf, slot, users>>

\* mm_camera_add_channel(): no free slot gives handle 0.
AddChannel(t) ==
    /\ At(t, {"add_channel"}, "locked")
    /\ LET i == call[t].obj
           free == SlotOf(i, 0)
       IN \/ free = {} /\ UNCHANGED <<ch, hdls>>
          \/ \E s \in free :
               /\ \A x \in free : s <= x
               /\ hdls' = hdls + 1
               /\ ch' = [ch EXCEPT ![<<i, s>>] = [my_hdl |-> hdls + 1, ch_lock |-> NoOne]]
    /\ CamUnlock(call[t].obj) /\ Return(t)
    /\ UNCHANGED <<intf, slot, users>>

MistakenFindChannel(t) ==
    /\ At(t, ChannelOps, "locked")
    /\ LET i == call[t].obj
           found == SlotOf(i, call[t].hdl)
       IN IF found = {}
          THEN UNCHANGED objs /\ Return(t)
          ELSE \E s \in found :
               /\ call' = [call EXCEPT ![t].s = s,
                              ![t].at = IF call[t].op = "qbuf" THEN "fsm" ELSE "ch_lock"]
               /\ IF call[t].op = "qbuf" THEN CamUnlock(i) ELSE UNCHANGED objs
    /\ UNCHANGED <<intf, slot, ch, hdls, users>>

\* A channel that is not found, and a buffer, whose channel is not locked
\* "in order to avoid deadlock".
FindChannel(t) ==
    /\ At(t, ChannelOps, "locked")
    /\ LET i == call[t].obj
           found == SlotOf(i, call[t].hdl)
       IN IF found = {}
          THEN CamUnlock(i) /\ Return(t)
          ELSE \E s \in found :
               /\ call' = [call EXCEPT ![t].s = s,
                              ![t].at = IF call[t].op = "qbuf" THEN "fsm" ELSE "ch_lock"]
               /\ IF call[t].op = "qbuf" THEN CamUnlock(i) ELSE UNCHANGED objs
    /\ UNCHANGED <<intf, slot, ch, hdls, users>>

TakeChLock(t) ==
    /\ call[t].at = "ch_lock"
    /\ LET x == <<call[t].obj, call[t].s>> IN
         /\ ch[x].ch_lock = NoOne
         /\ ch' = [ch EXCEPT ![x].ch_lock = t]
    /\ CamUnlock(call[t].obj) /\ Goto(t, "fsm")
    /\ UNCHANGED <<intf, slot, hdls, users>>

\* mm_channel_fsm_fn() releases ch_lock.
ChannelOp(t) ==
    /\ At(t, {"channel"}, "fsm")
    /\ ch' = [ch EXCEPT ![<<call[t].obj, call[t].s>>].ch_lock = NoOne]
    /\ Return(t)
    /\ UNCHANGED <<intf, slot, objs, hdls, users>>

Qbuf(t) ==
    /\ At(t, {"qbuf"}, "fsm")
    /\ Return(t)
    /\ UNCHANGED <<intf, slot, objs, ch, hdls, users>>

DelChannel(t) ==
    /\ At(t, {"del_channel"}, "fsm")
    /\ ch' = [ch EXCEPT ![<<call[t].obj, call[t].s>>].ch_lock = NoOne]
    /\ Goto(t, "destroy")
    /\ UNCHANGED <<intf, slot, objs, hdls, users>>

\* The lock is destroyed and the slot cleared without cam_lock.
DestroyChannel(t) ==
    /\ At(t, {"del_channel"}, "destroy")
    /\ ch' = [ch EXCEPT ![<<call[t].obj, call[t].s>>] = [my_hdl |-> 0, ch_lock |-> NoOne]]
    /\ Return(t)
    /\ UNCHANGED <<intf, slot, objs, hdls, users>>

\* mm_camera_close() ends the event threads and closes; the object is freed.
CloseCamera(t) ==
    /\ At(t, {"close"}, "locked")
    /\ objs' = [objs EXCEPT ![call[t].obj] =
            [life |-> "freed", ref_count |-> 0, cam_lock |-> NoOne, fd |-> FALSE]]
    /\ Return(t)
    /\ UNCHANGED <<intf, slot, ch, hdls, users>>

CloseFd(t) ==
    /\ At(t, {"error_close"}, "locked")
    /\ objs' = [objs EXCEPT ![call[t].obj].fd = FALSE, ![call[t].obj].cam_lock = NoOne]
    /\ Return(t)
    /\ UNCHANGED <<intf, slot, ch, hdls, users>>

-----------------------------------------------------------------------------

Begin(t) ==
    \/ OpenAgain(t) \/ OpenNew(t)
    \/ \E i \in Ids :
         \/ \E op \in CameraOps : CallCamera(t, i, op)
         \/ \E h \in Handles, op \in ChannelOps : CallChannel(t, i, h, op)
         \/ Close(t, i) \/ ErrorClose(t, i)

Continue(t) ==
    \/ DeviceOpen(t) \/ Publish(t) \/ TakeCamLock(t) \/ CameraOp(t) \/ AddChannel(t)
    \/ FindChannel(t) \/ TakeChLock(t) \/ ChannelOp(t) \/ Qbuf(t)
    \/ DelChannel(t) \/ DestroyChannel(t) \/ CloseCamera(t) \/ CloseFd(t)

Next == \E t \in Threads : Begin(t) \/ Continue(t)

\* A thread inside a call runs on whenever the lock it needs stays free.
Fairness == \A t \in Threads : WF_vars(Continue(t))

Spec == Init /\ [][Next]_vars /\ Fairness

-----------------------------------------------------------------------------
(* Properties. *)

\* Nobody is inside a camera object that close freed: a call that found it has
\* or waits for its lock before the interface can be entered again.
NoUseAfterFree ==
    \A t \in Threads : call[t].at \notin {"idle"} => objs[call[t].obj].life = "alive"

\* A channel's state machine, and the return of a buffer, act on the channel the
\* handle named, not on one added to its slot in between.
ActsOnItsChannel ==
    \A t \in Threads : call[t].at = "fsm" /\ call[t].op # "qbuf" =>
      /\ ch[<<call[t].obj, call[t].s>>].my_hdl = call[t].hdl
      /\ ch[<<call[t].obj, call[t].s>>].ch_lock = t

\* The slot has a living object, and an object that lives is in the slot with
\* the references its users have, or on its way there in camera_open() or away
\* in mm_camera_intf_close().
ReferencesCounted ==
    /\ slot # NoCamera => objs[slot].life = "alive"
    /\ \A i \in Ids : objs[i].life = "alive" =>
         \/ slot = i /\ objs[i].ref_count = users[i] /\ users[i] > 0
         \/ slot # i /\ \E t \in Threads : call[t].obj = i /\ call[t].op \in {"open", "close"}

\* The hand-over from g_intf_lock to cam_lock to ch_lock keeps a call inside a
\* living camera and its own channel, and the references of a camera are those of
\* the users that still have it open (mm_camera_interface.c, mm_camera.c).
InterfaceSound == TypeOK /\ NoUseAfterFree /\ ActsOnItsChannel /\ ReferencesCounted

\* Every call returns, the locks being taken in one order and each released on
\* every path.
CallsReturn == \A t \in Threads : call[t].op # "none" ~> call[t].op = "none"

\* camera_open() says "opened already" and adds a reference (1656): what it
\* returned to a user stays known until that user closes it.
OpenStaysKnown == \A i \in Ids : users[i] > 0 => slot = i

=============================================================================
