--------------------------- MODULE MCStack_proofs ----------------------------
(***************************************************************************)
(* What is proved of mm-camera-interface, the components of MCStack: for   *)
(* any numbers of threads, cameras, channels, slots, requests, callbacks   *)
(* and buffers.                                                            *)
(*                                                                         *)
(* First the interface (MmInterface): no call ever works on a camera object*)
(* that a close has freed, whether or not opens overlap, and a channel's   *)
(* state machine runs on the channel its handle named, under its lock.     *)
(* Then the requests to the daemon (MapRequests): answers are taken once   *)
(* and in order, and lag behind by the requests that were given up.  In the*)
(* end, from these and from what MmStream_proofs says of a stream, its poll*)
(* thread and a channel, the invariants of the whole stack.                *)
(***************************************************************************)
EXTENDS MCStack, FiniteSetTheorems, SequenceTheorems, TLAPS

Same(t, u) == ~Idle(t) /\ ~Idle(u) /\ call[t].obj = call[u].obj

Call == [op : {"none", "open", "close", "error_close"} \cup CameraOps \cup ChannelOps,
         at : {"idle", "cam_lock", "locked", "ch_lock", "fsm", "destroy", "opening", "publish"},
         obj : Ids \cup {0}, hdl : Nat, s : Slots \cup {0}]
Camera == [life : {"none", "alive", "freed"}, ref_count : Nat,
           cam_lock : Threads \cup {NoOne}, fd : BOOLEAN]

Names ==
    /\ call \in [Threads -> Call] /\ objs \in [Ids -> Camera]
    /\ users \in [Ids -> Nat]
    /\ slot \in Ids \cup {NoCamera} /\ hdls \in Nat

LEMMA SetCamera ==
  ASSUME NEW f \in [Ids -> Camera], NEW i \in Ids, NEW n \in Nat,
         NEW o \in Threads \cup {NoOne}, NEW b \in BOOLEAN
  PROVE  /\ [f EXCEPT ![i].ref_count = n] \in [Ids -> Camera]
         /\ [f EXCEPT ![i].cam_lock = o] \in [Ids -> Camera]
         /\ [f EXCEPT ![i].fd = b, ![i].cam_lock = o] \in [Ids -> Camera]
         /\ [f EXCEPT ![i].life = "freed"] \in [Ids -> Camera]
<1>1. f[i] \in Camera
  OBVIOUS
<1>2. /\ [f[i] EXCEPT !.ref_count = n] \in Camera
      /\ [f[i] EXCEPT !.cam_lock = o] \in Camera
  BY <1>1 DEF Camera
<1>3. [f[i] EXCEPT !.fd = b, !.cam_lock = o] \in Camera
  BY <1>1 DEF Camera
<1>4. [f[i] EXCEPT !.life = "freed"] \in Camera
  BY <1>1 DEF Camera
<1> QED
  BY <1>2, <1>3, <1>4

LEMMA SetPlace ==
  ASSUME NEW f \in [Threads -> Call], NEW t \in Threads,
         NEW a \in {"idle", "cam_lock", "locked", "ch_lock", "fsm", "destroy", "opening", "publish"}
  PROVE  /\ [f EXCEPT ![t].at = a] \in [Threads -> Call]
         /\ \A x \in Slots : [f EXCEPT ![t].s = x, ![t].at = a] \in [Threads -> Call]
<1>1. [f EXCEPT ![t].at = a] \in [Threads -> Call]
  BY DEF Call
<1>2. ASSUME NEW x \in Slots PROVE [f EXCEPT ![t].s = x, ![t].at = a] \in [Threads -> Call]
  <2>1. [f[t] EXCEPT !.s = x, !.at = a] \in Call
    <3>1. f[t] \in Call
      OBVIOUS
    <3> QED
      BY <3>1 DEF Call
  <2>2. [f EXCEPT ![t].s = x, ![t].at = a] = [f EXCEPT ![t] = [f[t] EXCEPT !.s = x, !.at = a]]
    OBVIOUS
  <2> QED
    BY <2>1, <2>2
<1> QED
  BY <1>1, <1>2

-----------------------------------------------------------------------------
(* The inductive invariant, by what keeps a call safe. *)

\* What call, place and objects go together.
CallsWellFormed ==
    \A t \in Threads :
         /\ Idle(t) => call[t] = NoCall
         /\ ~Idle(t) => call[t].obj \in Ids
         /\ call[t].op = "camera" => call[t].at \in {"cam_lock", "locked"}
         /\ call[t].op = "close" => call[t].at \in {"cam_lock", "locked"}
         /\ call[t].op = "open" <=> call[t].at \in {"opening", "publish"}
         /\ call[t].at \in {"ch_lock", "fsm", "destroy"} => call[t].op \in ChannelOps
         /\ call[t].op \in ChannelOps => call[t].hdl \in Nat \ {0}
         /\ call[t].op = "qbuf" => call[t].at \in {"cam_lock", "locked", "fsm"}

\* g_intf_lock is held by who waits for cam_lock; until it has it the camera
\* stays in its slot, or out of it when the waiting call is a close.
InterfaceLock ==
    \A t \in Threads :
      /\ call[t].at = "cam_lock" <=> intf = t
      /\ call[t].at = "cam_lock" /\ call[t].op # "close" => slot = call[t].obj

\* The object in the slot is alive and counts its users.
SlotAlive ==
    /\ slot # NoCamera =>
         objs[slot].life = "alive" /\ objs[slot].ref_count = users[slot]
    /\ \A i \in Ids : objs[i].life = "none" => slot # i

\* An object being opened is nobody else's.
OpenersAlone ==
    \A t \in Threads : call[t].op = "open" =>
      /\ slot # call[t].obj /\ objs[call[t].obj].ref_count = 1
      /\ \A u \in Threads \ {t} : ~Same(t, u)

\* cam_lock is held at these places.
CameraLock ==
    \A t \in Threads : call[t].at \in {"locked", "ch_lock", "opening"} =>
      objs[call[t].obj].cam_lock = t

\* Whoever is still in an object that is being closed only has its lock for a
\* moment, and nobody can enter it any more.
CloserWaits ==
    \A t \in Threads : call[t].op = "close" =>
      /\ slot # call[t].obj
      /\ \A u \in Threads \ {t} : Same(t, u) => call[u].op = "camera"

UseInv ==
    /\ Names /\ CallsWellFormed /\ InterfaceLock /\ SlotAlive /\ OpenersAlone
    /\ CameraLock /\ CloserWaits /\ NoUseAfterFree

-----------------------------------------------------------------------------

LEMMA InitUse ==
  ASSUME InterfaceAssumption, Init
  PROVE  UseInv
<1>1. /\ \A t \in Threads : call[t].op = "none" /\ call[t].at = "idle" /\ call[t] = NoCall
      /\ slot = NoCamera /\ intf = NoOne /\ NoCamera \notin Ids
  BY DEF Init, NoCall, NoCamera, Ids
<1>2. Names
  BY DEF Init, Names, Call, Camera, NoCall, NoCamera, CameraOps, ChannelOps
<1>3. CallsWellFormed
  BY <1>1 DEF CallsWellFormed, Idle, ChannelOps
<1>4. InterfaceLock
  BY <1>1 DEF InterfaceLock, InterfaceAssumption
<1>5. SlotAlive /\ OpenersAlone /\ CameraLock /\ CloserWaits /\ NoUseAfterFree
  BY <1>1 DEF SlotAlive, OpenersAlone, CameraLock, CloserWaits, NoUseAfterFree
<1> QED
  BY <1>2, <1>3, <1>4, <1>5 DEF UseInv

-----------------------------------------------------------------------------
(* The steps of a call keep the invariant. *)

LEMMA OpenAgainUse ==
  ASSUME InterfaceAssumption, UseInv, NEW t \in Threads, OpenAgain(t)
  PROVE  UseInv'
<1> USE DEF UseInv, Idle, Ids, NoCamera, NoCall
<1>1. Names'
  <2>1. slot \in Ids /\ objs[slot].ref_count + 1 \in Nat
    BY DEF OpenAgain, Names, Camera
  <2>2. objs' \in [Ids -> Camera]
    BY <2>1, SetCamera DEF OpenAgain, Names
  <2>3. users' \in [Ids -> Nat]
    BY <2>1 DEF OpenAgain, Names
  <2> QED
    BY <2>2, <2>3 DEF OpenAgain, Names
<1>2. CallsWellFormed'
  BY DEF OpenAgain, Names, Call, Camera, CallsWellFormed, CameraOps, ChannelOps
<1>3. InterfaceLock'
  BY DEF OpenAgain, Names, Call, Camera, CallsWellFormed, InterfaceLock, InterfaceAssumption
<1>4. SlotAlive'
  BY DEF OpenAgain, Names, Call, Camera, CallsWellFormed, InterfaceLock, SlotAlive,
         OpenersAlone, CloserWaits, NoUseAfterFree
<1>5. OpenersAlone'
  BY DEF OpenAgain, Names, Call, Camera, CallsWellFormed, SlotAlive, OpenersAlone,
         NoUseAfterFree, Same
<1>6. CameraLock'
  BY DEF OpenAgain, Names, Call, Camera, CallsWellFormed, CameraLock, OpenersAlone,
         InterfaceAssumption
<1>7. CloserWaits'
  BY DEF OpenAgain, Names, Call, Camera, CallsWellFormed, InterfaceLock, CameraLock,
         CloserWaits, NoUseAfterFree, SlotAlive, OpenersAlone, InterfaceAssumption, Same
<1>8. NoUseAfterFree'
  BY DEF OpenAgain, Names, Call, Camera, CallsWellFormed, InterfaceLock, SlotAlive,
         OpenersAlone, CameraLock, CloserWaits, NoUseAfterFree, Same
<1> QED
  BY <1>1, <1>2, <1>3, <1>4, <1>5, <1>6, <1>7, <1>8

LEMMA OpenNewUse ==
  ASSUME InterfaceAssumption, UseInv, NEW t \in Threads, OpenNew(t)
  PROVE  UseInv'
<1> USE DEF UseInv, Idle, Ids, NoCamera, NoCall
<1>1. Names'
  <2>1. PICK i \in Ids :
          /\ objs' = [objs EXCEPT ![i] =
                [life |-> "alive", ref_count |-> 1, cam_lock |-> t, fd |-> FALSE]]
          /\ call' = [call EXCEPT ![t] = [NoCall EXCEPT !.op = "open", !.at = "opening", !.obj = i]]
    BY DEF OpenNew
  <2>2. [life |-> "alive", ref_count |-> 1, cam_lock |-> t, fd |-> FALSE] \in Camera
    BY DEF Camera
  <2>3. [NoCall EXCEPT !.op = "open", !.at = "opening", !.obj = i] \in Call
    BY DEF Call
  <2> QED
    BY <2>1, <2>2, <2>3 DEF OpenNew, Names
<1>2. CallsWellFormed'
  BY DEF OpenNew, Names, Call, Camera, CallsWellFormed, CameraOps, ChannelOps
<1>3. InterfaceLock'
  BY DEF OpenNew, Names, Call, Camera, CallsWellFormed, InterfaceLock, InterfaceAssumption
<1>4. SlotAlive'
  BY DEF OpenNew, Names, Call, Camera, CallsWellFormed, InterfaceLock, SlotAlive,
         OpenersAlone, CloserWaits, NoUseAfterFree
<1>5. OpenersAlone'
  BY DEF OpenNew, Names, Call, Camera, CallsWellFormed, SlotAlive, OpenersAlone,
         NoUseAfterFree, Same
<1>6. CameraLock'
  BY DEF OpenNew, Names, Call, Camera, CallsWellFormed, CameraLock, OpenersAlone,
         InterfaceAssumption, NoUseAfterFree
<1>7. CloserWaits'
  BY DEF OpenNew, Names, Call, Camera, CallsWellFormed, InterfaceLock, CameraLock,
         CloserWaits, NoUseAfterFree, SlotAlive, OpenersAlone, InterfaceAssumption, Same
<1>8. NoUseAfterFree'
  BY DEF OpenNew, Names, Call, Camera, CallsWellFormed, InterfaceLock, SlotAlive,
         OpenersAlone, CameraLock, CloserWaits, NoUseAfterFree, Same
<1> QED
  BY <1>1, <1>2, <1>3, <1>4, <1>5, <1>6, <1>7, <1>8

LEMMA CallCameraUse ==
  ASSUME InterfaceAssumption, UseInv, NEW t \in Threads, NEW i \in Ids, NEW op \in CameraOps, CallCamera(t, i, op)
  PROVE  UseInv'
<1> USE DEF UseInv, Idle, Ids, NoCamera, NoCall
<1>1. Names'
  BY DEF CallCamera, Found, CameraOps, Names, Call, Camera, CameraOps, ChannelOps
<1>2. CallsWellFormed'
  BY DEF CallCamera, Found, CameraOps, Names, Call, Camera, CallsWellFormed, CameraOps,
         ChannelOps
<1>3. InterfaceLock'
  BY DEF CallCamera, Found, CameraOps, Names, Call, Camera, CallsWellFormed, InterfaceLock,
         InterfaceAssumption
<1>4. SlotAlive'
  BY DEF CallCamera, Found, CameraOps, Names, Call, Camera, CallsWellFormed, InterfaceLock,
         SlotAlive, OpenersAlone, CloserWaits, NoUseAfterFree
<1>5. OpenersAlone'
  BY DEF CallCamera, Found, CameraOps, Names, Call, Camera, CallsWellFormed, SlotAlive,
         OpenersAlone, NoUseAfterFree, Same
<1>6. CameraLock'
  BY DEF CallCamera, Found, CameraOps, Names, Call, Camera, CallsWellFormed, CameraLock,
         OpenersAlone, InterfaceAssumption
<1>7. CloserWaits'
  BY DEF CallCamera, Found, CameraOps, Names, Call, Camera, CallsWellFormed, InterfaceLock,
         CameraLock, CloserWaits, NoUseAfterFree, SlotAlive, OpenersAlone,
         InterfaceAssumption, Same
<1>8. NoUseAfterFree'
  BY DEF CallCamera, Found, CameraOps, Names, Call, Camera, CallsWellFormed, InterfaceLock,
         SlotAlive, OpenersAlone, CameraLock, CloserWaits, NoUseAfterFree, Same
<1> QED
  BY <1>1, <1>2, <1>3, <1>4, <1>5, <1>6, <1>7, <1>8

LEMMA CallChannelUse ==
  ASSUME InterfaceAssumption, UseInv, NEW t \in Threads, NEW i \in Ids, NEW h \in Handles, NEW op \in ChannelOps, CallChannel(t, i, h, op)
  PROVE  UseInv'
<1> USE DEF UseInv, Idle, Ids, NoCamera, NoCall
<1>1. Names'
  <2>1. h \in Nat
    BY DEF Handles
  <2>2. [NoCall EXCEPT !.op = op, !.at = "cam_lock", !.obj = i, !.hdl = h] \in Call
    BY <2>1 DEF Call, ChannelOps
  <2> QED
    BY <2>2 DEF CallChannel, Names
<1>2. CallsWellFormed'
  BY DEF CallChannel, Found, ChannelOps, Handles, Names, Call, Camera, CallsWellFormed,
         CameraOps, ChannelOps
<1>3. InterfaceLock'
  BY DEF CallChannel, Found, ChannelOps, Handles, Names, Call, Camera, CallsWellFormed,
         InterfaceLock, InterfaceAssumption
<1>4. SlotAlive'
  BY DEF CallChannel, Found, ChannelOps, Handles, Names, Call, Camera, CallsWellFormed,
         InterfaceLock, SlotAlive, OpenersAlone, CloserWaits, NoUseAfterFree
<1>5. OpenersAlone'
  BY DEF CallChannel, Found, ChannelOps, Handles, Names, Call, Camera, CallsWellFormed,
         SlotAlive, OpenersAlone, NoUseAfterFree, Same
<1>6. CameraLock'
  BY DEF CallChannel, Found, ChannelOps, Handles, Names, Call, Camera, CallsWellFormed,
         CameraLock, OpenersAlone, InterfaceAssumption
<1>7. CloserWaits'
  BY DEF CallChannel, Found, ChannelOps, Handles, Names, Call, Camera, CallsWellFormed,
         InterfaceLock, CameraLock, CloserWaits, NoUseAfterFree, SlotAlive, OpenersAlone,
         InterfaceAssumption, Same
<1>8. NoUseAfterFree'
  BY DEF CallChannel, Found, ChannelOps, Handles, Names, Call, Camera, CallsWellFormed,
         InterfaceLock, SlotAlive, OpenersAlone, CameraLock, CloserWaits, NoUseAfterFree,
         Same
<1> QED
  BY <1>1, <1>2, <1>3, <1>4, <1>5, <1>6, <1>7, <1>8

LEMMA CloseUse ==
  ASSUME InterfaceAssumption, UseInv, NEW t \in Threads, NEW i \in Ids, Close(t, i)
  PROVE  UseInv'
<1> USE DEF UseInv, Idle, Ids, NoCamera, NoCall
<1>1. slot = i /\ intf = NoOne /\ call[t] = NoCall /\ objs[i].ref_count = users[i] /\ users[i] > 0
  BY DEF Close, Found, MayCall, CallsWellFormed, SlotAlive
<1>2. objs' \in [Ids -> Camera] /\ users' \in [Ids -> Nat]
  <2>1. objs[i].ref_count - 1 \in Nat /\ users[i] - 1 \in Nat
    BY <1>1 DEF Names
  <2> QED
    BY <2>1, SetCamera DEF Close, Names
<1>3. \A j \in Ids : /\ objs'[j].life = objs[j].life /\ objs'[j].cam_lock = objs[j].cam_lock
                     /\ j # i => objs'[j] = objs[j]
  BY DEF Close, Names, Camera
<1>4. objs'[i].ref_count = users'[i]
  BY <1>1 DEF Close, Names, Camera
<1>5. CASE objs[i].ref_count > 1
  <2>1. UNCHANGED <<slot, intf, call, ch, hdls>>
    BY <1>5 DEF Close
  <2>2. OpenersAlone'
    BY <1>1, <1>3, <2>1 DEF OpenersAlone, CallsWellFormed, Same
  <2>3. SlotAlive'
    BY <1>1, <1>3, <1>4, <2>1 DEF SlotAlive
  <2> QED
    BY <1>2, <1>3, <2>1, <2>2, <2>3
       DEF Names, CallsWellFormed, InterfaceLock, CameraLock, CloserWaits, NoUseAfterFree, Same
<1>6. CASE ~(objs[i].ref_count > 1)
  <2> DEFINE closing == [NoCall EXCEPT !.op = "close", !.at = "cam_lock", !.obj = i]
  <2>1. slot' = NoCamera /\ intf' = t /\ call' = [call EXCEPT ![t] = closing] /\ hdls' = hdls
    BY <1>6 DEF Close
  <2>2. \A u \in Threads \ {t} : ~Idle(u) /\ call[u].obj = i => call[u].op = "camera"
    <3>1. users[i] = 1
      BY <1>1, <1>6 DEF Names
    <3> QED
      BY <3>1 DEF Close, MayCall, Using
  <2>3. closing \in Call
    BY DEF Call
  <2>4. Names'
    BY <1>2, <2>1, <2>3 DEF Names
  <2>5. /\ \A u \in Threads : call'[u] = IF u = t THEN closing ELSE call[u]
        /\ closing.op = "close" /\ closing.at = "cam_lock" /\ closing.obj = i
    BY <2>1 DEF Names
  <2> HIDE DEF closing
  <2>6. CallsWellFormed'
    BY <2>5 DEF CallsWellFormed, ChannelOps
  <2>7. InterfaceLock' /\ SlotAlive'
    BY <1>1, <1>3, <2>1, <2>5 DEF InterfaceLock, SlotAlive, InterfaceAssumption
  <2>8. OpenersAlone'
    BY <1>1, <1>3, <2>1, <2>5 DEF OpenersAlone, CallsWellFormed, Same
  <2>9. CameraLock' /\ NoUseAfterFree'
    BY <1>1, <1>3, <2>5 DEF CameraLock, NoUseAfterFree, SlotAlive, CallsWellFormed
  <2>10. CloserWaits'
    <3>1. \A u \in Threads \ {t} : call[u].op = "close" => call[u].obj # i
      BY <2>2, <1>1 DEF CloserWaits
    <3> QED
      BY <1>1, <2>1, <2>2, <2>5, <3>1 DEF CloserWaits, Same, CallsWellFormed
  <2> QED
    BY <2>4, <2>6, <2>7, <2>8, <2>9, <2>10
<1> QED
  BY <1>5, <1>6

LEMMA ErrorCloseUse ==
  ASSUME InterfaceAssumption, UseInv, NEW t \in Threads, NEW i \in Ids, ErrorClose(t, i)
  PROVE  UseInv'
<1> USE DEF UseInv, Idle, Ids, NoCamera, NoCall
<1>1. Names'
  BY DEF ErrorClose, Found, Names, Call, Camera, CameraOps, ChannelOps
<1>2. CallsWellFormed'
  BY DEF ErrorClose, Found, Names, Call, Camera, CallsWellFormed, CameraOps, ChannelOps
<1>3. InterfaceLock'
  BY DEF ErrorClose, Found, Names, Call, Camera, CallsWellFormed, InterfaceLock,
         InterfaceAssumption
<1>4. SlotAlive'
  BY DEF ErrorClose, Found, Names, Call, Camera, CallsWellFormed, InterfaceLock, SlotAlive,
         OpenersAlone, CloserWaits, NoUseAfterFree
<1>5. OpenersAlone'
  BY DEF ErrorClose, Found, Names, Call, Camera, CallsWellFormed, SlotAlive, OpenersAlone,
         NoUseAfterFree, Same
<1>6. CameraLock'
  BY DEF ErrorClose, Found, Names, Call, Camera, CallsWellFormed, CameraLock, OpenersAlone,
         InterfaceAssumption
<1>7. CloserWaits'
  BY DEF ErrorClose, Found, Names, Call, Camera, CallsWellFormed, InterfaceLock, CameraLock,
         CloserWaits, NoUseAfterFree, SlotAlive, OpenersAlone, InterfaceAssumption, Same
<1>8. NoUseAfterFree'
  BY DEF ErrorClose, Found, Names, Call, Camera, CallsWellFormed, InterfaceLock, SlotAlive,
         OpenersAlone, CameraLock, CloserWaits, NoUseAfterFree, Same
<1> QED
  BY <1>1, <1>2, <1>3, <1>4, <1>5, <1>6, <1>7, <1>8

LEMMA TakeCamLockUse ==
  ASSUME InterfaceAssumption, UseInv, NEW t \in Threads, TakeCamLock(t)
  PROVE  UseInv'
<1> USE DEF UseInv, Idle, Ids, NoCamera, NoCall
<1>1. Names'
  <2>1. call[t].obj \in Ids
    BY DEF TakeCamLock, CallsWellFormed
  <2>2. objs' \in [Ids -> Camera]
    BY <2>1, SetCamera DEF TakeCamLock, Names
  <2>3. call' \in [Threads -> Call]
    BY SetPlace DEF TakeCamLock, Goto, Names
  <2> QED
    BY <2>2, <2>3 DEF TakeCamLock, Names
<1>2. CallsWellFormed'
  BY DEF TakeCamLock, Goto, Names, Call, Camera, CallsWellFormed, CameraOps, ChannelOps
<1>3. InterfaceLock'
  BY DEF TakeCamLock, Goto, Names, Call, Camera, CallsWellFormed, InterfaceLock,
         InterfaceAssumption
<1>4. SlotAlive'
  BY DEF TakeCamLock, Goto, Names, Call, Camera, CallsWellFormed, InterfaceLock, SlotAlive,
         OpenersAlone, CloserWaits, NoUseAfterFree
<1>5. OpenersAlone'
  BY DEF TakeCamLock, Goto, Names, Call, Camera, CallsWellFormed, SlotAlive, OpenersAlone,
         NoUseAfterFree, Same
<1>6. CameraLock'
  BY DEF TakeCamLock, Goto, Names, Call, Camera, CallsWellFormed, CameraLock, OpenersAlone,
         InterfaceAssumption
<1>7. CloserWaits'
  BY DEF TakeCamLock, Goto, Names, Call, Camera, CallsWellFormed, InterfaceLock, CameraLock,
         CloserWaits, NoUseAfterFree, SlotAlive, OpenersAlone, InterfaceAssumption, Same
<1>8. NoUseAfterFree'
  BY DEF TakeCamLock, Goto, Names, Call, Camera, CallsWellFormed, InterfaceLock, SlotAlive,
         OpenersAlone, CameraLock, CloserWaits, NoUseAfterFree, Same
<1> QED
  BY <1>1, <1>2, <1>3, <1>4, <1>5, <1>6, <1>7, <1>8

LEMMA DeviceOpenUse ==
  ASSUME InterfaceAssumption, UseInv, NEW t \in Threads, DeviceOpen(t)
  PROVE  UseInv'
<1> USE DEF UseInv, Idle, Ids, NoCamera, NoCall
<1>1. Names'
  <2>1. call[t].obj \in Ids
    BY DEF DeviceOpen, At, CallsWellFormed
  <2>2. PICK ok \in BOOLEAN :
          objs' = [objs EXCEPT ![call[t].obj].fd = ok, ![call[t].obj].cam_lock = NoOne]
    BY DEF DeviceOpen
  <2>3. objs' \in [Ids -> Camera]
    BY <2>1, <2>2, SetCamera DEF Names
  <2>4. call' \in [Threads -> Call]
    BY SetPlace DEF DeviceOpen, Goto, Names
  <2> QED
    BY <2>3, <2>4 DEF DeviceOpen, Names
<1>2. CallsWellFormed'
  BY DEF DeviceOpen, At, Goto, Names, Call, Camera, CallsWellFormed, CameraOps, ChannelOps
<1>3. InterfaceLock'
  BY DEF DeviceOpen, At, Goto, Names, Call, Camera, CallsWellFormed, InterfaceLock,
         InterfaceAssumption
<1>4. SlotAlive'
  BY DEF DeviceOpen, At, Goto, Names, Call, Camera, CallsWellFormed, InterfaceLock,
         SlotAlive, OpenersAlone, CloserWaits, NoUseAfterFree
<1>5. OpenersAlone'
  BY DEF DeviceOpen, At, Goto, Names, Call, Camera, CallsWellFormed, SlotAlive,
         OpenersAlone, NoUseAfterFree, Same
<1>6. CameraLock'
  BY DEF DeviceOpen, At, Goto, Names, Call, Camera, CallsWellFormed, CameraLock,
         OpenersAlone, InterfaceAssumption
<1>7. CloserWaits'
  BY DEF DeviceOpen, At, Goto, Names, Call, Camera, CallsWellFormed, InterfaceLock,
         CameraLock, CloserWaits, NoUseAfterFree, SlotAlive, OpenersAlone,
         InterfaceAssumption, Same
<1>8. NoUseAfterFree'
  BY DEF DeviceOpen, At, Goto, Names, Call, Camera, CallsWellFormed, InterfaceLock,
         SlotAlive, OpenersAlone, CameraLock, CloserWaits, NoUseAfterFree, Same
<1> QED
  BY <1>1, <1>2, <1>3, <1>4, <1>5, <1>6, <1>7, <1>8

LEMMA PublishUse ==
  ASSUME InterfaceAssumption, UseInv, NEW t \in Threads, Publish(t)
  PROVE  UseInv'
<1> USE DEF UseInv, Idle, Ids, NoCamera, NoCall
<1> DEFINE i == call[t].obj
<1>1. /\ i \in Ids /\ objs[i].ref_count = 1 /\ slot # i /\ intf = NoOne /\ objs[i].life = "alive"
      /\ \A u \in Threads \ {t} : ~Idle(u) => call[u].obj # i
  BY DEF Publish, At, CallsWellFormed, OpenersAlone, NoUseAfterFree, Same
<1>2. /\ \A u \in Threads : call'[u] = IF u = t THEN NoCall ELSE call[u]
      /\ \A u \in Threads : call[u].at # "cam_lock"
      /\ intf' = intf /\ hdls' = hdls
  BY <1>1 DEF Publish, Return, Names, InterfaceLock, InterfaceAssumption
<1>3. call' \in [Threads -> Call]
  <2>1. NoCall \in Call
    BY DEF Call
  <2> QED
    BY <2>1 DEF Publish, Return, Names
<1>4. CallsWellFormed'
  BY <1>2 DEF CallsWellFormed, ChannelOps
<1>5. InterfaceLock'
  BY <1>2 DEF InterfaceLock, InterfaceAssumption
<1>6. CASE objs[i].fd
  <2>1. slot' = i /\ users' = [users EXCEPT ![i] = 1] /\ objs' = objs
    BY <1>6 DEF Publish
  <2>2. Names' /\ SlotAlive'
    BY <1>1, <1>2, <1>3, <2>1 DEF Names, SlotAlive
  <2>3. OpenersAlone' /\ CameraLock' /\ NoUseAfterFree'
    BY <1>1, <1>2, <2>1 DEF OpenersAlone, CameraLock, NoUseAfterFree, CallsWellFormed, Same
  <2>4. CloserWaits'
    BY <1>1, <1>2, <2>1 DEF CloserWaits, CallsWellFormed, Same
  <2> QED
    BY <1>4, <1>5, <2>2, <2>3, <2>4
<1>7. CASE ~objs[i].fd
  <2>1. slot' = NoCamera /\ objs' = [objs EXCEPT ![i].life = "freed"] /\ users' = users
    BY <1>7 DEF Publish
  <2>2. objs' \in [Ids -> Camera]
    BY <1>1, <2>1, SetCamera DEF Names
  <2>3. /\ \A j \in Ids : j # i => objs'[j] = objs[j]
        /\ objs'[i].life = "freed"
    BY <1>1, <2>1 DEF Names, Camera
  <2>4. Names' /\ SlotAlive'
    BY <1>1, <1>2, <1>3, <2>1, <2>2, <2>3 DEF Names, SlotAlive
  <2>5. OpenersAlone' /\ CameraLock' /\ NoUseAfterFree'
    BY <1>1, <1>2, <2>1, <2>3 DEF OpenersAlone, CameraLock, NoUseAfterFree, CallsWellFormed,
                                  Same
  <2>6. CloserWaits'
    BY <1>1, <1>2, <2>1 DEF CloserWaits, CallsWellFormed, Same
  <2> QED
    BY <1>4, <1>5, <2>4, <2>5, <2>6
<1> QED
  BY <1>6, <1>7

LEMMA CameraOpUse ==
  ASSUME InterfaceAssumption, UseInv, NEW t \in Threads, CameraOp(t)
  PROVE  UseInv'
<1> USE DEF UseInv, Idle, Ids, NoCamera, NoCall
<1>1. Names'
  BY DEF CameraOp, At, CamUnlock, Return, Names, Call, Camera, CameraOps, ChannelOps
<1>2. CallsWellFormed'
  BY DEF CameraOp, At, CamUnlock, Return, Names, Call, Camera, CallsWellFormed, CameraOps,
         ChannelOps
<1>3. InterfaceLock'
  BY DEF CameraOp, At, CamUnlock, Return, Names, Call, Camera, CallsWellFormed,
         InterfaceLock, InterfaceAssumption
<1>4. SlotAlive'
  BY DEF CameraOp, At, CamUnlock, Return, Names, Call, Camera, CallsWellFormed,
         InterfaceLock, SlotAlive, OpenersAlone, CloserWaits, NoUseAfterFree
<1>5. OpenersAlone'
  BY DEF CameraOp, At, CamUnlock, Return, Names, Call, Camera, CallsWellFormed, SlotAlive,
         OpenersAlone, NoUseAfterFree, Same
<1>6. CameraLock'
  BY DEF CameraOp, At, CamUnlock, Return, Names, Call, Camera, CallsWellFormed, CameraLock,
         OpenersAlone, InterfaceAssumption
<1>7. CloserWaits'
  BY DEF CameraOp, At, CamUnlock, Return, Names, Call, Camera, CallsWellFormed,
         InterfaceLock, CameraLock, CloserWaits, NoUseAfterFree, SlotAlive, OpenersAlone,
         InterfaceAssumption, Same
<1>8. NoUseAfterFree'
  BY DEF CameraOp, At, CamUnlock, Return, Names, Call, Camera, CallsWellFormed,
         InterfaceLock, SlotAlive, OpenersAlone, CameraLock, CloserWaits, NoUseAfterFree,
         Same
<1> QED
  BY <1>1, <1>2, <1>3, <1>4, <1>5, <1>6, <1>7, <1>8

LEMMA AddChannelUse ==
  ASSUME InterfaceAssumption, UseInv, NEW t \in Threads, AddChannel(t)
  PROVE  UseInv'
<1> USE DEF UseInv, Idle, Ids, NoCamera, NoCall
<1>1. Names'
  <2>1. objs' \in [Ids -> Camera]
    BY SetCamera DEF AddChannel, At, CamUnlock, CallsWellFormed, Names
  <2>2. call' \in [Threads -> Call]
    <3>1. NoCall \in Call
      BY DEF Call
    <3> QED
      BY <3>1 DEF AddChannel, Return, Names
  <2>3. hdls' \in Nat
    <3>1. hdls' = hdls \/ hdls' = hdls + 1
      BY DEF AddChannel
    <3> QED
      BY <3>1 DEF Names
  <2> QED
    BY <2>1, <2>2, <2>3 DEF AddChannel, Names
<1>2. CallsWellFormed'
  BY DEF AddChannel, At, CamUnlock, Return, SlotOf, Names, Call, Camera, CallsWellFormed,
         CameraOps, ChannelOps
<1>3. InterfaceLock'
  BY DEF AddChannel, At, CamUnlock, Return, SlotOf, Names, Call, Camera, CallsWellFormed,
         InterfaceLock, InterfaceAssumption
<1>4. SlotAlive'
  BY DEF AddChannel, At, CamUnlock, Return, SlotOf, Names, Call, Camera, CallsWellFormed,
         InterfaceLock, SlotAlive, OpenersAlone, CloserWaits, NoUseAfterFree
<1>5. OpenersAlone'
  BY DEF AddChannel, At, CamUnlock, Return, SlotOf, Names, Call, Camera, CallsWellFormed,
         SlotAlive, OpenersAlone, NoUseAfterFree, Same
<1>6. CameraLock'
  BY DEF AddChannel, At, CamUnlock, Return, SlotOf, Names, Call, Camera, CallsWellFormed,
         CameraLock, OpenersAlone, InterfaceAssumption
<1>7. CloserWaits'
  BY DEF AddChannel, At, CamUnlock, Return, SlotOf, Names, Call, Camera, CallsWellFormed,
         InterfaceLock, CameraLock, CloserWaits, NoUseAfterFree, SlotAlive, OpenersAlone,
         InterfaceAssumption, Same
<1>8. NoUseAfterFree'
  BY DEF AddChannel, At, CamUnlock, Return, SlotOf, Names, Call, Camera, CallsWellFormed,
         InterfaceLock, SlotAlive, OpenersAlone, CameraLock, CloserWaits, NoUseAfterFree,
         Same
<1> QED
  BY <1>1, <1>2, <1>3, <1>4, <1>5, <1>6, <1>7, <1>8

LEMMA FindChannelUse ==
  ASSUME InterfaceAssumption, UseInv, NEW t \in Threads, FindChannel(t)
  PROVE  UseInv'
<1> USE DEF UseInv, Idle, Ids, NoCamera, NoCall
<1> DEFINE i == call[t].obj
<1>1. /\ i \in Ids /\ call[t].op \in ChannelOps /\ call[t].at = "locked"
      /\ UNCHANGED <<intf, slot, hdls, users>>
  BY DEF FindChannel, At, CallsWellFormed
<1>2. objs' = objs \/ objs' = [objs EXCEPT ![i].cam_lock = NoOne]
  BY DEF FindChannel, CamUnlock
<1>3. objs' \in [Ids -> Camera]
  <2>1. [objs EXCEPT ![i].cam_lock = NoOne] \in [Ids -> Camera]
    BY <1>1, SetCamera DEF Names
  <2> QED
    BY <1>2, <2>1 DEF Names
<1>4. \A j \in Ids : /\ objs'[j].life = objs[j].life /\ objs'[j].ref_count = objs[j].ref_count
                     /\ j # i => objs'[j].cam_lock = objs[j].cam_lock
  <2>1. CASE objs' = objs
    BY <2>1
  <2>2. CASE objs' = [objs EXCEPT ![i].cam_lock = NoOne]
    BY <1>1, <2>2 DEF Names, Camera
  <2> QED
    BY <1>2, <2>1, <2>2
<1> HIDE DEF i
<1>5. CASE SlotOf(i, call[t].hdl) = {}
  <2>1. call' = [call EXCEPT ![t] = NoCall]
    BY <1>5 DEF FindChannel, Return, i
  <2>2. \A u \in Threads : call'[u] = IF u = t THEN NoCall ELSE call[u]
    BY <2>1 DEF Names
  <2>3. Names'
    <3>1. NoCall \in Call
      BY DEF Call
    <3> QED
      BY <1>1, <1>3, <2>1, <3>1 DEF Names
  <2>4. CallsWellFormed'
    BY <2>2 DEF CallsWellFormed, ChannelOps
  <2>8. InterfaceLock'
    BY <1>1, <2>2 DEF InterfaceLock, ChannelOps, InterfaceAssumption
  <2>5. SlotAlive'
    BY <1>1, <1>4 DEF SlotAlive, Names
  <2>9. NoUseAfterFree'
    BY <1>4, <2>2 DEF NoUseAfterFree, CallsWellFormed
  <2>6. OpenersAlone'
    BY <1>1, <1>4, <2>2 DEF OpenersAlone, CallsWellFormed, Same
  <2>10. CloserWaits'
    BY <1>1, <2>2 DEF CloserWaits, Same
  <2>7. CameraLock'
    BY <1>1, <1>4, <2>2 DEF CameraLock, CallsWellFormed, Names, i
  <2> QED
    BY <2>3, <2>4, <2>5, <2>6, <2>7, <2>8, <2>9, <2>10
<1>6. CASE SlotOf(i, call[t].hdl) # {}
  <2> DEFINE at == IF call[t].op = "qbuf" THEN "fsm" ELSE "ch_lock"
  <2>1. PICK s \in Slots : call' = [call EXCEPT ![t].s = s, ![t].at = at]
    BY <1>6 DEF FindChannel, SlotOf, i
  <2>2. \A u \in Threads :
          /\ call'[u].op = call[u].op /\ call'[u].obj = call[u].obj /\ call'[u].hdl = call[u].hdl
          /\ call'[u].at = IF u = t THEN at ELSE call[u].at
          /\ u # t => call'[u] = call[u]
    BY <2>1 DEF Names, Call
  <2>3. Names'
    BY <1>1, <1>3, <2>1, SetPlace DEF Names
  <2>4. call[t].op # "qbuf" => objs' = objs
    BY <1>6 DEF FindChannel, i
  <2>5. CallsWellFormed' /\ InterfaceLock'
    BY <1>1, <2>2 DEF CallsWellFormed, InterfaceLock, ChannelOps
  <2>6. SlotAlive' /\ NoUseAfterFree'
    BY <1>1, <1>4, <2>2 DEF SlotAlive, NoUseAfterFree, CallsWellFormed, Names
  <2>7. OpenersAlone'
    BY <1>1, <1>4, <2>2 DEF OpenersAlone, CallsWellFormed, ChannelOps, Same
  <2>8. CameraLock'
    <3>1. ASSUME NEW u \in Threads \ {t}, call[u].at \in {"locked", "ch_lock", "opening"}
          PROVE  objs'[call[u].obj].cam_lock = u
      BY <1>1, <1>4, <3>1 DEF CameraLock, CallsWellFormed, i
    <3>2. at = "ch_lock" => objs'[i].cam_lock = t
      BY <1>1, <2>4 DEF CameraLock, i
    <3> QED
      BY <1>1, <2>2, <3>1, <3>2 DEF CameraLock, i
  <2>9. CloserWaits'
    BY <1>1, <2>2 DEF CloserWaits, CallsWellFormed, ChannelOps, Same
  <2> QED
    BY <2>3, <2>5, <2>6, <2>7, <2>8, <2>9
<1> QED
  BY <1>5, <1>6

LEMMA TakeChLockUse ==
  ASSUME InterfaceAssumption, UseInv, NEW t \in Threads, TakeChLock(t)
  PROVE  UseInv'
<1> USE DEF UseInv, Idle, Ids, NoCamera, NoCall
<1>1. Names'
  <2>1. objs' \in [Ids -> Camera]
    BY SetCamera DEF TakeChLock, CamUnlock, CallsWellFormed, Names
  <2>2. call' \in [Threads -> Call]
    BY SetPlace DEF TakeChLock, Goto, Names
  <2> QED
    BY <2>1, <2>2 DEF TakeChLock, Names
<1>2. CallsWellFormed'
  BY DEF TakeChLock, CamUnlock, Goto, Names, Call, Camera, CallsWellFormed, CameraOps,
         ChannelOps
<1>3. InterfaceLock'
  BY DEF TakeChLock, CamUnlock, Goto, Names, Call, Camera, CallsWellFormed, InterfaceLock,
         InterfaceAssumption
<1>4. SlotAlive'
  BY DEF TakeChLock, CamUnlock, Goto, Names, Call, Camera, CallsWellFormed, InterfaceLock,
         SlotAlive, OpenersAlone, CloserWaits, NoUseAfterFree
<1>5. OpenersAlone'
  BY DEF TakeChLock, CamUnlock, Goto, Names, Call, Camera, CallsWellFormed, SlotAlive,
         OpenersAlone, NoUseAfterFree, Same
<1>6. CameraLock'
  BY DEF TakeChLock, CamUnlock, Goto, Names, Call, Camera, CallsWellFormed, CameraLock,
         OpenersAlone, InterfaceAssumption
<1>7. CloserWaits'
  BY DEF TakeChLock, CamUnlock, Goto, Names, Call, Camera, CallsWellFormed, InterfaceLock,
         CameraLock, CloserWaits, NoUseAfterFree, SlotAlive, OpenersAlone,
         InterfaceAssumption, Same
<1>8. NoUseAfterFree'
  BY DEF TakeChLock, CamUnlock, Goto, Names, Call, Camera, CallsWellFormed, InterfaceLock,
         SlotAlive, OpenersAlone, CameraLock, CloserWaits, NoUseAfterFree, Same
<1> QED
  BY <1>1, <1>2, <1>3, <1>4, <1>5, <1>6, <1>7, <1>8

LEMMA ChannelOpUse ==
  ASSUME InterfaceAssumption, UseInv, NEW t \in Threads, ChannelOp(t)
  PROVE  UseInv'
<1> USE DEF UseInv, Idle, Ids, NoCamera, NoCall
<1>1. Names'
  BY DEF ChannelOp, At, Return, Names, Call, Camera, CameraOps, ChannelOps
<1>2. CallsWellFormed'
  BY DEF ChannelOp, At, Return, Names, Call, Camera, CallsWellFormed, CameraOps, ChannelOps
<1>3. InterfaceLock'
  BY DEF ChannelOp, At, Return, Names, Call, Camera, CallsWellFormed, InterfaceLock,
         InterfaceAssumption
<1>4. SlotAlive'
  BY DEF ChannelOp, At, Return, Names, Call, Camera, CallsWellFormed, InterfaceLock,
         SlotAlive, OpenersAlone, CloserWaits, NoUseAfterFree
<1>5. OpenersAlone'
  BY DEF ChannelOp, At, Return, Names, Call, Camera, CallsWellFormed, SlotAlive,
         OpenersAlone, NoUseAfterFree, Same
<1>6. CameraLock'
  BY DEF ChannelOp, At, Return, Names, Call, Camera, CallsWellFormed, CameraLock,
         OpenersAlone, InterfaceAssumption
<1>7. CloserWaits'
  BY DEF ChannelOp, At, Return, Names, Call, Camera, CallsWellFormed, InterfaceLock,
         CameraLock, CloserWaits, NoUseAfterFree, SlotAlive, OpenersAlone,
         InterfaceAssumption, Same
<1>8. NoUseAfterFree'
  BY DEF ChannelOp, At, Return, Names, Call, Camera, CallsWellFormed, InterfaceLock,
         SlotAlive, OpenersAlone, CameraLock, CloserWaits, NoUseAfterFree, Same
<1> QED
  BY <1>1, <1>2, <1>3, <1>4, <1>5, <1>6, <1>7, <1>8

LEMMA QbufUse ==
  ASSUME InterfaceAssumption, UseInv, NEW t \in Threads, Qbuf(t)
  PROVE  UseInv'
<1> USE DEF UseInv, Idle, Ids, NoCamera, NoCall
<1>1. Names'
  BY DEF Qbuf, At, Return, Names, Call, Camera, CameraOps, ChannelOps
<1>2. CallsWellFormed'
  BY DEF Qbuf, At, Return, Names, Call, Camera, CallsWellFormed, CameraOps, ChannelOps
<1>3. InterfaceLock'
  BY DEF Qbuf, At, Return, Names, Call, Camera, CallsWellFormed, InterfaceLock,
         InterfaceAssumption
<1>4. SlotAlive'
  BY DEF Qbuf, At, Return, Names, Call, Camera, CallsWellFormed, InterfaceLock, SlotAlive,
         OpenersAlone, CloserWaits, NoUseAfterFree
<1>5. OpenersAlone'
  BY DEF Qbuf, At, Return, Names, Call, Camera, CallsWellFormed, SlotAlive, OpenersAlone,
         NoUseAfterFree, Same
<1>6. CameraLock'
  BY DEF Qbuf, At, Return, Names, Call, Camera, CallsWellFormed, CameraLock, OpenersAlone,
         InterfaceAssumption
<1>7. CloserWaits'
  BY DEF Qbuf, At, Return, Names, Call, Camera, CallsWellFormed, InterfaceLock, CameraLock,
         CloserWaits, NoUseAfterFree, SlotAlive, OpenersAlone, InterfaceAssumption, Same
<1>8. NoUseAfterFree'
  BY DEF Qbuf, At, Return, Names, Call, Camera, CallsWellFormed, InterfaceLock, SlotAlive,
         OpenersAlone, CameraLock, CloserWaits, NoUseAfterFree, Same
<1> QED
  BY <1>1, <1>2, <1>3, <1>4, <1>5, <1>6, <1>7, <1>8

LEMMA DelChannelUse ==
  ASSUME InterfaceAssumption, UseInv, NEW t \in Threads, DelChannel(t)
  PROVE  UseInv'
<1> USE DEF UseInv, Idle, Ids, NoCamera, NoCall
<1>1. Names'
  BY SetPlace DEF DelChannel, Goto, Names
<1>2. CallsWellFormed'
  BY DEF DelChannel, At, Goto, Names, Call, Camera, CallsWellFormed, CameraOps, ChannelOps
<1>3. InterfaceLock'
  BY DEF DelChannel, At, Goto, Names, Call, Camera, CallsWellFormed, InterfaceLock,
         InterfaceAssumption
<1>4. SlotAlive'
  BY DEF DelChannel, At, Goto, Names, Call, Camera, CallsWellFormed, InterfaceLock,
         SlotAlive, OpenersAlone, CloserWaits, NoUseAfterFree
<1>5. OpenersAlone'
  BY DEF DelChannel, At, Goto, Names, Call, Camera, CallsWellFormed, SlotAlive,
         OpenersAlone, NoUseAfterFree, Same
<1>6. CameraLock'
  BY DEF DelChannel, At, Goto, Names, Call, Camera, CallsWellFormed, CameraLock,
         OpenersAlone, InterfaceAssumption
<1>7. CloserWaits'
  BY DEF DelChannel, At, Goto, Names, Call, Camera, CallsWellFormed, InterfaceLock,
         CameraLock, CloserWaits, NoUseAfterFree, SlotAlive, OpenersAlone,
         InterfaceAssumption, Same
<1>8. NoUseAfterFree'
  BY DEF DelChannel, At, Goto, Names, Call, Camera, CallsWellFormed, InterfaceLock,
         SlotAlive, OpenersAlone, CameraLock, CloserWaits, NoUseAfterFree, Same
<1> QED
  BY <1>1, <1>2, <1>3, <1>4, <1>5, <1>6, <1>7, <1>8

LEMMA DestroyChannelUse ==
  ASSUME InterfaceAssumption, UseInv, NEW t \in Threads, DestroyChannel(t)
  PROVE  UseInv'
<1> USE DEF UseInv, Idle, Ids, NoCamera, NoCall
<1>1. Names'
  BY DEF DestroyChannel, At, Return, Names, Call, Camera, CameraOps, ChannelOps
<1>2. CallsWellFormed'
  BY DEF DestroyChannel, At, Return, Names, Call, Camera, CallsWellFormed, CameraOps,
         ChannelOps
<1>3. InterfaceLock'
  BY DEF DestroyChannel, At, Return, Names, Call, Camera, CallsWellFormed, InterfaceLock,
         InterfaceAssumption
<1>4. SlotAlive'
  BY DEF DestroyChannel, At, Return, Names, Call, Camera, CallsWellFormed, InterfaceLock,
         SlotAlive, OpenersAlone, CloserWaits, NoUseAfterFree
<1>5. OpenersAlone'
  BY DEF DestroyChannel, At, Return, Names, Call, Camera, CallsWellFormed, SlotAlive,
         OpenersAlone, NoUseAfterFree, Same
<1>6. CameraLock'
  BY DEF DestroyChannel, At, Return, Names, Call, Camera, CallsWellFormed, CameraLock,
         OpenersAlone, InterfaceAssumption
<1>7. CloserWaits'
  BY DEF DestroyChannel, At, Return, Names, Call, Camera, CallsWellFormed, InterfaceLock,
         CameraLock, CloserWaits, NoUseAfterFree, SlotAlive, OpenersAlone,
         InterfaceAssumption, Same
<1>8. NoUseAfterFree'
  BY DEF DestroyChannel, At, Return, Names, Call, Camera, CallsWellFormed, InterfaceLock,
         SlotAlive, OpenersAlone, CameraLock, CloserWaits, NoUseAfterFree, Same
<1> QED
  BY <1>1, <1>2, <1>3, <1>4, <1>5, <1>6, <1>7, <1>8

LEMMA CloseCameraUse ==
  ASSUME InterfaceAssumption, UseInv, NEW t \in Threads, CloseCamera(t)
  PROVE  UseInv'
<1> USE DEF UseInv, Idle, Ids, NoCamera, NoCall
<1>1. Names'
  BY DEF CloseCamera, At, Return, Names, Call, Camera, CameraOps, ChannelOps
<1>2. CallsWellFormed'
  BY DEF CloseCamera, At, Return, Names, Call, Camera, CallsWellFormed, CameraOps,
         ChannelOps
<1>3. InterfaceLock'
  BY DEF CloseCamera, At, Return, Names, Call, Camera, CallsWellFormed, InterfaceLock,
         InterfaceAssumption
<1>4. SlotAlive'
  BY DEF CloseCamera, At, Return, Names, Call, Camera, CallsWellFormed, InterfaceLock,
         SlotAlive, OpenersAlone, CloserWaits, NoUseAfterFree
<1>5. OpenersAlone'
  BY DEF CloseCamera, At, Return, Names, Call, Camera, CallsWellFormed, SlotAlive,
         OpenersAlone, NoUseAfterFree, Same
<1>6. CameraLock'
  BY DEF CloseCamera, At, Return, Names, Call, Camera, CallsWellFormed, CameraLock,
         OpenersAlone, InterfaceAssumption
<1>7. CloserWaits'
  BY DEF CloseCamera, At, Return, Names, Call, Camera, CallsWellFormed, InterfaceLock,
         CameraLock, CloserWaits, NoUseAfterFree, SlotAlive, OpenersAlone,
         InterfaceAssumption, Same
<1>8. NoUseAfterFree'
  BY DEF CloseCamera, At, Return, Names, Call, Camera, CallsWellFormed, InterfaceLock,
         SlotAlive, OpenersAlone, CameraLock, CloserWaits, NoUseAfterFree, Same
<1> QED
  BY <1>1, <1>2, <1>3, <1>4, <1>5, <1>6, <1>7, <1>8

LEMMA CloseFdUse ==
  ASSUME InterfaceAssumption, UseInv, NEW t \in Threads, CloseFd(t)
  PROVE  UseInv'
<1> USE DEF UseInv, Idle, Ids, NoCamera, NoCall
<1>1. Names'
  <2>1. call[t].obj \in Ids /\ NoOne \in Threads \cup {NoOne} /\ FALSE \in BOOLEAN
    BY DEF CloseFd, At, CallsWellFormed
  <2>2. objs' \in [Ids -> Camera]
    BY <2>1, SetCamera DEF CloseFd, Names
  <2>3. call' \in [Threads -> Call]
    BY DEF CloseFd, Return, Names, Call
  <2> QED
    BY <2>2, <2>3 DEF CloseFd, Names
<1>2. CallsWellFormed'
  BY DEF CloseFd, At, Return, Names, Call, Camera, CallsWellFormed, CameraOps, ChannelOps
<1>3. InterfaceLock'
  BY DEF CloseFd, At, Return, Names, Call, Camera, CallsWellFormed, InterfaceLock,
         InterfaceAssumption
<1>4. SlotAlive'
  BY DEF CloseFd, At, Return, Names, Call, Camera, CallsWellFormed, InterfaceLock,
         SlotAlive, OpenersAlone, CloserWaits, NoUseAfterFree
<1>5. OpenersAlone'
  BY DEF CloseFd, At, Return, Names, Call, Camera, CallsWellFormed, SlotAlive, OpenersAlone,
         NoUseAfterFree, Same
<1>6. CameraLock'
  BY DEF CloseFd, At, Return, Names, Call, Camera, CallsWellFormed, CameraLock,
         OpenersAlone, InterfaceAssumption
<1>7. CloserWaits'
  BY DEF CloseFd, At, Return, Names, Call, Camera, CallsWellFormed, InterfaceLock,
         CameraLock, CloserWaits, NoUseAfterFree, SlotAlive, OpenersAlone,
         InterfaceAssumption, Same
<1>8. NoUseAfterFree'
  BY DEF CloseFd, At, Return, Names, Call, Camera, CallsWellFormed, InterfaceLock,
         SlotAlive, OpenersAlone, CameraLock, CloserWaits, NoUseAfterFree, Same
<1> QED
  BY <1>1, <1>2, <1>3, <1>4, <1>5, <1>6, <1>7, <1>8

LEMMA NextUse == InterfaceAssumption /\ UseInv /\ [Next]_vars => UseInv'
<1> SUFFICES ASSUME InterfaceAssumption, UseInv, [Next]_vars PROVE UseInv'
  OBVIOUS
<1>1. ASSUME NEW t \in Threads, Begin(t) PROVE UseInv'
  BY <1>1, OpenAgainUse, OpenNewUse, CallCameraUse, CallChannelUse, CloseUse, ErrorCloseUse
       DEF Begin
<1>2. ASSUME NEW t \in Threads, Continue(t) PROVE UseInv'
  BY <1>2, TakeCamLockUse, DeviceOpenUse, PublishUse, CameraOpUse, AddChannelUse, FindChannelUse,
     TakeChLockUse, ChannelOpUse, QbufUse, DelChannelUse, DestroyChannelUse, CloseCameraUse, CloseFdUse
     DEF Continue
<1>3. CASE UNCHANGED vars
  BY <1>3 DEF vars, UseInv, Names, CallsWellFormed, InterfaceLock, SlotAlive, OpenersAlone,
              CameraLock, CloserWaits, NoUseAfterFree, Same, Idle
<1> QED
  BY <1>1, <1>2, <1>3 DEF Next

\* No thread is inside a camera object that a close has freed, for any number of
\* threads, opens and channels, overlapping opens included: finding the camera
\* under g_intf_lock and keeping that until cam_lock is had (mm_camera_interface.c)
\* leaves no moment in which a close can free it.
THEOREM CallsFindLivingCameras ==
  ASSUME InterfaceAssumption
  PROVE  Spec => []NoUseAfterFree
<1>1. Init => UseInv
  BY InitUse
<1>2. UseInv /\ [Next]_vars => UseInv'
  BY NextUse
<1>3. UseInv => NoUseAfterFree
  BY DEF UseInv
<1> QED
  BY <1>1, <1>2, <1>3, PTL DEF Spec

-----------------------------------------------------------------------------
(* Channels.  A call knows its channel's slot from when it finds it under      *)
(* cam_lock; until it is done with it only DestroyChannel() of the same handle *)
(* could clear the slot, and that is the one call that may not overlap.        *)

Control == {"channel", "del_channel"}

ChannelTypes ==
    /\ ch \in [Ids \X Slots -> [my_hdl : Nat, ch_lock : Threads \cup {NoOne}]]
    /\ \A t \in Threads : call[t].at \in {"ch_lock", "fsm", "destroy"} => call[t].s \in Slots

\* One thread at a time is in a control call of a channel.
ControlAlone ==
    \A t, u \in Threads :
      t # u /\ call[t].op \in Control /\ call[u].op \in Control => call[t].hdl # call[u].hdl

\* A control call that found its channel is in that channel, and from
\* TakeChLock() to its end there it has the lock.
OnItsChannel ==
    \A t \in Threads :
      call[t].op \in Control /\ call[t].at \in {"ch_lock", "fsm", "destroy"} =>
        /\ ch[<<call[t].obj, call[t].s>>].my_hdl = call[t].hdl
        /\ call[t].at = "fsm" => ch[<<call[t].obj, call[t].s>>].ch_lock = t

ChannelInv == ChannelTypes /\ ControlAlone /\ OnItsChannel

LEMMA InitChannels ==
  ASSUME InterfaceAssumption, Init
  PROVE  ChannelInv
<1>1. \A t \in Threads : call[t].op = "none" /\ call[t].at = "idle"
  BY DEF Init, NoCall
<1>2. ch \in [Ids \X Slots -> [my_hdl : Nat, ch_lock : Threads \cup {NoOne}]]
  BY DEF Init
<1> QED
  BY <1>1, <1>2 DEF ChannelInv, ChannelTypes, ControlAlone, OnItsChannel, Control

\* What leaves the channels alone and moves no call into or inside a channel
\* keeps the invariant.
LEMMA OtherCalls ==
  ASSUME ChannelInv, ch' = ch,
         \A u \in Threads :
           \/ call'[u] = call[u]
           \/ call'[u].op \notin Control /\ call'[u].at \notin {"ch_lock", "fsm", "destroy"}
           \/ /\ call'[u].op = call[u].op /\ call'[u].hdl = call[u].hdl
              /\ call'[u].at \notin {"ch_lock", "fsm", "destroy"}
  PROVE  ChannelInv'
<1>1. ChannelTypes'
  BY DEF ChannelInv, ChannelTypes
<1>2. ControlAlone'
  BY DEF ChannelInv, ControlAlone
<1>3. OnItsChannel'
  BY DEF ChannelInv, OnItsChannel
<1> QED
  BY <1>1, <1>2, <1>3 DEF ChannelInv

\* The lock or the handle of one channel that no other control call is in may
\* change, while at most one thread moves on inside its own.
LEMMA SetChannel ==
  ASSUME NEW f \in [Ids \X Slots -> [my_hdl : Nat, ch_lock : Threads \cup {NoOne}]],
         NEW x \in Ids \X Slots, NEW o \in Threads \cup {NoOne}, NEW h \in Nat
  PROVE  /\ [f EXCEPT ![x].ch_lock = o] \in [Ids \X Slots -> [my_hdl : Nat, ch_lock : Threads \cup {NoOne}]]
         /\ [f EXCEPT ![x] = [my_hdl |-> h, ch_lock |-> NoOne]]
               \in [Ids \X Slots -> [my_hdl : Nat, ch_lock : Threads \cup {NoOne}]]
  OBVIOUS

LEMMA CallChannelKeeps ==
  ASSUME InterfaceAssumption, UseInv, ChannelInv, NEW t \in Threads, NEW i \in Ids,
         NEW h \in Handles, NEW op \in ChannelOps, CallChannel(t, i, h, op)
  PROVE  ChannelInv'
<1> USE DEF UseInv, ChannelInv, Idle, NoCall
<1>1. /\ \A u \in Threads : u # t => call'[u] = call[u]
      /\ call'[t].op = op /\ call'[t].hdl = h /\ call'[t].at = "cam_lock"
      /\ ch' = ch
  BY DEF CallChannel, Names
<1>2. ASSUME op \in Control, NEW u \in Threads \ {t}, call[u].op \in Control
      PROVE  call[u].hdl # h
  BY <1>2 DEF CallChannel, MayCallChannel, UsingChannel, Control, CallsWellFormed
<1>3. ControlAlone'
  BY <1>1, <1>2 DEF ControlAlone
<1>4. ChannelTypes' /\ OnItsChannel'
  BY <1>1 DEF ChannelTypes, OnItsChannel
<1> QED
  BY <1>3, <1>4

LEMMA AddChannelKeeps ==
  ASSUME InterfaceAssumption, UseInv, ChannelInv, NEW t \in Threads, AddChannel(t)
  PROVE  ChannelInv'
<1> USE DEF UseInv, ChannelInv, Idle, NoCall
<1> DEFINE i == call[t].obj
<1>1. /\ \A u \in Threads : u # t => call'[u] = call[u]
      /\ call'[t].op = "none" /\ call'[t].at = "idle" /\ i \in Ids
  BY DEF AddChannel, Return, At, Names, CallsWellFormed
<1>2. CASE ch' = ch
  BY <1>1, <1>2, OtherCalls DEF Control
<1>3. CASE \E s \in SlotOf(i, 0) : ch' = [ch EXCEPT ![<<i, s>>] = [my_hdl |-> hdls + 1, ch_lock |-> NoOne]]
  <2>1. PICK s \in SlotOf(i, 0) :
          ch' = [ch EXCEPT ![<<i, s>>] = [my_hdl |-> hdls + 1, ch_lock |-> NoOne]]
    BY <1>3
  <2>2. <<i, s>> \in Ids \X Slots /\ ch[<<i, s>>].my_hdl = 0 /\ hdls + 1 \in Nat
    BY <1>1 DEF SlotOf, Names
  <2>3. ChannelTypes'
    BY <1>1, <2>1, <2>2, SetChannel DEF ChannelTypes
  <2>4. \A x \in Ids \X Slots : x # <<i, s>> => ch'[x] = ch[x]
    BY <2>1 DEF ChannelTypes
  <2>5. OnItsChannel'
    <3>1. ASSUME NEW u \in Threads, call[u].op \in Control, call[u].at \in {"ch_lock", "fsm", "destroy"}
          PROVE  ch'[<<call[u].obj, call[u].s>>] = ch[<<call[u].obj, call[u].s>>]
      <4>1. <<call[u].obj, call[u].s>> \in Ids \X Slots
        BY <3>1 DEF ChannelTypes, CallsWellFormed
      <4>2. ch[<<call[u].obj, call[u].s>>].my_hdl # 0
        BY <3>1 DEF OnItsChannel, CallsWellFormed, Control, ChannelOps
      <4> QED
        BY <2>2, <2>4, <4>1, <4>2
    <3> QED
      BY <1>1, <3>1 DEF OnItsChannel, Control
  <2>6. ControlAlone'
    BY <1>1 DEF ControlAlone, Control
  <2> QED
    BY <2>3, <2>5, <2>6
<1> QED
  BY <1>2, <1>3 DEF AddChannel

LEMMA FindChannelKeeps ==
  ASSUME InterfaceAssumption, UseInv, ChannelInv, NEW t \in Threads, FindChannel(t)
  PROVE  ChannelInv'
<1> USE DEF UseInv, ChannelInv, Idle, NoCall
<1> DEFINE i == call[t].obj
<1>1. ch' = ch /\ i \in Ids /\ call[t].op \in ChannelOps
  BY DEF FindChannel, At, CallsWellFormed, ChannelOps
<1>2. CASE SlotOf(i, call[t].hdl) = {}
  BY <1>1, <1>2, OtherCalls DEF FindChannel, Return, Names, Control
<1>3. CASE SlotOf(i, call[t].hdl) # {}
  <2> DEFINE at == IF call[t].op = "qbuf" THEN "fsm" ELSE "ch_lock"
  <2>1. PICK s \in SlotOf(i, call[t].hdl) : call' = [call EXCEPT ![t].s = s, ![t].at = at]
    BY <1>3 DEF FindChannel
  <2>2. s \in Slots /\ ch[<<i, s>>].my_hdl = call[t].hdl
    BY DEF SlotOf
  <2>3. /\ \A u \in Threads : u # t => call'[u] = call[u]
        /\ call'[t].op = call[t].op /\ call'[t].hdl = call[t].hdl /\ call'[t].obj = i
        /\ call'[t].s = s /\ call'[t].at = at
    BY <2>1 DEF Names, Call
  <2>4. ChannelTypes' /\ ControlAlone'
    BY <1>1, <2>2, <2>3 DEF ChannelTypes, ControlAlone
  <2>5. OnItsChannel'
    BY <1>1, <2>2, <2>3 DEF OnItsChannel, Control
  <2> QED
    BY <2>4, <2>5
<1> QED
  BY <1>2, <1>3

LEMMA TakeChLockKeeps ==
  ASSUME InterfaceAssumption, UseInv, ChannelInv, NEW t \in Threads, TakeChLock(t)
  PROVE  ChannelInv'
<1> USE DEF UseInv, ChannelInv, Idle, NoCall
<1> DEFINE x == <<call[t].obj, call[t].s>>
<1>1. /\ x \in Ids \X Slots /\ call[t].op \in Control /\ ch[x].ch_lock = NoOne
      /\ ch' = [ch EXCEPT ![x].ch_lock = t]
  BY DEF TakeChLock, CallsWellFormed, ChannelTypes, ChannelOps, Control
<1>2. /\ \A u \in Threads : u # t => call'[u] = call[u]
      /\ call'[t].op = call[t].op /\ call'[t].hdl = call[t].hdl /\ call'[t].at = "fsm"
      /\ call'[t].obj = call[t].obj /\ call'[t].s = call[t].s
  BY DEF TakeChLock, Goto, Names, Call
<1>3. ChannelTypes' /\ ControlAlone'
  BY <1>1, <1>2, SetChannel DEF ChannelTypes, ControlAlone, TakeChLock
<1>4. /\ \A y \in Ids \X Slots : ch'[y].my_hdl = ch[y].my_hdl /\ (y # x => ch'[y] = ch[y])
      /\ ch'[x].ch_lock = t
  BY <1>1 DEF ChannelTypes
<1>5. OnItsChannel'
  <2>1. ASSUME NEW u \in Threads \ {t}, call[u].op \in Control, call[u].at \in {"ch_lock", "fsm", "destroy"}
        PROVE  /\ <<call[u].obj, call[u].s>> \in Ids \X Slots /\ <<call[u].obj, call[u].s>> # x
               /\ ch'[<<call[u].obj, call[u].s>>] = ch[<<call[u].obj, call[u].s>>]
    <3>1. <<call[u].obj, call[u].s>> \in Ids \X Slots
      BY <2>1 DEF ChannelTypes, CallsWellFormed
    <3>2. ch[<<call[u].obj, call[u].s>>].my_hdl # ch[x].my_hdl
      BY <1>1, <2>1 DEF OnItsChannel, ControlAlone, TakeChLock
    <3> QED
      BY <1>4, <3>1, <3>2
  <2>2. ch'[x].my_hdl = call[t].hdl /\ ch'[x].ch_lock = t
    BY <1>1, <1>4 DEF OnItsChannel, TakeChLock
  <2> QED
    BY <1>2, <2>1, <2>2 DEF OnItsChannel
<1> QED
  BY <1>3, <1>5

\* The end of a control call, or of the state machine in a delete.
LEMMA LeaveChannel ==
  ASSUME InterfaceAssumption, UseInv, ChannelInv, NEW t \in Threads,
         ChannelOp(t) \/ DelChannel(t) \/ DestroyChannel(t)
  PROVE  ChannelInv'
<1> USE DEF UseInv, ChannelInv, Idle, NoCall
<1> DEFINE x == <<call[t].obj, call[t].s>>
           Types == [Ids \X Slots -> [my_hdl : Nat, ch_lock : Threads \cup {NoOne}]]
<1>1. x \in Ids \X Slots /\ call[t].op \in Control /\ call[t].at \in {"ch_lock", "fsm", "destroy"}
  BY DEF ChannelOp, DelChannel, DestroyChannel, At, CallsWellFormed, ChannelTypes, Control
<1>2. /\ \A u \in Threads : u # t => call'[u] = call[u]
      /\ \/ call'[t] = NoCall
         \/ /\ call'[t].op = call[t].op /\ call'[t].hdl = call[t].hdl /\ call'[t].at = "destroy"
            /\ call'[t].obj = call[t].obj /\ call'[t].s = call[t].s
            /\ ch' = [ch EXCEPT ![x].ch_lock = NoOne]
  BY DEF ChannelOp, DelChannel, DestroyChannel, Return, Goto, Names, Call
<1>3. ch' \in Types /\ \A y \in Ids \X Slots : y # x => ch'[y] = ch[y]
  <2>1. \/ ch' = [ch EXCEPT ![x].ch_lock = NoOne]
        \/ ch' = [ch EXCEPT ![x] = [my_hdl |-> 0, ch_lock |-> NoOne]]
    BY DEF ChannelOp, DelChannel, DestroyChannel
  <2> HIDE DEF x
  <2>2. CASE ch' = [ch EXCEPT ![x].ch_lock = NoOne]
    BY <1>1, <2>2, SetChannel DEF ChannelTypes
  <2>3. CASE ch' = [ch EXCEPT ![x] = [my_hdl |-> 0, ch_lock |-> NoOne]]
    BY <1>1, <2>3, SetChannel DEF ChannelTypes
  <2> QED
    BY <2>1, <2>2, <2>3
<1>4. ChannelTypes' /\ ControlAlone'
  <2>1. ChannelTypes'
    BY <1>1, <1>2, <1>3 DEF ChannelTypes
  <2>2. ControlAlone'
    BY <1>1, <1>2 DEF ControlAlone, Control
  <2> QED
    BY <2>1, <2>2
<1>5. OnItsChannel'
  <2>1. ASSUME NEW u \in Threads \ {t}, call[u].op \in Control, call[u].at \in {"ch_lock", "fsm", "destroy"}
        PROVE  ch'[<<call[u].obj, call[u].s>>] = ch[<<call[u].obj, call[u].s>>]
    <3>1. <<call[u].obj, call[u].s>> \in Ids \X Slots
      BY <2>1 DEF ChannelTypes, CallsWellFormed
    <3>2. ch[<<call[u].obj, call[u].s>>].my_hdl # ch[x].my_hdl
      BY <1>1, <2>1 DEF OnItsChannel, ControlAlone
    <3> QED
      BY <1>3, <3>1, <3>2
  <2>2. ch' = [ch EXCEPT ![x].ch_lock = NoOne] => ch'[x].my_hdl = call[t].hdl
    <3>1. ch[x].my_hdl = call[t].hdl
      BY <1>1 DEF OnItsChannel
    <3> HIDE DEF x
    <3> QED
      BY <1>1, <3>1 DEF ChannelTypes
  <2> QED
    BY <1>2, <2>1, <2>2 DEF OnItsChannel, Control
<1> QED
  BY <1>4, <1>5

LEMMA NextChannels ==
  ASSUME InterfaceAssumption, UseInv, ChannelInv, [Next]_vars
  PROVE  ChannelInv'
<1> USE DEF UseInv, Idle
<1>1. ASSUME NEW t \in Threads, OpenAgain(t) PROVE ChannelInv'
  BY <1>1, OtherCalls DEF OpenAgain, Names, Control
<1>2. ASSUME NEW t \in Threads, OpenNew(t)
      PROVE  ChannelInv'
  <2>1. /\ \A u \in Threads \ {t} : call'[u] = call[u]
        /\ call'[t].op = "open" /\ call'[t].at = "opening"
    BY <1>2 DEF OpenNew, Names, NoCall
  <2>2. ch' = ch
    BY <1>2 DEF OpenNew
  <2> QED
    BY <2>1, <2>2, OtherCalls DEF Control
<1>3. ASSUME NEW t \in Threads, NEW i \in Ids, NEW op \in CameraOps, CallCamera(t, i, op)
      PROVE  ChannelInv'
  <2>1. /\ \A u \in Threads \ {t} : call'[u] = call[u]
        /\ call'[t].op = op /\ call'[t].at = "cam_lock"
    BY <1>3 DEF CallCamera, Names, NoCall
  <2>2. ch' = ch
    BY <1>3 DEF CallCamera
  <2> QED
    BY <2>1, <2>2, OtherCalls DEF Control, CameraOps
<1>4. ASSUME NEW t \in Threads, NEW i \in Ids, Close(t, i)
      PROVE  ChannelInv'
  <2>1. ch' = ch
    BY <1>4 DEF Close
  <2>2. CASE objs[i].ref_count > 1
    <3>1. call' = call
      BY <1>4, <2>2 DEF Close
    <3> QED
      BY <2>1, <3>1, OtherCalls
  <2>3. CASE ~(objs[i].ref_count > 1)
    <3>1. call' = [call EXCEPT ![t] = [NoCall EXCEPT !.op = "close", !.at = "cam_lock", !.obj = i]]
      BY <1>4, <2>3 DEF Close
    <3>2. /\ \A u \in Threads \ {t} : call'[u] = call[u]
          /\ call'[t].op = "close" /\ call'[t].at = "cam_lock"
      BY <3>1 DEF Names, NoCall
    <3> QED
      BY <2>1, <3>2, OtherCalls DEF Control
  <2> QED
    BY <2>2, <2>3
<1>5. ASSUME NEW t \in Threads, NEW i \in Ids, ErrorClose(t, i)
      PROVE  ChannelInv'
  <2>1. /\ \A u \in Threads \ {t} : call'[u] = call[u]
        /\ call'[t].op = "error_close" /\ call'[t].at = "cam_lock"
    BY <1>5 DEF ErrorClose, Names, NoCall
  <2>2. ch' = ch
    BY <1>5 DEF ErrorClose
  <2> QED
    BY <2>1, <2>2, OtherCalls DEF Control
<1>6. ASSUME NEW t \in Threads, TakeCamLock(t) PROVE ChannelInv'
  <2>1. /\ \A u \in Threads : u # t => call'[u] = call[u]
        /\ call'[t].op = call[t].op /\ call'[t].hdl = call[t].hdl /\ call'[t].at = "locked"
        /\ ch' = ch
    BY <1>6 DEF TakeCamLock, Goto, Names, Call
  <2> QED
    BY <2>1, OtherCalls
<1>7. ASSUME NEW t \in Threads, DeviceOpen(t) PROVE ChannelInv'
  BY <1>7, OtherCalls DEF DeviceOpen, At, Goto, Names, Control
<1>8. ASSUME NEW t \in Threads, Publish(t) PROVE ChannelInv'
  BY <1>8, OtherCalls DEF Publish, Return, Names, Control, NoCall
<1>9. ASSUME NEW t \in Threads, CameraOp(t) PROVE ChannelInv'
  BY <1>9, OtherCalls DEF CameraOp, Return, Names, Control, NoCall
<1>10. ASSUME NEW t \in Threads, Qbuf(t) PROVE ChannelInv'
  BY <1>10, OtherCalls DEF Qbuf, Return, Names, Control, NoCall
<1>11. ASSUME NEW t \in Threads, CloseCamera(t) PROVE ChannelInv'
  BY <1>11, OtherCalls DEF CloseCamera, Return, Names, Control, NoCall
<1>12. ASSUME NEW t \in Threads, CloseFd(t) PROVE ChannelInv'
  BY <1>12, OtherCalls DEF CloseFd, Return, Names, Control, NoCall
<1>13. CASE UNCHANGED vars
  BY <1>13 DEF vars, ChannelInv, ChannelTypes, ControlAlone, OnItsChannel
<1> QED
  BY <1>1, <1>2, <1>3, <1>4, <1>5, <1>6, <1>7, <1>8, <1>9, <1>10, <1>11, <1>12, <1>13,
     CallChannelKeeps, AddChannelKeeps, FindChannelKeeps, TakeChLockKeeps, LeaveChannel
     DEF Next, Begin, Continue

\* A control call's state machine runs in the channel its handle named, with that
\* channel's lock, though cam_lock is given up before ch_lock is needed no more
\* and a delete clears the slot without either (mm_camera.c).
THEOREM ChannelsFound ==
  ASSUME InterfaceAssumption
  PROVE  Spec => []ActsOnItsChannel
<1>1. Init => UseInv /\ ChannelInv
  BY InitUse, InitChannels
<1>2. UseInv /\ ChannelInv /\ [Next]_vars => (UseInv /\ ChannelInv)'
  BY NextUse, NextChannels
<1>3. UseInv /\ ChannelInv => ActsOnItsChannel
  BY DEF UseInv, ChannelInv, OnItsChannel, ActsOnItsChannel, CallsWellFormed, ChannelOps,
         Control
<1> QED
  BY <1>1, <1>2, <1>3, PTL DEF Spec

-----------------------------------------------------------------------------
(* References.  Whether the HAL can count on a camera being open is proved     *)
(* where opens do not overlap; with overlapping ones it is refuted, see        *)
(* OpenStaysKnown.                                                             *)

\* A camera in the slot has users, opens come one at a time and only while the
\* slot is empty, and who is responsible for a living camera elsewhere is a
\* thread on its way in or out with it.
Counted ==
    /\ slot # NoCamera => users[slot] > 0
    /\ \A t \in Threads : call[t].op = "open" =>
         slot = NoCamera /\ \A u \in Threads \ {t} : call[u].op # "open"
    /\ \A i \in Ids : objs[i].life = "alive" /\ slot # i =>
         \E t \in Threads : call[t].obj = i /\ call[t].op \in {"open", "close"}

\* The bound of the opens that are not closed.
RefsBounded == \A i \in Ids : objs[i].ref_count <= MaxRefs /\ users[i] <= MaxRefs

\* A step of t that neither opens nor closes a camera.
Quiet(t) ==
    /\ slot' = slot /\ users' = users
    /\ \A i \in Ids : objs'[i].life = objs[i].life /\ objs'[i].ref_count = objs[i].ref_count
    /\ \A u \in Threads \ {t} : call'[u] = call[u]
    /\ \/ call'[t].op = call[t].op /\ call'[t].obj = call[t].obj
       \/ call[t].op \notin {"open", "close"} /\ call'[t].op \notin {"open", "close"}

LEMMA InitCounted ==
  ASSUME InterfaceAssumption, Init
  PROVE  Counted /\ RefsBounded
<1>1. \A t \in Threads : call[t].op = "none"
  BY DEF Init, NoCall
<1>2. slot = NoCamera /\ \A i \in Ids : objs[i].life = "none" /\ objs[i].ref_count = 0 /\ users[i] = 0
  BY DEF Init
<1> QED
  BY <1>1, <1>2 DEF Counted, RefsBounded, InterfaceAssumption

LEMMA CallsAreQuiet ==
  ASSUME UseInv, NEW t \in Threads, Idle(t),
         \A u \in Threads \ {t} : call'[u] = call[u],
         call'[t].op \notin {"open", "close"},
         UNCHANGED <<slot, objs, users>>
  PROVE  Quiet(t)
<1>1. call[t].op = "none"
  BY DEF UseInv, CallsWellFormed, NoCall
<1> QED
  BY <1>1 DEF Quiet

\* What a call does under its locks, the closing of the camera apart.
LEMMA WorkIsQuiet ==
  ASSUME InterfaceAssumption, UseInv, NEW t \in Threads,
         \/ DeviceOpen(t) \/ TakeCamLock(t) \/ CameraOp(t) \/ AddChannel(t) \/ FindChannel(t)
         \/ TakeChLock(t) \/ ChannelOp(t) \/ Qbuf(t) \/ DelChannel(t) \/ DestroyChannel(t)
         \/ CloseFd(t)
  PROVE  Quiet(t)
<1> USE DEF UseInv
<1> DEFINE i == call[t].obj
<1>1. slot' = slot /\ users' = users
  BY DEF DeviceOpen, TakeCamLock, CameraOp, AddChannel, FindChannel, TakeChLock, ChannelOp,
         Qbuf, DelChannel, DestroyChannel, CloseFd
<1>2. \/ objs' = objs
      \/ \E o \in Threads \cup {NoOne} : objs' = [objs EXCEPT ![i].cam_lock = o]
      \/ \E b \in BOOLEAN : objs' = [objs EXCEPT ![i].fd = b, ![i].cam_lock = NoOne]
  BY DEF DeviceOpen, TakeCamLock, CameraOp, AddChannel, FindChannel, TakeChLock, ChannelOp,
         Qbuf, DelChannel, DestroyChannel, CloseFd, CamUnlock
<1>3. \A j \in Ids : objs'[j].life = objs[j].life /\ objs'[j].ref_count = objs[j].ref_count
  <2>1. CASE objs' = objs
    BY <2>1
  <2>2. CASE \E o \in Threads \cup {NoOne} : objs' = [objs EXCEPT ![i].cam_lock = o]
    BY <2>2 DEF Names, Camera
  <2>3. CASE \E b \in BOOLEAN : objs' = [objs EXCEPT ![i].fd = b, ![i].cam_lock = NoOne]
    BY <2>3 DEF Names, Camera
  <2> QED
    BY <1>2, <2>1, <2>2, <2>3
<1>4. \/ \E a : call' = [call EXCEPT ![t].at = a]
      \/ \E a, x : call' = [call EXCEPT ![t].s = x, ![t].at = a]
      \/ call' = [call EXCEPT ![t] = NoCall] /\ call[t].op \notin {"open", "close"}
  BY DEF DeviceOpen, TakeCamLock, CameraOp, AddChannel, FindChannel, TakeChLock, ChannelOp,
         Qbuf, DelChannel, DestroyChannel, CloseFd, Goto, Return, At, ChannelOps
<1>5. \A u \in Threads \ {t} : call'[u] = call[u]
  BY <1>4 DEF Names
<1>6. \/ call'[t].op = call[t].op /\ call'[t].obj = call[t].obj
      \/ call[t].op \notin {"open", "close"} /\ call'[t].op \notin {"open", "close"}
  <2>1. CASE \E a : call' = [call EXCEPT ![t].at = a]
    BY <2>1 DEF Names, Call
  <2>2. CASE \E a, x : call' = [call EXCEPT ![t].s = x, ![t].at = a]
    BY <2>2 DEF Names, Call
  <2>3. CASE call' = [call EXCEPT ![t] = NoCall] /\ call[t].op \notin {"open", "close"}
    BY <2>3 DEF Names, NoCall
  <2> QED
    BY <1>4, <2>1, <2>2, <2>3
<1> QED
  BY <1>1, <1>3, <1>5, <1>6 DEF Quiet

LEMMA QuietCounts ==
  ASSUME Counted, RefsBounded, NEW t \in Threads, Quiet(t)
  PROVE  Counted' /\ RefsBounded'
<1>1. RefsBounded'
  BY DEF RefsBounded, Quiet
<1>2. \A u \in Threads :
        /\ call'[u].op = "open" <=> call[u].op = "open"
        /\ call[u].op \in {"open", "close"} =>
             call'[u].op = call[u].op /\ call'[u].obj = call[u].obj
  BY DEF Quiet
<1>3. Counted'
  BY <1>2 DEF Counted, Quiet
<1> QED
  BY <1>1, <1>3

LEMMA OpenAgainCounts ==
  ASSUME InterfaceAssumption, UseInv, Counted, RefsBounded, NEW t \in Threads, OpenAgain(t)
  PROVE  Counted' /\ RefsBounded'
<1> USE DEF UseInv
<1>1. /\ slot \in Ids /\ objs[slot].ref_count = users[slot] /\ users[slot] + 1 <= MaxRefs
      /\ users[slot] \in Nat
  BY DEF OpenAgain, SlotAlive, Names, InterfaceAssumption
<1>2. /\ slot' = slot /\ call' = call
      /\ users'[slot] = users[slot] + 1 /\ objs'[slot].ref_count = users[slot] + 1
      /\ \A i \in Ids : objs'[i].life = objs[i].life
      /\ \A i \in Ids \ {slot} : users'[i] = users[i] /\ objs'[i].ref_count = objs[i].ref_count
  BY <1>1 DEF OpenAgain, Names, Camera
<1>3. RefsBounded'
  BY <1>1, <1>2 DEF RefsBounded
<1>4. Counted'
  BY <1>1, <1>2 DEF Counted
<1> QED
  BY <1>3, <1>4

LEMMA OpenNewCounts ==
  ASSUME InterfaceAssumption, ~Overlap, UseInv, Counted, RefsBounded, NEW t \in Threads,
         OpenNew(t)
  PROVE  Counted' /\ RefsBounded'
<1> USE DEF UseInv
<1>1. PICK i \in Ids :
        /\ objs' = [objs EXCEPT ![i] =
              [life |-> "alive", ref_count |-> 1, cam_lock |-> t, fd |-> FALSE]]
        /\ call' = [call EXCEPT ![t] = [NoCall EXCEPT !.op = "open", !.at = "opening", !.obj = i]]
  BY ZenonT(30) DEF OpenNew
<1>2. /\ slot = NoCamera /\ slot' = slot /\ users' = users
      /\ \A u \in Threads : call[u].op # "open"
      /\ call[t].op = "none"
  BY DEF OpenNew, Opening, Idle, CallsWellFormed, NoCall
<1>3. /\ \A j \in Ids \ {i} : objs'[j] = objs[j]
      /\ objs'[i].ref_count = 1
      /\ \A u \in Threads \ {t} : call'[u] = call[u]
      /\ call'[t].op = "open" /\ call'[t].obj = i
  BY <1>1 DEF Names, NoCall
<1>4. RefsBounded'
  BY <1>2, <1>3 DEF RefsBounded, InterfaceAssumption
<1>5. Counted'
  BY <1>2, <1>3 DEF Counted
<1> QED
  BY <1>4, <1>5

LEMMA PublishCounts ==
  ASSUME InterfaceAssumption, UseInv, Counted, RefsBounded, NEW t \in Threads, Publish(t)
  PROVE  Counted' /\ RefsBounded'
<1> USE DEF UseInv
<1> DEFINE i == call[t].obj
<1>1. /\ i \in Ids /\ call[t].op = "open" /\ slot = NoCamera
      /\ \A u \in Threads \ {t} : call[u].op # "open"
  BY DEF Publish, At, CallsWellFormed, Idle, Counted
<1>2. /\ \A u \in Threads \ {t} : call'[u] = call[u]
      /\ call'[t].op = "none"
  BY DEF Publish, Return, Names, NoCall
<1>3. /\ \A j \in Ids \ {i} : objs'[j] = objs[j] /\ users'[j] = users[j]
      /\ objs'[i].ref_count = objs[i].ref_count
      /\ \/ slot' = i /\ users'[i] = 1
         \/ slot' = NoCamera /\ users' = users /\ objs'[i].life = "freed"
  BY <1>1 DEF Publish, Names, Camera
<1> HIDE DEF i
<1>4. RefsBounded'
  BY <1>1, <1>3 DEF RefsBounded, InterfaceAssumption
<1>5. Counted'
  <2>1. slot' # NoCamera => users'[slot'] > 0
    BY <1>3
  <2>2. ASSUME NEW j \in Ids, objs'[j].life = "alive", slot' # j
        PROVE  \E u \in Threads : call'[u].obj = j /\ call'[u].op \in {"open", "close"}
    <3>1. j # i
      BY <1>3, <2>2
    <3>2. objs[j].life = "alive" /\ slot # j
      BY <1>1, <1>3, <2>2, <3>1 DEF Ids, NoCamera
    <3> QED
      BY <1>2, <3>1, <3>2 DEF Counted, i
  <2> QED
    BY <1>1, <1>2, <2>1, <2>2 DEF Counted
<1> QED
  BY <1>4, <1>5

LEMMA CloseCounts ==
  ASSUME InterfaceAssumption, UseInv, Counted, RefsBounded, NEW t \in Threads, NEW i \in Ids,
         Close(t, i)
  PROVE  Counted' /\ RefsBounded'
<1> USE DEF UseInv
<1>1. /\ slot = i /\ i # NoCamera /\ call[t].op = "none"
      /\ objs[i].ref_count = users[i] /\ users[i] \in Nat \ {0}
  BY DEF Close, Found, MayCall, SlotAlive, Names, Idle, CallsWellFormed, NoCall, Ids, NoCamera
<1>2. /\ users'[i] = users[i] - 1 /\ objs'[i].ref_count = users[i] - 1
      /\ objs'[i].life = objs[i].life
      /\ \A j \in Ids \ {i} : objs'[j] = objs[j] /\ users'[j] = users[j]
  BY <1>1 DEF Close, Names, Camera
<1>3. RefsBounded'
  BY <1>1, <1>2 DEF RefsBounded, InterfaceAssumption
<1>4. CASE objs[i].ref_count > 1
  <2>1. slot' = slot /\ call' = call
    BY <1>4 DEF Close
  <2> QED
    BY <1>1, <1>2, <1>3, <1>4, <2>1 DEF Counted
<1>5. CASE ~(objs[i].ref_count > 1)
  <2>1. /\ slot' = NoCamera
        /\ call' = [call EXCEPT ![t] = [NoCall EXCEPT !.op = "close", !.at = "cam_lock", !.obj = i]]
    BY <1>5 DEF Close
  <2>2. /\ \A u \in Threads \ {t} : call'[u] = call[u]
        /\ call'[t].op = "close" /\ call'[t].obj = i
    BY <2>1 DEF Names, NoCall
  <2> QED
    BY <1>1, <1>2, <1>3, <2>1, <2>2 DEF Counted
<1> QED
  BY <1>4, <1>5

LEMMA CloseCameraCounts ==
  ASSUME InterfaceAssumption, UseInv, Counted, RefsBounded, NEW t \in Threads, CloseCamera(t)
  PROVE  Counted' /\ RefsBounded'
<1> USE DEF UseInv
<1> DEFINE i == call[t].obj
<1>1. i \in Ids /\ call[t].op = "close" /\ slot' = slot /\ users' = users
  BY DEF CloseCamera, At, CallsWellFormed, Idle
<1>2. /\ objs'[i].life = "freed" /\ objs'[i].ref_count = 0
      /\ \A j \in Ids \ {i} : objs'[j] = objs[j]
      /\ \A u \in Threads \ {t} : call'[u] = call[u]
      /\ call'[t].op = "none"
  BY <1>1 DEF CloseCamera, Return, Names, NoCall
<1>3. RefsBounded'
  BY <1>1, <1>2 DEF RefsBounded, InterfaceAssumption
<1>4. Counted'
  BY <1>1, <1>2 DEF Counted
<1> QED
  BY <1>3, <1>4

LEMMA NextCounts ==
  ASSUME InterfaceAssumption, ~Overlap, UseInv, Counted, RefsBounded, [Next]_vars
  PROVE  Counted' /\ RefsBounded'
<1>1. ASSUME NEW t \in Threads, Begin(t) PROVE Counted' /\ RefsBounded'
  <2> USE DEF UseInv
  <2>1. ASSUME NEW i \in Ids, NEW op \in CameraOps, CallCamera(t, i, op) PROVE Quiet(t)
    <3>1. (\A u \in Threads \ {t} : call'[u] = call[u]) /\ call'[t].op = op
      BY <2>1 DEF CallCamera, Names, NoCall
    <3>2. Idle(t) /\ UNCHANGED <<slot, objs, users>>
      BY <2>1 DEF CallCamera
    <3> QED
      BY <3>1, <3>2, CallsAreQuiet DEF CameraOps
  <2>2. ASSUME NEW i \in Ids, NEW h \in Handles, NEW op \in ChannelOps, CallChannel(t, i, h, op)
        PROVE  Quiet(t)
    <3>1. (\A u \in Threads \ {t} : call'[u] = call[u]) /\ call'[t].op = op
      BY <2>2 DEF CallChannel, Names, NoCall
    <3>2. Idle(t) /\ UNCHANGED <<slot, objs, users>>
      BY <2>2 DEF CallChannel
    <3> QED
      BY <3>1, <3>2, CallsAreQuiet DEF ChannelOps
  <2>3. ASSUME NEW i \in Ids, ErrorClose(t, i) PROVE Quiet(t)
    <3>1. (\A u \in Threads \ {t} : call'[u] = call[u]) /\ call'[t].op = "error_close"
      BY <2>3 DEF ErrorClose, Names, NoCall
    <3>2. Idle(t) /\ UNCHANGED <<slot, objs, users>>
      BY <2>3 DEF ErrorClose
    <3> QED
      BY <3>1, <3>2, CallsAreQuiet
  <2> HIDE DEF UseInv
  <2> QED
    BY <1>1, <2>1, <2>2, <2>3, OpenAgainCounts, OpenNewCounts, CloseCounts, QuietCounts DEF Begin
<1>2. ASSUME NEW t \in Threads, Continue(t) PROVE Counted' /\ RefsBounded'
  BY <1>2, PublishCounts, CloseCameraCounts, WorkIsQuiet, QuietCounts DEF Continue
<1>3. CASE UNCHANGED vars
  BY <1>3 DEF vars, Counted, RefsBounded
<1> QED
  BY <1>1, <1>2, <1>3 DEF Next

-----------------------------------------------------------------------------
(* Handles.  What TypeOK says of them is the bound MaxChannels: a call that    *)
(* adds a channel has its handle reserved from its start.                      *)

Adding == {t \in Threads : call[t].op = "add_channel"}
ChannelObject == [my_hdl : Handles \cup {0}, ch_lock : Threads \cup {NoOne}]

HandlesBounded ==
    /\ intf \in Threads \cup {NoOne}
    /\ hdls + Cardinality(Adding) <= MaxChannels
    /\ ch \in [Ids \X Slots -> ChannelObject]
    /\ \A t \in Threads : call[t].hdl \in Handles \cup {0}

\* A step of t that gives out no handle and starts no call that will.
GivesNone(t) ==
    /\ intf' \in Threads \cup {NoOne} /\ hdls' = hdls
    /\ ch' \in [Ids \X Slots -> ChannelObject]
    /\ \A u \in Threads \ {t} : call'[u] = call[u]
    /\ call'[t].op = "add_channel" => call[t].op = "add_channel"
    /\ call'[t].hdl \in Handles \cup {0}

LEMMA AddingFinite ==
  ASSUME InterfaceAssumption
  PROVE  /\ IsFiniteSet(Adding) /\ Cardinality(Adding) \in Nat
         /\ IsFiniteSet(Adding') /\ Cardinality(Adding') \in Nat
<1>1. Adding \in SUBSET Threads /\ Adding' \in SUBSET Threads /\ IsFiniteSet(Threads)
  BY DEF Adding, InterfaceAssumption
<1> HIDE DEF Adding
<1>2. IsFiniteSet(Adding) /\ IsFiniteSet(Adding')
  BY <1>1, FS_Subset
<1> QED
  BY <1>2, FS_CardinalityType

LEMMA InitHandles ==
  ASSUME InterfaceAssumption, Init
  PROVE  HandlesBounded
<1>1. Adding = {}
  BY DEF Init, Adding, NoCall
<1>2. Cardinality(Adding) = 0
  BY <1>1, FS_EmptySet
<1>3. hdls = 0 /\ MaxChannels \in Nat /\ intf = NoOne
  BY DEF Init, InterfaceAssumption
<1>4. ch \in [Ids \X Slots -> ChannelObject] /\ \A t \in Threads : call[t].hdl = 0
  BY DEF Init, ChannelObject, NoCall
<1> QED
  BY <1>2, <1>3, <1>4 DEF HandlesBounded

LEMMA GivesNoneKeeps ==
  ASSUME InterfaceAssumption, UseInv, HandlesBounded, NEW t \in Threads, GivesNone(t)
  PROVE  HandlesBounded'
<1>1. Adding' \in SUBSET Adding
  BY DEF GivesNone, Adding
<1>2. Cardinality(Adding') <= Cardinality(Adding)
  BY <1>1, AddingFinite, FS_Subset
<1>3. hdls' = hdls /\ hdls \in Nat /\ MaxChannels \in Nat
  BY DEF GivesNone, UseInv, Names, InterfaceAssumption
<1>4. hdls' + Cardinality(Adding') <= MaxChannels
  <2>1. hdls + Cardinality(Adding) <= MaxChannels
    BY DEF HandlesBounded
  <2> QED
    BY <1>2, <1>3, <2>1, AddingFinite
<1>5. \A u \in Threads : call'[u].hdl \in Handles \cup {0}
  BY DEF GivesNone, HandlesBounded
<1> QED
  BY <1>4, <1>5 DEF GivesNone, HandlesBounded

\* The bound counts the calls under way (MayCall).
LEMMA AddCallKeeps ==
  ASSUME InterfaceAssumption, UseInv, HandlesBounded, NEW t \in Threads, NEW i \in Ids,
         CallCamera(t, i, "add_channel")
  PROVE  HandlesBounded'
<1>1. /\ \A u \in Threads \ {t} : call'[u] = call[u]
      /\ call'[t].op = "add_channel" /\ call'[t].hdl = 0
  BY DEF CallCamera, UseInv, Names, NoCall
<1>2. hdls' = hdls /\ ch' = ch /\ intf' = t /\ Idle(t) /\ hdls \in Nat /\ MaxChannels \in Nat
  BY DEF CallCamera, UseInv, Names, InterfaceAssumption
<1>3. hdls + Cardinality(Adding) < MaxChannels
  BY DEF CallCamera, MayCall, Adding
<1>4. call[t].op = "none"
  BY <1>2 DEF UseInv, CallsWellFormed, NoCall
<1>5. Adding' = Adding \cup {t} /\ t \notin Adding
  BY <1>1, <1>4 DEF Adding
<1>6. Cardinality(Adding') = Cardinality(Adding) + 1
  BY <1>5, AddingFinite, FS_AddElement
<1>7. hdls' + Cardinality(Adding') <= MaxChannels
  BY <1>2, <1>3, <1>6, AddingFinite
<1> QED
  BY <1>1, <1>2, <1>7 DEF HandlesBounded

LEMMA AddChannelGives ==
  ASSUME InterfaceAssumption, UseInv, HandlesBounded, NEW t \in Threads, AddChannel(t)
  PROVE  HandlesBounded'
<1> DEFINE i == call[t].obj
<1>1. /\ \A u \in Threads \ {t} : call'[u] = call[u]
      /\ call'[t].op = "none" /\ call'[t].hdl = 0
      /\ call[t].op = "add_channel" /\ i \in Ids /\ intf' = intf
  BY DEF AddChannel, Return, At, UseInv, Names, NoCall, CallsWellFormed, Idle
<1>2. Adding' = Adding \ {t} /\ t \in Adding
  BY <1>1 DEF Adding
<1>3. Cardinality(Adding') = Cardinality(Adding) - 1
  BY <1>2, AddingFinite, FS_RemoveElement
<1>4. hdls \in Nat /\ MaxChannels \in Nat /\ hdls + Cardinality(Adding) <= MaxChannels
  BY DEF UseInv, Names, InterfaceAssumption, HandlesBounded
<1>5. hdls + 1 \in Handles
  <2>1. Cardinality(Adding) >= 1
    BY <1>3, AddingFinite
  <2> QED
    BY <1>4, <2>1, AddingFinite DEF Handles
<1>6. \/ hdls' = hdls /\ ch' = ch
      \/ /\ hdls' = hdls + 1
         /\ \E s \in Slots : ch' = [ch EXCEPT ![<<i, s>>] = [my_hdl |-> hdls + 1, ch_lock |-> NoOne]]
  BY DEF AddChannel, SlotOf
<1>7. hdls' + Cardinality(Adding') <= MaxChannels
  BY <1>3, <1>4, <1>6, AddingFinite
<1>8. ch' \in [Ids \X Slots -> ChannelObject]
  <2>1. [my_hdl |-> hdls + 1, ch_lock |-> NoOne] \in ChannelObject
    BY <1>5 DEF ChannelObject
  <2>2. ch \in [Ids \X Slots -> ChannelObject]
    BY DEF HandlesBounded
  <2> QED
    BY <1>6, <2>1, <2>2
<1> QED
  BY <1>1, <1>7, <1>8 DEF HandlesBounded

\* A step that only locks, unlocks or clears a channel leaves a channel.
LEMMA ChannelStays ==
  ASSUME NEW f \in [Ids \X Slots -> ChannelObject], NEW x, NEW o \in Threads \cup {NoOne}
  PROVE  /\ [f EXCEPT ![x].ch_lock = o] \in [Ids \X Slots -> ChannelObject]
         /\ [f EXCEPT ![x] = [my_hdl |-> 0, ch_lock |-> NoOne]] \in [Ids \X Slots -> ChannelObject]
<1>1. [f EXCEPT ![x].ch_lock = o] \in [Ids \X Slots -> ChannelObject]
  <2>1. ASSUME x \in Ids \X Slots PROVE [f[x] EXCEPT !.ch_lock = o] \in ChannelObject
    BY <2>1 DEF ChannelObject
  <2> QED
    BY <2>1
<1>2. [my_hdl |-> 0, ch_lock |-> NoOne] \in ChannelObject
  BY DEF ChannelObject
<1> QED
  BY <1>1, <1>2

\* The calls that start, the adding of a channel apart, and opens and closes.
LEMMA BeginGivesNone ==
  ASSUME InterfaceAssumption, UseInv, HandlesBounded, NEW t \in Threads,
         UNCHANGED <<ch, hdls>>, intf' \in {intf, t},
         \A u \in Threads \ {t} : call'[u] = call[u],
         \/ call' = call
         \/ call'[t].op # "add_channel" /\ call'[t].hdl \in Handles \cup {0}
  PROVE  GivesNone(t)
  BY DEF HandlesBounded, GivesNone

\* What a call does under its locks, the adding of a channel apart.
LEMMA WorkGivesNone ==
  ASSUME InterfaceAssumption, UseInv, HandlesBounded, NEW t \in Threads,
         \/ DeviceOpen(t) \/ Publish(t) \/ TakeCamLock(t) \/ CameraOp(t) \/ FindChannel(t)
         \/ TakeChLock(t) \/ ChannelOp(t) \/ Qbuf(t) \/ DelChannel(t) \/ DestroyChannel(t)
         \/ CloseCamera(t) \/ CloseFd(t)
  PROVE  GivesNone(t)
<1> DEFINE x == <<call[t].obj, call[t].s>>
<1>1. hdls' = hdls /\ intf' \in {intf, NoOne}
  BY DEF DeviceOpen, Publish, TakeCamLock, CameraOp, FindChannel, TakeChLock, ChannelOp,
         Qbuf, DelChannel, DestroyChannel, CloseCamera, CloseFd
<1>2. \/ ch' = ch
      \/ \E o \in Threads \cup {NoOne} : ch' = [ch EXCEPT ![x].ch_lock = o]
      \/ ch' = [ch EXCEPT ![x] = [my_hdl |-> 0, ch_lock |-> NoOne]]
  BY DEF DeviceOpen, Publish, TakeCamLock, CameraOp, FindChannel, TakeChLock, ChannelOp,
         Qbuf, DelChannel, DestroyChannel, CloseCamera, CloseFd
<1> HIDE DEF x
<1>3. ch' \in [Ids \X Slots -> ChannelObject]
  <2>1. ch \in [Ids \X Slots -> ChannelObject]
    BY DEF HandlesBounded
  <2>2. CASE \E o \in Threads \cup {NoOne} : ch' = [ch EXCEPT ![x].ch_lock = o]
    <3>1. PICK o \in Threads \cup {NoOne} : ch' = [ch EXCEPT ![x].ch_lock = o]
      BY <2>2
    <3> QED
      BY <2>1, <3>1, ChannelStays
  <2>3. CASE ch' = [ch EXCEPT ![x] = [my_hdl |-> 0, ch_lock |-> NoOne]]
    BY <2>1, <2>3, ChannelStays
  <2> QED
    BY <1>2, <2>1, <2>2, <2>3
<1>4. \/ \E a : call' = [call EXCEPT ![t].at = a]
      \/ \E a, s : call' = [call EXCEPT ![t].s = s, ![t].at = a]
      \/ call' = [call EXCEPT ![t] = NoCall]
  BY DEF DeviceOpen, Publish, TakeCamLock, CameraOp, FindChannel, TakeChLock, ChannelOp,
         Qbuf, DelChannel, DestroyChannel, CloseCamera, CloseFd, Goto, Return
<1>5. /\ \A u \in Threads \ {t} : call'[u] = call[u]
      /\ call'[t].op = "add_channel" => call[t].op = "add_channel"
      /\ call'[t].hdl \in {call[t].hdl, 0}
  <2> USE DEF UseInv, Names
  <2>1. CASE \E a : call' = [call EXCEPT ![t].at = a]
    BY <2>1 DEF Call
  <2>2. CASE \E a, s : call' = [call EXCEPT ![t].s = s, ![t].at = a]
    BY <2>2 DEF Call
  <2>3. CASE call' = [call EXCEPT ![t] = NoCall]
    BY <2>3 DEF NoCall
  <2> QED
    BY <1>4, <2>1, <2>2, <2>3
<1> QED
  BY <1>1, <1>3, <1>5 DEF HandlesBounded, GivesNone

LEMMA NextHandles ==
  ASSUME InterfaceAssumption, UseInv, HandlesBounded, [Next]_vars
  PROVE  HandlesBounded'
<1>1. ASSUME NEW t \in Threads, Begin(t) PROVE HandlesBounded'
  <2> USE DEF UseInv, Names
  <2>1. ASSUME OpenAgain(t) PROVE GivesNone(t)
    BY <2>1, BeginGivesNone DEF OpenAgain
  <2>2. ASSUME OpenNew(t) PROVE GivesNone(t)
    <3>1. (\A u \in Threads \ {t} : call'[u] = call[u]) /\ call'[t].op = "open" /\ call'[t].hdl = 0
      BY <2>2 DEF OpenNew, NoCall
    <3>2. UNCHANGED <<intf, ch, hdls>>
      BY <2>2 DEF OpenNew
    <3> QED
      BY <3>1, <3>2, BeginGivesNone
  <2>3. ASSUME NEW i \in Ids, CallCamera(t, i, "camera") PROVE GivesNone(t)
    <3>1. (\A u \in Threads \ {t} : call'[u] = call[u]) /\ call'[t].op = "camera" /\ call'[t].hdl = 0
      BY <2>3 DEF CallCamera, NoCall
    <3>2. UNCHANGED <<ch, hdls>> /\ intf' = t
      BY <2>3 DEF CallCamera
    <3> QED
      BY <3>1, <3>2, BeginGivesNone
  <2>4. ASSUME NEW i \in Ids, NEW h \in Handles, NEW op \in ChannelOps, CallChannel(t, i, h, op)
        PROVE  GivesNone(t)
    <3>1. (\A u \in Threads \ {t} : call'[u] = call[u]) /\ call'[t].op = op /\ call'[t].hdl = h
      BY <2>4 DEF CallChannel, NoCall
    <3>2. UNCHANGED <<ch, hdls>> /\ intf' = t
      BY <2>4 DEF CallChannel
    <3> QED
      BY <3>1, <3>2, BeginGivesNone DEF ChannelOps
  <2>5. ASSUME NEW i \in Ids, Close(t, i) PROVE GivesNone(t)
    <3>1. UNCHANGED <<ch, hdls>> /\ intf' \in {intf, t}
      BY <2>5 DEF Close
    <3>2. CASE call' = call
      BY <3>1, <3>2, BeginGivesNone
    <3>3. CASE call' = [call EXCEPT ![t] = [NoCall EXCEPT !.op = "close", !.at = "cam_lock", !.obj = i]]
      <4>1. (\A u \in Threads \ {t} : call'[u] = call[u]) /\ call'[t].op = "close" /\ call'[t].hdl = 0
        BY <3>3 DEF NoCall
      <4> QED
        BY <3>1, <4>1, BeginGivesNone
    <3> QED
      BY <2>5, <3>2, <3>3 DEF Close
  <2>6. ASSUME NEW i \in Ids, ErrorClose(t, i) PROVE GivesNone(t)
    <3>1. /\ \A u \in Threads \ {t} : call'[u] = call[u]
          /\ call'[t].op = "error_close" /\ call'[t].hdl = 0
      BY <2>6 DEF ErrorClose, NoCall
    <3>2. UNCHANGED <<ch, hdls>> /\ intf' = t
      BY <2>6 DEF ErrorClose
    <3> QED
      BY <3>1, <3>2, BeginGivesNone
  <2> HIDE DEF UseInv, Names
  <2> QED
    BY <1>1, <2>1, <2>2, <2>3, <2>4, <2>5, <2>6, AddCallKeeps, GivesNoneKeeps
       DEF Begin, CameraOps
<1>2. ASSUME NEW t \in Threads, Continue(t) PROVE HandlesBounded'
  BY <1>2, AddChannelGives, WorkGivesNone, GivesNoneKeeps DEF Continue
<1>3. CASE UNCHANGED vars
  <2>1. Adding' = Adding
    BY <1>3 DEF vars, Adding
  <2> QED
    BY <1>3, <2>1 DEF vars, HandlesBounded
<1> QED
  BY <1>1, <1>2, <1>3 DEF Next

-----------------------------------------------------------------------------

SoundInv == UseInv /\ ChannelInv /\ Counted /\ RefsBounded /\ HandlesBounded

LEMMA SoundTypes ==
  ASSUME InterfaceAssumption, SoundInv
  PROVE  TypeOK
<1> USE DEF SoundInv, UseInv
<1>1. objs \in [Ids -> [life : {"none", "alive", "freed"}, ref_count : 0..MaxRefs,
                        cam_lock : Threads \cup {NoOne}, fd : BOOLEAN]]
  <2>1. \A i \in Ids : objs[i].ref_count \in 0..MaxRefs
    BY DEF Names, Camera, RefsBounded, InterfaceAssumption
  <2>2. objs \in [Ids -> Camera]
    BY DEF Names
  <2> QED
    BY <2>1, <2>2 DEF Camera
<1>2. users \in [Ids -> 0..MaxRefs]
  BY DEF Names, RefsBounded, InterfaceAssumption
<1>3. hdls \in 0..MaxChannels
  BY AddingFinite DEF Names, HandlesBounded, InterfaceAssumption
<1>4. call \in [Threads ->
         [op : {"none", "open", "close", "error_close"} \cup CameraOps \cup ChannelOps,
          at : {"idle", "cam_lock", "locked", "ch_lock", "fsm", "destroy", "opening", "publish"},
          obj : Ids \cup {0}, hdl : Handles \cup {0}, s : Slots \cup {0}]]
  <2>1. call \in [Threads -> Call] /\ \A t \in Threads : call[t].hdl \in Handles \cup {0}
    BY DEF Names, HandlesBounded
  <2> QED
    BY <2>1 DEF Call
<1> QED
  BY <1>1, <1>2, <1>3, <1>4 DEF TypeOK, Names, HandlesBounded, ChannelObject

LEMMA SoundHolds ==
  ASSUME InterfaceAssumption, SoundInv
  PROVE  InterfaceSound
<1>1. TypeOK
  BY SoundTypes
<1>2. NoUseAfterFree
  BY DEF SoundInv, UseInv
<1>3. ActsOnItsChannel
  BY DEF SoundInv, UseInv, ChannelInv, OnItsChannel, ActsOnItsChannel, CallsWellFormed,
         ChannelOps, Control
<1>4. ReferencesCounted
  BY DEF SoundInv, UseInv, SlotAlive, Counted, ReferencesCounted, Ids, NoCamera
<1> QED
  BY <1>1, <1>2, <1>3, <1>4 DEF InterfaceSound

\* Where opens of the camera do not overlap, every call works on a living camera
\* and on its own channel, and a camera is alive exactly as long as a user has it
\* open or a thread is on its way in or out with it, for any number of threads,
\* cameras, channels and slots.
THEOREM InterfaceIsSound ==
  ASSUME InterfaceAssumption, ~Overlap
  PROVE  Spec => []InterfaceSound
<1>1. Init => SoundInv
  BY InitUse, InitChannels, InitCounted, InitHandles DEF SoundInv
<1>2. SoundInv /\ [Next]_vars => SoundInv'
  BY NextUse, NextChannels, NextCounts, NextHandles DEF SoundInv
<1>3. SoundInv => InterfaceSound
  BY SoundHolds
<1> QED
  BY <1>1, <1>2, <1>3, PTL DEF Spec

-----------------------------------------------------------------------------
(***************************************************************************)
(* The requests to the daemon (MapRequests), for any number of threads,    *)
(* callbacks and requests, a daemon that may die at any moment, events that*)
(* arrive among the answers, and answers that come before or after the     *)
(* time limit, or never.                                                   *)
(***************************************************************************)

\* The instance counts as this module does.
LEMMA SameCardinality == \A S : Requests!Cardinality(S) = Cardinality(S)
BY DEF Requests!Cardinality, Cardinality

-----------------------------------------------------------------------------
(* The inductive invariant: answers and requests on their way are all later *)
(* than the answers that were taken, and lag by one request for each that   *)
(* was given up.  A request takes the oldest of them.                       *)

\* No later than the last request, later than every answer that was taken, and not
\* further behind the request that waits, or else the next one, than the requests
\* that were given up.
Fresh(n) ==
    /\ n \in 1..sent /\ \A r \in Requests!Requests : taken[r] < n
    /\ sent - n <= Cardinality(givenUp)
    /\ msg_lock = Requests!NoOne => sent + 1 - n <= Cardinality(givenUp)

SocketPart == \A i \in DOMAIN socket : Fresh(socket[i]) /\ socket[i] \notin requestMapped
KernelPart ==
    \A i \in Requests!Reports :
        /\ Fresh(kernelEvents[i].req)
        /\ kernelEvents[i].ok <=> kernelEvents[i].req \in requestMapped
KeptPart ==
    evt_rcvd # Requests!Nothing =>
        Fresh(evt_rcvd.req) /\ (evt_rcvd.ok <=> evt_rcvd.req \in requestMapped)

\* msg_lock is held from the sending to the return; until it is sent, there is
\* nothing of the request.
Locked ==
    \A t \in Requesters :
        /\ wait[t].at # "idle" <=> msg_lock = t
        /\ wait[t].at # "idle" =>
              wait[t].req = sent /\ sent \in Requests!Requests /\ sent \notin givenUp /\ taken[sent] = 0
        /\ wait[t].at = "send" =>
              /\ sent \notin requestMapped /\ \A i \in DOMAIN socket : socket[i] # sent
              /\ \A i \in Requests!Reports : kernelEvents[i].req # sent
              /\ evt_rcvd.req # sent

\* What was taken, and what came of it.
Past ==
    /\ requestMapped \subseteq 1..sent /\ givenUp \subseteq 1..sent
    /\ \A r \in Requests!Requests :
          /\ taken[r] # 0 => r <= sent
          /\ r \in believed => taken[r] \in requestMapped
          /\ r \in denied \ givenUp => taken[r] \in Requests!Requests \ requestMapped
    /\ Requests!AnswersInOrder

RequestInv ==
    /\ Requests!TypeOK /\ Locked /\ Past
    /\ SocketPart /\ KernelPart /\ KeptPart /\ Requests!InOrder

-----------------------------------------------------------------------------
(* Counting the requests that were given up. *)

\* There are finitely many, and one more when a request joins them.
LEMMA GivenUpCounted ==
  ASSUME Requests!TypeOK, givenUp \subseteq 1..sent
  PROVE  /\ IsFiniteSet(givenUp) /\ Cardinality(givenUp) \in Nat
         /\ sent \notin givenUp => Cardinality(givenUp \cup {sent}) = Cardinality(givenUp) + 1
<1>1. IsFiniteSet(1..sent)
  BY FS_Interval DEF Requests!TypeOK
<1>2. IsFiniteSet(givenUp)
  BY <1>1, FS_Subset
<1> QED
  BY <1>2, FS_CardinalityType, FS_AddElement

\* A request or an answer is no less fresh for a step that changes none of what
\* this depends on.
LEMMA FreshStays ==
  ASSUME NEW n \in Nat, Fresh(n), UNCHANGED <<sent, taken, msg_lock, givenUp>>
  PROVE  Fresh(n)'
BY DEF Fresh

\* The numbers on the way are natural numbers.
LEMMA NumbersOnTheWay ==
  ASSUME Requests!RequestsAssumption, Requests!TypeOK
  PROVE  /\ MaxRequests \in Nat /\ sent \in Nat
         /\ DOMAIN socket = 1..Len(socket) /\ Len(socket) \in Nat
         /\ DOMAIN kernelEvents = 1..Len(kernelEvents) /\ Len(kernelEvents) \in Nat
         /\ \A i \in DOMAIN socket : socket[i] \in Requests!Requests /\ socket[i] \in Nat
         /\ \A i \in DOMAIN kernelEvents :
               kernelEvents[i] \in Requests!Event /\ kernelEvents[i].req \in Nat
         /\ evt_rcvd.req \in Nat
         /\ \A r \in Requests!Requests : r \in Nat /\ taken[r] \in Nat
<1>1. MaxRequests \in Nat
  BY DEF Requests!RequestsAssumption
<1>2. sent \in Nat /\ \A r \in Requests!Requests : r \in Nat /\ taken[r] \in Nat
  BY <1>1 DEF Requests!TypeOK, Requests!Requests
<1>3. /\ DOMAIN socket = 1..Len(socket) /\ Len(socket) \in Nat
      /\ DOMAIN kernelEvents = 1..Len(kernelEvents) /\ Len(kernelEvents) \in Nat
      /\ \A i \in DOMAIN socket : socket[i] \in Requests!Requests
      /\ \A i \in DOMAIN kernelEvents : kernelEvents[i] \in Requests!Event
  BY DEF Requests!TypeOK
<1>4. \A e \in Requests!Event : e.req \in Nat
  BY <1>1 DEF Requests!Event
<1>5. evt_rcvd.req \in Nat
  BY <1>4 DEF Requests!TypeOK, Requests!Nothing
<1> QED
  BY <1>1, <1>2, <1>3, <1>4, <1>5

\* What is on its way stays where it is, or the answer that was kept goes.
LEMMA OnTheWayStays ==
  ASSUME RequestInv, UNCHANGED <<socket, kernelEvents, requestMapped>>,
         evt_rcvd' = Requests!Nothing \/ (evt_rcvd' = evt_rcvd /\ KeptPart'),
         \A i \in DOMAIN socket : \A n \in {socket[i]} : Fresh(n)',
         \A i \in Requests!Reports : \A n \in {kernelEvents[i].req} : Fresh(n)'
  PROVE  SocketPart' /\ KernelPart' /\ KeptPart' /\ Requests!InOrder'
<1>1. Requests!Reports' = Requests!Reports
  BY DEF Requests!Reports
<1>2. SocketPart'
  BY DEF RequestInv, SocketPart
<1>3. KernelPart'
  BY <1>1 DEF RequestInv, KernelPart
<1>4. KeptPart'
  BY DEF KeptPart
<1>5. Requests!InOrder'
  BY <1>1 DEF RequestInv, Requests!InOrder
<1> QED
  BY <1>2, <1>3, <1>4, <1>5

-----------------------------------------------------------------------------
(* Its steps. *)

LEMMA InitRequests ==
  ASSUME Requests!RequestsAssumption, Requests!Init
  PROVE  RequestInv
<1>0. MaxRequests \in Nat
  BY DEF Requests!RequestsAssumption
<1>1. Requests!TypeOK
  BY <1>0, EmptySeq DEF Requests!RequestsAssumption, Requests!Init, Requests!TypeOK, Requests!Requests, Requests!Event
<1>2. DOMAIN socket = {} /\ DOMAIN kernelEvents = {} /\ Requests!Reports = {}
  BY DEF Requests!Init, Requests!Reports
<1>3. Locked
  BY DEF Requests!Init, Locked, Requests!RequestsAssumption
<1>4. \A r \in Requests!Requests : taken[r] = 0
  BY DEF Requests!Init
<1>5. Past
  BY <1>4 DEF Requests!Init, Past, Requests!AnswersInOrder
<1>6. SocketPart /\ KernelPart /\ KeptPart /\ Requests!InOrder
  BY <1>2 DEF Requests!Init, SocketPart, KernelPart, KeptPart, Requests!InOrder
<1> QED
  BY <1>1, <1>3, <1>5, <1>6 DEF RequestInv

\* A request gets the next number: it is one further from what is on its way, which
\* was counted from the next one.
LEMMA RequestKeeps ==
  ASSUME Requests!RequestsAssumption, RequestInv, Requests!TypeOK', NEW t \in Requesters, Requests!Request(t)
  PROVE  RequestInv'
<1>1. /\ msg_lock = Requests!NoOne /\ msg_lock' = t /\ msg_lock' # Requests!NoOne /\ sent' = sent + 1
      /\ \A u \in Requesters : wait'[u] = IF u = t THEN [at |-> "send", req |-> sent + 1] ELSE wait[u]
      /\ UNCHANGED <<socket, kernelEvents, evt_rcvd, requestMapped, believed, denied, taken, givenUp>>
  BY DEF Requests!Request, RequestInv, Requests!TypeOK, Requests!resultVars, Requests!RequestsAssumption
<1>2. sent \in Nat /\ sent' \in Requests!Requests /\ givenUp \subseteq 1..sent
  BY <1>1, NumbersOnTheWay DEF RequestInv, Requests!Request, Requests!Requests, Past
<1>3. Cardinality(givenUp) \in Nat
  BY <1>2, GivenUpCounted DEF RequestInv
<1>4. ASSUME NEW n \in Nat, Fresh(n) PROVE Fresh(n)' /\ n # sent'
  BY <1>1, <1>2, <1>3, <1>4 DEF Fresh
<1>5. /\ \A i \in DOMAIN socket : \A n \in {socket[i]} : Fresh(n)' /\ n # sent'
      /\ \A i \in Requests!Reports : \A n \in {kernelEvents[i].req} : Fresh(n)' /\ n # sent'
      /\ evt_rcvd # Requests!Nothing => KeptPart' /\ evt_rcvd.req # sent'
  <2>1. \A i \in DOMAIN socket : \A n \in {socket[i]} : Fresh(n)' /\ n # sent'
    BY <1>4, NumbersOnTheWay DEF RequestInv, SocketPart
  <2>2. \A i \in Requests!Reports : \A n \in {kernelEvents[i].req} : Fresh(n)' /\ n # sent'
    BY <1>4, NumbersOnTheWay DEF RequestInv, KernelPart, Requests!Reports
  <2>3. ASSUME evt_rcvd # Requests!Nothing PROVE KeptPart' /\ evt_rcvd.req # sent'
    <3>1. evt_rcvd.req \in Nat /\ Fresh(evt_rcvd.req)
      BY <2>3, NumbersOnTheWay DEF RequestInv, KeptPart
    <3>2. \A n \in {evt_rcvd.req} : Fresh(n)' /\ n # sent'
      BY <1>4, <3>1
    <3> QED
      BY <1>1, <3>2 DEF RequestInv, KeptPart
  <2> QED
    BY <2>1, <2>2, <2>3
<1>6. SocketPart' /\ KernelPart' /\ KeptPart' /\ Requests!InOrder'
  <2>1. KeptPart'
    BY <1>1, <1>5 DEF KeptPart
  <2> QED
    BY <1>1, <1>5, <2>1, OnTheWayStays
<1>7. Past'
  <2>1. Requests!AnswersInOrder'
    BY <1>1 DEF RequestInv, Past, Requests!AnswersInOrder, Requests!GivenUpBefore
  <2>2. 1..sent \subseteq 1..sent' /\ \A r \in Requests!Requests : r <= sent => r <= sent'
    BY <1>1, <1>2, NumbersOnTheWay DEF RequestInv
  <2> QED
    BY <1>1, <2>1, <2>2 DEF RequestInv, Past
<1>8. Locked'
  <2>1. \A u \in Requesters : wait[u].at = "idle"
    BY <1>1 DEF RequestInv, Locked, Requests!RequestsAssumption
  <2>2. sent' \notin givenUp /\ sent' \notin requestMapped /\ taken[sent'] = 0
    BY <1>1, <1>2, NumbersOnTheWay DEF RequestInv, Past
  <2>3. evt_rcvd.req # sent'
    BY <1>1, <1>2, <1>5 DEF Requests!Nothing
  <2>4. Requests!Reports' = Requests!Reports
    BY <1>1 DEF Requests!Reports
  <2> QED
    BY <1>1, <1>2, <1>5, <2>1, <2>2, <2>3, <2>4 DEF Locked
<1> QED
  BY <1>6, <1>7, <1>8 DEF RequestInv

\* A request that gives up leaves what is on its way one further behind, and is
\* counted for it.
LEMMA GiveUpKeeps ==
  ASSUME Requests!RequestsAssumption, RequestInv, Requests!TypeOK', NEW t \in Requesters,
         wait[t].at # "idle", Requests!GiveUp(t),
         UNCHANGED <<socket, kernelEvents, sent, requestMapped>>,
         evt_rcvd' \in {evt_rcvd, Requests!Nothing}
  PROVE  RequestInv'
<1>1. /\ wait[t].req = sent /\ msg_lock = t /\ sent \in Requests!Requests
      /\ sent \notin givenUp /\ taken[sent] = 0
      /\ msg_lock' = Requests!NoOne /\ UNCHANGED <<believed, taken>>
      /\ denied' = denied \cup {sent} /\ givenUp' = givenUp \cup {sent}
  BY DEF RequestInv, Locked, Requests!GiveUp, Requests!Return
<1>2. sent \in Nat /\ givenUp \subseteq 1..sent /\ givenUp' \subseteq 1..sent
  <2>1. sent \in Nat /\ givenUp \subseteq 1..sent /\ sent \in 1..sent
    BY <1>1, NumbersOnTheWay DEF RequestInv, Past, Requests!Requests
  <2> QED
    BY <1>1, <2>1
<1>3. /\ Cardinality(givenUp) \in Nat
      /\ Cardinality(givenUp') = Cardinality(givenUp) + 1
  BY <1>1, <1>2, GivenUpCounted DEF RequestInv
<1>4. ASSUME NEW n \in Nat, Fresh(n) PROVE Fresh(n)'
  BY <1>1, <1>2, <1>3, <1>4 DEF Fresh
<1>5. SocketPart' /\ KernelPart' /\ KeptPart' /\ Requests!InOrder'
  <2>1. \A i \in DOMAIN socket : \A n \in {socket[i]} : Fresh(n)'
    BY <1>4, NumbersOnTheWay DEF RequestInv, SocketPart
  <2>2. \A i \in Requests!Reports : \A n \in {kernelEvents[i].req} : Fresh(n)'
    BY <1>4, NumbersOnTheWay DEF RequestInv, KernelPart, Requests!Reports
  <2>3. ASSUME evt_rcvd' # Requests!Nothing PROVE KeptPart'
    <3>1. evt_rcvd' = evt_rcvd /\ evt_rcvd.req \in Nat /\ Fresh(evt_rcvd.req)
      BY <2>3, NumbersOnTheWay DEF RequestInv, KeptPart
    <3>2. \A n \in {evt_rcvd.req} : Fresh(n)'
      BY <1>4, <3>1
    <3> QED
      BY <2>3, <3>1, <3>2 DEF RequestInv, KeptPart
  <2> QED
    BY <2>1, <2>2, <2>3, OnTheWayStays
<1>6. Past'
  <2>1. \A r \in Requests!Requests : taken[r] # 0 => Requests!GivenUpBefore(r)' = Requests!GivenUpBefore(r)
    BY <1>1, <1>2, NumbersOnTheWay DEF RequestInv, Past, Requests!GivenUpBefore
  <2>2. Requests!AnswersInOrder'
    BY <1>1, <2>1, SameCardinality DEF RequestInv, Past, Requests!AnswersInOrder
  <2> QED
    BY <1>1, <1>2, <2>2 DEF RequestInv, Past
<1>7. Locked'
  <2>1. \A u \in Requesters : wait'[u].at = "idle"
    BY <1>1 DEF RequestInv, Requests!TypeOK, Locked, Requests!GiveUp, Requests!Return
  <2>2. msg_lock' \notin Requesters
    BY <1>1 DEF Requests!RequestsAssumption
  <2> QED
    BY <2>1, <2>2 DEF Locked
<1> QED
  BY <1>5, <1>6, <1>7 DEF RequestInv

\* What is sent is the latest request, and comes last.
LEMMA SendKeeps ==
  ASSUME Requests!RequestsAssumption, RequestInv, Requests!TypeOK', NEW t \in Requesters, Requests!Send(t)
  PROVE  RequestInv'
<1>1. CASE daemon # "alive"
  <2>1. /\ Requests!GiveUp(t) /\ evt_rcvd' = evt_rcvd /\ wait[t].at # "idle"
        /\ UNCHANGED <<socket, kernelEvents, sent, requestMapped>>
    BY <1>1 DEF Requests!Send
  <2> QED
    BY <2>1, GiveUpKeeps
<1>2. CASE daemon = "alive"
  <2>1. /\ wait[t].at = "send" /\ wait[t].req = sent /\ msg_lock = t /\ sent \in Requests!Requests
        /\ sent \notin requestMapped /\ taken[sent] = 0 /\ evt_rcvd.req # sent
        /\ \A i \in DOMAIN socket : socket[i] # sent
        /\ \A i \in Requests!Reports : kernelEvents[i].req # sent
    BY DEF RequestInv, Locked, Requests!Send
  <2>2. /\ socket' = Append(socket, sent) /\ wait' = [wait EXCEPT ![t].at = "wait"]
        /\ UNCHANGED <<kernelEvents, evt_rcvd, sent, requestMapped, msg_lock, believed, denied, taken, givenUp>>
    BY <1>2, <2>1 DEF Requests!Send, Requests!resultVars
  <2>3. /\ DOMAIN socket' = 1..(Len(socket) + 1) /\ DOMAIN socket = 1..Len(socket) /\ Len(socket) \in Nat
        /\ socket'[Len(socket) + 1] = sent
        /\ \A i \in DOMAIN socket : socket'[i] = socket[i]
    BY <2>1, <2>2 DEF RequestInv, Requests!TypeOK
  <2>4. sent \in Nat /\ Cardinality(givenUp) \in Nat /\ msg_lock # Requests!NoOne
    BY <2>1, NumbersOnTheWay, GivenUpCounted DEF RequestInv, Past, Requests!RequestsAssumption
  <2>5. \A r \in Requests!Requests : taken[r] < sent
    BY <2>1, <2>4, NumbersOnTheWay DEF RequestInv, Past, Requests!AnswersInOrder, Requests!Requests
  <2>6. \A n \in {sent} : Fresh(n)'
    BY <2>1, <2>2, <2>4, <2>5 DEF Fresh, Requests!Requests
  <2>7. /\ \A i \in DOMAIN socket : socket[i] \in Nat /\ Fresh(socket[i]) /\ socket[i] < sent
        /\ \A i \in Requests!Reports : kernelEvents[i].req \in Nat /\ Fresh(kernelEvents[i].req) /\ kernelEvents[i].req < sent
        /\ evt_rcvd # Requests!Nothing =>
              evt_rcvd.req \in Nat /\ Fresh(evt_rcvd.req) /\ evt_rcvd.req < sent
    <3>1. ASSUME NEW n \in Nat, Fresh(n), n # sent PROVE n < sent
      BY <2>4, <3>1 DEF Fresh
    <3>2. \A i \in DOMAIN socket : socket[i] \in Nat /\ Fresh(socket[i]) /\ socket[i] < sent
      BY <2>1, <3>1, NumbersOnTheWay DEF RequestInv, SocketPart
    <3>3. \A i \in Requests!Reports : kernelEvents[i].req \in Nat /\ Fresh(kernelEvents[i].req) /\ kernelEvents[i].req < sent
      BY <2>1, <3>1, NumbersOnTheWay DEF RequestInv, KernelPart, Requests!Reports
    <3>4. evt_rcvd # Requests!Nothing => evt_rcvd.req \in Nat /\ Fresh(evt_rcvd.req) /\ evt_rcvd.req < sent
      BY <2>1, <3>1, NumbersOnTheWay DEF RequestInv, KeptPart
    <3> QED
      BY <3>2, <3>3, <3>4
  <2>8. \A n \in Nat : Fresh(n) => Fresh(n)'
    BY <2>2, FreshStays
  <2>9. Requests!Reports' = Requests!Reports
    BY <2>2 DEF Requests!Reports
  <2>10. SocketPart'
    <3>1. ASSUME NEW i \in DOMAIN socket' PROVE \A n \in {socket'[i]} : Fresh(n)' /\ n \notin requestMapped'
      <4>1. CASE i = Len(socket) + 1
        BY <2>1, <2>2, <2>3, <2>6, <4>1
      <4>2. CASE i \in DOMAIN socket
        <5>1. socket[i] \in Nat /\ Fresh(socket[i]) /\ socket[i] \notin requestMapped
          BY <2>7, <4>2 DEF RequestInv, SocketPart
        <5> QED
          BY <2>2, <2>3, <2>8, <4>2, <5>1
      <4> QED
        BY <2>3, <4>1, <4>2
    <3> QED
      BY <3>1 DEF SocketPart
  <2>11. KernelPart'
    <3>1. ASSUME NEW i \in Requests!Reports PROVE \A n \in {kernelEvents[i].req} : Fresh(n)'
      BY <2>7, <2>8
    <3> QED
      BY <2>2, <2>9, <3>1 DEF RequestInv, KernelPart
  <2>12. KeptPart'
    <3>1. ASSUME evt_rcvd # Requests!Nothing PROVE \A n \in {evt_rcvd.req} : Fresh(n)'
      BY <2>7, <2>8, <3>1
    <3> QED
      BY <2>2, <3>1 DEF RequestInv, KeptPart
  <2>13. Requests!InOrder'
    <3>1. \A i, j \in DOMAIN socket' : i < j => socket'[i] < socket'[j]
      BY <2>3, <2>7 DEF RequestInv, Requests!InOrder
    <3>2. \A i \in Requests!Reports, j \in DOMAIN socket' : kernelEvents[i].req < socket'[j]
      BY <2>3, <2>7 DEF RequestInv, Requests!InOrder
    <3>3. evt_rcvd # Requests!Nothing => \A j \in DOMAIN socket' : evt_rcvd.req < socket'[j]
      BY <2>3, <2>7 DEF RequestInv, Requests!InOrder
    <3> QED
      BY <2>2, <2>9, <3>1, <3>2, <3>3 DEF RequestInv, Requests!InOrder
  <2>14. Past'
    BY <2>2 DEF RequestInv, Past, Requests!AnswersInOrder, Requests!GivenUpBefore
  <2>15. Locked'
    <3>1. /\ \A u \in Requesters \ {t} : wait'[u] = wait[u] /\ wait[u].at = "idle"
          /\ wait'[t].at = "wait" /\ wait'[t].req = sent
      BY <2>1, <2>2 DEF RequestInv, Requests!TypeOK, Locked
    <3> QED
      BY <2>1, <2>2, <3>1 DEF RequestInv, Locked
  <2> QED
    BY <2>10, <2>11, <2>12, <2>13, <2>14, <2>15 DEF RequestInv
<1> QED
  BY <1>1, <1>2

\* The answer that is kept is the oldest there is; all that is left is later.
LEMMA AnsweredKeeps ==
  ASSUME Requests!RequestsAssumption, RequestInv, Requests!TypeOK', NEW t \in Requesters, Requests!Answered(t)
  PROVE  RequestInv'
<1> DEFINE k == evt_rcvd.req
<1>1. /\ wait[t].req = sent /\ msg_lock = t /\ sent \in Requests!Requests
      /\ sent \notin givenUp /\ taken[sent] = 0
      /\ msg_lock' = Requests!NoOne /\ taken' = [taken EXCEPT ![sent] = k]
      /\ UNCHANGED <<socket, kernelEvents, sent, requestMapped, givenUp>>
      /\ believed' = IF evt_rcvd.ok THEN believed \cup {sent} ELSE believed
      /\ denied' = IF evt_rcvd.ok THEN denied ELSE denied \cup {sent}
      /\ evt_rcvd' = Requests!Nothing /\ evt_rcvd # Requests!Nothing
  BY DEF RequestInv, Locked, Requests!Answered, Requests!Take, Requests!Return
<1>2. /\ k \in Nat /\ Fresh(k) /\ (evt_rcvd.ok <=> k \in requestMapped)
      /\ sent \in Nat /\ MaxRequests \in Nat /\ sent <= MaxRequests /\ givenUp \subseteq 1..sent
  BY <1>1, NumbersOnTheWay DEF RequestInv, KeptPart, Past, Requests!TypeOK
<1>3. Cardinality(givenUp) \in Nat
  BY <1>2, GivenUpCounted DEF RequestInv
<1>4. /\ taken'[sent] = k
      /\ \A r \in Requests!Requests \ {sent} : taken'[r] = taken[r]
  BY <1>1 DEF RequestInv, Requests!TypeOK
<1> HIDE DEF k
<1>5. ASSUME NEW n \in Nat, Fresh(n), k < n PROVE Fresh(n)'
  <2>1. n \in 1..sent' /\ sent' - n <= Cardinality(givenUp') /\ sent' + 1 - n <= Cardinality(givenUp')
    BY <1>1, <1>2, <1>3, <1>5 DEF Fresh
  <2>2. \A r \in Requests!Requests : taken'[r] < n
    BY <1>4, <1>5 DEF Fresh
  <2> QED
    BY <2>1, <2>2 DEF Fresh
<1>6. SocketPart' /\ KernelPart' /\ KeptPart' /\ Requests!InOrder'
  <2>1. \A i \in DOMAIN socket : socket[i] \in Nat /\ Fresh(socket[i]) /\ k < socket[i]
    BY <1>1, NumbersOnTheWay DEF RequestInv, SocketPart, Requests!InOrder, k
  <2>2. \A i \in Requests!Reports :
           kernelEvents[i].req \in Nat /\ Fresh(kernelEvents[i].req) /\ k < kernelEvents[i].req
    BY <1>1, NumbersOnTheWay DEF RequestInv, KernelPart, Requests!InOrder, Requests!Reports, k
  <2>3. \A i \in DOMAIN socket : \A n \in {socket[i]} : Fresh(n)'
    BY <1>5, <2>1
  <2>4. \A i \in Requests!Reports : \A n \in {kernelEvents[i].req} : Fresh(n)'
    BY <1>5, <2>2
  <2> QED
    BY <1>1, <2>3, <2>4, OnTheWayStays
<1>7. Past'
  <2>1. k \in 1..sent /\ k \in Requests!Requests /\ sent - k <= Cardinality(givenUp)
        /\ \A r \in Requests!Requests : taken[r] < k
    BY <1>2 DEF Fresh, Requests!Requests
  <2>2. ASSUME NEW r \in Requests!Requests
        PROVE  /\ taken'[r] # 0 => r <= sent
               /\ r \in believed' => taken'[r] \in requestMapped
               /\ r \in denied' \ givenUp => taken'[r] \in Requests!Requests \ requestMapped
    <3>1. CASE r = sent
      BY <1>1, <1>2, <1>4, <2>1, <3>1 DEF RequestInv, Past, Requests!Requests
    <3>2. CASE r # sent
      BY <1>1, <1>4, <3>2 DEF RequestInv, Past
    <3> QED
      BY <3>1, <3>2
  <2>3. Requests!AnswersInOrder'
    <3> SUFFICES ASSUME NEW r \in Requests!Requests, taken'[r] # 0
                 PROVE  /\ taken'[r] <= r /\ r - taken'[r] <= Cardinality(Requests!GivenUpBefore(r))
                        /\ \A q \in 1..(r - 1) : taken'[q] < taken'[r]
      BY <1>1, SameCardinality DEF Requests!AnswersInOrder, Requests!GivenUpBefore
    <3>1. CASE r = sent
      <4>1. Requests!GivenUpBefore(r) = givenUp
        BY <1>1, <1>2, <3>1 DEF Requests!GivenUpBefore
      <4>2. \A q \in 1..(r - 1) : q \in Requests!Requests \ {sent}
        BY <1>2, <3>1 DEF Requests!Requests
      <4> QED
        BY <1>2, <1>4, <2>1, <3>1, <4>1, <4>2
    <3>2. CASE r # sent
      <4>1. r <= sent /\ r \in Nat /\ taken[r] # 0
        BY <1>4, <3>2, NumbersOnTheWay DEF RequestInv, Past
      <4>2. \A q \in 1..(r - 1) : q \in Requests!Requests \ {sent}
        BY <1>2, <3>2, <4>1 DEF Requests!Requests
      <4>3. /\ taken[r] <= r /\ r - taken[r] <= Cardinality(Requests!GivenUpBefore(r))
            /\ \A q \in 1..(r - 1) : taken[q] < taken[r]
        BY <4>1, SameCardinality DEF RequestInv, Past, Requests!AnswersInOrder
      <4> QED
        BY <1>4, <3>2, <4>2, <4>3
    <3> QED
      BY <3>1, <3>2
  <2> QED
    BY <1>1, <2>2, <2>3 DEF RequestInv, Past
<1>8. Locked'
  <2>1. \A u \in Requesters : wait'[u].at = "idle"
    BY <1>1 DEF RequestInv, Requests!TypeOK, Locked, Requests!Answered, Requests!Take, Requests!Return
  <2>2. msg_lock' \notin Requesters
    BY <1>1 DEF Requests!RequestsAssumption
  <2> QED
    BY <2>1, <2>2 DEF Locked
<1> QED
  BY <1>6, <1>7, <1>8 DEF RequestInv

LEMMA TimedOutKeeps ==
  ASSUME Requests!RequestsAssumption, RequestInv, Requests!TypeOK', NEW t \in Requesters, Requests!TimedOut(t)
  PROVE  RequestInv'
<1>1. /\ Requests!GiveUp(t) /\ evt_rcvd' = Requests!Nothing /\ wait[t].at # "idle"
      /\ UNCHANGED <<socket, kernelEvents, sent, requestMapped>>
  BY DEF Requests!TimedOut
<1> QED
  BY <1>1, GiveUpKeeps

\* The daemon takes the oldest request of the socket, and reports it after those it
\* has reported.
LEMMA DaemonMapsKeeps ==
  ASSUME Requests!RequestsAssumption, RequestInv, Requests!TypeOK', Requests!DaemonMaps
  PROVE  RequestInv'
<1> DEFINE h == Head(socket)
<1>1. PICK ok \in BOOLEAN :
        /\ kernelEvents' = Append(kernelEvents, [kind |-> "done", req |-> h, ok |-> ok])
        /\ requestMapped' = IF ok THEN requestMapped \cup {h} ELSE requestMapped
  BY DEF Requests!DaemonMaps
<1>2. /\ socket # <<>> /\ socket' = Tail(socket)
      /\ UNCHANGED <<evt_rcvd, msg_lock, wait, sent, believed, denied, taken, givenUp>>
  BY DEF Requests!DaemonMaps, Requests!threadVars, Requests!resultVars
<1>3. /\ Len(socket) \in Nat \ {0} /\ h = socket[1] /\ 1 \in DOMAIN socket
      /\ DOMAIN socket = 1..Len(socket) /\ DOMAIN socket' = 1..(Len(socket) - 1)
      /\ \A i \in DOMAIN socket' : i + 1 \in DOMAIN socket /\ socket'[i] = socket[i + 1]
  BY <1>2 DEF RequestInv, Requests!TypeOK
<1>4. /\ h \in Nat /\ h \in Requests!Requests /\ Fresh(h) /\ h \notin requestMapped
      /\ \A i \in DOMAIN socket' : h < socket'[i] /\ socket'[i] \in Nat
      /\ \A i \in Requests!Reports : kernelEvents[i].req < h /\ kernelEvents[i].req \in Nat
      /\ evt_rcvd # Requests!Nothing => evt_rcvd.req < h /\ evt_rcvd.req \in Nat
  BY <1>3, NumbersOnTheWay DEF RequestInv, SocketPart, Requests!InOrder, Requests!Reports
<1> HIDE DEF h
<1> DEFINE last == Len(kernelEvents) + 1
<1>5. /\ DOMAIN kernelEvents' = 1..last /\ DOMAIN kernelEvents = 1..Len(kernelEvents)
      /\ Len(kernelEvents) \in Nat
      /\ kernelEvents'[last] = [kind |-> "done", req |-> h, ok |-> ok]
      /\ \A i \in DOMAIN kernelEvents : kernelEvents'[i] = kernelEvents[i]
  BY <1>1 DEF RequestInv, Requests!TypeOK
<1>6. /\ Requests!Reports' = Requests!Reports \cup {last}
      /\ \A i \in Requests!Reports : i \in DOMAIN kernelEvents /\ i \in Nat /\ i < last
      /\ last \in Nat
  BY <1>5 DEF Requests!Reports
<1>7. /\ kernelEvents'[last].req = h /\ kernelEvents'[last].ok = ok
      /\ \A i \in Requests!Reports : kernelEvents'[i] = kernelEvents[i]
  BY <1>5, <1>6
<1> HIDE DEF last
<1>8. /\ ok <=> h \in requestMapped'
      /\ \A n \in Nat : n # h => (n \in requestMapped' <=> n \in requestMapped)
  BY <1>1, <1>4
<1>9. \A n \in Nat : Fresh(n) => Fresh(n)'
  BY <1>2, FreshStays
<1>10. SocketPart'
  <2>1. ASSUME NEW i \in DOMAIN socket' PROVE \A n \in {socket'[i]} : Fresh(n)' /\ n \notin requestMapped'
    <3>1. Fresh(socket'[i]) /\ socket'[i] \notin requestMapped
      BY <1>3 DEF RequestInv, SocketPart
    <3> QED
      BY <1>4, <1>8, <1>9, <3>1
  <2> QED
    BY <2>1 DEF SocketPart
<1>11. KernelPart'
  <2>1. ASSUME NEW i \in Requests!Reports
        PROVE  \A n \in {kernelEvents[i].req} : Fresh(n)' /\ (kernelEvents[i].ok <=> n \in requestMapped')
    <3>1. Fresh(kernelEvents[i].req) /\ (kernelEvents[i].ok <=> kernelEvents[i].req \in requestMapped)
      BY DEF RequestInv, KernelPart
    <3> QED
      BY <1>4, <1>8, <1>9, <3>1
  <2>2. \A n \in {h} : Fresh(n)'
    BY <1>4, <1>9
  <2>3. ASSUME NEW i \in Requests!Reports'
        PROVE  \A n \in {kernelEvents'[i].req} :
                  Fresh(n)' /\ (kernelEvents'[i].ok <=> n \in requestMapped')
    <3>1. CASE i = last
      BY <1>7, <1>8, <2>2, <3>1
    <3>2. CASE i \in Requests!Reports
      BY <1>7, <2>1, <3>2
    <3> QED
      BY <1>6, <3>1, <3>2
  <2> QED
    BY <2>3 DEF KernelPart
<1>12. KeptPart'
  <2>1. ASSUME evt_rcvd # Requests!Nothing
        PROVE  \A n \in {evt_rcvd.req} : Fresh(n)' /\ (evt_rcvd.ok <=> n \in requestMapped')
    <3>1. Fresh(evt_rcvd.req) /\ (evt_rcvd.ok <=> evt_rcvd.req \in requestMapped)
      BY <2>1 DEF RequestInv, KeptPart
    <3> QED
      BY <1>4, <1>8, <1>9, <2>1, <3>1
  <2> QED
    BY <1>2, <2>1 DEF KeptPart
<1>13. Requests!InOrder'
  <2>1. \A i, j \in DOMAIN socket' : i < j => socket'[i] < socket'[j]
    BY <1>3 DEF RequestInv, Requests!InOrder
  <2>2. \A i, j \in Requests!Reports' : i < j => kernelEvents'[i].req < kernelEvents'[j].req
    BY <1>4, <1>6, <1>7 DEF RequestInv, Requests!InOrder
  <2>3. \A i \in Requests!Reports', j \in DOMAIN socket' : kernelEvents'[i].req < socket'[j]
    BY <1>3, <1>4, <1>6, <1>7 DEF RequestInv, Requests!InOrder
  <2>4. evt_rcvd # Requests!Nothing =>
           /\ \A i \in Requests!Reports' : evt_rcvd.req < kernelEvents'[i].req
           /\ \A j \in DOMAIN socket' : evt_rcvd.req < socket'[j]
    BY <1>3, <1>4, <1>6, <1>7 DEF RequestInv, Requests!InOrder
  <2> QED
    BY <1>2, <2>1, <2>2, <2>3, <2>4 DEF Requests!InOrder
<1>14. Past'
  <2>1. \A r \in Requests!Requests : taken[r] \in Nat /\ taken[r] # h
    BY <1>4, NumbersOnTheWay DEF RequestInv, Fresh
  <2>2. requestMapped' \subseteq 1..sent
    BY <1>1, <1>4 DEF RequestInv, Past, Fresh
  <2>3. Requests!AnswersInOrder'
    BY <1>2 DEF RequestInv, Past, Requests!AnswersInOrder, Requests!GivenUpBefore
  <2> QED
    BY <1>2, <1>8, <2>1, <2>2, <2>3 DEF RequestInv, Past
<1>15. Locked'
  <2>1. \A t \in Requesters : wait[t].at = "send" => h # sent
    BY <1>3 DEF RequestInv, Locked
  <2>2. sent \in Nat
    BY NumbersOnTheWay DEF RequestInv
  <2> QED
    BY <1>2, <1>3, <1>6, <1>7, <1>8, <2>1, <2>2 DEF RequestInv, Locked
<1> QED
  BY <1>10, <1>11, <1>12, <1>13, <1>14, <1>15 DEF RequestInv

\* Another event of the daemon's, or its death, joins the kernel's events; the
\* socket to a dead daemon is closed.
LEMMA OtherEventKeeps ==
  ASSUME Requests!RequestsAssumption, RequestInv, Requests!TypeOK', Requests!DaemonPulls \/ Requests!DaemonDies
  PROVE  RequestInv'
<1>1. PICK e : e.kind # "done" /\ kernelEvents' = Append(kernelEvents, e)
  BY DEF Requests!DaemonPulls, Requests!DaemonDies
<1>2. /\ UNCHANGED <<evt_rcvd, msg_lock, wait, sent, believed, denied, taken, givenUp, requestMapped>>
      /\ socket' = socket \/ socket' = <<>>
  BY DEF Requests!DaemonPulls, Requests!DaemonDies, Requests!threadVars, Requests!resultVars
<1>3. \A i \in DOMAIN socket' : i \in DOMAIN socket /\ socket'[i] = socket[i]
  BY <1>2
<1>4. /\ Requests!Reports' = Requests!Reports
      /\ \A i \in Requests!Reports : kernelEvents'[i] = kernelEvents[i]
  <2>1. /\ DOMAIN kernelEvents' = 1..(Len(kernelEvents) + 1) /\ DOMAIN kernelEvents = 1..Len(kernelEvents)
        /\ Len(kernelEvents) \in Nat
        /\ kernelEvents'[Len(kernelEvents) + 1] = e
        /\ \A i \in DOMAIN kernelEvents : kernelEvents'[i] = kernelEvents[i]
    BY <1>1 DEF RequestInv, Requests!TypeOK
  <2> QED
    BY <1>1, <2>1 DEF Requests!Reports
<1>5. \A n \in Nat : Fresh(n) => Fresh(n)'
  BY <1>2, FreshStays
<1>6. SocketPart'
  <2>1. ASSUME NEW i \in DOMAIN socket' PROVE \A n \in {socket'[i]} : Fresh(n)' /\ n \notin requestMapped'
    <3>1. socket[i] \in Nat /\ Fresh(socket[i]) /\ socket[i] \notin requestMapped
      BY <1>3, NumbersOnTheWay DEF RequestInv, SocketPart
    <3> QED
      BY <1>2, <1>3, <1>5, <3>1
  <2> QED
    BY <2>1 DEF SocketPart
<1>7. KernelPart'
  <2>1. ASSUME NEW i \in Requests!Reports PROVE \A n \in {kernelEvents[i].req} : Fresh(n)'
    BY <1>5, NumbersOnTheWay DEF RequestInv, KernelPart, Requests!Reports
  <2> QED
    BY <1>2, <1>4, <2>1 DEF RequestInv, KernelPart
<1>8. KeptPart'
  <2>1. ASSUME evt_rcvd # Requests!Nothing PROVE \A n \in {evt_rcvd.req} : Fresh(n)'
    BY <1>5, <2>1, NumbersOnTheWay DEF RequestInv, KeptPart
  <2> QED
    BY <1>2, <2>1 DEF RequestInv, KeptPart
<1>9. Requests!InOrder'
  BY <1>2, <1>3, <1>4 DEF RequestInv, Requests!InOrder
<1>10. Past'
  BY <1>2 DEF RequestInv, Past, Requests!AnswersInOrder, Requests!GivenUpBefore
<1>11. Locked'
  BY <1>2, <1>3, <1>4 DEF RequestInv, Locked
<1> QED
  BY <1>6, <1>7, <1>8, <1>9, <1>10, <1>11 DEF RequestInv

\* The event poll thread keeps the oldest report, in place of an older one that
\* nobody took, and passes other events on.
LEMMA EventNotifyKeeps ==
  ASSUME Requests!RequestsAssumption, RequestInv, Requests!TypeOK', Requests!EventNotify
  PROVE  RequestInv'
<1> DEFINE e == Head(kernelEvents)
<1>1. /\ kernelEvents # <<>> /\ kernelEvents' = Tail(kernelEvents)
      /\ UNCHANGED <<socket, msg_lock, wait, sent, believed, denied, taken, givenUp, requestMapped>>
  BY DEF Requests!EventNotify, Requests!threadVars, Requests!resultVars
<1>2. /\ Len(kernelEvents) \in Nat \ {0} /\ e = kernelEvents[1] /\ e \in Requests!Event
      /\ DOMAIN kernelEvents = 1..Len(kernelEvents) /\ DOMAIN kernelEvents' = 1..(Len(kernelEvents) - 1)
      /\ \A i \in DOMAIN kernelEvents' : i + 1 \in DOMAIN kernelEvents /\ kernelEvents'[i] = kernelEvents[i + 1]
  BY <1>1, NumbersOnTheWay DEF RequestInv, Requests!TypeOK
<1>3. \A i \in Requests!Reports' :
         /\ i \in Nat /\ i + 1 \in Requests!Reports /\ 1 < i + 1
         /\ kernelEvents'[i] = kernelEvents[i + 1]
  BY <1>2 DEF Requests!Reports
<1>4. /\ e.kind = "done" => evt_rcvd' = e /\ 1 \in Requests!Reports
      /\ e.kind # "done" => evt_rcvd' = evt_rcvd
  BY <1>2 DEF Requests!EventNotify, Requests!Event, Requests!Reports
<1> HIDE DEF e
<1>5. \A n \in Nat : Fresh(n) => Fresh(n)'
  BY <1>1, FreshStays
<1>6. SocketPart'
  <2>1. ASSUME NEW i \in DOMAIN socket PROVE \A n \in {socket[i]} : Fresh(n)'
    BY <1>5, NumbersOnTheWay DEF RequestInv, SocketPart
  <2> QED
    BY <1>1, <2>1 DEF RequestInv, SocketPart
<1>7. KernelPart'
  <2>1. ASSUME NEW i \in Requests!Reports PROVE \A n \in {kernelEvents[i].req} : Fresh(n)'
    BY <1>5, NumbersOnTheWay DEF RequestInv, KernelPart, Requests!Reports
  <2>2. \A i \in Requests!Reports : kernelEvents[i].ok <=> kernelEvents[i].req \in requestMapped
    BY DEF RequestInv, KernelPart
  <2> QED
    BY <1>1, <1>3, <2>1, <2>2 DEF KernelPart
<1>8. KeptPart'
  <2>1. CASE e.kind = "done"
    <3>1. /\ e.req \in Nat /\ Fresh(e.req) /\ (e.ok <=> e.req \in requestMapped)
      BY <1>2, <1>4, <2>1, NumbersOnTheWay DEF RequestInv, KernelPart
    <3>2. \A n \in {e.req} : Fresh(n)'
      BY <1>5, <3>1
    <3> QED
      BY <1>1, <1>4, <2>1, <3>1, <3>2 DEF KeptPart
  <2>2. CASE e.kind # "done"
    <3>1. ASSUME evt_rcvd # Requests!Nothing PROVE \A n \in {evt_rcvd.req} : Fresh(n)'
      BY <1>5, <3>1, NumbersOnTheWay DEF RequestInv, KeptPart
    <3> QED
      BY <1>1, <1>4, <2>2, <3>1 DEF RequestInv, KeptPart
  <2> QED
    BY <2>1, <2>2
<1>9. Requests!InOrder'
  <2>1. \A i, j \in Requests!Reports' : i < j => kernelEvents'[i].req < kernelEvents'[j].req
    BY <1>3 DEF RequestInv, Requests!InOrder
  <2>2. \A i \in Requests!Reports', j \in DOMAIN socket : kernelEvents'[i].req < socket[j]
    BY <1>3 DEF RequestInv, Requests!InOrder
  <2>3. ASSUME evt_rcvd' # Requests!Nothing
        PROVE  /\ \A i \in Requests!Reports' : evt_rcvd'.req < kernelEvents'[i].req
               /\ \A j \in DOMAIN socket : evt_rcvd'.req < socket[j]
    <3>1. CASE e.kind = "done"
      BY <1>2, <1>3, <1>4, <3>1 DEF RequestInv, Requests!InOrder
    <3>2. CASE e.kind # "done"
      BY <1>3, <1>4, <2>3, <3>2 DEF RequestInv, Requests!InOrder
    <3> QED
      BY <3>1, <3>2
  <2>4. \A i, j \in DOMAIN socket : i < j => socket[i] < socket[j]
    BY DEF RequestInv, Requests!InOrder
  <2> QED
    BY <1>1, <2>1, <2>2, <2>3, <2>4 DEF Requests!InOrder
<1>10. Past'
  BY <1>1 DEF RequestInv, Past, Requests!AnswersInOrder, Requests!GivenUpBefore
<1>11. Locked'
  <2>1. \A t \in Requesters : wait[t].at = "send" =>
           (\A i \in Requests!Reports' : kernelEvents'[i].req # sent) /\ evt_rcvd'.req # sent
    BY <1>2, <1>3, <1>4 DEF RequestInv, Locked
  <2> QED
    BY <1>1, <2>1 DEF RequestInv, Locked
<1> QED
  BY <1>6, <1>7, <1>8, <1>9, <1>10, <1>11 DEF RequestInv

LEMMA NextRequestTypes ==
  ASSUME Requests!RequestsAssumption, RequestInv, [Requests!Next]_(Requests!vars)
  PROVE  Requests!TypeOK'
<1> USE DEF Requests!TypeOK, Requests!resultVars
<1> Requests!TypeOK
  BY DEF RequestInv
<1>0. MaxRequests \in Nat /\ NoOne \notin Requesters
  BY DEF Requests!RequestsAssumption, Requests!NoOne, NoOne
<1>1. ASSUME NEW t \in Requesters, Requests!Request(t) PROVE Requests!TypeOK'
  <2>1. sent' = sent + 1 /\ sent' \in 0..MaxRequests
    BY <1>0, <1>1 DEF Requests!Request
  <2> QED
    BY <1>1, <2>1 DEF Requests!Request, Requests!eventVars
<1>2. ASSUME NEW t \in Requesters, Requests!Send(t) PROVE Requests!TypeOK'
  <2>1. wait[t].req \in Requests!Requests
    BY <1>2 DEF RequestInv, Locked, Requests!Send
  <2>2. Append(socket, wait[t].req) \in Seq(Requests!Requests)
    BY <2>1, AppendProperties
  <2>3. CASE daemon = "alive"
    <3>1. /\ socket' = Append(socket, wait[t].req) /\ wait' = [wait EXCEPT ![t].at = "wait"]
          /\ UNCHANGED <<msg_lock, believed, denied, taken, givenUp>>
      BY <1>2, <2>3 DEF Requests!Send
    <3> QED
      BY <1>2, <2>2, <3>1 DEF Requests!Send, Requests!eventVars
  <2>4. CASE daemon # "alive"
    <3>1. Requests!GiveUp(t) /\ UNCHANGED socket
      BY <1>2, <2>4 DEF Requests!Send
    <3> QED
      BY <1>0, <1>2, <2>1, <3>1 DEF Requests!Send, Requests!GiveUp, Requests!Return, Requests!eventVars
  <2> QED
    BY <2>3, <2>4
<1>3. ASSUME NEW t \in Requesters, Requests!Answered(t) PROVE Requests!TypeOK'
  <2>1. wait[t].req \in Requests!Requests
    BY <1>3 DEF RequestInv, Locked, Requests!Answered
  <2>2. evt_rcvd.req \in 0..MaxRequests
    BY <1>3 DEF Requests!Answered, Requests!Event
  <2>3. taken' \in [Requests!Requests -> 0..MaxRequests]
    BY <1>3, <2>1, <2>2 DEF Requests!Answered, Requests!Take
  <2> QED
    BY <1>0, <1>3, <2>1, <2>3 DEF Requests!Answered, Requests!Take, Requests!Return, Requests!eventVars
<1>4. ASSUME NEW t \in Requesters, Requests!TimedOut(t) PROVE Requests!TypeOK'
  <2>1. wait[t].req \in Requests!Requests
    BY <1>4 DEF RequestInv, Locked, Requests!TimedOut
  <2> QED
    BY <1>0, <1>4, <2>1 DEF Requests!TimedOut, Requests!GiveUp, Requests!Return, Requests!eventVars
<1>5. CASE Requests!DaemonMaps
  <2>1. Head(socket) \in Requests!Requests /\ Tail(socket) \in Seq(Requests!Requests)
    BY <1>5, HeadTailProperties DEF Requests!DaemonMaps
  <2>2. PICK ok \in BOOLEAN :
          /\ kernelEvents' = Append(kernelEvents, [kind |-> "done", req |-> Head(socket), ok |-> ok])
          /\ requestMapped' = IF ok THEN requestMapped \cup {Head(socket)} ELSE requestMapped
    BY <1>5 DEF Requests!DaemonMaps
  <2>3. [kind |-> "done", req |-> Head(socket), ok |-> ok] \in Requests!Event
    BY <1>0, <2>1 DEF Requests!Event, Requests!Requests
  <2>4. kernelEvents' \in Seq(Requests!Event)
    BY <2>2, <2>3, AppendProperties
  <2> QED
    BY <1>5, <2>1, <2>2, <2>4 DEF Requests!DaemonMaps, Requests!threadVars, Requests!eventVars
<1>6. CASE Requests!DaemonPulls \/ Requests!DaemonDies
  <2>1. PICK e \in Requests!Event : kernelEvents' = Append(kernelEvents, e)
    <3>1. [kind |-> "pull", req |-> 0, ok |-> FALSE] \in Requests!Event
      BY <1>0 DEF Requests!Event
    <3>2. [kind |-> "shutdown", req |-> 0, ok |-> FALSE] \in Requests!Event
      BY <1>0 DEF Requests!Event
    <3> QED
      BY <1>6, <3>1, <3>2 DEF Requests!DaemonPulls, Requests!DaemonDies
  <2>2. kernelEvents' \in Seq(Requests!Event) /\ <<>> \in Seq(Requests!Requests)
    BY <2>1, AppendProperties, EmptySeq
  <2> QED
    BY <1>6, <2>2 DEF Requests!DaemonPulls, Requests!DaemonDies, Requests!threadVars, Requests!eventVars
<1>7. CASE Requests!EventNotify
  <2>1. Head(kernelEvents) \in Requests!Event /\ Tail(kernelEvents) \in Seq(Requests!Event)
    BY <1>7, HeadTailProperties DEF Requests!EventNotify
  <2>2. /\ Append(evtQueue, "pull") \in Seq({"pull", "died"})
        /\ Append(evtQueue, "died") \in Seq({"pull", "died"})
    BY AppendProperties
  <2>3. evtQueue' \in Seq({"pull", "died"}) /\ evt_rcvd' \in Requests!Event \cup {Requests!Nothing}
    <3>1. CASE Head(kernelEvents).kind = "pull"
      BY <1>7, <2>2, <3>1 DEF Requests!EventNotify
    <3>2. CASE Head(kernelEvents).kind = "shutdown"
      BY <1>7, <2>2, <3>2 DEF Requests!EventNotify
    <3>3. CASE Head(kernelEvents).kind \notin {"pull", "shutdown"}
      BY <1>7, <2>1, <3>3 DEF Requests!EventNotify
    <3> QED
      BY <3>1, <3>2, <3>3
  <2> QED
    BY <1>7, <2>1, <2>3 DEF Requests!EventNotify, Requests!threadVars
<1>8. CASE Requests!DispatchAppEvent
  <2>1. Head(evtQueue) \in {"pull", "died"} /\ Tail(evtQueue) \in Seq({"pull", "died"})
    BY <1>8, HeadTailProperties DEF Requests!DispatchAppEvent
  <2>2. \A c \in Callbacks : Append(notified[c], Head(evtQueue)) \in Seq({"pull", "died"})
    BY <2>1, AppendProperties
  <2> QED
    BY <1>8, <2>1, <2>2 DEF Requests!DispatchAppEvent, Requests!threadVars
<1>9. CASE UNCHANGED Requests!vars
  BY <1>9 DEF Requests!vars
<1> QED
  BY <1>1, <1>2, <1>3, <1>4, <1>5, <1>6, <1>7, <1>8, <1>9 DEF Requests!Next, Requests!Requester

LEMMA NextRequests ==
  ASSUME Requests!RequestsAssumption, RequestInv, [Requests!Next]_(Requests!vars)
  PROVE  RequestInv'
<1>0. Requests!TypeOK'
  BY NextRequestTypes
<1>1. ASSUME NEW t \in Requesters, Requests!Request(t) \/ Requests!Requester(t) PROVE RequestInv'
  BY <1>0, <1>1, RequestKeeps, SendKeeps, AnsweredKeeps, TimedOutKeeps DEF Requests!Requester
<1>2. CASE Requests!DaemonMaps
  BY <1>0, <1>2, DaemonMapsKeeps
<1>3. CASE Requests!DaemonPulls \/ Requests!DaemonDies
  BY <1>0, <1>3, OtherEventKeeps
<1>4. CASE Requests!EventNotify
  BY <1>0, <1>4, EventNotifyKeeps
<1>5. CASE Requests!DispatchAppEvent \/ UNCHANGED Requests!vars
  <2>1. UNCHANGED <<socket, kernelEvents, evt_rcvd, msg_lock, wait, sent, believed,
                    denied, taken, givenUp, requestMapped>>
    BY <1>5 DEF Requests!DispatchAppEvent, Requests!threadVars, Requests!resultVars, Requests!vars
  <2>2. Requests!Reports' = Requests!Reports
    BY <2>1 DEF Requests!Reports
  <2>3. Locked' /\ Past'
    BY <2>1, <2>2 DEF RequestInv, Locked, Past, Requests!AnswersInOrder, Requests!GivenUpBefore
  <2>4. SocketPart' /\ KernelPart' /\ KeptPart' /\ Requests!InOrder'
    BY <2>1, <2>2 DEF RequestInv, SocketPart, KernelPart, KeptPart, Fresh, Requests!InOrder
  <2> QED
    BY <1>0, <2>3, <2>4 DEF RequestInv
<1> QED
  BY <1>1, <1>2, <1>3, <1>4, <1>5 DEF Requests!Next

-----------------------------------------------------------------------------
(* What follows. *)

\* A request before which none was given up took its own answer.
LEMMA BelievedHolds ==
  ASSUME Requests!RequestsAssumption, RequestInv
  PROVE  Requests!BelievedIsDone
<1> SUFFICES ASSUME NEW r \in Requests!Requests, Requests!GivenUpBefore(r) = {}
             PROVE  /\ r \in believed => r \in requestMapped
                    /\ r \in denied \ givenUp => r \notin requestMapped
  BY DEF RequestInv, Past, Requests!BelievedIsDone
<1>1. taken[r] \in Nat /\ r \in Nat
  BY NumbersOnTheWay DEF RequestInv
<1>2. Cardinality(Requests!GivenUpBefore(r)) = 0
  BY FS_EmptySet
<1>3. taken[r] # 0 => taken[r] = r
  BY <1>1, <1>2, SameCardinality DEF RequestInv, Past, Requests!AnswersInOrder
<1>4. r \in believed => taken[r] # 0
  BY DEF RequestInv, Past
<1>5. r \in denied \ givenUp => taken[r] # 0
  BY DEF RequestInv, Past, Requests!Requests
<1> QED
  BY <1>3, <1>4, <1>5 DEF RequestInv, Past

LEMMA OneRequestHolds ==
  ASSUME Requests!RequestsAssumption, RequestInv
  PROVE  Requests!OneRequest
<1>1. ASSUME NEW n \in Requests!UnderWay PROVE n <= sent /\ sent - n <= Requests!Cardinality(givenUp)
  <2>1. \/ n = evt_rcvd.req /\ n # 0
        \/ \E i \in Requests!Reports : n = kernelEvents[i].req
        \/ \E i \in DOMAIN socket : n = socket[i]
    BY <1>1 DEF Requests!UnderWay
  <2>2. Fresh(n)
    BY <2>1 DEF RequestInv, SocketPart, KernelPart, KeptPart, Requests!Nothing
  <2>3. sent \in Nat
    BY NumbersOnTheWay DEF RequestInv
  <2> QED
    BY <2>2, <2>3, SameCardinality DEF Fresh
<1> QED
  BY <1>1 DEF RequestInv, Requests!OneRequest

LEMMA OwnAnswers ==
  ASSUME Requests!RequestsAssumption, RequestInv
  PROVE  Requests!AnswersAreOwn
BY BelievedHolds, OneRequestHolds DEF RequestInv, Past, Requests!AnswersAreOwn

\* msg_lock and the single evt_rcvd pair requests and answers without a number,
\* however late an answer is: none is taken twice or out of order, a request takes
\* an answer only so far behind its own as requests were given up before it, and
\* believes what the daemon did with the request whose answer that was - its own,
\* if none was given up (mm_camera_util_sendmsg(), mm_camera_util_wait_for_event()).
THEOREM NoAnswerMistaken ==
  ASSUME Requests!RequestsAssumption
  PROVE  Requests!Spec => [](Requests!AnswersInOrder /\ Requests!BelievedIsDone)
<1>1. Requests!Init => RequestInv
  BY InitRequests
<1>2. RequestInv /\ [Requests!Next]_(Requests!vars) => RequestInv'
  BY NextRequests
<1>3. RequestInv => Requests!AnswersInOrder /\ Requests!BelievedIsDone
  BY BelievedHolds DEF RequestInv, Past
<1> QED
  BY <1>1, <1>2, <1>3, PTL DEF Requests!Spec

\* evt_rcvd, the kernel and the socket hold requests and answers in order and none
\* twice, and only the latest: one, and one more for each request that was given up
\* (mm_camera_util_sendmsg(), mm_camera_event_notify()).
THEOREM OneRequestAtATime ==
  ASSUME Requests!RequestsAssumption
  PROVE  Requests!Spec => []Requests!OneRequest
<1>1. Requests!Init => RequestInv
  BY InitRequests
<1>2. RequestInv /\ [Requests!Next]_(Requests!vars) => RequestInv'
  BY NextRequests
<1>3. RequestInv => Requests!OneRequest
  BY OneRequestHolds
<1> QED
  BY <1>1, <1>2, <1>3, PTL DEF Requests!Spec

\* Both of these, and the types, whatever the daemon's pace and whenever it dies
\* (mm_camera_util_sendmsg(), mm_camera_event_notify()).
THEOREM RequestsHaveTheirAnswers ==
  ASSUME Requests!RequestsAssumption
  PROVE  Requests!Spec => []Requests!AnswersAreOwn
<1>1. Requests!Init => RequestInv
  BY InitRequests
<1>2. RequestInv /\ [Requests!Next]_(Requests!vars) => RequestInv'
  BY NextRequests
<1>3. RequestInv => Requests!AnswersAreOwn
  BY OwnAnswers
<1> QED
  BY <1>1, <1>2, <1>3, PTL DEF Requests!Spec

-----------------------------------------------------------------------------
(* The stack.  A behaviour of it takes the steps of one component; each of     *)
(* the others stays in a state that its invariant holds in as well.            *)

\* Each component's invariant, in the behaviours about it.
PollPart == part = "poll" => Stream!PollInv
StreamPart == part = "stream" => Stream!StreamInv
InterfacePart == SoundInv
ChannelPart ==
    /\ part = "channel" => Stream!ChannelInv
    /\ part = "two_steps" => TwoSteps!ChannelInv
RequestPart == RequestInv

LEMMA StackPollKeeps == PollPart /\ [StackNext]_stackVars => PollPart'
<1> SUFFICES ASSUME PollPart, [StackNext]_stackVars, part' = "poll"
             PROVE  Stream!PollInv'
  BY DEF PollPart
<1>1. part = "poll" /\ [Stream!Poll!Next]_(Stream!Poll!pollVars)
  BY DEF StackNext, stackVars, streamVars, pollVars, Stream!Poll!pollVars
<1> QED
  BY <1>1, Stream!NextPoll DEF PollPart

LEMMA StackStreamKeeps == StreamPart /\ [StackNext]_stackVars => StreamPart'
<1> SUFFICES ASSUME StreamPart, [StackNext]_stackVars, part' = "stream"
             PROVE  Stream!StreamInv'
  BY DEF StreamPart
<1>1. part = "stream" /\ [Stream!Next]_(Stream!vars)
  BY DEF StackNext, stackVars, streamVars, streamOwnVars, pollVars,
         Stream!vars, Stream!pollVars, Stream!bufVars,
         Stream!threadVars, Stream!userVars, Stream!ctlVars
<1>2. Stream!StreamAssumption /\ Stream!StreamInv
  BY <1>1, InstancesAssumption DEF StreamPart
<1> QED
  BY <1>1, <1>2, Stream!StreamStep

LEMMA StackInterfaceKeeps ==
  ASSUME ~Overlap
  PROVE  InterfacePart /\ [StackNext]_stackVars => InterfacePart'
<1> SUFFICES ASSUME SoundInv, [StackNext]_stackVars PROVE SoundInv'
  BY DEF InterfacePart
<1>1. [Next]_vars
  BY DEF StackNext, stackVars
<1> QED
  BY <1>1, NextUse, NextChannels, NextCounts, NextHandles, InstancesAssumption DEF SoundInv

LEMMA StackChannelKeeps == ChannelPart /\ [StackNext]_stackVars => ChannelPart'
<1> SUFFICES ASSUME ChannelPart, [StackNext]_stackVars PROVE ChannelPart'
  OBVIOUS
<1>1. ASSUME part' = "channel" PROVE Stream!ChannelInv'
  <2>1. part = "channel" /\ [Stream!Channel!Next]_(Stream!Channel!vars)
    BY <1>1 DEF StackNext, stackVars, channelVars, Stream!Channel!vars
  <2>2. Stream!Channel!ChannelAssumption /\ Stream!ChannelInv
    BY <2>1, InstancesAssumption DEF ChannelPart
  <2> QED
    BY <2>1, <2>2, Stream!NextChannel
<1>2. ASSUME part' = "two_steps" PROVE TwoSteps!ChannelInv'
  <2>1. part = "two_steps" /\ [TwoSteps!Channel!Next]_(TwoSteps!Channel!vars)
    BY <1>2 DEF StackNext, stackVars, channelVars, TwoSteps!Channel!vars
  <2>2. TwoSteps!Channel!ChannelAssumption /\ TwoSteps!ChannelInv
    BY <2>1, InstancesAssumption DEF ChannelPart
  <2> QED
    BY <2>1, <2>2, TwoSteps!NextChannel
<1> QED
  BY <1>1, <1>2 DEF ChannelPart

LEMMA StackRequestsKeep == RequestPart /\ [StackNext]_stackVars => RequestPart'
<1> SUFFICES ASSUME RequestInv, [StackNext]_stackVars PROVE RequestInv'
  BY DEF RequestPart
<1>1. [Requests!Next]_(Requests!vars)
  BY DEF StackNext, stackVars, requestVars, Requests!vars
<1> QED
  BY <1>1, NextRequests, InstancesAssumption

-----------------------------------------------------------------------------
(* The invariants of the whole. *)

\* What a poll thread polls follows what is registered, and a synchronous update
\* returns for its own command only, whatever the length of the pipe
\* (mm_camera_thread.c).
THEOREM StackPolls == StackSpec => []PollingFollows
<1>1. StackInit => PollPart
  BY Stream!InitPoll DEF StackInit, PollPart
<1>2. PollPart /\ [StackNext]_stackVars => PollPart'
  BY StackPollKeeps
<1>3. PollPart => PollingFollows
  BY Stream!InvPollSound DEF PollPart, PollingFollows
<1> QED
  BY <1>1, <1>2, <1>3, PTL DEF StackSpec

\* A stream of the stack keeps its references, the kernel's ownership of its
\* buffers and the polling of its descriptor in agreement, for any set of buffers,
\* and after step 1 of a stop its callback is quiet (mm_camera_stream.c).
THEOREM StackStreams == StackSpec => []StreamSound
<1>1. StackInit => StreamPart
  BY Stream!StreamInit, InstancesAssumption DEF StackInit, StreamPart, Stream!Init
<1>2. StreamPart /\ [StackNext]_stackVars => StreamPart'
  BY StackStreamKeeps
<1>3. StreamPart => StreamSound
  BY Stream!InvStreamSound, InstancesAssumption DEF StreamPart, StreamSound
<1> QED
  BY <1>1, <1>2, <1>3, PTL DEF StackSpec

\* The two channels of the stack, one of which allocates its last buffers behind
\* its start: a start is undone completely or every stream runs, metadata first and
\* last, and the kernel has mapped buffers only (mm_camera_channel.c).
THEOREM StackChannels == StackSpec => []ChannelSound
<1>1. StackInit => ChannelPart
  BY Stream!InitChannel, TwoSteps!InitChannel, InstancesAssumption DEF StackInit, ChannelPart
<1>2. ChannelPart /\ [StackNext]_stackVars => ChannelPart'
  BY StackChannelKeeps
<1>3. ChannelPart => ChannelSound
  BY Stream!InvChannelSound, TwoSteps!InvChannelSound, InstancesAssumption
     DEF ChannelPart, ChannelSound
<1> QED
  BY <1>1, <1>2, <1>3, PTL DEF StackSpec

\* The camera objects among the other components: the HAL's count of opens is the
\* object's, and no call finds an object that a close has freed (mm_camera_interface.c).
THEOREM StackInterface ==
  ASSUME ~Overlap
  PROVE  StackSpec => []InterfaceSound
<1>1. StackInit => InterfacePart
  BY InitUse, InitChannels, InitCounted, InitHandles, InstancesAssumption
     DEF StackInit, InterfacePart, SoundInv
<1>2. InterfacePart /\ [StackNext]_stackVars => InterfacePart'
  BY StackInterfaceKeeps
<1>3. InterfacePart => InterfaceSound
  BY SoundHolds, InstancesAssumption DEF InterfacePart
<1> QED
  BY <1>1, <1>2, <1>3, PTL DEF StackSpec

\* What the HAL believes of a mapping request is what the daemon did with the request
\* whose answer was taken; answers are taken once and in order, and late by no more
\* requests than were given up, for any number of threads, callbacks and requests and
\* any pace of the daemon's (mm_camera.c).
THEOREM StackAnswers == StackSpec => []AnswersAreOwn
<1>1. StackInit => RequestPart
  BY InitRequests, InstancesAssumption DEF StackInit, RequestPart
<1>2. RequestPart /\ [StackNext]_stackVars => RequestPart'
  BY StackRequestsKeep
<1>3. RequestPart => AnswersAreOwn
  BY OwnAnswers, InstancesAssumption DEF RequestPart, AnswersAreOwn
<1> QED
  BY <1>1, <1>2, <1>3, PTL DEF StackSpec

=============================================================================
