------------------------------- MODULE MmChannel -------------------------------
(***************************************************************************)
(* A channel of several streams from its creation to its deletion: what     *)
(* QCameraChannel and QCameraStream of the HAL do with it, the state        *)
(* machine of mm_camera_channel.c, which starts and stops the streams one   *)
(* after the other and undoes a start that failed, and the buffers, which   *)
(* the daemon must have mapped while the kernel may fill them.  A stream    *)
(* with two-step allocation has a thread that maps and queues the rest of   *)
(* its buffers once the channel is started (BufAllocRoutine).               *)
(*                                                                         *)
(* The control thread has ch_lock throughout a start or a stop; requests    *)
(* to the daemon are one step here (see MapRequests).                       *)
(***************************************************************************)
EXTENDS Naturals, FiniteSets

CONSTANTS
    N,              \* streams 1..N are added in that order
    Meta,           \* the metadata stream, 0 for none
    Dyn,            \* streams with two-step allocation
    First, All,     \* buffers allocated at once, and in the end
    HasCb,          \* the channel has a superbuf callback
    MaxFaults,      \* bound: operations that fail
    FaultKinds      \* the operations that may

ChannelAssumption ==
    /\ N \in Nat \ {0} /\ Meta \in 0..N /\ Dyn \subseteq 1..N
    /\ First \in Nat /\ All \in Nat /\ First <= All
    /\ HasCb \in BOOLEAN /\ MaxFaults \in Nat
    /\ FaultKinds \subseteq {"add", "bundle", "map", "reg", "on", "more"}

Streams == 1..N
InfoBuf == 0
Bufs == 1..All

VARIABLES
    state,          \* of the channel
    st,             \* of each stream
    callback,       \* bundle.super_buf_notify_cb is set
    bundle,         \* bundle.is_active: its two threads run
    mapped,         \* <<stream, buffer>> the daemon has mapped
    memory,         \* streams whose buffers are allocated
    kernel,         \* <<stream, buffer>> queued to the kernel
    procTh,         \* streams whose data thread runs
    alloc,          \* BufAllocRoutine of each stream
    count,          \* how many buffers of each stream it has dealt with
    pc,             \* where the control thread is, in which stream
    faults,
    retired         \* the channel was started: the HAL only deletes it now

vars == <<state, st, callback, bundle, mapped, memory, kernel, procTh, alloc, count, pc, faults, retired>>

At(a) == pc.at = a
Goto(a, i) == pc' = [at |-> a, i |-> i]

TypeOK ==
    /\ state \in {"NOTUSED", "STOPPED", "ACTIVE"}
    /\ st \in [Streams -> {"NOTUSED", "CFG", "BUFFED", "REG", "ACTIVE"}]
    /\ callback \in BOOLEAN /\ bundle \in BOOLEAN /\ retired \in BOOLEAN
    /\ mapped \subseteq Streams \X (Bufs \cup {InfoBuf})
    /\ memory \subseteq Streams /\ procTh \subseteq Streams
    /\ kernel \subseteq Streams \X Bufs
    /\ alloc \in [Streams -> {"none", "waiting", "more"}] /\ count \in [Streams -> 0..All]
    /\ pc \in [at : {"idle", "get", "reg", "on", "rollback", "signal", "stop", "threads", "put", "delete"},
               i : 0..N]
    /\ faults \in 0..MaxFaults

Init ==
    /\ state = "NOTUSED" /\ st = [s \in Streams |-> "NOTUSED"]
    /\ callback = FALSE /\ bundle = FALSE /\ retired = FALSE
    /\ mapped = {} /\ memory = {} /\ kernel = {} /\ procTh = {}
    /\ alloc = [s \in Streams |-> "none"] /\ count = [s \in Streams |-> 0]
    /\ pc = [at |-> "idle", i |-> 0] /\ faults = 0

MayFail(kind) == kind \in FaultKinds /\ faults < MaxFaults /\ faults' = faults + 1

\* The streams in s_objs[]: metadata is first in a start and last in a stop.
\* Without one a stop swaps the first stream with the last.

StartOrder(i) ==
    CASE Meta # 0 /\ i = 1 -> Meta
      [] Meta # 0 /\ i = Meta -> 1
      [] OTHER -> i

StopOrder(i) ==
    LET m == IF Meta = 0 THEN 1 ELSE Meta IN
    CASE i = N -> m
      [] i = m -> N
      [] OTHER -> i

InitialBufs(s) == IF s \in Dyn THEN 1..First ELSE Bufs

-----------------------------------------------------------------------------
(* Creation, by the HAL. *)

AddChannel ==
    /\ At("idle") /\ state = "NOTUSED" /\ ~retired
    /\ state' = "STOPPED" /\ callback' = HasCb
    /\ UNCHANGED <<st, bundle, mapped, memory, kernel, procTh, alloc, count, pc, faults, retired>>

\* QCameraStream::init(): handle, stream info mapped, configured; what failed is
\* undone.
AddStream(s) ==
    /\ At("idle") /\ state = "STOPPED" /\ ~retired
    /\ st[s] = "NOTUSED" /\ \A r \in 1..(s - 1) : st[r] # "NOTUSED"
    /\ \/ /\ st' = [st EXCEPT ![s] = "CFG"]
          /\ mapped' = mapped \cup {<<s, InfoBuf>>}
          /\ UNCHANGED faults
       \/ MayFail("add") /\ UNCHANGED <<st, mapped>>
    /\ UNCHANGED <<state, callback, bundle, memory, kernel, procTh, alloc, count, pc, retired>>

-----------------------------------------------------------------------------
(* QCameraChannel::start() and mm_channel_start() *)

Ready == At("idle") /\ state = "STOPPED" /\ ~retired /\ \A s \in Streams : st[s] = "CFG"

\* The bundle is announced to the daemon before the streams' threads run.
BundleFails ==
    /\ Ready /\ N > 1 /\ MayFail("bundle")
    /\ UNCHANGED <<state, st, callback, bundle, mapped, memory, kernel, procTh, alloc, count, pc, retired>>

Start ==
    /\ Ready
    /\ procTh' = Streams
    /\ bundle' = callback
    /\ retired' = TRUE
    /\ Goto("get", 1)
    /\ UNCHANGED <<state, st, callback, mapped, memory, kernel, alloc, count, faults>>

\* QCameraStream::getBufs(): a buffer that is not mapped gives all of them up.
GetBufs ==
    /\ At("get")
    /\ LET s == StartOrder(pc.i) IN
         \/ /\ mapped' = mapped \cup {s} \X InitialBufs(s)
            /\ memory' = memory \cup {s}
            /\ st' = [st EXCEPT ![s] = "BUFFED"]
            /\ alloc' = IF s \in Dyn /\ First < All THEN [alloc EXCEPT ![s] = "waiting"] ELSE alloc
            /\ count' = [count EXCEPT ![s] = Cardinality(InitialBufs(s))]
            /\ Goto("reg", pc.i) /\ UNCHANGED faults
         \/ /\ MayFail("map") /\ Goto("rollback", 1)
            /\ UNCHANGED <<mapped, memory, st, alloc, count>>
    /\ UNCHANGED <<state, callback, bundle, kernel, procTh, retired>>

\* mm_stream_reg_buf(): some of the buffers may be queued when it fails.
RegBufs ==
    /\ At("reg")
    /\ LET s == StartOrder(pc.i) IN
         \/ /\ kernel' = kernel \cup {s} \X InitialBufs(s)
            /\ st' = [st EXCEPT ![s] = "REG"]
            /\ Goto("on", pc.i) /\ UNCHANGED faults
         \/ /\ MayFail("reg") /\ Goto("rollback", 1)
            /\ \E k \in 0..(Cardinality(InitialBufs(s)) - 1) : kernel' = kernel \cup {s} \X (1..k)
            /\ UNCHANGED st
    /\ UNCHANGED <<state, callback, bundle, mapped, memory, procTh, alloc, count, retired>>

StreamOn ==
    /\ At("on")
    /\ LET s == StartOrder(pc.i) IN
         \/ /\ st' = [st EXCEPT ![s] = "ACTIVE"] /\ UNCHANGED faults
            /\ IF pc.i < N THEN Goto("get", pc.i + 1) /\ UNCHANGED state
                           ELSE Goto("signal", 1) /\ state' = "ACTIVE"
         \/ /\ MayFail("on") /\ Goto("rollback", 1) /\ UNCHANGED <<st, state>>
    /\ UNCHANGED <<callback, bundle, mapped, memory, kernel, procTh, alloc, count, retired>>

\* The HAL's cond_signal() for each stream: the allocation goes on.
SignalStarted ==
    /\ At("signal")
    /\ alloc' = [s \in Streams |-> IF alloc[s] = "waiting" THEN "more" ELSE alloc[s]]
    /\ Goto("idle", 0)
    /\ UNCHANGED <<state, st, callback, bundle, mapped, memory, kernel, procTh, count, faults, retired>>

-----------------------------------------------------------------------------
(* Undoing it *)

Unmapped(S, s) == S \ ({s} \X Bufs)

\* put_bufs(): joins the allocation thread, then unmaps and frees.
PutOf(s) ==
    /\ alloc[s] = "none"
    /\ mapped' = Unmapped(mapped, s) /\ memory' = memory \ {s}

\* What a stream does with STOP, UNREG_BUF and PUT_BUF depends on how far it
\* got: an event its state does not know is ignored, so that a stream whose
\* buffers were not all registered does not give back those that were.
Rollback ==
    /\ At("rollback")
    /\ LET s == StartOrder(pc.i) IN
         /\ kernel' = IF st[s] \in {"REG", "ACTIVE"} THEN Unmapped(kernel, s) ELSE kernel
         /\ st' = [st EXCEPT ![s] = "CFG"]
         /\ IF st[s] \in {"BUFFED", "REG", "ACTIVE"} THEN PutOf(s) ELSE UNCHANGED <<mapped, memory>>
         /\ IF pc.i = N \/ st[s] # "ACTIVE" THEN Goto("threads", 0) ELSE Goto("rollback", pc.i + 1)
    /\ UNCHANGED <<state, callback, bundle, procTh, alloc, count, faults, retired>>

\* The bundle's threads end and it is cleared, its callback with it.
ReleaseThreads ==
    /\ At("threads")
    /\ bundle' = FALSE
    /\ callback' = IF bundle THEN FALSE ELSE callback
    /\ IF state = "ACTIVE" THEN Goto("put", 1) /\ UNCHANGED procTh
                           ELSE Goto("idle", 0) /\ procTh' = {}
    /\ UNCHANGED <<state, st, mapped, memory, kernel, alloc, count, faults, retired>>

\* QCameraChannel::stop() ends the streams' threads first.
Stop ==
    /\ At("idle") /\ state = "ACTIVE"
    /\ procTh' = {}
    /\ Goto("stop", 1)
    /\ UNCHANGED <<state, st, callback, bundle, mapped, memory, kernel, alloc, count, faults, retired>>

StopStream ==
    /\ At("stop")
    /\ LET s == StopOrder(pc.i) IN
         st' = [st EXCEPT ![s] = "BUFFED"] /\ kernel' = Unmapped(kernel, s)
    /\ IF pc.i < N THEN Goto("stop", pc.i + 1) ELSE Goto("threads", 0)
    /\ UNCHANGED <<state, callback, bundle, mapped, memory, procTh, alloc, count, faults, retired>>

PutStream ==
    /\ At("put")
    /\ LET s == StopOrder(pc.i) IN
         st' = [st EXCEPT ![s] = "CFG"] /\ PutOf(s)
    /\ IF pc.i < N THEN Goto("put", pc.i + 1) /\ UNCHANGED state
                   ELSE Goto("idle", 0) /\ state' = "STOPPED"
    /\ UNCHANGED <<callback, bundle, kernel, procTh, alloc, count, faults, retired>>

\* ~QCameraChannel() of a stopped channel: each stream's info is unmapped and
\* the stream released, then the channel.
Delete ==
    /\ At("idle") /\ state = "STOPPED"
    /\ state' = "NOTUSED" /\ callback' = FALSE /\ retired' = FALSE
    /\ st' = [s \in Streams |-> "NOTUSED"] /\ mapped' = mapped \ (Streams \X {InfoBuf})
    /\ UNCHANGED <<bundle, memory, kernel, procTh, alloc, count, pc, faults>>

-----------------------------------------------------------------------------
(* BufAllocRoutine: maps the next buffer and queues it, which an inactive     *)
(* stream refuses; a buffer the daemon does not map is left out.              *)

MistakenAllocNext(s) ==
    /\ alloc[s] = "more" /\ count[s] < All
    /\ LET b == count[s] + 1 IN
         /\ mapped' = mapped \cup {<<s, b>>} /\ UNCHANGED faults
         /\ kernel' = kernel \cup {<<s, b>>}
    /\ count' = [count EXCEPT ![s] = @ + 1]
    /\ UNCHANGED <<state, st, callback, bundle, memory, procTh, alloc, pc, retired>>

AllocNext(s) ==
    /\ alloc[s] = "more" /\ count[s] < All
    /\ LET b == count[s] + 1 IN
         \/ /\ mapped' = mapped \cup {<<s, b>>} /\ UNCHANGED faults
            /\ kernel' = IF st[s] = "ACTIVE" THEN kernel \cup {<<s, b>>} ELSE kernel
         \/ MayFail("more") /\ UNCHANGED <<mapped, kernel>>
    /\ count' = [count EXCEPT ![s] = @ + 1]
    /\ UNCHANGED <<state, st, callback, bundle, memory, procTh, alloc, pc, retired>>

AllocDone(s) ==
    /\ alloc[s] = "more" /\ count[s] = All
    /\ alloc' = [alloc EXCEPT ![s] = "none"]
    /\ UNCHANGED <<state, st, callback, bundle, mapped, memory, kernel, procTh, count, pc, faults, retired>>

-----------------------------------------------------------------------------

Begin == AddChannel \/ (\E s \in Streams : AddStream(s)) \/ BundleFails \/ Start \/ Stop \/ Delete
Continue ==
    \/ GetBufs \/ RegBufs \/ StreamOn \/ SignalStarted \/ Rollback
    \/ ReleaseThreads \/ StopStream \/ PutStream
Allocate == \E s \in Streams : AllocNext(s) \/ AllocDone(s)

Next == Begin \/ Continue \/ Allocate

Fairness == WF_vars(Continue) /\ WF_vars(Allocate)

Spec == Init /\ [][Next]_vars /\ Fairness

-----------------------------------------------------------------------------
(* Properties. *)

\* A channel that is not started has nothing left of a start: no buffer with the
\* kernel, none mapped or allocated, no thread, whichever operation of whichever
\* stream made the start fail.
NothingLeft ==
    At("idle") /\ state # "ACTIVE" =>
      /\ \A s \in Streams : st[s] \in {"NOTUSED", "CFG"} /\ alloc[s] = "none"
      /\ kernel = {} /\ memory = {} /\ procTh = {} /\ ~bundle
      /\ mapped = {<<s, InfoBuf>> : s \in {r \in Streams : st[r] # "NOTUSED"}}

\* "All streams within a channel should be started at the same time."
AllOrNone ==
    At("idle") /\ state = "ACTIVE" =>
      (\A s \in Streams : st[s] = "ACTIVE") /\ procTh = Streams /\ bundle = callback

\* A buffer the kernel may fill is mapped in the daemon and its memory is there,
\* also while the rest is allocated behind the back of a stop.
QueuedAreMapped == \A x \in kernel : x \in mapped /\ x[1] \in memory

\* No stream delivers frames without metadata, in a start or a stop.
MetaFirstAndLast ==
    Meta # 0 /\ ~At("rollback") => \A s \in Streams : st[s] = "ACTIVE" => st[Meta] = "ACTIVE"

\* All of these.
ChannelSound ==
    /\ TypeOK
    /\ NothingLeft /\ AllOrNone /\ MetaFirstAndLast /\ QueuedAreMapped

\* A start or a stop returns.
ControlReturns == ~At("idle") ~> At("idle")

\* mm_channel_start(), in its error handling, says "unreg buf" (1169): a failed
\* start leaves the kernel no buffer.
StartUnregisters == At("idle") /\ state # "ACTIVE" => kernel = {}

\* QCameraChannel::start() says it returns a "none-zero failure code" (252).
StartReturns == At("get") ~> At("idle")

=============================================================================
