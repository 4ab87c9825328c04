------------------------------ MODULE MCStack -------------------------------
(***************************************************************************)
(* The components of mm-camera-interface that wait for each other, side by  *)
(* side: a poll thread, a stream, the camera objects, a channel, the        *)
(* requests to the daemon.  A behaviour is about one of them, in an         *)
(* instance small enough for TLC; part says which.  The camera objects are  *)
(* those of MmInterface, extended here; the others are instances.           *)
(***************************************************************************)
EXTENDS MmInterface, Sequences

CONSTANTS
    Buffers, InitiallyHeld,     \* of the stream
    MaxPipe,                    \* bound of its poll thread
    Requesters, Callbacks,      \* of the requests to the daemon
    MaxRequests

VARIABLES
    part,           \* the component, and instance, that this behaviour is about
    \* MmStream: its poll thread, and its own
    pollState, pollThread, pollCtl, pollPipe, pollEntry, pollArmed, pollReleased,
    streamSt, streamPc, streaming, queued, refcnt, streamKernel, filled,
    poll, frame, cbq, cmd, exiting, uses, returning, readded,
    \* MmChannel
    channelState, channelSt, callback, bundle, channelMapped, memory, channelKernel,
    procTh, alloc, count, channelPc, faults, retired,
    \* MapRequests
    msg_lock, socket, daemon, kernelEvents, evt_rcvd, wait, sent, evtQueue, notified,
    requestMapped, believed, denied, taken, givenUp

pollVars == <<pollState, pollThread, pollCtl, pollPipe, pollEntry, pollArmed,
               pollReleased>>
streamOwnVars == <<streamSt, streamPc, streaming, queued, refcnt, streamKernel, filled,
                    poll, frame, cbq, cmd, exiting, uses, returning, readded>>
streamVars == <<pollVars, streamOwnVars>>
channelVars == <<channelState, channelSt, callback, bundle, channelMapped, memory,
                  channelKernel, procTh, alloc, count, channelPc, faults, retired>>
requestVars == <<msg_lock, socket, daemon, kernelEvents, evt_rcvd, wait, sent, evtQueue,
                  notified, requestMapped, believed, denied, taken, givenUp>>

Callers == <<"t1", "t2", "t3">>

-----------------------------------------------------------------------------
\* The stream's poll thread, Stream!Poll, is also a component of its own: any
\* commands, of any callers.  Stream!Channel has three streams, the metadata in the
\* middle, and any two failures.
Stream == INSTANCE MmStream_proofs WITH
    Bundled <- TRUE, HasCb <- TRUE, state <- pollState,
    thread <- pollThread, ctl <- pollCtl, pipe <- pollPipe, entry <- pollEntry,
    armed <- pollArmed, released <- pollReleased, st <- streamSt, pc <- streamPc,
    kernel <- streamKernel,
    N <- 3, Meta <- 2, Dyn <- {}, First <- 1, All <- 2, ChannelHasCb <- TRUE,
    MaxFaults <- 2, FaultKinds <- {"add", "bundle", "map", "on"}
\* The same, but TwoSteps!Channel has a snapshot stream whose last buffers are
\* allocated behind its start.
TwoSteps == INSTANCE MmStream_proofs WITH
    Bundled <- TRUE, HasCb <- TRUE, state <- pollState,
    thread <- pollThread, ctl <- pollCtl, pipe <- pollPipe, entry <- pollEntry,
    armed <- pollArmed, released <- pollReleased, st <- streamSt, pc <- streamPc,
    kernel <- streamKernel,
    N <- 3, Meta <- 3, Dyn <- {2}, First <- 1, All <- 4, ChannelHasCb <- TRUE,
    MaxFaults <- 2, FaultKinds <- {"more"}

Requests == INSTANCE MapRequests WITH
    Threads <- Requesters, mapped <- requestMapped

-----------------------------------------------------------------------------
Parts == {"poll", "stream", "interface", "channel", "two_steps", "requests"}

\* The instances keep to the assumptions of their modules.
ASSUME InstancesAssumption ==
    /\ Stream!StreamAssumption /\ Stream!Poll!PollThreadAssumption
    /\ InterfaceAssumption
    /\ Stream!Channel!ChannelAssumption /\ TwoSteps!Channel!ChannelAssumption
    /\ Requests!RequestsAssumption

\* A component the behaviour is not about stays in an initial state.
StackInit ==
    /\ part \in Parts
    /\ CASE part = "poll" -> Stream!Poll!Init
         [] OTHER -> Stream!InitPolling
    /\ Stream!InitAdded
    /\ Init
    /\ CASE part = "two_steps" -> TwoSteps!Channel!Init
         [] OTHER -> Stream!Channel!Init
    /\ Requests!Init

StackNext ==
    \/ part = "poll" /\ Stream!Poll!Next
          /\ UNCHANGED <<part, streamOwnVars, vars, channelVars, requestVars>>
    \/ part = "stream" /\ Stream!Next
          /\ UNCHANGED <<part, vars, channelVars, requestVars>>
    \/ part = "interface" /\ Next
          /\ UNCHANGED <<part, streamVars, channelVars, requestVars>>
    \/ part = "channel" /\ Stream!Channel!Next
          /\ UNCHANGED <<part, streamVars, vars, requestVars>>
    \/ part = "two_steps" /\ TwoSteps!Channel!Next
          /\ UNCHANGED <<part, streamVars, vars, requestVars>>
    \/ part = "requests" /\ Requests!Next
          /\ UNCHANGED <<part, streamVars, vars, channelVars>>

stackVars == <<part, streamVars, vars, channelVars, requestVars>>

\* The fairness of each component (Fairness of its module), while the behaviour
\* is about it.
StackSpec ==
    /\ StackInit /\ [][StackNext]_stackVars
    /\ WF_pollVars(part = "poll" /\ Stream!Poll!Announce)
    /\ WF_pollVars(part = "poll" /\ Stream!Poll!SetState)
    /\ WF_pollVars(part = "poll" /\ Stream!Poll!ProcPipe)
    /\ WF_pollVars(part = "poll" /\ Stream!Poll!Join)
    /\ WF_streamVars(part = "stream" /\ Stream!FailedStart)
    /\ WF_streamVars(part = "stream" /\ Stream!Continue)
    /\ WF_streamVars(part = "stream" /\ Stream!PollThreadRuns)
    /\ WF_streamVars(part = "stream" /\ Stream!CmdThreadRuns)
    /\ WF_streamVars(part = "stream" /\
           \E w \in {"user", "channel"}, b \in Buffers : Stream!UserBufDone(w, b))
    /\ \A t \in Threads : WF_vars(part = "interface" /\ Continue(t))
    /\ WF_channelVars(\/ part = "channel" /\ Stream!Channel!Continue
                      \/ part = "two_steps" /\ TwoSteps!Channel!Continue)
    /\ WF_channelVars(\/ part = "channel" /\ Stream!Channel!Allocate
                      \/ part = "two_steps" /\ TwoSteps!Channel!Allocate)
    /\ \A t \in Requesters :
          WF_requestVars(part = "requests" /\ Requests!Requester(t))
    /\ WF_requestVars(part = "requests" /\ Requests!DaemonMaps)
    /\ WF_requestVars(part = "requests" /\ Requests!EventNotify)
    /\ WF_requestVars(part = "requests" /\ Requests!DispatchAppEvent)

-----------------------------------------------------------------------------
\* What a poll thread polls follows what is registered, and a synchronous
\* update returns for its own command only (mm_camera_thread.c).
PollingFollows == part = "poll" => Stream!Poll!PollingFollows

\* A stream's references, the kernel's ownership of its buffers and the polling
\* of its descriptor agree, for any order of reads and returns; after step 1 of
\* a stop its callback is quiet (mm_camera_stream.c).
StreamSound == part = "stream" => Stream!StreamSound

\* A channel's start is undone completely or every stream runs, metadata first
\* and last, and the kernel has mapped buffers only (mm_camera_channel.c,
\* QCameraStream.cpp).
ChannelSound ==
    /\ part = "channel" => Stream!Channel!ChannelSound
    /\ part = "two_steps" => TwoSteps!Channel!ChannelSound

\* What the HAL believes of a mapping request is what the daemon did with the
\* request whose answer was taken: each answer is taken once and in order, and a
\* request is answered by another's only after one was given up (mm_camera.c).
AnswersAreOwn == part = "requests" => Requests!AnswersAreOwn

\* Every blocking call of the stack returns: control calls of the poll thread,
\* stops of a stream, calls that need the camera's locks, starts and stops of a
\* channel, and requests to a daemon that may die, of which every callback learns.
\* The k-th caller of a component waits, and is served;
\* the daemon's death, and its report, count as the third of the requests.
Waits(k) ==
    \/ part = "poll" /\ k = 1 /\ pollCtl # "idle"
    \/ part = "stream" /\ k = 1 /\ streamPc # "idle"
    \/ part = "interface" /\ call[Callers[k]].op # "none"
    \/ part \in {"channel", "two_steps"} /\ k = 1 /\ channelPc.at # "idle"
    \/ part = "requests" /\ IF k = 3 THEN daemon = "dead" ELSE wait[Callers[k]].at # "idle"
Served(k) ==
    \/ part = "poll" /\ pollCtl = "idle"
    \/ part = "stream" /\ streamPc = "idle"
    \/ part = "interface" /\ call[Callers[k]].op = "none"
    \/ part \in {"channel", "two_steps"} /\ channelPc.at = "idle"
    \/ part = "requests" /\ IF k = 3 THEN Requests!DeathReported ELSE wait[Callers[k]].at = "idle"

BlockingCallsReturn == \A k \in 1..3 : Waits(k) ~> Served(k)
=============================================================================
