---------------------------- MODULE QCamera3Requests ----------------------------
(***************************************************************************)
(* The requests of the third camera HAL (QCamera3HWI.cpp): the framework's  *)
(* thread gives them one by one and is held back while too many are in      *)
(* flight, the streams' threads bring metadata and buffers in any order,    *)
(* and another thread of the framework flushes.  mMutex makes one step of   *)
(* every handler; flush() stops the channels without it.                    *)
(*                                                                         *)
(* A request asks for the preview buffer "p", the picture's "blob", or      *)
(* both; a reprocess request brings its own input and asks for a blob.      *)
(***************************************************************************)
EXTENDS Integers, Sequences, SequencesExt, FiniteSets, FiniteSetsExt

CONSTANTS
    Kinds,          \* of requests: "preview", "still", "reprocess"
    MinInflight,    \* MIN_INFLIGHT_REQUESTS: from here on the caller waits
    MaxInflight,    \* MAX_INFLIGHT_REQUESTS: up to here the daemon may let it go
    MetaLost,       \* may the metadata of a preview frame be lost?
    Drops,          \* may the backend drop a frame of a stream?
    Flushes,        \* does the framework flush?
    Waits5s,        \* may the caller's wait end by its timeout?
    MaxFrames       \* bound: requests given

RequestsAssumption ==
    /\ Kinds \subseteq {"preview", "still", "reprocess"}
    /\ MinInflight \in 1..MaxInflight /\ MaxInflight \in Nat
    /\ {MetaLost, Drops, Flushes, Waits5s} \subseteq BOOLEAN /\ MaxFrames \in Nat

Frames == 1..MaxFrames
Streams == {"p", "blob"}
Channels == <<"p", "blob", "meta">>    \* in the order they are stopped in
Asked(kind) ==
    CASE kind = "preview" -> {"p"} [] kind = "still" -> Streams [] OTHER -> {"blob"}

VARIABLES
    mPendingRequestsList,   \* frame, kind, bUrgentReceived, streams whose buffer is here
    mPendingBuffers,        \* <<frame, stream>>: mPendingBuffersMap
    mPendingFrameDropList,
    mPendingReprocessResultList,    \* frames of the results held back
    mPendingRequest, mFlush, mFirstRequest, mWokenUpByDaemon,
    caller,     \* of process_capture_request(): "idle", "wait", or "failed" after 5 s
    signalled,  \* mRequestCond was signalled to it
    toStop,     \* the channels flush() still has to stop
    kindOf,     \* kinds of the frames given so far
    metas,      \* frames whose metadata the backend has yet to send
    bufs,       \* <<frame, stream>> the backend has yet to fill
    pic,        \* frames whose metadata the picture channel has
    lost,       \* history: frames whose metadata was lost
    fw          \* history: what the framework was told

list == <<mPendingRequestsList, mPendingBuffers, mPendingFrameDropList,
          mPendingReprocessResultList>>
ctl == <<mFlush, mFirstRequest, toStop, kindOf>>
backend == <<metas, bufs, pic, lost>>
vars == <<list, mPendingRequest, mWokenUpByDaemon, caller, signalled, ctl, backend, fw>>

Given == 1..Len(kindOf)
Buffers == UNION {{<<f, s>> : s \in Asked(kindOf[f])} : f \in Given}
IsReproc(r) == r.kind = "reprocess"     \* it has an input_buffer

Init ==
    /\ mPendingRequestsList = <<>> /\ mPendingBuffers = {}
    /\ mPendingFrameDropList = {} /\ mPendingReprocessResultList = {}
    /\ mPendingRequest = 0 /\ mFlush = FALSE /\ mFirstRequest = TRUE
    /\ mWokenUpByDaemon = FALSE /\ caller = "idle" /\ signalled = FALSE
    /\ toStop = <<>> /\ kindOf = <<>>
    /\ metas = <<>> /\ bufs = {} /\ pic = {} /\ lost = {}
    /\ fw = [shutters |-> <<>>, results |-> <<>>, back |-> <<>>, bad |-> {},
             bufferErrors |-> {}, requestErrors |-> {}, inputs |-> {}]
--------------------------------------------------------------------------------
unblockRequestIfNecessary == signalled' = (caller = "wait")

\* processCaptureRequest().  The first after a configuration starts the channels;
\* one that comes during a flush is only noted, for the flush to answer.  The
\* framework has one input buffer, MAX_INFLIGHT_REPROCESS_REQUESTS.
processCaptureRequest ==
    /\ caller = "idle" /\ Len(kindOf) < MaxFrames
    /\ \E kind \in Kinds :
       LET f == Len(kindOf) + 1
           counted == (IF mFirstRequest THEN 0 ELSE mPendingRequest) + 1
       IN
       /\ kind = "reprocess" => \A g \in Given : kindOf[g] # "reprocess" \/ g \in fw.inputs
       /\ kindOf' = Append(kindOf, kind)
       /\ mPendingRequestsList' = Append(mPendingRequestsList,
             [frame |-> f, kind |-> kind, urgent |-> FALSE, here |-> {}])
       /\ mPendingBuffers' = mPendingBuffers \cup {<<f, s>> : s \in Asked(kind)}
       /\ IF mFlush
          THEN /\ mPendingRequest' = IF mFirstRequest THEN 0 ELSE mPendingRequest
               /\ UNCHANGED <<mFirstRequest, caller, metas, bufs>>
          ELSE /\ mPendingRequest' = counted /\ mFirstRequest' = FALSE
               /\ caller' = IF counted >= MinInflight THEN "wait" ELSE "idle"
               /\ metas' = IF kind = "reprocess" THEN metas ELSE Append(metas, f)
               /\ bufs' = bufs \cup {<<f, s>> : s \in Asked(kind)}
       /\ mWokenUpByDaemon' = (mWokenUpByDaemon /\ ~mFirstRequest)
    /\ UNCHANGED <<mPendingFrameDropList, mPendingReprocessResultList, mFlush, signalled,
                   toStop, pic, lost, fw>>

\* The loop around the wait.
Wake ==
    /\ caller = "wait" /\ signalled /\ signalled' = FALSE
    /\ mWokenUpByDaemon' = FALSE
    /\ caller' = IF \/ mWokenUpByDaemon /\ mPendingRequest < MaxInflight
                    \/ mPendingRequest < MinInflight THEN "idle" ELSE "wait"
    /\ UNCHANGED <<list, mPendingRequest, ctl, backend, fw>>
TimedOut ==
    /\ caller = "wait" /\ Waits5s
    /\ caller' = "failed" /\ signalled' = FALSE
    /\ UNCHANGED <<list, mPendingRequest, mWokenUpByDaemon, ctl, backend, fw>>

\* camEvtHandle(): the daemon asks for more.
DaemonPullReq ==
    /\ mWokenUpByDaemon' = TRUE /\ unblockRequestIfNecessary
    /\ UNCHANGED <<list, mPendingRequest, caller, ctl, backend, fw>>
--------------------------------------------------------------------------------
\* The metadata stream's thread.

CountedOff(n) == mPendingRequest' = mPendingRequest - n

\* Urgent metadata is a first partial result.
HandleUrgent ==
    /\ \E i \in DOMAIN mPendingRequestsList :
          /\ mPendingRequestsList[i].frame \in ToSet(metas) /\ ~mPendingRequestsList[i].urgent
          /\ mPendingRequestsList' = [mPendingRequestsList EXCEPT ![i].urgent = TRUE]
    /\ unblockRequestIfNecessary
    /\ UNCHANGED <<mPendingBuffers, mPendingFrameDropList, mPendingReprocessResultList,
                   mPendingRequest, mWokenUpByDaemon, caller, ctl, backend, fw>>

\* A reprocess that ended early goes when the frame before it, f, has been answered.
\* The list ascends: its request is the first of those beyond f, if it is there.
handlePendingReprocResults(rest, f) ==
    IF rest # <<>> /\ Head(rest).frame = f + 1 /\ f + 1 \in mPendingReprocessResultList
    THEN <<Head(rest)>> ELSE <<>>

\* The first n requests, all up to frame f, are answered with the buffers that are
\* here; those before f get a dummy result.  The reprocess held back by f goes after
\* the first of them.  The metadata of a picture goes to its channel.
Answer(f, n, dropped) ==
    LET upTo == SubSeq(mPendingRequestsList, 1, n)
        rest == SubSeq(mPendingRequestsList, n + 1, Len(mPendingRequestsList))
        held == IF n = 0 THEN <<>> ELSE handlePendingReprocResults(rest, f)
        order == IF held = <<>> THEN upTo ELSE <<Head(upTo)>> \o held \o Tail(upTo)
        gone == ToSet(upTo)
        drops == {<<r.frame, s>> : r \in gone, s \in dropped} \cap
                 UNION {{<<r.frame, s>> : s \in Asked(r.kind)} : r \in gone}
        sent == UNION {{<<r.frame, s>> : s \in r.here} : r \in gone}
        early == {r.frame : r \in ToSet(held)}
    IN  /\ fw' = [fw EXCEPT
              !.bufferErrors = @ \cup drops,
              !.shutters = @ \o [i \in DOMAIN order |-> order[i].frame],
              !.results = @ \o [i \in DOMAIN order |->
                              [frame |-> order[i].frame, dummy |-> order[i].frame < f]],
              !.back = @ \o SetToSeq(sent \cup {<<g, "blob">> : g \in early}),
              !.bad = @ \cup {b \in sent \cap drops : b[1] = f},
              !.inputs = @ \cup early]
        /\ mPendingRequestsList' = IF held = <<>> THEN rest ELSE Tail(rest)
        /\ mPendingReprocessResultList' = mPendingReprocessResultList \ early
        /\ CountedOff(Len(order))
        /\ mPendingFrameDropList' =
              (mPendingFrameDropList \cup drops) \ {b \in sent : b[1] = f}
        /\ mPendingBuffers' = mPendingBuffers \ sent
        /\ pic' = pic \cup {r.frame : r \in {q \in gone : q.frame = f /\ q.kind = "still"}}

\* Metadata of frame f answers the requests from the oldest to the first beyond f.
handleMetadataWithLock ==
    /\ metas # <<>> /\ metas' = Tail(metas)
    /\ \E n \in 0..Len(mPendingRequestsList) :
          /\ \A i \in 1..n : mPendingRequestsList[i].frame <= Head(metas)
          /\ n < Len(mPendingRequestsList) => mPendingRequestsList[n + 1].frame > Head(metas)
          /\ \E dropped \in SUBSET (IF Drops THEN Streams ELSE {}) : Answer(Head(metas), n, dropped)
    /\ unblockRequestIfNecessary
    /\ UNCHANGED <<mWokenUpByDaemon, caller, ctl, bufs, lost>>
--------------------------------------------------------------------------------
\* A buffer of frame f comes from a stream's thread, or a blob from the encoder's.

\* Its request is answered already: the buffer goes by itself.
LateBuffer(f, s) ==
    /\ \A r \in ToSet(mPendingRequestsList) : r.frame # f
    /\ mPendingFrameDropList' = mPendingFrameDropList \ {<<f, s>>}
    /\ mPendingBuffers' = mPendingBuffers \ {<<f, s>>}
    /\ fw' = [fw EXCEPT !.back = Append(@, <<f, s>>),
                        !.bad = @ \cup ({<<f, s>>} \cap mPendingFrameDropList)]
    /\ UNCHANGED <<mPendingRequestsList, mPendingReprocessResultList, mPendingRequest>>

\* It waits for the metadata.
KeepBuffer(f, s) ==
    /\ \E i \in DOMAIN mPendingRequestsList :
          /\ mPendingRequestsList[i].frame = f /\ ~IsReproc(mPendingRequestsList[i])
          /\ mPendingRequestsList' = [mPendingRequestsList EXCEPT ![i].here = @ \cup {s}]
    /\ UNCHANGED <<mPendingBuffers, mPendingFrameDropList, mPendingReprocessResultList,
                   mPendingRequest, fw>>

\* Mutant: it is answered at once.
ReprocAtOnce(f, s) ==
    /\ \E r \in ToSet(mPendingRequestsList) : r.frame = f /\ IsReproc(r)
    /\ mPendingBuffers' = mPendingBuffers \ {<<f, s>>}
    /\ fw' = [fw EXCEPT !.shutters = Append(@, f),
                    !.results = Append(@, [frame |-> f, dummy |-> FALSE]),
                    !.back = Append(@, <<f, s>>), !.inputs = @ \cup {f}]
    /\ mPendingRequestsList' = SelectSeq(mPendingRequestsList, LAMBDA r : r.frame # f)
    /\ CountedOff(1)
    /\ UNCHANGED <<mPendingReprocessResultList, mPendingFrameDropList>>
\* What was reprocessed is answered at once, unless an earlier request waits.
ReprocBuffer(f, s) ==
    /\ \E r \in ToSet(mPendingRequestsList) : r.frame = f /\ IsReproc(r)
    /\ mPendingBuffers' = mPendingBuffers \ {<<f, s>>}
    /\ IF Head(mPendingRequestsList).frame = f
       THEN /\ fw' = [fw EXCEPT !.shutters = Append(@, f),
                          !.results = Append(@, [frame |-> f, dummy |-> FALSE]),
                          !.back = Append(@, <<f, s>>), !.inputs = @ \cup {f}]
            /\ mPendingRequestsList' = Tail(mPendingRequestsList)
            /\ CountedOff(1)
            /\ UNCHANGED mPendingReprocessResultList
       ELSE /\ mPendingReprocessResultList' = mPendingReprocessResultList \cup {f}
            /\ UNCHANGED <<mPendingRequestsList, mPendingRequest, fw>>
    /\ UNCHANGED mPendingFrameDropList

handleBufferWithLock(f, s) == LateBuffer(f, s) \/ KeepBuffer(f, s) \/ ReprocBuffer(f, s)

\* captureResultCb().  A stream's buffers come in order, and a picture is encoded
\* when the metadata is there.
captureResultCb ==
    /\ \E b \in bufs :
          /\ \A c \in bufs : c[2] = b[2] => b[1] <= c[1]
          /\ b[2] = "blob" /\ kindOf[b[1]] = "still" => b[1] \in pic
          /\ handleBufferWithLock(b[1], b[2])
          /\ bufs' = bufs \ {b}
    /\ UNCHANGED <<mWokenUpByDaemon, caller, signalled, ctl, metas, pic, lost>>

\* The backend loses the metadata of a preview frame, but not that of the last.
LoseMeta ==
    /\ MetaLost /\ Len(metas) > 1 /\ kindOf[Head(metas)] = "preview"
    /\ metas' = Tail(metas) /\ lost' = lost \cup {Head(metas)}
    /\ UNCHANGED <<list, mPendingRequest, mWokenUpByDaemon, caller, signalled, ctl, bufs, pic, fw>>
--------------------------------------------------------------------------------
\* flush(): channel after channel is stopped, without the lock.
flush ==
    /\ Flushes /\ ~mFlush /\ mFlush' = TRUE /\ toStop' = Channels
    /\ UNCHANGED <<list, mPendingRequest, mFirstRequest, mWokenUpByDaemon, caller, signalled,
                   kindOf, backend, fw>>
StopChannel ==
    /\ toStop # <<>> /\ toStop' = Tail(toStop)
    /\ LET c == Head(toStop)
       IN  /\ bufs' = {b \in bufs : b[2] # c}
           /\ metas' = IF c = "meta" THEN <<>> ELSE metas
           /\ pic' = IF c = "blob" THEN {} ELSE pic
    /\ UNCHANGED <<list, mPendingRequest, mWokenUpByDaemon, caller, signalled, mFlush,
                   mFirstRequest, kindOf, lost, fw>>

\* Then every buffer that is pending comes back in error: those of frames before the
\* oldest pending request each with an error of its own, the others with one for the
\* request.  The oldest is read from the list even if that is empty.
FlushEnd ==
    /\ mFlush /\ toStop = <<>> /\ mFlush' = FALSE
    /\ mPendingRequest' = 0 /\ signalled' = (caller = "wait")
    /\ \E frameNum \in IF mPendingRequestsList = <<>> THEN 0..MaxFrames + 1
                       ELSE {Head(mPendingRequestsList).frame} :
          LET old == {b \in mPendingBuffers : b[1] < frameNum}
          IN  fw' = [fw EXCEPT !.bufferErrors = @ \cup old,
                         !.requestErrors = @ \cup {b[1] : b \in mPendingBuffers \ old},
                         !.back = @ \o SetToSeq(mPendingBuffers),
                         !.bad = @ \cup mPendingBuffers]
    /\ mPendingRequestsList' = <<>> /\ mPendingBuffers' = {} /\ mPendingFrameDropList' = {}
    /\ mPendingReprocessResultList' = {}
    /\ UNCHANGED <<mWokenUpByDaemon, caller, mFirstRequest, toStop, kindOf, backend>>
--------------------------------------------------------------------------------
Backend == handleMetadataWithLock \/ captureResultCb
Next ==
    \/ processCaptureRequest \/ Wake \/ TimedOut \/ DaemonPullReq \/ HandleUrgent
    \/ Backend \/ LoseMeta \/ flush \/ StopChannel \/ FlushEnd

\* The backend answers, threads run; the framework need not flush, nor the daemon ask.
Fairness ==
    /\ WF_vars(handleMetadataWithLock) /\ WF_vars(captureResultCb)
    /\ WF_vars(Wake) /\ WF_vars(StopChannel) /\ WF_vars(FlushEnd)

Spec == Init /\ [][Next]_vars /\ Fairness
--------------------------------------------------------------------------------
\* The lists hold what was given.
TypeOK ==
    /\ \A r \in ToSet(mPendingRequestsList) :
          r.frame \in Given /\ r.kind = kindOf[r.frame] /\ r.here \subseteq Asked(r.kind)
    /\ mPendingBuffers \subseteq Buffers /\ bufs \subseteq Buffers
    /\ ToSet(metas) \cup mPendingReprocessResultList \subseteq Given
    /\ mPendingRequest \in Int /\ caller \in {"idle", "wait", "failed"}

\* The counter the caller is held back by is the length of the list, whatever way
\* a request left it, but for what came during a flush.
InFlightCounted == ~mFlush => mPendingRequest = Len(mPendingRequestsList)

\* The caller comes back only to a HAL that has room.
RoomForNext == caller = "idle" => mPendingRequest < MaxInflight

\* Results come in the order of the frames, each frame's shutter and result once.
ResultsInOrder ==
    /\ \A i, j \in DOMAIN fw.results : i < j => fw.results[i].frame < fw.results[j].frame
    /\ \A i, j \in DOMAIN fw.shutters : i < j => fw.shutters[i] < fw.shutters[j]

\* No buffer is given to the framework twice, whether it came before its metadata,
\* after it, or was flushed, and what the map still has was not given back.
BackOnce ==
    /\ IsInjective(fw.back)
    /\ ToSet(fw.back) \cap mPendingBuffers = {}

\* When flush() returns, every request has its result or an error, and every
\* buffer is with the framework.
FlushAnswersAll ==
    [][mFlush /\ ~mFlush' =>
          /\ ToSet(fw'.back) = Buffers
          /\ \A f \in Given : \/ f \in fw'.requestErrors
                              \/ \E r \in ToSet(fw'.results) : r.frame = f]_vars

\* process_capture_request() returns, without its timeout.
CallerReturns == caller = "wait" ~> caller # "wait"

\* Each buffer that was given comes back.
AllBack == \A f \in Frames : \A s \in Streams :
    (f \in Given /\ <<f, s>> \in Buffers) ~> <<f, s>> \in ToSet(fw.back)

\* "Send Error notify to frameworks for each buffer for which metadata buffer is
\* already sent": then the request itself is not in error.
AnsweredNotInError ==
    \A r \in ToSet(fw.results) : r.frame \notin fw.requestErrors

\* "Send empty metadata with already filled buffers for dropped metadata".
DummyForLost == \A r \in ToSet(fw.results) : r.dummy => r.frame \in lost

\* A buffer the framework was told is in error is in error when it comes.
DroppedMeansBad == fw.bufferErrors \cap ToSet(fw.back) \subseteq fw.bad
================================================================================
