--------------------------- MODULE QCamera3Picture ---------------------------
(***************************************************************************)
(* A picture of the HAL3, from QCamera3PicChannel::request() to the JPEG   *)
(* that fills the framework's buffer.  The post-processor pairs the frame  *)
(* of the sensor with its metadata and with the settings of the request,   *)
(* has the offline stream of QCamera3ReprocessChannel process it and the   *)
(* encoder encode it.  Nothing carries a name from one to the next: every  *)
(* queue is taken from its head.                                           *)
(*                                                                         *)
(* Threads: the one of the requests, the data threads of the sensor's      *)
(* stream and of the offline stream, the metadata's, the data processing   *)
(* thread, the encoder's, and one that flushes.  What is done under        *)
(* mReprocJobLock is a step.  Pictures are numbered as they are asked for; *)
(* the sensor and the metadata come in that order.                         *)
(***************************************************************************)
EXTENDS Naturals, Sequences, FiniteSets, SequencesExt

CONSTANTS
    MaxPics,        \* bound: pictures of a behaviour
    Bufs,           \* max_buffers of the stream
    Kinds,          \* of {"sensor", "input"}: what the framework asks for
    NeedReproc,     \* needReprocess() of the channel's feature mask
    Mixed,          \* a picture of another kind may be asked for before all are back
    MaxFlushes,     \* bound
    LateCallback,   \* the encoder may report a job after abort_job()
    Faults          \* of {"encode", "reproc"}

PictureAssumption ==
    /\ MaxPics \in Nat /\ Bufs \in Nat \ {0} /\ Kinds \subseteq {"sensor", "input"}
    /\ NeedReproc \in BOOLEAN /\ Mixed \in BOOLEAN /\ LateCallback \in BOOLEAN

VARIABLES
    kind,           \* of the pictures asked for, in order
    back,           \* the pictures that are back, or refused
    results,        \* [to, pic, set, meta] the encoder filled a buffer with
    slots,          \* mMemory: the picture whose buffer is in each slot, or 0
    started, inputConfig,   \* mPostProcStarted, mInputBufferConfig
    reproc,         \* m_pReprocChannel: [id, src], id 0 for NULL
    ids,            \* reprocess channels made so far
    free,           \* mFreeBufferList
    settingsQ,      \* m_jpegSettingsQ: [of, out]
    active,         \* is_active, and with it the queues that STOP flushes
    inputPPQ,       \* [pic, buf]
    inputMetaQ,     \* pictures
    inputFWKPPQ,    \* pictures
    ongoingPPQ,     \* [pic, buf, meta, set, freed]
    inputJpegQ,     \* [pic, buf, meta, set, id]
    ongoingJpegQ,
    offline,        \* mOfflineBuffers: pictures mapped for the offline stream
    cmds, dp,       \* the commands of the data processing thread, and where it is
    req,            \* the picture of the request in progress, or 0
    flush, flushes, \* where the thread that flushes is, and how often it did
    sensor,         \* YUV buffers queued to the sensor
    due, metaDue,   \* pictures whose frame, and metadata, the sensor still owes
    metas,          \* pictures whose metadata buffer the HAL holds
    atReproc,       \* pictures in the offline stream
    encoder,        \* the job in the encoder, as a sequence
    crashed         \* a callback used a job that is not there

ppVars == <<inputPPQ, inputMetaQ, inputFWKPPQ, ongoingPPQ, inputJpegQ, ongoingJpegQ>>
chVars == <<slots, started, inputConfig, reproc, ids, offline>>
fwVars == <<kind, back, results>>
hwVars == <<sensor, due, metaDue, metas, atReproc, encoder>>
thVars == <<req, flush, flushes, crashed>>
vars == <<fwVars, chVars, free, settingsQ, active, ppVars, cmds, dp, thVars, hwVars>>

NoReproc == [id |-> 0, src |-> "none"]
NoSettings == [of |-> 0, out |-> 0]

\* initialize(): every buffer may be queued to the sensor.
initialize == [i \in 1 .. Bufs |-> i]

Init ==
    /\ kind = <<>> /\ back = {} /\ results = <<>>
    /\ slots = [s \in 1 .. MaxPics |-> 0]
    /\ started = FALSE /\ inputConfig = FALSE /\ reproc = NoReproc /\ ids = 0
    /\ free = initialize /\ settingsQ = <<>> /\ active = FALSE
    /\ inputPPQ = <<>> /\ inputMetaQ = <<>> /\ inputFWKPPQ = <<>>
    /\ ongoingPPQ = <<>> /\ inputJpegQ = <<>> /\ ongoingJpegQ = <<>>
    /\ offline = <<>> /\ cmds = <<>> /\ dp = "wait"
    /\ req = 0 /\ flush = "idle" /\ flushes = 0 /\ crashed = FALSE
    /\ sensor = {} /\ due = <<>> /\ metaDue = <<>> /\ metas = {}
    /\ atReproc = <<>> /\ encoder = <<>>

Pics == 1 .. Len(kind)
Waiting == Pics \ back
SomeNext(q) == Append(q, "NEXT")

-----------------------------------------------------------------------------
(* request() *)

FreeSlot == CHOOSE s \in DOMAIN slots : slots[s] = 0 /\ \A t \in DOMAIN slots : slots[t] = 0 => s <= t
SlotOf(p) == CHOOSE s \in DOMAIN slots : slots[s] = p

\* The stream promises as many pictures at once as it has buffers, an input stream one.
MayAsk(k) ==
    /\ Len(kind) < MaxPics /\ req = 0 /\ flush = "idle"
    /\ Cardinality(Waiting) < Bufs
    /\ k = "input" => \A p \in Waiting : kind[p] # "input"
    /\ Mixed \/ \A p \in Waiting : kind[p] = k

addReprocStreamsFromSource(k) == [id |-> ids + 1, src |-> k]

\* start() replaces the reprocess channel when there is one to make, and leaves the
\* former one otherwise.
MakesReproc(k) == NeedReproc \/ k = "input"
StartNeeded(k) == ~started \/ (~inputConfig # (k = "input"))

request(k) ==
    /\ MayAsk(k)
    /\ kind' = Append(kind, k) /\ req' = Len(kind) + 1
    /\ slots' = [slots EXCEPT ![FreeSlot] = Len(kind) + 1]
    /\ IF StartNeeded(k)
       THEN /\ started' = TRUE /\ inputConfig' = (k = "sensor")
            /\ cmds' = Append(cmds, "START")
            /\ IF MakesReproc(k)
               THEN /\ reproc' = addReprocStreamsFromSource(k) /\ ids' = ids + 1
                    /\ offline' = <<>> /\ atReproc' = <<>>
               ELSE UNCHANGED <<reproc, ids, offline, atReproc>>
       ELSE UNCHANGED <<started, inputConfig, cmds, reproc, ids, offline, atReproc>>
    /\ UNCHANGED <<back, results, free, settingsQ, active, ppVars, dp, flush, flushes, crashed,
                   sensor, due, metaDue, metas, encoder>>

processJpegSettingData == Append(settingsQ, [of |-> req, out |-> SlotOf(req)])

\* When the processing has started: the settings first, then a buffer for the sensor
\* or the framework's input.  Without a free buffer the settings stay behind.
queueJpegSetting ==
    /\ req # 0 /\ ~Contains(cmds, "START") /\ dp = "wait" /\ req' = 0
    /\ settingsQ' = processJpegSettingData
    /\ \/ /\ kind[req] = "sensor" /\ free # <<>>
          /\ sensor' = sensor \cup {Head(free)} /\ free' = Tail(free)
          /\ due' = Append(due, req) /\ metaDue' = Append(metaDue, req)
          /\ UNCHANGED <<back, inputFWKPPQ, cmds>>
       \/ /\ kind[req] = "sensor" /\ free = <<>> /\ back' = back \cup {req}
          /\ UNCHANGED <<sensor, free, due, metaDue, inputFWKPPQ, cmds>>
       \/ /\ kind[req] = "input" /\ inputFWKPPQ' = Append(inputFWKPPQ, req)
          /\ cmds' = SomeNext(cmds)
          /\ UNCHANGED <<sensor, free, due, metaDue, back>>
    /\ UNCHANGED <<kind, results, chVars, active, inputPPQ, inputMetaQ, ongoingPPQ, inputJpegQ,
                   ongoingJpegQ, dp, flush, flushes, crashed, metas, atReproc, encoder>>

-----------------------------------------------------------------------------
(* Frames and metadata of the sensor *)

Told(other, q) == IF other # <<>> THEN SomeNext(q) ELSE q
leavesSensor(b) == sensor \ {b}

\* A buffer queued without a request brings a frame of no picture, 0.
streamCbRoutine(b) == [pic |-> IF due = <<>> THEN 0 ELSE Head(due), buf |-> b]

processData(b) ==
    /\ b \in sensor /\ flush # "channel" /\ sensor' = leavesSensor(b)
    /\ inputPPQ' = IF active THEN Append(inputPPQ, streamCbRoutine(b)) ELSE inputPPQ
    /\ due' = IF due = <<>> THEN due ELSE Tail(due)
    /\ cmds' = Told(inputMetaQ, cmds)
    /\ UNCHANGED <<fwVars, chVars, free, settingsQ, active, inputMetaQ, inputFWKPPQ, ongoingPPQ,
                   inputJpegQ, ongoingJpegQ, dp, thVars, metaDue, metas, atReproc, encoder>>

processPPMetadata ==
    /\ metaDue # <<>> /\ metaDue' = Tail(metaDue) /\ metas' = metas \cup {Head(metaDue)}
    /\ inputMetaQ' = IF active THEN Append(inputMetaQ, Head(metaDue)) ELSE inputMetaQ
    /\ cmds' = Told(inputPPQ, cmds)
    /\ UNCHANGED <<fwVars, chVars, free, settingsQ, active, inputPPQ, inputFWKPPQ, ongoingPPQ,
                   inputJpegQ, ongoingJpegQ, dp, thVars, sensor, due, atReproc, encoder>>

-----------------------------------------------------------------------------
(* The data processing thread *)

metadataBufDone(pics) == metas \ pics
releasedMetas(jobs) == metadataBufDone({j.meta : j \in jobs})

StartDataProc ==
    /\ dp = "wait" /\ cmds # <<>> /\ Head(cmds) = "START"
    /\ cmds' = Tail(cmds) /\ active' = TRUE
    /\ UNCHANGED <<fwVars, chVars, free, settingsQ, ppVars, dp, thVars, hwVars>>

\* STOP aborts what is encoded and flushes every queue but that of the settings; the
\* frames in the input queue go back to the sensor.
flushed(q) == <<>>
FlushedBufs(jobs) == {j.buf : j \in jobs}
StopDataProc ==
    /\ dp = "wait" /\ cmds # <<>> /\ Head(cmds) = "STOP"
    /\ active' = FALSE
    /\ cmds' = Tail(cmds) \o [i \in 1 .. Len(ongoingJpegQ) + Len(inputJpegQ) |-> "NEXT"]
    /\ metas' = releasedMetas(ToSet(ongoingJpegQ) \cup ToSet(inputJpegQ) \cup ToSet(ongoingPPQ))
                    \ ToSet(inputMetaQ)
    /\ encoder' = IF LateCallback THEN encoder ELSE <<>>
    /\ sensor' = (sensor \cup {j.buf : j \in ToSet(inputPPQ)} \cup FlushedBufs(ToSet(ongoingPPQ))) \ {0}
    /\ inputPPQ' = flushed(inputPPQ) /\ inputMetaQ' = flushed(inputMetaQ)
    /\ inputFWKPPQ' = flushed(inputFWKPPQ) /\ ongoingPPQ' = flushed(ongoingPPQ)
    /\ inputJpegQ' = flushed(inputJpegQ) /\ ongoingJpegQ' = <<>>
    /\ UNCHANGED <<fwVars, chVars, free, settingsQ, dp, thVars, due, metaDue, atReproc>>

\* A job goes to the encoder when none is there.  The frame must be of the picture
\* channel or of the reprocess channel as it is now.
SourceKnown(j) == j.id = 0 \/ j.id = reproc.id
OneAtATime == ongoingJpegQ = <<>>

DoJpegJob ==
    /\ dp = "wait" /\ cmds # <<>> /\ Head(cmds) = "NEXT"
    /\ cmds' = Tail(cmds) /\ dp' = IF active THEN "fwk" ELSE "wait"
    /\ \/ /\ ~active \/ ~OneAtATime \/ inputJpegQ = <<>>
          /\ UNCHANGED <<inputJpegQ, ongoingJpegQ, encoder>>
       \/ /\ active /\ OneAtATime /\ inputJpegQ # <<>> /\ SourceKnown(Head(inputJpegQ))
          /\ inputJpegQ' = Tail(inputJpegQ)
          /\ ongoingJpegQ' = Append(ongoingJpegQ, Head(inputJpegQ))
          /\ encoder' = Append(encoder, Head(inputJpegQ))
    /\ UNCHANGED <<fwVars, chVars, free, settingsQ, active, inputPPQ, inputMetaQ, inputFWKPPQ,
                   ongoingPPQ, thVars, sensor, due, metaDue, metas, atReproc>>

\* When it cannot be encoded the job is released, and nobody is told.
JpegJobFails ==
    /\ dp = "wait" /\ cmds # <<>> /\ Head(cmds) = "NEXT" /\ active /\ OneAtATime
    /\ inputJpegQ # <<>> /\ (~SourceKnown(Head(inputJpegQ)) \/ "encode" \in Faults)
    /\ cmds' = SomeNext(Tail(cmds)) /\ dp' = "fwk"
    /\ inputJpegQ' = Tail(inputJpegQ) /\ metas' = releasedMetas({Head(inputJpegQ)})
    /\ UNCHANGED <<fwVars, chVars, free, settingsQ, active, inputPPQ, inputMetaQ, inputFWKPPQ,
                   ongoingPPQ, ongoingJpegQ, thVars, sensor, due, metaDue, atReproc, encoder>>

taken(q, none) == IF q = <<>> THEN none ELSE Head(q)
rest(q) == IF q = <<>> THEN q ELSE Tail(q)

doReprocessOffline(p) == atReproc' = Append(atReproc, p) /\ offline' = Append(offline, p)

\* The framework's input goes to the offline stream.
DoFwkJob ==
    /\ dp = "fwk" /\ dp' = "pp"
    /\ IF inputFWKPPQ = <<>>
       THEN UNCHANGED <<inputFWKPPQ, settingsQ, ongoingPPQ, offline, atReproc>>
       ELSE /\ inputFWKPPQ' = Tail(inputFWKPPQ) /\ settingsQ' = rest(settingsQ)
            /\ \/ /\ reproc # NoReproc
                  /\ ongoingPPQ' = Append(ongoingPPQ,
                        [pic |-> Head(inputFWKPPQ), buf |-> 0, meta |-> 0,
                         set |-> taken(settingsQ, NoSettings), freed |-> FALSE])
                  /\ doReprocessOffline(Head(inputFWKPPQ))
               \/ /\ reproc = NoReproc \/ "reproc" \in Faults
                  /\ UNCHANGED <<ongoingPPQ, atReproc, offline>>
    /\ UNCHANGED <<fwVars, slots, started, inputConfig, reproc, ids, free, active, inputPPQ,
                   inputMetaQ, inputJpegQ, ongoingJpegQ, cmds, thVars, sensor, due, metaDue,
                   metas, encoder>>

\* A frame and a metadata make a job.  The offline stream takes it if it was made for
\* frames of this channel; otherwise job, frame and metadata are released, and the
\* job stays in the queue.
Job == [pic |-> Head(inputPPQ).pic, buf |-> Head(inputPPQ).buf, meta |-> Head(inputMetaQ),
        set |-> taken(settingsQ, NoSettings), freed |-> FALSE]
ExtractOK == Job.set # NoSettings /\ reproc.src = "sensor"
JpegJobOf(j, id) == [pic |-> j.pic, buf |-> j.buf, meta |-> j.meta, set |-> j.set, id |-> id]
Paired == inputPPQ # <<>> /\ inputMetaQ # <<>>

Released ==
    /\ sensor' = sensor \cup {Job.buf} /\ metas' = metadataBufDone({Job.meta})

DoPPJob ==
    /\ dp = "pp" /\ dp' = "wait" /\ Paired
    /\ inputPPQ' = Tail(inputPPQ) /\ inputMetaQ' = Tail(inputMetaQ) /\ settingsQ' = rest(settingsQ)
    /\ \/ /\ reproc # NoReproc /\ ExtractOK
          /\ ongoingPPQ' = Append(ongoingPPQ, Job)
          /\ doReprocessOffline(Job.pic)
          /\ UNCHANGED <<inputJpegQ, cmds, sensor, metas>>
       \/ /\ reproc # NoReproc /\ ExtractOK /\ "reproc" \in Faults
          /\ Released /\ UNCHANGED <<ongoingPPQ, atReproc, offline, inputJpegQ, cmds>>
       \/ /\ reproc # NoReproc /\ ~ExtractOK
          /\ ongoingPPQ' = Append(ongoingPPQ, [Job EXCEPT !.freed = TRUE])
          /\ Released /\ UNCHANGED <<atReproc, offline, inputJpegQ, cmds>>
       \/ /\ reproc = NoReproc /\ Job.set # NoSettings
          /\ inputJpegQ' = Append(inputJpegQ, JpegJobOf(Job, 0)) /\ cmds' = SomeNext(cmds)
          /\ UNCHANGED <<ongoingPPQ, atReproc, offline, sensor, metas>>
       \/ /\ reproc = NoReproc /\ Job.set = NoSettings
          /\ Released /\ UNCHANGED <<ongoingPPQ, atReproc, offline, inputJpegQ, cmds>>
    /\ UNCHANGED <<fwVars, slots, started, inputConfig, reproc, ids, free, active, inputFWKPPQ,
                   ongoingJpegQ, thVars, due, metaDue, encoder>>

NoPPJob ==
    /\ dp = "pp" /\ ~Paired /\ dp' = "wait"
    /\ UNCHANGED <<fwVars, chVars, free, settingsQ, active, ppVars, cmds, thVars, hwVars>>

-----------------------------------------------------------------------------
(* The offline stream and the encoder *)

\* The frame that the reprocess channel's streamCbRoutine() hands over takes the
\* oldest ongoing job.
Reprocessed == Head(atReproc)

processPPData ==
    /\ atReproc # <<>> /\ atReproc' = Tail(atReproc)
    /\ ongoingPPQ' = rest(ongoingPPQ)
    /\ LET j == Head(ongoingPPQ) IN
       IF ongoingPPQ # <<>> /\ j.set # NoSettings /\ active
       THEN /\ inputJpegQ' = Append(inputJpegQ, [JpegJobOf(j, reproc.id) EXCEPT !.pic = Reprocessed])
            /\ cmds' = SomeNext(cmds)
       ELSE UNCHANGED <<inputJpegQ, cmds>>
    /\ UNCHANGED <<fwVars, chVars, free, settingsQ, active, inputPPQ, inputMetaQ, inputFWKPPQ,
                   ongoingJpegQ, dp, thVars, sensor, due, metaDue, metas, encoder>>

\* Mutant: every mapping is undone.
unmapsAll == <<>>
unmapOfflineBuffers == rest(offline)
freed(j) == IF j.buf = 0 THEN free ELSE Append(free, j.buf)

\* findJpegJobByJobId() takes the only job there is, if there is one.
JobFound == ongoingJpegQ # <<>>

\* The encoder reports: the oldest ongoing job says which buffer was filled.  The YUV
\* buffer is free again before the framework is told.
jpegEvtHandle ==
    /\ encoder # <<>> /\ encoder' = Tail(encoder)
    /\ IF ~JobFound
       THEN /\ crashed' = TRUE
            /\ UNCHANGED <<results, back, slots, free, ongoingJpegQ, offline, metas, cmds>>
       ELSE LET j == Head(ongoingJpegQ)
                to == slots[j.set.out]
            IN  /\ ongoingJpegQ' = Tail(ongoingJpegQ)
                /\ results' = Append(results, [to |-> to, pic |-> Head(encoder).pic,
                                               set |-> j.set.of, meta |-> j.meta])
                /\ back' = back \cup ({to} \ {0})
                /\ slots' = [slots EXCEPT ![j.set.out] = 0]
                /\ free' = freed(j) /\ offline' = unmapOfflineBuffers
                /\ metas' = releasedMetas({j}) /\ cmds' = SomeNext(cmds)
                /\ crashed' = (crashed \/ to = 0)
    /\ UNCHANGED <<kind, started, inputConfig, reproc, ids, settingsQ, active, inputPPQ,
                   inputMetaQ, inputFWKPPQ, ongoingPPQ, inputJpegQ, dp, req, flush, flushes,
                   sensor, due, metaDue, atReproc>>

-----------------------------------------------------------------------------
(* flush(): the channel is stopped, then everything pending goes back in error *)

Flush ==
    /\ flush = "idle" /\ flushes < MaxFlushes /\ req = 0 /\ kind # <<>>
    /\ flush' = "stop" /\ flushes' = flushes + 1 /\ cmds' = <<"STOP">> \o cmds
    /\ UNCHANGED <<fwVars, chVars, free, settingsQ, active, ppVars, dp, req, crashed, hwVars>>

\* When STOP was handled, the reprocess channel is stopped and deleted.
StopReproc ==
    /\ flush = "stop" /\ ~Contains(cmds, "STOP")
    /\ flush' = "channel" /\ started' = FALSE
    /\ reproc' = NoReproc /\ offline' = <<>> /\ atReproc' = <<>>
    /\ UNCHANGED <<fwVars, slots, inputConfig, ids, free, settingsQ, active, ppVars, cmds, dp,
                   req, flushes, crashed, sensor, due, metaDue, metas, encoder>>

\* The stream goes off, its memories are given up, and so is the metadata channel's.
StopChannel ==
    /\ flush = "channel" /\ flush' = "idle"
    /\ sensor' = {} /\ due' = <<>> /\ metaDue' = <<>>
    /\ slots' = [s \in DOMAIN slots |-> 0]
    /\ back' = Pics
    /\ UNCHANGED <<kind, results, started, inputConfig, reproc, ids, offline, free, settingsQ,
                   active, ppVars, cmds, dp, req, flushes, crashed, metas, atReproc, encoder>>

DataProc == StartDataProc \/ StopDataProc \/ DoJpegJob \/ JpegJobFails \/ DoFwkJob \/ DoPPJob \/ NoPPJob
FlushStep == StopReproc \/ StopChannel
Next == \/ \E k \in Kinds : request(k)
        \/ queueJpegSetting
        \/ \E b \in 1 .. Bufs : processData(b)
        \/ processPPMetadata \/ DataProc \/ processPPData \/ jpegEvtHandle
        \/ Flush \/ FlushStep

Spec == Init /\ [][Next]_vars

\* The sensor, the offline stream and the encoder answer, and every thread runs.
Fairness ==
    /\ WF_vars(queueJpegSetting) /\ WF_vars(\E b \in 1 .. Bufs : processData(b))
    /\ WF_vars(processPPMetadata) /\ WF_vars(DataProc)
    /\ WF_vars(processPPData) /\ WF_vars(jpegEvtHandle)
    /\ WF_vars(FlushStep)
FairSpec == Spec /\ Fairness

-----------------------------------------------------------------------------
(* Properties *)

InHal(b) == {<<"ppq", i>> : i \in {i \in DOMAIN inputPPQ : inputPPQ[i].buf = b}}
       \cup {<<"ongoing", i>> : i \in {i \in DOMAIN ongoingPPQ : ongoingPPQ[i].buf = b /\ ~ongoingPPQ[i].freed}}
       \cup {<<"jpeg", i>> : i \in {i \in DOMAIN inputJpegQ : inputJpegQ[i].buf = b}}
       \cup {<<"encoding", i>> : i \in {i \in DOMAIN ongoingJpegQ : ongoingJpegQ[i].buf = b}}
Places(b) == InHal(b) \cup (IF b \in sensor THEN {<<"sensor", 0>>} ELSE {})
                      \cup {<<"free", i>> : i \in {i \in DOMAIN free : free[i] = b}}

TypeOK ==
    /\ back \subseteq Pics /\ started \in BOOLEAN /\ inputConfig \in BOOLEAN
    /\ active \in BOOLEAN /\ crashed \in BOOLEAN /\ sensor \subseteq 1 .. Bufs
    /\ \A i \in DOMAIN free : free[i] \in 1 .. Bufs
    /\ \A i \in DOMAIN inputPPQ : inputPPQ[i] \in [pic : 0 .. MaxPics, buf : 1 .. Bufs]
    /\ dp \in {"wait", "fwk", "pp"} /\ flush \in {"idle", "stop", "channel"}
    /\ Len(ongoingJpegQ) <= 1 /\ reproc.id <= ids

\* A YUV buffer is never in two hands: freed, at the sensor, or in one queue or job.
BufferOnce == \A b \in 1 .. Bufs : Cardinality(Places(b)) <= 1

\* Nor in none: the buffers of pictures that are back can be used again.
NoBufferLost == flush = "idle" => \A b \in 1 .. Bufs : Places(b) # {}

\* What the framework finds in the buffer of a picture is that picture, encoded with
\* the settings it asked for and the metadata of its frame.
RightPicture ==
    \A i \in DOMAIN results :
        LET r == results[i]
        IN  r.pic = r.to /\ r.set = r.to /\ r.meta = IF kind[r.to] = "sensor" THEN r.to ELSE 0

\* Until its callback, what the offline stream works on is mapped.
MappedWhileReprocessed == \A i \in DOMAIN atReproc : Contains(offline, atReproc[i])

\* No job is in a queue after it was freed.
NoFreedJob == \A i \in DOMAIN ongoingPPQ : ~ongoingPPQ[i].freed

\* The frame in the encoder is in memory of a channel that still exists.
EncodesLiveMemory == \A i \in DOMAIN encoder : SourceKnown(encoder[i])

\* The encoder's callback finds its job, and the buffer the job names.
CallbackHasJob == ~crashed

\* When a flush is over, the post-processor holds no metadata, no job and no frame.
FlushLeavesNothing ==
    flush = "channel" => /\ inputPPQ = <<>> /\ ongoingPPQ = <<>> /\ inputJpegQ = <<>>
                         /\ ongoingJpegQ = <<>> /\ inputMetaQ = <<>> /\ inputFWKPPQ = <<>>

\* Every picture comes back.
AllBack == \A p \in 1 .. MaxPics : (p \in Waiting) ~> (p \in back)
=============================================================================
