---------------------------- MODULE QCameraPostProc ----------------------------
(***************************************************************************)
(* The post-processor (QCameraPostProc.cpp) with those it works for and     *)
(* with: the state machine's thread starts and stops it and handles the     *)
(* answers of the JPEG encoder, the channels' threads bring frames, its own *)
(* data thread encodes, reprocesses and copies them, its save thread stores *)
(* what a longshot takes.  Every frame is a buffer of the camera's, to be   *)
(* given back.                                                              *)
(***************************************************************************)
EXTENDS Naturals, Sequences, SequencesExt, FiniteSets, FiniteSetsExt, QCameraQueue

CONSTANTS
    Zsl,            \* isZSLMode(): the capture channel outlives the picture
    Reprocess,      \* needReprocess()
    Regular,        \* isRegularCapture(): the source is copied and its channel stopped
    Raw,            \* a YUV picture: isNV16PictureFormat() or isNV21PictureFormat()
    SaveProc,       \* a longshot whose pictures the HAL stores itself: mUseSaveProc
    Faults,         \* what may fail: "reproc", "session", "encode", "reprocess", "jpeg"
    MaxFrames,      \* bound: frames of the capture channel
    MaxTakes        \* bound: pictures taken

PostProcAssumption ==
    /\ {Zsl, Reprocess, Regular, Raw, SaveProc} \subseteq BOOLEAN
    /\ Faults \subseteq {"reproc", "session", "encode", "reprocess", "jpeg"}
    /\ MaxFrames \in Nat /\ MaxTakes \in Nat

Frames == 1..MaxFrames
OutOf(f) == MaxFrames + f       \* what the reprocess of f makes, of its channel
AllFrames == 1..2 * MaxFrames
IsOut(f) == f > MaxFrames

VARIABLES
    m_inputPPQ, m_ongoingPPQ, m_inputJpegQ, m_ongoingJpegQ, m_inputRawQ, m_inputSaveQ,
    m_dataProcTh, m_saveProcTh,
    sm,         \* the state machine's thread: what it waits for, and for which picture
    capture,    \* does the capture channel bring frames?
    reproc,     \* m_pReprocChannel: is it there, and the frames in its hands
    encoder,    \* the session, if a new one is needed, the jobs begun, ids given
    evts,       \* answers of the encoder that the state machine has not seen
    brought,    \* frames the capture channel brought
    back,       \* history: how often each frame was given back
    refused,    \* history: frames a flushed queue did not take
    answered    \* history: ids of jobs whose answer was processed

queues == <<m_inputPPQ, m_ongoingPPQ, m_inputJpegQ, m_ongoingJpegQ, m_inputRawQ, m_inputSaveQ>>
vars == <<queues, m_dataProcTh, m_saveProcTh, sm, capture, reproc, encoder, evts,
          brought, back, refused, answered>>

Init ==
    /\ m_inputPPQ = QCameraQueue /\ m_ongoingPPQ = QCameraQueue
    /\ m_inputJpegQ = QCameraQueue /\ m_ongoingJpegQ = QCameraQueue
    /\ m_inputRawQ = QCameraQueue /\ m_inputSaveQ = QCameraQueue
    /\ m_dataProcTh = QCameraCmdThread /\ m_saveProcTh = QCameraCmdThread
    /\ sm = [at |-> "idle", inited |-> FALSE, taking |-> FALSE, takes |-> 0, stopAsked |-> FALSE]
    /\ capture = FALSE /\ reproc = [up |-> FALSE, work |-> <<>>]
    /\ encoder = [session |-> FALSE, needNew |-> TRUE, jobs |-> <<>>, ids |-> 0]
    /\ evts = <<>> /\ brought = 0 /\ back = [f \in AllFrames |-> 0]
    /\ refused = {} /\ answered = {}
--------------------------------------------------------------------------------
\* Frames given back: those whose channel is still there to take them.
ChannelOf(f) == IF IsOut(f) THEN reproc.up ELSE Zsl \/ capture
releaseSuperBuf(fs) == back' = [f \in AllFrames |->
                            back[f] + IF f \in fs /\ ChannelOf(f) THEN 1 ELSE 0]

Job(src, from, keep) == [src |-> src, from |-> from, keep |-> keep, id |-> 0]
JobFrames(job) == {job.src} \cup IF job.from = NULL \/ job.keep THEN {} ELSE {job.from}
JobsFrames(jobs) == UNION {JobFrames(j) : j \in jobs}
PPFrames(jobs) == {p.src : p \in {q \in jobs : ~q.keep}}

Told(th) == sendCmd(th, "DO_NEXT_JOB", FALSE)
Refuse(q, f) == refused' = IF q.active THEN refused ELSE refused \cup {f}
--------------------------------------------------------------------------------
\* The state machine's thread.

postprocInit ==
    /\ sm.at = "idle" /\ ~sm.inited /\ sm.takes < MaxTakes
    /\ sm' = [sm EXCEPT !.inited = TRUE]
    /\ m_dataProcTh' = launch(m_dataProcTh) /\ m_saveProcTh' = launch(m_saveProcTh)
    /\ UNCHANGED <<queues, capture, reproc, encoder, evts, brought, back, refused, answered>>

\* Both threads are told to end, before what else they have to do.
deinit ==
    /\ sm.at = "idle" /\ sm.inited /\ ~sm.taking
    /\ sm' = [sm EXCEPT !.at = "exit"]
    /\ m_dataProcTh' = sendCmd(m_dataProcTh, "EXIT", TRUE)
    /\ UNCHANGED <<queues, m_saveProcTh, capture, reproc, encoder, evts, brought, back, refused,
                   answered>>
DataExited ==
    /\ sm.at = "exit" /\ m_dataProcTh.at = "gone"
    /\ sm' = [sm EXCEPT !.at = "exit save"]
    /\ m_saveProcTh' = sendCmd(m_saveProcTh, "EXIT", TRUE)
    /\ UNCHANGED <<queues, m_dataProcTh, capture, reproc, encoder, evts, brought, back, refused,
                   answered>>
SaveExited ==
    /\ sm.at = "exit save" /\ m_saveProcTh.at = "gone"
    /\ sm' = [sm EXCEPT !.at = "idle", !.inited = FALSE]
    /\ encoder' = [encoder EXCEPT !.session = FALSE, !.jobs = <<>>]
    /\ UNCHANGED <<queues, m_dataProcTh, m_saveProcTh, capture, reproc, evts, brought, back,
                   refused, answered>>

\* A channel for the reprocess first, which may not start.
start ==
    /\ sm.at = "idle" /\ sm.inited /\ ~sm.taking /\ sm.takes < MaxTakes
    /\ \/ /\ sm' = [sm EXCEPT !.at = "starting", !.takes = @ + 1]
          /\ reproc' = [up |-> Reprocess, work |-> <<>>]
          /\ m_dataProcTh' = sendCmd(m_dataProcTh, "START_DATA_PROC", FALSE)
       \/ /\ Reprocess /\ "reproc" \in Faults
          /\ sm' = [sm EXCEPT !.takes = @ + 1]
          /\ reproc' = [up |-> FALSE, work |-> <<>>] /\ UNCHANGED m_dataProcTh
    /\ UNCHANGED <<queues, m_saveProcTh, capture, encoder, evts, brought, back, refused, answered>>

\* The session is made at once unless the mode gives the size only with a frame.
Started ==
    /\ sm.at = "starting" /\ m_dataProcTh.sync > 0
    /\ m_dataProcTh' = [m_dataProcTh EXCEPT !.sync = @ - 1]
    /\ \/ /\ sm' = [sm EXCEPT !.at = "idle", !.taking = TRUE] /\ capture' = TRUE
          /\ encoder' = IF Zsl \/ SaveProc THEN encoder
                        ELSE [encoder EXCEPT !.session = TRUE, !.needNew = FALSE]
       \/ /\ ~(Zsl \/ SaveProc) /\ "session" \in Faults
          /\ sm' = [sm EXCEPT !.at = "idle"] /\ UNCHANGED <<capture, encoder>>
    /\ UNCHANGED <<queues, m_saveProcTh, reproc, evts, brought, back, refused, answered>>

\* cancelPicture(), which SNAPSHOT_DONE and the client ask for: the
\* post-processor is stopped before the channel that feeds it.
stop ==
    /\ sm.at = "idle" /\ sm.taking
    /\ sm' = [sm EXCEPT !.at = "stopping"]
    /\ m_dataProcTh' = sendCmd(m_dataProcTh, "STOP_DATA_PROC", TRUE)
    /\ UNCHANGED <<queues, m_saveProcTh, capture, reproc, encoder, evts, brought, back, refused,
                   answered>>
Stopped ==
    /\ sm.at = "stopping" /\ m_dataProcTh.sync > 0
    /\ m_dataProcTh' = [m_dataProcTh EXCEPT !.sync = @ - 1]
    /\ sm' = [sm EXCEPT !.at = "idle", !.taking = FALSE, !.stopAsked = FALSE]
    /\ capture' = FALSE
    /\ UNCHANGED <<queues, m_saveProcTh, reproc, encoder, evts, brought, back, refused, answered>>

\* The reprocess of a regular picture has its copy: the capture channel is stopped.
StopCaptureChannel ==
    /\ sm.at = "idle" /\ sm.stopAsked
    /\ sm' = [sm EXCEPT !.stopAsked = FALSE] /\ capture' = FALSE
    /\ UNCHANGED <<queues, m_dataProcTh, m_saveProcTh, reproc, encoder, evts, brought, back,
                   refused, answered>>

\* An answer of the encoder.  Only while a picture is taken is it processed; the
\* other states of the state machine cannot handle it.
processJpegEvt ==
    /\ sm.at = "idle" /\ evts # <<>> /\ evts' = Tail(evts)
    /\ LET e == Head(evts)
           MatchJobId == {job \in ToSet(m_ongoingJpegQ.items) : job.id = e.id}
       IN  IF ~sm.taking THEN UNCHANGED <<queues, m_dataProcTh, m_saveProcTh, back, answered>>
           ELSE /\ answered' = answered \cup {e.id}
                /\ m_dataProcTh' = Told(m_dataProcTh)
                /\ IF SaveProc
                   THEN /\ m_inputSaveQ' = enqueue(m_inputSaveQ, e.id)
                        /\ m_saveProcTh' = Told(m_saveProcTh)
                        /\ UNCHANGED <<m_ongoingJpegQ, back>>
                   ELSE /\ m_ongoingJpegQ' = flushNodes(m_ongoingJpegQ, MatchJobId)
                        /\ releaseSuperBuf(JobsFrames(matched(m_ongoingJpegQ, MatchJobId)))
                        /\ UNCHANGED <<m_inputSaveQ, m_saveProcTh>>
                /\ UNCHANGED <<m_inputPPQ, m_ongoingPPQ, m_inputJpegQ, m_inputRawQ>>
    /\ UNCHANGED <<sm, capture, reproc, encoder, brought, refused>>
--------------------------------------------------------------------------------
\* The channels' threads.  Nobody looks at whether a queue took the frame.

processData ==
    /\ capture /\ sm.inited /\ brought < MaxFrames
    /\ brought' = brought + 1
    /\ LET f == brought' IN
       \/ /\ Reprocess
          /\ m_inputPPQ' = enqueue(m_inputPPQ, f) /\ Refuse(m_inputPPQ, f)
          /\ UNCHANGED <<m_inputRawQ, m_inputJpegQ>>
       \/ /\ ~Reprocess /\ Raw
          /\ m_inputRawQ' = enqueue(m_inputRawQ, f) /\ Refuse(m_inputRawQ, f)
          /\ UNCHANGED <<m_inputPPQ, m_inputJpegQ>>
       \/ /\ ~Reprocess /\ ~Raw
          /\ m_inputJpegQ' = enqueue(m_inputJpegQ, Job(f, NULL, FALSE)) /\ Refuse(m_inputJpegQ, f)
          /\ UNCHANGED <<m_inputPPQ, m_inputRawQ>>
    /\ m_dataProcTh' = Told(m_dataProcTh)
    /\ UNCHANGED <<m_ongoingPPQ, m_ongoingJpegQ, m_inputSaveQ, m_saveProcTh, sm, capture, reproc,
                   encoder, evts, back, answered>>

\* What was reprocessed belongs to the first job that was begun.
processPPData ==
    /\ reproc.up /\ reproc.work # <<>>
    /\ reproc' = [reproc EXCEPT !.work = Tail(@)]
    /\ m_ongoingPPQ' = dequeue(m_ongoingPPQ)
    /\ LET out == OutOf(Head(reproc.work)) pp == dequeued(m_ongoingPPQ) IN
       \/ /\ ~CanTake(m_ongoingPPQ)
          /\ UNCHANGED <<m_inputRawQ, m_inputJpegQ, m_dataProcTh, back, refused>>
       \/ /\ CanTake(m_ongoingPPQ) /\ Raw
          /\ releaseSuperBuf({pp.src})
          /\ m_inputRawQ' = enqueue(m_inputRawQ, out) /\ Refuse(m_inputRawQ, out)
          /\ m_dataProcTh' = Told(m_dataProcTh) /\ UNCHANGED m_inputJpegQ
       \/ /\ CanTake(m_ongoingPPQ) /\ ~Raw
          /\ m_inputJpegQ' = enqueue(m_inputJpegQ, Job(out, pp.src, pp.keep))
          /\ Refuse(m_inputJpegQ, out)
          /\ m_dataProcTh' = Told(m_dataProcTh) /\ UNCHANGED <<m_inputRawQ, back>>
    /\ UNCHANGED <<m_inputPPQ, m_ongoingJpegQ, m_inputSaveQ, m_saveProcTh, sm, capture, encoder,
                   evts, brought, answered>>
--------------------------------------------------------------------------------
\* The data thread.
Data(at) == m_dataProcTh' = [Got(m_dataProcTh) EXCEPT !.at = at]
Takes(cmd) == HasCmd(m_dataProcTh) /\ getCmd(m_dataProcTh) = cmd

DataStart ==
    /\ Takes("START_DATA_PROC")
    /\ m_dataProcTh' = [Got(m_dataProcTh) EXCEPT !.active = TRUE, !.sync = @ + 1]
    /\ m_ongoingPPQ' = init(m_ongoingPPQ) /\ m_inputJpegQ' = init(m_inputJpegQ)
    /\ m_inputPPQ' = init(m_inputPPQ) /\ m_inputRawQ' = init(m_inputRawQ)
    /\ m_saveProcTh' = sendCmd(m_saveProcTh, "START_DATA_PROC", FALSE)
    /\ UNCHANGED <<m_ongoingJpegQ, m_inputSaveQ, sm, capture, reproc, encoder, evts, brought,
                   back, refused, answered>>

\* The save thread is stopped first, and waited for.
DataStop ==
    /\ Takes("STOP_DATA_PROC")
    /\ m_dataProcTh' = [Got(m_dataProcTh) EXCEPT !.at = "stop save", !.active = FALSE]
    /\ m_saveProcTh' = sendCmd(m_saveProcTh, "STOP_DATA_PROC", TRUE)
    /\ UNCHANGED <<queues, sm, capture, reproc, encoder, evts, brought, back, refused, answered>>
SaveStopped ==
    /\ m_dataProcTh.at = "stop save" /\ m_saveProcTh.sync > 0
    /\ m_dataProcTh' = [m_dataProcTh EXCEPT !.at = "stop jobs"]
    /\ m_saveProcTh' = [m_saveProcTh EXCEPT !.sync = @ - 1]
    /\ UNCHANGED <<queues, sm, capture, reproc, encoder, evts, brought, back, refused, answered>>

\* Then each job in the encoder is given up.
AbortJob ==
    /\ m_dataProcTh.at = "stop jobs" /\ ~isEmpty(m_ongoingJpegQ)
    /\ LET job == dequeued(m_ongoingJpegQ)
       IN  /\ encoder' = [encoder EXCEPT !.jobs = SelectSeq(@, LAMBDA id : id # job.id)]
           /\ releaseSuperBuf(JobFrames(job))
    /\ m_ongoingJpegQ' = dequeue(m_ongoingJpegQ)
    /\ UNCHANGED <<m_inputPPQ, m_ongoingPPQ, m_inputJpegQ, m_inputRawQ, m_inputSaveQ, m_dataProcTh,
                   m_saveProcTh, sm, capture, reproc, evts, brought, refused, answered>>

\* Mutant: what was reprocessed stays in its queues.
StopKeepsJobs ==
    /\ m_dataProcTh.at = "stop jobs" /\ isEmpty(m_ongoingJpegQ)
    /\ m_dataProcTh' = [m_dataProcTh EXCEPT !.at = "wait", !.sync = @ + 1]
    /\ encoder' = [encoder EXCEPT !.session = FALSE, !.needNew = TRUE, !.jobs = <<>>]
    /\ reproc' = [up |-> FALSE, work |-> <<>>]
    /\ m_inputPPQ' = flush(m_inputPPQ) /\ m_inputRawQ' = flush(m_inputRawQ)
    /\ UNCHANGED <<m_ongoingPPQ, m_inputJpegQ>>
    /\ UNCHANGED <<m_ongoingJpegQ, m_inputSaveQ, m_saveProcTh, sm, capture, evts, brought, back,
                   refused, answered>>
\* Last the session, the reprocess channel and, by then without it, all that waits.
DataStopped ==
    /\ m_dataProcTh.at = "stop jobs" /\ isEmpty(m_ongoingJpegQ)
    /\ m_dataProcTh' = [m_dataProcTh EXCEPT !.at = "wait", !.sync = @ + 1]
    /\ encoder' = [encoder EXCEPT !.session = FALSE, !.needNew = TRUE, !.jobs = <<>>]
    /\ reproc' = [up |-> FALSE, work |-> <<>>]
    /\ back' = [f \in AllFrames |-> back[f] +
          IF /\ ~IsOut(f) /\ ChannelOf(f)
             /\ f \in PPFrames(flushed(m_ongoingPPQ)) \cup JobsFrames(flushed(m_inputJpegQ))
                      \cup flushed(m_inputPPQ) \cup flushed(m_inputRawQ)
          THEN 1 ELSE 0]
    /\ m_ongoingPPQ' = flush(m_ongoingPPQ) /\ m_inputJpegQ' = flush(m_inputJpegQ)
    /\ m_inputPPQ' = flush(m_inputPPQ) /\ m_inputRawQ' = flush(m_inputRawQ)
    /\ UNCHANGED <<m_ongoingJpegQ, m_inputSaveQ, m_saveProcTh, sm, capture, evts, brought,
                   refused, answered>>

\* encodeData(): the job is begun before it is told its id.
DoJpegJob ==
    /\ Takes("DO_NEXT_JOB") /\ m_dataProcTh.active
    /\ m_inputJpegQ' = dequeue(m_inputJpegQ)
    /\ LET job == dequeued(m_inputJpegQ) id == encoder.ids + 1 IN
       \/ /\ ~CanTake(m_inputJpegQ)
          /\ Data("raw") /\ UNCHANGED <<m_ongoingJpegQ, encoder, back>>
       \/ /\ CanTake(m_inputJpegQ)
          /\ Data("begun") /\ m_ongoingJpegQ' = enqueue(m_ongoingJpegQ, job)
          /\ encoder' = [session |-> encoder.session \/ encoder.needNew, needNew |-> FALSE,
                         jobs |-> Append(encoder.jobs, id), ids |-> id]
          /\ UNCHANGED back
       \/ /\ CanTake(m_inputJpegQ) /\ "encode" \in Faults
          /\ Data("raw") /\ UNCHANGED encoder
          /\ m_ongoingJpegQ' = dequeueTail(enqueue(m_ongoingJpegQ, job))
          /\ releaseSuperBuf(JobFrames(job))
    /\ UNCHANGED <<m_inputPPQ, m_ongoingPPQ, m_inputRawQ, m_inputSaveQ, m_saveProcTh, sm, capture,
                   reproc, evts, brought, refused, answered>>
JobIdSet ==
    /\ m_dataProcTh.at = "begun"
    /\ m_dataProcTh' = [m_dataProcTh EXCEPT !.at = "raw"]
    /\ m_ongoingJpegQ' = [m_ongoingJpegQ EXCEPT !.items =
          [i \in DOMAIN @ |-> IF @[i].id = 0 THEN [@[i] EXCEPT !.id = encoder.ids] ELSE @[i]]]
    /\ UNCHANGED <<m_inputPPQ, m_ongoingPPQ, m_inputJpegQ, m_inputRawQ, m_inputSaveQ, m_saveProcTh,
                   sm, capture, reproc, encoder, evts, brought, back, refused, answered>>

\* processRawImageImpl(): a frame of the ZSL channel is lent to the client, which
\* is called back; of another a copy is, and the frame is left to its channel.
DoRawJob ==
    /\ m_dataProcTh.at = "raw"
    /\ m_dataProcTh' = [m_dataProcTh EXCEPT !.at = "reprocess"]
    /\ LET f == dequeued(m_inputRawQ)
       IN  IF f # NULL /\ Zsl /\ ~IsOut(f) THEN releaseSuperBuf({f}) ELSE UNCHANGED back
    /\ m_inputRawQ' = dequeue(m_inputRawQ)
    /\ UNCHANGED <<m_inputPPQ, m_ongoingPPQ, m_inputJpegQ, m_ongoingJpegQ, m_inputSaveQ,
                   m_saveProcTh, sm, capture, reproc, encoder, evts, brought, refused, answered>>

\* reprocess(), after which a regular picture needs its channel no more.
DoPPJob ==
    /\ m_dataProcTh.at = "reprocess"
    /\ m_dataProcTh' = [m_dataProcTh EXCEPT !.at = "wait"]
    /\ m_inputPPQ' = dequeue(m_inputPPQ)
    /\ LET f == dequeued(m_inputPPQ) IN
       \/ /\ f = NULL /\ UNCHANGED <<m_ongoingPPQ, reproc, sm, back>>
       \/ /\ f # NULL /\ reproc.up
          /\ m_ongoingPPQ' = enqueue(m_ongoingPPQ, [src |-> f, keep |-> Regular])
          /\ reproc' = [reproc EXCEPT !.work = Append(@, f)]
          /\ sm' = [sm EXCEPT !.stopAsked = Regular] /\ UNCHANGED back
       \/ /\ f # NULL /\ (~reproc.up \/ "reprocess" \in Faults)
          /\ releaseSuperBuf({f}) /\ UNCHANGED <<m_ongoingPPQ, reproc, sm>>
    /\ UNCHANGED <<m_inputJpegQ, m_ongoingJpegQ, m_inputRawQ, m_inputSaveQ, m_saveProcTh, capture,
                   encoder, evts, brought, refused, answered>>

\* Stopped, it gives back what it finds.
DropJobs ==
    /\ Takes("DO_NEXT_JOB") /\ ~m_dataProcTh.active
    /\ Data("wait")
    /\ releaseSuperBuf(JobsFrames(taken(m_inputJpegQ)) \cup taken(m_inputRawQ)
                       \cup taken(m_inputPPQ))
    /\ m_inputJpegQ' = dequeue(m_inputJpegQ) /\ m_inputRawQ' = dequeue(m_inputRawQ)
    /\ m_inputPPQ' = dequeue(m_inputPPQ)
    /\ UNCHANGED <<m_ongoingPPQ, m_ongoingJpegQ, m_inputSaveQ, m_saveProcTh, sm, capture, reproc,
                   encoder, evts, brought, refused, answered>>
DataExit ==
    /\ Takes("EXIT") /\ Data("gone")
    /\ UNCHANGED <<queues, m_saveProcTh, sm, capture, reproc, encoder, evts, brought, back,
                   refused, answered>>

dataProcessRoutine ==
    \/ DataStart \/ DataStop \/ SaveStopped \/ AbortJob \/ DataStopped \/ DoJpegJob \/ JobIdSet
    \/ DoRawJob \/ DoPPJob \/ DropJobs \/ DataExit
--------------------------------------------------------------------------------
\* The save thread.
Saves(cmd) == HasCmd(m_saveProcTh) /\ getCmd(m_saveProcTh) = cmd

SaveStart ==
    /\ Saves("START_DATA_PROC")
    /\ m_saveProcTh' = [Got(m_saveProcTh) EXCEPT !.active = TRUE]
    /\ m_inputSaveQ' = init(m_inputSaveQ) /\ UNCHANGED <<m_ongoingJpegQ, back>>
SaveStop ==
    /\ Saves("STOP_DATA_PROC")
    /\ m_saveProcTh' = [Got(m_saveProcTh) EXCEPT !.active = FALSE, !.sync = @ + 1]
    /\ m_inputSaveQ' = flush(m_inputSaveQ) /\ UNCHANGED <<m_ongoingJpegQ, back>>
SaveJob ==
    /\ Saves("DO_NEXT_JOB")
    /\ m_saveProcTh' = Got(m_saveProcTh) /\ m_inputSaveQ' = dequeue(m_inputSaveQ)
    /\ LET MatchJobId == {job \in ToSet(m_ongoingJpegQ.items) :
                              job.id = dequeued(m_inputSaveQ)}
       IN  IF dequeued(m_inputSaveQ) = NULL THEN UNCHANGED <<m_ongoingJpegQ, back>>
           ELSE /\ releaseSuperBuf(JobsFrames(matched(m_ongoingJpegQ, MatchJobId)))
                /\ m_ongoingJpegQ' = flushNodes(m_ongoingJpegQ, MatchJobId)
SaveExit ==
    /\ Saves("EXIT")
    /\ m_saveProcTh' = [Got(m_saveProcTh) EXCEPT !.at = "gone"]
    /\ UNCHANGED <<m_inputSaveQ, m_ongoingJpegQ, back>>

dataSaveRoutine ==
    /\ SaveStart \/ SaveStop \/ SaveJob \/ SaveExit
    /\ UNCHANGED <<m_inputPPQ, m_ongoingPPQ, m_inputJpegQ, m_inputRawQ, m_dataProcTh, sm, capture,
                   reproc, encoder, evts, brought, refused, answered>>

\* The encoder ends a job, well or not, and its answer becomes an event.
jpegEvtHandle ==
    /\ encoder.jobs # <<>>
    /\ \E status \in {"DONE"} \cup IF "jpeg" \in Faults THEN {"ERROR"} ELSE {} :
          evts' = Append(evts, [id |-> Head(encoder.jobs), status |-> status])
    /\ encoder' = [encoder EXCEPT !.jobs = Tail(@)]
    /\ UNCHANGED <<queues, m_dataProcTh, m_saveProcTh, sm, capture, reproc, brought, back,
                   refused, answered>>
--------------------------------------------------------------------------------
StateMachine ==
    \/ DataExited \/ SaveExited \/ Started \/ Stopped \/ StopCaptureChannel \/ processJpegEvt
Next ==
    \/ postprocInit \/ deinit \/ start \/ stop \/ StateMachine
    \/ processData \/ processPPData \/ dataProcessRoutine \/ dataSaveRoutine \/ jpegEvtHandle

\* Threads run, the encoder and the reprocess end what they began, and a picture
\* that is taken is over some time.
Fairness ==
    /\ WF_vars(StateMachine) /\ WF_vars(dataProcessRoutine)
    /\ WF_vars(dataSaveRoutine) /\ WF_vars(processPPData)
    /\ WF_vars(jpegEvtHandle) /\ WF_vars(stop)

Spec == Init /\ [][Next]_vars /\ Fairness
--------------------------------------------------------------------------------
\* Every queue holds what it is for.
TypeOK ==
    /\ ToSet(m_inputPPQ.items) \subseteq Frames
    /\ ToSet(m_inputRawQ.items) \subseteq AllFrames
    /\ \A job \in ToSet(m_inputJpegQ.items \o m_ongoingJpegQ.items) :
          job.src \in AllFrames /\ job.from \in Frames \cup {NULL} /\ job.id \in Nat
    /\ ToSet(m_inputSaveQ.items) \subseteq 1..encoder.ids
    /\ brought \in 0..MaxFrames /\ back \in [AllFrames -> Nat]

Held(f) ==
    Cardinality({q \in {"pp", "raw", "jpeg", "ongoing jpeg", "ongoing pp"} :
        CASE q = "pp" -> f \in ToSet(m_inputPPQ.items)
          [] q = "raw" -> f \in ToSet(m_inputRawQ.items)
          [] q = "jpeg" -> f \in JobsFrames(ToSet(m_inputJpegQ.items))
          [] q = "ongoing jpeg" -> f \in JobsFrames(ToSet(m_ongoingJpegQ.items))
          [] OTHER -> f \in PPFrames(ToSet(m_ongoingPPQ.items))})

\* A frame is in one place, and is given back once, when it is in none: the
\* camera never fills a buffer that is still being read.
GivenBackOnce == \A f \in AllFrames : Held(f) + back[f] <= 1

\* A job is begun in a session that is there, though stop() takes the session away
\* and start() makes one only in some modes.
JobsInSession == encoder.jobs # <<>> => encoder.session

\* When stop() has returned, the post-processor has nothing of the picture that
\* is over: no frame, no job, no session and no channel.
StoppedClean ==
    [][sm.at = "stopping" /\ sm'.at = "idle" =>
          /\ \A f \in AllFrames : Held(f) = 0
          /\ ~reproc.up /\ encoder.jobs = <<>>]_vars

\* A frame of the ZSL channel, which is filled all the time, is given back, unless
\* it came when the queues were flushed already.
FramesBack ==
    \A f \in Frames : brought >= f ~> back[f] = 1 \/ f \in refused

\* Both stop() and deinit() wait for the threads, and return.
StopReturns == sm.at # "idle" ~> sm.at = "idle"

\* processData() returns NO_ERROR for a frame it "enqueue[d] into dataProc thread".
FramesTaken == refused = {}

\* The answer of a job releases it: "Release jpeg job data".
AnsweredReleased ==
    \A job \in ToSet(m_ongoingJpegQ.items) :
        job.id \in answered => job.id \in ToSet(m_inputSaveQ.items)
================================================================================
