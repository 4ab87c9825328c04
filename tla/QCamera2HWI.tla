------------------------------ MODULE QCamera2HWI ------------------------------
(***************************************************************************)
(* HAL/QCamera2HWI.cpp around the state machine: the threads of the camera *)
(* service that call the HAL and wait for a result, the state machine      *)
(* thread with its two queues, the deferred worker, the live snapshot      *)
(* threads, the callback thread, and the camera and jpeg stacks that       *)
(* report back.                                                            *)
(*                                                                         *)
(* A caller holds the API lock (m_lock) from lockAPI() to unlockAPI() but  *)
(* waits on a condition, which releases it: calls overlap.  One result     *)
(* list is shared by all of them.                                          *)
(***************************************************************************)
EXTENDS QCameraStateMachine

CONSTANTS
    Clients,         \* threads of the camera service
    Calls,           \* the API commands they issue
    RetroSnapshots,  \* does the application ask for retro-active snapshots?
    FlashNeeded,     \* does a picture need the flash prepared?
    DaemonMayDie,    \* can the camera daemon die?
    MaxQueue,        \* bound: commands on the API queue when a call is made
    MaxEvts,         \* bound: events in the event queue when one is posted
    MaxResults,      \* bound: results nobody took when a call is made
    MaxJobs          \* bound: postprocessor jobs pending when a call is made

ASSUME HWIAssumption ==
    /\ IsFiniteSet(Clients)
    /\ Calls \subseteq ApiCommand
    /\ RetroSnapshots \in BOOLEAN /\ FlashNeeded \in BOOLEAN /\ DaemonMayDie \in BOOLEAN
    /\ MaxQueue \in Nat /\ MaxEvts \in Nat /\ MaxResults \in Nat /\ MaxJobs \in Nat

VARIABLES
    api_queue,   \* commands waiting for the machine, ahead of every event
    smCmd,       \* the command the machine thread has taken, or NoCmd
    awaits,      \* the event each caller waits for, or "none"
    followUp,    \* the event a caller issues after that one, or "none"
    notifier,    \* the callback thread in the delivery of a picture
    daemon       \* is the camera daemon alive?

vars == <<smVars, api_queue, smCmd, awaits, followUp, notifier, daemon>>

NoCmd == Cmd("none")
Hung  == Cmd("hung")     \* the machine thread waits for ever

Command == ApiCommand \cup {StopCaptureCommand} \cup Event

TypeOK ==
    /\ SMTypeOK
    /\ api_queue \in Seq(ApiCommand \cup {StopCaptureCommand})
    /\ smCmd \in Command \cup {NoCmd, Hung}
    /\ awaits \in [Clients -> ApiEvent \cup {"none"}]
    /\ followUp \in [Clients -> {"TAKE_PICTURE", "PREPARE_SNAPSHOT", "none"}]
    /\ notifier \in {"idle", "sending", "waiting"}
    /\ daemon \in BOOLEAN

Init ==
    /\ SMInit
    /\ api_queue = <<>>
    /\ smCmd = NoCmd
    /\ awaits = [c \in Clients |-> "none"]
    /\ followUp = [c \in Clients |-> "none"]
    /\ notifier = "idle"
    /\ daemon = TRUE

-----------------------------------------------------------------------------
(* The callers. *)

CanCall(c) ==
    /\ awaits[c] = "none"
    /\ Len(api_queue) < MaxQueue
    /\ Len(m_apiResultList) < MaxResults
    /\ dev.reprocJobs < MaxJobs

\* processAPI(), then waitAPIResult().
Issue(c, cmd) ==
    /\ api_queue' = Append(api_queue, cmd)
    /\ awaits' = [awaits EXCEPT ![c] = cmd.evt]

Call(c) ==
    /\ CanCall(c)
    /\ \E cmd \in Calls : cmd.evt # "TAKE_PICTURE" /\ Issue(c, cmd)
    /\ UNCHANGED <<smVars, smCmd, followUp, notifier, daemon>>

\* take_picture() decides between a retro picture and a normal one from the
\* mode the machine is in now, not when it will handle the command.
IsRetro == RetroSnapshots /\ ~isRecording /\ dev.m_bZslMode /\ ~dev.mLongshotEnabled

TakePictureCall(c) ==
    /\ CanCall(c)
    /\ Cmd("TAKE_PICTURE") \in Calls
    /\ dev' = [dev EXCEPT !.bRetroPicture = IsRetro]
    /\ LET first == IF ~IsRetro /\ FlashNeeded THEN "PREPARE_SNAPSHOT" ELSE "TAKE_PICTURE"
           after == IF IsRetro THEN "PREPARE_SNAPSHOT"
                    ELSE IF FlashNeeded THEN "TAKE_PICTURE" ELSE "none"
       IN  Issue(c, Cmd(first)) /\ followUp' = [followUp EXCEPT ![c] = after]
    /\ UNCHANGED <<m_state, evt_queue, m_apiResultList, m_evtResult, smCmd, notifier, daemon>>

\* A caller takes the first result of the event it waits for, its own or not,
\* and goes on to its second command without giving up the API lock.
FirstResult(evt) ==
    CHOOSE i \in DOMAIN m_apiResultList :
        /\ m_apiResultList[i].request_api = evt
        /\ \A j \in 1..(i - 1) : m_apiResultList[j].request_api # evt

HasResult(evt) == \E i \in DOMAIN m_apiResultList : m_apiResultList[i].request_api = evt

Without(s, i) == SubSeq(s, 1, i - 1) \o SubSeq(s, i + 1, Len(s))

Return(c) ==
    /\ awaits[c] # "none"
    /\ HasResult(awaits[c])
    /\ m_apiResultList' = Without(m_apiResultList, FirstResult(awaits[c]))
    /\ IF followUp[c] = "none"
       THEN awaits' = [awaits EXCEPT ![c] = "none"] /\ UNCHANGED api_queue
       ELSE Issue(c, Cmd(followUp[c]))
    /\ followUp' = [followUp EXCEPT ![c] = "none"]
    /\ UNCHANGED <<m_state, dev, evt_queue, m_evtResult, smCmd, notifier, daemon>>

-----------------------------------------------------------------------------
(* The state machine thread. *)

MistakenDequeue ==
    /\ smCmd = NoCmd
    /\ IF evt_queue # <<>>
       THEN smCmd' = Head(evt_queue) /\ evt_queue' = Tail(evt_queue) /\ UNCHANGED api_queue
       ELSE /\ api_queue # <<>>
            /\ smCmd' = Head(api_queue) /\ api_queue' = Tail(api_queue) /\ UNCHANGED evt_queue
    /\ UNCHANGED <<m_state, dev, m_apiResultList, m_evtResult, awaits, followUp, notifier, daemon>>

\* API commands first, events when there is none.
Dequeue ==
    /\ smCmd = NoCmd
    /\ IF api_queue # <<>>
       THEN smCmd' = Head(api_queue) /\ api_queue' = Tail(api_queue) /\ UNCHANGED evt_queue
       ELSE /\ evt_queue # <<>>
            /\ smCmd' = Head(evt_queue) /\ evt_queue' = Tail(evt_queue) /\ UNCHANGED api_queue
    /\ UNCHANGED <<m_state, dev, m_apiResultList, m_evtResult, awaits, followUp, notifier, daemon>>

Handle ==
    /\ smCmd \in Command
    /\ \/ stateMachine(smCmd) /\ smCmd' = NoCmd
       \/ TakePictureStuck(smCmd) /\ smCmd' = Hung
    /\ UNCHANGED <<api_queue, awaits, followUp, notifier, daemon>>

-----------------------------------------------------------------------------
(* The other threads of the HAL. *)

ReprocJobRuns ==
    /\ dev.reprocJobs > 0
    /\ \E o \in RunReprocJob(dev) : dev' = o.dev
    /\ UNCHANGED <<m_state, evt_queue, m_apiResultList, m_evtResult,
                   api_queue, smCmd, awaits, followUp, notifier, daemon>>

\* A live snapshot that fails cancels itself, with a command of the API that
\* it does not wait for.
LiveSnapshotRuns ==
    /\ \E t \in dev.liveThreads : \E o \in RunLiveSnapshot(dev, t) :
          /\ dev' = o.dev
          /\ api_queue' = IF o.ok THEN api_queue ELSE Append(api_queue, Cmd("CANCEL_PICTURE"))
    /\ UNCHANGED <<m_state, evt_queue, m_apiResultList, m_evtResult,
                   smCmd, awaits, followUp, notifier, daemon>>

\* The callback thread delivers the picture.  It reports the last one to the
\* machine with processSyncEvt() and waits there, except in a longshot.
DeliverPicture ==
    /\ notifier = "idle"
    /\ dev.shot = "ready"
    /\ IF dev.mLongshotEnabled
       THEN dev' = [dev EXCEPT !.shot = "armed"] /\ UNCHANGED notifier
       ELSE dev' = [dev EXCEPT !.shot = "done"] /\ notifier' = "sending"
    /\ UNCHANGED <<m_state, evt_queue, m_apiResultList, m_evtResult,
                   api_queue, smCmd, awaits, followUp, daemon>>

PostSnapshotDone ==
    /\ notifier = "sending"
    /\ notifier' = "waiting"
    /\ evt_queue' = Append(evt_queue, Cmd("SNAPSHOT_DONE"))
    /\ m_evtResult' = FALSE
    /\ UNCHANGED <<m_state, dev, m_apiResultList, api_queue, smCmd, awaits, followUp, daemon>>

SnapshotDoneReturns ==
    /\ notifier = "waiting"
    /\ m_evtResult
    /\ notifier' = "idle"
    /\ UNCHANGED <<smVars, api_queue, smCmd, awaits, followUp, daemon>>

-----------------------------------------------------------------------------
(* The camera and jpeg stacks. *)

PostEvt(evt) == Len(evt_queue) < MaxEvts /\ evt_queue' = Append(evt_queue, evt)

UnchangedByStack ==
    UNCHANGED <<m_state, m_apiResultList, m_evtResult, smCmd, awaits, followUp, notifier>>

\* Focus and prepare reports come with the metadata of a running channel.
HasMetadata == daemon /\ (Started(dev, "PREVIEW") \/ Started(dev, "ZSL") \/ Started(dev, "CAPTURE"))

LensReports ==
    /\ HasMetadata
    /\ dev.lens # "idle"
    /\ \E s \in {"SCANNING", "FOCUSED", "NOT_FOCUSED"} :
          /\ PostEvt(CmdWith("FOCUS_UPDATE", s))
          /\ dev' = [dev EXCEPT !.lens = IF s = "SCANNING" THEN @ ELSE "idle"]
    /\ UNCHANGED <<api_queue, daemon>>
    /\ UnchangedByStack

PrepareDone ==
    /\ HasMetadata
    /\ dev.preparing
    /\ PostEvt(Cmd("PREP_SNAPSHOT_DONE"))
    /\ dev' = [dev EXCEPT !.preparing = FALSE]
    /\ UNCHANGED <<api_queue, daemon>>
    /\ UnchangedByStack

RetroFramesReady ==
    /\ daemon
    /\ dev.retroReady
    /\ Started(dev, "ZSL")
    /\ PostEvt(Cmd("READY_FOR_SNAPSHOT"))
    /\ dev' = [dev EXCEPT !.retroReady = FALSE]
    /\ UNCHANGED <<api_queue, daemon>>
    /\ UnchangedByStack

\* A frame of the picture reaches the postprocessor.  Once the only frame of a
\* regular capture is reprocessed its channel is no longer needed.
PictureStreams == \E ch \in {"ZSL", "CAPTURE", "RAW", "SNAPSHOT"} : Started(dev, ch)

MistakenFrameArrives ==
    /\ daemon /\ dev.shot = "armed" /\ PictureStreams
    /\ dev' = [dev EXCEPT !.shot = "frame"]
    /\ evt_queue' = Append(evt_queue, StopCaptureCommand)
    /\ UNCHANGED <<api_queue, daemon>>
    /\ UnchangedByStack

FrameArrives ==
    /\ daemon
    /\ dev.shot = "armed"
    /\ PictureStreams
    /\ dev' = [dev EXCEPT !.shot = "frame"]
    /\ \/ UNCHANGED api_queue
       \/ /\ IsRegularCapture(dev) /\ ~RawPicture
          /\ api_queue' = Append(api_queue, StopCaptureCommand)
    /\ UNCHANGED <<evt_queue, daemon>>
    /\ UnchangedByStack

\* A raw frame is not encoded.  The report on an earlier picture that was
\* cancelled finds no job to match, so that the next picture is encoded later
\* than that report is handled loses nothing.
JpegDone ==
    /\ dev.shot = "frame"
    /\ IF RawPicture /\ Started(dev, "RAW")
       THEN dev' = [dev EXCEPT !.shot = "ready"] /\ UNCHANGED evt_queue
       ELSE /\ \A i \in DOMAIN evt_queue : evt_queue[i] # Cmd("JPEG_EVT_NOTIFY")
            /\ smCmd # Cmd("JPEG_EVT_NOTIFY")
            /\ PostEvt(Cmd("JPEG_EVT_NOTIFY"))
            /\ dev' = [dev EXCEPT !.shot = "encoded"]
    /\ UNCHANGED <<api_queue, daemon>>
    /\ UnchangedByStack

DaemonDies ==
    /\ DaemonMayDie /\ daemon
    /\ daemon' = FALSE
    /\ PostEvt(Cmd("EVT_NOTIFY"))
    /\ UNCHANGED <<dev, api_queue>>
    /\ UnchangedByStack

-----------------------------------------------------------------------------

Machine == Dequeue \/ Handle
Stack   == LensReports \/ PrepareDone \/ RetroFramesReady \/ FrameArrives \/ JpegDone

Next ==
    \/ \E c \in Clients : Call(c) \/ TakePictureCall(c) \/ Return(c)
    \/ Machine
    \/ ReprocJobRuns \/ LiveSnapshotRuns
    \/ DeliverPicture \/ PostSnapshotDone \/ SnapshotDoneReturns
    \/ Stack
    \/ DaemonDies

Spec == Init /\ [][Next]_vars

\* Threads that have something to do get to do it, and the daemon answers what
\* it was asked while a channel streams.  Nothing makes an application call,
\* and nothing but the daemon makes a picture come.
\* Strong fairness for the answer, since MaxEvts, which the code does not have,
\* may hold it back again and again.
Fairness ==
    /\ WF_vars(Machine)
    /\ \A c \in Clients : WF_vars(Return(c))
    /\ WF_vars(ReprocJobRuns) /\ WF_vars(LiveSnapshotRuns)
    /\ SF_vars(PrepareDone)

FairSpec == Spec /\ Fairness

-----------------------------------------------------------------------------
(* Properties. *)

\* The video channel streams exactly while the machine says it records: no
\* path out of recording, a cancelled picture and a failed call included,
\* leaves it streaming, and none into it forgets to start it
\* (isRecording() decides how a picture is taken and what the application is told).
VideoIffRecording == Started(dev, "VIDEO") <=> isRecording

\* In PREVIEW_STOPPED nothing streams to the application's window.
StoppedMeansStopped ==
    m_state = "PREVIEW_STOPPED" => ~Started(dev, "PREVIEW") /\ ~Started(dev, "ZSL")

\* In PREVIEW_READY the preview is prepared and waits for a window.
ReadyMeansWaiting ==
    m_state = "PREVIEW_READY" =>
        ~dev.mPreviewWindow /\ ~Started(dev, "PREVIEW") /\ ~Started(dev, "ZSL")

\* Each caller's command is in exactly one place: on the queue, in the
\* machine's hands, answered, or put off until the prepared hardware reports.
\* So no answer is lost, and none is left over for a later caller to take for
\* its own.  A cancelled picture may be answered twice, since a live snapshot
\* that fails cancels itself; the focus, the faces and the retro pictures,
\* whose answers can get lost, are left out.
CountSeq(s, P(_)) == Cardinality({i \in DOMAIN s : P(s[i])})

InProgress(evt) ==
    CountSeq(api_queue, LAMBDA cmd : cmd.evt = evt)
      + (IF smCmd.evt = evt \/ (smCmd = Hung /\ evt = "TAKE_PICTURE") THEN 1 ELSE 0)
      + CountSeq(m_apiResultList, LAMBDA r : r.request_api = evt)
      + (IF evt = "PREPARE_SNAPSHOT" /\ m_state = "PREPARE_SNAPSHOT" THEN 1 ELSE 0)

AnswersMatchCalls ==
    \A evt \in ApiEvent \ {"STOP_AUTO_FOCUS", "REG_FACE_IMAGE"} :
        LET callers == Cardinality({c \in Clients : awaits[c] = evt})
        IN  IF evt = "CANCEL_PICTURE" THEN callers <= InProgress(evt)
            ELSE callers = InProgress(evt)

\* Every call into the HAL returns: the machine thread never waits for ever,
\* for a deferred job, a live snapshot thread or an event that does not come,
\* and no handler forgets the answer.
CallsReturn == \A c \in Clients : awaits[c] # "none" ~> awaits[c] = "none"

\* The commands of the composed system go through the queues as CommandQueues
\* says, which the machine's thread is shown to implement step by step in
\* SmEvtThread.
Q == INSTANCE CommandQueues WITH
       Api  <- ApiCommand \cup {StopCaptureCommand},
       Evt  <- Event,
       None <- NoCmd,
       api  <- api_queue,
       evt  <- evt_queue,
       hand <- IF smCmd = Hung THEN Cmd("TAKE_PICTURE") ELSE smCmd

QueuesSpec == Q!Spec

=============================================================================
