--------------------------- MODULE QCameraCbNotifier ---------------------------
(***************************************************************************)
(* The callback thread (QCameraCbNotifier, HAL/QCamera2HWICallbacks.cpp):  *)
(* its command queue, which START and STOP enter at the head, its queue of *)
(* callback arguments, and the threads around it: the state machine that   *)
(* starts and stops a picture's postprocessing, the postprocessor that     *)
(* hands over pictures, others that notify the application, and the owner  *)
(* that closes the camera.                                                 *)
(*                                                                         *)
(* Everything a picture hands over bears its number; 0 is any other        *)
(* callback.                                                               *)
(***************************************************************************)
EXTENDS Naturals, FiniteSets, Sequences

CONSTANTS
    Expected,       \* numOfSnapshotsExpected(): callbacks that make a picture
    Longshots,      \* longshot settings the pictures may have
    MsgEnabled,     \* may CAMERA_MSG_COMPRESSED_IMAGE be enabled, disabled?
    MaxPictures,    \* bound: pictures taken
    MaxOthers       \* bound: callbacks not of a picture

ASSUME NotifierAssumption ==
    /\ Expected \in Nat \ {0} /\ MaxPictures \in Nat /\ MaxOthers \in Nat
    /\ Longshots \subseteq BOOLEAN /\ MsgEnabled \subseteq BOOLEAN

VARIABLES
    cmd_queue,      \* commands to the callback thread
    mDataQ,         \* callback arguments, by picture
    mActive,        \* does the notifier accept callbacks?
    entering,       \* callbacks that found the notifier active
    posting,        \* callbacks enqueued whose command is not yet sent
    pc,             \* the thread: "waiting", "syncing", "exited"
    isSnapshotActive, longShotEnabled, numOfSnapshotExpected, numOfSnapshotRcvd,
    picture,        \* number of the current picture
    mLongshotEnabled,
    postproc,       \* "stopped", "started", "stopping"
    sent,           \* callbacks the current picture has handed over
    others,         \* callbacks not of a picture, so far
    snapshotDone,   \* SNAPSHOT_DONE: "none", "posted", "handling", "signalled"
    closing         \* the owner: "open", "exiting", "closed"

threadVars == <<pc, isSnapshotActive, longShotEnabled, numOfSnapshotExpected, numOfSnapshotRcvd>>
pictureVars == <<picture, mLongshotEnabled, postproc, sent>>
vars == <<cmd_queue, mDataQ, mActive, entering, posting, threadVars, pictureVars,
          others, snapshotDone, closing>>

TypeOK ==
    /\ cmd_queue \in Seq({"START", "STOP", "NEXT", "EXIT"})
    /\ mDataQ \in Seq(Nat)
    /\ mActive \in BOOLEAN
    /\ entering \in SUBSET Nat /\ posting \in Nat
    /\ pc \in {"waiting", "syncing", "exited"}
    /\ isSnapshotActive \in BOOLEAN /\ longShotEnabled \in BOOLEAN
    /\ numOfSnapshotExpected \in Nat /\ numOfSnapshotRcvd \in Nat
    /\ picture \in Nat /\ mLongshotEnabled \in BOOLEAN
    /\ postproc \in {"stopped", "started", "stopping"}
    /\ sent \in Nat /\ others \in Nat
    /\ snapshotDone \in {"none", "posted", "handling", "signalled"}
    /\ closing \in {"open", "exiting", "closed"}

Init ==
    /\ cmd_queue = <<>> /\ mDataQ = <<>> /\ mActive = TRUE
    /\ entering = {} /\ posting = 0
    /\ pc = "waiting"
    /\ isSnapshotActive = FALSE /\ longShotEnabled = FALSE
    /\ numOfSnapshotExpected = 0 /\ numOfSnapshotRcvd = 0
    /\ picture = 0 /\ mLongshotEnabled = FALSE /\ postproc = "stopped" /\ sent = 0
    /\ others = 0 /\ snapshotDone = "none"
    /\ closing = "open"

-----------------------------------------------------------------------------
(* The state machine thread, between two commands or handling SNAPSHOT_DONE. *)

SmIdle == snapshotDone # "handling" /\ postproc # "stopping"

\* QCameraPostProcessor::start(): startSnapshots() enters at the head.
startSnapshots ==
    /\ closing = "open" /\ SmIdle /\ postproc = "stopped"
    /\ picture < MaxPictures
    /\ picture' = picture + 1
    /\ mLongshotEnabled' \in Longshots
    /\ postproc' = "started"
    /\ sent' = 0
    /\ cmd_queue' = <<"START">> \o cmd_queue
    /\ UNCHANGED <<entering, mDataQ, mActive, posting, threadVars, others, snapshotDone, closing>>

\* QCameraPostProcessor::stop(): stopSnapshots() enters at the head and is not
\* waited for, the postprocessor's own thread is.
stopSnapshots ==
    /\ postproc' = "stopping"
    /\ cmd_queue' = <<"STOP">> \o cmd_queue
    /\ UNCHANGED <<entering, mDataQ, mActive, posting, threadVars, picture, mLongshotEnabled, sent,
                   others, closing>>

\* The application cancels the picture.
CancelPicture ==
    /\ SmIdle /\ postproc = "started"
    /\ stopSnapshots
    /\ UNCHANGED snapshotDone

MistakenHandleSnapshotDone ==
    /\ SmIdle /\ snapshotDone = "posted"
    /\ IF postproc = "started"
       THEN stopSnapshots /\ snapshotDone' = "handling"
       ELSE /\ snapshotDone' = "none"
            /\ UNCHANGED <<cmd_queue, mDataQ, mActive, entering, posting, threadVars, pictureVars,
                           others, closing>>

\* A picture being taken is stopped by SNAPSHOT_DONE; otherwise there is
\* nothing to do but to signal.
HandleSnapshotDone ==
    /\ SmIdle /\ snapshotDone = "posted"
    /\ IF postproc = "started"
       THEN stopSnapshots /\ snapshotDone' = "handling"
       ELSE /\ snapshotDone' = "signalled"
            /\ UNCHANGED <<cmd_queue, mDataQ, mActive, entering, posting, threadVars, pictureVars,
                           others, closing>>

PostProcStopped ==
    /\ postproc = "stopping"
    /\ postproc' = "stopped"
    /\ snapshotDone' = IF snapshotDone = "handling" THEN "signalled" ELSE snapshotDone
    /\ UNCHANGED <<entering, cmd_queue, mDataQ, mActive, posting, threadVars, picture, mLongshotEnabled,
                   sent, others, closing>>

-----------------------------------------------------------------------------
(* notifyCallback() first looks whether the notifier is active, then enqueues *)
(* the argument, which the data queue refuses once it was flushed for good,  *)
(* and then sends the command to fetch it.                                   *)

notifyCallback(item) ==
    /\ mActive
    /\ item \notin entering
    /\ entering' = entering \cup {item}
    /\ UNCHANGED <<cmd_queue, mDataQ, mActive, posting, threadVars, picture, mLongshotEnabled,
                   postproc, snapshotDone, closing>>

MistakenEnqueue(item) ==
    /\ item \in entering
    /\ entering' = entering \ {item}
    /\ mDataQ' = Append(mDataQ, item)
    /\ posting' = posting + 1
    /\ UNCHANGED <<cmd_queue, mActive, threadVars, pictureVars, others, snapshotDone,
                   closing>>

Enqueue(item) ==
    /\ item \in entering
    /\ entering' = entering \ {item}
    /\ IF pc = "exited"
       THEN UNCHANGED <<mDataQ, posting>>
       ELSE mDataQ' = Append(mDataQ, item) /\ posting' = posting + 1
    /\ UNCHANGED <<cmd_queue, mActive, threadVars, pictureVars, others, snapshotDone,
                   closing>>

\* The postprocessor works until its own thread has stopped.
SnapshotCallback ==
    /\ postproc \in {"started", "stopping"}
    /\ sent < Expected
    /\ sent' = sent + 1
    /\ notifyCallback(picture)
    /\ UNCHANGED others

OtherCallback ==
    /\ others < MaxOthers
    /\ others' = others + 1
    /\ notifyCallback(0)
    /\ UNCHANGED sent

MistakenSendNext ==
    /\ Len(mDataQ) > 0
    /\ posting' = posting - 1
    /\ cmd_queue' = Append(cmd_queue, "NEXT")
    /\ UNCHANGED <<mDataQ, mActive, entering, threadVars, pictureVars, others, snapshotDone, closing>>

SendNext ==
    /\ posting > 0
    /\ posting' = posting - 1
    /\ cmd_queue' = Append(cmd_queue, "NEXT")
    /\ UNCHANGED <<mDataQ, mActive, entering, threadVars, pictureVars, others, snapshotDone, closing>>

-----------------------------------------------------------------------------
(* cbNotifyRoutine(). *)

GetCmd(cmd) ==
    /\ pc = "waiting"
    /\ cmd_queue # <<>>
    /\ Head(cmd_queue) = cmd
    /\ cmd_queue' = Tail(cmd_queue)

\* How many callbacks to expect, and whether a longshot is on, is read now.
StartDataProc ==
    /\ GetCmd("START")
    /\ isSnapshotActive' = TRUE
    /\ longShotEnabled' = mLongshotEnabled
    /\ numOfSnapshotExpected' = Expected
    /\ numOfSnapshotRcvd' = 0
    /\ UNCHANGED <<entering, pc, mDataQ, mActive, posting, pictureVars, others, snapshotDone, closing>>

\* How often an item stands in a queue.
CountIn(s, x) == Cardinality({i \in DOMAIN s : s[i] = x})

\* What flushNodes() leaves of the callbacks: those of no picture, which are alike.
OfNoPicture(items) == [i \in 1..CountIn(items, 0) |-> 0]

MistakenStopDataProc ==
    /\ pc = "waiting" /\ cmd_queue # <<>> /\ Head(cmd_queue) = "STOP"
    /\ cmd_queue' = SelectSeq(Tail(cmd_queue), LAMBDA cmd : cmd # "NEXT")
    /\ mDataQ' = OfNoPicture(mDataQ)
    /\ isSnapshotActive' = FALSE
    /\ numOfSnapshotExpected' = 0
    /\ numOfSnapshotRcvd' = 0
    /\ UNCHANGED <<pc, longShotEnabled, mActive, posting, entering, pictureVars, others,
                   snapshotDone, closing>>

StopDataProc ==
    /\ GetCmd("STOP")
    /\ mDataQ' = OfNoPicture(mDataQ)
    /\ isSnapshotActive' = FALSE
    /\ numOfSnapshotExpected' = 0
    /\ numOfSnapshotRcvd' = 0
    /\ UNCHANGED <<entering, pc, longShotEnabled, mActive, posting, pictureVars, others, snapshotDone,
                   closing>>

\* A callback whose message the application disabled is dropped.
Counts(item, enabled) ==
    item # 0 /\ enabled /\ isSnapshotActive /\ ~longShotEnabled

DoNextJob ==
    /\ GetCmd("NEXT")
    /\ IF mDataQ = <<>>
       THEN UNCHANGED <<mDataQ, pc, numOfSnapshotRcvd, snapshotDone>>
       ELSE /\ mDataQ' = Tail(mDataQ)
            /\ \E enabled \in MsgEnabled :
                 IF Counts(Head(mDataQ), enabled)
                 THEN /\ numOfSnapshotRcvd' = numOfSnapshotRcvd + 1
                      /\ IF numOfSnapshotExpected > 0 /\ numOfSnapshotExpected = numOfSnapshotRcvd'
                         THEN /\ pc' = "syncing"
                              /\ snapshotDone' = "posted"
                         ELSE UNCHANGED <<pc, snapshotDone>>
                 ELSE UNCHANGED <<pc, numOfSnapshotRcvd, snapshotDone>>
    /\ UNCHANGED <<entering, isSnapshotActive, longShotEnabled, numOfSnapshotExpected, mActive, posting,
                   pictureVars, others, closing>>

\* processSyncEvt() returns and the callback is delivered.
SyncReturns ==
    /\ pc = "syncing"
    /\ snapshotDone = "signalled"
    /\ pc' = "waiting"
    /\ snapshotDone' = "none"
    /\ UNCHANGED <<entering, cmd_queue, mDataQ, mActive, posting, isSnapshotActive, longShotEnabled,
                   numOfSnapshotExpected, numOfSnapshotRcvd, pictureVars, others, closing>>

\* The thread ends; flush() empties the data queue and closes it.
ExitCmd ==
    /\ GetCmd("EXIT")
    /\ pc' = "exited"
    /\ mDataQ' = <<>>
    /\ UNCHANGED <<entering, isSnapshotActive, longShotEnabled, numOfSnapshotExpected, numOfSnapshotRcvd,
                   mActive, posting, pictureVars, others, snapshotDone, closing>>

-----------------------------------------------------------------------------
(* closeCamera(): exit() once the postprocessor is stopped, and the join. *)

exit ==
    /\ closing = "open" /\ SmIdle /\ postproc = "stopped"
    /\ closing' = "exiting"
    /\ mActive' = FALSE
    /\ cmd_queue' = <<"EXIT">> \o cmd_queue
    /\ UNCHANGED <<entering, mDataQ, posting, threadVars, pictureVars, others, snapshotDone>>

Join ==
    /\ closing = "exiting" /\ pc = "exited"
    /\ closing' = "closed"
    /\ UNCHANGED <<entering, cmd_queue, mDataQ, mActive, posting, threadVars, pictureVars,
                   others, snapshotDone>>

-----------------------------------------------------------------------------

Machine == HandleSnapshotDone \/ PostProcStopped
Thread  == StartDataProc \/ StopDataProc \/ DoNextJob \/ SyncReturns \/ ExitCmd

Next ==
    \/ startSnapshots \/ CancelPicture \/ Machine
    \/ SnapshotCallback \/ OtherCallback
    \/ \E item \in entering : Enqueue(item)
    \/ SendNext
    \/ Thread
    \/ exit \/ Join

Spec == Init /\ [][Next]_vars

\* The threads run; whether a picture is taken or cancelled, or the camera
\* closed, is the application's choice.
Fairness ==
    /\ WF_vars(Machine) /\ WF_vars(Thread)
    /\ WF_vars(SnapshotCallback) /\ WF_vars(SendNext)
    /\ WF_vars(\E item \in entering : Enqueue(item))
    /\ WF_vars(Join)

FairSpec == Spec /\ Fairness

-----------------------------------------------------------------------------
(* Properties. *)

\* Every callback in the data queue has a command that will fetch it, sent or
\* about to be: START, STOP and EXIT overtake those commands and STOP removes
\* arguments without removing commands, but none is ever stranded.
Commands(cmd) == CountIn(cmd_queue, cmd)

NoCallbackStranded == Len(mDataQ) <= Commands("NEXT") + posting

\* After the thread ended no callback argument remains, though notifyCallback()
\* may have found the notifier active just before exit() and enqueued after it.
NothingLeftAfterExit == pc = "exited" => mDataQ = <<>>

\* The state machine's answer to SNAPSHOT_DONE always releases the thread.
SyncReturnsEventually == pc = "syncing" ~> pc # "syncing"

\* Closing the camera does not wait for ever for the thread.
CloseReturns == closing = "exiting" ~> closing = "closed"

\* The callback thread and the machine's, which wait for each other in turn
\* (processSyncEvt(), exit()), never wait for ever.
WaitsEnd == SyncReturnsEventually /\ CloseReturns

\* Once the thread is done with its commands the snapshot mode is what the
\* last of startSnapshots() and stopSnapshots() asked for.
SnapshotModeFollows ==
    (/\ pc = "waiting" /\ postproc # "stopping"
     /\ Commands("START") = 0 /\ Commands("STOP") = 0)
        => (isSnapshotActive <=> postproc = "started")

=============================================================================
