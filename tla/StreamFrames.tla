----------------------------- MODULE StreamFrames -----------------------------
(***************************************************************************)
(* The way of the frames of one HAL1 stream: the kernel fills a buffer, the *)
(* stack hands it to the stream's queue (QCameraStream), its thread calls   *)
(* the routine of the stream's kind (QCamera2HWICallbacks.cpp), which gives *)
(* it to the display (QCameraGrallocMemory), to the callback thread or back *)
(* to the kernel, and whoever had it last gives it back.  Each start of the *)
(* stream is a session with buffers of its own.                             *)
(*                                                                         *)
(* Kinds: "display" (preview_stream_cb_routine), "nodisplay", "rdi" and     *)
(* "video".  Callbacks of one message type only; see QCameraCbNotifier for  *)
(* the order of the callback thread.                                        *)
(***************************************************************************)
EXTENDS Naturals, FiniteSets, SequencesExt

CONSTANTS
    Kind,
    N,              \* buffers of the stream
    MinUndequeued,            \* min_undequeued_buffer_count of the window
    MaxSessions,    \* bound: starts of the stream
    MaxNotes,       \* bound: callbacks queued
    MsgChanges,     \* the application disables and enables the message
    WindowFaults,   \* what the window may refuse: "enqueue", "dequeue", "import"
    Pictures        \* a live snapshot may be taken while not recording

FramesAssumption ==
    /\ Kind \in {"display", "nodisplay", "rdi", "video"}
    /\ N \in Nat /\ MinUndequeued \in Nat /\ MinUndequeued < N /\ MaxSessions \in Nat /\ MaxNotes \in Nat
    /\ MsgChanges \in BOOLEAN /\ Pictures \in BOOLEAN
    /\ WindowFaults \subseteq {"enqueue", "dequeue", "import"}

Bufs == 1..N
None == 0
Display == Kind = "display"
Frames == [buf : Bufs, ses : 1..MaxSessions]

VARIABLES
    session,    \* starts so far
    on,         \* the stream runs, its memory is allocated
    ready,      \* needProcessPreviewFrame()
    kernel,     \* buffers queued to the kernel
    mDataQ,     \* frames waiting for the stream's thread
    frame,      \* the frame in the callback routine
    tell,       \* the display has it; the data callback is still to come
    notes,      \* callbacks queued: [buf, ses]
    app,        \* video frames the application has: [buf, ses]
    window,     \* buffers the window has
    mLocalFlag, \* buffers the HAL thinks it owns
    msg,        \* the message type is enabled
    mActive,    \* of the notifier
    picture,    \* PREVIEW_PIC_TAKING
    kept,       \* buffers a failed allocate() did not give back to the window
    stale,      \* a callback used a stream or a buffer that is gone
    dead        \* releaseFrame() searched memory that is gone

vars == <<session, on, ready, kernel, mDataQ, frame, tell, notes, app, window,
          mLocalFlag, msg, mActive, picture, kept, stale, dead>>

TypeOK ==
    /\ session \in 0..MaxSessions
    /\ on \in BOOLEAN /\ ready \in BOOLEAN /\ tell \in BOOLEAN /\ msg \in BOOLEAN
    /\ mActive \in BOOLEAN /\ picture \in BOOLEAN /\ stale \in BOOLEAN /\ dead \in BOOLEAN
    /\ kernel \subseteq Bufs /\ mDataQ \in Seq(Bufs) /\ frame \in Bufs \cup {None}
    /\ notes \in Seq(Frames)
    /\ app \subseteq Frames
    /\ window \subseteq Bufs /\ mLocalFlag \subseteq Bufs /\ kept \subseteq Bufs

Init ==
    /\ session = 0 /\ on = FALSE /\ ready = FALSE /\ kernel = {} /\ mDataQ = <<>>
    /\ frame = None /\ tell = FALSE /\ notes = <<>> /\ app = {}
    /\ window = (IF Display THEN Bufs ELSE {}) /\ mLocalFlag = {}
    /\ msg = TRUE /\ mActive = TRUE /\ picture = FALSE /\ kept = {}
    /\ stale = FALSE /\ dead = FALSE

Note(b) == [buf |-> b, ses |-> session]
Mine(n) == on /\ n.ses = session

-----------------------------------------------------------------------------
(* Starting and stopping.                                                   *)

\* QCameraGrallocMemory::allocate(): all buffers come from the window, the
\* first MinUndequeued go back.  A refused open or import gives back those before it.

FromWindow == Bufs \ 1..MinUndequeued

notGivenBack(c) == {c}

Start ==
    /\ ~on /\ session < MaxSessions /\ mActive /\ ~picture
    /\ Display => window = Bufs
    /\ session' = session + 1 /\ on' = TRUE /\ ready' = FALSE
    /\ kernel' = IF Display THEN FromWindow ELSE Bufs
    /\ window' = IF Display THEN Bufs \ FromWindow ELSE {}
    /\ mLocalFlag' = IF Display THEN FromWindow ELSE {}
    /\ UNCHANGED <<mDataQ, frame, tell, notes, app, msg, mActive, picture, kept, stale, dead>>

StartFails ==
    \E c \in Bufs :
        /\ "import" \in WindowFaults /\ Display /\ ~on /\ window = Bufs
        /\ session < MaxSessions /\ session' = session + 1
        /\ kept' = notGivenBack(c) /\ window' = Bufs \ notGivenBack(c)
        /\ UNCHANGED <<on, ready, kernel, mDataQ, frame, tell, notes, app, mLocalFlag, msg,
                       mActive, picture, stale, dead>>

\* The state machine is in a preview state.
Previewing ==
    /\ on /\ ~ready /\ ready' = TRUE
    /\ UNCHANGED <<session, on, kernel, mDataQ, frame, tell, notes, app, window, mLocalFlag,
                   msg, mActive, picture, kept, stale, dead>>

\* stop(): the thread exits before its next frame and flushes the queue
\* (releaseFrameData()), the channel stops, the memory is released and what
\* the HAL owns of the window's is cancelled.

givesBack == window \cup mLocalFlag

Stop ==
    /\ on /\ frame = None /\ on' = FALSE /\ ready' = FALSE
    /\ kernel' = {} /\ mDataQ' = <<>>
    /\ window' = givesBack /\ mLocalFlag' = {}
    /\ UNCHANGED <<session, frame, tell, notes, app, msg, mActive, picture, kept, stale, dead>>

\* closeCamera(): the notifier exits first and releases what it has queued.
Close ==
    /\ mActive /\ mActive' = FALSE /\ notes' = <<>>
    /\ kernel' = IF Kind \in {"nodisplay", "rdi"}
                 THEN kernel \cup {notes[i].buf : i \in {j \in DOMAIN notes : Mine(notes[j])}}
                 ELSE kernel
    /\ UNCHANGED <<session, on, ready, mDataQ, frame, tell, app, window, mLocalFlag, msg,
                   picture, kept, stale, dead>>

-----------------------------------------------------------------------------
(* A frame.                                                                 *)

\* dataNotifyCB(), processDataNotify(): a filled buffer, in any order.
dataNotifyCB ==
    \E b \in kernel :
        /\ on /\ kernel' = kernel \ {b} /\ mDataQ' = Append(mDataQ, b)
        /\ UNCHANGED <<session, on, ready, frame, tell, notes, app, window, mLocalFlag, msg,
                       mActive, picture, kept, stale, dead>>

dataProcRoutine ==
    /\ on /\ mDataQ # <<>> /\ frame = None
    /\ frame' = Head(mDataQ) /\ mDataQ' = Tail(mDataQ)
    /\ UNCHANGED <<session, on, ready, kernel, tell, notes, app, window, mLocalFlag, msg,
                   mActive, picture, kept, stale, dead>>

\* Not in a preview state: bufDone() at once (the video routine never asks).
SkipFrame ==
    /\ frame # None /\ ~tell /\ ~ready /\ Kind # "video"
    /\ kernel' = kernel \cup {frame} /\ frame' = None
    /\ UNCHANGED <<session, on, ready, mDataQ, tell, notes, app, window, mLocalFlag, msg,
                   mActive, picture, kept, stale, dead>>

\* displayBuffer() and bufDone() of the buffer the window gave for it.  The
\* window keeps MinUndequeued of them.

bufDone(b) == kernel \cup {b}

keepsFlag(f, b) == f

owned(f, b) == f \cup {b}

displayBuffer ==
    \E enqueued \in BOOLEAN :
        LET w == IF enqueued THEN window \cup {frame} ELSE window
            f == IF enqueued THEN mLocalFlag \ {frame} ELSE mLocalFlag
        IN /\ Display /\ frame # None /\ ~tell /\ ready
           /\ enqueued \/ "enqueue" \in WindowFaults
           /\ frame \in mLocalFlag
           /\ \/ \E b \in w : /\ Cardinality(w) > MinUndequeued
                              /\ window' = w \ {b} /\ mLocalFlag' = owned(f, b)
                              /\ kernel' = bufDone(b)
              \/ /\ "dequeue" \in WindowFaults \/ Cardinality(w) <= MinUndequeued
                 /\ window' = w /\ mLocalFlag' = f /\ UNCHANGED kernel
           /\ tell' = TRUE
           /\ UNCHANGED <<session, on, ready, mDataQ, frame, notes, app, msg, mActive,
                          picture, kept, stale, dead>>

\* sendPreviewCallback(), after the frame went to the display.
sendPreviewCallback ==
    /\ tell /\ Len(notes) < MaxNotes /\ tell' = FALSE /\ frame' = None
    /\ notes' = IF msg /\ mActive THEN Append(notes, Note(frame)) ELSE notes
    /\ UNCHANGED <<session, on, ready, kernel, mDataQ, app, window, mLocalFlag, msg, mActive,
                   picture, kept, stale, dead>>

\* nodisplay_preview_stream_cb_routine() and rdi_mode_stream_cb_routine(): a
\* frame the application is not told of goes back.  The second ignores a
\* refusal of the notifier.

returnsAtOnce ==
    IF ~msg \/ (~mActive /\ Kind = "nodisplay") THEN {frame} ELSE {}

PreviewFrame ==
    /\ Kind \in {"nodisplay", "rdi"} /\ frame # None /\ ready /\ frame' = None
    /\ notes' = IF msg /\ mActive THEN Append(notes, Note(frame)) ELSE notes
    /\ kernel' = kernel \cup returnsAtOnce
    /\ UNCHANGED <<session, on, ready, mDataQ, tell, app, window, mLocalFlag, msg, mActive,
                   picture, kept, stale, dead>>

\* video_stream_cb_routine(): without the message nothing is done with it.
VideoFrame ==
    /\ Kind = "video" /\ frame # None /\ frame' = None
    /\ notes' = IF msg /\ mActive THEN Append(notes, Note(frame)) ELSE notes
    /\ kernel' = IF msg /\ ~mActive THEN kernel \cup {frame} ELSE kernel
    /\ UNCHANGED <<session, on, ready, mDataQ, tell, app, window, mLocalFlag, msg, mActive,
                   picture, kept, stale, dead>>

-----------------------------------------------------------------------------
(* The callback thread and the application.                                 *)

\* cbNotifyRoutine(): the message is checked again; release_cb is called
\* either way (returnStreamBuffer()), but a video callback has none.

returnStreamBuffer(n) == IF Mine(n) THEN kernel \cup {n.buf} ELSE kernel

cbNotifyRoutine ==
    LET n == Head(notes)
    IN /\ notes # <<>> /\ notes' = Tail(notes)
       /\ app' = IF Kind = "video" /\ msg THEN app \cup {n} ELSE app
       /\ kernel' = IF Kind \in {"nodisplay", "rdi"} THEN returnStreamBuffer(n) ELSE kernel
       /\ stale' = (stale \/ (~Mine(n) /\ (msg \/ Kind \in {"nodisplay", "rdi"})))
       /\ UNCHANGED <<session, on, ready, mDataQ, frame, tell, window, mLocalFlag, msg,
                      mActive, picture, kept, dead>>

\* release_recording_frame(): the state machine takes it while recording and
\* while taking a picture; getMatchBufIndex() finds the buffer by its address.

releaseFrame(n) == IF Mine(n) THEN kernel \cup {n.buf} ELSE kernel

releaseRecordingFrame(n) ==
    /\ n \in app /\ app' = app \ {n}
    /\ kernel' = releaseFrame(n)
    /\ dead' = (dead \/ (~on /\ picture))
    /\ UNCHANGED <<session, on, ready, mDataQ, frame, tell, notes, window, mLocalFlag, msg,
                   mActive, picture, kept, stale>>

ChangeMsg ==
    /\ MsgChanges /\ msg' = ~msg
    /\ UNCHANGED <<session, on, ready, kernel, mDataQ, frame, tell, notes, app, window,
                   mLocalFlag, mActive, picture, kept, stale, dead>>

\* A live snapshot while the video stream is stopped, and its end.
TakePicture ==
    /\ Pictures /\ ~on /\ session > 0 /\ picture' = ~picture
    /\ UNCHANGED <<session, on, ready, kernel, mDataQ, frame, tell, notes, app, window,
                   mLocalFlag, msg, mActive, kept, stale, dead>>

ThreadStep ==
    \/ dataProcRoutine \/ SkipFrame \/ displayBuffer \/ sendPreviewCallback
    \/ PreviewFrame \/ VideoFrame

Next ==
    \/ Start \/ StartFails \/ Previewing \/ Stop \/ Close \/ dataNotifyCB \/ ThreadStep
    \/ cbNotifyRoutine \/ (\E n \in Frames : releaseRecordingFrame(n)) \/ ChangeMsg \/ TakePicture

Spec == Init /\ [][Next]_vars

\* The stream's thread and the callback thread run; the encoder is done with
\* each frame some time.  Nothing says that the kernel fills a buffer.
Fairness ==
    /\ WF_vars(ThreadStep) /\ WF_vars(cbNotifyRoutine)
    /\ \A n \in Frames : WF_vars(releaseRecordingFrame(n))
FairSpec == Spec /\ Fairness

-----------------------------------------------------------------------------
Waiting == {notes[i] : i \in {j \in DOMAIN notes : notes[j].ses = session}}
InCallback == IF frame # None /\ ~tell THEN {frame} ELSE {}
Told == IF Display THEN {} ELSE {n.buf : n \in Waiting}
WithApp == {n.buf : n \in {m \in app : m.ses = session}}

\* Every frame has one owner at a time (bufDone() in all its callers): a
\* buffer is never queued to the kernel while the stream, the display, the
\* callback thread or the encoder has it.
OneHolder ==
    on => /\ kernel \cap Range(mDataQ) = {} /\ IsInjective(mDataQ)
          /\ InCallback \cap (kernel \cup Range(mDataQ)) = {}
          /\ Told \cap (kernel \cup Range(mDataQ) \cup InCallback \cup WithApp) = {}
          /\ WithApp \cap (kernel \cup Range(mDataQ) \cup InCallback) = {}
          /\ window \cap (kernel \cup Range(mDataQ) \cup InCallback) = {}

\* "Once video encoder is done with the video frame, it will call another API
\* to return the frame back", "an older frame will be dequeued from display
\* and needs to be returned back to kernel": no buffer of a running stream is
\* without somebody who returns it.
NothingStranded ==
    on /\ mActive => Bufs = kernel \cup Range(mDataQ) \cup InCallback \cup Told \cup WithApp \cup window

\* For every frame the display gets it gives one back: the kernel and the
\* stream keep their share of the window's buffers.
WindowShare == Display /\ on => Cardinality(window) = MinUndequeued

\* mLocalFlag says of every buffer whether it is the HAL's, so displayBuffer()
\* never refuses a frame and deallocate() cancels all that must go back.
FlagAgrees == Display /\ on => mLocalFlag = Bufs \ window

\* While there is no stream the window has all its buffers again, but the one
\* at which allocate() failed.
WindowWhole == Display /\ ~on => window = Bufs \ kept

\* All of these.
FramesSound ==
    /\ TypeOK
    /\ OneHolder /\ NothingStranded
    /\ WindowShare /\ FlagAgrees /\ WindowWhole

\* "returns back a stream buffer": no callback is delivered, and no buffer
\* returned, for a stream that is gone.
NoStaleCallback == ~stale

\* A frame is searched only in memory that is still allocated.
NoDeadMemory == ~dead

\* A frame that has been delivered to the stream is back in the kernel one
\* day, or the stream stopped, or the camera closes.
FramesComeBack ==
    \A b \in Bufs : (on /\ b \notin kernel /\ b \notin window)
                        ~> (b \in kernel \/ b \in window \/ ~on \/ ~mActive)

=============================================================================
