-------------------------- MODULE StreamFrames_proofs --------------------------
(***************************************************************************)
(* What is proved of the frames of a stream, for any number of buffers,    *)
(* sessions and callbacks and each of the four kinds of stream: a buffer is*)
(* in one place at a time, none is without a place, and the window and the *)
(* HAL agree whose each buffer is.  Then of the JPEG encoder's interface,   *)
(* where the frames of a picture go, for any number of sessions, output    *)
(* buffers and jobs; and of the requests of the third camera HAL, which    *)
(* bring frames of its streams back, for any number of frames.             *)
(***************************************************************************)
EXTENDS StreamFrames, NaturalsInduction, FiniteSetTheorems, SequenceTheorems, TLAPS

-----------------------------------------------------------------------------
(* The inductive invariant: the six places where a buffer can be.           *)

In(q, x) == \E i \in DOMAIN q : q[i] = x
Once(q, x) == \A i, j \in DOMAIN q : q[i] = x /\ q[j] = x => i = j

InKernel(b)   == b \in kernel
InQueue(b)    == In(mDataQ, b)
InRoutine(b)  == frame = b /\ ~tell
InNotes(b)    == ~Display /\ In(notes, Note(b))
InApp(b)      == Note(b) \in app
InWindow(b)   == b \in window

\* It is in one of them at most.
Apart(b) ==
    /\ InKernel(b)  => ~InQueue(b) /\ ~InRoutine(b) /\ ~InNotes(b) /\ ~InApp(b) /\ ~InWindow(b)
    /\ InQueue(b)   => ~InRoutine(b) /\ ~InNotes(b) /\ ~InApp(b) /\ ~InWindow(b)
    /\ InRoutine(b) => ~InNotes(b) /\ ~InApp(b) /\ ~InWindow(b)
    /\ InNotes(b)   => ~InApp(b) /\ ~InWindow(b)
    /\ InApp(b)     => ~InWindow(b)

Somewhere(b) ==
    InKernel(b) \/ InQueue(b) \/ InRoutine(b) \/ InNotes(b) \/ InApp(b) \/ InWindow(b)

\* Each buffer of a running stream.
Places ==
    on => \A b \in Bufs :
            /\ Apart(b)
            /\ Once(mDataQ, b)
            /\ ~Display => Once(notes, Note(b))

\* Nothing of this session or a later one is under way while the stream is stopped.
Sessions ==
    /\ on => session >= 1
    /\ \A n \in Frames : In(notes, n) => n.ses <= session
    /\ \A n \in app : n.ses <= session
    /\ ~on => kernel = {} /\ mDataQ = <<>> /\ frame = None
    /\ tell => frame # None /\ Display

\* Whose the buffers of the window are.
Shared ==
    /\ ~Display => window = {} /\ mLocalFlag = {}
    /\ Display /\ on => mLocalFlag = Bufs \ window /\ kept = {}
    /\ Display /\ ~on => window = Bufs \ kept /\ mLocalFlag = {}

\* The settings in which the window keeps its share, and those in which no frame
\* is lost: the window takes what it is given, and a video frame is told of.
Gives == "dequeue" \notin WindowFaults
Takes == "enqueue" \notin WindowFaults /\ (Kind = "video" => ~MsgChanges)

Share == Gives /\ Display /\ on => Cardinality(window) = MinUndequeued
Found == Takes /\ on /\ mActive => \A b \in Bufs : Somewhere(b)

FramesInv ==
    /\ TypeOK /\ Places /\ Sessions /\ Shared /\ Share /\ Found
    /\ ~MsgChanges => msg

-----------------------------------------------------------------------------
(* Queues. *)

\* What is appended is in the queue, once if it was not there.
LEMMA AppendIn ==
  ASSUME NEW S, NEW q \in Seq(S), NEW x \in S, NEW y
  PROVE  /\ Append(q, x) \in Seq(S)
         /\ In(Append(q, x), y) <=> In(q, y) \/ y = x
         /\ Once(q, y) /\ (y # x \/ ~In(q, y)) => Once(Append(q, x), y)
<1>1. PICK n : n = Len(q) /\ n \in Nat
  BY LenProperties
<1>2. DOMAIN q = 1..n
  BY ONLY <1>1, q \in Seq(S), LenProperties
<1>3. /\ Append(q, x) \in Seq(S) /\ Len(Append(q, x)) = n + 1
      /\ Append(q, x)[n + 1] = x /\ \A i \in 1..n : Append(q, x)[i] = q[i]
  BY ONLY <1>1, q \in Seq(S), x \in S, AppendProperties
<1>4. DOMAIN Append(q, x) = 1..(n + 1)
  BY ONLY <1>3, LenProperties
<1>5. PICK z : z = Append(q, x)
  OBVIOUS
<1>6. DOMAIN z = 1..(n + 1) /\ z[n + 1] = x /\ \A i \in 1..n : z[i] = q[i]
  BY <1>3, <1>4, <1>5
<1>7. In(z, y) <=> In(q, y) \/ y = x
  <2>1. \A i \in 1..(n + 1) : i \in 1..n \/ i = n + 1
    BY ONLY <1>1
  <2>2. n + 1 \in 1..(n + 1) /\ \A i \in 1..n : i \in 1..(n + 1)
    BY ONLY <1>1
  <2> QED
    BY ONLY <1>2, <1>6, <2>1, <2>2 DEF In
<1>8. ASSUME Once(q, y), y # x \/ ~In(q, y)
      PROVE  Once(z, y)
  <2> SUFFICES ASSUME NEW i \in 1..(n + 1), NEW j \in 1..(n + 1), z[i] = y, z[j] = y
               PROVE  i = j
    BY <1>6 DEF Once
  <2>1. i \in 1..n \/ i = n + 1
    BY ONLY <1>1, i \in 1..(n + 1)
  <2>2. j \in 1..n \/ j = n + 1
    BY ONLY <1>1, j \in 1..(n + 1)
  <2>3. CASE i \in 1..n /\ j \in 1..n
    BY <1>2, <1>6, <1>8, <2>3 DEF Once
  <2>4. CASE (i = n + 1 \/ j = n + 1) /\ (i \in 1..n \/ j \in 1..n)
    BY <1>2, <1>6, <1>8, <2>4 DEF In
  <2> QED
    BY <2>1, <2>2, <2>3, <2>4
<1> QED
  BY <1>3, <1>5, <1>7, <1>8

\* A queue holds its head and what its tail holds, which repeats nothing new.
LEMMA TailIn ==
  ASSUME NEW S, NEW q \in Seq(S), q # <<>>, NEW y
  PROVE  /\ Head(q) \in S /\ Tail(q) \in Seq(S)
         /\ In(q, y) <=> In(Tail(q), y) \/ y = Head(q)
         /\ Once(q, y) => Once(Tail(q), y)
         /\ Once(q, y) /\ y = Head(q) => ~In(Tail(q), y)
<1>1. PICK n : n = Len(q) /\ n \in Nat /\ n >= 1
  BY LenProperties, EmptySeq
<1>2. DOMAIN q = 1..n
  BY ONLY <1>1, q \in Seq(S), LenProperties
<1>3. /\ Head(q) = q[1] /\ Tail(q) \in Seq(S) /\ Len(Tail(q)) = n - 1
      /\ \A i \in 1..(n - 1) : Tail(q)[i] = q[i + 1]
  BY ONLY <1>1, q \in Seq(S), q # <<>>, HeadTailProperties
<1>4. DOMAIN Tail(q) = 1..(n - 1)
  BY ONLY <1>3, LenProperties
<1>5. PICK z : z = Tail(q)
  OBVIOUS
<1>6. DOMAIN z = 1..(n - 1) /\ \A i \in 1..(n - 1) : z[i] = q[i + 1]
  BY <1>3, <1>4, <1>5
<1>7. /\ \A i \in 1..n : i = 1 \/ (i - 1 \in 1..(n - 1) /\ (i - 1) + 1 = i)
      /\ \A i \in 1..(n - 1) : i + 1 \in 1..n /\ i + 1 # 1
      /\ \A i, j \in 1..(n - 1) : i + 1 = j + 1 => i = j
      /\ 1 \in 1..n
  BY ONLY <1>1
<1>8. q[1] \in S
  BY ONLY <1>2, <1>7, q \in Seq(S), ElementOfSeq, <1>1
<1>9. In(q, y) <=> In(z, y) \/ y = q[1]
  BY ONLY <1>2, <1>6, <1>7 DEF In
<1>10. Once(q, y) => Once(z, y)
  BY ONLY <1>2, <1>6, <1>7 DEF Once
<1>11. Once(q, y) /\ y = q[1] => ~In(z, y)
  BY ONLY <1>2, <1>6, <1>7 DEF Once, In
<1> QED
  BY <1>3, <1>5, <1>8, <1>9, <1>10, <1>11

\* An empty queue holds nothing.
LEMMA EmptyIn == \A y : ~In(<<>>, y) /\ Once(<<>>, y)
  BY DEF In, Once

\* A frame in the callback routine is a buffer of a stream that runs.
LEMMA FrameFacts ==
  ASSUME FramesAssumption, TypeOK, Sessions, frame # None
  PROVE  on /\ frame \in Bufs /\ session \in 1..MaxSessions /\ Note(frame) \in Frames
<1>1. on /\ frame \in Bufs /\ session >= 1 /\ session \in 0..MaxSessions /\ MaxSessions \in Nat
  BY DEF TypeOK, Sessions, FramesAssumption
<1>2. session \in 1..MaxSessions
  BY ONLY <1>1
<1> QED
  BY <1>1, <1>2 DEF Note, Frames

\* A note of a stream that runs is about one of its buffers.
LEMMA NoteFacts ==
  ASSUME NEW n \in Frames, NEW b \in Bufs
  PROVE  n = Note(b) <=> n.buf = b /\ n.ses = session
  BY DEF Note, Frames

\* None is no buffer.
LEMMA NoneFacts == ASSUME FramesAssumption PROVE None \notin Bufs
  BY DEF FramesAssumption, None, Bufs

-----------------------------------------------------------------------------
(* The types. *)

Flags ==
    /\ on \in BOOLEAN /\ ready \in BOOLEAN /\ tell \in BOOLEAN /\ msg \in BOOLEAN
    /\ mActive \in BOOLEAN /\ picture \in BOOLEAN /\ stale \in BOOLEAN /\ dead \in BOOLEAN
Shapes ==
    /\ session \in 0..MaxSessions
    /\ kernel \subseteq Bufs /\ mDataQ \in Seq(Bufs) /\ frame \in Bufs \cup {None}
    /\ notes \in Seq(Frames) /\ app \subseteq Frames
    /\ window \subseteq Bufs /\ mLocalFlag \subseteq Bufs /\ kept \subseteq Bufs

\* Flags stay truth values.
LEMMA FlagsKept == ASSUME Flags, Next PROVE Flags'
<1>1. CASE Start
  BY Zenon, <1>1 DEF Start, Flags
<1>2. CASE StartFails
  BY Zenon, <1>2 DEF StartFails, Flags
<1>3. CASE Previewing
  BY Zenon, <1>3 DEF Previewing, Flags
<1>4. CASE Stop
  BY Zenon, <1>4 DEF Stop, Flags
<1>5. CASE Close
  BY Zenon, <1>5 DEF Close, Flags
<1>6. CASE dataNotifyCB
  BY Zenon, <1>6 DEF dataNotifyCB, Flags
<1>7. CASE ThreadStep
  BY Zenon, <1>7 DEF ThreadStep, dataProcRoutine, SkipFrame, displayBuffer, sendPreviewCallback,
                     PreviewFrame, VideoFrame, Flags
<1>8. CASE cbNotifyRoutine
  BY Zenon, <1>8 DEF cbNotifyRoutine, Flags
<1>9. CASE \E n \in Frames : releaseRecordingFrame(n)
  BY Zenon, <1>9 DEF releaseRecordingFrame, Flags
<1>10. CASE ChangeMsg
  BY Zenon, <1>10 DEF ChangeMsg, Flags
<1>11. CASE TakePicture
  BY Zenon, <1>11 DEF TakePicture, Flags
<1> QED
  BY <1>1, <1>2, <1>3, <1>4, <1>5, <1>6, <1>7, <1>8, <1>9, <1>10, <1>11 DEF Next

\* The type invariant is that of the flags and that of the rest.
LEMMA TypeParts == TypeOK <=> Flags /\ Shapes
  BY DEF TypeOK, Flags, Shapes

-----------------------------------------------------------------------------
(* The steps: where each of them leaves the buffers. *)

\* The invariant but for the flags.
Sound ==
    /\ Shapes /\ Places /\ Sessions /\ Shared /\ Share /\ Found
    /\ ~MsgChanges => msg

\* A start puts every buffer with the kernel or the window.
LEMMA StartSound ==
  ASSUME FramesAssumption, Flags, Sound, Start
  PROVE  Sound'
<1> USE DEF Sound
<1>1. /\ ~on /\ on' /\ session' = session + 1 /\ session < MaxSessions /\ session \in Nat
      /\ MaxSessions \in Nat
      /\ mDataQ' = <<>> /\ frame' = None /\ ~tell' /\ notes' = notes /\ app' = app /\ kept' = kept
      /\ msg' = msg /\ (Display => window = Bufs /\ kept = {})
  <2>1. ~tell
    BY DEF Start, Sessions
  <2>2. Display => kept = {}
    BY DEF Start, Shared, Shapes
  <2> QED
    BY <2>1, <2>2 DEF Start, Shapes, Sessions, FramesAssumption
<1>2. /\ kernel' = IF Display THEN FromWindow ELSE Bufs
      /\ window' = IF Display THEN Bufs \ FromWindow ELSE {}
      /\ mLocalFlag' = IF Display THEN FromWindow ELSE {}
  BY DEF Start
<1>3. FromWindow \subseteq Bufs
  BY DEF FromWindow
<1>4. Shapes'
  BY <1>1, <1>2, <1>3, EmptySeq DEF Shapes
<1>5. \A b \in Bufs : /\ InKernel(b)' <=> ~InWindow(b)'
                      /\ ~InQueue(b)' /\ ~InRoutine(b)' /\ ~InNotes(b)' /\ ~InApp(b)'
                      /\ Once(mDataQ, b)' /\ Once(notes, Note(b))'
  <2> TAKE b \in Bufs
  <2>1. InKernel(b)' <=> ~InWindow(b)'
    BY <1>2, <1>3 DEF InKernel, InWindow
  <2>2. ~InQueue(b)' /\ Once(mDataQ, b)'
    BY <1>1, EmptyIn DEF InQueue
  <2>3. ~InRoutine(b)'
    BY <1>1, NoneFacts DEF InRoutine
  <2>4. PICK m : m = [buf |-> b, ses |-> session + 1]
    OBVIOUS
  <2>5. m \in Frames /\ ~(m.ses <= session)
    BY <1>1, <2>4 DEF Frames
  <2>6. ~In(notes, m) /\ m \notin app
    BY <2>5 DEF Sessions
  <2>7. Once(notes, m)
    BY <2>6 DEF In, Once
  <2>8. Note(b)' = m
    BY <1>1, <2>4 DEF Note
  <2> QED
    BY <1>1, <2>1, <2>2, <2>3, <2>6, <2>7, <2>8 DEF InNotes, InApp
<1>6. Places' /\ Found'
  BY <1>5 DEF Places, Found, Apart, Somewhere
<1>7. Sessions'
  <2>1. \A n \in Frames : n.ses <= session => n.ses <= session + 1
    BY <1>1 DEF Frames
  <2> QED
    BY <1>1, <2>1 DEF Sessions, Shapes
<1>8. Shared'
  BY <1>1, <1>2, <1>3 DEF Shared
<1>9. Share'
  <2>1. MinUndequeued \in Nat /\ N \in Nat /\ MinUndequeued < N
    BY DEF FramesAssumption
  <2>2. Bufs \ FromWindow = 1..MinUndequeued
    BY <2>1 DEF FromWindow, Bufs
  <2>3. Cardinality(1..MinUndequeued) = MinUndequeued
    BY <2>1, FS_Interval
  <2> QED
    BY <1>2, <2>2, <2>3 DEF Share
<1> QED
  BY <1>1, <1>4, <1>6, <1>7, <1>8, <1>9

\* A start that fails keeps what it could not give back to the window.
LEMMA StartFailsSound ==
  ASSUME FramesAssumption, Flags, Sound, StartFails
  PROVE  Sound'
<1> USE DEF Sound
<1>1. PICK c \in Bufs :
         /\ Display /\ ~on /\ session < MaxSessions /\ session' = session + 1
         /\ kept' = {c} /\ window' = Bufs \ {c}
         /\ UNCHANGED <<on, ready, kernel, mDataQ, frame, tell, notes, app, mLocalFlag, msg,
                        mActive, picture, stale, dead>>
  BY DEF StartFails, notGivenBack
<1>2. session \in Nat /\ MaxSessions \in Nat
  BY DEF Shapes, FramesAssumption
<1>3. Shapes'
  BY <1>1, <1>2 DEF Shapes
<1>4. Places' /\ Found' /\ Share' /\ Shared'
  BY <1>1 DEF Places, Found, Share, Shared
<1>5. Sessions'
  <2>1. \A n \in Frames : n.ses <= session => n.ses <= session + 1
    BY <1>2 DEF Frames
  <2> QED
    BY <1>1, <2>1 DEF Sessions, Shapes
<1> QED
  BY <1>1, <1>3, <1>4, <1>5

\* A stop takes the buffers from the kernel and the queue, not from the application.
LEMMA StopSound ==
  ASSUME FramesAssumption, Flags, Sound, Stop
  PROVE  Sound'
<1> USE DEF Sound
<1>1. /\ on /\ frame = None /\ ~on' /\ kernel' = {} /\ mDataQ' = <<>>
      /\ window' = window \cup mLocalFlag /\ mLocalFlag' = {} /\ frame' = frame
      /\ UNCHANGED <<session, tell, notes, app, msg, kept>>
  BY DEF Stop, givesBack
<1>2. Shapes'
  BY <1>1, EmptySeq DEF Shapes
<1>3. Places' /\ Found' /\ Share'
  BY <1>1 DEF Places, Found, Share
<1>4. Shared'
  BY <1>1 DEF Shared, Shapes
<1>5. Sessions'
  BY <1>1 DEF Sessions
<1> QED
  BY <1>1, <1>2, <1>3, <1>4, <1>5

\* What the notes of this session are about goes back to the kernel.
LEMMA CloseSound ==
  ASSUME FramesAssumption, Flags, Sound, Close
  PROVE  Sound'
<1> USE DEF Sound
<1>1. /\ ~mActive' /\ notes' = <<>>
      /\ kernel' = IF Kind \in {"nodisplay", "rdi"}
                   THEN kernel \cup {notes[i].buf : i \in {j \in DOMAIN notes : Mine(notes[j])}}
                   ELSE kernel
      /\ UNCHANGED <<session, on, ready, mDataQ, frame, tell, app, window, mLocalFlag, msg,
                     picture, kept, stale, dead>>
  BY Zenon DEF Close
<1>2. \A i \in DOMAIN notes : notes[i] \in Frames
  BY ElementOfSeq, LenProperties DEF Shapes
<1>3. kernel' \subseteq Bufs
  BY <1>1, <1>2 DEF Shapes, Frames
<1>4. Shapes'
  BY <1>1, <1>3, EmptySeq DEF Shapes
<1>5. ~on => kernel' = kernel
  BY <1>1 DEF Mine
<1>6. on => \A b \in Bufs :
        /\ InKernel(b)' => InKernel(b) \/ InNotes(b)
        /\ ~InNotes(b)' /\ Once(notes, Note(b))'
        /\ InQueue(b)' = InQueue(b) /\ InRoutine(b)' = InRoutine(b) /\ InApp(b)' = InApp(b)
        /\ InWindow(b)' = InWindow(b) /\ Once(mDataQ, b)' = Once(mDataQ, b)
  <2> SUFFICES ASSUME on, NEW b \in Bufs
               PROVE  /\ InKernel(b)' => InKernel(b) \/ InNotes(b)
                      /\ ~InNotes(b)' /\ Once(notes, Note(b))'
                      /\ InQueue(b)' = InQueue(b) /\ InRoutine(b)' = InRoutine(b)
                      /\ InApp(b)' = InApp(b) /\ InWindow(b)' = InWindow(b)
                      /\ Once(mDataQ, b)' = Once(mDataQ, b)
    OBVIOUS
  <2>1. ASSUME b \in kernel', b \notin kernel
        PROVE  InNotes(b)
    <3>1. Kind \in {"nodisplay", "rdi"}
      BY <1>1, <2>1
    <3>2. PICK i \in DOMAIN notes : Mine(notes[i]) /\ notes[i].buf = b
      BY <1>1, <2>1, <3>1
    <3>3. notes[i] = Note(b)
      BY <1>2, <3>2, NoteFacts DEF Mine
    <3> QED
      BY <3>1, <3>3 DEF InNotes, In, Display
  <2>2. ~InNotes(b)' /\ Once(notes, Note(b))'
    BY <1>1, EmptyIn DEF InNotes
  <2>3. UNCHANGED <<mDataQ, frame, tell, app, window, session>>
    BY <1>1
  <2>4. InQueue(b)' = InQueue(b) /\ Once(mDataQ, b)' = Once(mDataQ, b)
    BY ONLY <2>3 DEF InQueue, In, Once
  <2>5. InRoutine(b)' = InRoutine(b) /\ InApp(b)' = InApp(b) /\ InWindow(b)' = InWindow(b)
    BY ONLY <2>3 DEF InRoutine, InApp, InWindow, Note
  <2> QED
    BY <2>1, <2>2, <2>4, <2>5 DEF InKernel
<1>7. Places'
  BY <1>1, <1>6 DEF Places, Apart
<1>8. Sessions'
  BY <1>1, <1>5, EmptyIn DEF Sessions
<1>9. Found' /\ Shared' /\ Share'
  BY <1>1 DEF Found, Shared, Share
<1> QED
  BY <1>1, <1>4, <1>7, <1>8, <1>9

\* A frame goes from the kernel to the queue of the stream.
LEMMA dataNotifyCBSound ==
  ASSUME FramesAssumption, Flags, Sound, dataNotifyCB
  PROVE  Sound'
<1> USE DEF Sound
<1>1. PICK c \in kernel :
        /\ on /\ kernel' = kernel \ {c} /\ mDataQ' = Append(mDataQ, c)
        /\ UNCHANGED <<session, on, ready, frame, tell, notes, app, window, mLocalFlag, msg,
                       mActive, picture, kept, stale, dead>>
  BY DEF dataNotifyCB
<1>2. c \in Bufs /\ mDataQ \in Seq(Bufs)
  BY DEF Shapes
<1>3. /\ mDataQ' \in Seq(Bufs)
      /\ \A b \in Bufs : /\ In(mDataQ', b) <=> In(mDataQ, b) \/ b = c
                         /\ Once(mDataQ, b) /\ (b # c \/ ~In(mDataQ, b)) => Once(mDataQ', b)
  BY <1>1, <1>2, AppendIn
<1>4. Shapes'
  BY <1>1, <1>3 DEF Shapes
<1>5. \A b \in Bufs :
        /\ InKernel(b)' <=> InKernel(b) /\ b # c
        /\ InQueue(b)' <=> InQueue(b) \/ b = c
        /\ Once(mDataQ, b) /\ (b # c \/ ~InQueue(b)) => Once(mDataQ, b)'
        /\ InRoutine(b)' = InRoutine(b) /\ InNotes(b)' = InNotes(b)
        /\ InApp(b)' = InApp(b) /\ InWindow(b)' = InWindow(b)
        /\ Once(notes, Note(b))' = Once(notes, Note(b))
  BY <1>1, <1>3 DEF InKernel, InQueue, InRoutine, InNotes, InApp, InWindow, Note
<1>6. InKernel(c)
  BY DEF InKernel
<1>7. Places' /\ Found'
  BY <1>1, <1>2, <1>5, <1>6 DEF Places, Found, Apart, Somewhere
<1>8. Sessions' /\ Shared' /\ Share'
  BY <1>1 DEF Sessions, Shared, Share
<1> QED
  BY <1>1, <1>4, <1>7, <1>8

\* A frame goes from the queue to the callback routine.
LEMMA dataProcRoutineSound ==
  ASSUME FramesAssumption, Flags, Sound, dataProcRoutine
  PROVE  Sound'
<1> USE DEF Sound
<1>1. /\ on /\ mDataQ # <<>> /\ frame = None /\ frame' = Head(mDataQ) /\ mDataQ' = Tail(mDataQ)
      /\ UNCHANGED <<session, on, ready, kernel, tell, notes, app, window, mLocalFlag, msg,
                     mActive, picture, kept, stale, dead>>
  BY DEF dataProcRoutine
<1>2. PICK c : c = Head(mDataQ)
  OBVIOUS
<1>3. /\ c \in Bufs /\ mDataQ' \in Seq(Bufs)
      /\ \A b \in Bufs : /\ In(mDataQ, b) <=> In(mDataQ', b) \/ b = c
                         /\ Once(mDataQ, b) => Once(mDataQ', b)
                         /\ Once(mDataQ, b) /\ b = c => ~In(mDataQ', b)
  BY <1>1, <1>2, TailIn DEF Shapes
<1>4. Shapes'
  BY <1>1, <1>2, <1>3 DEF Shapes
<1>5. ~tell /\ c # None
  BY <1>1, <1>3, NoneFacts DEF Sessions
<1>6. \A b \in Bufs :
        /\ InQueue(b) <=> InQueue(b)' \/ b = c
        /\ Once(mDataQ, b) => Once(mDataQ, b)'
        /\ Once(mDataQ, b) /\ b = c => ~InQueue(b)'
        /\ InRoutine(b)' <=> b = c
        /\ ~InRoutine(b)
        /\ InKernel(b)' = InKernel(b) /\ InNotes(b)' = InNotes(b)
        /\ InApp(b)' = InApp(b) /\ InWindow(b)' = InWindow(b)
        /\ Once(notes, Note(b))' = Once(notes, Note(b))
  BY <1>1, <1>2, <1>3, <1>5, NoneFacts
  DEF InKernel, InQueue, InRoutine, InNotes, InApp, InWindow, Note
<1>7. Places' /\ Found'
  BY <1>1, <1>3, <1>6 DEF Places, Found, Apart, Somewhere
<1>8. Sessions' /\ Shared' /\ Share'
  BY <1>1, <1>5 DEF Sessions, Shared, Share
<1> QED
  BY <1>1, <1>4, <1>7, <1>8

\* A frame not wanted goes back to the kernel.
LEMMA SkipFrameSound ==
  ASSUME FramesAssumption, Flags, Sound, SkipFrame
  PROVE  Sound'
<1> USE DEF Sound
<1>1. /\ frame # None /\ ~tell /\ kernel' = kernel \cup {frame} /\ frame' = None
      /\ UNCHANGED <<session, on, ready, mDataQ, tell, notes, app, window, mLocalFlag, msg,
                     mActive, picture, kept, stale, dead>>
  BY DEF SkipFrame
<1>2. on /\ frame \in Bufs
  BY <1>1, FrameFacts, TypeParts
<1>3. Shapes'
  BY <1>1, <1>2 DEF Shapes
<1>4. \A b \in Bufs :
        /\ InKernel(b)' <=> InKernel(b) \/ InRoutine(b)
        /\ ~InRoutine(b)'
        /\ InQueue(b)' = InQueue(b) /\ InNotes(b)' = InNotes(b)
        /\ InApp(b)' = InApp(b) /\ InWindow(b)' = InWindow(b)
        /\ Once(notes, Note(b))' = Once(notes, Note(b)) /\ Once(mDataQ, b)' = Once(mDataQ, b)
  BY <1>1, <1>2, NoneFacts DEF InKernel, InQueue, InRoutine, InNotes, InApp, InWindow, Note
<1>5. Places' /\ Found'
  BY <1>1, <1>4 DEF Places, Found, Apart, Somewhere
<1>6. Sessions' /\ Shared' /\ Share'
  BY <1>1, <1>2 DEF Sessions, Shared, Share
<1> QED
  BY <1>1, <1>3, <1>5, <1>6

\* The window gets the frame and gives another buffer, or the same, in its place.
LEMMA displayBufferSound ==
  ASSUME FramesAssumption, Flags, Sound, displayBuffer
  PROVE  Sound'
<1> USE DEF Sound
<1>0. PICK enqueued \in BOOLEAN :
        LET w == IF enqueued THEN window \cup {frame} ELSE window
            f == IF enqueued THEN mLocalFlag \ {frame} ELSE mLocalFlag
        IN /\ Display /\ frame # None /\ ~tell
           /\ enqueued \/ "enqueue" \in WindowFaults
           /\ \/ \E b \in w : /\ Cardinality(w) > MinUndequeued
                              /\ window' = w \ {b} /\ mLocalFlag' = f \cup {b}
                              /\ kernel' = kernel \cup {b}
              \/ /\ "dequeue" \in WindowFaults \/ Cardinality(w) <= MinUndequeued
                 /\ window' = w /\ mLocalFlag' = f /\ UNCHANGED kernel
           /\ tell'
           /\ UNCHANGED <<session, on, ready, mDataQ, frame, notes, app, msg, mActive,
                          picture, kept, stale, dead>>
  BY Zenon DEF displayBuffer, owned, bufDone
<1>1a. PICK w, f : /\ w = IF enqueued THEN window \cup {frame} ELSE window
                  /\ f = IF enqueued THEN mLocalFlag \ {frame} ELSE mLocalFlag
  OBVIOUS
<1>1. /\ w = IF enqueued THEN window \cup {frame} ELSE window
      /\ f = IF enqueued THEN mLocalFlag \ {frame} ELSE mLocalFlag
      /\ Display /\ frame # None /\ ~tell
      /\ enqueued \/ "enqueue" \in WindowFaults
      /\ \/ \E b \in w : /\ Cardinality(w) > MinUndequeued
                         /\ window' = w \ {b} /\ mLocalFlag' = f \cup {b}
                         /\ kernel' = kernel \cup {b}
         \/ /\ "dequeue" \in WindowFaults \/ Cardinality(w) <= MinUndequeued
            /\ window' = w /\ mLocalFlag' = f /\ UNCHANGED kernel
      /\ tell'
      /\ UNCHANGED <<session, on, ready, mDataQ, frame, notes, app, msg, mActive,
                     picture, kept, stale, dead>>
  BY <1>0, <1>1a
<1>2. on /\ frame \in Bufs
  BY <1>1, FrameFacts, TypeParts
<1>3. InRoutine(frame) /\ frame \notin window
  BY <1>1, <1>2 DEF InRoutine, Places, Apart, InWindow
<1>4. w \subseteq Bufs /\ f \subseteq Bufs /\ f = Bufs \ w
  BY <1>1, <1>2, <1>3 DEF Shapes, Shared
<1>5. \A b \in Bufs : b \in w <=> InWindow(b) \/ (enqueued /\ InRoutine(b))
  BY <1>1, <1>2, <1>3 DEF InWindow, InRoutine
<1>6. \A b \in Bufs :
        /\ ~InRoutine(b)'
        /\ InQueue(b)' = InQueue(b) /\ InNotes(b)' = InNotes(b) /\ InApp(b)' = InApp(b)
        /\ Once(notes, Note(b))' = Once(notes, Note(b)) /\ Once(mDataQ, b)' = Once(mDataQ, b)
  BY <1>1 DEF InQueue, InRoutine, InNotes, InApp, Note
<1>7. Takes => enqueued
  BY <1>1 DEF Takes
<1>8. IsFiniteSet(window) /\ IsFiniteSet(w) /\ Cardinality(window) \in Nat /\ MinUndequeued \in Nat
  <2>1. IsFiniteSet(Bufs)
    BY FS_Interval DEF Bufs, FramesAssumption
  <2>2. IsFiniteSet(window) /\ IsFiniteSet(w)
    BY <1>4, <2>1, FS_Subset DEF Shapes
  <2> QED
    BY <2>2, FS_CardinalityType DEF FramesAssumption
<1>9. Cardinality(w) = Cardinality(window) + (IF enqueued THEN 1 ELSE 0)
  <2>1. CASE enqueued
    <3>1. Cardinality(window \cup {frame}) = Cardinality(window) + 1
      BY <1>3, <1>8, FS_AddElement
    <3> QED
      BY <1>1, <2>1, <3>1
  <2>2. CASE ~enqueued
    BY <1>1, <1>8, <2>2
  <2> QED
    BY <2>1, <2>2
<1>10. CASE \E b \in w : /\ Cardinality(w) > MinUndequeued
                        /\ window' = w \ {b} /\ mLocalFlag' = f \cup {b}
                        /\ kernel' = kernel \cup {b}
  <2>1. PICK c \in w : /\ Cardinality(w) > MinUndequeued
                       /\ window' = w \ {c} /\ mLocalFlag' = f \cup {c}
                       /\ kernel' = kernel \cup {c}
    BY <1>10
  <2>2. c \in Bufs
    BY <1>4
  <2>3. Shapes'
    BY <1>1, <1>4, <2>1, <2>2 DEF Shapes
  <2>4. \A b \in Bufs :
          /\ InKernel(b)' <=> InKernel(b) \/ b = c
          /\ InWindow(b)' <=> (InWindow(b) \/ (enqueued /\ InRoutine(b))) /\ b # c
    BY <1>5, <2>1, <2>2 DEF InKernel, InWindow
  <2>5. InWindow(c) \/ InRoutine(c)
    BY <1>5, <2>2
  <2>6. Places'
    BY <1>1, <1>2, <1>6, <2>2, <2>4, <2>5 DEF Places, Apart
  <2>7. Found'
    BY <1>1, <1>2, <1>6, <1>7, <2>2, <2>4 DEF Found, Somewhere
  <2>8. Sessions' /\ Shared'
    BY <1>1, <1>2, <1>4, <2>1, <2>2 DEF Sessions, Shared
  <2>9. Share'
    <3>1. Cardinality(w \ {c}) = Cardinality(w) - 1
      BY <1>8, <2>1, FS_RemoveElement
    <3> QED
      BY <1>1, <1>2, <1>8, <1>9, <2>1, <3>1 DEF Share
  <2> QED
    BY <1>1, <2>3, <2>6, <2>7, <2>8, <2>9
<1>11. CASE /\ "dequeue" \in WindowFaults \/ Cardinality(w) <= MinUndequeued
            /\ window' = w /\ mLocalFlag' = f /\ UNCHANGED kernel
  <2>1. Shapes'
    BY <1>1, <1>4, <1>11 DEF Shapes
  <2>2. \A b \in Bufs :
          /\ InKernel(b)' <=> InKernel(b)
          /\ InWindow(b)' <=> InWindow(b) \/ (enqueued /\ InRoutine(b))
    BY <1>5, <1>11 DEF InKernel, InWindow
  <2>3. Places'
    BY <1>1, <1>2, <1>6, <2>2 DEF Places, Apart
  <2>4. Found'
    BY <1>1, <1>2, <1>6, <1>7, <2>2 DEF Found, Somewhere
  <2>5. Sessions' /\ Shared'
    BY <1>1, <1>2, <1>4, <1>11 DEF Sessions, Shared
  <2>6. Share'
    BY <1>1, <1>2, <1>8, <1>9, <1>11 DEF Share, Gives
  <2> QED
    BY <1>1, <2>1, <2>3, <2>4, <2>5, <2>6
<1> QED
  BY <1>1, <1>10, <1>11

\* The application is told of a frame shown, whose buffer has moved on before.
LEMMA sendPreviewCallbackSound ==
  ASSUME FramesAssumption, Flags, Sound, sendPreviewCallback
  PROVE  Sound'
<1> USE DEF Sound
<1>1. /\ tell /\ ~tell' /\ frame' = None
      /\ notes' = IF msg /\ mActive THEN Append(notes, Note(frame)) ELSE notes
      /\ UNCHANGED <<session, on, ready, kernel, mDataQ, app, window, mLocalFlag, msg, mActive,
                     picture, kept, stale, dead>>
  BY Zenon DEF sendPreviewCallback
<1>2. /\ frame # None /\ Display /\ on /\ frame \in Bufs /\ Note(frame) \in Frames
  BY <1>1, FrameFacts, TypeParts DEF Sessions
<1>3. notes' \in Seq(Frames) /\ \A n \in Frames : In(notes', n) => In(notes, n) \/ n = Note(frame)
  BY <1>1, <1>2, AppendIn DEF Shapes
<1>4. Shapes'
  BY <1>1, <1>3 DEF Shapes
<1>5. \A b \in Bufs :
        /\ ~InRoutine(b)' /\ ~InRoutine(b) /\ ~InNotes(b)' /\ ~InNotes(b)
        /\ InKernel(b)' = InKernel(b) /\ InQueue(b)' = InQueue(b)
        /\ InApp(b)' = InApp(b) /\ InWindow(b)' = InWindow(b)
        /\ Once(mDataQ, b)' = Once(mDataQ, b)
  BY <1>1, <1>2, NoneFacts DEF InKernel, InQueue, InRoutine, InNotes, InApp, InWindow, Note, Display
<1>6. Places' /\ Found'
  BY <1>1, <1>2, <1>5 DEF Places, Found, Apart, Somewhere, Display
<1>7. Sessions'
  <2>1. Note(frame).ses <= session
    BY DEF Note, Shapes
  <2> QED
    BY <1>1, <1>2, <1>3, <2>1 DEF Sessions
<1>8. Shared' /\ Share'
  BY <1>1 DEF Shared, Share
<1> QED
  BY <1>1, <1>4, <1>6, <1>7, <1>8

\* A frame the application is told of waits among the notes; where = the buffers
\* that go back to the kernel.
LEMMA TellSound ==
  ASSUME FramesAssumption, Flags, Sound, ~Display, frame # None, frame' = None,
         NEW where,
         notes' = (IF msg /\ mActive THEN Append(notes, Note(frame)) ELSE notes),
         kernel' = kernel \cup where, where \subseteq {frame}, msg /\ mActive => where = {},
         Takes /\ mActive => (msg /\ mActive) \/ where = {frame},
         UNCHANGED <<session, on, ready, mDataQ, tell, app, window, mLocalFlag, msg, mActive,
                     picture, kept, stale, dead>>
  PROVE  Sound'
<1> USE DEF Sound
<1>1. /\ on /\ frame \in Bufs /\ Note(frame) \in Frames /\ ~tell
  BY FrameFacts, TypeParts DEF Sessions
<1>2. notes' \in Seq(Frames)
  BY <1>1, AppendIn DEF Shapes
<1>3. Shapes'
  BY <1>1, <1>2 DEF Shapes
<1>4. \A b \in Bufs :
        /\ InRoutine(b) <=> b = frame
        /\ ~InRoutine(b)'
        /\ InKernel(b)' <=> InKernel(b) \/ b \in where
        /\ InQueue(b)' = InQueue(b) /\ InApp(b)' = InApp(b) /\ InWindow(b)' = InWindow(b)
        /\ Once(mDataQ, b)' = Once(mDataQ, b)
  BY <1>1, NoneFacts DEF InKernel, InQueue, InRoutine, InApp, InWindow, Note
<1>5. \A b \in Bufs :
        /\ InNotes(b)' <=> InNotes(b) \/ (b = frame /\ msg /\ mActive)
        /\ Once(notes, Note(b)) /\ ~InNotes(frame) => Once(notes, Note(b))'
  <2> SUFFICES ASSUME NEW b \in Bufs
               PROVE  /\ InNotes(b)' <=> InNotes(b) \/ (b = frame /\ msg /\ mActive)
                      /\ Once(notes, Note(b)) /\ ~InNotes(frame) => Once(notes, Note(b))'
    OBVIOUS
  <2>1. Note(b)' = Note(b) /\ (Note(b) = Note(frame) <=> b = frame)
    BY DEF Note
  <2>2. PICK n : n = Note(b)
    OBVIOUS
  <2>3. CASE msg /\ mActive
    <3>1. /\ In(notes', n) <=> In(notes, n) \/ n = Note(frame)
          /\ Once(notes, n) /\ (n # Note(frame) \/ ~In(notes, n)) => Once(notes', n)
      BY <1>1, <2>3, AppendIn DEF Shapes
    <3> QED
      BY <2>1, <2>2, <2>3, <3>1 DEF InNotes
  <2>4. CASE ~(msg /\ mActive)
    BY <2>1, <2>4 DEF InNotes
  <2> QED
    BY <2>3, <2>4
<1>6. Places'
  BY <1>1, <1>4, <1>5 DEF Places, Apart
<1>7. Found'
  BY <1>1, <1>4, <1>5 DEF Found, Somewhere
<1>8. Sessions'
  <2>1. Note(frame).ses <= session
    BY DEF Note, Shapes
  <2>2. \A n \in Frames : In(notes', n) => In(notes, n) \/ n = Note(frame)
    BY <1>1, AppendIn DEF Shapes
  <2> QED
    BY <1>1, <2>1, <2>2 DEF Sessions
<1>9. Shared' /\ Share'
  BY DEF Shared, Share
<1> QED
  BY <1>3, <1>6, <1>7, <1>8, <1>9

\* Without a window a preview frame is told of, or goes back.
LEMMA PreviewFrameSound ==
  ASSUME FramesAssumption, Flags, Sound, PreviewFrame
  PROVE  Sound'
<1>1. PICK where : where = returnsAtOnce
  OBVIOUS
<1>2. where = IF ~msg \/ (~mActive /\ Kind = "nodisplay") THEN {frame} ELSE {}
  BY <1>1 DEF returnsAtOnce
<1>3. /\ Kind \in {"nodisplay", "rdi"} /\ frame # None /\ frame' = None
      /\ notes' = (IF msg /\ mActive THEN Append(notes, Note(frame)) ELSE notes)
      /\ kernel' = kernel \cup where
      /\ UNCHANGED <<session, on, ready, mDataQ, tell, app, window, mLocalFlag, msg, mActive,
                     picture, kept, stale, dead>>
  BY Zenon, <1>1 DEF PreviewFrame
<1>4. /\ ~Display /\ where \subseteq {frame}
  BY <1>2, <1>3 DEF Display
<1>5. /\ msg /\ mActive => where = {}
      /\ Takes /\ mActive => (msg /\ mActive) \/ where = {frame}
  BY <1>2
<1> QED
  BY <1>3, <1>4, <1>5, TellSound

\* A video frame is told of, or goes back when the notifier has ended.
LEMMA VideoFrameSound ==
  ASSUME FramesAssumption, Flags, Sound, VideoFrame
  PROVE  Sound'
<1>1. PICK where : where = IF msg /\ ~mActive THEN {frame} ELSE {}
  OBVIOUS
<1>2. /\ Kind = "video" /\ frame # None /\ frame' = None
      /\ notes' = (IF msg /\ mActive THEN Append(notes, Note(frame)) ELSE notes)
      /\ UNCHANGED <<session, on, ready, mDataQ, tell, app, window, mLocalFlag, msg, mActive,
                     picture, kept, stale, dead>>
  BY Zenon DEF VideoFrame
<1>3. kernel' = kernel \cup where
  BY <1>1 DEF VideoFrame
<1>4. /\ ~Display /\ where \subseteq {frame}
  BY <1>1, <1>2 DEF Display
<1>5. /\ msg /\ mActive => where = {}
      /\ Takes /\ mActive => (msg /\ mActive) \/ where = {frame}
  BY <1>1, <1>2 DEF Takes, Sound
<1> QED
  BY <1>2, <1>3, <1>4, <1>5, TellSound

\* A note goes on to the application, or its buffer back; one of an earlier session
\* is about no buffer of this one.
LEMMA cbNotifyRoutineSound ==
  ASSUME FramesAssumption, Flags, Sound, cbNotifyRoutine
  PROVE  Sound'
<1> USE DEF Sound
<1>1. PICK n : n = Head(notes)
  OBVIOUS
<1>2. /\ notes # <<>> /\ notes' = Tail(notes)
      /\ app' = (IF Kind = "video" /\ msg THEN app \cup {n} ELSE app)
      /\ kernel' = (IF Kind \in {"nodisplay", "rdi"} /\ Mine(n) THEN kernel \cup {n.buf} ELSE kernel)
      /\ UNCHANGED <<session, on, ready, mDataQ, frame, tell, window, mLocalFlag, msg,
                     mActive, picture, kept, dead>>
  BY <1>1 DEF cbNotifyRoutine, returnStreamBuffer
<1>3. /\ n \in Frames /\ notes' \in Seq(Frames)
      /\ \A x : In(notes, x) <=> In(notes', x) \/ x = n
      /\ \A x : Once(notes, x) => Once(notes', x)
      /\ \A x : Once(notes, x) /\ x = n => ~In(notes', x)
  BY <1>1, <1>2, TailIn DEF Shapes
<1>4. n.buf \in Bufs
  BY <1>3 DEF Frames
<1>5. Shapes'
  BY <1>2, <1>3, <1>4 DEF Shapes
<1>6. ~on => kernel' = kernel
  BY <1>2 DEF Mine
<1>7. \A b \in Bufs : on /\ ~Display =>
        /\ InNotes(b) <=> InNotes(b)' \/ n = Note(b)
        /\ Once(notes, Note(b)) => Once(notes, Note(b))'
        /\ Once(notes, Note(b)) /\ n = Note(b) => ~InNotes(b)'
        /\ InKernel(b)' <=> InKernel(b) \/ (Kind # "video" /\ n = Note(b))
        /\ InApp(b)' <=> InApp(b) \/ (Kind = "video" /\ msg /\ n = Note(b))
  <2> SUFFICES ASSUME NEW b \in Bufs, on, ~Display
               PROVE  /\ InNotes(b) <=> InNotes(b)' \/ n = Note(b)
                      /\ Once(notes, Note(b)) => Once(notes, Note(b))'
                      /\ Once(notes, Note(b)) /\ n = Note(b) => ~InNotes(b)'
                      /\ InKernel(b)' <=> InKernel(b) \/ (Kind # "video" /\ n = Note(b))
                      /\ InApp(b)' <=> InApp(b) \/ (Kind = "video" /\ msg /\ n = Note(b))
    OBVIOUS
  <2>1. Note(b)' = Note(b)
    BY <1>2 DEF Note
  <2>2. Kind # "video" => Kind \in {"nodisplay", "rdi"}
    BY DEF FramesAssumption, Display
  <2>3. n = Note(b) <=> n.buf = b /\ Mine(n)
    BY <1>3, NoteFacts DEF Mine
  <2>4. InKernel(b)' <=> InKernel(b) \/ (Kind # "video" /\ n = Note(b))
    BY <1>2, <2>2, <2>3 DEF InKernel
  <2>5. InApp(b)' <=> InApp(b) \/ (Kind = "video" /\ msg /\ n = Note(b))
    BY <1>2, <2>1 DEF InApp
  <2>6. PICK m : m = Note(b)
    OBVIOUS
  <2>7. /\ In(notes, m) <=> In(notes', m) \/ m = n
        /\ Once(notes, m) => Once(notes', m)
        /\ Once(notes, m) /\ m = n => ~In(notes', m)
    BY <1>3
  <2>8. Display' = Display
    BY DEF Display
  <2> QED
    BY <2>1, <2>4, <2>5, <2>6, <2>7, <2>8 DEF InNotes
<1>8. \A b \in Bufs :
        /\ InQueue(b)' = InQueue(b) /\ InRoutine(b)' = InRoutine(b) /\ InWindow(b)' = InWindow(b)
        /\ Once(mDataQ, b)' = Once(mDataQ, b)
        /\ Display => /\ ~InNotes(b) /\ ~InNotes(b)' /\ InKernel(b)' = InKernel(b)
                      /\ InApp(b)' = InApp(b)
  BY <1>2 DEF InQueue, InRoutine, InWindow, InNotes, InKernel, InApp, Display, Note
<1>9. Places'
  BY <1>2, <1>7, <1>8 DEF Places, Apart
<1>10. Found'
  <2>1. Takes /\ Kind = "video" => msg
    BY DEF Takes
  <2> QED
    BY <1>2, <1>7, <1>8, <2>1 DEF Found, Somewhere
<1>11. Sessions'
  <2>0. \A x : In(notes, x) <=> In(notes', x) \/ x = n
    <3> TAKE x
    <3> QED
      BY <1>3
  <2>4. In(notes, n) /\ n \in Frames
    BY <1>3, <2>0
  <2>1. n.ses <= session
    BY <2>4 DEF Sessions
  <2>2. \A x \in Frames : In(notes', x) => In(notes, x)
    BY <2>0
  <2>3. \A x \in app' : x \in app \/ x = n
    BY <1>2
  <2> QED
    BY <1>2, <1>6, <2>1, <2>2, <2>3 DEF Sessions
<1>12. Shared' /\ Share'
  BY <1>2 DEF Shared, Share
<1> QED
  BY <1>2, <1>5, <1>9, <1>10, <1>11, <1>12

\* The application gives a frame back, of this session or an earlier one.
LEMMA releaseRecordingFrameSound ==
  ASSUME FramesAssumption, Flags, Sound, NEW n \in Frames, releaseRecordingFrame(n)
  PROVE  Sound'
<1> USE DEF Sound
<1>1. /\ n \in app /\ app' = app \ {n}
      /\ kernel' = (IF Mine(n) THEN kernel \cup {n.buf} ELSE kernel)
      /\ UNCHANGED <<session, on, ready, mDataQ, frame, tell, notes, window, mLocalFlag, msg,
                     mActive, picture, kept, stale>>
  BY DEF releaseRecordingFrame, releaseFrame
<1>2. n.buf \in Bufs
  BY DEF Frames
<1>3. Shapes'
  BY <1>1, <1>2 DEF Shapes
<1>4. \A b \in Bufs : on =>
        /\ InKernel(b)' <=> InKernel(b) \/ n = Note(b)
        /\ InApp(b)' <=> InApp(b) /\ n # Note(b)
        /\ n = Note(b) => InApp(b)
        /\ InQueue(b)' = InQueue(b) /\ InRoutine(b)' = InRoutine(b) /\ InWindow(b)' = InWindow(b)
        /\ InNotes(b)' = InNotes(b)
        /\ Once(mDataQ, b)' = Once(mDataQ, b) /\ Once(notes, Note(b))' = Once(notes, Note(b))
  <2>1. \A b \in Bufs : on => (n = Note(b) <=> n.buf = b /\ Mine(n))
    BY NoteFacts DEF Mine
  <2> QED
    BY <1>1, <2>1 DEF InKernel, InApp, InQueue, InRoutine, InWindow, InNotes, Note
<1>5. Places' /\ Found'
  BY <1>1, <1>4 DEF Places, Found, Apart, Somewhere
<1>6. Sessions'
  BY <1>1 DEF Sessions, Mine
<1>7. Shared' /\ Share'
  BY <1>1 DEF Shared, Share
<1> QED
  BY <1>1, <1>3, <1>5, <1>6, <1>7

\* Steps that move no buffer.
LEMMA SettingSound ==
  ASSUME FramesAssumption, Flags, Sound, ~MsgChanges => msg',
         UNCHANGED <<session, on, kernel, mDataQ, frame, tell, notes, app, window, mLocalFlag,
                     mActive, kept>>
  PROVE  Sound'
<1>1. \A b \in Bufs :
        /\ InKernel(b)' = InKernel(b) /\ InApp(b)' = InApp(b) /\ InNotes(b)' = InNotes(b)
        /\ InQueue(b)' = InQueue(b) /\ InRoutine(b)' = InRoutine(b) /\ InWindow(b)' = InWindow(b)
        /\ Once(mDataQ, b)' = Once(mDataQ, b) /\ Once(notes, Note(b))' = Once(notes, Note(b))
  BY DEF InKernel, InApp, InQueue, InRoutine, InWindow, InNotes, Note
<1>2. Places' /\ Found'
  BY <1>1 DEF Sound, Places, Found, Apart, Somewhere
<1>3. Shapes' /\ Sessions' /\ Shared' /\ Share'
  BY DEF Sound, Shapes, Sessions, Shared, Share
<1> QED
  BY <1>2, <1>3 DEF Sound

\* A stream that was never started.
LEMMA InitFrames ==
  ASSUME FramesAssumption, Init
  PROVE  FramesInv
<1>1. Flags
  BY Zenon DEF Init, Flags
<1>2. Shapes
  BY EmptySeq DEF Init, Shapes, FramesAssumption
<1>3. ~on /\ ~tell /\ msg
  BY Zenon DEF Init
<1>4. Places /\ Share /\ Found
  BY <1>3 DEF Places, Share, Found
<1>5. Sessions
  BY <1>3, EmptyIn DEF Init, Sessions
<1>6. Shared
  BY <1>3 DEF Init, Shared
<1> QED
  BY <1>1, <1>2, <1>3, <1>4, <1>5, <1>6, TypeParts DEF FramesInv

\* Every step of a sound stream leaves it sound.
LEMMA NextSound ==
  ASSUME FramesAssumption, Flags, Sound, Next
  PROVE  Sound'
<1>1. CASE Start
  BY <1>1, StartSound
<1>2. CASE StartFails
  BY <1>2, StartFailsSound
<1>3. CASE Stop
  BY <1>3, StopSound
<1>4. CASE Close
  BY <1>4, CloseSound
<1>5. CASE dataNotifyCB
  BY <1>5, dataNotifyCBSound
<1>6. CASE dataProcRoutine
  BY <1>6, dataProcRoutineSound
<1>7. CASE SkipFrame
  BY <1>7, SkipFrameSound
<1>8. CASE displayBuffer
  BY <1>8, displayBufferSound
<1>9. CASE sendPreviewCallback
  BY <1>9, sendPreviewCallbackSound
<1>10. CASE PreviewFrame
  BY <1>10, PreviewFrameSound
<1>11. CASE VideoFrame
  BY <1>11, VideoFrameSound
<1>12. CASE cbNotifyRoutine
  BY <1>12, cbNotifyRoutineSound
<1>13. CASE \E n \in Frames : releaseRecordingFrame(n)
  <2>1. PICK n \in Frames : releaseRecordingFrame(n)
    BY <1>13
  <2> QED
    BY <2>1, releaseRecordingFrameSound
<1>14. CASE Previewing \/ ChangeMsg \/ TakePicture
  <2>1. ~MsgChanges => msg'
    BY <1>14 DEF Sound, Previewing, ChangeMsg, TakePicture
  <2>2. UNCHANGED <<session, on, kernel, mDataQ, frame, tell, notes, app, window, mLocalFlag,
                    mActive, kept>>
    BY <1>14 DEF Previewing, ChangeMsg, TakePicture
  <2> QED
    BY <2>1, <2>2, SettingSound
<1> QED
  BY <1>1, <1>2, <1>3, <1>4, <1>5, <1>6, <1>7, <1>8, <1>9, <1>10, <1>11, <1>12, <1>13, <1>14
  DEF Next, ThreadStep

\* Every step keeps the invariant.
LEMMA NextFrames ==
  ASSUME FramesAssumption, FramesInv, [Next]_vars
  PROVE  FramesInv'
<1>1. Flags /\ Sound
  BY TypeParts DEF FramesInv, Sound
<1>2. Flags' /\ Sound'
  <2>1. CASE Next
    BY ONLY <1>1, <2>1, FramesAssumption, FlagsKept, NextSound
  <2>2. CASE UNCHANGED vars
    <3>1. Flags'
      BY <1>1, <2>2 DEF vars, Flags
    <3>2. Sound'
      <4>1. UNCHANGED <<session, on, kernel, mDataQ, frame, tell, notes, app, window, mLocalFlag,
                        mActive, kept>>
        BY <2>2 DEF vars
      <4>2. ~MsgChanges => msg'
        BY <1>1, <2>2 DEF vars, Sound
      <4> QED
        BY <1>1, <4>1, <4>2, SettingSound
    <3> QED
      BY <3>1, <3>2
  <2> QED
    BY <2>1, <2>2
<1>3. TypeOK'
  BY <1>2 DEF TypeOK, Flags, Shapes, Sound
<1> QED
  BY <1>2, <1>3 DEF FramesInv, Sound

\* Always.
LEMMA FramesAlways ==
  ASSUME FramesAssumption
  PROVE  Spec => []FramesInv
<1>1. Init => FramesInv
  BY InitFrames
<1>2. FramesInv /\ [Next]_vars => FramesInv'
  BY NextFrames
<1> QED
  BY <1>1, <1>2, PTL DEF Spec

-----------------------------------------------------------------------------
(* What follows. *)

\* The places, as the properties name them.
LEMMA PlacesNamed ==
  ASSUME FramesAssumption, FramesInv, on, NEW b \in Bufs
  PROVE  /\ b \in Range(mDataQ) <=> InQueue(b)
         /\ b \in InCallback <=> InRoutine(b)
         /\ b \in Told <=> InNotes(b)
         /\ b \in WithApp <=> InApp(b)
<1>1. b \in Range(mDataQ) <=> InQueue(b)
  BY DEF Range, InQueue, In
<1>2. b \in InCallback <=> InRoutine(b)
  BY NoneFacts DEF InCallback, InRoutine
<1>3. \A i \in DOMAIN notes : notes[i] \in Frames
  BY ElementOfSeq, LenProperties DEF FramesInv, TypeOK
<1>4. b \in Told <=> InNotes(b)
  <2>1. CASE Display
    BY <2>1 DEF Told, InNotes
  <2>2. CASE ~Display
    <3>1. ASSUME b \in Told PROVE InNotes(b)
      <4>1. PICK i \in DOMAIN notes : notes[i].ses = session /\ notes[i].buf = b
        BY <2>2, <3>1 DEF Told, Waiting
      <4>2. notes[i] = Note(b)
        BY <1>3, <4>1, NoteFacts
      <4> QED
        BY <2>2, <4>2 DEF InNotes, In
    <3>2. ASSUME InNotes(b) PROVE b \in Told
      <4>1. PICK i \in DOMAIN notes : notes[i] = Note(b)
        BY <3>2 DEF InNotes, In
      <4>2. notes[i].ses = session /\ notes[i].buf = b
        BY <4>1 DEF Note
      <4> QED
        BY <2>2, <4>2 DEF Told, Waiting
    <3> QED
      BY <3>1, <3>2
  <2> QED
    BY <2>1, <2>2
<1>5. b \in WithApp <=> InApp(b)
  <2>1. \A n \in app : n \in Frames
    BY DEF FramesInv, TypeOK
  <2>2. ASSUME b \in WithApp PROVE InApp(b)
    <3>1. PICK n \in app : n.ses = session /\ n.buf = b
      BY <2>2 DEF WithApp
    <3> QED
      BY <2>1, <3>1, NoteFacts DEF InApp
  <2>3. ASSUME InApp(b) PROVE b \in WithApp
    <3>1. Note(b) \in app /\ Note(b).ses = session /\ Note(b).buf = b
      BY <2>3 DEF InApp, Note
    <3> QED
      BY <3>1 DEF WithApp
  <2> QED
    BY <2>2, <2>3
<1> QED
  BY <1>1, <1>2, <1>4, <1>5

\* The places of the invariant are those of the property.
LEMMA InvHasOneHolder ==
  ASSUME FramesAssumption, FramesInv
  PROVE  OneHolder
<1> SUFFICES ASSUME on
             PROVE  /\ kernel \cap Range(mDataQ) = {} /\ IsInjective(mDataQ)
                    /\ InCallback \cap (kernel \cup Range(mDataQ)) = {}
                    /\ Told \cap (kernel \cup Range(mDataQ) \cup InCallback \cup WithApp) = {}
                    /\ WithApp \cap (kernel \cup Range(mDataQ) \cup InCallback) = {}
                    /\ window \cap (kernel \cup Range(mDataQ) \cup InCallback) = {}
  BY DEF OneHolder
<1>1. /\ kernel \subseteq Bufs /\ window \subseteq Bufs /\ mDataQ \in Seq(Bufs)
      /\ frame \in Bufs \cup {None} /\ notes \in Seq(Frames) /\ app \subseteq Frames
  BY DEF FramesInv, TypeOK
<1>2. \A i \in DOMAIN mDataQ : mDataQ[i] \in Bufs
  BY <1>1, ElementOfSeq, LenProperties
<1>3. \A i \in DOMAIN notes : notes[i].buf \in Bufs
  <2>1. \A i \in DOMAIN notes : notes[i] \in Frames
    BY <1>1, ElementOfSeq, LenProperties
  <2> QED
    BY <2>1 DEF Frames
<1>4. Range(mDataQ) \subseteq Bufs /\ InCallback \subseteq Bufs
  BY <1>1, <1>2 DEF Range, InCallback
<1>5. Told \subseteq Bufs /\ WithApp \subseteq Bufs
  BY <1>1, <1>3 DEF Told, Waiting, WithApp, Frames
<1>6. \A b \in Bufs : Apart(b) /\ Once(mDataQ, b)
  BY DEF FramesInv, Places
<1>7. IsInjective(mDataQ)
  BY <1>2, <1>6 DEF IsInjective, Once
<1>8. \A b \in Bufs : /\ ~(b \in kernel /\ b \in Range(mDataQ))
                      /\ ~(b \in InCallback /\ (b \in kernel \/ b \in Range(mDataQ)))
                      /\ b \in Told => /\ b \notin kernel /\ b \notin Range(mDataQ)
                                       /\ b \notin InCallback /\ b \notin WithApp
                      /\ b \in WithApp => /\ b \notin kernel /\ b \notin Range(mDataQ)
                                          /\ b \notin InCallback
                      /\ b \in window => /\ b \notin kernel /\ b \notin Range(mDataQ)
                                         /\ b \notin InCallback
  BY <1>6, PlacesNamed DEF Apart, InKernel, InWindow
<1> QED
  BY <1>1, <1>4, <1>5, <1>7, <1>8

\* At any moment of any session a buffer of the stream is in one hand only: the
\* kernel's, the stream's queue, its callback routine, the callback thread, the
\* application or the window; and the HAL's mLocalFlag and the window agree, whatever
\* the window refuses and whenever messages are disabled or the camera closes.
THEOREM FramesHaveOneHolder ==
  ASSUME FramesAssumption
  PROVE  Spec => [](OneHolder /\ FlagAgrees /\ WindowWhole)
<1>1. FramesInv => OneHolder
  BY InvHasOneHolder
<1>2. FramesInv => FlagAgrees /\ WindowWhole
  BY DEF FramesInv, Shared, FlagAgrees, WindowWhole
<1> QED
  BY <1>1, <1>2, FramesAlways, PTL

LEMMA InvFramesSound ==
  ASSUME FramesAssumption, WindowFaults \subseteq {"import"}, Kind = "video" => ~MsgChanges,
         FramesInv
  PROVE  FramesSound
<1>1. Gives /\ Takes
  BY DEF Gives, Takes
<1>2. NothingStranded
  <2> SUFFICES ASSUME on, mActive
               PROVE  Bufs = kernel \cup Range(mDataQ) \cup InCallback \cup Told \cup WithApp \cup window
    BY DEF NothingStranded
  <2>1. \A b \in Bufs : \/ b \in kernel \/ b \in Range(mDataQ) \/ b \in InCallback
                        \/ b \in Told \/ b \in WithApp \/ b \in window
    BY <1>1, PlacesNamed DEF FramesInv, Found, Somewhere, InKernel, InWindow
  <2>2. /\ kernel \subseteq Bufs /\ window \subseteq Bufs /\ mDataQ \in Seq(Bufs)
        /\ frame \in Bufs \cup {None} /\ notes \in Seq(Frames) /\ app \subseteq Frames
    BY DEF FramesInv, TypeOK
  <2>3. \A i \in DOMAIN mDataQ : mDataQ[i] \in Bufs
    BY <2>2, ElementOfSeq, LenProperties
  <2>4. \A i \in DOMAIN notes : notes[i].buf \in Bufs
    <3>1. \A i \in DOMAIN notes : notes[i] \in Frames
      BY <2>2, ElementOfSeq, LenProperties
    <3> QED
      BY <3>1 DEF Frames
  <2>5. Range(mDataQ) \subseteq Bufs /\ InCallback \subseteq Bufs
    BY <2>2, <2>3 DEF Range, InCallback
  <2>6. Told \subseteq Bufs /\ WithApp \subseteq Bufs
    BY <2>2, <2>4 DEF Told, Waiting, WithApp, Frames
  <2> QED
    BY <2>1, <2>2, <2>5, <2>6
<1>3. OneHolder
  BY InvHasOneHolder
<1> QED
  BY <1>1, <1>2, <1>3
  DEF FramesInv, Shared, Share, FramesSound, FlagAgrees, WindowWhole, WindowShare

\* Where the window refuses no buffer that is queued or asked for, and the message of
\* a video stream stays enabled, also no buffer of a running stream is without
\* somebody who gives it back, and the window keeps its share, no more and no less.
THEOREM FramesAreSound ==
  ASSUME FramesAssumption,
         WindowFaults \subseteq {"import"}, Kind = "video" => ~MsgChanges
  PROVE  Spec => []FramesSound
<1>1. FramesInv => FramesSound
  BY InvFramesSound
<1> QED
  BY <1>1, FramesAlways, PTL

-----------------------------------------------------------------------------
(***************************************************************************)
(* The JPEG encoder's interface (MmJpeg), to which the frames of a picture *)
(* go, for any number of sessions, output buffers and jobs, and whatever   *)
(* fails: a session at work has its component, its buffer and its job for  *)
(* itself, and a job is answered once.                                     *)
(***************************************************************************)
CONSTANTS NumSessions, NumDstBufs, MaxOngoing, MaxJobs, Faults, Asks, OnlyWhenStopping
VARIABLES sess, comp, given, session_handle_q, out_buf_q, job_queue, ongoing_job_q,
          job_sem, job_lock, mgr, client, created, started, asked, told, quit, over

Encoder == INSTANCE MmJpeg

SessionKind ==
    [active : BOOLEAN, abort_state : {"NONE", "INIT", "DONE"}, encoding : BOOLEAN,
     job : 0..MaxJobs, dst : 0..NumDstBufs, error_flag : BOOLEAN, config : BOOLEAN]
ComponentStates ==
    {"none", "loaded", "to idle", "idle", "to executing", "executing", "working",
     "answering", "stopping", "unloading"}

\* Where the manager has a session and its job, where it has a job without one,
\* and where it may be besides.
AtWork == {"encode", "configure", "to idle", "await idle", "to executing",
           "await executing", "params", "begin"}
AtPut == {"put first", "put last"}
MgrPlaces == AtWork \cup AtPut \cup {"gone", "wait", "take", "release"}
\* Calls that give every job up, and all that hold job_lock.
AtEnd == {"destroy", "destroy waits", "close", "close waits"}
AtCall == AtEnd \cup {"abort", "abort waits"}
ClientPlaces == AtCall \cup {"closed", "idle", "stopping", "join"}

EncoderTypes ==
    /\ sess \in [Encoder!Sessions -> SessionKind]
    /\ comp \in [Encoder!Sessions -> ComponentStates]
    /\ given \in [Encoder!Sessions -> SUBSET Encoder!JobParams]
    /\ asked \in [Encoder!Jobs -> Asks \cup {Encoder!NoAsk}]
    /\ session_handle_q \in Seq(Encoder!Sessions) /\ out_buf_q \in Seq(1..NumDstBufs)
    /\ job_queue \in Seq(Encoder!Jobs \cup {Encoder!EXIT})
    /\ ongoing_job_q \in Seq(Encoder!Jobs)
    /\ job_sem \in Nat /\ job_lock \in {"free", "client", "mgr"}
    /\ mgr \in [at : MgrPlaces, s : Encoder!Sessions \cup {0}, job : 0..MaxJobs]
    /\ client \in [at : ClientPlaces, s : Nat, job : 0..MaxJobs]
    /\ created \in [sessions : 0..NumSessions, bufs : Nat, rc : Nat]
    /\ started \in 0..MaxJobs /\ quit \subseteq Encoder!Jobs /\ over \subseteq 1..started
    /\ told \in [Encoder!Jobs -> Seq({"done", "error"})]

Held(s) == mgr.at \in AtWork /\ mgr.s = s
Taken(s) == Encoder!Busy(s) \/ Held(s)

\* Who has job_lock; what is left where a client has closed, or waits for the
\* manager to end.
Locked ==
    /\ job_lock = "mgr" <=> mgr.at \in AtWork \cup AtPut \cup {"release"}
    /\ job_lock = "client" <=> client.at \in AtCall
    /\ client.at \in {"closed", "join"} => created.sessions = 0
    /\ client.at = "closed" => mgr.at = "gone" /\ job_queue = <<>> /\ session_handle_q = <<>>
    /\ client.at \in AtEnd => job_queue = <<>>
    /\ In(job_queue, Encoder!EXIT) => client.at = "join"
    /\ client.at = "join" => /\ mgr.at \in {"gone", "wait", "take"}
                             /\ \A j \in Encoder!Jobs : ~In(job_queue, j)

\* A session that is free is one of the chain, and free once.
Free ==
    \A s \in Encoder!Sessions :
        /\ In(session_handle_q, s) /\ client.at # "join" => s <= created.sessions
        /\ Once(session_handle_q, s)

\* A job is to be done once.
Queued ==
    \A j \in Encoder!Jobs : Once(job_queue, j) /\ (In(job_queue, j) => j <= started)
Buffers == \A b \in 1..NumDstBufs : Once(out_buf_q, b)

\* The job that the manager is about to put back.
Put ==
    mgr.at \in AtPut =>
        /\ mgr.job \in 1..started /\ ~In(job_queue, mgr.job)
        /\ \A s \in Encoder!Sessions : Taken(s) => sess[s].job # mgr.job

\* What a session at work has.
Has(s) ==
    /\ s <= created.sessions /\ ~In(session_handle_q, s)
    /\ sess[s].dst \in 1..NumDstBufs /\ ~In(out_buf_q, sess[s].dst)
    /\ sess[s].job \in 1..started /\ ~In(job_queue, sess[s].job)
Listed(s) == In(ongoing_job_q, sess[s].job) \/ Encoder!GivenUp(sess[s].job)
Owns == \A s \in Encoder!Sessions : Taken(s) => Has(s) /\ Listed(s)
Alone ==
    \A r, s \in Encoder!Sessions :
        Taken(r) /\ Taken(s) /\ r # s => sess[r].dst # sess[s].dst /\ sess[r].job # sess[s].job

\* How far the session is set up for the job, and the manager with it.
Prepared ==
    /\ \A s \in Encoder!Sessions :
          Encoder!Busy(s) => /\ sess[s].config /\ Encoder!OfTheJob \subseteq given[s]
                             /\ sess[s].encoding /\ sess[s].abort_state # "DONE"
    /\ mgr.at \in AtWork =>
          /\ mgr.s \in Encoder!Sessions /\ sess[mgr.s].job = mgr.job
          /\ ~Encoder!Busy(mgr.s)
    /\ mgr.at \in AtWork \ {"encode"} => sess[mgr.s].abort_state = "NONE"
    /\ mgr.at \in {"params", "begin"} => sess[mgr.s].config
    /\ mgr.at = "begin" => Encoder!OfTheJob \subseteq given[mgr.s]

\* A session is being aborted while the client waits for it; close has brought
\* the sessions before it to rest.
Stopping ==
    /\ \A s \in Encoder!Sessions :
          sess[s].abort_state = "INIT" => client.at \in Encoder!Waiting /\ client.s = s
    /\ client.at \in Encoder!Waiting => client.s \in Encoder!Sessions
    /\ client.at \in AtCall => client.s >= 1
    /\ client.at \in {"abort", "abort waits"} => client.job \in Encoder!Jobs
    /\ client.at \in {"close", "close waits"} =>
          \A s \in Encoder!Sessions : s < client.s => ~Encoder!Busy(s)

\* A job that can still be answered has not been, and its session is there.
Fresh(j) == told[j] = <<>> /\ j \notin over
Unanswered ==
    /\ \A j \in Encoder!Jobs : j > started \/ In(job_queue, j) => Fresh(j)
    /\ mgr.at \in AtPut \cup AtWork => Fresh(mgr.job)
    /\ \A s \in Encoder!Sessions : comp[s] = "working" => Fresh(sess[s].job)

Room ==
    /\ Len(ongoing_job_q) <= MaxOngoing
    /\ mgr.at = "take" => Len(ongoing_job_q) < MaxOngoing

EncoderInv ==
    /\ EncoderTypes /\ Locked /\ Free /\ Queued /\ Buffers /\ Put /\ Owns /\ Alone
    /\ Prepared /\ Stopping /\ Unanswered /\ Room

-----------------------------------------------------------------------------
(* Queues of jobs, sessions and buffers. *)

\* A nonempty set of indices has a first.
LEMMA FirstIndex ==
  ASSUME NEW T, T \subseteq Nat, T # {}
  PROVE  Encoder!Min(T) \in T
<1>1. PICK x \in T : \A y \in T : ~ (<<y, x>> \in OpToRel(<, Nat))
  BY WFMin, NatLessThanWellFounded
<1>2. \A y \in T : ~ (y < x)
  BY <1>1 DEF OpToRel
<1>3. \A y \in T : x =< y
  BY <1>2
<1> QED
  BY <1>3 DEF Encoder!Min

\* The first of those with a job's id is taken out of a queue.
LEMMA RemoveIn ==
  ASSUME NEW S, NEW q \in Seq(S), NEW x, NEW y
  PROVE  LET r == Encoder!mm_jpeg_queue_remove_job_by_job_id(q, x)
         IN  /\ r \in Seq(S) /\ Len(r) <= Len(q)
             /\ In(r, y) => In(q, y)
             /\ y # x /\ In(q, y) => In(r, y)
             /\ Once(q, y) => Once(r, y)
             /\ ~In(q, x) => r = q
<1> DEFINE I == {i \in 1..Len(q) : q[i] = x}
           r == Encoder!mm_jpeg_queue_remove_job_by_job_id(q, x)
<1>1. PICK n : n = Len(q) /\ n \in Nat
  BY LenProperties
<1>2. DOMAIN q = 1..n
  BY ONLY <1>1, q \in Seq(S), LenProperties
<1>3. CASE I = {}
  <2>1. r = q
    BY <1>3 DEF Encoder!mm_jpeg_queue_remove_job_by_job_id, Encoder!RemoveFirst
  <2> QED
    BY <2>1, <1>1
<1>4. CASE I # {}
  <2>0. I \subseteq Nat
    BY <1>1
  <2>1. PICK k : k \in I /\ k = Encoder!Min(I)
    BY <1>4, <2>0, FirstIndex
  <2>2. r = SubSeq(q, 1, k - 1) \o SubSeq(q, k + 1, Len(q))
    BY <2>1 DEF Encoder!mm_jpeg_queue_remove_job_by_job_id, Encoder!RemoveFirst,
                Encoder!RemoveAt, Encoder!SelectInSeq
  <2>3. k \in 1..n /\ q[k] = x
    BY <2>1, <1>1
  <2> HIDE DEF I, r
  <2>4. PICK front : front = SubSeq(q, 1, k - 1)
    OBVIOUS
  <2>5. PICK rear : rear = SubSeq(q, k + 1, n)
    OBVIOUS
  <2>6. /\ front \in Seq(S) /\ Len(front) = k - 1
        /\ \A j \in 1..(k - 1) : front[j] = q[j]
    <3>1. \A i \in 1..(k - 1) : q[i] \in S
      BY ONLY <1>1, <1>2, <2>3, q \in Seq(S), ElementOfSeq
    <3>2. 1 \in Int /\ k - 1 \in Int
      BY ONLY <1>1, <2>3
    <3> QED
      BY ONLY <1>1, <2>3, <2>4, <3>1, <3>2, q \in Seq(S), SubSeqProperties, Z3
  <2>7. /\ rear \in Seq(S) /\ Len(rear) = n - k
        /\ \A j \in 1..(n - k) : rear[j] = q[j + k]
    BY ONLY <1>1, <2>3, <2>5, q \in Seq(S), SubSeqProperties, Z3
  <2>8. /\ r \in Seq(S) /\ Len(r) = n - 1
        /\ \A j \in 1..(n - 1) : r[j] = IF j <= k - 1 THEN front[j] ELSE rear[j - (k - 1)]
    <3>1. r = front \o rear
      BY ONLY <1>1, <2>2, <2>4, <2>5
    <3>2. PICK z : z = front \o rear
      OBVIOUS
    <3>3. /\ z \in Seq(S) /\ Len(z) = Len(front) + Len(rear)
          /\ \A j \in 1..(Len(front) + Len(rear)) :
                z[j] = IF j <= Len(front) THEN front[j] ELSE rear[j - Len(front)]
      BY ONLY <2>6, <2>7, <3>2, ConcatProperties
    <3>4. Len(front) + Len(rear) = n - 1
      BY ONLY <1>1, <2>3, <2>6, <2>7
    <3>5. r = z
      BY <3>1, <3>2
    <3> QED
      BY ONLY <2>6, <3>3, <3>4, <3>5
  <2>9. /\ \A j \in 1..(n - 1) : j < k => r[j] = q[j]
        /\ \A j \in 1..(n - 1) : ~(j < k) => r[j] = q[j + 1]
    <3>1. ASSUME NEW j \in 1..(n - 1), j < k PROVE r[j] = q[j]
      <4>1. j <= k - 1 /\ j \in 1..(k - 1)
        BY ONLY <1>1, <2>3, <3>1
      <4> QED
        BY ONLY <2>6, <2>8, <4>1, j \in 1..(n - 1)
    <3>2. ASSUME NEW j \in 1..(n - 1), ~(j < k) PROVE r[j] = q[j + 1]
      <4>1. /\ ~(j <= k - 1) /\ j - (k - 1) \in 1..(n - k)
            /\ (j - (k - 1)) + k = j + 1
        BY ONLY <1>1, <2>3, <3>2
      <4>2. rear[j - (k - 1)] = q[j + 1]
        BY ONLY <2>7, <4>1
      <4> QED
        BY ONLY <2>8, <4>1, <4>2, j \in 1..(n - 1)
    <3> QED
      BY <3>1, <3>2
  <2>10. DOMAIN r = 1..(n - 1)
    BY ONLY <2>8, LenProperties
  <2>11. In(r, y) => In(q, y)
    BY ONLY <1>1, <1>2, <2>3, <2>9, <2>10 DEF In
  <2>12. ASSUME y # x, In(q, y) PROVE In(r, y)
    <3>1. PICK i \in 1..n : q[i] = y
      BY <2>12, <1>2 DEF In
    <3>2. i # k
      BY <3>1, <2>3, <2>12
    <3>3. CASE i < k
      <4>1. i \in 1..(n - 1) /\ r[i] = y
        BY ONLY <3>1, <3>3, <1>1, <2>3, <2>9
      <4> QED
        BY <4>1, <2>10 DEF In
    <3>4. CASE i > k
      <4>1. i - 1 \in 1..(n - 1) /\ r[i - 1] = y
        BY ONLY <3>1, <3>4, <1>1, <2>3, <2>9
      <4> QED
        BY <4>1, <2>10 DEF In
    <3> QED
      BY ONLY <3>1, <3>2, <3>3, <3>4, <1>1, <2>3
  <2>13. ASSUME Once(q, y), NEW i \in 1..(n - 1), NEW j \in 1..(n - 1), r[i] = y, r[j] = y
         PROVE  i = j
    <3>1. \A a, b \in 1..n : q[a] = y /\ q[b] = y => a = b
      BY ONLY <2>13, <1>2 DEF Once
    <3>2. PICK a \in 1..n : r[i] = q[a] /\ a = IF i < k THEN i ELSE i + 1
      BY ONLY <1>1, <2>3, <2>9, i \in 1..(n - 1)
    <3>3. PICK b \in 1..n : r[j] = q[b] /\ b = IF j < k THEN j ELSE j + 1
      BY ONLY <1>1, <2>3, <2>9, j \in 1..(n - 1)
    <3>4. a = b
      BY <3>1, <3>2, <3>3, <2>13
    <3> QED
      BY ONLY <3>2, <3>3, <3>4, <1>1, <2>3, i \in 1..(n - 1), j \in 1..(n - 1)
  <2>14. Once(q, y) => Once(r, y)
    BY <2>13, <2>10 DEF Once
  <2>15. In(q, x)
    BY <1>2, <2>3 DEF In
  <2>16. Len(r) <= Len(q)
    BY ONLY <1>1, <2>8
  <2>17. \A z : z = r => (/\ z \in Seq(S) /\ Len(z) <= Len(q) /\ (In(z, y) => In(q, y))
              /\ (y # x /\ In(q, y) => In(z, y)) /\ (Once(q, y) => Once(z, y))
              /\ (~In(q, x) => z = q))
    BY <2>8, <2>11, <2>12, <2>14, <2>15, <2>16
  <2> QED
    BY <2>17 DEF r
<1> QED
  BY <1>3, <1>4

\* What is put at the head of a queue is in it, once if it was not there.
LEMMA ConsIn ==
  ASSUME NEW S, NEW q \in Seq(S), NEW x \in S, NEW y
  PROVE  /\ <<x>> \o q \in Seq(S)
         /\ In(<<x>> \o q, y) <=> In(q, y) \/ y = x
         /\ Once(q, y) /\ (y # x \/ ~In(q, y)) => Once(<<x>> \o q, y)
<1>1. PICK n : n = Len(q) /\ n \in Nat
  BY LenProperties
<1>2. DOMAIN q = 1..n
  BY ONLY <1>1, q \in Seq(S), LenProperties
<1>3. PICK o : o = <<x>> /\ o \in Seq(S) /\ Len(o) = 1 /\ o[1] = x
  <2>1. <<x>> \in Seq(S) /\ Len(<<x>>) = 1 /\ <<x>>[1] = x
    OBVIOUS
  <2> QED
    BY <2>1
<1>4. PICK z : z = o \o q
  OBVIOUS
<1>5. /\ z \in Seq(S) /\ Len(z) = 1 + n
      /\ \A i \in 1..(1 + n) : z[i] = IF i <= 1 THEN o[i] ELSE q[i - 1]
  BY ONLY <1>1, <1>3, <1>4, q \in Seq(S), ConcatProperties
<1>6. /\ DOMAIN z = 1..(n + 1) /\ z[1] = x /\ \A i \in 2..(n + 1) : z[i] = q[i - 1]
  <2>1. DOMAIN z = 1..(1 + n)
    BY ONLY <1>5, LenProperties
  <2> QED
    BY ONLY <2>1, <1>1, <1>3, <1>5
<1>7. /\ \A i \in 1..(n + 1) : i = 1 \/ (i \in 2..(n + 1) /\ i - 1 \in 1..n)
      /\ \A i \in 1..n : i + 1 \in 2..(n + 1) /\ i + 1 \in 1..(n + 1) /\ (i + 1) - 1 = i
      /\ \A i, j \in 2..(n + 1) : i - 1 = j - 1 => i = j
      /\ 1 \in 1..(n + 1)
  BY ONLY <1>1
<1>8. In(z, y) <=> In(q, y) \/ y = x
  BY ONLY <1>2, <1>6, <1>7 DEF In
<1>9. Once(q, y) /\ (y # x \/ ~In(q, y)) => Once(z, y)
  BY ONLY <1>2, <1>6, <1>7 DEF Once, In
<1> QED
  BY <1>3, <1>4, <1>5, <1>8, <1>9

-----------------------------------------------------------------------------
(* The initial state, and steps that leave the queues alone. *)

LEMMA EncoderNumbers ==
  ASSUME Encoder!JpegAssumption
  PROVE  /\ NumSessions \in Nat /\ NumSessions >= 1 /\ Encoder!Sessions = 1..NumSessions
         /\ MaxJobs \in Nat /\ Encoder!Jobs = 1..MaxJobs /\ NumDstBufs \in Nat
         /\ MaxOngoing \in Nat /\ MaxOngoing >= 1 /\ Encoder!EXIT = 0
  BY DEF Encoder!JpegAssumption, Encoder!Sessions, Encoder!Jobs, Encoder!EXIT

LEMMA SessionNumbers ==
  ASSUME Encoder!JpegAssumption
  PROVE  /\ \A s \in Encoder!Sessions : s \in Nat /\ s >= 1 /\ s <= NumSessions
         /\ \A s \in Nat : s >= 1 /\ s <= NumSessions => s \in Encoder!Sessions
  BY DEF Encoder!JpegAssumption, Encoder!Sessions

LEMMA InitEncoder == ASSUME Encoder!JpegAssumption PROVE Encoder!Init => EncoderInv
<1> SUFFICES ASSUME Encoder!Init PROVE EncoderInv
  OBVIOUS
<1>1. /\ mgr = [at |-> "gone", s |-> 0, job |-> 0]
      /\ client = [at |-> "closed", s |-> 0, job |-> 0]
      /\ created = [sessions |-> 0, bufs |-> 0, rc |-> 0]
      /\ session_handle_q = <<>> /\ out_buf_q = <<>> /\ job_queue = <<>>
      /\ ongoing_job_q = <<>> /\ job_sem = 0 /\ job_lock = "free"
      /\ started = 0 /\ quit = {} /\ over = {}
  BY DEF Encoder!Init, Encoder!At, Encoder!Nothing
<1>2. /\ sess = [s \in Encoder!Sessions |-> Encoder!NoSession]
      /\ comp = [s \in Encoder!Sessions |-> "none"]
      /\ given = [s \in Encoder!Sessions |-> {}]
      /\ asked = [j \in Encoder!Jobs |-> Encoder!NoAsk]
      /\ told = [j \in Encoder!Jobs |-> <<>>]
  BY DEF Encoder!Init
<1>3. EncoderTypes
  <2>1. Encoder!NoSession \in SessionKind
    BY EncoderNumbers DEF Encoder!NoSession, Encoder!NoBuf, Encoder!EXIT, SessionKind
  <2>2. /\ mgr \in [at : MgrPlaces, s : Encoder!Sessions \cup {0}, job : 0..MaxJobs]
        /\ client \in [at : ClientPlaces, s : Nat, job : 0..MaxJobs]
        /\ created \in [sessions : 0..NumSessions, bufs : Nat, rc : Nat]
    BY <1>1, EncoderNumbers DEF MgrPlaces, AtWork, AtPut, ClientPlaces, AtCall, AtEnd
  <2>3. /\ sess \in [Encoder!Sessions -> SessionKind]
        /\ comp \in [Encoder!Sessions -> ComponentStates]
        /\ given \in [Encoder!Sessions -> SUBSET Encoder!JobParams]
        /\ asked \in [Encoder!Jobs -> Asks \cup {Encoder!NoAsk}]
        /\ told \in [Encoder!Jobs -> Seq({"done", "error"})]
    BY <1>2, <2>1 DEF ComponentStates
  <2>4. /\ session_handle_q \in Seq(Encoder!Sessions) /\ out_buf_q \in Seq(1..NumDstBufs)
        /\ job_queue \in Seq(Encoder!Jobs \cup {Encoder!EXIT})
        /\ ongoing_job_q \in Seq(Encoder!Jobs)
    BY <1>1, EmptySeq
  <2> QED
    BY <1>1, <2>2, <2>3, <2>4, EncoderNumbers DEF EncoderTypes
<1>4. \A s \in Encoder!Sessions : ~Taken(s) /\ comp[s] = "none" /\ sess[s].abort_state = "NONE"
  BY <1>1, <1>2 DEF Taken, Held, Encoder!Busy, AtWork, Encoder!NoSession
<1>5. Locked
  BY <1>1, EmptyIn DEF Locked, AtWork, AtPut, AtCall, AtEnd
<1>6. Free /\ Queued /\ Buffers /\ Put /\ Owns /\ Alone
  BY <1>1, <1>4, EmptyIn DEF Free, Queued, Buffers, Put, Owns, Alone, AtPut
<1>7. Prepared /\ Stopping
  BY <1>1, <1>4 DEF Prepared, Stopping, AtWork, AtCall, AtEnd, Encoder!Waiting, Encoder!Busy
<1>8. Unanswered
  BY <1>1, <1>2, <1>4, EmptyIn DEF Unanswered, Fresh, AtWork, AtPut
<1>9. Room
  BY <1>1, EncoderNumbers, EmptySeq DEF Room
<1> QED
  BY <1>3, <1>5, <1>6, <1>7, <1>8, <1>9 DEF EncoderInv

\* What the types say of a session, of the manager and of the client's call.
LEMMA EncoderFields ==
  ASSUME Encoder!JpegAssumption, EncoderTypes
  PROVE  /\ \A s \in Encoder!Sessions :
              /\ sess[s].active \in BOOLEAN /\ sess[s].abort_state \in {"NONE", "INIT", "DONE"}
              /\ sess[s].encoding \in BOOLEAN /\ sess[s].job \in 0..MaxJobs
              /\ sess[s].dst \in 0..NumDstBufs /\ sess[s].config \in BOOLEAN
              /\ comp[s] \in ComponentStates
         /\ mgr.at \in MgrPlaces /\ mgr.s \in Encoder!Sessions \cup {0} /\ mgr.job \in 0..MaxJobs
         /\ client.at \in ClientPlaces /\ client.s \in Nat /\ client.job \in 0..MaxJobs
         /\ created.sessions \in 0..NumSessions /\ started \in 0..MaxJobs
         /\ 1..started \subseteq Encoder!Jobs
<1>1. ASSUME NEW s \in Encoder!Sessions
      PROVE  /\ sess[s].active \in BOOLEAN /\ sess[s].abort_state \in {"NONE", "INIT", "DONE"}
             /\ sess[s].encoding \in BOOLEAN /\ sess[s].job \in 0..MaxJobs
             /\ sess[s].dst \in 0..NumDstBufs /\ sess[s].config \in BOOLEAN
             /\ comp[s] \in ComponentStates
  <2>1. sess[s] \in SessionKind /\ comp[s] \in ComponentStates
    BY DEF EncoderTypes
  <2> QED
    BY ONLY <2>1 DEF SessionKind
<1>2. mgr.at \in MgrPlaces /\ mgr.s \in Encoder!Sessions \cup {0} /\ mgr.job \in 0..MaxJobs
  <2>1. mgr \in [at : MgrPlaces, s : Encoder!Sessions \cup {0}, job : 0..MaxJobs]
    BY DEF EncoderTypes
  <2> QED
    BY ONLY <2>1
<1>3. client.at \in ClientPlaces /\ client.s \in Nat /\ client.job \in 0..MaxJobs
  <2>1. client \in [at : ClientPlaces, s : Nat, job : 0..MaxJobs]
    BY DEF EncoderTypes
  <2> QED
    BY ONLY <2>1
<1>4. created.sessions \in 0..NumSessions
  <2>1. created \in [sessions : 0..NumSessions, bufs : Nat, rc : Nat]
    BY DEF EncoderTypes
  <2> QED
    BY ONLY <2>1
<1>5. started \in 0..MaxJobs /\ 1..started \subseteq Encoder!Jobs
  <2>1. started \in 0..MaxJobs
    BY DEF EncoderTypes
  <2> QED
    BY <2>1, EncoderNumbers
<1> QED
  BY <1>1, <1>2, <1>3, <1>4, <1>5

\* Sessions with one of the two flags that the manager sets.
LEMMA SetFlag ==
  ASSUME NEW f \in [Encoder!Sessions -> SessionKind], NEW s \in Encoder!Sessions, NEW b \in BOOLEAN
  PROVE  /\ [f EXCEPT ![s].config = b] \in [Encoder!Sessions -> SessionKind]
         /\ [f EXCEPT ![s].encoding = b] \in [Encoder!Sessions -> SessionKind]
<1>1. f[s] \in SessionKind
  OBVIOUS
<1>2. [f[s] EXCEPT !.config = b] \in SessionKind
  BY ONLY <1>1, b \in BOOLEAN DEF SessionKind
<1>3. [f[s] EXCEPT !.encoding = b] \in SessionKind
  BY ONLY <1>1, b \in BOOLEAN DEF SessionKind
<1> QED
  BY <1>2, <1>3

\* Sessions at work keep what they have while the queues stay.
LEMMA QueuesStay ==
  ASSUME Encoder!JpegAssumption, EncoderInv, UNCHANGED Encoder!queues, started' = started, created' = created,
         client'.at = "join" <=> client.at = "join",
         \A s \in Encoder!Sessions :
            Taken(s)' => Taken(s) /\ sess'[s].dst = sess[s].dst /\ sess'[s].job = sess[s].job,
         \A j \in Encoder!Jobs : Encoder!GivenUp(j) => Encoder!GivenUp(j)'
  PROVE  Free' /\ Queued' /\ Buffers' /\ Owns' /\ Alone'
<1> USE DEF EncoderInv, Encoder!queues
<1>1. Free' /\ Queued' /\ Buffers'
  BY DEF Free, Queued, Buffers
<1>2. ASSUME NEW s \in Encoder!Sessions, Taken(s)' PROVE Has(s)' /\ Listed(s)'
  <2>1. Taken(s) /\ sess'[s].dst = sess[s].dst /\ sess'[s].job = sess[s].job
    BY <1>2
  <2>2. Has(s) /\ Listed(s)
    BY <2>1 DEF Owns
  <2>3. sess[s].job \in Encoder!Jobs
    BY <2>2, EncoderFields DEF Has
  <2> QED
    BY <2>1, <2>2, <2>3 DEF Has, Listed
<1>3. Owns'
  BY <1>2 DEF Owns
<1>4. Alone'
  BY DEF Alone
<1> QED
  BY <1>1, <1>3, <1>4

-----------------------------------------------------------------------------
(* The client's calls. *)

LEMMA OpenEncoder ==
  ASSUME Encoder!JpegAssumption, EncoderInv, Encoder!jpeg_open
  PROVE  EncoderInv'
<1>1. /\ client.at = "closed" /\ client' = [at |-> "idle", s |-> 0, job |-> 0]
      /\ mgr' = [at |-> "wait", s |-> 0, job |-> 0] /\ job_sem' = 0
      /\ UNCHANGED <<given, asked, sess, comp, session_handle_q, out_buf_q, job_queue,
                     ongoing_job_q, job_lock, created, started, told, quit, over>>
  BY DEF Encoder!jpeg_open, Encoder!Idle, Encoder!At, Encoder!setup, Encoder!queues
<1>2. /\ mgr'.at = "wait" /\ client'.at = "idle"
      /\ mgr' \in [at : MgrPlaces, s : Encoder!Sessions \cup {0}, job : 0..MaxJobs]
      /\ client' \in [at : ClientPlaces, s : Nat, job : 0..MaxJobs]
  BY <1>1, EncoderNumbers DEF MgrPlaces, AtWork, AtPut, ClientPlaces, AtCall, AtEnd
<1>3. EncoderTypes'
  BY <1>1, <1>2 DEF EncoderInv, EncoderTypes
<1>4. Locked'
  BY <1>1, <1>2, EmptyIn DEF EncoderInv, Locked, AtCall, AtEnd, AtWork, AtPut
<1>5. Free' /\ Queued' /\ Buffers' /\ Owns' /\ Alone'
  <2>1. \A s \in Encoder!Sessions : Taken(s)' => Taken(s)
    BY <1>1, <1>2 DEF Taken, Held, Encoder!Busy, AtWork
  <2>2. \A j \in Encoder!Jobs : Encoder!GivenUp(j) => Encoder!GivenUp(j)'
    BY <1>1 DEF Encoder!GivenUp
  <2> QED
    BY <1>1, <1>2, <2>1, <2>2, QueuesStay DEF Encoder!queues
<1>6. Put' /\ Room'
  BY <1>1, <1>2 DEF EncoderInv, Put, Room, AtPut
<1>7. Prepared'
  BY <1>1, <1>2 DEF EncoderInv, Prepared, AtWork, Encoder!Busy
<1>8. Stopping'
  BY <1>1, <1>2 DEF EncoderInv, Stopping, AtCall, AtEnd, Encoder!Waiting
<1>9. Unanswered'
  BY <1>1, <1>2 DEF EncoderInv, Unanswered, Fresh, AtWork, AtPut
<1> QED
  BY <1>3, <1>4, <1>5, <1>6, <1>7, <1>8, <1>9 DEF EncoderInv

\* Without sessions none is at work: those that are made are free.
LEMMA CreateSessions ==
  ASSUME Encoder!JpegAssumption, EncoderInv, Encoder!mm_jpeg_create_session
  PROVE  EncoderInv'
<1>1. PICK n \in 0..NumSessions :
        /\ sess' = [s \in Encoder!Sessions |-> [Encoder!NoSession EXCEPT !.active = s <= n]]
        /\ comp' = [s \in Encoder!Sessions |-> IF s <= n THEN "loaded" ELSE "none"]
        /\ given' = [s \in Encoder!Sessions |-> {}]
        /\ session_handle_q' = [s \in 1..n |-> s]
        /\ out_buf_q' = [b \in 1..IF n = NumSessions THEN NumDstBufs ELSE 0 |-> b]
        /\ created' = [sessions |-> n, bufs |-> Len(out_buf_q'), rc |-> 0]
  BY EncoderNumbers DEF Encoder!mm_jpeg_create_session
<1>2. /\ client = [at |-> "idle", s |-> 0, job |-> 0] /\ created.sessions = 0
      /\ UNCHANGED <<job_queue, ongoing_job_q, job_sem, job_lock, mgr, client, started, asked,
                     told, quit, over>>
  BY DEF Encoder!mm_jpeg_create_session, Encoder!Idle, Encoder!At
<1>3. PICK m \in Nat : m <= NumDstBufs /\ out_buf_q' = [b \in 1..m |-> b]
  BY <1>1, EncoderNumbers
<1>4. /\ n \in Nat /\ 1..n \subseteq Encoder!Sessions
      /\ session_handle_q' \in Seq(Encoder!Sessions) /\ DOMAIN session_handle_q' = 1..n
      /\ \A s \in 1..n : session_handle_q'[s] = s
  <2>1. n \in Nat /\ 1..n \subseteq Encoder!Sessions
    BY EncoderNumbers
  <2>2. session_handle_q' \in [1..n -> Encoder!Sessions]
    BY <1>1, <2>1
  <2> QED
    <3>1. session_handle_q' \in Seq(Encoder!Sessions)
      BY <2>1, <2>2, IsASeq
    <3>2. DOMAIN session_handle_q' = 1..n /\ \A s \in 1..n : session_handle_q'[s] = s
      BY <1>1
    <3> QED
      BY <2>1, <3>1, <3>2
<1>5. /\ out_buf_q' \in Seq(1..NumDstBufs) /\ Len(out_buf_q') \in Nat
      /\ DOMAIN out_buf_q' = 1..m /\ \A b \in 1..m : out_buf_q'[b] = b
  <2>1. 1..m \subseteq 1..NumDstBufs
    BY <1>3, EncoderNumbers
  <2>2. out_buf_q' \in [1..m -> 1..NumDstBufs]
    BY <1>3, <2>1
  <2>3. out_buf_q' \in Seq(1..NumDstBufs)
    BY <1>3, <2>2, IsASeq
  <2> QED
    BY <1>3, <2>3, LenProperties
<1>6. \A s \in Encoder!Sessions : ~Taken(s)
  <2>1. \A s \in Encoder!Sessions : Taken(s) => s <= 0
    BY <1>2 DEF EncoderInv, Owns, Has
  <2> QED
    BY <2>1, EncoderNumbers
<1>7. mgr.at \notin AtWork
  BY <1>6 DEF Taken, Held, EncoderInv, Prepared
<1>8. \A s \in Encoder!Sessions : ~Taken(s)' /\ ~Encoder!Busy(s)' /\ comp'[s] \in {"loaded", "none"}
                                  /\ sess'[s].abort_state = "NONE"
  BY <1>1, <1>2, <1>7 DEF Taken, Held, Encoder!Busy, Encoder!NoSession
<1>9. EncoderTypes'
  <2>1. sess' \in [Encoder!Sessions -> SessionKind]
    <3>1. \A b \in BOOLEAN : [Encoder!NoSession EXCEPT !.active = b] \in SessionKind
      <4>1. Encoder!NoSession \in SessionKind
        BY EncoderNumbers DEF Encoder!NoSession, Encoder!NoBuf, Encoder!EXIT, SessionKind
      <4>2. \A b \in BOOLEAN, r \in SessionKind : [r EXCEPT !.active = b] \in SessionKind
        BY DEF SessionKind
      <4> QED
        BY <4>1, <4>2
    <3>2. \A s \in Encoder!Sessions : (s <= n) \in BOOLEAN
      OBVIOUS
    <3> QED
      BY <1>1, <3>1, <3>2
  <2>2. comp' \in [Encoder!Sessions -> ComponentStates]
    BY <1>1 DEF ComponentStates
  <2>3. given' \in [Encoder!Sessions -> SUBSET Encoder!JobParams]
    BY <1>1
  <2>4. created' \in [sessions : 0..NumSessions, bufs : Nat, rc : Nat]
    BY <1>1, <1>5
  <2> QED
    BY <1>2, <1>4, <1>5, <2>1, <2>2, <2>3, <2>4 DEF EncoderInv, EncoderTypes
<1>10. Locked'
  BY <1>2 DEF EncoderInv, Locked
<1>11. Free' /\ Queued' /\ Buffers'
  <2>1. Free'
    BY <1>1, <1>4 DEF Free, In, Once
  <2>2. Queued'
    BY <1>2 DEF EncoderInv, Queued
  <2>3. Buffers'
    BY <1>5 DEF Buffers, Once
  <2> QED
    BY <2>1, <2>2, <2>3
<1>12. Put' /\ Owns' /\ Alone'
  BY <1>2, <1>8 DEF EncoderInv, Put, Owns, Alone
<1>13. Prepared' /\ Stopping' /\ Unanswered' /\ Room'
  <2>1. Prepared'
    BY <1>2, <1>7, <1>8, EncoderFields DEF EncoderInv, Prepared, AtWork
  <2>2. Stopping'
    BY <1>2, <1>8 DEF EncoderInv, Stopping, AtCall, AtEnd, Encoder!Waiting
  <2>3. Unanswered'
    BY <1>2, <1>8 DEF EncoderInv, Unanswered, Fresh
  <2>4. Room'
    BY <1>2 DEF EncoderInv, Room
  <2> QED
    BY <2>1, <2>2, <2>3, <2>4
<1> QED
  BY <1>9, <1>10, <1>11, <1>12, <1>13 DEF EncoderInv

\* A job that is started is a new one.
LEMMA StartJob ==
  ASSUME Encoder!JpegAssumption, EncoderInv, Encoder!mm_jpeg_start_job
  PROVE  EncoderInv'
<1>1. PICK a \in Asks : asked' = [asked EXCEPT ![started'] = a]
  BY DEF Encoder!mm_jpeg_start_job
<1>2. /\ client = [at |-> "idle", s |-> 0, job |-> 0] /\ started < MaxJobs
      /\ started' = started + 1 /\ job_queue' = Append(job_queue, started')
      /\ job_sem' = job_sem + 1
      /\ UNCHANGED <<given, sess, comp, session_handle_q, out_buf_q, ongoing_job_q, job_lock,
                     mgr, client, created, told, quit, over>>
  BY DEF Encoder!mm_jpeg_start_job, Encoder!Idle, Encoder!At
<1>3. /\ started \in Nat /\ started' \in Encoder!Jobs /\ started' > started
      /\ started' \in 0..MaxJobs /\ 1..started \subseteq 1..started'
      /\ started' # Encoder!EXIT
  BY <1>2, EncoderNumbers, EncoderFields DEF EncoderInv
<1>4. ~In(job_queue, started')
  BY <1>3 DEF EncoderInv, Queued
<1>5. job_queue \in Seq(Encoder!Jobs \cup {Encoder!EXIT})
  BY DEF EncoderInv, EncoderTypes
<1>6. /\ job_queue' \in Seq(Encoder!Jobs \cup {Encoder!EXIT})
      /\ \A j : In(job_queue', j) <=> In(job_queue, j) \/ j = started'
      /\ \A j : Once(job_queue, j) => Once(job_queue', j)
  BY <1>2, <1>3, <1>4, <1>5, AppendIn
<1>7. EncoderTypes'
  BY <1>1, <1>2, <1>3, <1>6 DEF EncoderInv, EncoderTypes
<1>8. Locked'
  BY <1>2, <1>3, <1>6 DEF EncoderInv, Locked, AtEnd
<1>9. Free' /\ Queued' /\ Buffers'
  BY <1>2, <1>3, <1>6, EncoderNumbers DEF EncoderInv, Free, Queued, Buffers
<1>10. \A s : Taken(s)' <=> Taken(s)
  BY <1>2 DEF Taken, Held, Encoder!Busy
<1>11. Put'
  BY <1>2, <1>3, <1>6, <1>10 DEF EncoderInv, Put
<1>12. Owns' /\ Alone'
  BY <1>2, <1>3, <1>6, <1>10 DEF EncoderInv, Owns, Has, Listed, Encoder!GivenUp, Alone
<1>13. Prepared' /\ Stopping' /\ Room'
  BY <1>2 DEF EncoderInv, Prepared, Stopping, Room, Encoder!Busy
<1>14. Unanswered'
  BY <1>2, <1>3, <1>6, EncoderNumbers DEF EncoderInv, Unanswered, Fresh
<1> QED
  BY <1>7, <1>8, <1>9, <1>11, <1>12, <1>13, <1>14 DEF EncoderInv

\* Sessions at work keep what they have while the queues only lose jobs.
LEMMA QueuesShrink ==
  ASSUME Encoder!JpegAssumption, EncoderInv, started' = started, created' = created,
         client'.at = "join" <=> client.at = "join",
         \A s \in Encoder!Sessions :
            /\ In(session_handle_q', s) => In(session_handle_q, s)
            /\ Once(session_handle_q, s) => Once(session_handle_q', s),
         \A b \in 1..NumDstBufs : /\ In(out_buf_q', b) => In(out_buf_q, b)
                                  /\ Once(out_buf_q, b) => Once(out_buf_q', b),
         \A j \in Encoder!Jobs :
            /\ In(job_queue', j) => In(job_queue, j)
            /\ Once(job_queue, j) => Once(job_queue', j)
            /\ In(ongoing_job_q, j) => In(ongoing_job_q', j) \/ Encoder!GivenUp(j)'
            /\ Encoder!GivenUp(j) => Encoder!GivenUp(j)',
         \A s \in Encoder!Sessions :
            Taken(s)' => Taken(s) /\ sess'[s].dst = sess[s].dst /\ sess'[s].job = sess[s].job
  PROVE  Free' /\ Queued' /\ Buffers' /\ Owns' /\ Alone'
<1>1. Free' /\ Queued' /\ Buffers'
  BY DEF EncoderInv, Free, Queued, Buffers
<1>2. ASSUME NEW s \in Encoder!Sessions, Taken(s)' PROVE Has(s)' /\ Listed(s)'
  <2>1. Taken(s) /\ sess'[s].dst = sess[s].dst /\ sess'[s].job = sess[s].job
    BY <1>2
  <2>2. Has(s) /\ Listed(s)
    BY <2>1 DEF EncoderInv, Owns
  <2>3. sess[s].job \in Encoder!Jobs
    BY <2>2, EncoderFields DEF Has, EncoderInv
  <2> QED
    BY <2>1, <2>2, <2>3 DEF Has, Listed
<1>3. Owns'
  BY <1>2 DEF Owns
<1>4. Alone'
  BY DEF EncoderInv, Alone
<1> QED
  BY <1>1, <1>3, <1>4

\* What the removal of a job does to the queues of jobs.
LEMMA JobRemoved ==
  ASSUME EncoderInv, NEW j
  PROVE  LET left == Encoder!mm_jpeg_queue_remove_job_by_job_id(job_queue, j)
             done == Encoder!mm_jpeg_queue_remove_job_by_job_id(ongoing_job_q, j)
         IN  /\ left \in Seq(Encoder!Jobs \cup {Encoder!EXIT})
             /\ \A y : (In(left, y) => In(job_queue, y)) /\ (Once(job_queue, y) => Once(left, y))
             /\ done \in Seq(Encoder!Jobs) /\ Len(done) <= Len(ongoing_job_q)
             /\ \A y : y # j /\ In(ongoing_job_q, y) => In(done, y)
  BY RemoveIn DEF EncoderInv, EncoderTypes

\* A job that is given up is not to be done any more, or its session is aborted.
LEMMA AbortJob ==
  ASSUME Encoder!JpegAssumption, EncoderInv, NEW j \in Encoder!Jobs, Encoder!mm_jpeg_abort_job(j)
  PROVE  EncoderInv'
<1> DEFINE left == Encoder!mm_jpeg_queue_remove_job_by_job_id(job_queue, j)
           rest == Encoder!mm_jpeg_queue_remove_job_by_job_id(ongoing_job_q, j)
<1>1. /\ client.at \in {"idle", "stopping"} /\ job_lock = "free"
      /\ job_queue' = left /\ ongoing_job_q' \in {ongoing_job_q, rest}
      /\ UNCHANGED <<given, asked, sess, comp, session_handle_q, out_buf_q, job_sem, mgr, created,
                     started, told, over>>
  BY DEF Encoder!mm_jpeg_abort_job, Encoder!Mine, Encoder!setup
<1>2. \/ job_lock' = "client" /\ client' = [at |-> "abort", s |-> 1, job |-> j] /\ quit' = quit
      \/ /\ ongoing_job_q' = ongoing_job_q /\ job_lock' = job_lock /\ quit' = quit \cup {j}
         /\ \/ client' = [at |-> "stopping", s |-> 0, job |-> 0]
            \/ client' = [at |-> "idle", s |-> 0, job |-> 0]
  BY Zenon DEF Encoder!mm_jpeg_abort_job, Encoder!AfterAbort, Encoder!Idle, Encoder!At
<1>3. /\ job_queue' \in Seq(Encoder!Jobs \cup {Encoder!EXIT})
      /\ \A y : /\ In(job_queue', y) => In(job_queue, y)
                /\ Once(job_queue, y) => Once(job_queue', y)
      /\ ongoing_job_q' \in Seq(Encoder!Jobs) /\ Len(ongoing_job_q') <= Len(ongoing_job_q)
      /\ \A y : y # j /\ In(ongoing_job_q, y) => In(ongoing_job_q', y)
  <2>1. /\ left \in Seq(Encoder!Jobs \cup {Encoder!EXIT})
        /\ \A y : (In(left, y) => In(job_queue, y)) /\ (Once(job_queue, y) => Once(left, y))
        /\ rest \in Seq(Encoder!Jobs) /\ Len(rest) <= Len(ongoing_job_q)
        /\ \A y : y # j /\ In(ongoing_job_q, y) => In(rest, y)
    BY JobRemoved
  <2>2. ongoing_job_q \in Seq(Encoder!Jobs) /\ Len(ongoing_job_q) \in Nat
    BY LenProperties DEF EncoderInv, EncoderTypes
  <2> HIDE DEF left, rest
  <2> QED
    BY <1>1, <2>1, <2>2
<1> HIDE DEF left, rest
<1>4. /\ client'.at \in {"abort", "stopping", "idle"}
      /\ client'.at = "abort" => client'.s = 1 /\ client'.job = j
      /\ job_lock' = "client" <=> client'.at = "abort"
      /\ client' \in [at : ClientPlaces, s : Nat, job : 0..MaxJobs] /\ quit' \subseteq Encoder!Jobs
      /\ job_lock' \in {"free", "client"}
  <2>1. j \in 0..MaxJobs
    BY EncoderNumbers
  <2>2. /\ client'.at \in {"abort", "stopping", "idle"}
        /\ client'.at = "abort" => client'.s = 1 /\ client'.job = j
        /\ job_lock' = "client" <=> client'.at = "abort"
        /\ job_lock' \in {"free", "client"}
    BY <1>1, <1>2
  <2>3. client' \in [at : ClientPlaces, s : Nat, job : 0..MaxJobs]
    <3>1. /\ [at |-> "abort", s |-> 1, job |-> j] \in [at : ClientPlaces, s : Nat, job : 0..MaxJobs]
          /\ [at |-> "stopping", s |-> 0, job |-> 0] \in [at : ClientPlaces, s : Nat, job : 0..MaxJobs]
          /\ [at |-> "idle", s |-> 0, job |-> 0] \in [at : ClientPlaces, s : Nat, job : 0..MaxJobs]
      BY <2>1, EncoderNumbers DEF ClientPlaces, AtCall, AtEnd
    <3> QED
      BY ONLY <1>2, <3>1
  <2>4. quit' \subseteq Encoder!Jobs
    BY <1>2 DEF EncoderInv, EncoderTypes
  <2> QED
    BY <2>2, <2>3, <2>4
<1>5. EncoderTypes'
  BY <1>1, <1>3, <1>4 DEF EncoderInv, EncoderTypes
<1>6. Locked'
  BY <1>1, <1>3, <1>4 DEF EncoderInv, Locked, AtCall, AtEnd
<1>7. \A s : Taken(s)' <=> Taken(s)
  BY <1>1 DEF Taken, Held, Encoder!Busy
<1>8. Free' /\ Queued' /\ Buffers' /\ Owns' /\ Alone'
  <2>1. Encoder!GivenUp(j)'
    <3>1. (client'.at = "abort" /\ client'.job = j) \/ j \in quit'
      BY <1>2
    <3> QED
      BY <3>1 DEF Encoder!GivenUp
  <2>2. \A y : Encoder!GivenUp(y) => Encoder!GivenUp(y)'
    BY <1>1, <1>2 DEF Encoder!GivenUp
  <2> QED
    BY <1>1, <1>3, <1>4, <1>7, <2>1, <2>2, QueuesShrink
<1>9. Put' /\ Prepared' /\ Stopping' /\ Unanswered'
  <2>1. Put'
    BY <1>1, <1>3, <1>7 DEF EncoderInv, Put
  <2>2. Prepared'
    BY <1>1 DEF EncoderInv, Prepared, Encoder!Busy
  <2>3. Stopping'
    <3>1. \A s \in Encoder!Sessions : sess'[s].abort_state # "INIT"
      BY <1>1 DEF EncoderInv, Stopping, Encoder!Waiting
    <3>2. client'.at \notin Encoder!Waiting /\ client'.at \notin AtEnd
      BY <1>4 DEF AtEnd, Encoder!Waiting
    <3>3. client'.at \in AtCall => client'.s >= 1
      <4>1. client'.at \in AtCall => client'.s = 1
        BY <1>4 DEF AtCall, AtEnd
      <4>2. client'.s = 1 => client'.s >= 1
        OBVIOUS
      <4> QED
        BY <4>1, <4>2
    <3>4. client'.at \in {"abort", "abort waits"} => client'.job \in Encoder!Jobs
      BY <1>4
    <3> QED
      BY <3>1, <3>2, <3>3, <3>4 DEF Stopping, AtEnd
  <2>4. Unanswered'
    BY <1>1, <1>3 DEF EncoderInv, Unanswered, Fresh
  <2> QED
    BY <2>1, <2>2, <2>3, <2>4
<1>10. Room'
  <2>1. Len(ongoing_job_q) \in Nat /\ Len(ongoing_job_q') \in Nat
    BY <1>3, LenProperties DEF EncoderInv, EncoderTypes
  <2> QED
    BY <1>1, <1>3, <2>1, EncoderNumbers DEF EncoderInv, Room
<1> QED
  BY <1>5, <1>6, <1>8, <1>9, <1>10 DEF EncoderInv

\* A session that is destroyed, and a client that closes, drop every job.
LEMMA DropAllJobs ==
  ASSUME Encoder!JpegAssumption, EncoderInv,
         Encoder!mm_jpeg_destroy_session \/ Encoder!mm_jpeg_close
  PROVE  EncoderInv'
<1>1. /\ client.at \in {"idle", "stopping"} /\ job_lock = "free"
      /\ job_queue' = <<>> /\ ongoing_job_q' = <<>> /\ job_lock' = "client"
      /\ \/ client' = [at |-> "destroy", s |-> 1, job |-> 0]
         \/ client' = [at |-> "close", s |-> 1, job |-> 0]
      /\ UNCHANGED <<given, asked, sess, comp, session_handle_q, out_buf_q, job_sem, mgr, created,
                     started, told, quit, over>>
  BY DEF Encoder!mm_jpeg_destroy_session, Encoder!mm_jpeg_close, Encoder!DropJobs, Encoder!Mine,
         Encoder!At, Encoder!setup
<1>2. /\ client'.at \in {"destroy", "close"} /\ client'.s = 1
      /\ client' \in [at : ClientPlaces, s : Nat, job : 0..MaxJobs]
  <2>1. /\ [at |-> "destroy", s |-> 1, job |-> 0] \in [at : ClientPlaces, s : Nat, job : 0..MaxJobs]
        /\ [at |-> "close", s |-> 1, job |-> 0] \in [at : ClientPlaces, s : Nat, job : 0..MaxJobs]
    BY EncoderNumbers DEF ClientPlaces, AtCall, AtEnd
  <2> QED
    BY <1>1, <2>1
<1>3. EncoderTypes'
  BY <1>1, <1>2, EmptySeq DEF EncoderInv, EncoderTypes
<1>4. Locked'
  BY <1>1, <1>2, EmptyIn DEF EncoderInv, Locked, AtCall, AtEnd
<1>5. \A s : Taken(s)' <=> Taken(s)
  BY <1>1 DEF Taken, Held, Encoder!Busy
<1>6. Free' /\ Queued' /\ Buffers' /\ Owns' /\ Alone'
  <2>1. \A y : Encoder!GivenUp(y)'
    BY <1>2 DEF Encoder!GivenUp
  <2> QED
    BY <1>1, <1>2, <1>5, <2>1, EmptyIn, QueuesShrink
<1>7. Put' /\ Prepared' /\ Stopping' /\ Unanswered'
  <2>1. Put'
    BY <1>1, <1>5, EmptyIn DEF EncoderInv, Put
  <2>2. Prepared'
    BY <1>1 DEF EncoderInv, Prepared, Encoder!Busy
  <2>3. Stopping'
    <3>1. \A s \in Encoder!Sessions : ~(s < 1)
      BY EncoderNumbers
    <3>2. /\ client'.s >= 1
          /\ client'.at \notin Encoder!Waiting /\ client'.at \notin {"abort", "abort waits"}
      <4>1. client'.at \in {"destroy", "close"}
        BY <1>2
      <4>2. client'.s = 1
        BY <1>2
      <4>3. client'.s >= 1
        BY ONLY <4>2
      <4> QED
        BY ONLY <4>1, <4>3 DEF Encoder!Waiting
    <3>3. \A s \in Encoder!Sessions : sess'[s].abort_state # "INIT"
      BY <1>1 DEF EncoderInv, Stopping, Encoder!Waiting
    <3> QED
      BY <1>2, <3>1, <3>2, <3>3 DEF Stopping
  <2>4. Unanswered'
    BY <1>1, EmptyIn DEF EncoderInv, Unanswered, Fresh
  <2> QED
    BY <2>1, <2>2, <2>3, <2>4
<1>8. Room'
  BY <1>1, EmptySeq, EncoderNumbers DEF EncoderInv, Room
<1> QED
  BY <1>3, <1>4, <1>6, <1>7, <1>8 DEF EncoderInv

-----------------------------------------------------------------------------
(* A call that goes on. *)

\* The chain of sessions is aborted one by one, up to one that was before.
LEMMA SessionAbort ==
  ASSUME Encoder!JpegAssumption, EncoderInv, Encoder!mm_jpeg_session_abort
  PROVE  EncoderInv'
<1>1. /\ client.at \in {"abort", "destroy", "close"} /\ client.s <= created.sessions
      /\ UNCHANGED <<given, asked, comp, session_handle_q, out_buf_q, job_queue, ongoing_job_q,
                     job_sem, job_lock, mgr, created, started, told, quit, over>>
  BY DEF Encoder!mm_jpeg_session_abort, Encoder!Aborting, Encoder!Chained, Encoder!setup,
         Encoder!queues
<1>2. PICK s \in Encoder!Sessions : s = client.s
  <2>1. client.s \in Nat /\ created.sessions \in 0..NumSessions
    BY EncoderFields DEF EncoderInv
  <2>2. client.s >= 1
    BY <1>1 DEF EncoderInv, Stopping, AtCall, AtEnd
  <2>3. client.s <= NumSessions
    BY <1>1, <2>1, EncoderNumbers
  <2> QED
    BY <2>1, <2>2, <2>3, SessionNumbers
<1>3. PICK state \in {"NONE", "INIT", "DONE"}, n \in Nat, place \in ClientPlaces :
        /\ sess' = [sess EXCEPT ![s].abort_state = state]
        /\ client' = [at |-> place, s |-> n, job |-> client.job]
        /\ \/ /\ sess[s].abort_state # "NONE" /\ state = sess[s].abort_state
              /\ place = client.at /\ n >= 1 /\ (place = "close" => n = s + 1)
           \/ /\ sess[s].abort_state = "NONE" /\ sess[s].encoding /\ state = "INIT"
              /\ place = Encoder!Waits(client.at) /\ n = s
           \/ /\ sess[s].abort_state = "NONE" /\ ~sess[s].encoding /\ state = "DONE"
              /\ place = client.at /\ n = s + 1
  <2>0. /\ client = [at |-> client.at, s |-> s, job |-> client.job] /\ s \in Nat
        /\ created.sessions \in Nat /\ sess[s].abort_state \in {"NONE", "INIT", "DONE"}
    BY <1>2, EncoderFields, SessionNumbers DEF EncoderInv, EncoderTypes
  <2>p. client.at \in ClientPlaces /\ Encoder!Waits(client.at) \in ClientPlaces
    BY <1>1 DEF Encoder!Waits, ClientPlaces, AtCall, AtEnd
  <2>1. CASE sess[s].abort_state # "NONE"
    <3>1. PICK n : /\ n = IF client.at = "close" THEN s + 1 ELSE created.sessions + 1
                   /\ client' = [client EXCEPT !.s = n] /\ sess' = sess
      BY <1>2, <2>1 DEF Encoder!mm_jpeg_session_abort
    <3>2. sess' = [sess EXCEPT ![s].abort_state = sess[s].abort_state]
      BY <3>1 DEF EncoderInv, EncoderTypes, SessionKind
    <3>3. client' = [at |-> client.at, s |-> n, job |-> client.job]
      BY <3>1, <2>0
    <3>4. n \in Nat /\ n >= 1 /\ (client.at = "close" => n = s + 1)
      BY <3>1, <2>0
    <3> QED
      BY <2>0, <2>p, <2>1, <3>2, <3>3, <3>4
  <2>2. CASE sess[s].abort_state = "NONE" /\ sess[s].encoding
    <3>1. /\ sess' = [sess EXCEPT ![s].abort_state = "INIT"]
          /\ client' = [client EXCEPT !.at = Encoder!Waits(@)]
      BY <1>2, <2>2 DEF Encoder!mm_jpeg_session_abort
    <3>2. client' = [at |-> Encoder!Waits(client.at), s |-> s, job |-> client.job]
      BY <2>0, <3>1
    <3> QED
      BY <2>0, <2>p, <2>2, <3>1, <3>2
  <2>3. CASE sess[s].abort_state = "NONE" /\ ~sess[s].encoding
    <3>1. /\ sess' = [sess EXCEPT ![s].abort_state = "DONE"]
          /\ client' = [client EXCEPT !.s = s + 1]
      BY <1>2, <2>3 DEF Encoder!mm_jpeg_session_abort
    <3>2. client' = [at |-> client.at, s |-> s + 1, job |-> client.job]
      BY <2>0, <3>1
    <3> QED
      BY <2>0, <2>p, <2>3, <3>1, <3>2
  <2> QED
    BY <2>1, <2>2, <2>3
<1>4. /\ client'.at = place /\ client'.s = n /\ client'.job = client.job
      /\ place = client.at \/ (place = Encoder!Waits(client.at) /\ n = s)
      /\ n >= 1
  BY <1>3, SessionNumbers
<1>5. /\ place \in AtCall /\ (place = client.at \/ place \in Encoder!Waiting)
      /\ place \in AtEnd <=> client.at \in AtEnd
      /\ place \in {"close", "close waits"} <=> client.at = "close"
      /\ place \in {"abort", "abort waits"} <=> client.at = "abort"
      /\ place \in ClientPlaces /\ place # "join" /\ place # "closed"
  BY <1>1, <1>4 DEF AtCall, AtEnd, Encoder!Waits, Encoder!Waiting, ClientPlaces
<1>6. /\ \A r \in Encoder!Sessions :
           /\ sess'[r].job = sess[r].job /\ sess'[r].dst = sess[r].dst
           /\ sess'[r].config = sess[r].config /\ sess'[r].encoding = sess[r].encoding
           /\ r # s => sess'[r].abort_state = sess[r].abort_state
      /\ sess'[s].abort_state = state
      /\ sess' \in [Encoder!Sessions -> SessionKind]
  <2>1. sess \in [Encoder!Sessions -> SessionKind]
    BY DEF EncoderInv, EncoderTypes
  <2>2. sess' = [sess EXCEPT ![s].abort_state = state]
    BY <1>3
  <2> QED
    BY <2>1, <2>2, state \in {"NONE", "INIT", "DONE"} DEF SessionKind
<1>7. mgr.at \notin AtWork /\ mgr.at \notin AtPut
  BY <1>1 DEF EncoderInv, Locked, AtCall, AtEnd
<1>8. EncoderTypes'
  <2>1. client' \in [at : ClientPlaces, s : Nat, job : 0..MaxJobs]
    BY <1>3, <1>5, EncoderFields DEF EncoderInv
  <2> QED
    BY <1>1, <1>6, <2>1 DEF EncoderInv, EncoderTypes
<1>9. Locked'
  BY <1>1, <1>4, <1>5 DEF EncoderInv, Locked, AtCall, AtEnd
<1>10. \A r : Taken(r)' <=> Taken(r)
  BY <1>1 DEF Taken, Held, Encoder!Busy
<1>11. Free' /\ Queued' /\ Buffers' /\ Owns' /\ Alone'
  <2>1. \A j : Encoder!GivenUp(j) => Encoder!GivenUp(j)'
    BY <1>1, <1>4, <1>5 DEF Encoder!GivenUp, AtEnd
  <2> QED
    BY <1>1, <1>4, <1>5, <1>6, <1>10, <2>1, QueuesStay DEF Encoder!queues
<1>12. Put' /\ Room'
  BY <1>1, <1>7 DEF EncoderInv, Put, Room
<1>13. \A r \in Encoder!Sessions :
         Encoder!Busy(r) => state # "DONE" \/ r # s \/ sess[s].abort_state = "DONE"
  BY <1>3 DEF EncoderInv, Prepared
<1>14. Prepared'
  <2>1. \A r \in Encoder!Sessions : Encoder!Busy(r) => sess'[r].abort_state # "DONE"
    BY <1>6, <1>13 DEF EncoderInv, Prepared
  <2> QED
    BY <1>1, <1>6, <1>7, <2>1 DEF EncoderInv, Prepared, Encoder!Busy, AtWork
<1>15. Stopping'
  <2>1. \A r \in Encoder!Sessions : sess[r].abort_state # "INIT"
    BY <1>1 DEF EncoderInv, Stopping, Encoder!Waiting
  <2>2. \A r \in Encoder!Sessions :
           sess'[r].abort_state = "INIT" => client'.at \in Encoder!Waiting /\ client'.s = r
    <3>1. ASSUME NEW r \in Encoder!Sessions, sess'[r].abort_state = "INIT"
          PROVE  r = s /\ place = Encoder!Waits(client.at) /\ n = s
      BY <1>3, <1>6, <2>1, <3>1
    <3>2. place = Encoder!Waits(client.at) => place \in Encoder!Waiting
      BY <1>1 DEF Encoder!Waits, Encoder!Waiting
    <3> QED
      BY <3>1, <3>2, <1>4
  <2>3. client'.at \in Encoder!Waiting => client'.s \in Encoder!Sessions
    BY <1>1, <1>4, <1>5 DEF Encoder!Waiting
  <2>4. ASSUME client'.at \in {"close", "close waits"}, NEW r \in Encoder!Sessions, r < client'.s
        PROVE  ~Encoder!Busy(r)'
    <3>1. client.at = "close" /\ (n = s \/ n = s + 1)
      BY <1>3, <1>4, <1>5, <2>4
    <3>2. r < s \/ (r = s /\ n = s + 1)
      <4>1. r \in Nat /\ s \in Nat /\ r < n
        BY <1>4, <2>4, SessionNumbers
      <4> QED
        BY ONLY <3>1, <4>1
    <3>3. r < s => ~Encoder!Busy(r)
      BY <3>1, <1>2 DEF EncoderInv, Stopping
    <3>4. n = s + 1 => ~Encoder!Busy(s)
      <4>1. n # s \/ n # s + 1
        BY SessionNumbers
      <4> QED
        BY <1>3, <2>1, <4>1 DEF EncoderInv, Prepared
    <3> QED
      BY <1>1, <3>2, <3>3, <3>4 DEF Encoder!Busy
  <2> QED
    <3>1. client'.s >= 1 /\ (client'.at \in {"abort", "abort waits"} => client'.job \in Encoder!Jobs)
      BY <1>4, <1>5 DEF EncoderInv, Stopping
    <3> QED
      BY <2>2, <2>3, <2>4, <3>1 DEF Stopping
<1>16. Unanswered'
  BY <1>1, <1>6, <1>7 DEF EncoderInv, Unanswered, Fresh
<1> QED
  BY <1>8, <1>9, <1>11, <1>12, <1>14, <1>15, <1>16 DEF EncoderInv

\* The session that was waited for is at rest.
LEMMA WaitEnds ==
  ASSUME Encoder!JpegAssumption, EncoderInv, Encoder!SessionAborted
  PROVE  EncoderInv'
<1>1. /\ client.at \in Encoder!Waiting /\ sess[client.s].abort_state = "DONE"
      /\ client' = [at |-> Encoder!Resumed(client.at), s |-> client.s + 1, job |-> client.job]
      /\ UNCHANGED <<given, asked, sess, comp, session_handle_q, out_buf_q, job_queue,
                     ongoing_job_q, job_sem, job_lock, mgr, created, started, told, quit, over>>
  BY DEF Encoder!SessionAborted, Encoder!At, Encoder!setup, Encoder!queues
<1>2. /\ client.s \in Encoder!Sessions /\ client.s \in Nat /\ client.s + 1 >= 1
      /\ client'.s = client.s + 1 /\ client'.job = client.job
  <2>1. client.s \in Encoder!Sessions
    BY <1>1 DEF EncoderInv, Stopping
  <2>2. client.s \in Nat
    BY <2>1, SessionNumbers
  <2> QED
    BY <1>1, <2>1, <2>2
<1>3. /\ client'.at \in AtCall /\ client'.at \notin Encoder!Waiting
      /\ client'.at \in AtEnd <=> client.at \in AtEnd
      /\ client'.at \in {"close", "close waits"} <=> client.at = "close waits"
      /\ client'.at \in {"abort", "abort waits"} <=> client.at = "abort waits"
      /\ client'.at \in ClientPlaces /\ client'.at # "join" /\ client'.at # "closed"
      /\ client.at \in AtCall /\ client.at # "join"
  BY <1>1 DEF AtCall, AtEnd, Encoder!Resumed, Encoder!Waiting, ClientPlaces
<1>4. EncoderTypes'
  <2>1. client' \in [at : ClientPlaces, s : Nat, job : 0..MaxJobs]
    <3>1. client'.at \in ClientPlaces /\ client.s + 1 \in Nat /\ client.job \in 0..MaxJobs
      <4>1. client.job \in 0..MaxJobs
        BY EncoderFields DEF EncoderInv
      <4>2. client.s \in Nat
        BY <1>2
      <4>3. client.s + 1 \in Nat
        BY ONLY <4>2
      <4> QED
        BY <1>3, <4>1, <4>3
    <3>2. client'.at = Encoder!Resumed(client.at)
      BY <1>1
    <3> QED
      BY ONLY <1>1, <3>1, <3>2
  <2> QED
    BY <1>1, <2>1 DEF EncoderInv, EncoderTypes
<1>5. Locked'
  BY <1>1, <1>3 DEF EncoderInv, Locked
<1>6. \A r : Taken(r)' <=> Taken(r)
  BY <1>1 DEF Taken, Held, Encoder!Busy
<1>7. Free' /\ Queued' /\ Buffers' /\ Owns' /\ Alone'
  <2>1. \A j : Encoder!GivenUp(j) => Encoder!GivenUp(j)'
    BY <1>1, <1>2, <1>3 DEF Encoder!GivenUp, AtEnd, Encoder!Waiting
  <2> QED
    BY <1>1, <1>3, <1>6, <2>1, QueuesStay DEF Encoder!queues
<1>8. Put' /\ Room' /\ Prepared' /\ Unanswered'
  BY <1>1, <1>6 DEF EncoderInv, Put, Room, Prepared, Unanswered, Fresh, Encoder!Busy
<1>9. Stopping'
  <2>1. \A r \in Encoder!Sessions : sess[r].abort_state # "INIT"
    BY <1>1 DEF EncoderInv, Stopping
  <2>2. ASSUME client'.at \in {"close", "close waits"}, NEW r \in Encoder!Sessions, r < client'.s
        PROVE  ~Encoder!Busy(r)'
    <3>1. client.at = "close waits"
      BY <1>3, <2>2
    <3>2. r < client.s \/ r = client.s
      <4>1. r \in Nat /\ client.s \in Nat /\ r < client.s + 1
        BY <1>2, <2>2, SessionNumbers
      <4> QED
        BY ONLY <4>1
    <3>3. ~Encoder!Busy(client.s)
      BY <1>1, <1>2 DEF EncoderInv, Prepared
    <3>4. r < client.s => ~Encoder!Busy(r)
      BY <3>1 DEF EncoderInv, Stopping
    <3> QED
      BY <1>1, <3>2, <3>3, <3>4 DEF Encoder!Busy
  <2> QED
    <3>1. client'.at \in {"abort", "abort waits"} => client'.job \in Encoder!Jobs
      BY <1>2, <1>3 DEF EncoderInv, Stopping
    <3>2. \A r \in Encoder!Sessions : sess'[r].abort_state # "INIT" \/ client.s = r
      BY <1>1 DEF EncoderInv, Stopping
    <3> QED
      BY <1>1, <1>2, <1>3, <2>1, <2>2, <3>1 DEF Stopping
<1> QED
  BY <1>4, <1>5, <1>7, <1>8, <1>9 DEF EncoderInv

\* The abort of a job returns.
LEMMA AbortReturns ==
  ASSUME Encoder!JpegAssumption, EncoderInv, Encoder!AbortDone
  PROVE  EncoderInv'
<1>1. /\ client.at = "abort" /\ job_lock' = "free" /\ quit' = quit \cup {client.job}
      /\ UNCHANGED <<given, asked, sess, comp, session_handle_q, out_buf_q, job_queue,
                     ongoing_job_q, job_sem, mgr, created, started, told, over>>
  BY DEF Encoder!AbortDone, Encoder!setup, Encoder!queues
<1>2. \/ client' = [at |-> "stopping", s |-> 0, job |-> 0]
      \/ client' = [at |-> "idle", s |-> 0, job |-> 0]
  BY DEF Encoder!AbortDone, Encoder!AfterAbort, Encoder!Idle, Encoder!At
<1>3. /\ client'.at \in {"stopping", "idle"}
      /\ client' \in [at : ClientPlaces, s : Nat, job : 0..MaxJobs]
  <2>1. /\ [at |-> "stopping", s |-> 0, job |-> 0] \in [at : ClientPlaces, s : Nat, job : 0..MaxJobs]
        /\ [at |-> "idle", s |-> 0, job |-> 0] \in [at : ClientPlaces, s : Nat, job : 0..MaxJobs]
    BY EncoderNumbers DEF ClientPlaces
  <2> QED
    BY <1>2, <2>1
<1>4. client.job \in Encoder!Jobs
  BY <1>1 DEF EncoderInv, Stopping
<1>5. EncoderTypes'
  BY <1>1, <1>3, <1>4 DEF EncoderInv, EncoderTypes
<1>6. Locked'
  BY <1>1, <1>3 DEF EncoderInv, Locked, AtCall, AtEnd
<1>7. \A r : Taken(r)' <=> Taken(r)
  BY <1>1 DEF Taken, Held, Encoder!Busy
<1>8. Free' /\ Queued' /\ Buffers' /\ Owns' /\ Alone'
  <2>1. \A j : Encoder!GivenUp(j) => Encoder!GivenUp(j)'
    BY <1>1 DEF Encoder!GivenUp
  <2> QED
    BY <1>1, <1>3, <1>7, <2>1, QueuesStay DEF Encoder!queues
<1>9. Put' /\ Room' /\ Prepared' /\ Unanswered'
  BY <1>1, <1>7 DEF EncoderInv, Put, Room, Prepared, Unanswered, Fresh, Encoder!Busy
<1>10. Stopping'
  BY <1>1, <1>3 DEF EncoderInv, Stopping, AtCall, AtEnd, Encoder!Waiting
<1> QED
  BY <1>5, <1>6, <1>8, <1>9, <1>10 DEF EncoderInv

\* Components are stopped one by one.
LEMMA StopOne ==
  ASSUME Encoder!JpegAssumption, EncoderInv, Encoder!StopComponent
  PROVE  EncoderInv'
<1>1. PICK s \in 1..created.sessions, state \in {"none", "stopping", "unloading"} :
         comp' = [comp EXCEPT ![s] = state]
  <2>1. PICK one \in 1..created.sessions :
           \/ comp' = [comp EXCEPT ![one] = "none"]
           \/ comp' = [comp EXCEPT ![one] = "stopping"]
           \/ \E next \in Encoder!FreeBuffers : comp' = [comp EXCEPT ![one] = next]
    BY Zenon DEF Encoder!StopComponent
  <2>2. \A next \in Encoder!FreeBuffers : next \in {"none", "stopping", "unloading"}
    BY DEF Encoder!FreeBuffers
  <2>3. PICK z \in {"none", "stopping", "unloading"} : comp' = [comp EXCEPT ![one] = z]
    BY <2>1, <2>2
  <2> QED
    BY <2>3
<1>2. UNCHANGED <<given, asked, sess, session_handle_q, out_buf_q, job_queue, ongoing_job_q,
                  job_sem, job_lock, mgr, client, created, started, told, quit, over>>
  BY DEF Encoder!StopComponent, Encoder!setup, Encoder!queues
<1>3. /\ comp' \in [Encoder!Sessions -> ComponentStates]
      /\ \A r \in Encoder!Sessions : comp'[r] = comp[r] \/ comp'[r] \notin {"working", "answering"}
  <2>1. comp \in [Encoder!Sessions -> ComponentStates]
    BY DEF EncoderInv, EncoderTypes
  <2> QED
    BY <1>1, <2>1 DEF ComponentStates
<1>4. /\ \A r \in Encoder!Sessions : Encoder!Busy(r)' => Encoder!Busy(r)
      /\ \A r \in Encoder!Sessions : Taken(r)' => Taken(r)
      /\ \A r \in Encoder!Sessions : comp'[r] = "working" => comp[r] = "working"
  BY <1>2, <1>3 DEF Taken, Held, Encoder!Busy
<1>5. EncoderTypes'
  BY <1>2, <1>3 DEF EncoderInv, EncoderTypes
<1>6. Free' /\ Queued' /\ Buffers' /\ Owns' /\ Alone'
  <2>1. \A j : Encoder!GivenUp(j) => Encoder!GivenUp(j)'
    BY <1>2 DEF Encoder!GivenUp
  <2> QED
    BY <1>2, <1>4, <2>1, QueuesStay DEF Encoder!queues
<1>7. Locked' /\ Put' /\ Room' /\ Stopping'
  BY <1>2, <1>4 DEF EncoderInv, Locked, Put, Room, Stopping
<1>8. Prepared' /\ Unanswered'
  BY <1>2, <1>4 DEF EncoderInv, Prepared, Unanswered, Fresh
<1> QED
  BY <1>5, <1>6, <1>7, <1>8 DEF EncoderInv

\* While the client holds job_lock the manager has no job.
LEMMA ManagerIdle ==
  ASSUME EncoderInv, client.at \in AtCall
  PROVE  mgr.at \notin AtWork /\ mgr.at \notin AtPut /\ mgr.at # "release"
  BY DEF EncoderInv, Locked

LEMMA NoSessionKind == ASSUME Encoder!JpegAssumption PROVE Encoder!NoSession \in SessionKind
  BY EncoderNumbers DEF Encoder!NoSession, Encoder!NoBuf, Encoder!EXIT, SessionKind

\* With every component gone nothing is left of the sessions.
LEMMA DestroyReturns ==
  ASSUME Encoder!JpegAssumption, EncoderInv, Encoder!Destroyed
  PROVE  EncoderInv'
<1>1. /\ client.at = "destroy" /\ \A s \in Encoder!Sessions : comp[s] = "none"
      /\ sess' = [s \in Encoder!Sessions |-> Encoder!NoSession]
      /\ created' = [sessions |-> 0, bufs |-> 0, rc |-> 0]
      /\ given' = [s \in Encoder!Sessions |-> {}]
      /\ session_handle_q' = <<>> /\ out_buf_q' = <<>>
      /\ job_lock' = "free" /\ job_sem' = job_sem + 1
      /\ quit' = 1..started /\ over' = 1..started
      /\ client' = [at |-> "idle", s |-> 0, job |-> 0]
      /\ UNCHANGED <<asked, comp, job_queue, ongoing_job_q, mgr, started, told>>
  BY DEF Encoder!Destroyed, Encoder!Nothing, Encoder!Over, Encoder!Idle, Encoder!At
<1>2. mgr.at \notin AtWork /\ mgr.at \notin AtPut /\ mgr.at # "release"
  BY <1>1, ManagerIdle DEF AtCall, AtEnd
<1>3. /\ client'.at = "idle" /\ created'.sessions = 0 /\ job_queue = <<>>
      /\ client' \in [at : ClientPlaces, s : Nat, job : 0..MaxJobs]
      /\ created' \in [sessions : 0..NumSessions, bufs : Nat, rc : Nat]
      /\ quit' \subseteq Encoder!Jobs
  <2>1. [at |-> "idle", s |-> 0, job |-> 0] \in [at : ClientPlaces, s : Nat, job : 0..MaxJobs]
    BY EncoderNumbers DEF ClientPlaces
  <2>2. [sessions |-> 0, bufs |-> 0, rc |-> 0] \in [sessions : 0..NumSessions, bufs : Nat, rc : Nat]
    BY EncoderNumbers
  <2>3. job_queue = <<>>
    BY <1>1 DEF EncoderInv, Locked, AtEnd
  <2>4. quit' \subseteq Encoder!Jobs
    BY <1>1, EncoderFields DEF EncoderInv
  <2> QED
    BY <1>1, <2>1, <2>2, <2>3, <2>4
<1>4. \A s \in Encoder!Sessions : /\ ~Encoder!Busy(s)' /\ ~Taken(s)'
                                  /\ sess'[s].abort_state = "NONE" /\ comp'[s] # "working"
  BY <1>1, <1>2 DEF Taken, Held, Encoder!Busy, Encoder!NoSession
<1>5. EncoderTypes'
  <2>1. sess' \in [Encoder!Sessions -> SessionKind]
    BY <1>1, NoSessionKind
  <2>2. given' \in [Encoder!Sessions -> SUBSET Encoder!JobParams]
    BY <1>1
  <2>3. /\ session_handle_q' \in Seq(Encoder!Sessions) /\ out_buf_q' \in Seq(1..NumDstBufs)
        /\ over' \subseteq 1..started
    BY <1>1, EmptySeq
  <2> QED
    BY <1>1, <1>3, <2>1, <2>2, <2>3 DEF EncoderInv, EncoderTypes
<1>6. Locked'
  BY <1>1, <1>2, <1>3, EmptyIn DEF EncoderInv, Locked, AtCall, AtEnd
<1>7. Free' /\ Queued' /\ Buffers' /\ Put' /\ Owns' /\ Alone'
  BY <1>1, <1>2, <1>3, <1>4, EmptyIn DEF Free, Queued, Buffers, Put, Owns, Alone
<1>8. Prepared'
  BY <1>1, <1>2, <1>4 DEF Prepared, AtWork
<1>9. Stopping'
  BY <1>3, <1>4 DEF Stopping, AtCall, AtEnd, Encoder!Waiting
<1>10. Unanswered'
  <2>1. \A j \in Encoder!Jobs : j > started => told[j] = <<>> /\ j \notin 1..started
    BY EncoderNumbers, EncoderFields DEF EncoderInv, Unanswered, Fresh
  <2> QED
    BY <1>1, <1>2, <1>3, <1>4, <2>1, EmptyIn DEF Unanswered, Fresh
<1>11. Room'
  BY <1>1 DEF EncoderInv, Room
<1> QED
  BY <1>5, <1>6, <1>7, <1>8, <1>9, <1>10, <1>11 DEF EncoderInv

\* With every session of its chain at rest the client waits for the manager to end.
LEMMA ReleaseManager ==
  ASSUME Encoder!JpegAssumption, EncoderInv, Encoder!mm_jpeg_jobmgr_thread_release
  PROVE  EncoderInv'
<1>1. /\ client.at = "close" /\ ~(client.s <= created.sessions)
      /\ job_lock' = "free" /\ client' = [at |-> "join", s |-> 0, job |-> 0]
      /\ quit' = 1..started /\ over' = 1..started
      /\ sess' = [s \in Encoder!Sessions |-> Encoder!NoSession]
      /\ created' = [sessions |-> 0, bufs |-> 0, rc |-> 0]
      /\ job_queue' = Append(job_queue, Encoder!EXIT) /\ job_sem' = job_sem + 1
      /\ UNCHANGED <<given, asked, comp, session_handle_q, out_buf_q, ongoing_job_q, mgr, started,
                     told>>
  BY DEF Encoder!mm_jpeg_jobmgr_thread_release, Encoder!Chained, Encoder!Nothing, Encoder!Over,
         Encoder!At, Encoder!setup
<1>2. mgr.at \notin AtWork /\ mgr.at \notin AtPut /\ mgr.at \in {"gone", "wait", "take"}
  <2>1. mgr.at \notin AtWork /\ mgr.at \notin AtPut /\ mgr.at # "release"
    BY <1>1, ManagerIdle DEF AtCall, AtEnd
  <2>2. mgr.at \in MgrPlaces
    BY EncoderFields DEF EncoderInv
  <2> QED
    BY <2>1, <2>2 DEF MgrPlaces
<1>3. /\ client'.at = "join" /\ created'.sessions = 0 /\ job_queue = <<>>
      /\ client' \in [at : ClientPlaces, s : Nat, job : 0..MaxJobs]
      /\ created' \in [sessions : 0..NumSessions, bufs : Nat, rc : Nat]
      /\ quit' \subseteq Encoder!Jobs
  <2>1. [at |-> "join", s |-> 0, job |-> 0] \in [at : ClientPlaces, s : Nat, job : 0..MaxJobs]
    BY EncoderNumbers DEF ClientPlaces
  <2>2. [sessions |-> 0, bufs |-> 0, rc |-> 0] \in [sessions : 0..NumSessions, bufs : Nat, rc : Nat]
    BY EncoderNumbers
  <2>3. job_queue = <<>>
    BY <1>1 DEF EncoderInv, Locked, AtEnd
  <2>4. quit' \subseteq Encoder!Jobs
    BY <1>1, EncoderFields DEF EncoderInv
  <2> QED
    BY <1>1, <2>1, <2>2, <2>3, <2>4
<1>4. /\ job_queue' \in Seq(Encoder!Jobs \cup {Encoder!EXIT})
      /\ \A j : In(job_queue', j) => j = Encoder!EXIT
      /\ \A j \in Encoder!Jobs : j # Encoder!EXIT /\ Once(job_queue', j)
  <2>1. job_queue \in Seq(Encoder!Jobs \cup {Encoder!EXIT})
    BY DEF EncoderInv, EncoderTypes
  <2>2. \A j : /\ job_queue' \in Seq(Encoder!Jobs \cup {Encoder!EXIT})
               /\ In(job_queue', j) <=> In(job_queue, j) \/ j = Encoder!EXIT
               /\ Once(job_queue, j) /\ (j # Encoder!EXIT \/ ~In(job_queue, j)) => Once(job_queue', j)
    BY <1>1, <2>1, AppendIn
  <2>3. \A j \in Encoder!Jobs : j # Encoder!EXIT
    BY EncoderNumbers
  <2> QED
    BY <1>3, <2>2, <2>3, EmptyIn
<1>5. \A s \in Encoder!Sessions : ~Encoder!Busy(s)
  <2>1. ASSUME NEW s \in Encoder!Sessions, Encoder!Busy(s) PROVE FALSE
    <3>1. s <= created.sessions
      BY <2>1 DEF EncoderInv, Owns, Has, Taken
    <3>2. ~(s < client.s)
      BY <1>1, <2>1 DEF EncoderInv, Stopping
    <3>3. s \in Nat /\ client.s \in Nat /\ created.sessions \in Nat
      BY SessionNumbers, EncoderFields DEF EncoderInv
    <3>4. ~(client.s <= created.sessions)
      BY <1>1
    <3> QED
      BY ONLY <3>1, <3>2, <3>3, <3>4
  <2> QED
    BY <2>1
<1>6. \A s \in Encoder!Sessions : /\ ~Encoder!Busy(s)' /\ ~Taken(s)'
                                  /\ sess'[s].abort_state = "NONE" /\ comp'[s] # "working"
  BY <1>1, <1>2, <1>5 DEF Taken, Held, Encoder!Busy, Encoder!NoSession
<1>7. EncoderTypes'
  <2>1. sess' \in [Encoder!Sessions -> SessionKind]
    BY <1>1, NoSessionKind
  <2>2. over' \subseteq 1..started
    BY <1>1
  <2> QED
    BY <1>1, <1>3, <1>4, <2>1, <2>2 DEF EncoderInv, EncoderTypes
<1>8. Locked'
  BY <1>1, <1>2, <1>3, <1>4 DEF EncoderInv, Locked, AtCall, AtEnd
<1>9. Free' /\ Queued' /\ Buffers'
  BY <1>1, <1>3, <1>4 DEF EncoderInv, Free, Queued, Buffers
<1>10. Put' /\ Owns' /\ Alone'
  BY <1>1, <1>2, <1>6 DEF Put, Owns, Alone
<1>11. Prepared'
  BY <1>1, <1>2, <1>6 DEF Prepared, AtWork
<1>12. Stopping'
  BY <1>3, <1>6 DEF Stopping, AtCall, AtEnd, Encoder!Waiting
<1>13. Unanswered'
  <2>1. \A j \in Encoder!Jobs : j > started => told[j] = <<>> /\ j \notin 1..started
    BY EncoderNumbers, EncoderFields DEF EncoderInv, Unanswered, Fresh
  <2> QED
    BY <1>1, <1>2, <1>4, <1>6, <2>1 DEF Unanswered, Fresh
<1>14. Room'
  BY <1>1 DEF EncoderInv, Room
<1> QED
  BY <1>7, <1>8, <1>9, <1>10, <1>11, <1>12, <1>13, <1>14 DEF EncoderInv

\* The manager is gone, and what was left in the queues is dropped.
LEMMA Deinit ==
  ASSUME Encoder!JpegAssumption, EncoderInv, Encoder!mm_jpeg_deinit
  PROVE  EncoderInv'
<1>1. /\ client.at = "join" /\ mgr.at = "gone"
      /\ client' = [at |-> "closed", s |-> 0, job |-> 0]
      /\ job_queue' = <<>> /\ ongoing_job_q' = <<>> /\ session_handle_q' = <<>> /\ out_buf_q' = <<>>
      /\ comp' = [s \in Encoder!Sessions |-> "none"]
      /\ UNCHANGED <<given, asked, sess, job_sem, job_lock, mgr, created, started, told, quit, over>>
  BY DEF Encoder!mm_jpeg_deinit, Encoder!At, Encoder!setup
<1>2. /\ client'.at = "closed" /\ created.sessions = 0
      /\ client' \in [at : ClientPlaces, s : Nat, job : 0..MaxJobs]
  <2>1. [at |-> "closed", s |-> 0, job |-> 0] \in [at : ClientPlaces, s : Nat, job : 0..MaxJobs]
    BY EncoderNumbers DEF ClientPlaces
  <2>2. created.sessions = 0
    BY <1>1 DEF EncoderInv, Locked
  <2> QED
    BY <1>1, <2>1, <2>2
<1>3. \A s \in Encoder!Sessions : /\ ~Encoder!Busy(s)' /\ ~Taken(s)'
                                  /\ sess'[s].abort_state # "INIT" /\ comp'[s] # "working"
  <2>1. \A s \in Encoder!Sessions : sess[s].abort_state # "INIT"
    BY <1>1 DEF EncoderInv, Stopping, Encoder!Waiting
  <2> QED
    BY <1>1, <2>1 DEF Taken, Held, Encoder!Busy, AtWork
<1>4. EncoderTypes'
  <2>1. /\ comp' \in [Encoder!Sessions -> ComponentStates]
        /\ session_handle_q' \in Seq(Encoder!Sessions) /\ out_buf_q' \in Seq(1..NumDstBufs)
        /\ job_queue' \in Seq(Encoder!Jobs \cup {Encoder!EXIT})
        /\ ongoing_job_q' \in Seq(Encoder!Jobs)
    BY <1>1, EmptySeq DEF ComponentStates
  <2> QED
    BY <1>1, <1>2, <2>1 DEF EncoderInv, EncoderTypes
<1>5. Locked'
  BY <1>1, <1>2, EmptyIn DEF EncoderInv, Locked, AtCall, AtEnd
<1>6. Free' /\ Queued' /\ Buffers'
  BY <1>1, EmptyIn DEF Free, Queued, Buffers
<1>7. Put' /\ Owns' /\ Alone' /\ Prepared'
  BY <1>1, <1>3 DEF Put, Owns, Alone, Prepared, AtPut, AtWork
<1>8. Stopping'
  BY <1>2, <1>3 DEF Stopping, AtCall, AtEnd, Encoder!Waiting
<1>9. Unanswered'
  BY <1>1, <1>3, EmptyIn DEF EncoderInv, Unanswered, Fresh, AtWork, AtPut
<1>10. Room'
  BY <1>1, EmptySeq, EncoderNumbers DEF EncoderInv, Room
<1> QED
  BY <1>4, <1>5, <1>6, <1>7, <1>8, <1>9, <1>10 DEF EncoderInv

-----------------------------------------------------------------------------
(* The job manager. *)

\* Places without a session that the manager comes to.
LEMMA ManagerPlaces ==
  ASSUME Encoder!JpegAssumption
  PROVE  \A place \in {"gone", "wait", "take", "release"} :
            [at |-> place, s |-> 0, job |-> 0] \in
               [at : MgrPlaces, s : Encoder!Sessions \cup {0}, job : 0..MaxJobs]
<1>1. 0 \in 0..MaxJobs
  BY EncoderNumbers
<1> QED
  BY <1>1 DEF MgrPlaces, AtWork, AtPut

\* A manager that has no job goes from one place to another.
LEMMA ManagerMoves ==
  ASSUME Encoder!JpegAssumption, EncoderInv, NEW place \in {"wait", "take"},
         mgr.at \in {"wait", "take", "release"}, mgr' = [at |-> place, s |-> 0, job |-> 0],
         job_sem' \in Nat,
         place = "take" => Len(ongoing_job_q) < MaxOngoing,
         job_lock' = IF mgr.at = "release" THEN "free" ELSE job_lock,
         UNCHANGED <<given, asked, sess, comp, session_handle_q, out_buf_q, job_queue,
                     ongoing_job_q, client, created, started, told, quit, over>>
  PROVE  EncoderInv'
<1>1. /\ mgr'.at = place /\ mgr'.at \notin AtWork /\ mgr'.at \notin AtPut /\ mgr'.at # "release"
      /\ mgr'.at # "gone" /\ mgr'.at \in {"gone", "wait", "take"}
      /\ mgr.at \notin AtWork /\ mgr.at \notin AtPut
  BY DEF AtWork, AtPut
<1>2. mgr' \in [at : MgrPlaces, s : Encoder!Sessions \cup {0}, job : 0..MaxJobs]
  BY ManagerPlaces
<1>3. EncoderTypes'
  BY <1>2 DEF EncoderInv, EncoderTypes
<1>4. Locked'
  BY <1>1 DEF EncoderInv, Locked, AtCall, AtEnd
<1>5. \A r : Taken(r)' <=> Taken(r)
  BY <1>1 DEF Taken, Held, Encoder!Busy
<1>6. Free' /\ Queued' /\ Buffers' /\ Owns' /\ Alone'
  <2>1. \A j : Encoder!GivenUp(j) => Encoder!GivenUp(j)'
    BY DEF Encoder!GivenUp
  <2> QED
    BY <1>5, <2>1, QueuesStay DEF Encoder!queues
<1>7. Put' /\ Room' /\ Stopping'
  BY <1>1 DEF EncoderInv, Put, Room, Stopping, Encoder!Busy
<1>8. Prepared'
  BY <1>1 DEF EncoderInv, Prepared, AtWork, Encoder!Busy
<1>9. Unanswered'
  BY <1>1 DEF EncoderInv, Unanswered, Fresh
<1> QED
  BY <1>3, <1>4, <1>6, <1>7, <1>8, <1>9 DEF EncoderInv

LEMMA ManagerWaits ==
  ASSUME Encoder!JpegAssumption, EncoderInv, Encoder!MgrWait
  PROVE  EncoderInv'
<1>1. /\ mgr.at = "wait" /\ job_sem > 0 /\ job_sem' = job_sem - 1
      /\ UNCHANGED <<given, asked, sess, comp, session_handle_q, out_buf_q, job_queue,
                     ongoing_job_q, job_lock, client, created, started, told, quit, over>>
  BY DEF Encoder!MgrWait, Encoder!setup, Encoder!queues
<1>2. job_sem \in Nat /\ Len(ongoing_job_q) \in Nat
  BY LenProperties DEF EncoderInv, EncoderTypes
<1>3. job_sem' \in Nat
  BY ONLY <1>1, <1>2
<1>4. CASE Len(ongoing_job_q) >= MaxOngoing
  <2>1. mgr' = mgr
    BY <1>4 DEF Encoder!MgrWait
  <2>2. UNCHANGED <<given, asked, sess, comp, session_handle_q, out_buf_q, job_queue,
                    ongoing_job_q, job_lock, client, created, started, told, quit, over, mgr>>
    BY <1>1, <2>1
  <2>3. EncoderTypes'
    BY <1>3, <2>2 DEF EncoderInv, EncoderTypes
  <2> QED
    <3>1. Locked' /\ Free' /\ Queued' /\ Buffers'
      BY <2>2 DEF EncoderInv, Locked, Free, Queued, Buffers
    <3>2. Put' /\ Owns' /\ Alone'
      BY <2>2 DEF EncoderInv, Put, Owns, Has, Listed, Encoder!GivenUp, Alone, Taken, Held,
                  Encoder!Busy
    <3>3. Prepared' /\ Stopping' /\ Unanswered' /\ Room'
      BY <2>2 DEF EncoderInv, Prepared, Stopping, Unanswered, Fresh, Room, Encoder!Busy
    <3> QED
      BY <2>3, <3>1, <3>2, <3>3 DEF EncoderInv
<1>5. CASE ~(Len(ongoing_job_q) >= MaxOngoing)
  <2>1. mgr' = [at |-> "take", s |-> 0, job |-> 0]
    BY <1>5 DEF Encoder!MgrWait, Encoder!At
  <2>2. Len(ongoing_job_q) < MaxOngoing
    BY <1>2, <1>5, EncoderNumbers
  <2> QED
    BY <1>1, <1>3, <2>1, <2>2, ManagerMoves
<1> QED
  BY <1>4, <1>5

LEMMA ManagerRests ==
  ASSUME Encoder!JpegAssumption, EncoderInv, Encoder!MgrNothing \/ Encoder!MgrRelease
  PROVE  EncoderInv'
<1>1. /\ mgr.at \in {"take", "release"} /\ mgr' = [at |-> "wait", s |-> 0, job |-> 0]
      /\ job_lock' = IF mgr.at = "release" THEN "free" ELSE job_lock
      /\ UNCHANGED <<given, asked, sess, comp, session_handle_q, out_buf_q, job_queue, job_sem,
                     ongoing_job_q, client, created, started, told, quit, over>>
  BY DEF Encoder!MgrNothing, Encoder!MgrRelease, Encoder!setup, Encoder!queues, Encoder!At
<1>2. job_sem' \in Nat
  BY <1>1 DEF EncoderInv, EncoderTypes
<1> QED
  BY <1>1, <1>2, ManagerMoves

\* The last thing that a manager takes from the queue tells it to end.
LEMMA ManagerEnds ==
  ASSUME Encoder!JpegAssumption, EncoderInv, Encoder!MgrExit
  PROVE  EncoderInv'
<1>1. /\ mgr.at = "take" /\ job_lock = "free" /\ job_queue # <<>> /\ Head(job_queue) = Encoder!EXIT
      /\ job_queue' = Tail(job_queue) /\ mgr' = [at |-> "gone", s |-> 0, job |-> 0]
      /\ UNCHANGED <<given, asked, sess, comp, session_handle_q, out_buf_q, ongoing_job_q, job_sem,
                     job_lock, client, created, started, told, quit, over>>
  BY DEF Encoder!MgrExit, Encoder!At, Encoder!setup
<1>2. job_queue \in Seq(Encoder!Jobs \cup {Encoder!EXIT})
  BY DEF EncoderInv, EncoderTypes
<1>3. /\ job_queue' \in Seq(Encoder!Jobs \cup {Encoder!EXIT})
      /\ \A j : In(job_queue', j) => In(job_queue, j)
      /\ \A j : Once(job_queue, j) => Once(job_queue', j)
      /\ In(job_queue, Encoder!EXIT)
  BY <1>1, <1>2, TailIn
<1>4. client.at = "join"
  BY <1>3 DEF EncoderInv, Locked
<1>5. /\ mgr'.at = "gone" /\ mgr.at \notin AtWork /\ mgr.at \notin AtPut
      /\ mgr'.at \notin AtWork /\ mgr'.at \notin AtPut /\ mgr'.at # "release"
  BY <1>1 DEF AtWork, AtPut
<1>6. EncoderTypes'
  BY <1>1, <1>3, ManagerPlaces DEF EncoderInv, EncoderTypes
<1>7. Locked'
  BY <1>1, <1>3, <1>4, <1>5 DEF EncoderInv, Locked, AtCall, AtEnd
<1>8. \A r : Taken(r)' <=> Taken(r)
  BY <1>1, <1>5 DEF Taken, Held, Encoder!Busy
<1>9. Free' /\ Queued' /\ Buffers' /\ Owns' /\ Alone'
  <2>1. \A j : Encoder!GivenUp(j) => Encoder!GivenUp(j)'
    BY <1>1 DEF Encoder!GivenUp
  <2> QED
    BY <1>1, <1>3, <1>8, <2>1, QueuesShrink
<1>10. Put' /\ Room' /\ Stopping'
  BY <1>1, <1>5 DEF EncoderInv, Put, Room, Stopping, Encoder!Busy
<1>11. Prepared'
  BY <1>1, <1>5 DEF EncoderInv, Prepared, AtWork, Encoder!Busy
<1>12. Unanswered'
  BY <1>1, <1>3, <1>5 DEF EncoderInv, Unanswered, Fresh
<1> QED
  BY <1>6, <1>7, <1>9, <1>10, <1>11, <1>12 DEF EncoderInv

\* What the job is that the manager takes from the queue.
LEMMA TakenJob ==
  ASSUME Encoder!JpegAssumption, EncoderInv, mgr.at = "take", job_lock = "free",
         job_queue # <<>>, Head(job_queue) # Encoder!EXIT
  PROVE  /\ Head(job_queue) \in Encoder!Jobs /\ Head(job_queue) \in 1..started
         /\ Head(job_queue) \in 0..MaxJobs /\ In(job_queue, Head(job_queue))
         /\ Tail(job_queue) \in Seq(Encoder!Jobs \cup {Encoder!EXIT})
         /\ \A j : In(Tail(job_queue), j) => In(job_queue, j)
         /\ \A j : Once(job_queue, j) => Once(Tail(job_queue), j)
         /\ ~In(Tail(job_queue), Head(job_queue))
         /\ \A s \in Encoder!Sessions : Taken(s) => sess[s].job # Head(job_queue)
         /\ client.at \notin AtCall /\ client.at # "join" /\ client.at # "closed"
         /\ \A j : ~Encoder!GivenUp(j) \/ j \in quit
<1> DEFINE q == job_queue
           h == Head(job_queue)
<1>1. q \in Seq(Encoder!Jobs \cup {Encoder!EXIT})
  BY DEF EncoderInv, EncoderTypes
<1>2. h \in Encoder!Jobs /\ In(q, h) /\ Tail(q) \in Seq(Encoder!Jobs \cup {Encoder!EXIT})
  BY <1>1, TailIn
<1>3. \A j : /\ In(Tail(q), j) => In(q, j)
             /\ Once(q, j) => Once(Tail(q), j)
             /\ Once(q, j) /\ j = h => ~In(Tail(q), j)
  BY <1>1, TailIn
<1>4. Once(q, h) /\ h <= started
  BY <1>2 DEF EncoderInv, Queued
<1>5. h \in 1..started /\ h \in 0..MaxJobs
  <2>1. started \in Nat /\ h \in 1..MaxJobs
    BY <1>2, EncoderNumbers, EncoderFields DEF EncoderInv
  <2> QED
    BY ONLY <2>1, <1>4
<1>6. \A s \in Encoder!Sessions : Taken(s) => sess[s].job # h
  BY <1>2 DEF EncoderInv, Owns, Has
<1>7. client.at \notin AtCall /\ client.at # "join" /\ client.at # "closed"
  BY <1>2 DEF EncoderInv, Locked
<1>8. \A j : ~Encoder!GivenUp(j) \/ j \in quit
  BY <1>7 DEF Encoder!GivenUp, AtCall, AtEnd
<1> QED
  BY <1>2, <1>3, <1>4, <1>5, <1>6, <1>7, <1>8

\* No session is free: the manager is about to put the job back.
LEMMA NoneFree ==
  ASSUME Encoder!JpegAssumption, EncoderInv, Encoder!mm_jpeg_process_encoding_job,
         Encoder!NoSessionFree(Head(job_queue))
  PROVE  EncoderInv'
<1>1. /\ mgr.at = "take" /\ job_lock = "free" /\ job_queue # <<>> /\ Head(job_queue) # Encoder!EXIT
      /\ job_queue' = Tail(job_queue) /\ job_lock' = "mgr"
      /\ UNCHANGED <<given, asked, sess, comp, session_handle_q, out_buf_q, ongoing_job_q, job_sem,
                     client, created, started, told, quit, over>>
  BY DEF Encoder!mm_jpeg_process_encoding_job, Encoder!NoSessionFree, Encoder!setup
<1>2. PICK h : h = Head(job_queue)
  OBVIOUS
<1>3. PICK place \in AtPut : mgr' = [at |-> place, s |-> 0, job |-> h]
  BY <1>2 DEF Encoder!NoSessionFree, Encoder!At, AtPut
<1>4. /\ mgr'.at = place /\ mgr'.job = h /\ mgr'.at \notin AtWork /\ mgr.at \notin AtWork
      /\ mgr'.at \notin {"gone", "wait", "take", "release"}
  BY <1>1, <1>3 DEF AtWork, AtPut
<1>5. /\ h \in Encoder!Jobs /\ h \in 1..started /\ h \in 0..MaxJobs /\ In(job_queue, h)
      /\ job_queue' \in Seq(Encoder!Jobs \cup {Encoder!EXIT})
      /\ \A j : In(job_queue', j) => In(job_queue, j)
      /\ \A j : Once(job_queue, j) => Once(job_queue', j)
      /\ ~In(job_queue', h) /\ \A s \in Encoder!Sessions : Taken(s) => sess[s].job # h
      /\ client.at \notin AtCall /\ client.at # "join" /\ client.at # "closed"
  BY <1>1, <1>2, TakenJob
<1>6. EncoderTypes'
  <2>1. mgr' \in [at : MgrPlaces, s : Encoder!Sessions \cup {0}, job : 0..MaxJobs]
    BY <1>3, <1>5 DEF MgrPlaces
  <2> QED
    BY <1>1, <1>5, <2>1 DEF EncoderInv, EncoderTypes
<1>7. Locked'
  BY <1>1, <1>3, <1>4, <1>5 DEF EncoderInv, Locked, AtCall, AtEnd
<1>8. \A r : Taken(r)' <=> Taken(r)
  BY <1>1, <1>4 DEF Taken, Held, Encoder!Busy
<1>9. Free' /\ Queued' /\ Buffers' /\ Owns' /\ Alone'
  <2>1. \A j : Encoder!GivenUp(j) => Encoder!GivenUp(j)'
    BY <1>1 DEF Encoder!GivenUp
  <2> QED
    BY <1>1, <1>5, <1>8, <2>1, QueuesShrink
<1>10. Put' /\ Room' /\ Stopping'
  BY <1>1, <1>4, <1>5, <1>8 DEF EncoderInv, Put, Room, Stopping, Encoder!Busy
<1>11. Prepared'
  BY <1>1, <1>4 DEF EncoderInv, Prepared, AtWork, Encoder!Busy
<1>12. Unanswered'
  BY <1>1, <1>4, <1>5 DEF EncoderInv, Unanswered, Fresh
<1> QED
  BY <1>6, <1>7, <1>9, <1>10, <1>11, <1>12 DEF EncoderInv

\* The job is in the queue again, once.
LEMMA PutsBack ==
  ASSUME Encoder!JpegAssumption, EncoderInv, Encoder!PutBack
  PROVE  EncoderInv'
<1>1. PICK h : h = mgr.job
  OBVIOUS
<1>2. /\ mgr.at \in AtPut /\ job_lock' = "free" /\ mgr' = [at |-> "wait", s |-> 0, job |-> 0]
      /\ job_queue' = Append(job_queue, h) \/ job_queue' = <<h>> \o job_queue
      /\ UNCHANGED <<given, asked, sess, comp, session_handle_q, out_buf_q, ongoing_job_q, job_sem,
                     client, created, started, told, quit, over>>
  BY <1>1 DEF Encoder!PutBack, Encoder!setup, Encoder!At, AtPut
<1>3. /\ h \in 1..started /\ ~In(job_queue, h) /\ Fresh(h)
      /\ \A s \in Encoder!Sessions : Taken(s) => sess[s].job # h
  BY <1>1, <1>2 DEF EncoderInv, Put, Unanswered
<1>4. h \in Encoder!Jobs /\ h # Encoder!EXIT /\ h <= started /\ ~(h > started)
  BY <1>3, EncoderNumbers, EncoderFields DEF EncoderInv
<1>5. job_queue \in Seq(Encoder!Jobs \cup {Encoder!EXIT})
  BY DEF EncoderInv, EncoderTypes
<1>6. /\ job_queue' \in Seq(Encoder!Jobs \cup {Encoder!EXIT})
      /\ \A j : In(job_queue', j) <=> In(job_queue, j) \/ j = h
      /\ \A j : Once(job_queue, j) => Once(job_queue', j)
  <2>1. CASE job_queue' = Append(job_queue, h)
    BY <2>1, <1>3, <1>4, <1>5, AppendIn
  <2>2. CASE job_queue' = <<h>> \o job_queue
    BY <2>2, <1>3, <1>4, <1>5, ConsIn
  <2> QED
    BY <1>2, <2>1, <2>2
<1>7. /\ mgr'.at = "wait" /\ mgr'.at \notin AtWork /\ mgr'.at \notin AtPut /\ mgr.at \notin AtWork
      /\ mgr.at \notin {"gone", "wait", "take", "release"}
  BY <1>2 DEF AtWork, AtPut
<1>8. job_lock = "mgr" /\ client.at \notin AtCall /\ client.at # "join" /\ client.at # "closed"
  BY <1>2, <1>7 DEF EncoderInv, Locked
<1>9. EncoderTypes'
  BY <1>2, <1>6, ManagerPlaces DEF EncoderInv, EncoderTypes
<1>10. Locked'
  BY <1>2, <1>4, <1>6, <1>7, <1>8 DEF EncoderInv, Locked, AtCall, AtEnd
<1>11. Free' /\ Queued' /\ Buffers'
  BY <1>2, <1>4, <1>6 DEF EncoderInv, Free, Queued, Buffers
<1>12. \A r : Taken(r)' <=> Taken(r)
  BY <1>2, <1>7 DEF Taken, Held, Encoder!Busy
<1>13. Owns' /\ Alone' /\ Put'
  BY <1>2, <1>3, <1>6, <1>7, <1>12 DEF EncoderInv, Owns, Has, Listed, Encoder!GivenUp, Alone, Put
<1>14. Prepared'
  BY <1>2, <1>7 DEF EncoderInv, Prepared, AtWork, Encoder!Busy
<1>15. Stopping' /\ Room'
  BY <1>2, <1>7 DEF EncoderInv, Stopping, Room, Encoder!Busy
<1>16. Unanswered'
  BY <1>2, <1>3, <1>6, <1>7 DEF EncoderInv, Unanswered, Fresh
<1> QED
  BY <1>9, <1>10, <1>11, <1>13, <1>14, <1>15, <1>16 DEF EncoderInv

\* No buffer is free: job and session are lost.
LEMMA NoneToFill ==
  ASSUME Encoder!JpegAssumption, EncoderInv, Encoder!mm_jpeg_process_encoding_job,
         Encoder!NoBufFree
  PROVE  EncoderInv'
<1>1. /\ mgr.at = "take" /\ job_lock = "free" /\ job_queue # <<>> /\ Head(job_queue) # Encoder!EXIT
      /\ job_queue' = Tail(job_queue) /\ mgr' = [at |-> "wait", s |-> 0, job |-> 0]
      /\ session_handle_q # <<>> /\ session_handle_q' = Tail(session_handle_q)
      /\ UNCHANGED <<given, asked, sess, comp, out_buf_q, ongoing_job_q, job_sem, job_lock,
                     client, created, started, told, quit, over>>
  BY DEF Encoder!mm_jpeg_process_encoding_job, Encoder!NoBufFree, Encoder!setup, Encoder!At
<1>2. /\ mgr'.at = "wait" /\ mgr'.at \notin AtWork /\ mgr'.at \notin AtPut /\ mgr.at \notin AtWork
      /\ mgr.at \notin AtPut
  BY <1>1 DEF AtWork, AtPut
<1>3. /\ job_queue' \in Seq(Encoder!Jobs \cup {Encoder!EXIT})
      /\ \A j : In(job_queue', j) => In(job_queue, j)
      /\ \A j : Once(job_queue, j) => Once(job_queue', j)
  BY <1>1, TakenJob
<1>4. session_handle_q \in Seq(Encoder!Sessions)
  BY DEF EncoderInv, EncoderTypes
<1>5. /\ session_handle_q' \in Seq(Encoder!Sessions)
      /\ \A s : In(session_handle_q', s) => In(session_handle_q, s)
      /\ \A s : Once(session_handle_q, s) => Once(session_handle_q', s)
  BY <1>1, <1>4, TailIn
<1>6. EncoderTypes'
  BY <1>1, <1>3, <1>5, ManagerPlaces DEF EncoderInv, EncoderTypes
<1>7. Locked'
  BY <1>1, <1>2, <1>3 DEF EncoderInv, Locked, AtCall, AtEnd
<1>8. \A r : Taken(r)' <=> Taken(r)
  BY <1>1, <1>2 DEF Taken, Held, Encoder!Busy
<1>9. Free' /\ Queued' /\ Buffers' /\ Owns' /\ Alone'
  <2>1. \A j : Encoder!GivenUp(j) => Encoder!GivenUp(j)'
    BY <1>1 DEF Encoder!GivenUp
  <2> QED
    BY <1>1, <1>3, <1>5, <1>8, <2>1, QueuesShrink
<1>10. Put' /\ Room' /\ Stopping'
  BY <1>1, <1>2 DEF EncoderInv, Put, Room, Stopping, Encoder!Busy
<1>11. Prepared'
  BY <1>1, <1>2 DEF EncoderInv, Prepared, AtWork, Encoder!Busy
<1>12. Unanswered'
  BY <1>1, <1>2, <1>3 DEF EncoderInv, Unanswered, Fresh
<1> QED
  BY <1>6, <1>7, <1>9, <1>10, <1>11, <1>12 DEF EncoderInv

\* A free session gets the job, and a buffer that none of the others fills.
LEMMA JobBegins ==
  ASSUME Encoder!JpegAssumption, EncoderInv, Encoder!mm_jpeg_process_encoding_job,
         Encoder!BeginJob(Head(job_queue))
  PROVE  EncoderInv'
<1>1. PICK h, s, b : h = Head(job_queue) /\ s = Head(session_handle_q) /\ b = Head(out_buf_q)
  OBVIOUS
<1>2. /\ mgr.at = "take" /\ job_lock = "free" /\ job_queue # <<>> /\ Head(job_queue) # Encoder!EXIT
      /\ session_handle_q # <<>> /\ out_buf_q # <<>> /\ job_queue' = Tail(job_queue)
      /\ session_handle_q' = Tail(session_handle_q) /\ out_buf_q' = Tail(out_buf_q)
      /\ ongoing_job_q' = Append(ongoing_job_q, h) /\ job_lock' = "mgr"
      /\ sess' = [sess EXCEPT ![s].job = h, ![s].dst = b]
      /\ mgr' = [at |-> "encode", s |-> s, job |-> h]
      /\ UNCHANGED <<given, asked, comp, job_sem, client, created, started, told, quit, over>>
  BY <1>1 DEF Encoder!mm_jpeg_process_encoding_job, Encoder!BeginJob, Encoder!setup, Encoder!At
<1>3. /\ h \in Encoder!Jobs /\ h \in 1..started /\ h \in 0..MaxJobs /\ In(job_queue, h)
      /\ job_queue' \in Seq(Encoder!Jobs \cup {Encoder!EXIT})
      /\ \A j : In(job_queue', j) => In(job_queue, j)
      /\ \A j : Once(job_queue, j) => Once(job_queue', j)
      /\ ~In(job_queue', h) /\ \A r \in Encoder!Sessions : Taken(r) => sess[r].job # h
      /\ client.at \notin AtCall /\ client.at # "join" /\ client.at # "closed"
  BY <1>1, <1>2, TakenJob
<1>4. /\ s \in Encoder!Sessions /\ In(session_handle_q, s)
      /\ session_handle_q' \in Seq(Encoder!Sessions)
      /\ \A r : In(session_handle_q', r) => In(session_handle_q, r)
      /\ \A r : Once(session_handle_q, r) => Once(session_handle_q', r)
      /\ ~In(session_handle_q', s)
  <2>1. session_handle_q \in Seq(Encoder!Sessions)
    BY DEF EncoderInv, EncoderTypes
  <2>2. s \in Encoder!Sessions /\ In(session_handle_q, s)
    BY <1>1, <1>2, <2>1, TailIn
  <2>3. Once(session_handle_q, s)
    BY <2>2 DEF EncoderInv, Free
  <2> QED
    BY <1>1, <1>2, <2>1, <2>2, <2>3, TailIn
<1>5. /\ b \in 1..NumDstBufs /\ In(out_buf_q, b) /\ out_buf_q' \in Seq(1..NumDstBufs)
      /\ \A c : In(out_buf_q', c) => In(out_buf_q, c)
      /\ \A c : Once(out_buf_q, c) => Once(out_buf_q', c)
      /\ ~In(out_buf_q', b)
  <2>1. out_buf_q \in Seq(1..NumDstBufs)
    BY DEF EncoderInv, EncoderTypes
  <2>2. b \in 1..NumDstBufs /\ In(out_buf_q, b)
    BY <1>1, <1>2, <2>1, TailIn
  <2>3. Once(out_buf_q, b)
    BY <2>2 DEF EncoderInv, Buffers
  <2> QED
    BY <1>1, <1>2, <2>1, <2>2, <2>3, TailIn
<1>6. /\ ongoing_job_q' \in Seq(Encoder!Jobs) /\ Len(ongoing_job_q') = Len(ongoing_job_q) + 1
      /\ Len(ongoing_job_q) \in Nat
      /\ \A j : In(ongoing_job_q', j) <=> In(ongoing_job_q, j) \/ j = h
  <2>1. ongoing_job_q \in Seq(Encoder!Jobs)
    BY DEF EncoderInv, EncoderTypes
  <2> QED
    BY <1>2, <1>3, <2>1, AppendIn, LenProperties, AppendProperties
<1>7. /\ mgr'.at = "encode" /\ mgr'.s = s /\ mgr'.job = h /\ mgr'.at \in AtWork
      /\ mgr'.at \notin AtPut /\ mgr.at \notin AtWork
  BY <1>2 DEF AtWork, AtPut
<1>8. /\ ~Taken(s) /\ s <= created.sessions
      /\ \A r \in Encoder!Sessions : Taken(r)' => r = s \/ (r # s /\ Taken(r))
      /\ ~Encoder!Busy(s)' /\ \A r : Encoder!Busy(r)' <=> Encoder!Busy(r)
  <2>1. ~Taken(s) /\ s <= created.sessions
    BY <1>3, <1>4 DEF EncoderInv, Owns, Has, Free
  <2> QED
    BY <1>2, <1>7, <2>1 DEF Taken, Held, Encoder!Busy
<1>9. /\ sess' \in [Encoder!Sessions -> SessionKind]
      /\ sess'[s].job = h /\ sess'[s].dst = b
      /\ \A r \in Encoder!Sessions :
            /\ r # s => sess'[r] = sess[r]
            /\ sess'[r].abort_state = sess[r].abort_state
  <2>1. sess \in [Encoder!Sessions -> SessionKind]
    BY DEF EncoderInv, EncoderTypes
  <2>2. h \in 0..MaxJobs /\ b \in 0..NumDstBufs
    BY <1>3, <1>5, EncoderNumbers
  <2>3. s \in Encoder!Sessions /\ sess' = [sess EXCEPT ![s].job = h, ![s].dst = b]
    BY <1>2, <1>4
  <2>4. sess[s] \in SessionKind
    BY ONLY <2>1, <2>3
  <2>5. sess'[s] = [sess[s] EXCEPT !.job = h, !.dst = b]
    BY ONLY <2>1, <2>3
  <2>6. sess'[s] \in SessionKind /\ sess'[s].job = h /\ sess'[s].dst = b
        /\ sess'[s].abort_state = sess[s].abort_state
    BY ONLY <2>2, <2>4, <2>5 DEF SessionKind
  <2>7. \A r \in Encoder!Sessions : r # s => sess'[r] = sess[r]
    BY ONLY <2>1, <2>3
  <2>8. sess' = [sess EXCEPT ![s] = [sess[s] EXCEPT !.job = h, !.dst = b]]
    BY ONLY <2>1, <2>3
  <2>9. sess' \in [Encoder!Sessions -> SessionKind]
    BY ONLY <2>1, <2>3, <2>5, <2>6, <2>8
  <2> QED
    BY <2>6, <2>7, <2>9
<1>10. EncoderTypes'
  <2>1. mgr' \in [at : MgrPlaces, s : Encoder!Sessions \cup {0}, job : 0..MaxJobs]
    BY <1>2, <1>3, <1>4 DEF MgrPlaces, AtWork
  <2> QED
    BY <1>2, <1>3, <1>4, <1>5, <1>6, <1>9, <2>1 DEF EncoderInv, EncoderTypes
<1>11. Locked'
  BY <1>2, <1>3, <1>7 DEF EncoderInv, Locked, AtCall, AtEnd
<1>12. Free' /\ Queued' /\ Buffers'
  BY <1>2, <1>3, <1>4, <1>5 DEF EncoderInv, Free, Queued, Buffers
<1>13. Put' /\ Stopping' /\ Room'
  <2>1. Put'
    BY <1>7 DEF Put
  <2>2. Stopping'
    BY <1>2, <1>8, <1>9 DEF EncoderInv, Stopping
  <2>3. Len(ongoing_job_q) < MaxOngoing /\ MaxOngoing \in Nat
    BY <1>2, EncoderNumbers DEF EncoderInv, Room
  <2>4. Len(ongoing_job_q') <= MaxOngoing
    BY ONLY <1>6, <2>3
  <2> QED
    BY <1>7, <2>1, <2>2, <2>4 DEF Room
<1>14. Owns'
  <2>1. Has(s)' /\ Listed(s)'
    BY <1>2, <1>3, <1>4, <1>5, <1>6, <1>8, <1>9 DEF Has, Listed
  <2>2. ASSUME NEW r \in Encoder!Sessions, r # s, Taken(r) PROVE Has(r)' /\ Listed(r)'
    <3>1. Has(r) /\ Listed(r) /\ sess'[r] = sess[r]
      BY <1>9, <2>2 DEF EncoderInv, Owns
    <3>2. ~In(session_handle_q', r) /\ ~In(out_buf_q', sess[r].dst) /\ ~In(job_queue', sess[r].job)
      BY <1>3, <1>4, <1>5, <3>1 DEF Has
    <3>3. Has(r)'
      BY <1>2, <3>1, <3>2 DEF Has
    <3>4. Listed(r)'
      <4>1. \A j : Encoder!GivenUp(j) => Encoder!GivenUp(j)'
        BY <1>2 DEF Encoder!GivenUp
      <4>2. sess'[r].job = sess[r].job
        BY <3>1
      <4> QED
        BY <1>6, <3>1, <4>1, <4>2 DEF Listed
    <3> QED
      BY <3>3, <3>4
  <2> QED
    BY <1>8, <2>1, <2>2 DEF Owns
<1>15. Alone'
  <2>1. \A r \in Encoder!Sessions :
           r # s /\ Taken(r) => sess'[r] = sess[r] /\ sess[r].dst # b /\ sess[r].job # h
    BY <1>3, <1>5, <1>9 DEF EncoderInv, Owns, Has
  <2> QED
    BY <1>8, <1>9, <2>1 DEF EncoderInv, Alone
<1>16. Prepared'
  <2>1. \A r \in Encoder!Sessions : Encoder!Busy(r) => r # s /\ sess'[r] = sess[r]
    BY <1>8, <1>9 DEF Taken
  <2> QED
    BY <1>2, <1>4, <1>7, <1>8, <1>9, <2>1 DEF EncoderInv, Prepared
<1>17. Unanswered'
  <2>1. Fresh(h)
    BY <1>3 DEF EncoderInv, Unanswered
  <2>2. \A r \in Encoder!Sessions : comp[r] = "working" => r # s /\ sess'[r] = sess[r]
    BY <1>8, <1>9 DEF Taken, Encoder!Busy
  <2>3. \A j \in Encoder!Jobs : j > started \/ In(job_queue, j) => Fresh(j)
    BY DEF EncoderInv, Unanswered
  <2>4. \A r \in Encoder!Sessions : comp[r] = "working" => Fresh(sess[r].job)
    BY DEF EncoderInv, Unanswered
  <2>5. \A j : Fresh(j)' <=> Fresh(j)
    BY <1>2 DEF Fresh
  <2>6. \A j \in Encoder!Jobs : j > started' \/ In(job_queue', j) => Fresh(j)'
    BY <1>2, <1>3, <2>3, <2>5
  <2>7. \A r \in Encoder!Sessions : (comp[r] = "working" => Fresh(sess[r].job))'
    BY <1>2, <2>2, <2>4, <2>5
  <2> QED
    BY <1>7, <2>1, <2>5, <2>6, <2>7 DEF Unanswered
<1> QED
  BY <1>10, <1>11, <1>12, <1>13, <1>14, <1>15, <1>16, <1>17 DEF EncoderInv

LEMMA ProcessJob ==
  ASSUME Encoder!JpegAssumption, EncoderInv, Encoder!mm_jpeg_process_encoding_job
  PROVE  EncoderInv'
<1>1. \/ Encoder!NoSessionFree(Head(job_queue)) \/ Encoder!NoBufFree
      \/ Encoder!BeginJob(Head(job_queue))
  BY Zenon DEF Encoder!mm_jpeg_process_encoding_job
<1> QED
  BY <1>1, NoneFree, NoneToFill, JobBegins

\* The manager has one session and its job.
LEMMA ManagerHolds ==
  ASSUME Encoder!JpegAssumption, EncoderInv, mgr.at \in AtWork
  PROVE  /\ mgr.s \in Encoder!Sessions /\ mgr.job \in Encoder!Jobs /\ mgr.job \in 0..MaxJobs
         /\ sess[mgr.s].job = mgr.job /\ ~Encoder!Busy(mgr.s) /\ Taken(mgr.s)
         /\ job_lock = "mgr" /\ client.at \notin AtCall /\ client.at # "join" /\ client.at # "closed"
         /\ \A r : Taken(r) <=> r = mgr.s \/ Encoder!Busy(r)
<1>1. /\ mgr.s \in Encoder!Sessions /\ sess[mgr.s].job = mgr.job /\ ~Encoder!Busy(mgr.s)
      /\ Taken(mgr.s)
  BY DEF EncoderInv, Prepared, Taken, Held
<1>2. mgr.job \in 1..started
  BY <1>1 DEF EncoderInv, Owns, Has
<1>3. mgr.job \in Encoder!Jobs /\ mgr.job \in 0..MaxJobs
  BY <1>2, EncoderFields DEF EncoderInv
<1>4. job_lock = "mgr" /\ client.at \notin AtCall /\ client.at # "join" /\ client.at # "closed"
  BY DEF EncoderInv, Locked, AtWork
<1>5. \A r : Taken(r) <=> r = mgr.s \/ Encoder!Busy(r)
  BY DEF Taken, Held
<1> QED
  BY <1>1, <1>3, <1>4, <1>5

\* The manager goes on with its job: the session keeps it and its buffer, and the
\* component does not begin to encode.
LEMMA ManagerOn ==
  ASSUME Encoder!JpegAssumption, EncoderInv, NEW place \in AtWork \ {"encode"},
         mgr.at \in AtWork, mgr' = [at |-> place, s |-> mgr.s, job |-> mgr.job],
         UNCHANGED <<asked, session_handle_q, out_buf_q, job_queue, ongoing_job_q, job_sem, job_lock,
                     client, created, started, told, quit, over>>,
         sess' \in [Encoder!Sessions -> SessionKind],
         comp' \in [Encoder!Sessions -> ComponentStates],
         given' \in [Encoder!Sessions -> SUBSET Encoder!JobParams],
         \A r \in Encoder!Sessions : r # mgr.s => /\ sess'[r] = sess[r] /\ comp'[r] = comp[r]
                                                  /\ given'[r] = given[r],
         ~Encoder!Busy(mgr.s)',
         sess'[mgr.s].job = sess[mgr.s].job, sess'[mgr.s].dst = sess[mgr.s].dst,
         sess'[mgr.s].abort_state = "NONE",
         place \in {"params", "begin"} => sess'[mgr.s].config,
         place = "begin" => Encoder!OfTheJob \subseteq given'[mgr.s]
  PROVE  EncoderInv'
<1>1. /\ mgr'.at = place /\ mgr'.s = mgr.s /\ mgr'.job = mgr.job /\ place \in AtWork
      /\ place \notin AtPut /\ mgr.at \notin AtPut /\ place # "encode"
      /\ place \notin {"gone", "wait", "take", "release"}
  BY DEF AtWork, AtPut
<1>2. /\ mgr.s \in Encoder!Sessions /\ mgr.job \in Encoder!Jobs /\ mgr.job \in 0..MaxJobs
      /\ sess[mgr.s].job = mgr.job /\ ~Encoder!Busy(mgr.s) /\ Taken(mgr.s)
      /\ job_lock = "mgr" /\ client.at \notin AtCall /\ client.at # "join" /\ client.at # "closed"
      /\ \A r : Taken(r) <=> r = mgr.s \/ Encoder!Busy(r)
  BY ManagerHolds
<1>3. \A r \in Encoder!Sessions : /\ sess'[r].job = sess[r].job /\ sess'[r].dst = sess[r].dst
                                  /\ sess'[r].abort_state \in {sess[r].abort_state, "NONE"}
                                  /\ Encoder!Busy(r)' <=> Encoder!Busy(r)
                                  /\ Taken(r)' => Taken(r)
                                  /\ comp'[r] = "working" => comp[r] = "working"
                                  /\ Encoder!Busy(r) => r # mgr.s
  BY <1>1, <1>2 DEF Encoder!Busy, Taken, Held
<1>4. EncoderTypes'
  <2>1. mgr' \in [at : MgrPlaces, s : Encoder!Sessions \cup {0}, job : 0..MaxJobs]
    BY <1>1, <1>2 DEF MgrPlaces
  <2> QED
    BY <2>1 DEF EncoderInv, EncoderTypes
<1>5. Locked'
  BY <1>1, <1>2 DEF EncoderInv, Locked, AtCall, AtEnd
<1>6. Free' /\ Queued' /\ Buffers' /\ Owns' /\ Alone'
  <2>1. \A j : Encoder!GivenUp(j) => Encoder!GivenUp(j)'
    BY DEF Encoder!GivenUp
  <2> QED
    BY <1>3, <2>1, QueuesStay DEF Encoder!queues
<1>7. Put' /\ Room'
  BY <1>1 DEF EncoderInv, Put, Room
<1>8. Prepared'
  <2>1. \A r \in Encoder!Sessions :
           Encoder!Busy(r)' => /\ sess'[r].config /\ Encoder!OfTheJob \subseteq given'[r]
                               /\ sess'[r].encoding /\ sess'[r].abort_state # "DONE"
    BY <1>3 DEF EncoderInv, Prepared
  <2> QED
    BY <1>1, <1>2, <2>1 DEF Prepared
<1>9. Stopping'
  <2>0. \A r \in Encoder!Sessions : sess[r].abort_state # "INIT"
    BY <1>2 DEF EncoderInv, Stopping, Encoder!Waiting, AtCall, AtEnd
  <2>1. \A r \in Encoder!Sessions : sess'[r].abort_state # "INIT"
    BY <1>3, <2>0
  <2>2. client.at \notin Encoder!Waiting /\ client.at \notin {"close", "close waits"}
    BY <1>2 DEF Encoder!Waiting, AtCall, AtEnd
  <2> QED
    BY <1>2, <2>1, <2>2 DEF EncoderInv, Stopping, AtCall, AtEnd
<1>10. Unanswered'
  <2>1. \A j : Fresh(j)' <=> Fresh(j)
    BY DEF Fresh
  <2>2. \A r \in Encoder!Sessions : (comp[r] = "working" => Fresh(sess[r].job))'
    BY <1>3, <2>1 DEF EncoderInv, Unanswered
  <2> QED
    BY <1>1, <2>1, <2>2 DEF EncoderInv, Unanswered
<1> QED
  BY <1>4, <1>5, <1>6, <1>7, <1>8, <1>9, <1>10 DEF EncoderInv

LEMMA EncodeBegins ==
  ASSUME Encoder!JpegAssumption, EncoderInv, Encoder!mm_jpeg_session_encode
  PROVE  EncoderInv'
<1>1. /\ mgr.at = "encode"
      /\ sess' = [sess EXCEPT ![mgr.s].abort_state = "NONE", ![mgr.s].encoding = FALSE]
      /\ UNCHANGED <<given, asked, comp, session_handle_q, out_buf_q, job_queue, ongoing_job_q,
                     job_sem, job_lock, client, created, started, told, quit, over>>
  BY DEF Encoder!mm_jpeg_session_encode, Encoder!setup, Encoder!queues
<1>2. mgr.at \in AtWork
  BY <1>1 DEF AtWork
<1>3. mgr.s \in Encoder!Sessions /\ ~Encoder!Busy(mgr.s)
  BY <1>2, ManagerHolds
<1>4. /\ sess' \in [Encoder!Sessions -> SessionKind]
      /\ \A r \in Encoder!Sessions : r # mgr.s => sess'[r] = sess[r]
      /\ sess'[mgr.s].job = sess[mgr.s].job /\ sess'[mgr.s].dst = sess[mgr.s].dst
      /\ sess'[mgr.s].abort_state = "NONE" /\ sess'[mgr.s].config = sess[mgr.s].config
  <2>1. sess \in [Encoder!Sessions -> SessionKind]
    BY DEF EncoderInv, EncoderTypes
  <2> QED
    BY <1>1, <1>3, <2>1 DEF SessionKind
<1>5. PICK place \in {"params", "configure"} :
         /\ mgr' = [at |-> place, s |-> mgr.s, job |-> mgr.job]
         /\ place = "params" => sess[mgr.s].config
  BY DEF Encoder!mm_jpeg_session_encode, Encoder!At
<1>6. /\ place \in AtWork \ {"encode"} /\ place # "begin"
      /\ place \in {"params", "begin"} => sess'[mgr.s].config
  BY <1>4, <1>5 DEF AtWork
<1>7. /\ comp' \in [Encoder!Sessions -> ComponentStates]
      /\ given' \in [Encoder!Sessions -> SUBSET Encoder!JobParams]
      /\ ~Encoder!Busy(mgr.s)'
  <2>1. mgr'.s = mgr.s
    BY <1>5
  <2> QED
    BY <1>1, <1>3, <2>1 DEF EncoderInv, EncoderTypes, Encoder!Busy
<1> QED
  BY <1>1, <1>2, <1>4, <1>5, <1>6, <1>7, ManagerOn

\* What a job's step leaves of its session when the job goes on.
LEMMA JobGoes ==
  ASSUME Encoder!JpegAssumption, EncoderInv, NEW place \in AtWork \ {"encode"}, Encoder!Goes(place),
         mgr.at \in AtWork \ {"encode"},
         UNCHANGED <<asked, job_queue, job_lock, client, created, started, quit, over>>,
         comp' \in [Encoder!Sessions -> ComponentStates],
         given' \in [Encoder!Sessions -> SUBSET Encoder!JobParams],
         \A r \in Encoder!Sessions : r # mgr.s => comp'[r] = comp[r] /\ given'[r] = given[r],
         comp'[mgr.s] = comp[mgr.s] \/ comp'[mgr.s] \notin {"working", "answering"},
         place = "begin" => sess[mgr.s].config /\ Encoder!OfTheJob \subseteq given'[mgr.s]
  PROVE  EncoderInv'
<1>1. /\ mgr' = [at |-> place, s |-> mgr.s, job |-> mgr.job]
      /\ sess' = [sess EXCEPT ![mgr.s].config = @ \/ place = "params"]
      /\ UNCHANGED <<told, session_handle_q, out_buf_q, ongoing_job_q, job_sem>>
  BY DEF Encoder!Goes, Encoder!At
<1>2. mgr.s \in Encoder!Sessions /\ ~Encoder!Busy(mgr.s) /\ sess[mgr.s].abort_state = "NONE"
  BY ManagerHolds DEF EncoderInv, Prepared
<1>3. /\ sess' \in [Encoder!Sessions -> SessionKind]
      /\ \A r \in Encoder!Sessions : r # mgr.s => sess'[r] = sess[r]
      /\ sess'[mgr.s].job = sess[mgr.s].job /\ sess'[mgr.s].dst = sess[mgr.s].dst
      /\ sess'[mgr.s].abort_state = "NONE"
      /\ sess'[mgr.s].config = (sess[mgr.s].config \/ place = "params")
  <2>1. sess \in [Encoder!Sessions -> SessionKind]
    BY DEF EncoderInv, EncoderTypes
  <2>2. PICK c \in BOOLEAN : c = (sess[mgr.s].config \/ place = "params")
    OBVIOUS
  <2>3. sess' = [sess EXCEPT ![mgr.s].config = c]
    BY <1>1, <2>2
  <2>4. sess' \in [Encoder!Sessions -> SessionKind]
    BY ONLY <1>2, <2>1, <2>2, <2>3, SetFlag
  <2>5. \A r \in Encoder!Sessions : r # mgr.s => sess'[r] = sess[r]
    BY ONLY <1>2, <2>1, <2>3
  <2>6. sess'[mgr.s] = [sess[mgr.s] EXCEPT !.config = c]
    BY ONLY <1>2, <2>1, <2>3
  <2>7. sess[mgr.s] \in SessionKind
    BY ONLY <1>2, <2>1
  <2>8. /\ sess'[mgr.s].job = sess[mgr.s].job /\ sess'[mgr.s].dst = sess[mgr.s].dst
        /\ sess'[mgr.s].abort_state = sess[mgr.s].abort_state /\ sess'[mgr.s].config = c
    BY ONLY <2>6, <2>7 DEF SessionKind
  <2> QED
    BY ONLY <1>2, <2>2, <2>4, <2>5, <2>8
<1>4. ~Encoder!Busy(mgr.s)'
  <2>1. mgr'.s = mgr.s
    BY <1>1
  <2> QED
    BY <1>2, <2>1 DEF Encoder!Busy
<1>5. place \in {"params", "begin"} => sess'[mgr.s].config
  BY <1>3
<1> QED
  BY <1>1, <1>3, <1>4, <1>5, ManagerOn

-----------------------------------------------------------------------------
(* A job is done with. *)

\* Its session and its buffer are free again, and were not before.
LEMMA DoneQueues ==
  ASSUME Encoder!JpegAssumption, EncoderInv, NEW s \in Encoder!Sessions, Taken(s),
         Encoder!mm_jpegenc_job_done(s),
         UNCHANGED <<job_queue, client, created, started, quit>>,
         \A r \in Encoder!Sessions : Taken(r)' => Taken(r) /\ r # s /\ sess'[r] = sess[r]
  PROVE  /\ session_handle_q' \in Seq(Encoder!Sessions) /\ out_buf_q' \in Seq(1..NumDstBufs)
         /\ ongoing_job_q' \in Seq(Encoder!Jobs) /\ Len(ongoing_job_q') <= Len(ongoing_job_q)
         /\ job_sem' \in Nat
         /\ given' \in [Encoder!Sessions -> SUBSET Encoder!JobParams]
         /\ \A r \in Encoder!Sessions : r # s => given'[r] = given[r]
         /\ Free' /\ Queued' /\ Buffers' /\ Owns' /\ Alone'
<1>1. PICK b, j : b = sess[s].dst /\ j = sess[s].job
  OBVIOUS
<1>2. /\ s <= created.sessions /\ ~In(session_handle_q, s)
      /\ b \in 1..NumDstBufs /\ ~In(out_buf_q, b)
  BY <1>1 DEF EncoderInv, Owns, Has
<1>3. /\ ongoing_job_q' = Encoder!mm_jpeg_queue_remove_job_by_job_id(ongoing_job_q, j)
      /\ session_handle_q' = Append(session_handle_q, s) /\ out_buf_q' = Append(out_buf_q, b)
      /\ given' = [given EXCEPT ![s] = {}] /\ job_sem' = job_sem + 1
  BY <1>1 DEF Encoder!mm_jpegenc_job_done
<1>4. /\ session_handle_q \in Seq(Encoder!Sessions) /\ out_buf_q \in Seq(1..NumDstBufs)
      /\ job_sem \in Nat /\ given \in [Encoder!Sessions -> SUBSET Encoder!JobParams]
  BY DEF EncoderInv, EncoderTypes
<1>5. /\ session_handle_q' \in Seq(Encoder!Sessions)
      /\ \A r : In(session_handle_q', r) <=> In(session_handle_q, r) \/ r = s
      /\ \A r : Once(session_handle_q, r) => Once(session_handle_q', r)
  BY <1>2, <1>3, <1>4, AppendIn
<1>6. /\ out_buf_q' \in Seq(1..NumDstBufs)
      /\ \A c : In(out_buf_q', c) <=> In(out_buf_q, c) \/ c = b
      /\ \A c : Once(out_buf_q, c) => Once(out_buf_q', c)
  <2>1. out_buf_q' = Append(out_buf_q, b) /\ out_buf_q \in Seq(1..NumDstBufs) /\ b \in 1..NumDstBufs
    BY <1>2, <1>3, <1>4
  <2>2. \A c : /\ Append(out_buf_q, b) \in Seq(1..NumDstBufs)
               /\ In(Append(out_buf_q, b), c) <=> In(out_buf_q, c) \/ c = b
               /\ Once(out_buf_q, c) /\ (c # b \/ ~In(out_buf_q, c)) => Once(Append(out_buf_q, b), c)
    BY ONLY <2>1, AppendIn
  <2> QED
    BY ONLY <1>2, <2>1, <2>2
<1>7. /\ ongoing_job_q' \in Seq(Encoder!Jobs) /\ Len(ongoing_job_q') <= Len(ongoing_job_q)
      /\ \A y : y # j /\ In(ongoing_job_q, y) => In(ongoing_job_q', y)
  BY <1>3, JobRemoved
<1>8. Free' /\ Queued' /\ Buffers'
  BY <1>2, <1>5, <1>6 DEF EncoderInv, Free, Queued, Buffers
<1>9. ASSUME NEW r \in Encoder!Sessions, Taken(r)' PROVE Has(r)' /\ Listed(r)'
  <2>1. Taken(r) /\ r # s /\ sess'[r] = sess[r] /\ Has(r) /\ Listed(r)
    BY <1>9 DEF EncoderInv, Owns
  <2>2. sess[r].dst # b /\ sess[r].job # j
    BY <1>1, <2>1 DEF EncoderInv, Alone
  <2>3. ~In(session_handle_q', r) /\ ~In(out_buf_q', sess[r].dst)
    BY <1>5, <1>6, <2>1, <2>2 DEF Has
  <2>4. Has(r)'
    BY <2>1, <2>3 DEF Has
  <2>5. \A y : Encoder!GivenUp(y) => Encoder!GivenUp(y)'
    BY DEF Encoder!GivenUp
  <2>6. sess'[r].job = sess[r].job
    BY <2>1
  <2>7. Listed(r)'
    BY <1>7, <2>1, <2>2, <2>5, <2>6 DEF Listed
  <2> QED
    BY <2>4, <2>7
<1>10. Owns'
  BY <1>9 DEF Owns
<1>11. Alone'
  BY DEF EncoderInv, Alone
<1>12. job_sem' \in Nat
  BY <1>3, <1>4
<1>13. /\ given' \in [Encoder!Sessions -> SUBSET Encoder!JobParams]
       /\ \A r \in Encoder!Sessions : r # s => given'[r] = given[r]
  BY <1>3, <1>4
<1> QED
  BY <1>5, <1>6, <1>7, <1>8, <1>10, <1>11, <1>12, <1>13

\* Room for jobs stays while the jobs being done are no more.
LEMMA RoomStays ==
  ASSUME Encoder!JpegAssumption, EncoderInv, ongoing_job_q' \in Seq(Encoder!Jobs),
         Len(ongoing_job_q') <= Len(ongoing_job_q), mgr'.at = "take" => mgr.at = "take"
  PROVE  Room'
<1>1. Len(ongoing_job_q) \in Nat /\ Len(ongoing_job_q') \in Nat /\ MaxOngoing \in Nat
  BY LenProperties, EncoderNumbers DEF EncoderInv, EncoderTypes
<1>2. Len(ongoing_job_q) <= MaxOngoing
  BY DEF EncoderInv, Room
<1>3. Len(ongoing_job_q') <= MaxOngoing
  BY ONLY <1>1, <1>2, Len(ongoing_job_q') <= Len(ongoing_job_q)
<1>4. mgr'.at = "take" => Len(ongoing_job_q) < MaxOngoing
  BY DEF EncoderInv, Room
<1>5. mgr'.at = "take" => Len(ongoing_job_q') < MaxOngoing
  BY ONLY <1>1, <1>4, Len(ongoing_job_q') <= Len(ongoing_job_q)
<1> QED
  BY <1>3, <1>5 DEF Room

\* What an answer to a job says, and of which jobs it says nothing.
LEMMA AnswerTells ==
  ASSUME EncoderInv, NEW j \in Encoder!Jobs, NEW what \in {"done", "error"}, Encoder!Tell(j, what)
  PROVE  /\ told' \in [Encoder!Jobs -> Seq({"done", "error"})]
         /\ \A y \in Encoder!Jobs : y # j => told'[y] = told[y]
<1>1. told \in [Encoder!Jobs -> Seq({"done", "error"})]
  BY DEF EncoderInv, EncoderTypes
<1>2. told' = [told EXCEPT ![j] = Append(told[j], what)]
  BY DEF Encoder!Tell
<1>3. Append(told[j], what) \in Seq({"done", "error"})
  BY <1>1
<1> QED
  BY <1>1, <1>2, <1>3

\* The manager tells the client that its job failed.
LEMMA ManagerFails ==
  ASSUME Encoder!JpegAssumption, EncoderInv, Encoder!JobFails, mgr.at \in AtWork \ {"encode"},
         UNCHANGED <<asked, job_queue, job_lock, client, created, started, quit, over>>,
         comp' \in [Encoder!Sessions -> ComponentStates],
         \A r \in Encoder!Sessions : r # mgr.s => comp'[r] = comp[r],
         comp'[mgr.s] = comp[mgr.s] \/ comp'[mgr.s] \notin {"working", "answering"}
  PROVE  EncoderInv'
<1>1. PICK s, j : s = mgr.s /\ j = mgr.job
  OBVIOUS
<1>2. /\ Encoder!Tell(j, "error") /\ Encoder!mm_jpegenc_job_done(s)
      /\ sess' = [sess EXCEPT ![s].encoding = FALSE]
      /\ mgr' = [at |-> "release", s |-> 0, job |-> 0]
  BY <1>1 DEF Encoder!JobFails, Encoder!At
<1>3. /\ s \in Encoder!Sessions /\ j \in Encoder!Jobs /\ sess[s].job = j /\ ~Encoder!Busy(s)
      /\ Taken(s) /\ job_lock = "mgr"
      /\ client.at \notin AtCall /\ client.at # "join" /\ client.at # "closed"
      /\ \A r : Taken(r) <=> r = s \/ Encoder!Busy(r)
  BY <1>1, ManagerHolds
<1>4. /\ mgr'.at = "release" /\ mgr'.at \notin AtWork /\ mgr'.at \notin AtPut
      /\ mgr'.at \notin {"gone", "wait", "take"} /\ mgr.at \notin AtPut
  BY <1>2 DEF AtWork, AtPut
<1>5. /\ sess' \in [Encoder!Sessions -> SessionKind]
      /\ \A r \in Encoder!Sessions :
            /\ r # s => sess'[r] = sess[r]
            /\ sess'[r].abort_state = sess[r].abort_state
  <2>1. sess \in [Encoder!Sessions -> SessionKind]
    BY DEF EncoderInv, EncoderTypes
  <2>2. sess' \in [Encoder!Sessions -> SessionKind]
    BY ONLY <1>2, <1>3, <2>1, SetFlag
  <2>3. \A r \in Encoder!Sessions : r # s => sess'[r] = sess[r]
    BY ONLY <1>2, <1>3, <2>1
  <2>4. sess'[s] = [sess[s] EXCEPT !.encoding = FALSE]
    BY ONLY <1>2, <1>3, <2>1
  <2>5. sess[s] \in SessionKind
    BY ONLY <1>3, <2>1
  <2>6. sess'[s].abort_state = sess[s].abort_state
    BY ONLY <2>4, <2>5 DEF SessionKind
  <2> QED
    BY <2>2, <2>3, <2>6
<1>6. /\ ~Encoder!Busy(s)'
      /\ \A r \in Encoder!Sessions : Encoder!Busy(r)' => Encoder!Busy(r) /\ r # s
      /\ \A r \in Encoder!Sessions : Taken(r)' => Taken(r) /\ r # s /\ sess'[r] = sess[r]
      /\ \A r \in Encoder!Sessions :
            comp'[r] = "working" => comp[r] = "working" /\ r # s /\ sess'[r] = sess[r]
  <2>1. comp'[s] \notin {"working", "answering"}
    BY <1>1, <1>3 DEF Encoder!Busy
  <2> QED
    BY <1>1, <1>3, <1>4, <1>5, <2>1 DEF Encoder!Busy, Taken, Held
<1>7. /\ session_handle_q' \in Seq(Encoder!Sessions) /\ out_buf_q' \in Seq(1..NumDstBufs)
      /\ ongoing_job_q' \in Seq(Encoder!Jobs) /\ Len(ongoing_job_q') <= Len(ongoing_job_q)
      /\ job_sem' \in Nat
      /\ given' \in [Encoder!Sessions -> SUBSET Encoder!JobParams]
      /\ \A r \in Encoder!Sessions : r # s => given'[r] = given[r]
      /\ Free' /\ Queued' /\ Buffers' /\ Owns' /\ Alone'
  BY <1>2, <1>3, <1>6, DoneQueues
<1>8. /\ told' \in [Encoder!Jobs -> Seq({"done", "error"})]
      /\ \A y \in Encoder!Jobs : y # j => told'[y] = told[y]
  BY <1>2, <1>3, AnswerTells
<1>9. EncoderTypes'
  BY <1>2, <1>5, <1>7, <1>8, ManagerPlaces DEF EncoderInv, EncoderTypes
<1>10. Locked'
  BY <1>3, <1>4 DEF EncoderInv, Locked, AtCall, AtEnd
<1>11. Put' /\ Room'
  BY <1>4, <1>7, RoomStays DEF Put
<1>12. Prepared'
  <2>1. ASSUME NEW r \in Encoder!Sessions, Encoder!Busy(r)'
        PROVE  /\ sess'[r].config /\ Encoder!OfTheJob \subseteq given'[r]
               /\ sess'[r].encoding /\ sess'[r].abort_state # "DONE"
    <3>1. Encoder!Busy(r) /\ r # s
      BY <1>6, <2>1
    <3>2. sess'[r] = sess[r] /\ given'[r] = given[r]
      BY <1>5, <1>7, <3>1
    <3> QED
      BY <3>1, <3>2 DEF EncoderInv, Prepared
  <2> QED
    BY <1>4, <2>1 DEF Prepared, AtWork
<1>13. Stopping'
  BY <1>5, <1>6 DEF EncoderInv, Stopping
<1>14. Unanswered'
  <2>1. \A y \in Encoder!Jobs : y # j /\ Fresh(y) => Fresh(y)'
    BY <1>8 DEF Fresh
  <2>2. ~In(job_queue, j) /\ j \in 1..started
    BY <1>3 DEF EncoderInv, Owns, Has
  <2>3. ~(j > started)
    BY <2>2, EncoderFields DEF EncoderInv
  <2>4. \A y \in Encoder!Jobs : y > started' \/ In(job_queue', y) => Fresh(y)'
    BY <2>1, <2>2, <2>3 DEF EncoderInv, Unanswered
  <2>5. ASSUME NEW r \in Encoder!Sessions, comp'[r] = "working" PROVE (Fresh(sess[r].job))'
    <3>1. comp[r] = "working" /\ r # s /\ sess'[r] = sess[r] /\ Taken(r)
      BY <1>3, <1>6, <2>5 DEF Encoder!Busy
    <3>2. sess[r].job # j /\ sess[r].job \in 1..started
      BY <1>3, <3>1 DEF EncoderInv, Alone, Owns, Has
    <3>3. sess[r].job \in Encoder!Jobs /\ Fresh(sess[r].job)
      BY <3>1, <3>2, EncoderFields DEF EncoderInv, Unanswered
    <3>4. sess'[r].job = sess[r].job
      BY <3>1
    <3> QED
      BY <2>1, <3>2, <3>3, <3>4
  <2> QED
    BY <1>4, <2>4, <2>5 DEF Unanswered
<1> QED
  BY <1>7, <1>9, <1>10, <1>11, <1>12, <1>13, <1>14 DEF EncoderInv

-----------------------------------------------------------------------------
(* The manager's job, from its session's configuration to its component. *)

\* The manager's steps that leave the components alone.
LEMMA ComponentsStay ==
  ASSUME Encoder!JpegAssumption, EncoderInv, mgr.at \in AtWork \ {"encode"},
         UNCHANGED <<asked, comp, job_queue, job_lock, client, created, started, quit, over>>,
         Encoder!JobFails \/ \E place \in AtWork \ {"encode", "begin"} :
                                Encoder!Goes(place) /\ UNCHANGED given
  PROVE  EncoderInv'
<1>1. /\ comp' \in [Encoder!Sessions -> ComponentStates]
      /\ \A r \in Encoder!Sessions : comp'[r] = comp[r]
      /\ mgr.s \in Encoder!Sessions
  BY ManagerHolds DEF EncoderInv, EncoderTypes
<1>2. CASE Encoder!JobFails
  BY <1>1, <1>2, ManagerFails
<1>3. ASSUME NEW place \in AtWork \ {"encode", "begin"}, Encoder!Goes(place), UNCHANGED given
      PROVE  EncoderInv'
  <2>1. given' \in [Encoder!Sessions -> SUBSET Encoder!JobParams]
    BY <1>3 DEF EncoderInv, EncoderTypes
  <2> QED
    BY <1>1, <1>3, <2>1, JobGoes
<1> QED
  BY <1>2, <1>3

LEMMA Configures ==
  ASSUME Encoder!JpegAssumption, EncoderInv, Encoder!mm_jpeg_session_configure
  PROVE  EncoderInv'
<1>1. /\ mgr.at = "configure"
      /\ Encoder!JobFails \/ (Encoder!Goes("to idle") /\ UNCHANGED given)
      /\ UNCHANGED <<asked, comp, job_queue, job_lock, client, created, started, quit, over>>
  BY DEF Encoder!mm_jpeg_session_configure, Encoder!JobFailsUnless
<1>2. "to idle" \in AtWork \ {"encode", "begin"} /\ mgr.at \in AtWork \ {"encode"}
  BY <1>1 DEF AtWork
<1> QED
  BY <1>1, <1>2, ComponentsStay

\* Where a change of state leads.
LEMMA StatePlaces ==
  \A state \in {"idle", "executing"} :
     /\ Encoder!To(state) \in AtWork \ {"encode"} /\ Encoder!Await(state) \in AtWork \ {"encode", "begin"}
     /\ Encoder!After(state) \in AtWork \ {"encode", "begin"}
     /\ Encoder!To(state) \in ComponentStates \ {"working", "answering"}
  BY DEF Encoder!To, Encoder!Await, Encoder!After, AtWork, ComponentStates

LEMMA ChangesState ==
  ASSUME Encoder!JpegAssumption, EncoderInv, NEW state \in {"idle", "executing"},
         Encoder!mm_jpeg_session_change_state(state)
  PROVE  EncoderInv'
<1>1. /\ mgr.at \in AtWork \ {"encode"}
      /\ UNCHANGED <<asked, job_queue, job_lock, client, created, started, quit, over>>
      /\ \/ Encoder!Goes(Encoder!After(state)) /\ UNCHANGED <<comp, given>>
         \/ Encoder!JobFails /\ UNCHANGED comp
         \/ /\ comp' = [comp EXCEPT ![mgr.s] = Encoder!To(state)]
            /\ Encoder!JobFails \/ (Encoder!Goes(Encoder!Await(state)) /\ UNCHANGED given)
  BY StatePlaces DEF Encoder!mm_jpeg_session_change_state, Encoder!JobFailsUnless
<1>2. CASE UNCHANGED comp /\ (Encoder!JobFails \/ (Encoder!Goes(Encoder!After(state)) /\ UNCHANGED given))
  BY <1>1, <1>2, StatePlaces, ComponentsStay
<1>3. CASE /\ comp' = [comp EXCEPT ![mgr.s] = Encoder!To(state)]
           /\ Encoder!JobFails \/ (Encoder!Goes(Encoder!Await(state)) /\ UNCHANGED given)
  <2>1. mgr.s \in Encoder!Sessions
    BY <1>1, ManagerHolds
  <2>2. /\ comp' \in [Encoder!Sessions -> ComponentStates]
        /\ \A r \in Encoder!Sessions : r # mgr.s => comp'[r] = comp[r]
        /\ comp'[mgr.s] \notin {"working", "answering"}
    BY <1>3, <2>1, StatePlaces DEF EncoderInv, EncoderTypes
  <2>3. CASE Encoder!JobFails
    BY <1>1, <2>2, <2>3, ManagerFails
  <2>4. CASE Encoder!Goes(Encoder!Await(state)) /\ UNCHANGED given
    <3>1. PICK place \in AtWork \ {"encode", "begin"} : place = Encoder!Await(state)
      BY StatePlaces
    <3>2. given' \in [Encoder!Sessions -> SUBSET Encoder!JobParams]
      BY <2>4 DEF EncoderInv, EncoderTypes
    <3> QED
      BY <1>1, <2>2, <2>4, <3>1, <3>2, JobGoes
  <2> QED
    BY <1>3, <2>3, <2>4
<1> QED
  BY <1>1, <1>2, <1>3

LEMMA StateHasChanged ==
  ASSUME Encoder!JpegAssumption, EncoderInv, NEW state \in {"idle", "executing"},
         Encoder!StateChanged(state)
  PROVE  EncoderInv'
<1>1. /\ mgr.at \in AtWork \ {"encode"}
      /\ UNCHANGED <<asked, comp, job_queue, job_lock, client, created, started, quit, over>>
      /\ Encoder!Goes(Encoder!After(state)) /\ UNCHANGED given
  BY StatePlaces DEF Encoder!StateChanged, Encoder!setup
<1> QED
  BY <1>1, StatePlaces, ComponentsStay

\* The parameters of a job are among those that its component is given.
LEMMA ParamsOfTheJob ==
  /\ Encoder!OfTheJob \subseteq Encoder!Range(Encoder!JobCalls)
  /\ Encoder!Range(Encoder!JobCalls) \subseteq Encoder!JobParams
  /\ \A k \in 0..Len(Encoder!CommonCalls) :
        Encoder!Range(SubSeq(Encoder!CommonCalls, 1, k)) \subseteq Encoder!JobParams
<1>1. Encoder!OfTheJob \subseteq Encoder!Range(Encoder!JobCalls)
  <2>1. /\ DOMAIN Encoder!JobCalls = 1..5
        /\ Encoder!JobCalls[1] = "crop" /\ Encoder!JobCalls[3] = "thumbnail"
        /\ Encoder!JobCalls[5] = "metadata"
    BY DEF Encoder!JobCalls
  <2> QED
    BY <2>1 DEF Encoder!OfTheJob, Encoder!Range
<1>2. Encoder!Range(Encoder!JobCalls) \subseteq Encoder!JobParams
  BY DEF Encoder!JobParams
<1>3. ASSUME NEW k \in 0..Len(Encoder!CommonCalls)
      PROVE  Encoder!Range(SubSeq(Encoder!CommonCalls, 1, k)) \subseteq Encoder!JobParams
  <2>1. PICK c : c = Encoder!CommonCalls
    OBVIOUS
  <2>2. c \in Seq({"rotation", "exif"}) /\ Len(c) = 2 /\ DOMAIN c = 1..2
    <3>1. PICK x, y : x = "rotation" /\ y = "exif"
      OBVIOUS
    <3>2. c = <<x, y>>
      BY <2>1, <3>1 DEF Encoder!CommonCalls
    <3>3. c \in Seq({x, y}) /\ Len(c) = 2 /\ DOMAIN c = 1..2
      BY ONLY <3>2
    <3> QED
      BY ONLY <3>1, <3>3
  <2>3. PICK q : q = SubSeq(c, 1, k)
    OBVIOUS
  <2>4. k \in 0..2
    BY <2>1, <2>2
  <2>5. Len(q) = k /\ q \in Seq({"rotation", "exif"}) /\ \A i \in 1..k : q[i] = c[i]
    <3>1. \A i \in 1..k : c[i] \in {"rotation", "exif"}
      BY ONLY <2>2, <2>4, ElementOfSeq
    <3> QED
      BY ONLY <2>2, <2>3, <2>4, <3>1, SubSeqProperties, Z3
  <2>6. DOMAIN q = 1..k
    BY ONLY <2>5, LenProperties
  <2>7. Encoder!Range(q) \subseteq Encoder!Range(c)
    BY ONLY <2>2, <2>4, <2>5, <2>6 DEF Encoder!Range
  <2> QED
    BY <2>1, <2>3, <2>7 DEF Encoder!JobParams
<1> QED
  BY <1>1, <1>2, <1>3

\* A job goes on to its component with the parameters that are its own.
LEMMA ConfiguresJob ==
  ASSUME Encoder!JpegAssumption, EncoderInv, Encoder!mm_jpeg_configure_job_params
  PROVE  EncoderInv'
<1>1. /\ mgr.at = "params" /\ mgr.at \in AtWork \ {"encode"}
      /\ UNCHANGED <<asked, comp, job_queue, job_lock, client, created, started, quit, over>>
  BY DEF Encoder!mm_jpeg_configure_job_params, AtWork
<1>2. CASE Encoder!JobFails
  BY <1>1, <1>2, ComponentsStay
<1>3. CASE ~Encoder!JobFails
  <2>1. PICK k \in Encoder!Taken(Len(Encoder!CommonCalls)) :
           /\ given' = [given EXCEPT ![mgr.s] =
                  Encoder!Range(SubSeq(Encoder!CommonCalls, 1, k)) \cup Encoder!Range(Encoder!JobCalls)]
           /\ Encoder!Goes("begin")
    BY Zenon, <1>3 DEF Encoder!mm_jpeg_configure_job_params
  <2>2. k \in 0..Len(Encoder!CommonCalls)
    <3>1. Len(Encoder!CommonCalls) = 2
      BY DEF Encoder!CommonCalls
    <3> QED
      BY <3>1 DEF Encoder!Taken
  <2>3. PICK p : /\ p = Encoder!Range(SubSeq(Encoder!CommonCalls, 1, k))
                        \cup Encoder!Range(Encoder!JobCalls)
                 /\ p \subseteq Encoder!JobParams /\ Encoder!OfTheJob \subseteq p
    BY <2>2, ParamsOfTheJob
  <2>4. mgr.s \in Encoder!Sessions /\ sess[mgr.s].config
    BY <1>1, ManagerHolds DEF EncoderInv, Prepared
  <2>5. given \in [Encoder!Sessions -> SUBSET Encoder!JobParams] /\ given' = [given EXCEPT ![mgr.s] = p]
    BY <2>1, <2>3 DEF EncoderInv, EncoderTypes
  <2>6. /\ given' \in [Encoder!Sessions -> SUBSET Encoder!JobParams]
        /\ \A r \in Encoder!Sessions : r # mgr.s => given'[r] = given[r]
        /\ Encoder!OfTheJob \subseteq given'[mgr.s]
    BY <2>3, <2>4, <2>5
  <2>7. comp' \in [Encoder!Sessions -> ComponentStates]
    BY <1>1 DEF EncoderInv, EncoderTypes
  <2>8. "begin" \in AtWork \ {"encode"}
    BY DEF AtWork
  <2> QED
    BY <1>1, <2>1, <2>4, <2>6, <2>7, <2>8, JobGoes
<1> QED
  BY <1>2, <1>3

LEMMA EncodeHasFailed ==
  ASSUME Encoder!JpegAssumption, EncoderInv, Encoder!EncodeFails
  PROVE  EncoderInv'
<1>1. /\ mgr.at = "begin" /\ mgr.at \in AtWork \ {"encode"} /\ Encoder!JobFails
      /\ UNCHANGED <<asked, comp, job_queue, job_lock, client, created, started, quit, over>>
  BY DEF Encoder!EncodeFails, AtWork
<1> QED
  BY <1>1, ComponentsStay

\* The component begins to encode: it is set up for the job, which is unanswered.
LEMMA BeginsToEncode ==
  ASSUME Encoder!JpegAssumption, EncoderInv, Encoder!EmptyAndFill
  PROVE  EncoderInv'
<1>1. PICK s : s = mgr.s
  OBVIOUS
<1>2. /\ mgr.at = "begin" /\ mgr.at \in AtWork \ {"encode"} /\ comp[s] = "executing"
      /\ sess' = [sess EXCEPT ![s].encoding = TRUE] /\ comp' = [comp EXCEPT ![s] = "working"]
      /\ mgr' = [at |-> "release", s |-> 0, job |-> 0]
      /\ UNCHANGED <<given, asked, session_handle_q, out_buf_q, job_queue, ongoing_job_q, job_sem,
                     job_lock, client, created, started, told, quit, over>>
  BY <1>1 DEF Encoder!EmptyAndFill, Encoder!setup, Encoder!queues, Encoder!At, AtWork
<1>3. /\ s \in Encoder!Sessions /\ sess[s].job = mgr.job /\ Taken(s) /\ job_lock = "mgr"
      /\ client.at \notin AtCall /\ client.at # "join" /\ client.at # "closed"
      /\ sess[s].config /\ Encoder!OfTheJob \subseteq given[s] /\ sess[s].abort_state = "NONE"
      /\ Fresh(mgr.job) /\ \A r : Taken(r) <=> r = s \/ Encoder!Busy(r)
  BY <1>1, <1>2, ManagerHolds DEF EncoderInv, Prepared, Unanswered
<1>4. /\ mgr'.at = "release" /\ mgr'.at \notin AtWork /\ mgr'.at \notin AtPut
      /\ mgr'.at \notin {"gone", "wait", "take"}
  BY <1>2 DEF AtWork, AtPut
<1>5. /\ sess' \in [Encoder!Sessions -> SessionKind] /\ sess'[s].encoding
      /\ \A r \in Encoder!Sessions :
            /\ r # s => sess'[r] = sess[r]
            /\ sess'[r].abort_state = sess[r].abort_state /\ sess'[r].config = sess[r].config
            /\ sess'[r].job = sess[r].job /\ sess'[r].dst = sess[r].dst
  <2>1. sess \in [Encoder!Sessions -> SessionKind]
    BY DEF EncoderInv, EncoderTypes
  <2> QED
    BY <1>2, <1>3, <2>1 DEF SessionKind
<1>6. /\ comp' \in [Encoder!Sessions -> ComponentStates]
      /\ \A r \in Encoder!Sessions : r # s => comp'[r] = comp[r]
  BY <1>2, <1>3 DEF EncoderInv, EncoderTypes, ComponentStates
<1>7. \A r \in Encoder!Sessions : /\ Encoder!Busy(r)' => r = s \/ Encoder!Busy(r)
                                  /\ Taken(r)' => Taken(r)
  BY <1>3, <1>4, <1>6 DEF Encoder!Busy, Taken, Held
<1>8. EncoderTypes'
  BY <1>2, <1>5, <1>6, ManagerPlaces DEF EncoderInv, EncoderTypes
<1>9. Locked'
  BY <1>2, <1>3, <1>4 DEF EncoderInv, Locked, AtCall, AtEnd
<1>10. Free' /\ Queued' /\ Buffers' /\ Owns' /\ Alone'
  <2>1. \A j : Encoder!GivenUp(j) => Encoder!GivenUp(j)'
    BY <1>2 DEF Encoder!GivenUp
  <2> QED
    BY <1>2, <1>5, <1>7, <2>1, QueuesStay DEF Encoder!queues
<1>11. Put' /\ Room'
  BY <1>2, <1>4 DEF EncoderInv, Put, Room
<1>12. Prepared'
  <2>1. ASSUME NEW r \in Encoder!Sessions, Encoder!Busy(r)'
        PROVE  /\ sess'[r].config /\ Encoder!OfTheJob \subseteq given'[r]
               /\ sess'[r].encoding /\ sess'[r].abort_state # "DONE"
    <3>1. CASE r = s
      BY <1>2, <1>3, <1>5, <3>1
    <3>2. CASE r # s
      <4>1. Encoder!Busy(r) /\ sess'[r] = sess[r]
        BY <1>5, <1>7, <2>1, <3>2
      <4> QED
        BY <1>2, <4>1 DEF EncoderInv, Prepared
    <3> QED
      BY <3>1, <3>2
  <2> QED
    BY <1>4, <2>1 DEF Prepared, AtWork
<1>13. Stopping'
  <2>1. /\ client.at \notin AtCall /\ client.at \notin Encoder!Waiting
        /\ client.at \notin {"close", "close waits"} /\ client.at \notin {"abort", "abort waits"}
    BY <1>3 DEF AtCall, AtEnd, Encoder!Waiting
  <2>2. \A r \in Encoder!Sessions : sess[r].abort_state # "INIT"
    BY <2>1 DEF EncoderInv, Stopping
  <2>3. \A r \in Encoder!Sessions : sess'[r].abort_state # "INIT"
    BY <1>5, <2>2
  <2> QED
    BY <1>2, <2>1, <2>3 DEF Stopping
<1>14. Unanswered'
  <2>1. \A j : Fresh(j)' <=> Fresh(j)
    BY <1>2 DEF Fresh
  <2>2. \A r \in Encoder!Sessions : (comp[r] = "working" => Fresh(sess[r].job))'
    BY <1>3, <1>5, <1>6, <2>1 DEF EncoderInv, Unanswered
  <2>3. \A j \in Encoder!Jobs : j > started' \/ In(job_queue', j) => Fresh(j)'
    BY <1>2, <2>1 DEF EncoderInv, Unanswered
  <2> QED
    BY <1>4, <2>2, <2>3 DEF Unanswered
<1> QED
  BY <1>8, <1>9, <1>10, <1>11, <1>12, <1>13, <1>14 DEF EncoderInv

-----------------------------------------------------------------------------
(* The components. *)

\* An answer is about the job of the session that answers.
LEMMA StillFresh ==
  ASSUME Encoder!JpegAssumption, EncoderInv, NEW s \in Encoder!Sessions, Encoder!Busy(s),
         UNCHANGED <<job_queue, started, over, mgr>>,
         \A y \in Encoder!Jobs : y # sess[s].job => told'[y] = told[y],
         comp'[s] # "working",
         \A r \in Encoder!Sessions : r # s => comp'[r] = comp[r],
         \A r \in Encoder!Sessions : sess'[r].job = sess[r].job
  PROVE  Unanswered'
<1>1. \A y \in Encoder!Jobs : y # sess[s].job /\ Fresh(y) => Fresh(y)'
  BY DEF Fresh
<1>2. Taken(s) /\ ~In(job_queue, sess[s].job) /\ sess[s].job \in 1..started
  BY DEF Taken, EncoderInv, Owns, Has
<1>3. ~(sess[s].job > started)
  BY <1>2, EncoderFields DEF EncoderInv
<1>4. \A y \in Encoder!Jobs : y > started' \/ In(job_queue', y) => Fresh(y)'
  BY <1>1, <1>2, <1>3 DEF EncoderInv, Unanswered
<1>5. mgr.at \in AtPut \cup AtWork => Fresh(mgr.job)'
  <2>1. CASE mgr.at \in AtPut
    <3>1. mgr.job \in 1..started /\ mgr.job # sess[s].job /\ Fresh(mgr.job)
      BY <1>2, <2>1 DEF EncoderInv, Put, Unanswered
    <3> QED
      BY <1>1, <3>1, EncoderFields DEF EncoderInv
  <2>2. CASE mgr.at \in AtWork
    <3>1. /\ mgr.s \in Encoder!Sessions /\ mgr.s # s /\ Taken(mgr.s) /\ sess[mgr.s].job = mgr.job
          /\ mgr.job \in Encoder!Jobs
      BY <2>2, ManagerHolds
    <3>2. mgr.job # sess[s].job /\ Fresh(mgr.job)
      BY <1>2, <2>2, <3>1 DEF EncoderInv, Alone, Unanswered
    <3> QED
      BY <1>1, <3>1, <3>2
  <2> QED
    BY <2>1, <2>2
<1>6. ASSUME NEW r \in Encoder!Sessions, comp'[r] = "working" PROVE (Fresh(sess[r].job))'
  <2>1. comp[r] = "working" /\ r # s /\ Taken(r)
    BY <1>6 DEF Taken, Encoder!Busy
  <2>2. sess[r].job # sess[s].job /\ sess[r].job \in 1..started /\ Fresh(sess[r].job)
    BY <1>2, <2>1 DEF EncoderInv, Alone, Owns, Has, Unanswered
  <2>3. sess[r].job \in Encoder!Jobs /\ sess'[r].job = sess[r].job
    BY <2>2, EncoderFields DEF EncoderInv
  <2> QED
    BY <1>1, <2>2, <2>3
<1> QED
  BY <1>4, <1>5, <1>6 DEF Unanswered

\* A component goes on: it is not busier than before, and an abort has ended only
\* where it is at rest.
LEMMA ComponentMoves ==
  ASSUME Encoder!JpegAssumption, EncoderInv, NEW s \in Encoder!Sessions,
         UNCHANGED <<given, asked, session_handle_q, out_buf_q, job_queue, ongoing_job_q, job_sem,
                     job_lock, mgr, client, created, started, quit, over>>,
         sess' \in [Encoder!Sessions -> SessionKind],
         comp' \in [Encoder!Sessions -> ComponentStates],
         \A r \in Encoder!Sessions : r # s => sess'[r] = sess[r] /\ comp'[r] = comp[r],
         sess'[s].job = sess[s].job, sess'[s].dst = sess[s].dst,
         sess'[s].config = sess[s].config, sess'[s].encoding = sess[s].encoding,
         \/ sess'[s].abort_state = sess[s].abort_state
         \/ /\ sess[s].abort_state = "INIT" /\ sess'[s].abort_state = "DONE"
            /\ ~Encoder!Busy(s)',
         Encoder!Busy(s)' => Encoder!Busy(s),
         comp'[s] # "working",
         told' \in [Encoder!Jobs -> Seq({"done", "error"})],
         told' = told \/ (Encoder!Busy(s) /\ \A y \in Encoder!Jobs : y # sess[s].job => told'[y] = told[y])
  PROVE  EncoderInv'
<1>1. \A r \in Encoder!Sessions : /\ sess'[r].job = sess[r].job /\ sess'[r].dst = sess[r].dst
                                  /\ sess'[r].config = sess[r].config
                                  /\ sess'[r].encoding = sess[r].encoding
                                  /\ Encoder!Busy(r)' => Encoder!Busy(r)
                                  /\ Taken(r)' => Taken(r)
                                  /\ comp'[r] = "working" => comp[r] = "working"
  BY DEF Encoder!Busy, Taken, Held
<1>2. EncoderTypes'
  BY DEF EncoderInv, EncoderTypes
<1>3. Locked' /\ Room'
  BY DEF EncoderInv, Locked, Room
<1>4. Free' /\ Queued' /\ Buffers' /\ Owns' /\ Alone'
  <2>1. \A j : Encoder!GivenUp(j) => Encoder!GivenUp(j)'
    BY DEF Encoder!GivenUp
  <2> QED
    BY <1>1, <2>1, QueuesStay DEF Encoder!queues
<1>5. Put'
  BY <1>1 DEF EncoderInv, Put
<1>6. sess[s].abort_state = "INIT" => mgr.at \notin AtWork
  <2>1. sess[s].abort_state = "INIT" => client.at \in AtCall
    BY DEF EncoderInv, Stopping, Encoder!Waiting, AtCall, AtEnd
  <2> QED
    BY <2>1, ManagerHolds
<1>7. Prepared'
  <2>1. ASSUME NEW r \in Encoder!Sessions, Encoder!Busy(r)'
        PROVE  /\ sess'[r].config /\ Encoder!OfTheJob \subseteq given'[r]
               /\ sess'[r].encoding /\ sess'[r].abort_state # "DONE"
    <3>1. Encoder!Busy(r)
      BY <1>1, <2>1
    <3>2. sess'[r].abort_state = sess[r].abort_state
      BY <2>1
    <3>3. /\ sess[r].config /\ Encoder!OfTheJob \subseteq given[r]
          /\ sess[r].encoding /\ sess[r].abort_state # "DONE"
      BY <3>1 DEF EncoderInv, Prepared
    <3> QED
      BY <1>1, <3>2, <3>3
  <2>2. ASSUME mgr.at \in AtWork
        PROVE  /\ mgr.s \in Encoder!Sessions /\ sess'[mgr.s].job = mgr.job /\ ~Encoder!Busy(mgr.s)'
               /\ mgr.at # "encode" => sess'[mgr.s].abort_state = "NONE"
               /\ mgr.at \in {"params", "begin"} => sess'[mgr.s].config
               /\ mgr.at = "begin" => Encoder!OfTheJob \subseteq given'[mgr.s]
    <3>1. mgr.s \in Encoder!Sessions /\ sess[mgr.s].job = mgr.job /\ ~Encoder!Busy(mgr.s)
      BY <2>2, ManagerHolds
    <3>2. sess'[mgr.s].abort_state = sess[mgr.s].abort_state
      BY <1>6, <2>2, <3>1
    <3>3. ~Encoder!Busy(mgr.s)'
      <4>1. comp'[mgr.s] = comp[mgr.s] \/ mgr.s = s
        BY <3>1
      <4> QED
        BY <3>1, <4>1 DEF Encoder!Busy
    <3>4. /\ mgr.at # "encode" => sess[mgr.s].abort_state = "NONE"
          /\ mgr.at \in {"params", "begin"} => sess[mgr.s].config
          /\ mgr.at = "begin" => Encoder!OfTheJob \subseteq given[mgr.s]
      BY <2>2 DEF EncoderInv, Prepared
    <3> QED
      BY <1>1, <3>1, <3>2, <3>3, <3>4
  <2>3. mgr' = mgr /\ (mgr.at \in {"params", "begin"} => mgr.at \in AtWork /\ mgr.at # "encode")
    BY DEF AtWork
  <2> QED
    BY <2>1, <2>2, <2>3 DEF Prepared
<1>8. Stopping'
  <2>1. \A r \in Encoder!Sessions :
           sess'[r].abort_state = "INIT" => sess[r].abort_state = "INIT"
    OBVIOUS
  <2> QED
    BY <1>1, <2>1 DEF EncoderInv, Stopping
<1>9. Unanswered'
  <2>1. CASE told' = told
    <3>1. \A j : Fresh(j)' <=> Fresh(j)
      BY <2>1 DEF Fresh
    <3>2. \A r \in Encoder!Sessions : (comp[r] = "working" => Fresh(sess[r].job))'
      BY <1>1, <3>1 DEF EncoderInv, Unanswered
    <3> QED
      BY <3>1, <3>2 DEF EncoderInv, Unanswered
  <2>2. CASE Encoder!Busy(s) /\ \A y \in Encoder!Jobs : y # sess[s].job => told'[y] = told[y]
    BY <1>1, <2>2, StillFresh
  <2> QED
    BY <2>1, <2>2
<1> QED
  BY <1>2, <1>3, <1>4, <1>5, <1>7, <1>8, <1>9 DEF EncoderInv

\* A component that has encoded its job, or failed to, is free for another.
LEMMA ComponentDone ==
  ASSUME Encoder!JpegAssumption, EncoderInv, NEW s \in Encoder!Sessions, Encoder!Busy(s),
         Encoder!mm_jpegenc_job_done(s), comp' = [comp EXCEPT ![s] = "executing"],
         sess' \in [Encoder!Sessions -> SessionKind],
         \A r \in Encoder!Sessions : r # s => sess'[r] = sess[r],
         sess'[s].job = sess[s].job, sess'[s].dst = sess[s].dst,
         sess'[s].config = sess[s].config, sess'[s].abort_state = sess[s].abort_state,
         told' \in [Encoder!Jobs -> Seq({"done", "error"})],
         \A y \in Encoder!Jobs : y # sess[s].job => told'[y] = told[y],
         UNCHANGED <<asked, job_queue, job_lock, mgr, client, created, started, quit, over>>
  PROVE  EncoderInv'
<1>1. /\ comp' \in [Encoder!Sessions -> ComponentStates] /\ comp'[s] = "executing"
      /\ \A r \in Encoder!Sessions : r # s => comp'[r] = comp[r]
  BY DEF EncoderInv, EncoderTypes, ComponentStates
<1>2. mgr.at \in AtWork => mgr.s # s
  BY ManagerHolds
<1>3. /\ \A r \in Encoder!Sessions : Encoder!Busy(r)' <=> Encoder!Busy(r) /\ r # s
      /\ \A r \in Encoder!Sessions : Taken(r)' => Taken(r) /\ r # s /\ sess'[r] = sess[r]
      /\ Taken(s)
  BY <1>1, <1>2 DEF Encoder!Busy, Taken, Held
<1>4. /\ session_handle_q' \in Seq(Encoder!Sessions) /\ out_buf_q' \in Seq(1..NumDstBufs)
      /\ ongoing_job_q' \in Seq(Encoder!Jobs) /\ Len(ongoing_job_q') <= Len(ongoing_job_q)
      /\ job_sem' \in Nat
      /\ given' \in [Encoder!Sessions -> SUBSET Encoder!JobParams]
      /\ \A r \in Encoder!Sessions : r # s => given'[r] = given[r]
      /\ Free' /\ Queued' /\ Buffers' /\ Owns' /\ Alone'
  BY <1>3, DoneQueues
<1>5. EncoderTypes'
  BY <1>1, <1>4 DEF EncoderInv, EncoderTypes
<1>6. Locked'
  <2>1. client.at # "closed"
    <3>1. client.at = "closed" => created.sessions = 0
      BY DEF EncoderInv, Locked
    <3>2. s <= created.sessions
      BY <1>3 DEF EncoderInv, Owns, Has
    <3> QED
      BY <3>1, <3>2, SessionNumbers
  <2> QED
    BY <2>1 DEF EncoderInv, Locked
<1>7. Put' /\ Room'
  BY <1>3, <1>4, RoomStays DEF EncoderInv, Put
<1>8. Prepared'
  <2>1. ASSUME NEW r \in Encoder!Sessions, Encoder!Busy(r)'
        PROVE  /\ sess'[r].config /\ Encoder!OfTheJob \subseteq given'[r]
               /\ sess'[r].encoding /\ sess'[r].abort_state # "DONE"
    <3>1. Encoder!Busy(r) /\ r # s
      BY <1>3, <2>1
    <3>2. sess'[r] = sess[r] /\ given'[r] = given[r]
      BY <1>4, <3>1
    <3> QED
      BY <3>1, <3>2 DEF EncoderInv, Prepared
  <2>2. ASSUME mgr.at \in AtWork
        PROVE  /\ mgr.s \in Encoder!Sessions /\ sess'[mgr.s] = sess[mgr.s] /\ ~Encoder!Busy(mgr.s)'
               /\ given'[mgr.s] = given[mgr.s]
    <3>1. mgr.s \in Encoder!Sessions /\ mgr.s # s /\ ~Encoder!Busy(mgr.s)
      BY <1>2, <2>2, ManagerHolds
    <3>2. ~Encoder!Busy(mgr.s)'
      BY <1>1, <3>1 DEF Encoder!Busy
    <3> QED
      BY <1>4, <3>1, <3>2
  <2>3. mgr' = mgr /\ (mgr.at \in {"params", "begin"} => mgr.at \in AtWork)
    BY DEF AtWork
  <2> QED
    BY <2>1, <2>2, <2>3 DEF EncoderInv, Prepared
<1>9. Stopping'
  <2>1. \A r \in Encoder!Sessions : sess'[r].abort_state = sess[r].abort_state
    OBVIOUS
  <2> QED
    BY <1>3, <2>1 DEF EncoderInv, Stopping
<1>10. Unanswered'
  <2>1. /\ comp'[s] # "working"
        /\ \A r \in Encoder!Sessions : sess'[r].job = sess[r].job
    BY <1>1
  <2> QED
    BY <1>1, <2>1, StillFresh
<1> QED
  BY <1>4, <1>5, <1>6, <1>7, <1>8, <1>9, <1>10 DEF EncoderInv

\* A picture is encoded: the client is called back unless it aborts the session.
LEMMA Encoded ==
  ASSUME Encoder!JpegAssumption, EncoderInv, NEW s \in Encoder!Sessions, Encoder!mm_jpeg_fbd(s)
  PROVE  EncoderInv'
<1>1. /\ comp[s] = "working"
      /\ UNCHANGED <<given, asked, sess, session_handle_q, out_buf_q, job_queue, ongoing_job_q,
                     job_sem, job_lock, mgr, client, created, started, quit, over>>
  BY DEF Encoder!mm_jpeg_fbd, Encoder!setup, Encoder!queues
<1>2. \/ comp' = [comp EXCEPT ![s] = "executing"] /\ told' = told
      \/ comp' = [comp EXCEPT ![s] = "answering"] /\ Encoder!Tell(sess[s].job, "done")
  BY DEF Encoder!mm_jpeg_fbd
<1>3. Encoder!Busy(s) /\ sess[s].job \in Encoder!Jobs
  <2>1. Encoder!Busy(s)
    BY <1>1 DEF Encoder!Busy
  <2>2. sess[s].job \in 1..started
    BY <2>1 DEF Taken, EncoderInv, Owns, Has
  <2> QED
    BY <2>1, <2>2, EncoderFields DEF EncoderInv
<1>4. /\ told' \in [Encoder!Jobs -> Seq({"done", "error"})]
      /\ told' = told \/ (\A y \in Encoder!Jobs : y # sess[s].job => told'[y] = told[y])
  <2>1. CASE told' = told
    BY <2>1 DEF EncoderInv, EncoderTypes
  <2>2. CASE Encoder!Tell(sess[s].job, "done")
    BY <1>3, <2>2, AnswerTells
  <2> QED
    BY <1>2, <2>1, <2>2
<1>5. /\ comp' \in [Encoder!Sessions -> ComponentStates] /\ comp'[s] # "working"
      /\ \A r \in Encoder!Sessions : r # s => comp'[r] = comp[r]
  BY <1>2 DEF EncoderInv, EncoderTypes, ComponentStates
<1>6. sess' \in [Encoder!Sessions -> SessionKind]
  BY <1>1 DEF EncoderInv, EncoderTypes
<1> QED
  BY <1>1, <1>3, <1>4, <1>5, <1>6, ComponentMoves

LEMMA AnswerEnds ==
  ASSUME Encoder!JpegAssumption, EncoderInv, NEW s \in Encoder!Sessions, Encoder!JobAnswered(s)
  PROVE  EncoderInv'
<1>1. /\ Encoder!Busy(s) /\ comp' = [comp EXCEPT ![s] = "executing"]
      /\ Encoder!mm_jpegenc_job_done(s) /\ sess' = [sess EXCEPT ![s].encoding = FALSE]
      /\ UNCHANGED <<asked, job_queue, job_lock, mgr, client, created, started, told, quit, over>>
  BY DEF Encoder!JobAnswered, Encoder!Busy
<1>2. /\ sess' \in [Encoder!Sessions -> SessionKind]
      /\ \A r \in Encoder!Sessions : r # s => sess'[r] = sess[r]
      /\ sess'[s].job = sess[s].job /\ sess'[s].dst = sess[s].dst
      /\ sess'[s].config = sess[s].config /\ sess'[s].abort_state = sess[s].abort_state
  <2>1. sess \in [Encoder!Sessions -> SessionKind]
    BY DEF EncoderInv, EncoderTypes
  <2> QED
    BY <1>1, <2>1 DEF SessionKind
<1>3. /\ told' \in [Encoder!Jobs -> Seq({"done", "error"})]
      /\ \A y \in Encoder!Jobs : y # sess[s].job => told'[y] = told[y]
  BY <1>1 DEF EncoderInv, EncoderTypes
<1> QED
  BY <1>1, <1>2, <1>3, ComponentDone

LEMMA EncodeError ==
  ASSUME Encoder!JpegAssumption, EncoderInv, NEW s \in Encoder!Sessions, Encoder!ErrorEvent(s)
  PROVE  EncoderInv'
<1>1. /\ Encoder!Busy(s) /\ comp' = [comp EXCEPT ![s] = "executing"]
      /\ Encoder!Tell(sess[s].job, "error") /\ Encoder!mm_jpegenc_job_done(s)
      /\ sess' = [sess EXCEPT ![s].error_flag = TRUE, ![s].encoding = FALSE]
      /\ UNCHANGED <<asked, job_queue, job_lock, mgr, client, created, started, quit, over>>
  BY DEF Encoder!ErrorEvent, Encoder!Busy
<1>2. /\ sess' \in [Encoder!Sessions -> SessionKind]
      /\ \A r \in Encoder!Sessions : r # s => sess'[r] = sess[r]
      /\ sess'[s].job = sess[s].job /\ sess'[s].dst = sess[s].dst
      /\ sess'[s].config = sess[s].config /\ sess'[s].abort_state = sess[s].abort_state
  <2>1. sess \in [Encoder!Sessions -> SessionKind]
    BY DEF EncoderInv, EncoderTypes
  <2>2. PICK t : t = [sess[s] EXCEPT !.error_flag = TRUE, !.encoding = FALSE]
    OBVIOUS
  <2>3. /\ t \in SessionKind /\ t.job = sess[s].job /\ t.dst = sess[s].dst
        /\ t.config = sess[s].config /\ t.abort_state = sess[s].abort_state
    BY <2>1, <2>2 DEF SessionKind
  <2>4. sess' = [sess EXCEPT ![s] = t]
    BY <1>1, <2>1, <2>2
  <2>5. sess'[s] = t /\ \A r \in Encoder!Sessions : r # s => sess'[r] = sess[r]
    BY ONLY <2>1, <2>4
  <2>6. sess' \in [Encoder!Sessions -> SessionKind]
    BY ONLY <2>1, <2>3, <2>4
  <2> QED
    BY <2>3, <2>5, <2>6
<1>3. sess[s].job \in Encoder!Jobs
  <2>1. sess[s].job \in 1..started
    BY <1>1 DEF Taken, EncoderInv, Owns, Has
  <2> QED
    BY <2>1, EncoderFields DEF EncoderInv
<1>4. /\ told' \in [Encoder!Jobs -> Seq({"done", "error"})]
      /\ \A y \in Encoder!Jobs : y # sess[s].job => told'[y] = told[y]
  BY <1>1, <1>3, AnswerTells
<1> QED
  BY <1>1, <1>2, <1>4, ComponentDone

\* Any event ends the wait of who is aborting, with the component at rest.
LEMMA StateEvents ==
  ASSUME Encoder!JpegAssumption, EncoderInv, NEW s \in Encoder!Sessions,
         Encoder!StateEvent(s) \/ Encoder!StateError(s)
  PROVE  EncoderInv'
<1>1. UNCHANGED <<given, asked, session_handle_q, out_buf_q, job_queue, ongoing_job_q, job_sem,
                  job_lock, mgr, client, created, started, told, quit, over>>
  BY DEF Encoder!StateEvent, Encoder!StateError, Encoder!setup, Encoder!queues
<1>2. PICK state \in {"idle", "executing", "loaded"} : comp' = [comp EXCEPT ![s] = state]
  BY DEF Encoder!StateEvent, Encoder!StateError
<1>3. \/ sess' = [sess EXCEPT ![s].abort_state = IF @ = "INIT" THEN "DONE" ELSE @]
      \/ sess' = [sess EXCEPT ![s].error_flag = TRUE]
  BY DEF Encoder!StateEvent, Encoder!StateError
<1>4. sess \in [Encoder!Sessions -> SessionKind]
  BY DEF EncoderInv, EncoderTypes
<1>5. /\ sess' \in [Encoder!Sessions -> SessionKind]
      /\ \A r \in Encoder!Sessions : r # s => sess'[r] = sess[r]
      /\ sess'[s].job = sess[s].job /\ sess'[s].dst = sess[s].dst
      /\ sess'[s].config = sess[s].config /\ sess'[s].encoding = sess[s].encoding
      /\ \/ sess'[s].abort_state = sess[s].abort_state
         \/ sess[s].abort_state = "INIT" /\ sess'[s].abort_state = "DONE"
  <2>1. CASE sess' = [sess EXCEPT ![s].abort_state = IF @ = "INIT" THEN "DONE" ELSE @]
    <3>1. PICK z \in {"NONE", "INIT", "DONE"} :
             /\ sess' = [sess EXCEPT ![s].abort_state = z]
             /\ z = sess[s].abort_state \/ (sess[s].abort_state = "INIT" /\ z = "DONE")
      <4>1. sess[s].abort_state \in {"NONE", "INIT", "DONE"}
        BY EncoderFields DEF EncoderInv
      <4> QED
        BY <2>1, <4>1
    <3> QED
      BY <1>4, <3>1 DEF SessionKind
  <2>2. CASE sess' = [sess EXCEPT ![s].error_flag = TRUE]
    BY <1>4, <2>2 DEF SessionKind
  <2> QED
    BY <1>3, <2>1, <2>2
<1>6. /\ comp' \in [Encoder!Sessions -> ComponentStates] /\ comp'[s] = state
      /\ \A r \in Encoder!Sessions : r # s => comp'[r] = comp[r]
  BY <1>2 DEF EncoderInv, EncoderTypes, ComponentStates
<1>7. comp'[s] # "working" /\ ~Encoder!Busy(s)'
  BY <1>6 DEF Encoder!Busy
<1>8. told' \in [Encoder!Jobs -> Seq({"done", "error"})]
  BY <1>1 DEF EncoderInv, EncoderTypes
<1> QED
  BY <1>1, <1>5, <1>6, <1>7, <1>8, ComponentMoves

-----------------------------------------------------------------------------
(* Every step, and what the invariant says. *)

LEMMA NextEncoder ==
  ASSUME Encoder!JpegAssumption, EncoderInv, [Encoder!Next]_(Encoder!vars)
  PROVE  EncoderInv'
<1>1. CASE Encoder!Call
  <2>1. \/ Encoder!jpeg_open \/ Encoder!mm_jpeg_create_session \/ Encoder!mm_jpeg_start_job
        \/ Encoder!mm_jpeg_destroy_session \/ Encoder!mm_jpeg_close
        \/ \E j \in Encoder!Jobs : Encoder!mm_jpeg_abort_job(j)
    BY Zenon, <1>1 DEF Encoder!Call
  <2> QED
    BY <2>1, OpenEncoder, CreateSessions, StartJob, DropAllJobs, AbortJob
<1>2. CASE Encoder!CallGoesOn
  <2>1. \/ Encoder!mm_jpeg_session_abort \/ Encoder!SessionAborted \/ Encoder!AbortDone
        \/ Encoder!StopComponent \/ Encoder!Destroyed
        \/ Encoder!mm_jpeg_jobmgr_thread_release \/ Encoder!mm_jpeg_deinit
    BY Zenon, <1>2 DEF Encoder!CallGoesOn
  <2> QED
    BY <2>1, SessionAbort, WaitEnds, AbortReturns, StopOne, DestroyReturns, ReleaseManager, Deinit
<1>3. CASE Encoder!mm_jpeg_jobmgr_thread
  <2>1. \/ Encoder!MgrWait \/ Encoder!PutBack \/ Encoder!mm_jpeg_process_encoding_job
        \/ Encoder!MgrNothing \/ Encoder!MgrExit \/ Encoder!mm_jpeg_session_encode
        \/ Encoder!mm_jpeg_session_configure
        \/ \E state \in {"idle", "executing"} :
              Encoder!mm_jpeg_session_change_state(state) \/ Encoder!StateChanged(state)
        \/ Encoder!mm_jpeg_configure_job_params \/ Encoder!EmptyAndFill \/ Encoder!EncodeFails
        \/ Encoder!MgrRelease
    BY Zenon, <1>3 DEF Encoder!mm_jpeg_jobmgr_thread
  <2>2. CASE Encoder!MgrWait \/ Encoder!PutBack \/ Encoder!mm_jpeg_process_encoding_job
             \/ Encoder!MgrNothing \/ Encoder!MgrExit \/ Encoder!MgrRelease
    BY <2>2, ManagerWaits, PutsBack, ProcessJob, ManagerRests, ManagerEnds
  <2>3. CASE \/ Encoder!mm_jpeg_session_encode \/ Encoder!mm_jpeg_session_configure
             \/ \E state \in {"idle", "executing"} :
                   Encoder!mm_jpeg_session_change_state(state) \/ Encoder!StateChanged(state)
             \/ Encoder!mm_jpeg_configure_job_params \/ Encoder!EmptyAndFill \/ Encoder!EncodeFails
    BY <2>3, EncodeBegins, Configures, ChangesState, StateHasChanged, ConfiguresJob,
       BeginsToEncode, EncodeHasFailed
  <2> QED
    BY <2>1, <2>2, <2>3
<1>4. CASE \E s \in Encoder!Sessions : Encoder!Component(s)
  <2>1. PICK s \in Encoder!Sessions :
           \/ Encoder!mm_jpeg_fbd(s) \/ Encoder!JobAnswered(s) \/ Encoder!ErrorEvent(s)
           \/ Encoder!StateEvent(s) \/ Encoder!StateError(s)
    BY Zenon, <1>4 DEF Encoder!Component, Encoder!mm_jpeg_event_handler
  <2> QED
    BY <2>1, Encoded, AnswerEnds, EncodeError, StateEvents
<1>5. CASE UNCHANGED Encoder!vars
  <2>1. UNCHANGED <<sess, comp, given, asked, session_handle_q, out_buf_q, job_queue, ongoing_job_q,
                    job_sem, job_lock, mgr, client, created, started, told, quit, over>>
    BY <1>5 DEF Encoder!vars
  <2>2. EncoderTypes'
    BY <2>1 DEF EncoderInv, EncoderTypes
  <2>3. Locked' /\ Free' /\ Queued' /\ Buffers'
    BY <2>1 DEF EncoderInv, Locked, Free, Queued, Buffers
  <2>4. Put' /\ Owns' /\ Alone'
    BY <2>1 DEF EncoderInv, Put, Owns, Has, Listed, Encoder!GivenUp, Alone, Taken, Held, Encoder!Busy
  <2>5. Prepared' /\ Stopping' /\ Unanswered' /\ Room'
    BY <2>1 DEF EncoderInv, Prepared, Stopping, Unanswered, Fresh, Room, Encoder!Busy
  <2> QED
    BY <2>2, <2>3, <2>4, <2>5 DEF EncoderInv
<1> QED
  BY Zenon, <1>1, <1>2, <1>3, <1>4, <1>5 DEF Encoder!Next

\* The jobs that the client still wants are as many as are done at a time.
LEMMA WantedFit ==
  ASSUME Encoder!JpegAssumption, EncoderInv
  PROVE  Encoder!Cardinality({s \in Encoder!Sessions : Encoder!Wanted(s)}) <= MaxOngoing
<1> DEFINE W == {s \in Encoder!Sessions : Encoder!Wanted(s)}
<1>1. PICK n : n = Len(ongoing_job_q) /\ n \in Nat /\ DOMAIN ongoing_job_q = 1..n /\ n <= MaxOngoing
  BY LenProperties DEF EncoderInv, EncoderTypes, Room
<1>2. \A s \in W : \E i \in 1..n : ongoing_job_q[i] = sess[s].job
  <2>1. ASSUME NEW s \in W PROVE In(ongoing_job_q, sess[s].job)
    <3>1. Encoder!Busy(s) /\ ~Encoder!GivenUp(sess[s].job)
      BY DEF Encoder!Wanted
    <3> QED
      BY <3>1 DEF EncoderInv, Owns, Listed, Taken
  <2> QED
    BY <1>1, <2>1 DEF In
<1>3. \A r, s \in W : sess[r].job = sess[s].job => r = s
  BY DEF EncoderInv, Alone, Taken, Encoder!Wanted
<1>4. PICK f : f = [s \in W |-> CHOOSE i \in 1..n : ongoing_job_q[i] = sess[s].job]
  OBVIOUS
<1>5. \A s \in W : f[s] \in 1..n /\ ongoing_job_q[f[s]] = sess[s].job
  BY <1>2, <1>4
<1>6. f \in Injection(W, 1..n)
  <2>1. f \in [W -> 1..n]
    BY <1>4, <1>5
  <2>2. \A r, s \in W : f[r] = f[s] => r = s
    BY <1>3, <1>5
  <2> QED
    BY <2>1, <2>2 DEF Injection, IsInjective
<1>7. IsFiniteSet(1..n) /\ Cardinality(1..n) = n /\ IsFiniteSet(W)
  <2>1. IsFiniteSet(Encoder!Sessions)
    BY EncoderNumbers, FS_Interval
  <2>2. IsFiniteSet(W)
    BY <2>1, FS_Subset
  <2>3. IsFiniteSet(1..n) /\ Cardinality(1..n) = n
    <3>1. 1 \in Int /\ n \in Int /\ (IF 1 > n THEN 0 ELSE n - 1 + 1) = n
      BY <1>1
    <3> QED
      BY ONLY <3>1, FS_Interval
  <2> QED
    BY <2>2, <2>3
<1> HIDE DEF W
<1>8. Cardinality(W) <= n /\ Cardinality(W) \in Nat
  BY <1>6, <1>7, FS_Injection, FS_CardinalityType DEF ExistsInjection
<1>9. Cardinality(W) <= MaxOngoing
  BY <1>1, <1>8, EncoderNumbers
<1>10. \A S : Encoder!Cardinality(S) = Cardinality(S)
  BY DEF Cardinality, Encoder!Cardinality
<1> QED
  BY <1>9, <1>10 DEF W

LEMMA ContainsIn ==
  ASSUME NEW S, NEW q \in Seq(S), NEW x
  PROVE  Encoder!Contains(q, x) <=> In(q, x)
<1>1. DOMAIN q = 1..Len(q)
  BY LenProperties
<1> QED
  BY <1>1 DEF Encoder!Contains, In

\* The invariant is what the encoder's own says, and more.
LEMMA InvEncoder ==
  ASSUME Encoder!JpegAssumption, EncoderInv
  PROVE  Encoder!TypeOK /\ Encoder!JobsApart /\ Encoder!WithinEngine
<1>1. Encoder!TypeOK
  BY EncoderFields DEF EncoderInv, EncoderTypes, Encoder!TypeOK, ComponentStates
<1>2. /\ \A s : Encoder!Contains(session_handle_q, s) <=> In(session_handle_q, s)
      /\ \A b : Encoder!Contains(out_buf_q, b) <=> In(out_buf_q, b)
      /\ \A j : Encoder!Contains(ongoing_job_q, j) <=> In(ongoing_job_q, j)
  BY ContainsIn DEF EncoderInv, EncoderTypes
<1>3. ASSUME NEW s \in Encoder!Sessions, Encoder!Busy(s)
      PROVE  /\ sess[s].config /\ Encoder!OfTheJob \subseteq given[s]
             /\ ~Encoder!Contains(session_handle_q, s) /\ ~Encoder!Contains(out_buf_q, sess[s].dst)
             /\ \A r \in Encoder!Sessions \ {s} : Encoder!Busy(r) =>
                     sess[r].dst # sess[s].dst /\ sess[r].job # sess[s].job
             /\ Encoder!GivenUp(sess[s].job) \/ Encoder!Contains(ongoing_job_q, sess[s].job)
  <2>1. Taken(s) /\ \A r : Encoder!Busy(r) => Taken(r)
    BY <1>3 DEF Taken
  <2>2. Has(s) /\ Listed(s)
    BY <2>1 DEF EncoderInv, Owns
  <2>3. sess[s].config /\ Encoder!OfTheJob \subseteq given[s]
    BY <1>3 DEF EncoderInv, Prepared
  <2>4. \A r \in Encoder!Sessions \ {s} : Encoder!Busy(r) =>
           sess[r].dst # sess[s].dst /\ sess[r].job # sess[s].job
    BY <2>1 DEF EncoderInv, Alone
  <2> QED
    BY <1>2, <2>2, <2>3, <2>4 DEF Has, Listed
<1>4. Encoder!JobsApart
  BY <1>3 DEF Encoder!JobsApart
<1>5. Encoder!WithinEngine
  <2>1. Len(ongoing_job_q) <= MaxOngoing
    BY DEF EncoderInv, Room
  <2>2. \A s \in Encoder!Sessions :
           Encoder!Wanted(s) => Encoder!Contains(ongoing_job_q, sess[s].job)
    BY <1>3 DEF Encoder!Wanted
  <2> QED
    BY <2>1, <2>2, WantedFit DEF Encoder!WithinEngine
<1> QED
  BY <1>1, <1>4, <1>5

\* Only a job that was not answered is, and only while its session is there: the
\* manager answers its own, a component the job it encodes.
LEMMA AnswersOnce ==
  ASSUME Encoder!JpegAssumption, EncoderInv, [Encoder!Next]_(Encoder!vars)
  PROVE  \A j \in Encoder!Jobs : told'[j] # told[j] => told[j] = <<>> /\ j \notin over
<1>1. CASE told' = told
  BY <1>1
<1>2. CASE mgr.at \in AtWork /\ Encoder!Tell(mgr.job, "error")
  <2>1. mgr.job \in Encoder!Jobs /\ Fresh(mgr.job)
    BY <1>2, ManagerHolds DEF EncoderInv, Unanswered
  <2> QED
    BY <1>2, <2>1, AnswerTells DEF Fresh
<1>3. ASSUME NEW s \in Encoder!Sessions, NEW what \in {"done", "error"}, comp[s] = "working",
             Encoder!Tell(sess[s].job, what)
      PROVE  \A j \in Encoder!Jobs : told'[j] # told[j] => told[j] = <<>> /\ j \notin over
  <2>1. Fresh(sess[s].job) /\ sess[s].job \in 1..started
    BY <1>3 DEF EncoderInv, Unanswered, Owns, Has, Taken, Encoder!Busy
  <2>2. sess[s].job \in Encoder!Jobs
    BY <2>1, EncoderFields DEF EncoderInv
  <2> QED
    BY <1>3, <2>1, <2>2, AnswerTells DEF Fresh
<1>4. CASE Encoder!Call \/ Encoder!CallGoesOn \/ UNCHANGED Encoder!vars
  <2>1. told' = told
    <3>1. Encoder!Call => told' = told
      BY DEF Encoder!Call, Encoder!jpeg_open, Encoder!mm_jpeg_create_session,
             Encoder!mm_jpeg_start_job, Encoder!mm_jpeg_destroy_session, Encoder!mm_jpeg_close,
             Encoder!DropJobs, Encoder!mm_jpeg_abort_job
    <3>2. Encoder!CallGoesOn => told' = told
      BY DEF Encoder!CallGoesOn, Encoder!mm_jpeg_session_abort, Encoder!SessionAborted,
             Encoder!AbortDone, Encoder!StopComponent, Encoder!Destroyed,
             Encoder!mm_jpeg_jobmgr_thread_release, Encoder!mm_jpeg_deinit
    <3>3. UNCHANGED Encoder!vars => told' = told
      BY DEF Encoder!vars
    <3> QED
      BY <1>4, <3>1, <3>2, <3>3
  <2> QED
    BY <1>1, <2>1
<1>5. CASE Encoder!mm_jpeg_jobmgr_thread
  <2>1. told' = told \/ (mgr.at \in AtWork /\ Encoder!Tell(mgr.job, "error"))
    <3>1. \A place : Encoder!Goes(place) => told' = told
      BY DEF Encoder!Goes
    <3>2. Encoder!JobFails => Encoder!Tell(mgr.job, "error")
      BY DEF Encoder!JobFails
    <3>3. CASE Encoder!MgrWait \/ Encoder!PutBack \/ Encoder!mm_jpeg_process_encoding_job
               \/ Encoder!MgrNothing \/ Encoder!MgrExit \/ Encoder!MgrRelease
               \/ Encoder!mm_jpeg_session_encode \/ Encoder!EmptyAndFill
      BY <3>3 DEF Encoder!MgrWait, Encoder!PutBack, Encoder!mm_jpeg_process_encoding_job,
                  Encoder!MgrNothing, Encoder!MgrExit, Encoder!MgrRelease,
                  Encoder!mm_jpeg_session_encode, Encoder!EmptyAndFill
    <3>4. CASE Encoder!mm_jpeg_session_configure \/ Encoder!EncodeFails
      BY <3>1, <3>2, <3>4 DEF Encoder!mm_jpeg_session_configure, Encoder!JobFailsUnless,
                              Encoder!EncodeFails, AtWork
    <3>5. ASSUME NEW state \in {"idle", "executing"},
                 Encoder!mm_jpeg_session_change_state(state) \/ Encoder!StateChanged(state)
          PROVE  told' = told \/ (mgr.at \in AtWork /\ Encoder!Tell(mgr.job, "error"))
      BY <3>1, <3>2, <3>5, StatePlaces DEF Encoder!mm_jpeg_session_change_state,
            Encoder!JobFailsUnless, Encoder!StateChanged
    <3>6. CASE Encoder!mm_jpeg_configure_job_params
      <4>1. mgr.at \in AtWork
        BY <3>6 DEF Encoder!mm_jpeg_configure_job_params, AtWork
      <4>2. Encoder!JobFails \/ Encoder!Goes("begin")
        BY Zenon, <3>6 DEF Encoder!mm_jpeg_configure_job_params
      <4> QED
        BY <3>1, <3>2, <4>1, <4>2
    <3>7. \/ Encoder!MgrWait \/ Encoder!PutBack \/ Encoder!mm_jpeg_process_encoding_job
          \/ Encoder!MgrNothing \/ Encoder!MgrExit \/ Encoder!mm_jpeg_session_encode
          \/ Encoder!mm_jpeg_session_configure
          \/ \E state \in {"idle", "executing"} :
                Encoder!mm_jpeg_session_change_state(state) \/ Encoder!StateChanged(state)
          \/ Encoder!mm_jpeg_configure_job_params \/ Encoder!EmptyAndFill \/ Encoder!EncodeFails
          \/ Encoder!MgrRelease
      BY Zenon, <1>5 DEF Encoder!mm_jpeg_jobmgr_thread
    <3> QED
      BY <3>3, <3>4, <3>5, <3>6, <3>7
  <2> QED
    BY <1>1, <1>2, <2>1
<1>6. CASE \E s \in Encoder!Sessions : Encoder!Component(s)
  <2>1. PICK s \in Encoder!Sessions :
           \/ Encoder!mm_jpeg_fbd(s) \/ Encoder!JobAnswered(s) \/ Encoder!ErrorEvent(s)
           \/ Encoder!StateEvent(s) \/ Encoder!StateError(s)
    BY Zenon, <1>6 DEF Encoder!Component, Encoder!mm_jpeg_event_handler
  <2>2. \/ told' = told
        \/ \E what \in {"done", "error"} : comp[s] = "working" /\ Encoder!Tell(sess[s].job, what)
    BY <2>1 DEF Encoder!mm_jpeg_fbd, Encoder!JobAnswered, Encoder!ErrorEvent, Encoder!StateEvent,
                Encoder!StateError
  <2> QED
    BY <1>1, <1>3, <2>2
<1> QED
  BY Zenon, <1>4, <1>5, <1>6 DEF Encoder!Next

-----------------------------------------------------------------------------
(***************************************************************************)
(* The requests of the third camera HAL (QCamera3Requests), for any number *)
(* of frames and kinds of request, with results that are lost or late, with *)
(* buffers that are not filled and with flushes: what holds the framework   *)
(* back is what is in flight, each buffer goes back once, results go in the *)
(* order of the frames, and a flush leaves none without an answer.          *)
(***************************************************************************)
CONSTANTS Kinds, MinInflight, MaxInflight, MetaLost, Drops, Flushes, Waits5s, MaxFrames
VARIABLES mPendingRequestsList, mPendingBuffers, mPendingFrameDropList,
          mPendingReprocessResultList, mPendingRequest, mFlush, mFirstRequest,
          mWokenUpByDaemon, caller, signalled, toStop, kindOf, metas, bufs, pic, lost, fw

Requests == INSTANCE QCamera3Requests

RequestKind ==
    [frame : Nat, kind : Kinds, urgent : BOOLEAN, here : SUBSET Requests!Streams]
ResultKind == [frame : Nat, dummy : BOOLEAN]
Outcome == {"shutters", "results", "back", "bad", "bufferErrors", "requestErrors", "inputs"}

\* A request is in the list; it came with its own input.
Pending(f) == \E i \in DOMAIN mPendingRequestsList : mPendingRequestsList[i].frame = f
Reprocessed(f) == kindOf[f] = "reprocess"

RequestTypes ==
    /\ mPendingRequestsList \in Seq(RequestKind)
    /\ kindOf \in Seq(Kinds) /\ metas \in Seq(Nat)
    /\ mPendingRequest \in Int /\ caller \in {"idle", "wait", "failed"}
    /\ toStop \in {<<"p", "blob", "meta">>, <<"blob", "meta">>, <<"meta">>, <<>>}
    /\ DOMAIN fw = Outcome /\ fw.shutters \in Seq(Nat)
    /\ fw.results \in Seq(ResultKind) /\ fw.back \in Seq(Nat \X Requests!Streams)

\* What the lists hold was given, and as it was given.
RequestsKnown ==
    /\ \A i \in DOMAIN mPendingRequestsList :
          /\ mPendingRequestsList[i].frame \in Requests!Given
          /\ mPendingRequestsList[i].kind = kindOf[mPendingRequestsList[i].frame]
          /\ mPendingRequestsList[i].here \subseteq Requests!Asked(mPendingRequestsList[i].kind)
    /\ mPendingBuffers \subseteq Requests!Buffers
    /\ \A i \in DOMAIN fw.back : fw.back[i] \in Requests!Buffers
    /\ \A i \in DOMAIN metas : metas[i] \in Requests!Given /\ ~Reprocessed(metas[i])
    /\ \A g \in mPendingReprocessResultList : g \in Requests!Given /\ Reprocessed(g)
    /\ \A i \in DOMAIN fw.results : fw.results[i].frame \in Requests!Given

Ascending ==
    /\ \A i, j \in DOMAIN mPendingRequestsList :
          i < j => mPendingRequestsList[i].frame < mPendingRequestsList[j].frame
    /\ \A i, j \in DOMAIN metas : i < j => metas[i] < metas[j]

\* The caller's counter; the first request of a configuration finds the list empty.
RequestsCounted ==
    /\ ~mFlush => mPendingRequest = Len(mPendingRequestsList)
    /\ ~mFlush /\ mFirstRequest => mPendingRequestsList = <<>>

\* What the channels that flush() has stopped had is gone.
RequestsFlushed ==
    /\ ~mFlush => toStop = <<>>
    /\ mFlush => \A b \in bufs : \E i \in DOMAIN toStop : toStop[i] = b[2]
    /\ mFlush /\ toStop = <<>> => metas = <<>>

\* A buffer is pending, with the backend before and with its request after it was
\* filled, or with a reprocess that is held back, or with the framework.
BufferPlaces ==
    /\ bufs \subseteq mPendingBuffers
    /\ \A i, j \in DOMAIN fw.back : fw.back[i] = fw.back[j] => i = j
    /\ \A i \in DOMAIN fw.back : fw.back[i] \notin mPendingBuffers
    /\ \A i \in DOMAIN mPendingRequestsList : \A s \in mPendingRequestsList[i].here :
          /\ <<mPendingRequestsList[i].frame, s>> \in mPendingBuffers \ bufs
          /\ mPendingRequestsList[i].kind # "reprocess"
    /\ \A g \in mPendingReprocessResultList :
          /\ <<g, "blob">> \notin mPendingBuffers
          /\ \A i \in DOMAIN fw.back : fw.back[i] # <<g, "blob">>

\* One reprocess request is pending at a time.
OneInput ==
    /\ \A i, j \in DOMAIN mPendingRequestsList :
          (/\ mPendingRequestsList[i].kind = "reprocess"
           /\ mPendingRequestsList[j].kind = "reprocess") => i = j
    /\ \A g \in fw.inputs : g \in Requests!Given /\ ~Pending(g)

\* Unless metadata gets lost, each request of the cameras' that is pending has
\* metadata to come, or came after all that is left of it when a flush began.
MetaToCome ==
    ~MetaLost =>
    \A j \in DOMAIN mPendingRequestsList :
        mPendingRequestsList[j].kind # "reprocess" =>
        \/ \E m \in DOMAIN metas : metas[m] = mPendingRequestsList[j].frame
        \/ mFlush /\ \A k \in DOMAIN metas : metas[k] < mPendingRequestsList[j].frame

\* The results so far, in order, are of frames before all that are pending.
Ahead ==
    /\ DOMAIN fw.shutters = DOMAIN fw.results
    /\ \A i \in DOMAIN fw.results : fw.shutters[i] = fw.results[i].frame
    /\ \A i, j \in DOMAIN fw.results : i < j => fw.results[i].frame < fw.results[j].frame
    /\ \A i \in DOMAIN fw.results, j \in DOMAIN mPendingRequestsList :
          fw.results[i].frame < mPendingRequestsList[j].frame

\* Each buffer is back or pending, each request listed or answered.
NothingForgotten ==
    /\ \A b \in Requests!Buffers :
          b \in mPendingBuffers \/ \E i \in DOMAIN fw.back : fw.back[i] = b
    /\ \A g \in Requests!Given :
          \/ Pending(g) \/ g \in fw.requestErrors
          \/ \E i \in DOMAIN fw.results : fw.results[i].frame = g
    /\ \A i \in DOMAIN mPendingRequestsList :
          \A s \in Requests!Asked(mPendingRequestsList[i].kind) :
              <<mPendingRequestsList[i].frame, s>> \in mPendingBuffers

\* Frames in which no reprocess can overtake a frame whose metadata was lost.
Paired == MetaLost => "reprocess" \notin Kinds

RequestsInv ==
    /\ RequestTypes /\ RequestsKnown /\ Ascending /\ RequestsCounted /\ RequestsFlushed
    /\ BufferPlaces /\ OneInput /\ MetaToCome /\ Requests!RoomForNext
    /\ Paired => Ahead
    /\ "reprocess" \notin Kinds => NothingForgotten

-----------------------------------------------------------------------------
LEMMA RequestLists ==
  ASSUME RequestTypes
  PROVE  /\ Len(mPendingRequestsList) \in Nat
         /\ DOMAIN mPendingRequestsList = 1..Len(mPendingRequestsList)
         /\ \A i \in DOMAIN mPendingRequestsList :
              /\ mPendingRequestsList[i] \in RequestKind
              /\ mPendingRequestsList[i].frame \in Nat /\ mPendingRequestsList[i].kind \in Kinds
         /\ Len(metas) \in Nat /\ DOMAIN metas = 1..Len(metas)
         /\ \A i \in DOMAIN metas : metas[i] \in Nat
         /\ Len(kindOf) \in Nat /\ DOMAIN kindOf = 1..Len(kindOf)
         /\ Requests!Given = 1..Len(kindOf)
<1>1. \A i \in DOMAIN mPendingRequestsList : mPendingRequestsList[i] \in RequestKind
  BY ElementOfSeq, LenProperties DEF RequestTypes
<1>2. \A i \in DOMAIN metas : metas[i] \in Nat
  BY ElementOfSeq, LenProperties DEF RequestTypes
<1>3. Requests!Given = 1..Len(kindOf)
  BY DEF Requests!Given
<1>4. \A r \in RequestKind : r.frame \in Nat /\ r.kind \in Kinds
  BY DEF RequestKind
<1> QED
  BY <1>1, <1>2, <1>3, <1>4, LenProperties DEF RequestTypes

LEMMA InitRequests == Requests!RequestsAssumption /\ Requests!Init => RequestsInv
<1> SUFFICES ASSUME Requests!RequestsAssumption, Requests!Init PROVE RequestsInv
  OBVIOUS
<1>1. RequestTypes
  BY DEF RequestTypes, Requests!Init, Outcome
<1>2. /\ mPendingRequestsList = <<>> /\ metas = <<>> /\ fw.back = <<>> /\ fw.results = <<>>
      /\ fw.shutters = <<>> /\ kindOf = <<>> /\ fw.inputs = {}
  BY DEF Requests!Init
<1>3. Requests!Given = {} /\ Requests!Buffers = {}
  BY <1>2 DEF Requests!Given, Requests!Buffers
<1>4. RequestsKnown /\ BufferPlaces
  BY <1>2, <1>3 DEF RequestsKnown, BufferPlaces, Requests!Init
<1>5. Ascending /\ OneInput /\ MetaToCome /\ Ahead /\ RequestsFlushed
  BY <1>2 DEF Ascending, OneInput, MetaToCome, Ahead, RequestsFlushed, Requests!Init
<1>6. NothingForgotten
  BY <1>2, <1>3 DEF NothingForgotten
<1>7. RequestsCounted /\ Requests!RoomForNext
  BY <1>2 DEF RequestsCounted, Requests!RoomForNext, Requests!Init, Requests!RequestsAssumption
<1> QED
  BY <1>1, <1>4, <1>5, <1>6, <1>7 DEF RequestsInv

-----------------------------------------------------------------------------
(* The steps that touch neither the lists nor what the framework has. *)

LEMMA QuietStep ==
  ASSUME RequestsInv,
         UNCHANGED <<mPendingRequestsList, mPendingBuffers, mPendingReprocessResultList,
                     kindOf, fw, mPendingRequest>>,
         \/ metas' = metas \/ metas' = <<>>
         \/ MetaLost /\ metas # <<>> /\ metas' = Tail(metas),
         bufs' \subseteq bufs, mFlush => mFlush',
         metas' = metas \/ MetaLost \/ mFlush',
         RequestsFlushed', RequestsCounted', Requests!RoomForNext',
         toStop' \in {<<"p", "blob", "meta">>, <<"blob", "meta">>, <<"meta">>, <<>>},
         caller' \in {"idle", "wait", "failed"}
  PROVE  RequestsInv'
<1> USE DEF RequestsInv
<1>1. /\ metas' \in Seq(Nat)
      /\ metas' # metas => \A i \in DOMAIN metas' : i + 1 \in DOMAIN metas /\ metas'[i] = metas[i + 1]
  <2>1. metas \in Seq(Nat) /\ \A i \in DOMAIN metas : metas[i] \in Nat
    BY RequestLists DEF RequestTypes
  <2>2. CASE metas # <<>> /\ metas' = Tail(metas)
    <3>1. /\ metas' \in Seq(Nat) /\ Len(metas') = Len(metas) - 1
          /\ \A i \in 1..Len(metas') : metas'[i] = metas[i + 1]
      BY <2>1, <2>2, HeadTailProperties
    <3>2. /\ Len(metas) \in Nat /\ DOMAIN metas = 1..Len(metas)
          /\ DOMAIN metas' = 1..Len(metas')
      BY <2>1, <3>1, LenProperties
    <3> QED
      BY ONLY <3>1, <3>2
  <2>3. CASE metas' = metas
    BY <2>1, <2>3
  <2>4. CASE metas' = <<>>
    <3>1. <<>> \in Seq(Nat) /\ DOMAIN <<>> = {}
      OBVIOUS
    <3> QED
      BY <2>4, <3>1
  <2> QED
    BY <2>2, <2>3, <2>4
<1>2. RequestTypes'
  BY <1>1 DEF RequestTypes
<1>3. RequestsKnown'
  BY <1>1 DEF RequestsKnown, Requests!Given, Requests!Buffers, Reprocessed
<1>4. Ascending'
  <2>1. \A i \in DOMAIN metas' : i \in Int
    BY <1>2, LenProperties DEF RequestTypes
  <2> QED
    BY <1>1, <2>1 DEF Ascending
<1>5. BufferPlaces'
  BY DEF BufferPlaces
<1>6. OneInput' /\ (Ahead => Ahead') /\ (NothingForgotten => NothingForgotten')
  BY DEF OneInput, Ahead, NothingForgotten, Pending, Requests!Given, Requests!Buffers
<1>7. MetaToCome'
  BY <1>1 DEF MetaToCome
<1> QED
  BY <1>2, <1>3, <1>4, <1>5, <1>6, <1>7

LEMMA WakeKeeps ==
  ASSUME Requests!RequestsAssumption, RequestsInv, Requests!Wake
  PROVE  RequestsInv'
BY QuietStep DEF RequestsInv, Requests!Wake, Requests!list, Requests!ctl, Requests!backend,
     RequestTypes, RequestsFlushed, RequestsCounted, Requests!RoomForNext,
     Requests!RequestsAssumption

LEMMA TimedOutKeeps ==
  ASSUME RequestsInv, Requests!TimedOut
  PROVE  RequestsInv'
BY QuietStep DEF RequestsInv, Requests!TimedOut, Requests!list, Requests!ctl,
     Requests!backend, RequestTypes, RequestsFlushed, RequestsCounted, Requests!RoomForNext

LEMMA DaemonKeeps ==
  ASSUME RequestsInv, Requests!DaemonPullReq
  PROVE  RequestsInv'
BY QuietStep DEF RequestsInv, Requests!DaemonPullReq, Requests!list, Requests!ctl,
     Requests!backend, RequestTypes, RequestsFlushed, RequestsCounted, Requests!RoomForNext

LEMMA FlushKeeps ==
  ASSUME RequestsInv, Requests!flush
  PROVE  RequestsInv'
<1>1. toStop' = <<"p", "blob", "meta">>
  BY DEF Requests!flush, Requests!Channels
<1>2. \A b \in bufs : b[2] \in {"p", "blob"}
  <2>1. \A f, k : \A s \in Requests!Asked(k) : <<f, s>>[2] \in {"p", "blob"}
    BY DEF Requests!Asked, Requests!Streams
  <2> QED
    BY <2>1 DEF RequestsInv, BufferPlaces, RequestsKnown, Requests!Buffers
<1>3. RequestsFlushed'
  <2>1. /\ toStop'[1] = "p" /\ toStop'[2] = "blob" /\ 1 \in DOMAIN toStop'
        /\ 2 \in DOMAIN toStop' /\ toStop' # <<>>
    BY <1>1
  <2> QED
    BY <1>2, <2>1 DEF RequestsFlushed, Requests!flush, Requests!backend
<1> QED
  BY <1>1, <1>3, QuietStep DEF RequestsInv, Requests!flush, Requests!list, Requests!backend,
     RequestTypes, RequestsCounted, Requests!RoomForNext

LEMMA LoseMetaKeeps ==
  ASSUME RequestsInv, Requests!LoseMeta
  PROVE  RequestsInv'
BY QuietStep DEF RequestsInv, Requests!LoseMeta, Requests!list, Requests!ctl,
     RequestTypes, RequestsFlushed, RequestsCounted, Requests!RoomForNext

LEMMA StopChannelKeeps ==
  ASSUME RequestsInv, Requests!StopChannel
  PROVE  RequestsInv'
<1>1. /\ toStop' \in {<<"blob", "meta">>, <<"meta">>, <<>>}
      /\ \A c : (/\ \E i \in DOMAIN toStop : toStop[i] = c
                /\ c # Head(toStop)) => \E i \in DOMAIN toStop' : toStop'[i] = c
      /\ toStop' = <<>> => Head(toStop) = "meta"
  <2>1. CASE toStop = <<"p", "blob", "meta">>
    <3>1. /\ toStop' = <<"blob", "meta">> /\ Head(toStop) = "p"
      BY <2>1 DEF Requests!StopChannel
    <3> QED
      BY <2>1, <3>1
  <2>2. CASE toStop = <<"blob", "meta">>
    <3>1. /\ toStop' = <<"meta">> /\ Head(toStop) = "blob"
      BY <2>2 DEF Requests!StopChannel
    <3> QED
      BY <2>2, <3>1
  <2>3. CASE toStop = <<"meta">>
    <3>1. /\ toStop' = <<>> /\ Head(toStop) = "meta"
      BY <2>3 DEF Requests!StopChannel
    <3> QED
      BY <2>3, <3>1
  <2> QED
    BY <2>1, <2>2, <2>3 DEF RequestsInv, RequestTypes, Requests!StopChannel
<1>2. RequestsFlushed'
  BY <1>1 DEF RequestsInv, RequestsFlushed, Requests!StopChannel
<1>3. mFlush' /\ metas' \in {metas, <<>>}
  BY DEF RequestsInv, RequestsFlushed, Requests!StopChannel
<1> QED
  BY <1>1, <1>2, <1>3, QuietStep DEF RequestsInv, Requests!StopChannel, Requests!list,
     RequestTypes, RequestsCounted, Requests!RoomForNext

LEMMA StutterKeeps == RequestsInv /\ UNCHANGED Requests!vars => RequestsInv'
BY QuietStep DEF RequestsInv, Requests!vars, Requests!list, Requests!ctl, Requests!backend,
     RequestTypes, RequestsFlushed, RequestsCounted, Requests!RoomForNext

-----------------------------------------------------------------------------
(* A request in the list gets its first result, or a buffer. *)

LEMMA RowStep ==
  ASSUME RequestsInv, mPendingRequestsList' \in Seq(RequestKind),
         Len(mPendingRequestsList') = Len(mPendingRequestsList),
         \A j \in DOMAIN mPendingRequestsList :
            /\ mPendingRequestsList'[j].frame = mPendingRequestsList[j].frame
            /\ mPendingRequestsList'[j].kind = mPendingRequestsList[j].kind
            /\ mPendingRequestsList'[j].here \subseteq
                 Requests!Asked(mPendingRequestsList[j].kind),
         UNCHANGED <<mPendingBuffers, mPendingReprocessResultList, mPendingRequest, mFlush,
                     mFirstRequest, caller, toStop, kindOf, metas, fw>>,
         bufs' \subseteq bufs, BufferPlaces'
  PROVE  RequestsInv'
<1> USE DEF RequestsInv
<1>1. /\ DOMAIN mPendingRequestsList' = DOMAIN mPendingRequestsList
      /\ mPendingRequestsList = <<>> => mPendingRequestsList' = <<>>
  BY LenProperties, EmptySeq DEF RequestTypes
<1>2. RequestTypes'
  BY DEF RequestTypes
<1>3. RequestsKnown'
  BY <1>1 DEF RequestsKnown, Requests!Given, Requests!Buffers, Reprocessed
<1>4. Ascending' /\ RequestsCounted' /\ RequestsFlushed' /\ Requests!RoomForNext'
  BY <1>1 DEF Ascending, RequestsCounted, RequestsFlushed, Requests!RoomForNext
<1>5. OneInput'
  BY <1>1 DEF OneInput, Pending, Requests!Given
<1>6. MetaToCome'
  BY <1>1 DEF MetaToCome
<1>7. Ahead => Ahead'
  BY <1>1 DEF Ahead
<1>8. NothingForgotten => NothingForgotten'
  BY <1>1 DEF NothingForgotten, Pending, Requests!Given, Requests!Buffers
<1> QED
  BY <1>2, <1>3, <1>4, <1>5, <1>6, <1>7, <1>8

LEMMA RowChanged ==
  ASSUME RequestTypes, NEW i \in DOMAIN mPendingRequestsList, NEW r \in RequestKind,
         r.frame = mPendingRequestsList[i].frame, r.kind = mPendingRequestsList[i].kind,
         mPendingRequestsList' = [mPendingRequestsList EXCEPT ![i] = r]
  PROVE  /\ mPendingRequestsList' \in Seq(RequestKind)
         /\ Len(mPendingRequestsList') = Len(mPendingRequestsList)
         /\ \A j \in DOMAIN mPendingRequestsList :
              /\ mPendingRequestsList'[j] = IF j = i THEN r ELSE mPendingRequestsList[j]
              /\ mPendingRequestsList'[j].frame = mPendingRequestsList[j].frame
              /\ mPendingRequestsList'[j].kind = mPendingRequestsList[j].kind
<1>1. mPendingRequestsList \in Seq(RequestKind) /\ i \in 1..Len(mPendingRequestsList)
  BY LenProperties DEF RequestTypes
<1>2. mPendingRequestsList' \in Seq(RequestKind) /\ Len(mPendingRequestsList') = Len(mPendingRequestsList)
  BY <1>1, ExceptSeq
<1>3. \A j \in DOMAIN mPendingRequestsList :
        mPendingRequestsList'[j] = IF j = i THEN r ELSE mPendingRequestsList[j]
  BY <1>1
<1> QED
  BY <1>2, <1>3

LEMMA HandleUrgentKeeps ==
  ASSUME RequestsInv, Requests!HandleUrgent
  PROVE  RequestsInv'
<1>1. PICK i \in DOMAIN mPendingRequestsList :
        mPendingRequestsList' = [mPendingRequestsList EXCEPT ![i].urgent = TRUE]
  BY DEF Requests!HandleUrgent
<1> DEFINE r == [mPendingRequestsList[i] EXCEPT !.urgent = TRUE]
<1>2. mPendingRequestsList[i] \in RequestKind
  BY RequestLists DEF RequestsInv
<1>3. /\ r \in RequestKind /\ r.frame = mPendingRequestsList[i].frame
      /\ r.kind = mPendingRequestsList[i].kind /\ r.here = mPendingRequestsList[i].here
  BY ONLY <1>2 DEF RequestKind
<1>4. mPendingRequestsList' = [mPendingRequestsList EXCEPT ![i] = r]
  BY <1>1
<1> HIDE DEF r
<1>5. /\ mPendingRequestsList' \in Seq(RequestKind)
      /\ Len(mPendingRequestsList') = Len(mPendingRequestsList)
      /\ \A j \in DOMAIN mPendingRequestsList :
           /\ mPendingRequestsList'[j].frame = mPendingRequestsList[j].frame
           /\ mPendingRequestsList'[j].kind = mPendingRequestsList[j].kind
           /\ mPendingRequestsList'[j].here = mPendingRequestsList[j].here
  BY <1>3, <1>4, RowChanged DEF RequestsInv
<1>6. /\ UNCHANGED <<mPendingBuffers, mPendingReprocessResultList, mPendingRequest, mFlush,
                     mFirstRequest, caller, toStop, kindOf, metas, fw, bufs>>
  BY DEF Requests!HandleUrgent, Requests!ctl, Requests!backend
<1>7. DOMAIN mPendingRequestsList' = DOMAIN mPendingRequestsList
  BY <1>5, LenProperties DEF RequestsInv, RequestTypes
<1>8. BufferPlaces'
  BY <1>5, <1>6, <1>7 DEF RequestsInv, BufferPlaces
<1>9. \A j \in DOMAIN mPendingRequestsList :
        mPendingRequestsList'[j].here \subseteq Requests!Asked(mPendingRequestsList[j].kind)
  BY <1>5 DEF RequestsInv, RequestsKnown
<1> QED
  BY <1>5, <1>6, <1>8, <1>9, RowStep

\* What a buffer that comes belongs to.
LEMMA BufferFacts ==
  ASSUME RequestsInv, NEW b \in bufs
  PROVE  /\ b \in Requests!Buffers /\ b \in mPendingBuffers
         /\ b = <<b[1], b[2]>> /\ b[1] \in Requests!Given /\ b[1] \in Nat
         /\ b[2] \in Requests!Streams /\ b[2] \in Requests!Asked(kindOf[b[1]])
<1>1. b \in Requests!Buffers /\ b \in mPendingBuffers
  BY DEF RequestsInv, BufferPlaces, RequestsKnown
<1>2. PICK f \in Requests!Given : \E s \in Requests!Asked(kindOf[f]) : b = <<f, s>>
  BY <1>1 DEF Requests!Buffers
<1>3. f \in Nat
  BY <1>2, RequestLists DEF RequestsInv
<1>4. \A k : Requests!Asked(k) \subseteq Requests!Streams
  BY DEF Requests!Asked, Requests!Streams
<1> QED
  BY <1>1, <1>2, <1>3, <1>4

LEMMA KeepBufferKeeps ==
  ASSUME RequestsInv, NEW b \in bufs, Requests!KeepBuffer(b[1], b[2]), bufs' = bufs \ {b},
         UNCHANGED <<caller, mFlush, mFirstRequest, toStop, kindOf, metas>>
  PROVE  RequestsInv'
<1>1. PICK i \in DOMAIN mPendingRequestsList :
        /\ mPendingRequestsList[i].frame = b[1]
        /\ mPendingRequestsList[i].kind # "reprocess"
        /\ mPendingRequestsList' = [mPendingRequestsList EXCEPT ![i].here = @ \cup {b[2]}]
  BY DEF Requests!KeepBuffer, Requests!IsReproc
<1> DEFINE r == [mPendingRequestsList[i] EXCEPT !.here = @ \cup {b[2]}]
<1>2. mPendingRequestsList[i] \in RequestKind
  BY RequestLists DEF RequestsInv
<1>3. /\ r \in RequestKind /\ r.frame = mPendingRequestsList[i].frame
      /\ r.kind = mPendingRequestsList[i].kind
      /\ r.here = mPendingRequestsList[i].here \cup {b[2]}
  <2>1. b[2] \in Requests!Streams
    BY BufferFacts
  <2> QED
    BY ONLY <1>2, <2>1 DEF RequestKind
<1>4. mPendingRequestsList' = [mPendingRequestsList EXCEPT ![i] = r]
  BY <1>1
<1> HIDE DEF r
<1>5. /\ mPendingRequestsList' \in Seq(RequestKind)
      /\ Len(mPendingRequestsList') = Len(mPendingRequestsList)
      /\ \A j \in DOMAIN mPendingRequestsList :
           /\ mPendingRequestsList'[j].frame = mPendingRequestsList[j].frame
           /\ mPendingRequestsList'[j].kind = mPendingRequestsList[j].kind
           /\ mPendingRequestsList'[j].here =
                IF j = i THEN mPendingRequestsList[i].here \cup {b[2]}
                ELSE mPendingRequestsList[j].here
  BY <1>3, <1>4, RowChanged DEF RequestsInv
<1>6. UNCHANGED <<mPendingBuffers, mPendingReprocessResultList, mPendingRequest, fw>>
  BY DEF Requests!KeepBuffer
<1>7. DOMAIN mPendingRequestsList' = DOMAIN mPendingRequestsList
  BY <1>5, LenProperties DEF RequestsInv, RequestTypes
<1>8. \A j \in DOMAIN mPendingRequestsList :
        mPendingRequestsList'[j].here \subseteq Requests!Asked(mPendingRequestsList[j].kind)
  <2>1. b[2] \in Requests!Asked(kindOf[b[1]])
    BY BufferFacts
  <2> QED
    BY <1>1, <1>5, <2>1 DEF RequestsInv, RequestsKnown
<1>9. BufferPlaces'
  <2>1. b \in mPendingBuffers /\ b = <<b[1], b[2]>>
    BY BufferFacts
  <2>2. \A j \in DOMAIN mPendingRequestsList' : \A s \in mPendingRequestsList'[j].here :
          /\ <<mPendingRequestsList'[j].frame, s>> \in mPendingBuffers' \ bufs'
          /\ mPendingRequestsList'[j].kind # "reprocess"
    BY <1>1, <1>5, <1>6, <1>7, <2>1 DEF RequestsInv, BufferPlaces
  <2> QED
    BY <1>6, <2>2 DEF RequestsInv, BufferPlaces
<1> QED
  BY <1>5, <1>6, <1>8, <1>9, RowStep

-----------------------------------------------------------------------------
LEMMA BuffersAre ==
  \A b : b \in Requests!Buffers <=>
     \E g \in Requests!Given : \E s \in Requests!Asked(kindOf[g]) : b = <<g, s>>
BY DEF Requests!Buffers

LEMMA BuffersWillBe ==
  \A b : b \in Requests!Buffers' <=>
     \E g \in Requests!Given' : \E s \in Requests!Asked(kindOf'[g]) : b = <<g, s>>
<1>1. (\A b : b \in Requests!Buffers <=>
        \E g \in Requests!Given : \E s \in Requests!Asked(kindOf[g]) : b = <<g, s>>)'
  BY DEF Requests!Buffers
<1> QED
  BY <1>1

\* A request of frame f is given: what is known of the others stays.
LEMMA GivenGrows ==
  ASSUME RequestsInv, NEW kind \in Kinds, kindOf' = Append(kindOf, kind),
         mPendingRequestsList' = Append(mPendingRequestsList,
             [frame |-> Len(kindOf) + 1, kind |-> kind, urgent |-> FALSE, here |-> {}])
  PROVE  /\ kindOf' \in Seq(Kinds) /\ Requests!Given' = 1..(Len(kindOf) + 1)
         /\ kindOf'[Len(kindOf) + 1] = kind
         /\ \A g \in Requests!Given : g \in Requests!Given' /\ kindOf'[g] = kindOf[g]
         /\ Requests!Buffers' = Requests!Buffers \cup
              {<<Len(kindOf) + 1, s>> : s \in Requests!Asked(kind)}
         /\ \A b \in Requests!Buffers : b[1] \in Requests!Given
         /\ mPendingRequestsList' \in Seq(RequestKind)
         /\ Len(mPendingRequestsList') = Len(mPendingRequestsList) + 1
         /\ DOMAIN mPendingRequestsList' = 1..(Len(mPendingRequestsList) + 1)
         /\ \A i \in DOMAIN mPendingRequestsList :
              mPendingRequestsList'[i] = mPendingRequestsList[i]
         /\ mPendingRequestsList'[Len(mPendingRequestsList) + 1] =
              [frame |-> Len(kindOf) + 1, kind |-> kind, urgent |-> FALSE, here |-> {}]
<1> DEFINE r == [frame |-> Len(kindOf) + 1, kind |-> kind, urgent |-> FALSE, here |-> {}]
<1>1. /\ kindOf \in Seq(Kinds) /\ Len(kindOf) \in Nat /\ Requests!Given = 1..Len(kindOf)
      /\ mPendingRequestsList \in Seq(RequestKind) /\ Len(mPendingRequestsList) \in Nat
      /\ DOMAIN mPendingRequestsList = 1..Len(mPendingRequestsList)
  BY RequestLists DEF RequestsInv, RequestTypes
<1>2. r \in RequestKind
  BY ONLY <1>1, kind \in Kinds DEF RequestKind
<1>3. /\ kindOf' \in Seq(Kinds) /\ Len(kindOf') = Len(kindOf) + 1
      /\ \A i \in 1..Len(kindOf) : kindOf'[i] = kindOf[i]
      /\ kindOf'[Len(kindOf) + 1] = kind
  BY <1>1, AppendProperties
<1> HIDE DEF r
<1>4. /\ mPendingRequestsList' \in Seq(RequestKind)
      /\ Len(mPendingRequestsList') = Len(mPendingRequestsList) + 1
      /\ \A i \in 1..Len(mPendingRequestsList) :
           mPendingRequestsList'[i] = mPendingRequestsList[i]
      /\ mPendingRequestsList'[Len(mPendingRequestsList) + 1] = r
  <2>1. mPendingRequestsList' = Append(mPendingRequestsList, r)
    BY DEF r
  <2> QED
    BY <1>1, <1>2, <2>1, AppendProperties
<1>5. Requests!Given' = 1..(Len(kindOf) + 1)
  BY <1>3 DEF Requests!Given
<1>6. \A g \in Requests!Given : g \in Requests!Given' /\ kindOf'[g] = kindOf[g]
  BY <1>1, <1>3, <1>5
<1>7. Requests!Buffers' = Requests!Buffers \cup
        {<<Len(kindOf) + 1, s>> : s \in Requests!Asked(kind)}
  <2>1. \A g : g \in Requests!Given' <=> g \in Requests!Given \/ g = Len(kindOf) + 1
    BY <1>1, <1>5
  <2>2. /\ \A b : b \in Requests!Buffers <=>
              \E g \in Requests!Given : \E s \in Requests!Asked(kindOf[g]) : b = <<g, s>>
        /\ \A b : b \in Requests!Buffers' <=>
              \E g \in Requests!Given' : \E s \in Requests!Asked(kindOf'[g]) : b = <<g, s>>
    BY BuffersAre, BuffersWillBe
  <2> QED
    <3>1. \A b : b \in Requests!Buffers' =>
             b \in Requests!Buffers \/ \E s \in Requests!Asked(kind) : b = <<Len(kindOf) + 1, s>>
      BY <1>3, <1>6, <2>1, <2>2
    <3>2. \A b : b \in Requests!Buffers => b \in Requests!Buffers'
      BY <1>6, <2>2
    <3>3. \A s \in Requests!Asked(kind) : <<Len(kindOf) + 1, s>> \in Requests!Buffers'
      BY <1>3, <2>1, <2>2
    <3> QED
      BY <3>1, <3>2, <3>3
<1>8. \A b \in Requests!Buffers : b[1] \in Requests!Given
  BY DEF Requests!Buffers
<1>9. DOMAIN mPendingRequestsList' = 1..(Len(mPendingRequestsList) + 1)
  BY <1>4, LenProperties
<1> QED
  BY <1>1, <1>3, <1>4, <1>5, <1>6, <1>7, <1>8, <1>9 DEF r

LEMMA RequestKeeps ==
  ASSUME Requests!RequestsAssumption, RequestsInv, Requests!processCaptureRequest
  PROVE  RequestsInv'
<1> DEFINE f == Len(kindOf) + 1
           n == Len(mPendingRequestsList) + 1
<1>1. PICK kind \in Kinds :
        /\ kind = "reprocess" =>
             \A g \in Requests!Given : kindOf[g] # "reprocess" \/ g \in fw.inputs
        /\ kindOf' = Append(kindOf, kind)
        /\ mPendingRequestsList' = Append(mPendingRequestsList,
             [frame |-> f, kind |-> kind, urgent |-> FALSE, here |-> {}])
        /\ mPendingBuffers' = mPendingBuffers \cup {<<f, s>> : s \in Requests!Asked(kind)}
        /\ \/ /\ mFlush
              /\ mPendingRequest' = IF mFirstRequest THEN 0 ELSE mPendingRequest
              /\ UNCHANGED <<mFirstRequest, caller, metas, bufs>>
           \/ /\ ~mFlush
              /\ mPendingRequest' = (IF mFirstRequest THEN 0 ELSE mPendingRequest) + 1
              /\ mFirstRequest' = FALSE
              /\ caller' = IF (IF mFirstRequest THEN 0 ELSE mPendingRequest) + 1 >= MinInflight
                           THEN "wait" ELSE "idle"
              /\ metas' = IF kind = "reprocess" THEN metas ELSE Append(metas, f)
              /\ bufs' = bufs \cup {<<f, s>> : s \in Requests!Asked(kind)}
  BY DEF Requests!processCaptureRequest
<1>2. /\ UNCHANGED <<mPendingReprocessResultList, mFlush, toStop, fw>> /\ caller = "idle"
  BY DEF Requests!processCaptureRequest
<1>3. /\ kindOf' \in Seq(Kinds) /\ Requests!Given' = 1..f /\ kindOf'[f] = kind
      /\ \A g \in Requests!Given : g \in Requests!Given' /\ kindOf'[g] = kindOf[g]
      /\ Requests!Buffers' = Requests!Buffers \cup {<<f, s>> : s \in Requests!Asked(kind)}
      /\ \A b \in Requests!Buffers : b[1] \in Requests!Given
  BY <1>1, GivenGrows
<1>4. /\ mPendingRequestsList' \in Seq(RequestKind) /\ Len(mPendingRequestsList') = n
      /\ DOMAIN mPendingRequestsList' = 1..n
      /\ \A i \in DOMAIN mPendingRequestsList :
           mPendingRequestsList'[i] = mPendingRequestsList[i]
      /\ mPendingRequestsList'[n].frame = f /\ mPendingRequestsList'[n].kind = kind
      /\ mPendingRequestsList'[n].here = {}
  <2>1. mPendingRequestsList'[n] =
          [frame |-> f, kind |-> kind, urgent |-> FALSE, here |-> {}]
    BY <1>1, GivenGrows
  <2> HIDE DEF f
  <2>2. /\ mPendingRequestsList'[n].frame = f /\ mPendingRequestsList'[n].kind = kind
        /\ mPendingRequestsList'[n].here = {}
    BY ONLY <2>1
  <2> QED
    BY <1>1, <2>2, GivenGrows DEF f
<1>5. /\ f \in Nat /\ f \notin Requests!Given /\ f \in Requests!Given'
      /\ \A g \in Requests!Given : g \in Nat /\ g < f
      /\ n \in Nat /\ DOMAIN mPendingRequestsList = 1..(n - 1)
      /\ \A i \in 1..n : i # n => i \in DOMAIN mPendingRequestsList
      /\ n \notin DOMAIN mPendingRequestsList /\ n \in 1..n
  BY <1>3, RequestLists DEF RequestsInv
<1>6. /\ metas' \in Seq(Nat)
      /\ kind # "reprocess" /\ ~mFlush => f \in {metas'[m] : m \in DOMAIN metas'}
      /\ \A i \in DOMAIN metas : i \in DOMAIN metas' /\ metas'[i] = metas[i]
      /\ \A i \in DOMAIN metas' : \/ i \in DOMAIN metas
                                  \/ /\ i = Len(metas) + 1 /\ metas'[i] = f
                                     /\ kind # "reprocess" /\ ~mFlush
  <2>1. metas \in Seq(Nat) /\ DOMAIN metas = 1..Len(metas) /\ Len(metas) \in Nat
    BY RequestLists DEF RequestsInv, RequestTypes
  <2>2. CASE metas' = Append(metas, f) /\ kind # "reprocess" /\ ~mFlush
    <3>1. /\ metas' \in Seq(Nat) /\ Len(metas') = Len(metas) + 1
          /\ \A i \in 1..Len(metas) : metas'[i] = metas[i]
          /\ metas'[Len(metas) + 1] = f
      BY <1>5, <2>1, <2>2, AppendProperties
    <3>2. DOMAIN metas' = 1..(Len(metas) + 1)
      BY <3>1, LenProperties
    <3> QED
      BY <2>1, <2>2, <3>1, <3>2
  <2>3. CASE metas' = metas /\ (kind = "reprocess" \/ mFlush)
    BY <2>1, <2>3
  <2> QED
    BY <1>1, <2>2, <2>3
<1> HIDE DEF f, n
<1>7. RequestTypes'
  BY <1>1, <1>2, <1>3, <1>4, <1>6 DEF RequestsInv, RequestTypes
<1>8. RequestsKnown'
  <2>1. /\ mPendingBuffers' \subseteq Requests!Buffers'
        /\ \A i \in DOMAIN fw.back : fw.back[i] \in Requests!Buffers'
    BY <1>1, <1>3 DEF RequestsInv, RequestsKnown
  <2>2. /\ \A i \in DOMAIN metas' : metas'[i] \in Requests!Given' /\ kindOf'[metas'[i]] # "reprocess"
        /\ \A g \in mPendingReprocessResultList : g \in Requests!Given' /\ kindOf'[g] = "reprocess"
        /\ \A i \in DOMAIN fw.results : fw.results[i].frame \in Requests!Given'
    BY <1>3, <1>5, <1>6 DEF RequestsInv, RequestsKnown, Reprocessed
  <2>3. \A i \in 1..n :
          /\ mPendingRequestsList'[i].frame \in Requests!Given'
          /\ mPendingRequestsList'[i].kind = kindOf'[mPendingRequestsList'[i].frame]
          /\ mPendingRequestsList'[i].here \subseteq
               Requests!Asked(mPendingRequestsList'[i].kind)
    <3>1. \A i \in 1..n : mPendingRequestsList'[i].frame \in Requests!Given'
      BY <1>3, <1>4, <1>5 DEF RequestsInv, RequestsKnown
    <3>2. \A i \in 1..n :
            mPendingRequestsList'[i].kind = kindOf'[mPendingRequestsList'[i].frame]
      BY <1>3, <1>4, <1>5 DEF RequestsInv, RequestsKnown
    <3>3. \A i \in 1..n : mPendingRequestsList'[i].here \subseteq
                             Requests!Asked(mPendingRequestsList'[i].kind)
      BY <1>3, <1>4, <1>5 DEF RequestsInv, RequestsKnown
    <3> QED
      BY <3>1, <3>2, <3>3
  <2> QED
    BY <1>2, <1>4, <2>1, <2>2, <2>3 DEF RequestsKnown, Reprocessed
<1>9. Ascending'
  <2>1. \A i, j \in 1..n :
          i < j => mPendingRequestsList'[i].frame < mPendingRequestsList'[j].frame
    BY <1>4, <1>5 DEF RequestsInv, RequestsKnown, Ascending
  <2>2. \A i, j \in DOMAIN metas' : i < j => metas'[i] < metas'[j]
    <3>1. Len(metas) \in Nat /\ DOMAIN metas = 1..Len(metas)
      BY RequestLists DEF RequestsInv
    <3> QED
      BY <1>5, <1>6, <3>1 DEF RequestsInv, RequestsKnown, Ascending
  <2> QED
    BY <1>4, <2>1, <2>2 DEF Ascending
<1>10. RequestsCounted'
  <2>1. mPendingRequestsList = <<>> => n = 1
    BY DEF n
  <2>2. n = Len(mPendingRequestsList) + 1
    BY DEF n
  <2> QED
    BY <1>1, <1>2, <1>4, <2>1, <2>2 DEF RequestsInv, RequestsCounted
<1>11. RequestsFlushed'
  BY <1>1, <1>2 DEF RequestsInv, RequestsFlushed
<1>12. BufferPlaces'
  <2>1. /\ bufs' \subseteq mPendingBuffers'
        /\ \A b \in bufs' \ bufs : b[1] = f
        /\ \A b \in mPendingBuffers' \ mPendingBuffers : b[1] = f
        /\ mPendingBuffers \subseteq mPendingBuffers'
    BY <1>1 DEF RequestsInv, BufferPlaces
  <2>2. \A i \in DOMAIN fw.back : fw.back[i][1] # f
    BY <1>3, <1>5 DEF RequestsInv, RequestsKnown
  <2>3. \A i \in 1..n : \A s \in mPendingRequestsList'[i].here :
          /\ <<mPendingRequestsList'[i].frame, s>> \in mPendingBuffers' \ bufs'
          /\ mPendingRequestsList'[i].kind # "reprocess"
    <3>1. \A i \in DOMAIN mPendingRequestsList : mPendingRequestsList[i].frame # f
      BY <1>5 DEF RequestsInv, RequestsKnown
    <3> QED
      BY <1>4, <1>5, <2>1, <3>1 DEF RequestsInv, BufferPlaces
  <2>4. \A g \in mPendingReprocessResultList : g # f
    BY <1>5 DEF RequestsInv, RequestsKnown
  <2> QED
    BY <1>2, <1>4, <2>1, <2>2, <2>3, <2>4 DEF RequestsInv, BufferPlaces
<1>13. OneInput'
  <2>1. kind = "reprocess" => \A i \in DOMAIN mPendingRequestsList :
                                 mPendingRequestsList[i].kind # "reprocess"
    BY <1>1 DEF RequestsInv, RequestsKnown, OneInput, Pending
  <2>2. \A i, j \in 1..n :
          (/\ mPendingRequestsList'[i].kind = "reprocess"
           /\ mPendingRequestsList'[j].kind = "reprocess") => i = j
    BY <1>4, <1>5, <2>1 DEF RequestsInv, OneInput
  <2>3. \A g \in fw.inputs : g \in Requests!Given' /\ ~Pending(g)'
    BY <1>3, <1>4, <1>5 DEF RequestsInv, OneInput, Pending
  <2> QED
    BY <1>2, <1>4, <2>2, <2>3 DEF OneInput
<1>14. MetaToCome'
  <2>1. ASSUME ~MetaLost, NEW j \in 1..n, mPendingRequestsList'[j].kind # "reprocess"
        PROVE  \/ \E m \in DOMAIN metas' : metas'[m] = mPendingRequestsList'[j].frame
               \/ /\ mFlush
                  /\ \A k \in DOMAIN metas' : metas'[k] < mPendingRequestsList'[j].frame
    <3>1. CASE j = n /\ ~mFlush
      BY <1>4, <1>6, <2>1, <3>1
    <3>2. CASE j = n /\ mFlush
      BY <1>4, <1>5, <1>6, <3>2 DEF RequestsInv, RequestsKnown
    <3>3. CASE j # n
      BY <1>4, <1>5, <1>6, <2>1, <3>3 DEF RequestsInv, MetaToCome
    <3> QED
      BY <3>1, <3>2, <3>3
  <2> QED
    BY <1>2, <1>4, <2>1 DEF MetaToCome
<1>15. Requests!RoomForNext'
  <2>1. MinInflight \in Nat /\ MaxInflight \in Nat /\ 0 < MaxInflight /\ MinInflight <= MaxInflight
    BY DEF Requests!RequestsAssumption
  <2>2. mPendingRequest \in Int
    BY DEF RequestsInv, RequestTypes
  <2> QED
    BY <1>1, <1>2, <2>1, <2>2 DEF RequestsInv, Requests!RoomForNext
<1>16. Ahead => Ahead'
  BY <1>2, <1>4, <1>5 DEF Ahead, RequestsInv, RequestsKnown
<1>17. NothingForgotten => NothingForgotten'
  <2> SUFFICES ASSUME NothingForgotten PROVE NothingForgotten'
    OBVIOUS
  <2>1. \A b \in Requests!Buffers' :
          b \in mPendingBuffers' \/ \E i \in DOMAIN fw.back : fw.back[i] = b
    BY <1>1, <1>3 DEF NothingForgotten
  <2>2. \A g \in Requests!Given' : g \in Requests!Given \/ g = f
    BY <1>3, RequestLists DEF RequestsInv, f
  <2>3. \A g : Pending(g) \/ g = f => Pending(g)'
    BY <1>4, <1>5 DEF Pending
  <2>4. \A i \in 1..n : \A s \in Requests!Asked(mPendingRequestsList'[i].kind) :
          <<mPendingRequestsList'[i].frame, s>> \in mPendingBuffers'
    BY <1>1, <1>4, <1>5 DEF NothingForgotten
  <2> QED
    BY <1>2, <1>4, <2>1, <2>2, <2>3, <2>4 DEF NothingForgotten
<1> QED
  BY <1>7, <1>8, <1>9, <1>10, <1>11, <1>12, <1>13, <1>14, <1>15, <1>16, <1>17
  DEF RequestsInv

-----------------------------------------------------------------------------
(* What goes out in one step: sets listed, a row of requests answered. *)

LEMMA Enumerated ==
  ASSUME NEW S, IsFiniteSet(S)
  PROVE  /\ Requests!SetToSeq(S) \in Seq(S)
         /\ \A i, j \in DOMAIN Requests!SetToSeq(S) :
              Requests!SetToSeq(S)[i] = Requests!SetToSeq(S)[j] => i = j
         /\ \A x \in S : \E i \in DOMAIN Requests!SetToSeq(S) : Requests!SetToSeq(S)[i] = x
<1>1. Cardinality(S) \in Nat /\ ExistsBijection(1..Cardinality(S), S)
  BY FS_CardinalityType
<1>2. Requests!Cardinality(S) = Cardinality(S)
  BY DEF Cardinality, Requests!Cardinality
<1> DEFINE n == Cardinality(S)
           q == Requests!SetToSeq(S)
<1>3. \E f \in [1..n -> S] : Requests!IsInjective(f)
  BY <1>1 DEF ExistsBijection, Bijection, Injection, IsInjective, Requests!IsInjective
<1>4. q = CHOOSE f \in [1..n -> S] : Requests!IsInjective(f)
  BY <1>2 DEF Requests!SetToSeq
<1> HIDE DEF n
<1>5. q \in [1..n -> S] /\ Requests!IsInjective(q)
  <2> HIDE DEF q
  <2> QED
    BY <1>3, <1>4
<1> HIDE DEF q
<1>6. q \in Seq(S) /\ DOMAIN q = 1..n
  BY <1>1, <1>5 DEF n
<1>7. \A i, j \in DOMAIN q : q[i] = q[j] => i = j
  BY <1>5 DEF Requests!IsInjective
<1>8. q \in Surjection(1..n, S)
  <2>1. q \in Injection(1..n, S)
    BY <1>5, <1>6, <1>7 DEF Injection, IsInjective
  <2>2. IsFiniteSet(1..n) /\ Cardinality(1..n) = n
    <3>1. 1 \in Int /\ n \in Int /\ (IF 1 > n THEN 0 ELSE n - 1 + 1) = n
      BY <1>1 DEF n
    <3> QED
      BY ONLY <3>1, FS_Interval
  <2> QED
    BY <2>1, <2>2, FS_Injection DEF n
<1>9. \A x \in S : \E i \in DOMAIN q : q[i] = x
  BY <1>6, <1>8 DEF Surjection
<1> QED
  BY <1>6, <1>7, <1>9 DEF q

LEMMA BuffersFinite ==
  ASSUME RequestsInv, NEW S \in SUBSET Requests!Buffers
  PROVE  IsFiniteSet(S) /\ Requests!Buffers \subseteq Nat \X Requests!Streams
<1>1. Requests!Given = 1..Len(kindOf) /\ Len(kindOf) \in Nat
  BY RequestLists DEF RequestsInv
<1>2. \A k : Requests!Asked(k) \subseteq {"p", "blob"}
  BY DEF Requests!Asked, Requests!Streams
<1>3. Requests!Buffers \subseteq (1..Len(kindOf)) \X {"p", "blob"}
  BY <1>1, <1>2, BuffersAre
<1>4. IsFiniteSet((1..Len(kindOf)) \X {"p", "blob"})
  <2>1. IsFiniteSet(1..Len(kindOf))
    BY <1>1, FS_Interval
  <2>2. IsFiniteSet({"p", "blob"})
    <3>1. IsFiniteSet({"p"}) /\ {"p"} \cup {"blob"} = {"p", "blob"}
      BY FS_Singleton
    <3> QED
      BY <3>1, FS_AddElement
  <2> QED
    BY <2>1, <2>2, FS_Product
<1>5. \A T : T \subseteq (1..Len(kindOf)) \X {"p", "blob"} => IsFiniteSet(T)
  BY <1>4, FS_Subset
<1> QED
  BY <1>1, <1>3, <1>5 DEF Requests!Streams

\* The list without its first d requests.
LEMMA SuffixIs ==
  ASSUME RequestTypes, NEW d \in 0..Len(mPendingRequestsList),
         mPendingRequestsList' = SubSeq(mPendingRequestsList, d + 1, Len(mPendingRequestsList))
  PROVE  /\ mPendingRequestsList' \in Seq(RequestKind)
         /\ Len(mPendingRequestsList') = Len(mPendingRequestsList) - d
         /\ DOMAIN mPendingRequestsList' = 1..(Len(mPendingRequestsList) - d)
         /\ \A i \in DOMAIN mPendingRequestsList' :
              /\ i + d \in DOMAIN mPendingRequestsList /\ i + d > d
              /\ mPendingRequestsList'[i] = mPendingRequestsList[i + d]
         /\ \A j \in DOMAIN mPendingRequestsList : j > d =>
              /\ j - d \in DOMAIN mPendingRequestsList'
              /\ mPendingRequestsList'[j - d] = mPendingRequestsList[j]
<1> DEFINE n == Len(mPendingRequestsList)
           l == mPendingRequestsList'
<1>1. n \in Nat /\ d \in Nat /\ d <= n /\ DOMAIN mPendingRequestsList = 1..n
  BY RequestLists
<1>2. \A i \in (d + 1)..n : mPendingRequestsList[i] \in RequestKind
  BY <1>1, RequestLists
<1>3. /\ l \in Seq(RequestKind) /\ Len(l) = IF d + 1 <= n THEN n - (d + 1) + 1 ELSE 0
      /\ \A i \in 1..(n - (d + 1) + 1) : l[i] = mPendingRequestsList[d + 1 + i - 1]
  <2>1. d + 1 \in Int /\ n \in Int
    BY <1>1
  <2> HIDE DEF n
  <2> QED
    BY <1>2, <2>1, SubSeqProperties DEF n
<1> HIDE DEF n, l
<1>4. Len(l) = n - d /\ DOMAIN l = 1..(n - d)
  BY <1>1, <1>3, LenProperties
<1>5. \A i \in 1..(n - d) : l[i] = mPendingRequestsList[i + d]
  BY <1>1, <1>3
<1>6. \A i \in 1..(n - d) : i + d \in 1..n /\ i + d > d
  BY <1>1
<1>7. \A j \in 1..n : j > d => j - d \in 1..(n - d) /\ l[j - d] = mPendingRequestsList[j]
  <2>1. \A j \in 1..n : j > d => j - d \in 1..(n - d) /\ (j - d) + d = j
    BY <1>1
  <2> QED
    BY <1>5, <2>1
<1> QED
  BY <1>1, <1>3, <1>4, <1>5, <1>6, <1>7 DEF n, l

-----------------------------------------------------------------------------
(* Requests and buffers go: from the front of the list, from what is pending. *)

LEMMA ConcatIs ==
  ASSUME NEW S, NEW a \in Seq(S), NEW b \in Seq(S)
  PROVE  /\ a \o b \in Seq(S)
         /\ Len(a) \in Nat /\ DOMAIN a = 1..Len(a)
         /\ \A k \in DOMAIN b : k \in Nat \ {0}
         /\ \A i \in DOMAIN a : i \in DOMAIN (a \o b) /\ (a \o b)[i] = a[i]
         /\ \A k \in DOMAIN b :
              Len(a) + k \in DOMAIN (a \o b) /\ (a \o b)[Len(a) + k] = b[k]
         /\ \A i \in DOMAIN (a \o b) :
              \/ i \in DOMAIN a /\ (a \o b)[i] = a[i]
              \/ \E k \in DOMAIN b : i = Len(a) + k /\ (a \o b)[i] = b[k]
<1>1. /\ Len(a) \in Nat /\ Len(b) \in Nat
      /\ DOMAIN a = 1..Len(a) /\ DOMAIN b = 1..Len(b)
  BY LenProperties
<1>2. /\ a \o b \in Seq(S) /\ Len(a \o b) = Len(a) + Len(b)
      /\ \A i \in 1..(Len(a) + Len(b)) :
           (a \o b)[i] = IF i <= Len(a) THEN a[i] ELSE b[i - Len(a)]
  BY ConcatProperties
<1>3. DOMAIN (a \o b) = 1..(Len(a) + Len(b))
  BY <1>2, LenProperties
<1>4. ASSUME NEW i \in DOMAIN (a \o b), ~(i \in DOMAIN a)
      PROVE  \E k \in DOMAIN b : i = Len(a) + k /\ (a \o b)[i] = b[k]
  <2>1. /\ i - Len(a) \in DOMAIN b /\ (a \o b)[i] = b[i - Len(a)]
        /\ i = Len(a) + (i - Len(a))
    BY <1>1, <1>2, <1>3, <1>4
  <2> QED
    BY <2>1
<1>5. \A i \in DOMAIN a : i \in DOMAIN (a \o b) /\ (a \o b)[i] = a[i]
  BY <1>1, <1>2, <1>3
<1>6. \A k \in DOMAIN b : Len(a) + k \in DOMAIN (a \o b) /\ (a \o b)[Len(a) + k] = b[k]
  BY <1>1, <1>2, <1>3
<1>7. \A k \in DOMAIN b : k \in Nat \ {0}
  BY <1>1
<1> QED
  BY <1>1, <1>2, <1>4, <1>5, <1>6, <1>7

LEMMA TailIs ==
  ASSUME NEW S, NEW a \in Seq(S), a # <<>>
  PROVE  /\ Tail(a) \in Seq(S) /\ Head(a) \in S /\ Head(a) = a[1] /\ 1 \in DOMAIN a
         /\ \A i \in DOMAIN Tail(a) : i \in Nat /\ i + 1 \in DOMAIN a /\ Tail(a)[i] = a[i + 1]
         /\ \A i \in DOMAIN a : i # 1 => \E k \in DOMAIN Tail(a) : Tail(a)[k] = a[i]
<1>1. /\ Tail(a) \in Seq(S) /\ Head(a) \in S /\ Head(a) = a[1] /\ Len(Tail(a)) = Len(a) - 1
      /\ \A i \in 1..Len(Tail(a)) : Tail(a)[i] = a[i + 1]
  BY HeadTailProperties
<1>2. /\ Len(a) \in Nat \ {0} /\ DOMAIN a = 1..Len(a) /\ DOMAIN Tail(a) = 1..(Len(a) - 1)
  BY <1>1, EmptySeq, LenProperties
<1>3. ASSUME NEW i \in DOMAIN a, i # 1 PROVE \E k \in DOMAIN Tail(a) : Tail(a)[k] = a[i]
  <2>1. i - 1 \in DOMAIN Tail(a) /\ Tail(a)[i - 1] = a[i]
    BY <1>1, <1>2, <1>3
  <2> QED
    BY <2>1
<1>4. \A i \in DOMAIN Tail(a) : i \in Nat /\ i + 1 \in DOMAIN a /\ Tail(a)[i] = a[i + 1]
  BY <1>1, <1>2
<1> QED
  BY <1>1, <1>2, <1>3, <1>4

\* A step that takes the first d requests off the list and gives the buffers of q
\* back, each of them pending, or held back, until then.
LEMMA DropStep ==
  ASSUME RequestsInv, NEW d \in 0..Len(mPendingRequestsList),
         mPendingRequestsList' =
            SubSeq(mPendingRequestsList, d + 1, Len(mPendingRequestsList)),
         NEW q \in Seq(Requests!Buffers), fw'.back = fw.back \o q,
         \A i, j \in DOMAIN q : q[i] = q[j] => i = j,
         \A i \in DOMAIN q : \/ q[i] \in mPendingBuffers \ mPendingBuffers'
                             \/ \E g \in mPendingReprocessResultList \
                                         mPendingReprocessResultList' : q[i] = <<g, "blob">>,
         mPendingBuffers' \subseteq mPendingBuffers,
         bufs' \subseteq bufs, bufs' \subseteq mPendingBuffers',
         \A j \in DOMAIN mPendingRequestsList : j > d =>
            \A s \in mPendingRequestsList[j].here :
               <<mPendingRequestsList[j].frame, s>> \in mPendingBuffers',
         \A g \in mPendingReprocessResultList' :
            \/ g \in mPendingReprocessResultList
            \/ /\ g \in Requests!Given /\ Reprocessed(g) /\ q = <<>>
               /\ <<g, "blob">> \in mPendingBuffers \ mPendingBuffers',
         \A g \in fw'.inputs :
            \/ g \in fw.inputs
            \/ /\ g \in Requests!Given
               /\ \A j \in DOMAIN mPendingRequestsList :
                     j > d => mPendingRequestsList[j].frame # g,
         \/ metas' = metas
         \/ /\ metas # <<>> /\ metas' = Tail(metas)
            /\ \A j \in DOMAIN mPendingRequestsList :
                  j > d => mPendingRequestsList[j].frame > Head(metas),
         mFlush' = mFlush \/ d = Len(mPendingRequestsList),
         UNCHANGED <<kindOf, toStop, caller>>, mPendingRequest' \in Int,
         DOMAIN fw' = Outcome, fw'.shutters \in Seq(Nat), fw'.results \in Seq(ResultKind),
         \A i \in DOMAIN fw'.results : fw'.results[i].frame \in Requests!Given,
         RequestsCounted', RequestsFlushed', Requests!RoomForNext',
         Paired => Ahead', "reprocess" \notin Kinds => NothingForgotten'
  PROVE  RequestsInv'
<1> DEFINE l == mPendingRequestsList
<1>1. /\ l' \in Seq(RequestKind)
      /\ \A i \in DOMAIN l' : /\ i + d \in DOMAIN l /\ i + d > d /\ l'[i] = l[i + d]
                              /\ i \in Nat
      /\ d \in Nat
  <2>1. RequestTypes /\ Len(l) \in Nat
    BY RequestLists DEF RequestsInv
  <2>2. d \in Nat /\ \A i \in 1..(Len(l) - d) : i \in Nat
    BY ONLY <2>1, d \in 0..Len(l)
  <2> QED
    BY <2>1, <2>2, SuffixIs
<1>2. /\ fw'.back \in Seq(Nat \X Requests!Streams)
      /\ \A i \in DOMAIN fw'.back :
           \/ i \in DOMAIN fw.back /\ fw'.back[i] = fw.back[i]
           \/ \E k \in DOMAIN q : i = Len(fw.back) + k /\ fw'.back[i] = q[k]
      /\ Len(fw.back) \in Nat /\ DOMAIN fw.back = 1..Len(fw.back)
      /\ \A k \in DOMAIN q : k \in Nat \ {0}
  <2>1. q \in Seq(Nat \X Requests!Streams)
    <3>1. Requests!Buffers \subseteq Nat \X Requests!Streams
      BY BuffersFinite
    <3>2. \A i \in DOMAIN q : q[i] \in Nat \X Requests!Streams
      BY <3>1, ElementOfSeq, LenProperties
    <3> QED
      BY <3>2, LenProperties
  <2>2. fw.back \in Seq(Nat \X Requests!Streams)
    BY DEF RequestsInv, RequestTypes
  <2> DEFINE w == fw.back \o q
  <2>3. /\ w \in Seq(Nat \X Requests!Streams)
        /\ \A i \in DOMAIN w : \/ i \in DOMAIN fw.back /\ w[i] = fw.back[i]
                               \/ \E k \in DOMAIN q : i = Len(fw.back) + k /\ w[i] = q[k]
        /\ Len(fw.back) \in Nat /\ DOMAIN fw.back = 1..Len(fw.back)
        /\ \A k \in DOMAIN q : k \in Nat \ {0}
    <3> DEFINE B == Nat \X Requests!Streams
    <3> HIDE DEF B
    <3>1. q \in Seq(B) /\ fw.back \in Seq(B)
      BY ONLY <2>1, <2>2 DEF B
    <3>2. /\ w \in Seq(B)
          /\ \A i \in DOMAIN w : \/ i \in DOMAIN fw.back /\ w[i] = fw.back[i]
                                 \/ \E k \in DOMAIN q : i = Len(fw.back) + k /\ w[i] = q[k]
          /\ Len(fw.back) \in Nat /\ DOMAIN fw.back = 1..Len(fw.back)
          /\ \A k \in DOMAIN q : k \in Nat \ {0}
      BY ONLY <3>1, ConcatIs
    <3> QED
      BY ONLY <3>2 DEF B
  <2>4. w = fw'.back
    OBVIOUS
  <2> HIDE DEF w
  <2> QED
    BY ONLY <2>3, <2>4
<1>3. /\ metas' \in Seq(Nat)
      /\ \/ metas' = metas
         \/ /\ \A i \in DOMAIN metas' : /\ i \in Nat /\ i + 1 \in DOMAIN metas
                                        /\ metas'[i] = metas[i + 1]
            /\ \A i \in DOMAIN metas : i # 1 => \E k \in DOMAIN metas' : metas'[k] = metas[i]
            /\ metas # <<>> /\ Head(metas) = metas[1]
            /\ \A j \in DOMAIN l : j > d => l[j].frame > Head(metas)
  <2>1. metas \in Seq(Nat)
    BY DEF RequestsInv, RequestTypes
  <2>2. CASE metas # <<>> /\ metas' = Tail(metas)
    BY <2>1, <2>2, TailIs
  <2> QED
    BY <2>1, <2>2
<1>4. RequestTypes'
  BY <1>1, <1>2, <1>3 DEF RequestsInv, RequestTypes
<1>5. RequestsKnown'
  <2>1. Requests!Given' = Requests!Given /\ Requests!Buffers' = Requests!Buffers
    BY DEF Requests!Given, Requests!Buffers
  <2>2. \A i \in DOMAIN fw'.back : fw'.back[i] \in Requests!Buffers
    <3>1. \A k \in DOMAIN q : q[k] \in Requests!Buffers
      BY ElementOfSeq, LenProperties
    <3> QED
      BY <1>2, <3>1 DEF RequestsInv, RequestsKnown
  <2>3. \A i \in DOMAIN metas' : metas'[i] \in Requests!Given /\ kindOf[metas'[i]] # "reprocess"
    BY <1>3 DEF RequestsInv, RequestsKnown, Reprocessed
  <2>4. \A i \in DOMAIN l' :
          /\ l'[i].frame \in Requests!Given /\ l'[i].kind = kindOf[l'[i].frame]
          /\ l'[i].here \subseteq Requests!Asked(l'[i].kind)
    BY <1>1 DEF RequestsInv, RequestsKnown
  <2>5. \A g \in mPendingReprocessResultList' :
          g \in Requests!Given /\ kindOf[g] = "reprocess"
    BY DEF RequestsInv, RequestsKnown, Reprocessed
  <2>6. mPendingBuffers' \subseteq Requests!Buffers
    BY DEF RequestsInv, RequestsKnown
  <2> QED
    BY <2>1, <2>2, <2>3, <2>4, <2>5, <2>6 DEF RequestsKnown, Reprocessed
<1>6. Ascending'
  <2>1. \A i, j \in DOMAIN l' : i < j => l'[i].frame < l'[j].frame
    <3> SUFFICES ASSUME NEW i \in DOMAIN l', NEW j \in DOMAIN l', i < j
                 PROVE  l'[i].frame < l'[j].frame
      OBVIOUS
    <3>1. /\ i + d < j + d /\ i + d \in DOMAIN l /\ j + d \in DOMAIN l
          /\ l'[i] = l[i + d] /\ l'[j] = l[j + d]
      BY <1>1
    <3>2. \A a, b \in DOMAIN l : a < b => l[a].frame < l[b].frame
      BY DEF RequestsInv, Ascending
    <3> QED
      BY <3>1, <3>2
  <2>2. \A i, j \in DOMAIN metas' : i < j => metas'[i] < metas'[j]
    <3> SUFFICES ASSUME NEW i \in DOMAIN metas', NEW j \in DOMAIN metas', i < j
                 PROVE  metas'[i] < metas'[j]
      OBVIOUS
    <3>1. \A a, b \in DOMAIN metas : a < b => metas[a] < metas[b]
      BY DEF RequestsInv, Ascending
    <3>2. CASE metas' = metas
      BY <3>1, <3>2
    <3>3. CASE metas' # metas
      <4>1. /\ i + 1 \in DOMAIN metas /\ j + 1 \in DOMAIN metas /\ i \in Nat /\ j \in Nat
            /\ metas'[i] = metas[i + 1] /\ metas'[j] = metas[j + 1]
        BY <1>3, <3>3
      <4>2. i + 1 < j + 1
        BY ONLY <4>1, i < j
      <4> QED
        BY <3>1, <4>1, <4>2
    <3> QED
      BY <3>2, <3>3
  <2> QED
    BY <2>1, <2>2 DEF Ascending
<1>7. BufferPlaces'
  <2>1. \A i, j \in DOMAIN fw'.back : fw'.back[i] = fw'.back[j] => i = j
    <3>1. \A i \in DOMAIN fw.back : \A k \in DOMAIN q : fw.back[i] # q[k]
      BY DEF RequestsInv, BufferPlaces
    <3>2. /\ \A i, j \in DOMAIN fw.back : fw.back[i] = fw.back[j] => i = j
          /\ \A i, j \in DOMAIN q : q[i] = q[j] => i = j
      BY DEF RequestsInv, BufferPlaces
    <3>3. ASSUME NEW i \in DOMAIN fw'.back, NEW j \in DOMAIN fw'.back,
                 fw'.back[i] = fw'.back[j]
          PROVE  i = j
      <4>1. CASE i \in DOMAIN fw.back /\ fw'.back[i] = fw.back[i]
        BY ONLY <1>2, <3>1, <3>2, <3>3, <4>1
      <4>2. CASE \E k \in DOMAIN q : i = Len(fw.back) + k /\ fw'.back[i] = q[k]
        <5>1. PICK k \in DOMAIN q : i = Len(fw.back) + k /\ fw'.back[i] = q[k]
          BY <4>2
        <5>2. CASE j \in DOMAIN fw.back /\ fw'.back[j] = fw.back[j]
          BY ONLY <3>1, <3>3, <5>1, <5>2
        <5>3. CASE \E m \in DOMAIN q : j = Len(fw.back) + m /\ fw'.back[j] = q[m]
          BY ONLY <3>2, <3>3, <5>1, <5>3
        <5> QED
          BY <1>2, <5>2, <5>3
      <4> QED
        BY <1>2, <4>1, <4>2
    <3> QED
      BY <3>3
  <2>2. \A i \in DOMAIN fw'.back : fw'.back[i] \notin mPendingBuffers'
    <3>1. \A k \in DOMAIN q : q[k] \notin mPendingBuffers'
      BY DEF RequestsInv, BufferPlaces
    <3>2. \A i \in DOMAIN fw.back : fw.back[i] \notin mPendingBuffers'
      BY DEF RequestsInv, BufferPlaces
    <3> QED
      BY ONLY <1>2, <3>1, <3>2
  <2>3. \A i \in DOMAIN l' : \A s \in l'[i].here :
          <<l'[i].frame, s>> \in mPendingBuffers' \ bufs' /\ l'[i].kind # "reprocess"
    BY <1>1 DEF RequestsInv, BufferPlaces
  <2>4. ASSUME NEW g \in mPendingReprocessResultList'
        PROVE  /\ <<g, "blob">> \notin mPendingBuffers'
               /\ \A i \in DOMAIN fw'.back : fw'.back[i] # <<g, "blob">>
    <3>1. CASE g \in mPendingReprocessResultList
      <4>1. /\ <<g, "blob">> \notin mPendingBuffers
            /\ \A i \in DOMAIN fw.back : fw.back[i] # <<g, "blob">>
        BY <3>1 DEF RequestsInv, BufferPlaces
      <4>2. ASSUME NEW k \in DOMAIN q, q[k] = <<g, "blob">> PROVE FALSE
        <5>1. PICK h \in mPendingReprocessResultList \ mPendingReprocessResultList' :
                q[k] = <<h, "blob">>
          BY <4>1, <4>2
        <5>2. h = g
          BY ONLY <4>2, <5>1
        <5> QED
          BY <2>4, <5>1, <5>2
      <4> QED
        BY <1>2, <4>1, <4>2
    <3>2. CASE q = <<>> /\ <<g, "blob">> \in mPendingBuffers \ mPendingBuffers'
      <4>1. \A i \in DOMAIN fw'.back : i \in DOMAIN fw.back /\ fw'.back[i] = fw.back[i]
        <5>1. DOMAIN q = {}
          BY <3>2
        <5> QED
          BY <1>2, <5>1
      <4> QED
        BY <3>2, <4>1 DEF RequestsInv, BufferPlaces
    <3> QED
      BY <3>1, <3>2
  <2> QED
    BY <2>1, <2>2, <2>3, <2>4 DEF BufferPlaces
<1>8. OneInput'
  <2>1. \A i, j \in DOMAIN l' :
          l'[i].kind = "reprocess" /\ l'[j].kind = "reprocess" => i = j
    <3>1. \A i, j \in DOMAIN l : l[i].kind = "reprocess" /\ l[j].kind = "reprocess" => i = j
      BY DEF RequestsInv, OneInput
    <3> SUFFICES ASSUME NEW i \in DOMAIN l', NEW j \in DOMAIN l',
                        l'[i].kind = "reprocess", l'[j].kind = "reprocess"
                 PROVE  i = j
      OBVIOUS
    <3>2. i + d = j + d
      BY <1>1, <3>1
    <3> QED
      BY <1>1, <3>2
  <2>2. \A g \in fw'.inputs : g \in Requests!Given /\ \A i \in DOMAIN l' : l'[i].frame # g
    BY <1>1 DEF RequestsInv, OneInput, Pending
  <2>3. Requests!Given' = Requests!Given
    BY DEF Requests!Given
  <2> QED
    BY <2>1, <2>2, <2>3 DEF OneInput, Pending
<1>9. MetaToCome'
  <2>1. ASSUME ~MetaLost, NEW i \in DOMAIN l', l'[i].kind # "reprocess"
        PROVE  \/ \E m \in DOMAIN metas' : metas'[m] = l'[i].frame
               \/ mFlush' /\ \A k \in DOMAIN metas' : metas'[k] < l'[i].frame
    <3>1. /\ i + d \in DOMAIN l /\ i + d > d /\ l'[i] = l[i + d]
      BY <1>1
    <3>2. \/ \E m \in DOMAIN metas : metas[m] = l'[i].frame
          \/ mFlush /\ \A k \in DOMAIN metas : metas[k] < l'[i].frame
      BY <2>1, <3>1 DEF RequestsInv, MetaToCome
    <3>3. mFlush' = mFlush
      <4>1. i + d \in 1..Len(l) /\ Len(l) \in Nat
        BY <3>1, RequestLists DEF RequestsInv
      <4> QED
        BY <1>1, <3>1, <4>1
    <3>4. CASE metas' = metas
      BY <3>2, <3>3, <3>4
    <3>5. CASE metas' # metas
      <4>1. l'[i].frame > metas[1] /\ metas[1] \in Nat /\ l'[i].frame \in Nat
        <5>1. l'[i].frame > Head(metas) /\ Head(metas) = metas[1]
          BY <1>3, <3>1, <3>5
        <5>2. metas # <<>> /\ metas \in Seq(Nat)
          BY <1>3, <3>5 DEF RequestsInv, RequestTypes
        <5>3. Head(metas) \in Nat
          BY ONLY <5>2, HeadTailProperties
        <5>4. l'[i].frame \in Nat
          BY <3>1, RequestLists DEF RequestsInv
        <5> QED
          BY <5>1, <5>3, <5>4
      <4>2. \A m \in DOMAIN metas : metas[m] = l'[i].frame => m # 1
        BY <4>1
      <4>3. metas[1] < l'[i].frame
        BY <4>1
      <4>4. mFlush => mFlush'
        BY ONLY <3>3
      <4>5. /\ \A m \in DOMAIN metas : m # 1 => \E k \in DOMAIN metas' : metas'[k] = metas[m]
            /\ \A k \in DOMAIN metas' : \E m \in DOMAIN metas : metas'[k] = metas[m]
        BY ONLY <1>3, <3>5
      <4> QED
        BY ONLY <3>2, <4>2, <4>4, <4>5
    <3> QED
      BY <3>4, <3>5
  <2> QED
    BY <2>1 DEF MetaToCome
<1> QED
  BY <1>4, <1>5, <1>6, <1>7, <1>8, <1>9 DEF RequestsInv, Paired

-----------------------------------------------------------------------------
\* What is left of the list: all of it, or all but its first.
LEMMA RestIs ==
  ASSUME RequestTypes
  PROVE  /\ mPendingRequestsList =
              SubSeq(mPendingRequestsList, 0 + 1, Len(mPendingRequestsList))
         /\ mPendingRequestsList # <<>> =>
              /\ Tail(mPendingRequestsList) =
                   SubSeq(mPendingRequestsList, 1 + 1, Len(mPendingRequestsList))
              /\ 1 \in DOMAIN mPendingRequestsList /\ 1 \in 0..Len(mPendingRequestsList)
              /\ Head(mPendingRequestsList) = mPendingRequestsList[1]
         /\ 0 \in 0..Len(mPendingRequestsList)
         /\ \A j \in DOMAIN mPendingRequestsList : j > 0
<1>1. mPendingRequestsList \in Seq(RequestKind)
  BY DEF RequestTypes
<1>2. SubSeq(mPendingRequestsList, 1, Len(mPendingRequestsList)) = mPendingRequestsList
  BY <1>1, SubSeqFull
<1>3. mPendingRequestsList # <<>> =>
        /\ Tail(mPendingRequestsList) = SubSeq(mPendingRequestsList, 2, Len(mPendingRequestsList))
        /\ Len(mPendingRequestsList) \in Nat \ {0}
        /\ Head(mPendingRequestsList) = mPendingRequestsList[1]
  BY <1>1, TailIsSubSeq, EmptySeq
<1>4. Len(mPendingRequestsList) \in Nat /\ DOMAIN mPendingRequestsList = 1..Len(mPendingRequestsList)
  BY RequestLists
<1> QED
  BY <1>2, <1>3, <1>4

\* What is given back stays so.
LEMMA BackGrows ==
  ASSUME RequestsInv, NEW q \in Seq(Requests!Buffers), fw'.back = fw.back \o q
  PROVE  /\ \A i \in DOMAIN fw.back : i \in DOMAIN fw'.back /\ fw'.back[i] = fw.back[i]
         /\ \A k \in DOMAIN q : \E i \in DOMAIN fw'.back : fw'.back[i] = q[k]
<1>1. q \in Seq(Nat \X Requests!Streams)
  <2>1. Requests!Buffers \subseteq Nat \X Requests!Streams
    BY BuffersFinite
  <2>2. \A i \in DOMAIN q : q[i] \in Nat \X Requests!Streams
    BY <2>1, ElementOfSeq, LenProperties
  <2> QED
    BY <2>2, LenProperties
<1>2. fw.back \in Seq(Nat \X Requests!Streams)
  BY DEF RequestsInv, RequestTypes
<1> DEFINE w == fw.back \o q
<1>3. /\ \A i \in DOMAIN fw.back : i \in DOMAIN w /\ w[i] = fw.back[i]
      /\ \A k \in DOMAIN q : Len(fw.back) + k \in DOMAIN w /\ w[Len(fw.back) + k] = q[k]
  BY <1>1, <1>2, ConcatIs
<1>4. w = fw'.back
  OBVIOUS
<1> HIDE DEF w
<1> QED
  BY ONLY <1>3, <1>4

LEMMA LateBufferKeeps ==
  ASSUME RequestsInv, NEW b \in bufs, Requests!LateBuffer(b[1], b[2]), bufs' = bufs \ {b},
         UNCHANGED <<caller, mFlush, mFirstRequest, toStop, kindOf, metas>>
  PROVE  RequestsInv'
<1>1. /\ b \in Requests!Buffers /\ b \in mPendingBuffers /\ b = <<b[1], b[2]>>
  BY BufferFacts
<1>2. /\ \A j \in DOMAIN mPendingRequestsList : mPendingRequestsList[j].frame # b[1]
      /\ mPendingBuffers' = mPendingBuffers \ {b}
      /\ UNCHANGED <<mPendingRequestsList, mPendingReprocessResultList, mPendingRequest>>
  BY <1>1 DEF Requests!LateBuffer, Requests!ToSet
<1>3. /\ DOMAIN fw' = Outcome
      /\ UNCHANGED <<fw.shutters, fw.results, fw.inputs, fw.requestErrors>>
      /\ fw'.back = Append(fw.back, b)
  <2>1. fw' = [fw EXCEPT !.back = Append(@, b),
                         !.bad = @ \cup ({b} \cap mPendingFrameDropList)]
    BY <1>1 DEF Requests!LateBuffer
  <2>2. DOMAIN fw = Outcome /\ "back" \in DOMAIN fw
    BY DEF RequestsInv, RequestTypes, Outcome
  <2> QED
    BY ONLY <2>1, <2>2 DEF Outcome
<1> DEFINE q == <<b>>
<1>4. /\ q \in Seq(Requests!Buffers) /\ fw'.back = fw.back \o q
      /\ \A i \in DOMAIN q : q[i] = b
      /\ \A i, j \in DOMAIN q : q[i] = q[j] => i = j
  <2>1. q \in Seq(Requests!Buffers)
    BY <1>1
  <2>2. fw.back \in Seq(Nat \X Requests!Streams) /\ b \in Nat \X Requests!Streams
    BY BufferFacts DEF RequestsInv, RequestTypes
  <2> QED
    BY <1>3, <2>1, <2>2, AppendIsConcat
<1> HIDE DEF q
<1>5. \A j \in DOMAIN mPendingRequestsList : \A s :
        <<mPendingRequestsList[j].frame, s>> \in mPendingBuffers =>
        <<mPendingRequestsList[j].frame, s>> \in mPendingBuffers'
  BY <1>1, <1>2
<1>6. /\ bufs' \subseteq mPendingBuffers' /\ bufs' \subseteq bufs
      /\ \A j \in DOMAIN mPendingRequestsList : \A s \in mPendingRequestsList[j].here :
           <<mPendingRequestsList[j].frame, s>> \in mPendingBuffers'
  BY <1>2, <1>5 DEF RequestsInv, BufferPlaces
<1>7. RequestsCounted' /\ RequestsFlushed' /\ Requests!RoomForNext'
  BY <1>2, <1>6 DEF RequestsInv, RequestsCounted, RequestsFlushed, Requests!RoomForNext
<1>8. Ahead => Ahead'
  BY <1>2, <1>3 DEF Ahead
<1>9. NothingForgotten => NothingForgotten'
  <2> SUFFICES ASSUME NothingForgotten PROVE NothingForgotten'
    OBVIOUS
  <2>1. Requests!Given' = Requests!Given /\ Requests!Buffers' = Requests!Buffers
    BY DEF Requests!Given, Requests!Buffers
  <2>2. \A c \in Requests!Buffers :
          c \in mPendingBuffers' \/ \E i \in DOMAIN fw'.back : fw'.back[i] = c
    <3>1. /\ \A i \in DOMAIN fw.back : i \in DOMAIN fw'.back /\ fw'.back[i] = fw.back[i]
          /\ \E i \in DOMAIN fw'.back : fw'.back[i] = b
      <4>1. 1 \in DOMAIN q
        BY DEF q
      <4>2. /\ \A i \in DOMAIN fw.back : i \in DOMAIN fw'.back /\ fw'.back[i] = fw.back[i]
            /\ \A k \in DOMAIN q : \E i \in DOMAIN fw'.back : fw'.back[i] = q[k]
        BY <1>4, BackGrows
      <4> QED
        BY ONLY <1>4, <4>1, <4>2
    <3> QED
      BY <1>2, <3>1 DEF NothingForgotten
  <2>3. \A g \in Requests!Given :
          Pending(g)' \/ g \in fw'.requestErrors
          \/ \E i \in DOMAIN fw'.results : fw'.results[i].frame = g
    BY <1>2, <1>3 DEF NothingForgotten, Pending
  <2> QED
    BY <1>2, <1>5, <2>1, <2>2, <2>3 DEF NothingForgotten
<1>10. mPendingRequestsList' =
         SubSeq(mPendingRequestsList, 0 + 1, Len(mPendingRequestsList))
       /\ 0 \in 0..Len(mPendingRequestsList)
  BY <1>2, RestIs DEF RequestsInv
<1>11. /\ fw'.shutters \in Seq(Nat) /\ fw'.results \in Seq(ResultKind)
       /\ \A i \in DOMAIN fw'.results : fw'.results[i].frame \in Requests!Given
       /\ mPendingRequest' \in Int
  BY <1>2, <1>3 DEF RequestsInv, RequestTypes, RequestsKnown
<1>12. \A i \in DOMAIN q : q[i] \in mPendingBuffers \ mPendingBuffers'
  BY <1>1, <1>2, <1>4
<1>13. (Paired => Ahead') /\ ("reprocess" \notin Kinds => NothingForgotten')
  BY <1>8, <1>9 DEF RequestsInv
<1> QED
  BY <1>2, <1>3, <1>4, <1>6, <1>7, <1>10, <1>11, <1>12, <1>13, DropStep

\* A reprocess request's buffer: its request goes with it, or waits for the one before.
LEMMA ReprocBufferKeeps ==
  ASSUME Requests!RequestsAssumption, RequestsInv,
         NEW b \in bufs, Requests!ReprocBuffer(b[1], b[2]), bufs' = bufs \ {b},
         UNCHANGED <<caller, mFlush, mFirstRequest, toStop, kindOf, metas>>
  PROVE  RequestsInv'
<1> DEFINE l == mPendingRequestsList
<1>1. /\ b \in Requests!Buffers /\ b \in mPendingBuffers /\ b[1] \in Requests!Given
      /\ b[1] \in Nat /\ b[2] \in Requests!Asked(kindOf[b[1]]) /\ b = <<b[1], b[2]>>
  BY BufferFacts
<1>2. PICK i \in DOMAIN l : l[i].frame = b[1] /\ l[i].kind = "reprocess"
  BY DEF Requests!ReprocBuffer, Requests!ToSet, Requests!IsReproc
<1>3. kindOf[b[1]] = "reprocess" /\ b = <<b[1], "blob">> /\ "reprocess" \in Kinds
  <2>1. kindOf[b[1]] = "reprocess" /\ "reprocess" \in Kinds
    BY <1>2, RequestLists DEF RequestsInv, RequestsKnown
  <2>2. Requests!Asked("reprocess") = {"blob"}
    BY DEF Requests!Asked
  <2> QED
    BY <1>1, <2>1, <2>2
<1>4. mPendingBuffers' = mPendingBuffers \ {b}
  BY <1>1 DEF Requests!ReprocBuffer
<1>5. /\ bufs' \subseteq mPendingBuffers' /\ bufs' \subseteq bufs
      /\ mPendingBuffers' \subseteq mPendingBuffers /\ b \in mPendingBuffers \ mPendingBuffers'
  BY <1>1, <1>4 DEF RequestsInv, BufferPlaces
<1>6. \A j \in DOMAIN l : \A s \in l[j].here : <<l[j].frame, s>> \in mPendingBuffers'
  <2>1. \A j \in DOMAIN l : l[j].frame = b[1] => l[j].kind = "reprocess"
    BY <1>3 DEF RequestsInv, RequestsKnown
  <2>2. \A j \in DOMAIN l : \A s \in l[j].here :
          <<l[j].frame, s>> \in mPendingBuffers /\ l[j].frame # b[1]
    BY <2>1 DEF RequestsInv, BufferPlaces
  <2>3. \A j \in DOMAIN l : \A s : l[j].frame # b[1] => <<l[j].frame, s>> # b
    BY <1>1
  <2> QED
    BY <1>4, <2>2, <2>3
<1>7. "reprocess" \notin Kinds => NothingForgotten'
  BY <1>3
<1>8. RequestsFlushed'
  BY <1>5 DEF RequestsInv, RequestsFlushed
<1>9. /\ DOMAIN fw = Outcome /\ fw.shutters \in Seq(Nat) /\ fw.results \in Seq(ResultKind)
      /\ fw.back \in Seq(Nat \X Requests!Streams) /\ mPendingRequest \in Int
      /\ RequestTypes
  BY DEF RequestsInv, RequestTypes
<1>10. CASE Head(l).frame = b[1]
  <2>1. /\ l # <<>> /\ l' = SubSeq(l, 1 + 1, Len(l)) /\ 1 \in 0..Len(l) /\ 1 \in DOMAIN l
        /\ Head(l) = l[1] /\ l' = Tail(l)
    <3>1. l # <<>> /\ l' = Tail(l)
      BY <1>2, <1>10 DEF Requests!ReprocBuffer
    <3> QED
      BY <1>9, <3>1, RestIs
  <2>2. /\ fw' = [fw EXCEPT !.shutters = Append(@, b[1]),
                    !.results = Append(@, [frame |-> b[1], dummy |-> FALSE]),
                    !.back = Append(@, b), !.inputs = @ \cup {b[1]}]
        /\ mPendingRequest' = mPendingRequest - 1
        /\ UNCHANGED mPendingReprocessResultList
    BY <1>1, <1>10 DEF Requests!ReprocBuffer, Requests!CountedOff
  <2>3. /\ DOMAIN fw' = Outcome /\ fw'.inputs = fw.inputs \cup {b[1]}
        /\ fw'.shutters = Append(fw.shutters, b[1])
        /\ fw'.results = Append(fw.results, [frame |-> b[1], dummy |-> FALSE])
        /\ fw'.back = Append(fw.back, b)
    BY ONLY <1>9, <2>2 DEF Outcome
  <2> DEFINE q == <<b>>
  <2>4. /\ q \in Seq(Requests!Buffers) /\ fw'.back = fw.back \o q
        /\ \A k \in DOMAIN q : q[k] = b
        /\ \A k, m \in DOMAIN q : q[k] = q[m] => k = m
    <3>1. q \in Seq(Requests!Buffers)
      BY <1>1
    <3>2. b \in Nat \X Requests!Streams
      BY BufferFacts
    <3>3. fw'.back = fw.back \o q
      <4>1. fw.back \in Seq(Nat \X Requests!Streams) /\ b \in Nat \X Requests!Streams
        BY <1>9, <3>2
      <4>2. Append(fw.back, b) = fw.back \o <<b>>
        BY ONLY <4>1, AppendIsConcat
      <4> QED
        BY <2>3, <4>2
    <3> QED
      BY ONLY <3>1, <3>3
  <2> HIDE DEF q
  <2>5. \A k \in DOMAIN q : q[k] \in mPendingBuffers \ mPendingBuffers'
    BY <1>5, <2>4
  <2>6. \A j \in DOMAIN l : j > 1 => l[j].frame # b[1] /\ l[j].frame > b[1] /\ l[j].frame \in Nat
    <3>1. \A j \in DOMAIN l : j > 1 => l[1].frame < l[j].frame /\ l[j].frame \in Nat
      BY <2>1, RequestLists DEF RequestsInv, Ascending
    <3> QED
      BY <1>1, <1>10, <2>1, <3>1
  <2>7. RequestsCounted' /\ Requests!RoomForNext'
    <3>1. Len(l') = Len(l) - 1
      BY <1>9, <2>1, HeadTailProperties DEF RequestTypes
    <3>2. mPendingRequest' < mPendingRequest
      BY <1>9, <2>2
    <3>3. Requests!RoomForNext'
      <4>1. caller' = "idle" => mPendingRequest < MaxInflight
        BY DEF RequestsInv, Requests!RoomForNext
      <4>2. MaxInflight \in Int
        BY DEF Requests!RequestsAssumption
      <4> QED
        BY <1>9, <2>2, <4>1, <4>2 DEF Requests!RoomForNext
    <3> QED
      BY <2>1, <2>2, <3>1, <3>3 DEF RequestsInv, RequestsCounted
  <2>8. /\ fw'.results \in Seq(ResultKind) /\ fw'.shutters \in Seq(Nat)
        /\ DOMAIN fw'.results = 1..(Len(fw.results) + 1)
        /\ DOMAIN fw'.shutters = 1..(Len(fw.shutters) + 1)
        /\ Len(fw.results) \in Nat /\ DOMAIN fw.results = 1..Len(fw.results)
        /\ Len(fw.shutters) \in Nat /\ DOMAIN fw.shutters = 1..Len(fw.shutters)
        /\ \A k \in DOMAIN fw.results : fw'.results[k] = fw.results[k]
        /\ \A k \in DOMAIN fw.shutters : fw'.shutters[k] = fw.shutters[k]
        /\ fw'.results[Len(fw.results) + 1].frame = b[1]
        /\ fw'.shutters[Len(fw.shutters) + 1] = b[1]
    <3> DEFINE r == [frame |-> b[1], dummy |-> FALSE]
    <3>1. r \in ResultKind /\ r.frame = b[1]
      BY ONLY <1>1 DEF ResultKind
    <3>2. fw'.results = Append(fw.results, r)
      BY <2>3
    <3> HIDE DEF r
    <3>3. /\ fw'.results \in Seq(ResultKind) /\ Len(fw'.results) = Len(fw.results) + 1
          /\ \A k \in 1..Len(fw.results) : fw'.results[k] = fw.results[k]
          /\ fw'.results[Len(fw.results) + 1] = r
      BY <1>9, <3>1, <3>2, AppendProperties
    <3>4. /\ fw'.shutters \in Seq(Nat) /\ Len(fw'.shutters) = Len(fw.shutters) + 1
          /\ \A k \in 1..Len(fw.shutters) : fw'.shutters[k] = fw.shutters[k]
          /\ fw'.shutters[Len(fw.shutters) + 1] = b[1]
      BY <1>1, <1>9, <2>3, AppendProperties
    <3>5. /\ DOMAIN fw'.results = 1..Len(fw'.results)
          /\ DOMAIN fw'.shutters = 1..Len(fw'.shutters)
          /\ Len(fw.results) \in Nat /\ DOMAIN fw.results = 1..Len(fw.results)
          /\ Len(fw.shutters) \in Nat /\ DOMAIN fw.shutters = 1..Len(fw.shutters)
      BY <1>9, <3>3, <3>4, LenProperties
    <3> QED
      BY ONLY <3>1, <3>3, <3>4, <3>5
  <2>9. \A k \in DOMAIN fw'.results : k \in DOMAIN fw.results \/ k = Len(fw.results) + 1
    BY ONLY <2>8
  <2>10. \A k \in DOMAIN fw'.results : fw'.results[k].frame \in Requests!Given
    BY <1>1, <2>8, <2>9 DEF RequestsInv, RequestsKnown
  <2>11. Ahead => Ahead'
    <3> SUFFICES ASSUME Ahead PROVE Ahead'
      OBVIOUS
    <3>1. Len(fw.shutters) = Len(fw.results) /\ DOMAIN fw'.shutters = DOMAIN fw'.results
      <4>1. 1..Len(fw.shutters) = 1..Len(fw.results)
        BY <2>8 DEF Ahead
      <4>2. Len(fw.shutters) = Len(fw.results)
        BY ONLY <2>8, <4>1
      <4> QED
        BY <2>8, <4>2
    <3>2. \A k \in DOMAIN fw.results : fw.results[k].frame < b[1]
      BY <1>2 DEF Ahead
    <3>3. \A k \in DOMAIN fw'.results : fw'.shutters[k] = fw'.results[k].frame
      BY <2>8, <2>9, <3>1 DEF Ahead
    <3>4. \A k, m \in DOMAIN fw'.results :
            k < m => fw'.results[k].frame < fw'.results[m].frame
      <4>1. \A k, m \in DOMAIN fw.results : k < m => fw.results[k].frame < fw.results[m].frame
        BY DEF Ahead
      <4>2. ASSUME NEW k \in DOMAIN fw'.results, NEW m \in DOMAIN fw'.results, k < m
            PROVE  fw'.results[k].frame < fw'.results[m].frame
        <5>1. k \in DOMAIN fw.results
          BY ONLY <2>8, <4>2
        <5> QED
          BY ONLY <2>8, <2>9, <3>2, <4>1, <4>2, <5>1
      <4> QED
        BY <4>2
    <3>5. \A k \in DOMAIN fw'.results, j \in DOMAIN l' :
            fw'.results[k].frame < l'[j].frame
      <4>1. \A j \in DOMAIN l' : \E m \in DOMAIN l : m > 1 /\ l'[j] = l[m]
        BY <1>9, <2>1, SuffixIs
      <4>2. \A k \in DOMAIN fw'.results, m \in DOMAIN l :
              m > 1 => fw'.results[k].frame < l[m].frame
        BY <2>6, <2>8, <2>9 DEF Ahead
      <4> QED
        BY <4>1, <4>2
    <3> QED
      BY <3>1, <3>3, <3>4, <3>5 DEF Ahead
  <2>12. Paired => Ahead'
    BY <2>11 DEF RequestsInv
  <2>13. mPendingRequest' \in Int
    BY <1>9, <2>2
  <2>14. \A g \in fw'.inputs :
           \/ g \in fw.inputs
           \/ /\ g \in Requests!Given
              /\ \A j \in DOMAIN l : j > 1 => l[j].frame # g
    BY <1>1, <2>3, <2>6
  <2>15. \A g \in mPendingReprocessResultList' : g \in mPendingReprocessResultList
    BY <2>2
  <2> HIDE DEF l
  <2> QED
    BY <1>5, <1>6, <1>7, <1>8, <2>1, <2>2, <2>3, <2>4, <2>5, <2>7, <2>8, <2>10,
       <2>12, <2>13, <2>14, <2>15, DropStep DEF l
<1>11. CASE Head(l).frame # b[1]
  <2>1. /\ mPendingReprocessResultList' = mPendingReprocessResultList \cup {b[1]}
        /\ UNCHANGED <<mPendingRequestsList, mPendingRequest, fw>>
    BY <1>11 DEF Requests!ReprocBuffer
  <2> DEFINE q == <<>>
  <2>2. /\ q \in Seq(Requests!Buffers) /\ fw'.back = fw.back \o q /\ DOMAIN q = {}
    BY <1>9, <2>1, ConcatEmptySeq
  <2>3. q = <<>>
    OBVIOUS
  <2> HIDE DEF q
  <2>4. l' = SubSeq(l, 0 + 1, Len(l)) /\ 0 \in 0..Len(l)
    BY <1>9, <2>1, RestIs
  <2>5. RequestsCounted' /\ Requests!RoomForNext' /\ (Paired => Ahead')
    BY <2>1 DEF RequestsInv, RequestsCounted, Requests!RoomForNext, Ahead
  <2>6. \A g \in mPendingReprocessResultList' :
          \/ g \in mPendingReprocessResultList
          \/ /\ g \in Requests!Given /\ Reprocessed(g) /\ q = <<>>
             /\ <<g, "blob">> \in mPendingBuffers \ mPendingBuffers'
    BY <1>1, <1>3, <1>5, <2>1, <2>3 DEF Reprocessed
  <2>7. \A k \in DOMAIN fw'.results : fw'.results[k].frame \in Requests!Given
    BY <2>1 DEF RequestsInv, RequestsKnown
  <2> QED
    BY <1>5, <1>6, <1>7, <1>8, <1>9, <2>1, <2>2, <2>4, <2>5, <2>6, <2>7, DropStep
<1> QED
  BY <1>10, <1>11

LEMMA CaptureKeeps ==
  ASSUME Requests!RequestsAssumption, RequestsInv, Requests!captureResultCb
  PROVE  RequestsInv'
<1>1. PICK b \in bufs : Requests!handleBufferWithLock(b[1], b[2]) /\ bufs' = bufs \ {b}
  BY DEF Requests!captureResultCb
<1>2. UNCHANGED <<caller, mFlush, mFirstRequest, toStop, kindOf, metas>>
  BY DEF Requests!captureResultCb, Requests!ctl
<1> QED
  BY <1>1, <1>2, LateBufferKeeps, KeepBufferKeeps, ReprocBufferKeeps
  DEF Requests!handleBufferWithLock

-----------------------------------------------------------------------------
\* The flush gives back all that is pending and forgets the rest.
LEMMA FlushEndKeeps ==
  ASSUME Requests!RequestsAssumption, RequestsInv, Requests!FlushEnd
  PROVE  /\ RequestsInv'
         /\ "reprocess" \notin Kinds =>
              /\ \A b \in Requests!Buffers : \E i \in DOMAIN fw'.back : fw'.back[i] = b
              /\ \A g \in Requests!Given :
                   \/ g \in fw'.requestErrors
                   \/ \E i \in DOMAIN fw'.results : fw'.results[i].frame = g
<1> DEFINE l == mPendingRequestsList
           q == Requests!SetToSeq(mPendingBuffers)
<1>1. /\ mFlush /\ toStop = <<>> /\ mFlush' = FALSE /\ l' = <<>> /\ mPendingBuffers' = {}
      /\ mPendingReprocessResultList' = {} /\ mPendingRequest' = 0
      /\ UNCHANGED <<kindOf, toStop, caller, metas, bufs>>
  BY DEF Requests!FlushEnd, Requests!backend
<1>2. PICK frameNum \in IF l = <<>> THEN 0..(MaxFrames + 1) ELSE {Head(l).frame} :
        fw' = [fw EXCEPT
          !.bufferErrors = @ \cup {b \in mPendingBuffers : b[1] < frameNum},
          !.requestErrors = @ \cup
             {b[1] : b \in mPendingBuffers \ {c \in mPendingBuffers : c[1] < frameNum}},
          !.back = @ \o q, !.bad = @ \cup mPendingBuffers]
  BY DEF Requests!FlushEnd
<1>3. /\ DOMAIN fw = Outcome /\ fw.shutters \in Seq(Nat) /\ fw.results \in Seq(ResultKind)
      /\ l \in Seq(RequestKind) /\ RequestTypes
  BY DEF RequestsInv, RequestTypes
<1> HIDE DEF q
<1>4. /\ DOMAIN fw' = Outcome /\ UNCHANGED <<fw.shutters, fw.results, fw.inputs>>
      /\ fw'.back = fw.back \o q
      /\ fw'.requestErrors = fw.requestErrors \cup
           {b[1] : b \in mPendingBuffers \ {c \in mPendingBuffers : c[1] < frameNum}}
  BY ONLY <1>2, <1>3 DEF Outcome
<1>5. bufs = {} /\ metas = <<>>
  <2>1. DOMAIN toStop = {}
    BY <1>1
  <2> QED
    BY <1>1, <2>1 DEF RequestsInv, RequestsFlushed
<1>6. /\ q \in Seq(mPendingBuffers) /\ \A i, j \in DOMAIN q : q[i] = q[j] => i = j
      /\ \A b \in mPendingBuffers : \E i \in DOMAIN q : q[i] = b
  <2>1. IsFiniteSet(mPendingBuffers)
    BY BuffersFinite DEF RequestsInv, RequestsKnown
  <2> QED
    BY <2>1, Enumerated DEF q
<1>7. q \in Seq(Requests!Buffers) /\ \A i \in DOMAIN q : q[i] \in mPendingBuffers \ mPendingBuffers'
  <2>1. \A i \in DOMAIN q : q[i] \in mPendingBuffers
    BY <1>6, ElementOfSeq, LenProperties
  <2>2. \A i \in DOMAIN q : q[i] \in Requests!Buffers
    BY <2>1 DEF RequestsInv, RequestsKnown
  <2>3. q \in Seq(Requests!Buffers)
    BY <1>6, <2>2, LenProperties
  <2> QED
    BY <1>1, <2>1, <2>3
<1>8. l' = SubSeq(l, Len(l) + 1, Len(l)) /\ Len(l) \in 0..Len(l) /\ Len(l) \in Nat
      /\ \A j \in DOMAIN l : ~(j > Len(l))
  <2>1. Len(l) \in Nat /\ DOMAIN l = 1..Len(l)
    BY <1>3, LenProperties
  <2> QED
    BY <1>1, <2>1, SubSeqEmpty
<1>9. /\ \A i \in DOMAIN fw.back : i \in DOMAIN fw'.back /\ fw'.back[i] = fw.back[i]
      /\ \A k \in DOMAIN q : \E i \in DOMAIN fw'.back : fw'.back[i] = q[k]
  BY <1>4, <1>7, BackGrows
<1>10. ASSUME "reprocess" \notin Kinds, NEW b \in Requests!Buffers
       PROVE  \E i \in DOMAIN fw'.back : fw'.back[i] = b
  <2>1. b \in mPendingBuffers \/ \E i \in DOMAIN fw.back : fw.back[i] = b
    BY <1>10 DEF RequestsInv, NothingForgotten
  <2> QED
    BY ONLY <1>6, <1>9, <2>1
<1>11. ASSUME "reprocess" \notin Kinds, NEW g \in Requests!Given
       PROVE  \/ g \in fw'.requestErrors
              \/ \E i \in DOMAIN fw'.results : fw'.results[i].frame = g
  <2>1. CASE Pending(g)
    <3>1. PICK j \in DOMAIN l : l[j].frame = g
      BY <2>1 DEF Pending
    <3>2. l # <<>> /\ Head(l) = l[1] /\ 1 \in DOMAIN l /\ j \in Nat \ {0}
      <4>1. DOMAIN l = 1..Len(l) /\ Len(l) \in Nat
        BY <1>3, LenProperties
      <4>2. l # <<>>
        BY <3>1
      <4> QED
        BY <1>3, <3>1, <4>1, <4>2, RestIs
    <3>3. frameNum = l[1].frame /\ l[1].frame \in Nat /\ g \in Nat
      BY <1>2, <1>3, <3>1, <3>2, RequestLists
    <3>4. ~(g < frameNum)
      BY <3>1, <3>2, <3>3 DEF RequestsInv, Ascending
    <3>5. \E s : <<g, s>> \in mPendingBuffers
      <4>1. \A k : \E s : s \in Requests!Asked(k)
        <5>1. \A k : Requests!Asked(k) \in {{"p"}, {"p", "blob"}, {"blob"}}
          BY DEF Requests!Asked, Requests!Streams
        <5> QED
          BY <5>1
      <4> QED
        BY <1>11, <3>1, <4>1 DEF RequestsInv, NothingForgotten
    <3>6. PICK s : <<g, s>> \in mPendingBuffers
      BY <3>5
    <3>7. <<g, s>> \in mPendingBuffers \ {c \in mPendingBuffers : c[1] < frameNum}
      BY <3>4, <3>6
    <3>8. <<g, s>>[1] \in fw'.requestErrors
      BY ONLY <1>4, <3>7
    <3> QED
      BY <3>8
  <2>2. CASE ~Pending(g)
    BY <1>4, <1>11, <2>2 DEF RequestsInv, NothingForgotten
  <2> QED
    BY <2>1, <2>2
<1>12. Requests!Given' = Requests!Given /\ Requests!Buffers' = Requests!Buffers /\ DOMAIN l' = {}
  BY <1>1 DEF Requests!Given, Requests!Buffers
<1>13. "reprocess" \notin Kinds => NothingForgotten'
  BY <1>10, <1>11, <1>12 DEF NothingForgotten
<1>14. Paired => Ahead'
  BY <1>4, <1>12 DEF RequestsInv, Ahead
<1>15. RequestsCounted' /\ RequestsFlushed' /\ Requests!RoomForNext' /\ mPendingRequest' \in Int
  <2>1. 0 < MaxInflight
    BY DEF Requests!RequestsAssumption
  <2> QED
    BY <1>1, <2>1 DEF RequestsCounted, RequestsFlushed, Requests!RoomForNext
<1>16. /\ \A i \in DOMAIN fw'.results : fw'.results[i].frame \in Requests!Given
       /\ \A g \in fw'.inputs : g \in fw.inputs
       /\ \A g \in mPendingReprocessResultList' : g \in mPendingReprocessResultList
       /\ bufs' \subseteq bufs /\ bufs' \subseteq mPendingBuffers'
       /\ mPendingBuffers' \subseteq mPendingBuffers
       /\ fw'.shutters \in Seq(Nat) /\ fw'.results \in Seq(ResultKind)
  BY <1>1, <1>3, <1>4, <1>5 DEF RequestsInv, RequestsKnown
<1>17. \A j \in DOMAIN l : j > Len(l) => \A s \in l[j].here :
         <<l[j].frame, s>> \in mPendingBuffers'
  BY <1>8
<1> HIDE DEF l
<1>18. RequestsInv'
  BY <1>1, <1>4, <1>6, <1>7, <1>8, <1>13, <1>14, <1>15, <1>16, <1>17, DropStep DEF l
<1> QED
  BY <1>10, <1>11, <1>18

-----------------------------------------------------------------------------
(* Metadata of a frame answers the first requests of the list. *)

LEMMA SameLength ==
  ASSUME NEW m \in Nat, NEW n \in Nat, 1..m = 1..n
  PROVE  m = n
<1>1. m > n => m \in 1..m /\ m \notin 1..n
  OBVIOUS
<1>2. n > m => n \in 1..n /\ n \notin 1..m
  OBVIOUS
<1> QED
  BY <1>1, <1>2

\* The order in which the first n go, and the one that was held back with them.
Order(n, held) ==
    LET upTo == SubSeq(mPendingRequestsList, 1, n)
    IN  IF held = <<>> THEN upTo ELSE <<Head(upTo)>> \o held \o Tail(upTo)

LEMMA OrderIs ==
  ASSUME RequestTypes, NEW n \in 0..Len(mPendingRequestsList), NEW held,
         \/ held = <<>>
         \/ /\ n > 0 /\ n < Len(mPendingRequestsList)
            /\ held = <<mPendingRequestsList[n + 1]>>,
         NEW d, d = IF held = <<>> THEN n ELSE n + 1
  PROVE  /\ d \in 0..Len(mPendingRequestsList) /\ n <= d
         /\ Order(n, held) \in Seq(RequestKind) /\ Len(Order(n, held)) = d
         /\ DOMAIN Order(n, held) = 1..d
         /\ \A i \in 1..d : \E j \in 1..d : Order(n, held)[i] = mPendingRequestsList[j]
         /\ held = <<>> \/ n = 1 =>
              \A i \in 1..d : Order(n, held)[i] = mPendingRequestsList[i]
<1> DEFINE l == mPendingRequestsList
           upTo == SubSeq(l, 1, n)
<1>1. /\ Len(l) \in Nat /\ n \in Nat /\ n <= Len(l) /\ DOMAIN l = 1..Len(l)
      /\ \A i \in DOMAIN l : l[i] \in RequestKind
  BY RequestLists
<1>2. /\ upTo \in Seq(RequestKind) /\ Len(upTo) = n /\ DOMAIN upTo = 1..n
      /\ \A i \in 1..n : upTo[i] = l[i]
  <2>1. \A i \in 1..n : l[i] \in RequestKind
    BY <1>1
  <2> HIDE DEF l
  <2>2. /\ upTo \in Seq(RequestKind) /\ Len(upTo) = IF 1 <= n THEN n - 1 + 1 ELSE 0
        /\ \A i \in 1..(n - 1 + 1) : upTo[i] = l[1 + i - 1]
    <3>1. 1 \in Int /\ n \in Int
      BY <1>1
    <3> QED
      BY <2>1, <3>1, SubSeqProperties
  <2> HIDE DEF upTo
  <2>3. Len(upTo) = n /\ DOMAIN upTo = 1..n
    BY <1>1, <2>2, LenProperties
  <2>4. \A i \in 1..n : upTo[i] = l[i]
    BY <1>1, <2>2
  <2> QED
    BY <2>2, <2>3, <2>4
<1>3. CASE held = <<>>
  <2>1. Order(n, held) = upTo
    BY <1>3 DEF Order
  <2> HIDE DEF upTo
  <2> QED
    BY <1>1, <1>2, <1>3, <2>1
<1>4. CASE held # <<>>
  <2> DEFINE o == <<upTo[1]>> \o <<l[n + 1]>>
             w == o \o Tail(upTo)
  <2>1. n > 0 /\ n + 1 \in 1..Len(l) /\ held = <<l[n + 1]>>
    BY <1>1, <1>4
  <2>2. /\ Tail(upTo) \in Seq(RequestKind) /\ Head(upTo) = upTo[1] /\ upTo[1] = l[1]
        /\ Len(Tail(upTo)) = n - 1 /\ \A i \in 1..(n - 1) : Tail(upTo)[i] = l[i + 1]
    <3>1. upTo # <<>>
      BY <1>1, <1>2, <2>1
    <3> HIDE DEF upTo
    <3>2. /\ Tail(upTo) \in Seq(RequestKind) /\ Head(upTo) = upTo[1]
          /\ Len(Tail(upTo)) = n - 1
          /\ \A i \in 1..Len(Tail(upTo)) : Tail(upTo)[i] = upTo[i + 1]
      BY <1>2, <3>1, HeadTailProperties
    <3> QED
      BY <1>1, <1>2, <2>1, <3>2
  <2>3. Order(n, held) = w
    BY <1>4, <2>1, <2>2 DEF Order
  <2> HIDE DEF upTo, l
  <2>4. /\ o \in Seq(RequestKind) /\ Len(o) = 2 /\ o[1] = l[1] /\ o[2] = l[n + 1]
    <3>1. l[1] \in RequestKind /\ l[n + 1] \in RequestKind
      BY <1>1, <2>1
    <3> QED
      BY <2>2, <3>1
  <2> HIDE DEF o
  <2>5. /\ w \in Seq(RequestKind) /\ Len(w) = 2 + (n - 1)
        /\ \A i \in 1..(2 + (n - 1)) : w[i] = IF i <= 2 THEN o[i] ELSE Tail(upTo)[i - 2]
    <3>1. /\ w \in Seq(RequestKind) /\ Len(w) = Len(o) + Len(Tail(upTo))
          /\ \A i \in 1..(Len(o) + Len(Tail(upTo))) :
               w[i] = IF i <= Len(o) THEN o[i] ELSE Tail(upTo)[i - Len(o)]
      BY ONLY <2>2, <2>4, ConcatProperties
    <3> HIDE DEF w
    <3> QED
      BY ONLY <2>2, <2>4, <3>1
  <2> HIDE DEF w
  <2>6. Len(w) = n + 1 /\ DOMAIN w = 1..(n + 1)
    BY <1>1, <2>5, LenProperties
  <2>7. ASSUME NEW i \in 1..(n + 1)
        PROVE  /\ \E j \in 1..(n + 1) : w[i] = l[j]
               /\ n = 1 => w[i] = l[i]
    <3>1. CASE i = 1
      BY <1>1, <2>4, <2>5, <2>7, <3>1
    <3>2. CASE i = 2
      <4>1. w[i] = l[n + 1] /\ n + 1 \in 1..(n + 1)
        BY <1>1, <2>1, <2>4, <2>5, <3>2
      <4> QED
        BY <3>2, <4>1
    <3>3. CASE i > 2
      <4>1. i - 2 \in 1..(n - 1) /\ i - 1 \in 1..(n + 1) /\ i - 2 + 1 = i - 1 /\ n # 1
        BY <1>1, <2>7, <3>3
      <4>2. w[i] = l[i - 1]
        <5>1. i \in 1..(2 + (n - 1)) /\ ~(i <= 2)
          BY ONLY <1>1, <2>7, <3>3
        <5>2. w[i] = Tail(upTo)[i - 2]
          BY ONLY <2>5, <5>1
        <5>3. Tail(upTo)[i - 2] = l[i - 2 + 1]
          BY ONLY <2>2, <4>1
        <5> QED
          BY ONLY <4>1, <5>2, <5>3
      <4> QED
        BY <4>1, <4>2
    <3> QED
      BY <1>1, <2>7, <3>1, <3>2, <3>3
  <2>8. d = n + 1 /\ n + 1 \in 0..Len(l) /\ n <= n + 1
    BY <1>1, <1>4, <2>1
  <2>9. \A i \in 1..d : \E j \in 1..d : w[i] = l[j]
    BY <2>7, <2>8
  <2>10. held = <<>> \/ n = 1 => \A i \in 1..d : w[i] = l[i]
    BY <1>4, <2>7, <2>8
  <2> QED
    BY <2>3, <2>5, <2>6, <2>8, <2>9, <2>10 DEF l
<1> QED
  BY <1>3, <1>4

\* What the framework is told of them.
LEMMA RowsTold ==
  ASSUME NEW order \in Seq(RequestKind), NEW f \in Nat
  PROVE  LET T == [i \in DOMAIN order |-> order[i].frame]
             R == [i \in DOMAIN order |->
                     [frame |-> order[i].frame, dummy |-> order[i].frame < f]]
         IN  /\ T \in Seq(Nat) /\ R \in Seq(ResultKind)
             /\ DOMAIN T = DOMAIN order /\ DOMAIN R = DOMAIN order
             /\ \A i \in DOMAIN order :
                  T[i] = order[i].frame /\ R[i].frame = order[i].frame
<1> DEFINE T == [i \in DOMAIN order |-> order[i].frame]
           R == [i \in DOMAIN order |->
                   [frame |-> order[i].frame, dummy |-> order[i].frame < f]]
<1>1. Len(order) \in Nat /\ DOMAIN order = 1..Len(order)
  BY LenProperties
<1>2. \A i \in DOMAIN order : order[i].frame \in Nat
  <2>1. \A i \in DOMAIN order : order[i] \in RequestKind
    BY <1>1, ElementOfSeq
  <2>2. \A r \in RequestKind : r.frame \in Nat
    BY DEF RequestKind
  <2> QED
    BY <2>1, <2>2
<1>3. \A i \in DOMAIN order : [frame |-> order[i].frame, dummy |-> order[i].frame < f] \in ResultKind
  BY <1>2 DEF ResultKind
<1>4. T \in Seq(Nat) /\ R \in Seq(ResultKind)
  BY <1>1, <1>2, <1>3
<1> QED
  BY <1>4

\* Results of the first d requests, in the order of the list, keep the results in order.
LEMMA AheadGrows ==
  ASSUME RequestsInv, Ahead, NEW d \in 0..Len(mPendingRequestsList),
         mPendingRequestsList' =
            SubSeq(mPendingRequestsList, d + 1, Len(mPendingRequestsList)),
         NEW R \in Seq(ResultKind), NEW T \in Seq(Nat), DOMAIN R = 1..d, DOMAIN T = 1..d,
         \A i \in 1..d : /\ R[i].frame = mPendingRequestsList[i].frame
                         /\ T[i] = mPendingRequestsList[i].frame,
         fw'.results = fw.results \o R, fw'.shutters = fw.shutters \o T
  PROVE  Ahead'
<1> DEFINE l == mPendingRequestsList
           r == fw.results \o R
           t == fw.shutters \o T
<1>1. /\ Len(l) \in Nat /\ d \in Nat /\ DOMAIN l = 1..Len(l) /\ d <= Len(l)
      /\ \A j \in DOMAIN l : l[j].frame \in Nat
      /\ \A i, j \in DOMAIN l : i < j => l[i].frame < l[j].frame
      /\ fw.results \in Seq(ResultKind) /\ fw.shutters \in Seq(Nat) /\ RequestTypes
  BY RequestLists DEF RequestsInv, RequestTypes, Ascending
<1>2. /\ DOMAIN fw.shutters = DOMAIN fw.results
      /\ \A i \in DOMAIN fw.results : fw.shutters[i] = fw.results[i].frame
      /\ \A i, j \in DOMAIN fw.results : i < j => fw.results[i].frame < fw.results[j].frame
      /\ \A i \in DOMAIN fw.results, j \in DOMAIN l : fw.results[i].frame < l[j].frame
  BY DEF Ahead
<1>3. \A j \in DOMAIN l' : \E m \in DOMAIN l : m > d /\ l'[j] = l[m]
  BY <1>1, SuffixIs
<1>4. /\ Len(fw.results) \in Nat /\ DOMAIN fw.results = 1..Len(fw.results)
      /\ Len(fw.shutters) = Len(fw.results)
  <2>1. /\ Len(fw.results) \in Nat /\ DOMAIN fw.results = 1..Len(fw.results)
        /\ Len(fw.shutters) \in Nat /\ DOMAIN fw.shutters = 1..Len(fw.shutters)
    BY <1>1, LenProperties
  <2> QED
    BY ONLY <1>2, <2>1
<1>5. /\ DOMAIN r = 1..(Len(fw.results) + d) /\ DOMAIN t = 1..(Len(fw.results) + d)
      /\ \A i \in 1..(Len(fw.results) + d) :
           /\ r[i] = IF i <= Len(fw.results) THEN fw.results[i] ELSE R[i - Len(fw.results)]
           /\ t[i] = IF i <= Len(fw.results) THEN fw.shutters[i] ELSE T[i - Len(fw.results)]
  <2>1. Len(R) = d /\ Len(T) = d
    <3>1. /\ Len(R) \in Nat /\ DOMAIN R = 1..Len(R)
          /\ Len(T) \in Nat /\ DOMAIN T = 1..Len(T)
      BY LenProperties
    <3>2. 1..Len(R) = 1..d /\ 1..Len(T) = 1..d
      BY <3>1
    <3>3. Len(R) = d
      BY ONLY <1>1, <3>1, <3>2, SameLength
    <3>4. Len(T) = d
      BY ONLY <1>1, <3>1, <3>2, SameLength
    <3> QED
      BY <3>3, <3>4
  <2>2. /\ r \in Seq(ResultKind) /\ Len(r) = Len(fw.results) + d
        /\ t \in Seq(Nat) /\ Len(t) = Len(fw.results) + d
        /\ \A i \in 1..(Len(fw.results) + d) :
             /\ r[i] = IF i <= Len(fw.results) THEN fw.results[i] ELSE R[i - Len(fw.results)]
             /\ t[i] = IF i <= Len(fw.results) THEN fw.shutters[i] ELSE T[i - Len(fw.results)]
    <3>1. /\ r \in Seq(ResultKind) /\ Len(r) = Len(fw.results) + Len(R)
          /\ \A i \in 1..(Len(fw.results) + Len(R)) :
               r[i] = IF i <= Len(fw.results) THEN fw.results[i] ELSE R[i - Len(fw.results)]
      BY <1>1, ConcatProperties
    <3>2. /\ t \in Seq(Nat) /\ Len(t) = Len(fw.shutters) + Len(T)
          /\ \A i \in 1..(Len(fw.shutters) + Len(T)) :
               t[i] = IF i <= Len(fw.shutters) THEN fw.shutters[i] ELSE T[i - Len(fw.shutters)]
      BY <1>1, ConcatProperties
    <3> HIDE DEF r, t
    <3> QED
      BY ONLY <1>4, <2>1, <3>1, <3>2
  <2> HIDE DEF r, t
  <2> QED
    BY <2>2, LenProperties
<1>6. fw'.results = r /\ fw'.shutters = t
  OBVIOUS
<1>7. \A i \in 1..d : R[i].frame = l[i].frame /\ T[i] = l[i].frame
  OBVIOUS
<1> HIDE DEF r, t, l
<1>8. \A i \in DOMAIN r : \/ /\ i \in DOMAIN fw.results /\ r[i] = fw.results[i]
                             /\ t[i] = fw.shutters[i]
                          \/ /\ i - Len(fw.results) \in 1..d /\ i - Len(fw.results) \in DOMAIN l
                             /\ r[i].frame = l[i - Len(fw.results)].frame
                             /\ t[i] = l[i - Len(fw.results)].frame
  <2>1. ASSUME NEW i \in DOMAIN r, i <= Len(fw.results)
        PROVE  i \in DOMAIN fw.results /\ r[i] = fw.results[i] /\ t[i] = fw.shutters[i]
    BY ONLY <1>4, <1>5, <2>1
  <2>2. ASSUME NEW i \in DOMAIN r, ~(i <= Len(fw.results))
        PROVE  /\ i - Len(fw.results) \in 1..d /\ i - Len(fw.results) \in DOMAIN l
               /\ r[i].frame = l[i - Len(fw.results)].frame
               /\ t[i] = l[i - Len(fw.results)].frame
    <3>1. i - Len(fw.results) \in 1..d /\ i - Len(fw.results) \in DOMAIN l
      BY ONLY <1>1, <1>4, <1>5, <2>2
    <3>2. r[i] = R[i - Len(fw.results)] /\ t[i] = T[i - Len(fw.results)]
      BY ONLY <1>5, <2>2
    <3> QED
      BY ONLY <1>7, <3>1, <3>2
  <2> QED
    BY <2>1, <2>2
<1>9. \A i \in DOMAIN r : t[i] = r[i].frame
  BY ONLY <1>2, <1>8
<1>10. ASSUME NEW i \in DOMAIN r, NEW j \in DOMAIN r, i < j
       PROVE  r[i].frame < r[j].frame
  <2>1. CASE i \in DOMAIN fw.results /\ r[i] = fw.results[i]
    BY ONLY <1>2, <1>8, <1>10, <2>1
  <2>2. CASE /\ i - Len(fw.results) \in 1..d /\ i - Len(fw.results) \in DOMAIN l
             /\ r[i].frame = l[i - Len(fw.results)].frame
    <3>1. /\ j - Len(fw.results) \in DOMAIN l /\ r[j].frame = l[j - Len(fw.results)].frame
          /\ i - Len(fw.results) < j - Len(fw.results)
      <4>1. /\ i \in Nat /\ j \in Nat /\ Len(fw.results) \in Nat /\ i > Len(fw.results)
            /\ DOMAIN fw.results = 1..Len(fw.results)
        BY ONLY <1>1, <1>4, <1>5, <1>10, <2>2
      <4>2. ~(j \in DOMAIN fw.results) /\ i - Len(fw.results) < j - Len(fw.results)
        BY ONLY <1>10, <4>1
      <4> QED
        BY ONLY <1>8, <1>10, <4>2
    <3> QED
      BY ONLY <1>1, <2>2, <3>1
  <2> QED
    BY <1>8, <2>1, <2>2
<1>11. ASSUME NEW i \in DOMAIN r, NEW m \in DOMAIN l, m > d
       PROVE  r[i].frame < l[m].frame
  <2>1. CASE i \in DOMAIN fw.results /\ r[i] = fw.results[i]
    BY ONLY <1>2, <2>1, <1>11
  <2>2. CASE /\ i - Len(fw.results) \in 1..d /\ i - Len(fw.results) \in DOMAIN l
             /\ r[i].frame = l[i - Len(fw.results)].frame
    BY ONLY <1>1, <1>11, <2>2
  <2> QED
    BY <1>8, <2>1, <2>2
<1>12. \A i \in DOMAIN r, j \in DOMAIN l' : r[i].frame < l'[j].frame
  BY ONLY <1>3, <1>11
<1> QED
  BY <1>5, <1>6, <1>9, <1>10, <1>12 DEF Ahead, l

\* The one that was held back by the frame before it, and what it stands for.
LEMMA HeldIs ==
  ASSUME RequestsInv, NEW n \in 0..Len(mPendingRequestsList), NEW f
  PROVE  LET rest == SubSeq(mPendingRequestsList, n + 1, Len(mPendingRequestsList))
             held == IF n = 0 THEN <<>> ELSE Requests!handlePendingReprocResults(rest, f)
         IN  \/ held = <<>>
             \/ /\ n > 0 /\ n < Len(mPendingRequestsList)
                /\ held = <<mPendingRequestsList[n + 1]>>
                /\ mPendingRequestsList[n + 1].frame \in mPendingReprocessResultList
                /\ Tail(rest) =
                     SubSeq(mPendingRequestsList, n + 2, Len(mPendingRequestsList))
<1> DEFINE l == mPendingRequestsList
           rest == SubSeq(l, n + 1, Len(l))
           held == IF n = 0 THEN <<>> ELSE Requests!handlePendingReprocResults(rest, f)
<1>1. SUFFICES ASSUME held # <<>>
               PROVE  /\ n > 0 /\ n < Len(l) /\ held = <<l[n + 1]>>
                      /\ l[n + 1].frame \in mPendingReprocessResultList
                      /\ Tail(rest) = SubSeq(l, n + 2, Len(l))
  OBVIOUS
<1>2. /\ n # 0 /\ rest # <<>> /\ Head(rest).frame \in mPendingReprocessResultList
      /\ held = <<Head(rest)>>
  BY <1>1 DEF Requests!handlePendingReprocResults
<1>3. l \in Seq(RequestKind) /\ Len(l) \in Nat /\ n \in Nat /\ n <= Len(l)
  BY RequestLists DEF RequestsInv, RequestTypes
<1>4. n < Len(l)
  <2>1. n = Len(l) => rest = <<>>
    BY <1>3, SubSeqEmpty
  <2> QED
    BY <1>2, <1>3, <2>1
<1>5. n + 1 \in 1..Len(l) /\ Len(l) \in (n + 1)..Len(l) /\ n + 1 + 1 = n + 2
  BY <1>3, <1>4
<1> HIDE DEF l
<1>6. Head(rest) = l[n + 1] /\ Tail(rest) = SubSeq(l, n + 2, Len(l))
  BY <1>3, <1>5, HeadTailOfSubSeq
<1> QED
  BY <1>2, <1>3, <1>4, <1>6 DEF l

\* One of them goes alone unless frames were lost, as each has metadata of its own.
LEMMA HeldAlone ==
  ASSUME RequestsInv, Paired, metas # <<>>, NEW n \in 1..Len(mPendingRequestsList),
         n < Len(mPendingRequestsList),
         mPendingRequestsList[n + 1].frame \in mPendingReprocessResultList,
         \A i \in 1..n : mPendingRequestsList[i].frame <= Head(metas)
  PROVE  n = 1
<1> DEFINE l == mPendingRequestsList
<1>1. /\ Len(l) \in Nat /\ n \in Nat \ {0} /\ DOMAIN l = 1..Len(l) /\ n + 1 \in DOMAIN l
      /\ \A i \in DOMAIN l : l[i].frame \in Nat /\ l[i].kind \in Kinds
  BY RequestLists DEF RequestsInv
<1>2. metas \in Seq(Nat) /\ Head(metas) = metas[1] /\ metas[1] \in Nat /\ 1 \in DOMAIN metas
      /\ \A m \in DOMAIN metas : m \in Nat \ {0}
  <2>1. metas \in Seq(Nat) /\ DOMAIN metas = 1..Len(metas) /\ Len(metas) \in Nat
    BY RequestLists DEF RequestsInv, RequestTypes
  <2> QED
    BY <2>1, TailIs
<1>3. l[n + 1].kind = "reprocess" /\ ~MetaLost
  BY <1>1 DEF RequestsInv, RequestsKnown, Reprocessed, Paired
<1> SUFFICES ASSUME n # 1 PROVE FALSE
  OBVIOUS
<1>4. /\ 1 \in DOMAIN l /\ 2 \in DOMAIN l /\ 1 \in 1..n /\ 2 \in 1..n
      /\ 1 # n + 1
  BY <1>1
<1>5. l[1].kind # "reprocess"
  BY <1>1, <1>3, <1>4 DEF RequestsInv, OneInput
<1>6. l[1].frame <= metas[1] /\ l[2].frame <= metas[1] /\ l[1].frame < l[2].frame
  BY <1>2, <1>4 DEF RequestsInv, Ascending
<1>7. \/ \E m \in DOMAIN metas : metas[m] = l[1].frame
      \/ \A k \in DOMAIN metas : metas[k] < l[1].frame
  BY <1>3, <1>4, <1>5 DEF RequestsInv, MetaToCome
<1>8. \A m \in DOMAIN metas : m = 1 \/ metas[1] < metas[m]
  BY <1>2 DEF RequestsInv, Ascending
<1>9. metas[1] <= l[1].frame
  <2>1. CASE \E m \in DOMAIN metas : metas[m] = l[1].frame
    <3>1. PICK m \in DOMAIN metas : metas[m] = l[1].frame
      BY <2>1
    <3>2. l[1].frame \in Nat
      BY <1>1, <1>4
    <3>3. CASE m = 1
      BY <1>2, <3>1, <3>2, <3>3
    <3>4. CASE metas[1] < metas[m]
      BY <1>2, <3>1, <3>2, <3>4
    <3> QED
      BY <1>8, <3>1, <3>3, <3>4
  <2>2. CASE \A k \in DOMAIN metas : metas[k] < l[1].frame
    BY <1>1, <1>2, <1>4, <2>2
  <2> QED
    BY <1>7, <2>1, <2>2
<1> QED
  BY <1>1, <1>2, <1>4, <1>6, <1>9

LEMMA MetadataKeeps ==
  ASSUME Requests!RequestsAssumption, RequestsInv, Requests!handleMetadataWithLock
  PROVE  RequestsInv'
<1> DEFINE l == mPendingRequestsList
           f == Head(metas)
<1>1. /\ metas # <<>> /\ metas' = Tail(metas)
      /\ UNCHANGED <<caller, mFlush, mFirstRequest, toStop, kindOf, bufs>>
  BY DEF Requests!handleMetadataWithLock, Requests!ctl
<1>2. PICK n \in 0..Len(l) :
        /\ \A i \in 1..n : l[i].frame <= f
        /\ n < Len(l) => l[n + 1].frame > f
        /\ \E dropped \in SUBSET (IF Drops THEN Requests!Streams ELSE {}) :
             Requests!Answer(f, n, dropped)
  BY DEF Requests!handleMetadataWithLock
<1>3. PICK dropped : Requests!Answer(f, n, dropped)
  BY <1>2
<1> DEFINE upTo == SubSeq(l, 1, n)
           rest == SubSeq(l, n + 1, Len(l))
           held == IF n = 0 THEN <<>> ELSE Requests!handlePendingReprocResults(rest, f)
           order == Order(n, held)
           gone == Requests!ToSet(upTo)
           drops == {<<r.frame, s>> : r \in gone, s \in dropped} \cap
                    UNION {{<<r.frame, s>> : s \in Requests!Asked(r.kind)} : r \in gone}
           sent == UNION {{<<r.frame, s>> : s \in r.here} : r \in gone}
           early == {r.frame : r \in Requests!ToSet(held)}
           S == sent \cup {<<g, "blob">> : g \in early}
           q == Requests!SetToSeq(S)
           T == [i \in DOMAIN order |-> order[i].frame]
           R == [i \in DOMAIN order |->
                   [frame |-> order[i].frame, dummy |-> order[i].frame < f]]
           d == IF held = <<>> THEN n ELSE n + 1
<1>4. /\ fw' = [fw EXCEPT
            !.bufferErrors = @ \cup drops, !.shutters = @ \o T, !.results = @ \o R,
            !.back = @ \o q, !.bad = @ \cup {b \in sent \cap drops : b[1] = f},
            !.inputs = @ \cup early]
      /\ l' = IF held = <<>> THEN rest ELSE Tail(rest)
      /\ mPendingReprocessResultList' = mPendingReprocessResultList \ early
      /\ mPendingRequest' = mPendingRequest - Len(order)
      /\ mPendingBuffers' = mPendingBuffers \ sent
  BY <1>3 DEF Requests!Answer, Requests!CountedOff, Order
<1>5. /\ DOMAIN fw = Outcome /\ RequestTypes /\ mPendingRequest \in Int
      /\ Len(l) \in Nat /\ n \in Nat /\ n <= Len(l) /\ DOMAIN l = 1..Len(l)
      /\ fw.shutters \in Seq(Nat) /\ fw.results \in Seq(ResultKind) /\ l \in Seq(RequestKind)
      /\ \A i \in DOMAIN l : l[i] \in RequestKind /\ l[i].frame \in Nat
      /\ \A i, j \in DOMAIN l : i < j => l[i].frame < l[j].frame
  BY RequestLists DEF RequestsInv, RequestTypes, Ascending
<1>6. f \in Nat
  BY <1>1, HeadTailProperties DEF RequestsInv, RequestTypes
<1>7. \/ held = <<>>
      \/ /\ n > 0 /\ n < Len(l) /\ held = <<l[n + 1]>>
         /\ l[n + 1].frame \in mPendingReprocessResultList
         /\ Tail(rest) = SubSeq(l, n + 2, Len(l))
  BY HeldIs
<1>8. /\ \A x \in sent : \E i \in 1..n : \E s \in l[i].here : x = <<l[i].frame, s>>
      /\ \A i \in 1..n : \A s \in l[i].here : <<l[i].frame, s>> \in sent
  <2>1. /\ \A r \in gone : \E i \in 1..n : r = l[i]
        /\ \A i \in 1..n : l[i] \in gone
    <3>1. upTo \in Seq(RequestKind) /\ Len(upTo) = n /\ \A i \in 1..n : upTo[i] = l[i]
      <4>1. <<>> = <<>> /\ Order(n, <<>>) = upTo
        BY DEF Order
      <4>2. /\ Order(n, <<>>) \in Seq(RequestKind) /\ Len(Order(n, <<>>)) = n
            /\ \A i \in 1..n : Order(n, <<>>)[i] = l[i]
        <5>1. RequestTypes /\ n \in 0..Len(mPendingRequestsList)
              /\ n = IF <<>> = <<>> THEN n ELSE n + 1
          BY <1>5
        <5> QED
          BY ONLY <5>1, OrderIs
      <4> QED
        BY <4>1, <4>2
    <3> HIDE DEF upTo
    <3>2. DOMAIN upTo = 1..n
      BY <3>1, LenProperties
    <3> QED
      BY <3>1, <3>2 DEF Requests!ToSet
  <2> HIDE DEF gone
  <2> QED
    BY <2>1
<1>9. /\ held = <<>> => early = {}
      /\ held = <<l[n + 1]>> => early = {l[n + 1].frame}
  <2>1. held = <<>> => Requests!ToSet(held) = {}
    BY DEF Requests!ToSet
  <2>2. held = <<l[n + 1]>> => Requests!ToSet(held) = {l[n + 1]}
    <3> HIDE DEF held
    <3> QED
      BY DEF Requests!ToSet
  <2> QED
    BY <2>1, <2>2
<1>10. early \subseteq mPendingReprocessResultList
  BY <1>7, <1>9
<1>11. /\ d \in 0..Len(l) /\ n <= d /\ order \in Seq(RequestKind) /\ Len(order) = d
       /\ DOMAIN order = 1..d
       /\ \A i \in 1..d : \E j \in 1..d : order[i] = l[j]
       /\ held = <<>> \/ n = 1 => \A i \in 1..d : order[i] = l[i]
  <2>1. /\ RequestTypes /\ n \in 0..Len(l)
        /\ \/ held = <<>>
           \/ n > 0 /\ n < Len(l) /\ held = <<l[n + 1]>>
        /\ d = IF held = <<>> THEN n ELSE n + 1
    BY <1>5, <1>7
  <2>2. order = Order(n, held)
    OBVIOUS
  <2> HIDE DEF held, d, order
  <2>3. /\ d \in 0..Len(l) /\ n <= d
        /\ Order(n, held) \in Seq(RequestKind) /\ Len(Order(n, held)) = d
        /\ DOMAIN Order(n, held) = 1..d
        /\ \A i \in 1..d : \E j \in 1..d : Order(n, held)[i] = l[j]
        /\ held = <<>> \/ n = 1 => \A i \in 1..d : Order(n, held)[i] = l[i]
    BY <2>1, OrderIs
  <2> QED
    BY ONLY <2>2, <2>3
<1>12. l' = SubSeq(l, d + 1, Len(l))
  <2>1. n + 1 + 1 = n + 2
    BY <1>5
  <2> HIDE DEF held
  <2> QED
    BY <1>4, <1>7, <2>1
<1>13. /\ T \in Seq(Nat) /\ R \in Seq(ResultKind) /\ DOMAIN T = 1..d /\ DOMAIN R = 1..d
       /\ \A i \in 1..d : T[i] = order[i].frame /\ R[i].frame = order[i].frame
  <2> HIDE DEF order
  <2> QED
    BY <1>6, <1>11, RowsTold
<1> HIDE DEF order, T, R, q, S, sent, early, held, drops, gone, rest, upTo
<1>14. /\ DOMAIN fw' = Outcome /\ fw'.shutters = fw.shutters \o T
       /\ fw'.results = fw.results \o R /\ fw'.back = fw.back \o q
       /\ fw'.inputs = fw.inputs \cup early /\ UNCHANGED fw.requestErrors
  BY ONLY <1>4, <1>5 DEF Outcome
<1>15. \A x \in sent : x \in mPendingBuffers /\ x \notin bufs
  <2>1. \A i \in 1..n : i \in DOMAIN l
    BY <1>5
  <2> QED
    BY <1>8, <2>1 DEF RequestsInv, BufferPlaces
<1>16. S \subseteq Requests!Buffers
  <2>1. sent \subseteq Requests!Buffers
    BY <1>15 DEF RequestsInv, RequestsKnown
  <2>2. ASSUME NEW g \in early PROVE <<g, "blob">> \in Requests!Buffers
    <3>1. g \in Requests!Given /\ kindOf[g] = "reprocess"
      BY <1>10, <2>2 DEF RequestsInv, RequestsKnown, Reprocessed
    <3>2. "blob" \in Requests!Asked(kindOf[g])
      BY <3>1 DEF Requests!Asked
    <3> QED
      BY <3>1, <3>2, BuffersAre
  <2> QED
    BY <2>1, <2>2 DEF S
<1>17. /\ q \in Seq(S) /\ \A i, j \in DOMAIN q : q[i] = q[j] => i = j
       /\ \A x \in S : \E i \in DOMAIN q : q[i] = x
  <2>1. IsFiniteSet(S)
    BY <1>16, BuffersFinite
  <2> QED
    BY <2>1, Enumerated DEF q
<1>18. /\ q \in Seq(Requests!Buffers)
       /\ \A i \in DOMAIN q : \/ q[i] \in mPendingBuffers \ mPendingBuffers'
                              \/ \E g \in mPendingReprocessResultList \
                                          mPendingReprocessResultList' : q[i] = <<g, "blob">>
  <2>1. \A i \in DOMAIN q : q[i] \in S
    BY <1>17, ElementOfSeq, LenProperties
  <2>2. q \in Seq(Requests!Buffers)
    <3>1. \A i \in DOMAIN q : q[i] \in Requests!Buffers
      BY <1>16, <2>1
    <3> QED
      BY <1>17, <3>1, LenProperties
  <2>3. \A x \in S : \/ x \in mPendingBuffers \ mPendingBuffers'
                     \/ \E g \in mPendingReprocessResultList \
                                 mPendingReprocessResultList' : x = <<g, "blob">>
    BY <1>4, <1>10, <1>15 DEF S
  <2> QED
    BY <2>1, <2>2, <2>3
<1>19. \A j \in DOMAIN l : j > n => \A s : <<l[j].frame, s>> \notin sent
  <2>1. \A i \in 1..n : \A j \in DOMAIN l : j > n => l[i].frame # l[j].frame
    <3>1. \A i \in 1..n : \A j \in DOMAIN l :
            j > n => i \in DOMAIN l /\ l[i].frame < l[j].frame
      <4>1. \A i \in 1..n : \A j \in DOMAIN l : j > n => i \in DOMAIN l /\ i < j
        BY <1>5
      <4> QED
        BY ONLY <1>5, <4>1
    <3> QED
      BY <1>5, <3>1
  <2> QED
    BY <1>8, <2>1
<1>20. \A j \in DOMAIN l : j > d => j > n
  BY <1>5, <1>11
<1>21. \A j \in DOMAIN l : j > n => l[j].frame > f
  <2>1. ASSUME NEW j \in DOMAIN l, j > n PROVE l[j].frame > f
    <3>1. n < Len(l) /\ n + 1 \in DOMAIN l /\ (j = n + 1 \/ n + 1 < j)
      BY <1>5, <2>1
    <3>2. l[n + 1].frame > f /\ (j = n + 1 \/ l[n + 1].frame < l[j].frame)
      BY <1>2, <1>5, <3>1
    <3> QED
      BY <1>5, <1>6, <3>1, <3>2
  <2> QED
    BY <2>1
<1>22. \A j \in DOMAIN l : j > d => \A s \in l[j].here : <<l[j].frame, s>> \in mPendingBuffers'
  BY <1>4, <1>19, <1>20 DEF RequestsInv, BufferPlaces
<1>23. \A g \in fw'.inputs :
         \/ g \in fw.inputs
         \/ /\ g \in Requests!Given
            /\ \A j \in DOMAIN l : j > d => l[j].frame # g
  <2>1. ASSUME NEW g \in early
        PROVE  g \in Requests!Given /\ \A j \in DOMAIN l : j > d => l[j].frame # g
    <3>1. g = l[n + 1].frame /\ n + 1 \in DOMAIN l /\ d = n + 1
      BY <1>5, <1>7, <1>9, <2>1
    <3>2. \A j \in DOMAIN l : j > n + 1 => l[n + 1].frame < l[j].frame
      BY <1>5, <3>1
    <3>3. g \in Requests!Given
      BY <1>10, <2>1 DEF RequestsInv, RequestsKnown
    <3> QED
      BY <1>5, <3>1, <3>2, <3>3
  <2> QED
    BY <1>14, <2>1
<1>24. /\ Len(l') = Len(l) - d /\ mPendingRequest' = mPendingRequest - d
       /\ mPendingRequest' \in Int /\ mPendingRequest' <= mPendingRequest
  <2>1. d \in Nat
    BY <1>5, <1>11
  <2>2. mPendingRequest' = mPendingRequest - d
    BY <1>4, <1>11
  <2> HIDE DEF d
  <2>3. Len(l') = Len(l) - d
    BY <1>5, <1>11, <1>12, SuffixIs
  <2> QED
    BY ONLY <1>5, <2>1, <2>2, <2>3
<1>25. RequestsCounted'
  <2>1. ~mFlush /\ mFirstRequest => l' = <<>>
    <3>1. l = <<>> => l' = <<>>
      <4> SUFFICES ASSUME l = <<>> PROVE l' = <<>>
        OBVIOUS
      <4>1. Len(l) = 0 /\ d = 0
        BY <1>5, <1>11
      <4>2. l' \in Seq(RequestKind) /\ Len(l') = 0
        BY <1>5, <1>11, <1>12, <1>24, <4>1, SuffixIs
      <4> QED
        BY <4>2, EmptySeq
    <3> QED
      BY <3>1 DEF RequestsInv, RequestsCounted
  <2> HIDE DEF d
  <2> QED
    BY <1>1, <1>24, <2>1 DEF RequestsInv, RequestsCounted
<1>26. RequestsFlushed' /\ Requests!RoomForNext'
  <2>1. MaxInflight \in Int
    BY DEF Requests!RequestsAssumption
  <2>2. RequestsFlushed'
    BY <1>1 DEF RequestsInv, RequestsFlushed
  <2> HIDE DEF d
  <2> QED
    BY <1>1, <1>5, <1>24, <2>1, <2>2 DEF RequestsInv, Requests!RoomForNext
<1>27. /\ fw'.shutters \in Seq(Nat) /\ fw'.results \in Seq(ResultKind)
       /\ \A i \in DOMAIN fw'.results : fw'.results[i].frame \in Requests!Given
  <2> DEFINE r == fw.results \o R
  <2>1. /\ r \in Seq(ResultKind)
        /\ \A i \in DOMAIN r : \/ i \in DOMAIN fw.results /\ r[i] = fw.results[i]
                               \/ \E k \in DOMAIN R : i = Len(fw.results) + k /\ r[i] = R[k]
    BY <1>5, <1>13, ConcatIs
  <2>2. r = fw'.results
    BY <1>14
  <2> HIDE DEF r
  <2>3. \A k \in DOMAIN R : R[k].frame \in Requests!Given
    <3>1. \A j \in 1..d : l[j].frame \in Requests!Given
      BY <1>5, <1>11 DEF RequestsInv, RequestsKnown
    <3> HIDE DEF d
    <3>2. \A i \in 1..d : order[i].frame \in Requests!Given
      BY <1>11, <3>1
    <3> QED
      BY <1>13, <3>2
  <2>4. \A i \in DOMAIN fw.results : fw.results[i].frame \in Requests!Given
    BY DEF RequestsInv, RequestsKnown
  <2>5. \A i \in DOMAIN r : r[i].frame \in Requests!Given
    BY ONLY <2>1, <2>3, <2>4
  <2>6. fw'.shutters \in Seq(Nat)
    BY <1>5, <1>13, <1>14, ConcatProperties
  <2> QED
    BY <2>1, <2>2, <2>5, <2>6
<1>28. ASSUME Paired PROVE Ahead'
  <2>1. held = <<>> \/ n = 1
    <3>1. CASE held # <<>>
      <4>1. n \in 1..Len(l)
        BY <1>5, <1>7, <3>1
      <4> QED
        BY <1>1, <1>2, <1>7, <1>28, <3>1, <4>1, HeldAlone
    <3> QED
      BY <3>1
  <2>2. \A i \in 1..d : R[i].frame = l[i].frame /\ T[i] = l[i].frame
    BY <1>11, <1>13, <2>1
  <2>3. Ahead
    BY <1>28 DEF RequestsInv
  <2> HIDE DEF d
  <2> QED
    BY <1>11, <1>12, <1>13, <1>14, <2>2, <2>3, AheadGrows
<1>29. ASSUME "reprocess" \notin Kinds PROVE NothingForgotten'
  <2>1. held = <<>> /\ d = n /\ early = {}
    <3>1. mPendingReprocessResultList = {}
      <4>1. \A g \in Requests!Given : kindOf[g] \in Kinds
        BY RequestLists, ElementOfSeq DEF RequestsInv, RequestTypes
      <4> QED
        BY <1>29, <4>1 DEF RequestsInv, RequestsKnown, Reprocessed
    <3> QED
      BY <1>7, <1>9, <3>1
  <2>2. /\ \A i \in DOMAIN fw.back : i \in DOMAIN fw'.back /\ fw'.back[i] = fw.back[i]
        /\ \A k \in DOMAIN q : \E i \in DOMAIN fw'.back : fw'.back[i] = q[k]
    BY <1>14, <1>18, BackGrows
  <2>3. Requests!Given' = Requests!Given /\ Requests!Buffers' = Requests!Buffers
    BY <1>1 DEF Requests!Given, Requests!Buffers
  <2>4. ASSUME NEW b \in Requests!Buffers
        PROVE  b \in mPendingBuffers' \/ \E i \in DOMAIN fw'.back : fw'.back[i] = b
    <3>1. b \in mPendingBuffers \/ \E i \in DOMAIN fw.back : fw.back[i] = b
      BY <1>29 DEF RequestsInv, NothingForgotten
    <3>2. b \in sent => b \in S
      BY DEF S
    <3>3. mPendingBuffers' = mPendingBuffers \ sent
      BY <1>4
    <3> QED
      BY ONLY <1>17, <2>2, <3>1, <3>2, <3>3
  <2>5. ASSUME NEW g \in Requests!Given
        PROVE  \/ Pending(g)' \/ g \in fw'.requestErrors
               \/ \E i \in DOMAIN fw'.results : fw'.results[i].frame = g
    <3> DEFINE r == fw.results \o R
    <3>1. /\ \A i \in DOMAIN fw.results : i \in DOMAIN r /\ r[i] = fw.results[i]
          /\ \A k \in DOMAIN R : Len(fw.results) + k \in DOMAIN r /\ r[Len(fw.results) + k] = R[k]
      <4>1. fw.results \in Seq(ResultKind) /\ R \in Seq(ResultKind)
        BY <1>5, <1>13
      <4> QED
        BY ONLY <4>1, ConcatIs
    <3>2. r = fw'.results
      BY <1>14
    <3> HIDE DEF r
    <3>3. \/ Pending(g) \/ g \in fw.requestErrors
          \/ \E i \in DOMAIN fw.results : fw.results[i].frame = g
      BY <1>29 DEF RequestsInv, NothingForgotten
    <3>4. CASE Pending(g)
      <4>1. PICK j \in DOMAIN l : l[j].frame = g
        BY <3>4 DEF Pending
      <4>2. CASE j > d
        <5>1. j - d \in DOMAIN l' /\ l'[j - d] = l[j]
          <6> HIDE DEF d
          <6> QED
            BY <1>5, <1>11, <1>12, <4>2, SuffixIs
        <5> QED
          BY <4>1, <5>1 DEF Pending
      <4>3. CASE ~(j > d)
        <5>1. j \in 1..d
          BY <1>5, <1>11, <2>1, <4>3
        <5>2. R[j].frame = g /\ j \in DOMAIN R
          BY <1>11, <1>13, <2>1, <4>1, <5>1
        <5> QED
          BY <3>1, <3>2, <5>2
      <4> QED
        BY <4>2, <4>3
    <3> QED
      BY <1>14, <3>1, <3>2, <3>3, <3>4
  <2>6. \A j \in DOMAIN l : j > d => \A s \in Requests!Asked(l[j].kind) :
          <<l[j].frame, s>> \in mPendingBuffers'
    BY <1>4, <1>19, <1>20, <1>29 DEF RequestsInv, NothingForgotten
  <2>7. \A i \in DOMAIN l' : \E j \in DOMAIN l : j > d /\ l'[i] = l[j]
    <3> HIDE DEF d
    <3> QED
      BY <1>5, <1>11, <1>12, SuffixIs
  <2>8. \A i \in DOMAIN l' : \A s \in Requests!Asked(l'[i].kind) :
          <<l'[i].frame, s>> \in mPendingBuffers'
    BY <2>6, <2>7
  <2> QED
    BY <2>3, <2>4, <2>5, <2>8 DEF NothingForgotten
<1>30. /\ \A g \in mPendingReprocessResultList' : g \in mPendingReprocessResultList
       /\ bufs' \subseteq bufs /\ bufs' \subseteq mPendingBuffers'
       /\ mPendingBuffers' \subseteq mPendingBuffers
       /\ \A j \in DOMAIN l : j > d => l[j].frame > Head(metas)
  BY <1>1, <1>4, <1>15, <1>20, <1>21 DEF RequestsInv, BufferPlaces
<1> HIDE DEF l, d
<1> QED
  BY <1>1, <1>11, <1>12, <1>14, <1>17, <1>18, <1>22, <1>23, <1>24, <1>25, <1>26, <1>27, <1>28,
     <1>29, <1>30, DropStep DEF l

-----------------------------------------------------------------------------
LEMMA NextRequests ==
  ASSUME Requests!RequestsAssumption, RequestsInv, [Requests!Next]_(Requests!vars)
  PROVE  RequestsInv'
BY RequestKeeps, WakeKeeps, TimedOutKeeps, DaemonKeeps, HandleUrgentKeeps, MetadataKeeps,
   CaptureKeeps, LoseMetaKeeps, FlushKeeps, StopChannelKeeps, FlushEndKeeps, StutterKeeps
DEF Requests!Next, Requests!Backend

\* What the requests' own invariants say.
LEMMA InvRequests ==
  ASSUME RequestsInv
  PROVE  /\ Requests!TypeOK /\ Requests!InFlightCounted /\ Requests!RoomForNext
         /\ Requests!BackOnce
         /\ Paired => Requests!ResultsInOrder
<1>1. Requests!TypeOK
  <2>1. /\ \A r \in Requests!ToSet(mPendingRequestsList) :
             /\ r.frame \in Requests!Given /\ r.kind = kindOf[r.frame]
             /\ r.here \subseteq Requests!Asked(r.kind)
        /\ mPendingBuffers \subseteq Requests!Buffers /\ bufs \subseteq Requests!Buffers
    BY DEF RequestsInv, RequestsKnown, BufferPlaces, Requests!ToSet
  <2>2. Requests!ToSet(metas) \cup mPendingReprocessResultList \subseteq Requests!Given
    BY DEF RequestsInv, RequestsKnown, Requests!ToSet
  <2>3. mPendingRequest \in Int /\ caller \in {"idle", "wait", "failed"}
    BY DEF RequestsInv, RequestTypes
  <2> QED
    BY <2>1, <2>2, <2>3 DEF Requests!TypeOK
<1>2. Requests!InFlightCounted /\ Requests!RoomForNext
  BY DEF RequestsInv, RequestsCounted, Requests!InFlightCounted
<1>3. Requests!BackOnce
  BY DEF RequestsInv, BufferPlaces, Requests!BackOnce, Requests!IsInjective, Requests!ToSet
<1>4. ASSUME Paired PROVE Requests!ResultsInOrder
  BY <1>4 DEF RequestsInv, Ahead, Requests!ResultsInOrder
<1> QED
  BY <1>1, <1>2, <1>3, <1>4

\* No flush leaves a request without an answer, or a buffer with the camera.
LEMMA FlushAnswersStep ==
  ASSUME Requests!RequestsAssumption, RequestsInv, "reprocess" \notin Kinds,
         [Requests!Next]_(Requests!vars), mFlush, ~mFlush'
  PROVE  /\ Requests!ToSet(fw'.back) = Requests!Buffers
         /\ \A f \in Requests!Given :
              \/ f \in fw'.requestErrors
              \/ \E r \in Requests!ToSet(fw'.results) : r.frame = f
<1>1. Requests!FlushEnd
  BY DEF Requests!Next, Requests!vars, Requests!list, Requests!ctl, Requests!backend,
     Requests!Backend, Requests!processCaptureRequest, Requests!Wake, Requests!TimedOut,
     Requests!DaemonPullReq, Requests!HandleUrgent, Requests!handleMetadataWithLock,
     Requests!captureResultCb, Requests!LoseMeta, Requests!flush, Requests!StopChannel
<1>2. /\ RequestsInv'
      /\ \A b \in Requests!Buffers : \E i \in DOMAIN fw'.back : fw'.back[i] = b
      /\ \A g \in Requests!Given :
           \/ g \in fw'.requestErrors
           \/ \E i \in DOMAIN fw'.results : fw'.results[i].frame = g
  BY <1>1, FlushEndKeeps
<1>3. \A i \in DOMAIN fw'.back : fw'.back[i] \in Requests!Buffers
  <2>1. Requests!Buffers' = Requests!Buffers
    BY <1>1 DEF Requests!FlushEnd, Requests!Buffers, Requests!Given
  <2> QED
    BY <1>2, <2>1 DEF RequestsInv, RequestsKnown
<1> QED
  BY <1>2, <1>3 DEF Requests!ToSet

\* Where the framework does not flush, no flush is under way.
LEMMA InitNoFlush == Requests!Init => ~mFlush
BY DEF Requests!Init

LEMMA NoFlush ==
  ASSUME ~Flushes, ~mFlush, [Requests!Next]_(Requests!vars)
  PROVE  ~mFlush'
<1>1. CASE Requests!FlushEnd
  BY <1>1 DEF Requests!FlushEnd
<1>2. CASE Requests!flush
  BY <1>2 DEF Requests!flush
<1>3. CASE ~Requests!FlushEnd /\ ~Requests!flush
  <2>1. mFlush' = mFlush
    BY <1>3 DEF Requests!Next, Requests!vars, Requests!list, Requests!ctl, Requests!backend,
       Requests!Backend, Requests!processCaptureRequest, Requests!Wake, Requests!TimedOut,
       Requests!DaemonPullReq, Requests!HandleUrgent, Requests!handleMetadataWithLock,
       Requests!captureResultCb, Requests!LoseMeta, Requests!StopChannel
  <2> QED
    BY <2>1
<1> QED
  BY <1>1, <1>2, <1>3

=============================================================================
