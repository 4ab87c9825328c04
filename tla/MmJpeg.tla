-------------------------------- MODULE MmJpeg --------------------------------
(***************************************************************************)
(* The JPEG encoder's interface (mm_jpeg.c, mm_jpeg_interface.c).  A client *)
(* creates a chain of encoding sessions, starts jobs, aborts them and       *)
(* destroys the sessions; a job manager thread hands each job to a free     *)
(* session and an output buffer; the OMX component of the session encodes   *)
(* and calls back from a thread of its own.  job_lock orders the client and *)
(* the job manager, each session's lock its component and who aborts it.    *)
(***************************************************************************)
EXTENDS Naturals, Sequences, SequencesExt, FiniteSets

CONSTANTS
    NumSessions,    \* sessions of a burst: MM_JPEG_CONCURRENT_SESSIONS_COUNT
    NumDstBufs,     \* output buffers that the sessions share
    MaxOngoing,     \* NUM_MAX_JPEG_CNCURRENT_JOBS
    MaxJobs,        \* bound: jobs started, and posts waiting when a session is made
    Faults,         \* what may fail: "create", "configure", "state", "encode"
    Asks,           \* the pictures jobs may ask for: main image and thumbnail
    OnlyWhenStopping    \* does the client abort jobs only on its way to destroy?

JpegAssumption ==
    /\ NumSessions \in Nat \ {0} /\ NumDstBufs \in Nat /\ MaxOngoing \in Nat \ {0}
    /\ MaxJobs \in Nat /\ Faults \subseteq {"create", "configure", "state", "encode"}
    /\ \A a \in Asks : \A i \in {a.main, a.thumb} :
          i \in [src : Nat, left : Nat, width : Nat, dst : Nat]
    /\ OnlyWhenStopping \in BOOLEAN

Sessions == 1..NumSessions
Jobs == 1..MaxJobs
EXIT == 0           \* the job that ends the job manager
NoBuf == 0

VARIABLES
    sess,               \* the sessions, the first the one the client names
    comp,               \* what the OMX component of each does
    given,              \* the parameters each component has from its session's job
    session_handle_q, out_buf_q,    \* free sessions and free output buffers
    job_queue, ongoing_job_q,       \* jobs to do and being done
    job_sem, job_lock,
    mgr,                \* the job manager thread: where it is, session and job
    client,             \* the client's call: where it is, session and job
    created,            \* what create_session made and said
    started,            \* jobs started
    asked,              \* what each asks for
    told,               \* history: the callbacks made for each job
    quit,               \* history: jobs whose abort, destroy or close has returned
    over                \* history: jobs whose destroy or close has returned

vars == <<sess, comp, given, session_handle_q, out_buf_q, job_queue, ongoing_job_q, job_sem,
          job_lock, mgr, client, created, started, asked, told, quit, over>>
queues == <<session_handle_q, out_buf_q, job_queue, ongoing_job_q>>
\* What only setting up a session and its jobs changes.
setup == <<given, asked>>

NoSession == [active |-> FALSE, abort_state |-> "NONE", encoding |-> FALSE,
              job |-> EXIT, dst |-> NoBuf, error_flag |-> FALSE, config |-> FALSE]

\* What a session tells its component once, before it encodes: the ports, whose
\* third takes the thumbnails, and the session's rotation,
PortCalls == <<"input", "thumbnail port", "enable", "output", "rotation">>
\* and the settings that mm_jpeg_session_config_main() makes after them.
SettingCalls ==
    <<"buffer offset", "encoding mode", "metadata key", "memory operations", "speed">>
MainCalls == PortCalls \o SettingCalls
\* What it tells it for each job: rotation and EXIF data, and the rest of
\* mm_jpeg_configure_job_params(), of which quality and work buffer are always the
\* session's own.
CommonCalls == <<"rotation", "exif">>
JobCalls == <<"crop", "quality", "thumbnail", "work buffer", "metadata">>
OfTheJob == {"crop", "thumbnail", "metadata"}
JobParams == Range(CommonCalls) \cup Range(JobCalls)
NoImage == [src |-> 0, left |-> 0, width |-> 0, dst |-> 0]
NoAsk == [main |-> NoImage, thumb |-> NoImage]
Nothing == [sessions |-> 0, bufs |-> 0, rc |-> 0]
At(place, s, j) == [at |-> place, s |-> s, job |-> j]
Idle == At("idle", 0, 0)

Init ==
    /\ sess = [s \in Sessions |-> NoSession] /\ comp = [s \in Sessions |-> "none"]
    /\ given = [s \in Sessions |-> {}]
    /\ session_handle_q = <<>> /\ out_buf_q = <<>>
    /\ job_queue = <<>> /\ ongoing_job_q = <<>> /\ job_sem = 0 /\ job_lock = "free"
    /\ mgr = At("gone", 0, 0) /\ client = At("closed", 0, 0) /\ created = Nothing
    /\ started = 0 /\ asked = [j \in Jobs |-> NoAsk] /\ told = [j \in Jobs |-> <<>>] /\ quit = {} /\ over = {}
--------------------------------------------------------------------------------
\* The client's calls, made one at a time under g_intf_lock.

jpeg_open ==
    /\ client.at = "closed" /\ started < MaxJobs
    /\ client' = Idle /\ mgr' = At("wait", 0, 0) /\ job_sem' = 0
    /\ UNCHANGED <<setup, sess, comp, queues, job_lock, created, started, told, quit, over>>

\* n sessions are made, n < NumSessions when getting a component fails; the
\* output buffers are put up last.  What is returned was set by the queues.
mm_jpeg_create_session ==
    /\ client = Idle /\ created.sessions = 0 /\ job_sem < MaxJobs
    /\ \E n \in IF "create" \in Faults THEN 0..NumSessions ELSE {NumSessions} :
          /\ sess' = [s \in Sessions |-> [NoSession EXCEPT !.active = s <= n]]
          /\ comp' = [s \in Sessions |-> IF s <= n THEN "loaded" ELSE "none"]
          /\ given' = [s \in Sessions |-> {}]
          /\ session_handle_q' = [s \in 1..n |-> s]
          /\ out_buf_q' = [b \in 1..IF n = NumSessions THEN NumDstBufs ELSE 0 |-> b]
          /\ created' = [sessions |-> n, bufs |-> Len(out_buf_q'), rc |-> 0]
    /\ UNCHANGED <<job_queue, ongoing_job_q, job_sem, job_lock, mgr, client, started, asked,
                   told, quit, over>>

mm_jpeg_start_job ==
    /\ client = Idle /\ sess[1].active /\ started < MaxJobs
    /\ started' = started + 1
    /\ \E a \in Asks : asked' = [asked EXCEPT ![started'] = a]
    /\ job_queue' = Append(job_queue, started') /\ job_sem' = job_sem + 1
    /\ UNCHANGED <<given, sess, comp, session_handle_q, out_buf_q, ongoing_job_q, job_lock, mgr,
                   client, created, told, quit, over>>

Mine == client.at \in {"idle", "stopping"} /\ job_lock = "free"
AfterAbort == IF OnlyWhenStopping THEN At("stopping", 0, 0) ELSE Idle

mm_jpeg_queue_remove_job_by_job_id(queue, j) == RemoveFirst(queue, j)

\* A job not begun is dropped; one that is being done takes every session of the
\* chain down with it.
mm_jpeg_abort_job(j) ==
    /\ Mine /\ j \in 1..started /\ j \notin quit
    /\ job_queue' = mm_jpeg_queue_remove_job_by_job_id(job_queue, j)
    /\ ongoing_job_q' = IF Contains(job_queue, j) THEN ongoing_job_q
                        ELSE mm_jpeg_queue_remove_job_by_job_id(ongoing_job_q, j)
    /\ IF ongoing_job_q' # ongoing_job_q
       THEN job_lock' = "client" /\ client' = At("abort", 1, j) /\ UNCHANGED quit
       ELSE client' = AfterAbort /\ quit' = quit \cup {j} /\ UNCHANGED job_lock
    /\ UNCHANGED <<setup, sess, comp, session_handle_q, out_buf_q, job_sem, mgr, created, started, told, over>>

\* Both destroy_session and close drop every job of the sessions and abort them.
DropJobs(place) ==
    /\ job_queue' = <<>> /\ ongoing_job_q' = <<>>
    /\ job_lock' = "client" /\ client' = At(place, 1, 0)
    /\ UNCHANGED <<setup, sess, comp, session_handle_q, out_buf_q, job_sem, mgr, created, started,
                   told, quit, over>>
mm_jpeg_destroy_session == Mine /\ created.sessions > 0 /\ DropJobs("destroy")
mm_jpeg_close == Mine /\ DropJobs("close")

Over == quit' = 1..started /\ over' = 1..started

Aborting == client.at \in {"abort", "destroy", "close"}
Chained(s) == s <= created.sessions
\* A call that waits for the component of a session, and its return to the chain.
Waits(place) ==
    CASE place = "abort" -> "abort waits" [] place = "destroy" -> "destroy waits"
      [] place = "close" -> "close waits"
Resumed(place) ==
    CASE place = "abort waits" -> "abort" [] place = "destroy waits" -> "destroy"
      [] place = "close waits" -> "close"

\* One session of the chain, under its lock; the rest of the chain is given up at
\* one that was aborted before, but close goes on to every session itself.
mm_jpeg_session_abort ==
    LET s == client.s IN
    /\ Aborting /\ Chained(s) /\ comp[s] # "answering"
    /\ CASE sess[s].abort_state # "NONE" ->
              /\ client' = [client EXCEPT !.s = IF client.at = "close" THEN s + 1
                                                   ELSE created.sessions + 1]
              /\ UNCHANGED sess
         [] sess[s].abort_state = "NONE" /\ sess[s].encoding ->
              /\ sess' = [sess EXCEPT ![s].abort_state = "INIT"]
              /\ client' = [client EXCEPT !.at = Waits(@)]
         [] OTHER ->
              /\ sess' = [sess EXCEPT ![s].abort_state = "DONE"]
              /\ client' = [client EXCEPT !.s = s + 1]
    /\ UNCHANGED <<setup, comp, queues, job_sem, job_lock, mgr, created, started, told, quit, over>>

Waiting == {"abort waits", "destroy waits", "close waits"}
SessionAborted ==
    /\ client.at \in Waiting /\ sess[client.s].abort_state = "DONE"
    /\ client' = At(Resumed(client.at), client.s + 1, client.job)
    /\ UNCHANGED <<setup, sess, comp, queues, job_sem, job_lock, mgr, created, started, told, quit, over>>

AbortDone ==
    /\ client.at = "abort" /\ ~Chained(client.s)
    /\ job_lock' = "free" /\ client' = AfterAbort /\ quit' = quit \cup {client.job}
    /\ UNCHANGED <<setup, sess, comp, queues, job_sem, mgr, created, started, told, over>>

\* mm_jpeg_session_free_buffers(): one that is not taken back ends the wait.
FreeBuffers == {"unloading"} \cup IF "configure" \in Faults THEN {"none"} ELSE {}

\* Each component is brought back to idle and to loaded, waited for, and freed;
\* after an error it is freed without the wait, which is the return of
\* change_state.
StopComponent ==
    /\ client.at = "destroy" /\ ~Chained(client.s)
    /\ \E s \in 1..created.sessions :
          /\ comp[s] \notin {"none", "answering"} /\ \A r \in 1..s - 1 : comp[r] = "none"
          /\ \/ (comp[s] \in {"loaded", "to idle"} \/ sess[s].error_flag)
                  /\ comp' = [comp EXCEPT ![s] = "none"]
             \/ ~sess[s].error_flag /\ comp[s] \in {"executing", "working"}
                  /\ comp' = [comp EXCEPT ![s] = "stopping"]
             \/ ~sess[s].error_flag /\ comp[s] = "idle"
                  /\ \E next \in FreeBuffers : comp' = [comp EXCEPT ![s] = next]
    /\ UNCHANGED <<setup, sess, queues, job_sem, job_lock, mgr, client, created, started, told,
                   quit, over>>

Destroyed ==
    /\ client.at = "destroy" /\ ~Chained(client.s) /\ \A s \in Sessions : comp[s] = "none"
    /\ sess' = [s \in Sessions |-> NoSession] /\ created' = Nothing
    /\ given' = [s \in Sessions |-> {}]
    /\ session_handle_q' = <<>> /\ out_buf_q' = <<>>
    /\ job_lock' = "free" /\ job_sem' = job_sem + 1 /\ Over /\ client' = Idle
    /\ UNCHANGED <<asked, comp, job_queue, ongoing_job_q, mgr, started, told>>

\* The last client gone, the job manager is told to end and is waited for.
mm_jpeg_jobmgr_thread_release ==
    /\ client.at = "close" /\ ~Chained(client.s)
    /\ job_lock' = "free" /\ client' = At("join", 0, 0) /\ Over
    /\ sess' = [s \in Sessions |-> NoSession] /\ created' = Nothing
    /\ job_queue' = Append(job_queue, EXIT) /\ job_sem' = job_sem + 1
    /\ UNCHANGED <<setup, comp, session_handle_q, out_buf_q, ongoing_job_q, mgr, started, told>>
mm_jpeg_deinit ==
    /\ client.at = "join" /\ mgr.at = "gone"
    /\ client' = At("closed", 0, 0)
    /\ job_queue' = <<>> /\ ongoing_job_q' = <<>> /\ session_handle_q' = <<>> /\ out_buf_q' = <<>>
    /\ comp' = [s \in Sessions |-> "none"]
    /\ UNCHANGED <<setup, sess, job_sem, job_lock, mgr, created, started, told, quit, over>>
--------------------------------------------------------------------------------
\* Mutant: the job manager is not woken for the jobs that wait.
JobDoneQuietly(s) ==
    /\ ongoing_job_q' = mm_jpeg_queue_remove_job_by_job_id(ongoing_job_q, sess[s].job)
    /\ session_handle_q' = Append(session_handle_q, s)
    /\ out_buf_q' = Append(out_buf_q, sess[s].dst)
    /\ given' = [given EXCEPT ![s] = {}] /\ job_sem' = job_sem
\* A session is free again, and its buffer if it was given one by the manager.
mm_jpegenc_job_done(s) ==
    /\ ongoing_job_q' = mm_jpeg_queue_remove_job_by_job_id(ongoing_job_q, sess[s].job)
    /\ session_handle_q' = Append(session_handle_q, s)
    /\ out_buf_q' = Append(out_buf_q, sess[s].dst)
    /\ given' = [given EXCEPT ![s] = {}] /\ job_sem' = job_sem + 1

Tell(j, what) == told' = [told EXCEPT ![j] = Append(@, what)]

\* The job manager, which holds job_lock from taking a job until it is with the
\* component.
MgrWait ==
    /\ mgr.at = "wait" /\ job_sem > 0
    /\ job_sem' = job_sem - 1
    /\ mgr' = IF Len(ongoing_job_q) >= MaxOngoing THEN mgr ELSE At("take", 0, 0)
    /\ UNCHANGED <<setup, sess, comp, queues, job_lock, client, created, started, told, quit, over>>

\* No session is free: the job goes back to the head, a head read before the
\* queue is locked, so that it may pass behind a job started meanwhile.
NoSessionFree(j) ==
    /\ session_handle_q = <<>>
    /\ mgr' = At(IF Tail(job_queue) = <<>> THEN "put last" ELSE "put first", 0, j)
    /\ job_lock' = "mgr"
    /\ UNCHANGED <<sess, session_handle_q, out_buf_q, ongoing_job_q>>
PutBack ==
    /\ mgr.at \in {"put first", "put last"}
    /\ job_queue' = IF mgr.at = "put last" THEN Append(job_queue, mgr.job)
                    ELSE <<mgr.job>> \o job_queue
    /\ job_lock' = "free" /\ mgr' = At("wait", 0, 0)
    /\ UNCHANGED <<setup, sess, comp, session_handle_q, out_buf_q, ongoing_job_q, job_sem, client,
                   created, started, told, quit, over>>

\* No output buffer is free: neither the job nor the session is seen again.
NoBufFree ==
    /\ session_handle_q # <<>> /\ out_buf_q = <<>>
    /\ session_handle_q' = Tail(session_handle_q) /\ mgr' = At("wait", 0, 0)
    /\ UNCHANGED <<sess, out_buf_q, ongoing_job_q, job_lock>>

BeginJob(j) ==
    /\ session_handle_q # <<>> /\ out_buf_q # <<>>
    /\ LET s == Head(session_handle_q)
       IN  /\ sess' = [sess EXCEPT ![s].job = j, ![s].dst = Head(out_buf_q)]
           /\ mgr' = At("encode", s, j)
    /\ session_handle_q' = Tail(session_handle_q) /\ out_buf_q' = Tail(out_buf_q)
    /\ ongoing_job_q' = Append(ongoing_job_q, j) /\ job_lock' = "mgr"

mm_jpeg_process_encoding_job ==
    /\ mgr.at = "take" /\ job_lock = "free" /\ job_queue # <<>> /\ Head(job_queue) # EXIT
    /\ job_queue' = Tail(job_queue)
    /\ NoSessionFree(Head(job_queue)) \/ NoBufFree \/ BeginJob(Head(job_queue))
    /\ UNCHANGED <<setup, comp, job_sem, client, created, started, told, quit, over>>
MgrNothing ==
    /\ mgr.at = "take" /\ job_lock = "free" /\ job_queue = <<>>
    /\ mgr' = At("wait", 0, 0)
    /\ UNCHANGED <<setup, sess, comp, queues, job_sem, job_lock, client, created, started, told, quit, over>>
MgrExit ==
    /\ mgr.at = "take" /\ job_lock = "free" /\ job_queue # <<>> /\ Head(job_queue) = EXIT
    /\ job_queue' = Tail(job_queue) /\ mgr' = At("gone", 0, 0)
    /\ UNCHANGED <<setup, sess, comp, session_handle_q, out_buf_q, ongoing_job_q, job_sem, job_lock,
                   client, created, started, told, quit, over>>

\* The client is told that the job failed, and the session is free for another.
JobFails ==
    /\ Tell(mgr.job, "error") /\ mm_jpegenc_job_done(mgr.s)
    /\ sess' = [sess EXCEPT ![mgr.s].encoding = FALSE]
    /\ mgr' = At("release", 0, 0)
\* The job goes on; the session is configured once its component was sent on to
\* executing.
Goes(place) ==
    /\ mgr' = At(place, mgr.s, mgr.job)
    /\ sess' = [sess EXCEPT ![mgr.s].config = @ \/ place = "params"]
    /\ UNCHANGED <<told, session_handle_q, out_buf_q, ongoing_job_q, job_sem>>

\* How many of n calls the component takes, and what they leave to do.
Taken(n) == IF "configure" \in Faults THEN 0..n ELSE {n}
JobFailsUnless(done, place) ==
    IF done THEN Goes(place) /\ UNCHANGED given ELSE JobFails

mm_jpeg_session_encode ==
    /\ mgr.at = "encode"
    /\ sess' = [sess EXCEPT ![mgr.s].abort_state = "NONE", ![mgr.s].encoding = FALSE]
    /\ mgr' = At(IF sess[mgr.s].config THEN "params" ELSE "configure", mgr.s, mgr.job)
    /\ UNCHANGED <<setup, comp, queues, job_sem, job_lock, client, created, started, told, quit, over>>

\* A session is configured with its first job.  The calls made before one that
\* fails are made again with the next job.
mm_jpeg_session_configure ==
    /\ mgr.at = "configure"
    /\ \E n \in Taken(Len(MainCalls)) : JobFailsUnless(n = Len(MainCalls), "to idle")
    /\ UNCHANGED <<asked, comp, job_queue, job_lock, client, created, started, quit, over>>

\* What OMX_GetState() says of a component until it has changed its state.
OmxState(s) ==
    CASE comp[s] \in {"loaded", "to idle"} -> "loaded"
      [] comp[s] \in {"idle", "to executing"} -> "idle"
      [] OTHER -> "executing"
To(state) == IF state = "idle" THEN "to idle" ELSE "to executing"
Await(state) == IF state = "idle" THEN "await idle" ELSE "await executing"
After(state) == IF state = "idle" THEN "to executing" ELSE "params"

\* mm_jpeg_session_send_buffers() on the way to idle
SendBuffers(state) == IF state = "idle" /\ "configure" \in Faults THEN BOOLEAN ELSE {TRUE}

\* An error the component ever reported ends every later change of state, but
\* only after the command.
mm_jpeg_session_change_state(state) ==
    /\ mgr.at = To(state)
    /\ \/ OmxState(mgr.s) = state /\ Goes(After(state)) /\ UNCHANGED <<comp, given>>
       \/ OmxState(mgr.s) # state /\ "state" \in Faults /\ JobFails /\ UNCHANGED comp
       \/ /\ OmxState(mgr.s) # state
          /\ comp' = [comp EXCEPT ![mgr.s] = To(state)]
          /\ \E sent \in SendBuffers(state) :
                JobFailsUnless(sent /\ ~sess[mgr.s].error_flag, Await(state))
    /\ UNCHANGED <<asked, job_queue, job_lock, client, created, started, quit, over>>

\* The wait ends with any event, and change_state returns 0.
StateChanged(state) ==
    /\ mgr.at = Await(state) /\ comp[mgr.s] # To(state)
    /\ Goes(After(state))
    /\ UNCHANGED <<setup, comp, job_queue, job_lock, client, created, started, quit, over>>

\* A crop without a size is the whole image, wherever it begins.
Crop(i) == IF i.width = 0 THEN i.src ELSE i.width
CropFits(i) == Crop(i) + i.left <= i.src
mm_jpeg_session_config_main_crop(j) == CropFits(asked[j].main)
mm_jpeg_session_config_thumbnail(j) ==
    asked[j].thumb.dst > 0 /\ asked[j].thumb.src > 0 /\ CropFits(asked[j].thumb)

\* The calls for a job that can succeed at all.
PossibleCalls(j) ==
    CASE ~mm_jpeg_session_config_main_crop(j) -> 0
      [] mm_jpeg_session_config_main_crop(j) /\ ~mm_jpeg_session_config_thumbnail(j) -> 2
      [] OTHER -> Len(JobCalls)

\* That the common configuration failed is forgotten: the job is then encoded
\* with the rotation, or the EXIF data, of the session's job before it.
mm_jpeg_configure_job_params ==
    /\ mgr.at = "params"
    /\ \E k \in Taken(Len(CommonCalls)), n \in Taken(PossibleCalls(mgr.job)) :
          IF n < Len(JobCalls) THEN JobFails
          ELSE /\ given' = [given EXCEPT ![mgr.s] =
                      Range(SubSeq(CommonCalls, 1, k)) \cup Range(JobCalls)]
               /\ Goes("begin")
    /\ UNCHANGED <<comp, job_queue, job_lock, client, created, started, asked, quit, over>>

\* The buffers are given to the component, which may call back before the
\* manager goes on; one that does not execute takes none.
EmptyAndFill ==
    /\ mgr.at = "begin" /\ comp[mgr.s] = "executing"
    /\ sess' = [sess EXCEPT ![mgr.s].encoding = TRUE]
    /\ comp' = [comp EXCEPT ![mgr.s] = "working"]
    /\ mgr' = At("release", 0, 0)
    /\ UNCHANGED <<setup, queues, job_sem, job_lock, client, created, started, told, quit, over>>
EncodeFails ==
    /\ mgr.at = "begin" /\ ("encode" \in Faults \/ comp[mgr.s] # "executing")
    /\ JobFails
    /\ UNCHANGED <<asked, comp, job_queue, job_lock, client, created, started, quit, over>>
MgrRelease ==
    /\ mgr.at = "release"
    /\ job_lock' = "free" /\ mgr' = At("wait", 0, 0)
    /\ UNCHANGED <<setup, sess, comp, queues, job_sem, client, created, started, told, quit, over>>
--------------------------------------------------------------------------------
\* Mutant: the session is free before its client has been called back.
FreeThenAnswer(s) ==
    /\ comp[s] = "working" /\ sess[s].abort_state = "NONE"
    /\ comp' = [comp EXCEPT ![s] = "answering"] /\ Tell(sess[s].job, "done")
    /\ session_handle_q' = Append(session_handle_q, s)
    /\ UNCHANGED <<setup, sess, out_buf_q, job_queue, ongoing_job_q, job_sem, job_lock, mgr, client,
                   created, started, quit, over>>
\* The component's thread.  Callbacks of a session that is being aborted are
\* passed over; the others hold its lock until the job is done with.
mm_jpeg_fbd(s) ==
    /\ comp[s] = "working"
    /\ IF sess[s].abort_state # "NONE"
       THEN comp' = [comp EXCEPT ![s] = "executing"] /\ UNCHANGED told
       ELSE comp' = [comp EXCEPT ![s] = "answering"] /\ Tell(sess[s].job, "done")
    /\ UNCHANGED <<setup, sess, queues, job_sem, job_lock, mgr, client, created, started, quit, over>>
JobAnswered(s) ==
    /\ comp[s] = "answering"
    /\ comp' = [comp EXCEPT ![s] = "executing"]
    /\ mm_jpegenc_job_done(s) /\ sess' = [sess EXCEPT ![s].encoding = FALSE]
    /\ UNCHANGED <<asked, job_queue, job_lock, mgr, client, created, started, told, quit, over>>

ErrorEvent(s) ==
    /\ "encode" \in Faults /\ comp[s] = "working" /\ sess[s].abort_state = "NONE"
    /\ comp' = [comp EXCEPT ![s] = "executing"]
    /\ Tell(sess[s].job, "error") /\ mm_jpegenc_job_done(s)
    /\ sess' = [sess EXCEPT ![s].error_flag = TRUE, ![s].encoding = FALSE]
    /\ UNCHANGED <<asked, job_queue, job_lock, mgr, client, created, started, quit, over>>
\* Any event at all ends the wait of who is aborting; till then the component
\* goes on with what it was given.
StateEvent(s) ==
    /\ \/ comp[s] \in {"to idle", "stopping"} /\ comp' = [comp EXCEPT ![s] = "idle"]
       \/ comp[s] = "to executing" /\ comp' = [comp EXCEPT ![s] = "executing"]
       \/ comp[s] = "unloading" /\ comp' = [comp EXCEPT ![s] = "loaded"]
       \/ sess[s].abort_state = "INIT" /\ comp[s] \in {"working", "executing"}
             /\ comp' = [comp EXCEPT ![s] = "idle"]
    /\ sess' = [sess EXCEPT ![s].abort_state = IF @ = "INIT" THEN "DONE" ELSE @]
    /\ UNCHANGED <<setup, queues, job_sem, job_lock, mgr, client, created, started, told, quit, over>>
\* A component that does not come up says so while nothing is being encoded.
StateError(s) ==
    /\ "state" \in Faults /\ comp[s] \in {"to idle", "to executing"}
    /\ comp' = [comp EXCEPT ![s] = IF @ = "to idle" THEN "loaded" ELSE "idle"]
    /\ sess' = [sess EXCEPT ![s].error_flag = TRUE]
    /\ UNCHANGED <<setup, queues, job_sem, job_lock, mgr, client, created, started, told, quit, over>>

mm_jpeg_event_handler(s) == ErrorEvent(s) \/ StateEvent(s) \/ StateError(s)
Component(s) == mm_jpeg_fbd(s) \/ JobAnswered(s) \/ mm_jpeg_event_handler(s)

mm_jpeg_jobmgr_thread ==
    \/ MgrWait \/ PutBack \/ mm_jpeg_process_encoding_job \/ MgrNothing \/ MgrExit
    \/ mm_jpeg_session_encode \/ mm_jpeg_session_configure
    \/ \E state \in {"idle", "executing"} :
          mm_jpeg_session_change_state(state) \/ StateChanged(state)
    \/ mm_jpeg_configure_job_params \/ EmptyAndFill \/ EncodeFails \/ MgrRelease
CallGoesOn ==
    \/ mm_jpeg_session_abort \/ SessionAborted \/ AbortDone \/ StopComponent \/ Destroyed
    \/ mm_jpeg_jobmgr_thread_release \/ mm_jpeg_deinit
\* A client that gives jobs up on its way out goes on to destroy the session.
StoppingGoesOn == client.at = "stopping" /\ (mm_jpeg_destroy_session \/ mm_jpeg_close)
Call ==
    \/ jpeg_open \/ mm_jpeg_create_session \/ mm_jpeg_start_job
    \/ mm_jpeg_destroy_session \/ mm_jpeg_close \/ \E j \in Jobs : mm_jpeg_abort_job(j)

Next == Call \/ CallGoesOn \/ mm_jpeg_jobmgr_thread \/ \E s \in Sessions : Component(s)

\* The job manager and a call that was made run on; a component that works or
\* is told to stop answers.  The client need not make another call.
Fairness ==
    /\ WF_vars(mm_jpeg_jobmgr_thread) /\ WF_vars(CallGoesOn)
    /\ WF_vars(StoppingGoesOn)
    /\ \A s \in Sessions : WF_vars(Component(s))

Spec == Init /\ [][Next]_vars /\ Fairness
--------------------------------------------------------------------------------
\* Every variable holds a value of its kind.
TypeOK ==
    /\ \A s \in Sessions : sess[s].abort_state \in {"NONE", "INIT", "DONE"}
    /\ comp \in [Sessions -> {"none", "loaded", "to idle", "idle", "to executing", "executing",
                             "working", "answering", "stopping", "unloading"}]
    /\ given \in [Sessions -> SUBSET JobParams] /\ asked \in [Jobs -> Asks \cup {NoAsk}]
    /\ session_handle_q \in Seq(Sessions) /\ out_buf_q \in Seq(1..NumDstBufs)
    /\ job_queue \in Seq(Jobs \cup {EXIT}) /\ ongoing_job_q \in Seq(Jobs)
    /\ job_sem \in Nat /\ job_lock \in {"free", "client", "mgr"}
    /\ started \in 0..MaxJobs /\ quit \subseteq Jobs

Busy(s) == comp[s] \in {"working", "answering"}

\* A session does one job at a time, and the jobs in their components at one time
\* fill buffers of their own, however jobs end, fail and are aborted.  A job is
\* encoded in a component set up for it, whatever the jobs before it left set.
JobsApart ==
    \A s \in Sessions : Busy(s) =>
        /\ sess[s].config /\ OfTheJob \subseteq given[s]
        /\ ~Contains(session_handle_q, s) /\ ~Contains(out_buf_q, sess[s].dst)
        /\ \A r \in Sessions \ {s} : Busy(r) =>
                sess[r].dst # sess[s].dst /\ sess[r].job # sess[s].job

\* The client has given the job up, or is giving it up.
GivenUp(j) ==
    \/ j \in quit
    \/ client.at \in {"abort", "abort waits"} /\ client.job = j
    \/ client.at \in {"destroy", "destroy waits", "close", "close waits"}
Wanted(s) == Busy(s) /\ ~GivenUp(sess[s].job)

\* The engine is never given more jobs than it can do at a time, but for jobs that
\* the client gave up: an abort ends at the first session of the chain that was
\* aborted before, and leaves those behind it to their components.
WithinEngine ==
    /\ Len(ongoing_job_q) <= MaxOngoing
    /\ \A s \in Sessions : Wanted(s) => Contains(ongoing_job_q, sess[s].job)
    /\ Cardinality({s \in Sessions : Wanted(s)}) <= MaxOngoing

\* A job is answered at most once, and not after the session was destroyed or the
\* client closed: the client has freed what the callback would look at.
AnsweredOnce ==
    [][\A j \in Jobs : told'[j] # told[j] => told[j] = <<>> /\ j \notin over]_vars

\* Abort is a "sync call": the job it gave up is not answered after it returned.
AbortIsFinal == [][\A j \in Jobs : told'[j] # told[j] => j \notin quit]_vars

\* A job that was started is answered or given up by the client, though others
\* end in errors and sessions and buffers are few.
JobsAnswered == \A j \in Jobs : started >= j ~> told[j] # <<>> \/ j \in quit

\* Abort and destroy are "sync calls" that wait for components: they return, and
\* so does close, which waits for the job manager.
CallsReturn == client.at \notin {"idle", "stopping", "closed"} ~>
                    client.at \in {"idle", "stopping", "closed"}

\* create_session returns "0 for success else failure": after 0 the sessions and
\* their output buffers are there.
CreatedMeansCreated ==
    [][created'.rc = 0 /\ created' # created /\ client' = Idle /\ client = Idle =>
        created'.sessions = NumSessions /\ created'.bufs = NumDstBufs]_vars

\* "abort a job": the other jobs are answered.
AbortsOneJob ==
    \A j \in Jobs : started >= j ~> told[j] # <<>> \/ j \in quit
================================================================================
