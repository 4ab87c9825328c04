------------------------------ MODULE SmEvtThread ------------------------------
(***************************************************************************)
(* The thread of QCameraStateMachine and the threads that post to it, one  *)
(* step per call that another thread can come between: a poster enqueues   *)
(* its node and then posts the semaphore; the thread waits for the         *)
(* semaphore, tries the API queue and then the event queue.  Both queues   *)
(* are QCameraQueues, whose operations are atomic under their lock.        *)
(***************************************************************************)
EXTENDS Naturals, FiniteSets, Sequences

CONSTANTS
    ApiPosters, EvtPosters,  \* threads that call procAPI() and procEvt()
    Exit,                    \* the node of ~QCameraStateMachine()
    NoNode,                  \* no node
    MaxPosts                 \* bound: nodes each thread posts

Posters == ApiPosters \cup EvtPosters

\* A thread's node is named for the thread: what it carries does not matter here.
ASSUME PostersAssumption ==
    /\ ApiPosters \cap EvtPosters = {}
    /\ Exit \notin Posters
    /\ NoNode \notin Posters \cup {Exit}
    /\ MaxPosts \in Nat

VARIABLES
    api_queue, evt_queue, cmd_sem,
    posting,    \* posters between enqueue() and cam_sem_post()
    posts,      \* how many nodes each poster has sent
    pc,         \* where the thread is
    node,       \* the node it handles
    handled,    \* how many nodes of each poster it has handled
    owner       \* the destructor: "running", "enqueued", "joining", "gone"

vars == <<api_queue, evt_queue, cmd_sem, posting, posts, pc, node, handled, owner>>

TypeOK ==
    /\ api_queue \in Seq(ApiPosters \cup {Exit})
    /\ evt_queue \in Seq(EvtPosters)
    /\ cmd_sem \in Nat
    /\ posting \in SUBSET Posters
    /\ posts \in [Posters -> Nat]
    /\ pc \in {"waiting", "awake", "noapi", "handling", "exited"}
    /\ node \in Posters \cup {Exit, NoNode}
    /\ handled \in [Posters -> Nat]
    /\ owner \in {"running", "enqueued", "joining", "gone"}

Init ==
    /\ api_queue = <<>> /\ evt_queue = <<>> /\ cmd_sem = 0
    /\ posting = {}
    /\ posts = [p \in Posters |-> 0]
    /\ pc = "waiting"
    /\ node = NoNode
    /\ handled = [p \in Posters |-> 0]
    /\ owner = "running"

-----------------------------------------------------------------------------
(* procAPI() and procEvt(). *)

CanPost(p) == owner = "running" /\ p \notin posting /\ posts[p] < MaxPosts

Enqueued(p) ==
    /\ posting' = posting \cup {p}
    /\ posts' = [posts EXCEPT ![p] = @ + 1]
    /\ UNCHANGED <<cmd_sem, pc, node, handled, owner>>

procAPI(p) ==
    CanPost(p) /\ api_queue' = Append(api_queue, p) /\ UNCHANGED evt_queue /\ Enqueued(p)

MistakenProcEvt(p) ==
    CanPost(p) /\ evt_queue' = <<p>> \o evt_queue /\ UNCHANGED api_queue /\ Enqueued(p)

procEvt(p) ==
    CanPost(p) /\ evt_queue' = Append(evt_queue, p) /\ UNCHANGED api_queue /\ Enqueued(p)

SemPost(p) ==
    /\ p \in posting
    /\ posting' = posting \ {p}
    /\ cmd_sem' = cmd_sem + 1
    /\ UNCHANGED <<api_queue, evt_queue, posts, pc, node, handled, owner>>

-----------------------------------------------------------------------------
(* smEvtProcRoutine(). *)

MistakenSemWait ==
    /\ pc = "waiting"
    /\ cmd_sem' = cmd_sem - 1
    /\ pc' = "awake"
    /\ UNCHANGED <<api_queue, evt_queue, posting, posts, node, handled, owner>>

SemWait ==
    /\ pc = "waiting"
    /\ cmd_sem > 0
    /\ cmd_sem' = cmd_sem - 1
    /\ pc' = "awake"
    /\ UNCHANGED <<api_queue, evt_queue, posting, posts, node, handled, owner>>

MistakenDequeueApi ==
    /\ pc = "awake"
    /\ IF api_queue = <<>>
       THEN pc' = "waiting" /\ UNCHANGED <<api_queue, node>>
       ELSE pc' = "handling" /\ node' = Head(api_queue) /\ api_queue' = Tail(api_queue)
    /\ UNCHANGED <<evt_queue, cmd_sem, posting, posts, handled, owner>>

DequeueApi ==
    /\ pc = "awake"
    /\ IF api_queue = <<>>
       THEN pc' = "noapi" /\ UNCHANGED <<api_queue, node>>
       ELSE pc' = "handling" /\ node' = Head(api_queue) /\ api_queue' = Tail(api_queue)
    /\ UNCHANGED <<evt_queue, cmd_sem, posting, posts, handled, owner>>

MistakenDequeueEvt ==
    /\ pc = "noapi"
    /\ IF evt_queue = <<>>
       THEN pc' = "waiting" /\ UNCHANGED node
       ELSE pc' = "handling" /\ node' = Head(evt_queue)
    /\ UNCHANGED <<api_queue, evt_queue, cmd_sem, posting, posts, handled, owner>>

\* A node of neither queue sends the thread back to wait.
DequeueEvt ==
    /\ pc = "noapi"
    /\ IF evt_queue = <<>>
       THEN pc' = "waiting" /\ UNCHANGED <<evt_queue, node>>
       ELSE pc' = "handling" /\ node' = Head(evt_queue) /\ evt_queue' = Tail(evt_queue)
    /\ UNCHANGED <<api_queue, cmd_sem, posting, posts, handled, owner>>

MistakenHandleNode ==
    /\ pc = "handling"
    /\ node' = NoNode
    /\ IF node = Exit
       THEN pc' = "exited" /\ UNCHANGED handled
       ELSE pc' = "awake" /\ handled' = [handled EXCEPT ![node] = @ + 1]
    /\ UNCHANGED <<api_queue, evt_queue, cmd_sem, posting, posts, owner>>

HandleNode ==
    /\ pc = "handling"
    /\ node' = NoNode
    /\ IF node = Exit
       THEN pc' = "exited" /\ UNCHANGED handled
       ELSE pc' = "waiting" /\ handled' = [handled EXCEPT ![node] = @ + 1]
    /\ UNCHANGED <<api_queue, evt_queue, cmd_sem, posting, posts, owner>>

-----------------------------------------------------------------------------
(* ~QCameraStateMachine(), run by the owner once nobody calls the HAL. *)

MistakenPostExit ==
    /\ owner = "running"
    /\ posting = {}
    /\ owner' = "enqueued"
    /\ api_queue' = <<Exit>> \o api_queue
    /\ UNCHANGED <<evt_queue, cmd_sem, posting, posts, pc, node, handled>>

PostExit ==
    /\ owner = "running"
    /\ posting = {}
    /\ owner' = "enqueued"
    /\ api_queue' = Append(api_queue, Exit)
    /\ UNCHANGED <<evt_queue, cmd_sem, posting, posts, pc, node, handled>>

SignalExit ==
    /\ owner = "enqueued"
    /\ owner' = "joining"
    /\ cmd_sem' = cmd_sem + 1
    /\ UNCHANGED <<api_queue, evt_queue, posting, posts, pc, node, handled>>

Join ==
    /\ owner = "joining"
    /\ pc = "exited"
    /\ owner' = "gone"
    /\ UNCHANGED <<api_queue, evt_queue, cmd_sem, posting, posts, pc, node, handled>>

-----------------------------------------------------------------------------

Thread == SemWait \/ DequeueApi \/ DequeueEvt \/ HandleNode

Next ==
    \/ \E p \in ApiPosters : procAPI(p)
    \/ \E p \in EvtPosters : procEvt(p)
    \/ \E p \in Posters : SemPost(p)
    \/ Thread
    \/ PostExit \/ SignalExit \/ Join

Spec == Init /\ [][Next]_vars

\* A thread that can run does: the posters are about to post, the machine's
\* thread and the owner only wait where the model says they do.
Fairness ==
    /\ \A p \in Posters : WF_vars(SemPost(p))
    /\ WF_vars(Thread)
    /\ WF_vars(SignalExit) /\ WF_vars(Join)

FairSpec == Spec /\ Fairness

-----------------------------------------------------------------------------
(* Properties. *)

Fetching == IF pc \in {"awake", "noapi"} THEN 1 ELSE 0
Leaving  == IF owner = "enqueued" THEN 1 ELSE 0

\* Every node has its wake-up, given, being given or already taken, and every
\* wake-up its node, though the two queues share one semaphore and a thread
\* may be woken for a node that another thread's wake-up fetched.
WakeupsMatchNodes ==
    Len(api_queue) + Len(evt_queue) = cmd_sem + Cardinality(posting) + Leaving + Fetching

\* The thread is never woken for nothing: the branch that finds both queues
\* empty (node == NULL) is dead code.
NeverWokenForNothing == pc = "noapi" => evt_queue # <<>>

\* The machine is destroyed only after every API command was handled, so no
\* caller is left waiting for its result.
JoinedAfterLastApi ==
    owner = "gone" => \A p \in ApiPosters : handled[p] = posts[p]

\* Nodes are neither lost nor duplicated.
CountIn(s, p) == Cardinality({i \in DOMAIN s : s[i] = p})

HandledOnce ==
    \A p \in Posters :
        posts[p] = handled[p] + CountIn(api_queue, p) + CountIn(evt_queue, p)
                     + (IF node = p THEN 1 ELSE 0)

\* Every node posted is handled, unless the destructor's overtakes an event.
EveryNodeHandled ==
    \A p \in Posters : \A n \in 1..MaxPosts :
        posts[p] >= n ~> handled[p] >= n \/ (p \in EvtPosters /\ owner # "running")

\* The destructor returns.
DestructorReturns == owner = "enqueued" ~> owner = "gone"

\* Nobody waits for ever: neither the callers of the machine nor the one who
\* destroys it (smEvtProcRoutine(), ~QCameraStateMachine()).
ThreadFinishes == EveryNodeHandled /\ DestructorReturns

\* The thread takes its event at the moment it finds no API command: what is
\* posted after that is later for the callers, too.
Q == INSTANCE CommandQueues WITH
       Api  <- ApiPosters \cup {Exit},
       Evt  <- EvtPosters,
       None <- NoNode,
       api  <- api_queue,
       evt  <- IF pc = "noapi" THEN Tail(evt_queue) ELSE evt_queue,
       hand <- IF pc = "noapi" THEN Head(evt_queue) ELSE node

QueuesSpec == Q!Spec

=============================================================================
