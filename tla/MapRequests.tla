------------------------------ MODULE MapRequests ------------------------------
(***************************************************************************)
(* How mm_camera.c has the daemon map and unmap buffers: a request goes out *)
(* over the domain socket, and the sender waits up to five seconds for the  *)
(* event MAP_UNMAP_DONE, which the event poll thread dequeues from the      *)
(* kernel and leaves in evt_rcvd.  Several threads make requests, one at a  *)
(* time under msg_lock.  Other events of the daemon go to the event thread, *)
(* which calls the registered callbacks, the news of its death among them.  *)
(***************************************************************************)
EXTENDS Naturals, Sequences, FiniteSets

CONSTANTS
    Threads,        \* threads that make requests
    Callbacks,      \* callbacks that are registered
    MaxRequests     \* bound: requests sent

NoOne == "no one"

RequestsAssumption ==
    /\ IsFiniteSet(Threads) /\ IsFiniteSet(Callbacks) /\ NoOne \notin Threads
    /\ MaxRequests \in Nat

Nothing == [kind |-> "none", req |-> 0, ok |-> FALSE]

VARIABLES
    msg_lock,       \* who has it
    socket,         \* requests on their way to the daemon
    daemon,         \* "alive" or "dead"
    kernelEvents,   \* events subscribed to and not dequeued
    evt_rcvd,       \* the last answer, or Nothing
    wait,           \* what each thread does: request number and place
    sent,           \* requests sent so far
    evtQueue,       \* events for the event thread
    notified,       \* what each callback was told, in order
    mapped,         \* history: requests the daemon carried out
    believed,       \* history: requests whose sender was told they succeeded
    denied,         \* history: requests whose sender was told they failed
    taken,          \* history: the request whose answer each request took, or 0
    givenUp         \* history: requests that returned without an answer

vars == <<msg_lock, socket, daemon, kernelEvents, evt_rcvd, wait, sent, evtQueue,
          notified, mapped, believed, denied, taken, givenUp>>

Requests == 1..MaxRequests
Event == [kind : {"done", "pull", "shutdown"}, req : 0..MaxRequests, ok : BOOLEAN]

TypeOK ==
    /\ msg_lock \in Threads \cup {NoOne} /\ daemon \in {"alive", "dead"}
    /\ socket \in Seq(Requests) /\ kernelEvents \in Seq(Event)
    /\ evt_rcvd \in Event \cup {Nothing}
    /\ wait \in [Threads -> [at : {"idle", "send", "wait"}, req : 0..MaxRequests]]
    /\ sent \in 0..MaxRequests
    /\ evtQueue \in Seq({"pull", "died"})
    /\ notified \in [Callbacks -> Seq({"pull", "died"})]
    /\ mapped \subseteq Requests /\ believed \subseteq Requests /\ denied \subseteq Requests
    /\ taken \in [Requests -> 0..MaxRequests] /\ givenUp \subseteq Requests

Init ==
    /\ msg_lock = NoOne /\ socket = <<>> /\ daemon = "alive" /\ kernelEvents = <<>>
    /\ evt_rcvd = Nothing
    /\ wait = [t \in Threads |-> [at |-> "idle", req |-> 0]]
    /\ sent = 0 /\ evtQueue = <<>> /\ notified = [c \in Callbacks |-> <<>>]
    /\ mapped = {} /\ believed = {} /\ denied = {}
    /\ taken = [r \in Requests |-> 0] /\ givenUp = {}

resultVars == <<believed, denied, taken, givenUp>>
threadVars == <<msg_lock, wait, sent, resultVars>>
eventVars  == <<evtQueue, notified>>

-----------------------------------------------------------------------------
(* A request: mm_camera_util_sendmsg() and mm_camera_util_wait_for_event() *)

Request(t) ==
    /\ wait[t].at = "idle" /\ msg_lock = NoOne /\ sent < MaxRequests
    /\ msg_lock' = t
    /\ sent' = sent + 1
    /\ wait' = [wait EXCEPT ![t] = [at |-> "send", req |-> sent + 1]]
    /\ UNCHANGED <<socket, daemon, kernelEvents, evt_rcvd, eventVars, mapped, resultVars>>

Return(t) ==
    /\ msg_lock' = NoOne
    /\ wait' = [wait EXCEPT ![t] = [at |-> "idle", req |-> 0]]

\* The request fails without an answer.
GiveUp(t) ==
    /\ Return(t)
    /\ denied' = denied \cup {wait[t].req} /\ givenUp' = givenUp \cup {wait[t].req}
    /\ UNCHANGED <<believed, taken>>

\* The status that is there is the request's result, whichever it answers.
Take(t) ==
    /\ Return(t)
    /\ believed' = IF evt_rcvd.ok THEN believed \cup {wait[t].req} ELSE believed
    /\ denied' = IF evt_rcvd.ok THEN denied ELSE denied \cup {wait[t].req}
    /\ taken' = [taken EXCEPT ![wait[t].req] = evt_rcvd.req]
    /\ UNCHANGED givenUp

\* Nothing is sent over a socket nobody reads any more; the request fails.
Send(t) ==
    /\ wait[t].at = "send"
    /\ IF daemon = "alive"
       THEN /\ socket' = Append(socket, wait[t].req)
            /\ wait' = [wait EXCEPT ![t].at = "wait"]
            /\ UNCHANGED <<msg_lock, resultVars>>
       ELSE GiveUp(t) /\ UNCHANGED socket
    /\ UNCHANGED <<daemon, kernelEvents, evt_rcvd, sent, eventVars, mapped>>

MistakenAnswered(t) ==
    /\ wait[t].at = "wait" /\ evt_rcvd # Nothing
    /\ Take(t)
    /\ UNCHANGED <<socket, daemon, kernelEvents, evt_rcvd, sent, eventVars, mapped>>

Answered(t) ==
    /\ wait[t].at = "wait" /\ evt_rcvd # Nothing
    /\ Take(t)
    /\ evt_rcvd' = Nothing
    /\ UNCHANGED <<socket, daemon, kernelEvents, sent, eventVars, mapped>>

\* pthread_cond_timedwait() fails, whatever the daemon is doing: evt_rcvd is
\* cleared, also of an answer that came in the last moment.  The answer that is
\* still to come is not called off.
TimedOut(t) ==
    /\ wait[t].at = "wait"
    /\ GiveUp(t)
    /\ evt_rcvd' = Nothing
    /\ UNCHANGED <<socket, daemon, kernelEvents, sent, eventVars, mapped>>

-----------------------------------------------------------------------------
(* The daemon and the kernel. *)

\* It takes requests in order, and answers each.
DaemonMaps ==
    /\ daemon = "alive" /\ socket # <<>>
    /\ socket' = Tail(socket)
    /\ \E ok \in BOOLEAN :
         /\ kernelEvents' = Append(kernelEvents, [kind |-> "done", req |-> Head(socket), ok |-> ok])
         /\ mapped' = IF ok THEN mapped \cup {Head(socket)} ELSE mapped
    /\ UNCHANGED <<daemon, evt_rcvd, threadVars, eventVars>>

\* It asks the HAL to fetch something.
DaemonPulls ==
    /\ daemon = "alive"
    /\ \A i \in DOMAIN kernelEvents : kernelEvents[i].kind # "pull"
    /\ \A c \in Callbacks : Len(notified[c]) = 0
    /\ "pull" \notin {evtQueue[i] : i \in DOMAIN evtQueue}
    /\ kernelEvents' = Append(kernelEvents, [kind |-> "pull", req |-> 0, ok |-> FALSE])
    /\ UNCHANGED <<socket, daemon, evt_rcvd, threadVars, eventVars, mapped>>

DaemonDies ==
    /\ daemon = "alive"
    /\ daemon' = "dead" /\ socket' = <<>>
    /\ kernelEvents' = Append(kernelEvents, [kind |-> "shutdown", req |-> 0, ok |-> FALSE])
    /\ UNCHANGED <<evt_rcvd, threadVars, eventVars, mapped>>

-----------------------------------------------------------------------------
(* The event poll thread and the event thread. *)

\* mm_camera_event_notify(): an answer is stored whether or not somebody waits.
EventNotify ==
    /\ kernelEvents # <<>>
    /\ kernelEvents' = Tail(kernelEvents)
    /\ LET ev == Head(kernelEvents) IN
         CASE ev.kind = "pull" -> evtQueue' = Append(evtQueue, "pull") /\ UNCHANGED evt_rcvd
           [] ev.kind = "shutdown" -> evtQueue' = Append(evtQueue, "died") /\ UNCHANGED evt_rcvd
           [] OTHER -> evt_rcvd' = ev /\ UNCHANGED evtQueue
    /\ UNCHANGED <<socket, daemon, threadVars, notified, mapped>>

\* mm_camera_dispatch_app_event(): every registered callback, under cb_lock.
DispatchAppEvent ==
    /\ evtQueue # <<>>
    /\ evtQueue' = Tail(evtQueue)
    /\ notified' = [c \in Callbacks |-> Append(notified[c], Head(evtQueue))]
    /\ UNCHANGED <<socket, daemon, kernelEvents, evt_rcvd, threadVars, mapped>>

-----------------------------------------------------------------------------

Requester(t) == Send(t) \/ Answered(t) \/ TimedOut(t)

Next ==
    \/ \E t \in Threads : Request(t) \/ Requester(t)
    \/ DaemonMaps \/ DaemonPulls \/ DaemonDies \/ EventNotify \/ DispatchAppEvent

\* The daemon works while it lives, and time passes.
Fairness ==
    /\ \A t \in Threads : WF_vars(Requester(t))
    /\ WF_vars(DaemonMaps) /\ WF_vars(EventNotify)
    /\ WF_vars(DispatchAppEvent)

Spec == Init /\ [][Next]_vars /\ Fairness

-----------------------------------------------------------------------------
(* Properties. *)

\* Answers carry no number: a request takes the one that is there.  No answer is
\* taken twice or out of order, and none is further behind its request than the
\* number of requests given up before.
GivenUpBefore(r) == {g \in givenUp : g < r}
AnswersInOrder ==
    \A r \in Requests : taken[r] # 0 =>
        /\ taken[r] <= r /\ r - taken[r] <= Cardinality(GivenUpBefore(r))
        /\ \A q \in 1..(r - 1) : taken[q] < taken[r]

\* What the HAL believes of a buffer is what the daemon did with the request whose
\* answer was taken: with the buffer's own, if no request was given up before it.
BelievedIsDone ==
    \A r \in Requests :
        /\ r \in believed => taken[r] \in mapped
        /\ r \in denied \ givenUp => taken[r] \in Requests \ mapped
        /\ GivenUpBefore(r) = {} =>
              (r \in believed => r \in mapped) /\ (r \in denied \ givenUp => r \notin mapped)

\* The requests and answers on their way are in order, none twice, the answer that
\* is kept first and the socket last; they are among the latest requests, as many as
\* were given up, and one more.
Reports == {i \in DOMAIN kernelEvents : kernelEvents[i].kind = "done"}
UnderWay ==
    ({evt_rcvd.req} \ {0}) \cup {kernelEvents[i].req : i \in Reports}
      \cup {socket[i] : i \in DOMAIN socket}
InOrder ==
    /\ \A i, j \in Reports : i < j => kernelEvents[i].req < kernelEvents[j].req
    /\ \A i, j \in DOMAIN socket : i < j => socket[i] < socket[j]
    /\ \A i \in Reports, j \in DOMAIN socket : kernelEvents[i].req < socket[j]
    /\ evt_rcvd # Nothing =>
          /\ \A i \in Reports : evt_rcvd.req < kernelEvents[i].req
          /\ \A j \in DOMAIN socket : evt_rcvd.req < socket[j]
OneRequest ==
    /\ \A n \in UnderWay : n <= sent /\ sent - n <= Cardinality(givenUp)
    /\ InOrder

\* All of these.
AnswersAreOwn == TypeOK /\ AnswersInOrder /\ BelievedIsDone /\ OneRequest

\* A request returns, answered or given up, also when the daemon dies under it.
RequestsReturn == \A t \in Threads : wait[t].at # "idle" ~> wait[t].at = "idle"

\* Every callback learns of the daemon's death, after what came before it.
DeathReported ==
    \A c \in Callbacks : notified[c] # <<>> /\ notified[c][Len(notified[c])] = "died"
DeathIsReported == daemon = "dead" ~> DeathReported

\* mm_camera_util_sendmsg() says "sendmsg until reposonse back is deemed as one
\* operation" (1641): a request succeeds if the daemon carried it out.
SendAndResponseAreOne == believed \subseteq mapped

=============================================================================
