------------------------------ MODULE PollThread ------------------------------
(***************************************************************************)
(* A poll thread of mm_camera_thread.c: it polls a pipe and the file       *)
(* descriptor of an entry.  Control calls (launch, add, delete, commit,    *)
(* release) come from one thread at a time and wait until the poll thread  *)
(* has taken their command; asynchronous updates come from any thread that *)
(* queues or dequeues buffers, and do not wait.                            *)
(*                                                                         *)
(* Writing a command and going to wait is one step, for the mutex is held  *)
(* until pthread_cond_wait() releases it.  Spurious wake-ups, which the    *)
(* code does not guard against, are left out.                              *)
(***************************************************************************)
EXTENDS Naturals, Sequences

CONSTANT MaxPipe            \* bound: commands in the pipe when one is added

PollThreadAssumption == MaxPipe \in Nat \ {0}

VARIABLES
    state,          \* poll_cb->state
    thread,         \* where the thread is: see TypeOK
    ctl,            \* what the control thread waits for, or "idle"
    pipe,           \* commands written and not read
    entry,          \* poll_entries[] has the descriptor and its callback
    armed,          \* poll_fds[] has it
    released        \* mm_camera_poll_thread_release() returned

pollVars == <<state, thread, ctl, pipe, entry, armed, released>>

TypeOK ==
    /\ state \in {"STOPPED", "POLL"}
    /\ thread \in {"none", "created", "announced", "polling", "ended"}
    /\ ctl \in {"idle", "launch", "sync", "exit", "join"}
    /\ pipe \in Seq({"UPDATED", "UPDATED_ASYNC", "COMMIT", "EXIT"})
    /\ entry \in BOOLEAN /\ armed \in BOOLEAN /\ released \in BOOLEAN
    /\ (state = "POLL") = (thread = "polling")

Init ==
    /\ state = "STOPPED" /\ thread = "none" /\ ctl = "idle" /\ pipe = <<>>
    /\ entry = FALSE /\ armed = FALSE /\ released = FALSE

Launched == thread # "none" /\ ~released

-----------------------------------------------------------------------------
(* Calls. *)

\* mm_camera_poll_sig() and mm_camera_poll_sig_async().
Sig(cmd, waits) ==
    /\ Len(pipe) < MaxPipe
    /\ pipe' = Append(pipe, cmd)
    /\ ctl' = waits

MistakenSigAsync == UNCHANGED pipe /\ UNCHANGED ctl

SigAsync == Sig("UPDATED_ASYNC", ctl)

Launch ==
    /\ thread = "none" /\ ctl = "idle"
    /\ thread' = "created" /\ ctl' = "launch"
    /\ UNCHANGED <<state, pipe, entry, armed, released>>

AddPollFd(sync) ==
    /\ Launched
    /\ entry' = TRUE
    /\ IF sync THEN ctl = "idle" /\ Sig("UPDATED", "sync") ELSE SigAsync
    /\ UNCHANGED <<state, thread, armed, released>>

\* The handler is not there any more when the entry was deleted before.
DelPollFd(sync) ==
    /\ Launched /\ entry
    /\ entry' = FALSE
    /\ IF sync THEN ctl = "idle" /\ Sig("UPDATED", "sync") ELSE SigAsync
    /\ UNCHANGED <<state, thread, armed, released>>

CommitUpdates ==
    /\ Launched /\ ctl = "idle"
    /\ Sig("COMMIT", "sync")
    /\ UNCHANGED <<state, thread, entry, armed, released>>

\* Nothing is done when the thread seems to be stopped already.
Release ==
    /\ Launched /\ ctl = "idle"
    /\ IF state = "STOPPED"
       THEN released' = TRUE /\ UNCHANGED <<ctl, pipe>>
       ELSE Sig("EXIT", "exit") /\ UNCHANGED released
    /\ UNCHANGED <<state, thread, entry, armed>>

Join ==
    /\ ctl = "join" /\ thread = "ended"
    /\ ctl' = "idle" /\ released' = TRUE
    /\ UNCHANGED <<state, thread, pipe, entry, armed>>

-----------------------------------------------------------------------------
(* The thread. *)

\* mm_camera_poll_sig_done(): who waits goes on.
SigDone == ctl' = IF ctl \in {"exit", "join"} THEN "join" ELSE "idle"

\* mm_camera_poll_thread() announces itself before it sets its state.
Announce ==
    /\ thread = "created"
    /\ thread' = "announced" /\ SigDone
    /\ UNCHANGED <<state, pipe, entry, armed, released>>

SetState ==
    /\ thread = "announced"
    /\ thread' = "polling" /\ state' = "POLL"
    /\ UNCHANGED <<ctl, pipe, entry, armed, released>>

Take(cmd) ==
    /\ armed' = IF cmd \in {"UPDATED", "UPDATED_ASYNC"} THEN entry ELSE armed
    /\ IF cmd = "UPDATED_ASYNC" THEN UNCHANGED ctl ELSE SigDone
    /\ IF cmd = "EXIT" THEN state' = "STOPPED" /\ thread' = "ended"
                       ELSE UNCHANGED <<state, thread>>

ProcPipe ==
    /\ thread = "polling" /\ pipe # <<>>
    /\ pipe' = Tail(pipe)
    /\ Take(Head(pipe))
    /\ UNCHANGED <<entry, released>>

Next ==
    \/ Launch \/ Release \/ Join \/ CommitUpdates
    \/ \E sync \in BOOLEAN : AddPollFd(sync) \/ DelPollFd(sync)
    \/ Announce \/ SetState \/ ProcPipe

\* The thread runs.
Fairness ==
    /\ WF_pollVars(Announce) /\ WF_pollVars(SetState)
    /\ WF_pollVars(ProcPipe) /\ WF_pollVars(Join)

Spec == Init /\ [][Next]_pollVars /\ Fairness

-----------------------------------------------------------------------------
(* Properties. *)

Pending(cmds) == \E i \in DOMAIN pipe : pipe[i] \in cmds

\* A synchronous call returns when the thread has taken its own command: the
\* answer to another thread's asynchronous update does not release it.
SyncWaitsForItsOwn == ctl = "idle" => ~Pending({"UPDATED", "COMMIT", "EXIT"})

\* Whatever add and delete calls overlapped, what the thread polls is what is
\* registered, or a command is under way that will make it so.
PollFdsFollowEntries ==
    thread = "polling" => armed = entry \/ Pending({"UPDATED", "UPDATED_ASYNC"})

\* Both of these.
PollingFollows == TypeOK /\ SyncWaitsForItsOwn /\ PollFdsFollowEntries

\* Control calls return, with whatever asynchronous updates in between.
CallsReturn == ctl # "idle" ~> ctl = "idle"

\* mm_channel_release() says "stop data poll thread" and then forgets the
\* channel: the thread should not run on.
ReleaseStopsThread == released => thread = "ended"

=============================================================================
