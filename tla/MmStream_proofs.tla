--------------------------- MODULE MmStream_proofs ---------------------------
(***************************************************************************)
(* What is proved of a stream, for any number of buffers, and of the poll  *)
(* thread that it uses, for a pipe of any length.  First the poll thread   *)
(* (PollThread, the instance Poll of MmStream): a call that waits is       *)
(* released by its own command, and the thread polls what is registered or *)
(* has a command to do so.  Then the stream: an invariant that says who has*)
(* each buffer, what queued_buffer_count counts and from when on a stop    *)
(* keeps the poll thread quiet, with one lemma per action, and what follows*)
(* from it.  At the end, a channel of several streams (MmChannel).         *)
(***************************************************************************)
EXTENDS MmStream, FiniteSetTheorems, SequenceTheorems, TLAPS

Commands == {"UPDATED", "UPDATED_ASYNC", "COMMIT", "EXIT"}
Updates == {"UPDATED", "UPDATED_ASYNC"}
Waited == {"UPDATED", "COMMIT", "EXIT"}

(* The inductive invariant. *)

\* One command in the pipe is of this kind, and no other one is waited for.
Sole(cmds) ==
    \E i \in DOMAIN pipe :
       /\ pipe[i] \in cmds
       /\ \A j \in DOMAIN pipe \ {i} : pipe[j] \notin Waited

\* What the control thread waits for is in the pipe, once.
WaitMatchesPipe ==
    /\ ctl = "launch" <=> thread = "created"
    /\ ctl = "sync" => Sole({"UPDATED", "COMMIT"})
    /\ ctl = "exit" => Sole({"EXIT"})
    /\ ctl \notin {"sync", "exit"} => ~Poll!Pending(Waited)

PollsEntries == thread # "ended" => armed = entry \/ Poll!Pending(Updates)

PollInv == Poll!TypeOK /\ WaitMatchesPipe /\ PollsEntries

-----------------------------------------------------------------------------
(* The pipe. *)

\* A command that is written is behind the others.
LEMMA Written ==
  ASSUME Poll!TypeOK, NEW c \in Commands, NEW w, Poll!Sig(c, w)
  PROVE  /\ pipe' \in Seq(Commands) /\ ctl' = w
         /\ DOMAIN pipe \subseteq DOMAIN pipe' /\ Len(pipe) + 1 \in DOMAIN pipe'
         /\ Len(pipe) + 1 \notin DOMAIN pipe
         /\ DOMAIN pipe' = DOMAIN pipe \cup {Len(pipe) + 1}
         /\ \A i \in DOMAIN pipe : pipe'[i] = pipe[i]
         /\ pipe'[Len(pipe) + 1] = c
  BY DEF Poll!TypeOK, Poll!Sig, Commands

\* A command that is read was the first; the others stay in their order.
LEMMA Read ==
  ASSUME Poll!TypeOK, pipe # <<>>, pipe' = Tail(pipe)
  PROVE  /\ pipe' \in Seq(Commands) /\ 1 \in DOMAIN pipe /\ Head(pipe) = pipe[1]
         /\ pipe[1] \in Commands
         /\ \A i \in DOMAIN pipe : i # 1 => i - 1 \in DOMAIN pipe' /\ pipe'[i - 1] = pipe[i]
         /\ \A i \in DOMAIN pipe' : i + 1 \in DOMAIN pipe \ {1} /\ pipe'[i] = pipe[i + 1]
         /\ \A i \in DOMAIN pipe' : i \in Nat
         /\ \A i \in DOMAIN pipe : i \in Nat
  BY DEF Poll!TypeOK, Commands

\* A command of another thread changes nothing for who waits.
LEMMA AsyncWritten ==
  ASSUME PollInv, Poll!Sig("UPDATED_ASYNC", ctl), thread' = thread
  PROVE  WaitMatchesPipe' /\ Poll!Pending(Updates)'
<1>1. /\ DOMAIN pipe' = DOMAIN pipe \cup {Len(pipe) + 1} /\ ctl' = ctl
      /\ \A i \in DOMAIN pipe : pipe'[i] = pipe[i]
      /\ pipe'[Len(pipe) + 1] = "UPDATED_ASYNC"
  BY Written DEF PollInv, Commands
<1>2. Poll!Pending(Updates)'
  BY <1>1 DEF Poll!Pending, Updates
<1>3. ASSUME NEW cmds, Sole(cmds) PROVE Sole(cmds)'
  BY <1>1, <1>3 DEF Sole, Waited
<1>4. ~Poll!Pending(Waited) => ~Poll!Pending(Waited)'
  BY <1>1 DEF Poll!Pending, Waited
<1> QED
  BY <1>1, <1>2, <1>3, <1>4 DEF PollInv, WaitMatchesPipe

\* A call that waits writes the only command that is waited for.
LEMMA SyncWritten ==
  ASSUME PollInv, ctl = "idle", thread' = thread,
         NEW c \in Waited, NEW w \in {"sync", "exit"}, Poll!Sig(c, w),
         w = "exit" <=> c = "EXIT"
  PROVE  /\ WaitMatchesPipe'
         /\ Poll!Pending(Updates) => Poll!Pending(Updates)'
         /\ c = "UPDATED" => Poll!Pending(Updates)'
<1>1. /\ DOMAIN pipe' = DOMAIN pipe \cup {Len(pipe) + 1} /\ ctl' = w
      /\ Len(pipe) + 1 \notin DOMAIN pipe
      /\ \A i \in DOMAIN pipe : pipe'[i] = pipe[i]
      /\ pipe'[Len(pipe) + 1] = c
  BY Written DEF PollInv, Commands, Waited
<1>2. ~Poll!Pending(Waited)
  BY DEF PollInv, WaitMatchesPipe
<1>3. Sole({c})'
  BY <1>1, <1>2 DEF Sole, Poll!Pending
<1>4. c # "EXIT" => Sole({"UPDATED", "COMMIT"})'
  BY <1>3 DEF Sole, Waited
<1>5. thread # "created"
  BY DEF PollInv, WaitMatchesPipe
<1>6. WaitMatchesPipe'
  BY <1>1, <1>3, <1>4, <1>5 DEF WaitMatchesPipe
<1> QED
  BY <1>1, <1>6 DEF Poll!Pending, Updates

-----------------------------------------------------------------------------
(* The steps. *)

\* Before the thread is launched.
LEMMA InitPoll == Poll!Init => PollInv
<1> SUFFICES ASSUME Poll!Init PROVE PollInv
  OBVIOUS
<1>1. /\ state = "STOPPED" /\ thread = "none" /\ ctl = "idle" /\ pipe = <<>>
      /\ ~entry /\ ~armed /\ ~released
  BY DEF Poll!Init
<1>2. entry \in BOOLEAN /\ armed \in BOOLEAN /\ released \in BOOLEAN
  BY Zenon DEF Poll!Init
<1>3. pipe \in Seq(Commands) /\ DOMAIN pipe = {}
  BY <1>1
<1>4. Poll!TypeOK
  BY <1>1, <1>2, <1>3 DEF Poll!TypeOK, Commands
<1>5. armed = entry
  BY Zenon DEF Poll!Init
<1>6. WaitMatchesPipe /\ PollsEntries
  BY <1>1, <1>3, <1>5 DEF WaitMatchesPipe, PollsEntries, Poll!Pending
<1> QED
  BY <1>4, <1>6 DEF PollInv

\* mm_camera_poll_thread_launch().
LEMMA LaunchKeeps == ASSUME PollInv, Poll!Launch PROVE PollInv'
  BY DEF Poll!Launch, PollInv, Poll!TypeOK, WaitMatchesPipe, PollsEntries, Poll!Pending

\* mm_camera_poll_thread_add_poll_fd() and _del_poll_fd().
LEMMA UpdateKeeps ==
  ASSUME PollInv, NEW sync \in BOOLEAN, Poll!AddPollFd(sync) \/ Poll!DelPollFd(sync)
  PROVE  PollInv'
<1>1. UNCHANGED <<state, thread, armed, released>> /\ entry' \in BOOLEAN
  BY DEF Poll!AddPollFd, Poll!DelPollFd
<1>2. CASE sync
  <2>1. ctl = "idle" /\ Poll!Sig("UPDATED", "sync")
    BY <1>2 DEF Poll!AddPollFd, Poll!DelPollFd
  <2>2. WaitMatchesPipe' /\ Poll!Pending(Updates)'
    BY <1>1, <2>1, SyncWritten DEF Waited
  <2>3. Poll!TypeOK'
    BY <1>1, <2>1, Written DEF PollInv, Poll!TypeOK, Commands
  <2> QED
    BY <2>2, <2>3 DEF PollInv, PollsEntries
<1>3. CASE ~sync
  <2>1. Poll!Sig("UPDATED_ASYNC", ctl)
    BY <1>3 DEF Poll!AddPollFd, Poll!DelPollFd, Poll!SigAsync
  <2>2. WaitMatchesPipe' /\ Poll!Pending(Updates)'
    BY <1>1, <2>1, AsyncWritten
  <2>3. Poll!TypeOK'
    BY <1>1, <2>1, Written DEF PollInv, Poll!TypeOK, Commands
  <2> QED
    BY <2>2, <2>3 DEF PollInv, PollsEntries
<1> QED
  BY <1>2, <1>3

\* mm_camera_poll_thread_commit_updates().
LEMMA CommitKeeps == ASSUME PollInv, Poll!CommitUpdates PROVE PollInv'
<1>1. /\ UNCHANGED <<state, thread, entry, armed, released>>
      /\ ctl = "idle" /\ Poll!Sig("COMMIT", "sync")
  BY DEF Poll!CommitUpdates
<1>2. WaitMatchesPipe' /\ (Poll!Pending(Updates) => Poll!Pending(Updates)')
  BY <1>1, SyncWritten DEF Waited
<1>3. Poll!TypeOK'
  BY <1>1, Written DEF PollInv, Poll!TypeOK, Commands
<1> QED
  BY <1>1, <1>2, <1>3 DEF PollInv, PollsEntries

\* mm_camera_poll_thread_release(), up to its wait for the thread.
LEMMA ReleaseKeeps == ASSUME PollInv, Poll!Release PROVE PollInv'
<1>1. UNCHANGED <<state, thread, entry, armed>> /\ ctl = "idle"
  BY DEF Poll!Release
<1>2. CASE UNCHANGED <<ctl, pipe>> /\ released'
  BY <1>1, <1>2 DEF PollInv, Poll!TypeOK, WaitMatchesPipe, Sole, PollsEntries, Poll!Pending
<1>3. CASE Poll!Sig("EXIT", "exit") /\ UNCHANGED released
  <2>1. WaitMatchesPipe' /\ (Poll!Pending(Updates) => Poll!Pending(Updates)')
    BY <1>1, <1>3, SyncWritten DEF Waited
  <2>2. Poll!TypeOK'
    BY <1>1, <1>3, Written DEF PollInv, Poll!TypeOK, Commands
  <2> QED
    BY <1>1, <2>1, <2>2 DEF PollInv, PollsEntries
<1> QED
  BY <1>2, <1>3 DEF Poll!Release

\* pthread_join() returns to the caller of the release.
LEMMA JoinKeeps == ASSUME PollInv, Poll!Join PROVE PollInv'
  BY DEF Poll!Join, PollInv, Poll!TypeOK, WaitMatchesPipe, Sole, PollsEntries, Poll!Pending

\* The new thread signals who launched it.
LEMMA AnnounceKeeps == ASSUME PollInv, Poll!Announce PROVE PollInv'
  BY DEF Poll!Announce, Poll!SigDone, PollInv, Poll!TypeOK, WaitMatchesPipe, Sole,
         PollsEntries, Poll!Pending

\* It begins to poll.
LEMMA SetStateKeeps == ASSUME PollInv, Poll!SetState PROVE PollInv'
  BY DEF Poll!SetState, PollInv, Poll!TypeOK, WaitMatchesPipe, Sole, PollsEntries, Poll!Pending

\* mm_camera_poll_proc_pipe().
LEMMA ProcPipeKeeps == ASSUME PollInv, Poll!ProcPipe PROVE PollInv'
<1> DEFINE c == Head(pipe)
<1>1. /\ thread = "polling" /\ pipe # <<>> /\ pipe' = Tail(pipe) /\ Poll!Take(c)
      /\ UNCHANGED <<entry, released>>
  BY DEF Poll!ProcPipe
<1>2. /\ pipe' \in Seq(Commands) /\ 1 \in DOMAIN pipe /\ c = pipe[1] /\ c \in Commands
      /\ \A i \in DOMAIN pipe : i # 1 => i - 1 \in DOMAIN pipe' /\ pipe'[i - 1] = pipe[i]
      /\ \A i \in DOMAIN pipe' : i + 1 \in DOMAIN pipe \ {1} /\ pipe'[i] = pipe[i + 1]
      /\ \A i \in DOMAIN pipe' : i \in Nat
      /\ \A i \in DOMAIN pipe : i \in Nat
  BY <1>1, Read DEF PollInv
<1> HIDE DEF c
\* Whose command was taken is released, and it was the only one waited for.
<1>3. WaitMatchesPipe'
  <2>1. CASE c \in Waited
    <3>1. \A i \in DOMAIN pipe : i # 1 => pipe[i] \notin Waited
      BY <1>2, <2>1 DEF PollInv, WaitMatchesPipe, Sole, Poll!Pending
    <3>2. ~Poll!Pending(Waited)'
      BY <1>2, <3>1 DEF Poll!Pending
    <3>3. ctl \in {"sync", "exit"} /\ (ctl = "exit" <=> c = "EXIT")
      BY <1>2, <2>1 DEF PollInv, Poll!TypeOK, WaitMatchesPipe, Sole, Poll!Pending, Waited
    <3>4. ctl' \in {"join", "idle"} /\ thread' \in {"polling", "ended"}
      BY <1>1, <2>1, <3>3 DEF Poll!Take, Poll!SigDone, Waited
    <3> QED
      BY <3>2, <3>4 DEF WaitMatchesPipe
  <2>2. CASE c = "UPDATED_ASYNC"
    <3>1. ctl' = ctl /\ thread' = "polling" /\ ctl # "launch"
      BY <1>1, <2>2 DEF Poll!Take, PollInv, WaitMatchesPipe
    <3>2. ASSUME NEW cmds \in SUBSET Waited, Sole(cmds) PROVE Sole(cmds)'
      <4>1. PICK i \in DOMAIN pipe : /\ pipe[i] \in cmds
                                     /\ \A j \in DOMAIN pipe \ {i} : pipe[j] \notin Waited
        BY <3>2 DEF Sole
      <4>2. i # 1 /\ i - 1 \in DOMAIN pipe' /\ pipe'[i - 1] \in cmds
        BY <1>2, <2>2, <4>1 DEF Waited
      <4>3. \A j \in DOMAIN pipe' \ {i - 1} : pipe'[j] \notin Waited
        BY <1>2, <4>1, <4>2
      <4> QED
        BY <4>2, <4>3 DEF Sole
    <3>3. ~Poll!Pending(Waited) => ~Poll!Pending(Waited)'
      BY <1>2 DEF Poll!Pending
    <3>4. {"UPDATED", "COMMIT"} \in SUBSET Waited /\ {"EXIT"} \in SUBSET Waited
      BY DEF Waited
    <3> QED
      BY <3>1, <3>2, <3>3, <3>4 DEF WaitMatchesPipe, PollInv
  <2> QED
    BY <1>2, <2>1, <2>2 DEF Commands, Waited
<1>4. PollsEntries'
  <2>1. CASE c \in Updates
    BY <1>1, <2>1 DEF PollsEntries, Poll!Take, Updates
  <2>2. CASE c \notin Updates
    <3>1. armed' = armed
      BY <1>1, <2>2 DEF Poll!Take, Updates
    <3>2. Poll!Pending(Updates) => Poll!Pending(Updates)'
      BY <1>2, <2>2 DEF Poll!Pending
    <3> QED
      BY <1>1, <3>1, <3>2 DEF PollInv, PollsEntries
  <2> QED
    BY <2>1, <2>2
<1>5. Poll!TypeOK'
  BY <1>1, <1>2 DEF PollInv, Poll!TypeOK, Poll!Take, Poll!SigDone, Commands
<1> QED
  BY <1>3, <1>4, <1>5 DEF PollInv

\* Every step of a caller or of the thread.
LEMMA NextPoll == PollInv /\ [Poll!Next]_(Poll!pollVars) => PollInv'
<1> SUFFICES ASSUME PollInv, [Poll!Next]_(Poll!pollVars) PROVE PollInv'
  OBVIOUS
<1>1. CASE UNCHANGED Poll!pollVars
  BY <1>1 DEF Poll!pollVars, PollInv, Poll!TypeOK, WaitMatchesPipe, Sole, PollsEntries,
              Poll!Pending
<1> QED
  BY <1>1, LaunchKeeps, UpdateKeeps, CommitKeeps, ReleaseKeeps, JoinKeeps, AnnounceKeeps,
     SetStateKeeps, ProcPipeKeeps DEF Poll!Next

-----------------------------------------------------------------------------
\* What follows from the invariant.
LEMMA InvPollSound == PollInv => Poll!PollingFollows
  BY DEF PollInv, WaitMatchesPipe, PollsEntries, Waited, Updates, Poll!SyncWaitsForItsOwn,
         Poll!PollFdsFollowEntries, Poll!PollingFollows

\* It holds in every state of a poll thread that serves any callers.
LEMMA PollAlways == Poll!Spec => []PollInv
  BY InitPoll, NextPoll, PTL DEF Poll!Spec

\* mm_camera_poll_sig() returns when the thread has taken the very command it
\* wrote, whatever asynchronous updates other threads have in the pipe.
THEOREM WaitsForOwnCommand == Poll!Spec => []Poll!SyncWaitsForItsOwn
  BY PollAlways, InvPollSound, PTL DEF Poll!PollingFollows

\* However add and delete calls of several threads overlap, the thread polls what
\* is registered, or a command in the pipe will make it so.
THEOREM PollingFollowsEntries == Poll!Spec => []Poll!PollFdsFollowEntries
  BY PollAlways, InvPollSound, PTL DEF Poll!PollingFollows

\* Both, with the types: what a poll thread polls follows what is registered, and a
\* call that waits is released by its own command.
THEOREM PollIsSound == Poll!Spec => []Poll!PollingFollows
  BY PollAlways, InvPollSound, PTL

-----------------------------------------------------------------------------
(* The stream: the inductive invariant. *)

\* Counts one, if p.
One(p) == IF p THEN 1 ELSE 0

\* Who has a buffer, or is about to give it back, and whether it waits for a callback.
UserHas(b)    == <<"user", b>> \in uses \cup returning
ChannelHas(b) == <<"channel", b>> \in uses \cup returning
Waiting(b)    == \E i \in DOMAIN cbq : cbq[i] = b
Once(b)       == \A i, j \in DOMAIN cbq : cbq[i] = b /\ cbq[j] = b => i = j

\* The references taken for a frame that is about to be handed out.
Due(b) == IF poll = "accounted" /\ b \in frame THEN One(Bundled) + One(HasCb) ELSE 0

\* As long as the kernel was not told to give up the buffers.
Filling == {"idle", "on_failed", "step1", "streamoff"}

\* A buffer has a reference for each who has it, a callback that waits or runs
\* included; a frame just read is nobody's yet; the kernel has what no one else has.
Owned(b) ==
    /\ refcnt[b] = One(UserHas(b)) + One(ChannelHas(b)) + One(Waiting(b)) + One(cmd = b) + Due(b)
    /\ Once(b) /\ (Waiting(b) => ~UserHas(b) /\ cmd # b)
    /\ b \in frame => ~UserHas(b) /\ ~ChannelHas(b) /\ ~Waiting(b) /\ cmd # b
    /\ b \in kernel => refcnt[b] = 0 /\ b \notin frame
    /\ pc \in Filling /\ refcnt[b] = 0 /\ b \notin frame => b \in kernel

\* From the registration of the buffers to the end of a stop.
Live == st = "ACTIVE" \/ (st = "REG" /\ pc = "idle")

Ownership == Live => uses \cap returning = {} /\ \A b \in Buffers : Owned(b)

\* What queued_buffer_count counts: the buffers without a reference, but a frame
\* that is read and counted already.
Unused == {b \in Buffers : refcnt[b] = 0} \ (IF poll = "counted" THEN frame ELSE {})

Counted ==
    /\ queued \in 0..Cardinality(Buffers)
    /\ poll = "read" => queued >= 1
    /\ Live \/ pc = "unreg" => queued = Cardinality(Unused)
    /\ poll \in {"read", "counted"} => \A b \in frame : refcnt[b] = 0

\* The types, and which state goes with which step of the control thread.
Shape ==
    /\ st \in {"INITED", "ACQUIRED", "CFG", "BUFFED", "REG", "ACTIVE", "NOTUSED"}
    /\ pc \in {"idle", "on_failed", "unreg", "put"} \cup Stopping
    /\ pc \in {"on_failed"} \cup Stopping => st = "ACTIVE"
    /\ pc = "unreg" => st = "REG"
    /\ pc = "put" => st = "BUFFED"
    /\ streaming \in BOOLEAN /\ readded \in BOOLEAN /\ exiting \in BOOLEAN
    /\ streaming => st = "ACTIVE" /\ pc \in {"idle", "step1", "streamoff"}
    /\ ~streaming => filled = {}
    /\ refcnt \in [Buffers -> 0..4]
    /\ filled \subseteq kernel /\ kernel \subseteq Buffers
    /\ poll \in {"poll", "notify", "read", "counted", "accounted"}
    /\ IF poll \in {"poll", "notify"} THEN frame = {} ELSE \E b \in Buffers : frame = {b}
    /\ cbq \in Seq(Buffers \cup {"EXIT"})
    /\ cmd \in {"none", "wait"} \cup Buffers
    /\ cmd # "none" => st = "ACTIVE"
    /\ uses \subseteq Users \X Buffers /\ returning \subseteq Users \X Buffers

\* Before the buffers are registered, and once they are unregistered, nothing is
\* left of the last run, unless its descriptor was added again.
Unbuffered == pc = "put" \/ (pc = "idle" /\ st \notin {"ACTIVE", "REG"})
Clean ==
    /\ Unbuffered => kernel = {}
    /\ Unbuffered \/ (pc = "idle" /\ st = "REG") => returning = {}
    /\ Unbuffered /\ ~readded => uses = {}
    /\ st # "ACTIVE" /\ ~readded => cbq = <<>> /\ poll = "poll"
    /\ st \in {"BUFFED", "REG"} /\ pc = "idle" => ~readded

\* The poll thread runs.  A stop waits for its own command, the last one in the
\* pipe, and from then on nothing is polled, unless the descriptor is added again.
PollRuns == PollInv /\ thread = "polling" /\ ~released /\ ctl \in {"idle", "sync"}
Silent   == pipe = <<>> /\ ~entry /\ ~armed /\ poll = "poll"
Quiet ==
    /\ pc = "step1" /\ ~readded => ~entry
    /\ pc = "step1" /\ ~readded /\ ctl = "sync" =>
         pipe # <<>> /\ pipe[Len(pipe)] \in {"UPDATED", "COMMIT"}
    /\ pc = "step1" /\ ~readded /\ ctl = "idle" => Silent
    /\ pc \in {"streamoff", "release", "join"} /\ ~readded => Silent
    /\ Live /\ pc = "idle" /\ queued > 0 => entry

Sound == Shape /\ Ownership /\ Counted /\ Clean /\ Quiet

StreamInv == Sound /\ PollRuns

-----------------------------------------------------------------------------
(* Counting. *)

\* The holders of a buffer in a set of uses are the user, the channel, or both.
LEMMA TwoUsers ==
  ASSUME NEW S, NEW b
  PROVE  Count({w \in Users : <<w, b>> \in S})
           = One(<<"user", b>> \in S) + One(<<"channel", b>> \in S)
<1> DEFINE H == {w \in Users : <<w, b>> \in S}
<1>1. CASE <<"user", b>> \in S /\ <<"channel", b>> \in S
  <2>1. H = {"user"} \cup {"channel"}
    BY <1>1 DEF Users
  <2>2. Cardinality({"user"}) = 1 /\ IsFiniteSet({"user"})
    BY FS_Singleton
  <2>3. Cardinality({"user"} \cup {"channel"}) = 2
    <3>1. "channel" \notin {"user"}
      OBVIOUS
    <3> QED
      BY ONLY <2>2, <3>1, FS_AddElement
  <2>4. Cardinality(H) = 2
    BY <2>1, <2>3
  <2> QED
    BY <1>1, <2>4 DEF Count, One
<1>2. CASE <<"user", b>> \in S /\ <<"channel", b>> \notin S
  <2>1. H = {"user"}
    BY <1>2 DEF Users
  <2>2. Cardinality(H) = 1
    BY <2>1, FS_Singleton
  <2> QED
    BY <1>2, <2>2 DEF Count, One
<1>3. CASE <<"user", b>> \notin S /\ <<"channel", b>> \in S
  <2>1. H = {"channel"}
    BY <1>3 DEF Users
  <2>2. Cardinality(H) = 1
    BY <2>1, FS_Singleton
  <2> QED
    BY <1>3, <2>2 DEF Count, One
<1>4. CASE <<"user", b>> \notin S /\ <<"channel", b>> \notin S
  <2>1. H = {}
    BY <1>4 DEF Users
  <2>2. Cardinality(H) = 0
    BY <2>1, FS_EmptySet
  <2> QED
    BY <1>4, <2>2 DEF Count, One
<1> QED
  BY <1>1, <1>2, <1>3, <1>4

\* A buffer that is in the command queue once at most is counted so.
LEMMA OneMark ==
  ASSUME NEW b, Once(b)
  PROVE  Count({i \in DOMAIN cbq : cbq[i] = b}) = One(Waiting(b))
<1>1. CASE Waiting(b)
  <2>1. PICK i \in DOMAIN cbq : cbq[i] = b
    BY <1>1 DEF Waiting
  <2>2. {j \in DOMAIN cbq : cbq[j] = b} = {i}
    BY <2>1 DEF Once
  <2>3. Cardinality({i}) = 1
    BY FS_Singleton
  <2> QED
    BY <1>1, <2>2, <2>3 DEF Count, One
<1>2. CASE ~Waiting(b)
  <2>1. {j \in DOMAIN cbq : cbq[j] = b} = {}
    BY <1>2 DEF Waiting
  <2>2. Cardinality({}) = 0
    BY FS_EmptySet
  <2> QED
    BY <1>2, <2>1, <2>2 DEF Count, One
<1> QED
  BY <1>1, <1>2

\* So the references are as many as the holders.
LEMMA OwnedHolders ==
  ASSUME uses \cap returning = {}, NEW b, Owned(b)
  PROVE  refcnt[b] = Holders(b)
<1> DEFINE u == Count({w \in Users : <<w, b>> \in uses})
           r == Count({w \in Users : <<w, b>> \in returning})
           m == Count({i \in DOMAIN cbq : cbq[i] = b})
<1>1. u = One(<<"user", b>> \in uses) + One(<<"channel", b>> \in uses)
  BY TwoUsers
<1>2. r = One(<<"user", b>> \in returning) + One(<<"channel", b>> \in returning)
  BY TwoUsers
<1>3. m = One(Waiting(b))
  BY OneMark DEF Owned
<1>4. u + r = One(UserHas(b)) + One(ChannelHas(b))
  BY <1>1, <1>2 DEF UserHas, ChannelHas, One
<1>5. Holders(b) = u + r + m + One(cmd = b) + Due(b)
  BY DEF Holders, Due, One
<1>6. u \in Nat /\ r \in Nat /\ m \in Nat /\ One(cmd = b) \in Nat /\ Due(b) \in Nat
  BY <1>1, <1>2, <1>3 DEF One, Due
<1> HIDE DEF u, r, m
<1> QED
  BY <1>3, <1>4, <1>5, <1>6 DEF Owned

-----------------------------------------------------------------------------
(* What the stream does to the poll thread. *)

PollMoves ==
    \/ UNCHANGED pollVars
    \/ \E sync \in BOOLEAN : Poll!AddPollFd(sync) \/ Poll!DelPollFd(sync)
    \/ Poll!CommitUpdates
    \/ Poll!ProcPipe

\* A buffer that is returned has the descriptor added, or not.
LEMMA BufDonePolls ==
  ASSUME NEW b, BufDone(b)
  PROVE  UNCHANGED pollVars \/ Poll!AddPollFd(FALSE)
  BY Zenon DEF BufDone, Qbuf

\* Each step of the stream is a call of the poll thread, or a step of it, or none.
LEMMA StreamPolls ==
  ASSUME [Next]_vars
  PROVE  PollMoves
<1>1. CASE Control
  BY <1>1 DEF Control, Acquire, SetFmt, ReleaseStream, GetBufs, RegBufs, Start, Stop,
              DelSync, PollMoves
<1>2. CASE Continue
  BY <1>2 DEF Continue, Step1Done, StreamOff, ReleaseCmdThread, Stopped, UnregBufs,
              PutBufs, PollMoves
<1>3. CASE PollThreadRuns
  BY <1>3 DEF PollThreadRuns, PollPipe, Notify, ReadFrame, CountRead, DelAsync, Account,
              HandleRcvdBuf, PollMoves
<1>4. CASE CmdThreadRuns
  BY <1>4, BufDonePolls DEF CmdThreadRuns, TakeCmd, CallbackDone, CmdThreadEnds, PollMoves
<1>5. CASE \E b \in Buffers : Fill(b)
  BY <1>5 DEF Fill, PollMoves
<1>6. CASE \E w \in Users, b \in Buffers : UserReturns(w, b) \/ UserBufDone(w, b)
  BY <1>6, BufDonePolls DEF UserReturns, UserBufDone, PollMoves
<1>7. CASE UNCHANGED vars
  BY <1>7 DEF vars, PollMoves
<1> QED
  BY <1>1, <1>2, <1>3, <1>4, <1>5, <1>6, <1>7 DEF Next

\* The thread runs on.
LEMMA PollRunsOn ==
  ASSUME PollRuns, PollMoves
  PROVE  PollRuns'
<1>1. PollInv'
  <2>1. [Poll!Next]_(Poll!pollVars)
    BY DEF PollMoves, Poll!Next, Poll!pollVars, pollVars
  <2> QED
    BY <2>1, NextPoll DEF PollRuns
<1>2. ASSUME Poll!ProcPipe PROVE Head(pipe) # "EXIT" /\ pipe # <<>>
  <2>1. pipe # <<>> /\ pipe \in Seq(Commands)
    BY <1>2 DEF Poll!ProcPipe, PollRuns, PollInv, Poll!TypeOK, Commands
  <2>2. 1 \in DOMAIN pipe /\ Head(pipe) = pipe[1]
    BY <2>1
  <2>3. ~Poll!Pending(Waited) \/ Sole({"UPDATED", "COMMIT"})
    BY DEF PollRuns, PollInv, WaitMatchesPipe
  <2> QED
    BY <2>1, <2>2, <2>3 DEF Poll!Pending, Sole, Waited
<1>3. thread' = "polling" /\ ~released' /\ ctl' \in {"idle", "sync"}
  <2>1. CASE UNCHANGED pollVars
    BY <2>1 DEF pollVars, PollRuns
  <2>2. CASE \E sync \in BOOLEAN : Poll!AddPollFd(sync) \/ Poll!DelPollFd(sync)
    BY <2>2 DEF Poll!AddPollFd, Poll!DelPollFd, Poll!Sig, Poll!SigAsync, PollRuns
  <2>3. CASE Poll!CommitUpdates
    BY <2>3 DEF Poll!CommitUpdates, Poll!Sig, PollRuns
  <2>4. CASE Poll!ProcPipe
    BY <1>2, <2>4 DEF Poll!ProcPipe, Poll!Take, Poll!SigDone, PollRuns
  <2> QED
    BY <2>1, <2>2, <2>3, <2>4 DEF PollMoves
<1> QED
  BY <1>1, <1>3 DEF PollRuns

-----------------------------------------------------------------------------
(* What is left alone stays sound. *)

\* A buffer of which nothing changes is owned as before.
LEMMA OwnedAgain ==
  ASSUME NEW b, Owned(b), refcnt'[b] = refcnt[b],
         UserHas(b)' <=> UserHas(b), ChannelHas(b)' <=> ChannelHas(b),
         Waiting(b)' <=> Waiting(b), Once(b)', (cmd' = b) <=> (cmd = b), Due(b)' = Due(b),
         b \in frame' <=> b \in frame, b \in kernel' <=> b \in kernel,
         pc' \in Filling => pc \in Filling
  PROVE  Owned(b)'
  BY DEF Owned, One

\* So are all of them when the control thread goes on, or the thread that polls.
LEMMA OwnershipStays ==
  ASSUME Ownership, UNCHANGED <<refcnt, kernel, frame, cbq, uses, returning>>,
         \A b \in Buffers : (cmd' = b) <=> (cmd = b),
         UNCHANGED poll \/ (poll # "accounted" /\ poll' # "accounted"),
         Live' => Live, pc' \in Filling => pc \in Filling
  PROVE  Ownership'
<1> SUFFICES ASSUME Live'
             PROVE  uses' \cap returning' = {} /\ \A b \in Buffers : Owned(b)'
  BY DEF Ownership
<1>1. uses' \cap returning' = {}
  BY DEF Ownership
<1>2. ASSUME NEW b \in Buffers PROVE Owned(b)'
  <2>1. Owned(b)
    BY DEF Ownership
  <2>2. (UserHas(b)' <=> UserHas(b)) /\ (ChannelHas(b)' <=> ChannelHas(b))
        /\ (Waiting(b)' <=> Waiting(b)) /\ (Once(b)' <=> Once(b))
    BY DEF UserHas, ChannelHas, Waiting, Once
  <2>3. Due(b)' = Due(b)
    BY DEF Due
  <2>4. Once(b)'
    BY <2>1, <2>2 DEF Owned
  <2> QED
    BY <2>1, <2>2, <2>3, <2>4, OwnedAgain
<1> QED
  BY <1>1, <1>2

\* The count of the queue is left alone, and what it counts.
LEMMA CountedStays ==
  ASSUME Counted, UNCHANGED <<queued, refcnt, frame>>,
         UNCHANGED poll \/ (poll \notin {"read", "counted"} /\ poll' \notin {"read", "counted"}),
         Live' \/ pc' = "unreg" => Live \/ pc = "unreg"
  PROVE  Counted'
<1>1. Unused' = Unused
  BY DEF Unused
<1> QED
  BY <1>1 DEF Counted

\* What the poll thread and the queue are told is left alone as well.
LEMMA QuietStays ==
  ASSUME Quiet, UNCHANGED <<pollVars, queued, readded, poll>>,
         pc' = pc \/ (pc = "step1" /\ ctl = "idle" /\ pc' = "streamoff")
           \/ (pc \in {"streamoff", "release"} /\ pc' \in {"release", "join"})
           \/ pc' \in {"unreg", "put"}
           \/ (pc' = "idle" /\ ~Live'),
         Live' /\ pc' = "idle" => Live /\ pc = "idle"
  PROVE  Quiet'
<1>1. Silent' <=> Silent
  BY DEF Silent, pollVars
<1> QED
  BY <1>1 DEF Quiet, pollVars

-----------------------------------------------------------------------------
(* The control thread. *)

\* A stream that was just initialised.
LEMMA StreamInit ==
  ASSUME Init, StreamAssumption
  PROVE  StreamInv
<1>1. /\ st = "INITED" /\ pc = "idle" /\ ~streaming /\ poll = "poll" /\ ~readded
      /\ refcnt = [b \in Buffers |-> 0] /\ queued = 0 /\ kernel = {} /\ filled = {} /\ frame = {}
      /\ cbq = <<>> /\ cmd = "none" /\ uses = {} /\ returning = {}
  BY DEF Init, InitPolling, InitAdded
<1>2. Shape
  <2>1. refcnt \in [Buffers -> 0..4] /\ cbq \in Seq(Buffers \cup {"EXIT"})
    BY <1>1
  <2>2. readded \in BOOLEAN /\ exiting \in BOOLEAN /\ streaming \in BOOLEAN
    BY Zenon DEF Init, InitPolling, InitAdded
  <2> QED
    BY <1>1, <2>1, <2>2 DEF Shape, Stopping
<1>3. Cardinality(Buffers) \in Nat
  BY FS_CardinalityType DEF StreamAssumption
<1>4. Ownership /\ Counted /\ Clean /\ Quiet
  BY <1>1, <1>3 DEF Ownership, Counted, Clean, Quiet, Live, Unbuffered, Stopping
<1>5. PollRuns
  <2>1. /\ state = "POLL" /\ thread = "polling" /\ ctl = "idle" /\ pipe = <<>> /\ ~released
    BY DEF Init, InitPolling, InitAdded
  <2>2. entry \in BOOLEAN /\ armed \in BOOLEAN /\ released \in BOOLEAN /\ armed = entry
    BY Zenon DEF Init, InitPolling, InitAdded
  <2>3. pipe \in Seq(Commands) /\ DOMAIN pipe = {}
    BY <2>1
  <2>4. Poll!TypeOK
    BY <2>1, <2>2, <2>3 DEF Poll!TypeOK, Commands
  <2>5. WaitMatchesPipe /\ PollsEntries
    BY <2>1, <2>2, <2>3 DEF WaitMatchesPipe, PollsEntries, Poll!Pending
  <2> QED
    BY <2>1, <2>4, <2>5 DEF PollRuns, PollInv
<1> QED
  BY <1>2, <1>4, <1>5 DEF StreamInv, Sound

\* The states without registered buffers.
LEMMA BookkeepingSound ==
  ASSUME Sound, Acquire \/ SetFmt \/ ReleaseStream \/ PutBufs
  PROVE  Sound'
<1>1. /\ UNCHANGED <<pollVars, bufVars, threadVars, userVars, streaming, readded>>
      /\ Unbuffered /\ pc' = "idle" /\ st' \in {"ACQUIRED", "CFG", "NOTUSED"} /\ st # "ACTIVE"
  BY DEF Acquire, SetFmt, ReleaseStream, PutBufs, Idle, Unbuffered, Sound, Shape
<1>2. ~Live'
  BY <1>1 DEF Live
<1>3. Shape'
  BY <1>1 DEF Sound, Shape, bufVars, threadVars, userVars, Stopping
<1>4. Ownership'
  BY <1>2 DEF Ownership
<1>5. Counted'
  BY <1>1, <1>2, CountedStays DEF Sound, bufVars, threadVars
<1>6. Clean'
  BY <1>1 DEF Sound, Clean, Unbuffered, bufVars, threadVars, userVars
<1>7. Quiet'
  BY <1>1, <1>2, QuietStays DEF Sound, bufVars, threadVars
<1> QED
  BY <1>3, <1>4, <1>5, <1>6, <1>7 DEF Sound

\* mm_stream_init_bufs().
LEMMA GetBufsSound ==
  ASSUME Sound, GetBufs
  PROVE  Sound'
<1>1. /\ UNCHANGED <<pollVars, queued, kernel, filled, threadVars, userVars, pc, streaming,
                     readded>>
      /\ pc = "idle" /\ st = "CFG" /\ st' = "BUFFED" /\ ~readded
      /\ refcnt' = [b \in Buffers |-> 0]
  BY DEF GetBufs, Idle
<1>2. ~Live' /\ Unbuffered
  BY <1>1 DEF Live, Unbuffered
<1>3. Shape'
  BY <1>1 DEF Sound, Shape, threadVars, userVars, Stopping
<1>4. Ownership'
  BY <1>2 DEF Ownership
<1>5. Counted'
  <2>1. poll = "poll"
    BY <1>1 DEF Sound, Clean
  <2> QED
    BY <1>1, <1>2, <2>1 DEF Sound, Counted, threadVars
<1>6. Clean'
  BY <1>1, <1>2 DEF Sound, Clean, Unbuffered, threadVars, userVars
<1>7. Quiet'
  BY <1>1, <1>2, QuietStays DEF Sound, threadVars
<1> QED
  BY <1>3, <1>4, <1>5, <1>6, <1>7 DEF Sound

\* mm_stream_reg_buf(): the buffers are the kernel's, but those the user has.
LEMMA RegBufsSound ==
  ASSUME StreamAssumption, Sound, RegBufs
  PROVE  Sound'
<1>1. /\ UNCHANGED <<filled, threadVars, returning, pc, streaming, readded>>
      /\ pc = "idle" /\ st = "BUFFED" /\ st' = "REG"
      /\ refcnt' = [b \in Buffers |-> IF b \in InitiallyHeld THEN 1 ELSE 0]
      /\ kernel' = Buffers \ InitiallyHeld /\ queued' = Cardinality(kernel')
      /\ uses' = {"user"} \X InitiallyHeld
  BY DEF RegBufs, Idle
<1>2. /\ ~readded /\ cbq = <<>> /\ poll = "poll" /\ returning = {} /\ kernel = {}
      /\ cmd = "none" /\ frame = {} /\ filled = {}
  BY <1>1 DEF Sound, Clean, Shape, Unbuffered
<1>3. IsFiniteSet(Buffers) /\ InitiallyHeld \subseteq Buffers
      /\ \A b \in Buffers : b # "none"
  BY DEF StreamAssumption
<1>4. Shape'
  BY <1>1, <1>2, <1>3 DEF Sound, Shape, threadVars, Stopping, Users
<1>5. Ownership'
  <2>1. ASSUME NEW b \in Buffers PROVE Owned(b)'
    <3>1. /\ UserHas(b)' <=> b \in InitiallyHeld
          /\ ~ChannelHas(b)'
      BY <1>1, <1>2 DEF UserHas, ChannelHas
    <3>2. ~Waiting(b)' /\ Once(b)'
      BY <1>1, <1>2 DEF Waiting, Once, threadVars
    <3>3. Due(b)' = 0 /\ b \notin frame' /\ cmd' # b
      BY <1>1, <1>2, <1>3 DEF Due, threadVars
    <3>4. /\ refcnt'[b] = (IF b \in InitiallyHeld THEN 1 ELSE 0)
          /\ b \in kernel' <=> b \notin InitiallyHeld
      BY <1>1
    <3> QED
      BY <3>1, <3>2, <3>3, <3>4 DEF Owned, One
  <2>2. uses' \cap returning' = {}
    BY <1>1, <1>2
  <2> QED
    BY <2>1, <2>2 DEF Ownership
<1>6. Counted'
  <2>1. Unused' = kernel'
    BY <1>1, <1>2 DEF Unused, threadVars
  <2>2. queued' = Cardinality(Unused') /\ queued' \in 0..Cardinality(Buffers)
    <3>1. /\ Cardinality(kernel') \in Nat /\ Cardinality(Buffers) \in Nat
          /\ Cardinality(kernel') <= Cardinality(Buffers)
      BY <1>1, <1>3, FS_Subset, FS_CardinalityType
    <3> QED
      BY <1>1, <2>1, <3>1
  <2> QED
    BY <1>1, <1>2, <2>2 DEF Counted, threadVars
<1>7. Clean'
  BY <1>1, <1>2 DEF Clean, Unbuffered, threadVars
<1>8. Quiet'
  <2>1. queued' > 0 => entry'
    <3>1. CASE kernel' = {}
      BY <1>1, <3>1, FS_EmptySet
    <3>2. CASE kernel' # {}
      BY <3>2 DEF RegBufs, Poll!AddPollFd
    <3> QED
      BY <3>1, <3>2
  <2> QED
    BY <1>1, <2>1 DEF Quiet
<1> QED
  BY <1>4, <1>5, <1>6, <1>7, <1>8 DEF Sound

\* mm_stream_streamon(), which may fail.
LEMMA StartSound ==
  ASSUME StreamAssumption, Sound, Start
  PROVE  Sound'
<1>1. /\ UNCHANGED <<pollVars, bufVars, poll, frame, cbq, exiting, userVars, readded>>
      /\ pc = "idle" /\ st = "REG" /\ st' = "ACTIVE" /\ cmd' \in {"wait", "none"}
      /\ streaming' \in BOOLEAN /\ pc' \in {"idle", "on_failed"} /\ (streaming' => pc' = "idle")
  BY DEF Start, Idle
<1>2. Live /\ cmd = "none" /\ ~streaming
  BY <1>1 DEF Live, Sound, Shape
<1>3. Shape'
  BY <1>1, <1>2 DEF Sound, Shape, bufVars, userVars, Stopping
<1>4. Ownership'
  <2>1. \A b \in Buffers : (cmd' = b) <=> (cmd = b)
    BY <1>1, <1>2 DEF StreamAssumption
  <2> QED
    BY <1>1, <1>2, <2>1, OwnershipStays DEF Sound, bufVars, userVars, Filling
<1>5. Counted'
  BY <1>1, <1>2, CountedStays DEF Sound, bufVars
<1>6. Clean'
  BY <1>1 DEF Sound, Clean, Unbuffered
<1>7. Quiet'
  BY <1>1, <1>2 DEF Sound, Quiet, pollVars, bufVars
<1> QED
  BY <1>3, <1>4, <1>5, <1>6, <1>7 DEF Sound

-----------------------------------------------------------------------------
(* The command queue. *)

\* A buffer that is put into the queue waits; the others wait as before.
LEMMA QueueAppend ==
  ASSUME cbq \in Seq(Buffers \cup {"EXIT"}), NEW x \in Buffers \cup {"EXIT"},
         cbq' = Append(cbq, x), NEW b
  PROVE  /\ cbq' \in Seq(Buffers \cup {"EXIT"})
         /\ Waiting(b)' <=> Waiting(b) \/ x = b
         /\ Once(b) /\ (x = b => ~Waiting(b)) => Once(b)'
<1> DEFINE n == Len(cbq)
<1>1. /\ n \in Nat /\ DOMAIN cbq = 1..n /\ DOMAIN cbq' = 1..(n + 1)
      /\ \A i \in 1..n : cbq'[i] = cbq[i]
      /\ cbq'[n + 1] = x /\ cbq' \in Seq(Buffers \cup {"EXIT"})
  OBVIOUS
<1>2. 1..(n + 1) = 1..n \cup {n + 1} /\ n + 1 \notin 1..n
  BY <1>1
<1> HIDE DEF n
<1>3. Waiting(b)' <=> Waiting(b) \/ x = b
  BY <1>1, <1>2 DEF Waiting
<1>4. ASSUME Once(b), x = b => ~Waiting(b) PROVE Once(b)'
  <2> SUFFICES ASSUME NEW i \in DOMAIN cbq', NEW j \in DOMAIN cbq', cbq'[i] = b, cbq'[j] = b
               PROVE  i = j
    BY DEF Once
  <2>1. CASE i \in 1..n /\ j \in 1..n
    BY <1>1, <1>4, <2>1 DEF Once
  <2>2. CASE i = n + 1 \/ j = n + 1
    BY <1>1, <1>2, <1>4, <2>2 DEF Waiting
  <2> QED
    BY <1>1, <1>2, <2>1, <2>2
<1> QED
  BY <1>1, <1>3, <1>4

\* The first of the queue does not wait any longer.
LEMMA QueueTail ==
  ASSUME cbq \in Seq(Buffers \cup {"EXIT"}), cbq # <<>>, cbq' = Tail(cbq), NEW b
  PROVE  /\ cbq' \in Seq(Buffers \cup {"EXIT"})
         /\ Head(cbq) \in Buffers \cup {"EXIT"} /\ Waiting(Head(cbq))
         /\ Once(b) => Once(b)' /\ (Waiting(b)' <=> Waiting(b) /\ Head(cbq) # b)
<1> DEFINE n == Len(cbq)
<1>1. /\ n \in Nat \ {0} /\ DOMAIN cbq = 1..n /\ DOMAIN cbq' = 1..(n - 1)
      /\ \A i \in 1..(n - 1) : cbq'[i] = cbq[i + 1]
      /\ Head(cbq) = cbq[1] /\ cbq' \in Seq(Buffers \cup {"EXIT"})
      /\ Head(cbq) \in Buffers \cup {"EXIT"}
  OBVIOUS
<1> HIDE DEF n
<1>2. 1 \in 1..n /\ \A i \in 1..(n - 1) : i + 1 \in 1..n /\ i + 1 # 1 /\ i \in Nat
  BY <1>1
<1>3. \A i \in 1..n : i # 1 => i - 1 \in 1..(n - 1) /\ (i - 1) + 1 = i
  BY <1>1
<1>4. ASSUME Once(b) PROVE Once(b)'
  BY <1>1, <1>2, <1>4 DEF Once
<1>5. ASSUME Once(b) PROVE Waiting(b)' <=> Waiting(b) /\ Head(cbq) # b
  <2>1. ASSUME Waiting(b)' PROVE Waiting(b) /\ Head(cbq) # b
    BY <1>1, <1>2, <1>5, <2>1 DEF Waiting, Once
  <2>2. ASSUME Waiting(b), Head(cbq) # b PROVE Waiting(b)'
    <3>1. PICK i \in 1..n : cbq[i] = b
      BY <1>1, <2>2 DEF Waiting
    <3>2. i # 1 /\ i - 1 \in 1..(n - 1) /\ cbq'[i - 1] = b
      BY <1>1, <1>3, <2>2, <3>1
    <3> QED
      BY <1>1, <3>2 DEF Waiting
  <2> QED
    BY <2>1, <2>2
<1>6. Waiting(Head(cbq))
  BY <1>1, <1>2 DEF Waiting
<1> QED
  BY <1>1, <1>4, <1>5, <1>6

-----------------------------------------------------------------------------
(* A stop, step by step. *)

\* The descriptor is deleted, with a command that the thread has to take.
LEMMA StopSound ==
  ASSUME Sound, PollRuns, Stop
  PROVE  Sound'
<1>1. /\ UNCHANGED <<bufVars, threadVars, userVars, st, streaming, readded>>
      /\ st = "ACTIVE" /\ pc \in {"idle", "on_failed"} /\ pc' = "step1"
  BY DEF Stop, Idle, Sound, Shape
<1>2. Live
  BY <1>1 DEF Live
<1>3. Shape'
  BY <1>1 DEF Sound, Shape, bufVars, threadVars, userVars, Stopping
<1>4. Ownership' /\ Counted'
  BY <1>1, <1>2, OwnershipStays, CountedStays DEF Sound, bufVars, threadVars, userVars, Filling
<1>5. Clean'
  BY <1>1 DEF Sound, Clean, Unbuffered
<1>6. ~entry' /\ \E c \in {"UPDATED", "COMMIT"} : Poll!Sig(c, "sync")
  BY DEF Stop, DelSync, Poll!DelPollFd, Poll!CommitUpdates
<1>7. PICK c \in {"UPDATED", "COMMIT"} : Poll!Sig(c, "sync")
  BY <1>6
<1>8. pipe' = Append(pipe, c) /\ ctl' = "sync" /\ pipe \in Seq(Commands) /\ c \in Commands
  BY <1>7 DEF Poll!Sig, PollRuns, PollInv, Poll!TypeOK, Commands
<1>9. pipe' # <<>> /\ pipe'[Len(pipe')] = c
  BY ONLY <1>8
<1>10. Quiet'
  BY <1>1, <1>6, <1>8, <1>9 DEF Quiet
<1> QED
  BY <1>3, <1>4, <1>5, <1>10 DEF Sound

\* The control thread has its answer.
LEMMA Step1DoneSound ==
  ASSUME Sound, Step1Done
  PROVE  Sound'
<1>1. /\ UNCHANGED <<pollVars, bufVars, threadVars, userVars, st, streaming, readded>>
      /\ pc = "step1" /\ ctl = "idle" /\ pc' = "streamoff" /\ st = "ACTIVE"
  BY DEF Step1Done, Sound, Shape, Stopping
<1>2. Live
  BY <1>1 DEF Live
<1>3. Shape'
  BY <1>1 DEF Sound, Shape, bufVars, threadVars, userVars, Stopping
<1>4. Ownership' /\ Counted'
  BY <1>1, <1>2, OwnershipStays, CountedStays DEF Sound, bufVars, threadVars, userVars, Filling
<1>5. Clean'
  BY <1>1 DEF Sound, Clean, Unbuffered
<1>6. Quiet'
  BY <1>1, QuietStays DEF Sound, bufVars, threadVars
<1> QED
  BY <1>3, <1>4, <1>5, <1>6 DEF Sound

\* STREAMOFF.
LEMMA StreamOffSound ==
  ASSUME Sound, StreamOff
  PROVE  Sound'
<1>1. /\ UNCHANGED <<pollVars, queued, refcnt, threadVars, userVars, st, readded>>
      /\ pc = "streamoff" /\ pc' = "release" /\ st = "ACTIVE"
      /\ streaming' = FALSE /\ kernel' = {} /\ filled' = {}
  BY DEF StreamOff, Sound, Shape, Stopping
<1>2. Live
  BY <1>1 DEF Live
<1>3. Shape'
  BY <1>1 DEF Sound, Shape, threadVars, userVars, Stopping
<1>4. Ownership'
  <2>1. ASSUME NEW b \in Buffers PROVE Owned(b)'
    <3>1. Owned(b)
      BY <1>2 DEF Sound, Ownership
    <3>2. /\ UserHas(b)' <=> UserHas(b)
          /\ ChannelHas(b)' <=> ChannelHas(b)
          /\ Waiting(b)' <=> Waiting(b)
          /\ Once(b)' <=> Once(b)
          /\ Due(b)' = Due(b)
      BY <1>1 DEF UserHas, ChannelHas, Waiting, Once, Due, threadVars, userVars
    <3>3. /\ pc' \notin Filling /\ b \notin kernel'
          /\ cmd' = cmd /\ frame' = frame /\ refcnt' = refcnt
      BY <1>1 DEF Filling, threadVars
    <3> QED
      BY <3>1, <3>2, <3>3 DEF Owned, One
  <2>2. uses' \cap returning' = {}
    BY <1>1, <1>2 DEF Sound, Ownership, userVars
  <2> QED
    BY <2>1, <2>2 DEF Ownership
<1>5. Counted'
  BY <1>1, <1>2, CountedStays DEF Sound, threadVars
<1>6. Clean'
  BY <1>1 DEF Sound, Clean, Unbuffered
<1>7. Quiet'
  BY <1>1, QuietStays DEF Sound, threadVars
<1> QED
  BY <1>3, <1>4, <1>5, <1>6, <1>7 DEF Sound

\* The command thread is told to end.
LEMMA ReleaseCmdThreadSound ==
  ASSUME StreamAssumption, Sound, ReleaseCmdThread
  PROVE  Sound'
<1>1. /\ UNCHANGED <<pollVars, bufVars, poll, frame, cmd, exiting, userVars, st, streaming,
                     readded>>
      /\ pc = "release" /\ pc' = "join" /\ st = "ACTIVE"
      /\ cbq' = Append(cbq, "EXIT") \/ cbq' = cbq
  BY DEF ReleaseCmdThread, Sound, Shape, Stopping
<1>2. Live /\ cbq \in Seq(Buffers \cup {"EXIT"})
  BY <1>1 DEF Live, Sound, Shape
<1>3. cbq' \in Seq(Buffers \cup {"EXIT"})
  BY <1>1, <1>2, QueueAppend
<1>4. Shape'
  BY <1>1, <1>3 DEF Sound, Shape, bufVars, userVars, Stopping
<1>5. Ownership'
  <2>1. ASSUME NEW b \in Buffers PROVE Owned(b)'
    <3>1. Owned(b) /\ b # "EXIT"
      BY <1>2 DEF Sound, Ownership, StreamAssumption
    <3>2. (Waiting(b)' <=> Waiting(b)) /\ Once(b)'
      <4>1. CASE cbq' = cbq
        BY <3>1, <4>1 DEF Waiting, Once, Owned
      <4>2. CASE cbq' = Append(cbq, "EXIT")
        BY <1>2, <3>1, <4>2, QueueAppend DEF Owned
      <4> QED
        BY <1>1, <4>1, <4>2
    <3>3. /\ UserHas(b)' <=> UserHas(b)
          /\ ChannelHas(b)' <=> ChannelHas(b)
          /\ Due(b)' = Due(b)
      BY <1>1 DEF UserHas, ChannelHas, Due, userVars
    <3>4. /\ refcnt' = refcnt /\ cmd' = cmd /\ frame' = frame /\ kernel' = kernel
          /\ pc' \notin Filling
      BY <1>1 DEF bufVars, Filling
    <3> QED
      BY <3>1, <3>2, <3>3, <3>4, OwnedAgain
  <2>2. uses' \cap returning' = {}
    BY <1>1, <1>2 DEF Sound, Ownership, userVars
  <2> QED
    BY <2>1, <2>2 DEF Ownership
<1>6. Counted'
  BY <1>1, <1>2, CountedStays DEF Sound, bufVars
<1>7. Clean'
  BY <1>1 DEF Sound, Clean, Unbuffered
<1>8. Quiet'
  BY <1>1, QuietStays DEF Sound, bufVars
<1> QED
  BY <1>4, <1>5, <1>6, <1>7, <1>8 DEF Sound

\* It ended.
LEMMA StoppedSound ==
  ASSUME Sound, Stopped
  PROVE  Sound'
<1>1. /\ UNCHANGED <<pollVars, bufVars, poll, frame, cmd, exiting, userVars, streaming, readded>>
      /\ pc = "join" /\ pc' = "unreg" /\ st = "ACTIVE" /\ st' = "REG"
      /\ cbq' = <<>> /\ cmd = "none"
  BY DEF Stopped, Sound, Shape, Stopping
<1>2. Live /\ ~Live' /\ ~Unbuffered'
  BY <1>1 DEF Live, Unbuffered
<1>3. ~streaming
  BY <1>1 DEF Sound, Shape
<1>4. Shape'
  BY <1>1, <1>3 DEF Sound, Shape, bufVars, userVars, Stopping
<1>5. Ownership' /\ Counted'
  BY <1>1, <1>2, CountedStays DEF Sound, Ownership, bufVars
<1>6. ~readded => poll = "poll"
  BY <1>1 DEF Sound, Quiet, Silent
<1>7. Clean'
  BY <1>1, <1>2, <1>6 DEF Clean
<1>8. Quiet'
  BY <1>1, QuietStays DEF Sound, bufVars
<1> QED
  BY <1>4, <1>5, <1>7, <1>8 DEF Sound

\* mm_stream_unreg_buf(), when nobody is about to return a buffer.
LEMMA UnregBufsSound ==
  ASSUME Sound, UnregBufs
  PROVE  Sound'
<1>1. /\ UNCHANGED <<pollVars, queued, threadVars, returning, streaming, readded>>
      /\ pc = "unreg" /\ returning = {} /\ pc' = "put" /\ st = "REG" /\ st' = "BUFFED"
      /\ kernel' = {} /\ filled' = {} /\ refcnt' = [b \in Buffers |-> 0] /\ uses' = {}
  BY DEF UnregBufs, Sound, Shape
<1>2. ~Live'
  BY <1>1 DEF Live
<1>3. Shape'
  BY <1>1 DEF Sound, Shape, threadVars, Stopping
<1>4. Ownership'
  BY <1>2 DEF Ownership
<1>5. Counted'
  <2>1. poll \in {"read", "counted"} => \A b \in frame : b \in Buffers
    BY DEF Sound, Shape
  <2> QED
    BY <1>1, <1>2, <2>1 DEF Sound, Counted, threadVars
<1>6. Clean'
  BY <1>1 DEF Sound, Clean, Unbuffered, threadVars
<1>7. Quiet'
  BY <1>1, QuietStays DEF Sound, threadVars
<1> QED
  BY <1>3, <1>4, <1>5, <1>6, <1>7 DEF Sound

-----------------------------------------------------------------------------
(* The kernel and the poll thread. *)

\* The kernel fills a buffer that it has.
LEMMA FillSound ==
  ASSUME Sound, NEW x \in Buffers, Fill(x)
  PROVE  Sound'
<1>1. /\ UNCHANGED <<pollVars, queued, refcnt, kernel, threadVars, userVars, ctlVars, readded>>
      /\ streaming /\ x \in kernel /\ filled' = filled \cup {x}
  BY DEF Fill
<1>2. Shape'
  BY <1>1 DEF Sound, Shape, threadVars, userVars, ctlVars
<1>3. Ownership' /\ Counted'
  BY <1>1, OwnershipStays, CountedStays DEF Sound, threadVars, userVars, ctlVars, Live
<1>4. Clean' /\ Quiet'
  BY <1>1, QuietStays DEF Sound, Clean, Unbuffered, Live, threadVars, userVars, ctlVars
<1> QED
  BY <1>2, <1>3, <1>4 DEF Sound

\* The thread takes a command.  The one a stop waits for is the last of the pipe
\* and the first that is waited for: when it is taken the pipe is empty.
LEMMA PollPipeSound ==
  ASSUME Sound, PollRuns, PollPipe
  PROVE  Sound'
<1>1. /\ UNCHANGED <<bufVars, threadVars, userVars, ctlVars, readded>>
      /\ poll = "poll" /\ UNCHANGED <<entry, released>> /\ thread = "polling"
      /\ pipe # <<>> /\ pipe' = Tail(pipe) /\ Poll!Take(Head(pipe))
  BY DEF PollPipe, Poll!ProcPipe
<1>2. Shape'
  BY <1>1 DEF Sound, Shape, bufVars, threadVars, userVars, ctlVars
<1>3. Ownership' /\ Counted'
  BY <1>1, OwnershipStays, CountedStays DEF Sound, bufVars, threadVars, userVars, ctlVars, Live
<1>4. Clean'
  BY <1>1 DEF Sound, Clean, Unbuffered, bufVars, threadVars, userVars, ctlVars
<1>5. Quiet'
  <2>1. CASE pc = "step1" /\ ~readded /\ ctl = "sync"
    <3>1. ~entry /\ pipe[Len(pipe)] \in {"UPDATED", "COMMIT"}
      BY <2>1 DEF Sound, Quiet
    <3>2. pipe \in Seq(Commands) /\ Sole({"UPDATED", "COMMIT"}) /\ PollRuns' /\ PollMoves
      BY <2>1, PollRunsOn DEF PollRuns, PollInv, Poll!TypeOK, WaitMatchesPipe, Commands,
                              PollPipe, PollMoves
    <3>3. Len(pipe) \in Nat \ {0} /\ DOMAIN pipe = 1..Len(pipe) /\ Head(pipe) = pipe[1]
          /\ Head(pipe) \in Commands
      BY ONLY <1>1, <3>2
    <3>4. CASE Len(pipe) = 1
      <4>1. pipe' = <<>>
        BY ONLY <1>1, <3>2, <3>4
      <4>2. Head(pipe) \in {"UPDATED", "COMMIT"}
        BY <3>1, <3>3, <3>4
      <4>3. ctl' = "idle"
        BY <1>1, <2>1, <4>2 DEF Poll!Take, Poll!SigDone
      <4>4. ~Poll!Pending(Updates)'
        BY <4>1 DEF Poll!Pending
      <4>5. armed' = entry'
        BY <3>2, <4>4 DEF PollRuns, PollInv, PollsEntries
      <4>6. Silent'
        BY <1>1, <3>1, <4>1, <4>5 DEF Silent, threadVars
      <4> QED
        BY <1>1, <2>1, <3>1, <4>3, <4>6 DEF Quiet, ctlVars, bufVars
    <3>5. CASE Len(pipe) # 1
      <4>1. Len(pipe) \in DOMAIN pipe /\ 1 \in DOMAIN pipe
        BY <3>3
      <4>2. Head(pipe) = "UPDATED_ASYNC"
        <5>1. pipe[1] \notin Waited
          BY <3>1, <3>2, <3>5, <4>1 DEF Sole, Waited
        <5> QED
          BY <3>3, <5>1 DEF Commands, Waited
      <4>3. ctl' = ctl
        BY <1>1, <4>2 DEF Poll!Take
      <4>4. pipe' # <<>> /\ pipe'[Len(pipe')] = pipe[Len(pipe)]
        <5>1. Len(pipe') = Len(pipe) - 1 /\ \A i \in 1..(Len(pipe) - 1) : pipe'[i] = pipe[i + 1]
          BY ONLY <1>1, <3>2
        <5>2. Len(pipe) - 1 \in 1..(Len(pipe) - 1) /\ (Len(pipe) - 1) + 1 = Len(pipe)
          BY ONLY <3>3, <3>5
        <5>3. pipe' # <<>>
          BY ONLY <5>1, <5>2
        <5> QED
          BY <5>1, <5>2, <5>3
      <4> QED
        BY <1>1, <2>1, <3>1, <4>3, <4>4 DEF Quiet, ctlVars, bufVars
    <3> QED
      BY <3>4, <3>5
  <2>2. CASE ~(pc = "step1" /\ ~readded /\ ctl = "sync")
    <3>1. ~Silent /\ ctl \in {"idle", "sync"}
      BY <1>1 DEF Silent, PollRuns
    <3>2. ~(pc \in {"step1", "streamoff", "release", "join"} /\ ~readded)
      BY <2>2, <3>1 DEF Sound, Quiet
    <3> QED
      BY <1>1, <3>2 DEF Sound, Quiet, ctlVars, bufVars, Live
  <2> QED
    BY <2>1, <2>2
<1> QED
  BY <1>2, <1>3, <1>4, <1>5 DEF Sound

\* The callback of the entry, which is there.
LEMMA NotifySound ==
  ASSUME Sound, Notify
  PROVE  Sound'
<1>1. /\ UNCHANGED <<pollVars, bufVars, frame, cbq, cmd, exiting, userVars, ctlVars, readded>>
      /\ poll = "poll" /\ pipe = <<>> /\ entry /\ st = "ACTIVE" /\ poll' = "notify"
  BY DEF Notify
<1>2. Shape'
  BY <1>1 DEF Sound, Shape, bufVars, userVars, ctlVars
<1>3. Ownership' /\ Counted'
  BY <1>1, OwnershipStays, CountedStays DEF Sound, bufVars, userVars, ctlVars, Live
<1>4. Clean'
  BY <1>1 DEF Sound, Clean, Unbuffered, bufVars, userVars, ctlVars
<1>5. Quiet'
  BY <1>1 DEF Sound, Quiet, Silent, pollVars, bufVars, ctlVars, Live
<1> QED
  BY <1>2, <1>3, <1>4, <1>5 DEF Sound

\* The thread is in a callback.
LEMMA NotQuiet ==
  ASSUME Sound, poll # "poll"
  PROVE  /\ pc \in {"streamoff", "release", "join"} => readded
         /\ pc = "step1" /\ ctl = "idle" => readded
         /\ st # "ACTIVE" => readded
  BY DEF Sound, Quiet, Silent, Clean

\* DQBUF: the kernel gives up a buffer that it filled.
LEMMA ReadFrameSound ==
  ASSUME StreamAssumption, Sound, ReadFrame
  PROVE  Sound'
<1>1. /\ UNCHANGED <<pollVars, queued, refcnt, cbq, cmd, exiting, userVars, ctlVars, readded>>
      /\ poll = "notify"
  BY DEF ReadFrame
<1>2. Quiet' /\ Clean'
  <2>1. poll' # "notify" /\ kernel' \subseteq kernel /\ (st # "ACTIVE" => poll' = "poll")
    BY DEF ReadFrame, Sound, Shape
  <2>2. Quiet'
    BY <1>1, <2>1, NotQuiet DEF Sound, Quiet, Live, Silent, pollVars, ctlVars
  <2>3. Clean'
    BY <1>1, <2>1, NotQuiet DEF Sound, Clean, Unbuffered, userVars, ctlVars
  <2> QED
    BY <2>2, <2>3
<1>3. CASE filled = {} /\ poll' = "poll" /\ UNCHANGED <<filled, kernel, frame>>
  <2>1. Shape'
    BY <1>1, <1>3 DEF Sound, Shape, userVars, ctlVars
  <2>2. Ownership' /\ Counted'
    BY <1>1, <1>3, OwnershipStays, CountedStays DEF Sound, userVars, ctlVars, Live
  <2> QED
    BY <1>2, <2>1, <2>2 DEF Sound
<1>4. ASSUME NEW x \in filled, filled' = filled \ {x}, kernel' = kernel \ {x},
             frame' = {x}, poll' = "read"
      PROVE  Sound'
  <2>1. x \in Buffers /\ x \in kernel /\ Live /\ frame = {}
    BY <1>1, <1>4 DEF Sound, Shape, Live
  <2>2. Shape'
    BY <1>1, <1>4, <2>1 DEF Sound, Shape, userVars, ctlVars
  <2>3. Owned(x) /\ refcnt[x] = 0
    BY <2>1 DEF Sound, Ownership, Owned
  <2>4. Ownership'
    <3>1. ASSUME NEW b \in Buffers PROVE Owned(b)'
      <4>1. Owned(b)
        BY <2>1 DEF Sound, Ownership
      <4>2. /\ UserHas(b)' <=> UserHas(b)
            /\ ChannelHas(b)' <=> ChannelHas(b)
            /\ Waiting(b)' <=> Waiting(b)
            /\ Once(b)' <=> Once(b)
            /\ Due(b)' = 0 /\ Due(b) = 0
        BY <1>1, <1>4 DEF UserHas, ChannelHas, Waiting, Once, Due, userVars
      <4>3. /\ pc' = pc /\ cmd' = cmd /\ refcnt' = refcnt /\ (b \in frame' <=> b = x)
            /\ (b \in kernel' <=> b \in kernel /\ b # x)
        BY <1>1, <1>4 DEF ctlVars
      <4>4. CASE b # x
        BY <2>1, <4>1, <4>2, <4>3, <4>4 DEF Owned, One
      <4>5. CASE b = x
        <5>1. ~UserHas(b) /\ ~ChannelHas(b) /\ ~Waiting(b) /\ cmd # b
          BY <2>3, <4>2, <4>5 DEF Owned, One
        <5> QED
          BY <2>3, <4>1, <4>2, <4>3, <4>5, <5>1 DEF Owned, One
      <4> QED
        BY <4>4, <4>5
    <3>2. uses' \cap returning' = {}
      BY <1>1, <2>1 DEF Sound, Ownership, userVars
    <3> QED
      BY <3>1, <3>2 DEF Ownership
  <2>5. Counted'
    <3>1. Unused' = Unused
      BY <1>1, <1>4 DEF Unused
    <3>2. queued >= 1
      <4>1. x \in Unused /\ queued = Cardinality(Unused)
        BY <1>1, <2>1, <2>3 DEF Unused, Sound, Counted
      <4>2. IsFiniteSet(Unused)
        BY FS_Subset DEF Unused, StreamAssumption
      <4> QED
        BY <4>1, <4>2, FS_EmptySet, FS_CardinalityType
    <3> QED
      BY <1>1, <1>4, <2>3, <3>1, <3>2 DEF Sound, Counted, ctlVars, Live
  <2> QED
    BY <1>2, <2>2, <2>4, <2>5 DEF Sound
<1> QED
  BY <1>1, <1>3, <1>4 DEF ReadFrame


\* The frame is counted: the queue of the kernel has one buffer less.
LEMMA CountReadSound ==
  ASSUME StreamAssumption, Sound, CountRead
  PROVE  Sound'
<1>1. /\ UNCHANGED <<refcnt, kernel, filled, frame, cbq, cmd, exiting, userVars, ctlVars,
                     readded>>
      /\ poll = "read" /\ poll' = "counted" /\ queued' = queued - 1
      /\ queued = 1 \/ UNCHANGED pollVars
  BY DEF CountRead
<1>2. PICK x \in Buffers : frame = {x}
  BY <1>1 DEF Sound, Shape
<1>3. Shape'
  BY <1>1 DEF Sound, Shape, userVars, ctlVars
<1>4. Ownership'
  BY <1>1, OwnershipStays DEF Sound, userVars, ctlVars, Live
<1>5. /\ queued \in Nat /\ queued >= 1 /\ queued <= Cardinality(Buffers)
      /\ Cardinality(Buffers) \in Nat /\ refcnt[x] = 0
  BY <1>1, <1>2, FS_CardinalityType DEF Sound, Counted, StreamAssumption
<1>6. Counted'
  <2>1. x \in Unused /\ Unused' = Unused \ {x}
    BY <1>1, <1>2, <1>5 DEF Unused
  <2>2. IsFiniteSet(Unused)
    BY FS_Subset DEF Unused, StreamAssumption
  <2>3. Cardinality(Unused') = Cardinality(Unused) - 1
    BY <2>1, <2>2, FS_RemoveElement
  <2>4. queued' \in 0..Cardinality(Buffers)
    BY ONLY <1>1, <1>5
  <2>5. Live' \/ pc' = "unreg" => queued' = Cardinality(Unused')
    BY <1>1, <2>3 DEF Sound, Counted, ctlVars, Live
  <2> QED
    BY <1>1, <2>4, <2>5 DEF Sound, Counted
<1>7. Clean'
  BY <1>1, NotQuiet DEF Sound, Clean, Unbuffered, userVars, ctlVars
<1>8. Quiet'
  <2>1. ~(pc \in {"streamoff", "release", "join"} /\ ~readded)
        /\ ~(pc = "step1" /\ ctl = "idle" /\ ~readded)
    BY <1>1, NotQuiet
  <2>2. CASE UNCHANGED pollVars
    BY <1>1, <1>5, <2>1, <2>2 DEF Sound, Quiet, Live, ctlVars, pollVars
  <2>3. CASE queued = 1 /\ ~UNCHANGED pollVars
    <3>1. entry
      BY <1>1, <2>3 DEF CountRead, DelAsync
    <3>2. ~(pc = "step1" /\ ~readded)
      BY <3>1 DEF Sound, Quiet
    <3> QED
      BY <1>1, <2>1, <2>3, <3>2 DEF Quiet, ctlVars
  <2> QED
    BY <1>1, <2>2, <2>3
<1> QED
  BY <1>3, <1>4, <1>6, <1>7, <1>8 DEF Sound

\* The references of the frame.
LEMMA AccountSound ==
  ASSUME StreamAssumption, Sound, Account
  PROVE  Sound'
<1> DEFINE n == (IF Bundled THEN 1 ELSE 0) + (IF HasCb THEN 1 ELSE 0)
<1>1. /\ UNCHANGED <<pollVars, queued, kernel, filled, frame, cbq, cmd, exiting, userVars,
                     ctlVars, readded>>
      /\ poll = "counted" /\ poll' = "accounted"
      /\ refcnt' = [b \in Buffers |-> IF b \in frame THEN refcnt[b] + n ELSE refcnt[b]]
  <2>1. \A b \in Buffers : refcnt[b] \in 0..4
    BY DEF Sound, Shape
  <2> QED
    BY <2>1 DEF Account
<1>2. PICK x \in Buffers : frame = {x}
  BY <1>1 DEF Sound, Shape
<1>3. n \in {1, 2} /\ n = One(Bundled) + One(HasCb)
  BY DEF StreamAssumption, One
<1>4. refcnt[x] = 0 /\ refcnt'[x] = n /\ \A b \in Buffers : b # x => refcnt'[b] = refcnt[b]
  BY <1>1, <1>2, <1>3 DEF Sound, Counted
<1> HIDE DEF n
<1>5. Shape'
  <2>1. refcnt' \in [Buffers -> 0..4]
    <3>1. \A b \in Buffers : refcnt'[b] \in 0..4
      BY <1>2, <1>3, <1>4 DEF Sound, Shape
    <3> QED
      BY <1>1, <3>1
  <2> QED
    BY <1>1, <2>1 DEF Sound, Shape, userVars, ctlVars
<1>6. Ownership'
  <2> SUFFICES ASSUME Live' PROVE uses' \cap returning' = {} /\ \A b \in Buffers : Owned(b)'
    BY DEF Ownership
  <2>1. Live
    BY <1>1 DEF Live, ctlVars
  <2>2. ASSUME NEW b \in Buffers PROVE Owned(b)'
    <3>1. Owned(b)
      BY <2>1 DEF Sound, Ownership
    <3>2. /\ UserHas(b)' <=> UserHas(b)
          /\ ChannelHas(b)' <=> ChannelHas(b)
          /\ Waiting(b)' <=> Waiting(b)
          /\ Once(b)' <=> Once(b)
          /\ Due(b) = 0
      BY <1>1 DEF UserHas, ChannelHas, Waiting, Once, Due, userVars
    <3>3. /\ pc' = pc /\ cmd' = cmd /\ kernel' = kernel /\ frame' = {x} /\ frame = {x}
      BY <1>1, <1>2 DEF ctlVars
    <3>4. CASE b # x
      <4>1. Due(b)' = 0 /\ refcnt'[b] = refcnt[b]
        BY <1>4, <3>3, <3>4 DEF Due
      <4> QED
        BY <3>1, <3>2, <3>3, <3>4, <4>1 DEF Owned, One
    <3>5. CASE b = x
      <4>1. Due(b)' = n /\ refcnt'[b] = n
        BY <1>1, <1>3, <1>4, <3>3, <3>5 DEF Due
      <4>2. ~UserHas(b) /\ ~ChannelHas(b) /\ ~Waiting(b) /\ cmd # b /\ b \notin kernel /\ Once(b)
        BY <3>1, <3>3, <3>5 DEF Owned
      <4> QED
        BY <1>3, <3>2, <3>3, <3>5, <4>1, <4>2 DEF Owned, One
    <3> QED
      BY <3>4, <3>5
  <2>3. uses' \cap returning' = {}
    BY <1>1, <2>1 DEF Sound, Ownership, userVars
  <2> QED
    BY <2>2, <2>3
<1>7. Counted'
  <2>1. Unused' = Unused
    BY <1>1, <1>2, <1>3, <1>4 DEF Unused
  <2> QED
    BY <1>1, <2>1 DEF Sound, Counted, ctlVars, Live
<1>8. Clean'
  BY <1>1, NotQuiet DEF Sound, Clean, Unbuffered, userVars, ctlVars
<1>9. Quiet'
  BY <1>1, NotQuiet DEF Sound, Quiet, Silent, Live, pollVars, ctlVars
<1> QED
  BY <1>5, <1>6, <1>7, <1>8, <1>9 DEF Sound

\* The frame is handed to the channel, and to the queue of the callbacks.
LEMMA HandleRcvdBufSound ==
  ASSUME StreamAssumption, Sound, HandleRcvdBuf
  PROVE  Sound'
<1>1. /\ UNCHANGED <<pollVars, bufVars, cmd, exiting, returning, ctlVars, readded>>
      /\ poll = "accounted" /\ poll' = "poll" /\ frame' = {}
  BY DEF HandleRcvdBuf
<1>2. PICK x \in frame :
         /\ uses' = IF Bundled THEN uses \cup {<<"channel", x>>} ELSE uses
         /\ cbq'  = IF HasCb THEN Append(cbq, x) ELSE cbq
  BY DEF HandleRcvdBuf
<1>3. x \in Buffers /\ frame = {x}
  BY <1>1, <1>2 DEF Sound, Shape
<1>4. cbq \in Seq(Buffers \cup {"EXIT"})
  BY DEF Sound, Shape
<1>5. Shape'
  <2>1. cbq' \in Seq(Buffers \cup {"EXIT"})
    BY <1>2, <1>3, <1>4, QueueAppend
  <2>2. uses' \subseteq Users \X Buffers
    BY <1>2, <1>3 DEF Sound, Shape, Users
  <2> QED
    BY <1>1, <2>1, <2>2 DEF Sound, Shape, bufVars, ctlVars
<1>6. Ownership'
  <2> SUFFICES ASSUME Live' PROVE uses' \cap returning' = {} /\ \A b \in Buffers : Owned(b)'
    BY DEF Ownership
  <2>1. Live
    BY <1>1 DEF Live, ctlVars
  <2>2. Owned(x)
    BY <1>3, <2>1 DEF Sound, Ownership
  <2>3. ~UserHas(x) /\ ~ChannelHas(x) /\ ~Waiting(x) /\ cmd # x /\ x \notin kernel
    BY <1>2, <2>2 DEF Owned
  <2>4. uses' \cap returning' = {}
    BY <1>1, <1>2, <2>1, <2>3 DEF Sound, Ownership, ChannelHas
  <2>5. ASSUME NEW b \in Buffers PROVE Owned(b)'
    <3>1. Owned(b)
      BY <2>1 DEF Sound, Ownership
    <3>2. UserHas(b)' <=> UserHas(b)
      BY <1>1, <1>2 DEF UserHas
    <3>3. ChannelHas(b)' <=> ChannelHas(b) \/ (Bundled /\ b = x)
      BY <1>1, <1>2 DEF ChannelHas, StreamAssumption
    <3>4. (Waiting(b)' <=> Waiting(b) \/ (HasCb /\ b = x)) /\ Once(b)'
      <4>1. CASE HasCb
        <5>1. cbq' = Append(cbq, x) /\ x \in Buffers \cup {"EXIT"}
          BY <1>2, <1>3, <4>1
        <5>2. Once(b) /\ (x = b => ~Waiting(b))
          BY <2>3, <3>1 DEF Owned
        <5> QED
          BY <1>4, <4>1, <5>1, <5>2, QueueAppend
      <4>2. CASE ~HasCb
        BY <1>2, <3>1, <4>2 DEF Waiting, Once, Owned
      <4> QED
        BY <4>1, <4>2
    <3>5. /\ pc' = pc /\ cmd' = cmd /\ kernel' = kernel /\ refcnt' = refcnt
          /\ Due(b)' = 0 /\ b \notin frame'
      BY <1>1 DEF ctlVars, bufVars, Due
    <3>6. CASE b # x
      <4>1. Due(b) = 0 /\ b \notin frame
        BY <1>3, <3>6 DEF Due
      <4> QED
        BY <3>1, <3>2, <3>3, <3>4, <3>5, <3>6, <4>1 DEF Owned, One
    <3>7. CASE b = x
      <4>1. refcnt[b] = One(Bundled) + One(HasCb) /\ (Bundled \/ HasCb)
        BY <1>1, <1>2, <2>2, <2>3, <3>7 DEF Owned, Due, One, StreamAssumption
      <4>2. ~UserHas(b)' /\ (ChannelHas(b)' <=> Bundled) /\ (Waiting(b)' <=> HasCb)
        BY <2>3, <3>2, <3>3, <3>4, <3>7
      <4>3. /\ One(UserHas(b))' = 0 /\ One(ChannelHas(b))' = One(Bundled)
            /\ One(Waiting(b))' = One(HasCb) /\ One(cmd = b)' = 0
        BY <2>3, <3>5, <3>7, <4>2 DEF One
      <4>4. One(Bundled) \in {0, 1} /\ One(HasCb) \in {0, 1} /\ One(Bundled) + One(HasCb) # 0
        BY <4>1 DEF One
      <4>5. refcnt'[b] = 0 + One(Bundled) + One(HasCb) + 0 + 0 /\ refcnt'[b] # 0
        BY <3>5, <4>1, <4>4
      <4>6. refcnt'[b] = One(UserHas(b))' + One(ChannelHas(b))' + One(Waiting(b))'
                           + One(cmd = b)' + Due(b)'
        BY ONLY <3>5, <4>3, <4>5
      <4>7. Once(b)' /\ ~UserHas(b)' /\ cmd' # b /\ b \notin frame' /\ b \notin kernel'
        BY <2>3, <3>4, <3>5, <3>7, <4>2
      <4> QED
        BY ONLY <4>5, <4>6, <4>7 DEF Owned
    <3> QED
      BY <3>6, <3>7
  <2> QED
    BY <2>4, <2>5
<1>7. Counted'
  <2>1. Unused' = Unused
    BY <1>1 DEF Unused, bufVars
  <2> QED
    BY <1>1, <2>1 DEF Sound, Counted, ctlVars, bufVars, Live
<1>8. Clean'
  <2>1. Unbuffered => st # "ACTIVE"
    BY DEF Sound, Shape, Unbuffered
  <2> QED
    BY <1>1, <2>1, NotQuiet DEF Sound, Clean, Unbuffered, ctlVars, bufVars
<1>9. Quiet'
  BY <1>1, NotQuiet DEF Sound, Quiet, Live, pollVars, ctlVars, bufVars
<1> QED
  BY <1>5, <1>6, <1>7, <1>8, <1>9 DEF Sound


-----------------------------------------------------------------------------
(* The command thread and the users. *)

\* A return of a buffer without references is ignored.  One that leaves others is
\* counted down, and the last one gives the buffer to the kernel, which may have
\* the descriptor added again.
LEMMA BufDoneSound ==
  ASSUME StreamAssumption, Sound, NEW x \in Buffers, BufDone(x),
         st = "ACTIVE" \/ pc = "unreg",
         UNCHANGED <<filled, poll, frame, ctlVars>>
  PROVE  /\ refcnt' \in [Buffers -> 0..4] /\ kernel' \subseteq Buffers /\ kernel \subseteq kernel'
         /\ readded' \in BOOLEAN /\ (readded => readded')
         /\ \A b \in Buffers : b # x => refcnt'[b] = refcnt[b] /\ (b \in kernel' <=> b \in kernel)
         /\ refcnt[x] > 0 => /\ refcnt'[x] = refcnt[x] - 1
                             /\ x \in kernel' <=> x \in kernel \/ refcnt[x] = 1
         /\ Counted' /\ Quiet'
<1>1. refcnt \in [Buffers -> 0..4] /\ kernel \subseteq Buffers /\ readded \in BOOLEAN
      /\ Counted /\ Quiet /\ refcnt[x] \in 0..4
  BY DEF Sound, Shape
<1>2. Live \/ pc = "unreg"
  BY DEF Live
<1>3. poll \in {"read", "counted"} => \A b \in frame : refcnt[b] = 0 /\ b \in Buffers
  BY DEF Sound, Shape, Counted
<1>4. CASE refcnt[x] = 0
  <2>1. UNCHANGED <<refcnt, queued, kernel, pollVars, readded>>
    BY <1>4 DEF BufDone
  <2>2. Counted'
    BY <1>1, <1>2, <2>1, CountedStays
  <2>3. Quiet'
    BY <1>1, <2>1, QuietStays DEF ctlVars, Live
  <2> QED
    BY <1>1, <1>4, <2>1, <2>2, <2>3
<1>5. CASE refcnt[x] > 1
  <2>1. UNCHANGED <<queued, kernel, pollVars, readded>> /\ refcnt' = [refcnt EXCEPT ![x] = @ - 1]
    BY <1>1, <1>5 DEF BufDone
  <2>2. /\ refcnt' \in [Buffers -> 0..4] /\ refcnt'[x] = refcnt[x] - 1
        /\ \A b \in Buffers : b # x => refcnt'[b] = refcnt[b]
    BY <1>1, <1>5, <2>1
  <2>3. Unused' = Unused
    BY <1>1, <1>5, <2>2 DEF Unused
  <2>4. poll' \in {"read", "counted"} => \A b \in frame' : refcnt'[b] = 0
    BY <1>3, <1>5, <2>2
  <2>5. Counted'
    BY <1>1, <1>2, <2>1, <2>3, <2>4 DEF Counted
  <2>6. Quiet'
    BY <1>1, <2>1, QuietStays DEF ctlVars, Live
  <2> QED
    BY <1>1, <1>5, <2>1, <2>2, <2>5, <2>6
<1>6. CASE refcnt[x] = 1
  <2>1. refcnt' = [refcnt EXCEPT ![x] = @ - 1] /\ Qbuf(x)
    BY <1>6 DEF BufDone
  <2>2. /\ refcnt' \in [Buffers -> 0..4] /\ refcnt'[x] = 0
        /\ \A b \in Buffers : b # x => refcnt'[b] = refcnt[b]
    BY <1>1, <1>6, <2>1
  <2>3. /\ queued' = queued + 1 /\ kernel' = kernel \cup {x}
        /\ IF queued = 0 THEN Poll!AddPollFd(FALSE) ELSE UNCHANGED pollVars
        /\ readded' = (readded \/ (queued = 0 /\ pc \in Stopping))
    BY <2>1 DEF Qbuf
  <2>4. readded' \in BOOLEAN /\ (readded' <=> readded \/ (queued = 0 /\ pc \in Stopping))
    BY Zenon, <1>1, <2>3
  <2>5. Unused' = Unused \cup {x} /\ x \notin Unused
    BY <1>1, <1>3, <1>6, <2>2 DEF Unused
  <2>6. /\ IsFiniteSet(Unused) /\ Cardinality(Unused) \in Nat
        /\ Cardinality(Unused') <= Cardinality(Buffers) /\ Cardinality(Buffers) \in Nat
    <3>1. IsFiniteSet(Buffers) /\ Unused \subseteq Buffers /\ Unused' \subseteq Buffers
      BY DEF StreamAssumption, Unused
    <3> QED
      BY <3>1, FS_Subset, FS_CardinalityType
  <2>7. Cardinality(Unused') = Cardinality(Unused) + 1
    BY <2>5, <2>6, FS_AddElement
  <2>8. poll' \in {"read", "counted"} => \A b \in frame' : refcnt'[b] = 0
    BY <1>3, <2>2
  <2>9. queued = Cardinality(Unused)
    BY <1>1, <1>2 DEF Counted
  <2>10. Counted'
    <3>1. queued' = Cardinality(Unused') /\ queued' \in 0..Cardinality(Buffers) /\ queued' >= 1
      BY ONLY <2>3, <2>6, <2>7, <2>9
    <3> QED
      BY <2>8, <3>1 DEF Counted
  <2>11. Quiet'
    <3>1. CASE queued = 0
      <4>1. entry' /\ (pc \in Stopping => readded')
        BY <2>3, <2>4, <3>1 DEF Poll!AddPollFd
      <4> QED
        BY <4>1 DEF Quiet, ctlVars, Stopping
    <3>2. CASE queued # 0
      <4>1. UNCHANGED pollVars /\ (readded' <=> readded) /\ queued > 0
        BY <2>3, <2>4, <2>6, <2>9, <3>2
      <4> QED
        BY <1>1, <4>1 DEF Quiet, Silent, Live, ctlVars, pollVars
    <3> QED
      BY <3>1, <3>2
  <2> QED
    BY <1>1, <1>6, <2>2, <2>3, <2>4, <2>10, <2>11
<1> QED
  BY <1>1, <1>4, <1>5, <1>6

\* One who had the buffer has it no longer.
LEMMA OneLess ==
  ASSUME NEW x, Owned(x), refcnt[x] \in Nat, refcnt'[x] = refcnt[x] - 1,
         x \in kernel' <=> x \in kernel \/ refcnt[x] = 1,
         Waiting(x)' <=> Waiting(x), Once(x)', Due(x)' = Due(x), frame' = frame,
         \/ UserHas(x) /\ ~UserHas(x)' /\ (ChannelHas(x)' <=> ChannelHas(x)) /\ cmd' = cmd
         \/ ChannelHas(x) /\ ~ChannelHas(x)' /\ (UserHas(x)' <=> UserHas(x)) /\ cmd' = cmd
         \/ /\ cmd = x /\ cmd' # x
            /\ UserHas(x)' <=> UserHas(x)
            /\ ChannelHas(x)' <=> ChannelHas(x)
  PROVE  Owned(x)'
<1>1. x \notin frame /\ x \notin frame' /\ Due(x) = 0 /\ refcnt[x] > 0
  <2>1. x \notin frame
    BY DEF Owned
  <2>2. Due(x) = 0
    BY <2>1 DEF Due
  <2>3. refcnt[x] # 0
    BY <2>2 DEF Owned, One
  <2> QED
    BY <2>1, <2>2, <2>3
<1>2. x \in kernel' <=> refcnt'[x] = 0
  BY <1>1 DEF Owned
<1>3. refcnt'[x] = One(UserHas(x)') + One(ChannelHas(x)') + One(Waiting(x)')
                     + One(cmd' = x) + Due(x)'
  BY <1>1 DEF Owned, One
<1>4. Waiting(x)' => ~UserHas(x)' /\ cmd' # x
  BY DEF Owned
<1> QED
  BY <1>1, <1>2, <1>3, <1>4 DEF Owned

\* The callback returns, and with it its own reference.
LEMMA CallbackDoneSound ==
  ASSUME StreamAssumption, Sound, CallbackDone
  PROVE  Sound'
<1>0. PICK x \in Buffers : cmd = x
  BY DEF CallbackDone
<1>1. /\ UNCHANGED <<filled, poll, frame, cbq, exiting, userVars, ctlVars>>
      /\ x \in Buffers /\ cmd' = "wait" /\ BufDone(x)
  BY <1>0 DEF CallbackDone
<1>2. st = "ACTIVE" /\ x # "wait" /\ x # "none" /\ Live
  BY <1>0, <1>1 DEF Sound, Shape, StreamAssumption, Live
<1>3. Owned(x) /\ cmd = x /\ refcnt[x] \in Nat
  BY <1>0, <1>1, <1>2 DEF Sound, Ownership, Shape
<1>4. /\ refcnt' \in [Buffers -> 0..4] /\ kernel' \subseteq Buffers /\ kernel \subseteq kernel'
      /\ readded' \in BOOLEAN /\ (readded => readded')
      /\ \A b \in Buffers : b # x => refcnt'[b] = refcnt[b] /\ (b \in kernel' <=> b \in kernel)
      /\ refcnt[x] > 0 => /\ refcnt'[x] = refcnt[x] - 1
                          /\ x \in kernel' <=> x \in kernel \/ refcnt[x] = 1
      /\ Counted' /\ Quiet'
  BY <1>1, <1>2, BufDoneSound
<1>5. Shape'
  BY <1>1, <1>2, <1>4 DEF Sound, Shape, userVars, ctlVars
<1>6. Ownership'
  <2>1. ASSUME NEW b \in Buffers PROVE Owned(b)'
    <3>1. Owned(b)
      BY <1>2 DEF Sound, Ownership
    <3>2. /\ UserHas(b)' <=> UserHas(b)
          /\ ChannelHas(b)' <=> ChannelHas(b)
          /\ Waiting(b)' <=> Waiting(b)
          /\ Once(b)' <=> Once(b)
          /\ Due(b)' = Due(b)
      BY <1>1 DEF UserHas, ChannelHas, Waiting, Once, Due, userVars
    <3>3. Once(b)' /\ frame' = frame /\ pc' = pc
      BY <1>1, <3>1, <3>2 DEF Owned, ctlVars
    <3>4. CASE b # x
      <4>1. (cmd' = b) <=> (cmd = b)
        BY <1>1, <1>3, <3>4 DEF StreamAssumption
      <4> QED
        BY <1>4, <3>1, <3>2, <3>3, <3>4, <4>1, OwnedAgain
    <3>5. CASE b = x
      <4>1. refcnt[x] > 0
        BY <1>3 DEF Owned, One, Due
      <4>2. cmd = x /\ cmd' # x
        BY <1>1, <1>2, <1>3
      <4>3. Owned(x)'
        BY <1>3, <1>4, <3>2, <3>3, <3>5, <4>1, <4>2, OneLess
      <4> QED
        BY <3>5, <4>3
    <3> QED
      BY <3>4, <3>5
  <2>2. uses' \cap returning' = {}
    BY <1>1, <1>2 DEF Sound, Ownership, userVars
  <2> QED
    BY <2>1, <2>2 DEF Ownership
<1>7. Clean'
  BY <1>1, <1>2 DEF Clean, Unbuffered, ctlVars, Sound, Shape
<1> QED
  BY <1>4, <1>5, <1>6, <1>7 DEF Sound

\* A user returns a buffer that it looked up while the stream was active.
LEMMA UserBufDoneSound ==
  ASSUME StreamAssumption, Sound, NEW w \in Users, NEW x \in Buffers, UserBufDone(w, x)
  PROVE  Sound'
<1>1. /\ UNCHANGED <<filled, threadVars, uses, ctlVars>>
      /\ <<w, x>> \in returning /\ returning' = returning \ {<<w, x>>} /\ BufDone(x)
  BY DEF UserBufDone
<1>2. st = "ACTIVE" \/ pc = "unreg"
  BY <1>1 DEF Sound, Clean, Shape, Unbuffered, Stopping
<1>3. /\ refcnt' \in [Buffers -> 0..4] /\ kernel' \subseteq Buffers /\ kernel \subseteq kernel'
      /\ readded' \in BOOLEAN /\ (readded => readded')
      /\ \A b \in Buffers : b # x => refcnt'[b] = refcnt[b] /\ (b \in kernel' <=> b \in kernel)
      /\ refcnt[x] > 0 => /\ refcnt'[x] = refcnt[x] - 1
                          /\ x \in kernel' <=> x \in kernel \/ refcnt[x] = 1
      /\ Counted' /\ Quiet'
  BY <1>1, <1>2, BufDoneSound DEF threadVars
<1>4. Shape'
  BY <1>1, <1>3 DEF Sound, Shape, threadVars, ctlVars
<1>5. Ownership'
  <2> SUFFICES ASSUME Live' PROVE uses' \cap returning' = {} /\ \A b \in Buffers : Owned(b)'
    BY DEF Ownership
  <2>1. Live
    BY <1>1 DEF Live, ctlVars
  <2>2. uses' \cap returning' = {} /\ <<w, x>> \notin uses
    BY <1>1, <2>1 DEF Sound, Ownership
  <2>3. ASSUME NEW b \in Buffers PROVE Owned(b)'
    <3>1. Owned(b) /\ refcnt[b] \in Nat
      BY <2>1 DEF Sound, Ownership, Shape
    <3>2. /\ Waiting(b)' <=> Waiting(b)
          /\ Once(b)' <=> Once(b)
          /\ Due(b)' = Due(b)
      BY <1>1 DEF Waiting, Once, Due, threadVars
    <3>3. Once(b)' /\ frame' = frame /\ pc' = pc /\ cmd' = cmd
      BY <1>1, <3>1, <3>2 DEF Owned, ctlVars, threadVars
    <3>4. CASE b # x
      <4>1. (UserHas(b)' <=> UserHas(b)) /\ (ChannelHas(b)' <=> ChannelHas(b))
        BY <1>1, <3>4 DEF UserHas, ChannelHas
      <4> QED
        BY <1>3, <3>1, <3>2, <3>3, <3>4, <4>1, OwnedAgain
    <3>5. CASE b = x
      <4>1. \/ UserHas(x) /\ ~UserHas(x)' /\ (ChannelHas(x)' <=> ChannelHas(x))
            \/ ChannelHas(x) /\ ~ChannelHas(x)' /\ (UserHas(x)' <=> UserHas(x))
        BY <1>1, <2>2 DEF UserHas, ChannelHas, Users
      <4>2. refcnt[x] > 0
        <5>1. One(Waiting(x)) \in Nat /\ One(cmd = x) \in Nat /\ Due(x) \in Nat
          BY DEF One, Due
        <5>2. UserHas(x) \/ ChannelHas(x)
          BY <4>1
        <5> QED
          BY <3>1, <3>5, <5>1, <5>2 DEF Owned, One
      <4>3. Owned(x)'
        BY <1>3, <3>1, <3>2, <3>3, <3>5, <4>1, <4>2, OneLess
      <4> QED
        BY <3>5, <4>3
    <3> QED
      BY <3>4, <3>5
  <2> QED
    BY <2>2, <2>3
<1>6. Clean'
  BY <1>1, <1>2, <1>3 DEF Clean, Unbuffered, ctlVars, threadVars, Sound, Shape
<1> QED
  BY <1>3, <1>4, <1>5, <1>6 DEF Sound


\* The command thread takes a buffer, which has one more reference in its callback
\* and is the user's from then on, or is told to end.
LEMMA TakeCmdSound ==
  ASSUME StreamAssumption, Sound, TakeCmd
  PROVE  Sound'
<1>1. /\ UNCHANGED <<pollVars, queued, kernel, filled, poll, frame, returning, ctlVars, readded>>
      /\ cmd = "wait" /\ cbq # <<>> /\ cbq' = Tail(cbq)
  BY DEF TakeCmd
<1>2. st = "ACTIVE" /\ Live /\ Live' /\ cbq \in Seq(Buffers \cup {"EXIT"})
  BY <1>1 DEF Sound, Shape, Live, ctlVars
<1>3. PICK h \in Buffers \cup {"EXIT"} : h = Head(cbq)
  BY <1>1, <1>2, QueueTail
<1>4. Waiting(h) /\ cbq' \in Seq(Buffers \cup {"EXIT"})
      /\ \A b \in Buffers : Once(b) => Once(b)' /\ (Waiting(b)' <=> Waiting(b) /\ h # b)
  BY <1>1, <1>2, <1>3, QueueTail
<1>5. \A b \in Buffers : Owned(b) /\ b # "wait" /\ b # "EXIT" /\ b # "none"
  BY <1>2 DEF Sound, Ownership, StreamAssumption
<1>6. Clean'
  BY <1>1, <1>2 DEF Clean, Unbuffered, Sound, Shape, ctlVars
<1>7. Quiet'
  BY <1>1, <1>2, QuietStays DEF Sound, ctlVars
<1>8. CASE h = "EXIT"
  <2>1. exiting' = TRUE /\ UNCHANGED <<cmd, refcnt, uses>>
    BY <1>3, <1>8 DEF TakeCmd
  <2>2. Shape'
    BY <1>1, <1>2, <1>4, <2>1 DEF Sound, Shape, ctlVars
  <2>3. Counted'
    BY <1>1, <1>2, <2>1, CountedStays DEF Sound
  <2>4. ASSUME NEW b \in Buffers PROVE Owned(b)'
    <3>1. /\ UserHas(b)' <=> UserHas(b)
          /\ ChannelHas(b)' <=> ChannelHas(b)
          /\ Due(b)' = Due(b)
      BY <1>1, <2>1 DEF UserHas, ChannelHas, Due
    <3>2. Owned(b) /\ Once(b)' /\ (Waiting(b)' <=> Waiting(b))
      BY <1>4, <1>5, <1>8 DEF Owned
    <3> QED
      BY <1>1, <2>1, <3>1, <3>2, OwnedAgain DEF ctlVars
  <2>5. Ownership'
    BY <1>1, <1>2, <2>1, <2>4 DEF Sound, Ownership
  <2> QED
    BY <1>6, <1>7, <2>2, <2>3, <2>5 DEF Sound
<1>9. CASE h \in Buffers
  <2>1. /\ cmd' = h /\ UNCHANGED exiting /\ refcnt' = [refcnt EXCEPT ![h] = @ + 1]
        /\ uses' = uses \cup {<<"user", h>>}
    BY <1>3, <1>5, <1>9 DEF TakeCmd
  <2>2. /\ ~UserHas(h) /\ h \notin frame /\ Due(h) = 0 /\ Waiting(h) /\ h \notin kernel
        /\ refcnt[h] = One(ChannelHas(h)) + 1 /\ ~Waiting(h)' /\ Once(h)'
    <3>1. Owned(h) /\ Waiting(h) /\ cmd # h
      BY <1>1, <1>4, <1>5, <1>9
    <3>2. ~UserHas(h) /\ h \notin frame /\ Once(h)
      BY <3>1 DEF Owned
    <3>3. Due(h) = 0
      BY <3>2 DEF Due
    <3>4. One(ChannelHas(h)) \in {0, 1}
      BY DEF One
    <3>5. refcnt[h] = One(ChannelHas(h)) + 1
      BY <3>1, <3>2, <3>3 DEF Owned, One
    <3>6. h \notin kernel
      <4>1. refcnt[h] # 0
        BY ONLY <3>4, <3>5
      <4> QED
        BY ONLY <3>1, <4>1 DEF Owned
    <3> QED
      BY <1>4, <1>9, <3>1, <3>2, <3>3, <3>5, <3>6
  <2>3. /\ refcnt' \in [Buffers -> 0..4] /\ refcnt'[h] = refcnt[h] + 1 /\ refcnt[h] \in {1, 2}
        /\ \A b \in Buffers : b # h => refcnt'[b] = refcnt[b]
    <3>1. refcnt \in [Buffers -> 0..4] /\ refcnt[h] \in {1, 2}
      BY <2>2 DEF Sound, Shape, One
    <3> QED
      BY <1>9, <2>1, <3>1
  <2>4. Shape'
    BY <1>1, <1>2, <1>4, <1>9, <2>1, <2>3 DEF Sound, Shape, ctlVars, Users
  <2>5. Counted'
    <3>1. Unused' = Unused
      BY <1>1, <1>9, <2>3 DEF Unused
    <3>2. poll' \in {"read", "counted"} => \A b \in frame' : refcnt'[b] = 0
      <4> SUFFICES ASSUME poll' \in {"read", "counted"}, NEW b \in frame' PROVE refcnt'[b] = 0
        OBVIOUS
      <4>1. b \in frame /\ b # h /\ b \in Buffers
        BY <1>1, <2>2 DEF Sound, Shape
      <4> QED
        BY <1>1, <2>3, <4>1 DEF Sound, Counted
    <3> QED
      BY <1>1, <1>2, <3>1, <3>2 DEF Sound, Counted
  <2>6. ASSUME NEW b \in Buffers PROVE Owned(b)'
    <3>1. Owned(b) /\ (ChannelHas(b)' <=> ChannelHas(b)) /\ frame' = frame /\ kernel' = kernel
          /\ pc' = pc
      BY <1>1, <1>5, <2>1 DEF ChannelHas, ctlVars
    <3>2. CASE b # h
      <4>1. (UserHas(b)' <=> UserHas(b)) /\ Due(b)' = Due(b) /\ ((cmd' = b) <=> (cmd = b))
        BY <1>1, <1>5, <2>1, <3>2 DEF UserHas, Due
      <4>2. Once(b)' /\ (Waiting(b)' <=> Waiting(b))
        BY <1>4, <3>1, <3>2 DEF Owned
      <4> QED
        BY <2>3, <3>1, <3>2, <4>1, <4>2, OwnedAgain
    <3>3. CASE b = h
      <4>1. UserHas(b)' /\ Due(b)' = 0 /\ cmd' = b /\ b \notin frame' /\ b \notin kernel'
            /\ Once(b)' /\ ~Waiting(b)'
        BY <1>1, <2>1, <2>2, <3>1, <3>3 DEF UserHas, Due
      <4>2. refcnt'[b] = One(ChannelHas(b)) + 2 /\ One(ChannelHas(b)) \in {0, 1}
        BY <2>2, <2>3, <3>3 DEF One
      <4> QED
        BY <3>1, <4>1, <4>2 DEF Owned, One
    <3> QED
      BY <3>2, <3>3
  <2>7. uses' \cap returning' = {}
    BY <1>1, <1>2, <2>1, <2>2 DEF Sound, Ownership, UserHas
  <2> QED
    BY <1>6, <1>7, <2>4, <2>5, <2>6, <2>7 DEF Sound, Ownership
<1> QED
  BY <1>3, <1>8, <1>9

\* The command thread ends.
LEMMA CmdThreadEndsSound ==
  ASSUME StreamAssumption, Sound, CmdThreadEnds
  PROVE  Sound'
<1>1. /\ UNCHANGED <<pollVars, bufVars, poll, frame, cbq, userVars, ctlVars, readded>>
      /\ cmd = "wait" /\ cmd' = "none" /\ exiting' = FALSE
  BY DEF CmdThreadEnds
<1>2. Shape'
  BY <1>1 DEF Sound, Shape, bufVars, userVars, ctlVars
<1>3. Ownership'
  <2>1. \A b \in Buffers : (cmd' = b) <=> (cmd = b)
    BY <1>1 DEF StreamAssumption
  <2> QED
    BY <1>1, <2>1, OwnershipStays DEF Sound, bufVars, userVars, ctlVars, Live
<1>4. Counted' /\ Clean' /\ Quiet'
  BY <1>1, CountedStays, QuietStays
     DEF Sound, Clean, Unbuffered, Live, bufVars, userVars, ctlVars
<1> QED
  BY <1>2, <1>3, <1>4 DEF Sound

\* A user gives a buffer back; that of a stream that is not active is forgotten.
LEMMA UserReturnsSound ==
  ASSUME Sound, NEW w \in Users, NEW x \in Buffers, UserReturns(w, x)
  PROVE  Sound'
<1>1. /\ UNCHANGED <<pollVars, bufVars, threadVars, ctlVars, readded>>
      /\ <<w, x>> \in uses /\ ~Idle({"REG"}) /\ uses' = uses \ {<<w, x>>}
      /\ returning' = IF st = "ACTIVE" THEN returning \cup {<<w, x>>} ELSE returning
  BY DEF UserReturns
<1>2. Shape'
  BY <1>1 DEF Sound, Shape, bufVars, threadVars, ctlVars
<1>3. Ownership'
  <2> SUFFICES ASSUME Live' PROVE uses' \cap returning' = {} /\ \A b \in Buffers : Owned(b)'
    BY DEF Ownership
  <2>1. Live /\ st = "ACTIVE"
    BY <1>1 DEF Live, ctlVars, Idle
  <2>2. returning' = returning \cup {<<w, x>>} /\ uses' \cup returning' = uses \cup returning
    BY <1>1, <2>1
  <2>3. ASSUME NEW b \in Buffers PROVE Owned(b)'
    <3>1. Owned(b)
      BY <2>1 DEF Sound, Ownership
    <3>2. /\ UserHas(b)' <=> UserHas(b)
          /\ ChannelHas(b)' <=> ChannelHas(b)
          /\ Waiting(b)' <=> Waiting(b)
          /\ Once(b)' <=> Once(b)
          /\ Due(b)' = Due(b)
      BY <1>1, <2>2 DEF UserHas, ChannelHas, Waiting, Once, Due, threadVars
    <3>3. Once(b)'
      BY <3>1, <3>2 DEF Owned
    <3> QED
      BY <1>1, <3>1, <3>2, <3>3, OwnedAgain DEF bufVars, threadVars, ctlVars
  <2>4. uses' \cap returning' = {}
    BY <1>1, <2>1, <2>2 DEF Sound, Ownership
  <2> QED
    BY <2>3, <2>4
<1>4. Counted' /\ Quiet'
  BY <1>1, CountedStays, QuietStays DEF Sound, Live, bufVars, threadVars, ctlVars
<1>5. Clean'
  <2>1. Unbuffered => st # "ACTIVE"
    BY DEF Sound, Shape, Unbuffered
  <2> QED
    BY <1>1, <2>1 DEF Sound, Clean, Unbuffered, bufVars, threadVars, ctlVars
<1> QED
  BY <1>2, <1>3, <1>4, <1>5 DEF Sound


-----------------------------------------------------------------------------
(* The theorems. *)

\* Each step of each thread keeps the invariant.
LEMMA StreamStep ==
  ASSUME StreamAssumption, StreamInv, [Next]_vars
  PROVE  StreamInv'
<1>1. PollRuns'
  BY StreamPolls, PollRunsOn DEF StreamInv
<1>2. CASE Control
  BY <1>1, <1>2, BookkeepingSound, GetBufsSound, RegBufsSound, StartSound, StopSound
     DEF Control, StreamInv
<1>3. CASE Continue
  BY <1>1, <1>3, Step1DoneSound, StreamOffSound, ReleaseCmdThreadSound, StoppedSound,
     UnregBufsSound, BookkeepingSound DEF Continue, StreamInv
<1>4. CASE PollThreadRuns
  BY <1>1, <1>4, PollPipeSound, NotifySound, ReadFrameSound, CountReadSound, AccountSound,
     HandleRcvdBufSound DEF PollThreadRuns, StreamInv
<1>5. CASE CmdThreadRuns
  BY <1>1, <1>5, TakeCmdSound, CallbackDoneSound, CmdThreadEndsSound DEF CmdThreadRuns, StreamInv
<1>6. CASE \E b \in Buffers : Fill(b)
  BY <1>1, <1>6, FillSound DEF StreamInv
<1>7. CASE \E w \in Users, b \in Buffers : UserReturns(w, b) \/ UserBufDone(w, b)
  BY <1>1, <1>7, UserReturnsSound, UserBufDoneSound DEF StreamInv
<1>8. CASE UNCHANGED vars
  <2>1. UNCHANGED <<pollVars, bufVars, threadVars, userVars, ctlVars, readded>>
    BY <1>8 DEF vars
  <2>2. Shape'
    BY <2>1 DEF StreamInv, Sound, Shape, bufVars, threadVars, userVars, ctlVars
  <2>3. Ownership' /\ Counted'
    BY <2>1, OwnershipStays, CountedStays
       DEF StreamInv, Sound, bufVars, threadVars, userVars, ctlVars, Live
  <2>4. Clean' /\ Quiet'
    BY <2>1, QuietStays
       DEF StreamInv, Sound, Clean, Unbuffered, Live, bufVars, threadVars, userVars, ctlVars
  <2> QED
    BY <1>1, <2>2, <2>3, <2>4 DEF StreamInv, Sound
<1> QED
  BY <1>1, <1>2, <1>3, <1>4, <1>5, <1>6, <1>7, <1>8 DEF Next, StreamInv

\* So it holds in every state.
LEMMA StreamAlways ==
  ASSUME StreamAssumption
  PROVE  Spec => []StreamInv
<1>1. Init => StreamInv
  BY StreamInit
<1>2. StreamInv /\ [Next]_vars => StreamInv'
  BY StreamStep
<1> QED
  BY <1>1, <1>2, PTL DEF Spec

-----------------------------------------------------------------------------
(* What follows from the invariant. *)

\* The types.
LEMMA InvTypes ==
  ASSUME StreamAssumption, StreamInv
  PROVE  TypeOK
<1> SUFFICES ASSUME Sound PROVE TypeOK
  BY DEF StreamInv
<1>1. Cardinality(frame) <= 1 /\ frame \subseteq Buffers
  <2>1. CASE frame = {}
    BY <2>1, FS_EmptySet
  <2>2. ASSUME NEW b \in Buffers, frame = {b}
        PROVE  Cardinality(frame) <= 1 /\ frame \subseteq Buffers
    <3>1. Cardinality({b}) = 1
      BY FS_Singleton
    <3> QED
      BY <2>2, <3>1
  <2> QED
    BY <2>1, <2>2 DEF Sound, Shape
<1>2. \A i \in DOMAIN cbq : cbq[i] \in Buffers \cup {"EXIT"}
  BY DEF Sound, Shape
<1> QED
  BY <1>1, <1>2 DEF Sound, Shape, Counted, TypeOK

\* A buffer's references are its holders.
LEMMA InvReferences ==
  ASSUME StreamAssumption, StreamInv
  PROVE  RefsHaveHolders
  BY OwnedHolders DEF StreamInv, Sound, Ownership, Live, RefsHaveHolders

\* The kernel has what nobody holds.
LEMMA InvKernel ==
  ASSUME StreamAssumption, StreamInv
  PROVE  KernelOwnsAlone
<1> SUFFICES ASSUME Sound, st = "ACTIVE", pc \in {"idle", "step1", "streamoff"},
                    NEW b \in Buffers
             PROVE  (b \in kernel) = (Holders(b) = 0 /\ b \notin frame)
  BY DEF StreamInv, KernelOwnsAlone
<1>1. uses \cap returning = {} /\ Owned(b)
  BY DEF Sound, Ownership, Live
<1>2. refcnt[b] = Holders(b)
  BY <1>1, OwnedHolders
<1>3. b \in kernel <=> refcnt[b] = 0 /\ b \notin frame
  BY <1>1 DEF Owned, Filling
<1> QED
  BY <1>2, <1>3

\* What is queued is polled.
LEMMA InvPolled ==
  ASSUME StreamAssumption, StreamInv
  PROVE  PolledWhileQueued
<1> SUFFICES ASSUME Sound, PollRuns, st = "ACTIVE", pc = "idle", queued > 0
             PROVE  entry /\ (armed \/ Poll!Pending(Updates))
  BY DEF StreamInv, PolledWhileQueued, Updates
<1>1. entry
  BY DEF Sound, Quiet, Live
<1>2. armed = entry \/ Poll!Pending(Updates)
  BY DEF PollRuns, PollInv, PollsEntries
<1> QED
  BY <1>1, <1>2

\* What was removed is quiet.
LEMMA InvQuiet ==
  ASSUME StreamAssumption, StreamInv
  PROVE  QuietAfterStep1
  BY DEF StreamInv, Sound, Quiet, Silent, QuietAfterStep1

\* All of it.
LEMMA InvStreamSound ==
  ASSUME StreamAssumption, StreamInv
  PROVE  StreamSound
  BY InvTypes, InvReferences, InvKernel, InvPolled, InvQuiet DEF StreamSound

\* No counter leaves its range, however the threads interleave: a reference count
\* stays below five and queued_buffer_count, which is counted down after the frame
\* is dequeued and up by whoever returns one, neither wraps nor exceeds the buffers.
THEOREM TypeCorrect ==
  ASSUME StreamAssumption
  PROVE  Spec => []TypeOK
  BY InvTypes, StreamAlways, PTL

\* While the stream is started a buffer has as many references as there are
\* holders who will give one back: the superbuf queue, the user, a callback that
\* waits or runs, a frame that is about to be handed out.
THEOREM ReferencesHaveHolders ==
  ASSUME StreamAssumption
  PROVE  Spec => []RefsHaveHolders
  BY InvReferences, StreamAlways, PTL

\* The kernel has exactly the buffers that nobody holds and no thread has just
\* read: it overwrites no frame in use, and no started stream loses a buffer.
THEOREM KernelIsAlone ==
  ASSUME StreamAssumption
  PROVE  Spec => []KernelOwnsAlone
  BY InvKernel, StreamAlways, PTL

\* A stream that runs and has buffers queued is polled, or the poll thread has the
\* command to: no order of reads and returns leaves its frames unread.
THEOREM PolledWhenQueued ==
  ASSUME StreamAssumption
  PROVE  Spec => []PolledWhileQueued
  BY InvPolled, StreamAlways, PTL

\* When step 1 of a stop is done the poll thread is in no callback of the stream
\* and will start none, unless a buffer returned meanwhile had it polled again.
THEOREM QuietWhenRemoved ==
  ASSUME StreamAssumption
  PROVE  Spec => []QuietAfterStep1
  BY InvQuiet, StreamAlways, PTL

\* All of these together: the references of a stream's buffers, the kernel's
\* ownership and the polling of the descriptor agree, in whatever order the threads
\* read, hold and return buffers and the stream is started and stopped.
THEOREM StreamIsSound ==
  ASSUME StreamAssumption
  PROVE  Spec => []StreamSound
  BY InvStreamSound, StreamAlways, PTL

\* The stream drives its poll thread by the calls of PollThread alone, from any of
\* its threads, and so keeps what is proved of it: a stop waits for its own
\* command, and what is polled follows what is registered.
THEOREM StreamKeepsProtocol ==
  ASSUME StreamAssumption
  PROVE  Spec => /\ [][Poll!Next]_(Poll!pollVars)
                 /\ [](Poll!SyncWaitsForItsOwn /\ Poll!PollFdsFollowEntries)
<1>1. [Next]_vars => [Poll!Next]_(Poll!pollVars)
  BY StreamPolls DEF PollMoves, Poll!Next, Poll!pollVars, pollVars
<1>2. StreamInv => Poll!SyncWaitsForItsOwn /\ Poll!PollFdsFollowEntries
  BY DEF StreamInv, PollRuns, PollInv, WaitMatchesPipe, PollsEntries,
         Waited, Updates, Poll!SyncWaitsForItsOwn, Poll!PollFdsFollowEntries
<1> QED
  BY <1>1, <1>2, StreamAlways, PTL DEF Spec

-----------------------------------------------------------------------------
(***************************************************************************)
(* A channel of several streams (MmChannel), with variables of its own: for *)
(* any number of streams, any metadata stream or none, any streams with two-*)
(* step allocation, any numbers of buffers and any failures, the streams    *)
(* start and stop together, with the metadata first and last.  Where        *)
(* mm_stream_reg_buf() does not fail half way, also that a failed start     *)
(* leaves nothing and the kernel has mapped buffers only.                   *)
(***************************************************************************)
CONSTANTS N, Meta, Dyn, First, All, ChannelHasCb, MaxFaults, FaultKinds
VARIABLES channelState, channelSt, callback, bundle, channelMapped, memory, channelKernel,
          procTh, alloc, count, channelPc, faults, retired

Channel == INSTANCE MmChannel WITH
    HasCb <- ChannelHasCb, state <- channelState, st <- channelSt,
    mapped <- channelMapped, kernel <- channelKernel, pc <- channelPc


-----------------------------------------------------------------------------
(* The inductive invariant: how far each stream is, at each place where the *)
(* control thread can be.                                                   *)

Before(s) == Channel!StartOrder(s) < channelPc.i
StoppedBefore(s) == Channel!StopOrder(s) < channelPc.i
Now(s) == Channel!StartOrder(s) = channelPc.i

\* A start: the streams before this one run, the later ones are untouched.
StartingAt(here) ==
    /\ channelState = "STOPPED" /\ channelPc.i \in Channel!Streams
    /\ \A s \in Channel!Streams :
         channelSt[s] = IF Before(s) THEN "ACTIVE" ELSE IF Now(s) THEN here ELSE "CFG"

\* Undoing it: those before are undone, and only one of the others, the one that
\* failed, is between running and untouched.
Undoing ==
    /\ channelState = "STOPPED" /\ channelPc.i \in Channel!Streams
    /\ \A s \in Channel!Streams : Before(s) => channelSt[s] = "CFG"
    /\ \A s, r \in Channel!Streams :
         channelPc.i <= Channel!StartOrder(s) /\ Channel!StartOrder(s) < Channel!StartOrder(r) /\ channelSt[s] # "ACTIVE" => channelSt[r] = "CFG"
    /\ \A s \in Channel!Streams : channelSt[s] \in {"CFG", "BUFFED", "REG", "ACTIVE"}

AllAre(x) == \A s \in Channel!Streams : channelSt[s] = x

Progress ==
    /\ Channel!At("idle") =>
         /\ channelState # "ACTIVE" => \A s \in Channel!Streams : channelSt[s] \in {"NOTUSED", "CFG"}
         /\ channelState = "NOTUSED" => AllAre("NOTUSED")
         /\ channelState = "ACTIVE" => AllAre("ACTIVE")
    /\ Channel!At("get") => StartingAt("CFG")
    /\ Channel!At("reg") => StartingAt("BUFFED")
    /\ Channel!At("on") => StartingAt("REG")
    /\ Channel!At("rollback") => Undoing
    /\ Channel!At("signal") => channelState = "ACTIVE" /\ AllAre("ACTIVE")
    /\ Channel!At("stop") =>
         /\ channelState = "ACTIVE" /\ channelPc.i \in Channel!Streams
         /\ \A s \in Channel!Streams : channelSt[s] = IF StoppedBefore(s) THEN "BUFFED" ELSE "ACTIVE"
    /\ Channel!At("threads") =>
         \/ channelState = "ACTIVE" /\ AllAre("BUFFED")
         \/ channelState = "STOPPED" /\ AllAre("CFG")
    /\ Channel!At("put") =>
         /\ channelState = "ACTIVE" /\ channelPc.i \in Channel!Streams
         /\ \A s \in Channel!Streams : channelSt[s] = IF StoppedBefore(s) THEN "CFG" ELSE "BUFFED"
    /\ channelPc.at # "delete"

\* The threads of the streams and of the bundle, at these places.
ThreadsRun ==
    /\ Channel!At("idle") /\ channelState # "ACTIVE" => procTh = {} /\ ~bundle
    /\ Channel!At("idle") /\ channelState = "ACTIVE" => procTh = Channel!Streams /\ bundle = callback
    /\ channelPc.at \in {"get", "reg", "on", "rollback", "signal"} => procTh = Channel!Streams /\ bundle = callback
    /\ Channel!At("threads") => procTh = (IF channelState = "ACTIVE" THEN {} ELSE Channel!Streams)
    /\ Channel!At("stop") => procTh = {}
    /\ Channel!At("put") => procTh = {} /\ ~bundle

\* What a stream has follows from how far it is.
Buffed(s) == channelSt[s] \in {"BUFFED", "REG", "ACTIVE"}
Has ==
    /\ \A s \in Channel!Streams : s \in memory <=> Buffed(s)
    /\ \A s \in Channel!Streams : alloc[s] # "none" => Buffed(s)
    /\ \A s \in Channel!Streams : <<s, Channel!InfoBuf>> \in channelMapped <=> channelSt[s] # "NOTUSED"
    /\ \A s \in Channel!Streams, b \in Channel!Bufs : <<s, b>> \in channelMapped => Buffed(s)
    /\ Channel!At("reg") => \A s \in Channel!Streams, b \in Channel!Bufs :
                      Now(s) /\ b \in Channel!InitialBufs(s) => <<s, b>> \in channelMapped

\* The kernel has buffers of streams that are that far, all mapped.
Queued ==
    /\ \A s \in Channel!Streams, b \in Channel!Bufs :
         <<s, b>> \in channelKernel => <<s, b>> \in channelMapped /\ channelSt[s] \in {"REG", "ACTIVE"}

ChannelInv ==
    /\ Channel!TypeOK /\ Progress /\ ThreadsRun /\ Has
    /\ "reg" \notin FaultKinds => Queued

-----------------------------------------------------------------------------
(* The orders of a start and a stop. *)

\* Each of them visits every stream once: it is its own inverse.
LEMMA StartOrderFacts ==
  ASSUME Channel!ChannelAssumption, NEW s \in Channel!Streams
  PROVE  /\ Channel!StartOrder(s) \in Channel!Streams /\ Channel!StartOrder(Channel!StartOrder(s)) = s
         /\ Channel!StartOrder(s) \in 1..N
<1>1. N \in Nat /\ Meta \in 0..N /\ N >= 1 /\ s \in 1..N
  BY DEF Channel!ChannelAssumption, Channel!Streams
<1>2. CASE Meta = 0
  BY <1>1, <1>2 DEF Channel!StartOrder, Channel!Streams
<1>3. CASE Meta # 0 /\ s = 1
  <2>1. Channel!StartOrder(s) = Meta
    BY <1>3 DEF Channel!StartOrder
  <2>2. Channel!StartOrder(Meta) = 1
    BY <1>1, <1>3 DEF Channel!StartOrder
  <2> QED
    BY <1>1, <1>3, <2>1, <2>2 DEF Channel!Streams
<1>4. CASE Meta # 0 /\ s # 1 /\ s = Meta
  <2>1. Channel!StartOrder(s) = 1
    BY <1>4 DEF Channel!StartOrder
  <2>2. Channel!StartOrder(1) = Meta
    BY <1>4 DEF Channel!StartOrder
  <2> QED
    BY <1>1, <1>4, <2>1, <2>2 DEF Channel!Streams
<1>5. CASE Meta # 0 /\ s # 1 /\ s # Meta
  BY <1>1, <1>5 DEF Channel!StartOrder, Channel!Streams
<1> QED
  BY <1>2, <1>3, <1>4, <1>5

\* The same of a stop; the last stream changes places.
LEMMA StopOrderFacts ==
  ASSUME Channel!ChannelAssumption, NEW s \in Channel!Streams
  PROVE  /\ Channel!StopOrder(s) \in Channel!Streams /\ Channel!StopOrder(Channel!StopOrder(s)) = s
         /\ Channel!StopOrder(s) \in 1..N
<1>1. N \in Nat /\ Meta \in 0..N /\ N >= 1 /\ s \in 1..N
  BY DEF Channel!ChannelAssumption, Channel!Streams
<1>2. PICK m : m = IF Meta = 0 THEN 1 ELSE Meta
  OBVIOUS
<1>3. m \in 1..N
  BY <1>1, <1>2
<1>4. \A i \in 1..N : Channel!StopOrder(i) = IF i = N THEN m ELSE IF i = m THEN N ELSE i
  BY <1>2 DEF Channel!StopOrder
<1> QED
  BY ONLY <1>1, <1>3, <1>4 DEF Channel!Streams

\* The metadata stream is first in a start and last in a stop.
LEMMA MetaOrder ==
  ASSUME Channel!ChannelAssumption, Meta # 0
  PROVE  Meta \in Channel!Streams /\ Channel!StartOrder(Meta) = 1 /\ Channel!StopOrder(Meta) = N
  BY DEF Channel!ChannelAssumption, Channel!Streams, Channel!StartOrder, Channel!StopOrder

\* The instance counts as this module does.
LEMMA ChannelCounts == \A S : Channel!Cardinality(S) = Cardinality(S)
BY DEF Channel!Cardinality, Cardinality

\* The buffers that are allocated at once are buffers, and counted.
LEMMA InitialBufsFacts ==
  ASSUME Channel!ChannelAssumption, NEW s \in Channel!Streams
  PROVE  Channel!InitialBufs(s) \subseteq Channel!Bufs /\ Channel!Cardinality(Channel!InitialBufs(s)) \in 0..All
<1>1. First \in Nat /\ All \in Nat /\ First <= All
  BY DEF Channel!ChannelAssumption
<1>2. Channel!Cardinality(1..First) = First /\ Channel!Cardinality(1..All) = All
  BY <1>1, FS_Interval, ChannelCounts
<1> QED
  BY <1>1, <1>2 DEF Channel!InitialBufs, Channel!Bufs

-----------------------------------------------------------------------------
(* Its steps. *)

\* No channel yet, and nothing allocated.
LEMMA InitChannel ==
  ASSUME Channel!ChannelAssumption, Channel!Init
  PROVE  ChannelInv
<1>1. Channel!TypeOK
  <2>1. callback \in BOOLEAN /\ bundle \in BOOLEAN /\ retired \in BOOLEAN
    BY Zenon DEF Channel!Init
  <2>2. 0 \in 0..N /\ 0 \in 0..All /\ 0 \in 0..MaxFaults
    BY DEF Channel!ChannelAssumption
  <2> QED
    BY <2>1, <2>2 DEF Channel!Init, Channel!TypeOK
<1>2. Progress
  BY DEF Channel!Init, Progress, AllAre, Channel!At
<1>3. ThreadsRun
  BY Zenon DEF Channel!Init, ThreadsRun, Channel!At
<1>4. Has
  BY DEF Channel!Init, Has, Buffed, Channel!At
<1> QED
  BY <1>1, <1>2, <1>3, <1>4 DEF ChannelInv, Queued, Channel!Init

\* A channel begins with no stream.
LEMMA AddChannelKeeps ==
  ASSUME Channel!ChannelAssumption, ChannelInv, Channel!AddChannel
  PROVE  ChannelInv'
<1> USE DEF ChannelInv
<1>1. Channel!TypeOK'
  BY DEF Channel!AddChannel, Channel!TypeOK, Channel!ChannelAssumption
<1>2. Progress'
  BY DEF Channel!AddChannel, Progress, AllAre, Channel!At
<1>3. ThreadsRun'
  BY DEF Channel!AddChannel, ThreadsRun, Channel!At
<1>4. Has'
  BY DEF Channel!AddChannel, Has, Buffed, Channel!At
<1>5. Queued => Queued'
  BY DEF Channel!AddChannel, Queued
<1> QED
  BY <1>1, <1>2, <1>3, <1>4, <1>5

\* A stream is added with its information mapped, or nothing is.
LEMMA AddStreamKeeps ==
  ASSUME Channel!ChannelAssumption, ChannelInv, NEW s \in Channel!Streams, Channel!AddStream(s)
  PROVE  ChannelInv'
<1> USE DEF ChannelInv
<1>1. Channel!TypeOK'
  BY DEF Channel!AddStream, Channel!TypeOK, Channel!ChannelAssumption, Channel!MayFail
<1>2. \A r \in Channel!Streams : channelSt'[r] = channelSt[r] \/ (r = s /\ channelSt[r] = "NOTUSED" /\ channelSt'[r] = "CFG")
  BY DEF Channel!AddStream, Channel!TypeOK
<1>3. Progress'
  BY <1>2 DEF Channel!AddStream, Progress, AllAre, Channel!At
<1>4. ThreadsRun'
  BY DEF Channel!AddStream, ThreadsRun, Channel!At
<1>5. Has'
  <2>1. CASE channelSt' = [channelSt EXCEPT ![s] = "CFG"] /\ channelMapped' = channelMapped \cup {<<s, Channel!InfoBuf>>}
    <3>1. \A r \in Channel!Streams : channelSt'[r] = IF r = s THEN "CFG" ELSE channelSt[r]
      BY <2>1 DEF Channel!TypeOK
    <3>2. \A b \in Channel!Bufs : b # Channel!InfoBuf
      BY DEF Channel!Bufs, Channel!InfoBuf
    <3> QED
      BY <2>1, <3>1, <3>2 DEF Channel!AddStream, Has, Buffed, Channel!At
  <2>2. CASE UNCHANGED <<channelSt, channelMapped>>
    BY <2>2 DEF Channel!AddStream, Has, Buffed, Channel!At
  <2> QED
    BY <2>1, <2>2 DEF Channel!AddStream
<1>6. Queued => Queued'
  BY <1>2 DEF Channel!AddStream, Queued
<1> QED
  BY <1>1, <1>3, <1>4, <1>5, <1>6

\* Streams that cannot be bundled leave everything as it was.
LEMMA BundleFailsKeeps ==
  ASSUME Channel!ChannelAssumption, ChannelInv, Channel!BundleFails
  PROVE  ChannelInv'
<1> USE DEF ChannelInv
<1>1. Channel!TypeOK'
  BY DEF Channel!BundleFails, Channel!TypeOK, Channel!ChannelAssumption, Channel!MayFail
<1>2. Progress' /\ ThreadsRun' /\ Has' /\ (Queued => Queued')
  BY DEF Channel!BundleFails, Progress, AllAre, Channel!At, ThreadsRun, Has, Buffed, Queued, StartingAt, Undoing,
         Before, StoppedBefore, Now
<1> QED
  BY <1>1, <1>2

\* A start begins with the metadata stream, nothing running.
LEMMA StartKeeps ==
  ASSUME Channel!ChannelAssumption, ChannelInv, Channel!Start
  PROVE  ChannelInv'
<1> USE DEF ChannelInv
<1>1. channelPc' = [at |-> "get", i |-> 1] /\ N >= 1 /\ N \in Nat /\ UNCHANGED <<channelState, channelSt>>
  BY DEF Channel!Start, Channel!Goto, Channel!ChannelAssumption
<1>2. Channel!TypeOK'
  BY <1>1 DEF Channel!Start, Channel!TypeOK, Channel!ChannelAssumption
<1>3. Progress'
  <2>1. \A s \in Channel!Streams : ~Before(s)'
    BY <1>1, StartOrderFacts DEF Before
  <2> QED
    BY <1>1, <2>1 DEF Channel!Start, Channel!Ready, Progress, StartingAt, Channel!At, Channel!Streams
<1>4. ThreadsRun'
  BY <1>1 DEF Channel!Start, ThreadsRun, Channel!At
<1>5. Has'
  BY <1>1 DEF Channel!Start, Has, Buffed, Channel!At
<1>6. Queued => Queued'
  BY DEF Channel!Start, Queued
<1> QED
  BY <1>2, <1>3, <1>4, <1>5, <1>6

\* A stream gets its buffers, or the rollback begins at it.
LEMMA GetBufsKeeps ==
  ASSUME Channel!ChannelAssumption, ChannelInv, Channel!GetBufs
  PROVE  ChannelInv'
<1> USE DEF ChannelInv
<1>1. PICK s \in Channel!Streams : s = Channel!StartOrder(channelPc.i) /\ channelPc.i \in Channel!Streams /\ Channel!StartOrder(s) = channelPc.i
  BY StartOrderFacts DEF Channel!GetBufs, Progress, StartingAt
<1>2. /\ Channel!At("get") /\ StartingAt("CFG") /\ channelPc.i \in 1..N /\ N \in Nat
      /\ \A r \in Channel!Streams : Channel!StartOrder(r) = channelPc.i <=> r = s
      /\ \A r \in Channel!Streams : Channel!StartOrder(r) \in 1..N
  BY <1>1, StartOrderFacts DEF Channel!GetBufs, Progress, Channel!Streams, Channel!ChannelAssumption
<1>3. Channel!InitialBufs(s) \subseteq Channel!Bufs /\ Channel!Cardinality(Channel!InitialBufs(s)) \in 0..All
  BY InitialBufsFacts
<1>4. CASE /\ channelMapped' = channelMapped \cup {s} \X Channel!InitialBufs(s)
           /\ memory' = memory \cup {s}
           /\ channelSt' = [channelSt EXCEPT ![s] = "BUFFED"]
           /\ alloc' = IF s \in Dyn /\ First < All THEN [alloc EXCEPT ![s] = "waiting"] ELSE alloc
           /\ count' = [count EXCEPT ![s] = Channel!Cardinality(Channel!InitialBufs(s))]
           /\ Channel!Goto("reg", channelPc.i) /\ UNCHANGED faults
  <2>1. \A r \in Channel!Streams : channelSt'[r] = IF r = s THEN "BUFFED" ELSE channelSt[r]
    BY <1>4 DEF Channel!TypeOK
  <2>2. channelPc' = [at |-> "reg", i |-> channelPc.i]
    BY <1>4 DEF Channel!Goto
  <2>3. Channel!TypeOK'
    BY <1>2, <1>3, <1>4, <2>2 DEF Channel!GetBufs, Channel!TypeOK
  <2>4. Progress'
    BY <1>2, <2>1, <2>2 DEF Channel!GetBufs, Progress, StartingAt, Channel!At, Before, Now
  <2>5. ThreadsRun'
    BY <1>2, <2>2 DEF Channel!GetBufs, ThreadsRun, Channel!At
  <2>6. Has'
    <3>1. \A r \in Channel!Streams : alloc'[r] # "none" => r = s \/ alloc[r] # "none"
      BY <1>4 DEF Channel!TypeOK
    <3>2. \A r \in Channel!Streams, b \in Channel!Bufs \cup {Channel!InfoBuf} :
             <<r, b>> \in channelMapped' <=> <<r, b>> \in channelMapped \/ (r = s /\ b \in Channel!InitialBufs(s))
      BY <1>4
    <3>3. Channel!InfoBuf \notin Channel!InitialBufs(s) /\ channelSt[s] = "CFG"
      BY <1>2, <1>3 DEF Channel!InfoBuf, Channel!Bufs, StartingAt, Now, Before
    <3>4. \A r \in Channel!Streams : Buffed(r)' <=> r = s \/ Buffed(r)
      BY <2>1 DEF Buffed
    <3>5. \A r \in Channel!Streams : r \in memory' <=> r = s \/ r \in memory
      BY <1>4
    <3>6. \A r \in Channel!Streams : channelSt'[r] # "NOTUSED" <=> channelSt[r] # "NOTUSED"
      BY <2>1, <3>3
    <3> QED
      BY <1>2, <2>2, <3>1, <3>2, <3>3, <3>4, <3>5, <3>6 DEF Has, Now
  <2>7. Queued => Queued'
    <3>1. channelKernel' = channelKernel /\ channelMapped \subseteq channelMapped' /\ channelSt[s] = "CFG"
      BY <1>2, <1>4 DEF Channel!GetBufs, StartingAt, Now, Before
    <3> QED
      BY <2>1, <3>1 DEF Queued
  <2> QED
    BY <2>3, <2>4, <2>5, <2>6, <2>7
<1>5. CASE /\ Channel!MayFail("map") /\ Channel!Goto("rollback", 1)
           /\ UNCHANGED <<channelMapped, memory, channelSt, alloc, count>>
  <2>1. channelPc' = [at |-> "rollback", i |-> 1] /\ N >= 1 /\ 1 \in Channel!Streams
    BY <1>5 DEF Channel!Goto, Channel!ChannelAssumption, Channel!Streams
  <2>2. Channel!TypeOK'
    BY <1>2, <1>5, <2>1 DEF Channel!GetBufs, Channel!TypeOK, Channel!MayFail, Channel!ChannelAssumption
  <2>3. Progress'
    <3>1. Undoing'
      BY <1>2, <1>5, <2>1 DEF Channel!GetBufs, Undoing, StartingAt, Before, Now
    <3> QED
      BY <2>1, <3>1 DEF Progress, Channel!At
  <2>4. ThreadsRun'
    BY <1>2, <2>1 DEF Channel!GetBufs, ThreadsRun, Channel!At
  <2>5. Has' /\ (Queued => Queued')
    BY <1>5, <2>1 DEF Channel!GetBufs, Has, Queued, Buffed, Channel!At
  <2> QED
    BY <2>2, <2>3, <2>4, <2>5
<1> QED
  BY <1>1, <1>4, <1>5 DEF Channel!GetBufs

\* The buffers of a stream go to the kernel, or the rollback begins at it.
LEMMA RegBufsKeeps ==
  ASSUME Channel!ChannelAssumption, ChannelInv, Channel!RegBufs
  PROVE  ChannelInv'
<1> USE DEF ChannelInv
<1>1. PICK s \in Channel!Streams : s = Channel!StartOrder(channelPc.i) /\ channelPc.i \in Channel!Streams /\ Channel!StartOrder(s) = channelPc.i
  BY StartOrderFacts DEF Channel!RegBufs, Progress, StartingAt
<1>2. /\ Channel!At("reg") /\ StartingAt("BUFFED") /\ channelPc.i \in 1..N /\ N \in Nat
      /\ \A r \in Channel!Streams : Channel!StartOrder(r) = channelPc.i <=> r = s
      /\ \A r \in Channel!Streams : Channel!StartOrder(r) \in 1..N
  BY <1>1, StartOrderFacts DEF Channel!RegBufs, Progress, Channel!Streams, Channel!ChannelAssumption
<1>3. Channel!InitialBufs(s) \subseteq Channel!Bufs /\ Channel!Cardinality(Channel!InitialBufs(s)) \in 0..All
  BY InitialBufsFacts
<1>4. CASE /\ channelKernel' = channelKernel \cup {s} \X Channel!InitialBufs(s)
           /\ channelSt' = [channelSt EXCEPT ![s] = "REG"]
           /\ Channel!Goto("on", channelPc.i) /\ UNCHANGED faults
  <2>1. \A r \in Channel!Streams : channelSt'[r] = IF r = s THEN "REG" ELSE channelSt[r]
    BY <1>4 DEF Channel!TypeOK
  <2>2. channelPc' = [at |-> "on", i |-> channelPc.i]
    BY <1>4 DEF Channel!Goto
  <2>3. Channel!TypeOK'
    BY <1>2, <1>3, <1>4, <2>2 DEF Channel!RegBufs, Channel!TypeOK
  <2>4. Progress'
    BY <1>2, <2>1, <2>2 DEF Channel!RegBufs, Progress, StartingAt, Channel!At, Before, Now
  <2>5. ThreadsRun'
    BY <1>2, <2>2 DEF Channel!RegBufs, ThreadsRun, Channel!At
  <2>6. Has'
    <3>1. channelSt[s] = "BUFFED"
      BY <1>2 DEF StartingAt, Now, Before
    <3> QED
      BY <2>1, <2>2, <3>1 DEF Channel!RegBufs, Has, Buffed, Channel!At
  <2>7. Queued => Queued'
    <3>1. \A r \in Channel!Streams, b \in Channel!Bufs :
             <<r, b>> \in channelKernel' => <<r, b>> \in channelKernel \/ (r = s /\ b \in Channel!InitialBufs(s))
      BY <1>4
    <3>2. \A b \in Channel!Bufs : b \in Channel!InitialBufs(s) => <<s, b>> \in channelMapped
      BY <1>1, <1>2 DEF Has, Now
    <3> QED
      BY <2>1, <3>1, <3>2 DEF Channel!RegBufs, Queued
  <2> QED
    BY <2>3, <2>4, <2>5, <2>6, <2>7
<1>5. CASE /\ Channel!MayFail("reg") /\ Channel!Goto("rollback", 1)
           /\ \E k \in 0..(Channel!Cardinality(Channel!InitialBufs(s)) - 1) : channelKernel' = channelKernel \cup {s} \X (1..k)
           /\ UNCHANGED channelSt
  <2>1. channelPc' = [at |-> "rollback", i |-> 1] /\ N >= 1 /\ 1 \in Channel!Streams
    BY <1>5 DEF Channel!Goto, Channel!ChannelAssumption, Channel!Streams
  <2>2. channelKernel' \subseteq Channel!Streams \X Channel!Bufs
    <3>1. PICK k \in 0..(Channel!Cardinality(Channel!InitialBufs(s)) - 1) : channelKernel' = channelKernel \cup {s} \X (1..k)
      BY <1>5
    <3>2. 1..k \subseteq 1..All
      BY <1>3, <3>1 DEF Channel!ChannelAssumption
    <3> QED
      BY <3>1, <3>2 DEF Channel!TypeOK, Channel!Bufs
  <2>3. Channel!TypeOK'
    BY <1>2, <1>5, <2>1, <2>2 DEF Channel!RegBufs, Channel!TypeOK, Channel!MayFail, Channel!ChannelAssumption
  <2>4. Progress'
    <3>1. Undoing'
      BY <1>2, <1>5, <2>1 DEF Channel!RegBufs, Undoing, StartingAt, Before, Now
    <3> QED
      BY <2>1, <3>1 DEF Progress, Channel!At
  <2>5. ThreadsRun'
    BY <1>2, <2>1 DEF Channel!RegBufs, ThreadsRun, Channel!At
  <2>6. Has'
    BY <1>5, <2>1 DEF Channel!RegBufs, Has, Buffed, Channel!At
  <2>7. "reg" \in FaultKinds
    BY <1>5 DEF Channel!MayFail
  <2> QED
    BY <2>3, <2>4, <2>5, <2>6, <2>7
<1> QED
  BY <1>1, <1>4, <1>5 DEF Channel!RegBufs

\* A stream runs and the next one is at hand, or the rollback begins.
LEMMA StreamOnKeeps ==
  ASSUME Channel!ChannelAssumption, ChannelInv, Channel!StreamOn
  PROVE  ChannelInv'
<1> USE DEF ChannelInv
<1>1. PICK s \in Channel!Streams : s = Channel!StartOrder(channelPc.i) /\ channelPc.i \in Channel!Streams /\ Channel!StartOrder(s) = channelPc.i
  BY StartOrderFacts DEF Channel!StreamOn, Progress, StartingAt
<1>2. /\ Channel!At("on") /\ StartingAt("REG") /\ channelPc.i \in 1..N /\ N \in Nat /\ N >= 1
      /\ \A r \in Channel!Streams : Channel!StartOrder(r) = channelPc.i <=> r = s
      /\ \A r \in Channel!Streams : Channel!StartOrder(r) \in 1..N
  BY <1>1, StartOrderFacts DEF Channel!StreamOn, Progress, Channel!Streams, Channel!ChannelAssumption
<1>3. channelSt[s] = "REG"
  BY <1>2 DEF StartingAt, Now, Before
<1>4. CASE channelSt' = [channelSt EXCEPT ![s] = "ACTIVE"] /\ UNCHANGED faults /\ channelPc.i < N
  <2>1. \A r \in Channel!Streams : channelSt'[r] = IF r = s THEN "ACTIVE" ELSE channelSt[r]
    BY <1>4 DEF Channel!TypeOK
  <2>2. channelPc' = [at |-> "get", i |-> channelPc.i + 1] /\ channelState' = channelState /\ channelPc.i + 1 \in 1..N
    BY <1>1, <1>2, <1>3, <1>4 DEF Channel!StreamOn, Channel!Goto, Channel!TypeOK
  <2>3. Channel!TypeOK'
    BY <1>4, <2>2 DEF Channel!StreamOn, Channel!TypeOK
  <2>4. Progress'
    BY <1>2, <2>1, <2>2 DEF Channel!StreamOn, Progress, StartingAt, Channel!At, Before, Now, Channel!Streams
  <2>5. ThreadsRun'
    BY <1>2, <2>2 DEF Channel!StreamOn, ThreadsRun, Channel!At
  <2>6. Has' /\ (Queued => Queued')
    BY <1>3, <2>1, <2>2 DEF Channel!StreamOn, Has, Buffed, Channel!At, Queued
  <2> QED
    BY <2>3, <2>4, <2>5, <2>6
<1>5. CASE channelSt' = [channelSt EXCEPT ![s] = "ACTIVE"] /\ UNCHANGED faults /\ ~(channelPc.i < N)
  <2>1. \A r \in Channel!Streams : channelSt'[r] = IF r = s THEN "ACTIVE" ELSE channelSt[r]
    BY <1>5 DEF Channel!TypeOK
  <2>2. channelPc' = [at |-> "signal", i |-> 1] /\ channelState' = "ACTIVE"
    BY <1>1, <1>2, <1>3, <1>5 DEF Channel!StreamOn, Channel!Goto, Channel!TypeOK
  <2>3. Channel!TypeOK'
    BY <1>2, <1>5, <2>2 DEF Channel!StreamOn, Channel!TypeOK
  <2>4. Progress'
    BY <1>2, <1>5, <2>1, <2>2 DEF Channel!StreamOn, Progress, StartingAt, Channel!At, Before, Now, AllAre
  <2>5. ThreadsRun'
    BY <1>2, <2>2 DEF Channel!StreamOn, ThreadsRun, Channel!At
  <2>6. Has' /\ (Queued => Queued')
    BY <1>3, <2>1, <2>2 DEF Channel!StreamOn, Has, Buffed, Channel!At, Queued
  <2> QED
    BY <2>3, <2>4, <2>5, <2>6
<1>6. CASE Channel!MayFail("on") /\ Channel!Goto("rollback", 1) /\ UNCHANGED <<channelSt, channelState>>
  <2>1. channelPc' = [at |-> "rollback", i |-> 1] /\ 1 \in Channel!Streams
    BY <1>2, <1>6 DEF Channel!Goto, Channel!Streams
  <2>2. Channel!TypeOK'
    BY <1>2, <1>6, <2>1 DEF Channel!StreamOn, Channel!TypeOK, Channel!MayFail, Channel!ChannelAssumption
  <2>3. Progress'
    <3>1. Undoing'
      BY <1>2, <1>6, <2>1 DEF Channel!StreamOn, Undoing, StartingAt, Before, Now
    <3> QED
      BY <2>1, <3>1 DEF Progress, Channel!At
  <2>4. ThreadsRun'
    BY <1>2, <2>1 DEF Channel!StreamOn, ThreadsRun, Channel!At
  <2>5. Has' /\ (Queued => Queued')
    BY <1>6, <2>1 DEF Channel!StreamOn, Has, Queued, Buffed, Channel!At
  <2> QED
    BY <2>2, <2>3, <2>4, <2>5
<1> QED
  BY <1>1, <1>4, <1>5, <1>6 DEF Channel!StreamOn

\* All streams run.
LEMMA SignalStartedKeeps ==
  ASSUME Channel!ChannelAssumption, ChannelInv, Channel!SignalStarted
  PROVE  ChannelInv'
<1> USE DEF ChannelInv
<1>1. channelPc' = [at |-> "idle", i |-> 0] /\ UNCHANGED <<channelState, channelSt>> /\ Channel!At("signal")
  BY DEF Channel!SignalStarted, Channel!Goto
<1>2. Channel!TypeOK'
  BY <1>1 DEF Channel!SignalStarted, Channel!TypeOK, Channel!ChannelAssumption
<1>3. Progress'
  BY <1>1 DEF Progress, AllAre, Channel!At
<1>4. ThreadsRun'
  BY <1>1 DEF Channel!SignalStarted, ThreadsRun, Channel!At, Progress
<1>5. Has'
  <2>1. \A s \in Channel!Streams : alloc'[s] # "none" => alloc[s] # "none"
    BY DEF Channel!SignalStarted, Channel!TypeOK
  <2> QED
    BY <1>1, <2>1 DEF Channel!SignalStarted, Has, Buffed, Channel!At
<1>6. Queued => Queued'
  BY DEF Channel!SignalStarted, Queued
<1> QED
  BY <1>2, <1>3, <1>4, <1>5, <1>6

\* The rollback undoes one stream and goes on to the next.
LEMMA RollbackKeeps ==
  ASSUME Channel!ChannelAssumption, ChannelInv, Channel!Rollback
  PROVE  ChannelInv'
<1> USE DEF ChannelInv
<1>1. PICK s \in Channel!Streams : s = Channel!StartOrder(channelPc.i) /\ channelPc.i \in Channel!Streams /\ Channel!StartOrder(s) = channelPc.i
  BY StartOrderFacts DEF Channel!Rollback, Progress, Undoing
<1>2. /\ Channel!At("rollback") /\ Undoing /\ channelPc.i \in 1..N /\ N \in Nat /\ N >= 1
      /\ \A r \in Channel!Streams : Channel!StartOrder(r) = channelPc.i <=> r = s
      /\ \A r \in Channel!Streams : Channel!StartOrder(r) \in 1..N
  BY <1>1, StartOrderFacts DEF Channel!Rollback, Progress, Channel!Streams, Channel!ChannelAssumption
<1>3. /\ channelKernel' = IF channelSt[s] \in {"REG", "ACTIVE"} THEN Channel!Unmapped(channelKernel, s) ELSE channelKernel
      /\ channelSt' = [channelSt EXCEPT ![s] = "CFG"]
      /\ IF channelSt[s] \in {"BUFFED", "REG", "ACTIVE"} THEN Channel!PutOf(s) ELSE UNCHANGED <<channelMapped, memory>>
      /\ IF channelPc.i = N \/ channelSt[s] # "ACTIVE" THEN Channel!Goto("threads", 0) ELSE Channel!Goto("rollback", channelPc.i + 1)
      /\ UNCHANGED <<channelState, callback, bundle, procTh, alloc, count, faults, retired>>
  BY <1>1 DEF Channel!Rollback
<1>4. \A r \in Channel!Streams : channelSt'[r] = IF r = s THEN "CFG" ELSE channelSt[r]
  BY <1>3 DEF Channel!TypeOK
<1>5. /\ \A r \in Channel!Streams : r \in memory' <=> r \in memory /\ r # s
      /\ \A r \in Channel!Streams, b \in Channel!Bufs : <<r, b>> \in channelMapped' <=> <<r, b>> \in channelMapped /\ r # s
      /\ \A r \in Channel!Streams : <<r, Channel!InfoBuf>> \in channelMapped' <=> <<r, Channel!InfoBuf>> \in channelMapped
      /\ channelMapped' \subseteq channelMapped /\ memory' \subseteq memory /\ alloc[s] = "none"
  <2>1. CASE channelSt[s] \in {"BUFFED", "REG", "ACTIVE"}
    <3>1. alloc[s] = "none" /\ channelMapped' = channelMapped \ ({s} \X Channel!Bufs) /\ memory' = memory \ {s}
      BY <1>3, <2>1 DEF Channel!PutOf, Channel!Unmapped
    <3>2. Channel!InfoBuf \notin Channel!Bufs
      BY DEF Channel!InfoBuf, Channel!Bufs
    <3> QED
      BY <3>1, <3>2
  <2>2. CASE channelSt[s] \notin {"BUFFED", "REG", "ACTIVE"}
    <3>1. channelMapped' = channelMapped /\ memory' = memory
      BY <1>3, <2>2
    <3>2. ~Buffed(s)
      BY <2>2 DEF Buffed
    <3> QED
      BY <3>1, <3>2, <1>1 DEF Has, Channel!TypeOK
  <2> QED
    BY <2>1, <2>2
<1>6. channelKernel' \subseteq channelKernel
  BY <1>3 DEF Channel!Unmapped
<1>7. CASE channelPc.i = N \/ channelSt[s] # "ACTIVE"
  <2>1. channelPc' = [at |-> "threads", i |-> 0]
    BY <1>3, <1>7 DEF Channel!Goto
  <2>2. Channel!TypeOK'
    BY <1>2, <1>3, <1>5, <1>6, <2>1 DEF Channel!TypeOK
  <2>3. \A r \in Channel!Streams : channelSt'[r] = "CFG"
    BY <1>2, <1>4, <1>7 DEF Undoing, Before
  <2>4. Progress' /\ ThreadsRun'
    BY <1>2, <1>3, <2>1, <2>3 DEF Progress, Undoing, AllAre, Channel!At, ThreadsRun
  <2> QED
    <3>1. Has'
      BY <1>2, <1>3, <1>4, <1>5, <2>1 DEF Has, Buffed, Channel!At, Undoing
    <3>2. Queued => Queued'
      BY <1>3, <1>4, <1>5, <1>6 DEF Queued, Channel!Unmapped
    <3> QED
      BY <2>2, <2>4, <3>1, <3>2
<1>8. CASE ~(channelPc.i = N \/ channelSt[s] # "ACTIVE")
  <2>1. channelPc' = [at |-> "rollback", i |-> channelPc.i + 1] /\ channelPc.i + 1 \in 1..N
    BY <1>2, <1>3, <1>8 DEF Channel!Goto
  <2>2. Channel!TypeOK'
    BY <1>2, <1>3, <1>5, <1>6, <2>1 DEF Channel!TypeOK
  <2>3. Undoing'
    BY <1>2, <1>3, <1>4, <2>1 DEF Undoing, Before, Channel!Streams
  <2>4. Progress' /\ ThreadsRun'
    BY <1>2, <1>3, <2>1, <2>3 DEF Progress, Channel!At, ThreadsRun
  <2> QED
    <3>1. Has'
      BY <1>2, <1>3, <1>4, <1>5, <2>1 DEF Has, Buffed, Channel!At, Undoing
    <3>2. Queued => Queued'
      BY <1>3, <1>4, <1>5, <1>6 DEF Queued, Channel!Unmapped
    <3> QED
      BY <2>2, <2>4, <3>1, <3>2
<1> QED
  BY <1>7, <1>8

\* The bundle's threads end, after a failed start those of the streams too.
LEMMA ReleaseThreadsKeeps ==
  ASSUME Channel!ChannelAssumption, ChannelInv, Channel!ReleaseThreads
  PROVE  ChannelInv'
<1> USE DEF ChannelInv
<1>1. Channel!At("threads") /\ ~bundle' /\ UNCHANGED <<channelState, channelSt>> /\ 1 \in Channel!Streams /\ N \in Nat /\ N >= 1
  BY DEF Channel!ReleaseThreads, Channel!ChannelAssumption, Channel!Streams
<1>2. Channel!TypeOK'
  <2>1. bundle' \in BOOLEAN /\ callback' \in BOOLEAN
    BY Zenon DEF Channel!ReleaseThreads, Channel!TypeOK
  <2>2. channelPc' = [at |-> "put", i |-> 1] \/ channelPc' = [at |-> "idle", i |-> 0]
    BY DEF Channel!ReleaseThreads, Channel!Goto
  <2>3. channelPc' \in [at : {"idle", "get", "reg", "on", "rollback", "signal", "stop", "threads", "put",
                       "delete"}, i : 0..N]
    BY <1>1, <2>2
  <2>4. procTh' \subseteq Channel!Streams
    BY DEF Channel!ReleaseThreads, Channel!TypeOK
  <2>5. UNCHANGED <<channelState, channelSt, channelMapped, memory, channelKernel, alloc, count, faults, retired>>
    BY DEF Channel!ReleaseThreads
  <2> QED
    BY <2>1, <2>3, <2>4, <2>5 DEF Channel!TypeOK
<1>3. CASE channelState = "ACTIVE"
  <2>1. channelPc' = [at |-> "put", i |-> 1] /\ procTh' = procTh
    BY <1>3 DEF Channel!ReleaseThreads, Channel!Goto
  <2>2. Progress' /\ ThreadsRun'
    <3>1. \A s \in Channel!Streams : ~StoppedBefore(s)'
      BY <1>1, <2>1, StopOrderFacts DEF StoppedBefore
    <3> QED
      BY <1>1, <1>3, <2>1, <3>1 DEF Progress, ThreadsRun, Channel!At, AllAre
  <2>3. Has' /\ (Queued => Queued')
    BY <2>1 DEF Channel!ReleaseThreads, Has, Buffed, Channel!At, Queued
  <2> QED
    BY <1>2, <2>2, <2>3
<1>4. CASE channelState # "ACTIVE"
  <2>1. channelPc' = [at |-> "idle", i |-> 0] /\ procTh' = {}
    BY <1>4 DEF Channel!ReleaseThreads, Channel!Goto
  <2>2. Progress' /\ ThreadsRun'
    BY <1>1, <1>4, <2>1 DEF Progress, ThreadsRun, Channel!At, AllAre
  <2>3. Has' /\ (Queued => Queued')
    BY <2>1 DEF Channel!ReleaseThreads, Has, Buffed, Channel!At, Queued
  <2> QED
    BY <1>2, <2>2, <2>3
<1> QED
  BY <1>3, <1>4

\* A stop begins while every stream runs.
LEMMA StopKeeps ==
  ASSUME Channel!ChannelAssumption, ChannelInv, Channel!Stop
  PROVE  ChannelInv'
<1> USE DEF ChannelInv
<1>1. channelPc' = [at |-> "stop", i |-> 1] /\ UNCHANGED <<channelState, channelSt>> /\ 1 \in Channel!Streams /\ N \in Nat
  BY DEF Channel!Stop, Channel!Goto, Channel!ChannelAssumption, Channel!Streams
<1>2. Channel!TypeOK'
  BY <1>1 DEF Channel!Stop, Channel!TypeOK, Channel!Streams
<1>3. Progress' /\ ThreadsRun'
  <2>1. \A s \in Channel!Streams : ~StoppedBefore(s)'
    BY <1>1, StopOrderFacts DEF StoppedBefore
  <2> QED
    BY <1>1, <2>1 DEF Channel!Stop, Progress, ThreadsRun, Channel!At, AllAre
<1>4. Has' /\ (Queued => Queued')
  BY <1>1 DEF Channel!Stop, Has, Buffed, Channel!At, Queued
<1> QED
  BY <1>2, <1>3, <1>4

\* One stream stops, the metadata stream after all others.
LEMMA StopStreamKeeps ==
  ASSUME Channel!ChannelAssumption, ChannelInv, Channel!StopStream
  PROVE  ChannelInv'
<1> USE DEF ChannelInv
<1>1. PICK s \in Channel!Streams : s = Channel!StopOrder(channelPc.i) /\ channelPc.i \in Channel!Streams /\ Channel!StopOrder(s) = channelPc.i
  BY StopOrderFacts DEF Channel!StopStream, Progress
<1>2. /\ Channel!At("stop") /\ channelPc.i \in 1..N /\ N \in Nat /\ N >= 1 /\ channelState = "ACTIVE"
      /\ \A r \in Channel!Streams : Channel!StopOrder(r) = channelPc.i <=> r = s
      /\ \A r \in Channel!Streams : Channel!StopOrder(r) \in 1..N
      /\ \A r \in Channel!Streams : channelSt[r] = IF StoppedBefore(r) THEN "BUFFED" ELSE "ACTIVE"
  BY <1>1, StopOrderFacts DEF Channel!StopStream, Progress, Channel!Streams, Channel!ChannelAssumption
<1>3. /\ channelSt' = [channelSt EXCEPT ![s] = "BUFFED"] /\ channelKernel' = channelKernel \ ({s} \X Channel!Bufs)
      /\ UNCHANGED <<channelState, callback, bundle, channelMapped, memory, procTh, alloc, count, faults, retired>>
  BY <1>1 DEF Channel!StopStream, Channel!Unmapped
<1>4. \A r \in Channel!Streams : channelSt'[r] = IF r = s THEN "BUFFED" ELSE channelSt[r]
  BY <1>3 DEF Channel!TypeOK
<1>5. CASE channelPc.i < N
  <2>1. channelPc' = [at |-> "stop", i |-> channelPc.i + 1] /\ channelPc.i + 1 \in 1..N
    BY <1>2, <1>5 DEF Channel!StopStream, Channel!Goto
  <2>2. Channel!TypeOK'
    BY <1>3, <2>1 DEF Channel!TypeOK
  <2>3. Progress' /\ ThreadsRun'
    BY <1>2, <1>3, <1>4, <2>1 DEF Progress, StoppedBefore, Channel!At, ThreadsRun, Channel!Streams
  <2>4. Has' /\ (Queued => Queued')
    BY <1>2, <1>3, <1>4, <2>1 DEF Has, Buffed, Channel!At, Queued
  <2> QED
    BY <2>2, <2>3, <2>4
<1>6. CASE ~(channelPc.i < N)
  <2>1. channelPc' = [at |-> "threads", i |-> 0]
    BY <1>2, <1>6 DEF Channel!StopStream, Channel!Goto
  <2>2. Channel!TypeOK'
    BY <1>2, <1>3, <2>1 DEF Channel!TypeOK
  <2>3. \A r \in Channel!Streams : channelSt'[r] = "BUFFED"
    BY <1>2, <1>4, <1>6 DEF StoppedBefore
  <2>4. Progress' /\ ThreadsRun'
    BY <1>2, <1>3, <2>1, <2>3 DEF Progress, AllAre, Channel!At, ThreadsRun
  <2>5. Has' /\ (Queued => Queued')
    BY <1>2, <1>3, <1>4, <2>1 DEF Has, Buffed, Channel!At, Queued
  <2> QED
    BY <2>2, <2>4, <2>5
<1> QED
  BY <1>5, <1>6

\* One stream gives back its buffers.
LEMMA PutStreamKeeps ==
  ASSUME Channel!ChannelAssumption, ChannelInv, Channel!PutStream
  PROVE  ChannelInv'
<1> USE DEF ChannelInv
<1>1. PICK s \in Channel!Streams : s = Channel!StopOrder(channelPc.i) /\ channelPc.i \in Channel!Streams /\ Channel!StopOrder(s) = channelPc.i
  BY StopOrderFacts DEF Channel!PutStream, Progress
<1>2. /\ Channel!At("put") /\ channelPc.i \in 1..N /\ N \in Nat /\ N >= 1 /\ channelState = "ACTIVE"
      /\ \A r \in Channel!Streams : Channel!StopOrder(r) = channelPc.i <=> r = s
      /\ \A r \in Channel!Streams : Channel!StopOrder(r) \in 1..N
      /\ \A r \in Channel!Streams : channelSt[r] = IF StoppedBefore(r) THEN "CFG" ELSE "BUFFED"
  BY <1>1, StopOrderFacts DEF Channel!PutStream, Progress, Channel!Streams, Channel!ChannelAssumption
<1>3. /\ channelSt' = [channelSt EXCEPT ![s] = "CFG"] /\ alloc[s] = "none"
      /\ channelMapped' = channelMapped \ ({s} \X Channel!Bufs) /\ memory' = memory \ {s}
      /\ UNCHANGED <<callback, bundle, channelKernel, procTh, alloc, count, faults, retired>>
  BY <1>1 DEF Channel!PutStream, Channel!PutOf, Channel!Unmapped
<1>4. \A r \in Channel!Streams : channelSt'[r] = IF r = s THEN "CFG" ELSE channelSt[r]
  BY <1>3 DEF Channel!TypeOK
<1>5. Queued => Queued'
  <2> SUFFICES ASSUME Queued PROVE Queued'
    OBVIOUS
  <2>1. \A r \in Channel!Streams, b \in Channel!Bufs : <<r, b>> \notin channelKernel
    BY <1>2 DEF Queued
  <2> QED
    BY <1>3, <2>1 DEF Queued
<1>6. /\ \A r \in Channel!Streams, b \in Channel!Bufs : <<r, b>> \in channelMapped' => <<r, b>> \in channelMapped /\ r # s
      /\ \A r \in Channel!Streams : <<r, Channel!InfoBuf>> \in channelMapped' <=> <<r, Channel!InfoBuf>> \in channelMapped
      /\ channelPc'.at # "reg"
  BY <1>3 DEF Channel!Bufs, Channel!InfoBuf, Channel!PutStream, Channel!Goto
<1>7. Has'
  BY <1>2, <1>3, <1>4, <1>6 DEF Has, Buffed, Channel!At
<1>8. CASE channelPc.i < N
  <2>1. channelPc' = [at |-> "put", i |-> channelPc.i + 1] /\ channelPc.i + 1 \in 1..N /\ channelState' = channelState
    BY <1>2, <1>8 DEF Channel!PutStream, Channel!Goto
  <2>2. Channel!TypeOK'
    BY <1>3, <2>1 DEF Channel!TypeOK
  <2>3. Progress' /\ ThreadsRun'
    BY <1>2, <1>3, <1>4, <2>1 DEF Progress, StoppedBefore, Channel!At, ThreadsRun, Channel!Streams
  <2> QED
    BY <1>5, <1>7, <2>2, <2>3
<1>9. CASE ~(channelPc.i < N)
  <2>1. channelPc' = [at |-> "idle", i |-> 0] /\ channelState' = "STOPPED"
    BY <1>2, <1>9 DEF Channel!PutStream, Channel!Goto
  <2>2. Channel!TypeOK'
    BY <1>2, <1>3, <2>1 DEF Channel!TypeOK
  <2>3. \A r \in Channel!Streams : channelSt'[r] = "CFG"
    BY <1>2, <1>4, <1>9 DEF StoppedBefore
  <2>4. Progress' /\ ThreadsRun'
    BY <1>2, <1>3, <2>1, <2>3 DEF Progress, AllAre, Channel!At, ThreadsRun
  <2> QED
    BY <1>5, <1>7, <2>2, <2>4
<1> QED
  BY <1>8, <1>9

\* A stopped channel is deleted.
LEMMA DeleteKeeps ==
  ASSUME Channel!ChannelAssumption, ChannelInv, Channel!Delete
  PROVE  ChannelInv'
<1> USE DEF ChannelInv
<1>1. /\ Channel!At("idle") /\ channelState = "STOPPED" /\ channelState' = "NOTUSED" /\ channelPc' = channelPc
      /\ \A s \in Channel!Streams : channelSt'[s] = "NOTUSED" /\ ~Buffed(s)
      /\ \A s \in Channel!Streams : <<s, Channel!InfoBuf>> \notin channelMapped'
      /\ channelMapped' \subseteq channelMapped
  BY DEF Channel!Delete, Progress, Buffed
<1>2. Channel!TypeOK'
  <2>1. callback' \in BOOLEAN /\ retired' \in BOOLEAN
    BY Zenon DEF Channel!Delete
  <2> QED
    BY <1>1, <2>1 DEF Channel!Delete, Channel!TypeOK
<1>3. Progress' /\ ThreadsRun'
  BY <1>1 DEF Channel!Delete, Progress, ThreadsRun, Channel!At, AllAre
<1>4. Has'
  BY <1>1 DEF Channel!Delete, Has, Buffed, Channel!At
<1>5. Queued => Queued'
  BY <1>1 DEF Channel!Delete, Queued, Buffed
<1> QED
  BY <1>2, <1>3, <1>4, <1>5

\* BufAllocRoutine adds a buffer, or leaves it out.
LEMMA AllocNextKeeps ==
  ASSUME Channel!ChannelAssumption, ChannelInv, NEW s \in Channel!Streams, Channel!AllocNext(s)
  PROVE  ChannelInv'
<1> USE DEF ChannelInv
<1>1. /\ alloc[s] = "more" /\ count[s] < All /\ count' = [count EXCEPT ![s] = @ + 1]
      /\ UNCHANGED <<channelState, channelSt, callback, bundle, memory, procTh, alloc, channelPc, retired>>
  BY DEF Channel!AllocNext
<1>2. PICK b : b = count[s] + 1
  OBVIOUS
<1>3. b \in Channel!Bufs /\ b # Channel!InfoBuf /\ Buffed(s)
  BY <1>1, <1>2 DEF Channel!TypeOK, Channel!Bufs, Channel!InfoBuf, Channel!ChannelAssumption, Has
<1>4. \/ /\ channelMapped' = channelMapped \cup {<<s, b>>} /\ UNCHANGED faults
         /\ channelKernel' = IF channelSt[s] = "ACTIVE" THEN channelKernel \cup {<<s, b>>} ELSE channelKernel
      \/ Channel!MayFail("more") /\ UNCHANGED <<channelMapped, channelKernel>>
  BY <1>2 DEF Channel!AllocNext
<1>5. Channel!TypeOK'
  <2>1. count' \in [Channel!Streams -> 0..All]
    BY <1>1 DEF Channel!TypeOK, Channel!ChannelAssumption
  <2>2. faults' \in 0..MaxFaults
    BY <1>4 DEF Channel!TypeOK, Channel!MayFail, Channel!ChannelAssumption
  <2>3. channelMapped' \subseteq Channel!Streams \X (Channel!Bufs \cup {Channel!InfoBuf}) /\ channelKernel' \subseteq Channel!Streams \X Channel!Bufs
    BY <1>3, <1>4 DEF Channel!TypeOK
  <2> QED
    BY <1>1, <2>1, <2>2, <2>3 DEF Channel!TypeOK
<1>6. Progress' /\ ThreadsRun'
  BY <1>1 DEF Progress, ThreadsRun, Channel!At, AllAre, StartingAt, Undoing, Before, StoppedBefore, Now
<1>7. /\ \A r \in Channel!Streams, c \in Channel!Bufs :
            <<r, c>> \in channelMapped' => <<r, c>> \in channelMapped \/ (r = s /\ c = b)
      /\ channelMapped \subseteq channelMapped'
      /\ \A r \in Channel!Streams : <<r, Channel!InfoBuf>> \in channelMapped' <=> <<r, Channel!InfoBuf>> \in channelMapped
  BY <1>3, <1>4
<1>8. Has'
  BY <1>1, <1>3, <1>7 DEF Has, Buffed, Channel!At, Now
<1>9. Queued => Queued'
  BY <1>1, <1>3, <1>4 DEF Queued
<1> QED
  BY <1>5, <1>6, <1>8, <1>9

\* BufAllocRoutine ends.
LEMMA AllocDoneKeeps ==
  ASSUME Channel!ChannelAssumption, ChannelInv, NEW s \in Channel!Streams, Channel!AllocDone(s)
  PROVE  ChannelInv'
<1> USE DEF ChannelInv
<1>1. Channel!TypeOK'
  BY DEF Channel!AllocDone, Channel!TypeOK
<1>2. Progress' /\ ThreadsRun' /\ (Queued => Queued')
  BY DEF Channel!AllocDone, Progress, ThreadsRun, Channel!At, AllAre, StartingAt, Undoing, Before, StoppedBefore, Now, Queued
<1>3. \A r \in Channel!Streams : alloc'[r] # "none" => alloc[r] # "none"
  BY DEF Channel!AllocDone, Channel!TypeOK
<1>4. Has'
  BY <1>3 DEF Channel!AllocDone, Has, Buffed, Channel!At, Now
<1> QED
  BY <1>1, <1>2, <1>4

\* Every step keeps the invariant.
LEMMA NextChannel ==
  ASSUME Channel!ChannelAssumption, ChannelInv, [Channel!Next]_(Channel!vars)
  PROVE  ChannelInv'
<1>1. CASE UNCHANGED Channel!vars
  BY <1>1 DEF Channel!vars, ChannelInv, Channel!TypeOK, Progress, ThreadsRun, Channel!At, AllAre, StartingAt, Undoing, Before,
              StoppedBefore, Now, Has, Buffed, Queued
<1>2. CASE Channel!Begin
  BY <1>2, AddChannelKeeps, AddStreamKeeps, BundleFailsKeeps, StartKeeps, StopKeeps, DeleteKeeps
  DEF Channel!Begin
<1>3. CASE Channel!Continue
  BY <1>3, GetBufsKeeps, RegBufsKeeps, StreamOnKeeps, SignalStartedKeeps, RollbackKeeps,
     ReleaseThreadsKeeps, StopStreamKeeps, PutStreamKeeps DEF Channel!Continue
<1>4. CASE Channel!Allocate
  BY <1>4, AllocNextKeeps, AllocDoneKeeps DEF Channel!Allocate
<1> QED
  BY <1>1, <1>2, <1>3, <1>4 DEF Channel!Next

\* Always.
LEMMA ChannelAlways ==
  ASSUME Channel!ChannelAssumption
  PROVE  Channel!Spec => []ChannelInv
<1>1. Channel!Init => ChannelInv
  BY InitChannel
<1>2. ChannelInv /\ [Channel!Next]_(Channel!vars) => ChannelInv'
  BY NextChannel
<1> QED
  BY <1>1, <1>2, PTL DEF Channel!Spec

-----------------------------------------------------------------------------
(* What follows. *)

\* The streams of a channel start together or not at all, and no stream delivers
\* frames without the metadata, whatever fails.
LEMMA TogetherHolds ==
  ASSUME Channel!ChannelAssumption, ChannelInv
  PROVE  Channel!TypeOK /\ Channel!AllOrNone /\ Channel!MetaFirstAndLast
<1> USE DEF ChannelInv
<1>1. Channel!TypeOK /\ Channel!AllOrNone
  BY DEF Channel!AllOrNone, Progress, ThreadsRun, AllAre
<1>2. Channel!MetaFirstAndLast
  <2> SUFFICES ASSUME Meta # 0, ~Channel!At("rollback"), NEW s \in Channel!Streams, channelSt[s] = "ACTIVE"
               PROVE  channelSt[Meta] = "ACTIVE"
    BY DEF Channel!MetaFirstAndLast
  <2>1. Meta \in Channel!Streams /\ Channel!StartOrder(Meta) = 1 /\ Channel!StopOrder(Meta) = N
    BY MetaOrder
  <2>2. Channel!StartOrder(s) \in 1..N /\ Channel!StopOrder(s) \in 1..N /\ N \in Nat
    BY StartOrderFacts, StopOrderFacts DEF Channel!ChannelAssumption
  <2>3. ASSUME NEW x \in {"CFG", "BUFFED", "REG"}, StartingAt(x) PROVE channelSt[Meta] = "ACTIVE"
    BY <2>1, <2>2, <2>3 DEF StartingAt, Before, Channel!Streams
  <2>4. CASE channelPc.at \in {"get", "reg", "on"}
    BY <2>3, <2>4 DEF Progress, Channel!At
  <2>5. CASE channelPc.at \in {"idle", "signal"}
    BY <2>1, <2>5 DEF Progress, Channel!At, AllAre
  <2>6. CASE Channel!At("stop")
    BY <2>1, <2>2, <2>6 DEF Progress, StoppedBefore, Channel!Streams
  <2>7. CASE channelPc.at \in {"threads", "put"}
    BY <2>7 DEF Progress, Channel!At, AllAre
  <2> QED
    BY <2>4, <2>5, <2>6, <2>7 DEF Channel!TypeOK, Channel!At, Progress
<1> QED
  BY <1>1, <1>2

\* Where no buffer fails to be queued, nothing is left behind either.
LEMMA InvChannelSound ==
  ASSUME Channel!ChannelAssumption, "reg" \notin FaultKinds, ChannelInv
  PROVE  Channel!ChannelSound
<1>1. Channel!TypeOK /\ Channel!AllOrNone /\ Channel!MetaFirstAndLast
  BY TogetherHolds
<1>2. Queued /\ Has /\ Progress /\ ThreadsRun
  BY DEF ChannelInv
<1>3. Channel!QueuedAreMapped
  <2>1. ASSUME NEW x \in channelKernel PROVE x \in channelMapped /\ x[1] \in memory
    <3>1. PICK s \in Channel!Streams, b \in Channel!Bufs : x = <<s, b>>
      BY <1>1 DEF Channel!TypeOK
    <3> QED
      BY <1>2, <3>1 DEF Queued, Has, Buffed
  <2> QED
    BY <2>1 DEF Channel!QueuedAreMapped
<1>4. Channel!NothingLeft
  <2> SUFFICES ASSUME Channel!At("idle"), channelState # "ACTIVE"
               PROVE  /\ \A s \in Channel!Streams : channelSt[s] \in {"NOTUSED", "CFG"} /\ alloc[s] = "none"
                      /\ channelKernel = {} /\ memory = {} /\ procTh = {} /\ ~bundle
                      /\ channelMapped = {<<s, Channel!InfoBuf>> : s \in {r \in Channel!Streams : channelSt[r] # "NOTUSED"}}
    BY DEF Channel!NothingLeft
  <2>1. \A s \in Channel!Streams : channelSt[s] \in {"NOTUSED", "CFG"} /\ ~Buffed(s) /\ alloc[s] = "none"
    BY <1>2 DEF Progress, Buffed, Has
  <2>2. channelKernel = {}
    BY <1>1, <1>2, <2>1 DEF Channel!TypeOK, Queued
  <2>3. memory = {}
    BY <1>1, <1>2, <2>1 DEF Channel!TypeOK, Has
  <2>4. \A s \in Channel!Streams, b \in Channel!Bufs : <<s, b>> \notin channelMapped
    BY <1>2, <2>1 DEF Has
  <2>5. \A x \in channelMapped : \E s \in Channel!Streams : x = <<s, Channel!InfoBuf>>
    BY <1>1, <2>4 DEF Channel!TypeOK
  <2>6. channelMapped = {<<s, Channel!InfoBuf>> : s \in {r \in Channel!Streams : channelSt[r] # "NOTUSED"}}
    BY <1>2, <2>5 DEF Has
  <2> QED
    BY <1>2, <2>1, <2>2, <2>3, <2>6 DEF ThreadsRun
<1> QED
  BY <1>1, <1>3, <1>4 DEF Channel!ChannelSound

\* In a channel of any number of streams a start gets all of them to run or none,
\* with the metadata stream first, and a stop ends it last, whichever operations of
\* whichever streams fail (mm_channel_start(), mm_channel_stop()).
THEOREM StreamsStartTogether ==
  ASSUME Channel!ChannelAssumption
  PROVE  Channel!Spec => [](Channel!AllOrNone /\ Channel!MetaFirstAndLast)
<1>1. ChannelInv => Channel!AllOrNone /\ Channel!MetaFirstAndLast
  BY TogetherHolds
<1> QED
  BY <1>1, ChannelAlways, PTL

\* As long as a stream's buffers are queued to the kernel all or none, a start that
\* failed anywhere leaves nothing behind, and the kernel never has a buffer that the
\* daemon has not mapped, also while BufAllocRoutine adds buffers during a stop.
THEOREM ChannelIsSound ==
  ASSUME Channel!ChannelAssumption, "reg" \notin FaultKinds
  PROVE  Channel!Spec => []Channel!ChannelSound
  BY InvChannelSound, ChannelAlways, PTL

=============================================================================
