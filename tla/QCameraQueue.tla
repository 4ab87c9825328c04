------------------------------ MODULE QCameraQueue ------------------------------
(***************************************************************************)
(* The queues between the HAL's threads (QCameraQueue.cpp) and the commands *)
(* of a worker thread (QCameraCmdThread.cpp), as values: what a call makes  *)
(* of a queue.  A queue that was flushed is inactive until init().          *)
(***************************************************************************)
EXTENDS Naturals, Sequences, SequencesExt

QCameraQueue == [items |-> <<>>, active |-> TRUE]
init(q) == [q EXCEPT !.active = TRUE]
isEmpty(q) == q.items = <<>>

\* An inactive queue takes nothing and gives nothing.
enqueue(q, data) == IF q.active THEN [q EXCEPT !.items = Append(@, data)] ELSE q
enqueueWithPriority(q, data) == IF q.active THEN [q EXCEPT !.items = <<data>> \o @] ELSE q

NULL == 0
CanTake(q) == q.active /\ ~isEmpty(q)
dequeued(q) == IF CanTake(q) THEN Head(q.items) ELSE NULL
taken(q) == IF CanTake(q) THEN {Head(q.items)} ELSE {}
dequeue(q) == IF CanTake(q) THEN [q EXCEPT !.items = Tail(@)] ELSE q
dequeueTail(q) == IF CanTake(q) THEN [q EXCEPT !.items = Front(@)] ELSE q

\* What a flush gives to the release function, and what it leaves.
flushed(q) == IF q.active THEN ToSet(q.items) ELSE {}
flush(q) == IF q.active THEN [items |-> <<>>, active |-> FALSE] ELSE q

\* The same for those data only that the match function picks.
matched(q, picked) == flushed(q) \cap picked
flushNodes(q, picked) ==
    IF q.active THEN [q EXCEPT !.items = SelectSeq(@, LAMBDA d : d \notin picked)] ELSE q

\* A worker thread: its commands, how often it signalled that one is done, what
\* it is at.  The semaphore of the commands counts what the queue holds.
QCameraCmdThread == [cmds |-> QCameraQueue, sync |-> 0, at |-> "gone", active |-> FALSE]
launch(th) == [th EXCEPT !.at = "wait"]
sendCmd(th, cmd, priority) ==
    [th EXCEPT !.cmds = IF priority THEN enqueueWithPriority(@, cmd) ELSE enqueue(@, cmd)]
getCmd(th) == dequeued(th.cmds)
Got(th) == [th EXCEPT !.cmds = dequeue(@)]
HasCmd(th) == th.at = "wait" /\ CanTake(th.cmds)
================================================================================
