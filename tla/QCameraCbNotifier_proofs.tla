------------------------ MODULE QCameraCbNotifier_proofs ------------------------
(***************************************************************************)
(* What is proved of the callback thread, for every number of pictures,    *)
(* callbacks and settings; and, at the end, of the thermal adapter, whose  *)
(* client's thread calls the camera the same way.                          *)
(***************************************************************************)
EXTENDS QCameraCbNotifier, FiniteSetTheorems, FunctionTheorems, SequenceTheorems, TLAPS

\* The state machine answers exactly the thread that waits for it, and only
\* a running picture is being stopped for it.
OneAnswer ==
    /\ snapshotDone # "none" <=> pc = "syncing"
    /\ snapshotDone = "handling" => postproc = "stopping"

\* cbNotifyRoutine() blocks in processSyncEvt() exactly as long as its
\* SNAPSHOT_DONE is on its way: no second one is ever posted over it, and a
\* postprocessor being stopped by it has not been stopped before.
THEOREM SyncHasOneAnswer == Spec => []OneAnswer
<1>1. Init => OneAnswer
  BY DEF Init, OneAnswer
<1>2. OneAnswer /\ [Next]_vars => OneAnswer'
  <2> SUFFICES ASSUME OneAnswer, [Next]_vars PROVE OneAnswer'
    OBVIOUS
  <2> USE DEF OneAnswer, pictureVars, threadVars
  <2>1. CASE startSnapshots \/ CancelPicture
    BY <2>1 DEF startSnapshots, CancelPicture, stopSnapshots, SmIdle
  <2>2. CASE Machine
    BY <2>2 DEF Machine, HandleSnapshotDone, PostProcStopped, stopSnapshots, SmIdle
  <2>3. CASE SnapshotCallback \/ OtherCallback
    BY <2>3 DEF SnapshotCallback, OtherCallback, notifyCallback
  <2>4. CASE (\E item \in entering : Enqueue(item)) \/ SendNext
    BY <2>4 DEF Enqueue, SendNext
  <2>5. CASE Thread
    <3>1. CASE StartDataProc \/ StopDataProc \/ ExitCmd
      BY <2>5, <3>1 DEF StartDataProc, StopDataProc, ExitCmd, GetCmd
    <3>2. CASE SyncReturns
      BY <3>2 DEF SyncReturns
    <3>3. CASE DoNextJob
      <4>1. pc = "waiting" /\ UNCHANGED postproc
        BY <3>3 DEF DoNextJob, GetCmd
      <4>2. \/ UNCHANGED <<pc, snapshotDone>>
            \/ pc' = "syncing" /\ snapshotDone' = "posted"
        BY <3>3 DEF DoNextJob
      <4> QED BY <4>1, <4>2
    <3> QED BY <2>5, <3>1, <3>2, <3>3 DEF Thread
  <2>6. CASE exit \/ Join
    BY <2>6 DEF exit, Join
  <2>7. CASE UNCHANGED vars
    BY <2>7 DEF vars
  <2> QED BY <2>1, <2>2, <2>3, <2>4, <2>5, <2>6, <2>7 DEF Next
<1> QED BY <1>1, <1>2, PTL DEF Spec

\* flush() closes the data queue for good: a notifyCallback() that found the
\* notifier active before exit() and enqueues after the thread ended leaves
\* nothing behind.
THEOREM FlushLeavesNothing == Spec => []NothingLeftAfterExit
<1>1. Init => NothingLeftAfterExit
  BY DEF Init, NothingLeftAfterExit
<1>2. NothingLeftAfterExit /\ [Next]_vars => NothingLeftAfterExit'
  <2> SUFFICES ASSUME NothingLeftAfterExit, [Next]_vars, pc' = "exited"
               PROVE  mDataQ' = <<>>
    BY DEF NothingLeftAfterExit
  <2> USE DEF NothingLeftAfterExit, pictureVars, threadVars
  <2>1. CASE startSnapshots \/ CancelPicture
    BY <2>1 DEF startSnapshots, CancelPicture, stopSnapshots
  <2>2. CASE Machine
    BY <2>2 DEF Machine, HandleSnapshotDone, PostProcStopped, stopSnapshots
  <2>3. CASE SnapshotCallback \/ OtherCallback \/ SendNext
    BY <2>3 DEF SnapshotCallback, OtherCallback, notifyCallback, SendNext
  <2>4. CASE \E item \in entering : Enqueue(item)
    BY <2>4 DEF Enqueue
  <2>5. CASE ExitCmd
    BY <2>5 DEF ExitCmd
  <2>6. CASE Thread /\ ~ExitCmd
    <3>1. pc' # "exited"
      BY <2>6 DEF Thread, StartDataProc, StopDataProc, DoNextJob, SyncReturns, GetCmd
    <3> QED BY <3>1
  <2>7. CASE exit \/ Join
    BY <2>7 DEF exit, Join
  <2>8. CASE UNCHANGED vars
    BY <2>8 DEF vars
  <2> QED BY <2>1, <2>2, <2>3, <2>4, <2>5, <2>6, <2>7, <2>8 DEF Next
<1> QED BY <1>1, <1>2, PTL DEF Spec

-----------------------------------------------------------------------------
(* How often an item stands in a queue. *)

\* The places of an item are finitely many, and at most all.
LEMMA CountType ==
    ASSUME NEW S, NEW s \in Seq(S), NEW p
    PROVE  /\ IsFiniteSet({i \in DOMAIN s : s[i] = p})
           /\ CountIn(s, p) \in Nat /\ CountIn(s, p) <= Len(s)
<1>1. IsFiniteSet(DOMAIN s) /\ Cardinality(DOMAIN s) = Len(s) /\ Len(s) \in Nat
  <2>1. DOMAIN s = 1..Len(s) /\ Len(s) \in Nat
    OBVIOUS
  <2> QED
    BY <2>1, FS_Interval
<1>2. IsFiniteSet({i \in DOMAIN s : s[i] = p})
      /\ Cardinality({i \in DOMAIN s : s[i] = p}) <= Cardinality(DOMAIN s)
  BY <1>1, FS_Subset
<1> QED
  BY <1>1, <1>2, FS_CardinalityType DEF CountIn

\* None of them is in an empty queue,
LEMMA CountEmpty == \A p : CountIn(<<>>, p) = 0
<1> SUFFICES ASSUME NEW p PROVE CountIn(<<>>, p) = 0
  OBVIOUS
<1>1. {i \in DOMAIN <<>> : <<>>[i] = p} = {}
  OBVIOUS
<1> QED
  BY <1>1, FS_EmptySet DEF CountIn

\* an item at the end adds one,
LEMMA CountAppend ==
    ASSUME NEW S, NEW s \in Seq(S), NEW x \in S, NEW p
    PROVE  CountIn(Append(s, x), p) = CountIn(s, p) + (IF x = p THEN 1 ELSE 0)
<1> DEFINE n == Len(s)
           Old == {i \in DOMAIN s : s[i] = p}
           New == {i \in DOMAIN Append(s, x) : Append(s, x)[i] = p}
<1>1. n \in Nat /\ DOMAIN s = 1..n /\ DOMAIN Append(s, x) = 1..(n + 1)
  <2>1. Append(s, x) \in Seq(S) /\ Len(Append(s, x)) = n + 1
    BY AppendProperties
  <2> QED
    BY <2>1
<1>2. /\ \A i \in 1..n : Append(s, x)[i] = s[i]
      /\ Append(s, x)[n + 1] = x
  BY AppendProperties
<1>3. IsFiniteSet(Old) /\ n + 1 \notin Old
  <2>1. IsFiniteSet(Old)
    BY CountType
  <2> QED
    BY <1>1, <2>1
<1>4. CASE x = p
  <2>1. New = Old \cup {n + 1}
    BY <1>1, <1>2, <1>4
  <2>2. Cardinality(New) = Cardinality(Old) + 1
    BY <1>3, <2>1, FS_AddElement
  <2>3. CountIn(s, p) = Cardinality(Old) /\ CountIn(Append(s, x), p) = Cardinality(New)
    BY DEF CountIn
  <2> HIDE DEF New, Old
  <2> QED
    BY <1>4, <2>2, <2>3
<1>5. CASE x # p
  <2>1. New = Old
    BY <1>1, <1>2, <1>5
  <2>2. CountIn(s, p) \in Nat
    BY CountType
  <2>3. CountIn(s, p) = Cardinality(Old) /\ CountIn(Append(s, x), p) = Cardinality(New)
    BY DEF CountIn
  <2> HIDE DEF New, Old
  <2> QED
    BY <1>5, <2>1, <2>2, <2>3
<1> QED
  BY <1>4, <1>5

\* an item taken from the head removes one,
LEMMA CountTail ==
    ASSUME NEW S, NEW s \in Seq(S), s # <<>>, NEW p
    PROVE  CountIn(s, p) = CountIn(Tail(s), p) + (IF Head(s) = p THEN 1 ELSE 0)
<1> DEFINE n == Len(s)
           All  == {i \in DOMAIN s : s[i] = p}
           Rest == {i \in DOMAIN Tail(s) : Tail(s)[i] = p}
           Next1 == [i \in Rest |-> i + 1]
<1>1. n \in Nat \ {0} /\ DOMAIN s = 1..n /\ DOMAIN Tail(s) = 1..(n - 1) /\ Head(s) = s[1]
  BY HeadTailProperties
<1>2. \A i \in 1..(n - 1) : Tail(s)[i] = s[i + 1]
  BY <1>1, HeadTailProperties
<1>3. IsFiniteSet(All) /\ IsFiniteSet(Rest) /\ Tail(s) \in Seq(S)
  <2>1. Tail(s) \in Seq(S)
    BY HeadTailProperties
  <2> QED
    BY <2>1, CountType
<1>4. Next1 \in Bijection(Rest, All \ {1})
  <2>1. Next1 \in [Rest -> All \ {1}]
    BY <1>1, <1>2
  <2>2. \A a, b \in Rest : Next1[a] = Next1[b] => a = b
    BY <1>1
  <2>3. \A t \in All \ {1} : \E i \in Rest : Next1[i] = t
    <3> SUFFICES ASSUME NEW t \in All \ {1} PROVE \E i \in Rest : Next1[i] = t
      OBVIOUS
    <3>1. t - 1 \in 1..(n - 1) /\ s[(t - 1) + 1] = p
      BY <1>1
    <3>2. t - 1 \in Rest
      BY <1>1, <1>2, <3>1
    <3> QED
      BY <1>1, <3>2
  <2> QED
    BY <2>1, <2>2, <2>3, Fun_IsBij
<1>5. Cardinality(Rest) = Cardinality(All \ {1})
  <2>1. ExistsBijection(Rest, All \ {1})
    BY <1>4 DEF ExistsBijection
  <2> QED
    BY <1>3, <2>1, FS_Bijection
<1>6. Cardinality(All \ {1}) = IF 1 \in All THEN Cardinality(All) - 1 ELSE Cardinality(All)
  BY <1>3, FS_RemoveElement
<1>7. 1 \in All <=> Head(s) = p
  BY <1>1
<1>8. Cardinality(All) \in Nat /\ Cardinality(Rest) \in Nat
  BY <1>3, FS_CardinalityType
<1>9. CountIn(s, p) = Cardinality(All) /\ CountIn(Tail(s), p) = Cardinality(Rest)
  BY DEF CountIn
<1> HIDE DEF All, Rest
<1> QED
  BY <1>5, <1>6, <1>7, <1>8, <1>9

\* and an item put before the others adds one.
LEMMA CountFront ==
    ASSUME NEW S, NEW s \in Seq(S), NEW x \in S, NEW p
    PROVE  /\ <<x>> \o s \in Seq(S)
           /\ CountIn(<<x>> \o s, p) = CountIn(s, p) + (IF x = p THEN 1 ELSE 0)
<1> DEFINE t == <<x>> \o s
<1>1. t \in Seq(S) /\ t # <<>> /\ Head(t) = x /\ Tail(t) = s
  OBVIOUS
<1> HIDE DEF t
<1>2. CountIn(t, p) = CountIn(Tail(t), p) + (IF Head(t) = p THEN 1 ELSE 0)
  BY <1>1, CountTail
<1> QED
  BY <1>1, <1>2 DEF t

-----------------------------------------------------------------------------
(* Types, and the commands that fetch the callbacks. *)

\* What flushNodes() leaves is a queue, and no longer one.
LEMMA FlushedQueue ==
    ASSUME NEW s \in Seq(Nat)
    PROVE  OfNoPicture(s) \in Seq(Nat) /\ Len(OfNoPicture(s)) <= Len(s)
<1>1. CountIn(s, 0) \in Nat /\ CountIn(s, 0) <= Len(s)
  BY CountType
<1>2. OfNoPicture(s) \in Seq(Nat) /\ Len(OfNoPicture(s)) = CountIn(s, 0)
  BY <1>1 DEF OfNoPicture
<1> QED
  BY <1>1, <1>2

\* The callback queue, its commands and the rest of the state have their types
\* for any number of pictures and callbacks.
THEOREM TypeCorrect == Spec => []TypeOK
<1> DEFINE Cmds == {"START", "STOP", "NEXT", "EXIT"}
<1>1. Init => TypeOK
  <2>1. <<>> \in Seq(Cmds) /\ <<>> \in Seq(Nat) /\ {} \in SUBSET Nat
    OBVIOUS
  <2> SUFFICES ASSUME Init PROVE TypeOK
    OBVIOUS
  <2>2. cmd_queue \in Seq(Cmds) /\ mDataQ \in Seq(Nat) /\ entering \in SUBSET Nat
    BY <2>1 DEF Init
  <2>3. /\ mActive \in BOOLEAN /\ isSnapshotActive \in BOOLEAN /\ longShotEnabled \in BOOLEAN
        /\ mLongshotEnabled \in BOOLEAN
        /\ posting \in Nat /\ numOfSnapshotExpected \in Nat /\ numOfSnapshotRcvd \in Nat
        /\ picture \in Nat /\ sent \in Nat /\ others \in Nat
    BY DEF Init
  <2> QED
    BY <2>2, <2>3 DEF Init, TypeOK
<1>2. TypeOK /\ [Next]_vars => TypeOK'
  <2> SUFFICES ASSUME TypeOK, [Next]_vars PROVE TypeOK'
    OBVIOUS
  <2> USE DEF TypeOK, pictureVars, threadVars
  <2>0. /\ cmd_queue \in Seq(Cmds) /\ mDataQ \in Seq(Nat) /\ Append(cmd_queue, "NEXT") \in Seq(Cmds)
        /\ \A x \in {"START", "STOP", "EXIT"} : <<x>> \o cmd_queue \in Seq(Cmds)
        /\ cmd_queue # <<>> => Tail(cmd_queue) \in Seq(Cmds)
        /\ mDataQ # <<>> => Tail(mDataQ) \in Seq(Nat)
        /\ \A item \in Nat : Append(mDataQ, item) \in Seq(Nat)
    OBVIOUS
  <2>a. <<>> \in Seq(Nat) /\ OfNoPicture(mDataQ) \in Seq(Nat)
    BY FlushedQueue
  <2> HIDE DEF Cmds
  <2>1. CASE startSnapshots
    BY <2>0, <2>1, NotifierAssumption DEF startSnapshots, Cmds
  <2>2. CASE CancelPicture \/ Machine
    <3>1. /\ UNCHANGED <<entering, mDataQ, mActive, posting, threadVars, picture, mLongshotEnabled,
                         sent, others, closing>>
          /\ cmd_queue' = cmd_queue \/ cmd_queue' = <<"STOP">> \o cmd_queue
          /\ postproc' \in {"stopped", "started", "stopping"}
      BY <2>2 DEF CancelPicture, Machine, HandleSnapshotDone, PostProcStopped, stopSnapshots
    <3>2. snapshotDone' \in {"none", "posted", "handling", "signalled"}
      BY <2>2 DEF CancelPicture, Machine, HandleSnapshotDone, PostProcStopped, stopSnapshots
    <3>3. cmd_queue' \in Seq(Cmds)
      BY ONLY <2>0, <3>1
    <3> QED
      BY <3>1, <3>2, <3>3 DEF Cmds
  <2>3. CASE SnapshotCallback \/ OtherCallback
    <3>1. UNCHANGED <<cmd_queue, mDataQ, mActive, posting, threadVars, picture, mLongshotEnabled,
                      postproc, snapshotDone, closing>>
          /\ (entering' = entering \cup {picture} \/ entering' = entering \cup {0})
      BY <2>3 DEF SnapshotCallback, OtherCallback, notifyCallback
    <3>2. sent' \in Nat /\ others' \in Nat
      BY <2>3 DEF SnapshotCallback, OtherCallback
    <3>3. entering' \in SUBSET Nat
      <4>1. entering \in SUBSET Nat /\ picture \in Nat /\ 0 \in Nat
        OBVIOUS
      <4> QED
        BY ONLY <3>1, <4>1
    <3> QED
      BY <3>1, <3>2, <3>3
  <2>4. CASE \E item \in entering : Enqueue(item)
    <3>1. PICK item \in entering : Enqueue(item)
      BY <2>4
    <3>2. /\ entering' = entering \ {item}
          /\ \/ UNCHANGED <<mDataQ, posting>>
             \/ mDataQ' = Append(mDataQ, item) /\ posting' = posting + 1
      BY <3>1 DEF Enqueue
    <3>3. entering' \in SUBSET Nat /\ item \in Nat
      <4>1. entering \in SUBSET Nat /\ item \in entering
        OBVIOUS
      <4> QED
        BY ONLY <3>2, <4>1
    <3>4. mDataQ' \in Seq(Nat) /\ posting' \in Nat
      <4>1. posting \in Nat /\ posting + 1 \in Nat
        OBVIOUS
      <4>2. mDataQ \in Seq(Nat) /\ Append(mDataQ, item) \in Seq(Nat)
        BY ONLY <2>0, <3>3
      <4> QED
        BY ONLY <3>2, <4>1, <4>2
    <3> QED
      BY <3>1, <3>3, <3>4 DEF Enqueue
  <2>5. CASE SendNext
    BY <2>0, <2>5 DEF SendNext, Cmds
  <2>6. CASE StartDataProc
    BY <2>0, <2>6, NotifierAssumption DEF StartDataProc, GetCmd, Cmds
  <2>7. CASE StopDataProc
    BY <2>0, <2>a, <2>7 DEF StopDataProc, GetCmd, Cmds
  <2>8. CASE DoNextJob
    <3>1. cmd_queue' \in Seq(Cmds) /\ mDataQ' \in Seq(Nat)
      BY <2>0, <2>8 DEF DoNextJob, GetCmd
    <3>2. /\ numOfSnapshotRcvd' \in Nat /\ pc' \in {"waiting", "syncing", "exited"}
          /\ snapshotDone' \in {"none", "posted", "handling", "signalled"}
      BY <2>8 DEF DoNextJob, GetCmd
    <3> QED
      BY <2>8, <3>1, <3>2 DEF DoNextJob, Cmds
  <2>9. CASE SyncReturns
    BY <2>9 DEF SyncReturns
  <2>10. CASE ExitCmd
    BY <2>0, <2>a, <2>10 DEF ExitCmd, GetCmd, Cmds
  <2>11. CASE exit \/ Join
    BY <2>0, <2>11 DEF exit, Join, Cmds
  <2>12. CASE UNCHANGED vars
    BY <2>12 DEF vars
  <2> QED
    BY <2>1, <2>2, <2>3, <2>4, <2>5, <2>6, <2>7, <2>8, <2>9, <2>10, <2>11, <2>12 DEF Next, Thread
<1> QED
  BY <1>1, <1>2, PTL DEF Spec

\* START, STOP and EXIT overtake the commands that fetch callbacks, and STOP and
\* EXIT remove callbacks without removing those commands; still every callback
\* in the queue has a command that is sent or about to be, in any interleaving
\* of the threads between enqueuing the one and sending the other.
THEOREM NothingStranded == Spec => []NoCallbackStranded
<1>1. Init => NoCallbackStranded
  BY CountEmpty DEF Init, NoCallbackStranded, Commands
<1>2. TypeOK /\ NoCallbackStranded /\ [Next]_vars => NoCallbackStranded'
  <2> SUFFICES ASSUME TypeOK, NoCallbackStranded, [Next]_vars PROVE NoCallbackStranded'
    OBVIOUS
  <2> DEFINE Cmds == {"START", "STOP", "NEXT", "EXIT"}
             next(q) == CountIn(q, "NEXT")
  <2>1. /\ cmd_queue \in Seq(Cmds) /\ mDataQ \in Seq(Nat) /\ posting \in Nat
        /\ next(cmd_queue) \in Nat /\ Len(mDataQ) \in Nat
        /\ Len(mDataQ) <= next(cmd_queue) + posting
    <3>1. cmd_queue \in Seq(Cmds) /\ mDataQ \in Seq(Nat) /\ posting \in Nat
      BY DEF TypeOK
    <3>2. next(cmd_queue) \in Nat
      BY <3>1, CountType
    <3>3. Len(mDataQ) \in Nat /\ Len(mDataQ) <= next(cmd_queue) + posting
      BY <3>1 DEF NoCallbackStranded, Commands
    <3> QED
      BY <3>1, <3>2, <3>3
  <2>2. \A x \in Cmds \ {"NEXT"} : next(<<x>> \o cmd_queue) = next(cmd_queue)
    <3> SUFFICES ASSUME NEW x \in Cmds \ {"NEXT"} PROVE next(<<x>> \o cmd_queue) = next(cmd_queue)
      OBVIOUS
    <3>1. next(<<x>> \o cmd_queue) = next(cmd_queue) + (IF x = "NEXT" THEN 1 ELSE 0)
      BY <2>1, CountFront
    <3> QED
      BY <2>1, <3>1
  <2>3. next(Append(cmd_queue, "NEXT")) = next(cmd_queue) + 1
    <3>1. "NEXT" \in Cmds
      OBVIOUS
    <3> QED
      BY <2>1, <3>1, CountAppend
  <2>4. ASSUME cmd_queue # <<>>
        PROVE  /\ next(Tail(cmd_queue)) \in Nat
               /\ Head(cmd_queue) = "NEXT" => next(cmd_queue) = next(Tail(cmd_queue)) + 1
               /\ Head(cmd_queue) # "NEXT" => next(cmd_queue) = next(Tail(cmd_queue))
    <3>1. next(cmd_queue) = next(Tail(cmd_queue)) + (IF Head(cmd_queue) = "NEXT" THEN 1 ELSE 0)
      BY <2>1, <2>4, CountTail
    <3>2. Tail(cmd_queue) \in Seq(Cmds)
      BY <2>1, <2>4
    <3>3. next(Tail(cmd_queue)) \in Nat
      BY <3>2, CountType
    <3> QED
      BY <3>1, <3>3
  <2> HIDE DEF next
  <2> SUFFICES Len(mDataQ') <= next(cmd_queue') + posting'
    BY DEF NoCallbackStranded, Commands, next
  <2> USE DEF pictureVars, threadVars
  <2>5. CASE UNCHANGED <<mDataQ, posting>> /\ next(cmd_queue') = next(cmd_queue)
    BY <2>1, <2>5
  <2>6. CASE startSnapshots \/ CancelPicture \/ Machine \/ exit \/ Join
    <3>1. UNCHANGED <<mDataQ, posting>>
          /\ (UNCHANGED cmd_queue \/ \E x \in Cmds \ {"NEXT"} : cmd_queue' = <<x>> \o cmd_queue)
      BY <2>6 DEF startSnapshots, CancelPicture, Machine, HandleSnapshotDone, PostProcStopped,
                  stopSnapshots, exit, Join
    <3>2. next(cmd_queue') = next(cmd_queue)
      <4>1. CASE UNCHANGED cmd_queue
        BY ONLY <4>1
      <4>2. CASE \E x \in Cmds \ {"NEXT"} : cmd_queue' = <<x>> \o cmd_queue
        BY ONLY <2>2, <4>2
      <4> QED
        BY <3>1, <4>1, <4>2
    <3> QED
      BY <2>5, <3>1, <3>2
  <2>7. CASE SnapshotCallback \/ OtherCallback \/ SyncReturns \/ UNCHANGED vars
    BY <2>5, <2>7 DEF SnapshotCallback, OtherCallback, notifyCallback, SyncReturns, vars
  <2>8. CASE \E item \in entering : Enqueue(item)
    <3>1. UNCHANGED cmd_queue
          /\ (UNCHANGED <<mDataQ, posting>>
                \/ \E item : mDataQ' = Append(mDataQ, item) /\ posting' = posting + 1)
      BY <2>8 DEF Enqueue
    <3> QED
      BY <2>1, <3>1
  <2>9. CASE SendNext
    BY <2>1, <2>3, <2>9 DEF SendNext
  <2>10. CASE StartDataProc
    BY <2>4, <2>5, <2>10 DEF StartDataProc, GetCmd
  <2>11. CASE StopDataProc
    BY <2>1, <2>4, <2>11, FlushedQueue DEF StopDataProc, GetCmd
  <2>12. CASE DoNextJob
    <3>1. /\ cmd_queue # <<>> /\ Head(cmd_queue) = "NEXT" /\ cmd_queue' = Tail(cmd_queue)
          /\ UNCHANGED posting
          /\ (mDataQ = <<>> /\ mDataQ' = <<>>) \/ (mDataQ # <<>> /\ mDataQ' = Tail(mDataQ))
      BY <2>12 DEF DoNextJob, GetCmd
    <3> QED
      BY <2>1, <2>4, <3>1
  <2>13. CASE ExitCmd
    BY <2>1, <2>4, <2>13 DEF ExitCmd, GetCmd
  <2> QED
    BY <2>6, <2>7, <2>8, <2>9, <2>10, <2>11, <2>12, <2>13 DEF Next, Thread
<1> QED
  BY <1>1, <1>2, TypeCorrect, PTL DEF Spec

-----------------------------------------------------------------------------
(***************************************************************************)
(* The thermal adapter (QCameraThermal), with variables of its own: for any *)
(* cameras, frame rates, numbers of reports and of opens, and every failure *)
(* of init().                                                               *)
(***************************************************************************)
CONSTANTS Cameras, Ranges, HfrRange, LowestRate, Mode, MaxReports, MaxOpens
VARIABLES adapter, client, given, call, cams, reported, reports, opens

Thermal == INSTANCE QCameraThermal

\* Every camera has its fields, whatever they hold.
Fields == {"open", "state", "queue", "level", "fps", "sent", "skip"}
AreCameras(f) ==
    /\ f = [c \in Cameras |-> f[c]]
    /\ \A c \in Cameras : DOMAIN f[c] = Fields /\ f[c].open \in BOOLEAN

Handles == {adapter.mCameraHandle, adapter.mCamcorderHandle}

AdapterTypes ==
    /\ adapter \in [mCallback : Cameras \cup {Thermal!None}, mHandle : BOOLEAN, syms : BOOLEAN,
                    mCameraHandle : Nat, mCamcorderHandle : Nat]
    /\ given \in Nat /\ client \subseteq Nat \ {Thermal!None}
    /\ call \in [handle : Nat, level : Thermal!Levels, target : Cameras \cup {Thermal!None}]
    /\ AreCameras(cams)

\* What the client has is what the adapter will unregister, for the open camera.
ClientFollowsAdapter ==
    client # {} =>
      /\ adapter.mHandle /\ adapter.syms /\ client \subseteq Handles
      /\ adapter.mCallback \in Cameras /\ cams[adapter.mCallback].open

\* A callback that runs is one the client has, for the camera it was made for.
RunningIsRegistered ==
    /\ call.handle # Thermal!None => call.handle \in client /\ call.target = adapter.mCallback
    /\ call.handle = Thermal!None => call.target = Thermal!None

OneOpen == \A c, d \in Cameras : cams[c].open /\ cams[d].open => c = d

AdapterInv == AdapterTypes /\ ClientFollowsAdapter /\ RunningIsRegistered /\ OneOpen

-----------------------------------------------------------------------------
\* A camera is replaced by one that is open or not, or has a field changed.
LEMMA Replaced ==
  ASSUME NEW f, AreCameras(f), NEW c \in Cameras, NEW x, DOMAIN x = Fields, x.open \in BOOLEAN
  PROVE  /\ AreCameras([f EXCEPT ![c] = x])
         /\ \A d \in Cameras : [f EXCEPT ![c] = x][d].open = IF d = c THEN x.open ELSE f[d].open
  BY DEF AreCameras

LEMMA FieldSet ==
  ASSUME NEW x, DOMAIN x = Fields, NEW y
  PROVE  /\ DOMAIN [x EXCEPT !.queue = y] = Fields /\ [x EXCEPT !.queue = y].open = x.open
         /\ DOMAIN [x EXCEPT !.level = y] = Fields /\ [x EXCEPT !.level = y].open = x.open
         /\ DOMAIN [x EXCEPT !.sent = y] = Fields /\ [x EXCEPT !.sent = y].open = x.open
         /\ DOMAIN [x EXCEPT !.skip = y] = Fields /\ [x EXCEPT !.skip = y].open = x.open
         /\ DOMAIN [x EXCEPT !.fps = y] = Fields /\ [x EXCEPT !.fps = y].open = x.open
         /\ DOMAIN [x EXCEPT !.state = y] = Fields /\ [x EXCEPT !.state = y].open = x.open
  BY DEF Fields

LEMMA ClosedCamera == DOMAIN Thermal!Closed = Fields /\ Thermal!Closed.open = FALSE
  BY DEF Thermal!Closed, Fields

LEMMA InitAdapter ==
  ASSUME Thermal!ThermalAssumption, Thermal!Init PROVE AdapterInv
<1>1. AreCameras(cams) /\ \A c \in Cameras : cams[c].open = FALSE
  BY ClosedCamera DEF Thermal!Init, AreCameras
<1>2. AdapterTypes
  BY <1>1 DEF Thermal!ThermalAssumption, Thermal!Init, Thermal!NoAdapter, Thermal!Idle, Thermal!None, Thermal!Levels, AdapterTypes
<1> QED
  BY <1>1, <1>2 DEF Thermal!Init, Thermal!Idle, Thermal!None, AdapterInv, ClientFollowsAdapter, RunningIsRegistered,
                    OneOpen

\* What a step of the state machine or the application does to a camera
\* concerns nothing the adapter looks at.
LEMMA CameraWorks ==
  ASSUME AdapterInv, UNCHANGED <<adapter, client, given, call>>, AreCameras(cams'),
         \A c \in Cameras : cams'[c].open = cams[c].open
  PROVE  AdapterInv'
<1>1. AdapterTypes'
  BY DEF AdapterInv, AdapterTypes
<1>2. ClientFollowsAdapter'
  BY DEF AdapterInv, ClientFollowsAdapter, Handles
<1>3. RunningIsRegistered' /\ OneOpen'
  BY DEF AdapterInv, RunningIsRegistered, OneOpen
<1> QED
  BY <1>1, <1>2, <1>3 DEF AdapterInv

\* While no camera is open nothing is registered and no callback runs, so that
\* what a failing init() leaves in the singleton does no harm.
LEMMA OpenKeeps ==
  ASSUME Thermal!ThermalAssumption, AdapterInv, NEW c \in Cameras, Thermal!openCamera(c)
  PROVE  AdapterInv'
<1> USE DEF AdapterInv
<1>1. client = {} /\ call.handle = Thermal!None /\ call.target = Thermal!None
  BY DEF Thermal!openCamera, ClientFollowsAdapter, RunningIsRegistered
<1>2. call' = call
  BY DEF Thermal!openCamera
<1>3. AreCameras(cams') /\ \A d \in Cameras : cams'[d].open = (d = c)
  <2>1. PICK r \in Ranges : cams' =
           [cams EXCEPT ![c] = Thermal!Send([Thermal!Closed EXCEPT !.open = TRUE, !.fps = r],
                                    Thermal!recalcFPSRange("NO_ADJUSTMENT", r))]
    BY DEF Thermal!openCamera
  <2> DEFINE x == Thermal!Send([Thermal!Closed EXCEPT !.open = TRUE, !.fps = r], Thermal!recalcFPSRange("NO_ADJUSTMENT", r))
  <2>2. DOMAIN x = Fields /\ x.open = TRUE
    BY ClosedCamera DEF Thermal!Send, Fields
  <2>3. \A d \in Cameras : cams[d].open = FALSE
    BY DEF Thermal!openCamera, AdapterTypes, AreCameras
  <2> HIDE DEF x
  <2>4. AreCameras(cams) /\ cams' = [cams EXCEPT ![c] = x]
    BY <2>1 DEF AdapterTypes, x
  <2>5. /\ AreCameras(cams')
        /\ \A d \in Cameras : cams'[d].open = IF d = c THEN x.open ELSE cams[d].open
    BY <2>2, <2>4 DEF AreCameras
  <2> QED
    BY <2>2, <2>3, <2>5
<1>4. OneOpen'
  BY <1>3 DEF OneOpen
<1>5. CASE client' = {} /\ given' \in Nat /\
           adapter' \in [mCallback : Cameras \cup {Thermal!None}, mHandle : BOOLEAN, syms : BOOLEAN,
                         mCameraHandle : Nat, mCamcorderHandle : Nat]
  BY <1>1, <1>2, <1>3, <1>4, <1>5
     DEF AdapterTypes, ClientFollowsAdapter, RunningIsRegistered
<1>6. CASE Thermal!LibraryMissing(c) \/ Thermal!RegisterFails(c) \/ Thermal!SecondFails(c)
  <2>1. CASE Thermal!LibraryMissing(c)
    BY <1>1, <1>5, <2>1 DEF Thermal!LibraryMissing, AdapterTypes, Thermal!None
  <2>2. CASE Thermal!RegisterFails(c)
    BY <1>1, <1>5, <2>2 DEF Thermal!RegisterFails, AdapterTypes, Thermal!NoAdapter, Thermal!None
  <2>3. CASE Thermal!SecondFails(c)
    <3>1. client' = {} /\ given' \in Nat
      BY <1>1, <2>3 DEF Thermal!SecondFails, AdapterTypes
    <3>2. adapter' = [Thermal!NoAdapter EXCEPT !.mCallback = c, !.syms = TRUE]
      BY <2>3 DEF Thermal!SecondFails
    <3> QED
      BY <1>5, <3>1, <3>2 DEF Thermal!NoAdapter, Thermal!None
  <2> QED
    BY <1>6, <2>1, <2>2, <2>3
<1>7. CASE /\ adapter' = [mCallback |-> c, mHandle |-> TRUE, syms |-> TRUE,
                          mCameraHandle |-> given + 1, mCamcorderHandle |-> given + 2]
           /\ client' = client \cup Thermal!Fresh(2) /\ given' = given + 2
  <2>1. client' = {given + 1, given + 2} /\ given \in Nat
    BY <1>1, <1>7 DEF Thermal!Fresh, AdapterTypes
  <2>2. AdapterTypes'
    BY <1>2, <1>3, <1>7, <2>1 DEF AdapterTypes, Thermal!None
  <2>3. ClientFollowsAdapter' /\ RunningIsRegistered'
    BY <1>1, <1>2, <1>3, <1>7, <2>1 DEF ClientFollowsAdapter, RunningIsRegistered, Handles
  <2> QED
    BY <1>4, <2>2, <2>3
<1> QED
  BY <1>6, <1>7 DEF Thermal!openCamera, Thermal!init

\* deinit() takes back all that is registered, and waits for what is running.
LEMMA CloseKeeps ==
  ASSUME AdapterInv, NEW c \in Cameras, Thermal!closeCamera(c)
  PROVE  AdapterInv'
<1> USE DEF AdapterInv
<1>1. client' = {} /\ adapter' = Thermal!NoAdapter /\ UNCHANGED <<given, call>>
  BY DEF Thermal!closeCamera, Thermal!deinit, Thermal!Unregistered, ClientFollowsAdapter, Handles
<1>2. call.handle = Thermal!None /\ call.target = Thermal!None
  BY DEF Thermal!closeCamera, Thermal!deinit, Thermal!Unregistered, ClientFollowsAdapter, RunningIsRegistered,
         Handles
<1>3. AreCameras(cams') /\ \A d \in Cameras : cams'[d].open = (cams[d].open /\ d # c)
  BY Replaced, ClosedCamera DEF Thermal!closeCamera, AdapterTypes, AreCameras
<1>4. AdapterTypes'
  BY <1>1, <1>3 DEF AdapterTypes, Thermal!NoAdapter, Thermal!None
<1>5. ClientFollowsAdapter' /\ RunningIsRegistered' /\ OneOpen'
  BY <1>1, <1>2, <1>3 DEF ClientFollowsAdapter, RunningIsRegistered, OneOpen
<1> QED
  BY <1>4, <1>5

LEMMA ReportKeeps == ASSUME AdapterInv, Thermal!ReportLevel PROVE AdapterInv'
<1> USE DEF AdapterInv
<1>1. PICK h \in client, l \in Thermal!Levels :
           call' = [handle |-> h, level |-> l, target |-> adapter.mCallback]
  BY DEF Thermal!ReportLevel
<1>2. h # Thermal!None /\ UNCHANGED <<adapter, client, given, cams>>
  BY DEF Thermal!ReportLevel, AdapterTypes
<1>3. AdapterTypes'
  BY <1>1, <1>2 DEF AdapterTypes
<1>4. ClientFollowsAdapter' /\ RunningIsRegistered' /\ OneOpen'
  BY <1>1, <1>2 DEF ClientFollowsAdapter, RunningIsRegistered, OneOpen, Handles
<1> QED
  BY <1>3, <1>4

LEMMA HandleKeeps == ASSUME AdapterInv, Thermal!thermalEvtHandle PROVE AdapterInv'
<1> USE DEF AdapterInv
<1>1. call' = Thermal!Idle /\ UNCHANGED <<adapter, client, given>>
  BY DEF Thermal!thermalEvtHandle
<1>2. AreCameras(cams') /\ \A c \in Cameras : cams'[c].open = cams[c].open
  <2>1. CASE UNCHANGED cams
    BY <2>1 DEF AdapterTypes
  <2>2. CASE /\ call.target \in Cameras
             /\ cams' = [cams EXCEPT ![call.target].queue = Append(@, call.level)]
    <3> DEFINE x == [cams[call.target] EXCEPT !.queue = Append(@, call.level)]
    <3>1. DOMAIN x = Fields /\ x.open = cams[call.target].open /\ x.open \in BOOLEAN
      BY <2>2, FieldSet DEF AdapterTypes, AreCameras
    <3>2. cams' = [cams EXCEPT ![call.target] = x]
      BY <2>2
    <3> HIDE DEF x
    <3>3. /\ AreCameras(cams')
          /\ \A c \in Cameras :
                cams'[c].open = IF c = call.target THEN x.open ELSE cams[c].open
      BY <2>2, <3>1, <3>2 DEF AdapterTypes, AreCameras
    <3> QED
      BY <3>1, <3>3
  <2> QED
    BY <2>1, <2>2 DEF Thermal!thermalEvtHandle, AdapterTypes
<1>3. AdapterTypes'
  BY <1>1, <1>2 DEF AdapterTypes, Thermal!Idle, Thermal!None, Thermal!Levels
<1>4. ClientFollowsAdapter' /\ RunningIsRegistered' /\ OneOpen'
  BY <1>1, <1>2 DEF ClientFollowsAdapter, RunningIsRegistered, OneOpen, Handles, Thermal!Idle,
                    AdapterTypes
<1> QED
  BY <1>3, <1>4

LEMMA NextAdapter ==
  ASSUME Thermal!ThermalAssumption, AdapterInv, [Thermal!Next]_(Thermal!vars) PROVE AdapterInv'
<1> USE DEF AdapterInv
<1>1. ASSUME NEW c \in Cameras, Thermal!procThermalNotify(c) \/ Thermal!setPreviewFpsRange(c) \/ Thermal!OtherCommand(c)
      PROVE  AdapterInv'
  <2>1. UNCHANGED <<adapter, client, given, call>>
    BY <1>1 DEF Thermal!procThermalNotify, Thermal!setPreviewFpsRange, Thermal!OtherCommand
  <2>2. AreCameras(cams') /\ \A d \in Cameras : cams'[d].open = cams[d].open
    <3>1. DOMAIN cams[c] = Fields /\ AreCameras(cams)
      BY DEF AdapterTypes, AreCameras
    <3>2. \E x : cams' = [cams EXCEPT ![c] = x] /\ DOMAIN x = Fields /\ x.open = cams[c].open
      <4>1. ASSUME Thermal!procThermalNotify(c)
            PROVE  \E x : cams' = [cams EXCEPT ![c] = x] /\ DOMAIN x = Fields /\ x.open = cams[c].open
        <5> DEFINE cam == [cams[c] EXCEPT !.queue = Tail(@)]
                   known == [cam EXCEPT !.level = Head(cams[c].queue)]
                   adjusted == Thermal!calcThermalLevel(Head(cams[c].queue), cam.fps)
                   x == IF cam.state \in Thermal!Drops THEN cam
                        ELSE IF Mode = "fps"
                             THEN [known EXCEPT !.sent = <<adjusted.fps, adjusted.video>>]
                             ELSE [known EXCEPT !.skip = adjusted.skip]
        <5>1. cams' = [cams EXCEPT ![c] = x]
          BY <4>1 DEF Thermal!procThermalNotify, Thermal!updateThermalLevel, Thermal!Send
        <5>2. DOMAIN cam = Fields /\ cam.open = cams[c].open
          BY <3>1, FieldSet
        <5>3. DOMAIN known = Fields /\ known.open = cams[c].open
          BY <5>2, FieldSet
        <5> HIDE DEF cam, known, adjusted
        <5>4. DOMAIN x = Fields /\ x.open = cams[c].open
          BY <5>2, <5>3, FieldSet
        <5> QED
          BY <5>1, <5>4
      <4>2. ASSUME Thermal!setPreviewFpsRange(c)
            PROVE  \E x : cams' = [cams EXCEPT ![c] = x] /\ DOMAIN x = Fields /\ x.open = cams[c].open
        <5>1. PICK r \in Ranges :
                cams' = [cams EXCEPT ![c] = Thermal!Send([@ EXCEPT !.fps = r], Thermal!recalcFPSRange(@.level, r))]
          BY <4>2 DEF Thermal!setPreviewFpsRange
        <5> DEFINE x == Thermal!Send([cams[c] EXCEPT !.fps = r], Thermal!recalcFPSRange(cams[c].level, r))
        <5>2. cams' = [cams EXCEPT ![c] = x]
          BY <5>1
        <5>3. DOMAIN x = Fields /\ x.open = cams[c].open
          BY <3>1, FieldSet DEF Thermal!Send
        <5> QED
          BY <5>2, <5>3
      <4>3. ASSUME Thermal!OtherCommand(c)
            PROVE  \E x : cams' = [cams EXCEPT ![c] = x] /\ DOMAIN x = Fields /\ x.open = cams[c].open
        <5>1. PICK s \in Thermal!States : cams' = [cams EXCEPT ![c].state = s]
          BY <4>3 DEF Thermal!OtherCommand
        <5> DEFINE x == [cams[c] EXCEPT !.state = s]
        <5>2. cams' = [cams EXCEPT ![c] = x]
          BY <5>1
        <5>3. DOMAIN x = Fields /\ x.open = cams[c].open
          BY <3>1, FieldSet
        <5> QED
          BY <5>2, <5>3
      <4> QED
        BY <1>1, <4>1, <4>2, <4>3
    <3> QED
      BY <3>1, <3>2, Replaced DEF AreCameras
  <2> QED
    BY <2>1, <2>2, CameraWorks
<1>2. CASE UNCHANGED Thermal!vars
  BY <1>2, CameraWorks DEF Thermal!vars, AdapterTypes
<1> QED
  BY <1>1, <1>2, OpenKeeps, CloseKeeps, ReportKeeps, HandleKeeps DEF Thermal!Next

-----------------------------------------------------------------------------
\* No callback of the thermal client reaches a camera that was closed and
\* deleted, whichever part of init() failed and however reports and closes
\* follow each other.
THEOREM ClosedCamerasLeftAlone ==
  ASSUME Thermal!ThermalAssumption
  PROVE  Thermal!Spec => []Thermal!NoCallAfterClose
<1>1. Thermal!Init => AdapterInv
  BY InitAdapter
<1>2. AdapterInv /\ [Thermal!Next]_(Thermal!vars) => AdapterInv'
  BY NextAdapter
<1>3. AdapterInv => Thermal!NoCallAfterClose
  BY DEF AdapterInv, RunningIsRegistered, ClientFollowsAdapter, Thermal!NoCallAfterClose
<1> QED
  BY <1>1, <1>2, <1>3, PTL DEF Thermal!Spec

\* The client has no callback of an adapter that closed the client's library.
THEOREM LibraryStays ==
  ASSUME Thermal!ThermalAssumption
  PROVE  Thermal!Spec => []Thermal!LibraryThere
<1>1. Thermal!Init => AdapterInv
  BY InitAdapter
<1>2. AdapterInv /\ [Thermal!Next]_(Thermal!vars) => AdapterInv'
  BY NextAdapter
<1>3. AdapterInv => Thermal!LibraryThere
  BY DEF AdapterInv, ClientFollowsAdapter, Thermal!LibraryThere
<1> QED
  BY <1>1, <1>2, <1>3, PTL DEF Thermal!Spec

=============================================================================
