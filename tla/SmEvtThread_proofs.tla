-------------------------- MODULE SmEvtThread_proofs --------------------------
(***************************************************************************)
(* What SmEvtThread promises, for any number of threads and nodes.         *)
(***************************************************************************)
EXTENDS SmEvtThread, FunctionTheorems, FiniteSetTheorems, SequenceTheorems, TLAPS

USE DEF Posters

-----------------------------------------------------------------------------
(* Types. *)

LEMMA InitTypes == Init => TypeOK
  BY DEF Init, TypeOK

LEMMA NextTypes == TypeOK /\ [Next]_vars => TypeOK'
<1> SUFFICES ASSUME TypeOK, [Next]_vars PROVE TypeOK'
  OBVIOUS
<1> USE PostersAssumption DEF TypeOK
<1>1. ASSUME NEW p \in ApiPosters, procAPI(p) PROVE TypeOK'
  BY <1>1 DEF procAPI, CanPost, Enqueued
<1>2. ASSUME NEW p \in EvtPosters, procEvt(p) PROVE TypeOK'
  BY <1>2 DEF procEvt, CanPost, Enqueued
<1>3. ASSUME NEW p \in Posters, SemPost(p) PROVE TypeOK'
  BY <1>3 DEF SemPost
<1>4. CASE SemWait
  BY <1>4 DEF SemWait
<1>5. CASE DequeueApi
  <2>1. CASE api_queue = <<>>
    BY <1>5, <2>1 DEF DequeueApi
  <2>2. CASE api_queue # <<>>
    <3>1. Head(api_queue) \in ApiPosters \cup {Exit} /\ Tail(api_queue) \in Seq(ApiPosters \cup {Exit})
      BY <2>2, HeadTailProperties
    <3> QED
      BY <1>5, <2>2, <3>1 DEF DequeueApi
  <2> QED
    BY <2>1, <2>2
<1>6. CASE DequeueEvt
  <2>1. CASE evt_queue = <<>>
    BY <1>6, <2>1 DEF DequeueEvt
  <2>2. CASE evt_queue # <<>>
    <3>1. Head(evt_queue) \in EvtPosters /\ Tail(evt_queue) \in Seq(EvtPosters)
      BY <2>2, HeadTailProperties
    <3> QED
      BY <1>6, <2>2, <3>1 DEF DequeueEvt
  <2> QED
    BY <2>1, <2>2
<1>7. CASE HandleNode
  <2>1. handled' \in [Posters -> Nat]
    BY <1>7 DEF HandleNode
  <2>2. node' = NoNode /\ pc' \in {"exited", "waiting"}
    BY <1>7 DEF HandleNode
  <2>3. UNCHANGED <<api_queue, evt_queue, cmd_sem, posting, posts, owner>>
    BY <1>7 DEF HandleNode
  <2> QED
    BY <2>1, <2>2, <2>3
<1>8. CASE PostExit
  BY <1>8 DEF PostExit
<1>9. CASE SignalExit
  BY <1>9 DEF SignalExit
<1>10. CASE Join
  BY <1>10 DEF Join
<1>11. CASE UNCHANGED vars
  BY <1>11 DEF vars
<1> QED
  BY <1>1, <1>2, <1>3, <1>4, <1>5, <1>6, <1>7, <1>8, <1>9, <1>10, <1>11 DEF Next, Thread

\* The variables always have their types: in particular no wake-up is taken
\* that was not given (SemWait).
THEOREM TypeCorrect == Spec => []TypeOK
  BY InitTypes, NextTypes, PTL DEF Spec

-----------------------------------------------------------------------------
(* Wake-ups.  WakeupsMatchNodes holds of the threads between enqueue() and   *)
(* cam_sem_post() one by one, so there must be finitely many of them; and    *)
(* only with it does DequeueApi, finding no API command, know of an event.   *)

WakeupInv == IsFiniteSet(posting) /\ WakeupsMatchNodes /\ NeverWokenForNothing

LEMMA InitWakeups == Init => WakeupInv
  BY FS_EmptySet
     DEF Init, WakeupInv, WakeupsMatchNodes, NeverWokenForNothing, Fetching, Leaving

LEMMA NextWakeups == TypeOK /\ WakeupInv /\ [Next]_vars => WakeupInv'
<1> SUFFICES ASSUME TypeOK, WakeupInv, [Next]_vars PROVE WakeupInv'
  OBVIOUS
<1>a. /\ api_queue \in Seq(ApiPosters \cup {Exit}) /\ evt_queue \in Seq(EvtPosters)
      /\ posting \subseteq Posters /\ IsFiniteSet(posting)
  BY DEF TypeOK, WakeupInv
<1>0. /\ Cardinality(posting) \in Nat /\ Len(api_queue) \in Nat /\ Len(evt_queue) \in Nat
      /\ cmd_sem \in Nat
  BY <1>a, FS_CardinalityType DEF TypeOK
<1> USE DEF WakeupInv, WakeupsMatchNodes, NeverWokenForNothing, Fetching, Leaving
<1>1. ASSUME NEW p \in ApiPosters, procAPI(p) PROVE WakeupInv'
  <2>1. IsFiniteSet(posting \cup {p}) /\ Cardinality(posting \cup {p}) = Cardinality(posting) + 1
    BY <1>1, <1>a, FS_AddElement DEF procAPI, CanPost
  <2>2. Len(Append(api_queue, p)) = Len(api_queue) + 1
    BY ONLY <1>a, AppendProperties
  <2>3. /\ api_queue' = Append(api_queue, p) /\ posting' = posting \cup {p}
        /\ UNCHANGED <<evt_queue, cmd_sem, pc, owner>>
    BY <1>1 DEF procAPI, Enqueued
  <2> QED
    BY <1>0, <2>1, <2>2, <2>3
<1>2. ASSUME NEW p \in EvtPosters, procEvt(p) PROVE WakeupInv'
  <2>1. IsFiniteSet(posting \cup {p}) /\ Cardinality(posting \cup {p}) = Cardinality(posting) + 1
    BY <1>2, <1>a, FS_AddElement DEF procEvt, CanPost
  <2>2. Len(Append(evt_queue, p)) = Len(evt_queue) + 1 /\ Append(evt_queue, p) # <<>>
    BY ONLY <1>a, AppendProperties
  <2>3. /\ evt_queue' = Append(evt_queue, p) /\ posting' = posting \cup {p}
        /\ UNCHANGED <<api_queue, cmd_sem, pc, owner>>
    BY <1>2 DEF procEvt, Enqueued
  <2> QED
    BY <1>0, <2>1, <2>2, <2>3
<1>3. ASSUME NEW p \in Posters, SemPost(p) PROVE WakeupInv'
  <2>1. IsFiniteSet(posting \ {p}) /\ Cardinality(posting \ {p}) = Cardinality(posting) - 1
    BY <1>3, <1>a, FS_RemoveElement DEF SemPost
  <2> QED
    BY <1>0, <1>3, <2>1 DEF SemPost
<1>4. CASE SemWait
  BY <1>0, <1>4 DEF SemWait
<1>5. CASE DequeueApi
  <2>1. CASE api_queue = <<>>
    <3>1. Len(evt_queue) > 0
      BY <1>0, <1>5, <2>1 DEF DequeueApi
    <3> QED
      BY <1>5, <2>1, <3>1 DEF DequeueApi
  <2>2. CASE api_queue # <<>>
    <3>1. Len(Tail(api_queue)) = Len(api_queue) - 1
      BY <2>2, <1>a, HeadTailProperties
    <3> QED
      BY <1>0, <1>5, <2>2, <3>1 DEF DequeueApi
  <2> QED
    BY <2>1, <2>2
<1>6. CASE DequeueEvt
  <2>1. evt_queue # <<>> /\ Len(Tail(evt_queue)) = Len(evt_queue) - 1
    BY <1>6, <1>a, HeadTailProperties DEF DequeueEvt
  <2> QED
    BY <1>0, <1>6, <2>1 DEF DequeueEvt
<1>7. CASE HandleNode
  BY <1>7 DEF HandleNode
<1>8. CASE PostExit
  <2>1. Len(Append(api_queue, Exit)) = Len(api_queue) + 1
    BY ONLY <1>a, AppendProperties
  <2> QED
    BY <1>0, <1>8, <2>1 DEF PostExit
<1>9. CASE SignalExit
  BY <1>0, <1>9 DEF SignalExit
<1>10. CASE Join
  BY <1>10 DEF Join
<1>11. CASE UNCHANGED vars
  BY <1>11 DEF vars
<1> QED
  BY <1>1, <1>2, <1>3, <1>4, <1>5, <1>6, <1>7, <1>8, <1>9, <1>10, <1>11 DEF Next, Thread

LEMMA WakeupInvariant == Spec => [](TypeOK /\ WakeupInv)
<1>1. Init => TypeOK /\ WakeupInv
  BY InitTypes, InitWakeups
<1>2. (TypeOK /\ WakeupInv) /\ [Next]_vars => (TypeOK /\ WakeupInv)'
  BY NextTypes, NextWakeups
<1> QED
  BY <1>1, <1>2, PTL DEF Spec

\* The semaphore and the two queues never get out of step.
THEOREM WakeupsCorrect == Spec => []WakeupsMatchNodes
<1>1. WakeupInv => WakeupsMatchNodes
  BY DEF WakeupInv
<1> QED
  BY <1>1, WakeupInvariant, PTL

\* The thread that finds no API command finds an event.
THEOREM AlwaysWokenForSomething == Spec => []NeverWokenForNothing
<1>1. WakeupInv => NeverWokenForNothing
  BY DEF WakeupInv
<1> QED
  BY <1>1, WakeupInvariant, PTL

-----------------------------------------------------------------------------
(* Refinement.  The queue of events and the hand of CommandQueues, as the    *)
(* thread's variables stand for them.                                        *)

Events == IF pc = "noapi" THEN Tail(evt_queue) ELSE evt_queue
Hand   == IF pc = "noapi" THEN Head(evt_queue) ELSE node

\* The thread holds a node while it handles one and at no other time.
HandInv == pc = "handling" <=> node # NoNode

LEMMA NextHand == TypeOK /\ WakeupInv /\ HandInv /\ [Next]_vars => HandInv'
<1> SUFFICES ASSUME TypeOK, WakeupInv, HandInv, [Next]_vars PROVE HandInv'
  OBVIOUS
<1> USE PostersAssumption DEF HandInv
<1>1. ASSUME NEW p \in ApiPosters, procAPI(p) PROVE HandInv'
  BY <1>1 DEF procAPI, Enqueued
<1>2. ASSUME NEW p \in EvtPosters, procEvt(p) PROVE HandInv'
  BY <1>2 DEF procEvt, Enqueued
<1>3. ASSUME NEW p \in Posters, SemPost(p) PROVE HandInv'
  BY <1>3 DEF SemPost
<1>4. CASE SemWait
  BY <1>4 DEF SemWait
<1>5. CASE DequeueApi
  <2>1. CASE api_queue = <<>>
    BY <1>5, <2>1 DEF DequeueApi
  <2>2. CASE api_queue # <<>>
    <3>1. Head(api_queue) \in ApiPosters \cup {Exit}
      BY <2>2, HeadTailProperties DEF TypeOK
    <3> QED
      BY <1>5, <2>2, <3>1 DEF DequeueApi
  <2> QED
    BY <2>1, <2>2
<1>6. CASE DequeueEvt
  <2>1. evt_queue # <<>> /\ Head(evt_queue) \in EvtPosters
    BY <1>6, HeadTailProperties DEF DequeueEvt, TypeOK, WakeupInv, NeverWokenForNothing
  <2> QED
    BY <1>6, <2>1 DEF DequeueEvt
<1>7. CASE HandleNode
  BY <1>7 DEF HandleNode
<1>8. CASE PostExit
  BY <1>8 DEF PostExit
<1>9. CASE SignalExit
  BY <1>9 DEF SignalExit
<1>10. CASE Join
  BY <1>10 DEF Join
<1>11. CASE UNCHANGED vars
  BY <1>11 DEF vars
<1> QED
  BY <1>1, <1>2, <1>3, <1>4, <1>5, <1>6, <1>7, <1>8, <1>9, <1>10, <1>11 DEF Next, Thread

\* An event posted while the thread is between its two queues goes behind the
\* one it is about to take.
LEMMA PostKeepsHand ==
    ASSUME TypeOK, WakeupInv, NEW p \in EvtPosters, procEvt(p)
    PROVE  Events' = Append(Events, p) /\ Hand' = Hand
<1>1. evt_queue' = Append(evt_queue, p) /\ UNCHANGED <<pc, node>>
  BY DEF procEvt, Enqueued
<1>2. CASE pc = "noapi"
  <2>1. evt_queue # <<>> /\ evt_queue \in Seq(EvtPosters)
    BY <1>2 DEF WakeupInv, NeverWokenForNothing, TypeOK
  <2>2. /\ Head(Append(evt_queue, p)) = Head(evt_queue)
        /\ Tail(Append(evt_queue, p)) = Append(Tail(evt_queue), p)
    BY ONLY <2>1, HeadTailAppend
  <2> QED
    BY <1>1, <1>2, <2>2 DEF Events, Hand
<1>3. CASE pc # "noapi"
  BY <1>1, <1>3 DEF Events, Hand
<1> QED
  BY <1>2, <1>3

LEMMA StepImplements ==
    ASSUME TypeOK, WakeupInv, HandInv, [Next]_vars
    PROVE  [Q!Next]_(Q!vars)
<1> DEFINE Stutter == UNCHANGED <<api_queue, Events, Hand>>
<1>0. Stutter => UNCHANGED Q!vars
  BY DEF Q!vars, Events, Hand
<1> USE PostersAssumption
<1>1. ASSUME NEW p \in ApiPosters, procAPI(p) PROVE Q!Next
  <2>1. api_queue' = Append(api_queue, p) /\ UNCHANGED <<Events, Hand>>
    BY <1>1 DEF procAPI, Enqueued, Events, Hand
  <2> QED
    BY <2>1 DEF Q!Next, Q!PostApi, Events, Hand
<1>2. ASSUME NEW p \in EvtPosters, procEvt(p) PROVE Q!Next
  <2>1. Events' = Append(Events, p) /\ UNCHANGED <<api_queue, Hand>>
    BY <1>2, PostKeepsHand DEF procEvt
  <2> QED
    BY <2>1 DEF Q!Next, Q!PostEvt, Events, Hand
<1>3. ASSUME NEW p \in Posters, SemPost(p) PROVE Stutter
  BY <1>3 DEF SemPost, Events, Hand
<1>4. CASE SemWait
  BY <1>0, <1>4 DEF SemWait, Events, Hand
<1>5. CASE DequeueApi
  <2>1. node = NoNode
    BY <1>5 DEF DequeueApi, HandInv
  <2>2. CASE api_queue = <<>>
    <3>1. evt_queue' # <<>>
      BY <1>5, <2>2, NextWakeups DEF DequeueApi, WakeupInv, NeverWokenForNothing
    <3>2. /\ Hand = NoNode /\ Events = evt_queue /\ UNCHANGED api_queue
          /\ evt_queue # <<>> /\ Hand' = Head(evt_queue) /\ Events' = Tail(evt_queue)
      BY <1>5, <2>1, <2>2, <3>1 DEF DequeueApi, Events, Hand
    <3> QED
      BY <2>2, <3>2 DEF Q!Next, Q!Take, Events, Hand
  <2>3. CASE api_queue # <<>>
    <3>1. /\ Hand = NoNode /\ UNCHANGED Events
          /\ Hand' = Head(api_queue) /\ api_queue' = Tail(api_queue)
      BY <1>5, <2>1, <2>3 DEF DequeueApi, Events, Hand
    <3> QED
      BY <2>3, <3>1 DEF Q!Next, Q!Take, Events, Hand
  <2> QED
    BY <2>2, <2>3
<1>6. CASE DequeueEvt
  <2>1. evt_queue # <<>>
    BY <1>6 DEF DequeueEvt, WakeupInv, NeverWokenForNothing
  <2> QED
    BY <1>0, <1>6, <2>1 DEF DequeueEvt, Events, Hand
<1>7. CASE HandleNode
  <2>1. Hand # NoNode /\ Hand' = NoNode /\ UNCHANGED <<api_queue, Events>>
    BY <1>7 DEF HandleNode, HandInv, Events, Hand
  <2> QED
    BY <2>1 DEF Q!Next, Q!Finish, Events, Hand
<1>8. CASE PostExit
  <2>1. api_queue' = Append(api_queue, Exit) /\ UNCHANGED <<Events, Hand>>
    BY <1>8 DEF PostExit, Events, Hand
  <2> QED
    BY <2>1 DEF Q!Next, Q!PostApi, Events, Hand
<1>9. CASE SignalExit
  BY <1>0, <1>9 DEF SignalExit, Events, Hand
<1>10. CASE Join
  BY <1>0, <1>10 DEF Join, Events, Hand
<1>11. CASE UNCHANGED vars
  BY <1>0, <1>11 DEF vars, Events, Hand
<1> QED
  BY <1>0, <1>1, <1>2, <1>3, <1>4, <1>5, <1>6, <1>7, <1>8, <1>9, <1>10, <1>11 DEF Next,
       Thread

\* The thread and its posters implement the queues the rest of the HAL relies
\* on: CommandQueues.
THEOREM ImplementsQueues == Spec => QueuesSpec
<1>1. Init => TypeOK /\ WakeupInv /\ HandInv
  BY InitTypes, InitWakeups DEF Init, HandInv
<1>2. (TypeOK /\ WakeupInv /\ HandInv) /\ [Next]_vars => (TypeOK /\ WakeupInv /\ HandInv)'
  BY NextTypes, NextWakeups, NextHand
<1>3. Init => Q!Init
  BY DEF Init, Q!Init
<1>4. (TypeOK /\ WakeupInv /\ HandInv) /\ [Next]_vars => [Q!Next]_(Q!vars)
  BY StepImplements
<1> QED
  BY <1>1, <1>2, <1>3, <1>4, PTL DEF Spec, QueuesSpec, Q!Spec

-----------------------------------------------------------------------------
(* How often a node stands in a queue. *)

LEMMA CountType ==
    ASSUME NEW S, NEW s \in Seq(S), NEW p
    PROVE  /\ IsFiniteSet({i \in DOMAIN s : s[i] = p})
           /\ CountIn(s, p) \in Nat
<1>1. IsFiniteSet(DOMAIN s)
  <2>1. DOMAIN s = 1..Len(s) /\ Len(s) \in Nat
    OBVIOUS
  <2> QED
    BY <2>1, FS_Interval
<1>2. IsFiniteSet({i \in DOMAIN s : s[i] = p})
  BY <1>1, FS_Subset
<1> QED
  BY <1>2, FS_CardinalityType DEF CountIn

LEMMA CountEmpty == \A p : CountIn(<<>>, p) = 0
<1> SUFFICES ASSUME NEW p PROVE CountIn(<<>>, p) = 0
  OBVIOUS
<1>1. {i \in DOMAIN <<>> : <<>>[i] = p} = {}
  OBVIOUS
<1> QED
  BY <1>1, FS_EmptySet DEF CountIn

LEMMA CountAbsent ==
    ASSUME NEW S, NEW s \in Seq(S), NEW p, p \notin S
    PROVE  CountIn(s, p) = 0
<1>1. {i \in DOMAIN s : s[i] = p} = {}
  OBVIOUS
<1> QED
  BY <1>1, FS_EmptySet DEF CountIn

LEMMA CountAppend ==
    ASSUME NEW S, NEW s \in Seq(S), NEW x \in S, NEW p
    PROVE  CountIn(Append(s, x), p) = CountIn(s, p) + (IF x = p THEN 1 ELSE 0)
<1> DEFINE n == Len(s)
           Old == {i \in DOMAIN s : s[i] = p}
           New == {i \in DOMAIN Append(s, x) : Append(s, x)[i] = p}
<1>1. n \in Nat /\ DOMAIN s = 1..n /\ DOMAIN Append(s, x) = 1..(n + 1)
  <2>1. Append(s, x) \in Seq(S) /\ Len(Append(s, x)) = n + 1
    BY AppendProperties
  <2> QED
    BY <2>1
<1>2. /\ \A i \in 1..n : Append(s, x)[i] = s[i]
      /\ Append(s, x)[n + 1] = x
  BY AppendProperties
<1>3. IsFiniteSet(Old) /\ n + 1 \notin Old
  <2>1. IsFiniteSet(Old)
    BY CountType
  <2> QED
    BY <1>1, <2>1
<1>4. CASE x = p
  <2>1. New = Old \cup {n + 1}
    BY <1>1, <1>2, <1>4
  <2>2. Cardinality(New) = Cardinality(Old) + 1
    BY <1>3, <2>1, FS_AddElement
  <2>3. CountIn(s, p) = Cardinality(Old) /\ CountIn(Append(s, x), p) = Cardinality(New)
    BY DEF CountIn
  <2> HIDE DEF New, Old
  <2> QED
    BY <1>4, <2>2, <2>3
<1>5. CASE x # p
  <2>1. New = Old
    BY <1>1, <1>2, <1>5
  <2>2. CountIn(s, p) \in Nat
    BY CountType
  <2>3. CountIn(s, p) = Cardinality(Old) /\ CountIn(Append(s, x), p) = Cardinality(New)
    BY DEF CountIn
  <2> HIDE DEF New, Old
  <2> QED
    BY <1>5, <2>1, <2>2, <2>3
<1> QED
  BY <1>4, <1>5

LEMMA CountTail ==
    ASSUME NEW S, NEW s \in Seq(S), s # <<>>, NEW p
    PROVE  CountIn(s, p) = CountIn(Tail(s), p) + (IF Head(s) = p THEN 1 ELSE 0)
<1> DEFINE n == Len(s)
           All  == {i \in DOMAIN s : s[i] = p}
           Rest == {i \in DOMAIN Tail(s) : Tail(s)[i] = p}
           Next1 == [i \in Rest |-> i + 1]
<1>1. n \in Nat \ {0} /\ DOMAIN s = 1..n /\ DOMAIN Tail(s) = 1..(n - 1) /\ Head(s) = s[1]
  BY HeadTailProperties
<1>2. \A i \in 1..(n - 1) : Tail(s)[i] = s[i + 1]
  BY <1>1, HeadTailProperties
<1>3. IsFiniteSet(All) /\ IsFiniteSet(Rest) /\ Tail(s) \in Seq(S)
  <2>1. Tail(s) \in Seq(S)
    BY HeadTailProperties
  <2> QED
    BY <2>1, CountType
<1>4. Next1 \in Bijection(Rest, All \ {1})
  <2>1. Next1 \in [Rest -> All \ {1}]
    BY <1>1, <1>2
  <2>2. \A a, b \in Rest : Next1[a] = Next1[b] => a = b
    BY <1>1
  <2>3. \A t \in All \ {1} : \E i \in Rest : Next1[i] = t
    <3> SUFFICES ASSUME NEW t \in All \ {1} PROVE \E i \in Rest : Next1[i] = t
      OBVIOUS
    <3>1. t - 1 \in 1..(n - 1) /\ s[(t - 1) + 1] = p
      BY <1>1
    <3>2. t - 1 \in Rest
      BY <1>1, <1>2, <3>1
    <3> QED
      BY <1>1, <3>2
  <2> QED
    BY <2>1, <2>2, <2>3, Fun_IsBij
<1>5. Cardinality(Rest) = Cardinality(All \ {1})
  <2>1. ExistsBijection(Rest, All \ {1})
    BY <1>4 DEF ExistsBijection
  <2> QED
    BY <1>3, <2>1, FS_Bijection
<1>6. Cardinality(All \ {1}) = IF 1 \in All THEN Cardinality(All) - 1 ELSE Cardinality(All)
  BY <1>3, FS_RemoveElement
<1>7. 1 \in All <=> Head(s) = p
  BY <1>1
<1>8. Cardinality(All) \in Nat /\ Cardinality(Rest) \in Nat
  BY <1>3, FS_CardinalityType
<1>9. CountIn(s, p) = Cardinality(All) /\ CountIn(Tail(s), p) = Cardinality(Rest)
  BY DEF CountIn
<1> HIDE DEF All, Rest
<1> QED
  BY <1>5, <1>6, <1>7, <1>8, <1>9

-----------------------------------------------------------------------------
(* Nodes. *)

\* One poster's nodes: sent, handled, waiting and in the thread's hands.
Balance(p) ==
    posts[p] = handled[p] + CountIn(api_queue, p) + CountIn(evt_queue, p)
                 + (IF node = p THEN 1 ELSE 0)

LEMMA CountTypes ==
    ASSUME TypeOK, NEW p \in Posters
    PROVE  /\ CountIn(api_queue, p) \in Nat /\ CountIn(evt_queue, p) \in Nat
           /\ posts[p] \in Nat /\ handled[p] \in Nat
  BY CountType DEF TypeOK

LEMMA InitBalance == Init => \A p \in Posters : Balance(p)
  BY PostersAssumption, CountEmpty DEF Init, Balance

LEMMA NextBalance ==
    ASSUME TypeOK, HandInv, NEW p \in Posters, Balance(p), [Next]_vars
    PROVE  Balance(p)'
<1> USE PostersAssumption
<1>a. api_queue \in Seq(ApiPosters \cup {Exit}) /\ evt_queue \in Seq(EvtPosters)
  BY DEF TypeOK
<1>b. /\ CountIn(api_queue, p) \in Nat /\ CountIn(evt_queue, p) \in Nat
      /\ posts[p] \in Nat /\ handled[p] \in Nat
  BY CountTypes
<1>1. ASSUME NEW q \in ApiPosters, procAPI(q) PROVE Balance(p)'
  <2>1. CountIn(Append(api_queue, q), p) = CountIn(api_queue, p) + (IF q = p THEN 1 ELSE 0)
    BY <1>a, CountAppend
  <2>2. posts'[p] = posts[p] + (IF q = p THEN 1 ELSE 0)
    BY <1>1, <1>b DEF procAPI, Enqueued, TypeOK
  <2>3. api_queue' = Append(api_queue, q) /\ UNCHANGED <<evt_queue, handled, node>>
    BY <1>1 DEF procAPI, Enqueued
  <2>4. /\ CountIn(api_queue, p)' = CountIn(api_queue, p) + (IF q = p THEN 1 ELSE 0)
        /\ CountIn(evt_queue, p)' = CountIn(evt_queue, p)
        /\ handled'[p] = handled[p] /\ node' = node
    BY <2>1, <2>3
  <2> QED
    BY <1>b, <2>2, <2>4 DEF Balance
<1>2. ASSUME NEW q \in EvtPosters, procEvt(q) PROVE Balance(p)'
  <2>1. CountIn(Append(evt_queue, q), p) = CountIn(evt_queue, p) + (IF q = p THEN 1 ELSE 0)
    BY <1>a, CountAppend
  <2>2. posts'[p] = posts[p] + (IF q = p THEN 1 ELSE 0)
    BY <1>2, <1>b DEF procEvt, Enqueued, TypeOK
  <2>3. evt_queue' = Append(evt_queue, q) /\ UNCHANGED <<api_queue, handled, node>>
    BY <1>2 DEF procEvt, Enqueued
  <2>4. /\ CountIn(evt_queue, p)' = CountIn(evt_queue, p) + (IF q = p THEN 1 ELSE 0)
        /\ CountIn(api_queue, p)' = CountIn(api_queue, p)
        /\ handled'[p] = handled[p] /\ node' = node
    BY <2>1, <2>3
  <2> QED
    BY <1>b, <2>2, <2>4 DEF Balance
<1>3. ASSUME NEW q \in Posters, SemPost(q) PROVE Balance(p)'
  BY <1>3 DEF SemPost, Balance
<1>4. CASE SemWait
  BY <1>4 DEF SemWait, Balance
<1>5. CASE DequeueApi
  <2>1. CASE api_queue = <<>>
    BY <1>5, <2>1 DEF DequeueApi, Balance
  <2>2. CASE api_queue # <<>>
    <3>1. CountIn(api_queue, p)
            = CountIn(Tail(api_queue), p) + (IF Head(api_queue) = p THEN 1 ELSE 0)
      BY <1>a, <2>2, CountTail
    <3>2. /\ api_queue' = Tail(api_queue) /\ node' = Head(api_queue) /\ node # p
          /\ UNCHANGED <<evt_queue, handled, posts>>
      BY <1>5, <2>2 DEF DequeueApi, HandInv
    <3>3. CountIn(Tail(api_queue), p) \in Nat
      BY <1>a, <2>2, HeadTailProperties, CountType
    <3>4. CASE Head(api_queue) = p
      <4>1. posts[p] = handled[p] + CountIn(api_queue, p) + CountIn(evt_queue, p)
        BY <1>b, <3>2 DEF Balance
      <4>2. CountIn(api_queue, p) = CountIn(Tail(api_queue), p) + 1
        BY <3>1, <3>4
      <4>3. posts[p] = handled[p] + CountIn(Tail(api_queue), p) + CountIn(evt_queue, p) + 1
        BY <1>b, <3>3, <4>1, <4>2
      <4>4. node' = p /\ api_queue' = Tail(api_queue) /\ UNCHANGED <<evt_queue, handled, posts>>
        BY <3>2, <3>4
      <4> HIDE <3>4
      <4> QED
        BY <4>3, <4>4 DEF Balance
    <3>5. CASE Head(api_queue) # p
      BY <1>b, <3>1, <3>2, <3>3, <3>5 DEF Balance
    <3> QED
      BY <3>4, <3>5
  <2> QED
    BY <2>1, <2>2
<1>6. CASE DequeueEvt
  <2>1. CASE evt_queue = <<>>
    BY <1>6, <2>1 DEF DequeueEvt, Balance
  <2>2. CASE evt_queue # <<>>
    <3>1. CountIn(evt_queue, p)
            = CountIn(Tail(evt_queue), p) + (IF Head(evt_queue) = p THEN 1 ELSE 0)
      BY <1>a, <2>2, CountTail
    <3>2. /\ evt_queue' = Tail(evt_queue) /\ node' = Head(evt_queue) /\ node # p
          /\ UNCHANGED <<api_queue, handled, posts>>
      BY <1>6, <2>2 DEF DequeueEvt, HandInv
    <3>3. CountIn(Tail(evt_queue), p) \in Nat
      BY <1>a, <2>2, HeadTailProperties, CountType
    <3>4. CASE Head(evt_queue) = p
      <4>1. posts[p] = handled[p] + CountIn(api_queue, p) + CountIn(evt_queue, p)
        BY <1>b, <3>2 DEF Balance
      <4>2. CountIn(evt_queue, p) = CountIn(Tail(evt_queue), p) + 1
        BY <3>1, <3>4
      <4>3. posts[p] = handled[p] + CountIn(api_queue, p) + CountIn(Tail(evt_queue), p) + 1
        BY <1>b, <3>3, <4>1, <4>2
      <4>4. node' = p /\ evt_queue' = Tail(evt_queue) /\ UNCHANGED <<api_queue, handled, posts>>
        BY <3>2, <3>4
      <4> HIDE <3>4
      <4> QED
        BY <4>3, <4>4 DEF Balance
    <3>5. CASE Head(evt_queue) # p
      BY <1>b, <3>1, <3>2, <3>3, <3>5 DEF Balance
    <3> QED
      BY <3>4, <3>5
  <2> QED
    BY <2>1, <2>2
<1>7. CASE HandleNode
  <2>1. handled'[p] = handled[p] + (IF node = p THEN 1 ELSE 0)
    BY <1>7, <1>b DEF HandleNode, TypeOK
  <2>2. node' # p /\ UNCHANGED <<api_queue, evt_queue, posts>>
    BY <1>7 DEF HandleNode
  <2> QED
    BY <1>b, <2>1, <2>2 DEF Balance
<1>8. CASE PostExit
  <2>1. CountIn(Append(api_queue, Exit), p) = CountIn(api_queue, p)
    BY <1>a, <1>b, CountAppend
  <2> QED
    BY <1>8, <2>1 DEF PostExit, Balance
<1>9. CASE SignalExit
  BY <1>9 DEF SignalExit, Balance
<1>10. CASE Join
  BY <1>10 DEF Join, Balance
<1>11. CASE UNCHANGED vars
  BY <1>11 DEF vars, Balance
<1> QED
  BY <1>1, <1>2, <1>3, <1>4, <1>5, <1>6, <1>7, <1>8, <1>9, <1>10, <1>11 DEF Next, Thread

NodeInv == TypeOK /\ WakeupInv /\ HandInv /\ \A p \in Posters : Balance(p)

LEMMA NodeInvariant == Spec => []NodeInv
<1>1. Init => NodeInv
  BY InitTypes, InitWakeups, InitBalance DEF NodeInv, Init, HandInv
<1>2. NodeInv /\ [Next]_vars => NodeInv'
  <2> SUFFICES ASSUME NodeInv, [Next]_vars PROVE NodeInv'
    OBVIOUS
  <2>1. TypeOK' /\ WakeupInv' /\ HandInv'
    BY NextTypes, NextWakeups, NextHand DEF NodeInv
  <2>2. ASSUME NEW p \in Posters PROVE Balance(p)'
    BY NextBalance DEF NodeInv
  <2> QED
    BY <2>1, <2>2 DEF NodeInv
<1> QED
  BY <1>1, <1>2, PTL DEF Spec

\* No node is lost and none is handled twice, whoever posts when.
THEOREM NodesHandledOnce == Spec => []HandledOnce
<1>1. NodeInv => HandledOnce
  BY DEF NodeInv, HandledOnce, Balance
<1> QED
  BY <1>1, NodeInvariant, PTL

-----------------------------------------------------------------------------
(* The destructor.  Its node is the last of the API queue: nobody posts any  *)
(* more, so when the thread takes it every API command has been taken.       *)

ExitInv ==
    /\ owner = "running" =>
          /\ \A i \in DOMAIN api_queue : api_queue[i] # Exit
          /\ node # Exit /\ pc # "exited"
    /\ \A i \in DOMAIN api_queue : api_queue[i] = Exit => i = Len(api_queue)
    /\ node = Exit \/ pc = "exited" => api_queue = <<>>
    /\ owner = "gone" => pc = "exited"

LEMMA InitExit == Init => ExitInv
  BY PostersAssumption DEF Init, ExitInv

LEMMA NextExit == TypeOK /\ WakeupInv /\ HandInv /\ ExitInv /\ [Next]_vars => ExitInv'
<1> SUFFICES ASSUME TypeOK, WakeupInv, HandInv, ExitInv, [Next]_vars PROVE ExitInv'
  OBVIOUS
<1> USE PostersAssumption
<1>a. api_queue \in Seq(ApiPosters \cup {Exit}) /\ evt_queue \in Seq(EvtPosters)
  BY DEF TypeOK
<1>1. ASSUME NEW p \in ApiPosters, procAPI(p) PROVE ExitInv'
  <2>1. \A i \in DOMAIN Append(api_queue, p) : Append(api_queue, p)[i] # Exit
    BY <1>1, <1>a DEF procAPI, CanPost, ExitInv
  <2>2. node # Exit /\ pc # "exited" /\ owner = "running"
    BY <1>1 DEF procAPI, CanPost, ExitInv
  <2> QED
    BY <1>1, <2>1, <2>2 DEF procAPI, Enqueued, ExitInv
<1>2. ASSUME NEW p \in EvtPosters, procEvt(p) PROVE ExitInv'
  BY <1>2 DEF procEvt, Enqueued, ExitInv
<1>3. ASSUME NEW p \in Posters, SemPost(p) PROVE ExitInv'
  BY <1>3 DEF SemPost, ExitInv
<1>4. CASE SemWait
  BY <1>4 DEF SemWait, ExitInv
<1>5. CASE DequeueApi
  <2>1. CASE api_queue = <<>>
    BY <1>5, <2>1 DEF DequeueApi, ExitInv
  <2>2. CASE api_queue # <<>>
    <3>1. /\ Tail(api_queue) \in Seq(ApiPosters \cup {Exit})
          /\ Len(Tail(api_queue)) = Len(api_queue) - 1
          /\ \A i \in DOMAIN Tail(api_queue) : i + 1 \in DOMAIN api_queue
                                               /\ Tail(api_queue)[i] = api_queue[i + 1]
      BY <1>a, <2>2, HeadTailProperties
    <3>2. 1 \in DOMAIN api_queue /\ Head(api_queue) = api_queue[1]
      BY <1>a, <2>2
    <3>3. Head(api_queue) = Exit => Tail(api_queue) = <<>>
      BY <1>a, <3>1, <3>2 DEF ExitInv
    <3>4. /\ pc' = "handling" /\ node' = Head(api_queue) /\ api_queue' = Tail(api_queue)
          /\ owner' = owner /\ pc = "awake"
      BY <1>5, <2>2 DEF DequeueApi
    <3>5. \A i \in DOMAIN Tail(api_queue) : Tail(api_queue)[i] = Exit => i = Len(Tail(api_queue))
      BY <1>a, <3>1 DEF ExitInv
    <3> QED
      BY <3>1, <3>2, <3>3, <3>4, <3>5 DEF ExitInv
  <2> QED
    BY <2>1, <2>2
<1>6. CASE DequeueEvt
  <2>1. evt_queue # <<>> /\ Head(evt_queue) # Exit
    BY <1>6, <1>a, HeadTailProperties DEF DequeueEvt, WakeupInv, NeverWokenForNothing
  <2> QED
    BY <1>6, <2>1 DEF DequeueEvt, ExitInv
<1>7. CASE HandleNode
  BY <1>7 DEF HandleNode, ExitInv
<1>8. CASE PostExit
  <2>1. \A i \in DOMAIN Append(api_queue, Exit) :
           Append(api_queue, Exit)[i] = Exit => i = Len(Append(api_queue, Exit))
    BY <1>8, <1>a DEF PostExit, ExitInv
  <2> QED
    BY <1>8, <2>1 DEF PostExit, ExitInv
<1>9. CASE SignalExit
  BY <1>9 DEF SignalExit, ExitInv
<1>10. CASE Join
  BY <1>10 DEF Join, ExitInv
<1>11. CASE UNCHANGED vars
  BY <1>11 DEF vars, ExitInv
<1> QED
  BY <1>1, <1>2, <1>3, <1>4, <1>5, <1>6, <1>7, <1>8, <1>9, <1>10, <1>11 DEF Next, Thread

\* When the machine is gone every API command it was ever sent was handled.
THEOREM NoApiCommandAbandoned == Spec => []JoinedAfterLastApi
<1>1. NodeInv /\ ExitInv => JoinedAfterLastApi
  <2> SUFFICES ASSUME NodeInv, ExitInv, owner = "gone", NEW p \in ApiPosters
               PROVE  handled[p] = posts[p]
    BY DEF JoinedAfterLastApi
  <2>1. api_queue = <<>> /\ node # p
    BY PostersAssumption DEF ExitInv, NodeInv, HandInv
  <2>2. CountIn(api_queue, p) = 0
    BY <2>1, CountEmpty
  <2>3. CountIn(evt_queue, p) = 0
    BY CountAbsent, PostersAssumption DEF NodeInv, TypeOK
  <2> QED
    BY <2>1, <2>2, <2>3, CountTypes DEF NodeInv, Balance
<1>2. Init => ExitInv
  BY InitExit
<1>3. NodeInv /\ ExitInv /\ [Next]_vars => ExitInv'
  BY NextExit DEF NodeInv
<1> QED
  BY <1>1, <1>2, <1>3, NodeInvariant, PTL DEF Spec

=============================================================================
