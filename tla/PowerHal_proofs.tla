---------------------------- MODULE PowerHal_proofs ----------------------------
(***************************************************************************)
(* What is proved of the power service, for any durations, any number of   *)
(* locks, and whatever fails: the list of active hints is what perfd holds *)
(* for it, the profile has its lock, and a launch lock can be released.    *)
(* Where perfd refuses nothing, the governor stays and the display is never*)
(* switched on twice, also which locks there are while it is on and off.   *)
(* At the end, the torch (QCameraFlash).                                   *)
(***************************************************************************)
EXTENDS PowerHal, FiniteSetTheorems, SequenceTheorems, NaturalsInduction, TLAPS

Ids == Listed \cup Timed \cup {"initial"}
Nodes == [id : Listed, handle : Handles]
Locks == [id : Ids, handle : Handles]

-----------------------------------------------------------------------------
(* The list of utils.c and list.c. *)

\* A nonempty set of indices has a first.
LEMMA FirstIndex ==
  ASSUME NEW T, T \subseteq Nat, T # {}
  PROVE  /\ Min(T) \in T
         /\ \A i \in T : Min(T) <= i
<1>1. \E x \in T : \A y \in T : ~ (<<y, x>> \in OpToRel(<, Nat))
  BY WFMin, NatLessThanWellFounded
<1>2. \E x \in T : \A y \in T : x =< y
  <2>1. PICK x \in T : \A y \in T : ~ (<<y, x>> \in OpToRel(<, Nat))
    BY <1>1
  <2>2. \A y \in T : ~ (y < x)
    BY <2>1 DEF OpToRel
  <2> QED
    BY <2>2
<1> QED
  BY <1>2 DEF Min

\* find_node() finds a node of the id, if there is one.
LEMMA Found ==
  ASSUME NEW list \in Seq(Nodes), NEW id, NEW i, i = find_node(list, id)
  PROVE  /\ i = 0 => \A j \in 1..Len(list) : list[j].id # id
         /\ i # 0 => i \in 1..Len(list) /\ list[i].id = id
<1> DEFINE I == {j \in 1..Len(list) : list[j].id = id}
<1>1. i = IF I # {} THEN Min(I) ELSE 0
  BY DEF find_node, SelectInSeq
<1>2. Len(list) \in Nat /\ I \subseteq Nat
  BY LenProperties
<1>3. I # {} => Min(I) \in I
  BY <1>2, FirstIndex
<1> QED
  BY <1>1, <1>2, <1>3

\* remove_list_node() takes one node out.
LEMMA NodeRemoved ==
  ASSUME NEW list \in Seq(Nodes), NEW i \in 1..Len(list)
  PROVE  /\ remove_list_node(list, i) \in Seq(Nodes)
         /\ Len(remove_list_node(list, i)) = Len(list) - 1
         /\ \A j \in 1..Len(list) - 1 :
              remove_list_node(list, i)[j] = IF j < i THEN list[j] ELSE list[j + 1]
<1> DEFINE front == SubSeq(list, 1, i - 1)
           rear == SubSeq(list, i + 1, Len(list))
<1>1. Len(list) \in Nat /\ \A j \in 1..Len(list) : list[j] \in Nodes
  BY ElementOfSeq, LenProperties
<1>2. /\ front \in Seq(Nodes) /\ Len(front) = i - 1
      /\ \A j \in 1..i - 1 : front[j] = list[j]
  BY <1>1, SubSeqProperties, Z3
<1>3. /\ rear \in Seq(Nodes) /\ Len(rear) = Len(list) - i
      /\ \A j \in 1..Len(list) - i : rear[j] = list[j + i]
  BY <1>1, SubSeqProperties, Z3
<1> HIDE DEF front, rear
<1>4. /\ front \o rear \in Seq(Nodes)
      /\ Len(front \o rear) = Len(list) - 1
      /\ \A j \in 1..Len(list) - 1 :
           (front \o rear)[j] = IF j <= i - 1 THEN front[j] ELSE rear[j - (i - 1)]
  BY <1>1, <1>2, <1>3, ConcatProperties
<1>5. remove_list_node(list, i) = front \o rear
  BY DEF remove_list_node, RemoveAt, front, rear
<1>6. \A j \in 1..Len(list) - 1 : ~ (j < i) => rear[j - (i - 1)] = list[j + 1]
  BY <1>1, <1>3
<1> QED
  BY <1>1, <1>2, <1>4, <1>5, <1>6

-----------------------------------------------------------------------------
(* What the operations on a state [list, held, next] keep: every lock has a  *)
(* handle of its own, given before next, and the list has each lasting lock  *)
(* once and nothing else.                                                    *)

Kept(s) ==
    /\ s = [list |-> s.list, held |-> s.held, next |-> s.next]
    /\ s.list \in Seq(Nodes) /\ s.held \subseteq Locks /\ s.next \in 1..(MaxHandle + 1)
    /\ \A l \in s.held : l.handle < s.next
    /\ \A l, m \in s.held : l.handle = m.handle => l = m
    /\ \A i, j \in 1..Len(s.list) : s.list[i] = s.list[j] => i = j
    /\ \A i \in 1..Len(s.list) : s.list[i] \in s.held
    /\ \A l \in s.held : l.id \in Listed => \E i \in 1..Len(s.list) : s.list[i] = l

LEMMA LockFacts ==
  \A id, h : Lock(id, h).id = id /\ Lock(id, h).handle = h
BY DEF Lock

\* A lock that succeeds gets a node, one that fails leaves nothing.
LEMMA PerformKeeps ==
  ASSUME PowerAssumption, NEW s, Kept(s), NEW id \in Listed, s.next <= MaxHandle
  PROVE  LET t == performWhen(s, id, TRUE)
         IN  Kept(t) /\ t.held = s.held \cup {Lock(id, s.next)}
<1> DEFINE n == Lock(id, s.next)
           t == performWhen(s, id, TRUE)
<1>1. MaxHandle \in Nat /\ s.next \in Nat /\ n \in Nodes /\ n \in Locks /\ n.id = id /\ n.handle = s.next
  BY DEF PowerAssumption, Lock, Nodes, Locks, Ids, Handles, Kept
<1>2. t = [list |-> <<n>> \o s.list, held |-> s.held \cup {n}, next |-> s.next + 1]
  BY DEF performWhen, add_list_node
<1> HIDE DEF n
<1>3. <<n>> \in Seq(Nodes) /\ Len(<<n>>) = 1 /\ <<n>>[1] = n /\ s.list \in Seq(Nodes) /\ Len(s.list) \in Nat
  BY <1>1, LenProperties DEF Kept
<1>4. /\ <<n>> \o s.list \in Seq(Nodes)
      /\ Len(<<n>> \o s.list) = Len(s.list) + 1
      /\ \A i \in 1..Len(s.list) + 1 :
           (<<n>> \o s.list)[i] = IF i <= 1 THEN n ELSE s.list[i - 1]
  BY <1>3, ConcatProperties
<1>5. n \notin s.held /\ \A i \in 1..Len(s.list) : s.list[i] # n
  BY <1>1 DEF Kept, Locks, Handles
<1> DEFINE q == <<n>> \o s.list
<1> HIDE DEF q
<1>6. /\ q \in Seq(Nodes) /\ Len(q) = Len(s.list) + 1 /\ q[1] = n
      /\ \A i \in 2..Len(s.list) + 1 : q[i] = s.list[i - 1]
  BY <1>3, <1>4 DEF q
<1> HIDE DEF t
<1>7. t.list = q /\ t.held = s.held \cup {n} /\ t.next = s.next + 1
      /\ t = [list |-> t.list, held |-> t.held, next |-> t.next]
  BY <1>2 DEF q
<1>8. \A l \in t.held : l.handle < t.next
  BY <1>1, <1>7 DEF Kept, Locks, Handles
<1>9. \A l, m \in t.held : l.handle = m.handle => l = m
  BY <1>1, <1>7 DEF Kept, Locks, Handles
<1>10. \A i, j \in 1..Len(t.list) : t.list[i] = t.list[j] => i = j
  <2> SUFFICES ASSUME NEW i \in 1..Len(s.list) + 1, NEW j \in 1..Len(s.list) + 1, q[i] = q[j]
               PROVE  i = j
    BY <1>6, <1>7
  <2>1. CASE i = 1 \/ j = 1
    BY <1>3, <1>5, <1>6, <2>1
  <2>2. CASE i # 1 /\ j # 1
    <3>1. /\ i \in 2..Len(s.list) + 1 /\ i - 1 \in 1..Len(s.list)
          /\ j \in 2..Len(s.list) + 1 /\ j - 1 \in 1..Len(s.list)
          /\ i \in Int /\ j \in Int
      <4>1. Len(s.list) \in Nat
        BY <1>3
      <4> QED
        BY ONLY <4>1, <2>2, i \in 1..Len(s.list) + 1, j \in 1..Len(s.list) + 1
    <3>2. q[i] = s.list[i - 1] /\ q[j] = s.list[j - 1]
      BY ONLY <1>6, <3>1
    <3>3. s.list[i - 1] = s.list[j - 1]
      BY ONLY <3>2, q[i] = q[j]
    <3>4. i - 1 = j - 1
      BY ONLY <3>1, <3>3, Kept(s) DEF Kept
    <3> QED
      BY ONLY <3>1, <3>4
  <2> QED
    BY <2>1, <2>2
<1>11. \A i \in 1..Len(t.list) : t.list[i] \in t.held
  <2> SUFFICES ASSUME NEW i \in 1..Len(s.list) + 1 PROVE q[i] \in s.held \cup {n}
    BY <1>6, <1>7
  <2>1. CASE i = 1
    BY <1>6, <2>1
  <2>2. CASE i # 1
    <3>1. i - 1 \in 1..Len(s.list) /\ q[i] = s.list[i - 1]
      BY <1>3, <1>6, <2>2
    <3> QED
      BY <3>1 DEF Kept
  <2> QED
    BY <2>1, <2>2
<1>12. \A l \in t.held : l.id \in Listed => \E i \in 1..Len(t.list) : t.list[i] = l
  <2> SUFFICES ASSUME NEW l \in s.held \cup {n}, l.id \in Listed
               PROVE  \E i \in 1..Len(s.list) + 1 : q[i] = l
    BY <1>6, <1>7
  <2>1. CASE l = n
    BY <1>3, <1>6, <2>1
  <2>2. CASE l # n
    <3>1. PICK i \in 1..Len(s.list) : s.list[i] = l
      BY <2>2 DEF Kept
    <3>2. i + 1 \in 2..Len(s.list) + 1 /\ q[i + 1] = s.list[i]
      BY <1>3, <1>6
    <3> QED
      BY <1>3, <3>1, <3>2
  <2> QED
    BY <2>1, <2>2
<1>13. t.list \in Seq(Nodes) /\ t.held \subseteq Locks /\ t.next \in 1..(MaxHandle + 1)
  BY <1>1, <1>6, <1>7 DEF Kept
<1> QED
  BY <1>7, <1>8, <1>9, <1>10, <1>11, <1>12, <1>13 DEF Kept, t, n

LEMMA PerformFails == \A s, id : performWhen(s, id, FALSE) = s
BY DEF performWhen

\* undo_hint_action() releases a lock of the id and takes its node out, or finds none.
LEMMA UndoKeeps ==
  ASSUME NEW s, Kept(s), NEW id \in Listed
  PROVE  LET t == undo_hint_action(s, id)
         IN  /\ Kept(t) /\ t.next = s.next
             /\ \/ \E l \in s.held : l.id = id /\ t.held = s.held \ {l}
                \/ t = s /\ \A l \in s.held : l.id # id
<1> DEFINE i == find_node(s.list, id)
           t == undo_hint_action(s, id)
<1>1. s.list \in Seq(Nodes) /\ Len(s.list) \in Nat
  BY LenProperties DEF Kept
<1>2. /\ i = 0 => \A j \in 1..Len(s.list) : s.list[j].id # id
      /\ i # 0 => i \in 1..Len(s.list) /\ s.list[i].id = id
  BY <1>1, Found
<1>3. CASE i = 0
  <2>1. t = s
    BY <1>3 DEF undo_hint_action
  <2>2. \A l \in s.held : l.id # id
    BY <1>2, <1>3 DEF Kept
  <2> QED
    BY <2>1, <2>2
<1>4. CASE i # 0
  <2> DEFINE l == s.list[i]
             q == remove_list_node(s.list, i)
  <2>1. i \in 1..Len(s.list) /\ l.id = id /\ l \in s.held
    BY <1>2, <1>4 DEF Kept
  <2>2. t = [list |-> q, held |-> {m \in s.held : m.handle # l.handle}, next |-> s.next]
    <3>1. s = [list |-> s.list, held |-> s.held, next |-> s.next]
      BY DEF Kept
    <3>2. ReleaseIn(s, l.handle) = [list |-> s.list, held |-> {m \in s.held : m.handle # l.handle}, next |-> s.next]
      BY <3>1 DEF ReleaseIn
    <3>3. t = [ReleaseIn(s, l.handle) EXCEPT !.list = remove_list_node(@, i)]
      BY <1>4 DEF undo_hint_action
    <3> QED
      BY <3>2, <3>3
  <2>3. {m \in s.held : m.handle # l.handle} = s.held \ {l}
    BY <2>1 DEF Kept
  <2>4. /\ q \in Seq(Nodes) /\ Len(q) = Len(s.list) - 1
        /\ \A j \in 1..Len(s.list) - 1 : q[j] = IF j < i THEN s.list[j] ELSE s.list[j + 1]
    BY <1>1, <2>1, NodeRemoved
  <2> HIDE DEF q, i
  <2>5. t.list = q /\ t.held = s.held \ {l} /\ t.next = s.next
        /\ t = [list |-> t.list, held |-> t.held, next |-> t.next]
    BY <2>2, <2>3
  <2> HIDE DEF t, l
  <2>6. \A j, k \in 1..Len(s.list) : s.list[j] = s.list[k] => j = k
    BY DEF Kept
  <2>7. \A j, k \in 1..Len(q) : q[j] = q[k] => j = k
    <3> SUFFICES ASSUME NEW j \in 1..Len(q), NEW k \in 1..Len(q), q[j] = q[k] PROVE j = k
      OBVIOUS
    <3> DEFINE a(x) == IF x < i THEN x ELSE x + 1
    <3>1. a(j) \in 1..Len(s.list) /\ a(k) \in 1..Len(s.list) /\ q[j] = s.list[a(j)] /\ q[k] = s.list[a(k)]
      BY <1>1, <2>1, <2>4
    <3>2. a(j) = a(k)
      BY <2>6, <3>1
    <3> QED
      BY <1>1, <2>1, <2>4, <3>2
  <2>8. \A j \in 1..Len(q) : q[j] \in s.held /\ q[j] # l
    <3> SUFFICES ASSUME NEW j \in 1..Len(q) PROVE q[j] \in s.held /\ q[j] # l
      OBVIOUS
    <3> DEFINE a == IF j < i THEN j ELSE j + 1
    <3>1. a \in 1..Len(s.list) /\ q[j] = s.list[a] /\ a # i
      BY <1>1, <2>1, <2>4
    <3>2. s.list[a] # s.list[i]
      BY <2>1, <2>6, <3>1
    <3> QED
      BY <3>1, <3>2 DEF Kept, l
  <2>9. \A m \in s.held \ {l} : m.id \in Listed => \E j \in 1..Len(q) : q[j] = m
    <3> SUFFICES ASSUME NEW m \in s.held \ {l}, m.id \in Listed PROVE \E j \in 1..Len(q) : q[j] = m
      OBVIOUS
    <3>1. PICK k \in 1..Len(s.list) : s.list[k] = m
      BY DEF Kept
    <3>2. k # i
      BY <3>1 DEF l
    <3> DEFINE j == IF k < i THEN k ELSE k - 1
    <3>3. j \in 1..Len(q) /\ q[j] = s.list[k]
      BY <1>1, <2>1, <2>4, <3>2
    <3> QED
      BY <3>1, <3>3
  <2>10. Kept(t)
    BY <2>4, <2>5, <2>7, <2>8, <2>9 DEF Kept
  <2> QED
    BY <2>1, <2>5, <2>10 DEF t
<1> QED
  BY <1>3, <1>4

\* Locks that have no node may be released.
LEMMA ReleaseKeeps ==
  ASSUME NEW s, Kept(s), NEW h, \A l \in s.held : l.handle = h => l.id \notin Listed
  PROVE  /\ Kept(ReleaseIn(s, h)) /\ ReleaseIn(s, h).next = s.next
         /\ ReleaseIn(s, h).held = {l \in s.held : l.handle # h}
<1> DEFINE t == ReleaseIn(s, h)
<1>1. s = [list |-> s.list, held |-> s.held, next |-> s.next]
  BY DEF Kept
<1>2. t = [list |-> s.list, held |-> {l \in s.held : l.handle # h}, next |-> s.next]
  BY <1>1 DEF ReleaseIn
<1>3. t.list = s.list /\ t.held = {l \in s.held : l.handle # h} /\ t.next = s.next
      /\ t = [list |-> t.list, held |-> t.held, next |-> t.next]
  BY <1>2
<1>4. \A i \in 1..Len(s.list) : s.list[i].id \in Listed
  <2>1. \A i \in 1..Len(s.list) : s.list[i] \in Nodes
    BY ElementOfSeq DEF Kept
  <2> QED
    BY <2>1 DEF Nodes
<1> HIDE DEF t
<1>5. Kept(t)
  BY <1>3, <1>4 DEF Kept
<1> QED
  BY <1>3, <1>5 DEF t

\* A lock that perfd still has is renewed, otherwise there is a new one.
LEMMA InteractionKeeps ==
  ASSUME PowerAssumption, NEW s, Kept(s), NEW h, NEW id \in Timed, s.next <= MaxHandle,
         \A l \in s.held : l.handle = h => l.id \in Timed
  PROVE  LET t == interaction_with_handle(s, h, id)
             g == handleOf(s, h)
         IN  /\ Kept(t) /\ g \in Handles /\ g < t.next /\ s.next <= t.next
             /\ t.held = {l \in s.held : l.handle # g} \cup {Lock(id, g)}
             /\ g = h \/ g = s.next
<1> DEFINE t == interaction_with_handle(s, h, id)
           g == handleOf(s, h)
<1>1. MaxHandle \in Nat /\ s.next \in Nat /\ s.next \in Handles
      /\ s = [list |-> s.list, held |-> s.held, next |-> s.next]
  BY DEF PowerAssumption, Handles, Kept
<1>2. \A i \in 1..Len(s.list) : s.list[i].id \in Listed
  <2>1. \A i \in 1..Len(s.list) : s.list[i] \in Nodes
    BY ElementOfSeq DEF Kept
  <2> QED
    BY <2>1 DEF Nodes
<1>3. g \in Handles /\ (g = h \/ g = s.next) /\ g <= s.next
      /\ \A l \in s.held : l.handle = g => l.id \in Timed
  <2>1. CASE \E l \in s.held : l.handle = h
    <3>1. g = h
      BY <2>1 DEF handleOf
    <3> QED
      BY <1>1, <2>1, <3>1 DEF Kept, Locks, Handles
  <2>2. CASE ~ \E l \in s.held : l.handle = h
    <3>1. g = s.next
      BY <2>2 DEF handleOf
    <3> QED
      BY <1>1, <3>1 DEF Kept, Locks, Handles
  <2> QED
    BY <2>1, <2>2
<1>4. /\ t = [list |-> t.list, held |-> t.held, next |-> t.next]
      /\ t.list = s.list /\ t.next \in {s.next, s.next + 1} /\ g < t.next
      /\ t.held = {l \in s.held : l.handle # g} \cup {Lock(id, g)}
  <2>1. CASE \E l \in s.held : l.handle = h
    <3>1. g = h /\ t = [list |-> s.list, held |-> {l \in s.held : l.handle # h} \cup {Lock(id, h)}, next |-> s.next]
      BY <1>1, <2>1 DEF handleOf, interaction_with_handle
    <3>2. g < s.next
      BY <2>1, <3>1 DEF Kept
    <3> QED
      BY <3>1, <3>2
  <2>2. CASE ~ \E l \in s.held : l.handle = h
    <3>1. g = s.next /\ t = [list |-> s.list, held |-> s.held \cup {Lock(id, s.next)}, next |-> s.next + 1]
      BY <1>1, <2>2 DEF handleOf, interaction_with_handle
    <3>2. s.held = {l \in s.held : l.handle # g}
      BY <1>1, <3>1 DEF Kept, Locks, Handles
    <3> QED
      BY <1>1, <3>1, <3>2
  <2> QED
    BY <2>1, <2>2
<1> HIDE DEF t, g
<1>5. Lock(id, g) \in Locks /\ Lock(id, g).id \notin Listed /\ Lock(id, g).handle = g
  BY <1>3 DEF Lock, Locks, Ids, Timed, Listed
<1>6. /\ t.held \subseteq Locks /\ t.next \in 1..(MaxHandle + 1)
      /\ \A l \in t.held : l.handle < t.next
      /\ \A l, m \in t.held : l.handle = m.handle => l = m
  <2>1. \A l \in s.held : l.handle < s.next /\ l.handle \in Nat
    BY DEF Kept, Locks, Handles
  <2> QED
    BY <1>1, <1>3, <1>4, <1>5, <2>1 DEF Kept
<1>7. \A i \in 1..Len(s.list) : s.list[i] \in t.held
  <2> SUFFICES ASSUME NEW i \in 1..Len(s.list) PROVE s.list[i] \in t.held
    OBVIOUS
  <2>1. s.list[i] \in s.held /\ s.list[i].id \in Listed
    BY <1>2 DEF Kept
  <2>2. s.list[i].handle # g
    BY <1>3, <2>1 DEF Timed, Listed
  <2> QED
    BY <1>4, <2>1, <2>2
<1>8. Kept(t)
  BY <1>4, <1>5, <1>6, <1>7 DEF Kept
<1> QED
  BY <1>1, <1>3, <1>4, <1>8 DEF t, g

-----------------------------------------------------------------------------
(* The inductive invariant. *)

Types ==
    /\ {launch_handle, lock_handle} \subseteq Handles \cup {0, Nobody}
    /\ {launch_mode, recent, display_hint_sent, first_display_off_hint, interactive, display,
        launching, sustained} \subseteq BOOLEAN

HintsKept == Kept(Now)

\* The lock of the init script has handle 1, and no other lock.
InitialLock == next >= 2 /\ \A l \in locks : l.id = "initial" <=> l.handle = 1

ProfileLock ==
    /\ current_power_profile \in Profiles
    /\ current_power_profile = Balanced => \A l \in locks : l.id # "profile"
    /\ current_power_profile # Balanced => \E l \in locks : l.id = "profile"
    /\ \A l, m \in locks : l.id = "profile" /\ m.id = "profile" => l = m

\* The handles that the service remembers are of no other lock.
LaunchLock ==
    /\ launch_handle < next
    /\ \A l \in locks : l.id = "launch" => launch_handle = l.handle /\ launch_mode
    /\ \A l \in locks : l.handle = launch_handle => l.id = "launch"

BoostLock ==
    /\ lock_handle < next
    /\ \A l \in locks : l.handle = lock_handle => l.id \in {"boost", "fling"}
    /\ ~AcqFails => \A l \in locks : l.id \in {"boost", "fling"} => lock_handle = l.handle

\* Where the display's hints come one after the other and none is refused.
Orderly == ~Repeats /\ ~GovernorChanges /\ ~AcqFails
DisplayLocks ==
    Orderly =>
      /\ interactive /\ display_hint_sent = ~display
      /\ display => \A l \in locks : l.id # "display"
      /\ ~display => first_display_off_hint /\ \A l \in locks : l.id # "display2"
      /\ first_display_off_hint => \A l \in locks : l.id # "initial"
      /\ \A l, m \in locks : l.id = m.id /\ l.id \in {"display", "display2"} => l = m

PowerInv ==
    Types /\ HintsKept /\ InitialLock /\ ProfileLock /\ LaunchLock /\ BoostLock /\ DisplayLocks

-----------------------------------------------------------------------------
(* Its parts. *)

LEMMA HeldLocks ==
  ASSUME PowerAssumption, HintsKept
  PROVE  /\ MaxHandle \in Nat /\ next \in Nat /\ next \in 1..(MaxHandle + 1)
         /\ \A l \in locks : l.id \in Ids /\ l.handle \in Handles /\ l.handle \in Nat /\ l.handle < next
         /\ \A l, m \in locks : l.handle = m.handle => l = m
         /\ Now.list = active_hints /\ Now.held = locks /\ Now.next = next
<1>1. Now.list = active_hints /\ Now.held = locks /\ Now.next = next
  BY DEF Now
<1>2. MaxHandle \in Nat
  BY DEF PowerAssumption
<1>3. /\ next \in 1..(MaxHandle + 1)
      /\ \A l \in locks : l \in Locks /\ l.handle < next
      /\ \A l, m \in locks : l.handle = m.handle => l = m
  BY <1>1 DEF HintsKept, Kept
<1> QED
  BY <1>1, <1>2, <1>3 DEF Locks, Handles

LEMMA BecomeKept ==
  ASSUME NEW s, Kept(s), Become(s)
  PROVE  HintsKept' /\ locks' = s.held /\ next' = s.next
<1>1. active_hints' = s.list /\ locks' = s.held /\ next' = s.next
  BY DEF Become
<1>2. Now' = s
  BY <1>1 DEF Now, Kept
<1> QED
  BY <1>1, <1>2 DEF HintsKept

\* The handles remembered are numbers.
LEMMA RememberedHandles ==
  ASSUME PowerAssumption, Types
  PROVE  /\ launch_handle \in Int /\ lock_handle \in Int
         /\ launch_handle \in Handles \cup {0, Nobody} /\ lock_handle \in Handles \cup {0, Nobody}
         /\ launch_mode \in BOOLEAN /\ recent \in BOOLEAN /\ display_hint_sent \in BOOLEAN
         /\ first_display_off_hint \in BOOLEAN /\ interactive \in BOOLEAN /\ display \in BOOLEAN
         /\ launching \in BOOLEAN /\ sustained \in BOOLEAN
BY DEF PowerAssumption, Types, Handles, Nobody

\* Only locks of these ids changed, and new ones have new handles or those of
\* locks that they renew.
Touches(ids) ==
    /\ next' \in Nat /\ next <= next'
    /\ \A l \in locks : l.id \notin ids => l \in locks'
    /\ \A l \in locks' : l \notin locks =>
         /\ l.id \in ids
         /\ \/ l.handle >= next
            \/ \E m \in locks : m.id \in ids \ {"initial"} /\ m.handle = l.handle

LEMMA ProfileFrame ==
  ASSUME NEW ids, Touches(ids), "profile" \notin ids, ProfileLock, UNCHANGED current_power_profile
  PROVE  ProfileLock'
BY DEF Touches, ProfileLock

LEMMA LaunchFrame ==
  ASSUME PowerAssumption, Types, HintsKept, NEW ids, Touches(ids), "launch" \notin ids, LaunchLock,
         UNCHANGED <<launch_handle, launch_mode>>
  PROVE  LaunchLock'
<1>1. launch_handle \in Int /\ next \in Nat /\ \A l \in locks : l.handle \in Nat
  BY RememberedHandles, HeldLocks
<1> QED
  BY <1>1 DEF Touches, LaunchLock

LEMMA BoostFrame ==
  ASSUME PowerAssumption, Types, HintsKept, NEW ids, Touches(ids), {"boost", "fling"} \cap ids = {}, BoostLock,
         UNCHANGED lock_handle
  PROVE  BoostLock'
<1>1. lock_handle \in Int /\ next \in Nat /\ \A l \in locks : l.handle \in Nat
  BY RememberedHandles, HeldLocks
<1> QED
  BY <1>1 DEF Touches, BoostLock

LEMMA InitialFrame ==
  ASSUME PowerAssumption, HintsKept, NEW ids, Touches(ids), InitialLock,
         \A l \in locks' : l \notin locks => l.id # "initial"
  PROVE  InitialLock'
<1>1. next \in Nat /\ \A l \in locks : l.handle \in Nat
  BY HeldLocks
<1> QED
  BY <1>1 DEF Touches, InitialLock

LEMMA DisplayFrame ==
  ASSUME NEW ids, Touches(ids), {"display", "display2", "initial"} \cap ids = {}, DisplayLocks,
         UNCHANGED <<displayVars, interactive>>
  PROVE  DisplayLocks'
BY DEF Touches, DisplayLocks, Orderly, displayVars

-----------------------------------------------------------------------------
(* Its steps. *)

LEMMA InitPower == ASSUME PowerAssumption, Init PROVE PowerInv
<1>1. /\ active_hints = <<>> /\ locks = {Lock("initial", 1)} /\ next = 2
      /\ Now = [list |-> <<>>, held |-> {Lock("initial", 1)}, next |-> 2]
  BY DEF Init, Now
<1>2. MaxHandle \in Nat \ {0} /\ Lock("initial", 1) \in Locks
      /\ Lock("initial", 1).id = "initial" /\ Lock("initial", 1).handle = 1
  BY DEF PowerAssumption, Lock, Locks, Ids, Handles
<1>3. <<>> \in Seq(Nodes) /\ Len(<<>>) = 0
  BY EmptySeq
<1>4. HintsKept
  BY <1>1, <1>2, <1>3 DEF HintsKept, Kept, Listed
<1>5. Types
  BY DEF Init, Types
<1>6. InitialLock /\ ProfileLock /\ LaunchLock /\ BoostLock
  BY <1>1, <1>2 DEF Init, InitialLock, ProfileLock, LaunchLock, BoostLock,
                    Profiles, PowerSave, Balanced, BiasPerformance, Nobody
<1>7. DisplayLocks
  BY <1>1, <1>2 DEF Init, DisplayLocks
<1> QED
  BY <1>4, <1>5, <1>6, <1>7 DEF PowerInv

\* All locks of an id are gone if there was one at most.
LEMMA UndoneAll ==
  ASSUME NEW s, Kept(s), NEW id \in Listed,
         \A l, m \in s.held : l.id = id /\ m.id = id => l = m
  PROVE  LET t == undo_hint_action(s, id)
         IN  Kept(t) /\ t.next = s.next /\ t.held = {l \in s.held : l.id # id}
BY UndoKeeps

\* A profile gives back the lock of the one before it.
LEMMA ProfileKeeps ==
  ASSUME PowerAssumption, PowerInv, NEW p \in PowerSave..(BiasPerformance + 1), set_power_profile(p)
  PROVE  PowerInv'
<1> DEFINE undone == IF current_power_profile # Balanced THEN undo_hint_action(Now, "profile") ELSE Now
           wanted == p \in Profiles \ {Balanced}
<1>1. PICK acquired \in Outcomes :
         /\ next <= MaxHandle
         /\ Become(performWhen(undone, "profile", wanted /\ acquired))
         /\ current_power_profile' = profileAfter(p, p = Balanced \/ (wanted /\ acquired))
         /\ UNCHANGED <<launchVars, boostVars, displayVars, interactive, sustained>>
  BY DEF set_power_profile
<1>2. Kept(Now) /\ Now.held = locks /\ Now.next = next
      /\ (\A l \in locks : l.handle \in Nat /\ l.handle < next)
      /\ next \in Nat
  BY HeldLocks DEF PowerInv, HintsKept
<1>3. Kept(undone) /\ undone.next = next /\ undone.held = {l \in locks : l.id # "profile"}
  <2>1. "profile" \in Listed /\ \A l, m \in Now.held : l.id = "profile" /\ m.id = "profile" => l = m
    BY <1>2 DEF Listed, PowerInv, ProfileLock
  <2>2. CASE current_power_profile # Balanced
    BY <1>2, <2>1, <2>2, UndoneAll
  <2>3. CASE current_power_profile = Balanced
    BY <1>2, <2>3 DEF PowerInv, ProfileLock
  <2> QED
    BY <2>2, <2>3
<1> HIDE DEF undone
<1>4. CASE wanted /\ acquired
  <2> DEFINE t == performWhen(undone, "profile", TRUE)
  <2>1. Kept(t) /\ t.held = undone.held \cup {Lock("profile", next)}
    <3>1. "profile" \in Listed /\ undone.next <= MaxHandle
      BY <1>1, <1>3 DEF Listed
    <3> QED
      BY <1>3, <3>1, PerformKeeps
  <2>2. performWhen(undone, "profile", wanted /\ acquired) = t
    BY <1>4 DEF performWhen
  <2>3. t.next = next + 1
    BY <1>3 DEF performWhen
  <2> HIDE DEF t
  <2>4. HintsKept' /\ locks' = {l \in locks : l.id # "profile"} \cup {Lock("profile", next)} /\ next' = next + 1
    BY <1>1, <1>3, <2>1, <2>2, <2>3, BecomeKept
  <2>5. current_power_profile' = p /\ p \in Profiles /\ p # Balanced
    BY <1>1, <1>4 DEF profileAfter
  <2>6. ProfileLock'
    BY <2>4, <2>5, LockFacts DEF ProfileLock
  <2>7. Touches({"profile"}) /\ \A l \in locks' : l \notin locks => l.id = "profile"
    BY <1>2, <2>4, LockFacts DEF Touches
  <2>8. InitialLock' /\ LaunchLock' /\ BoostLock' /\ DisplayLocks'
    BY <1>1, <2>7, InitialFrame, LaunchFrame, BoostFrame, DisplayFrame
       DEF PowerInv, launchVars, boostVars
  <2> QED
    BY <1>1, <2>4, <2>6, <2>8 DEF PowerInv, Types, launchVars, boostVars, displayVars
<1>5. CASE ~ (wanted /\ acquired)
  <2>1. performWhen(undone, "profile", wanted /\ acquired) = undone
    BY <1>5 DEF performWhen
  <2>2. HintsKept' /\ locks' = {l \in locks : l.id # "profile"} /\ next' = next
    BY <1>1, <1>3, <2>1, BecomeKept
  <2>3. current_power_profile' = Balanced
    BY <1>1, <1>5 DEF profileAfter
  <2>4. ProfileLock'
    BY <2>2, <2>3 DEF ProfileLock, Profiles, Balanced, PowerSave, BiasPerformance
  <2>5. locks' \subseteq locks /\ \A l \in locks' : l \notin locks => l.id = "profile"
    BY <2>2
  <2>6. Touches({"profile"})
    <3>1. next' \in Nat /\ next <= next'
      BY <1>2, <2>2
    <3>2. \A l \in locks : l.id \notin {"profile"} => l \in locks'
      BY <2>2
    <3> QED
      BY <2>5, <3>1, <3>2 DEF Touches
  <2>7. InitialLock' /\ LaunchLock' /\ BoostLock' /\ DisplayLocks'
    BY <1>1, <2>5, <2>6, InitialFrame, LaunchFrame, BoostFrame, DisplayFrame
       DEF PowerInv, launchVars, boostVars
  <2> QED
    BY <1>1, <2>2, <2>4, <2>7 DEF PowerInv, Types, launchVars, boostVars, displayVars
<1> QED
  BY <1>4, <1>5

\* No step of these changes a lock.
LEMMA OthersKeep ==
  ASSUME PowerAssumption, PowerInv, UNCHANGED <<current_power_profile, hintVars, launch_handle, launch_mode,
                                lock_handle, displayVars>>,
         launching' \in BOOLEAN, recent' \in BOOLEAN, sustained' \in BOOLEAN,
         interactive' \in BOOLEAN, GovernorChanges \/ interactive' = interactive
  PROVE  PowerInv'
<1>1. locks' = locks /\ next' = next /\ Now' = Now
  BY DEF hintVars, Now
<1>2. HintsKept'
  BY <1>1 DEF PowerInv, HintsKept
<1>3. InitialLock' /\ ProfileLock' /\ LaunchLock' /\ BoostLock'
  BY <1>1 DEF PowerInv, InitialLock, ProfileLock, LaunchLock, BoostLock
<1>4. Types'
  BY DEF PowerInv, Types, displayVars
<1>5. DisplayLocks'
  BY <1>1 DEF PowerInv, DisplayLocks, Orderly, displayVars
<1> QED
  BY <1>2, <1>3, <1>4, <1>5 DEF PowerInv

\* A launch begins where none is under way, or ends with the lock it has.
LEMMA LaunchKeeps ==
  ASSUME PowerAssumption, PowerInv, NEW on \in BOOLEAN, launch(on)
  PROVE  PowerInv'
<1>0. Kept(Now) /\ Now.held = locks /\ Now.next = next
      /\ (\A l \in locks : l.handle \in Nat /\ l.handle \in Handles /\ l.handle < next)
      /\ next \in Nat
  BY HeldLocks DEF PowerInv, HintsKept
<1>1. launching' = on /\ UNCHANGED <<current_power_profile, boostVars, displayVars, interactive, sustained>>
  BY DEF launch
<1>2. CASE UNCHANGED <<hintVars, launch_handle, launch_mode>>
  BY <1>1, <1>2, OthersKeep DEF boostVars, PowerInv, Types
<1>3. CASE ~Skipped /\ ~on
  <2> DEFINE t == IF launch_handle > 0 THEN ReleaseIn(Now, launch_handle) ELSE Now
  <2>1. /\ Become(t) /\ launch_mode' = FALSE
        /\ launch_handle' = IF launch_handle > 0 THEN Nobody ELSE launch_handle
    BY <1>3 DEF launch
  <2>2. Kept(t) /\ t.next = next /\ t.held = {l \in locks : l.id # "launch"}
    <3>1. \A l \in locks : l.id = "launch" <=> l.handle = launch_handle
      BY DEF PowerInv, LaunchLock
    <3>2. CASE launch_handle > 0
      <4>1. \A l \in Now.held : l.handle = launch_handle => l.id \notin Listed
        BY <1>0, <3>1 DEF Listed
      <4> QED
        BY <1>0, <3>1, <3>2, <4>1, ReleaseKeeps
    <3>3. CASE ~ (launch_handle > 0)
      <4>1. \A l \in locks : l.id # "launch"
        BY <1>0, <3>1, <3>3 DEF Handles
      <4> QED
        BY <1>0, <3>3, <4>1
    <3> QED
      BY <3>2, <3>3
  <2> HIDE DEF t
  <2>3. HintsKept' /\ locks' = {l \in locks : l.id # "launch"} /\ next' = next
    BY <2>1, <2>2, BecomeKept
  <2>4. Touches({"launch"}) /\ locks' \subseteq locks
    BY <1>0, <2>3 DEF Touches
  <2>5. LaunchLock' /\ Types'
    <3>1. launch_handle' \in Int /\ launch_handle' < next /\ launch_handle' \in Handles \cup {0, Nobody}
          /\ (launch_handle' = Nobody \/ launch_handle' = launch_handle)
      BY <1>0, <2>1, RememberedHandles DEF PowerInv, LaunchLock, Nobody
    <3>2. \A l \in locks' : l.handle # launch_handle'
      BY <1>0, <2>3, <3>1 DEF PowerInv, LaunchLock, Nobody
    <3> QED
      BY <1>1, <2>1, <2>3, <3>1, <3>2 DEF LaunchLock, PowerInv, Types, boostVars, displayVars
  <2>6. InitialLock' /\ ProfileLock' /\ BoostLock' /\ DisplayLocks'
    BY <1>1, <2>4, InitialFrame, ProfileFrame, BoostFrame, DisplayFrame DEF PowerInv, boostVars
  <2> QED
    BY <2>3, <2>5, <2>6 DEF PowerInv
<1>4. CASE ~Skipped /\ on /\ ~launch_mode
  <2>1. PICK ok \in Outcomes :
          /\ next <= MaxHandle
          /\ Become(IF ok THEN interaction_with_handle(Now, launch_handle, "launch") ELSE Now)
          /\ launch_handle' = (IF ok THEN handleOf(Now, launch_handle) ELSE Nobody)
          /\ launch_mode' = ok
    BY <1>4 DEF launch
  <2>2. \A l \in locks : l.id # "launch" /\ l.handle # launch_handle
    BY <1>4 DEF PowerInv, LaunchLock
  <2>3. CASE ~ok
    <3>1. HintsKept' /\ locks' = locks /\ next' = next
      BY <1>0, <2>1, <2>3, BecomeKept
    <3>2. Touches({}) /\ locks' \subseteq locks
      BY <1>0, <3>1 DEF Touches
    <3>3. LaunchLock' /\ Types'
      <4>1. launch_handle' = Nobody /\ launch_mode' \in BOOLEAN
        BY <2>1, <2>3 DEF Outcomes
      <4> QED
        BY <1>0, <1>1, <2>2, <3>1, <4>1 DEF LaunchLock, PowerInv, Types, boostVars, displayVars, Nobody
    <3>4. InitialLock' /\ ProfileLock' /\ BoostLock' /\ DisplayLocks'
      BY <1>1, <3>2, InitialFrame, ProfileFrame, BoostFrame, DisplayFrame DEF PowerInv, boostVars
    <3> QED
      BY <3>1, <3>3, <3>4 DEF PowerInv
  <2>4. CASE ok
    <3> DEFINE t == interaction_with_handle(Now, launch_handle, "launch")
               g == handleOf(Now, launch_handle)
    <3>1. /\ Kept(t) /\ g \in Handles /\ g < t.next /\ next <= t.next
          /\ t.held = {l \in locks : l.handle # g} \cup {Lock("launch", g)}
      <4>1. "launch" \in Timed /\ Now.next <= MaxHandle
            /\ \A l \in Now.held : l.handle = launch_handle => l.id \in Timed
        BY <1>0, <2>1, <2>2 DEF Timed
      <4>2. Kept(Now)
        BY <1>0
      <4> HIDE DEF t, g
      <4> QED
        BY <1>0, <4>1, <4>2, InteractionKeeps DEF t, g
    <3>2. g = next
      BY <1>0, <2>2 DEF handleOf
    <3>3. Become(t) /\ launch_handle' = g /\ launch_mode' = TRUE
      BY <2>1, <2>4 DEF Outcomes
    <3> HIDE DEF t, g
    <3>4. HintsKept' /\ locks' = locks \cup {Lock("launch", next)} /\ next' = t.next /\ next < next' /\ launch_handle' = next
      BY <1>0, <3>1, <3>2, <3>3, BecomeKept
    <3>5. next' \in Nat
      BY <3>1, <3>4, HeldLocks DEF Kept
    <3>6. Touches({"launch"}) /\ \A l \in locks' : l \notin locks => l.id = "launch"
      BY <1>0, <3>4, <3>5, LockFacts DEF Touches
    <3>7. LaunchLock' /\ Types'
      <4>1. \A l \in locks' : l.id = "launch" <=> l.handle = next
        BY <1>0, <2>2, <3>4, LockFacts
      <4> QED
        BY <1>1, <3>1, <3>2, <3>3, <3>4, <4>1 DEF LaunchLock, PowerInv, Types, boostVars, displayVars
    <3>8. InitialLock' /\ ProfileLock' /\ BoostLock' /\ DisplayLocks'
      BY <1>1, <3>6, InitialFrame, ProfileFrame, BoostFrame, DisplayFrame DEF PowerInv, boostVars
    <3> QED
      BY <3>4, <3>7, <3>8 DEF PowerInv
  <2> QED
    BY <2>3, <2>4
<1> QED
  BY <1>2, <1>3, <1>4 DEF launch

\* The interaction lock is renewed; after a refusal a new one may come beside it.
LEMMA BoostKeeps ==
  ASSUME PowerAssumption, PowerInv, NEW d \in Durations, boost(d)
  PROVE  PowerInv'
<1>0. /\ Kept(Now) /\ Now.held = locks /\ Now.next = next /\ next \in Nat
      /\ \A l \in locks : l.handle \in Nat /\ l.handle \in Handles /\ l.handle < next
  BY HeldLocks DEF PowerInv, HintsKept
<1>1. PICK ok \in Outcomes :
        /\ Become(IF ok THEN interaction_with_handle(Now, lock_handle, boostFor(d)) ELSE Now)
        /\ lock_handle' = IF ok THEN handleOf(Now, lock_handle) ELSE Nobody
  BY DEF boost
<1>2. next <= MaxHandle /\ recent' = TRUE
      /\ UNCHANGED <<current_power_profile, launchVars, displayVars, interactive, sustained>>
  BY DEF boost
<1>3. CASE ~ok
  <2>1. HintsKept' /\ locks' = locks /\ next' = next /\ lock_handle' = Nobody /\ AcqFails
    BY <1>0, <1>1, <1>3, BecomeKept DEF Outcomes
  <2>2. Touches({}) /\ locks' \subseteq locks
    BY <1>0, <2>1 DEF Touches
  <2>3. BoostLock' /\ Types'
    BY <1>0, <1>2, <2>1 DEF BoostLock, PowerInv, Types, launchVars, displayVars, Nobody
  <2>4. InitialLock' /\ ProfileLock' /\ LaunchLock' /\ DisplayLocks'
    BY <1>2, <2>2, InitialFrame, ProfileFrame, LaunchFrame, DisplayFrame DEF PowerInv, launchVars
  <2> QED
    BY <2>1, <2>3, <2>4 DEF PowerInv
<1>4. CASE ok
  <2> DEFINE id == boostFor(d)
             t == interaction_with_handle(Now, lock_handle, id)
             g == handleOf(Now, lock_handle)
  <2>1. Become(t) /\ lock_handle' = g
    BY <1>1, <1>4
  <2>2. id \in {"boost", "fling"} /\ id \in Timed
    BY DEF boostFor, Timed
  <2> HIDE DEF id
  <2>3. \A l \in locks : l.handle = lock_handle => l.id \in {"boost", "fling"}
    BY DEF PowerInv, BoostLock
  <2>4. /\ Kept(t) /\ g \in Handles /\ g < t.next /\ next <= t.next
        /\ t.held = {l \in locks : l.handle # g} \cup {Lock(id, g)}
        /\ g = lock_handle \/ g = next
    <3>1. Now.next <= MaxHandle /\ \A l \in Now.held : l.handle = lock_handle => l.id \in Timed
      BY <1>0, <1>2, <2>3 DEF Timed
    <3>2. Kept(Now)
      BY <1>0
    <3> HIDE DEF t, g
    <3> QED
      BY <1>0, <2>2, <3>1, <3>2, InteractionKeeps DEF t, g
  <2> HIDE DEF t, g
  <2>5. HintsKept' /\ locks' = {l \in locks : l.handle # g} \cup {Lock(id, g)} /\ next' = t.next
    BY <2>1, <2>4, BecomeKept
  <2>6. next' \in Nat /\ g \in Nat
    BY <2>4, <2>5, HeldLocks DEF Kept, Handles
  <2>7. \A l \in locks : l.handle = g => l.id \in {"boost", "fling"}
    BY <1>0, <2>3, <2>4
  <2>8. Touches({"boost", "fling"}) /\ \A l \in locks' : l \notin locks => l.id \in {"boost", "fling"}
    <3>1. \A l \in locks : l.id \notin {"boost", "fling"} => l \in locks'
      BY <2>5, <2>7
    <3>2. g >= next \/ \E m \in locks : m.handle = g
      <4>1. CASE \E m \in locks : m.handle = lock_handle
        BY <1>0, <4>1 DEF g, handleOf
      <4>2. CASE ~ \E m \in locks : m.handle = lock_handle
        BY <1>0, <4>2 DEF g, handleOf
      <4> QED
        BY <4>1, <4>2
    <3>3. \A l \in locks' : l \notin locks => l.id = id /\ l.handle = g
      BY <2>5, LockFacts
    <3>4. \A l \in locks' : l \notin locks =>
            /\ l.id \in {"boost", "fling"}
            /\ \/ l.handle >= next
               \/ \E m \in locks : m.id \in {"boost", "fling"} \ {"initial"} /\ m.handle = l.handle
      BY <2>2, <2>7, <3>2, <3>3
    <3> QED
      BY <2>4, <2>5, <2>6, <3>1, <3>4 DEF Touches
  <2>9. BoostLock'
    <3>1. lock_handle' < next' /\ lock_handle' = g
      BY <2>1, <2>4, <2>5
    <3>2. \A l \in locks' : l.handle = g => l.id \in {"boost", "fling"}
      BY <2>2, <2>5, LockFacts
    <3>3. ~AcqFails => \A l \in locks' : l.id \in {"boost", "fling"} => l.handle = g
      <4> SUFFICES ASSUME ~AcqFails, NEW l \in locks', l.id \in {"boost", "fling"} PROVE l.handle = g
        OBVIOUS
      <4>1. CASE l = Lock(id, g)
        BY <4>1, LockFacts
      <4>2. CASE l # Lock(id, g)
        <5>1. l \in locks /\ l.handle = lock_handle /\ l.handle # g
          BY <2>5, <4>2 DEF PowerInv, BoostLock
        <5>2. g = lock_handle
          BY <1>0, <5>1 DEF g, handleOf
        <5> QED
          BY <5>1, <5>2
      <4> QED
        BY <4>1, <4>2
    <3> QED
      BY <3>1, <3>2, <3>3 DEF BoostLock
  <2>10. InitialLock' /\ ProfileLock' /\ LaunchLock' /\ DisplayLocks'
    BY <1>2, <2>8, InitialFrame, ProfileFrame, LaunchFrame, DisplayFrame DEF PowerInv, launchVars
  <2>11. Types'
    BY <1>2, <2>1, <2>4 DEF PowerInv, Types, launchVars, displayVars
  <2> QED
    BY <2>5, <2>9, <2>10, <2>11 DEF PowerInv
<1> QED
  BY <1>3, <1>4 DEF Outcomes

\* The lock of the init script is given back when the display goes off first.
LEMMA InitialReleased ==
  ASSUME PowerAssumption, HintsKept, InitialLock
  PROVE  LET t == initialReleased(Now)
         IN  /\ Kept(t) /\ t.next = next
             /\ t.held = IF first_display_off_hint THEN locks ELSE {l \in locks : l.id # "initial"}
<1>1. Kept(Now) /\ Now.held = locks /\ Now.next = next
  BY HeldLocks DEF HintsKept
<1>2. CASE first_display_off_hint
  BY <1>1, <1>2 DEF initialReleased
<1>3. CASE ~first_display_off_hint
  <2>1. initialReleased(Now) = ReleaseIn(Now, 1)
    BY <1>3 DEF initialReleased
  <2>2. \A l \in Now.held : l.handle = 1 => l.id \notin Listed
    BY <1>1 DEF InitialLock, Listed
  <2>3. \A l \in locks : l.id # "initial" <=> l.handle # 1
    BY DEF InitialLock
  <2>4. Kept(ReleaseIn(Now, 1)) /\ ReleaseIn(Now, 1).next = next /\ ReleaseIn(Now, 1).held = {l \in locks : l.handle # 1}
    BY <1>1, <2>2, ReleaseKeeps
  <2> QED
    BY <1>3, <2>1, <2>3, <2>4
<1> QED
  BY <1>2, <1>3

\* Off: what was tuned for the display is undone and the cores are limited.
LEMMA DisplayOffKeeps ==
  ASSUME PowerAssumption, PowerInv, displayOff
  PROVE  PowerInv'
<1>0. /\ next \in Nat /\ \A l \in locks : l.handle \in Nat /\ l.handle \in Handles /\ l.handle < next
  BY HeldLocks DEF PowerInv
<1>1. /\ next <= MaxHandle /\ display' = FALSE /\ display_hint_sent' = TRUE /\ (Repeats \/ display)
      /\ UNCHANGED <<current_power_profile, launchVars, boostVars, interactive, sustained>>
  BY DEF displayOff, set_interactive
<1>2. CASE display_hint_sent
  <2>1. UNCHANGED <<hintVars, first_display_off_hint>>
    BY <1>2 DEF displayOff
  <2>2. locks' = locks /\ next' = next /\ Now' = Now
    BY <2>1 DEF hintVars, Now
  <2>3. HintsKept' /\ InitialLock' /\ ProfileLock' /\ LaunchLock' /\ BoostLock'
    BY <1>1, <2>2 DEF PowerInv, HintsKept, InitialLock, ProfileLock, LaunchLock, BoostLock, launchVars, boostVars
  <2>4. Types'
    BY <1>1, <2>1 DEF PowerInv, Types, launchVars, boostVars
  <2>5. ~Orderly
    BY <1>1, <1>2 DEF PowerInv, DisplayLocks, Orderly
  <2> QED
    BY <2>3, <2>4, <2>5 DEF PowerInv, DisplayLocks
<1>3. CASE ~display_hint_sent
  <2> DEFINE u == initialReleased(Now)
             v == undo_hint_action(u, "display2")
  <2>1. PICK ok \in Outcomes : Become(performWhen(v, "display", ok /\ interactive))
    BY <1>3 DEF displayOff
  <2>2. first_display_off_hint' = TRUE
    BY <1>3 DEF displayOff
  <2>3. /\ Kept(u) /\ u.next = next
        /\ u.held = IF first_display_off_hint THEN locks ELSE {l \in locks : l.id # "initial"}
    BY InitialReleased DEF PowerInv
  <2> HIDE DEF u
  <2>4. /\ Kept(v) /\ v.next = next
        /\ \/ \E l \in u.held : l.id = "display2" /\ v.held = u.held \ {l}
           \/ v.held = u.held /\ \A l \in u.held : l.id # "display2"
    <3>1. "display2" \in Listed
      BY DEF Listed
    <3> QED
      BY <2>3, <3>1, UndoKeeps
  <2> HIDE DEF v
  <2>5. /\ v.held \subseteq locks
        /\ \A l \in locks : l.id \notin {"display", "display2", "initial"} => l \in v.held
        /\ Orderly => \A l \in v.held : l.id \notin {"display2", "initial"}
    <3>1. u.held \subseteq locks /\ \A l \in locks : l.id # "initial" => l \in u.held
      BY <2>3
    <3>2. v.held \subseteq u.held /\ \A l \in u.held : l.id # "display2" => l \in v.held
      BY <2>4
    <3>3. Orderly => \A l, m \in locks : l.id = "display2" /\ m.id = "display2" => l = m
      BY DEF PowerInv, DisplayLocks
    <3>4. Orderly => \A l \in v.held : l.id # "display2"
      BY <2>4, <3>1, <3>3
    <3>5. Orderly => \A l \in u.held : l.id # "initial"
      BY <2>3 DEF PowerInv, DisplayLocks
    <3> QED
      BY <3>1, <3>2, <3>4, <3>5
  <2>6. /\ HintsKept' /\ next' \in Nat /\ next <= next'
        /\ v.held \subseteq locks' /\ locks' \subseteq v.held \cup {Lock("display", next)}
    <3>1. CASE ok /\ interactive
      <4>1. performWhen(v, "display", ok /\ interactive) = performWhen(v, "display", TRUE)
        BY <3>1 DEF performWhen
      <4>2. "display" \in Listed /\ v.next <= MaxHandle
        BY <1>1, <2>4 DEF Listed
      <4>3. Kept(performWhen(v, "display", TRUE)) /\ performWhen(v, "display", TRUE).held = v.held \cup {Lock("display", next)}
        BY <2>4, <4>2, PerformKeeps
      <4>4. performWhen(v, "display", TRUE).next = next + 1
        BY <2>4 DEF performWhen
      <4>5. HintsKept' /\ locks' = v.held \cup {Lock("display", next)} /\ next' = next + 1
        BY <2>1, <4>1, <4>3, <4>4, BecomeKept
      <4> QED
        BY <1>0, <4>5
    <3>2. CASE ~ (ok /\ interactive)
      <4>1. performWhen(v, "display", ok /\ interactive) = v
        BY <3>2 DEF performWhen
      <4>2. HintsKept' /\ locks' = v.held /\ next' = next
        BY <2>1, <2>4, <4>1, BecomeKept
      <4> QED
        BY <1>0, <4>2
    <3> QED
      BY <3>1, <3>2
  <2>7. Touches({"display", "display2", "initial"}) /\ \A l \in locks' : l \notin locks => l.id = "display"
    <3>1. \A l \in locks' : l \notin locks => l.id = "display" /\ l.handle = next
      BY <2>5, <2>6, LockFacts
    <3>2. \A l \in locks : l.id \notin {"display", "display2", "initial"} => l \in locks'
      BY <2>5, <2>6
    <3> QED
      BY <1>0, <2>6, <3>1, <3>2 DEF Touches
  <2>8. InitialLock' /\ ProfileLock' /\ LaunchLock' /\ BoostLock'
    BY <1>1, <2>7, InitialFrame, ProfileFrame, LaunchFrame, BoostFrame DEF PowerInv, launchVars, boostVars
  <2>9. DisplayLocks'
    <3> SUFFICES ASSUME Orderly PROVE DisplayLocks'
      BY DEF DisplayLocks, Orderly
    <3>1. interactive' /\ \A l \in locks : l.id # "display"
      BY <1>1 DEF PowerInv, DisplayLocks, Orderly
    <3>2. \A l \in locks' : l.id \notin {"display2", "initial"}
      BY <2>5, <2>6, LockFacts
    <3>3. \A l \in locks' : l.id = "display" => l = Lock("display", next)
      BY <2>5, <2>6, <3>1
    <3> QED
      BY <1>1, <2>2, <3>1, <3>2, <3>3 DEF DisplayLocks
  <2>10. Types'
    BY <1>1, <2>2 DEF PowerInv, Types, launchVars, boostVars
  <2> QED
    BY <2>6, <2>8, <2>9, <2>10 DEF PowerInv
<1> QED
  BY <1>2, <1>3

\* On: the cores are raised and what was tuned for the dark is undone.
LEMMA DisplayOnKeeps ==
  ASSUME PowerAssumption, PowerInv, displayOn
  PROVE  PowerInv'
<1>0. /\ Kept(Now) /\ Now.held = locks /\ Now.next = next /\ next \in Nat
      /\ \A l \in locks : l.handle \in Nat /\ l.handle \in Handles /\ l.handle < next
  BY HeldLocks DEF PowerInv, HintsKept
<1>1. /\ next <= MaxHandle /\ display' = TRUE /\ display_hint_sent' = FALSE /\ (Repeats \/ ~display)
      /\ UNCHANGED <<current_power_profile, launchVars, boostVars, first_display_off_hint,
                     interactive, sustained>>
  BY DEF displayOn, set_interactive
<1>2. PICK ok \in Outcomes :
        Become(IF interactive THEN undo_hint_action(performWhen(Now, "display2", ok), "display")
                              ELSE performWhen(Now, "display2", ok))
  BY DEF displayOn
<1> DEFINE r == performWhen(Now, "display2", ok)
           t == IF interactive THEN undo_hint_action(r, "display") ELSE r
<1>3. /\ Kept(r) /\ r.next \in Nat /\ next <= r.next
      /\ locks \subseteq r.held /\ r.held \subseteq locks \cup {Lock("display2", next)}
  <2>1. CASE ok
    <3>1. r = performWhen(Now, "display2", TRUE)
      BY <2>1 DEF performWhen
    <3>2. "display2" \in Listed /\ Now.next <= MaxHandle
      BY <1>0, <1>1 DEF Listed
    <3>3. Kept(r) /\ r.held = locks \cup {Lock("display2", next)}
      BY <1>0, <3>1, <3>2, PerformKeeps
    <3>4. r.next = next + 1
      BY <1>0, <3>1 DEF performWhen
    <3> QED
      BY <1>0, <3>3, <3>4
  <2>2. CASE ~ok
    <3>1. r = Now
      BY <2>2 DEF performWhen
    <3> QED
      BY <1>0, <3>1
  <2> QED
    BY <2>1, <2>2
<1> HIDE DEF r
<1>4. /\ Kept(t) /\ t.next = r.next
      /\ \/ ~interactive /\ t.held = r.held
         \/ \E l \in r.held : l.id = "display" /\ t.held = r.held \ {l}
         \/ t.held = r.held /\ \A l \in r.held : l.id # "display"
  <2>1. CASE interactive
    <3>1. "display" \in Listed
      BY DEF Listed
    <3> QED
      BY <1>3, <2>1, <3>1, UndoKeeps
  <2>2. CASE ~interactive
    BY <1>3, <2>2
  <2> QED
    BY <2>1, <2>2
<1>5. Become(t)
  BY <1>2 DEF r
<1> HIDE DEF t
<1>6. HintsKept' /\ locks' = t.held /\ next' = t.next
  BY <1>4, <1>5, BecomeKept
<1>7. /\ \A l \in locks : l.id # "display" => l \in locks'
      /\ locks' \subseteq locks \cup {Lock("display2", next)}
  BY <1>3, <1>4, <1>6
<1>8. Touches({"display", "display2"}) /\ \A l \in locks' : l \notin locks => l.id = "display2"
  <2>1. \A l \in locks' : l \notin locks => l.id = "display2" /\ l.handle = next
    BY <1>7, LockFacts
  <2> QED
    BY <1>0, <1>3, <1>4, <1>6, <1>7, <2>1 DEF Touches
<1>9. InitialLock' /\ ProfileLock' /\ LaunchLock' /\ BoostLock'
  BY <1>1, <1>8, InitialFrame, ProfileFrame, LaunchFrame, BoostFrame DEF PowerInv, launchVars, boostVars
<1>10. DisplayLocks'
  <2> SUFFICES ASSUME Orderly PROVE DisplayLocks'
    BY DEF DisplayLocks, Orderly
  <2>1. /\ ~display /\ interactive /\ first_display_off_hint
        /\ \A l \in locks : l.id \notin {"display2", "initial"}
        /\ \A l, m \in locks : l.id = m.id /\ l.id = "display" => l = m
    BY <1>1 DEF PowerInv, DisplayLocks, Orderly
  <2>2. \A l, m \in r.held : l.id = "display" /\ m.id = "display" => l = m
    BY <1>3, <2>1, LockFacts
  <2>3. \A l \in locks' : l.id # "display"
    BY <1>4, <1>6, <2>1, <2>2
  <2>4. \A l \in locks' : l.id = "display2" => l = Lock("display2", next)
    BY <1>7, <2>1
  <2>5. \A l \in locks' : l.id # "initial"
    BY <1>7, <2>1, LockFacts
  <2> QED
    BY <1>1, <2>1, <2>3, <2>4, <2>5 DEF DisplayLocks
<1>11. Types'
  BY <1>1 DEF PowerInv, Types, launchVars, boostVars
<1> QED
  BY <1>6, <1>9, <1>10, <1>11 DEF PowerInv

\* perfd drops a lock that was for some time only.
LEMMA ExpireKeeps ==
  ASSUME PowerAssumption, PowerInv, Expire
  PROVE  PowerInv'
<1>0. /\ Kept(Now) /\ Now.held = locks /\ Now.next = next /\ next \in Nat /\ Now.list = active_hints
      /\ \A l, m \in locks : l.handle = m.handle => l = m
  BY HeldLocks DEF PowerInv, HintsKept
<1>1. PICK l \in locks : l.id \in Timed /\ locks' = locks \ {l}
  BY DEF Expire
<1>2. UNCHANGED <<current_power_profile, active_hints, next, launchVars, boostVars, displayVars,
                  interactive, sustained>>
  BY DEF Expire
<1>3. HintsKept' /\ next' = next
  <2> DEFINE t == ReleaseIn(Now, l.handle)
  <2>1. \A m \in Now.held : m.handle = l.handle => m.id \notin Listed
    BY <1>0, <1>1 DEF Timed, Listed
  <2>2. Kept(t) /\ t.held = {m \in locks : m.handle # l.handle} /\ t.next = next
    BY <1>0, <2>1, ReleaseKeeps
  <2>3. t.list = active_hints /\ t.held = locks \ {l}
    <3>1. t.list = Now.list
      BY DEF ReleaseIn, Now
    <3> QED
      BY <1>0, <1>1, <2>2, <3>1
  <2>4. Become(t)
    BY <1>1, <1>2, <2>2, <2>3 DEF Become
  <2> HIDE DEF t
  <2> QED
    BY <2>2, <2>4, BecomeKept
<1>4. Touches(Timed) /\ locks' \subseteq locks
  BY <1>0, <1>1, <1>3 DEF Touches
<1>5. InitialLock' /\ ProfileLock' /\ DisplayLocks'
  BY <1>2, <1>4, InitialFrame, ProfileFrame, DisplayFrame DEF PowerInv, Timed
<1>6. LaunchLock' /\ BoostLock' /\ Types'
  BY <1>2, <1>4 DEF PowerInv, LaunchLock, BoostLock, Types, launchVars, boostVars, displayVars
<1> QED
  BY <1>3, <1>5, <1>6 DEF PowerInv

LEMMA NextPower == ASSUME PowerAssumption, PowerInv, [Next]_vars PROVE PowerInv'
<1>1. ASSUME NEW p \in PowerSave..(BiasPerformance + 1), set_power_profile(p) PROVE PowerInv'
  BY <1>1, ProfileKeeps
<1>2. ASSUME NEW on \in BOOLEAN, launch(on) PROVE PowerInv'
  BY <1>2, LaunchKeeps
<1>3. ASSUME NEW on \in BOOLEAN, sustain(on) PROVE PowerInv'
  BY <1>3, OthersKeep DEF sustain, launchVars, boostVars, PowerInv, Types
<1>4. ASSUME NEW d \in Durations, boost(d) PROVE PowerInv'
  BY <1>4, BoostKeeps
<1>5. CASE displayOff \/ displayOn \/ Expire
  BY <1>5, DisplayOffKeeps, DisplayOnKeeps, ExpireKeeps
<1>6. CASE TimePasses
  BY <1>6, OthersKeep DEF TimePasses, launchVars, PowerInv, Types
<1>7. CASE ChangeGovernor
  BY <1>7, OthersKeep DEF ChangeGovernor, launchVars, boostVars, PowerInv, Types
<1>8. CASE UNCHANGED vars
  BY <1>8, OthersKeep DEF vars, hintVars, displayVars, PowerInv, Types
<1> QED
  BY <1>1, <1>2, <1>3, <1>4, <1>5, <1>6, <1>7, <1>8 DEF Next

LEMMA PowerAlways == ASSUME PowerAssumption PROVE Spec => []PowerInv
  BY InitPower, NextPower, PTL DEF Spec

-----------------------------------------------------------------------------
(* What follows. *)

\* A list without repetition has as many elements as its set.
LEMMA ListCounts ==
  ASSUME PowerAssumption, HintsKept
  PROVE  Range(active_hints) = Of(Listed) /\ Len(active_hints) = Cardinality(Of(Listed))
<1>1. /\ active_hints \in Seq(Nodes)
      /\ \A i, j \in 1..Len(active_hints) : active_hints[i] = active_hints[j] => i = j
      /\ \A i \in 1..Len(active_hints) : active_hints[i] \in locks
      /\ \A l \in locks : l.id \in Listed => \E i \in 1..Len(active_hints) : active_hints[i] = l
  BY DEF HintsKept, Kept, Now
<1>2. Len(active_hints) \in Nat /\ DOMAIN active_hints = 1..Len(active_hints)
  BY <1>1, LenProperties
<1>3. \A i \in 1..Len(active_hints) : active_hints[i] \in Of(Listed)
  <2>1. \A i \in 1..Len(active_hints) : active_hints[i] \in Nodes
    BY <1>1, ElementOfSeq
  <2> QED
    BY <1>1, <2>1 DEF Of, Nodes
<1>4. \A l \in Of(Listed) : \E i \in 1..Len(active_hints) : active_hints[i] = l
  BY <1>1 DEF Of
<1>5. Range(active_hints) = Of(Listed)
  BY <1>2, <1>3, <1>4 DEF Range
<1>6. ExistsBijection(1..Len(active_hints), Of(Listed))
  <2> DEFINE f == [i \in 1..Len(active_hints) |-> active_hints[i]]
  <2>1. f \in [1..Len(active_hints) -> Of(Listed)]
    BY <1>3
  <2>2. f \in Bijection(1..Len(active_hints), Of(Listed))
    BY <1>1, <1>4, <2>1 DEF Bijection, Injection, Surjection, IsInjective
  <2> QED
    BY <2>2 DEF ExistsBijection
<1>7. Cardinality(1..Len(active_hints)) = Len(active_hints) /\ IsFiniteSet(1..Len(active_hints))
  <2> DEFINE n == Len(active_hints)
  <2>1. n \in Int /\ 1 \in Int /\ n >= 0
    BY <1>2
  <2> HIDE DEF n
  <2>2. IsFiniteSet(1..n) /\ Cardinality(1..n) = IF 1 > n THEN 0 ELSE n - 1 + 1
    BY <2>1, FS_Interval
  <2>3. Cardinality(1..n) = n
    BY <2>1, <2>2
  <2> QED
    BY <2>2, <2>3 DEF n
<1> QED
  BY <1>5, <1>6, <1>7, FS_Bijection

LEMMA InvTypes == ASSUME PowerAssumption, PowerInv PROVE TypeOK
<1>1. /\ active_hints \in Seq(Nodes) /\ locks \subseteq Locks /\ next \in 1..(MaxHandle + 1)
  BY DEF PowerInv, HintsKept, Kept, Now
<1> QED
  BY <1>1 DEF PowerInv, Types, TypeOK, ProfileLock, Nodes, Locks, Ids

LEMMA AtMostOne ==
  ASSUME NEW S, \A l, m \in S : l = m
  PROVE  Cardinality(S) = (IF S = {} THEN 0 ELSE 1)
<1>1. CASE S = {}
  BY <1>1, FS_EmptySet
<1>2. CASE S # {}
  <2>1. PICK l : S = {l}
    BY <1>2
  <2> QED
    BY <1>2, <2>1, FS_Singleton
<1> QED
  BY <1>1, <1>2

LEMMA InvPowerSound ==
  ASSUME PowerAssumption, PowerInv
  PROVE  TypeOK /\ ListMatchesLocks /\ ProfileHeld /\ LaunchKnown
<1>1. TypeOK /\ ListMatchesLocks
  BY InvTypes, ListCounts DEF PowerInv, ListMatchesLocks
<1>2. ProfileHeld
  <2> DEFINE S == Of({"profile"})
  <2>1. \A l, m \in S : l = m
    BY DEF PowerInv, ProfileLock, Of
  <2>2. S = {} <=> current_power_profile = Balanced
    BY DEF PowerInv, ProfileLock, Of
  <2> HIDE DEF S
  <2>3. Cardinality(S) = IF S = {} THEN 0 ELSE 1
    BY <2>1, AtMostOne
  <2> QED
    BY <2>2, <2>3 DEF ProfileHeld, S
<1>3. LaunchKnown
  BY DEF PowerInv, LaunchLock, LaunchKnown, Of
<1> QED
  BY <1>1, <1>2, <1>3

LEMMA InvOneOfEach ==
  ASSUME PowerAssumption, PowerInv, ~AcqFails
  PROVE  OneOfEach
<1> DEFINE B == Of({"boost", "fling"})
           L == Of({"launch"})
<1>1. \A l, m \in locks : l.handle = m.handle => l = m
  BY HeldLocks DEF PowerInv
<1>2. \A l, m \in B : l = m
  BY <1>1 DEF PowerInv, BoostLock, Of
<1>3. \A l, m \in L : l = m
  BY <1>1 DEF PowerInv, LaunchLock, Of
<1> HIDE DEF B, L
<1>4. Cardinality(B) <= 1 /\ Cardinality(L) <= 1
  BY <1>2, <1>3, AtMostOne
<1> QED
  BY <1>4 DEF OneOfEach, B, L

LEMMA InvDisplay ==
  ASSUME PowerInv, Orderly
  PROVE  NoCoresWhenOff /\ NoDarkTuningWhenOn
BY DEF PowerInv, DisplayLocks, NoCoresWhenOff, NoDarkTuningWhenOn, Of

\* The list of active hints is what perfd holds of the lasting locks, the current
\* profile has one lock, and a launch lock is one the service can release, whichever
\* acquisitions fail and in whichever order hints and expiries come (power-common.c,
\* utils.c, hint-data.c).
THEOREM LocksAreKnown ==
  ASSUME PowerAssumption
  PROVE  Spec => [](ListMatchesLocks /\ ProfileHeld /\ LaunchKnown)
<1>1. PowerInv => ListMatchesLocks /\ ProfileHeld /\ LaunchKnown
  BY InvPowerSound
<1> QED
  BY <1>1, PowerAlways, PTL

\* Where perfd refuses nothing there is one interaction lock and one launch lock, renewed
\* and not added to; and where also the governor stays and the framework does not repeat
\* itself, the dark display keeps no cores online and the lit one has no dark tuning.
THEOREM LocksFollowDisplay ==
  ASSUME PowerAssumption, Orderly
  PROVE  Spec => [](OneOfEach /\ NoCoresWhenOff /\ NoDarkTuningWhenOn)
<1>1. PowerInv => OneOfEach /\ NoCoresWhenOff /\ NoDarkTuningWhenOn
  BY InvOneOfEach, InvDisplay DEF Orderly
<1> QED
  BY <1>1, PowerAlways, PTL

-----------------------------------------------------------------------------
(***************************************************************************)
(* The torch (QCameraFlash), for any cameras and flashes: which ioctls     *)
(* must not fail for a camera to have its flash alone, and for the         *)
(* framework to have been told how things are.                             *)
(***************************************************************************)
CONSTANTS Cameras, WithFlash, Faults
VARIABLES gCamCapability, flash, led, device, status

Torch == INSTANCE QCameraFlash

Unit == [fd : BOOLEAN, on : BOOLEAN, cameraOpen : BOOLEAN, led : BOOLEAN]

LEMMA UnitTypes == ASSUME Torch!TypeOK, NEW c \in Cameras PROVE Torch!State(c) \in Unit
  BY DEF Torch!TypeOK, Torch!State, Unit

\* What becomes of one unit, and of no other.
LEMMA UnitBecomes ==
  ASSUME Torch!TypeOK, NEW c \in Cameras, NEW s \in Unit, Torch!Becomes(c, s)
  PROVE  /\ flash' \in [Cameras -> [fd : BOOLEAN, on : BOOLEAN, cameraOpen : BOOLEAN]]
         /\ led' \in [Cameras -> BOOLEAN]
         /\ flash'[c].fd = s.fd /\ flash'[c].on = s.on /\ flash'[c].cameraOpen = s.cameraOpen
         /\ led'[c] = s.led
         /\ \A d \in Cameras \ {c} : flash'[d] = flash[d] /\ led'[d] = led[d]
  BY DEF Torch!TypeOK, Torch!Becomes, Unit

LEMMA Told ==
  ASSUME Torch!TypeOK, NEW c \in Cameras, NEW s \in Torch!Statuses, Torch!tell(c, s)
  PROVE  /\ status' \in [Cameras -> Torch!Statuses] /\ status'[c] = s
         /\ \A d \in Cameras \ {c} : status'[d] = status[d]
  BY DEF Torch!TypeOK, Torch!tell

\* The light needs the node, is off once a camera has the flash, and an open
\* camera has its flash.
UnitSound(c) ==
    /\ led[c] => flash[c].fd /\ flash[c].on
    /\ flash[c].cameraOpen => ~(flash[c].on /\ flash[c].fd)
    /\ c \in device => flash[c].cameraOpen

\* A camera that is open was asked for its capabilities.
KnownDevices == device \subseteq gCamCapability

UnitsSound == Torch!TypeOK /\ KnownDevices /\ \A c \in Cameras : UnitSound(c)

-----------------------------------------------------------------------------
(* What the operations make of a sound unit. *)

Sound(s) == (s.led => s.fd /\ s.on) /\ (s.cameraOpen => ~(s.on /\ s.fd))

lit(s, ok) == Torch!setFlashMode([s EXCEPT !.fd = TRUE], TRUE, ok)

LEMMA Lit ==
  ASSUME NEW s \in Unit, Sound(s), ~s.cameraOpen, NEW ok \in BOOLEAN
  PROVE  /\ lit(s, ok) \in Unit /\ Sound(lit(s, ok)) /\ ~lit(s, ok).cameraOpen
         /\ ok => lit(s, ok).on
         /\ lit(s, ok).led = (s.led \/ (~s.on /\ lit(s, ok).on))
  BY DEF Unit, Sound, Torch!setFlashMode, lit

LEMMA Off ==
  ASSUME NEW s \in Unit, Sound(s), s.on, s.fd, NEW ok \in BOOLEAN
  PROVE  LET t == Torch!setFlashMode(s, FALSE, ok)
         IN  /\ t \in Unit /\ t.cameraOpen = s.cameraOpen
             /\ t.on => t = s
             /\ ~t.on => /\ Torch!deinitFlash(t, ok) \in Unit /\ Sound(Torch!deinitFlash(t, ok))
                         /\ ~Torch!deinitFlash(t, ok).led /\ ~Torch!deinitFlash(t, ok).fd
                         /\ ~Torch!deinitFlash(t, ok).on
                         /\ Torch!deinitFlash(t, ok).cameraOpen = s.cameraOpen
  BY DEF Unit, Sound, Torch!setFlashMode, Torch!deinitFlash

LEMMA Reserved ==
  ASSUME NEW s \in Unit, Sound(s), NEW ok \in BOOLEAN
  PROVE  /\ Torch!reserved(s, ok) \in Unit /\ Sound(Torch!reserved(s, ok))
         /\ Torch!reserved(s, ok).cameraOpen /\ ~Torch!reserved(s, ok).led
         /\ s.on => ~Torch!reserved(s, ok).fd
         /\ ~s.on => Torch!reserved(s, ok).fd = s.fd /\ Torch!reserved(s, ok).on = s.on
         /\ ok /\ (s.on => s.led) => ~Torch!reserved(s, ok).on
  BY DEF Unit, Sound, Torch!reserved, Torch!setFlashMode, Torch!deinitFlash

LEMMA Released ==
  ASSUME NEW s \in Unit, Sound(s), ~s.led
  PROVE  /\ Torch!released(s) \in Unit /\ Sound(Torch!released(s))
         /\ ~Torch!released(s).cameraOpen /\ ~Torch!released(s).led
         /\ Torch!released(s).fd = s.fd /\ Torch!released(s).on = s.on
  BY DEF Unit, Sound, Torch!released

-----------------------------------------------------------------------------
(* The invariants. *)

\* With LED_LOW never failing, a torch that has the node is on.
NodeMeansOn == "on" \notin Faults => \A c \in Cameras : flash[c].fd => flash[c].on

\* With camera_open() never failing, a flash is reserved exactly while its camera
\* is open, and the framework knows of it.
Truth(c) ==
    IF c \in device THEN "NOT_AVAILABLE"
    ELSE IF led[c] THEN "AVAILABLE_ON" ELSE "AVAILABLE_OFF"
ToldTruth ==
    "camera" \notin Faults =>
      /\ Torch!BusyMeansOpen
      /\ \A c \in Cameras : c \in WithFlash => status[c] = Truth(c)

\* With LED_OFF never failing, a torch that is on is lit.
OnMeansLit == "off" \notin Faults => \A c \in Cameras : flash[c].on => led[c]

TorchInv == UnitsSound /\ NodeMeansOn /\ OnMeansLit /\ ToldTruth

\* What a call must do to the one unit it is for.
LEMMA OneUnit ==
  ASSUME TorchInv, NEW c \in Cameras, NEW s \in Unit, Sound(s), Torch!Becomes(c, s),
         gCamCapability' \subseteq Cameras, device' \subseteq gCamCapability',
         status' \in [Cameras -> Torch!Statuses],
         \A d \in Cameras \ {c} : status'[d] = status[d] /\ (d \in device' <=> d \in device),
         c \in device' => s.cameraOpen,
         "on" \notin Faults => (s.fd => s.on),
         "off" \notin Faults => (s.on => s.led),
         "camera" \notin Faults =>
            /\ s.cameraOpen <=> c \in device'
            /\ c \in WithFlash =>
                 status'[c] = IF c \in device' THEN "NOT_AVAILABLE"
                              ELSE IF s.led THEN "AVAILABLE_ON" ELSE "AVAILABLE_OFF"
  PROVE  TorchInv'
<1>1. /\ flash' \in [Cameras -> [fd : BOOLEAN, on : BOOLEAN, cameraOpen : BOOLEAN]]
      /\ led' \in [Cameras -> BOOLEAN]
      /\ flash'[c].fd = s.fd /\ flash'[c].on = s.on /\ flash'[c].cameraOpen = s.cameraOpen
      /\ led'[c] = s.led
      /\ \A d \in Cameras \ {c} : flash'[d] = flash[d] /\ led'[d] = led[d]
  BY UnitBecomes DEF TorchInv, UnitsSound
<1>2. UnitsSound'
  BY <1>1 DEF TorchInv, UnitsSound, UnitSound, KnownDevices, Torch!TypeOK, Sound
<1>3. NodeMeansOn'
  BY <1>1 DEF TorchInv, NodeMeansOn
<1>4. ToldTruth'
  BY <1>1 DEF TorchInv, ToldTruth, Torch!BusyMeansOpen, Truth
<1>5. OnMeansLit'
  BY <1>1 DEF TorchInv, OnMeansLit
<1> QED
  BY <1>2, <1>3, <1>4, <1>5 DEF TorchInv

LEMMA SoundUnit == ASSUME TorchInv, NEW c \in Cameras PROVE Torch!State(c) \in Unit /\ Sound(Torch!State(c))
  BY UnitTypes DEF TorchInv, UnitsSound, UnitSound, Torch!State, Sound

-----------------------------------------------------------------------------
(* The calls. *)

LEMMA InitTorch == ASSUME Torch!FlashAssumption, Torch!Init PROVE TorchInv
  BY DEF Torch!FlashAssumption, Torch!Init, TorchInv, UnitsSound, UnitSound, KnownDevices, Torch!TypeOK,
         Torch!Statuses, NodeMeansOn,
         OnMeansLit, ToldTruth, Torch!BusyMeansOpen, Truth

LEMMA InfoKeeps == ASSUME TorchInv, NEW c \in Cameras, Torch!getCamInfo(c) PROVE TorchInv'
<1>1. /\ gCamCapability' \subseteq Cameras /\ gCamCapability \subseteq gCamCapability'
      /\ UNCHANGED <<flash, led, device, status>>
  BY DEF Torch!getCamInfo, Torch!known, TorchInv, UnitsSound, Torch!TypeOK
<1> QED
  BY <1>1 DEF TorchInv, UnitsSound, UnitSound, KnownDevices, Torch!TypeOK, NodeMeansOn, OnMeansLit, ToldTruth,
              Torch!BusyMeansOpen,
              Truth

LEMMA TorchOnKeeps ==
  ASSUME Torch!FlashAssumption, TorchInv, NEW c \in Cameras, Torch!torchOn(c) PROVE TorchInv'
<1> DEFINE s == Torch!State(c)
<1>1. PICK ok \in Torch!May("on") :
         /\ Torch!Becomes(c, lit(s, ok))
         /\ IF ~s.on /\ lit(s, ok).on THEN Torch!tell(c, "AVAILABLE_ON") ELSE UNCHANGED status
  BY DEF Torch!torchOn, Torch!State, lit
<1>2. ok \in BOOLEAN /\ ("on" \notin Faults => ok = TRUE)
  BY DEF Torch!May
<1>3. s \in Unit /\ Sound(s) /\ ~s.cameraOpen
  BY SoundUnit DEF Torch!torchOn, Torch!initFlash, Torch!State
<1>4. UNCHANGED <<gCamCapability, device>> /\ gCamCapability \subseteq Cameras /\ device \subseteq gCamCapability
  BY DEF Torch!torchOn, TorchInv, UnitsSound, KnownDevices, Torch!TypeOK
<1> HIDE DEF s
<1>5. /\ lit(s, ok) \in Unit /\ Sound(lit(s, ok)) /\ ~lit(s, ok).cameraOpen
      /\ "on" \notin Faults => lit(s, ok).on
      /\ lit(s, ok).led = (s.led \/ (~s.on /\ lit(s, ok).on))
  BY <1>2, <1>3, Lit
<1>9. "off" \notin Faults => (lit(s, ok).on => lit(s, ok).led)
  <2>1. "off" \notin Faults => (s.on => s.led)
    BY DEF TorchInv, OnMeansLit, Torch!State, s
  <2> QED
    BY <1>5, <2>1
<1>6. /\ status' \in [Cameras -> Torch!Statuses] /\ \A d \in Cameras \ {c} : status'[d] = status[d]
      /\ status'[c] = IF ~s.on /\ lit(s, ok).on THEN "AVAILABLE_ON" ELSE status[c]
  BY <1>1, Told DEF TorchInv, UnitsSound, Torch!TypeOK, Torch!Statuses
<1>8. c \notin device
  BY <1>3 DEF TorchInv, UnitsSound, UnitSound, Torch!State, s
<1>7. "camera" \notin Faults =>
         c \notin device /\ (c \in WithFlash =>
           status[c] = IF s.led THEN "AVAILABLE_ON" ELSE "AVAILABLE_OFF")
  BY <1>3 DEF TorchInv, ToldTruth, Torch!BusyMeansOpen, Truth, Torch!State, s
<1> QED
  BY <1>1, <1>4, <1>5, <1>6, <1>7, <1>8, <1>9, OneUnit DEF Unit

LEMMA TorchOffKeeps ==
  ASSUME Torch!FlashAssumption, TorchInv, NEW c \in Cameras, Torch!torchOff(c) PROVE TorchInv'
<1> DEFINE s == Torch!State(c)
           dimmed(ok) == Torch!setFlashMode(s, FALSE, ok)
<1>1. PICK ok \in Torch!May("off") :
         IF dimmed(ok).on THEN Torch!Becomes(c, dimmed(ok)) /\ UNCHANGED status
         ELSE Torch!Becomes(c, Torch!deinitFlash(dimmed(ok), ok)) /\ Torch!saysOff(c)
  BY DEF Torch!torchOff
<1>2. ok \in BOOLEAN
  BY DEF Torch!May
<1>3. s \in Unit /\ Sound(s) /\ s.on /\ s.fd /\ ~s.cameraOpen
  BY SoundUnit DEF Torch!torchOff, Torch!State, Sound
<1>4. UNCHANGED <<gCamCapability, device>> /\ gCamCapability \subseteq Cameras /\ device \subseteq gCamCapability
      /\ status \in [Cameras -> Torch!Statuses]
  BY DEF Torch!torchOff, TorchInv, UnitsSound, KnownDevices, Torch!TypeOK
<1>5. "camera" \notin Faults =>
         c \notin device /\ (c \in WithFlash =>
           status[c] = IF s.led THEN "AVAILABLE_ON" ELSE "AVAILABLE_OFF")
  BY <1>3 DEF TorchInv, ToldTruth, Torch!BusyMeansOpen, Truth, Torch!State
<1>9. c \notin device /\ ("off" \notin Faults => (s.on => s.led))
  BY <1>3 DEF TorchInv, UnitsSound, UnitSound, OnMeansLit, Torch!State
<1> HIDE DEF s
<1>6. /\ dimmed(ok) \in Unit /\ dimmed(ok).cameraOpen = s.cameraOpen
      /\ dimmed(ok).on => dimmed(ok) = s
      /\ ~dimmed(ok).on =>
            /\ Torch!deinitFlash(dimmed(ok), ok) \in Unit /\ Sound(Torch!deinitFlash(dimmed(ok), ok))
            /\ ~Torch!deinitFlash(dimmed(ok), ok).led /\ ~Torch!deinitFlash(dimmed(ok), ok).fd
            /\ ~Torch!deinitFlash(dimmed(ok), ok).on
            /\ Torch!deinitFlash(dimmed(ok), ok).cameraOpen = s.cameraOpen
  BY <1>2, <1>3, Off
<1> HIDE DEF dimmed
<1>7. CASE dimmed(ok).on
  BY <1>1, <1>3, <1>4, <1>5, <1>6, <1>7, <1>9, OneUnit
<1>8. CASE ~dimmed(ok).on
  <2> DEFINE t == Torch!deinitFlash(dimmed(ok), ok)
  <2>1. Torch!Becomes(c, t) /\ t \in Unit /\ Sound(t) /\ ~t.led /\ ~t.fd /\ ~t.on /\ ~t.cameraOpen
    BY <1>1, <1>3, <1>6, <1>8
  <2>2. /\ status' \in [Cameras -> Torch!Statuses] /\ \A d \in Cameras \ {c} : status'[d] = status[d]
        /\ status'[c] = "AVAILABLE_OFF"
    BY <1>1, <1>8, Told DEF TorchInv, UnitsSound, Torch!Statuses, Torch!saysOff
  <2> HIDE DEF t
  <2> QED
    BY <1>4, <1>5, <1>9, <2>1, <2>2, OneUnit
<1> QED
  BY <1>7, <1>8

LEMMA OpenKeepsUnits ==
  ASSUME Torch!FlashAssumption, TorchInv, NEW c \in Cameras, Torch!openCamera(c) PROVE TorchInv'
<1> DEFINE taken(ok) == Torch!reserved(Torch!State(c), ok)
           left(closed, ok) == IF closed THEN Torch!released(taken(ok)) ELSE taken(ok)
<1>1. PICK opened \in Torch!May("camera"), registered \in Torch!May("register"), ok \in Torch!May("off") :
         /\ Torch!Becomes(c, left(opened /\ ~registered, ok))
         /\ device' = IF opened /\ registered THEN device \cup {c} ELSE device
         /\ IF ~Torch!hasFlash(c) THEN UNCHANGED status
            ELSE IF opened /\ ~registered THEN Torch!tell(c, "AVAILABLE_OFF")
            ELSE IF flash[c].cameraOpen THEN UNCHANGED status
            ELSE Torch!tell(c, "NOT_AVAILABLE")
  BY DEF Torch!openCamera
<1>2. /\ opened \in BOOLEAN /\ registered \in BOOLEAN /\ ok \in BOOLEAN
      /\ "camera" \notin Faults => opened = TRUE
      /\ "off" \notin Faults => ok = TRUE
  BY DEF Torch!May
<1>3. /\ c \notin device /\ c \in gCamCapability /\ UNCHANGED gCamCapability
      /\ gCamCapability \subseteq Cameras /\ device \subseteq gCamCapability
      /\ status \in [Cameras -> Torch!Statuses]
  BY DEF Torch!openCamera, TorchInv, UnitsSound, KnownDevices, Torch!TypeOK
<1>4. /\ taken(ok) \in Unit /\ Sound(taken(ok)) /\ taken(ok).cameraOpen /\ ~taken(ok).led
      /\ "on" \notin Faults => (taken(ok).fd => taken(ok).on)
      /\ "off" \notin Faults => ~taken(ok).on
  BY <1>2, SoundUnit, Reserved DEF TorchInv, NodeMeansOn, OnMeansLit, Torch!State
<1> HIDE DEF taken
<1> DEFINE closed == opened /\ ~registered
           s == left(closed, ok)
<1>5. /\ s \in Unit /\ Sound(s) /\ ~s.led /\ s.cameraOpen = ~closed
      /\ "on" \notin Faults => (s.fd => s.on)
      /\ "off" \notin Faults => ~s.on
  <2>1. CASE closed
    BY <1>4, <2>1, Released DEF Unit
  <2>2. CASE ~closed
    BY <1>4, <2>2 DEF Unit
  <2> QED
    BY <2>1, <2>2
<1>6. "camera" \notin Faults => ~flash[c].cameraOpen
  BY <1>3 DEF TorchInv, ToldTruth, Torch!BusyMeansOpen
<1>7. c \in WithFlash <=> Torch!hasFlash(c)
  BY <1>3 DEF Torch!hasFlash
<1>8. /\ status' \in [Cameras -> Torch!Statuses] /\ \A d \in Cameras \ {c} : status'[d] = status[d]
      /\ "camera" \notin Faults /\ c \in WithFlash =>
            status'[c] = IF closed THEN "AVAILABLE_OFF" ELSE "NOT_AVAILABLE"
  BY <1>1, <1>3, <1>6, <1>7, Told DEF TorchInv, UnitsSound, Torch!Statuses
<1>9. /\ device' \subseteq gCamCapability' /\ \A d \in Cameras \ {c} : d \in device' <=> d \in device
      /\ c \in device' => ~closed
      /\ "camera" \notin Faults => (c \in device' <=> ~closed)
  BY <1>1, <1>2, <1>3
<1>10. Torch!Becomes(c, s)
  BY <1>1
<1> HIDE DEF s, closed
<1> QED
  BY <1>3, <1>5, <1>8, <1>9, <1>10, OneUnit DEF Unit

LEMMA CloseKeepsUnits ==
  ASSUME Torch!FlashAssumption, TorchInv, NEW c \in Cameras, Torch!closeCamera(c) PROVE TorchInv'
<1> DEFINE s == Torch!State(c)
           t == Torch!released(s)
<1>1. /\ c \in device /\ device' = device \ {c} /\ Torch!Becomes(c, t) /\ UNCHANGED gCamCapability
      /\ IF Torch!hasFlash(c) THEN Torch!tell(c, "AVAILABLE_OFF") ELSE UNCHANGED status
  BY DEF Torch!closeCamera
<1>2. s \in Unit /\ Sound(s) /\ ~s.led
  BY <1>1, SoundUnit DEF TorchInv, UnitsSound, UnitSound, Torch!State, Sound
<1>3. s.fd = flash[c].fd /\ s.on = flash[c].on
  BY DEF Torch!State
<1>9. "off" \notin Faults => (s.on => s.led)
  BY DEF TorchInv, OnMeansLit, Torch!State
<1> HIDE DEF s
<1>4. t \in Unit /\ Sound(t) /\ ~t.cameraOpen /\ ~t.led /\ t.fd = s.fd /\ t.on = s.on
  BY <1>2, Released
<1> HIDE DEF t
<1>5. gCamCapability' \subseteq Cameras /\ device' \subseteq gCamCapability' /\ c \notin device'
      /\ \A d \in Cameras \ {c} : d \in device' <=> d \in device
  BY <1>1 DEF TorchInv, UnitsSound, KnownDevices, Torch!TypeOK
<1>6. /\ "on" \notin Faults => (t.fd => t.on)
      /\ "off" \notin Faults => ~t.on
  BY <1>2, <1>3, <1>4, <1>9 DEF TorchInv, NodeMeansOn
<1>7. Torch!hasFlash(c) \/ c \notin WithFlash
  BY <1>1 DEF Torch!hasFlash, TorchInv, UnitsSound, KnownDevices
<1>8. /\ status' \in [Cameras -> Torch!Statuses] /\ \A d \in Cameras \ {c} : status'[d] = status[d]
      /\ c \in WithFlash => status'[c] = "AVAILABLE_OFF"
  BY <1>1, <1>7, Told DEF TorchInv, UnitsSound, Torch!TypeOK, Torch!Statuses
<1> QED
  BY <1>1, <1>4, <1>5, <1>6, <1>8, OneUnit

-----------------------------------------------------------------------------
(* Every step, and the theorems. *)

LEMMA NextTorch == ASSUME Torch!FlashAssumption, TorchInv, [Torch!Next]_(Torch!vars) PROVE TorchInv'
<1>1. CASE Torch!Next
  BY <1>1, InfoKeeps, TorchOnKeeps, TorchOffKeeps, OpenKeepsUnits, CloseKeepsUnits DEF Torch!Next
<1>2. CASE UNCHANGED Torch!vars
  BY <1>2 DEF Torch!vars, TorchInv, UnitsSound, UnitSound, KnownDevices, Torch!TypeOK, NodeMeansOn, OnMeansLit,
              ToldTruth, Torch!BusyMeansOpen, Truth
<1> QED
  BY <1>1, <1>2

LEMMA TorchFacts ==
  ASSUME Torch!FlashAssumption, TorchInv
  PROVE  /\ Torch!TypeOK
         /\ "on" \notin Faults => Torch!Exclusive
         /\ "off" \notin Faults => Torch!FlagIsLight
         /\ "camera" \notin Faults => Torch!BusyMeansOpen /\ Torch!StatusRight
<1>1. Torch!TypeOK
  BY DEF TorchInv, UnitsSound
<1>2. "on" \notin Faults => Torch!Exclusive
  BY DEF TorchInv, UnitsSound, UnitSound, NodeMeansOn, Torch!Exclusive
<1>3. "off" \notin Faults => Torch!FlagIsLight
  BY <1>1 DEF TorchInv, UnitsSound, UnitSound, OnMeansLit, Torch!FlagIsLight, Torch!TypeOK
<1>4. "camera" \notin Faults => Torch!BusyMeansOpen /\ Torch!StatusRight
  BY DEF Torch!FlashAssumption, TorchInv, ToldTruth, Truth, Torch!StatusRight
<1> QED
  BY <1>1, <1>2, <1>3, <1>4

LEMMA TorchInvariant == ASSUME Torch!FlashAssumption PROVE Torch!Spec => []TorchInv
  BY InitTorch, NextTorch, PTL DEF Torch!Spec

\* reserveFlashForCamera() leaves a unit that is not lit as it is, node and all.
\* That this never lets a camera share its flash with the torch rests on LED_LOW
\* alone: whatever else fails, a torch that has the node is lit and is put out.
THEOREM CameraHasFlashAlone ==
  ASSUME Torch!FlashAssumption, "on" \notin Faults PROVE Torch!Spec => []Torch!Exclusive
<1>1. TorchInv => Torch!Exclusive
  BY TorchFacts
<1> QED
  BY <1>1, TorchInvariant, PTL

\* A flash is reserved exactly while its camera is open, and the framework was
\* told last how things are, as long as camera_open() never fails: openCamera()
\* gives the flash back everywhere else.
THEOREM FrameworkKnows ==
  ASSUME Torch!FlashAssumption, "camera" \notin Faults PROVE Torch!Spec => [](Torch!BusyMeansOpen /\ Torch!StatusRight)
<1>1. TorchInv => Torch!BusyMeansOpen /\ Torch!StatusRight
  BY TorchFacts
<1> QED
  BY <1>1, TorchInvariant, PTL

=============================================================================
