------------------------------- MODULE PowerHal --------------------------------
(***************************************************************************)
(* The power service (hidl/power): the calls of the framework (Power.cpp,   *)
(* LineagePower.cpp), the decisions of power-common.c and power-8084.c, the *)
(* list of active hints (utils.c, list.c), and perfd, the process that      *)
(* holds the locks.  main() gives the service one binder thread, so a call  *)
(* is one step.                                                             *)
(*                                                                         *)
(* Left out: the video and VR hints of power_hint(), which no call of the   *)
(* two services reaches, the resource lists themselves, the fire and forget     *)
(* hints of perf_hint_enable() for the display, a service without perfd's   *)
(* library, and a governor that cannot be read.                             *)
(***************************************************************************)
EXTENDS Integers, FiniteSets, SequencesExt

CONSTANTS
    Durations,       \* what the framework asks a boost for, in ms
    Repeats,         \* the framework may say "display on" twice
    GovernorChanges, \* cpu0 may leave and enter the interactive governor
    AcqFails,        \* perf_lock_acq() may fail (or the node be out of memory)
    MaxHandle        \* bound: locks acquired

PowerAssumption ==
    /\ Durations \subseteq Int /\ MaxHandle \in Nat \ {0}
    /\ {Repeats, GovernorChanges, AcqFails} \subseteq BOOLEAN

PowerSave == 0
Balanced == 1
HighPerformance == 2
BiasPower == 3
BiasPerformance == 4
Profiles == PowerSave..BiasPerformance

\* What a lock is for.  The first three are kept in the list of active hints.
Listed == {"profile", "display", "display2"}
Timed == {"launch", "boost", "fling"}
Nobody == -1

VARIABLES
    current_power_profile,
    active_hints,       \* list: [id, handle], newest first
    locks,              \* of perfd: [id, handle]
    next,               \* the next handle perfd gives
    launch_handle, launch_mode,
    lock_handle,        \* of interaction()
    recent,             \* the last boost is less than 250 ms ago
    display_hint_sent, first_display_off_hint,
    interactive,        \* the governor of cpu0 is "interactive"
    display,            \* what the framework said last: on, launching, sustained
    launching,
    sustained

vars == <<current_power_profile, active_hints, locks, next, launch_handle, launch_mode,
          lock_handle, recent, display_hint_sent, first_display_off_hint, interactive,
          display, launching, sustained>>

hintVars == <<active_hints, locks, next>>
launchVars == <<launch_handle, launch_mode, launching>>
boostVars == <<lock_handle, recent>>
displayVars == <<display_hint_sent, first_display_off_hint, display>>

Lock(id, h) == [id |-> id, handle |-> h]
Handles == 1..MaxHandle

TypeOK ==
    /\ current_power_profile \in Profiles
    /\ active_hints \in Seq([id : Listed, handle : Handles])
    /\ locks \subseteq [id : Listed \cup Timed \cup {"initial"}, handle : Handles]
    /\ next \in 1..(MaxHandle + 1)
    /\ {launch_handle, lock_handle} \subseteq Handles \cup {0, Nobody}
    /\ {launch_mode, recent, display_hint_sent, first_display_off_hint, interactive, display,
        launching, sustained} \subseteq BOOLEAN

\* The display is on at boot and an init script holds lock 1.
Init ==
    /\ current_power_profile = Balanced /\ active_hints = <<>>
    /\ locks = {Lock("initial", 1)} /\ next = 2
    /\ launch_handle = Nobody /\ launch_mode = FALSE /\ launching = FALSE
    /\ lock_handle = 0 /\ recent = FALSE
    /\ display_hint_sent = FALSE /\ first_display_off_hint = FALSE /\ display = TRUE
    /\ interactive = TRUE /\ sustained = FALSE

-----------------------------------------------------------------------------
(* utils.c and list.c on a state [list, held, next].                        *)

Now == [list |-> active_hints, held |-> locks, next |-> next]

Become(s) == active_hints' = s.list /\ locks' = s.held /\ next' = s.next

ReleaseIn(s, h) == [s EXCEPT !.held = {l \in @ : l.handle # h}]

\* list.c: a node goes in front, the first of an id is found.
add_list_node(list, n) == <<n>> \o list

find_node(list, id) == SelectInSeq(list, LAMBDA n : n.id = id)

remove_list_node(list, i) == RemoveAt(list, i)

\* perform_hint_action(): every call acquires a lock of its own.  After a
\* failure nothing is held.
performWhen(s, id, ok) ==
    IF ~ok THEN s
    ELSE [list |-> add_list_node(s.list, Lock(id, s.next)),
          held |-> s.held \cup {Lock(id, s.next)}, next |-> s.next + 1]

undoForgets(s, id) ==
    LET i == find_node(s.list, id)
    IN IF i = 0 THEN s ELSE [s EXCEPT !.list = remove_list_node(@, i)]

undo_hint_action(s, id) ==
    LET i == find_node(s.list, id)
    IN IF i = 0 THEN s
       ELSE [ReleaseIn(s, s.list[i].handle) EXCEPT !.list = remove_list_node(@, i)]

\* perf_lock_acq() with a handle: a lock perfd still holds is renewed.

interaction_with_handle(s, h, id) ==
    IF \E l \in s.held : l.handle = h
    THEN [s EXCEPT !.held = {l \in @ : l.handle # h} \cup {Lock(id, h)}]
    ELSE [s EXCEPT !.held = @ \cup {Lock(id, s.next)}, !.next = @ + 1]

handleOf(s, h) == IF \E l \in s.held : l.handle = h THEN h ELSE s.next

Outcomes == IF AcqFails THEN BOOLEAN ELSE {TRUE}

-----------------------------------------------------------------------------
(* The calls.                                                               *)

\* set_power_profile() from setBoost(SET_PROFILE): any number may come.

profileAfter(profile, ok) == IF ok THEN profile ELSE Balanced

set_power_profile(profile) ==
    \E acquired \in Outcomes :
        LET undone == IF current_power_profile # Balanced
                      THEN undo_hint_action(Now, "profile") ELSE Now
            wanted == profile \in Profiles \ {Balanced}
            ok == profile = Balanced \/ (wanted /\ acquired)
        IN /\ profile # current_power_profile
           /\ next <= MaxHandle
           /\ Become(performWhen(undone, "profile", wanted /\ acquired))
           /\ current_power_profile' = profileAfter(profile, ok)
           /\ UNCHANGED <<launchVars, boostVars, displayVars, interactive, sustained>>

\* power_hint_override() asks the profile first.
Skipped == current_power_profile = PowerSave

\* process_activity_launch_hint(), from setMode(LAUNCH).
launch(on) ==
    /\ launching' = on
    /\ IF Skipped THEN UNCHANGED <<hintVars, launch_handle, launch_mode>>
       ELSE IF ~on
       THEN /\ Become(IF launch_handle > 0 THEN ReleaseIn(Now, launch_handle) ELSE Now)
            /\ launch_handle' = (IF launch_handle > 0 THEN Nobody ELSE launch_handle)
            /\ launch_mode' = FALSE
       ELSE IF launch_mode THEN UNCHANGED <<hintVars, launch_handle, launch_mode>>
       ELSE \E ok \in Outcomes :
            /\ next <= MaxHandle
            /\ Become(IF ok THEN interaction_with_handle(Now, launch_handle, "launch") ELSE Now)
            /\ launch_handle' = (IF ok THEN handleOf(Now, launch_handle) ELSE Nobody)
            /\ launch_mode' = ok
    /\ UNCHANGED <<current_power_profile, boostVars, displayVars, interactive, sustained>>

\* process_interaction_hint(), from setBoost(INTERACTION).
boostDuration(d) ==
    LET least == IF current_power_profile \in {BiasPower, HighPerformance} THEN 500 ELSE 200
    IN IF d <= least THEN least ELSE IF d > 5000 THEN 5000 ELSE d

boostFor(d) == IF boostDuration(d) >= 1500 THEN "fling" ELSE "boost"

boost(d) ==
    /\ ~Skipped /\ ~(recent /\ boostDuration(d) <= 750)
    /\ next <= MaxHandle
    /\ recent' = TRUE
    /\ \E ok \in Outcomes :
          /\ Become(IF ok THEN interaction_with_handle(Now, lock_handle, boostFor(d)) ELSE Now)
          /\ lock_handle' = IF ok THEN handleOf(Now, lock_handle) ELSE Nobody
    /\ UNCHANGED <<current_power_profile, launchVars, displayVars, interactive, sustained>>

\* set_interactive() and set_interactive_override(), from setMode(INTERACTIVE).
set_interactive(on) == display' = on /\ display_hint_sent' = ~on

initialReleased(s) == IF first_display_off_hint THEN s ELSE ReleaseIn(s, 1)

displayOff ==
    /\ Repeats \/ display
    /\ next <= MaxHandle
    /\ set_interactive(FALSE)
    /\ IF display_hint_sent THEN UNCHANGED <<hintVars, first_display_off_hint>>
       ELSE \E ok \in Outcomes :
            /\ first_display_off_hint' = TRUE
            /\ Become(performWhen(undo_hint_action(initialReleased(Now), "display2"),
                                  "display", ok /\ interactive))
    /\ UNCHANGED <<current_power_profile, launchVars, boostVars, interactive, sustained>>

displayOn ==
    /\ Repeats \/ ~display
    /\ next <= MaxHandle
    /\ set_interactive(TRUE)
    /\ \E ok \in Outcomes :
          LET raised == performWhen(Now, "display2", ok)
          IN Become(IF interactive THEN undo_hint_action(raised, "display") ELSE raised)
    /\ UNCHANGED <<current_power_profile, launchVars, boostVars, first_display_off_hint,
                   interactive, sustained>>

\* setMode(SUSTAINED_PERFORMANCE): power_hint() gets no data, whatever the
\* framework wants, so it only tries to release.
sustain(on) ==
    /\ sustained' = on
    /\ UNCHANGED <<current_power_profile, hintVars, launchVars, boostVars, displayVars,
                   interactive>>

-----------------------------------------------------------------------------
(* perfd, the clock and the governor.                                       *)

Expire ==
    \E l \in locks :
        /\ l.id \in Timed /\ locks' = locks \ {l}
        /\ UNCHANGED <<current_power_profile, active_hints, next, launchVars, boostVars,
                       displayVars, interactive, sustained>>

TimePasses ==
    /\ recent /\ recent' = FALSE
    /\ UNCHANGED <<current_power_profile, hintVars, launchVars, lock_handle, displayVars,
                   interactive, sustained>>

ChangeGovernor ==
    /\ GovernorChanges /\ interactive' = ~interactive
    /\ UNCHANGED <<current_power_profile, hintVars, launchVars, boostVars, displayVars,
                   sustained>>

Next ==
    \/ \E p \in PowerSave..(BiasPerformance + 1) : set_power_profile(p)
    \/ \E on \in BOOLEAN : launch(on) \/ sustain(on)
    \/ \E d \in Durations : boost(d)
    \/ displayOff \/ displayOn \/ Expire \/ TimePasses \/ ChangeGovernor

Spec == Init /\ [][Next]_vars

-----------------------------------------------------------------------------
Of(ids) == {l \in locks : l.id \in ids}

\* The list of active hints is what this process knows of perfd's locks: each
\* node stands for a lock perfd holds, each lasting lock has its node, and no
\* lock has two.  A lock without a node is never released.
ListMatchesLocks ==
    /\ Range(active_hints) = Of(Listed)
    /\ Len(active_hints) = Cardinality(Of(Listed))

\* Whatever succeeded or failed on the way, one profile lock is held exactly
\* when a profile other than the balanced one is current.
ProfileHeld ==
    Cardinality(Of({"profile"})) = IF current_power_profile = Balanced THEN 0 ELSE 1

\* "Consecutive display-on hints are already handled": with the display off
\* no lock keeps two cores online.
NoCoresWhenOff == ~display => Of({"display2", "initial"}) = {}

\* What was tuned for a dark display is undone when it lights up.
NoDarkTuningWhenOn == display => Of({"display"}) = {}

\* There is one interaction lock and one launch lock, renewed and not added
\* to, however calls, expiries and changes of profile follow each other.
OneOfEach == Cardinality(Of({"boost", "fling"})) <= 1 /\ Cardinality(Of({"launch"})) <= 1

\* A launch lock in perfd is one the service can still release.
LaunchKnown == \A l \in Of({"launch"}) : launch_handle = l.handle /\ launch_mode

\* "release lock early if launch has finished".
LaunchReleased == ~launching => Of({"launch"}) = {}

\* "Skip other hints in high/low power modes".
HighPowerSkips ==
    [][current_power_profile = HighPerformance => Of(Timed)' \subseteq Of(Timed)]_vars

\* isModeSupported() says SUSTAINED_PERFORMANCE is supported: switching it on
\* has some effect.
SustainedActs == [][sustained' /\ ~sustained => locks' # locks]_vars

=============================================================================
