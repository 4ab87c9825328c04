----------------------------- MODULE CommandQueues -----------------------------
(***************************************************************************)
(* What the state machine promises the threads that send it commands: a    *)
(* command is handled once, one at a time, API commands in the order they  *)
(* were sent and events in theirs, and an event is taken only when no API  *)
(* command waits.                                                          *)
(***************************************************************************)
EXTENDS Sequences

CONSTANTS Api, Evt, None   \* commands of the API, events, no command

VARIABLES api, evt, hand   \* the two queues and the command being handled

vars == <<api, evt, hand>>

Init == api = <<>> /\ evt = <<>> /\ hand = None

PostApi == \E cmd \in Api : api' = Append(api, cmd) /\ UNCHANGED <<evt, hand>>
PostEvt == \E cmd \in Evt : evt' = Append(evt, cmd) /\ UNCHANGED <<api, hand>>

Take ==
    /\ hand = None
    /\ \/ /\ api # <<>>
          /\ hand' = Head(api) /\ api' = Tail(api) /\ UNCHANGED evt
       \/ /\ api = <<>> /\ evt # <<>>
          /\ hand' = Head(evt) /\ evt' = Tail(evt) /\ UNCHANGED api

\* Handling a command may post an event.
Finish ==
    /\ hand # None
    /\ hand' = None
    /\ UNCHANGED api
    /\ UNCHANGED evt \/ \E cmd \in Evt : evt' = Append(evt, cmd)

Next == PostApi \/ PostEvt \/ Take \/ Finish

Spec == Init /\ [][Next]_vars

=============================================================================
