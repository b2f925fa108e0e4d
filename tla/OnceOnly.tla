------------------------------- MODULE OnceOnly -------------------------------
(***************************************************************************)
(* What an outgoing workflow of the application promises of a target (a    *)
(* recipient of a channel message, an Instagram publication job): an       *)
(* external write is begun only when no earlier one may still have an      *)
(* effect, so it takes effect at most once (ARCHITECTURE.md, "Timeouts und *)
(* unklare Antworten führen zu uncertain und nie zu blindem Retry").       *)
(* ChannelDelivery and MetaPublishing implement it.                        *)
(***************************************************************************)
EXTENDS Naturals

CONSTANT Targets

VARIABLES
    state,     \* "ready", "calling" or "done"; an unclear call stays "calling"
    effects    \* how often the write took effect outside (0, 1, ...)

vars == <<state, effects>>

Init == /\ state = [t \in Targets |-> "ready"]
        /\ effects = [t \in Targets |-> 0]

Move(t, from, to) == state[t] = from /\ state' = [state EXCEPT ![t] = to]

Call(t)    == Move(t, "ready", "calling") /\ effects[t] = 0 /\ UNCHANGED effects

TakeEffect(t) ==
    /\ state[t] = "calling"
    /\ effects[t] = 0
    /\ effects' = [effects EXCEPT ![t] = 1]
    /\ UNCHANGED state

Confirm(t) == Move(t, "calling", "done") /\ effects[t] = 1 /\ UNCHANGED effects

\* Only a call that is known to have had no effect may be repeated.
Refuse(t)  == Move(t, "calling", "ready") /\ effects[t] = 0 /\ UNCHANGED effects

Next == \E t \in Targets : Call(t) \/ TakeEffect(t) \/ Confirm(t) \/ Refuse(t)

Spec == Init /\ [][Next]_vars
=============================================================================
