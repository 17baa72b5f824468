---------------------------- MODULE WebhookContract ----------------------------
(***************************************************************************)
(* What the gateway promises of a stored webhook event, whatever its       *)
(* poller, leases and finalizers do: it is dispatched while it is pending, *)
(* recorded as delivered only when the agent has answered a dispatch with  *)
(* 2xx, given up only when it has been dispatched often enough, and        *)
(* settled for good unless two parties worked on it.  A deleted event does *)
(* not come back.                                                          *)
(***************************************************************************)
EXTENDS Naturals

CONSTANTS Events, MaxRetries

VARIABLES
    state,          \* of each event
    dispatches,     \* how often it was dispatched (up to MaxRetries)
    answered,       \* events with an open dispatch that was answered 2xx
    accepted,       \* events with a dispatch that ended so, not yet recorded
    disturbed,      \* events two parties have worked on
    doubled         \* events of which a dispatch was ended twice

vars == <<state, dispatches, answered, accepted, disturbed, doubled>>

States  == {"absent", "pending", "delivered", "failed", "deleted"}
Settled == {"delivered", "failed"}

Init ==
    /\ state = [e \in Events |-> "absent"]
    /\ dispatches = [e \in Events |-> 0]
    /\ answered = {} /\ accepted = {} /\ disturbed = {} /\ doubled = {}

Dispatched == {e \in Events : dispatches[e] > 0}

Store(e) ==
    /\ state[e] = "absent"
    /\ state' = [state EXCEPT ![e] = "pending"]
    /\ UNCHANGED <<dispatches, answered, accepted, disturbed, doubled>>

(* A second dispatch may begin before the first has ended.                 *)
Dispatch(e) ==
    /\ state[e] = "pending"
    /\ dispatches' = [dispatches EXCEPT ![e] = IF @ < MaxRetries THEN @ + 1 ELSE @]
    /\ disturbed' \in {disturbed, disturbed \cup ({e} \cap Dispatched)}
    /\ UNCHANGED <<state, answered, accepted, doubled>>

(* The agent answers a dispatch, or takes its answer back.                 *)
Answer(e) ==
    /\ e \in Dispatched
    /\ answered' \in {answered \cup {e}, answered \ {e}}
    /\ UNCHANGED <<state, dispatches, accepted, disturbed, doubled>>

(* A dispatch ends: for good, if it was answered.                          *)
End(e) ==
    /\ e \in Dispatched
    /\ accepted' \in {accepted, accepted \cup ({e} \cap answered)}
    /\ disturbed' \in {disturbed, disturbed \cup {e}}
    /\ doubled' \in {doubled, doubled \cup ({e} \cap disturbed')}
    /\ UNCHANGED <<state, dispatches, answered>>

(* Events are picked up again whose dispatches have not ended.             *)
PickUp(S) ==
    /\ S \subseteq Dispatched
    /\ disturbed' = disturbed \cup S
    /\ UNCHANGED <<state, dispatches, answered, accepted, doubled>>

(* Dispatches are over and done with.                                      *)
Forget == answered' \subseteq answered /\ accepted' \subseteq accepted

(* The outcome is recorded; "pending" is another try.                      *)
Record(e, outcome) ==
    /\ state[e] \in {"pending"} \cup Settled
    /\ outcome = "delivered" => e \in accepted
    /\ outcome = "failed" => e \in doubled \/ dispatches[e] >= MaxRetries
    /\ state[e] \in Settled /\ outcome # state[e] => e \in disturbed
    /\ state' = [state EXCEPT ![e] = outcome]
    /\ Forget
    /\ UNCHANGED <<dispatches, disturbed, doubled>>

Delete(e) ==
    /\ state[e] \in {"pending"} \cup Settled
    /\ state' = [state EXCEPT ![e] = "deleted"]
    /\ UNCHANGED <<dispatches, answered, accepted, disturbed, doubled>>

Lapse ==
    /\ Forget
    /\ UNCHANGED <<state, dispatches, disturbed, doubled>>

Next ==
    \/ \E e \in Events : Store(e) \/ Dispatch(e) \/ Answer(e) \/ End(e) \/ Delete(e)
    \/ \E e \in Events, outcome \in {"pending"} \cup Settled : Record(e, outcome)
    \/ \E S \in SUBSET Events : PickUp(S)
    \/ Lapse

Spec == Init /\ [][Next]_vars
================================================================================
