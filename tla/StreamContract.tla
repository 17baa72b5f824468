---------------------------- MODULE StreamContract ----------------------------
(***************************************************************************)
(* What the gateway promises of a proxied stream, whatever its kind, to    *)
(* the client and to the agent: the stream is admitted once, settled while *)
(* its client is answered, and then gone for good; the answer has a head   *)
(* before it has an end, and nothing after its end.                        *)
(***************************************************************************)
CONSTANT Streams

VARIABLES
    phase,          \* of each stream
    answer          \* what its client has got; "none": nobody is waiting

vars == <<phase, answer>>

Phases == {"new", "running", "settling", "gone"}

Answers == {"none", "open", "headers", "ending", "closed"}

Init ==
    /\ phase = [s \in Streams |-> "new"]
    /\ answer = [s \in Streams |-> "none"]

Admit(s) ==
    /\ phase[s] = "new"
    /\ phase' = [phase EXCEPT ![s] = "running"]
    /\ \E a \in {"none", "open"} : answer' = [answer EXCEPT ![s] = a]

(* The head of the answer, at most once, and only before its end.          *)
Begin(s) ==
    /\ phase[s] \in {"running", "settling"} /\ answer[s] = "open"
    /\ answer' = [answer EXCEPT ![s] = "headers"]
    /\ UNCHANGED phase

(* The gateway ends the answer, or the client leaves.                      *)
End(s) ==
    /\ answer[s] \in {"open", "headers"}
    /\ answer' = [answer EXCEPT ![s] = "ending"]
    /\ UNCHANGED phase

Close(s) ==
    /\ answer[s] \in {"open", "headers", "ending"}
    /\ answer' = [answer EXCEPT ![s] = "closed"]
    /\ UNCHANGED phase

Ended(a) == IF a \in {"open", "headers"} THEN "ending" ELSE a

(* Any number of streams at once (an agent's connection is lost): each of  *)
(* their clients is answered in the same step.                             *)
Settle(S) ==
    /\ S # {} /\ \A s \in S : phase[s] = "running"
    /\ phase' = [s \in Streams |-> IF s \in S THEN "settling" ELSE phase[s]]
    /\ answer' = [s \in Streams |-> IF s \in S THEN Ended(answer[s]) ELSE answer[s]]

Leave(s) ==
    /\ phase[s] = "settling" /\ answer[s] \notin {"open", "headers"}
    /\ phase' = [phase EXCEPT ![s] = "gone"]
    /\ UNCHANGED answer

Next ==
    \/ \E s \in Streams : Admit(s) \/ Begin(s) \/ End(s) \/ Close(s) \/ Leave(s)
    \/ \E S \in SUBSET Streams : Settle(S)

Spec == Init /\ [][Next]_vars
===============================================================================
