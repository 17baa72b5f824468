---------------------------- MODULE MCLineWebhook ----------------------------
(* Instances of LineWebhook for TLC.                                       *)
EXTENDS LineWebhook, TLC

(* calculateLineWebhookNextRetry, in ticks: doubling from the base, capped. *)
RetryBase == 1
RetryCap == 2
MCRetryTicks == [n \in 1 .. MaxRetries |-> IF RetryBase * 2 ^ n < RetryCap
                               THEN RetryBase * 2 ^ n ELSE RetryCap]

EventSymmetry == Permutations(Events)
StreamSymmetry == Permutations(Streams)
BothSymmetry == EventSymmetry \cup StreamSymmetry
=============================================================================
