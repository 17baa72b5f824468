--------------------------- MODULE MCStreamLifecycle ---------------------------
(* Instances of StreamLifecycle for TLC. *)
EXTENDS StreamLifecycle, TLC

(* Every session belongs to the single tunnel t1 of these instances.       *)
OneTunnel == [c \in Sessions |-> CHOOSE t \in Tunnels : TRUE]

StreamSymmetry == Permutations(Streams)

================================================================================
