---------------------------- MODULE MCControlPlane ----------------------------
(* Instances of ControlPlane for TLC.                                      *)
EXTENDS ControlPlane, TLC

RequestSymmetry == Permutations(Requests)
TunnelSymmetry == Permutations(Tunnels)
BothSymmetry == RequestSymmetry \cup TunnelSymmetry
===============================================================================
