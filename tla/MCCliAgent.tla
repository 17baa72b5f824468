------------------------------ MODULE MCCliAgent ------------------------------
(* Instances of CliAgent for TLC.                                          *)
EXTENDS CliAgent, TLC

StreamSymmetry == Permutations(Streams)
===============================================================================
