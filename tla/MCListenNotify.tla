--------------------------- MODULE MCListenNotify ---------------------------
(* Instances of ListenNotify for TLC: e1 belongs to batch b1. *)
EXTENDS ListenNotify, TLC

CONSTANTS e1, b1, s1, s2

MCBatchOf1 == e1 :> b1

\* Nothing tells the subscribers apart, and the run has no liveness property.
MCSymmetry == Permutations({s1, s2})
=============================================================================
