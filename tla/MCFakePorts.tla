---------------------------- MODULE MCFakePorts ----------------------------
(* The instance of FakePorts for TLC. *)
EXTENDS FakePorts

CONSTANTS c1, c2
=============================================================================
