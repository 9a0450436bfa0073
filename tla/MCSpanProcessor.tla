-------------------------- MODULE MCSpanProcessor --------------------------
(* Instances of SpanProcessor for TLC. *)
EXTENDS SpanProcessor

CONSTANTS s1, s2

MCCallers1 == {s1}
MCCallers2 == {s1, s2}
=============================================================================
