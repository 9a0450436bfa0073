----------------------------- MODULE RemoteCall -----------------------------
(***************************************************************************)
(* What an adapter call promises its caller, with no retries, request ids  *)
(* or network in sight: the downstream acts on the call at most once, and  *)
(* a call of a mutating method that returned Ok has been acted on.  A call *)
(* that failed may have been acted on, and may still be: the caller learns *)
(* nothing from an error.                                                  *)
(***************************************************************************)
EXTENDS Naturals

CONSTANT Calls

VARIABLES
    phase,      \* phase[c]: "idle", "open", "ok" or "failed"
    mutating,   \* mutating[c]: the call's method changes something downstream
    effects     \* effects[c]: how often the downstream acted on the call

vars == <<phase, mutating, effects>>

Init ==
    /\ phase = [c \in Calls |-> "idle"]
    /\ mutating \in [Calls -> BOOLEAN]
    /\ effects = [c \in Calls |-> 0]

Issue(c) ==
    /\ phase[c] = "idle"
    /\ phase' = [phase EXCEPT ![c] = "open"]
    /\ UNCHANGED <<mutating, effects>>

\* The downstream acts, possibly after the caller has given up.
Act(c) ==
    /\ phase[c] # "idle"
    /\ mutating[c]
    /\ effects[c] = 0
    /\ effects' = [effects EXCEPT ![c] = 1]
    /\ UNCHANGED <<phase, mutating>>

Succeed(c) ==
    /\ phase[c] = "open"
    /\ mutating[c] => effects[c] = 1
    /\ phase' = [phase EXCEPT ![c] = "ok"]
    /\ UNCHANGED <<mutating, effects>>

Fail(c) ==
    /\ phase[c] = "open"
    /\ phase' = [phase EXCEPT ![c] = "failed"]
    /\ UNCHANGED <<mutating, effects>>

Next == \E c \in Calls : Issue(c) \/ Act(c) \/ Succeed(c) \/ Fail(c)

Spec == Init /\ [][Next]_vars
=============================================================================
