--------------------------- MODULE MCAdapterCall ---------------------------
(* Instances of AdapterCall for TLC. *)
EXTENDS AdapterCall

CONSTANTS c1, r1, r2

MCCalls == {c1}

MCRequestIds == {r1, r2}

\* One answer of each class for gRPC and for HTTP, and the ones on which the
\* adapters differ.
MCFaults ==
    {"NotFound", "Unavailable", "Unknown", "404", "429", "503", "500", SendFailed}

\* No deadline, none left, and budgets around the gates of 1 + 4 and 2 + 4 ticks.
MCBudgets == {NoDeadline, 0, 6, 8, 9}
=============================================================================
