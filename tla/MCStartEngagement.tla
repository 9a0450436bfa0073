------------------------- MODULE MCStartEngagement -------------------------
(* Instances of StartEngagement for TLC. *)
EXTENDS StartEngagement

CONSTANTS h1, h2

\* A request to a contact given by id, with no optional field.
Base ==
    [request_id |-> "r1", org_id |-> "o1", channel |-> "1", mode |-> "1",
     journey_version |-> "v1", contact_kind |-> "1", contact_id |-> "c", contact_phone |-> None,
     batch_id |-> None, voice_profile_id |-> None, test_mode |-> "false", language |-> None,
     metadata |-> "m1"]

\* The same with other metadata, a contact of the same text given by phone,
\* and a request_id that another organization uses too.
MCRequests ==
    {Base, [Base EXCEPT !.metadata = "m2"],
     [Base EXCEPT !.contact_id = None, !.contact_phone = "c"],
     [Base EXCEPT !.org_id = "o2"]}

\* An active status and a terminal one.
MCStatuses == {3, 4}
=============================================================================
