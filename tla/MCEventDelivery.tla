-------------------------- MODULE MCEventDelivery --------------------------
(* The instance of EventDelivery for TLC: engagements that belong to no batch. *)
EXTENDS EventDelivery

MCBatchOf == [e \in Engagements |-> None]
=============================================================================
