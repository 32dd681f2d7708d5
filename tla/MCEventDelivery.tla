-------------------------- MODULE MCEventDelivery --------------------------
(* Instances of EventDelivery for TLC. *)
EXTENDS EventDelivery

CONSTANTS r1, r2

MCRequests == {r1, r2}
\* One that is rejected before the context is set, one after it.
Rejectable == {"not json", "no event"}
=============================================================================
