----------------------------- MODULE MCSeedJobs ----------------------------
(* Instances of SeedJobs for TLC. *)
EXTENDS SeedJobs

CONSTANTS p1, p2, x, j1, j2

TwoProducts == <<p1, p2>>
TwoOrders == <<{p1}, {p1, p2}>>
OtherNames == {x}
TwoJobs == {j1, j2}
OneJob == {j1}
=============================================================================
