-------------------------- MODULE MCReviewDelivery --------------------------
(***************************************************************************)
(* Two threads, two datasets, two tenants: enough for two first calls to   *)
(* build at the same time and for two escalations to share a source_key.   *)
(***************************************************************************)
EXTENDS ReviewDelivery

CONSTANTS t1, t2, d1, d2

Escalation(d, tenant) == [dataset |-> d, tenant |-> tenant, status |-> "not_certified"]
SmallEscalations == {Escalation(d1, "a"), Escalation(d1, "b"), Escalation(d2, "a")}
=============================================================================
