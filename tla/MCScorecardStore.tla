-------------------------- MODULE MCScorecardStore --------------------------
(***************************************************************************)
(* Small instances of ScorecardStore: two tenants and two datasets, so a   *)
(* scan passes entries of the caller's tenant, of other datasets and of    *)
(* another tenant in every insertion order.                                *)
(***************************************************************************)
EXTENDS ScorecardStore

CONSTANTS t1, t2, d1, d2, r1

=============================================================================
