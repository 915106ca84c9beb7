--------------------------- MODULE MCSchemaDrift ---------------------------
(***************************************************************************)
(* Every pair of schemas over four column names and two types.             *)
(***************************************************************************)
EXTENDS SchemaDrift

=============================================================================
