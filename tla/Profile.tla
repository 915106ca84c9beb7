------------------------------ MODULE Profile ------------------------------
(***************************************************************************)
(* profile_service and the derived ratios of ColumnProfile.                *)
(*                                                                         *)
(* A column's sample is a sequence of cells. A cell is a value or one of   *)
(* the two nulls is_null() accepts: an empty cell, or a token such as N/A  *)
(* that an export writes for one. Ratios are in millionths, rounded as the *)
(* code rounds.                                                            *)
(***************************************************************************)
EXTENDS Integers, FiniteSets, Sequences

CONSTANTS
    Value,
    KindOf,     \* [Value -> Kinds]: which of the type patterns a value fits best
    EmptyCell, NullToken

Kinds == {"integer", "numeric", "date", "text"}

Cell == Value \cup {EmptyCell, NullToken}

ASSUME ProfileAssumption ==
    /\ EmptyCell \notin Value /\ NullToken \notin Value /\ EmptyCell # NullToken
    /\ KindOf \in [Value -> Kinds]

\* round(n / total, 6), in millionths
Share(n, total) == (2000000 * n + total) \div (2 * total)

\* The positions of the cells that are not null, and the values there.
NonNull(cells) == {i \in DOMAIN cells : cells[i] \notin {EmptyCell, NullToken}}

Distinct(cells) == {cells[i] : i \in NonNull(cells)}

NullRatio(cells) ==
    IF cells = <<>> THEN 0 ELSE Share(Len(cells) - Cardinality(NonNull(cells)), Len(cells))

CardinalityRatio(cells) ==
    LET values == NonNull(cells)
    IN IF values = {} THEN 0 ELSE Share(Cardinality(Distinct(cells)), Cardinality(values))

(* The narrowest type every non-null value fits. An integer is numeric.    *)
InferredType(cells) ==
    LET kinds == {KindOf[v] : v \in Distinct(cells)}
    IN CASE kinds = {} -> "unknown"
         [] kinds = {"integer"} -> "integer"
         [] "numeric" \in kinds /\ kinds \subseteq {"integer", "numeric"} -> "numeric"
         [] kinds = {"date"} -> "date"
         [] OTHER -> "text"

=============================================================================
