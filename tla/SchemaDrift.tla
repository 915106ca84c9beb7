---------------------------- MODULE SchemaDrift ----------------------------
(***************************************************************************)
(* diff_schema of domain/drift_service.py: the live schema against the     *)
(* pinned baseline. The rename heuristic is a loop that takes the removed  *)
(* columns in name order and consumes columns as it pairs them; the loop   *)
(* is modelled pass by pass and held against what the module's docstring   *)
(* says a rename is.                                                       *)
(*                                                                         *)
(* A schema is a function from column names to types. Names are numbers,   *)
(* so that sorted() is their order.                                        *)
(***************************************************************************)
EXTENDS Integers, FiniteSets

CONSTANTS Name, Type

ASSUME NameAssumption == Name \subseteq Nat /\ IsFiniteSet(Name)

Schema == UNION {[names -> Type] : names \in SUBSET Name}

VARIABLES
    base, live,   \* the two schemas
    pc,           \* "rename", "rest" or "done"
    todo,         \* removed columns the rename loop has not come to
    renamedOut, renamedIn,
    findings

vars == <<base, live, pc, todo, renamedOut, renamedIn, findings>>

Retyped == {n \in DOMAIN base \cap DOMAIN live : base[n] # live[n]}
Removed == DOMAIN base \ DOMAIN live
Added == DOMAIN live \ DOMAIN base

Finding(kind, from, to, severity) ==
    [kind |-> kind, from |-> from, to |-> to, severity |-> severity]

RetypedFinding(n) == Finding("retyped", {n}, {n}, "high")
RenamedFinding(r, a) == Finding("renamed", {r}, {a}, "medium")
RemovedFinding(r) == Finding("removed", {r}, {}, "high")
AddedFinding(a) == Finding("added", {}, {a}, "low")

Init ==
    /\ base \in Schema
    /\ live \in Schema
    /\ pc = "rename"
    /\ todo = Removed
    /\ renamedOut = {}
    /\ renamedIn = {}
    /\ findings = {RetypedFinding(n) : n \in Retyped}

\* Columns that may still be the other end of a rename of r.
Candidates(r) == {a \in Added : live[a] = base[r] /\ a \notin renamedIn}

\* Mutant of Siblings: only the columns not yet passed compete.
SiblingsAhead(r) == {s \in todo : base[s] = base[r]}

\* Removed columns that compete with r for them.
Siblings(r) == {s \in Removed : base[s] = base[r] /\ s \notin renamedOut}

First(r) == r \in todo /\ \A s \in todo : r <= s

\* Mutant of Pair: the removed column is marked on the wrong side.
PairSwapped(r) ==
    /\ pc = "rename"
    /\ First(r)
    /\ Cardinality(Candidates(r)) = 1
    /\ Cardinality(Siblings(r)) = 1
    /\ findings' = findings \cup {RenamedFinding(r, a) : a \in Candidates(r)}
    /\ renamedIn' = renamedIn \cup {r}
    /\ renamedOut' = renamedOut \cup {r}
    /\ todo' = todo \ {r}
    /\ UNCHANGED <<base, live, pc>>

\* Mutant of Pair: a single candidate is enough.
PairUnchallenged(r) ==
    /\ pc = "rename"
    /\ First(r)
    /\ Cardinality(Candidates(r)) = 1
    /\ findings' = findings \cup {RenamedFinding(r, a) : a \in Candidates(r)}
    /\ renamedIn' = renamedIn \cup Candidates(r)
    /\ renamedOut' = renamedOut \cup {r}
    /\ todo' = todo \ {r}
    /\ UNCHANGED <<base, live, pc>>

(* One pass of the loop pairs r with its only candidate... *)
Pair(r) ==
    /\ pc = "rename"
    /\ First(r)
    /\ Cardinality(Candidates(r)) = 1
    /\ Cardinality(Siblings(r)) = 1
    /\ findings' = findings \cup {RenamedFinding(r, a) : a \in Candidates(r)}
    /\ renamedIn' = renamedIn \cup Candidates(r)
    /\ renamedOut' = renamedOut \cup {r}
    /\ todo' = todo \ {r}
    /\ UNCHANGED <<base, live, pc>>

(* ... or leaves it to be reported as removed. *)
Leave(r) ==
    /\ pc = "rename"
    /\ First(r)
    /\ ~(Cardinality(Candidates(r)) = 1 /\ Cardinality(Siblings(r)) = 1)
    /\ todo' = todo \ {r}
    /\ UNCHANGED <<base, live, pc, renamedOut, renamedIn, findings>>

RenamesDone ==
    /\ pc = "rename"
    /\ todo = {}
    /\ pc' = "rest"
    /\ UNCHANGED <<base, live, todo, renamedOut, renamedIn, findings>>

\* Mutant of ReportRest: the far end of a rename is reported as added, too.
ReportAll ==
    /\ pc = "rest"
    /\ pc' = "done"
    /\ findings' = findings \cup {RemovedFinding(r) : r \in Removed \ renamedOut}
                            \cup {AddedFinding(a) : a \in Added}
    /\ UNCHANGED <<base, live, todo, renamedOut, renamedIn>>

(* What was not renamed is reported as removed and added. *)
ReportRest ==
    /\ pc = "rest"
    /\ pc' = "done"
    /\ findings' = findings \cup {RemovedFinding(r) : r \in Removed \ renamedOut}
                            \cup {AddedFinding(a) : a \in Added \ renamedIn}
    /\ UNCHANGED <<base, live, todo, renamedOut, renamedIn>>

Next == (\E r \in Name : Pair(r) \/ Leave(r)) \/ RenamesDone \/ ReportRest

Spec == Init /\ [][Next]_vars

-----------------------------------------------------------------------------
(* Properties.                                                             *)

TypeOK ==
    /\ base \in Schema /\ live \in Schema
    /\ pc \in {"rename", "rest", "done"}
    /\ todo \subseteq Removed
    /\ renamedOut \subseteq Removed
    /\ renamedIn \subseteq Added

OfType(names, schema, t) == {n \in names : schema[n] = t}

(* The docstring's rename: the only removed and the only added column of   *)
(* a type.                                                                 *)
Renames ==
    {p \in Removed \X Added :
        \E t \in Type : /\ OfType(Removed, base, t) = {p[1]}
                        /\ OfType(Added, live, t) = {p[2]}}

(* The loop finds the documented renames and no other, although it decides *)
(* column by column and consumes what it has paired: the result does not   *)
(* depend on the order of the names.                                       *)
LoopFindsRenames ==
    pc = "done" =>
        {f \in findings : f.kind = "renamed"} = {RenamedFinding(p[1], p[2]) : p \in Renames}

(* Every difference is reported once: a column that left is in exactly one *)
(* finding, so is one that came, and equal schemas have none. A difference *)
(* reported twice, or swallowed by the heuristic, shifts the verdict.      *)
EveryDifferenceOnce ==
    pc = "done" =>
        /\ \A n \in Removed : Cardinality({f \in findings : n \in f.from}) = 1
        /\ \A n \in Added : Cardinality({f \in findings : n \in f.to}) = 1
        /\ findings = {} <=> base = live

(* A column that left without an unambiguous successor is HIGH: the        *)
(* heuristic never softens an ambiguous change to a rename.                *)
AmbiguityStaysHigh ==
    pc = "done" =>
        \A r, s \in Removed :
            r # s /\ base[r] = base[s] => RemovedFinding(r) \in findings

=============================================================================
