---------------------------- MODULE AuditTrail ----------------------------
(***************************************************************************)
(* The hash-chained audit trail of the offline profile, as the adapter     *)
(* (adapters/local/audit.py) and the demo use it.                          *)
(* The trail itself is a library of the commons, modelled from those uses: *)
(* a row carries the hash it was written with, a trail may have an anchor  *)
(* on another volume that holds the hash of its last row, an append is     *)
(* whole or not at all, and an export leads with the head it ships.        *)
(*                                                                         *)
(* A hash is the pair of what was hashed and where: two rows collide only  *)
(* when both agree. A call that raises returns the empty set.              *)
(***************************************************************************)
EXTENDS Naturals, Sequences, FiniteSetsExt

HashOf(event, i) == <<event, i>>
HeadOf(rows) == IF rows = <<>> THEN {} ELSE {rows[Len(rows)].hash}

NewTrail(anchored) == [rows |-> <<>>, anchored |-> anchored, anchor |-> {}]
AnchorHolds(trail) == trail.anchored => trail.anchor = HeadOf(trail.rows)

\* An append on a trail that no longer ends where its anchor says is refused.
Record(trail, event) ==
    LET row == [event |-> event, hash |-> HashOf(event, Len(trail.rows) + 1)]
    IN IF AnchorHolds(trail)
       THEN {[trail EXCEPT !.rows = Append(@, row),
                           !.anchor = IF trail.anchored THEN {row.hash} ELSE {}]}
       ELSE {}

BrokenRows(rows) == {i \in DOMAIN rows : rows[i].hash # HashOf(rows[i].event, i)}

VerifyChain(trail) ==
    LET broken == BrokenRows(trail.rows)
    IN [ok |-> broken = {} /\ AnchorHolds(trail),
        entries |-> Len(trail.rows),
        first_bad |-> IF broken = {} THEN 0 ELSE Min(broken)]

Export(trail) == [header |-> HeadOf(trail.rows), records |-> trail.rows]

\* An export whose last record is not the head it ships with is refused.
ImportInto(fresh, export) ==
    IF export.header = HeadOf(export.records) THEN {[fresh EXCEPT !.rows = export.records]} ELSE {}

-----------------------------------------------------------------------------
\* What somebody with the file can do to it. An interior record, as the demo chooses it.

Interior(trail) == Len(trail.rows) \div 2 + 1

Rewrite(trail, i, decision, severity) ==
    [trail EXCEPT !.rows[i].event = [@ EXCEPT !.decision = decision, !.severity = severity]]
=============================================================================
