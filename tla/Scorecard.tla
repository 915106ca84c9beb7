----------------------------- MODULE Scorecard -----------------------------
(***************************************************************************)
(* The pure verdict fold of domain/scorecard_service.py, with the pass     *)
(* ratio of domain/dq_rule_engine.py and the bars of domain/thresholds.py. *)
(*                                                                         *)
(* A check result is a record, and the tuples of the code are sets here:   *)
(* the fold only asks whether some element has a property.                 *)
(*                                                                         *)
(*   DQ finding   [rule, column, passed, severity]                         *)
(*   freshness    [breached, severity]                                     *)
(*   drift        [kind, column, severity]                                 *)
(*   PII          [column, category]                                       *)
(*                                                                         *)
(* Wording (summary, narrative, citations, tickets) is left out: no        *)
(* property is about it.                                                   *)
(***************************************************************************)
EXTENDS Integers, FiniteSets

Severities == {"low", "medium", "high", "critical"}
HighSeverities == {"high", "critical"}

Statuses == {"certified", "conditional", "uncertified"}

\* prior_status=None: no verdict of this dataset is held for the tenant.
NoStatus == "none"

Categories == {"pii_direct", "pii_quasi", "sensitive", "non_pii"}
BarredCategories == {"pii_direct", "sensitive"}

DriftKinds == {"removed", "retyped", "renamed", "added"}

SeverityRank == [s \in Severities |->
    CASE s = "critical" -> 3
      [] s = "high" -> 2
      [] s = "medium" -> 1
      [] s = "low" -> 0]

(* Ratios are in millionths: pass_ratio rounds to six places. *)
Ratio == 0 .. 1000000
CertMinPassRatio == 980000
ConditionalMinPassRatio == 900000

(* The share of findings that passed, rounded to a millionth; 1.0 when     *)
(* there are none to run.                                                  *)
PassRatio(dq) ==
    LET passed == Cardinality({f \in dq : f.passed})
        total == Cardinality(dq)
    IN IF dq = {} THEN 1000000
       ELSE (2000000 * passed + total) \div (2 * total)

-----------------------------------------------------------------------------

Failed(dq) == {f \in dq : ~f.passed}

HasSensitive(pii) == \E c \in pii : c.category = "sensitive"

(* The severities the scorecard's band is taken from: failed checks, drift *)
(* and a breached SLA. A PII finding contributes none.                     *)
OpenSeverities(dq, fresh, drift) ==
    {f.severity : f \in Failed(dq)}
        \cup {d.severity : d \in drift}
        \cup (IF fresh.breached THEN {fresh.severity} ELSE {})

\* Mutant of WorstSeverity: nothing open leaves no severity.
WorstOrNone(dq, fresh, drift) ==
    LET open == OpenSeverities(dq, fresh, drift)
    IN IF open = {} THEN NoStatus
       ELSE CHOOSE s \in open : \A o \in open : SeverityRank[o] <= SeverityRank[s]

WorstSeverity(dq, fresh, drift) ==
    LET open == OpenSeverities(dq, fresh, drift)
    IN IF open = {} THEN "low"
       ELSE CHOOSE s \in open : \A o \in open : SeverityRank[o] <= SeverityRank[s]

\* Mutant of Blocking: a failed HIGH check does not block.
BlockingCritical(dq, fresh, drift) ==
    \/ \E f \in Failed(dq) : f.severity = "critical"
    \/ fresh.breached /\ fresh.severity \in HighSeverities
    \/ \E d \in drift : d.severity \in HighSeverities

(* Any HIGH or CRITICAL open item, whichever engine found it. *)
Blocking(dq, fresh, drift) ==
    \/ \E f \in Failed(dq) : f.severity \in HighSeverities
    \/ fresh.breached /\ fresh.severity \in HighSeverities
    \/ \E d \in drift : d.severity \in HighSeverities

StatusOf(ratio, dq, fresh, drift, pii) ==
    IF Blocking(dq, fresh, drift) \/ ratio < ConditionalMinPassRatio THEN "uncertified"
    ELSE IF /\ ratio >= CertMinPassRatio
            /\ ~ \E d \in drift : d.severity = "medium"
            /\ ~HasSensitive(pii) THEN "certified"
    ELSE "conditional"

\* Mutant of CertifiedMetrics: one passing check is enough.
PassingMetrics(dq, pii) ==
    LET barred == {c.column : c \in {p \in pii : p.category \in BarredCategories}}
    IN {f.column : f \in dq \ Failed(dq)} \ barred

(* Columns a consumer may build a metric on. *)
CertifiedMetrics(dq, pii) ==
    LET barred == {c.column : c \in {p \in pii : p.category \in BarredCategories}}
    IN {f.column : f \in dq} \ ({f.column : f \in Failed(dq)} \cup barred)

\* Mutant of Decertified: CONDITIONAL does not count as a loss.
DecertifiedOutright(prior, status) == prior = "certified" /\ status = "uncertified"

\* Mutant of Decertified: any verdict short of CERTIFIED counts as a loss.
DecertifiedAnyway(prior, status) == status # "certified"

Decertified(prior, status) == prior = "certified" /\ status # "certified"

(* scorecard_service.certify: the scorecard folded from every check.       *)
(* "review" is requires_human_review; decision is ESCALATED exactly when   *)
(* review holds, so it is not a field of its own.                          *)
Certify(ratio, dq, fresh, drift, pii, prior) ==
    LET status == StatusOf(ratio, dq, fresh, drift, pii)
    IN [status |-> status,
        review |-> Decertified(prior, status) \/ HasSensitive(pii),
        severity |-> WorstSeverity(dq, fresh, drift),
        metrics |-> IF status = "uncertified" THEN {} ELSE CertifiedMetrics(dq, pii)]

=============================================================================
