---------------------------- MODULE Measurement ----------------------------
(***************************************************************************)
(* The engines between the warehouse and the verdict: profile_service,     *)
(* dq_rule_engine, freshness_service, the PII classifier and               *)
(* remediation_service, run as CertificationService._certify runs them,    *)
(* and folded by Scorecard. One dataset is certified again and again, each *)
(* time against the verdict before, while it ages and changes.             *)
(*                                                                         *)
(* A sample is a sequence of cells per sampled column. A validity pattern  *)
(* or allowed list, and a reference list, are the set of values they       *)
(* accept. Ratios are in millionths, ages in seconds and, once computed,   *)
(* in thousandths of an hour.                                              *)
(***************************************************************************)
EXTENDS PiiClassifier

CONSTANTS
    Column, RuleId,
    RulePacks,  \* the rule packs: sets of rules, a rule per RuleId
    Tables,     \* the samples the warehouse may return
    Drifts,     \* the drift findings diff_schema may return
    Namings,    \* the names the columns may have, each a sequence of words
    SlaHours,   \* the pack's SLA, in hours
    Ages        \* ages the partition may come to, in seconds

RuleTypes == {"completeness", "uniqueness", "validity", "referential_integrity",
              "timeliness"}

Rule == [id : RuleId, type : RuleTypes, column : Column, severity : Severities,
         limit : Nat, configured : BOOLEAN, accepts : SUBSET Value]

ASSUME MeasurementAssumption ==
    /\ RulePacks \subseteq SUBSET Rule
    /\ \A pack \in RulePacks :
          IsFiniteSet(pack) /\ \A r, s \in pack : r.id = s.id => r = s
    /\ \A sample \in Tables : \A c \in DOMAIN sample : c \in Column /\ sample[c] \in Seq(Cell)
    /\ \A findings \in Drifts : \A d \in findings : d.severity \in Severities
    /\ SlaHours \in Int
    /\ Ages \subseteq Nat

VARIABLES
    pack,     \* the dataset's rules
    table,    \* [columns -> cells], what sample_columns returns
    names,    \* [Column -> words], the columns' names
    drift,
    age,      \* seconds from the partition timestamp to as_of
    card,     \* the scorecard, or None before the first certification
    tickets   \* the remediation tickets it came with

vars == <<pack, table, names, drift, age, card, tickets>>

dataset == <<pack, names, drift>>

None == [status |-> NoStatus, review |-> FALSE, severity |-> "low", metrics |-> {}]

-----------------------------------------------------------------------------
(* freshness_service *)

\* round(seconds / 3600, 3), in thousandths of an hour
AgeHours(seconds) == (10 * seconds + 18) \div 36

\* Mutant of Fresh: the band past twice the SLA is not a breach.
FreshOneBand(hours) ==
    [breached |-> hours > 1000 * SlaHours /\ hours <= 2000 * SlaHours,
     severity |-> IF hours > 2000 * SlaHours THEN "critical"
                  ELSE IF hours > 1000 * SlaHours THEN "high" ELSE "low"]

Fresh(hours) ==
    [breached |-> hours > 1000 * SlaHours,
     severity |-> IF hours > 2000 * SlaHours THEN "critical"
                  ELSE IF hours > 1000 * SlaHours THEN "high" ELSE "low"]

-----------------------------------------------------------------------------
(* dq_rule_engine. A timeliness rule looks at the partition, never at its  *)
(* column; any other rule on a column that was not sampled fails.          *)

Sampled(r) == r.column \in DOMAIN table

Completeness(r) == Sampled(r) /\ NullRatio(table[r.column]) <= r.limit

Uniqueness(r) == Sampled(r) /\ CardinalityRatio(table[r.column]) >= r.limit

ValidRatio(cells, accepted) ==
    LET values == NonNull(cells)
    IN IF values = {} THEN 1000000
       ELSE Share(Cardinality({i \in values : cells[i] \in accepted}), Cardinality(values))

\* Mutant of Validity: a rule without an expectation has nothing to object to.
ValidityVacuous(r) ==
    Sampled(r) /\ (r.configured => ValidRatio(table[r.column], r.accepts) >= r.limit)

Validity(r) ==
    Sampled(r) /\ r.configured /\ ValidRatio(table[r.column], r.accepts) >= r.limit

Referential(r) ==
    /\ Sampled(r)
    /\ r.configured
    /\ Distinct(table[r.column]) \subseteq r.accepts

Timeliness(r, hours) == hours <= 1000 * r.limit

RulePasses(r, hours) ==
    CASE r.type = "completeness" -> Completeness(r)
      [] r.type = "uniqueness" -> Uniqueness(r)
      [] r.type = "validity" -> Validity(r)
      [] r.type = "referential_integrity" -> Referential(r)
      [] r.type = "timeliness" -> Timeliness(r, hours)

Evaluate(hours) ==
    {[rule |-> r.id, column |-> r.column, passed |-> RulePasses(r, hours),
      severity |-> r.severity] : r \in pack}

FactsOf(c) == Facts(names[c], table[c])

(* The classifier is given a sample of every profiled column, no other. *)
Classified == {Classify(c, FactsOf(c)) : c \in DOMAIN table}

\* Mutant of TicketsFor: sensitive columns are left to the review.
TicketsForChecks(dq, pii) ==
    {[source |-> <<"rule", f.rule>>, column |-> f.column, severity |-> f.severity] :
        f \in Failed(dq)}
    \cup {[source |-> <<"drift", d.kind>>, column |-> d.column, severity |-> d.severity] :
        d \in drift}

(* build_tickets: failed checks, drift findings, and the PII columns that  *)
(* are sensitive or whose direct identifier is not certain. A breached SLA *)
(* gets none.                                                              *)
TicketsFor(dq, pii) ==
    {[source |-> <<"rule", f.rule>>, column |-> f.column, severity |-> f.severity] :
        f \in Failed(dq)}
    \cup {[source |-> <<"drift", d.kind>>, column |-> d.column, severity |-> d.severity] :
        d \in drift}
    \cup {[source |-> <<"pii", c.column>>, column |-> c.column, severity |-> "high"] :
        c \in {p \in pii : \/ p.category = "sensitive"
                           \/ p.category = "pii_direct" /\ p.needsReview}}

CardAt(seconds, before) ==
    LET hours == AgeHours(seconds)
        dq == Evaluate(hours)
    IN Certify(PassRatio(dq), dq, Fresh(hours), drift, Classified, before)

-----------------------------------------------------------------------------

Init ==
    /\ pack \in RulePacks
    /\ table \in Tables
    /\ names \in Namings
    /\ drift \in Drifts
    /\ age \in Ages
    /\ card = None
    /\ tickets = {}

CertifyAgain ==
    /\ card' = CardAt(age, card.status)
    /\ tickets' = TicketsFor(Evaluate(AgeHours(age)), Classified)
    /\ UNCHANGED <<dataset, table, age>>

(* No new partition arrives. *)
TimePasses ==
    /\ \E a \in Ages : a > age /\ age' = a
    /\ UNCHANGED <<dataset, table, card, tickets>>

(* A load replaces the sampled values and resets the partition timestamp. *)
Load ==
    /\ table' \in Tables
    /\ age' = 0
    /\ UNCHANGED <<dataset, card, tickets>>

Next == CertifyAgain \/ TimePasses \/ Load

Spec == Init /\ [][Next]_vars

-----------------------------------------------------------------------------
(* Properties.                                                             *)

StatusRank == [s \in Statuses |->
    CASE s = "certified" -> 2 [] s = "conditional" -> 1 [] s = "uncertified" -> 0]

TypeOK ==
    /\ pack \in RulePacks
    /\ \A c \in DOMAIN table : c \in Column /\ table[c] \in Seq(Cell)
    /\ age \in Nat
    /\ card.status \in Statuses \cup {NoStatus}
    /\ card.review \in BOOLEAN /\ card.severity \in Severities /\ card.metrics \subseteq Column

(* Getting older never improves a verdict: neither the SLA bands of the    *)
(* freshness engine nor a timeliness rule nor the pass-ratio bars of the   *)
(* fold turn a staler partition into a better one.                         *)
AgingNeverHeals ==
    LET rank == StatusRank[CardAt(age, NoStatus).status]
    IN \A a \in Ages : a > age => StatusRank[CardAt(a, NoStatus).status] <= rank

\* The step was a certification: any other changes the table or the age.
Recertified == UNCHANGED <<table, age>>

(* CERTIFIED means every blocking check could run: a HIGH or CRITICAL rule *)
(* on a column that is not there, or without an expectation, always keeps  *)
(* the certification away, however many other rules pass.                  *)
CertifiedChecksRan ==
    [][Recertified /\ card'.status = "certified" =>
          \A r \in pack :
              r.severity \in HighSeverities /\ r.type # "timeliness"
                => /\ Sampled(r)
                   /\ r.type \in {"validity", "referential_integrity"} => r.configured]_vars

(* The severity a reviewer sees and the verdict agree, though they are     *)
(* computed apart: a HIGH or CRITICAL scorecard is uncertified, and an     *)
(* uncertified one below HIGH failed at the pass-ratio bar.                *)
BandAgreesWithVerdict ==
    [][Recertified =>
          /\ card'.severity \in HighSeverities => card'.status = "uncertified"
          /\ card'.status = "uncertified" /\ card'.severity \notin HighSeverities
               => PassRatio(Evaluate(AgeHours(age))) < ConditionalMinPassRatio]_vars

(* A certified metric is a column whose own checks pass now, never one     *)
(* kept from an earlier, better certification.                             *)
MetricsAreCurrent ==
    [][Recertified => \A c \in card'.metrics :
          /\ \A r \in pack : r.column = c => RulePasses(r, AgeHours(age))
          /\ ~ \E p \in Classified : p.column = c /\ p.category \in BarredCategories]_vars

(* A column whose name says it is sensitive goes to human review and is    *)
(* not certified, whatever its values look like: no weight the classifier  *)
(* adds or takes away for values, cardinality or type drowns the name.     *)
SensitiveNamesEscalate ==
    [][Recertified =>
          \A c \in DOMAIN table :
              NameRule(names[c]).category = "sensitive"
                => card'.review /\ card'.status # "certified"]_vars

(* A column all of whose values are direct identifiers, under a name that  *)
(* hints at nothing else, is never one to build a metric on; its score     *)
(* has to survive the shape signals and clear the review bar by itself.    *)
DirectValuesAreBarred ==
    [][Recertified =>
          \A c \in DOMAIN table :
              LET f == FactsOf(c)
              IN f.direct /\ f.hits > 0 /\ f.hits = f.total
                     /\ f.rule.category \in {NoCategory, "pii_direct"}
                   => c \notin card'.metrics]_vars

(* "usable, with the open items tracked as tickets": whatever keeps a      *)
(* conditional verdict from CERTIFIED, computed by the fold, has a ticket  *)
(* from the remediation engine, which does not know the verdict.           *)
ConditionalIsTracked ==
    [][Recertified /\ card'.status = "conditional" => tickets' # {}]_vars

=============================================================================
