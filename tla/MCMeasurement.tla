--------------------------- MODULE MCMeasurement ---------------------------
(***************************************************************************)
(* Small instances of Measurement. A rule pack is one or two rules under   *)
(* test and a background of passing rules, 0, 8 or 49 of them, so that one *)
(* failure lands below, on and above the 0.90 and 0.98 bars.               *)
(***************************************************************************)
EXTENDS Measurement

CONSTANTS a, b

\* Two ordinary values and ten that a recognizer takes for e-mail addresses.
x == 1
y == 2
Mails == 3 .. 12
SmallValues == 1 .. 12
SmallKinds == [v \in SmallValues |-> IF v = y THEN "integer" ELSE "text"]

\* A row of the dictionary for each category, the direct one with a synonym of two words.
SmallNameRules ==
    <<[synonyms |-> {<<"tfn">>, <<"tax", "file">>}, category |-> "pii_direct",
       entity |-> TRUE, weight |-> 4500],
      [synonyms |-> {<<"zip">>}, category |-> "pii_quasi", entity |-> FALSE, weight |-> 3000],
      [synonyms |-> {<<"wage">>}, category |-> "sensitive", entity |-> FALSE,
       weight |-> 4000]>>

SmallRecognizers ==
    <<[accepts |-> {x}, direct |-> FALSE], [accepts |-> Mails, direct |-> TRUE]>>

SmallNamings ==
    {[c \in {a, b} |-> IF c = a THEN words ELSE <<"ref">>] :
        words \in {<<"tfn">>, <<"tax", "file">>, <<"zip">>, <<"wage", "code">>}}

RuleOn(id, type, severity, limit, configured) ==
    [id |-> id, type |-> type, column |-> a, severity |-> severity, limit |-> limit,
     configured |-> configured, accepts |-> {x}]

TestedTypes ==
    {RuleOn(101, "completeness", s, 500000, FALSE) : s \in {"low", "high"}}
    \cup {RuleOn(102, "uniqueness", "medium", 1000000, FALSE)}
    \cup {RuleOn(103, "validity", s, 500000, configured) :
            s \in {"medium", "critical"}, configured \in BOOLEAN}
    \cup {RuleOn(104, "referential_integrity", "high", 0, configured) :
            configured \in BOOLEAN}
    \cup {RuleOn(105, "timeliness", s, 1, FALSE) : s \in {"medium", "high"}}

Background(n) ==
    {[id |-> i, type |-> "timeliness", column |-> b, severity |-> "low", limit |-> 1000,
      configured |-> FALSE, accepts |-> {}] : i \in 1 .. n}

SmallRuleIds == 1 .. 105

SmallPacks ==
    {{r, s} \cup Background(8) :
        r \in {t \in TestedTypes : t.id < 104 /\ t.severity \in {"low", "medium"}},
        s \in {t \in TestedTypes : t.id = 105}}
    \cup {{r} \cup Background(n) : r \in TestedTypes, n \in {0, 49}}
    \cup {{}}

\* Samples of a: none, mixed, repeated, with nulls, all mails, mails in three of five,
\* ten different mails, and fifty equal values.
Samples ==
    {<<>>, <<x, y>>, <<y, EmptyCell>>, <<NullToken, EmptyCell>>, <<3, EmptyCell>>,
     <<3, 4, 5, NullToken, y>>, [i \in 1 .. 10 |-> i + 2], [i \in 1 .. 50 |-> y]}

\* Columns a and b sampled, or only b.
SmallTables ==
    {[c \in {a, b} |-> IF c = a THEN s ELSE <<y>>] : s \in Samples}
    \cup {[c \in {b} |-> <<y>>]}

Renamed == {[kind |-> "renamed", column |-> b, severity |-> "medium"]}
SmallDrifts == {{}, Renamed}

\* SLA 1 h: fresh, a second past the SLA (rounded away), two, past twice the SLA.
SmallAges == {0, 3601, 3602, 7203}

=============================================================================
