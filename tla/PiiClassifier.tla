--------------------------- MODULE PiiClassifier ---------------------------
(***************************************************************************)
(* PiiClassifier.classify: three families of signals, each with a weight,  *)
(* summed to a score that decides whether the category the column hints at *)
(* is assigned. Weights are in ten-thousandths.                            *)
(*                                                                         *)
(* A column's name is the sequence of words _normalise splits it into. A   *)
(* synonym is a sequence of words, too: the dictionary writes some of them *)
(* with underscores. The adjudicator is left out, as certification calls   *)
(* the classifier without one.                                             *)
(***************************************************************************)
EXTENDS Scorecard, Profile

CONSTANTS
    NameRules,    \* sequence of [synonyms, category, entity, weight]
    Recognizers   \* sequence of [accepts, direct], in the order they are tried

NoCategory == "none"

PiiThreshold == 6000
ReviewThreshold == 3000

\* There is a recognizer, and every sensitive name weighs enough to be reviewed for itself.
ASSUME ClassifierAssumption ==
    /\ DOMAIN NameRules \subseteq Nat
    /\ \A i \in DOMAIN NameRules :
          /\ NameRules[i].category \in Categories \ {"non_pii"}
          /\ NameRules[i].weight \in Nat
          /\ NameRules[i].category = "sensitive" => NameRules[i].weight >= ReviewThreshold
          /\ NameRules[i].entity \in BOOLEAN
    /\ DOMAIN Recognizers \subseteq Nat /\ DOMAIN Recognizers # {}
    /\ \A i \in DOMAIN Recognizers :
          Recognizers[i].accepts \subseteq Value /\ Recognizers[i].direct \in BOOLEAN

First(positions) == CHOOSE i \in positions : \A j \in positions : i <= j

-----------------------------------------------------------------------------
(* What the signals are taken from                                         *)

(* A synonym has to equal one token of the name, and no token holds an     *)
(* underscore.                                                             *)
Matches(rule, name) == \E i \in DOMAIN name : <<name[i]>> \in rule.synonyms

NoRule == [synonyms |-> {}, category |-> NoCategory, entity |-> FALSE, weight |-> 0]

(* The first row of the dictionary that matches. *)
NameRule(name) ==
    LET hits == {i \in DOMAIN NameRules : Matches(NameRules[i], name)}
    IN IF hits = {} THEN NoRule ELSE NameRules[First(hits)]

(* The classifier drops empty cells only: a null token counts as a value.  *)
Present(cells) == {i \in DOMAIN cells : cells[i] # EmptyCell}

Hits(recognizer, cells) == Cardinality({i \in DOMAIN cells : cells[i] \in recognizer.accepts})

(* The first recognizer with the highest share of matching values. *)
Best(cells) ==
    LET hits == [i \in DOMAIN Recognizers |-> Hits(Recognizers[i], cells)]
    IN Recognizers[First({i \in DOMAIN hits : \A j \in DOMAIN hits : hits[j] <= hits[i]})]

Facts(name, cells) ==
    LET best == Best(cells)
    IN [rule |-> NameRule(name),
        total |-> Cardinality(Present(cells)), hits |-> Hits(best, cells), direct |-> best.direct,
        known |-> Cardinality(NonNull(cells)), ratio |-> CardinalityRatio(cells),
        type |-> InferredType(cells)]

-----------------------------------------------------------------------------
(* The signals, from the facts of a column                                 *)

\* Mutant of Strong: a strong match is a match of every value, and more.
StrongAbove(f) == f.hits > 0 /\ f.hits > f.total

(* At least 0.6 of the values match the best recognizer. *)
Strong(f) == f.hits > 0 /\ 5 * f.hits >= 3 * f.total

PatternWeight(f) ==
    LET rate == IF Strong(f) THEN 4500 ELSE 2000
    IN IF f.hits = 0 THEN 0 ELSE (2 * rate * f.hits + f.total) \div (2 * f.total)

(* The name goes first: a strong match only hints at a category when the   *)
(* name does not.                                                          *)
Hint(f) ==
    CASE f.rule.category # NoCategory -> f.rule.category
      [] f.rule.category = NoCategory /\ Strong(f) ->
            IF f.direct THEN "pii_direct" ELSE "pii_quasi"
      [] OTHER -> NoCategory

HasEntity(f) == f.rule.entity \/ Strong(f)

Unhinted(f) == Hint(f) = NoCategory /\ ~HasEntity(f)

\* Mutant of CardinalityWeight: a code-like column is one whatever its name.
CardinalityDamps(f) ==
    CASE f.known >= 10 /\ f.ratio >= 950000 /\ HasEntity(f) /\ f.type = "text" -> 1500
      [] f.known >= 10 /\ f.ratio <= 50000 /\ Hint(f) = "pii_quasi" -> 1000
      [] f.known >= 10 /\ f.ratio <= 20000 /\ Hint(f) # "pii_quasi" -> -1500
      [] OTHER -> 0

CardinalityWeight(f) ==
    CASE f.known >= 10 /\ f.ratio >= 950000 /\ HasEntity(f) /\ f.type = "text" -> 1500
      [] f.known >= 10 /\ f.ratio <= 50000 /\ Hint(f) = "pii_quasi" -> 1000
      [] f.known >= 10 /\ f.ratio <= 20000 /\ Unhinted(f) -> -1500
      [] OTHER -> 0

NumericWeight(f) == IF f.type \in {"numeric", "integer"} /\ Unhinted(f) THEN -1000 ELSE 0

-----------------------------------------------------------------------------
(* The verdict                                                             *)

Score(f) ==
    LET sum == f.rule.weight + PatternWeight(f) + CardinalityWeight(f) + NumericWeight(f)
    IN CASE sum < 0 -> 0 [] sum > 10000 -> 10000 [] OTHER -> sum

NeedsReview(score) == ReviewThreshold <= score /\ score < PiiThreshold

CategoryOf(hint, score) ==
    CASE score >= PiiThreshold -> IF hint = NoCategory THEN "pii_direct" ELSE hint
      [] NeedsReview(score) /\ hint # NoCategory -> hint
      [] OTHER -> "non_pii"

Classify(column, f) ==
    LET score == Score(f)
    IN [column |-> column, category |-> CategoryOf(Hint(f), score),
        needsReview |-> NeedsReview(score)]

=============================================================================
