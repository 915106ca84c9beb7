------------------------- MODULE MeasurementProofs -------------------------
(***************************************************************************)
(* What the engines and the fold promise of a certification, for any rule  *)
(* packs, samples, names, drift findings, SLA and ages, and any dictionary *)
(* and recognizers. Rounding is the difficult part: the ratios and the     *)
(* pattern weight are quotients, so their bounds are lemmas about \div.    *)
(***************************************************************************)
EXTENDS Measurement, FiniteSetTheorems, TLAPS

-----------------------------------------------------------------------------
(* The fold, for any findings whatever.                                    *)

(* The severity ladder has no ties and no gaps. *)
LEMMA Ladder ==
    /\ SeverityRank["low"] = 0
    /\ SeverityRank["medium"] = 1
    /\ SeverityRank["high"] = 2
    /\ SeverityRank["critical"] = 3
  BY DEF SeverityRank, Severities

(* Any open severities have a worst one, so max() has an answer. *)
LEMMA WorstExists ==
    ASSUME NEW open \in SUBSET Severities, open # {}
    PROVE  \E s \in open : \A o \in open : SeverityRank[o] <= SeverityRank[s]
  <1>1. CASE "critical" \in open
    BY <1>1, Ladder DEF Severities
  <1>2. CASE "critical" \notin open /\ "high" \in open
    BY <1>2, Ladder DEF Severities
  <1>3. CASE "critical" \notin open /\ "high" \notin open /\ "medium" \in open
    BY <1>3, Ladder DEF Severities
  <1>4. CASE open = {"low"}
    BY <1>4, Ladder DEF Severities
  <1> QED
    BY <1>1, <1>2, <1>3, <1>4 DEF Severities

(* The findings an engine may hand to the fold. *)
Checked(dq) == \A f \in dq : f.severity \in Severities
Drifted(drifts) == \A d \in drifts : d.severity \in Severities

LEMMA OpenSeveritiesType ==
    ASSUME NEW dq, NEW fresh, NEW drifts,
           Checked(dq), Drifted(drifts), fresh.severity \in Severities
    PROVE  OpenSeverities(dq, fresh, drifts) \subseteq Severities
  BY DEF OpenSeverities, Failed, Checked, Drifted

(* The band of a scorecard is one of its open severities, none of which is *)
(* worse; LOW when nothing is open.                                        *)
THEOREM WorstSeverityIsWorst ==
    ASSUME NEW dq, NEW fresh, NEW drifts,
           Checked(dq), Drifted(drifts), fresh.severity \in Severities
    PROVE  /\ WorstSeverity(dq, fresh, drifts) \in Severities
           /\ \A o \in OpenSeverities(dq, fresh, drifts) :
                 SeverityRank[o] <= SeverityRank[WorstSeverity(dq, fresh, drifts)]
  <1> DEFINE open == OpenSeverities(dq, fresh, drifts)
  <1>1. open \in SUBSET Severities
    BY OpenSeveritiesType
  <1>2. CASE open = {}
    BY <1>2 DEF WorstSeverity, Severities
  <1>3. CASE open # {}
    <2>1. \E s \in open : \A o \in open : SeverityRank[o] <= SeverityRank[s]
      BY <1>1, <1>3, WorstExists
    <2>2. WorstSeverity(dq, fresh, drifts)
            = CHOOSE s \in open : \A o \in open : SeverityRank[o] <= SeverityRank[s]
      BY <1>3 DEF WorstSeverity
    <2> HIDE DEF open
    <2>3. /\ WorstSeverity(dq, fresh, drifts) \in open
          /\ \A o \in open : SeverityRank[o] <= SeverityRank[WorstSeverity(dq, fresh, drifts)]
      BY <2>1, <2>2
    <2> QED
      BY <1>1, <2>3 DEF open
  <1> QED
    BY <1>2, <1>3

(* The band and the verdict are computed apart and still agree: a HIGH or  *)
(* CRITICAL band is exactly what blocks a certification.                   *)
THEOREM BandIsBlocking ==
    ASSUME NEW dq, NEW fresh, NEW drifts,
           Checked(dq), Drifted(drifts), fresh.severity \in Severities
    PROVE  WorstSeverity(dq, fresh, drifts) \in HighSeverities <=> Blocking(dq, fresh, drifts)
  <1> DEFINE open == OpenSeverities(dq, fresh, drifts)
             worst == WorstSeverity(dq, fresh, drifts)
  <1>1. Blocking(dq, fresh, drifts) <=> \E o \in open : o \in HighSeverities
    BY DEF Blocking, OpenSeverities
  <1>2. worst \in Severities /\ \A o \in open : SeverityRank[o] <= SeverityRank[worst]
    BY WorstSeverityIsWorst
  <1>3. open \subseteq Severities
    BY OpenSeveritiesType
  <1>4. ASSUME NEW o \in open, o \in HighSeverities
        PROVE  worst \in HighSeverities
    <2> HIDE DEF open, worst
    <2> QED
      BY <1>2, <1>3, <1>4, Ladder DEF HighSeverities, Severities
  <1>5. ASSUME worst \in HighSeverities
        PROVE  worst \in open
    <2>1. open # {}
      BY <1>5 DEF WorstSeverity, HighSeverities
    <2>2. \E s \in open : \A o \in open : SeverityRank[o] <= SeverityRank[s]
      BY <1>3, <2>1, WorstExists
    <2>3. worst = CHOOSE s \in open : \A o \in open : SeverityRank[o] <= SeverityRank[s]
      BY <2>1 DEF WorstSeverity
    <2> HIDE DEF open, worst
    <2> QED
      BY <2>2, <2>3
  <1> QED
    BY <1>1, <1>4, <1>5

-----------------------------------------------------------------------------
(* Quotients.                                                              *)

LEMMA QuotientBounds ==
    ASSUME NEW n \in Int, NEW d \in Nat \ {0}
    PROVE  /\ n \div d \in Int
           /\ d * (n \div d) <= n /\ n < d * (n \div d) + d
  OBVIOUS

LEMMA NextMultiple ==
    ASSUME NEW d \in Nat \ {0}, NEW j \in Int, NEW k \in Int, j < k
    PROVE  d * j + d <= d * k
  OBVIOUS

LEMMA QuotientGrows ==
    ASSUME NEW m \in Int, NEW n \in Int, m <= n, NEW d \in Nat \ {0}
    PROVE  m \div d <= n \div d
  <1> DEFINE q == m \div d
             r == n \div d
  <1>1. /\ q \in Int /\ d * q <= m /\ m < d * q + d
        /\ r \in Int /\ d * r <= n /\ n < d * r + d
    BY QuotientBounds
  <1>2. d * q \in Int /\ d * r \in Int
    BY <1>1
  <1> HIDE DEF q, r
  <1>3. ASSUME r < q PROVE FALSE
    <2>1. d * r + d <= d * q
      BY <1>1, <1>3, NextMultiple
    <2> QED
      BY <1>1, <1>2, <2>1
  <1> QED
    BY <1>1, <1>3 DEF q, r

(* A whole count rounds to itself: half a unit is cut off again.           *)
LEMMA WholeRoundsToItself ==
    ASSUME NEW n \in Nat \ {0}, NEW k \in Nat
    PROVE  (2 * k * n + n) \div (2 * n) = k
  <1> DEFINE d == 2 * n
             m == 2 * k * n + n
             q == m \div d
  <1>1. d \in Nat \ {0} /\ m \in Int /\ n < d
    OBVIOUS
  <1>2. d * k \in Int /\ m = d * k + n
    OBVIOUS
  <1> HIDE DEF d, m
  <1>3. q \in Int /\ d * q <= m /\ m < d * q + d
    BY <1>1, QuotientBounds
  <1>4. d * q \in Int
    BY <1>1, <1>3
  <1> HIDE DEF q
  <1>5. ASSUME q < k PROVE FALSE
    <2>1. d * q + d <= d * k
      BY <1>1, <1>3, <1>5, NextMultiple
    <2> QED
      BY <1>1, <1>2, <1>3, <1>4, <2>1
  <1>6. ASSUME k < q PROVE FALSE
    <2>1. d * k + d <= d * q
      BY <1>1, <1>3, <1>6, NextMultiple
    <2> QED
      BY <1>1, <1>2, <1>3, <1>4, <2>1
  <1>7. q = k
    BY <1>3, <1>5, <1>6
  <1> QED
    BY <1>7 DEF q, m, d

(* A set of naturals has a least element, so "the first" is one of them.   *)
LEMMA LeastExists ==
    ASSUME NEW S \in SUBSET Nat, S # {}
    PROVE  \E i \in S : \A j \in S : i <= j
  <1> DEFINE T == {0 .. i : i \in S}
  <1>1. T \subseteq FiniteSubsetsOf(Nat)
    <2> SUFFICES ASSUME NEW i \in S PROVE 0 .. i \in FiniteSubsetsOf(Nat)
      OBVIOUS
    <2>1. 0 .. i \in SUBSET Nat
      OBVIOUS
    <2>2. IsFiniteSet(0 .. i)
      BY FS_Interval
    <2> QED
      BY <2>1, <2>2 DEF FiniteSubsetsOf
  <1>2. IsWellFoundedOn(StrictSubsetOrdering(Nat), FiniteSubsetsOf(Nat))
    BY FS_StrictSubsetOrderingWellFounded
  <1>3. T # {}
    OBVIOUS
  <1>4. PICK x \in T : \A y \in T : ~(<<y, x>> \in StrictSubsetOrdering(Nat))
    BY <1>1, <1>2, <1>3, WFMin
  <1>5. PICK i \in S : x = 0 .. i
    OBVIOUS
  <1>6. ASSUME NEW j \in S, j < i PROVE FALSE
    <2>1. 0 .. j \subseteq 0 .. i /\ i \in 0 .. i /\ i \notin 0 .. j
      BY <1>6
    <2>2. 0 .. j \in SUBSET Nat /\ 0 .. i \in SUBSET Nat
      OBVIOUS
    <2>3. <<0 .. j, 0 .. i>> \in StrictSubsetOrdering(Nat)
      BY <2>1, <2>2 DEF StrictSubsetOrdering
    <2> QED
      BY <1>4, <1>5, <2>3
  <1> QED
    BY <1>6

LEMMA FirstIsOne ==
    ASSUME NEW positions \in SUBSET Nat, positions # {}
    PROVE  First(positions) \in positions
  BY LeastExists DEF First

-----------------------------------------------------------------------------
(* The classifier's facts.                                                 *)

(* A name finds no row of the dictionary, or one of them. *)
LEMMA NameRuleType ==
    ASSUME NEW name
    PROVE  /\ NameRule(name).weight \in Nat
           /\ NameRule(name).category = "sensitive" =>
                 NameRule(name).weight >= ReviewThreshold
  <1> DEFINE hits == {i \in DOMAIN NameRules : Matches(NameRules[i], name)}
  <1>1. CASE hits = {}
    <2>1. NameRule(name) = NoRule
      BY <1>1 DEF NameRule
    <2> QED
      BY <2>1 DEF NoRule, NoCategory
  <1>2. CASE hits # {}
    <2>1. NameRule(name) = NameRules[First(hits)]
      BY <1>2 DEF NameRule
    <2>2. hits \in SUBSET Nat
      BY ClassifierAssumption
    <2>3. First(hits) \in hits
      BY <1>2, <2>2, FirstIsOne
    <2>4. PICK i \in DOMAIN NameRules : NameRule(name) = NameRules[i]
      BY <2>1, <2>3
    <2> QED
      BY <2>4, ClassifierAssumption
  <1> HIDE DEF hits
  <1> QED
    BY <1>1, <1>2

LEMMA PositionsCount ==
    ASSUME NEW cells \in Seq(Cell), NEW S \in SUBSET DOMAIN cells
    PROVE  IsFiniteSet(S) /\ Cardinality(S) \in Nat /\ Cardinality(S) <= Len(cells)
  <1>1. Len(cells) \in Nat /\ DOMAIN cells = 1 .. Len(cells)
    OBVIOUS
  <1>2. IsFiniteSet(DOMAIN cells) /\ Cardinality(DOMAIN cells) = Len(cells)
    <2>1. /\ IsFiniteSet(1 .. Len(cells))
          /\ Cardinality(1 .. Len(cells)) = IF 1 > Len(cells) THEN 0 ELSE Len(cells) - 1 + 1
      BY <1>1, FS_Interval
    <2> QED
      BY <1>1, <2>1
  <1> QED
    BY <1>2, FS_Subset, FS_CardinalityType

(* The best recognizer is one of them: some recognizer has the most hits.  *)
LEMMA BestIsOne ==
    ASSUME NEW cells \in Seq(Cell)
    PROVE  \E i \in DOMAIN Recognizers : Best(cells) = Recognizers[i]
  <1> DEFINE rows == DOMAIN Recognizers
             hits == [i \in rows |-> Hits(Recognizers[i], cells)]
             best == {i \in rows : \A j \in rows : hits[j] <= hits[i]}
             misses == {Len(cells) - hits[i] : i \in rows}
  <1>1. \A i \in rows : hits[i] \in Nat /\ hits[i] <= Len(cells)
    BY PositionsCount DEF Hits
  <1>2. Len(cells) \in Nat
    OBVIOUS
  <1> HIDE DEF hits
  <1>3. misses \in SUBSET Nat /\ misses # {}
    BY <1>1, <1>2, ClassifierAssumption
  <1>4. PICK m \in misses : \A n \in misses : m <= n
    BY <1>3, LeastExists
  <1>5. PICK i \in rows : m = Len(cells) - hits[i]
    BY <1>4
  <1>6. i \in best
    <2> SUFFICES ASSUME NEW j \in rows PROVE hits[j] <= hits[i]
      OBVIOUS
    <2>1. m <= Len(cells) - hits[j]
      BY <1>4
    <2> QED
      BY <1>1, <1>2, <1>5, <2>1
  <1>7. First(best) \in best
    <2>1. best \subseteq rows /\ best # {}
      BY <1>6
    <2>2. rows \subseteq Nat
      BY ClassifierAssumption
    <2> HIDE DEF best, rows
    <2> QED
      BY <2>1, <2>2, FirstIsOne
  <1>8. Best(cells) = Recognizers[First(best)]
    BY DEF Best, hits
  <1> QED
    BY <1>7, <1>8

(* Hits are among the values that are present, so that no share is taken   *)
(* of nothing.                                                             *)
LEMMA FactsType ==
    ASSUME NEW name, NEW cells \in Seq(Cell), NEW f, f = Facts(name, cells)
    PROVE  /\ f.rule = NameRule(name)
           /\ f.hits \in Nat /\ f.total \in Nat /\ f.hits <= f.total
  <1> DEFINE accepted == {i \in DOMAIN cells : cells[i] \in Best(cells).accepts}
  <1>1. f.rule = NameRule(name) /\ f.total = Cardinality(Present(cells))
        /\ f.hits = Cardinality(accepted)
    BY DEF Facts, Hits
  <1>2. Best(cells).accepts \subseteq Value
    BY BestIsOne, ClassifierAssumption
  <1>3. accepted \subseteq Present(cells)
    BY <1>2, ProfileAssumption DEF Present
  <1>4. Present(cells) \in SUBSET DOMAIN cells
    BY DEF Present
  <1> QED
    BY <1>1, <1>3, <1>4, PositionsCount, FS_Subset

-----------------------------------------------------------------------------
(* The classifier's score.                                                 *)

Shaped(f) ==
    /\ f.rule.weight \in Nat
    /\ f.hits \in Nat /\ f.total \in Nat /\ f.hits <= f.total

(* Values can only add to a name, and a full match adds its whole rate.    *)
LEMMA PatternAdds ==
    ASSUME NEW f, Shaped(f)
    PROVE  /\ PatternWeight(f) \in Nat
           /\ f.hits > 0 /\ f.hits = f.total => PatternWeight(f) = 4500
  <1> DEFINE h == f.hits
             t == f.total
             rate == IF Strong(f) THEN 4500 ELSE 2000
  <1>0. h \in Nat /\ t \in Nat /\ h <= t
    BY DEF Shaped
  <1>1. h \in Nat /\ t \in Nat /\ h <= t /\ rate \in {2000, 4500}
    BY <1>0
  <1>2. CASE h = 0
    BY <1>2 DEF PatternWeight
  <1>3. CASE h # 0
    <2>1. PatternWeight(f) = (2 * rate * h + t) \div (2 * t)
      BY <1>3 DEF PatternWeight
    <2>2. 2 * rate * h + t \in Int /\ 0 <= 2 * rate * h + t /\ 2 * t \in Nat \ {0}
      BY <1>1, <1>3
    <2>3. PatternWeight(f) \in Nat
      <3>1. 0 \div (2 * t) <= (2 * rate * h + t) \div (2 * t)
        BY <2>2, QuotientGrows
      <3>2. 0 \div (2 * t) = 0
        BY <2>2
      <3> QED
        BY <2>1, <2>2, <3>1, <3>2, QuotientBounds
    <2>4. ASSUME h = t PROVE PatternWeight(f) = 4500
      <3>1. rate = 4500
        BY <1>1, <1>3, <2>4 DEF Strong
      <3>2. PatternWeight(f) = (2 * 4500 * t + t) \div (2 * t)
        BY <2>1, <2>4, <3>1
      <3>3. (2 * 4500 * t + t) \div (2 * t) = 4500
        BY <1>1, <1>3, <2>4, WholeRoundsToItself
      <3> QED
        BY <3>2, <3>3
    <2> QED
      BY <2>3, <2>4
  <1> QED
    BY <1>2, <1>3

(* The signals that take away do so only from a column nothing hints at.   *)
LEMMA HintedScore ==
    ASSUME NEW f, Shaped(f), Hint(f) # NoCategory,
           NEW least \in Nat, least <= 10000,
           least <= f.rule.weight + PatternWeight(f)
    PROVE  Score(f) \in Nat /\ least <= Score(f)
  <1> DEFINE cw == CardinalityWeight(f)
             nw == NumericWeight(f)
             pw == PatternWeight(f)
             w == f.rule.weight
             sum == w + pw + cw + nw
  <1>1. ~Unhinted(f)
    BY DEF Unhinted
  <1>2. cw \in {0, 1000, 1500}
    BY <1>1, SMT DEF CardinalityWeight
  <1>3. nw = 0
    BY <1>1 DEF NumericWeight
  <1>4. pw \in Nat /\ w \in Nat
    <2>1. w \in Nat
      BY DEF Shaped
    <2> QED
      BY <2>1, PatternAdds
  <1>5. Score(f) = IF sum < 0 THEN 0 ELSE IF sum > 10000 THEN 10000 ELSE sum
    BY <1>2, <1>3, <1>4 DEF Score
  <1> HIDE DEF cw, nw, pw, w
  <1>6. sum \in Nat /\ least <= sum
    BY <1>2, <1>3, <1>4 DEF w, pw
  <1> QED
    BY <1>5, <1>6

(* A hint whose score reaches the review bar is the column's category.     *)
LEMMA HintIsAssigned ==
    ASSUME NEW hint, hint # NoCategory, NEW score \in Nat, ReviewThreshold <= score
    PROVE  CategoryOf(hint, score) = hint
  <1>1. CASE score >= PiiThreshold
    BY <1>1 DEF CategoryOf
  <1>2. CASE ~(score >= PiiThreshold)
    <2>1. NeedsReview(score)
      BY <1>2 DEF NeedsReview, PiiThreshold, ReviewThreshold
    <2> QED
      BY <1>2, <2>1 DEF CategoryOf
  <1> QED
    BY <1>1, <1>2

LEMMA SensitiveName ==
    ASSUME NEW c, NEW f, Shaped(f), f.rule.category = "sensitive",
           f.rule.weight >= ReviewThreshold
    PROVE  Classify(c, f).category = "sensitive"
  <1>1. Hint(f) = "sensitive" /\ Hint(f) # NoCategory
    BY DEF Hint, NoCategory
  <1>2. ReviewThreshold \in Nat /\ ReviewThreshold <= 10000
    BY DEF ReviewThreshold
  <1>3. f.rule.weight \in Nat
    BY DEF Shaped
  <1>4. ReviewThreshold <= f.rule.weight + PatternWeight(f)
    <2>1. PatternWeight(f) \in Nat
      BY PatternAdds
    <2> QED
      BY <1>2, <1>3, <2>1
  <1>5. Score(f) \in Nat /\ ReviewThreshold <= Score(f)
    BY <1>1, <1>2, <1>4, HintedScore
  <1>6. CategoryOf("sensitive", Score(f)) = "sensitive"
    BY <1>1, <1>5, HintIsAssigned
  <1> QED
    BY <1>1, <1>6 DEF Classify

LEMMA DirectValues ==
    ASSUME NEW c, NEW f, Shaped(f), f.direct, f.hits > 0, f.hits = f.total,
           f.rule.category \in {NoCategory, "pii_direct"}
    PROVE  Classify(c, f).category = "pii_direct"
  <1>0. f.hits \in Nat /\ f.rule.weight \in Nat
    BY DEF Shaped
  <1>1. Strong(f)
    BY <1>0 DEF Strong
  <1>2. Hint(f) = "pii_direct" /\ Hint(f) # NoCategory
    BY <1>1 DEF Hint, NoCategory
  <1>3. PatternWeight(f) = 4500
    BY PatternAdds
  <1>4. Score(f) \in Nat /\ 4500 <= Score(f)
    <2>1. 4500 \in Nat /\ 4500 <= 10000 /\ 4500 <= f.rule.weight + PatternWeight(f)
      BY <1>0, <1>3
    <2> QED
      BY <1>2, <2>1, HintedScore
  <1>5. Score(f) \in Nat /\ ReviewThreshold <= Score(f)
    BY <1>4 DEF ReviewThreshold
  <1>6. CategoryOf("pii_direct", Score(f)) = "pii_direct"
    BY <1>2, <1>5, HintIsAssigned
  <1> QED
    BY <1>2, <1>6 DEF Classify

-----------------------------------------------------------------------------
(* The rule engine, the freshness bands and the pass ratio.                *)

LEMMA AgeHoursGrows ==
    ASSUME NEW x \in Nat, NEW y \in Nat, x <= y
    PROVE  AgeHours(x) \in Int /\ AgeHours(y) \in Int /\ AgeHours(x) <= AgeHours(y)
  BY QuotientBounds, QuotientGrows DEF AgeHours

(* A rule passes or fails, and only a timeliness rule looks at the age.    *)
LEMMA RuleVerdicts ==
    ASSUME NEW r \in Rule, NEW h, NEW k
    PROVE  /\ RulePasses(r, h) \in BOOLEAN
           /\ r.type = "timeliness" => RulePasses(r, h) = Timeliness(r, h)
           /\ r.type # "timeliness" => RulePasses(r, h) = RulePasses(r, k)
  <1>1. r.type \in RuleTypes
    BY DEF Rule
  <1>2. CASE r.type = "completeness"
    <2>1. RulePasses(r, h) = Completeness(r) /\ RulePasses(r, k) = Completeness(r)
      BY <1>2 DEF RulePasses
    <2> QED
      BY <1>2, <2>1 DEF Completeness
  <1>3. CASE r.type = "uniqueness"
    <2>1. RulePasses(r, h) = Uniqueness(r) /\ RulePasses(r, k) = Uniqueness(r)
      BY <1>3 DEF RulePasses
    <2> QED
      BY <1>3, <2>1 DEF Uniqueness
  <1>4. CASE r.type = "validity"
    <2>1. RulePasses(r, h) = Validity(r) /\ RulePasses(r, k) = Validity(r)
      BY <1>4 DEF RulePasses
    <2> QED
      BY <1>4, <2>1 DEF Validity
  <1>5. CASE r.type = "referential_integrity"
    <2>1. RulePasses(r, h) = Referential(r) /\ RulePasses(r, k) = Referential(r)
      BY <1>5 DEF RulePasses
    <2> QED
      BY <1>5, <2>1 DEF Referential
  <1>6. CASE r.type = "timeliness"
    <2>1. RulePasses(r, h) = Timeliness(r, h)
      BY <1>6 DEF RulePasses
    <2> QED
      BY <1>6, <2>1 DEF Timeliness
  <1> QED
    BY <1>1, <1>2, <1>3, <1>4, <1>5, <1>6 DEF RuleTypes

LEMMA AgingRule ==
    ASSUME NEW r \in Rule, NEW h \in Int, NEW k \in Int, h <= k, RulePasses(r, k)
    PROVE  RulePasses(r, h)
  <1>1. CASE r.type = "timeliness"
    <2>1. Timeliness(r, k) /\ r.limit \in Nat
      BY <1>1, RuleVerdicts DEF Rule
    <2>2. Timeliness(r, h)
      BY <2>1 DEF Timeliness
    <2> QED
      BY <1>1, <2>2, RuleVerdicts
  <1>2. CASE r.type # "timeliness"
    BY <1>2, RuleVerdicts
  <1> QED
    BY <1>1, <1>2

(* The finding a rule leaves. *)
Finding(r, h) ==
    [rule |-> r.id, column |-> r.column, passed |-> RulePasses(r, h), severity |-> r.severity]

LEMMA EvaluateIs ==
    ASSUME NEW h
    PROVE  Evaluate(h) = {Finding(r, h) : r \in pack}
  BY DEF Evaluate, Finding

LEMMA FailedIs ==
    ASSUME NEW h
    PROVE  \A f : f \in Failed(Evaluate(h)) <=>
                     \E r \in pack : f = Finding(r, h) /\ ~RulePasses(r, h)
  BY EvaluateIs DEF Failed, Finding

Packed == pack \in RulePacks

(* One finding per rule: rule names are unique within a pack. *)
LEMMA OneFindingPerRule ==
    ASSUME Packed, NEW h
    PROVE  /\ pack \subseteq Rule
           /\ IsFiniteSet(Evaluate(h))
           /\ Cardinality(Evaluate(h)) = Cardinality(pack)
  <1> DEFINE map == [r \in pack |-> Finding(r, h)]
  <1>1. /\ pack \subseteq Rule /\ IsFiniteSet(pack)
        /\ \A r, s \in pack : r.id = s.id => r = s
    BY MeasurementAssumption DEF Packed
  <1>2. map \in [pack -> Evaluate(h)] /\ \A r \in pack : map[r].rule = r.id
    BY EvaluateIs DEF Finding
  <1>3. \A f \in Evaluate(h) : \E r \in pack : map[r] = f
    BY EvaluateIs
  <1> HIDE DEF map
  <1>4. map \in Surjection(pack, Evaluate(h))
    BY <1>2, <1>3 DEF Surjection
  <1>5. \A r, s \in pack : map[r] = map[s] => r = s
    BY <1>1, <1>2
  <1>6. map \in Injection(pack, Evaluate(h))
    BY <1>2, <1>5 DEF Injection, IsInjective
  <1> QED
    BY <1>1, <1>4, <1>6, FS_Surjection

(* The ratio of a finite set of findings is defined, is one when nothing   *)
(* failed, and does not grow when fewer of as many findings pass.          *)
Passed(dq) == {f \in dq : f.passed}

LEMMA PassRatioIs ==
    ASSUME NEW dq, IsFiniteSet(dq), dq # {}
    PROVE  /\ Cardinality(dq) \in Nat \ {0} /\ Cardinality(Passed(dq)) \in Nat
           /\ PassRatio(dq) = (2000000 * Cardinality(Passed(dq)) + Cardinality(dq))
                                 \div (2 * Cardinality(dq))
  <1>1. Passed(dq) \in SUBSET dq
    BY DEF Passed
  <1>2. Cardinality(dq) \in Nat /\ Cardinality(dq) # 0
    BY FS_CardinalityType, FS_EmptySet
  <1>3. Cardinality(Passed(dq)) \in Nat
    BY <1>1, FS_Subset, FS_CardinalityType
  <1> QED
    BY <1>2, <1>3, SMT DEF PassRatio, Passed

LEMMA PassRatioType ==
    ASSUME NEW dq, IsFiniteSet(dq)
    PROVE  PassRatio(dq) \in Int
  <1>1. CASE dq = {}
    BY <1>1, SMT DEF PassRatio
  <1>2. CASE dq # {}
    <2> DEFINE p == Cardinality(Passed(dq))
               n == Cardinality(dq)
    <2>1. /\ n \in Nat \ {0} /\ p \in Nat
          /\ PassRatio(dq) = (2000000 * p + n) \div (2 * n)
      BY <1>2, PassRatioIs, SMT
    <2> HIDE DEF p, n
    <2> QED
      BY <2>1, SMT
  <1> QED
    BY <1>1, <1>2

LEMMA NothingFailed ==
    ASSUME NEW dq, IsFiniteSet(dq), Failed(dq) = {}
    PROVE  PassRatio(dq) = 1000000
  <1>1. CASE dq = {}
    BY <1>1, SMT DEF PassRatio
  <1>2. CASE dq # {}
    <2> DEFINE n == Cardinality(dq)
    <2>1. Passed(dq) = dq
      BY DEF Failed, Passed
    <2>2. n \in Nat \ {0} /\ PassRatio(dq) = (2000000 * n + n) \div (2 * n)
      BY <1>2, <2>1, PassRatioIs, SMT
    <2> HIDE DEF n
    <2>3. (2 * 1000000 * n + n) \div (2 * n) = 1000000
      BY <2>2, WholeRoundsToItself, SMT
    <2>4. 2 * 1000000 * n = 2000000 * n
      BY <2>2, SMT
    <2> QED
      BY <2>2, <2>3, <2>4, SMT
  <1> QED
    BY <1>1, <1>2

LEMMA FewerPassed ==
    ASSUME NEW before, NEW after, IsFiniteSet(before), IsFiniteSet(after),
           Cardinality(before) = Cardinality(after), Passed(after) \subseteq Passed(before)
    PROVE  PassRatio(after) <= PassRatio(before)
  <1>1. before = {} <=> after = {}
    BY FS_EmptySet
  <1>2. CASE before = {}
    BY <1>1, <1>2, SMT DEF PassRatio
  <1>3. CASE before # {}
    <2> DEFINE p == Cardinality(Passed(before))
               q == Cardinality(Passed(after))
               n == Cardinality(before)
    <2>1. IsFiniteSet(Passed(before))
      BY FS_Subset DEF Passed
    <2>2. q <= p
      BY <2>1, FS_Subset
    <2>3. /\ n \in Nat \ {0} /\ p \in Nat /\ q \in Nat
          /\ PassRatio(before) = (2000000 * p + n) \div (2 * n)
          /\ PassRatio(after) = (2000000 * q + n) \div (2 * n)
      BY <1>1, <1>3, PassRatioIs, SMT
    <2> HIDE DEF p, q, n
    <2>4. /\ 2000000 * q + n \in Int /\ 2000000 * p + n \in Int
          /\ 2000000 * q + n <= 2000000 * p + n /\ 2 * n \in Nat \ {0}
      BY <2>2, <2>3, SMT
    <2> QED
      BY <2>3, <2>4, QuotientGrows, SMT
  <1> QED
    BY <1>2, <1>3

-----------------------------------------------------------------------------
(* A certification.                                                        *)

Typed ==
    /\ Packed
    /\ table \in Tables
    /\ drift \in Drifts
    /\ age \in Nat

LEMMA FreshBands ==
    ASSUME NEW h \in Int, NEW k \in Int, h <= k
    PROVE  /\ Fresh(h).severity \in Severities
           /\ Fresh(h).breached /\ Fresh(h).severity \in HighSeverities =>
                 Fresh(k).breached /\ Fresh(k).severity \in HighSeverities
  <1>1. 1000 * SlaHours \in Int /\ 2000 * SlaHours \in Int
    BY MeasurementAssumption
  <1> DEFINE once == 1000 * SlaHours
             twice == 2000 * SlaHours
  <1>2. ASSUME NEW x \in Int
        PROVE  /\ Fresh(x).breached <=> x > once
               /\ Fresh(x).severity = IF x > twice THEN "critical"
                                      ELSE IF x > once THEN "high" ELSE "low"
    BY DEF Fresh
  <1> HIDE DEF once, twice
  <1>3. once \in Int /\ twice \in Int
    BY <1>1 DEF once, twice
  <1>4. Fresh(h).severity \in {"critical", "high", "low"}
    BY <1>2
  <1>5. ASSUME Fresh(h).breached PROVE Fresh(k).breached /\ Fresh(k).severity \in HighSeverities
    <2>1. h > once
      BY <1>2, <1>5
    <2>2. k > once
      BY <1>3, <2>1
    <2> QED
      BY <1>2, <2>2 DEF HighSeverities
  <1> QED
    BY <1>4, <1>5 DEF Severities

(* The findings of a certification are ones the fold's theorems speak of.  *)
LEMMA Foldable ==
    ASSUME Typed, NEW h \in Int
    PROVE  Checked(Evaluate(h)) /\ Drifted(drift) /\ Fresh(h).severity \in Severities
  <1>1. \A r \in pack : r.severity \in Severities
    BY OneFindingPerRule DEF Typed, Rule
  <1>2. Checked(Evaluate(h))
    BY <1>1, EvaluateIs DEF Checked, Finding
  <1>3. Drifted(drift)
    BY MeasurementAssumption DEF Drifted, Typed
  <1>4. Fresh(h).severity \in Severities
    BY FreshBands
  <1> QED
    BY <1>2, <1>3, <1>4

(* The parts of a scorecard. *)
LEMMA CardParts ==
    ASSUME NEW seconds, NEW before, NEW h, h = AgeHours(seconds),
           NEW c, c = CardAt(seconds, before)
    PROVE  /\ c.status = StatusOf(PassRatio(Evaluate(h)), Evaluate(h), Fresh(h), drift, Classified)
           /\ c.review = (Decertified(before, c.status) \/ HasSensitive(Classified))
           /\ c.severity = WorstSeverity(Evaluate(h), Fresh(h), drift)
           /\ c.metrics = IF c.status = "uncertified" THEN {}
                          ELSE CertifiedMetrics(Evaluate(h), Classified)
  BY DEF CardAt, Certify

(* What a verdict means. *)
LEMMA Verdicts ==
    ASSUME NEW ratio, NEW dq, NEW fresh, NEW open, NEW pii, NEW status,
           status = StatusOf(ratio, dq, fresh, open, pii)
    PROVE  /\ status \in Statuses
           /\ Blocking(dq, fresh, open) => status = "uncertified"
           /\ status = "uncertified" =>
                 Blocking(dq, fresh, open) \/ ratio < ConditionalMinPassRatio
           /\ status # "uncertified" => ~(ratio < ConditionalMinPassRatio)
           /\ status = "certified" <=>
                 /\ ~Blocking(dq, fresh, open) /\ ~(ratio < ConditionalMinPassRatio)
                 /\ ratio >= CertMinPassRatio
                 /\ ~ \E d \in open : d.severity = "medium"
                 /\ ~HasSensitive(pii)
  <1> DEFINE bad == Blocking(dq, fresh, open) \/ ratio < ConditionalMinPassRatio
             good == /\ ratio >= CertMinPassRatio
                     /\ ~ \E d \in open : d.severity = "medium"
                     /\ ~HasSensitive(pii)
  <1>1. CASE bad
    <2>1. status = "uncertified"
      BY <1>1 DEF StatusOf
    <2> QED
      BY <1>1, <2>1 DEF Statuses
  <1>2. CASE ~bad /\ good
    <2>1. status = "certified"
      BY <1>2 DEF StatusOf
    <2> QED
      BY <1>2, <2>1 DEF Statuses
  <1>3. CASE ~bad /\ ~good
    <2>1. status = "conditional"
      BY <1>3 DEF StatusOf
    <2> QED
      BY <1>3, <2>1 DEF Statuses
  <1> QED
    BY <1>1, <1>2, <1>3

LEMMA FactsAreShaped ==
    ASSUME Typed, NEW c \in DOMAIN table
    PROVE  /\ Shaped(FactsOf(c))
           /\ FactsOf(c).rule = NameRule(names[c])
  <1>1. table[c] \in Seq(Cell)
    BY MeasurementAssumption DEF Typed
  <1>2. FactsOf(c) = Facts(names[c], table[c])
    BY DEF FactsOf
  <1> QED
    BY <1>1, <1>2, FactsType, NameRuleType DEF Shaped

(* A failed HIGH or CRITICAL rule blocks. *)
LEMMA FailedRuleBlocks ==
    ASSUME NEW h, NEW r \in pack, ~RulePasses(r, h), r.severity \in HighSeverities
    PROVE  Blocking(Evaluate(h), Fresh(h), drift)
  <1>1. Finding(r, h) \in Failed(Evaluate(h)) /\ Finding(r, h).severity = r.severity
    BY FailedIs DEF Finding
  <1> QED
    BY <1>1 DEF Blocking

-----------------------------------------------------------------------------
(* What holds of one state.                                                *)

(* A staler partition is judged no better. *)
LEMMA AgingJudgedNoBetter ==
    ASSUME Typed, NEW h \in Int, NEW k \in Int, h <= k,
           NEW young, young = StatusOf(PassRatio(Evaluate(h)), Evaluate(h), Fresh(h), drift,
                                       Classified),
           NEW old, old = StatusOf(PassRatio(Evaluate(k)), Evaluate(k), Fresh(k), drift,
                                   Classified)
    PROVE  StatusRank[old] <= StatusRank[young]
  <1>1. pack \subseteq Rule
    BY OneFindingPerRule DEF Typed
  <1>2. Blocking(Evaluate(h), Fresh(h), drift) => Blocking(Evaluate(k), Fresh(k), drift)
    <2>1. ASSUME NEW f \in Failed(Evaluate(h)), f.severity \in HighSeverities
          PROVE  Blocking(Evaluate(k), Fresh(k), drift)
      <3>1. PICK r \in pack : f = Finding(r, h) /\ ~RulePasses(r, h)
        BY FailedIs
      <3>2. ~RulePasses(r, k)
        BY <1>1, <3>1, AgingRule
      <3>3. r.severity \in HighSeverities
        BY <2>1, <3>1 DEF Finding
      <3> QED
        BY <3>2, <3>3, FailedRuleBlocks
    <2>2. ASSUME Fresh(h).breached, Fresh(h).severity \in HighSeverities
          PROVE  Blocking(Evaluate(k), Fresh(k), drift)
      BY <2>2, FreshBands DEF Blocking
    <2> QED
      BY <2>1, <2>2 DEF Blocking
  <1>3. /\ PassRatio(Evaluate(k)) <= PassRatio(Evaluate(h))
        /\ PassRatio(Evaluate(k)) \in Int /\ PassRatio(Evaluate(h)) \in Int
    <2>1. Passed(Evaluate(k)) \subseteq Passed(Evaluate(h))
      <3> SUFFICES ASSUME NEW f \in Passed(Evaluate(k)) PROVE f \in Passed(Evaluate(h))
        OBVIOUS
      <3>1. PICK r \in pack : f = Finding(r, k) /\ f.passed
        BY EvaluateIs DEF Passed
      <3>2. RulePasses(r, k)
        BY <3>1 DEF Finding
      <3>3. RulePasses(r, h)
        BY <1>1, <3>2, AgingRule
      <3>4. RulePasses(r, h) = RulePasses(r, k)
        BY <1>1, <3>2, <3>3, RuleVerdicts
      <3>5. f = Finding(r, h)
        BY <3>1, <3>4 DEF Finding
      <3> QED
        BY <3>1, <3>5, EvaluateIs DEF Passed
    <2> QED
      BY <2>1, OneFindingPerRule, FewerPassed, PassRatioType DEF Typed
  <1>4. ConditionalMinPassRatio \in Nat /\ CertMinPassRatio \in Nat
    BY SMT DEF ConditionalMinPassRatio, CertMinPassRatio
  <1>5. young \in Statuses /\ old \in Statuses
    BY Verdicts
  <1>6. young = "uncertified" => old = "uncertified"
    <2> SUFFICES ASSUME young = "uncertified", old # "uncertified" PROVE FALSE
      OBVIOUS
    <2>1. /\ ~Blocking(Evaluate(k), Fresh(k), drift)
          /\ ~(PassRatio(Evaluate(k)) < ConditionalMinPassRatio)
      BY Verdicts
    <2>2. \/ Blocking(Evaluate(h), Fresh(h), drift)
          \/ PassRatio(Evaluate(h)) < ConditionalMinPassRatio
      BY Verdicts
    <2> QED
      BY <1>2, <1>3, <1>4, <2>1, <2>2
  <1>7. old = "certified" => young = "certified"
    <2> SUFFICES ASSUME old = "certified" PROVE young = "certified"
      OBVIOUS
    <2>1. /\ ~Blocking(Evaluate(k), Fresh(k), drift)
          /\ ~(PassRatio(Evaluate(k)) < ConditionalMinPassRatio)
          /\ PassRatio(Evaluate(k)) >= CertMinPassRatio
          /\ ~ \E d \in drift : d.severity = "medium"
          /\ ~HasSensitive(Classified)
      BY Verdicts
    <2>2. /\ ~(PassRatio(Evaluate(h)) < ConditionalMinPassRatio)
          /\ PassRatio(Evaluate(h)) >= CertMinPassRatio
      BY <1>3, <1>4, <2>1
    <2> QED
      BY <1>2, <2>1, <2>2, Verdicts
  <1>8. /\ StatusRank["certified"] = 2 /\ StatusRank["conditional"] = 1
        /\ StatusRank["uncertified"] = 0
    BY DEF StatusRank, Statuses
  <1> QED
    BY <1>5, <1>6, <1>7, <1>8 DEF Statuses

LEMMA TypedNeverHeals == Typed => AgingNeverHeals
  <1> SUFFICES ASSUME Typed, NEW a \in Ages, a > age
               PROVE  StatusRank[CardAt(a, NoStatus).status]
                         <= StatusRank[CardAt(age, NoStatus).status]
    BY DEF AgingNeverHeals
  <1>1. a \in Nat /\ age \in Nat /\ age <= a
    BY MeasurementAssumption DEF Typed
  <1>2. AgeHours(age) \in Int /\ AgeHours(a) \in Int /\ AgeHours(age) <= AgeHours(a)
    BY <1>1, AgeHoursGrows
  <1> QED
    BY <1>2, CardParts, AgingJudgedNoBetter

(* A scorecard's type. *)
LEMMA CardType ==
    ASSUME Typed, NEW before, NEW c, c = CardAt(age, before)
    PROVE  /\ c.status \in Statuses
           /\ c.review \in BOOLEAN /\ c.severity \in Severities /\ c.metrics \subseteq Column
  <1> DEFINE h == AgeHours(age)
             dq == Evaluate(h)
  <1>1. h \in Int
    BY AgeHoursGrows DEF Typed
  <1>2. c.status \in Statuses
    BY CardParts, Verdicts
  <1>3. c.review \in BOOLEAN
    <2>1. c.review = (Decertified(before, c.status) \/ HasSensitive(Classified))
      BY CardParts
    <2> QED
      BY <2>1
  <1>4. c.severity \in Severities
    <2>1. c.severity = WorstSeverity(dq, Fresh(h), drift)
      BY CardParts
    <2>2. Checked(dq) /\ Drifted(drift) /\ Fresh(h).severity \in Severities
      BY <1>1, Foldable
    <2> QED
      BY <2>1, <2>2, WorstSeverityIsWorst
  <1>5. c.metrics \subseteq Column
    <2>1. c.metrics \subseteq {f.column : f \in dq}
      <3>1. c.metrics = {} \/ c.metrics = CertifiedMetrics(dq, Classified)
        BY CardParts
      <3> QED
        BY <3>1 DEF CertifiedMetrics
    <2>2. \A r \in pack : r.column \in Column
      BY OneFindingPerRule DEF Typed, Rule
    <2>3. \A f \in dq : f.column \in Column
      BY <2>2, EvaluateIs DEF Finding
    <2> QED
      BY <2>1, <2>3
  <1> QED
    BY <1>2, <1>3, <1>4, <1>5

-----------------------------------------------------------------------------
(* What holds of a step.                                                   *)

Inv == Typed /\ TypeOK

LEMMA InvInit == Init => Inv
  <1> SUFFICES ASSUME Init PROVE Inv
    OBVIOUS
  <1>1. Typed
    BY MeasurementAssumption DEF Init, Typed, Packed
  <1>2. TypeOK
    BY <1>1, MeasurementAssumption DEF Init, TypeOK, Typed, None, Severities
  <1> QED
    BY <1>1, <1>2 DEF Inv

LEMMA InvStep == Inv /\ [Next]_vars => Inv'
  <1> SUFFICES ASSUME Inv, [Next]_vars PROVE Inv'
    OBVIOUS
  <1>1. CASE CertifyAgain
    <2>1. Typed'
      BY <1>1 DEF CertifyAgain, dataset, Inv, Typed, Packed
    <2>2. /\ card'.status \in Statuses /\ card'.review \in BOOLEAN
          /\ card'.severity \in Severities /\ card'.metrics \subseteq Column
      BY <1>1, CardType DEF CertifyAgain, Inv
    <2>3. TypeOK'
      BY <1>1, <2>2 DEF CertifyAgain, dataset, Inv, TypeOK
    <2> QED
      BY <2>1, <2>3 DEF Inv
  <1>2. CASE TimePasses
    BY <1>2, MeasurementAssumption DEF TimePasses, dataset, Inv, Typed, Packed, TypeOK
  <1>3. CASE Load
    <2>1. Typed' /\ card' = card /\ pack' = pack
      BY <1>3 DEF Load, dataset, Inv, Typed, Packed
    <2>2. TypeOK'
      BY <2>1, MeasurementAssumption DEF Inv, Typed, TypeOK
    <2> QED
      BY <2>1, <2>2 DEF Inv
  <1>4. CASE UNCHANGED vars
    BY <1>4 DEF vars, Inv, Typed, Packed, TypeOK
  <1> QED
    BY <1>1, <1>2, <1>3, <1>4 DEF Next

LEMMA InvAlways == Spec => []Inv
  <1>1. Init => Inv
    BY InvInit
  <1>2. Inv /\ [Next]_vars => Inv'
    BY InvStep
  <1> QED
    BY <1>1, <1>2, PTL DEF Spec

(* Every step that changes neither the samples nor the age certified. *)
LEMMA RecertifiedMeans ==
    ASSUME Typed, Next, Recertified
    PROVE  CertifyAgain \/ UNCHANGED vars
  <1>1. CASE TimePasses
    <2>1. PICK a \in Ages : a > age /\ age' = a
      BY <1>1 DEF TimePasses
    <2>2. a = age
      BY <2>1 DEF Recertified
    <2> QED
      BY <2>1, <2>2, MeasurementAssumption DEF Typed
  <1>2. CASE Load
    BY <1>2 DEF Load, dataset, Recertified, vars
  <1> QED
    BY <1>1, <1>2 DEF Next

(* The verdict of a certification in terms of the state it certifies. *)
LEMMA Certified ==
    ASSUME CertifyAgain, NEW h, h = AgeHours(age)
    PROVE  /\ card'.status = StatusOf(PassRatio(Evaluate(h)), Evaluate(h), Fresh(h), drift,
                                      Classified)
           /\ card'.review = (Decertified(card.status, card'.status) \/ HasSensitive(Classified))
           /\ card'.severity = WorstSeverity(Evaluate(h), Fresh(h), drift)
           /\ card'.metrics = IF card'.status = "uncertified" THEN {}
                              ELSE CertifiedMetrics(Evaluate(h), Classified)
           /\ tickets' = TicketsFor(Evaluate(h), Classified)
  BY CardParts DEF CertifyAgain

LEMMA CertifiedStepRan ==
    ASSUME Inv, CertifyAgain, card'.status = "certified",
           NEW r \in pack, r.severity \in HighSeverities, r.type # "timeliness"
    PROVE  /\ Sampled(r)
           /\ r.type \in {"validity", "referential_integrity"} => r.configured
  <1> DEFINE h == AgeHours(age)
  <1>1. ~Blocking(Evaluate(h), Fresh(h), drift)
    BY Certified, Verdicts
  <1>2. RulePasses(r, h)
    BY <1>1, FailedRuleBlocks
  <1>3. r.type \in RuleTypes
    BY OneFindingPerRule DEF Inv, Typed, Rule
  <1> HIDE DEF h
  <1>4. CASE r.type = "completeness"
    BY <1>2, <1>4 DEF RulePasses, Completeness
  <1>5. CASE r.type = "uniqueness"
    BY <1>2, <1>5 DEF RulePasses, Uniqueness
  <1>6. CASE r.type = "validity"
    BY <1>2, <1>6 DEF RulePasses, Validity
  <1>7. CASE r.type = "referential_integrity"
    BY <1>2, <1>7 DEF RulePasses, Referential
  <1> QED
    BY <1>3, <1>4, <1>5, <1>6, <1>7 DEF RuleTypes

LEMMA BandStep ==
    ASSUME Inv, CertifyAgain
    PROVE  /\ card'.severity \in HighSeverities => card'.status = "uncertified"
           /\ card'.status = "uncertified" /\ card'.severity \notin HighSeverities
                => PassRatio(Evaluate(AgeHours(age))) < ConditionalMinPassRatio
  <1> DEFINE h == AgeHours(age)
  <1>1. h \in Int
    BY AgeHoursGrows DEF Inv, Typed
  <1>2. Checked(Evaluate(h)) /\ Drifted(drift) /\ Fresh(h).severity \in Severities
    BY <1>1, Foldable DEF Inv
  <1>3. card'.severity \in HighSeverities <=> Blocking(Evaluate(h), Fresh(h), drift)
    BY <1>2, BandIsBlocking, Certified
  <1> QED
    BY <1>3, Certified, Verdicts

LEMMA MetricsStep ==
    ASSUME Inv, CertifyAgain, NEW c \in card'.metrics
    PROVE  /\ \A r \in pack : r.column = c => RulePasses(r, AgeHours(age))
           /\ ~ \E p \in Classified : p.column = c /\ p.category \in BarredCategories
  <1> DEFINE h == AgeHours(age)
  <1>1. card'.metrics = {} \/ card'.metrics = CertifiedMetrics(Evaluate(h), Classified)
    BY Certified
  <1>2. /\ c \notin {f.column : f \in Failed(Evaluate(h))}
        /\ c \notin {p.column : p \in {q \in Classified : q.category \in BarredCategories}}
    BY <1>1 DEF CertifiedMetrics
  <1>3. ASSUME NEW r \in pack, r.column = c PROVE RulePasses(r, h)
    <2> SUFFICES ASSUME ~RulePasses(r, h) PROVE FALSE
      OBVIOUS
    <2>1. Finding(r, h) \in Failed(Evaluate(h)) /\ Finding(r, h).column = c
      BY <1>3, FailedIs DEF Finding
    <2> QED
      BY <1>2, <2>1
  <1> QED
    BY <1>2, <1>3

(* The classification of a sampled column. *)
LEMMA SensitiveStep ==
    ASSUME Inv, CertifyAgain, NEW c \in DOMAIN table,
           NameRule(names[c]).category = "sensitive"
    PROVE  card'.review /\ card'.status # "certified"
  <1>1. Shaped(FactsOf(c)) /\ FactsOf(c).rule = NameRule(names[c])
    BY FactsAreShaped DEF Inv
  <1>2. Classify(c, FactsOf(c)).category = "sensitive"
    BY <1>1, NameRuleType, SensitiveName
  <1>3. HasSensitive(Classified)
    BY <1>2 DEF HasSensitive, Classified
  <1> QED
    BY <1>3, Certified, Verdicts

LEMMA DirectStep ==
    ASSUME Inv, CertifyAgain, NEW c \in DOMAIN table, NEW f, f = FactsOf(c),
           f.direct, f.hits > 0, f.hits = f.total,
           f.rule.category \in {NoCategory, "pii_direct"}
    PROVE  c \notin card'.metrics
  <1>1. Shaped(f)
    BY FactsAreShaped DEF Inv
  <1>2. Classify(c, f).category = "pii_direct" /\ Classify(c, f).column = c
    <2>1. Classify(c, f).category = "pii_direct"
      BY <1>1, DirectValues
    <2> QED
      BY <2>1 DEF Classify
  <1>3. \E p \in Classified : p.column = c /\ p.category \in BarredCategories
    BY <1>2 DEF Classified, BarredCategories
  <1> QED
    BY <1>3, MetricsStep

LEMMA TrackedStep ==
    ASSUME Inv, CertifyAgain, card'.status = "conditional"
    PROVE  tickets' # {}
  <1> DEFINE h == AgeHours(age)
             dq == Evaluate(h)
  <1>1. /\ ~Blocking(dq, Fresh(h), drift)
        /\ ~(PassRatio(dq) < ConditionalMinPassRatio)
        /\ \/ ~(PassRatio(dq) >= CertMinPassRatio)
           \/ \E d \in drift : d.severity = "medium"
           \/ HasSensitive(Classified)
    <2>1. card'.status = StatusOf(PassRatio(dq), dq, Fresh(h), drift, Classified)
      BY Certified
    <2>2. card'.status # "uncertified" /\ card'.status # "certified"
      OBVIOUS
    <2> QED
      BY <2>1, <2>2, Verdicts
  <1>2. tickets' = TicketsFor(dq, Classified)
    BY Certified
  <1>3. CASE ~(PassRatio(dq) >= CertMinPassRatio)
    <2>1. IsFiniteSet(dq)
      BY OneFindingPerRule DEF Inv, Typed
    <2>2. 1000000 >= CertMinPassRatio
      BY SMT DEF CertMinPassRatio
    <2>3. PassRatio(dq) # 1000000
      BY <1>3, <2>2, SMT
    <2>4. Failed(dq) # {}
      BY <2>1, <2>3, NothingFailed, SMT
    <2> HIDE DEF dq
    <2> QED
      BY <1>2, <2>4 DEF TicketsFor
  <1>4. CASE \E d \in drift : d.severity = "medium"
    BY <1>2, <1>4 DEF TicketsFor
  <1>5. CASE HasSensitive(Classified)
    BY <1>2, <1>5 DEF TicketsFor, HasSensitive
  <1> QED
    BY <1>1, <1>3, <1>4, <1>5

-----------------------------------------------------------------------------
(* What the engines and the fold promise.                                  *)

(* Types: a scorecard has a verdict, a band of the ladder and metrics of   *)
(* the dataset, whatever the warehouse returned                            *)
(* (certification_service.py:109-166).                                     *)
THEOREM MeasurementTypes == Spec => []TypeOK
  <1>1. Inv => TypeOK
    BY DEF Inv
  <1> QED
    BY <1>1, InvAlways, PTL

(* No partition gets a better verdict by getting older, for any rule pack, *)
(* SLA and age, in spite of the rounding of ages and ratios                *)
(* (freshness_service.py:28-43, scorecard_service.py:88-103).              *)
THEOREM OlderIsNoBetter == Spec => []AgingNeverHeals
  <1>1. Inv => AgingNeverHeals
    BY TypedNeverHeals DEF Inv
  <1> QED
    BY <1>1, InvAlways, PTL

(* A CERTIFIED dataset had every HIGH or CRITICAL check run on a column    *)
(* that was sampled, with an expectation (dq_rule_engine.py:71-213).       *)
THEOREM BlockingChecksRan == Spec => CertifiedChecksRan
  <1> DEFINE Step ==
        card'.status = "certified" =>
           \A r \in pack :
              r.severity \in HighSeverities /\ r.type # "timeliness"
                => /\ Sampled(r)
                   /\ r.type \in {"validity", "referential_integrity"} => r.configured
  <1>1. Inv /\ [Next]_vars => [Recertified => Step]_vars
    <2> SUFFICES ASSUME Inv, Next, Recertified, CertifyAgain PROVE Step
      BY RecertifiedMeans DEF Inv
    <2> QED
      BY CertifiedStepRan
  <1> QED
    BY <1>1, InvAlways, PTL DEF Spec, CertifiedChecksRan

(* The band and the verdict agree, though they are computed apart          *)
(* (scorecard_service.py:47-103).                                          *)
THEOREM BandAgrees == Spec => BandAgreesWithVerdict
  <1> DEFINE Step ==
        /\ card'.severity \in HighSeverities => card'.status = "uncertified"
        /\ card'.status = "uncertified" /\ card'.severity \notin HighSeverities
             => PassRatio(Evaluate(AgeHours(age))) < ConditionalMinPassRatio
  <1>1. Inv /\ [Next]_vars => [Recertified => Step]_vars
    <2> SUFFICES ASSUME Inv, Next, Recertified, CertifyAgain PROVE Step
      BY RecertifiedMeans DEF Inv
    <2> QED
      BY BandStep
  <1> QED
    BY <1>1, InvAlways, PTL DEF Spec, BandAgreesWithVerdict

(* A certified metric passes every check on its column now, and its column *)
(* is classified as nothing a metric may not be built on                   *)
(* (scorecard_service.py:59-71).                                           *)
THEOREM MetricsCurrent == Spec => MetricsAreCurrent
  <1> DEFINE Step ==
        \A c \in card'.metrics :
           /\ \A r \in pack : r.column = c => RulePasses(r, AgeHours(age))
           /\ ~ \E p \in Classified : p.column = c /\ p.category \in BarredCategories
  <1>1. Inv /\ [Next]_vars => [Recertified => Step]_vars
    <2> SUFFICES ASSUME Inv, Next, Recertified, CertifyAgain PROVE Step
      BY RecertifiedMeans DEF Inv
    <2> QED
      BY MetricsStep
  <1> QED
    BY <1>1, InvAlways, PTL DEF Spec, MetricsAreCurrent

(* A name the dictionary calls sensitive is enough for a human review, for *)
(* any values, recognizers and further names (pii_classifier.py:111-217).  *)
THEOREM SensitiveEscalates == Spec => SensitiveNamesEscalate
  <1> DEFINE Step ==
        \A c \in DOMAIN table :
           NameRule(names[c]).category = "sensitive"
             => card'.review /\ card'.status # "certified"
  <1>1. Inv /\ [Next]_vars => [Recertified => Step]_vars
    <2> SUFFICES ASSUME Inv, Next, Recertified, CertifyAgain PROVE Step
      BY RecertifiedMeans DEF Inv
    <2> QED
      BY SensitiveStep
  <1> QED
    BY <1>1, InvAlways, PTL DEF Spec, SensitiveNamesEscalate

(* Values that all are direct identifiers keep a column out of the metrics *)
(* whatever their number: the rounded weight of a full match clears the    *)
(* review bar by itself (pii_classifier.py:134-201).                       *)
THEOREM DirectBarred == Spec => DirectValuesAreBarred
  <1> DEFINE Step ==
        \A c \in DOMAIN table :
           LET f == FactsOf(c)
           IN f.direct /\ f.hits > 0 /\ f.hits = f.total
                  /\ f.rule.category \in {NoCategory, "pii_direct"}
                => c \notin card'.metrics
  <1>1. Inv /\ [Next]_vars => [Recertified => Step]_vars
    <2> SUFFICES ASSUME Inv, Next, Recertified, CertifyAgain PROVE Step
      BY RecertifiedMeans DEF Inv
    <2> QED
      BY DirectStep
  <1> QED
    BY <1>1, InvAlways, PTL DEF Spec, DirectValuesAreBarred

(* A conditional verdict always comes with a ticket: with nothing failed,  *)
(* the pass ratio is exactly one (remediation_service.py:30-95).           *)
THEOREM OpenItemsTracked == Spec => ConditionalIsTracked
  <1> DEFINE Step ==
        card'.status = "conditional" => tickets' # {}
  <1>1. Inv /\ [Next]_vars => [Recertified => Step]_vars
    <2> SUFFICES ASSUME Inv, Next, Recertified, CertifyAgain PROVE Step
      BY RecertifiedMeans DEF Inv
    <2> QED
      BY TrackedStep
  <1> QED
    BY <1>1, InvAlways, PTL DEF Spec, ConditionalIsTracked

=============================================================================
