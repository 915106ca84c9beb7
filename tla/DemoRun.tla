------------------------------ MODULE DemoRun ------------------------------
(***************************************************************************)
(* One run of the scripted demo over the offline services (scripts/demo.py)*)
(* and the expectations that the walkthrough has of each step              *)
(* (scripts/walkthrough.py).                                               *)
(*                                                                         *)
(* A run is a record. A step returns a set of outcomes, each the run that  *)
(* it leaves and the facts it produced: no facts when it raised halfway,   *)
(* and then what it had done by then stays done.                           *)
(***************************************************************************)
EXTENDS AuditTrail, Settings

SC == INSTANCE Scorecard

STEPS == <<"opened", "routine", "escalation", "redaction", "review_queue", "audit", "tamper",
           "portability">>
StepKeys == {STEPS[i] : i \in DOMAIN STEPS}

CertifiedDataset == "customer_master"
ReviewDataset == "marketing_events"
UncertifiedDataset == "transactions_daily"
DemoDatasets == {CertifiedDataset, ReviewDataset, UncertifiedDataset}

\* The planted identifier, and the masking control: a text is the set of identifiers in it.
PlantedNric == "S1234567D"
Redact(text) == text \ {PlantedNric}

\* The seeded warehouse: what the engines make of each dataset before its history counts.
Fixture ==
    [d \in DemoDatasets |->
        [status |-> CASE d = CertifiedDataset -> "certified"
                      [] d = ReviewDataset -> "conditional"
                      [] OTHER -> "uncertified",
         sensitive |-> d = ReviewDataset,
         severity |-> CASE d = CertifiedDataset -> "low"
                        [] d = ReviewDataset -> "medium"
                        [] OTHER -> "high"]]

\* Certifying one: "prior" is the store of the process, which outlives a run.
Card(d, prior) ==
    [status |-> Fixture[d].status,
     review |-> SC!Decertified(prior[d], Fixture[d].status) \/ Fixture[d].sensitive]

AuditEvent(d, card) ==
    [subject |-> d, decision |-> IF card.review THEN "escalated" ELSE "allowed",
     severity |-> Fixture[d].severity, summary |-> Redact({PlantedNric})]
-----------------------------------------------------------------------------
Raised(run) == [run |-> run, facts |-> {}]
Produced(run, facts) == [run |-> run, facts |-> {facts}]

If(condition) == IF condition THEN 1 ELSE 0

\* certify writes the audit record last, so that a failure leaves nothing behind; then the
\* counters, and an escalation is queued.
CertifyPanels(run, d) ==
    LET card == Card(d, run.prior)
    IN {Raised(run)} \cup
       {Produced([run EXCEPT !.trail = t,
                             !.prior[d] = card.status,
                             !.datasets = @ + 1,
                             !.certified = @ + If(card.status = "certified"),
                             !.escalated = @ + If(card.review),
                             !.outbox = IF card.review THEN Append(@, AuditEvent(d, card).summary)
                                        ELSE @,
                             !.routed = @ + If(card.review)],
                 [status |-> card.status, review |-> card.review, review_ref |-> card.review]) :
            t \in Record(run.trail, AuditEvent(d, card))}

StepOpened(run) ==
    {Raised(run), Produced(run, [profile |-> LocalProfile, sdk_modules |-> {},
                                 profiles |-> KnownProfiles])}

\* The masking control is shown after the dataset was certified; the trail is read for it.
StepRedaction(run) ==
    UNION {IF o.facts = {} THEN {o}
           ELSE {Raised(o.run)} \cup
                {Produced(o.run,
                    [status |-> f.status,
                     leaked |-> PlantedNric \in Redact({PlantedNric})
                                    \cup o.run.trail.rows[Len(o.run.trail.rows)].event.summary]) :
                    f \in o.facts} : o \in CertifyPanels(run, UncertifiedDataset)}

StepReviewQueue(run) ==
    {Produced(run, [pending |-> Len(run.outbox),
                    wire_leak |-> \E i \in DOMAIN run.outbox : PlantedNric \in run.outbox[i]])}

StepAudit(run) ==
    LET report == VerifyChain(run.trail)
        after == [run EXCEPT !.chain_ok = report.ok]
        reloaded == ImportInto(NewTrail(FALSE), Export(run.trail))
    IN {Raised(run), Raised(after)} \cup
       {Produced(after, [chain_ok |-> report.ok, entries |-> report.entries,
                         round_trip_ok |-> VerifyChain(t).ok,
                         anchored |-> run.trail.anchored /\ run.trail.anchor # {}]) :
            t \in reloaded}

\* The rewrite is committed before the chain is verified again.
StepTamper(run) ==
    LET target == Interior(run.trail)
        after == [run EXCEPT !.trail = Rewrite(@, target, "allowed", "low")]
        report == VerifyChain(after.trail)
    IN IF Len(run.trail.rows) < 3 THEN {Raised(run)}
       ELSE {Raised(run), Raised(after),
             Produced([after EXCEPT !.chain_ok = report.ok],
                      [chain_ok |-> report.ok,
                       detected |-> ~report.ok /\ report.first_bad = target])}

\* A call of every port on the exit profile, and which of them may complete.
ExitCalls == Ports
ExitAbsent == {"tracer"}

StepPortability(run) ==
    LET refusing == {port \in ExitCalls : Refuses(DefaultBindings[port]["onprem"])}
    IN {Produced(run, [refused |-> refusing \ ExitAbsent,
                       absent |-> (ExitCalls \ refusing) \cap ExitAbsent])}

Handler(key, run) ==
    CASE key = "opened" -> StepOpened(run)
      [] key = "routine" -> CertifyPanels(run, CertifiedDataset)
      [] key = "escalation" -> CertifyPanels(run, ReviewDataset)
      [] key = "redaction" -> StepRedaction(run)
      [] key = "review_queue" -> StepReviewQueue(run)
      [] key = "audit" -> StepAudit(run)
      [] key = "tamper" -> StepTamper(run)
      [] OTHER -> StepPortability(run)

\* A step that raised has no result: the next request performs it again.
Perform(run, key) ==
    {[raised |-> o.facts = {},
      run |-> IF o.facts = {} THEN o.run
              ELSE [o.run EXCEPT !.results = Append(@, [key |-> key, facts |-> o.facts])]] :
        o \in Handler(key, run)}

Finished(run) == Len(run.results) >= Len(STEPS)

Advance(run) ==
    IF Finished(run) THEN {[run |-> run, raised |-> FALSE]}
    ELSE Perform(run, STEPS[Len(run.results) + 1])

\* Mutant of FreshRun: every run works in one directory.
FreshRunSameDirectory(id, run) ==
    [id |-> id, results |-> <<>>,
     trail |-> IF run = {} THEN NewTrail(TRUE) ELSE (CHOOSE r \in run : TRUE).trail,
     outbox |-> <<>>, prior |-> [d \in DemoDatasets |-> SC!NoStatus],
     datasets |-> 0, certified |-> 0, escalated |-> 0, routed |-> 0, chain_ok |-> TRUE]

\* A new run has a directory, a container and counters of its own; the certification store is
\* the process's, so the verdicts of an earlier run are its history.
FreshRun(id, run) ==
    [id |-> id, results |-> <<>>, trail |-> NewTrail(TRUE), outbox |-> <<>>,
     prior |-> IF run = {} THEN [d \in DemoDatasets |-> SC!NoStatus]
               ELSE (CHOOSE r \in run : TRUE).prior,
     datasets |-> 0, certified |-> 0, escalated |-> 0, routed |-> 0, chain_ok |-> TRUE]

\* Constructing it performs the first step. Before that there is no run.
NewRun(id, run) == Perform(FreshRun(id, run), STEPS[1])

\* What GET /state tells of a run.
Snapshot(run) ==
    LET current == run.results[Len(run.results)]
    IN [run |-> run.id, step |-> current.key, facts |-> current.facts,
        number |-> Len(run.results), done |-> Finished(run),
        escalated |-> run.escalated, routed |-> run.routed]
-----------------------------------------------------------------------------
\* The expectations of the walkthrough: the problems a snapshot shows.

Problem(condition, what) == IF condition THEN {what} ELSE {}

CheckOpened(s, f) ==
    Problem(f.profile # LocalProfile, "profile") \cup Problem(f.sdk_modules # {}, "sdk")
        \cup Problem(Cardinality(f.profiles) < 3, "profiles")

CheckRoutine(s, f) ==
    Problem(f.review, "routine-escalated") \cup Problem(f.review_ref, "review-manufactured")
        \cup Problem(s.escalated # 0, "escalation-count")

CheckEscalation(s, f) ==
    Problem(~f.review, "not-escalated") \cup Problem(~f.review_ref, "not-routed")
        \cup Problem(s.routed # s.escalated, "counts-disagree")

CheckRedaction(s, f) ==
    Problem(f.leaked, "leaked") \cup Problem(f.status # "uncertified", "not-uncertified")

CheckReviewQueue(s, f) ==
    Problem(f.wire_leak, "wire") \cup Problem(f.pending # s.routed, "queue")

CheckAudit(s, f) ==
    Problem(~f.chain_ok, "chain") \cup Problem(~f.anchored, "anchor")
        \cup Problem(~f.round_trip_ok, "round-trip") \cup Problem(f.entries < 3, "entries")

CheckTamper(s, f) ==
    Problem(f.chain_ok, "rewrite-verified") \cup Problem(~f.detected, "record-not-named")

CheckPortability(s, f) == Problem(f.refused \cup f.absent # ExitCalls, "seams")

CHECKS(s, f) ==
    CASE s.step = "opened" -> CheckOpened(s, f)
      [] s.step = "routine" -> CheckRoutine(s, f)
      [] s.step = "escalation" -> CheckEscalation(s, f)
      [] s.step = "redaction" -> CheckRedaction(s, f)
      [] s.step = "review_queue" -> CheckReviewQueue(s, f)
      [] s.step = "audit" -> CheckAudit(s, f)
      [] s.step = "tamper" -> CheckTamper(s, f)
      [] OTHER -> CheckPortability(s, f)

Problems(s) == UNION {CHECKS(s, f) : f \in s.facts}
=============================================================================
