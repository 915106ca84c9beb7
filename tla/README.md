# Data quality governance: a verification development

TLA+ specifications of the data-quality and certification service in `src/`, model-checked
with TLC on small instances and proved with TLAPS for every instance: every safety property
that a passing run checks is also a theorem. All paths below are relative to the repository;
`domain/` stands for `src/src/data_quality_governance/domain/`, and so for `api/`,
`adapters/` and `config.py`; `scripts/` stands for `src/scripts/`.

The service certifies datasets. A request names a dataset; the service reads the warehouse,
runs a rule pack, compares the live schema with a pinned baseline, classifies columns for
PII, folds everything into a scorecard (`CERTIFIED`, `CONDITIONAL`,
`UNCERTIFIED`), writes an audit record, keeps the verdict in memory so that consumers can
ask for it, and hands a scorecard that needs a human to a review console. Around that sit the
configuration that decides what a process binds and whom it believes, a scripted demo with its
walkthrough, and the tooling that renames a fork.

## Running

```
tlc -workers 2 -config MCCertificationExclusive.cfg MCCertification.tla
tlapm CertificationProofs.tla   # and the other modules of section 5
```

## 1. Inventory

| component | state it keeps | operations | talks to | hard behaviours | correct when |
|---|---|---|---|---|---|
| Certification pipeline (`domain/certification_service.py`, `POST /v1/certify`) | locals of a handler; the process-wide `STORE` | `certify` / `_certify`, `_write_audit` | warehouse, baseline store, audit log, store, review router | synchronous handlers on pool threads interleave at every port call; read-modify-write of the verdict without a lock; a port may raise; the process may die between two steps | no decertification escapes review; nothing is served or handed off unaudited; verdicts do not go back in time |
| Scorecard store and status API (`ScorecardStore`, `GET /v1/certification/{id}`) | `_by_key`, a plain dict | `save`, `prior_status`, `get` | pipeline, HTTP layer | iteration over a dict other threads grow | 404 and 403 are true; the caller's own verdict is always found; a read ends |
| Verdict fold (`domain/scorecard_service.py`, `domain/thresholds.py`) | none | `certify`, `_status`, `_worst_severity`, `_certified_metrics` | pipeline | two expressions for one fact (band, blocking); rounded bars | band, status, review flag and metrics agree with the findings |
| Profile, rule and freshness engines | none | `profile_dataset`, `evaluate`, `age_hours`, `freshness` | pipeline, fold | boundaries, rounding, missing columns and expectations | a certification never rests on a check that could not run |
| Schema drift engine (`domain/drift_service.py`) | loop variables | `diff_schema` | pipeline | the rename loop consumes columns as it goes | each difference is reported once, and ambiguity is never softened |
| PII classifier (`domain/pii_classifier.py`) | none | scoring of names and samples | fold | order of the signals, sums against bars, two notions of null | a sensitive column is never certified past review, direct identifiers are no metric |
| Review routing (`adapters/controls.py`, `adapters/*/review_router.py`, `adapters/_review_payload.py`, `agent/tools.py`, `cli/main.py`) | `outcome` of one hand-off; local outbox; the lazily built container | `route` | console | answer lost after delivery; routing off; no retry; `source_key`; two first requests at once | the caller learns what happened to an escalation, and a routed one can be found |
| Audit adapters | append-only chain with an anchor elsewhere | `record`, `verify`, export | pipeline, demo | refused append; a rewritten record | nothing is published unaudited; a rewrite is named |
| Remediation tickets and lineage | none | projection of findings | pipeline | none | a ticket per open finding |
| Rule packs and loader (`rulepacks.py`, `domain/rulepack_loader.py`) | none (read per request) | `load_rulepacks`, `parse_pack`, `parse_rule` | pipeline, API | a file edited between two requests; empty packs; one bad file of many | an unconfigured dataset is refused |
| Configuration, profiles, container (`config.py`, `envread.py`, `managed_readiness.py`) | environment; settings file; lazily built adapters | `resolve_profile`, `Settings.load`, the preflight, `build_container` | all | unset, emptied and wrong values; the file edited between the readings; a build that raises | what was checked is what runs; a process recovers |
| Identity and posture (`api/app.py`, `ports/identity.py`, `adapters/*/identity.py`) | the posture fixed at import | `get_principal`, `require_service_caller`, the exposure guard | API | two readings of one fact; order of the refusals | nobody is taken for somebody by accident; a refusal names its cure |
| Warehouse, catalog and baseline adapters | external | reads | pipeline | three reads of a moving system | none of its own |
| Demo and walkthrough (`scripts/demo.py`, `demo_server.py`, `walkthrough.py`) | a run under a lock; what the terminal has seen | next, restart, state; the terminal's loop | pipeline, audit trail, outbox | page and terminal at once; restart in one process; a step raising halfway | a claim that is shown holds; a pass is about one run; it ends |
| Fork tooling (`scripts/rename_fork.py`) | the tree, its own constants among it | one pass over the files | none | killed halfway, run again; names spelled alike | every mention gets the name of its role |
| Portability tour | a scratch trail | assertions | container | none | out of scope |
| Evaluation gate | none | offline scoring | fold | none | out of scope |
| Web UI (`src/ui`) | answers in the page | requests | API | answers out of order | provenance describes the answer shown |
| Infrastructure and build scripts | none at run time | none | none | none | out of scope |

`PROJECT.json` lists under `hazards` what is hard to test in this code, each at its line, with
the properties that would catch it going wrong.

## 2. Modules

| module | models | instance |
|---|---|---|
| `Scorecard` | the pure fold of `scorecard_service.py` with `pass_ratio` and the bars of `thresholds.py` | through the modules below |
| `Certification` (extends `Scorecard`) | the pipeline, the store's writes and prior status, audit, hand-off, restarts, the moving warehouse | `MCCertification` |
| `CertificationPromise` | the abstract specification of the pipeline | instantiated in `Certification` |
| `ScorecardStore` | one status read, dict iteration step by step, against saves of other threads | `MCScorecardStore` |
| `Profile` | `profile_service.py`: nulls, ratios and their rounding, inferred types | through the modules below |
| `PiiClassifier` (extends `Scorecard`, `Profile`) | the signals, score, bars and category of `pii_classifier.py` | through `Measurement` |
| `Measurement` (extends `PiiClassifier`) | the rule, freshness and ticket engines with the profile and the classifier, under repeated certification | `MCMeasurement` |
| `SchemaDrift` | `diff_schema`, its loop pass by pass | `MCSchemaDrift` |
| `Settings` | environment reads, settings file, bindings, profile choice, managed preflight, declared authentication | through the modules below |
| `RulePacks` (extends `Settings`) | what the loader makes of a directory | through `Serving` |
| `Serving` (extends `RulePacks`) | a process from its start to its answers | `MCServing` |
| `ReviewDelivery` | the lazy container under threads, the outboxes, the console | `MCReviewDelivery` |
| `AuditTrail` | the hash-chained trail as the adapter and the demo use it | through the modules below |
| `DemoRun` (extends `AuditTrail`, `Settings`) | the eight steps of the arc, and the walkthrough's expectations of each | through `Walkthrough` |
| `Walkthrough` (extends `DemoRun`) | the locked server, the page, the terminal | `MCWalkthrough` |
| `RenameFork` | one rename after the other, with kills | `MCRenameFork` |
| `CertificationProofs`, `ScorecardStoreProofs`, `MeasurementProofs`, `SchemaDriftProofs`, `ServingProofs`, `ReviewDeliveryProofs`, `WalkthroughProofs`, `RenameForkProofs` | lemmas and theorems about the module they are named after | TLAPS |

`Certification` abstracts the engines to their results, which `Measurement` and `SchemaDrift`
compute; both meet in `Scorecard!Certify`, which is the same operator in the two models.
`ScorecardStore` opens up the read side that `Certification` leaves out, `ReviewDelivery` what lies
behind the outcome "routed", and `Serving` what decides whether a request gets that far. `DemoRun`
instantiates `Scorecard` for the verdicts that depend on the history of a process.

### Certification: state and actions

| variable | code |
|---|---|
| `warehouse` | what `warehouse.metadata`, `sample_columns` and `live_schema` would return now, already turned into findings |
| `store` | `ScorecardStore._by_key` of each process; `Null` is a missing key |
| `audit`, `console` | records of the audit log; reviews the console received |
| `routing` | `DATAQUALITY_REVIEW_ROUTING`, fixed at boot |
| `pc`, `req`, `reading`, `card`, `outcome` | the locals of a handler on thread `w`, between two port calls |
| `now`, `restarts` | clock and restart count, both bounded |
| `steady` | a history variable: has the dataset stood still since `as_of` was taken |

| action | code |
|---|---|
| `Begin`, `Refuse` | `certify` of `api/app.py` stamps `as_of`; `_certify` refuses a dataset without a rule pack |
| `ReadMetadata`, `ReadSamples`, `ReadSchema` | the three reads of `_certify`, each followed by its pure engine |
| `Score` | `prior_status` and the fold |
| `WriteAudit` | `_write_audit`, before anything is published |
| `Save` | `ScorecardStore.save` |
| `RouteNotRequired`, `RouteOff`, `RouteSubmitted`, `RouteFailed` | `RecordingReviewRouter.route` and the router under it; a submission that raises may still have arrived |
| `Fail` | an exception of a port or a refused append unwinds the handler; an append that raises may still have landed |
| `Reply` | the response leaves |
| `WarehouseMoves`, `Restart`, `Tick` | the surroundings: other systems, the process, the clock |

`conditional` in the models is `CertificationStatus.CONDITIONAL`, on the wire
`conditionally_certified`.

### ScorecardStore, Measurement, SchemaDrift

`ScorecardStore` keeps the dict as `held` (values) and `order` (insertion order). A reader
looks up its own key (`LookupHit`, `LookupMiss`), opens the iterator (`OpenScan`, remembering
the size), and moves on one entry at a time (`ScanSkips`, `ScanMatches`, `ScanEnds`,
`ScanResized`). A lookup and an assignment are each atomic under the interpreter lock;
the generator expression is not. `before` is a history variable.

`Measurement` keeps the rule pack, the sample, the columns' names, the age of the partition, the
last scorecard and its tickets. `CertifyAgain` runs `_certify` sequentially; `TimePasses` and
`Load` are the warehouse. Ratios are integers in millionths, classifier weights in ten-thousandths
and ages in thousandths of an hour, rounded where the code rounds. The sums of weights the
classifier can reach compare with 0.3 and 0.6 in floating point as they do in the model.

A column name is the sequence of words `_normalise` makes of it, and a synonym of the dictionary
that is written with an underscore a sequence of two: no single word equals it, as in the code.
A recognizer is the set of values it accepts. The two kinds of null are kept apart, since the
profile drops both and the classifier only empty cells.

`SchemaDrift` takes the removed columns in name order (`Pair`, `Leave`), then reports the rest
(`ReportRest`).

### Serving with Settings and RulePacks

A read that can raise is a set in `Settings` and `RulePacks`: empty when it raises, else its one
value. `Serving` keeps the two files an operator may edit (`file`, `dir`), the environment of the process
(`env`), how it was started and how far it is (`entry`, `phase`), what the import decided
(`posture`), where it listens (`host`), and which version of the file the lazy container was
built from (`container`). Its actions are `Start` (the image's `CMD`, `main`, or `uvicorn` on the app),
`Preflight`, `Import`, `Main`, `Serve` for each route (`Shortcut` where no container is
needed, `ThroughContainer` elsewhere), `Sent`, `Stop` and `Edit`. The order of refusals in
`IapResolve` is the order of the statements in `adapters/gcp/identity.py`.

### ReviewDelivery

`cached` is the entry of the `lru_cache`, `slot` the `cached_property` of each container, `outbox` the
memory of each router; `mine` is what a thread holds on its stack. A thread misses and stores in two
steps (`Begin`, `BuildContainer`; `ReadRouter`, `BuildRouter`): the cache keeps the first of two
containers, the property the last of two routers. `CallAlone` is the agent tool and the command line, `Flush` an
operator, `Crash` the platform. `console` opens one case per `source_key`. `reported` and the
field `warm` are history.

### DemoRun and Walkthrough

A run is a record; a step returns the runs it may leave, with facts or, where it raised, without.
`server`, `run` and `faults` are the server, each request one step under its lock; `presses` and
`meddled` the page; the rest are locals of `walkthrough.run`. A post and the read that follows it
are two steps. `Problems` is the table `CHECKS`.

### RenameFork

`tree` gives every file its mentions and every mention the name it carries; `old` is what the
running script read from itself when it started. `EditFile` visits the next file, `RenameDir` moves
the package, `Kill` stops a run between two files or while one is written, `Rerun` repeats it.
A name is a sequence of words, so that one can begin with another, and the rules are tried in the
order of the alternation.

## 3. Runs

| run | instance | shows |
|---|---|---|
| `cert_exclusive` | 2 threads, 2 tenants, 1 dataset, 2 schemas, `now` to 1, 1 restart, exclusive callers | no silent decertification, stamps in order, and the pipeline implements `CertificationPromise` |
| `cert_concurrent` | 2 threads, 1 key, 2 metadata and 2 sample states, 1 restart, overlapping callers | what needs no discipline of the callers: `AuditedBeforePublished`, `HandOffIsAudited`, `JustifiedEscalation`, `SteadyVerdict` |
| `cert_handoff` | 2 threads, a configured and an unconfigured dataset, routing on and off, fairness | `AccountedEscalation`, `EscalationReported` |
| `lost_decertification` (violation) | 2 threads, 1 key, overlapping callers | `NoSilentDecertification` fails: see findings |
| `store_reads` | 1 reader, 4 keys, 4 saves, fairness | `AbsentIsTrue`, `ForbiddenIsTrue`, `OwnIsServed`, `ReadsEnd` |
| `status_read_fails` (violation) | the same | `ReadsNeverFail` fails |
| `measurement` | 1 or 2 rules under test with 0, 8 or 49 others; 9 samples; 4 names; 4 ages; 2 drifts | `AgingNeverHeals`, `CertifiedChecksRan`, `BandAgreesWithVerdict`, `MetricsAreCurrent`, `SensitiveNamesEscalate`, `DirectValuesAreBarred`, `ConditionalIsTracked` |
| `schema_drift` | every pair of schemas over 4 names, 2 types | the loop finds the documented renames and reports each difference once |
| `serving` | 17 environments around the three profiles, 8 settings files, 3 rule-pack directories, a request of every route with every credential and peer, 1 edit, fairness | `IdentityIsEarned`, `RefusalNamesItsCure`, `CheckedRunsNoPlaceholder`, `HealthReturns` |
| `delivery` | 2 threads, 3 escalations (two share a `source_key`), 3 calls, 1 crash, every profile | `RoutedIsHeld`, `WarmCallsShareTheRouter` |
| `walkthrough` | 2 runs, 1 raising request, 2 presses at the page, jumps to 1, 4 and 8, attended or not, fairness | `ClaimsHold`, `PassIsOneRun`, `Concludes` |
| `rename_fork` | this repository's names, 4 requests, 2 renames, 2 kills | `NamesAreSeparated`, `RerunFinishes`, `RenamesAgain` |

Every passing property has a mutant in `PROJECT.json`: a plausible bug of a mapped definition
with which TLC finds the property violated in the same instance.

### Bounds and why they are enough

- *Two threads.* Every race here is between a handler's read of the store and its save, and
  one other handler's save; the proofs cover any number.
- *One column, one rule* in `MCCertification`: the fold asks only whether a finding of some
  severity exists. Rules, columns and ratios in number are `Measurement`'s subject.
- *`MaxNow = 1`* gives two stamps, an older and a newer one. *`MaxRestarts = 1`* gives a life
  before and one after. Where a run has neither, no property of it depends on them.
- *Symmetry* permutes threads of one process and tenants; no liveness run uses it.
- *Four keys and four saves* fill the dict in every order, with updates in between.
- *0, 8 and 49 background rules* put one failure below both bars (0 of 1), on 0.90 (9 of 10) and
  on 0.98 (49 of 50). *Ages* 0, 3601, 3602 and 7203 s against a 1 h SLA are fresh,
  late by less than the rounding, late, and late past twice the SLA.
- *Samples* hold no row, nulls of both kinds, mixed values, e-mail addresses only, addresses in
  three of five values, ten different addresses and fifty equal numbers: the shape signals start
  at ten values and each of them fires. *Names* match a direct, a quasi and a sensitive
  row of the dictionary, and none (two words that only an unmatchable synonym has); the sensitive row has the smallest weight of the code's sensitive rows.
- *Four names, two types* let two removed and two added columns share a type, the smallest case
  in which the heuristic has to hold back.

- *One edit* (`MaxEdits`) separates any two of the readings of one file, so each pair of
  decisions can rest on different versions; a process may be stopped and started any number of times.
  The *files* are the shipped one, a missing and a malformed one, one whose managed
  placeholders are replaced, one that verifies under `local`, one whose managed identity is the
  personas, one with an adapter that declares nothing or cannot be imported, and one that binds
  too few ports.
- *Three calls* (`MaxCalls`) are two that build at the same time and one that is warm; *one crash*
  (`MaxCrashes`) gives an epoch before and one after.
- *Two runs* (`MaxRuns`) are one restart, by the terminal or by the page; the second run meets the
  verdicts of the first, a third would meet the same. *One fault* (`MaxFaults`) hits every step in
  turn, and the retry of a step that raised; *two presses* (`MaxPresses`) can skip a step and replace a run in
  one walkthrough. *Jumps* go forwards, backwards and past the end.
- *Two renames* (`MaxRenames`) and *two kills* (`MaxKills`): a rename with a rerun that is killed
  again, and a second one on what the first left. The six files stand for what the sorted walk
  meets before, at and after the script itself.

### Fairness

`FairSpec` of `Certification` is weak fairness of `Proceed(w)`: a thread of the pool is
scheduled again and again, and every port call returns or raises. It contains no fairness of
arrivals, failures, restarts or the warehouse. `FairSpec` of `ScorecardStore` is weak fairness
of `Read(r)`. `ReadsEnd` and `EscalationReported` are the only properties that use it.
`FairSpec` of `Serving` is strong
fairness of one request, the image's health check on loopback, which arrives every 30 s but only
while the process serves and no other answer is being sent, and weak fairness of `Sent`; nothing makes an
operator edit, start or stop. `HealthReturns` uses it. `FairSpec` of `Walkthrough` is weak fairness
of the terminal except at the prompt of an attended run, where it waits for a person: a server
that does not answer raises in the terminal, so no fairness of the server is needed. `Concludes`
uses it.

`SchemaDrift` is a computation that ends, a walkthrough is over after its verdict, a tree may stay as
it is, and the bounded calls of `ReviewDelivery` run out, so their runs do not look for deadlock; all
others do.

## 4. What the models disagree with

1. **A decertification can pass unseen** (`lost_decertification`). `prior_status` is read at
   `certification_service.py:149` and the verdict saved at line 165, with no lock between, on a
   route served by a thread pool. Of two overlapping certifications of one key, the one folded
   against no prior overwrites the other's `CERTIFIED` without `requires_human_review`.
   Under callers that never overlap on a key (`Exclusive`) this cannot happen, which is proved.
2. **A status read can end in 500** (`status_read_fails`). `ScorecardStore.get` iterates the
   shared dict; a first save of a key by another thread raises `RuntimeError`.

The rest have no run: the disagreement is visible in one definition. `PROJECT.json` quotes the lines.

3. HIGH and CRITICAL results are not always reviewed, against `SPEC.md:24-26`.
4. A timeliness rule on an absent column passes and its column becomes a certified metric, against
   `dq_rule_engine.py:8-9`.
5. A strong match is not always `PII_DIRECT`, against `models.py:61`: a name that hints at another
   category wins, and a match of 60 to 66 percent scores below the review bar.
6. Synonyms with an underscore never match a name; the age is not a whole number of hours;
   `source_key` has no tenant; a pack without rules certifies.
7. A fork whose command is not spelled like its package cannot rename the command a second time
   (`RenamesAgain` needs its premise).
8. The runbook's "never bind every interface while refusing every caller" is true of `main()` only;
   its "refuses to boot" is not true of `uvicorn` on the app; nothing flushes the offline outbox.
9. Without `google-auth` a missing assertion still gets the bare 401 (`RefusalNamesItsCure` is stated for
   a process that has it).
10. A walkthrough can pass over two runs when the page restarts the demo in between (`PassIsOneRun`
    excludes that press and fails without the exclusion).
11. The portability tour calls three of the offline ports and reads no settings file; the evaluation port and
    the evaluation script name different bundles.

## 5. Proofs

Every invariant and action property of the passing runs is a theorem `Spec => ...` of the module the
run checks, for every value of the constants that its `ASSUME` allows. The bounds `MaxNow`,
`MaxRestarts`, `MaxEdits`, `MaxRuns` and so on are any numbers: nothing bounds processes, threads,
tenants, datasets, findings, rules, rows, columns, saves, calls, restarts, edits, presses or kills.
What the models fix is fixed in the theorems too: the eight steps and three datasets of the demo,
and the six files a rename visits, which stand for what comes before, at and after the script.

### Assumptions

The named `ASSUME`s type the constants, keep `Null`, `NoStatus` and the answers apart from the
values they stand beside, and make the column names of a schema and the rows of a sample finite.
Those that say more:

- `Exclusive` (callers never overlap on a key) is a hypothesis of the theorems about serial callers,
  and only of those.
- `MeasurementAssumption`: ages are not negative (`age_hours` clamps them), rule packs are finite and
  their rule ids unique (which the loader does not enforce). The SLA is any integer.
- `ClassifierAssumption`: a row of the name dictionary that says "sensitive" weighs at least the
  review bar, as each of the code's does.
- `ServingAssumption`: a settings text holds one table at most, and among the requests are one with
  a seeded persona and one with a good assertion, since `RefusalNamesItsCure` speaks of what another
  request would get.
- `WalkthroughAssumption`: the server may start one run at least.
- `RenameAssumption`: upstream's command is spelled like its package, and none of its other names
  begins with another (`Tellable`), which the constants of `rename_fork.py:42-46` satisfy.

### The pipeline: `CertificationProofs`

It first proves the fold: a certified verdict never asks for review (`CertifiedNeverEscalates`) and
every loss of `CERTIFIED` does (`LossIsFlagged`). Then three invariants, each on the one before:

- `Typed` is `TypeOK` and `Held`: a handler that has come to a step holds what the step reads.
  `TypeOK` alone is not inductive, since `Score` folds a reading that could be `Null`. It gives
  `TypeCorrect`.
- `Trail` is `Recorded`, `AuditedBeforePublished` and `HandOffIsAudited`. The last two are not
  inductive without `Recorded`: a handler at "save" or "route" has its record in the log. It gives
  `ServedIsAudited` and `HandOffAudited`, for overlapping callers too.
- `Serialised` is `Serial` (no two handlers on one key), `Flagged` (a folded verdict that would take
  `CERTIFIED` away from what the store holds *now* asks for review), `Stamped` and `Dated` (no stamp
  is ahead of the clock, and a request's stamp is not behind its key's entry). `Flagged` is what the
  prior status read two calls earlier is worth; it survives the other handlers' saves only by
  `Serial`. It gives `NoLossUnflagged` and `StampsInOrder`.

`VerdictIsSteady` needs no `Exclusive`: only `Score` folds, and `Right` says that a reading taken
while the dataset did not move is the dataset's. `Told` (no scorecard carried on is certified and
asks for review, and `AccountedEscalation`) gives `EscalationsAccounted`; `EscalationsJustified`
follows from `Trail`, since a prior `CERTIFIED` came from the store and the store's verdicts are on
record.

`PipelineKeepsPromise` is the refinement: under `Exclusive` every step is a step of
`CertificationPromise` or a stutter. Serial callers are needed where a hand-off takes its item off
what is owed: two handlers at the hand-off owe different items because their keys differ.

### The engines: `MeasurementProofs` and `SchemaDriftProofs`

The band of a scorecard is a severity and no open item is worse (`WorstSeverityIsWorst`); it is HIGH
or CRITICAL exactly when the findings block (`BandIsBlocking`). The four severities are finite, so
the findings need not be.

The states of `Measurement` need little (`Typed` and `TypeOK`); the arithmetic is the work. Ratios,
ages and the pattern weight are rounded quotients, and the lemmas say what rounding keeps: a
quotient grows with its numerator (`QuotientGrows`), so an older partition never has a smaller
rounded age, a timeliness rule it fails it fails for good, and its rounded pass ratio never rises
(`OlderIsNoBetter`). With nothing failed the ratio is exactly one, so that a verdict held back by
its ratio has a failure, which makes the ticket (`OpenItemsTracked`). A full match rounds to a
weight above the review bar for any number of values (`DirectBarred`), and a name row above the bar
decides alone because no signal is negative (`SensitiveEscalates`). `BlockingChecksRan`,
`BandAgrees` and `MetricsCurrent` follow from what one certification computes.

`SchemaDriftProofs` shows that consuming columns never matters (`PassDecides`): the loop pairs only
the sole removed and the sole added column of a type, and what it consumed can compete with nobody
to come. `Found` then names every finding of every stage, and gives `LoopIsExact`, `AmbiguityIsHigh`
and `DifferencesAreReportedOnce`.

### The reads: `ScorecardStoreProofs`

Four safety properties from one invariant: the insertion order lists the held keys and no others
(`Listed`), nothing is forgotten (`Kept`), whoever scans had no entry of its own (`MissedFirst`),
and no passed entry of a scan was foreign (`PassedNone`). The last survives a save since a save only
appends, and a scan that goes on has seen the size it began with.

### The process: `ServingProofs`

What a process believes was fixed by several readings of two files that may be edited in between.
That an environment and one version of a file make one settings record at most (`LoadOnce`) is what
makes two readings of one version agree. The invariant ties each decision to the reading it came
from: the posture is what the import made of its reading (`PostureInv`), what the preflight passed
passes it (`CheckedInv`), the kept container is of one version, and an answer came either through
that container under that posture or from in front of it, where no end user is named (`AnswerInv`).
`EarnedIdentity`, `NamedCure` and `NoPlaceholderRuns` are consequences of it, adapter by adapter; no
step of the process has to be looked at again.

### The hand-off: `ReviewDeliveryProofs`

It turns on `Settled`: a cached container that has its router, while nobody is building one for that
container, keeps it through every step but a restart, because a late builder can only write to a
container it holds. `WarmWork` says that a call that began warm is on its way through that pair,
which is `WarmCallsShare`. `Held` adds the reports: what a warm call reported as routed in this life
is at the console or in the cached router's outbox, which is `RoutedEscalationsAreHeld`.

### Demo and fork: `WalkthroughProofs` and `RenameForkProofs`

`ShownAsClaimed` says that the walkthrough raises no false alarm. Its invariant follows a run
through the arc: the trail is hash-chained up to the rewritten record (`Chained`, `Trailed`), the
outbox holds what was routed (`Queued`), the verdicts are those of the process's history
(`Follows`), and so the step that is shown meets its expectations (`Sound`). A step that raises half
way leaves a run that still shows the step before it, and is performed again on what it left
(`Hosted`). `PassNamesOneRun` adds what the terminal has seen: what it checked and what it read are
of the run that the server holds unless the page replaced it (`Watched`, `SameRun`).

`RenameForkProofs` turns on when the script came to itself. `RuleOfItsRole` is the order of the
rules: a mention of an old name meets no rule before the right one, the command's narrow shapes
before the package's. `NoRule` is why a rerun does not hurt what a killed run did. `FirstRename`
says that a rename that was only ever killed before the script's own constants still knows the tree
by upstream's names, and finds each file ahead either untouched or done; `SecondRename` that the
constants the first rename wrote are the names of the tree it left. They give `RolesKeptApart`,
`KilledRunsFinish` and `ForksRename`.

### What the attempts found

- `CheckedRunsNoPlaceholder` had been stated for every profile. The preflight looks at managed
  profiles only, and so does the property now.
- Several definitions were `CASE`s whose arms overlap, which TLC resolves in order and the logic
  does not; they are `IF`s now, in the order of the code's branches. A rename rule was found by
  filtering a list of them, and is an `IF` for the same reason.
- `SensitiveNamesEscalate` is true by the weights of the dictionary, not by the classifier: a
  sensitive row below the review bar would be certified. It is an assumption now, with its reason.
- `PassIsOneRun` needs a server that may start a run, which had not been said.

### Only model-checked

Liveness (`EscalationReported`, `ReadsEnd`, `HealthReturns`, `Concludes`) is out of the prover's
reach. Nothing is proved about what regular expressions, the kit's signature and claims checks or
the hash function do: they are constants or external definitions here.

## 6. What is abstracted or left out

- The audit log and the console outlive a process, as the managed deployments have it. The local
  profile keeps its audit log and outbox in memory by default; there they end with the process.
- `Exclusive` is a promise of the callers. No code enforces it.
- The store's dict assignment and lookup are atomic; `Certification` does not model status reads.
- Binding the review router on first use is assumed to succeed; if it did not, the request would
  end in 500 after the verdict was saved.
- Catalog reads, the narrative, citations and the tracer feed no decision.
- The classifier's adjudicator is left out: no caller in `src/` passes a verdict of one.
- Freshness depends on `as_of`; in `Certification` it is part of the metadata another system
  changes, and ageing is `Measurement`'s `TimePasses`.
- A pattern, allowed list or reference list is the set of values it accepts. Rule ids are taken
  to be unique in a pack, which the loader does not enforce.
- The route, the agent tool and the command line run the same steps; each process has a store
  of its own.
- `Serving` takes one request at a time: its state after the container is built changes by no
  request. The kit's parts (signature check, claims policy, loopback guard, middleware, hash
  chain, outbox persistence, masking) are modelled from how the code calls them and marked
  external in the map; CORS, security headers and logging decide nothing that a property is about.
- `RefusalNamesItsCure` assumes `google-auth` is installed, `CheckedRunsNoPlaceholder` that the file
  stays as it was between preflight and first request, and `IdentityIsEarned` that import and
  container read the same file, for its first half: each fails without, and that is the code's
  behaviour.
- `RoutedIsHeld` excludes, offline, what memory cannot hold: restarts, the tool and the command
  line, and calls that began before the first ones had built the router.
- In `DemoRun` a text is the set of identifiers in it, and the seeded warehouse is its verdicts.
- A dry run of `rename_fork.py` writes nothing and is left out; the binary and skipped
  directories are no files of the model.
- Not modelled: infrastructure, build scripts, the portability tour, the evaluation gate and the
  presentation in the UI (no run-time state, or no decision). Of the UI the order of overlapping
  answers is a hazard and could be a module.

## 7. Plan

Done, in this order: `Scorecard`, `Certification`, `CertificationPromise`, `ScorecardStore`,
`Measurement` with `Profile` and `PiiClassifier`, `SchemaDrift`; then `Settings`, `RulePacks` and
`Serving`, `ReviewDelivery`, `AuditTrail`, `DemoRun` and `Walkthrough`, `RenameFork`.

Next modules: an unpinned key in the runs of `Certification`; the UI's answer provenance.

Next proofs: that the findings `SchemaDrift` ends with and the scorecards `Measurement` folds lie in
what `Certification` assumes of a reading, so that its theorems speak of the engines' own results.
