--------------------------- MODULE Certification ---------------------------
(***************************************************************************)
(* The certification pipeline: CertificationService._certify, the caller   *)
(* that hands its scorecard to human review (the POST /v1/certify route,   *)
(* the agent tool, the CLI), and the in-memory ScorecardStore that is the  *)
(* only memory of what was certified before.                               *)
(*                                                                         *)
(* The route is a synchronous handler, so requests of one process run on   *)
(* the threads of a pool and interleave at every port call. A Worker is    *)
(* such a thread; a Process is one server instance with a STORE of its own *)
(* that a restart empties. The audit log and the review console outlive    *)
(* the process; the warehouse is another system that moves underneath.     *)
(*                                                                         *)
(* What a read of the warehouse yields is abstracted to what the engines   *)
(* make of it (the engines have modules of their own):                     *)
(*   metadata  the freshness result and the findings of timeliness rules,  *)
(*   samples   the findings of the other rules and the PII categories,     *)
(*   schema    the drift of the live schema against the pinned baseline.   *)
(***************************************************************************)
EXTENDS Scorecard

CONSTANTS
    Dataset, Tenant, Process, Worker,
    ProcessOf,        \* [Worker -> Process]: the process a thread belongs to
    Packs,            \* the datasets a rule pack is configured for
    Pinned,           \* the <<tenant, dataset>> keys with a pinned baseline schema
    RuleId, Column,   \* names findings may carry
    MetadataStates, SampleStates, SchemaStates,
    RoutingModes,     \* the values DATAQUALITY_REVIEW_ROUTING may bind: subset of BOOLEAN
    Exclusive,        \* TRUE: callers never have two certifications of a key in flight
    MaxNow,           \* bound: as_of stamps handed out
    MaxRestarts,      \* bound: process restarts
    Null

Key == Tenant \X Dataset

Finding == [rule : RuleId, column : Column, passed : BOOLEAN, severity : Severities]
Freshness == [breached : BOOLEAN, severity : Severities]
PiiFinding == [column : Column, category : Categories]
DriftFinding == [kind : DriftKinds, column : Column, severity : Severities]

MetadataResult == [fresh : Freshness, dq : SUBSET Finding]
SampleResult == [dq : SUBSET Finding, pii : SUBSET PiiFinding]

WarehouseState ==
    [metadata : MetadataStates, samples : SampleStates, schema : SchemaStates]

Request == [tenant : Tenant, dataset : Dataset, asOf : 0 .. MaxNow]
Scored == [status : Statuses, review : BOOLEAN, severity : Severities,
           metrics : SUBSET Column]
Entry == [status : Statuses, metrics : SUBSET Column, asOf : 0 .. MaxNow]
AuditRecord ==
    [dataset : Dataset, status : Statuses, review : BOOLEAN, severity : Severities]
Review == [subject : Dataset, status : Statuses, tenant : Tenant, approvals : {1, 2}]

Routings == {"not_required", "off", "failed", "routed"}
PCs == {"idle", "metadata", "samples", "schema", "score", "audit", "save", "route",
        "reply", "error"}

ASSUME ConstantsAssumption ==
    /\ ProcessOf \in [Worker -> Process]
    /\ Packs \subseteq Dataset
    /\ Pinned \subseteq Key
    /\ MetadataStates \subseteq MetadataResult
    /\ SampleStates \subseteq SampleResult
    /\ SchemaStates \subseteq SUBSET DriftFinding
    /\ RoutingModes \subseteq BOOLEAN
    /\ Exclusive \in BOOLEAN
    /\ MaxNow \in Nat
    /\ MaxRestarts \in Nat

ASSUME NullAssumption ==
    /\ Null \notin Entry
    /\ Null \notin Request
    /\ Null \notin Scored

VARIABLES
    warehouse,  \* [Dataset -> WarehouseState], another system's state
    now,        \* the clock as_of is read from
    routing,    \* whether a review router is bound (fixed at boot)
    store,      \* [Process -> [Key -> Entry or Null]], ScorecardStore._by_key
    audit,      \* the records of the WORM log
    console,    \* the reviews that reached the console
    pc,         \* where each worker stands in the handler
    req,        \* the request it serves, with its as_of
    reading,    \* what it has read of the warehouse so far
    card,       \* the folded scorecard
    outcome,    \* RecordingReviewRouter.outcome
    restarts,   \* bound counter
    steady      \* history: the dataset a request is reading has not moved since as_of

vars == <<warehouse, now, routing, store, audit, console, pc, req, reading, card,
          outcome, restarts, steady>>

locals == <<reading, card, outcome>>

NotRead == [metadata |-> Null, samples |-> Null, drift |-> {}]

KeyOf(r) == <<r.tenant, r.dataset>>

Goto(w, label) == pc' = [pc EXCEPT ![w] = label]

-----------------------------------------------------------------------------

Init ==
    /\ warehouse \in [Dataset -> WarehouseState]
    /\ now = 0
    /\ routing \in RoutingModes
    /\ store = [p \in Process |-> [k \in Key |-> Null]]
    /\ audit = {}
    /\ console = {}
    /\ pc = [w \in Worker |-> "idle"]
    /\ req = [w \in Worker |-> Null]
    /\ reading = [w \in Worker |-> NotRead]
    /\ card = [w \in Worker |-> Null]
    /\ outcome = [w \in Worker |-> "not_required"]
    /\ restarts = 0
    /\ steady = [w \in Worker |-> TRUE]

InFlight(k) == \E w \in Worker : req[w] # Null /\ KeyOf(req[w]) = k

\* Mutant of Begin: nothing keeps two requests for a key apart.
BeginAnyway(w, t, d) ==
    /\ pc[w] = "idle"
    /\ d \in Packs
    /\ req' = [req EXCEPT ![w] = [tenant |-> t, dataset |-> d, asOf |-> now]]
    /\ Goto(w, "metadata")
    /\ UNCHANGED <<warehouse, now, routing, store, audit, console, locals, restarts, steady>>

(* A request is accepted: the handler stamps as_of. *)
Begin(w, t, d) ==
    /\ pc[w] = "idle"
    /\ d \in Packs
    /\ Exclusive => ~InFlight(<<t, d>>)
    /\ req' = [req EXCEPT ![w] = [tenant |-> t, dataset |-> d, asOf |-> now]]
    /\ Goto(w, "metadata")
    /\ UNCHANGED <<warehouse, now, routing, store, audit, console, locals, restarts, steady>>

(* A dataset without a rule pack is refused before anything is read or     *)
(* written: an unconfigured dataset is not a passing one.                  *)
Refuse(w, d) ==
    /\ pc[w] = "idle"
    /\ d \notin Packs
    /\ Goto(w, "error")
    /\ UNCHANGED <<warehouse, now, routing, store, audit, console, req, locals, restarts,
                   steady>>

(* warehouse.metadata *)
ReadMetadata(w) ==
    /\ pc[w] = "metadata"
    /\ reading' = [reading EXCEPT ![w] =
                      [metadata |-> warehouse[req[w].dataset].metadata,
                       samples |-> Null, drift |-> {}]]
    /\ Goto(w, "samples")
    /\ UNCHANGED <<warehouse, now, routing, store, audit, console, req, card, outcome,
                   restarts, steady>>

(* warehouse.sample_columns *)
ReadSamples(w) ==
    /\ pc[w] = "samples"
    /\ reading' = [reading EXCEPT ![w] =
                      [metadata |-> @.metadata,
                       samples |-> warehouse[req[w].dataset].samples, drift |-> {}]]
    /\ Goto(w, "schema")
    /\ UNCHANGED <<warehouse, now, routing, store, audit, console, req, card, outcome,
                   restarts, steady>>

(* What diff_schema finds: nothing at all when no baseline is pinned. *)
DriftOf(k, schema) == IF k \in Pinned THEN schema ELSE {}

(* baseline_store.get_baseline, warehouse.live_schema and diff_schema *)
ReadSchema(w) ==
    /\ pc[w] = "schema"
    /\ reading' = [reading EXCEPT ![w] =
                      [metadata |-> @.metadata, samples |-> @.samples,
                       drift |-> DriftOf(KeyOf(req[w]), warehouse[req[w].dataset].schema)]]
    /\ Goto(w, "score")
    /\ UNCHANGED <<warehouse, now, routing, store, audit, console, req, card, outcome,
                   restarts, steady>>

StatusIn(entry) == IF entry = Null THEN NoStatus ELSE entry.status

(* ScorecardStore.prior_status of the worker's own process *)
PriorStatus(w) == StatusIn(store[ProcessOf[w]][KeyOf(req[w])])

(* The fold over everything one worker has read. *)
Fold(read, before) ==
    LET dq == read.metadata.dq \cup read.samples.dq
    IN Certify(PassRatio(dq), dq, read.metadata.fresh, read.drift, read.samples.pii, before)

\* Mutant of Score: the fold does not get the PII classifications.
ScoreUnclassified(w) ==
    /\ pc[w] = "score"
    /\ card' = [card EXCEPT ![w] =
                   Fold([reading[w] EXCEPT !.samples.pii = {}], PriorStatus(w))]
    /\ reading' = [reading EXCEPT ![w] = NotRead]
    /\ Goto(w, "audit")
    /\ steady' = [steady EXCEPT ![w] = TRUE]
    /\ UNCHANGED <<warehouse, now, routing, store, audit, console, req, outcome, restarts>>

Score(w) ==
    /\ pc[w] = "score"
    /\ card' = [card EXCEPT ![w] = Fold(reading[w], PriorStatus(w))]
    /\ reading' = [reading EXCEPT ![w] = NotRead]
    /\ Goto(w, "audit")
    /\ steady' = [steady EXCEPT ![w] = TRUE]
    /\ UNCHANGED <<warehouse, now, routing, store, audit, console, req, outcome, restarts>>

(* _write_audit. The event names the dataset and its verdict (the redacted *)
(* summary), the decision and the severity; it carries no tenant.          *)
AuditOf(w) ==
    [dataset |-> req[w].dataset, status |-> card[w].status, review |-> card[w].review,
     severity |-> card[w].severity]

\* Mutant of WriteAudit: only escalations are recorded.
WriteAuditEscalations(w) ==
    /\ pc[w] = "audit"
    /\ audit' = audit \cup (IF card[w].review THEN {AuditOf(w)} ELSE {})
    /\ Goto(w, "save")
    /\ UNCHANGED <<warehouse, now, routing, store, console, req, locals, restarts, steady>>

WriteAudit(w) ==
    /\ pc[w] = "audit"
    /\ audit' = audit \cup {AuditOf(w)}
    /\ Goto(w, "save")
    /\ UNCHANGED <<warehouse, now, routing, store, console, req, locals, restarts, steady>>

EntryOf(w) ==
    [status |-> card[w].status, metrics |-> card[w].metrics, asOf |-> req[w].asOf]

(* to_response and ScorecardStore.save *)
Save(w) ==
    /\ pc[w] = "save"
    /\ store' = [store EXCEPT ![ProcessOf[w]][KeyOf(req[w])] = EntryOf(w)]
    /\ Goto(w, "route")
    /\ UNCHANGED <<warehouse, now, routing, audit, console, req, locals, restarts, steady>>

Clear(w) ==
    /\ req' = [req EXCEPT ![w] = Null]
    /\ reading' = [reading EXCEPT ![w] = NotRead]
    /\ card' = [card EXCEPT ![w] = Null]
    /\ outcome' = [outcome EXCEPT ![w] = "not_required"]

\* Mutant of Fail: a refused append is swallowed.
FailSwallowed(w) ==
    /\ pc[w] = "audit"
    /\ Goto(w, "save")
    /\ UNCHANGED <<warehouse, now, routing, store, audit, console, req, locals, restarts,
                   steady>>

\* What an append that raises may have left in the log.
Appended(w) == IF pc[w] = "audit" THEN {AuditOf(w)} ELSE {}

(* A port raised, or the log refused the append: the exception unwinds the *)
(* handler and nothing after the failing call happens. The answer of the   *)
(* log may be what was lost, with the record already in it.                *)
Fail(w) ==
    /\ pc[w] \in {"metadata", "samples", "schema", "score", "audit"}
    /\ audit' \in {audit, audit \cup Appended(w)}
    /\ Goto(w, "error")
    /\ Clear(w)
    /\ steady' = [steady EXCEPT ![w] = TRUE]
    /\ UNCHANGED <<warehouse, now, routing, store, console, restarts>>

\* Mutant of ReviewOf: no approval asked for below dual control.
ReviewUnapproved(w) ==
    [subject |-> req[w].dataset, status |-> card[w].status, tenant |-> req[w].tenant,
     approvals |-> IF card[w].severity = "critical" THEN 2 ELSE 0]

\* Mutant of ReviewOf: dual control on HIGH alone.
ReviewHighOnly(w) ==
    [subject |-> req[w].dataset, status |-> card[w].status, tenant |-> req[w].tenant,
     approvals |-> IF card[w].severity = "high" THEN 2 ELSE 1]

ReviewOf(w) ==
    [subject |-> req[w].dataset, status |-> card[w].status, tenant |-> req[w].tenant,
     approvals |-> IF card[w].severity = "critical" THEN 2 ELSE 1]

(* RecordingReviewRouter.route: what each hand-off leaves at the console   *)
(* and reports to the caller. A submission that raises may still have been *)
(* received: the answer can be lost after the console stored the review.   *)
Hand(w, result, reviews) ==
    /\ pc[w] = "route"
    /\ outcome' = [outcome EXCEPT ![w] = result]
    /\ console' = console \cup reviews
    /\ Goto(w, "reply")
    /\ UNCHANGED <<warehouse, now, routing, store, audit, req, reading, card, restarts,
                   steady>>

\* Mutant of RouteOff: a disabled router leaves no outcome.
RouteOffSilently(w) ==
    pc[w] = "route" /\ card[w].review /\ ~routing /\ Hand(w, "not_required", {})

\* Mutant of RouteFailed: the exception is absorbed without a trace.
RouteFailedUnseen(w) ==
    /\ pc[w] = "route" /\ card[w].review /\ routing
    /\ \E reviews \in {{}, {ReviewOf(w)}} : Hand(w, "routed", reviews)

RouteNotRequired(w) == pc[w] = "route" /\ ~card[w].review /\ Hand(w, "not_required", {})
RouteOff(w) == pc[w] = "route" /\ card[w].review /\ ~routing /\ Hand(w, "off", {})
RouteSubmitted(w) ==
    /\ pc[w] = "route" /\ card[w].review /\ routing
    /\ Hand(w, "routed", {ReviewOf(w)})
RouteFailed(w) ==
    /\ pc[w] = "route" /\ card[w].review /\ routing
    /\ \E reviews \in {{}, {ReviewOf(w)}} : Hand(w, "failed", reviews)

(* The response (or the error) reaches the caller; the thread is free. *)
Reply(w) ==
    /\ pc[w] \in {"reply", "error"}
    /\ Goto(w, "idle")
    /\ Clear(w)
    /\ UNCHANGED <<warehouse, now, routing, store, audit, console, restarts, steady>>

-----------------------------------------------------------------------------

Tick ==
    /\ now < MaxNow
    /\ now' = now + 1
    /\ UNCHANGED <<warehouse, routing, store, audit, console, pc, req, locals, restarts,
                   steady>>

(* Between its as_of and its fold a request depends on the warehouse. *)
Reading(w) == pc[w] \in {"metadata", "samples", "schema", "score"}

(* Another system loads a partition, changes values or alters the schema. *)
WarehouseMoves(d) ==
    /\ \E s \in WarehouseState :
          /\ s # warehouse[d]
          /\ warehouse' = [warehouse EXCEPT ![d] = s]
    /\ steady' = [w \in Worker |->
                    steady[w] /\ ~(Reading(w) /\ req[w].dataset = d)]
    /\ UNCHANGED <<now, routing, store, audit, console, pc, req, locals, restarts>>

(* A process dies and is replaced: its STORE and its threads are gone. *)
Restart(p) ==
    LET mine == {w \in Worker : ProcessOf[w] = p}
    IN /\ restarts < MaxRestarts
       /\ restarts' = restarts + 1
       /\ store' = [store EXCEPT ![p] = [k \in Key |-> Null]]
       /\ pc' = [w \in Worker |-> IF w \in mine THEN "idle" ELSE pc[w]]
       /\ req' = [w \in Worker |-> IF w \in mine THEN Null ELSE req[w]]
       /\ reading' = [w \in Worker |-> IF w \in mine THEN NotRead ELSE reading[w]]
       /\ card' = [w \in Worker |-> IF w \in mine THEN Null ELSE card[w]]
       /\ outcome' = [w \in Worker |-> IF w \in mine THEN "not_required" ELSE outcome[w]]
       /\ steady' = [w \in Worker |-> IF w \in mine THEN TRUE ELSE steady[w]]
       /\ UNCHANGED <<warehouse, now, routing, audit, console>>

Route(w) == RouteNotRequired(w) \/ RouteOff(w) \/ RouteSubmitted(w) \/ RouteFailed(w)

Proceed(w) ==
    \/ ReadMetadata(w) \/ ReadSamples(w) \/ ReadSchema(w)
    \/ Score(w) \/ WriteAudit(w) \/ Save(w)
    \/ Route(w) \/ Reply(w)

Next ==
    \/ \E w \in Worker, t \in Tenant, d \in Dataset : Begin(w, t, d)
    \/ \E w \in Worker, d \in Dataset : Refuse(w, d)
    \/ \E w \in Worker : Proceed(w) \/ Fail(w)
    \/ \E d \in Dataset : WarehouseMoves(d)
    \/ \E p \in Process : Restart(p)
    \/ Tick

Spec == Init /\ [][Next]_vars

(* A thread of the pool is scheduled again and again, and every port call  *)
(* returns or raises: a handler that has begun is not left standing.       *)
FairSpec == Spec /\ \A w \in Worker : WF_vars(Proceed(w))

-----------------------------------------------------------------------------
(* Properties.                                                             *)

TypeOK ==
    /\ warehouse \in [Dataset -> WarehouseState]
    /\ now \in 0 .. MaxNow
    /\ routing \in BOOLEAN
    /\ store \in [Process -> [Key -> Entry \cup {Null}]]
    /\ audit \in SUBSET AuditRecord
    /\ console \in SUBSET Review
    /\ pc \in [Worker -> PCs]
    /\ req \in [Worker -> Request \cup {Null}]
    /\ reading \in [Worker -> [metadata : MetadataStates \cup {Null},
                               samples : SampleStates \cup {Null},
                               drift : SUBSET DriftFinding]]
    /\ card \in [Worker -> Scored \cup {Null}]
    /\ outcome \in [Worker -> Routings]
    /\ restarts \in 0 .. MaxRestarts
    /\ steady \in [Worker -> BOOLEAN]

Folds(w) == pc[w] = "score" /\ pc'[w] = "audit"

Publishes(w) == pc[w] = "save" /\ pc'[w] = "route"

(* A save that replaces CERTIFIED by anything else publishes a scorecard   *)
(* that asks for human review: no decertification passes unflagged. The    *)
(* prior status is read two port calls before the save, so this is about   *)
(* what the store holds when the verdict lands, not when it was folded.    *)
NoSilentDecertification ==
    [][\A w \in Worker :
          Publishes(w) /\ PriorStatus(w) = "certified" /\ card[w].status # "certified"
            => card[w].review]_vars

(* The as_of a consumer reads never goes back: an older verdict does not   *)
(* overwrite a newer one of the same key.                                  *)
AsOfNeverRegresses ==
    [][\A p \in Process, k \in Key :
          store[p][k] # Null /\ store'[p][k] # Null
            => store[p][k].asOf <= store'[p][k].asOf]_vars

(* Whatever a process serves as a dataset's verdict is on the audit trail. *)
(* _write_audit comes first, and a refused append stops the handler.       *)
AuditedBeforePublished ==
    \A p \in Process, k \in Key :
        store[p][k] # Null =>
            \E a \in audit : a.dataset = k[2] /\ a.status = store[p][k].status

(* Every review at the console stands for an audited, escalated verdict of *)
(* the same dataset, with the approvals its severity demands; the hand-off *)
(* cannot overtake the audit, even when an answer is lost or a process     *)
(* dies in between.                                                        *)
HandOffIsAudited ==
    \A r \in console :
        \E a \in audit :
            /\ a.dataset = r.subject /\ a.status = r.status /\ a.review
            /\ r.approvals = 2 <=> a.severity = "critical"

(* An escalation without a sensitive finding claims a decertification, and *)
(* a certification of that dataset is then on record: no reviewer is asked *)
(* about the loss of something that was never granted.                     *)
JustifiedEscalation ==
    [][\A w \in Worker :
          Folds(w) /\ card'[w].review /\ ~HasSensitive(reading[w].samples.pii)
            => \E a \in audit : a.dataset = req[w].dataset /\ a.status = "certified"]_vars

(* What the caller is told about the hand-off is what happened: an         *)
(* escalation is never reported as not required, and "routed" means the    *)
(* console holds a review of this tenant, dataset and verdict.             *)
AccountedEscalation ==
    \A w \in Worker :
        pc[w] = "reply" =>
            /\ card[w].review <=> outcome[w] # "not_required"
            /\ outcome[w] = "routed" => ReviewOf(w) \in console

WarehouseReading(k) ==
    LET s == warehouse[k[2]]
    IN [metadata |-> s.metadata, samples |-> s.samples, drift |-> DriftOf(k, s.schema)]

(* When the dataset did not move while the request was reading it, the     *)
(* verdict is the verdict of the dataset as it is: the three separate      *)
(* reads, other threads and other datasets' movements do not mix into it.  *)
SteadyVerdict ==
    [][\A w \in Worker :
          Folds(w) /\ steady[w]
            => card'[w].status = Fold(WarehouseReading(KeyOf(req[w])), NoStatus).status]_vars

(* An escalation that was published is reported to its caller as routed,   *)
(* failed or off, unless a process dies first: the handler never hangs on  *)
(* the hand-off and never ends without an outcome.                         *)
EscalationReported ==
    \A w \in Worker, n \in 0 .. MaxRestarts :
        (pc[w] = "route" /\ card[w].review /\ restarts = n)
            ~> ((pc[w] = "reply" /\ outcome[w] # "not_required") \/ restarts > n)

(* The pipeline keeps the promise of CertificationPromise: seen through    *)
(* the status a process would answer, the audit log and the reviews still  *)
(* to be handed off, the handler's steps are audit, publish and hand-off.  *)
Owed ==
    {[process |-> ProcessOf[w], review |-> ReviewOf(w)] :
        w \in {v \in Worker : pc[v] = "route" /\ card[v].review}}

Promise == INSTANCE CertificationPromise WITH
    Status <- Statuses,
    Severity <- Severities,
    register <- [p \in Process |-> [k \in Key |-> StatusIn(store[p][k])]],
    ledger <- audit,
    owed <- Owed,
    cases <- console

KeepsPromise == Promise!Spec

=============================================================================
