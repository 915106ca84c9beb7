------------------------ MODULE CertificationProofs ------------------------
(***************************************************************************)
(* Invariants of the certification pipeline for any number of processes,   *)
(* threads, tenants and datasets, and any findings; that what it tells a   *)
(* caller about an escalation, and asks of a reviewer, is right whatever   *)
(* the callers do; and that under serial callers it implements             *)
(* CertificationPromise.                                                   *)
(***************************************************************************)
EXTENDS Certification, TLAPS

-----------------------------------------------------------------------------
(* The fold, for any findings whatever.                                    *)

(* The severity ladder has no ties and no gaps. *)
LEMMA Ladder ==
    /\ SeverityRank["low"] = 0
    /\ SeverityRank["medium"] = 1
    /\ SeverityRank["high"] = 2
    /\ SeverityRank["critical"] = 3
  BY DEF SeverityRank, Severities

(* Any open severities have a worst one, so max() has an answer. *)
LEMMA WorstExists ==
    ASSUME NEW open \in SUBSET Severities, open # {}
    PROVE  \E s \in open : \A o \in open : SeverityRank[o] <= SeverityRank[s]
  <1>1. CASE "critical" \in open
    BY <1>1, Ladder DEF Severities
  <1>2. CASE "critical" \notin open /\ "high" \in open
    BY <1>2, Ladder DEF Severities
  <1>3. CASE "critical" \notin open /\ "high" \notin open /\ "medium" \in open
    BY <1>3, Ladder DEF Severities
  <1>4. CASE open = {"low"}
    BY <1>4, Ladder DEF Severities
  <1> QED
    BY <1>1, <1>2, <1>3, <1>4 DEF Severities

LEMMA BandIsSeverity ==
    ASSUME NEW dq \in SUBSET Finding, NEW fresh \in Freshness, NEW drift \in SUBSET DriftFinding
    PROVE  WorstSeverity(dq, fresh, drift) \in Severities
  <1> DEFINE open == OpenSeverities(dq, fresh, drift)
  <1>1. open \in SUBSET Severities
    BY DEF OpenSeverities, Failed, Finding, Freshness, DriftFinding
  <1>2. CASE open = {}
    BY <1>2 DEF WorstSeverity, Severities
  <1>3. CASE open # {}
    <2>1. \E s \in open : \A o \in open : SeverityRank[o] <= SeverityRank[s]
      BY <1>1, <1>3, WorstExists
    <2>2. WorstSeverity(dq, fresh, drift)
            = CHOOSE s \in open : \A o \in open : SeverityRank[o] <= SeverityRank[s]
      BY <1>3 DEF WorstSeverity
    <2> HIDE DEF open
    <2> QED
      BY <1>1, <2>1, <2>2
  <1> QED
    BY <1>2, <1>3

(* A verdict that is CERTIFIED never asks for review: escalation and       *)
(* certification exclude each other, whatever the prior status was.        *)
THEOREM CertifiedNeverEscalates ==
    ASSUME NEW ratio, NEW dq, NEW fresh, NEW drift, NEW pii, NEW prior,
           Certify(ratio, dq, fresh, drift, pii, prior).status = "certified"
    PROVE  ~Certify(ratio, dq, fresh, drift, pii, prior).review
  <1>1. StatusOf(ratio, dq, fresh, drift, pii) = "certified"
    BY DEF Certify
  <1>2. ~HasSensitive(pii)
    BY <1>1 DEF StatusOf
  <1> QED
    BY <1>1, <1>2 DEF Certify, Decertified

(* The fold flags every loss of CERTIFIED, and the verdict itself does not *)
(* depend on the history it is compared with.                              *)
THEOREM LossIsFlagged ==
    ASSUME NEW ratio, NEW dq, NEW fresh, NEW drift, NEW pii, NEW prior
    PROVE  LET c == Certify(ratio, dq, fresh, drift, pii, prior)
           IN /\ c.status \in Statuses
              /\ c.status = StatusOf(ratio, dq, fresh, drift, pii)
              /\ prior = "certified" /\ c.status # "certified" => c.review
  <1>1. StatusOf(ratio, dq, fresh, drift, pii) \in Statuses
    BY DEF StatusOf, Statuses
  <1> QED
    BY <1>1 DEF Certify, Decertified

-----------------------------------------------------------------------------
(* Types. A handler that has come to a step holds what the step reads.     *)

Held(w) ==
    /\ pc[w] \notin {"idle", "error"} => req[w] \in Request
    /\ pc[w] \in {"idle", "error"} => req[w] = Null
    /\ pc[w] \in {"samples", "schema", "score"} => reading[w].metadata \in MetadataStates
    /\ pc[w] \in {"schema", "score"} => reading[w].samples \in SampleStates
    /\ pc[w] \in {"audit", "save", "route", "reply"} => card[w] \in Scored

Typed == TypeOK /\ \A w \in Worker : Held(w)

(* What the fold makes of one reading is a scorecard. *)
LEMMA FoldType ==
    ASSUME NEW r, NEW before,
           r.metadata \in MetadataStates, r.samples \in SampleStates,
           r.drift \in SUBSET DriftFinding
    PROVE  Fold(r, before) \in Scored
  <1> DEFINE dq == r.metadata.dq \cup r.samples.dq
             fresh == r.metadata.fresh
             drift == r.drift
             pii == r.samples.pii
  <1>1. /\ dq \in SUBSET Finding
        /\ fresh \in Freshness
    BY ConstantsAssumption DEF MetadataResult, SampleResult
  <1>2. WorstSeverity(dq, fresh, drift) \in Severities
    BY <1>1, BandIsSeverity
  <1>3. CertifiedMetrics(dq, pii) \in SUBSET Column
    BY <1>1 DEF CertifiedMetrics, Finding
  <1>4. StatusOf(PassRatio(dq), dq, fresh, drift, pii) \in Statuses
    BY DEF StatusOf, Statuses
  <1>5. (Decertified(before, StatusOf(PassRatio(dq), dq, fresh, drift, pii))
            \/ HasSensitive(pii)) \in BOOLEAN
    BY DEF Decertified, HasSensitive
  <1>6. Fold(r, before) = Certify(PassRatio(dq), dq, fresh, drift, pii, before)
    BY DEF Fold
  <1> HIDE DEF dq, fresh, drift, pii
  <1> QED
    BY <1>2, <1>3, <1>4, <1>5, <1>6 DEF Certify, Scored

LEMMA TypedInit == Init => Typed
  BY ConstantsAssumption
  DEF Init, Typed, TypeOK, Held, NotRead, WarehouseState, Routings, PCs

(* Every action keeps the types. *)
LEMMA TypedNext == Typed /\ [Next]_vars => Typed'
  <1> SUFFICES ASSUME Typed, [Next]_vars
               PROVE  Typed'
    OBVIOUS
  <1> USE DEF Typed, TypeOK, Held, Goto, locals
  <1>1. ASSUME NEW w \in Worker, NEW t \in Tenant, NEW d \in Dataset, Begin(w, t, d)
        PROVE  Typed'
    <2>1. [tenant |-> t, dataset |-> d, asOf |-> now] \in Request
      BY DEF Request
    <2> QED
      BY <1>1, <2>1 DEF Begin, PCs
  <1>2. ASSUME NEW w \in Worker, NEW d \in Dataset, Refuse(w, d)
        PROVE  Typed'
    BY <1>2 DEF Refuse, PCs
  <1>3. ASSUME NEW w \in Worker, ReadMetadata(w)
        PROVE  Typed'
    <2>1. warehouse[req[w].dataset].metadata \in MetadataStates
      BY <1>3 DEF ReadMetadata, Request, WarehouseState
    <2> QED
      BY <1>3, <2>1 DEF ReadMetadata, PCs
  <1>4. ASSUME NEW w \in Worker, ReadSamples(w)
        PROVE  Typed'
    <2>1. warehouse[req[w].dataset].samples \in SampleStates
      BY <1>4 DEF ReadSamples, Request, WarehouseState
    <2> QED
      BY <1>4, <2>1 DEF ReadSamples, PCs
  <1>5. ASSUME NEW w \in Worker, ReadSchema(w)
        PROVE  Typed'
    <2>0. warehouse[req[w].dataset].schema \in SchemaStates
      BY <1>5 DEF ReadSchema, Request, WarehouseState
    <2>1. DriftOf(KeyOf(req[w]), warehouse[req[w].dataset].schema) \in SUBSET DriftFinding
      BY <2>0, ConstantsAssumption DEF DriftOf
    <2> QED
      BY <1>5, <2>1 DEF ReadSchema, PCs
  <1>6. ASSUME NEW w \in Worker, Score(w)
        PROVE  Typed'
    <2>1. Fold(reading[w], PriorStatus(w)) \in Scored
      BY <1>6, FoldType DEF Score
    <2> QED
      BY <1>6, <2>1 DEF Score, PCs, NotRead
  <1>7. ASSUME NEW w \in Worker, WriteAudit(w)
        PROVE  Typed'
    <2>1. AuditOf(w) \in AuditRecord
      BY <1>7 DEF WriteAudit, AuditOf, AuditRecord, Request, Scored
    <2> QED
      BY <1>7, <2>1 DEF WriteAudit, PCs
  <1>8. ASSUME NEW w \in Worker, Save(w)
        PROVE  Typed'
    <2>1. EntryOf(w) \in Entry
      BY <1>8 DEF Save, EntryOf, Entry, Request, Scored
    <2>2. ProcessOf[w] \in Process /\ KeyOf(req[w]) \in Key
      BY <1>8, ConstantsAssumption DEF Save, KeyOf, Key, Request
    <2>3. store' \in [Process -> [Key -> Entry \cup {Null}]]
      BY <1>8, <2>1, <2>2 DEF Save
    <2> QED
      BY <1>8, <2>3 DEF Save, PCs
  <1>9. ASSUME NEW w \in Worker, Fail(w)
        PROVE  Typed'
    <2>1. Appended(w) \in SUBSET AuditRecord
      BY <1>9 DEF Appended, AuditOf, AuditRecord, Request, Scored
    <2> QED
      BY <1>9, <2>1 DEF Fail, Clear, PCs, NotRead, Routings
  <1>10. ASSUME NEW w \in Worker, NEW result \in Routings, NEW reviews,
                reviews \subseteq {ReviewOf(w)}, Hand(w, result, reviews)
         PROVE  Typed'
    <2>1. ReviewOf(w) \in Review
      BY <1>10 DEF Hand, ReviewOf, Review, Request, Scored
    <2> QED
      BY <1>10, <2>1 DEF Hand, PCs
  <1>11. ASSUME NEW w \in Worker, Route(w)
         PROVE  Typed'
    BY <1>10, <1>11 DEF Route, RouteNotRequired, RouteOff, RouteSubmitted, RouteFailed, Routings
  <1>12. ASSUME NEW w \in Worker, Reply(w)
         PROVE  Typed'
    BY <1>12 DEF Reply, Clear, PCs, NotRead, Routings
  <1>13. ASSUME NEW d \in Dataset, WarehouseMoves(d)
         PROVE  Typed'
    <2>1. /\ warehouse' \in [Dataset -> WarehouseState]
          /\ steady' \in [Worker -> BOOLEAN]
      BY <1>13 DEF WarehouseMoves, Reading
    <2> QED
      BY <1>13, <2>1 DEF WarehouseMoves
  <1>14. ASSUME NEW p \in Process, Restart(p)
         PROVE  Typed'
    <2>1. store' \in [Process -> [Key -> Entry \cup {Null}]]
      BY <1>14 DEF Restart
    <2>2. restarts' \in 0 .. MaxRestarts
      BY <1>14, ConstantsAssumption DEF Restart
    <2>3. \A w \in Worker : Held(w)'
      BY <1>14 DEF Restart
    <2> QED
      BY <1>14, <2>1, <2>2, <2>3 DEF Restart, PCs, NotRead, Routings
  <1>15. CASE Tick
    BY <1>15, ConstantsAssumption DEF Tick
  <1>16. CASE UNCHANGED vars
    BY <1>16 DEF vars
  <1> QED
    BY <1>1, <1>2, <1>3, <1>4, <1>5, <1>6, <1>7, <1>8, <1>9, <1>11, <1>12, <1>13, <1>14,
       <1>15, <1>16
    DEF Next, Proceed

(* Type correctness: no step of any handler reads what it does not hold.   *)
THEOREM TypeCorrect == Spec => []TypeOK
  <1>1. Typed => TypeOK
    BY DEF Typed
  <1> QED
    BY <1>1, TypedInit, TypedNext, PTL DEF Spec

-----------------------------------------------------------------------------
(* The audit trail. A verdict about to be published or handed off is       *)
(* already recorded, and records are never taken back.                     *)

Recorded(w) == pc[w] \in {"save", "route"} => AuditOf(w) \in audit

Trail ==
    /\ \A w \in Worker : Recorded(w)
    /\ AuditedBeforePublished
    /\ HandOffIsAudited

LEMMA TrailInit == Init => Trail
  BY DEF Init, Trail, Recorded, AuditedBeforePublished, HandOffIsAudited

(* A step that saves nothing, hands nothing off and leaves the verdicts    *)
(* that wait for either alone keeps the trail.                             *)
LEMMA TrailUntouched ==
    ASSUME Trail, audit \subseteq audit', UNCHANGED console,
           \A p \in Process, k \in Key : store'[p][k] \in {store[p][k], Null},
           \A w \in Worker : pc'[w] \in {"save", "route"} =>
                                /\ pc[w] = pc'[w]
                                /\ req'[w] = req[w] /\ card'[w] = card[w]
    PROVE  Trail'
  <1>1. \A w \in Worker : Recorded(w)'
    BY DEF Trail, Recorded, AuditOf
  <1>2. AuditedBeforePublished'
    BY DEF Trail, AuditedBeforePublished
  <1>3. HandOffIsAudited'
    BY DEF Trail, HandOffIsAudited
  <1> QED
    BY <1>1, <1>2, <1>3 DEF Trail

LEMMA TrailNext == Typed /\ Trail /\ [Next]_vars => Trail'
  <1> SUFFICES ASSUME Typed, Trail, [Next]_vars
               PROVE  Trail'
    OBVIOUS
  <1> USE DEF Typed, TypeOK, Goto, locals
  <1>1. ASSUME NEW w \in Worker, NEW t \in Tenant, NEW d \in Dataset, Begin(w, t, d)
        PROVE  Trail'
    BY <1>1, TrailUntouched DEF Begin
  <1>2. ASSUME NEW w \in Worker, NEW d \in Dataset, Refuse(w, d)
        PROVE  Trail'
    BY <1>2, TrailUntouched DEF Refuse
  <1>3. ASSUME NEW w \in Worker, ReadMetadata(w) \/ ReadSamples(w) \/ ReadSchema(w)
        PROVE  Trail'
    BY <1>3, TrailUntouched DEF ReadMetadata, ReadSamples, ReadSchema
  <1>4. ASSUME NEW w \in Worker, Score(w)
        PROVE  Trail'
    BY <1>4, TrailUntouched DEF Score
  <1>5. ASSUME NEW w \in Worker, WriteAudit(w)
        PROVE  Trail'
    <2>1. \A v \in Worker : Recorded(v)'
      BY <1>5 DEF WriteAudit, Trail, Recorded, AuditOf
    <2>2. AuditedBeforePublished' /\ HandOffIsAudited'
      BY <1>5 DEF WriteAudit, Trail, AuditedBeforePublished, HandOffIsAudited
    <2> QED
      BY <2>1, <2>2 DEF Trail
  <1>6. ASSUME NEW w \in Worker, Save(w)
        PROVE  Trail'
    <2>1. \A v \in Worker : Recorded(v)'
      BY <1>6 DEF Save, Trail, Recorded, AuditOf
    <2>2. ASSUME NEW p \in Process, NEW k \in Key, store'[p][k] # Null
          PROVE  \E a \in audit' : a.dataset = k[2] /\ a.status = store'[p][k].status
      <3>1. CASE store'[p][k] = store[p][k]
        BY <1>6, <2>2, <3>1 DEF Save, Trail, AuditedBeforePublished
      <3>2. CASE store'[p][k] # store[p][k]
        <4>1. k = KeyOf(req[w]) /\ store'[p][k] = EntryOf(w)
          BY <1>6, <3>2 DEF Save
        <4>2. AuditOf(w) \in audit'
          BY <1>6 DEF Save, Trail, Recorded
        <4> QED
          BY <4>1, <4>2 DEF EntryOf, AuditOf, KeyOf
      <3> QED
        BY <3>1, <3>2
    <2>3. AuditedBeforePublished'
      BY <2>2 DEF AuditedBeforePublished
    <2>4. HandOffIsAudited'
      BY <1>6 DEF Save, Trail, HandOffIsAudited
    <2> QED
      BY <2>1, <2>3, <2>4 DEF Trail
  <1>7. ASSUME NEW w \in Worker, Fail(w)
        PROVE  Trail'
    BY <1>7, TrailUntouched DEF Fail, Clear
  <1>8. ASSUME NEW w \in Worker, Route(w)
        PROVE  Trail'
    <2>1. PICK result \in Routings, reviews \in SUBSET {ReviewOf(w)} :
             Hand(w, result, reviews) /\ (reviews # {} => card[w].review)
      BY <1>8 DEF Route, RouteNotRequired, RouteOff, RouteSubmitted, RouteFailed, Routings
    <2>2. \A v \in Worker : Recorded(v)'
      BY <2>1 DEF Hand, Trail, Recorded, AuditOf
    <2>3. AuditedBeforePublished'
      BY <2>1 DEF Hand, Trail, AuditedBeforePublished
    <2>4. ASSUME NEW r \in console'
          PROVE  \E a \in audit' : /\ a.dataset = r.subject /\ a.status = r.status /\ a.review
                                   /\ r.approvals = 2 <=> a.severity = "critical"
      <3>1. CASE r \in console
        BY <2>1, <3>1 DEF Hand, Trail, HandOffIsAudited
      <3>2. CASE r = ReviewOf(w) /\ card[w].review
        <4>1. AuditOf(w) \in audit'
          BY <2>1 DEF Hand, Trail, Recorded
        <4> QED
          BY <3>2, <4>1 DEF ReviewOf, AuditOf
      <3> QED
        BY <2>1, <3>1, <3>2 DEF Hand
    <2>5. HandOffIsAudited'
      BY <2>4 DEF HandOffIsAudited
    <2> QED
      BY <2>2, <2>3, <2>5 DEF Trail
  <1>9. ASSUME NEW w \in Worker, Reply(w)
        PROVE  Trail'
    BY <1>9, TrailUntouched DEF Reply, Clear
  <1>10. ASSUME NEW d \in Dataset, WarehouseMoves(d)
         PROVE  Trail'
    BY <1>10, TrailUntouched DEF WarehouseMoves
  <1>11. ASSUME NEW p \in Process, Restart(p)
         PROVE  Trail'
    <2>1. \A q \in Process, k \in Key : store'[q][k] \in {store[q][k], Null}
      BY <1>11 DEF Restart
    <2>2. \A w \in Worker : pc'[w] \in {"save", "route"} =>
             pc[w] = pc'[w] /\ req'[w] = req[w] /\ card'[w] = card[w]
      BY <1>11 DEF Restart
    <2> QED
      BY <1>11, <2>1, <2>2, TrailUntouched DEF Restart
  <1>12. CASE Tick
    BY <1>12, TrailUntouched DEF Tick
  <1>13. CASE UNCHANGED vars
    BY <1>13, TrailUntouched DEF vars
  <1> QED
    BY <1>1, <1>2, <1>3, <1>4, <1>5, <1>6, <1>7, <1>8, <1>9, <1>10, <1>11, <1>12, <1>13
    DEF Next, Proceed

(* No process serves a verdict that is not on the audit trail, whatever    *)
(* fails, restarts or overlaps.                                            *)
THEOREM ServedIsAudited == Spec => []AuditedBeforePublished
  <1>1. Trail => AuditedBeforePublished
    BY DEF Trail
  <1> QED
    BY <1>1, TypedInit, TypedNext, TrailInit, TrailNext, PTL DEF Spec

(* No review reaches the console ahead of its audit record, or with other  *)
(* approvals than the recorded severity demands.                           *)
THEOREM HandOffAudited == Spec => []HandOffIsAudited
  <1>1. Trail => HandOffIsAudited
    BY DEF Trail
  <1> QED
    BY <1>1, TypedInit, TypedNext, TrailInit, TrailNext, PTL DEF Spec

-----------------------------------------------------------------------------
(* What serial callers buy: at most one request per key is in flight, so   *)
(* the prior status a verdict was folded against is still the one the      *)
(* store holds when the verdict is saved, and stamps are saved in order.   *)

Serial ==
    \A v, w \in Worker :
        v # w /\ req[v] # Null /\ req[w] # Null => KeyOf(req[v]) # KeyOf(req[w])

(* The verdict under way accounts for the status its process holds now. *)
Flagged(w) ==
    pc[w] \in {"audit", "save"} /\ PriorStatus(w) = "certified"
        /\ card[w].status # "certified" => card[w].review

(* What is stored is not newer than the clock, nor than a request under    *)
(* way for the same key.                                                   *)
Stamped ==
    \A p \in Process, k \in Key :
        store[p][k] # Null =>
            /\ store[p][k].asOf <= now
            /\ \A w \in Worker :
                  req[w] # Null /\ KeyOf(req[w]) = k => store[p][k].asOf <= req[w].asOf

(* A request under way was stamped by now. *)
Dated == \A w \in Worker : req[w] # Null => req[w].asOf <= now

Serialised == Serial /\ (\A w \in Worker : Flagged(w)) /\ Stamped /\ Dated

LEMMA SerialisedInit == Init => Serialised
  BY DEF Init, Serialised, Serial, Flagged, Stamped, Dated

(* Requests that only end, entries that only disappear, verdicts that stay *)
(* as they are and a clock that does not go back.                          *)
LEMMA SerialisedUntouched ==
    ASSUME Typed, Serialised, now' >= now, now' \in Nat,
           \A w \in Worker : req'[w] \in {req[w], Null},
           \A p \in Process, k \in Key : store'[p][k] \in {store[p][k], Null},
           \A w \in Worker : pc'[w] \in {"audit", "save"} =>
                                /\ pc[w] \in {"audit", "save"}
                                /\ req'[w] = req[w] /\ card'[w] = card[w]
    PROVE  Serialised'
  <1>1. Serial'
    BY DEF Serialised, Serial
  <1>2. ASSUME NEW w \in Worker PROVE Flagged(w)'
    <2>1. SUFFICES ASSUME pc'[w] \in {"audit", "save"}, PriorStatus(w)' = "certified"
                   PROVE  card'[w].status # "certified" => card'[w].review
      BY DEF Flagged
    <2>2. pc[w] \in {"audit", "save"} /\ req'[w] = req[w] /\ card'[w] = card[w]
      BY <2>1
    <2>3. ProcessOf[w] \in Process /\ KeyOf(req[w]) \in Key
      BY <2>2, ConstantsAssumption DEF Typed, Held, KeyOf, Key, Request
    <2>4. PriorStatus(w) = "certified"
      BY <2>1, <2>2, <2>3 DEF PriorStatus, StatusIn, NoStatus
    <2> QED
      BY <2>2, <2>4 DEF Serialised, Flagged
  <1>3. Stamped'
    <2> SUFFICES ASSUME NEW p \in Process, NEW k \in Key, store'[p][k] # Null
                 PROVE  /\ store'[p][k].asOf <= now'
                        /\ \A w \in Worker : req'[w] # Null /\ KeyOf(req'[w]) = k
                              => store'[p][k].asOf <= req'[w].asOf
      BY DEF Stamped
    <2>1. store'[p][k] = store[p][k] /\ store[p][k] \in Entry
      BY DEF Typed, TypeOK
    <2>2. store[p][k].asOf \in Nat /\ now \in Nat
      BY <2>1 DEF Typed, TypeOK, Entry
    <2> QED
      BY <2>1, <2>2 DEF Serialised, Stamped
  <1>4. Dated'
    <2>1. \A w \in Worker : req[w] # Null => req[w].asOf \in Nat /\ now \in Nat
      BY DEF Typed, TypeOK, Request
    <2> QED
      BY <2>1 DEF Serialised, Dated
  <1> QED
    BY <1>1, <1>2, <1>3, <1>4 DEF Serialised

LEMMA SerialisedNext ==
    ASSUME Exclusive
    PROVE  Typed /\ Typed' /\ Serialised /\ [Next]_vars => Serialised'
  <1> SUFFICES ASSUME Typed, Typed', Serialised, [Next]_vars
               PROVE  Serialised'
    OBVIOUS
  <1>0. now \in Nat /\ MaxNow \in Nat
    BY ConstantsAssumption DEF Typed, TypeOK
  <1>a. \A w \in Worker : req[w] # Null =>
           req[w] \in Request /\ KeyOf(req[w]) \in Key /\ req[w].asOf \in Nat
    BY DEF Typed, TypeOK, Request, KeyOf, Key
  <1> USE DEF Goto, locals
  <1>1. ASSUME NEW w \in Worker, NEW t \in Tenant, NEW d \in Dataset, Begin(w, t, d)
        PROVE  Serialised'
    <2>1. /\ req' = [req EXCEPT ![w] = [tenant |-> t, dataset |-> d, asOf |-> now]]
          /\ UNCHANGED <<store, now, card>> /\ ~InFlight(<<t, d>>)
          /\ \A v \in Worker : pc'[v] \in {"audit", "save"} => v # w /\ pc'[v] = pc[v]
      BY <1>1 DEF Begin, Typed, TypeOK
    <2>2. KeyOf(req'[w]) = <<t, d>> /\ req'[w].asOf = now
      BY <2>1 DEF KeyOf, Typed, TypeOK
    <2>3. \A v \in Worker : v # w => req'[v] = req[v]
      BY <2>1 DEF Typed, TypeOK
    <2>4. Serial'
      BY <2>1, <2>2, <2>3 DEF Serialised, Serial, InFlight
    <2>5. \A v \in Worker : Flagged(v)'
      BY <2>1, <2>3 DEF Serialised, Flagged, PriorStatus
    <2>6. Stamped'
      BY <2>1, <2>2, <2>3 DEF Serialised, Stamped
    <2>7. Dated'
      BY <2>1, <2>2, <2>3, <1>0 DEF Serialised, Dated
    <2> QED
      BY <2>4, <2>5, <2>6, <2>7 DEF Serialised
  <1>2. ASSUME NEW w \in Worker, NEW d \in Dataset, Refuse(w, d)
        PROVE  Serialised'
    BY <1>2, <1>0, SerialisedUntouched DEF Refuse, Typed, TypeOK
  <1>3. ASSUME NEW w \in Worker, ReadMetadata(w) \/ ReadSamples(w) \/ ReadSchema(w)
        PROVE  Serialised'
    BY <1>3, <1>0, SerialisedUntouched
    DEF ReadMetadata, ReadSamples, ReadSchema, Typed, TypeOK
  <1>4. ASSUME NEW w \in Worker, Score(w)
        PROVE  Serialised'
    <2>1. /\ card' = [card EXCEPT ![w] = Fold(reading[w], PriorStatus(w))]
          /\ UNCHANGED <<store, req, now>>
          /\ \A v \in Worker : v # w => pc'[v] = pc[v]
      BY <1>4 DEF Score, Typed, TypeOK
    <2>2. PriorStatus(w) = "certified" /\ card'[w].status # "certified" => card'[w].review
      BY <2>1, LossIsFlagged DEF Fold, Typed, TypeOK
    <2>3. \A v \in Worker : Flagged(v)'
      BY <2>1, <2>2 DEF Serialised, Flagged, PriorStatus, Typed, TypeOK
    <2> QED
      BY <2>1, <2>3 DEF Serialised, Serial, Stamped, Dated
  <1>5. ASSUME NEW w \in Worker, WriteAudit(w)
        PROVE  Serialised'
    BY <1>5, <1>0, SerialisedUntouched DEF WriteAudit, Typed, TypeOK
  <1>6. ASSUME NEW w \in Worker, Save(w)
        PROVE  Serialised'
    <2>1. /\ pc[w] = "save" /\ req[w] # Null /\ KeyOf(req[w]) \in Key
          /\ UNCHANGED <<req, card, now>>
          /\ \A v \in Worker : pc'[v] \in {"audit", "save"} => v # w /\ pc'[v] = pc[v]
      BY <1>6, <1>a, NullAssumption DEF Save, Typed, TypeOK, Held
    <2>2. \A p \in Process, k \in Key : store'[p][k] # store[p][k]
             => k = KeyOf(req[w]) /\ store'[p][k] = EntryOf(w)
      BY <1>6 DEF Save, Typed, TypeOK
    <2>3. ASSUME NEW v \in Worker PROVE Flagged(v)'
      <3>1. SUFFICES ASSUME pc'[v] \in {"audit", "save"}
                     PROVE  Flagged(v)'
        BY DEF Flagged
      <3>2. v # w /\ pc'[v] = pc[v] /\ req[v] # Null /\ KeyOf(req[v]) \in Key
        BY <3>1, <2>1, <1>a, NullAssumption DEF Typed, Held
      <3>3. KeyOf(req[v]) # KeyOf(req[w]) /\ ProcessOf[v] \in Process
        BY <3>2, <2>1, ConstantsAssumption DEF Serialised, Serial
      <3>4. PriorStatus(v)' = PriorStatus(v)
        BY <3>2, <3>3, <2>1, <2>2 DEF PriorStatus
      <3> QED
        BY <3>2, <3>4, <2>1 DEF Serialised, Flagged
    <2>4. Stamped'
      <3> SUFFICES ASSUME NEW p \in Process, NEW k \in Key, store'[p][k] # Null
                   PROVE  /\ store'[p][k].asOf <= now'
                          /\ \A v \in Worker : req'[v] # Null /\ KeyOf(req'[v]) = k
                                => store'[p][k].asOf <= req'[v].asOf
        BY DEF Stamped
      <3>1. CASE store'[p][k] = store[p][k]
        BY <3>1, <2>1 DEF Serialised, Stamped
      <3>2. CASE store'[p][k] # store[p][k]
        <4>1. k = KeyOf(req[w]) /\ store'[p][k].asOf = req[w].asOf
          BY <3>2, <2>2 DEF EntryOf
        <4>2. req[w].asOf <= now /\ req[w].asOf \in Nat
          BY <2>1, <1>a DEF Serialised, Dated
        <4>3. \A v \in Worker : req'[v] # Null /\ KeyOf(req'[v]) = k => v = w
          BY <4>1, <2>1 DEF Serialised, Serial
        <4> QED
          BY <4>1, <4>2, <4>3, <2>1
      <3> QED
        BY <3>1, <3>2
    <2> QED
      BY <2>1, <2>3, <2>4 DEF Serialised, Serial, Dated
  <1>7. ASSUME NEW w \in Worker, Fail(w)
        PROVE  Serialised'
    BY <1>7, <1>0, SerialisedUntouched DEF Fail, Clear, Typed, TypeOK
  <1>8. ASSUME NEW w \in Worker, Route(w)
        PROVE  Serialised'
    <2>1. UNCHANGED <<now, store, req, card>>
          /\ \A v \in Worker : pc'[v] \in {"audit", "save"} => pc'[v] = pc[v]
      BY <1>8 DEF Route, RouteNotRequired, RouteOff, RouteSubmitted, RouteFailed, Hand,
                  Typed, TypeOK
    <2> QED
      BY <2>1, <1>0, SerialisedUntouched
  <1>9. ASSUME NEW w \in Worker, Reply(w)
        PROVE  Serialised'
    BY <1>9, <1>0, SerialisedUntouched DEF Reply, Clear, Typed, TypeOK
  <1>10. ASSUME NEW d \in Dataset, WarehouseMoves(d)
         PROVE  Serialised'
    BY <1>10, <1>0, SerialisedUntouched DEF WarehouseMoves
  <1>11. ASSUME NEW p \in Process, Restart(p)
         PROVE  Serialised'
    <2>1. \A q \in Process, k \in Key : store'[q][k] \in {store[q][k], Null}
      BY <1>11 DEF Restart, Typed, TypeOK
    <2>2. \A w \in Worker : pc'[w] \in {"audit", "save"} =>
             pc[w] = pc'[w] /\ req'[w] = req[w] /\ card'[w] = card[w]
      BY <1>11 DEF Restart
    <2>3. \A w \in Worker : req'[w] \in {req[w], Null}
      BY <1>11 DEF Restart
    <2> QED
      BY <1>11, <1>0, <2>1, <2>2, <2>3, SerialisedUntouched DEF Restart
  <1>12. CASE Tick
    BY <1>12, <1>0, SerialisedUntouched DEF Tick
  <1>13. CASE UNCHANGED vars
    BY <1>13, <1>0, SerialisedUntouched DEF vars
  <1> QED
    BY <1>1, <1>2, <1>3, <1>4, <1>5, <1>6, <1>7, <1>8, <1>9, <1>10, <1>11, <1>12, <1>13
    DEF Next, Proceed

(* Under serial callers no save takes CERTIFIED away unflagged: what the   *)
(* fold compared with is what the save replaces.                           *)
THEOREM NoLossUnflagged ==
    ASSUME Exclusive
    PROVE  Spec => NoSilentDecertification
  <1>1. Serialised => \A w \in Worker :
           Publishes(w) /\ PriorStatus(w) = "certified" /\ card[w].status # "certified"
             => card[w].review
    BY DEF Serialised, Flagged, Publishes
  <1> QED
    BY <1>1, TypedInit, TypedNext, SerialisedInit, SerialisedNext, PTL
    DEF Spec, NoSilentDecertification

(* Under serial callers the as_of a consumer reads never goes back.        *)
THEOREM StampsInOrder ==
    ASSUME Exclusive
    PROVE  Spec => AsOfNeverRegresses
  <1>1. ASSUME Typed, Typed', Serialised, [Next]_vars
        PROVE  \A p \in Process, k \in Key :
                  store[p][k] # Null /\ store'[p][k] # Null
                    => store[p][k].asOf <= store'[p][k].asOf
    <2> SUFFICES ASSUME NEW p \in Process, NEW k \in Key,
                        store[p][k] # Null, store'[p][k] # Null
                 PROVE  store[p][k].asOf <= store'[p][k].asOf
      OBVIOUS
    <2>1. CASE store'[p][k] = store[p][k]
      <3>1. store[p][k].asOf \in Nat
        BY <1>1 DEF Typed, TypeOK, Entry
      <3> QED
        BY <2>1, <3>1
    <2>2. CASE store'[p][k] # store[p][k]
      <3>1. PICK w \in Worker : Save(w)
        <4>1. CASE \E q \in Process : Restart(q)
          BY <1>1, <2>2, <4>1 DEF Restart, Typed, TypeOK
        <4>2. CASE UNCHANGED store
          BY <2>2, <4>2
        <4> QED
          BY <1>1, <4>1, <4>2
          DEF Next, Proceed, Begin, Refuse, ReadMetadata, ReadSamples, ReadSchema, Score,
              WriteAudit, Fail, Route, RouteNotRequired, RouteOff, RouteSubmitted,
              RouteFailed, Hand, Reply, WarehouseMoves, Tick, vars
      <3>2. k = KeyOf(req[w]) /\ store'[p][k] = EntryOf(w)
        BY <1>1, <2>2, <3>1 DEF Save, Typed, TypeOK
      <3>3. req[w] # Null
        BY <1>1, <3>1, NullAssumption DEF Save, Typed, Held
      <3> QED
        BY <1>1, <3>2, <3>3 DEF Serialised, Stamped, EntryOf
    <2> QED
      BY <2>1, <2>2
  <1> QED
    BY <1>1, TypedInit, TypedNext, SerialisedInit, SerialisedNext, PTL
    DEF Spec, AsOfNeverRegresses

-----------------------------------------------------------------------------
(* What a fold is made of. No other step takes a worker from the reads to  *)
(* the audit.                                                              *)
LEMMA OnlyScoreFolds ==
    ASSUME Typed, [Next]_vars, NEW w \in Worker, Folds(w)
    PROVE  Score(w)
  <1> USE DEF Typed, TypeOK, Goto, locals
  <1>1. \A v \in Worker : Proceed(v) /\ v # w => ~Folds(w)
    BY DEF Proceed, ReadMetadata, ReadSamples, ReadSchema, Score, WriteAudit, Save, Route,
           RouteNotRequired, RouteOff, RouteSubmitted, RouteFailed, Hand, Reply, Folds
  <1>2. Proceed(w) => Score(w)
    BY DEF Proceed, ReadMetadata, ReadSamples, ReadSchema, WriteAudit, Save, Route,
           RouteNotRequired, RouteOff, RouteSubmitted, RouteFailed, Hand, Reply, Folds
  <1>3. \A v \in Worker : ~Fail(v)
    BY DEF Fail, Folds
  <1>4. \A v \in Worker, t \in Tenant, d \in Dataset : ~Begin(v, t, d)
    BY DEF Begin, Folds
  <1>5. ASSUME NEW p \in Process, Restart(p) PROVE FALSE
    <2>1. pc'[w] \in {"idle", pc[w]}
      BY <1>5 DEF Restart
    <2> QED
      BY <2>1 DEF Folds
  <1>6. ~Tick /\ ~UNCHANGED vars /\ \A d \in Dataset : ~WarehouseMoves(d)
    BY DEF Tick, vars, WarehouseMoves, Folds
  <1>7. \A v \in Worker, d \in Dataset : ~Refuse(v, d)
    BY DEF Refuse, Folds
  <1> QED
    BY <1>1, <1>2, <1>3, <1>4, <1>5, <1>6, <1>7 DEF Next

(* What a worker has read of a dataset that stood still is what the        *)
(* dataset is.                                                             *)
ReadRight(w) ==
    LET s == warehouse[req[w].dataset]
    IN steady[w] =>
        /\ pc[w] \in {"samples", "schema", "score"} => reading[w].metadata = s.metadata
        /\ pc[w] \in {"schema", "score"} => reading[w].samples = s.samples
        /\ pc[w] = "score" => reading[w].drift = DriftOf(KeyOf(req[w]), s.schema)

Right == \A w \in Worker : ReadRight(w)

LEMMA RightInit == Init => Right
  BY DEF Init, Right, ReadRight

(* A step that leaves the warehouse alone and starts no read. *)
LEMMA RightUntouched ==
    ASSUME Right, UNCHANGED warehouse,
           \A w \in Worker : pc'[w] \in {"samples", "schema", "score"} =>
               /\ pc'[w] = pc[w] /\ req'[w] = req[w]
               /\ reading'[w] = reading[w] /\ steady'[w] = steady[w]
    PROVE  Right'
  BY DEF Right, ReadRight

LEMMA RightNext == Typed /\ Right /\ [Next]_vars => Right'
  <1> SUFFICES ASSUME Typed, Right, [Next]_vars
               PROVE  Right'
    OBVIOUS
  <1> USE DEF Typed, TypeOK, Goto, locals
  <1>1. ASSUME NEW w \in Worker, NEW d \in Dataset,
               (\E t \in Tenant : Begin(w, t, d)) \/ Refuse(w, d)
        PROVE  Right'
    BY <1>1, RightUntouched DEF Begin, Refuse
  <1>2. ASSUME NEW w \in Worker, ReadMetadata(w) \/ ReadSamples(w) \/ ReadSchema(w)
        PROVE  Right'
    <2>1. /\ UNCHANGED <<warehouse, req, steady>>
          /\ \A v \in Worker \ {w} : pc'[v] = pc[v] /\ reading'[v] = reading[v]
      BY <1>2 DEF ReadMetadata, ReadSamples, ReadSchema
    <2>2. ReadRight(w)'
      <3>1. CASE ReadMetadata(w)
        BY <3>1, <2>1 DEF ReadMetadata, ReadRight
      <3>2. CASE ReadSamples(w)
        BY <3>2, <2>1 DEF ReadSamples, Right, ReadRight
      <3>3. CASE ReadSchema(w)
        BY <3>3, <2>1 DEF ReadSchema, Right, ReadRight
      <3> QED
        BY <1>2, <3>1, <3>2, <3>3
    <2> QED
      BY <2>1, <2>2 DEF Right, ReadRight
  <1>3. ASSUME NEW w \in Worker,
               \/ Score(w) \/ WriteAudit(w) \/ Save(w) \/ Route(w)
               \/ Reply(w) \/ Fail(w)
        PROVE  Right'
    BY <1>3, RightUntouched
    DEF Score, WriteAudit, Save, Route, RouteNotRequired, RouteOff, RouteSubmitted, RouteFailed,
        Hand, Reply, Fail, Clear
  <1>4. ASSUME NEW d \in Dataset, WarehouseMoves(d)
        PROVE  Right'
    <2> SUFFICES ASSUME NEW w \in Worker, steady'[w],
                        pc[w] \in {"samples", "schema", "score"}
                 PROVE  ReadRight(w)'
      BY <1>4 DEF WarehouseMoves, Right, ReadRight
    <2>1. steady[w] /\ req[w].dataset # d /\ req[w] \in Request
      BY <1>4 DEF WarehouseMoves, Reading, Held
    <2>2. warehouse'[req[w].dataset] = warehouse[req[w].dataset]
      BY <1>4, <2>1 DEF WarehouseMoves, Request
    <2> QED
      BY <1>4, <2>1, <2>2 DEF WarehouseMoves, Right, ReadRight
  <1>5. ASSUME NEW p \in Process, Restart(p)
        PROVE  Right'
    BY <1>5, RightUntouched DEF Restart
  <1>6. CASE Tick
    BY <1>6, RightUntouched DEF Tick
  <1>7. CASE UNCHANGED vars
    BY <1>7, RightUntouched DEF vars
  <1> QED
    BY <1>1, <1>2, <1>3, <1>4, <1>5, <1>6, <1>7 DEF Next, Proceed

(* A verdict on a dataset that did not move while it was read is the       *)
(* verdict of the dataset, however many other requests run meanwhile.      *)
THEOREM VerdictIsSteady == Spec => SteadyVerdict
  <1>1. ASSUME Typed, Right, [Next]_vars
        PROVE  \A w \in Worker :
                  Folds(w) /\ steady[w]
                    => card'[w].status = Fold(WarehouseReading(KeyOf(req[w])), NoStatus).status
    <2> SUFFICES ASSUME NEW w \in Worker, Folds(w), steady[w]
                 PROVE  card'[w].status
                          = Fold(WarehouseReading(KeyOf(req[w])), NoStatus).status
      OBVIOUS
    <2> DEFINE read == WarehouseReading(KeyOf(req[w]))
    <2>1. Score(w)
      BY <1>1, OnlyScoreFolds
    <2>2. pc[w] = "score" /\ card'[w] = Fold(reading[w], PriorStatus(w))
      BY <1>1, <2>1 DEF Score, Typed, TypeOK
    <2>3. KeyOf(req[w])[2] = req[w].dataset
      BY DEF KeyOf
    <2>4. /\ reading[w].metadata = read.metadata
          /\ reading[w].samples = read.samples
          /\ reading[w].drift = read.drift
      BY <1>1, <2>2, <2>3 DEF Right, ReadRight, WarehouseReading
    <2> HIDE DEF read
    <2>5. \A before : Fold(reading[w], before) = Fold(read, before)
      BY <2>4 DEF Fold
    <2>6. Fold(read, PriorStatus(w)).status = Fold(read, NoStatus).status
      BY LossIsFlagged DEF Fold
    <2> QED
      BY <2>2, <2>5, <2>6 DEF read
  <1> QED
    BY <1>1, TypedInit, TypedNext, RightInit, RightNext, PTL DEF Spec, SteadyVerdict

-----------------------------------------------------------------------------
(* Escalations. No scorecard says CERTIFIED and asks for review.           *)

Carries(w) == pc[w] \in {"audit", "save", "route", "reply"}

Clean == \A w \in Worker : Carries(w) /\ card[w].status = "certified" => ~card[w].review

Told == Clean /\ AccountedEscalation

LEMMA ToldInit == Init => Told
  BY DEF Init, Told, Clean, Carries, AccountedEscalation

(* Who carries a scorecard on keeps it, and the console forgets nothing.   *)
LEMMA ToldUntouched ==
    ASSUME Told, console \subseteq console',
           \A w \in Worker : Carries(w)' =>
               /\ Carries(w) /\ req'[w] = req[w] /\ card'[w] = card[w]
               /\ pc'[w] = "reply" => pc[w] = "reply" /\ outcome'[w] = outcome[w]
    PROVE  Told'
  <1>1. Clean'
    BY DEF Told, Clean, Carries
  <1>2. AccountedEscalation'
    BY DEF Told, AccountedEscalation, Carries, ReviewOf
  <1> QED
    BY <1>1, <1>2 DEF Told

LEMMA ToldNext == Typed /\ Told /\ [Next]_vars => Told'
  <1> SUFFICES ASSUME Typed, Told, [Next]_vars
               PROVE  Told'
    OBVIOUS
  <1> USE DEF Typed, TypeOK, Goto, locals
  <1>1. ASSUME NEW w \in Worker, NEW t \in Tenant, NEW d \in Dataset, Begin(w, t, d)
        PROVE  Told'
    BY <1>1, ToldUntouched DEF Begin, Carries
  <1>2. ASSUME NEW w \in Worker, NEW d \in Dataset, Refuse(w, d)
        PROVE  Told'
    BY <1>2, ToldUntouched DEF Refuse, Carries
  <1>3. ASSUME NEW w \in Worker, ReadMetadata(w) \/ ReadSamples(w) \/ ReadSchema(w)
        PROVE  Told'
    BY <1>3, ToldUntouched DEF ReadMetadata, ReadSamples, ReadSchema, Carries
  <1>4. ASSUME NEW w \in Worker, Score(w)
        PROVE  Told'
    <2>1. /\ card'[w] = Fold(reading[w], PriorStatus(w))
          /\ pc[w] = "score" /\ pc'[w] = "audit"
          /\ console' = console
          /\ \A v \in Worker \ {w} : /\ pc'[v] = pc[v] /\ card'[v] = card[v]
                                     /\ req'[v] = req[v] /\ outcome'[v] = outcome[v]
      BY <1>4 DEF Score
    <2>2. card'[w].status = "certified" => ~card'[w].review
      BY <2>1, CertifiedNeverEscalates DEF Fold
    <2>3. Clean'
      BY <2>1, <2>2 DEF Told, Clean, Carries
    <2>4. AccountedEscalation'
      BY <2>1 DEF Told, AccountedEscalation, ReviewOf
    <2> QED
      BY <2>3, <2>4 DEF Told
  <1>5. ASSUME NEW w \in Worker, WriteAudit(w)
        PROVE  Told'
    BY <1>5, ToldUntouched DEF WriteAudit, Carries
  <1>6. ASSUME NEW w \in Worker, Save(w)
        PROVE  Told'
    BY <1>6, ToldUntouched DEF Save, Carries
  <1>7. ASSUME NEW w \in Worker, Fail(w)
        PROVE  Told'
    BY <1>7, ToldUntouched DEF Fail, Clear, Carries
  <1>8. ASSUME NEW w \in Worker, Route(w)
        PROVE  Told'
    <2>1. PICK result \in Routings, reviews \in SUBSET {ReviewOf(w)} :
             /\ Hand(w, result, reviews)
             /\ card[w].review <=> result # "not_required"
             /\ result = "routed" => reviews = {ReviewOf(w)}
      BY <1>8 DEF Route, RouteNotRequired, RouteOff, RouteSubmitted, RouteFailed, Routings
    <2>2. /\ pc[w] = "route" /\ pc'[w] = "reply" /\ outcome'[w] = result
          /\ console' = console \cup reviews
          /\ UNCHANGED <<req, card>>
          /\ \A v \in Worker \ {w} : pc'[v] = pc[v] /\ outcome'[v] = outcome[v]
      BY <2>1 DEF Hand
    <2>3. Clean'
      BY <2>2 DEF Told, Clean, Carries
    <2>4. AccountedEscalation'
      BY <2>1, <2>2 DEF Told, AccountedEscalation, ReviewOf
    <2> QED
      BY <2>3, <2>4 DEF Told
  <1>9. ASSUME NEW w \in Worker, Reply(w)
        PROVE  Told'
    BY <1>9, ToldUntouched DEF Reply, Clear, Carries
  <1>10. ASSUME NEW d \in Dataset, WarehouseMoves(d)
         PROVE  Told'
    BY <1>10, ToldUntouched DEF WarehouseMoves, Carries
  <1>11. ASSUME NEW p \in Process, Restart(p)
         PROVE  Told'
    BY <1>11, ToldUntouched DEF Restart, Carries
  <1>12. CASE Tick
    BY <1>12, ToldUntouched DEF Tick, Carries
  <1>13. CASE UNCHANGED vars
    BY <1>13, ToldUntouched DEF vars, Carries
  <1> QED
    BY <1>1, <1>2, <1>3, <1>4, <1>5, <1>6, <1>7, <1>8, <1>9, <1>10, <1>11, <1>12, <1>13
    DEF Next, Proceed

(* What a caller is told of the hand-off is what happened to it: an        *)
(* escalation never passes for not required, and "routed" means the        *)
(* console has the review.                                                 *)
THEOREM EscalationsAccounted == Spec => []AccountedEscalation
  <1>1. Told => AccountedEscalation
    BY DEF Told
  <1> QED
    BY <1>1, TypedInit, TypedNext, ToldInit, ToldNext, PTL DEF Spec

(* An escalation without a sensitive finding rests on a certification of   *)
(* that dataset which is on record.                                        *)
THEOREM EscalationsJustified == Spec => JustifiedEscalation
  <1>1. ASSUME Typed, Trail, [Next]_vars
        PROVE  \A w \in Worker :
                  Folds(w) /\ card'[w].review /\ ~HasSensitive(reading[w].samples.pii)
                    => \E a \in audit : a.dataset = req[w].dataset /\ a.status = "certified"
    <2> SUFFICES ASSUME NEW w \in Worker, Folds(w), card'[w].review,
                        ~HasSensitive(reading[w].samples.pii)
                 PROVE  \E a \in audit : a.dataset = req[w].dataset /\ a.status = "certified"
      OBVIOUS
    <2> USE DEF Typed, TypeOK, Goto, locals
    <2>1. Score(w)
      BY <1>1, OnlyScoreFolds
    <2>2. card'[w] = Fold(reading[w], PriorStatus(w)) /\ pc[w] = "score"
      BY <1>1, <2>1 DEF Score
    <2>3. PriorStatus(w) = "certified"
      <3> DEFINE read == reading[w]
                 dq == read.metadata.dq \cup read.samples.dq
      <3>1. Fold(read, PriorStatus(w)).review
              = (Decertified(PriorStatus(w), Fold(read, PriorStatus(w)).status)
                   \/ HasSensitive(read.samples.pii))
        BY DEF Fold, Certify
      <3>2. Decertified(PriorStatus(w), Fold(read, PriorStatus(w)).status)
        BY <2>2, <3>1
      <3> QED
        BY <3>2 DEF Decertified
    <2>4. /\ req[w] \in Request
          /\ ProcessOf[w] \in Process /\ KeyOf(req[w]) \in Key
          /\ KeyOf(req[w])[2] = req[w].dataset
      <3>1. req[w] \in Request
        BY <1>1, <2>2 DEF Held
      <3> QED
        BY <3>1, ConstantsAssumption DEF KeyOf, Key, Request
    <2>5. /\ store[ProcessOf[w]][KeyOf(req[w])] # Null
          /\ store[ProcessOf[w]][KeyOf(req[w])].status = "certified"
      BY <2>3 DEF PriorStatus, StatusIn, NoStatus
    <2>6. \A p \in Process, k \in Key : store[p][k] # Null =>
             \E a \in audit : a.dataset = k[2] /\ a.status = store[p][k].status
      BY <1>1 DEF Trail, AuditedBeforePublished
    <2>7. \E a \in audit : /\ a.dataset = KeyOf(req[w])[2]
                            /\ a.status = store[ProcessOf[w]][KeyOf(req[w])].status
      BY <2>4, <2>5, <2>6
    <2> QED
      BY <2>4, <2>5, <2>7
  <1> QED
    BY <1>1, TypedInit, TypedNext, TrailInit, TrailNext, PTL DEF Spec, JustifiedEscalation

-----------------------------------------------------------------------------
(* The refinement. What a worker owes while it stands before the hand-off: *)

Due(w) == pc[w] = "route" /\ card[w].review

Item(w) == [process |-> ProcessOf[w], review |-> ReviewOf(w)]

LEMMA OwedItems == Owed = {Item(w) : w \in {v \in Worker : Due(v)}}
  BY DEF Owed, Due, Item

LEMMA OwedItemsNext == Owed' = {Item(w)' : w \in {v \in Worker : Due(v)'}}
  BY DEF Owed, Due, Item

(* Whoever is not at the hand-off, and stays away from it, owes nothing;   *)
(* whoever stays there owes what it owed.                                  *)
LEMMA OwedKept ==
    ASSUME \A w \in Worker : /\ (pc'[w] = "route") <=> (pc[w] = "route")
                             /\ pc[w] = "route" => req'[w] = req[w] /\ card'[w] = card[w]
    PROVE  Owed' = Owed
  <1>1. \A w \in Worker : Due(w)' <=> Due(w)
    BY DEF Due
  <1>2. \A w \in Worker : Due(w) => Item(w)' = Item(w)
    BY DEF Due, Item, ReviewOf
  <1> QED
    BY <1>1, <1>2, OwedItems, OwedItemsNext

(* What two workers owe differs when their keys do. *)
LEMMA ItemsDiffer ==
    ASSUME NEW v, NEW w, KeyOf(req[v]) # KeyOf(req[w])
    PROVE  Item(v) # Item(w)
  BY DEF Item, ReviewOf, KeyOf

(* The register a step leaves alone. *)
LEMMA QuietStep ==
    ASSUME UNCHANGED <<store, audit, console>>, Owed' = Owed
    PROVE  UNCHANGED Promise!promise
  BY DEF Promise!promise

LEMMA PromiseInit == Init => Promise!Init
  <1> SUFFICES ASSUME Init PROVE Promise!Init
    OBVIOUS
  <1>1. [p \in Process |-> [k \in Key |-> StatusIn(store[p][k])]]
          = [p \in Process |-> [k \in Key |-> NoStatus]]
    BY DEF Init, StatusIn
  <1>2. Owed = {}
    BY DEF Init, Owed
  <1> QED
    BY <1>1, <1>2 DEF Init, Promise!Init

(* Writing the audit record enters the verdict. *)
LEMMA EnterStep ==
    ASSUME Typed, NEW w \in Worker, pc[w] = "audit",
           audit' = audit \cup {AuditOf(w)}, UNCHANGED <<store, console>>, Owed' = Owed
    PROVE  Promise!Next
  <1>1. AuditOf(w) \in Promise!Verdict
    BY DEF Typed, Held, AuditOf, Request, Scored, Promise!Verdict
  <1>2. Promise!Enter(AuditOf(w))
    BY DEF Promise!Enter
  <1> QED
    BY <1>1, <1>2 DEF Promise!Next

(* Saving publishes the audited verdict: under serial callers the status   *)
(* it replaces is the one it was folded against.                           *)
LEMMA PublishStep ==
    ASSUME Typed, Trail, Serialised, Clean, NEW w \in Worker, Save(w)
    PROVE  Promise!Next
  <1> DEFINE p == ProcessOf[w]
             k == KeyOf(req[w])
             v == AuditOf(w)
             register == [q \in Process |-> [j \in Key |-> StatusIn(store[q][j])]]
  <1>1. /\ pc[w] = "save" /\ req[w] \in Request /\ card[w] \in Scored
        /\ store \in [Process -> [Key -> Entry \cup {Null}]]
        /\ store' = [store EXCEPT ![p][k] = EntryOf(w)]
        /\ pc' = [pc EXCEPT ![w] = "route"] /\ pc \in [Worker -> PCs]
        /\ UNCHANGED <<audit, console, req, card>>
    BY DEF Save, Goto, locals, Typed, TypeOK, Held
  <1>2. p \in Process /\ k \in Key /\ k[1] = req[w].tenant /\ k[2] = req[w].dataset
    BY <1>1, ConstantsAssumption DEF KeyOf, Key, Request
  <1>3. v \in audit /\ v.dataset = k[2] /\ v.status = card[w].status /\ v.review = card[w].review
        /\ v.severity = card[w].severity
    BY <1>1, <1>2 DEF Trail, Recorded, AuditOf
  <1>4. register[p][k] = PriorStatus(w)
    BY <1>2 DEF PriorStatus
  <1>5. register[p][k] = "certified" /\ v.status # "certified" => v.review
    BY <1>1, <1>3, <1>4 DEF Serialised, Flagged
  <1>6. v.status = "certified" => ~v.review
    BY <1>1, <1>3 DEF Clean, Carries
  <1>7. [q \in Process |-> [j \in Key |-> StatusIn(store[q][j])]]'
          = [register EXCEPT ![p][k] = v.status]
    <2>1. StatusIn(EntryOf(w)) = v.status
      <3>1. EntryOf(w) \in Entry
        BY <1>1 DEF EntryOf, Entry, Request, Scored
      <3> QED
        BY <3>1, <1>3, NullAssumption DEF StatusIn, EntryOf
    <2>2. ASSUME NEW q \in Process, NEW j \in Key
          PROVE  StatusIn(store'[q][j]) = [register EXCEPT ![p][k] = v.status][q][j]
      <3>1. CASE q = p /\ j = k
        BY <3>1, <1>1, <1>2, <2>1
      <3>2. CASE ~(q = p /\ j = k)
        <4>1. store'[q][j] = store[q][j]
          BY <3>2, <1>1, <1>2
        <4>2. [register EXCEPT ![p][k] = v.status][q][j] = register[q][j]
          BY <3>2, <1>2
        <4> QED
          BY <4>1, <4>2
      <3> QED
        BY <3>1, <3>2
    <2> QED
      BY <2>2
  <1>8. Owed' = Owed \cup (IF v.review THEN {[process |-> p, review |-> Promise!Case(k, v)]}
                           ELSE {})
    <2>1. Promise!Case(k, v) = ReviewOf(w)
      BY <1>2, <1>3 DEF Promise!Case, ReviewOf, AuditOf
    <2>2. \A u \in Worker : Item(u)' = Item(u)
      BY <1>1 DEF Item, ReviewOf
    <2>3. \A u \in Worker : Due(u)' <=> Due(u) \/ (u = w /\ card[w].review)
      BY <1>1 DEF Due
    <2>4. ~Due(w)
      BY <1>1 DEF Due
    <2>5. Item(w) = [process |-> p, review |-> Promise!Case(k, v)]
      BY <2>1 DEF Item
    <2> HIDE DEF p, k, v
    <2> QED
      BY <1>3, <2>2, <2>3, <2>5, OwedItems, OwedItemsNext
  <1>9. Promise!Publish(p, k, v)
    BY <1>1, <1>2, <1>3, <1>5, <1>6, <1>7, <1>8 DEF Promise!Publish, Promise!TakesAway
  <1>10. p \in Process /\ k \in Key /\ v \in audit
    BY <1>2, <1>3
  <1> QED
    BY <1>9, <1>10 DEF Promise!Next

(* Handing off takes from what is owed exactly what the worker owed: under *)
(* serial callers no other worker owes the same.                           *)
LEMMA OwedLess ==
    ASSUME Typed, Serialised, NEW w \in Worker, Due(w),
           pc' = [pc EXCEPT ![w] = "reply"], UNCHANGED <<req, card>>
    PROVE  Item(w) \in Owed /\ Owed' = Owed \ {Item(w)}
  <1>1. \A v \in Worker : Due(v)' <=> Due(v) /\ v # w
    BY DEF Typed, TypeOK, Due
  <1>2. \A v \in Worker : Item(v)' = Item(v)
    BY DEF Item, ReviewOf
  <1>3. \A v \in Worker : Due(v) => req[v] # Null
    BY NullAssumption DEF Due, Typed, Held
  <1>4. \A v \in Worker : Due(v) /\ v # w => Item(v) # Item(w)
    <2> SUFFICES ASSUME NEW v \in Worker, Due(v), v # w PROVE Item(v) # Item(w)
      OBVIOUS
    <2>1. KeyOf(req[v]) # KeyOf(req[w])
      BY <1>3 DEF Serialised, Serial
    <2> QED
      BY <2>1, ItemsDiffer
  <1>5. Owed' = {Item(v) : v \in {u \in Worker : Due(u) /\ u # w}}
    BY <1>1, <1>2, OwedItemsNext
  <1> QED
    BY <1>4, <1>5, OwedItems

LEMMA RouteStep ==
    ASSUME Typed, Serialised, NEW w \in Worker, Route(w)
    PROVE  [Promise!Next]_Promise!promise
  <1>1. PICK result \in Routings, reviews \in SUBSET {ReviewOf(w)} :
            /\ Hand(w, result, reviews)
            /\ reviews # {} => card[w].review
    BY DEF Route, RouteNotRequired, RouteOff, RouteSubmitted, RouteFailed, Routings
  <1>2. /\ pc[w] = "route" /\ pc' = [pc EXCEPT ![w] = "reply"]
        /\ console' = console \cup reviews
        /\ UNCHANGED <<store, audit, req, card>>
    BY <1>1 DEF Hand, Goto
  <1>3. CASE ~card[w].review
    <2>1. \A v \in Worker : Due(v)' <=> Due(v)
      BY <1>2, <1>3 DEF Due, Typed, TypeOK
    <2>2. \A v \in Worker : Item(v)' = Item(v)
      BY <1>2 DEF Item, ReviewOf
    <2>3. Owed' = Owed
      BY <2>1, <2>2, OwedItems, OwedItemsNext
    <2>4. console' = console
      BY <1>1, <1>2, <1>3
    <2> QED
      BY <1>2, <2>3, <2>4, QuietStep
  <1>4. CASE card[w].review
    <2>1. Item(w) \in Owed /\ Owed' = Owed \ {Item(w)}
      BY <1>2, <1>4, OwedLess DEF Due
    <2>2. Item(w).review = ReviewOf(w)
      BY DEF Item
    <2>3. CASE reviews = {ReviewOf(w)}
      BY <1>2, <2>1, <2>2, <2>3 DEF Promise!Next, Promise!HandOff
    <2>4. CASE reviews = {}
      BY <1>2, <2>1, <2>4 DEF Promise!Next, Promise!GiveUp
    <2> QED
      BY <2>3, <2>4
  <1> QED
    BY <1>3, <1>4

(* A restart forgets a process: its register and what its workers owed. *)
LEMMA ForgetStep ==
    ASSUME Typed, NEW p \in Process, Restart(p)
    PROVE  Promise!Next
  <1>1. /\ store' = [store EXCEPT ![p] = [k \in Key |-> Null]]
        /\ store \in [Process -> [Key -> Entry \cup {Null}]]
        /\ UNCHANGED <<audit, console>>
    BY DEF Restart, Typed, TypeOK
  <1>2. \A w \in Worker : IF ProcessOf[w] = p THEN pc'[w] = "idle"
                          ELSE pc'[w] = pc[w] /\ req'[w] = req[w] /\ card'[w] = card[w]
    BY DEF Restart
  <1>3. [q \in Process |-> [j \in Key |-> StatusIn(store[q][j])]]'
          = [[q \in Process |-> [j \in Key |-> StatusIn(store[q][j])]]
                EXCEPT ![p] = [j \in Key |-> NoStatus]]
    <2>1. ASSUME NEW q \in Process, NEW j \in Key
          PROVE  StatusIn(store'[q][j]) = IF q = p THEN NoStatus ELSE StatusIn(store[q][j])
      BY <1>1 DEF StatusIn
    <2> QED
      BY <2>1
  <1>4. Owed' = {o \in Owed : o.process # p}
    <2>1. \A w \in Worker : Due(w)' <=> Due(w) /\ ProcessOf[w] # p
      BY <1>2 DEF Due
    <2>2. \A w \in Worker : Due(w)' => Item(w)' = Item(w)
      BY <1>2 DEF Due, Item, ReviewOf
    <2>3. \A w \in Worker : Item(w).process = ProcessOf[w]
      BY DEF Item
    <2> QED
      BY <2>1, <2>2, <2>3, OwedItems, OwedItemsNext
  <1>5. Promise!Forget(p)
    BY <1>1, <1>3, <1>4 DEF Promise!Forget
  <1> QED
    BY <1>5 DEF Promise!Next

LEMMA PromiseNext ==
    ASSUME Typed, Trail, Serialised, Clean, [Next]_vars
    PROVE  [Promise!Next]_Promise!promise
  <1> USE DEF Typed, TypeOK, Goto, locals
  <1>1. ASSUME NEW w \in Worker, NEW d \in Dataset,
               (\E t \in Tenant : Begin(w, t, d)) \/ Refuse(w, d)
        PROVE  [Promise!Next]_Promise!promise
    <2>1. UNCHANGED <<store, audit, console, card>>
      BY <1>1 DEF Begin, Refuse
    <2>2. \A v \in Worker : /\ (pc'[v] = "route") <=> (pc[v] = "route")
                            /\ pc[v] = "route" => req'[v] = req[v]
      BY <1>1 DEF Begin, Refuse
    <2> QED
      BY <2>1, <2>2, OwedKept, QuietStep
  <1>2. ASSUME NEW w \in Worker,
               \/ ReadMetadata(w) \/ ReadSamples(w) \/ ReadSchema(w)
               \/ Score(w) \/ Reply(w)
        PROVE  [Promise!Next]_Promise!promise
    <2>1. UNCHANGED <<store, audit, console>>
      BY <1>2 DEF ReadMetadata, ReadSamples, ReadSchema, Score, Reply
    <2>2. \A v \in Worker : /\ (pc'[v] = "route") <=> (pc[v] = "route")
                            /\ pc[v] = "route" => req'[v] = req[v] /\ card'[v] = card[v]
      BY <1>2 DEF ReadMetadata, ReadSamples, ReadSchema, Score, Reply, Clear
    <2> QED
      BY <2>1, <2>2, OwedKept, QuietStep
  <1>3. ASSUME NEW w \in Worker, WriteAudit(w)
        PROVE  [Promise!Next]_Promise!promise
    <2>1. \A v \in Worker : /\ (pc'[v] = "route") <=> (pc[v] = "route")
                            /\ req'[v] = req[v] /\ card'[v] = card[v]
      BY <1>3 DEF WriteAudit
    <2>2. Owed' = Owed
      BY <2>1, OwedKept
    <2> QED
      BY <1>3, <2>2, EnterStep DEF WriteAudit
  <1>4. ASSUME NEW w \in Worker, Fail(w)
        PROVE  [Promise!Next]_Promise!promise
    <2>1. \A v \in Worker : /\ (pc'[v] = "route") <=> (pc[v] = "route")
                            /\ pc[v] = "route" => req'[v] = req[v] /\ card'[v] = card[v]
      BY <1>4 DEF Fail, Clear
    <2>2. Owed' = Owed
      BY <2>1, OwedKept
    <2>3. UNCHANGED <<store, console>> /\ audit' \in {audit, audit \cup Appended(w)}
      BY <1>4 DEF Fail
    <2>4. CASE audit' = audit
      BY <2>2, <2>3, <2>4, QuietStep
    <2>5. CASE audit' # audit
      <3>1. pc[w] = "audit" /\ audit' = audit \cup {AuditOf(w)}
        BY <2>3, <2>5 DEF Appended
      <3> QED
        BY <3>1, <2>2, <2>3, EnterStep
    <2> QED
      BY <2>4, <2>5
  <1>5. ASSUME NEW d \in Dataset, WarehouseMoves(d)
        PROVE  [Promise!Next]_Promise!promise
    BY <1>5, OwedKept, QuietStep DEF WarehouseMoves
  <1>6. CASE Tick
    BY <1>6, OwedKept, QuietStep DEF Tick
  <1>7. CASE UNCHANGED vars
    BY <1>7, OwedKept, QuietStep DEF vars
  <1>8. ASSUME NEW w \in Worker, Proceed(w)
        PROVE  [Promise!Next]_Promise!promise
    BY <1>2, <1>3, <1>8, PublishStep, RouteStep DEF Proceed
  <1>9. ASSUME NEW p \in Process, Restart(p)
        PROVE  [Promise!Next]_Promise!promise
    BY <1>9, ForgetStep
  <1> QED
    BY <1>1, <1>4, <1>5, <1>6, <1>7, <1>8, <1>9 DEF Next

(* Serial callers get what CertificationPromise states: nothing unaudited  *)
(* is published, no certification is taken away unflagged, and a case is   *)
(* opened only for a flagged verdict that was published.                   *)
THEOREM PipelineKeepsPromise ==
    ASSUME Exclusive
    PROVE  Spec => KeepsPromise
  <1>1. Told => Clean
    BY DEF Told
  <1> QED
    BY <1>1, TypedInit, TypedNext, TrailInit, TrailNext, SerialisedInit, SerialisedNext,
       ToldInit, ToldNext, PromiseInit, PromiseNext, PTL
    DEF Spec, KeepsPromise, Promise!Spec

=============================================================================
