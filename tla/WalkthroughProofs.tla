------------------------- MODULE WalkthroughProofs -------------------------
(***************************************************************************)
(* What the walkthrough tells its audience, for any number of restarts,    *)
(* raised steps and presses at the page: the run that the server holds     *)
(* meets the expectations of the step it shows, and a pass is about one    *)
(* run. The first needs what the run has done by each of its steps; the    *)
(* second, which run the walkthrough looks at.                             *)
(***************************************************************************)
EXTENDS Walkthrough, FiniteSetTheorems, SequenceTheorems, TLAPS

-----------------------------------------------------------------------------
(* The audit trail of a run.                                               *)

Events ==
    [subject : DemoDatasets, decision : {"allowed", "escalated"},
     severity : {"low", "medium", "high"}, summary : SUBSET {PlantedNric}]
Hashes == Events \X Nat
Rows == [event : Events, hash : Hashes]
Trails == [rows : Seq(Rows), anchored : BOOLEAN, anchor : SUBSET Hashes]

\* Every row carries a hash of its own place, and only the first one was written with the
\* severity that the rewrite of the demo puts in.
Chained(t) ==
    /\ t.anchored /\ AnchorHolds(t)
    /\ \A i \in DOMAIN t.rows :
         /\ t.rows[i].hash[2] = i
         /\ t.rows[i].event.summary = {}
         /\ i > 1 => t.rows[i].hash[1].severity # "low"

LEMMA NewTrailChained ==
    ASSUME NEW t, t = [rows |-> <<>>, anchored |-> TRUE, anchor |-> {}]
    PROVE  /\ t \in Trails /\ Chained(t)
           /\ t.rows = <<>> /\ BrokenRows(t.rows) = {}
  <1>1. t.rows = <<>> /\ t.anchored /\ t.anchor = {} /\ DOMAIN t.rows = {}
    OBVIOUS
  <1>2. t \in Trails
    BY DEF Trails
  <1> QED
    BY <1>1, <1>2 DEF Chained, AnchorHolds, HeadOf, BrokenRows

\* An append keeps the chain, and breaks no row.
LEMMA RecordChained ==
    ASSUME NEW t \in Trails, Chained(t),
           NEW e \in Events, e.summary = {}, t.rows # <<>> => e.severity # "low",
           NEW u \in Record(t, e)
    PROVE  /\ u \in Trails /\ Chained(u)
           /\ Len(u.rows) = Len(t.rows) + 1
           /\ u.rows[Len(u.rows)].event = e
           /\ BrokenRows(u.rows) = BrokenRows(t.rows)
  <1> DEFINE n == Len(t.rows) + 1
             row == [event |-> e, hash |-> HashOf(e, n)]
             rows == Append(t.rows, row)
  <1>1. t.rows \in Seq(Rows) /\ n \in Nat \ {0}
    BY DEF Trails
  <1>2. row \in Rows /\ row.hash \in Hashes /\ row.hash[1] = e /\ row.hash[2] = n
    BY <1>1 DEF Rows, Hashes, HashOf
  <1>3. u = [t EXCEPT !.rows = rows, !.anchor = {row.hash}]
    BY DEF Record, Chained
  <1>4. u.rows = rows /\ u.anchored /\ u.anchor = {row.hash}
        /\ u = [rows |-> u.rows, anchored |-> u.anchored, anchor |-> u.anchor]
    BY <1>3 DEF Trails, Chained
  <1>5. /\ rows \in Seq(Rows) /\ Len(rows) = n
        /\ rows[n] = row /\ DOMAIN rows = 1 .. n
        /\ \A i \in 1 .. n - 1 : rows[i] = t.rows[i]
        /\ DOMAIN t.rows = 1 .. n - 1
    BY <1>1, <1>2
  <1> HIDE DEF rows, row
  <1>6. u \in Trails
    BY <1>2, <1>4, <1>5 DEF Trails, Chained
  <1>7. u.anchor = HeadOf(u.rows)
    BY <1>1, <1>4, <1>5 DEF HeadOf
  <1>8. row.event = e
    BY DEF row
  <1>9. n > 1 => e.severity # "low"
    BY <1>1, <1>5
  <1>10. \A i \in DOMAIN u.rows :
           /\ u.rows[i].hash[2] = i
           /\ u.rows[i].event.summary = {}
           /\ i > 1 => u.rows[i].hash[1].severity # "low"
    <2> TAKE i \in DOMAIN u.rows
    <2>1. CASE i = n
      BY <1>2, <1>4, <1>5, <1>8, <1>9, <2>1
    <2>2. CASE i # n
      <3>1. i \in DOMAIN t.rows /\ u.rows[i] = t.rows[i]
        BY <1>1, <1>4, <1>5, <2>2
      <3> QED
        BY <3>1 DEF Chained
    <2> QED
      BY <2>1, <2>2
  <1>11. BrokenRows(u.rows) = BrokenRows(t.rows)
    <2>1. row.hash = HashOf(row.event, n)
      BY DEF row
    <2>2. \A i \in DOMAIN u.rows :
            u.rows[i].hash # HashOf(u.rows[i].event, i)
              <=> i \in DOMAIN t.rows /\ t.rows[i].hash # HashOf(t.rows[i].event, i)
      BY <1>1, <1>4, <1>5, <2>1
    <2>3. DOMAIN t.rows \subseteq DOMAIN u.rows
      BY <1>1, <1>4, <1>5
    <2> QED
      BY <2>2, <2>3 DEF BrokenRows
  <1> QED
    BY <1>4, <1>5, <1>6, <1>7, <1>8, <1>10, <1>11 DEF Chained, AnchorHolds

\* The rewrite of an interior record breaks that row, and no other.
LEMMA RewriteBreaks ==
    ASSUME NEW t \in Trails, Chained(t), Len(t.rows) >= 3,
           BrokenRows(t.rows) \subseteq {Interior(t)},
           NEW u, u = Rewrite(t, Interior(t), "allowed", "low")
    PROVE  /\ u \in Trails /\ Chained(u)
           /\ Len(u.rows) = Len(t.rows) /\ Interior(u) = Interior(t)
           /\ BrokenRows(u.rows) = {Interior(t)}
  <1> DEFINE k == Interior(t)
             event == [t.rows[k].event EXCEPT !.decision = "allowed", !.severity = "low"]
             row == [event |-> event, hash |-> t.rows[k].hash]
             rows == [t.rows EXCEPT ![k] = row]
  <1>1. t.rows \in Seq(Rows) /\ Len(t.rows) \in Nat
    BY DEF Trails
  <1>2. k \in 2 .. Len(t.rows) - 1 /\ k \in DOMAIN t.rows
    <2>1. ASSUME NEW n \in Nat, n >= 3
          PROVE  n \div 2 + 1 \in Nat /\ n \div 2 + 1 >= 2 /\ n \div 2 + 1 <= n - 1
      BY <2>1
    <2>2. k \in Nat /\ k >= 2 /\ k <= Len(t.rows) - 1
      BY <1>1, <2>1 DEF Interior
    <2> QED
      BY <1>1, <2>2
  <1> HIDE DEF k
  <1>3. t.rows[k] \in Rows
    BY <1>1, <1>2
  <1>4. event \in Events /\ event.severity = "low" /\ event.summary = t.rows[k].event.summary
    BY <1>3 DEF Rows, Events
  <1>5. row \in Rows
    BY <1>3, <1>4 DEF Rows
  <1>6. u = [t EXCEPT !.rows = rows]
    <2>1. t.rows[k] = [event |-> t.rows[k].event, hash |-> t.rows[k].hash]
      BY <1>3 DEF Rows
    <2>2. [t.rows[k] EXCEPT !.event = event] = row
      BY <2>1
    <2> QED
      BY <1>2, <2>2 DEF Rewrite, k, Trails
  <1> HIDE DEF event
  <1>7. u.rows = rows /\ u.anchored = t.anchored /\ u.anchor = t.anchor
        /\ u = [rows |-> u.rows, anchored |-> u.anchored, anchor |-> u.anchor]
    BY <1>6 DEF Trails
  <1>8. /\ rows \in Seq(Rows) /\ Len(rows) = Len(t.rows) /\ DOMAIN rows = DOMAIN t.rows
        /\ rows[k] = row
        /\ \A i \in DOMAIN t.rows : i # k => rows[i] = t.rows[i]
    BY <1>1, <1>2, <1>5
  <1>9. row.event = event /\ row.hash = t.rows[k].hash
    OBVIOUS
  <1> HIDE DEF rows, row
  <1>10. u \in Trails
    BY <1>7, <1>8 DEF Trails
  <1>11. \A i \in DOMAIN u.rows : u.rows[i].hash = t.rows[i].hash
                                  /\ u.rows[i].event.summary = t.rows[i].event.summary
    BY <1>4, <1>7, <1>8, <1>9
  <1>12. Chained(u)
    <2>1. HeadOf(u.rows) = HeadOf(t.rows)
      <3>1. Len(t.rows) \in DOMAIN t.rows /\ u.rows # <<>> /\ t.rows # <<>>
        BY <1>1, <1>7, <1>8
      <3> QED
        BY <1>7, <1>8, <1>11, <3>1 DEF HeadOf
    <2>2. u.anchored /\ AnchorHolds(u)
      BY <1>7, <2>1 DEF Chained, AnchorHolds
    <2>3. ASSUME NEW i \in DOMAIN u.rows
          PROVE  /\ u.rows[i].hash[2] = i
                 /\ u.rows[i].event.summary = {}
                 /\ i > 1 => u.rows[i].hash[1].severity # "low"
      <3>1. i \in DOMAIN t.rows
        BY <1>7, <1>8
      <3> QED
        BY <1>11, <3>1 DEF Chained
    <2> QED
      BY <2>2, <2>3 DEF Chained
  <1>13. k \in BrokenRows(u.rows)
    <2>1. t.rows[k].hash[1].severity # "low"
      BY <1>1, <1>2 DEF Chained
    <2>2. u.rows[k].hash[1].severity # u.rows[k].event.severity
      BY <1>4, <1>7, <1>8, <1>9, <2>1
    <2>3. u.rows[k].hash # HashOf(u.rows[k].event, k)
      <3> SUFFICES ASSUME u.rows[k].hash = HashOf(u.rows[k].event, k) PROVE FALSE
        OBVIOUS
      <3>1. u.rows[k].hash[1] = u.rows[k].event
        BY DEF HashOf
      <3> QED
        BY <2>2, <3>1
    <2> QED
      BY <1>2, <1>7, <1>8, <2>3 DEF BrokenRows
  <1>14. BrokenRows(u.rows) \subseteq {k}
    <2> SUFFICES ASSUME NEW i \in BrokenRows(u.rows), i # k PROVE FALSE
      OBVIOUS
    <2>1. i \in BrokenRows(t.rows)
      BY <1>7, <1>8 DEF BrokenRows
    <2> QED
      BY <2>1 DEF k
  <1> QED
    BY <1>7, <1>8, <1>10, <1>12, <1>13, <1>14 DEF k, Interior

LEMMA VerifyIsTrue ==
    ASSUME NEW t, Chained(t)
    PROVE  /\ VerifyChain(t).ok <=> BrokenRows(t.rows) = {}
           /\ VerifyChain(t).entries = Len(t.rows)
           /\ \A k \in Nat : BrokenRows(t.rows) = {k} => VerifyChain(t).first_bad = k
  <1>1. ASSUME NEW k \in Nat PROVE Min({k}) = k
    BY DEF Min
  <1> QED
    BY <1>1 DEF VerifyChain, Chained

-----------------------------------------------------------------------------
(* What a run has done by the time it has finished n steps. A step that    *)
(* raised may be halfway through the next one.                             *)

Facts ==
    [profile : {LocalProfile}, sdk_modules : {{}}, profiles : {KnownProfiles}]
      \cup [status : SC!Statuses, review : BOOLEAN, review_ref : BOOLEAN]
      \cup [status : SC!Statuses, leaked : BOOLEAN]
      \cup [pending : Nat, wire_leak : BOOLEAN]
      \cup [chain_ok : BOOLEAN, entries : Nat, round_trip_ok : BOOLEAN, anchored : BOOLEAN]
      \cup [chain_ok : BOOLEAN, detected : BOOLEAN]
      \cup [refused : SUBSET Ports, absent : SUBSET Ports]

Results == [key : StepKeys, facts : SUBSET Facts]
History == [DemoDatasets -> SC!Statuses \cup {SC!NoStatus}]

Runs ==
    [id : Nat, results : Seq(Results), trail : Trails, outbox : Seq(SUBSET {PlantedNric}),
     prior : History, datasets : Nat, certified : Nat, escalated : Nat, routed : Nat,
     chain_ok : BOOLEAN]

\* The trail has a record of each certification, and no broken row before the tamper step.
Trailed(r, n) ==
    /\ Chained(r.trail)
    /\ n < 2 => r.trail.rows = <<>>
    /\ \A k \in {2, 3, 4} : n >= k => Len(r.trail.rows) >= k - 1
    /\ n < 6 => BrokenRows(r.trail.rows) = {}
    /\ BrokenRows(r.trail.rows) \subseteq {Interior(r.trail)}

\* Every escalation is in the queue, without the planted identifier, and no dataset has a
\* history that its next verdict falls short of.
Queued(r, n) ==
    /\ \A d \in DemoDatasets : r.prior[d] \in {SC!NoStatus, Fixture[d].status}
    /\ Len(r.outbox) = r.routed /\ r.routed = r.escalated
    /\ \A i \in DOMAIN r.outbox : r.outbox[i] = {}
    /\ n <= 2 => r.escalated = 0

\* A step that was performed leaves results that meet its expectations.
Met(key, o) ==
    \A s : s.step = key /\ s.facts = o.facts /\ s.escalated = o.run.escalated
             /\ s.routed = o.run.routed => Problems(s) = {}

Same(r, q) == q.id = r.id /\ q.results = r.results

\* What performing the step after the n-th does to a run.
Follows(r, n, key, o) ==
    /\ o.run \in Runs /\ Same(r, o.run) /\ o.facts \in SUBSET Facts
    /\ o.facts = {} => /\ Trailed(o.run, n) /\ Queued(o.run, n)
                       /\ o.run.escalated = r.escalated /\ o.run.routed = r.routed
    /\ o.facts # {} => Trailed(o.run, n + 1) /\ Queued(o.run, n + 1) /\ Met(key, o)

LEMMA RaisedFollows ==
    ASSUME NEW r \in Runs, NEW n \in Nat, NEW key, Trailed(r, n), Queued(r, n)
    PROVE  Follows(r, n, key, Raised(r))
  BY DEF Raised, Follows, Same

-----------------------------------------------------------------------------
(* Certifying a dataset, whatever history it has.                          *)

LEMMA FixtureIs ==
    ASSUME NEW d \in DemoDatasets
    PROVE  /\ Fixture[d].status \in SC!Statuses
           /\ Fixture[d].severity \in {"low", "medium", "high"}
           /\ d = CertifiedDataset => Fixture[d].status = "certified" /\ ~Fixture[d].sensitive
           /\ d = ReviewDataset => Fixture[d].status = "conditional" /\ Fixture[d].sensitive
           /\ d = UncertifiedDataset => Fixture[d].status = "uncertified" /\ ~Fixture[d].sensitive
           /\ d # CertifiedDataset => Fixture[d].severity # "low"
  BY DEF Fixture, DemoDatasets, CertifiedDataset, ReviewDataset, UncertifiedDataset, SC!Statuses

\* The only dataset that asks for review is the one with sensitive columns: no history does.
LEMMA CardIs ==
    ASSUME NEW r \in Runs, NEW n \in Nat, Queued(r, n), NEW d \in DemoDatasets
    PROVE  /\ Card(d, r.prior).status = Fixture[d].status
           /\ Card(d, r.prior).review = (d = ReviewDataset)
  <1>1. Card(d, r.prior).status = Fixture[d].status
    BY DEF Card
  <1>2. ~SC!Decertified(r.prior[d], Fixture[d].status)
    BY DEF Queued, SC!Decertified, SC!NoStatus
  <1>3. Fixture[d].sensitive = (d = ReviewDataset)
    BY FixtureIs DEF DemoDatasets, CertifiedDataset, ReviewDataset, UncertifiedDataset, Fixture
  <1>4. Card(d, r.prior).review
          = (SC!Decertified(r.prior[d], Fixture[d].status) \/ Fixture[d].sensitive)
    BY DEF Card
  <1> QED
    BY <1>1, <1>2, <1>3, <1>4

LEMMA EventIs ==
    ASSUME NEW r \in Runs, NEW n \in Nat, Queued(r, n), NEW d \in DemoDatasets,
           NEW e, e = AuditEvent(d, Card(d, r.prior))
    PROVE  /\ e \in Events /\ e.summary = {}
           /\ d # CertifiedDataset => e.severity # "low"
  <1> DEFINE card == Card(d, r.prior)
  <1>1. Redact({PlantedNric}) = {}
    BY DEF Redact
  <1>2. e = [subject |-> d, decision |-> IF card.review THEN "escalated" ELSE "allowed",
             severity |-> Fixture[d].severity, summary |-> {}]
    BY <1>1 DEF AuditEvent
  <1> HIDE DEF card
  <1> QED
    BY <1>2, FixtureIs DEF Events

\* The dataset that asks for review, and what certifying one adds to the counters.
Asks(d) == d = ReviewDataset
One(d) == IF d = ReviewDataset THEN 1 ELSE 0
Held(d) == IF Fixture[d].status = "certified" THEN 1 ELSE 0

\* What certifying d leaves of a run when it does not raise and the trail becomes t.
Certifies(r, d, t, o) ==
    /\ o.facts = {[status |-> Fixture[d].status, review |-> Asks(d), review_ref |-> Asks(d)]}
    /\ o.run = [id |-> r.id, results |-> r.results, trail |-> t,
                outbox |-> IF d = ReviewDataset
                           THEN Append(r.outbox, AuditEvent(d, Card(d, r.prior)).summary)
                           ELSE r.outbox,
                prior |-> [r.prior EXCEPT ![d] = Fixture[d].status],
                datasets |-> r.datasets + 1,
                certified |-> r.certified + Held(d),
                escalated |-> r.escalated + One(d),
                routed |-> r.routed + One(d),
                chain_ok |-> r.chain_ok]

LEMMA CertifyLeaves ==
    ASSUME NEW r \in Runs, NEW n \in Nat, Queued(r, n),
           NEW d \in DemoDatasets, NEW o \in CertifyPanels(r, d), o # Raised(r)
    PROVE  \E t \in Record(r.trail, AuditEvent(d, Card(d, r.prior))) : Certifies(r, d, t, o)
  <1> DEFINE card == Card(d, r.prior)
             event == AuditEvent(d, card)
  <1>1. card.status = Fixture[d].status /\ card.review = (d = ReviewDataset)
    BY CardIs
  <1>2. PICK t \in Record(r.trail, event) :
           o = Produced([r EXCEPT !.trail = t,
                                  !.prior[d] = card.status,
                                  !.datasets = @ + 1,
                                  !.certified = @ + If(card.status = "certified"),
                                  !.escalated = @ + If(card.review),
                                  !.outbox = IF card.review THEN Append(@, event.summary) ELSE @,
                                  !.routed = @ + If(card.review)],
                        [status |-> card.status, review |-> card.review,
                         review_ref |-> card.review])
    BY DEF CertifyPanels
  <1> HIDE DEF event, card
  <1>3. o.facts = {[status |-> card.status, review |-> card.review, review_ref |-> card.review]}
    BY <1>2 DEF Produced
  <1>4. o.run = [r EXCEPT !.trail = t,
                          !.prior[d] = card.status,
                          !.datasets = @ + 1,
                          !.certified = @ + If(card.status = "certified"),
                          !.escalated = @ + If(card.review),
                          !.outbox = IF card.review THEN Append(@, event.summary) ELSE @,
                          !.routed = @ + If(card.review)]
    BY <1>2 DEF Produced
  <1>5. o.run = [id |-> r.id, results |-> r.results, trail |-> t,
                 outbox |-> IF card.review THEN Append(r.outbox, event.summary) ELSE r.outbox,
                 prior |-> [r.prior EXCEPT ![d] = card.status],
                 datasets |-> r.datasets + 1,
                 certified |-> r.certified + If(card.status = "certified"),
                 escalated |-> r.escalated + If(card.review),
                 routed |-> r.routed + If(card.review),
                 chain_ok |-> r.chain_ok]
    BY <1>4 DEF Runs
  <1> QED
    BY <1>1, <1>3, <1>5 DEF event, card, If, Asks, One, Held, Certifies

LEMMA CertifyFollows ==
    ASSUME NEW r \in Runs, NEW n \in 1 .. 5, Trailed(r, n), Queued(r, n),
           NEW d \in DemoDatasets, NEW o \in CertifyPanels(r, d), o # Raised(r),
           d = CertifiedDataset => n = 1, d = ReviewDataset => n > 1
    PROVE  /\ o.run \in Runs /\ Same(r, o.run)
           /\ Trailed(o.run, n + 1) /\ Queued(o.run, n + 1)
           /\ o.facts = {[status |-> Fixture[d].status, review |-> Asks(d),
                          review_ref |-> Asks(d)]}
           /\ d # ReviewDataset => o.run.escalated = r.escalated /\ o.run.routed = r.routed
           /\ Len(o.run.trail.rows) > 0 /\ o.run.trail.rows[Len(o.run.trail.rows)].event.summary = {}
  <1> DEFINE event == AuditEvent(d, Card(d, r.prior))
             queue == IF d = ReviewDataset THEN Append(r.outbox, event.summary) ELSE r.outbox
             prior == [r.prior EXCEPT ![d] = Fixture[d].status]
  <1>1. event \in Events /\ event.summary = {} /\ (d # CertifiedDataset => event.severity # "low")
    BY EventIs
  <1>0. PICK t \in Record(r.trail, event) : Certifies(r, d, t, o)
    BY CertifyLeaves
  <1>2. /\ o.facts = {[status |-> Fixture[d].status, review |-> Asks(d), review_ref |-> Asks(d)]}
        /\ o.run = [id |-> r.id, results |-> r.results, trail |-> t, outbox |-> queue,
                    prior |-> prior, datasets |-> r.datasets + 1,
                    certified |-> r.certified + Held(d), escalated |-> r.escalated + One(d),
                    routed |-> r.routed + One(d), chain_ok |-> r.chain_ok]
    BY <1>0 DEF Certifies
  <1> HIDE DEF event
  <1>3. /\ r.trail \in Trails /\ r.outbox \in Seq(SUBSET {PlantedNric}) /\ r.prior \in History
        /\ r.escalated \in Nat /\ r.routed \in Nat /\ r.datasets \in Nat /\ r.certified \in Nat
        /\ r.id \in Nat /\ r.results \in Seq(Results) /\ r.chain_ok \in BOOLEAN
    BY DEF Runs
  <1>4. r.trail.rows # <<>> => event.severity # "low"
    BY <1>1 DEF Trailed
  <1>5. /\ t \in Trails /\ Chained(t) /\ Len(t.rows) = Len(r.trail.rows) + 1
        /\ t.rows[Len(t.rows)].event = event
        /\ BrokenRows(t.rows) = BrokenRows(r.trail.rows)
    BY <1>1, <1>2, <1>3, <1>4, RecordChained DEF Trailed
  <1>6. Len(r.trail.rows) \in Nat
    BY <1>3 DEF Trails
  <1>7. /\ queue \in Seq(SUBSET {PlantedNric})
        /\ Len(queue) = Len(r.outbox) + One(d)
        /\ \A i \in DOMAIN queue : queue[i] = {}
    <2>1. event.summary \in SUBSET {PlantedNric}
      BY <1>1
    <2>2. CASE d = ReviewDataset
      <3>1. /\ queue = Append(r.outbox, event.summary)
            /\ \A i \in DOMAIN r.outbox : r.outbox[i] = {}
        BY <2>2 DEF Queued
      <3> HIDE DEF queue
      <3> QED
        BY <1>1, <1>3, <2>1, <2>2, <3>1 DEF One
    <2>3. CASE d # ReviewDataset
      BY <1>3, <2>3 DEF One, Queued
    <2> QED
      BY <2>2, <2>3
  <1>8. prior \in History /\ \A e \in DemoDatasets : prior[e] \in {SC!NoStatus, Fixture[e].status}
    BY <1>3, FixtureIs DEF History, Queued
  <1> HIDE DEF queue, prior
  <1>9. One(d) \in Nat /\ Held(d) \in Nat
        /\ (d # ReviewDataset => One(d) = 0) /\ (n < 2 => One(d) = 0)
    BY DEF One, Held
  <1>10. /\ o.run.id = r.id /\ o.run.results = r.results /\ o.run.trail = t
         /\ o.run.outbox = queue /\ o.run.prior = prior
         /\ o.run.escalated = r.escalated + One(d)
         /\ o.run.routed = r.routed + One(d)
    BY <1>2
  <1>11. o.run \in Runs
    <2>1. /\ r.datasets + 1 \in Nat /\ r.certified + Held(d) \in Nat
          /\ r.escalated + One(d) \in Nat /\ r.routed + One(d) \in Nat
      BY <1>3, <1>9
    <2> QED
      BY <1>2, <1>3, <1>5, <1>7, <1>8, <2>1 DEF Runs
  <1>12. Trailed(o.run, n + 1)
    <2>1. BrokenRows(t.rows) = {}
      BY <1>5 DEF Trailed
    <2>2. \A k \in {2, 3, 4} : n + 1 >= k => Len(t.rows) >= k - 1
      BY <1>5, <1>6 DEF Trailed
    <2> QED
      BY <1>5, <1>10, <2>1, <2>2 DEF Trailed
  <1>13. Queued(o.run, n + 1)
    BY <1>3, <1>7, <1>8, <1>9, <1>10 DEF Queued
  <1>14. d # ReviewDataset => o.run.escalated = r.escalated /\ o.run.routed = r.routed
    BY <1>3, <1>9, <1>10
  <1>15. Len(t.rows) > 0 /\ t.rows[Len(t.rows)].event.summary = {}
    BY <1>1, <1>5, <1>6
  <1> QED
    BY <1>2, <1>10, <1>11, <1>12, <1>13, <1>14, <1>15 DEF Same
-----------------------------------------------------------------------------
(* The steps of the arc, one by one: what each leaves, and that its        *)
(* results meet the expectations of the walkthrough.                       *)

LEMMA ProblemsOf == ASSUME NEW s, NEW f, s.facts = {f} PROVE Problems(s) = CHECKS(s, f)
  BY DEF Problems

LEMMA KnownProfilesAre == Cardinality(KnownProfiles) = 3
  <1>1. IsFiniteSet({}) /\ Cardinality({}) = 0
    BY FS_EmptySet
  <1>2. IsFiniteSet({LocalProfile}) /\ Cardinality({LocalProfile}) = 1
    BY FS_Singleton
  <1>3. LET T == {LocalProfile} \cup {"gcp"} IN IsFiniteSet(T) /\ Cardinality(T) = 2
    BY <1>2, FS_AddElement DEF LocalProfile
  <1>4. "onprem" \notin {LocalProfile} \cup {"gcp"}
    BY DEF LocalProfile
  <1>5. Cardinality(({LocalProfile} \cup {"gcp"}) \cup {"onprem"}) = 3
    BY <1>3, <1>4, FS_AddElement
  <1>6. KnownProfiles = ({LocalProfile} \cup {"gcp"}) \cup {"onprem"}
    BY DEF KnownProfiles
  <1> QED
    BY <1>5, <1>6

LEMMA OpenedFollows ==
    ASSUME NEW r \in Runs, Trailed(r, 0), Queued(r, 0), NEW o \in StepOpened(r)
    PROVE  Follows(r, 0, "opened", o)
  <1> DEFINE f == [profile |-> LocalProfile, sdk_modules |-> {}, profiles |-> KnownProfiles]
  <1>1. CASE o = Raised(r)
    BY <1>1, RaisedFollows
  <1>2. CASE o = Produced(r, f)
    <2>1. o.run = r /\ o.facts = {f} /\ f \in Facts
      BY <1>2 DEF Produced, Facts
    <2>2. Trailed(r, 1) /\ Queued(r, 1)
      BY DEF Trailed, Queued
    <2>3. f.profile = LocalProfile /\ f.sdk_modules = {} /\ f.profiles = KnownProfiles
      OBVIOUS
    <2> HIDE DEF f
    <2>4. ASSUME NEW s, s.step = "opened", s.facts = o.facts PROVE Problems(s) = {}
      <3>1. Problems(s) = CheckOpened(s, f)
        BY <2>1, <2>4, ProblemsOf DEF CHECKS
      <3> QED
        BY <2>3, <3>1, KnownProfilesAre DEF CheckOpened, Problem
    <2> QED
      BY <2>1, <2>2, <2>4 DEF Follows, Same, Met
  <1> QED
    BY <1>1, <1>2 DEF StepOpened

LEMMA RoutineFollows ==
    ASSUME NEW r \in Runs, Trailed(r, 1), Queued(r, 1), NEW o \in CertifyPanels(r, CertifiedDataset)
    PROVE  Follows(r, 1, "routine", o)
  <1>1. CASE o = Raised(r)
    BY <1>1, RaisedFollows
  <1>2. CASE o # Raised(r)
    <2> DEFINE d == CertifiedDataset
               f == [status |-> Fixture[d].status, review |-> Asks(d), review_ref |-> Asks(d)]
    <2>1. d \in DemoDatasets /\ d # ReviewDataset
      BY DEF DemoDatasets, CertifiedDataset, ReviewDataset
    <2> HIDE DEF d
    <2>2. /\ o.run \in Runs /\ Same(r, o.run) /\ Trailed(o.run, 2) /\ Queued(o.run, 2)
          /\ o.facts = {f}
          /\ o.run.escalated = r.escalated /\ o.run.routed = r.routed
      BY <1>2, <2>1, CertifyFollows DEF d
    <2>3. f.review = FALSE /\ f.review_ref = FALSE /\ f \in Facts
      BY <2>1, FixtureIs DEF Asks, Facts
    <2> HIDE DEF f
    <2>4. ASSUME NEW s, s.step = "routine", s.facts = o.facts, s.escalated = o.run.escalated
          PROVE  Problems(s) = {}
      <3>1. Problems(s) = CheckRoutine(s, f)
        BY <2>2, <2>4, ProblemsOf DEF CHECKS
      <3>2. s.escalated = 0
        BY <2>2, <2>4 DEF Queued
      <3> QED
        BY <2>3, <3>1, <3>2 DEF CheckRoutine, Problem
    <2> QED
      BY <2>2, <2>3, <2>4 DEF Follows, Met
  <1> QED
    BY <1>1, <1>2

LEMMA EscalationFollows ==
    ASSUME NEW r \in Runs, Trailed(r, 2), Queued(r, 2), NEW o \in CertifyPanels(r, ReviewDataset)
    PROVE  Follows(r, 2, "escalation", o)
  <1>1. CASE o = Raised(r)
    BY <1>1, RaisedFollows
  <1>2. CASE o # Raised(r)
    <2> DEFINE d == ReviewDataset
               f == [status |-> Fixture[d].status, review |-> Asks(d), review_ref |-> Asks(d)]
    <2>1. d \in DemoDatasets /\ d # CertifiedDataset
      BY DEF DemoDatasets, CertifiedDataset, ReviewDataset
    <2>2. /\ o.run \in Runs /\ Same(r, o.run) /\ Trailed(o.run, 3) /\ Queued(o.run, 3)
          /\ o.facts = {f}
      BY <1>2, <2>1, CertifyFollows
    <2>3. f.review = TRUE /\ f.review_ref = TRUE /\ f \in Facts
      BY <2>1, FixtureIs DEF Asks, Facts
    <2> HIDE DEF d, f
    <2>4. ASSUME NEW s, s.step = "escalation", s.facts = o.facts,
                 s.escalated = o.run.escalated, s.routed = o.run.routed
          PROVE  Problems(s) = {}
      <3>1. Problems(s) = CheckEscalation(s, f)
        BY <2>2, <2>4, ProblemsOf DEF CHECKS
      <3>2. s.routed = s.escalated
        BY <2>2, <2>4 DEF Queued
      <3> QED
        BY <2>3, <3>1, <3>2 DEF CheckEscalation, Problem
    <2> QED
      BY <2>2, <2>3, <2>4 DEF Follows, Met
  <1> QED
    BY <1>1, <1>2

LEMMA RedactionFollows ==
    ASSUME NEW r \in Runs, Trailed(r, 3), Queued(r, 3), NEW o \in StepRedaction(r)
    PROVE  Follows(r, 3, "redaction", o)
  <1> DEFINE d == UncertifiedDataset
  <1>1. /\ d \in DemoDatasets /\ d # ReviewDataset /\ d # CertifiedDataset
        /\ Fixture[d].status = "uncertified"
    BY FixtureIs DEF DemoDatasets, CertifiedDataset, ReviewDataset, UncertifiedDataset
  <1>2. PICK c \in CertifyPanels(r, d) :
           o \in (IF c.facts = {} THEN {c}
                  ELSE {Raised(c.run)} \cup
                       {Produced(c.run,
                           [status |-> f.status,
                            leaked |-> PlantedNric \in Redact({PlantedNric})
                                \cup c.run.trail.rows[Len(c.run.trail.rows)].event.summary]) :
                           f \in c.facts})
    BY DEF StepRedaction
  <1> HIDE DEF d
  <1>3. CASE c = Raised(r)
    <2>1. c.facts = {}
      BY <1>3 DEF Raised
    <2> QED
      BY <1>2, <1>3, <2>1, RaisedFollows
  <1>4. CASE c # Raised(r)
    <2> DEFINE g == [status |-> Fixture[d].status, review |-> Asks(d), review_ref |-> Asks(d)]
               summary == c.run.trail.rows[Len(c.run.trail.rows)].event.summary
               h == [status |-> "uncertified", leaked |-> FALSE]
    <2>1. /\ c.run \in Runs /\ Same(r, c.run) /\ Trailed(c.run, 4) /\ Queued(c.run, 4)
          /\ c.facts = {g} /\ summary = {}
          /\ c.run.escalated = r.escalated /\ c.run.routed = r.routed
      BY <1>1, <1>4, CertifyFollows
    <2>2. g.status = "uncertified" /\ Redact({PlantedNric}) = {}
      BY <1>1 DEF Redact
    <2> HIDE DEF g, summary
    <2>3. o = Raised(c.run) \/ o = Produced(c.run, [status |-> g.status,
                                leaked |-> PlantedNric \in Redact({PlantedNric}) \cup summary])
      BY <1>2, <2>1 DEF summary
    <2>4. (PlantedNric \in Redact({PlantedNric}) \cup summary) = FALSE
      BY <2>1, <2>2
    <2>5. o = Raised(c.run) \/ o = Produced(c.run, h)
      BY <2>2, <2>3, <2>4
    <2>6. CASE o = Raised(c.run)
      <3>1. Trailed(c.run, 3) /\ Queued(c.run, 3)
        BY <2>1 DEF Trailed, Queued
      <3> QED
        BY <2>1, <2>6, <3>1 DEF Raised, Follows
    <2>7. CASE o = Produced(c.run, h)
      <3>1. o.run = c.run /\ o.facts = {h} /\ h \in Facts
        BY <2>7 DEF Produced, Facts, SC!Statuses
      <3>2. h.status = "uncertified" /\ h.leaked = FALSE
        OBVIOUS
      <3> HIDE DEF h
      <3>3. ASSUME NEW s, s.step = "redaction", s.facts = o.facts PROVE Problems(s) = {}
        <4>1. Problems(s) = CheckRedaction(s, h)
          BY <3>1, <3>3, ProblemsOf DEF CHECKS
        <4> QED
          BY <3>2, <4>1 DEF CheckRedaction, Problem
      <3> QED
        BY <2>1, <3>1, <3>3 DEF Follows, Met
    <2> QED
      BY <2>5, <2>6, <2>7
  <1> QED
    BY <1>3, <1>4

LEMMA ReviewQueueFollows ==
    ASSUME NEW r \in Runs, Trailed(r, 4), Queued(r, 4), NEW o \in StepReviewQueue(r)
    PROVE  Follows(r, 4, "review_queue", o)
  <1> DEFINE f == [pending |-> Len(r.outbox), wire_leak |-> FALSE]
  <1>1. (\E i \in DOMAIN r.outbox : PlantedNric \in r.outbox[i]) = FALSE
    BY DEF Queued
  <1>2. o = Produced(r, f)
    BY <1>1 DEF StepReviewQueue
  <1>3. o.run = r /\ o.facts = {f}
    BY <1>2 DEF Produced
  <1>4. f.pending = r.routed /\ f.wire_leak = FALSE /\ f \in Facts
    BY DEF Facts, Queued, Runs
  <1> HIDE DEF f
  <1>5. Trailed(r, 5) /\ Queued(r, 5)
    BY DEF Trailed, Queued
  <1>6. ASSUME NEW s, s.step = "review_queue", s.facts = o.facts, s.routed = o.run.routed
        PROVE  Problems(s) = {}
    <2>1. Problems(s) = CheckReviewQueue(s, f)
      BY <1>3, <1>6, ProblemsOf DEF CHECKS
    <2> QED
      BY <1>3, <1>4, <1>6, <2>1 DEF CheckReviewQueue, Problem
  <1> QED
    BY <1>3, <1>4, <1>5, <1>6 DEF Follows, Same, Met

LEMMA PortabilityFollows ==
    ASSUME NEW r \in Runs, Trailed(r, 7), Queued(r, 7), NEW o \in StepPortability(r)
    PROVE  Follows(r, 7, "portability", o)
  <1> DEFINE refusing == {port \in ExitCalls : Refuses(DefaultBindings[port]["onprem"])}
             f == [refused |-> refusing \ ExitAbsent, absent |-> (ExitCalls \ refusing) \cap ExitAbsent]
  <1>1. o.run = r /\ o.facts = {f}
    BY DEF StepPortability, Produced
  <1>2. \A port \in Ports : Refuses(DefaultBindings[port]["onprem"]) <=> port # "tracer"
    <2> TAKE port \in Ports
    <2>1. DefaultBindings[port]["onprem"] = <<port, "onprem">>
      BY DEF DefaultBindings, KnownProfiles
    <2> QED
      BY <2>1 DEF Refuses, Placeholders
  <1>3. refusing = Ports \ {"tracer"} /\ "tracer" \in Ports
    BY <1>2 DEF ExitCalls, Ports
  <1> HIDE DEF refusing
  <1>4. f.refused \cup f.absent = ExitCalls /\ f \in Facts
    BY <1>3 DEF ExitCalls, ExitAbsent, Facts
  <1> HIDE DEF f
  <1>5. Trailed(r, 8) /\ Queued(r, 8)
    BY DEF Trailed, Queued
  <1>6. ASSUME NEW s, s.step = "portability", s.facts = o.facts PROVE Problems(s) = {}
    <2>1. Problems(s) = CheckPortability(s, f)
      BY <1>1, <1>6, ProblemsOf DEF CHECKS
    <2> QED
      BY <1>4, <2>1 DEF CheckPortability, Problem
  <1> QED
    BY <1>1, <1>4, <1>5, <1>6 DEF Follows, Same, Met

\* An import is not anchored, and verifies when the trail it was exported from does.
LEMMA ImportVerifies ==
    ASSUME NEW t, BrokenRows(t.rows) = {},
           NEW u \in ImportInto(NewTrail(FALSE), Export(t))
    PROVE  VerifyChain(u).ok = TRUE
  <1>1. u = [[rows |-> <<>>, anchored |-> FALSE, anchor |-> {}] EXCEPT !.rows = t.rows]
    BY DEF ImportInto, NewTrail, Export
  <1>2. u.rows = t.rows /\ u.anchored = FALSE
    BY <1>1
  <1> QED
    BY <1>2 DEF VerifyChain, AnchorHolds

LEMMA Flagged ==
    ASSUME NEW r \in Runs, NEW q, q = [r EXCEPT !.chain_ok = q.chain_ok],
           q.chain_ok \in BOOLEAN,
           NEW n \in Nat, Trailed(r, n), Queued(r, n)
    PROVE  /\ q \in Runs /\ Same(r, q) /\ Trailed(q, n) /\ Queued(q, n)
           /\ q.escalated = r.escalated /\ q.routed = r.routed /\ q.trail = r.trail
  <1>1. /\ q.id = r.id /\ q.results = r.results /\ q.trail = r.trail /\ q.outbox = r.outbox
        /\ q.prior = r.prior /\ q.escalated = r.escalated /\ q.routed = r.routed
    BY DEF Runs
  <1>2. q \in Runs
    BY DEF Runs
  <1> QED
    BY <1>1, <1>2 DEF Same, Trailed, Queued

LEMMA AuditFollows ==
    ASSUME NEW r \in Runs, Trailed(r, 5), Queued(r, 5), NEW o \in StepAudit(r)
    PROVE  Follows(r, 5, "audit", o)
  <1> DEFINE report == VerifyChain(r.trail)
             after == [r EXCEPT !.chain_ok = report.ok]
             reloaded == ImportInto(NewTrail(FALSE), Export(r.trail))
             anchored == r.trail.anchored /\ r.trail.anchor # {}
             f(t) == [chain_ok |-> report.ok, entries |-> report.entries,
                      round_trip_ok |-> VerifyChain(t).ok, anchored |-> anchored]
  <1>1. /\ Chained(r.trail) /\ BrokenRows(r.trail.rows) = {} /\ Len(r.trail.rows) >= 3
        /\ Len(r.trail.rows) \in Nat
    BY DEF Trailed, Runs, Trails
  <1>2. report.ok = TRUE /\ report.entries = Len(r.trail.rows)
    BY <1>1 DEF VerifyChain, Chained
  <1>3. anchored = TRUE
    <2>1. r.trail.rows # <<>>
      BY <1>1
    <2> QED
      BY <1>1, <2>1 DEF Chained, AnchorHolds, HeadOf
  <1>4. o = Raised(r) \/ o = Raised(after) \/ \E t \in reloaded : o = Produced(after, f(t))
    BY DEF StepAudit
  <1>5. \A t \in reloaded : VerifyChain(t).ok = TRUE
    BY <1>1, ImportVerifies
  <1> DEFINE g == [chain_ok |-> TRUE, entries |-> Len(r.trail.rows), round_trip_ok |-> TRUE,
                   anchored |-> TRUE]
  <1>6. \A t \in reloaded : f(t) = g
    BY <1>2, <1>3, <1>5
  <1> HIDE DEF report, reloaded, anchored
  <1>7. after \in Runs /\ Same(r, after) /\ Trailed(after, 5) /\ Queued(after, 5)
        /\ after.escalated = r.escalated /\ after.routed = r.routed
    <2>1. after = [r EXCEPT !.chain_ok = after.chain_ok] /\ after.chain_ok \in BOOLEAN
      BY <1>2 DEF Runs
    <2> HIDE DEF after
    <2> QED
      BY <2>1, Flagged
  <1> HIDE DEF after, f
  <1>8. o = Raised(r) \/ o = Raised(after) \/ o = Produced(after, g)
    BY <1>4, <1>6
  <1>9. CASE o = Raised(r)
    BY <1>9, RaisedFollows
  <1>10. CASE o = Raised(after)
    BY <1>7, <1>10 DEF Raised, Follows
  <1>11. CASE o = Produced(after, g)
    <2>1. o.run = after /\ o.facts = {g} /\ g \in Facts
      BY <1>1, <1>11 DEF Produced, Facts
    <2>2. Trailed(after, 6) /\ Queued(after, 6)
      BY <1>7 DEF Trailed, Queued
    <2>3. g.chain_ok = TRUE /\ g.anchored = TRUE /\ g.round_trip_ok = TRUE /\ ~(g.entries < 3)
      BY <1>1
    <2> HIDE DEF g
    <2>4. ASSUME NEW s, s.step = "audit", s.facts = o.facts PROVE Problems(s) = {}
      <3>1. Problems(s) = CheckAudit(s, g)
        BY <2>1, <2>4, ProblemsOf DEF CHECKS
      <3> QED
        BY <2>3, <3>1 DEF CheckAudit, Problem
    <2> QED
      BY <1>7, <2>1, <2>2, <2>4 DEF Follows, Met
  <1> QED
    BY <1>8, <1>9, <1>10, <1>11

LEMMA TamperFollows ==
    ASSUME NEW r \in Runs, Trailed(r, 6), Queued(r, 6), NEW o \in StepTamper(r)
    PROVE  Follows(r, 6, "tamper", o)
  <1> DEFINE k == Interior(r.trail)
             trail == Rewrite(r.trail, k, "allowed", "low")
             after == [r EXCEPT !.trail = Rewrite(@, k, "allowed", "low")]
             report == VerifyChain(after.trail)
             found == ~report.ok /\ report.first_bad = k
             g == [chain_ok |-> FALSE, detected |-> TRUE]
  <1>1. /\ r.trail \in Trails /\ Len(r.trail.rows) \in Nat /\ Len(r.trail.rows) >= 3
        /\ Chained(r.trail) /\ BrokenRows(r.trail.rows) \subseteq {k}
    BY DEF Trailed, Runs, Trails
  <1>2. /\ trail \in Trails /\ Chained(trail) /\ Len(trail.rows) = Len(r.trail.rows)
        /\ Interior(trail) = k /\ BrokenRows(trail.rows) = {k}
    BY <1>1, RewriteBreaks
  <1>3. k \in Nat
    <2>1. ASSUME NEW n \in Nat PROVE n \div 2 + 1 \in Nat
      OBVIOUS
    <2> QED
      BY <1>1, <2>1 DEF Interior
  <1>4. \/ o = Raised(r) \/ o = Raised(after)
        \/ o = Produced([after EXCEPT !.chain_ok = report.ok],
                        [chain_ok |-> report.ok, detected |-> found])
    BY DEF StepTamper
  <1> HIDE DEF k, trail
  <1>5. after = [r EXCEPT !.trail = trail]
    BY DEF trail
  <1> HIDE DEF after
  <1>6. /\ after \in Runs /\ Same(r, after) /\ after.trail = trail
        /\ after.escalated = r.escalated /\ after.routed = r.routed
        /\ Trailed(after, 6) /\ Queued(after, 6)
    <2>1. /\ after.id = r.id /\ after.results = r.results /\ after.trail = trail
          /\ after.outbox = r.outbox /\ after.prior = r.prior
          /\ after.escalated = r.escalated /\ after.routed = r.routed
      BY <1>5 DEF Runs
    <2>2. after \in Runs
      BY <1>2, <1>5 DEF Runs
    <2>3. Trailed(after, 6)
      BY <1>2, <2>1 DEF Trailed
    <2> QED
      BY <2>1, <2>2, <2>3 DEF Same, Queued
  <1>7. report.ok = FALSE /\ found = TRUE
    <2>1. VerifyChain(trail).ok = FALSE
      BY <1>2 DEF VerifyChain
    <2>2. VerifyChain(trail).first_bad = k
      BY <1>2, <1>3, VerifyIsTrue
    <2> QED
      BY <1>6, <2>1, <2>2
  <1> HIDE DEF report, found
  <1> DEFINE done == [after EXCEPT !.chain_ok = FALSE]
  <1>8. o = Raised(r) \/ o = Raised(after) \/ o = Produced(done, g)
    BY <1>4, <1>7
  <1>9. CASE o = Raised(r)
    BY <1>9, RaisedFollows
  <1>10. CASE o = Raised(after)
    BY <1>6, <1>10 DEF Raised, Follows
  <1>11. CASE o = Produced(done, g)
    <2>1. /\ done \in Runs /\ Same(after, done) /\ Trailed(done, 6) /\ Queued(done, 6)
          /\ done.escalated = after.escalated /\ done.routed = after.routed
      <3>1. done = [after EXCEPT !.chain_ok = done.chain_ok] /\ done.chain_ok \in BOOLEAN
        BY <1>6 DEF Runs
      <3> HIDE DEF done
      <3> QED
        BY <1>6, <3>1, Flagged
    <2> HIDE DEF done
    <2>2. o.run = done /\ o.facts = {g} /\ g \in Facts
      BY <1>11 DEF Produced, Facts
    <2>3. Trailed(done, 7) /\ Queued(done, 7)
      BY <2>1 DEF Trailed, Queued
    <2>4. g.chain_ok = FALSE /\ g.detected = TRUE
      OBVIOUS
    <2> HIDE DEF g
    <2>5. ASSUME NEW s, s.step = "tamper", s.facts = o.facts PROVE Problems(s) = {}
      <3>1. Problems(s) = CheckTamper(s, g)
        BY <2>2, <2>5, ProblemsOf DEF CHECKS
      <3> QED
        BY <2>4, <3>1 DEF CheckTamper, Problem
    <2> QED
      BY <1>6, <2>1, <2>2, <2>3, <2>5 DEF Follows, Same, Met
  <1> QED
    BY <1>8, <1>9, <1>10, <1>11

-----------------------------------------------------------------------------
(* A run, from the step it was constructed with to the last one.           *)

\* A run after n steps, whether or not it has a result to show yet.
Along(r, n) ==
    /\ r \in Runs /\ Len(r.results) = n
    /\ \A i \in 1 .. n : r.results[i].key = STEPS[i]
    /\ Trailed(r, n) /\ Queued(r, n)

Sound(r) ==
    /\ Len(r.results) \in 1 .. 8 /\ Along(r, Len(r.results))
    /\ Problems(Snapshot(r)) = {}

LEMMA StepsAre ==
    /\ Len(STEPS) = 8 /\ \A i \in 1 .. 8 : STEPS[i] \in StepKeys
    /\ STEPS[1] = "opened" /\ STEPS[2] = "routine" /\ STEPS[3] = "escalation"
    /\ STEPS[4] = "redaction" /\ STEPS[5] = "review_queue" /\ STEPS[6] = "audit"
    /\ STEPS[7] = "tamper" /\ STEPS[8] = "portability"
  BY DEF STEPS, StepKeys

LEMMA HandlerFollows ==
    ASSUME NEW n \in 0 .. 7, NEW r, Along(r, n), NEW o \in Handler(STEPS[n + 1], r)
    PROVE  Follows(r, n, STEPS[n + 1], o)
  <1>1. r \in Runs /\ Trailed(r, n) /\ Queued(r, n)
    BY DEF Along
  <1>2. CASE n = 0
    <2>1. STEPS[n + 1] = "opened"
      BY <1>2, StepsAre
    <2> QED
      BY <1>1, <1>2, <2>1, OpenedFollows DEF Handler
  <1>3. CASE n = 1
    <2>1. STEPS[n + 1] = "routine"
      BY <1>3, StepsAre
    <2> QED
      BY <1>1, <1>3, <2>1, RoutineFollows DEF Handler
  <1>4. CASE n = 2
    <2>1. STEPS[n + 1] = "escalation"
      BY <1>4, StepsAre
    <2> QED
      BY <1>1, <1>4, <2>1, EscalationFollows DEF Handler
  <1>5. CASE n = 3
    <2>1. STEPS[n + 1] = "redaction"
      BY <1>5, StepsAre
    <2> QED
      BY <1>1, <1>5, <2>1, RedactionFollows DEF Handler
  <1>6. CASE n = 4
    <2>1. STEPS[n + 1] = "review_queue"
      BY <1>6, StepsAre
    <2> QED
      BY <1>1, <1>6, <2>1, ReviewQueueFollows DEF Handler
  <1>7. CASE n = 5
    <2>1. STEPS[n + 1] = "audit"
      BY <1>7, StepsAre
    <2> QED
      BY <1>1, <1>7, <2>1, AuditFollows DEF Handler
  <1>8. CASE n = 6
    <2>1. STEPS[n + 1] = "tamper"
      BY <1>8, StepsAre
    <2> QED
      BY <1>1, <1>8, <2>1, TamperFollows DEF Handler
  <1>9. CASE n = 7
    <2>1. STEPS[n + 1] = "portability"
      BY <1>9, StepsAre
    <2> QED
      BY <1>1, <1>9, <2>1, PortabilityFollows DEF Handler
  <1> QED
    BY <1>2, <1>3, <1>4, <1>5, <1>6, <1>7, <1>8, <1>9

\* A request that raised leaves a run that shows what it showed; one that did not, the next step.
LEMMA PerformSound ==
    ASSUME NEW n \in 0 .. 7, NEW r, Along(r, n), n > 0 => Sound(r),
           NEW p \in Perform(r, STEPS[n + 1])
    PROVE  /\ p.run.id = r.id
           /\ n > 0 \/ ~p.raised => Sound(p.run)
  <1> DEFINE key == STEPS[n + 1]
  <1>1. PICK o \in Handler(key, r) :
           p = [raised |-> o.facts = {},
                run |-> IF o.facts = {} THEN o.run
                        ELSE [o.run EXCEPT !.results = Append(@, [key |-> key, facts |-> o.facts])]]
    BY DEF Perform
  <1>2. Follows(r, n, key, o)
    BY HandlerFollows
  <1>3. key \in StepKeys /\ n + 1 \in 1 .. 8
    BY StepsAre
  <1>4. r \in Runs /\ Len(r.results) = n /\ \A i \in 1 .. n : r.results[i].key = STEPS[i]
    BY DEF Along
  <1>5. o.run \in Runs /\ o.run.id = r.id /\ o.run.results = r.results
    BY <1>2 DEF Follows, Same
  <1>6. CASE o.facts = {}
    <2>1. p.run = o.run /\ p.raised
      BY <1>1, <1>6
    <2>2. Along(o.run, n)
      BY <1>2, <1>4, <1>5, <1>6 DEF Along, Follows
    <2>3. ASSUME n > 0 PROVE Sound(o.run)
      <3>1. Snapshot(o.run) = Snapshot(r)
        BY <1>2, <1>5, <1>6 DEF Follows, Snapshot, Finished
      <3>2. Problems(Snapshot(o.run)) = {}
        BY <2>3, <3>1 DEF Sound
      <3> QED
        BY <1>4, <1>5, <2>2, <2>3, <3>2 DEF Sound
    <2> QED
      BY <1>5, <2>1, <2>3
  <1>7. CASE o.facts # {}
    <2> DEFINE result == [key |-> key, facts |-> o.facts]
               results == Append(r.results, result)
               q == [o.run EXCEPT !.results = results]
    <2>1. p.run = q
      BY <1>1, <1>5, <1>7
    <2>2. result \in Results /\ result.key = key /\ result.facts = o.facts
      BY <1>2, <1>3 DEF Results, Follows
    <2> HIDE DEF result
    <2>3. r.results \in Seq(Results)
      BY <1>4 DEF Runs
    <2>4. /\ results \in Seq(Results) /\ Len(results) = n + 1
          /\ results[n + 1] = result
          /\ \A i \in 1 .. n : results[i] = r.results[i]
      BY <1>4, <2>2, <2>3
    <2> HIDE DEF key, results
    <2>5. /\ q.results = results /\ q.id = o.run.id /\ q.trail = o.run.trail
          /\ q.outbox = o.run.outbox /\ q.prior = o.run.prior
          /\ q.escalated = o.run.escalated /\ q.routed = o.run.routed
      BY <1>5 DEF Runs
    <2>6. q \in Runs
      BY <1>5, <2>4 DEF Runs
    <2> HIDE DEF q
    <2>7. Trailed(q, n + 1) /\ Queued(q, n + 1)
      <3>1. Trailed(o.run, n + 1) /\ Queued(o.run, n + 1)
        BY <1>2, <1>7 DEF Follows
      <3> QED
        BY <2>5, <3>1 DEF Trailed, Queued
    <2>8. \A i \in 1 .. n + 1 : q.results[i].key = STEPS[i]
      BY <1>4, <2>2, <2>4, <2>5 DEF key
    <2>9. Along(q, n + 1)
      BY <2>4, <2>5, <2>6, <2>7, <2>8 DEF Along
    <2>10. Problems(Snapshot(q)) = {}
      <3> DEFINE s == Snapshot(q)
      <3>1. /\ s.step = key /\ s.facts = o.facts
            /\ s.escalated = o.run.escalated /\ s.routed = o.run.routed
        BY <2>2, <2>4, <2>5 DEF Snapshot
      <3>2. Met(key, o)
        BY <1>2, <1>7 DEF Follows
      <3> HIDE DEF s
      <3>3. Problems(s) = {}
        BY <3>1, <3>2 DEF Met
      <3> QED
        BY <3>3 DEF s
    <2>11. Sound(q)
      BY <1>3, <2>4, <2>5, <2>9, <2>10 DEF Sound
    <2> QED
      BY <1>5, <2>1, <2>5, <2>11
  <1> QED
    BY <1>6, <1>7

LEMMA AdvanceSound ==
    ASSUME NEW r, Sound(r), NEW p \in Advance(r)
    PROVE  p.run.id = r.id /\ Sound(p.run)
  <1>1. PICK n \in 1 .. 8 : n = Len(r.results) /\ Along(r, n)
    BY DEF Sound
  <1>2. Finished(r) <=> n = 8
    <2>1. Len(r.results) = n /\ Len(STEPS) = 8
      BY <1>1, StepsAre
    <2>2. Finished(r) <=> n >= 8
      BY <2>1 DEF Finished
    <2> QED
      BY <2>2
  <1>3. CASE n = 8
    <2>1. p = [run |-> r, raised |-> FALSE]
      BY <1>2, <1>3 DEF Advance
    <2> QED
      BY <2>1
  <1>4. CASE n # 8
    <2>1. n \in 0 .. 7 /\ n > 0
      BY <1>4
    <2>2. p \in Perform(r, STEPS[n + 1])
      BY <1>1, <1>2, <1>4 DEF Advance
    <2> QED
      BY <1>1, <2>1, <2>2, PerformSound
  <1> QED
    BY <1>3, <1>4

\* A new run remembers the verdicts of the run before it, and nothing else of it.
LEMMA NewRunSound ==
    ASSUME NEW id \in Nat, NEW before, \A r \in before : Sound(r), NEW p \in NewRun(id, before)
    PROVE  /\ p.run.id = id
           /\ ~p.raised => Sound(p.run)
  <1> DEFINE r == FreshRun(id, before)
             prior == IF before = {} THEN [d \in DemoDatasets |-> SC!NoStatus]
                      ELSE (CHOOSE q \in before : TRUE).prior
             trail == [rows |-> <<>>, anchored |-> TRUE, anchor |-> {}]
  <1>1. prior \in History /\ \A d \in DemoDatasets : prior[d] \in {SC!NoStatus, Fixture[d].status}
    <2>1. CASE before = {}
      BY <2>1 DEF History
    <2>2. CASE before # {}
      <3>1. PICK q \in before : q = CHOOSE e \in before : TRUE
        BY <2>2
      <3>2. q \in Runs /\ \A d \in DemoDatasets : q.prior[d] \in {SC!NoStatus, Fixture[d].status}
        BY <3>1 DEF Sound, Along, Queued
      <3>3. prior = q.prior
        BY <2>2, <3>1
      <3> QED
        BY <3>2, <3>3 DEF Runs
    <2> QED
      BY <2>1, <2>2
  <1>2. /\ trail \in Trails /\ Chained(trail) /\ trail.rows = <<>>
        /\ BrokenRows(trail.rows) = {}
    BY NewTrailChained
  <1>3. r = [id |-> id, results |-> <<>>, trail |-> trail, outbox |-> <<>>, prior |-> prior,
             datasets |-> 0, certified |-> 0, escalated |-> 0, routed |-> 0, chain_ok |-> TRUE]
    BY DEF FreshRun, NewTrail
  <1> HIDE DEF prior, trail, r
  <1>4. /\ r.id = id /\ r.results = <<>> /\ r.trail = trail /\ r.outbox = <<>> /\ r.prior = prior
        /\ r.escalated = 0 /\ r.routed = 0
    BY <1>3
  <1>5. r \in Runs
    BY <1>1, <1>2, <1>3 DEF Runs
  <1>6. Trailed(r, 0) /\ Queued(r, 0)
    BY <1>1, <1>2, <1>4 DEF Trailed, Queued
  <1>7. Along(r, 0)
    BY <1>4, <1>5, <1>6 DEF Along
  <1>8. p \in Perform(r, STEPS[0 + 1])
    BY DEF NewRun, r
  <1>9. p.run.id = r.id /\ (~p.raised => Sound(p.run))
    BY <1>7, <1>8, PerformSound
  <1> QED
    BY <1>4, <1>9

-----------------------------------------------------------------------------
(* The server holds one sound run, whoever advances or restarts it.        *)

Hosted ==
    /\ \A r \in run : Sound(r) /\ r.id <= MaxRuns
    /\ \A r, q \in run : r = q

LEMMA SoundId == ASSUME NEW r, Sound(r) PROVE r.id \in Nat
  BY DEF Sound, Along, Runs

LEMMA AdvancedHosted ==
    ASSUME Hosted, NEW raised, Advanced(raised)
    PROVE  Hosted' /\ run # {} /\ \A r \in run, q \in run' : q.id = r.id
  <1>0. PICK r \in run : \E o \in Advance(r) : run' = {o.run}
    BY DEF Advanced
  <1>1. PICK o \in Advance(r) : run' = {o.run}
    BY <1>0
  <1>2. o.run.id = r.id /\ Sound(o.run)
    BY <1>1, AdvanceSound DEF Hosted
  <1> QED
    BY <1>1, <1>2 DEF Hosted

LEMMA RunIdIs == Hosted => RunId \in 0 .. MaxRuns
  <1> SUFFICES ASSUME Hosted PROVE RunId \in 0 .. MaxRuns
    OBVIOUS
  <1>1. \E i \in 0 .. MaxRuns : \A r \in run : r.id = i
    <2>1. CASE run = {}
      BY <2>1, WalkthroughAssumption DEF WalkthroughAssumption
    <2>2. CASE run # {}
      <3>1. PICK r \in run : TRUE
        BY <2>2
      <3>2. r.id \in 0 .. MaxRuns
        BY SoundId, WalkthroughAssumption DEF Hosted, WalkthroughAssumption
      <3> QED
        BY <3>2 DEF Hosted
    <2> QED
      BY <2>1, <2>2
  <1> QED
    BY <1>1 DEF RunId

LEMMA RestartedHosted ==
    ASSUME Hosted, NEW raised, Restarted(raised)
    PROVE  Hosted' /\ (run # {} => run' # {})
  <1>1. RunId \in 0 .. MaxRuns /\ RunId < MaxRuns /\ MaxRuns \in Nat
    BY RunIdIs, WalkthroughAssumption DEF Restarted, WalkthroughAssumption
  <1>2. PICK o \in NewRun(RunId + 1, run) :
           o.raised = raised /\ run' = IF raised THEN run ELSE {o.run}
    BY DEF Restarted
  <1>3. RunId + 1 \in Nat /\ RunId + 1 <= MaxRuns
    BY <1>1
  <1>4. o.run.id = RunId + 1 /\ (~o.raised => Sound(o.run))
    BY <1>3, NewRunSound DEF Hosted
  <1> QED
    BY <1>2, <1>3, <1>4 DEF Hosted

LEMMA BootHosted ==
    ASSUME Hosted, Boot
    PROVE  Hosted' /\ server' # "starting"
  <1>1. PICK o \in NewRun(1, {}) :
           IF o.raised THEN server' = "down" /\ UNCHANGED run ELSE server' = "up" /\ run' = {o.run}
    BY DEF Boot
  <1>2. o.run.id = 1 /\ (~o.raised => Sound(o.run))
    BY NewRunSound
  <1> QED
    BY <1>1, <1>2, WalkthroughAssumption DEF Hosted, WalkthroughAssumption

LEMMA HostedInit == Init => Hosted
  BY DEF Init, Hosted

LEMMA HostedNext == Hosted /\ [Next]_vars => Hosted'
  <1> SUFFICES ASSUME Hosted, [Next]_vars PROVE Hosted'
    OBVIOUS
  <1>1. CASE Boot
    BY <1>1, BootHosted
  <1>2. CASE PageNext
    BY <1>2, AdvancedHosted DEF PageNext
  <1>3. CASE PageRestart
    BY <1>3, RestartedHosted DEF PageRestart
  <1>4. CASE Post
    <2>1. CASE server # "up"
      BY <1>4, <2>1 DEF Post, Hosted
    <2>2. CASE server = "up"
      <3>1. PICK raised \in BOOLEAN :
               IF request = "/restart" THEN Restarted(raised) ELSE Advanced(raised)
        BY <1>4, <2>2 DEF Post
      <3> QED
        BY <3>1, AdvancedHosted, RestartedHosted
    <2> QED
      BY <2>1, <2>2
  <1>5. CASE UNCHANGED run
    BY <1>5 DEF Hosted
  <1>6. Die \/ WaitFor \/ ReadState \/ Check \/ Instruct \/ UNCHANGED vars => UNCHANGED run
    BY DEF Die, WaitFor, ReadState, Check, Instruct, vars
  <1> QED
    BY <1>1, <1>2, <1>3, <1>4, <1>5, <1>6 DEF Next, Present

(* No false alarm: the run that the server holds meets the expectations of *)
(* the step it shows, whichever steps raised and were performed again and  *)
(* however often the demo was restarted (demo.py:302-656 with              *)
(* walkthrough.py:62-149).                                                 *)
THEOREM ShownAsClaimed == Spec => []ClaimsHold
  <1>1. Hosted => ClaimsHold
    BY DEF Hosted, Sound, ClaimsHold
  <1> QED
    BY <1>1, HostedInit, HostedNext, PTL DEF Spec

-----------------------------------------------------------------------------
(* Which run the walkthrough looks at: unless the page restarted it, what  *)
(* it checked and what it reads are of the run that the server holds.      *)

SameRun == \A r \in run : (\A s \in state : s.run = r.id) /\ (\A k \in seen : k.run = r.id)

Watched ==
    /\ run = {} => seen = {} /\ state = {}
    /\ server = "starting" => run = {}
    /\ target \in Nat /\ (target # 0 => request = "/next")
    /\ pc = "posting" /\ request = "/restart" => state = {}
    /\ seen \subseteq [key : StepKeys, run : Nat]
    /\ \A s \in state : s.step \in StepKeys /\ s.run \in Nat /\ s.number \in Nat
    /\ ~meddled => SameRun
    /\ verdict = "pass" => pc = "ended" /\ StepKeys \subseteq {k.key : k \in seen}

LEMMA WatchedInit == Init => Watched
  BY DEF Init, Watched, SameRun

LEMMA SnapshotIs ==
    ASSUME NEW r, Sound(r)
    PROVE  /\ Snapshot(r).run = r.id /\ Snapshot(r).step \in StepKeys
           /\ Snapshot(r).run \in Nat /\ Snapshot(r).number \in Nat
  <1>1. PICK n \in 1 .. 8 : n = Len(r.results) /\ Along(r, n)
    BY DEF Sound
  <1>2. r.results[n].key \in StepKeys
    <2>1. STEPS[n] \in StepKeys
      BY StepsAre
    <2>2. n \in 1 .. n
      OBVIOUS
    <2>3. r.results[n].key = STEPS[n]
      BY <1>1, <2>2 DEF Along
    <2> QED
      BY <2>1, <2>3
  <1> QED
    BY <1>1, <1>2, SoundId DEF Snapshot

LEMMA WatchedNext == Hosted /\ Watched /\ [Next]_vars => Watched'
  <1> SUFFICES ASSUME Hosted, Watched, [Next]_vars PROVE Watched'
    OBVIOUS
  <1> DEFINE Kept == UNCHANGED <<target, request, seen, state, pc, verdict>>
  <1>1. CASE Boot
    <2>1. server' # "starting" /\ run = {}
      BY <1>1, BootHosted DEF Watched, Boot
    <2>2. Kept /\ UNCHANGED meddled
      BY <1>1 DEF Boot, presenter, page
    <2>3. seen' = {} /\ state' = {}
      BY <2>1, <2>2 DEF Watched
    <2> QED
      BY <2>1, <2>2, <2>3 DEF Watched, SameRun
  <1>2. CASE Die
    BY <1>2 DEF Die, presenter, page, Watched, SameRun
  <1>3. CASE PageNext
    <2>1. PICK raised \in BOOLEAN : Advanced(raised)
      BY <1>3 DEF PageNext
    <2>2. Hosted' /\ run # {} /\ \A r \in run, q \in run' : q.id = r.id
      BY <2>1, AdvancedHosted
    <2>3. server = "up" /\ UNCHANGED <<server, meddled>> /\ Kept
      BY <1>3 DEF PageNext, Press, presenter
    <2>4. run' # {}
      BY <2>1 DEF Advanced
    <2>5. SameRun => SameRun'
      BY <2>2, <2>3 DEF SameRun
    <2> QED
      BY <2>3, <2>4, <2>5 DEF Watched
  <1>4. CASE PageRestart
    <2>1. PICK raised \in BOOLEAN : Restarted(raised)
      BY <1>4 DEF PageRestart
    <2>2. run # {} => run' # {}
      BY <2>1, RestartedHosted
    <2>3. server = "up" /\ meddled' = TRUE /\ UNCHANGED server /\ Kept
      BY <1>4 DEF PageRestart, Press, presenter
    <2> QED
      BY <2>2, <2>3 DEF Watched
  <1>5. CASE WaitFor
    BY <1>5 DEF WaitFor, Ended, Continue, page, Watched, SameRun
  <1>6. CASE ReadState
    <2>1. UNCHANGED <<server, run, request, target, seen, meddled>>
      BY <1>6 DEF ReadState, page
    <2>2. verdict # "pass" /\ verdict' # "pass"
      BY <1>6 DEF ReadState, Ended, Continue, Watched
    <2>3. CASE server # "up"
      BY <1>6, <2>1, <2>2, <2>3 DEF ReadState, Ended, Watched, SameRun
    <2>4. CASE server = "up"
      <3>1. state' = {Snapshot(r) : r \in run}
        BY <1>6, <2>4 DEF ReadState
      <3>2. \A s \in state' : s.step \in StepKeys /\ s.run \in Nat /\ s.number \in Nat
        BY <3>1, SnapshotIs DEF Hosted
      <3>3. \A r \in run, s \in state' : s.run = r.id
        BY <3>1, SnapshotIs DEF Hosted
      <3>4. pc' = "posting" => target # 0
        BY <1>6, <2>4, <3>2 DEF ReadState, Continue, Watched
      <3>5. run = {} => state' = {}
        BY <3>1
      <3>6. ~meddled => SameRun'
        BY <2>1, <3>3 DEF Watched, SameRun
      <3> QED
        BY <2>1, <2>2, <3>2, <3>4, <3>5, <3>6 DEF Watched
    <2> QED
      BY <2>3, <2>4
  <1>7. CASE Check
    <2>1. PICK s \in state :
             /\ seen' = seen \cup {[key |-> s.step, run |-> s.run]}
             /\ IF s.done
                THEN Ended(IF failures' = {} /\ StepKeys \subseteq {k.key : k \in seen'}
                           THEN "pass" ELSE "fail")
                ELSE Continue("prompt")
      BY <1>7 DEF Check
    <2>2. pc = "checking" /\ target' = 0 /\ UNCHANGED <<server, run, state, meddled>>
      BY <1>7 DEF Check, page
    <2>3. pc' \in {"ended", "prompt"} /\ (verdict' = "pass" =>
             pc' = "ended" /\ StepKeys \subseteq {k.key : k \in seen'})
      BY <2>1, <2>2 DEF Ended, Continue, Watched
    <2>4. seen' \subseteq [key : StepKeys, run : Nat]
      BY <2>1 DEF Watched
    <2>5. SameRun => SameRun'
      <3> SUFFICES ASSUME SameRun, NEW r \in run, NEW k \in seen' PROVE k.run = r.id
        BY <2>2 DEF SameRun
      <3> QED
        BY <2>1 DEF SameRun
    <2>6. run # {}
      BY <2>1 DEF Watched
    <2> QED
      BY <2>2, <2>3, <2>4, <2>5, <2>6 DEF Watched
  <1>8. CASE Instruct
    <2>1. pc = "prompt" /\ UNCHANGED <<server, run, seen, meddled>>
      BY <1>8 DEF Instruct, page
    <2>2. verdict' # "pass"
      BY <1>8, <2>1 DEF Instruct, Ended, Continue, Watched
    <2>3. state' = {} \/ (state' = state /\ pc' # "posting")
      BY <1>8 DEF Instruct, Ended, Continue
    <2>4. target' \in Nat /\ (target' # 0 => request' = "/next")
      <3>1. \A n \in Jumps : n \in Nat
        <4>1. Len(STEPS) = 8
          BY StepsAre
        <4> QED
          BY <4>1, WalkthroughAssumption DEF WalkthroughAssumption
      <3> QED
        BY <1>8, <3>1 DEF Instruct, Watched
    <2>5. SameRun => SameRun'
      BY <2>1, <2>3 DEF SameRun
    <2> QED
      BY <2>1, <2>2, <2>3, <2>4, <2>5 DEF Watched
  <1>9. CASE Post
    <2>1. pc = "posting" /\ UNCHANGED <<server, request, target, state, meddled>>
      BY <1>9 DEF Post, page
    <2>2. verdict' # "pass" /\ pc' # "posting"
      BY <1>9, <2>1 DEF Post, Ended, Continue, Watched
    <2>3. CASE server # "up"
      BY <1>9, <2>1, <2>2, <2>3 DEF Post, Ended, Watched, SameRun
    <2>4. CASE server = "up"
      <3>1. PICK raised \in BOOLEAN :
               /\ IF request = "/restart" THEN Restarted(raised) ELSE Advanced(raised)
               /\ seen' = IF request = "/restart" THEN {} ELSE seen
        BY <1>9, <2>4 DEF Post
      <3>2. CASE request = "/restart"
        <4>1. state' = {} /\ seen' = {}
          BY <2>1, <3>1, <3>2 DEF Watched
        <4> QED
          BY <2>1, <2>2, <2>4, <4>1 DEF Watched, SameRun
      <3>3. CASE request # "/restart"
        <4>1. Advanced(raised) /\ seen' = seen
          BY <3>1, <3>3
        <4>2. run # {} /\ \A r \in run, q \in run' : q.id = r.id
          BY <4>1, AdvancedHosted
        <4>3. run' # {}
          BY <4>1 DEF Advanced
        <4>4. SameRun => SameRun'
          BY <2>1, <4>1, <4>2 DEF SameRun
        <4> QED
          BY <2>1, <2>2, <2>4, <4>1, <4>3, <4>4 DEF Watched
      <3> QED
        BY <3>2, <3>3
    <2> QED
      BY <2>3, <2>4
  <1>10. CASE UNCHANGED vars
    BY <1>10 DEF vars, Watched, SameRun
  <1> QED
    BY <1>1, <1>2, <1>3, <1>4, <1>5, <1>6, <1>7, <1>8, <1>9, <1>10 DEF Next, Present

(* A pass is about one run: unless the page restarted it, every step of    *)
(* the arc was checked on the run the walkthrough ended with, for any      *)
(* number of presses, jumps and restarts (walkthrough.py:245-292).         *)
THEOREM PassNamesOneRun == Spec => []PassIsOneRun
  <1>1. Hosted /\ Watched => PassIsOneRun
    <2> SUFFICES ASSUME Watched, verdict = "pass", ~meddled,
                        NEW s \in state, NEW key \in StepKeys
                 PROVE  [key |-> key, run |-> s.run] \in seen
      BY DEF PassIsOneRun
    <2>1. PICK k \in seen : k.key = key
      BY DEF Watched
    <2>2. PICK r \in run : TRUE
      BY DEF Watched
    <2>3. k.run = s.run
      BY <2>2 DEF Watched, SameRun
    <2>4. k = [key |-> k.key, run |-> k.run]
      BY DEF Watched
    <2> QED
      BY <2>1, <2>3, <2>4
  <1> QED
    BY <1>1, HostedInit, WatchedInit, HostedNext, WatchedNext, PTL DEF Spec
=============================================================================
