-------------------------- MODULE MCCertification --------------------------
(***************************************************************************)
(* Small instances of Certification. One column and one rule are enough:   *)
(* the fold asks whether a finding of some severity exists, not how many.  *)
(***************************************************************************)
EXTENDS Certification, TLC

CONSTANTS d1, d2, t1, t2, p1, p2, w1, w2, col, rule

Check(passed, severity) ==
    [rule |-> rule, column |-> col, passed |-> passed, severity |-> severity]

Fresh == [fresh |-> [breached |-> FALSE, severity |-> "low"], dq |-> {}]
Stale == [fresh |-> [breached |-> TRUE, severity |-> "critical"], dq |-> {}]

Clean == [dq |-> {Check(TRUE, "high")}, pii |-> {[column |-> col, category |-> "non_pii"]}]
Sensitive ==
    [dq |-> {Check(TRUE, "high")}, pii |-> {[column |-> col, category |-> "sensitive"]}]

Same == {}
Renamed == {[kind |-> "renamed", column |-> col, severity |-> "medium"]}

TwoMetadata == {Fresh, Stale}
OneMetadata == {Fresh}
TwoSamples == {Clean, Sensitive}
OneSample == {Clean}
TwoSchemas == {Same, Renamed}
OneSchema == {Same}

\* Threads of one process are interchangeable, and so are tenants.
Interchangeable == Permutations(Worker) \cup Permutations(Tenant)

AllKeys == Tenant \X Dataset
OneProcess == [w \in Worker |-> p1]
TwoProcesses == w1 :> p1 @@ w2 :> p2

=============================================================================
