------------------------ MODULE CertificationPromise ------------------------
(***************************************************************************)
(* What certification promises, with the pipeline hidden: a register of    *)
(* verdicts per process and key, a ledger of audited verdicts, and the     *)
(* human-review cases they give rise to.                                   *)
(*                                                                         *)
(*   - only an audited verdict is published;                               *)
(*   - a verdict that takes CERTIFIED away from what the register holds AT *)
(*     THAT MOMENT is flagged for review (rule R8), and a CERTIFIED one    *)
(*     never is;                                                           *)
(*   - a case is opened only for a flagged verdict that was published, and *)
(*     each flagged verdict leaves the process as a hand-off: delivered,   *)
(*     given up on, or lost with the process.                              *)
(***************************************************************************)
EXTENDS Integers

CONSTANTS Process, Key, Status, Severity, Dataset, Tenant, NoStatus

VARIABLES
    register,  \* [Process -> [Key -> Status or NoStatus]]
    ledger,    \* audited verdicts
    owed,      \* hand-offs due: [process, review]
    cases      \* reviews at the console

promise == <<register, ledger, owed, cases>>

Verdict == [dataset : Dataset, status : Status, review : BOOLEAN, severity : Severity]

Case(k, v) ==
    [subject |-> v.dataset, status |-> v.status, tenant |-> k[1],
     approvals |-> IF v.severity = "critical" THEN 2 ELSE 1]

Init ==
    /\ register = [p \in Process |-> [k \in Key |-> NoStatus]]
    /\ ledger = {}
    /\ owed = {}
    /\ cases = {}

Enter(v) ==
    /\ ledger' = ledger \cup {v}
    /\ UNCHANGED <<register, owed, cases>>

TakesAway(p, k, v) == register[p][k] = "certified" /\ v.status # "certified"

Publish(p, k, v) ==
    /\ v \in ledger
    /\ k[2] = v.dataset
    /\ TakesAway(p, k, v) => v.review
    /\ v.status = "certified" => ~v.review
    /\ register' = [register EXCEPT ![p][k] = v.status]
    /\ owed' = owed \cup (IF v.review THEN {[process |-> p, review |-> Case(k, v)]} ELSE {})
    /\ UNCHANGED <<ledger, cases>>

HandOff(o) ==
    /\ o \in owed
    /\ owed' = owed \ {o}
    /\ cases' = cases \cup {o.review}
    /\ UNCHANGED <<register, ledger>>

GiveUp(o) ==
    /\ o \in owed
    /\ owed' = owed \ {o}
    /\ UNCHANGED <<register, ledger, cases>>

Forget(p) ==
    /\ register' = [register EXCEPT ![p] = [k \in Key |-> NoStatus]]
    /\ owed' = {o \in owed : o.process # p}
    /\ UNCHANGED <<ledger, cases>>

Next ==
    \/ \E v \in Verdict : Enter(v)
    \/ \E p \in Process, k \in Key, v \in ledger : Publish(p, k, v)
    \/ \E o \in owed : HandOff(o) \/ GiveUp(o)
    \/ \E p \in Process : Forget(p)

Spec == Init /\ [][Next]_promise

=============================================================================
