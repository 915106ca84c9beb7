--------------------------- MODULE ScorecardStore ---------------------------
(***************************************************************************)
(* ScorecardStore of domain/certification_service.py as the threads of one *)
(* server use it: POST /v1/certify saves, GET /v1/certification/{id} reads *)
(* (certification_status, response_for, ScorecardStore.get).               *)
(*                                                                         *)
(* The store is a plain dict without a lock. One dict lookup or assignment *)
(* is atomic under the interpreter lock, but get() iterates the dict with  *)
(* a generator, and another thread may run between two iterations. A dict  *)
(* iterates in insertion order, remembers its size when the iterator is    *)
(* made, and raises RuntimeError when it finds the size changed; nothing   *)
(* is ever deleted, so only the first save of a key changes it.            *)
(***************************************************************************)
EXTENDS Integers, Sequences

CONSTANTS
    Dataset, Tenant, Status, Reader,
    MaxSaves,   \* bound: saves in a behaviour
    NoStatus    \* the key has no entry

Key == Tenant \X Dataset

ASSUME StoreAssumption ==
    /\ MaxSaves \in Nat
    /\ NoStatus \notin Status
    /\ Status \cap {"forbidden", "absent", "error", "pending"} = {}

VARIABLES
    held,    \* [Key -> status or NoStatus], the values of _by_key
    order,   \* the keys of _by_key in insertion order
    saves,   \* bound counter
    pc,      \* where each reader stands in certification_status
    query,   \* the key it asks for: its own tenant and a dataset
    size,    \* the dict size its iterator remembers
    passed,  \* entries its iterator has passed
    answer,  \* what the HTTP layer makes of the result
    before   \* history: what was held when the request arrived

vars == <<held, order, saves, pc, query, size, passed, answer, before>>

dict == <<held, order, saves>>

Entries == {order[i] : i \in 1 .. Len(order)}

Nobody == [k \in Key |-> NoStatus]

\* 200 with a status, 403, 404, and the 500 of an exception nobody catches.
Answers == Status \cup {"forbidden", "absent", "error", "pending"}

Init ==
    /\ held = Nobody
    /\ order = <<>>
    /\ saves = 0
    /\ pc = [r \in Reader |-> "idle"]
    /\ query \in [Reader -> Key]
    /\ size = [r \in Reader |-> 0]
    /\ passed = [r \in Reader |-> 0]
    /\ answer = [r \in Reader |-> "pending"]
    /\ before = [r \in Reader |-> Nobody]

(* ScorecardStore.save, by a certification of any tenant on another thread *)
Save(k, s) ==
    /\ saves < MaxSaves
    /\ saves' = saves + 1
    /\ held' = [held EXCEPT ![k] = s]
    /\ order' = IF held[k] = NoStatus THEN Append(order, k) ELSE order
    /\ UNCHANGED <<pc, query, size, passed, answer, before>>

Ask(r, k) ==
    /\ pc[r] = "idle"
    /\ pc' = [pc EXCEPT ![r] = "lookup"]
    /\ query' = [query EXCEPT ![r] = k]
    /\ before' = [before EXCEPT ![r] = held]
    /\ UNCHANGED <<dict, size, passed, answer>>

AnswerWith(r, a) ==
    /\ pc' = [pc EXCEPT ![r] = "answered"]
    /\ answer' = [answer EXCEPT ![r] = a]

\* Mutant of LookupHit: an entry is assumed.
LookupAssumed(r) ==
    /\ pc[r] = "lookup"
    /\ AnswerWith(r, held[query[r]])
    /\ UNCHANGED <<dict, query, size, passed, before>>

(* self._by_key.get((tenant, dataset_id)) found the caller's own entry. *)
LookupHit(r) ==
    /\ pc[r] = "lookup"
    /\ held[query[r]] # NoStatus
    /\ AnswerWith(r, held[query[r]])
    /\ UNCHANGED <<dict, query, size, passed, before>>

\* Mutant of LookupMiss: the scan does not wait for the caller's own lookup.
LookupIgnored(r) ==
    /\ pc[r] = "lookup"
    /\ pc' = [pc EXCEPT ![r] = "open"]
    /\ UNCHANGED <<dict, query, size, passed, answer, before>>

LookupMiss(r) ==
    /\ pc[r] = "lookup"
    /\ held[query[r]] = NoStatus
    /\ pc' = [pc EXCEPT ![r] = "open"]
    /\ UNCHANGED <<dict, query, size, passed, answer, before>>

(* The generator of any(...) makes its dict iterator. *)
OpenScan(r) ==
    /\ pc[r] = "open"
    /\ pc' = [pc EXCEPT ![r] = "scan"]
    /\ size' = [size EXCEPT ![r] = Len(order)]
    /\ passed' = [passed EXCEPT ![r] = 0]
    /\ UNCHANGED <<dict, query, answer, before>>

\* Mutant of Foreign: the tenant is not compared.
ForeignOrOwn(r, k) == k[2] = query[r][2]

(* A dataset the caller asks for, held under another tenant. *)
Foreign(r, k) == k[2] = query[r][2] /\ k[1] # query[r][1]

Resized(r) == Len(order) # size[r]

(* The iterator finds the dict resized: RuntimeError, which no handler     *)
(* catches.                                                                *)
ScanResized(r) ==
    /\ pc[r] = "scan"
    /\ Resized(r)
    /\ AnswerWith(r, "error")
    /\ UNCHANGED <<dict, query, size, passed, before>>

\* Mutant of ScanEnds: the last entry is not looked at.
ScanEndsEarly(r) ==
    /\ pc[r] = "scan"
    /\ ~Resized(r)
    /\ passed[r] + 1 >= size[r]
    /\ AnswerWith(r, "absent")
    /\ UNCHANGED <<dict, query, size, passed, before>>

ScanEnds(r) ==
    /\ pc[r] = "scan"
    /\ ~Resized(r)
    /\ passed[r] = size[r]
    /\ AnswerWith(r, "absent")
    /\ UNCHANGED <<dict, query, size, passed, before>>

(* CrossTenantError *)
ScanMatches(r) ==
    /\ pc[r] = "scan"
    /\ ~Resized(r)
    /\ passed[r] < size[r]
    /\ Foreign(r, order[passed[r] + 1])
    /\ AnswerWith(r, "forbidden")
    /\ UNCHANGED <<dict, query, size, passed, before>>

\* Mutant of ScanSkips: an entry that does not match is looked at again.
ScanStays(r) ==
    /\ pc[r] = "scan"
    /\ passed[r] < size[r]
    /\ ~Foreign(r, order[passed[r] + 1])
    /\ UNCHANGED vars

ScanSkips(r) ==
    /\ pc[r] = "scan"
    /\ ~Resized(r)
    /\ passed[r] < size[r]
    /\ ~Foreign(r, order[passed[r] + 1])
    /\ passed' = [passed EXCEPT ![r] = @ + 1]
    /\ UNCHANGED <<dict, pc, query, size, answer, before>>

Scan(r) == ScanResized(r) \/ ScanEnds(r) \/ ScanMatches(r) \/ ScanSkips(r)

(* The response leaves; the thread is free for the next request. *)
Respond(r) ==
    /\ pc[r] = "answered"
    /\ pc' = [pc EXCEPT ![r] = "idle"]
    /\ answer' = [answer EXCEPT ![r] = "pending"]
    /\ size' = [size EXCEPT ![r] = 0]
    /\ passed' = [passed EXCEPT ![r] = 0]
    /\ before' = [before EXCEPT ![r] = Nobody]
    /\ UNCHANGED <<dict, query>>

Read(r) == LookupHit(r) \/ LookupMiss(r) \/ OpenScan(r) \/ Scan(r) \/ Respond(r)

Next ==
    \/ \E k \in Key, s \in Status : Save(k, s)
    \/ \E r \in Reader, k \in Key : Ask(r, k)
    \/ \E r \in Reader : Read(r)

Spec == Init /\ [][Next]_vars

(* A reader's thread is scheduled again and again. *)
FairSpec == Spec /\ \A r \in Reader : WF_vars(Read(r))

-----------------------------------------------------------------------------
(* Properties.                                                             *)

TypeOK ==
    /\ held \in [Key -> Status \cup {NoStatus}]
    /\ order \in Seq(Key)
    /\ saves \in 0 .. MaxSaves
    /\ pc \in [Reader -> {"idle", "lookup", "open", "scan", "answered"}]
    /\ query \in [Reader -> Key]
    /\ size \in [Reader -> Nat]
    /\ passed \in [Reader -> Nat]
    /\ answer \in [Reader -> Answers]
    /\ before \in [Reader -> [Key -> Status \cup {NoStatus}]]

(* 404 is never a lie about a verdict that was there: a dataset answered   *)
(* absent was held by no tenant when the request arrived. The scan runs    *)
(* over a dict that other threads grow, so this needs the whole scan.      *)
AbsentIsTrue ==
    \A r \in Reader :
        answer[r] = "absent" =>
            \A k \in Key : k[2] = query[r][2] => before[r][k] = NoStatus

(* 403 means another tenant holds the dataset, and never hides a scorecard *)
(* that was the caller's own when it asked.                                *)
ForbiddenIsTrue ==
    \A r \in Reader :
        answer[r] = "forbidden" =>
            /\ before[r][query[r]] = NoStatus
            /\ \E t \in Tenant \ {query[r][1]} : held[<<t, query[r][2]>>] # NoStatus

(* A tenant that has a scorecard reads a scorecard, whatever other threads *)
(* save meanwhile: its read cannot fail, and cannot be answered 403 or 404.*)
OwnIsServed ==
    \A r \in Reader :
        pc[r] = "answered" /\ before[r][query[r]] # NoStatus => answer[r] \in Status

(* Every status read is answered: the scan cannot be outrun by saves that  *)
(* keep extending the dict, because the first of them ends it.             *)
ReadsEnd == \A r \in Reader : pc[r] = "lookup" ~> pc[r] = "answered"

(* What the API documents of a dataset the caller does not hold: 403 when  *)
(* another tenant holds it, else 404. A read never ends in anything else.  *)
ReadsNeverFail == \A r \in Reader : answer[r] # "error"

=============================================================================
