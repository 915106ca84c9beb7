------------------------ MODULE ScorecardStoreProofs ------------------------
(***************************************************************************)
(* The safety of the status reads, for any numbers of tenants, datasets,   *)
(* reader threads and saves. The argument is in Inv: the dict lists what   *)
(* it holds and forgets nothing, and a scan that no save has resized has   *)
(* seen every entry it passed under the same keys.                         *)
(***************************************************************************)
EXTENDS ScorecardStore, SequenceTheorems, TLAPS

(* The insertion order lists the held keys and no others. *)
Listed ==
    /\ \A k \in Key : held[k] # NoStatus => \E i \in 1 .. Len(order) : order[i] = k
    /\ \A i \in 1 .. Len(order) : held[order[i]] # NoStatus

(* A key that was held when a request arrived is still held. *)
Kept == \A r \in Reader : \A k \in Key : before[r][k] # NoStatus => held[k] # NoStatus

(* Whoever scans had no entry of its own when it asked. *)
MissedFirst ==
    \A r \in Reader : pc[r] \in {"open", "scan"} => before[r][query[r]] = NoStatus

(* No entry a scan has passed is another tenant's entry of the dataset. *)
PassedNone ==
    \A r \in Reader : pc[r] = "scan" =>
        /\ passed[r] <= size[r]
        /\ size[r] <= Len(order)
        /\ \A i \in 1 .. passed[r] : ~Foreign(r, order[i])

(* Only an answered request has an answer. *)
Unanswered == \A r \in Reader : pc[r] # "answered" => answer[r] = "pending"

Inv ==
    /\ TypeOK
    /\ Listed
    /\ Kept
    /\ MissedFirst
    /\ PassedNone
    /\ Unanswered
    /\ AbsentIsTrue
    /\ ForbiddenIsTrue
    /\ OwnIsServed

LEMMA InitInv == Init => Inv
  <1> SUFFICES ASSUME Init PROVE Inv
    OBVIOUS
  <1> USE StoreAssumption DEF Init, Nobody, Key
  <1>1. TypeOK
    BY DEF TypeOK, Answers
  <1>2. Listed /\ Kept
    BY DEF Listed, Kept
  <1>3. MissedFirst /\ PassedNone /\ Unanswered
    BY DEF MissedFirst, PassedNone, Unanswered
  <1>4. AbsentIsTrue /\ ForbiddenIsTrue /\ OwnIsServed
    BY DEF AbsentIsTrue, ForbiddenIsTrue, OwnIsServed
  <1> QED
    BY <1>1, <1>2, <1>3, <1>4 DEF Inv

(* A save appends the key it adds and moves no other. *)
LEMMA SaveOrder ==
    ASSUME TypeOK, NEW k \in Key, NEW s \in Status, Save(k, s)
    PROVE  /\ order' \in Seq(Key)
           /\ Len(order') \in Nat
           /\ Len(order) \in Nat
           /\ Len(order') = IF held[k] = NoStatus THEN Len(order) + 1 ELSE Len(order)
           /\ \A i \in 1 .. Len(order) : order'[i] = order[i]
           /\ held[k] = NoStatus => order'[Len(order) + 1] = k
  <1>1. order \in Seq(Key) /\ Len(order) \in Nat
    BY LenProperties DEF TypeOK
  <1>2. CASE held[k] = NoStatus
    <2>1. order' = Append(order, k)
      BY <1>2 DEF Save
    <2>2. /\ Append(order, k) \in Seq(Key)
          /\ Len(Append(order, k)) = Len(order) + 1
          /\ \A i \in 1 .. Len(order) : Append(order, k)[i] = order[i]
          /\ Append(order, k)[Len(order) + 1] = k
      BY <1>1, AppendProperties
    <2> QED
      BY <1>1, <1>2, <2>1, <2>2
  <1>3. CASE held[k] # NoStatus
    BY <1>1, <1>3 DEF Save
  <1> QED
    BY <1>2, <1>3

LEMMA SaveInv ==
    ASSUME Inv, NEW k \in Key, NEW s \in Status, Save(k, s)
    PROVE  Inv'
  <1> USE StoreAssumption
  <1>0. /\ TypeOK
        /\ held' = [held EXCEPT ![k] = s]
        /\ UNCHANGED <<pc, query, size, passed, answer, before>>
    BY DEF Inv, Save
  <1>o. /\ order' \in Seq(Key)
        /\ Len(order') \in Nat
        /\ Len(order) \in Nat
        /\ Len(order') = IF held[k] = NoStatus THEN Len(order) + 1 ELSE Len(order)
        /\ \A i \in 1 .. Len(order) : order'[i] = order[i]
        /\ held[k] = NoStatus => order'[Len(order) + 1] = k
    BY <1>0, SaveOrder
  <1>e. \A i \in 1 .. Len(order) : order[i] \in Key
    BY <1>0, ElementOfSeq DEF TypeOK
  <1>h. /\ held \in [Key -> Status \cup {NoStatus}]
        /\ held'[k] = s
        /\ \A j \in Key \ {k} : held'[j] = held[j]
        /\ \A j \in Key : held[j] # NoStatus => held'[j] # NoStatus
    BY <1>0 DEF TypeOK
  <1>1. TypeOK'
    <2>1. saves' \in 0 .. MaxSaves
      BY <1>0 DEF TypeOK, Save
    <2> QED
      BY <1>0, <1>o, <2>1 DEF TypeOK
  <1>2. Listed'
    <2>1. ASSUME NEW j \in Key, held'[j] # NoStatus
          PROVE  \E i \in 1 .. Len(order') : order'[i] = j
      <3>1. CASE held[j] # NoStatus
        BY <3>1, <1>o DEF Inv, Listed
      <3>2. CASE held[j] = NoStatus
        <4>1. j = k
          BY <2>1, <3>2, <1>h
        <4>2. Len(order) + 1 \in 1 .. Len(order') /\ order'[Len(order) + 1] = j
          BY <4>1, <3>2, <1>o
        <4> QED
          BY <4>2
      <3> QED
        BY <3>1, <3>2
    <2>2. ASSUME NEW i \in 1 .. Len(order')
          PROVE  held'[order'[i]] # NoStatus
      <3>1. CASE i \in 1 .. Len(order)
        BY <3>1, <1>o, <1>e, <1>h DEF Inv, Listed
      <3>2. CASE i \notin 1 .. Len(order)
        <4>1. held[k] = NoStatus /\ i = Len(order) + 1
          BY <3>2, <1>o
        <4> QED
          BY <4>1, <1>o, <1>h
      <3> QED
        BY <3>1, <3>2
    <2> QED
      BY <2>1, <2>2 DEF Listed
  <1>3. Kept' /\ MissedFirst' /\ Unanswered'
    BY <1>0, <1>h DEF Inv, Kept, MissedFirst, Unanswered
  <1>4. PassedNone'
    <2> SUFFICES ASSUME NEW r \in Reader, pc[r] = "scan"
                 PROVE  /\ passed[r] <= size[r]
                        /\ size[r] <= Len(order')
                        /\ \A i \in 1 .. passed[r] : ~Foreign(r, order[i])'
      BY <1>0 DEF PassedNone
    <2>1. /\ passed[r] <= size[r]
          /\ size[r] <= Len(order)
          /\ \A i \in 1 .. passed[r] : ~Foreign(r, order[i])
          /\ passed[r] \in Nat /\ size[r] \in Nat
      BY <1>0 DEF Inv, PassedNone, TypeOK
    <2>2. \A i \in 1 .. passed[r] : order'[i] = order[i]
      BY <2>1, <1>o
    <2>3. size[r] <= Len(order')
      BY <2>1, <1>o
    <2>4. ASSUME NEW i \in 1 .. passed[r]
          PROVE  ~Foreign(r, order[i])'
      <3>1. ~Foreign(r, order[i]) /\ order'[i] = order[i] /\ query' = query
        BY <2>1, <2>2, <1>0
      <3> QED
        BY <3>1 DEF Foreign
    <2> QED
      BY <2>1, <2>3, <2>4
  <1>5. AbsentIsTrue' /\ OwnIsServed'
    BY <1>0 DEF Inv, AbsentIsTrue, OwnIsServed
  <1>6. ForbiddenIsTrue'
    <2> SUFFICES ASSUME NEW r \in Reader, answer[r] = "forbidden"
                 PROVE  /\ before[r][query[r]] = NoStatus
                        /\ \E t \in Tenant \ {query[r][1]} :
                              held'[<<t, query[r][2]>>] # NoStatus
      BY <1>0 DEF ForbiddenIsTrue
    <2>1. query[r] \in Tenant \X Dataset
      BY <1>0 DEF TypeOK, Key
    <2>2. /\ before[r][query[r]] = NoStatus
          /\ \E t \in Tenant \ {query[r][1]} : held[<<t, query[r][2]>>] # NoStatus
      BY DEF Inv, ForbiddenIsTrue
    <2>3. \A t \in Tenant : <<t, query[r][2]>> \in Key
      BY <2>1 DEF Key
    <2> QED
      BY <2>2, <2>3, <1>h
  <1> QED
    BY <1>1, <1>2, <1>3, <1>4, <1>5, <1>6 DEF Inv

LEMMA AskInv ==
    ASSUME Inv, NEW r \in Reader, NEW k \in Key, Ask(r, k)
    PROVE  Inv'
  <1> USE DEF Inv, Ask, dict
  <1>1. TypeOK'
    BY DEF TypeOK
  <1>2. Listed'
    BY DEF Listed
  <1>3. Kept'
    BY DEF Kept, TypeOK
  <1>4. MissedFirst' /\ Unanswered'
    BY DEF MissedFirst, Unanswered, TypeOK
  <1>5. PassedNone'
    BY DEF PassedNone, Foreign, TypeOK
  <1>6. answer[r] = "pending" /\ answer' = answer
    BY DEF Unanswered
  <1>7. AbsentIsTrue'
    BY <1>6 DEF AbsentIsTrue, TypeOK
  <1>8. ForbiddenIsTrue'
    BY <1>6 DEF ForbiddenIsTrue, TypeOK
  <1>9. OwnIsServed'
    BY <1>6 DEF OwnIsServed, TypeOK
  <1> QED
    BY <1>1, <1>2, <1>3, <1>4, <1>5, <1>7, <1>8, <1>9

(* A step that only answers reader r, truthfully, keeps the invariant. *)
LEMMA AnswerInv ==
    ASSUME Inv, NEW r \in Reader, NEW a \in Answers \ {"pending"},
           AnswerWith(r, a),
           UNCHANGED <<dict, query, size, passed, before>>,
           a = "absent" =>
               \A k \in Key : k[2] = query[r][2] => before[r][k] = NoStatus,
           a = "forbidden" =>
               \E t \in Tenant \ {query[r][1]} : held[<<t, query[r][2]>>] # NoStatus,
           a \notin Status => before[r][query[r]] = NoStatus
    PROVE  Inv'
  <1> USE StoreAssumption DEF Inv, AnswerWith, dict
  <1>1. TypeOK'
    BY DEF TypeOK
  <1>2. Listed' /\ Kept'
    BY DEF Listed, Kept
  <1>3. MissedFirst' /\ Unanswered'
    BY DEF MissedFirst, Unanswered, TypeOK
  <1>4. PassedNone'
    BY DEF PassedNone, Foreign, TypeOK
  <1>5. AbsentIsTrue'
    BY DEF AbsentIsTrue, TypeOK
  <1>6. ForbiddenIsTrue'
    BY DEF ForbiddenIsTrue, TypeOK
  <1>7. OwnIsServed'
    BY DEF OwnIsServed, TypeOK
  <1> QED
    BY <1>1, <1>2, <1>3, <1>4, <1>5, <1>6, <1>7

LEMMA LookupInv ==
    ASSUME Inv, NEW r \in Reader, LookupHit(r) \/ LookupMiss(r)
    PROVE  Inv'
  <1> USE StoreAssumption
  <1>0. TypeOK /\ query[r] \in Key
    BY DEF Inv, TypeOK
  <1>1. CASE LookupHit(r)
    <2>1. held[query[r]] \in Status
      BY <1>0, <1>1 DEF LookupHit, TypeOK
    <2> QED
      BY <2>1, <1>1, AnswerInv DEF LookupHit, Answers
  <1>2. CASE LookupMiss(r)
    <2> USE <1>2 DEF Inv, LookupMiss, dict
    <2>1. TypeOK'
      BY DEF TypeOK
    <2>2. Listed' /\ Kept'
      BY DEF Listed, Kept
    <2>3. before[r][query[r]] = NoStatus
      BY <1>0 DEF Kept
    <2>4. MissedFirst' /\ Unanswered'
      BY <2>3 DEF MissedFirst, Unanswered, TypeOK
    <2>5. PassedNone'
      BY DEF PassedNone, Foreign, TypeOK
    <2>6. AbsentIsTrue' /\ ForbiddenIsTrue'
      BY DEF AbsentIsTrue, ForbiddenIsTrue
    <2>7. OwnIsServed'
      BY DEF OwnIsServed, TypeOK
    <2> QED
      BY <2>1, <2>2, <2>4, <2>5, <2>6, <2>7
  <1> QED
    BY <1>1, <1>2

LEMMA OpenScanInv ==
    ASSUME Inv, NEW r \in Reader, OpenScan(r)
    PROVE  Inv'
  <1> USE DEF Inv, OpenScan, dict
  <1>0. Len(order) \in Nat
    BY LenProperties DEF TypeOK
  <1>1. TypeOK'
    BY <1>0 DEF TypeOK
  <1>2. Listed' /\ Kept'
    BY DEF Listed, Kept
  <1>3. MissedFirst' /\ Unanswered'
    BY DEF MissedFirst, Unanswered, TypeOK
  <1>4. PassedNone'
    BY <1>0 DEF PassedNone, Foreign, TypeOK
  <1>5. AbsentIsTrue' /\ ForbiddenIsTrue'
    BY DEF AbsentIsTrue, ForbiddenIsTrue
  <1>6. OwnIsServed'
    BY DEF OwnIsServed, TypeOK
  <1> QED
    BY <1>1, <1>2, <1>3, <1>4, <1>5, <1>6

(* A complete, undisturbed scan that matched nothing: nobody held the      *)
(* dataset when the request arrived.                                       *)
LEMMA WholeScan ==
    ASSUME Inv, NEW r \in Reader, ScanEnds(r),
           NEW k \in Key, k[2] = query[r][2]
    PROVE  before[r][k] = NoStatus
  <1> SUFFICES ASSUME before[r][k] # NoStatus PROVE FALSE
    OBVIOUS
  <1>1. PICK i \in 1 .. Len(order) : order[i] = k
    BY DEF Inv, Kept, Listed
  <1>2. i \in 1 .. passed[r]
    BY DEF ScanEnds, Resized
  <1>3. ~Foreign(r, k)
    BY <1>1, <1>2 DEF Inv, PassedNone, ScanEnds
  <1>4. k = query[r]
    <2>1. k \in Tenant \X Dataset /\ query[r] \in Tenant \X Dataset
      BY DEF Inv, TypeOK, Key
    <2>2. k[1] = query[r][1]
      BY <1>3 DEF Foreign
    <2> QED
      BY <2>1, <2>2
  <1> QED
    BY <1>4 DEF Inv, MissedFirst, ScanEnds

LEMMA ScanInv ==
    ASSUME Inv, NEW r \in Reader, Scan(r)
    PROVE  Inv'
  <1> USE StoreAssumption
  <1>0. /\ TypeOK
        /\ query[r] \in Tenant \X Dataset
        /\ passed[r] \in Nat /\ size[r] \in Nat
        /\ Len(order) \in Nat
    BY LenProperties DEF Inv, TypeOK, Key
  <1>b. pc[r] = "scan" /\ before[r][query[r]] = NoStatus
    BY DEF Inv, MissedFirst, Scan, ScanResized, ScanEnds, ScanMatches, ScanSkips
  <1>1. CASE ScanResized(r)
    BY <1>1, <1>b, AnswerInv DEF ScanResized, Answers
  <1>2. CASE ScanEnds(r)
    <2>1. \A k \in Key : k[2] = query[r][2] => before[r][k] = NoStatus
      BY <1>2, WholeScan
    <2> QED
      BY <1>2, <1>b, <2>1, AnswerInv DEF ScanEnds, Answers
  <1>3. CASE ScanMatches(r)
    <2> DEFINE k == order[passed[r] + 1]
    <2>1. passed[r] + 1 \in 1 .. Len(order)
      BY <1>0, <1>3 DEF ScanMatches, Resized
    <2>2. k \in Tenant \X Dataset /\ held[k] # NoStatus
      BY <1>0, <2>1, ElementOfSeq DEF Inv, Listed, TypeOK, Key
    <2>3. k[1] \in Tenant \ {query[r][1]} /\ k = <<k[1], query[r][2]>>
      BY <2>2, <1>3 DEF ScanMatches, Foreign
    <2>4. \E t \in Tenant \ {query[r][1]} : held[<<t, query[r][2]>>] # NoStatus
      BY <2>2, <2>3
    <2> QED
      BY <1>3, <1>b, <2>4, AnswerInv DEF ScanMatches, Answers
  <1>4. CASE ScanSkips(r)
    <2> USE <1>4 DEF Inv, ScanSkips, dict
    <2>1. TypeOK'
      BY <1>0 DEF TypeOK
    <2>2. Listed' /\ Kept'
      BY DEF Listed, Kept
    <2>3. MissedFirst' /\ Unanswered'
      BY DEF MissedFirst, Unanswered, TypeOK
    <2>4. PassedNone'
      <3> SUFFICES ASSUME NEW q \in Reader, pc[q] = "scan"
                   PROVE  /\ passed'[q] <= size[q]
                          /\ size[q] <= Len(order)
                          /\ \A i \in 1 .. passed'[q] : ~Foreign(q, order[i])
        BY DEF PassedNone, Foreign
      <3>1. CASE q # r
        BY <3>1 DEF PassedNone, TypeOK
      <3>2. CASE q = r
        <4>1. passed'[r] = passed[r] + 1
          BY <1>0 DEF TypeOK
        <4> QED
          BY <3>2, <4>1, <1>0 DEF PassedNone
      <3> QED
        BY <3>1, <3>2
    <2>5. AbsentIsTrue' /\ ForbiddenIsTrue' /\ OwnIsServed'
      BY DEF AbsentIsTrue, ForbiddenIsTrue, OwnIsServed
    <2> QED
      BY <2>1, <2>2, <2>3, <2>4, <2>5
  <1> QED
    BY <1>1, <1>2, <1>3, <1>4 DEF Scan

LEMMA RespondInv ==
    ASSUME Inv, NEW r \in Reader, Respond(r)
    PROVE  Inv'
  <1> USE StoreAssumption DEF Inv, Respond, dict
  <1>1. TypeOK'
    BY DEF TypeOK, Answers, Nobody
  <1>2. Listed'
    BY DEF Listed
  <1>3. Kept'
    BY DEF Kept, TypeOK, Nobody
  <1>4. MissedFirst' /\ Unanswered'
    BY DEF MissedFirst, Unanswered, TypeOK
  <1>5. PassedNone'
    BY DEF PassedNone, Foreign, TypeOK
  <1>6. AbsentIsTrue'
    BY DEF AbsentIsTrue, TypeOK
  <1>7. ForbiddenIsTrue'
    BY DEF ForbiddenIsTrue, TypeOK
  <1>8. OwnIsServed'
    BY DEF OwnIsServed, TypeOK
  <1> QED
    BY <1>1, <1>2, <1>3, <1>4, <1>5, <1>6, <1>7, <1>8

LEMMA NextInv == Inv /\ [Next]_vars => Inv'
  <1> SUFFICES ASSUME Inv, [Next]_vars PROVE Inv'
    OBVIOUS
  <1>1. ASSUME NEW k \in Key, NEW s \in Status, Save(k, s) PROVE Inv'
    BY <1>1, SaveInv
  <1>2. ASSUME NEW r \in Reader, NEW k \in Key, Ask(r, k) PROVE Inv'
    BY <1>2, AskInv
  <1>3. ASSUME NEW r \in Reader, Read(r) PROVE Inv'
    BY <1>3, LookupInv, OpenScanInv, ScanInv, RespondInv DEF Read
  <1>4. CASE UNCHANGED vars
    BY <1>4 DEF vars, Inv, TypeOK, Listed, Kept, MissedFirst, PassedNone, Foreign,
                Unanswered, AbsentIsTrue, ForbiddenIsTrue, OwnIsServed
  <1> QED
    BY <1>1, <1>2, <1>3, <1>4 DEF Next

LEMMA SpecInv == Spec => []Inv
  BY InitInv, NextInv, PTL DEF Spec

(* The state of the store and of its readers keeps its types. *)
THEOREM StoreTypes == Spec => []TypeOK
  <1>1. Inv => TypeOK
    BY DEF Inv
  <1> QED
    BY SpecInv, <1>1, PTL

(* 404 from certification_status is true of the moment the request came:   *)
(* no tenant held a scorecard of the dataset.                              *)
THEOREM AbsentIsTrueHolds == Spec => []AbsentIsTrue
  <1>1. Inv => AbsentIsTrue
    BY DEF Inv
  <1> QED
    BY SpecInv, <1>1, PTL

(* 403 from certification_status: another tenant holds the dataset and the *)
(* caller did not when it asked.                                           *)
THEOREM ForbiddenIsTrueHolds == Spec => []ForbiddenIsTrue
  <1>1. Inv => ForbiddenIsTrue
    BY DEF Inv
  <1> QED
    BY SpecInv, <1>1, PTL

(* A caller that has a scorecard reads a scorecard, however many saves of  *)
(* other threads fall into its read.                                       *)
THEOREM OwnIsServedHolds == Spec => []OwnIsServed
  <1>1. Inv => OwnIsServed
    BY DEF Inv
  <1> QED
    BY SpecInv, <1>1, PTL

=============================================================================
