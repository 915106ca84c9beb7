------------------------- MODULE SchemaDriftProofs -------------------------
(***************************************************************************)
(* The rename loop over any schemas, for any column names and types. The   *)
(* argument is that consuming columns never matters: the loop pairs only   *)
(* the sole removed and the sole added column of a type, so what it has    *)
(* consumed can be neither candidate nor sibling of a column to come.      *)
(***************************************************************************)
EXTENDS SchemaDrift, FiniteSetTheorems, TLAPS

(* The documented rename, column by column. *)
Sole(r, a) ==
    /\ r \in Removed /\ a \in Added /\ live[a] = base[r]
    /\ \A s \in Removed : base[s] = base[r] => s = r
    /\ \A b \in Added : live[b] = base[r] => b = a

(* What the loop has consumed is the documented renames it has come to. *)
Consumed ==
    /\ \A r \in Removed : r \in renamedOut <=> r \notin todo /\ \E a \in Added : Sole(r, a)
    /\ \A a \in Added : a \in renamedIn <=> \E r \in renamedOut : Sole(r, a)
    /\ pc # "rename" => todo = {}

RetypedFindings == {RetypedFinding(n) : n \in Retyped}
RenamedFindings == {RenamedFinding(p[1], p[2]) :
                        p \in {q \in Removed \X Added : q[1] \in renamedOut /\ Sole(q[1], q[2])}}
RestFindings == {RemovedFinding(r) : r \in Removed \ renamedOut}
                    \cup {AddedFinding(a) : a \in Added \ renamedIn}

Found ==
    findings = RetypedFindings \cup RenamedFindings
                   \cup (IF pc = "done" THEN RestFindings ELSE {})

Inv == TypeOK /\ Consumed /\ Found

(* The names of a schema are names, and its columns have types. *)
LEMMA Schemas ==
    ASSUME TypeOK
    PROVE  /\ Removed \subseteq Name /\ Added \subseteq Name
           /\ IsFiniteSet(Removed) /\ IsFiniteSet(Added)
           /\ \A r \in Removed : base[r] \in Type
           /\ \A a \in Added : live[a] \in Type
  <1>1. /\ DOMAIN base \subseteq Name /\ \A n \in DOMAIN base : base[n] \in Type
        /\ DOMAIN live \subseteq Name /\ \A n \in DOMAIN live : live[n] \in Type
    BY DEF TypeOK, Schema
  <1>2. Removed \in SUBSET Name /\ Added \in SUBSET Name
    BY <1>1 DEF Removed, Added
  <1>3. IsFiniteSet(Removed) /\ IsFiniteSet(Added)
    BY <1>2, NameAssumption, FS_Subset
  <1> QED
    BY <1>1, <1>2, <1>3 DEF Removed, Added

LEMMA SoleIsRename ==
    ASSUME TypeOK, NEW r \in Removed, NEW a \in Added
    PROVE  <<r, a>> \in Renames <=> Sole(r, a)
  <1>1. base[r] \in Type
    BY Schemas
  <1>2. <<r, a>> \in Renames <=>
            \E t \in Type : OfType(Removed, base, t) = {r} /\ OfType(Added, live, t) = {a}
    BY DEF Renames
  <1>3. ASSUME NEW t \in Type, OfType(Removed, base, t) = {r}, OfType(Added, live, t) = {a}
        PROVE  Sole(r, a)
    <2>1. base[r] = t /\ live[a] = t
      BY <1>3 DEF OfType
    <2> QED
      BY <1>3, <2>1 DEF OfType, Sole
  <1>4. ASSUME Sole(r, a)
        PROVE  OfType(Removed, base, base[r]) = {r} /\ OfType(Added, live, base[r]) = {a}
    BY <1>4 DEF OfType, Sole
  <1> QED
    BY <1>1, <1>2, <1>3, <1>4

(* What is consumed competes with nobody: a pass decides by the schemas    *)
(* alone.                                                                  *)
LEMMA PassDecides ==
    ASSUME TypeOK, Consumed, NEW r \in todo
    PROVE  /\ (Cardinality(Candidates(r)) = 1 /\ Cardinality(Siblings(r)) = 1)
                  <=> \E a \in Added : Sole(r, a)
           /\ \A a \in Added : Sole(r, a) => Candidates(r) = {a}
  <1>1. r \in Removed /\ r \notin renamedOut
    BY DEF TypeOK, Consumed
  <1>2. Candidates(r) = {a \in Added : live[a] = base[r]}
    <2> SUFFICES ASSUME NEW a \in Added, live[a] = base[r], a \in renamedIn PROVE FALSE
      BY DEF Candidates
    <2>1. PICK q \in renamedOut : Sole(q, a)
      BY DEF Consumed
    <2>2. q = r
      BY <1>1, <2>1 DEF Sole
    <2> QED
      BY <1>1, <2>1, <2>2
  <1>3. Siblings(r) = {s \in Removed : base[s] = base[r]}
    <2> SUFFICES ASSUME NEW s \in Removed, base[s] = base[r], s \in renamedOut PROVE FALSE
      BY DEF Siblings
    <2>1. PICK a \in Added : Sole(s, a)
      BY DEF Consumed
    <2>2. s = r
      BY <1>1, <2>1 DEF Sole
    <2> QED
      BY <1>1, <2>2
  <1>4. Candidates(r) \in SUBSET Added /\ Siblings(r) \in SUBSET Removed
    BY <1>2, <1>3
  <1>5. IsFiniteSet(Candidates(r)) /\ IsFiniteSet(Siblings(r))
    BY <1>4, Schemas, FS_Subset
  <1>6. /\ Cardinality(Candidates(r)) = 1 <=> \E x : Candidates(r) = {x}
        /\ Cardinality(Siblings(r)) = 1 <=> \E x : Siblings(r) = {x}
    BY <1>5, FS_Singleton
  <1>7. ASSUME NEW x, NEW y, Candidates(r) = {x}, Siblings(r) = {y}
        PROVE  x \in Added /\ Sole(r, x)
    BY <1>1, <1>2, <1>3, <1>7 DEF Sole
  <1>8. ASSUME NEW a \in Added, Sole(r, a)
        PROVE  Candidates(r) = {a} /\ Siblings(r) = {r}
    BY <1>1, <1>2, <1>3, <1>8 DEF Sole
  <1> QED
    BY <1>6, <1>7, <1>8

LEMMA InitInv == Init => Inv
  <1> SUFFICES ASSUME Init PROVE Inv
    OBVIOUS
  <1>1. TypeOK
    BY DEF Init, TypeOK
  <1>2. Consumed
    BY DEF Init, Consumed
  <1>3. Found
    BY DEF Init, Found, RetypedFindings, RenamedFindings
  <1> QED
    BY <1>1, <1>2, <1>3 DEF Inv

(* The schemas stay, and with them what is removed, added and renamed. *)
LEMMA SchemasStay ==
    ASSUME UNCHANGED <<base, live>>
    PROVE  /\ Removed' = Removed /\ Added' = Added /\ RetypedFindings' = RetypedFindings
           /\ \A r, a : Sole(r, a)' <=> Sole(r, a)
  BY DEF Removed, Added, RetypedFindings, Retyped, RetypedFinding, Finding, Sole

LEMMA PairInv ==
    ASSUME Inv, NEW r, Pair(r)
    PROVE  Inv'
  <1>0. /\ TypeOK /\ Consumed /\ Found
        /\ r \in todo /\ r \in Removed
        /\ pc = "rename"
        /\ UNCHANGED <<base, live, pc>>
    BY DEF Inv, TypeOK, Pair, First
  <1>1. PICK a \in Added : Sole(r, a) /\ Candidates(r) = {a}
    BY <1>0, PassDecides DEF Pair
  <1>2. /\ findings' = findings \cup {RenamedFinding(r, a)}
        /\ renamedIn' = renamedIn \cup {a}
        /\ renamedOut' = renamedOut \cup {r}
        /\ todo' = todo \ {r}
    BY <1>1 DEF Pair
  <1>s. /\ Removed' = Removed /\ Added' = Added /\ RetypedFindings' = RetypedFindings
        /\ \A q, b : Sole(q, b)' <=> Sole(q, b)
    BY <1>0, SchemasStay
  <1>3. TypeOK'
    BY <1>0, <1>1, <1>2, <1>s DEF TypeOK
  <1>4. Consumed'
    <2>1. \A q \in Removed : q \in renamedOut' <=> q \notin todo' /\ \E b \in Added : Sole(q, b)
      BY <1>0, <1>1, <1>2 DEF Consumed
    <2>2. \A b \in Added : Sole(r, b) => b = a
      BY <1>1 DEF Sole
    <2>3. \A b \in Added : b \in renamedIn' <=> \E q \in renamedOut' : Sole(q, b)
      BY <1>0, <1>1, <1>2, <2>2 DEF Consumed
    <2> QED
      BY <1>0, <1>s, <2>1, <2>3 DEF Consumed
  <1>5. Found'
    <2>1. RenamedFindings' = {RenamedFinding(p[1], p[2]) :
              p \in {q \in Removed \X Added : q[1] \in renamedOut' /\ Sole(q[1], q[2])}}
      BY <1>s DEF RenamedFindings, RenamedFinding, Finding
    <2>2. {q \in Removed \X Added : q[1] \in renamedOut' /\ Sole(q[1], q[2])}
              = {q \in Removed \X Added : q[1] \in renamedOut /\ Sole(q[1], q[2])} \cup {<<r, a>>}
      <3>1. \A q \in Removed \X Added : q[1] = r /\ Sole(q[1], q[2]) <=> q = <<r, a>>
        BY <1>0, <1>1 DEF Sole
      <3> QED
        BY <3>1, <1>0, <1>1, <1>2
    <2> DEFINE P == {q \in Removed \X Added : q[1] \in renamedOut /\ Sole(q[1], q[2])}
               F(p) == RenamedFinding(p[1], p[2])
    <2>3. RenamedFindings' = RenamedFindings \cup {RenamedFinding(r, a)}
      <3>1. RenamedFindings' = {F(p) : p \in P \cup {<<r, a>>}}
        BY <2>1, <2>2
      <3>2. RenamedFindings = {F(p) : p \in P}
        BY DEF RenamedFindings
      <3>3. F(<<r, a>>) = RenamedFinding(r, a)
        OBVIOUS
      <3> HIDE DEF P, F
      <3> QED
        BY <3>1, <3>2, <3>3
    <2> QED
      BY <1>0, <1>2, <1>s, <2>3 DEF Found
  <1> QED
    BY <1>3, <1>4, <1>5 DEF Inv

LEMMA LeaveInv ==
    ASSUME Inv, NEW r, Leave(r)
    PROVE  Inv'
  <1>0. /\ TypeOK /\ Consumed /\ Found
        /\ r \in todo /\ r \in Removed
        /\ pc = "rename" /\ todo' = todo \ {r}
        /\ UNCHANGED <<base, live, pc, renamedOut, renamedIn, findings>>
    BY DEF Inv, TypeOK, Leave, First
  <1>1. ~ \E a \in Added : Sole(r, a)
    BY <1>0, PassDecides DEF Leave
  <1>s. /\ Removed' = Removed /\ Added' = Added /\ RetypedFindings' = RetypedFindings
        /\ \A q, b : Sole(q, b)' <=> Sole(q, b)
    BY <1>0, SchemasStay
  <1>2. TypeOK'
    BY <1>0, <1>s DEF TypeOK
  <1>3. Consumed'
    BY <1>0, <1>1, <1>s DEF Consumed
  <1>4. Found'
    BY <1>0, <1>s DEF Found, RenamedFindings, RenamedFinding, Finding
  <1> QED
    BY <1>2, <1>3, <1>4 DEF Inv

LEMMA NextInv == Inv /\ [Next]_vars => Inv'
  <1> SUFFICES ASSUME Inv, [Next]_vars PROVE Inv'
    OBVIOUS
  <1>1. CASE \E r \in Name : Pair(r) \/ Leave(r)
    BY <1>1, PairInv, LeaveInv
  <1>2. CASE RenamesDone
    <2>s. /\ Removed' = Removed /\ Added' = Added /\ RetypedFindings' = RetypedFindings
          /\ \A q, b : Sole(q, b)' <=> Sole(q, b)
      BY <1>2, SchemasStay DEF RenamesDone
    <2> QED
      BY <1>2, <2>s
      DEF RenamesDone, Inv, TypeOK, Consumed, Found, RenamedFindings, RenamedFinding, Finding
  <1>3. CASE ReportRest
    <2>s. /\ Removed' = Removed /\ Added' = Added /\ RetypedFindings' = RetypedFindings
          /\ \A q, b : Sole(q, b)' <=> Sole(q, b)
      BY <1>3, SchemasStay DEF ReportRest
    <2>1. TypeOK' /\ Consumed'
      BY <1>3, <2>s DEF ReportRest, Inv, TypeOK, Consumed
    <2>2. RenamedFindings' = RenamedFindings /\ RestFindings' = RestFindings
      BY <1>3, <2>s
      DEF ReportRest, RenamedFindings, RestFindings, RenamedFinding, RemovedFinding,
          AddedFinding, Finding
    <2>3. findings' = findings \cup RestFindings /\ pc = "rest" /\ pc' = "done"
      BY <1>3 DEF ReportRest, RestFindings
    <2>4. Found'
      BY <2>s, <2>2, <2>3 DEF Inv, Found
    <2> QED
      BY <2>1, <2>4 DEF Inv
  <1>4. CASE UNCHANGED vars
    <2>s. /\ Removed' = Removed /\ Added' = Added /\ RetypedFindings' = RetypedFindings
          /\ \A q, b : Sole(q, b)' <=> Sole(q, b)
      BY <1>4, SchemasStay DEF vars
    <2> QED
      BY <1>4, <2>s
      DEF vars, Inv, TypeOK, Consumed, Found, RenamedFindings, RestFindings, RenamedFinding,
          RemovedFinding, AddedFinding, Finding
  <1> QED
    BY <1>1, <1>2, <1>3, <1>4 DEF Next

LEMMA SpecInv == Spec => []Inv
  BY InitInv, NextInv, PTL DEF Spec

(* The state of the loop keeps its types. *)
THEOREM DriftTypes == Spec => []TypeOK
  <1>1. Inv => TypeOK
    BY DEF Inv
  <1> QED
    BY SpecInv, <1>1, PTL

(* The renames of diff_schema are those of its docstring, whatever the     *)
(* order of the names in which the loop consumes columns.                  *)
THEOREM LoopIsExact == Spec => []LoopFindsRenames
  <1>1. Inv => LoopFindsRenames
    <2> SUFFICES ASSUME Inv, pc = "done"
                 PROVE  {f \in findings : f.kind = "renamed"}
                            = {RenamedFinding(p[1], p[2]) : p \in Renames}
      BY DEF LoopFindsRenames
    <2>1. \A p \in Removed \X Added :
              p \in Renames <=> p[1] \in renamedOut /\ Sole(p[1], p[2])
      <3> SUFFICES ASSUME NEW r \in Removed, NEW a \in Added
                   PROVE  <<r, a>> \in Renames <=> r \in renamedOut /\ Sole(r, a)
        OBVIOUS
      <3>1. Sole(r, a) => r \in renamedOut
        BY DEF Inv, Consumed
      <3> QED
        BY <3>1, SoleIsRename DEF Inv
    <2>2. Renames = {q \in Removed \X Added : q[1] \in renamedOut /\ Sole(q[1], q[2])}
      BY <2>1 DEF Renames
    <2>3. RenamedFindings = {RenamedFinding(p[1], p[2]) : p \in Renames}
      BY <2>2 DEF RenamedFindings
    <2>4. \A f \in RetypedFindings : f.kind = "retyped"
      BY DEF RetypedFindings, RetypedFinding, Finding
    <2>5. \A f \in RenamedFindings : f.kind = "renamed"
      BY DEF RenamedFindings, RenamedFinding, Finding
    <2>6. \A f \in RestFindings : f.kind \in {"removed", "added"}
      BY DEF RestFindings, RemovedFinding, AddedFinding, Finding
    <2>7. findings = RetypedFindings \cup RenamedFindings \cup RestFindings
      BY DEF Inv, Found
    <2> QED
      BY <2>3, <2>4, <2>5, <2>6, <2>7
  <1> QED
    BY SpecInv, <1>1, PTL

(* A removed column with a sibling of its type is reported as removed,     *)
(* HIGH: the heuristic never softens an ambiguous change.                  *)
THEOREM AmbiguityIsHigh == Spec => []AmbiguityStaysHigh
  <1>1. Inv => AmbiguityStaysHigh
    <2> SUFFICES ASSUME Inv, pc = "done", NEW r \in Removed, NEW s \in Removed,
                        r # s, base[r] = base[s]
                 PROVE  RemovedFinding(r) \in findings
      BY DEF AmbiguityStaysHigh
    <2>1. r \notin renamedOut
      BY DEF Inv, Consumed, Sole
    <2> QED
      BY <2>1 DEF Inv, Found, RestFindings
  <1> QED
    BY SpecInv, <1>1, PTL

(* A column that left is in one finding: its rename, or its removal.       *)
LEMMA LeftOnce ==
    ASSUME Inv, pc = "done", NEW n \in Removed
    PROVE  \E x : {f \in findings : n \in f.from} = {x}
  <1>1. findings = RetypedFindings \cup RenamedFindings \cup RestFindings
    BY DEF Inv, Found
  <1>2. \A f \in RetypedFindings : n \notin f.from
    BY DEF RetypedFindings, RetypedFinding, Finding, Retyped, Removed
  <1>3. CASE n \in renamedOut
    <2>1. PICK a \in Added : Sole(n, a)
      BY <1>3 DEF Inv, Consumed
    <2>2. RenamedFinding(n, a) \in RenamedFindings
      <3>1. <<n, a>> \in {q \in Removed \X Added : q[1] \in renamedOut /\ Sole(q[1], q[2])}
        BY <1>3, <2>1
      <3> QED
        BY <3>1 DEF RenamedFindings
    <2>3. ASSUME NEW f \in RenamedFindings, n \in f.from
          PROVE  f = RenamedFinding(n, a)
      <3>1. PICK r \in Removed, b \in Added : f = RenamedFinding(r, b) /\ Sole(r, b)
        BY DEF RenamedFindings
      <3>2. r = n
        BY <2>3, <3>1 DEF RenamedFinding, Finding
      <3> QED
        BY <2>1, <3>1, <3>2 DEF Sole
    <2>4. \A f \in RestFindings : n \notin f.from
      BY <1>3 DEF RestFindings, RemovedFinding, AddedFinding, Finding
    <2>5. n \in RenamedFinding(n, a).from
      BY DEF RenamedFinding, Finding
    <2> QED
      BY <1>1, <1>2, <2>2, <2>3, <2>4, <2>5
  <1>4. CASE n \notin renamedOut
    <2>1. RemovedFinding(n) \in RestFindings /\ n \in RemovedFinding(n).from
      BY <1>4 DEF RestFindings, RemovedFinding, Finding
    <2>2. \A f \in RenamedFindings : n \notin f.from
      BY <1>4 DEF RenamedFindings, RenamedFinding, Finding
    <2>3. \A f \in RestFindings : n \in f.from => f = RemovedFinding(n)
      BY DEF RestFindings, RemovedFinding, AddedFinding, Finding
    <2> QED
      BY <1>1, <1>2, <2>1, <2>2, <2>3
  <1> QED
    BY <1>3, <1>4

(* A column that came is in one finding: a rename's end, or its addition.  *)
LEMMA CameOnce ==
    ASSUME Inv, pc = "done", NEW n \in Added
    PROVE  \E x : {f \in findings : n \in f.to} = {x}
  <1>1. findings = RetypedFindings \cup RenamedFindings \cup RestFindings
    BY DEF Inv, Found
  <1>2. \A f \in RetypedFindings : n \notin f.to
    BY DEF RetypedFindings, RetypedFinding, Finding, Retyped, Added
  <1>3. CASE n \in renamedIn
    <2>1. PICK r \in renamedOut : Sole(r, n)
      BY <1>3 DEF Inv, Consumed
    <2>2. RenamedFinding(r, n) \in RenamedFindings
      <3>1. <<r, n>> \in {q \in Removed \X Added : q[1] \in renamedOut /\ Sole(q[1], q[2])}
        BY <2>1 DEF Sole
      <3> QED
        BY <3>1 DEF RenamedFindings
    <2>3. ASSUME NEW f \in RenamedFindings, n \in f.to
          PROVE  f = RenamedFinding(r, n)
      <3>1. PICK s \in Removed, b \in Added : f = RenamedFinding(s, b) /\ Sole(s, b)
        BY DEF RenamedFindings
      <3>2. b = n
        BY <2>3, <3>1 DEF RenamedFinding, Finding
      <3>3. s = r
        BY <2>1, <3>1, <3>2 DEF Sole
      <3> QED
        BY <3>1, <3>2, <3>3
    <2>4. \A f \in RestFindings : n \notin f.to
      BY <1>3 DEF RestFindings, RemovedFinding, AddedFinding, Finding
    <2>5. n \in RenamedFinding(r, n).to
      BY DEF RenamedFinding, Finding
    <2> QED
      BY <1>1, <1>2, <2>2, <2>3, <2>4, <2>5
  <1>4. CASE n \notin renamedIn
    <2>1. AddedFinding(n) \in RestFindings /\ n \in AddedFinding(n).to
      BY <1>4 DEF RestFindings, AddedFinding, Finding
    <2>2. ASSUME NEW f \in RenamedFindings PROVE n \notin f.to
      <3>1. PICK s \in Removed, b \in Added :
                f = RenamedFinding(s, b) /\ s \in renamedOut /\ Sole(s, b)
        BY DEF RenamedFindings
      <3>2. b \in renamedIn
        BY <3>1 DEF Inv, Consumed
      <3> QED
        BY <1>4, <3>1, <3>2 DEF RenamedFinding, Finding
    <2>3. \A f \in RestFindings : n \in f.to => f = AddedFinding(n)
      BY DEF RestFindings, RemovedFinding, AddedFinding, Finding
    <2> QED
      BY <1>1, <1>2, <2>1, <2>2, <2>3
  <1> QED
    BY <1>3, <1>4

(* Equal schemas have no finding, and different ones have one.             *)
LEMMA EqualIsSilent ==
    ASSUME Inv, pc = "done"
    PROVE  findings = {} <=> base = live
  <1>1. findings = RetypedFindings \cup RenamedFindings \cup RestFindings
    BY DEF Inv, Found
  <1>2. ASSUME base = live PROVE findings = {}
    <2>1. Removed = {} /\ Added = {} /\ Retyped = {}
      BY <1>2 DEF Removed, Added, Retyped
    <2>2. RetypedFindings = {} /\ RenamedFindings = {} /\ RestFindings = {}
      BY <2>1 DEF RetypedFindings, RenamedFindings, RestFindings
    <2> QED
      BY <1>1, <2>2
  <1>3. ASSUME findings = {} PROVE base = live
    <2>1. Removed = {} /\ Added = {}
      BY <1>3, LeftOnce, CameOnce
    <2>2. Retyped = {}
      BY <1>1, <1>3 DEF RetypedFindings
    <2>3. DOMAIN base = DOMAIN live /\ \A n \in DOMAIN base : base[n] = live[n]
      BY <2>1, <2>2 DEF Removed, Added, Retyped
    <2>4. /\ base = [n \in DOMAIN base |-> base[n]]
          /\ live = [n \in DOMAIN live |-> live[n]]
      BY DEF Inv, TypeOK, Schema
    <2> QED
      BY <2>3, <2>4
  <1> QED
    BY <1>2, <1>3

(* Every difference between the two schemas is reported exactly once, and  *)
(* equal schemas have no finding.                                          *)
THEOREM DifferencesAreReportedOnce == Spec => []EveryDifferenceOnce
  <1>1. Inv => EveryDifferenceOnce
    <2> SUFFICES ASSUME Inv, pc = "done" PROVE EveryDifferenceOnce
      BY DEF EveryDifferenceOnce
    <2>1. \A n \in Removed : Cardinality({f \in findings : n \in f.from}) = 1
      BY LeftOnce, FS_Singleton
    <2>2. \A n \in Added : Cardinality({f \in findings : n \in f.to}) = 1
      BY CameOnce, FS_Singleton
    <2> QED
      BY <2>1, <2>2, EqualIsSilent DEF EveryDifferenceOnce
  <1> QED
    BY SpecInv, <1>1, PTL

=============================================================================
