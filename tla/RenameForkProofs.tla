------------------------- MODULE RenameForkProofs -------------------------
(***************************************************************************)
(* What a rename leaves behind, for any names of the upstream tree that    *)
(* can be told apart, any requests and any number of renames and kills.    *)
(* What the script knows when it starts is what its own constants say: the *)
(* proofs turn on when it came to itself.                                  *)
(***************************************************************************)
EXTENDS RenameFork, SequenceTheorems, TLAPS

Names == [Roles -> Seq(STRING)]

-----------------------------------------------------------------------------
(* The inductive invariant.                                                *)

(* Counters, and that a run which stopped early was killed. *)
Bounded ==
    /\ pc \in {"idle", "editing", "done"}
    /\ next \in 0 .. Len(Files)
    /\ renames \in Nat /\ kills \in Nat
    /\ DOMAIN tree = ToSet(Files)
    /\ new \in Names
    /\ pc = "done" => next = Len(Files)
    /\ pc = "idle" => renames = 0 \/ killed # {}
    /\ kills = 0 => killed = {}

Untouched ==
    renames = 0 =>
        /\ pc = "idle" /\ killed = {}
        /\ tree = Written(Upstream)
        /\ dir = Upstream.package

(* What the first rename is to make of a file. *)
Aim(f) == IF f \in Docs /\ ~sweep THEN Written(Upstream)[f] ELSE Written(new)[f]

(* A first rename that was never stopped past the script itself. *)
Gentle == renames = 1 /\ killed \subseteq {"before itself"} /\ (killed = {} \/ Apart)

(* It knows the tree by upstream's names, has done the files behind it, and *)
(* finds those ahead of it as upstream left them or as an earlier run did.  *)
FirstRename ==
    Gentle =>
        /\ old = Upstream
        /\ \A i \in 1 .. Len(Files) :
              \/ tree[Files[i]] = Aim(Files[i]) /\ (killed # {} \/ i <= next)
              \/ tree[Files[i]] = Written(Upstream)[Files[i]] /\ (pc = "idle" \/ next < i)
        /\ pc = "idle" \/ (\A i \in 1 .. next : Files[i] # Script) =>
              tree[Script] = Written(Upstream)[Script]
        /\ dir = IF pc = "done" THEN new.package ELSE Upstream.package

(* A second rename, with nothing killed, knows the tree by the names that  *)
(* the first one left in the script.                                       *)
SecondRename ==
    renames = 2 /\ kills = 0 /\ Tellable(old) =>
        /\ pc # "idle"
        /\ old \in Names
        /\ \A i \in 1 .. Len(Files) :
              Files[i] \notin Docs =>
                  tree[Files[i]] = Written(IF i <= next THEN new ELSE old)[Files[i]]
        /\ dir = IF pc = "done" THEN new.package ELSE old.package

Inv == Bounded /\ Untouched /\ FirstRename /\ SecondRename

-----------------------------------------------------------------------------
(* The rules.                                                              *)

LEMMA WholeName ==
    ASSUME NEW a \in Seq(STRING), NEW b \in Seq(STRING)
    PROVE  IsPrefix(a, a) /\ Replace(a, a, b) = b
  <1>1. IsPrefix(a, a)
    BY DEF IsPrefix
  <1>2. SubSeq(a, Len(a) + 1, Len(a)) = << >>
    BY SubSeqEmpty
  <1>3. b \o << >> = b
    BY ConcatEmptySeq
  <1> QED
    BY <1>1, <1>2, <1>3 DEF Replace

(* Nobody mentions the command bare. *)
LEMMA MentionsKnown ==
    ASSUME NEW f \in ToSet(Files), NEW m \in Mentions[f]
    PROVE  m[1] \in Roles /\ (m[1] = "cli" => m[2] # "bare")
  <1> DEFINE own == {<<role, "constant">> : role \in Roles}
             others == {<<role, "bare">> : role \in Roles \ {"cli"}}
  <1>1. m \in own \/ m \in others \/ m = <<"cli", "command">>
    BY DEF Mentions
  <1>2. CASE m \in own
    BY <1>2
  <1>3. CASE m \in others
    BY <1>3
  <1>4. CASE m = <<"cli", "command">>
    BY <1>4 DEF Roles
  <1> QED
    BY <1>1, <1>2, <1>3, <1>4

(* A mention of an old name becomes the new name of its role: the rules    *)
(* before the right one do not match.                                      *)
LEMMA RuleOfItsRole ==
    ASSUME NEW was \in Names, NEW asked \in Names, Tellable(was),
           NEW m, m[1] \in Roles, m[1] = "cli" => m[2] # "bare"
    PROVE  Rewrite(m, was[m[1]], was, asked) = asked[m[1]]
  <1>1. ASSUME NEW r \in Roles
        PROVE  IsPrefix(was[r], was[r]) /\ Replace(was[r], was[r], asked[r]) = asked[r]
    <2>1. was[r] \in Seq(STRING) /\ asked[r] \in Seq(STRING)
      BY DEF Names
    <2> QED
      BY <2>1, WholeName
  <1>2. was.cli = was.package
    BY DEF Tellable
  <1>3. ASSUME NEW r \in Roles \ {"cli"}, NEW s \in Roles \ {"cli"}, r # s
        PROVE  ~IsPrefix(was[s], was[r])
    BY <1>3 DEF Tellable
  <1>4. CASE m[1] = "dist"
    BY <1>1, <1>4 DEF Rewrite, FirstRule, Roles
  <1>5. CASE m[1] = "cli"
    <2>1. ~IsPrefix(was.dist, was.package)
      BY <1>3 DEF Roles
    <2> QED
      BY <1>2, <1>5, <2>1 DEF Rewrite, FirstRule, Roles
  <1>6. CASE m[1] = "package"
    <2>1. ~IsPrefix(was.dist, was.package)
      BY <1>3 DEF Roles
    <2> QED
      BY <1>1, <1>6, <2>1 DEF Rewrite, FirstRule, Roles
  <1>7. CASE m[1] = "env"
    <2>1. ~IsPrefix(was.dist, was.env) /\ ~IsPrefix(was.package, was.env)
      BY <1>3 DEF Roles
    <2> QED
      BY <1>1, <1>7, <2>1 DEF Rewrite, FirstRule, Roles
  <1>8. CASE m[1] = "resource"
    <2>1. /\ ~IsPrefix(was.dist, was.resource) /\ ~IsPrefix(was.package, was.resource)
          /\ ~IsPrefix(was.env, was.resource)
      BY <1>3 DEF Roles
    <2> QED
      BY <1>1, <1>8, <2>1 DEF Rewrite, FirstRule, Roles
  <1> QED
    BY <1>4, <1>5, <1>6, <1>7, <1>8 DEF Roles

(* A name that begins with no old one is left alone. *)
LEMMA NoRule ==
    ASSUME Apart, NEW m, NEW r \in Roles
    PROVE  Rewrite(m, new[r], Upstream, new) = new[r]
  <1>1. ASSUME NEW s \in Roles PROVE ~IsPrefix(Upstream[s], new[r])
    BY DEF Apart
  <1>2. Upstream.package \in Seq(STRING)
    BY RenameAssumption DEF Roles
  <1>3. new[r] # Upstream.package
    BY <1>1, <1>2, WholeName DEF Roles
  <1> QED
    BY <1>1, <1>3 DEF Rewrite, FirstRule, Roles

(* So a pass over a file renames it, and a second pass does not hurt.      *)
LEMMA PassRenames ==
    ASSUME NEW f \in ToSet(Files), NEW was \in Names, NEW asked \in Names, Tellable(was),
           NEW text, text = Written(was)[f]
    PROVE  [m \in DOMAIN text |-> Rewrite(m, text[m], was, asked)] = Written(asked)[f]
  <1>1. text = [m \in Mentions[f] |-> was[m[1]]]
    BY DEF Written
  <1>2. Written(asked)[f] = [m \in Mentions[f] |-> asked[m[1]]]
    BY DEF Written
  <1>3. ASSUME NEW m \in Mentions[f]
        PROVE  Rewrite(m, was[m[1]], was, asked) = asked[m[1]]
    BY MentionsKnown, RuleOfItsRole
  <1> QED
    BY <1>1, <1>2, <1>3

LEMMA PassIsIdempotent ==
    ASSUME Apart, NEW f \in ToSet(Files), NEW text, text = Written(new)[f]
    PROVE  [m \in DOMAIN text |-> Rewrite(m, text[m], Upstream, new)] = text
  <1>1. text = [m \in Mentions[f] |-> new[m[1]]]
    BY DEF Written
  <1>2. ASSUME NEW m \in Mentions[f]
        PROVE  Rewrite(m, new[m[1]], Upstream, new) = new[m[1]]
    BY MentionsKnown, NoRule
  <1> QED
    BY <1>1, <1>2

-----------------------------------------------------------------------------
(* The files.                                                              *)

LEMMA Walk ==
    /\ Len(Files) = 6
    /\ \A i \in 1 .. Len(Files) : Files[i] \in ToSet(Files)
    /\ \A f \in ToSet(Files) : \E i \in 1 .. Len(Files) : f = Files[i]
    /\ \A i, j \in 1 .. Len(Files) : Files[i] = Files[j] => i = j
    /\ Script \in ToSet(Files) /\ Script \notin Docs
    /\ \E i \in 1 .. Len(Files) : Files[i] = Script
  <1>1. Len(Files) = 6 /\ DOMAIN Files = 1 .. 6
    BY DEF Files
  <1>2. Files[4] = Script /\ Script \notin Docs
    BY DEF Files, Script, Docs
  <1>3. \A i, j \in 1 .. 6 : Files[i] = Files[j] => i = j
    BY DEF Files, Script
  <1>4. ToSet(Files) = {Files[i] : i \in 1 .. 6}
    BY <1>1 DEF ToSet
  <1> QED
    BY <1>1, <1>2, <1>3, <1>4

(* The script's constants are what it is called by. *)
LEMMA OwnNames ==
    ASSUME NEW names \in Names, tree[Script] = Written(names)[Script]
    PROVE  [role \in Roles |-> tree[Script][<<role, "constant">>]] = names
  <1>1. Mentions[Script] = {<<role, "constant">> : role \in Roles}
    BY Walk DEF Mentions
  <1>2. tree[Script] = [m \in Mentions[Script] |-> names[m[1]]]
    BY Walk DEF Written
  <1>3. ASSUME NEW role \in Roles
        PROVE  tree[Script][<<role, "constant">>] = names[role]
    BY <1>1, <1>2
  <1> QED
    BY <1>3 DEF Names

-----------------------------------------------------------------------------
(* The invariant is inductive.                                             *)

LEMMA AimIs ==
    ASSUME NEW f
    PROVE  Aim(f) = IF f \in Docs /\ ~sweep THEN Written(Upstream)[f] ELSE Written(new)[f]
  BY DEF Aim

LEMMA InvInit == Init => Inv
  <1> SUFFICES ASSUME Init PROVE Inv
    OBVIOUS
  <1>1. Bounded
    <2>1. DOMAIN tree = ToSet(Files)
      BY DEF Init, Written
    <2> QED
      BY <2>1, RenameAssumption, Walk DEF Init, Bounded, Names
  <1>2. Untouched
    BY DEF Init, Untouched
  <1>3. FirstRename /\ SecondRename
    BY DEF Init, FirstRename, SecondRename, Gentle
  <1> QED
    BY <1>1, <1>2, <1>3 DEF Inv

LEMMA UpstreamNames == Upstream \in Names /\ Tellable(Upstream)
  BY RenameAssumption DEF Names

(* A rename begins on the tree as upstream, or as the first rename left it. *)
LEMMA InvStart == Inv /\ Start => Inv'
  <1> SUFFICES ASSUME Inv, Start PROVE Inv'
    OBVIOUS
  <1> USE DEF Inv
  <1>1. /\ pc' = "editing" /\ next' = 0 /\ renames' = renames + 1 /\ killed' = {}
        /\ new' \in Requests /\ tree' = tree /\ dir' = dir /\ kills' = kills
        /\ old' = [role \in Roles |-> tree[Script][<<role, "constant">>]]
        /\ pc = "done" \/ renames = 0
    BY DEF Start, Begin
  <1>2. new' \in Names
    BY <1>1, RenameAssumption DEF Names
  <1>3. Bounded'
    BY <1>1, <1>2, Walk DEF Bounded
  <1>4. Untouched'
    BY <1>1 DEF Untouched, Bounded
  <1>5. FirstRename'
    <2> SUFFICES ASSUME Gentle' PROVE /\ old' = Upstream
                                      /\ tree' = Written(Upstream)
                                      /\ dir' = Upstream.package
      BY <1>1, Walk DEF FirstRename
    <2>1. renames = 0
      BY <1>1 DEF Gentle, Bounded
    <2>2. tree = Written(Upstream) /\ dir = Upstream.package
      BY <2>1 DEF Untouched
    <2>3. old' = Upstream
      BY <1>1, <2>2, OwnNames, UpstreamNames
    <2> QED
      BY <1>1, <2>2, <2>3
  <1>6. SecondRename'
    <2> SUFFICES ASSUME renames' = 2, kills' = 0
                 PROVE  /\ old' \in Names
                        /\ \A i \in 1 .. Len(Files) :
                              Files[i] \notin Docs => tree'[Files[i]] = Written(old')[Files[i]]
                        /\ dir' = old'.package
      BY <1>1, Walk DEF SecondRename
    <2>1. renames = 1 /\ kills = 0 /\ killed = {} /\ pc = "done" /\ next = Len(Files)
      BY <1>1 DEF Bounded
    <2>2. Gentle
      BY <2>1 DEF Gentle
    <2>3. \A i \in 1 .. Len(Files) : tree[Files[i]] = Aim(Files[i])
      BY <2>1, <2>2 DEF FirstRename
    <2>4. \A i \in 1 .. Len(Files) : Files[i] \notin Docs => tree[Files[i]] = Written(new)[Files[i]]
      BY <2>3, AimIs
    <2>5. tree[Script] = Written(new)[Script]
      BY <2>4, Walk
    <2>6. new \in Names
      BY DEF Bounded
    <2>7. old' = new
      BY <1>1, <2>5, <2>6, OwnNames
    <2>8. dir = new.package
      BY <2>1, <2>2 DEF FirstRename
    <2> QED
      BY <1>1, <2>4, <2>6, <2>7, <2>8
  <1> QED
    BY <1>3, <1>4, <1>5, <1>6

(* A run that is started again has lost its place but not the names.       *)
LEMMA InvRerun == Inv /\ Rerun => Inv'
  <1> SUFFICES ASSUME Inv, Rerun PROVE Inv'
    OBVIOUS
  <1> USE DEF Inv
  <1>1. /\ pc' = "editing" /\ next' = 0 /\ renames' = renames /\ killed' = killed
        /\ new' = new /\ sweep' = sweep /\ tree' = tree /\ dir' = dir /\ kills' = kills
        /\ old' = [role \in Roles |-> tree[Script][<<role, "constant">>]]
        /\ pc = "idle" /\ killed # {}
    BY DEF Rerun, Begin
  <1>2. Bounded'
    BY <1>1, Walk DEF Bounded
  <1>3. Untouched'
    BY <1>1 DEF Untouched
  <1>4. FirstRename'
    <2> SUFFICES ASSUME Gentle' PROVE FirstRename'
      BY DEF FirstRename
    <2>1. Gentle
      BY <1>1 DEF Gentle, Apart
    <2>2. tree[Script] = Written(Upstream)[Script]
      BY <1>1, <2>1 DEF FirstRename
    <2>3. old' = Upstream
      BY <1>1, <2>2, OwnNames, UpstreamNames
    <2>4. \A i \in 1 .. Len(Files) :
             tree[Files[i]] = Aim(Files[i]) \/ tree[Files[i]] = Written(Upstream)[Files[i]]
      BY <2>1 DEF FirstRename
    <2>5. \A i \in 1 .. Len(Files) : Aim(Files[i])' = Aim(Files[i])
      BY <1>1 DEF Aim
    <2>6. \A i \in 1 .. Len(Files) :
             \/ tree'[Files[i]] = Aim(Files[i])' /\ killed' # {}
             \/ tree'[Files[i]] = Written(Upstream)[Files[i]] /\ next' < i
      BY <1>1, <2>4, <2>5
    <2>7. dir' = Upstream.package
      BY <1>1, <2>1 DEF FirstRename
    <2> QED
      BY <1>1, <2>2, <2>3, <2>6, <2>7 DEF FirstRename
  <1>5. SecondRename'
    BY <1>1 DEF SecondRename, Bounded
  <1> QED
    BY <1>2, <1>3, <1>4, <1>5

(* A pass makes of a file what it is to become, whether it finds it as     *)
(* upstream left it or as an earlier run of the same rename did.           *)
LEMMA EditsToAim ==
    ASSUME Inv, Gentle, old = Upstream, NEW f \in ToSet(Files),
           \/ tree[f] = Written(Upstream)[f]
           \/ tree[f] = Aim(f) /\ killed # {}
    PROVE  Edited(f) = Aim(f)
  <1>1. CASE f \in Docs /\ ~sweep
    BY <1>1 DEF Edited, Aim
  <1>2. CASE ~(f \in Docs /\ ~sweep)
    <2>1. /\ Edited(f) = [m \in DOMAIN tree[f] |-> Rewrite(m, tree[f][m], Upstream, new)]
          /\ Aim(f) = Written(new)[f]
      BY <1>2 DEF Edited, Aim
    <2>2. CASE tree[f] = Written(Upstream)[f]
      BY <2>1, <2>2, PassRenames, UpstreamNames DEF Inv, Bounded
    <2>3. CASE tree[f] = Aim(f) /\ killed # {}
      BY <2>1, <2>3, PassIsIdempotent DEF Gentle
    <2> QED
      BY <2>2, <2>3
  <1> QED
    BY <1>1, <1>2

LEMMA InvEditFile == Inv /\ EditFile => Inv'
  <1> SUFFICES ASSUME Inv, EditFile PROVE Inv'
    OBVIOUS
  <1> USE DEF Inv
  <1>1. /\ pc = "editing" /\ pc' = pc /\ next < Len(Files) /\ next' = next + 1
        /\ tree' = [tree EXCEPT ![Files[next']] = Edited(Files[next'])]
        /\ renames' = renames /\ kills' = kills /\ killed' = killed /\ new' = new
        /\ old' = old /\ sweep' = sweep /\ dir' = dir
    BY DEF EditFile
  <1>2. next \in Nat /\ next' \in 1 .. Len(Files) /\ Files[next'] \in ToSet(Files)
    BY <1>1, Walk DEF Bounded
  <1>3. /\ DOMAIN tree' = ToSet(Files)
        /\ tree'[Files[next']] = Edited(Files[next'])
        /\ \A f \in ToSet(Files) : f # Files[next'] => tree'[f] = tree[f]
    BY <1>1, <1>2 DEF Bounded
  <1>4. \A i \in 1 .. Len(Files) : i # next' => tree'[Files[i]] = tree[Files[i]]
    BY <1>2, <1>3, Walk
  <1>5. Bounded'
    BY <1>1, <1>2, <1>3 DEF Bounded
  <1>6. Untouched'
    BY <1>1 DEF Untouched
  <1>7. FirstRename'
    <2> SUFFICES ASSUME Gentle' PROVE FirstRename'
      BY DEF FirstRename
    <2>1. Gentle
      BY <1>1 DEF Gentle, Apart
    <2>2. old = Upstream
      BY <2>1 DEF FirstRename
    <2>3. \A i \in 1 .. Len(Files) : Aim(Files[i])' = Aim(Files[i])
      BY <1>1 DEF Aim
    <2>4. tree'[Files[next']] = Aim(Files[next'])
      <3>1. \/ tree[Files[next']] = Aim(Files[next']) /\ (killed # {} \/ next' <= next)
            \/ tree[Files[next']] = Written(Upstream)[Files[next']]
        BY <1>2, <2>1 DEF FirstRename
      <3>2. ~(next' <= next)
        BY <1>1, <1>2
      <3> QED
        BY <1>2, <1>3, <2>1, <2>2, <3>1, <3>2, EditsToAim
    <2>5. ASSUME NEW i \in 1 .. Len(Files), i # next'
          PROVE  \/ tree'[Files[i]] = Aim(Files[i]) /\ (killed # {} \/ i <= next')
                 \/ tree'[Files[i]] = Written(Upstream)[Files[i]] /\ next' < i
      <3>1. \/ tree[Files[i]] = Aim(Files[i]) /\ (killed # {} \/ i <= next)
            \/ tree[Files[i]] = Written(Upstream)[Files[i]] /\ next < i
        BY <1>1, <2>1 DEF FirstRename
      <3> QED
        BY <1>1, <1>2, <1>4, <2>5, <3>1, Walk
    <2>6. \A i \in 1 .. Len(Files) :
             \/ tree'[Files[i]] = Aim(Files[i])' /\ (killed' # {} \/ i <= next')
             \/ tree'[Files[i]] = Written(Upstream)[Files[i]] /\ next' < i
      BY <1>1, <1>2, <2>3, <2>4, <2>5
    <2>7. ASSUME \A i \in 1 .. next' : Files[i] # Script
          PROVE  tree'[Script] = Written(Upstream)[Script]
      <3>1. Script # Files[next'] /\ \A i \in 1 .. next : Files[i] # Script
        BY <1>1, <1>2, <2>7
      <3>2. tree[Script] = Written(Upstream)[Script]
        BY <2>1, <3>1 DEF FirstRename
      <3> QED
        BY <1>3, <3>1, <3>2, Walk
    <2>8. dir' = Upstream.package
      BY <1>1, <2>1 DEF FirstRename
    <2> QED
      BY <1>1, <2>2, <2>6, <2>7, <2>8 DEF FirstRename
  <1>8. SecondRename'
    <2> SUFFICES ASSUME renames = 2, kills = 0, Tellable(old) PROVE SecondRename'
      BY <1>1 DEF SecondRename, Tellable
    <2>1. /\ old \in Names /\ new \in Names
          /\ \A i \in 1 .. Len(Files) :
                Files[i] \notin Docs =>
                    tree[Files[i]] = Written(IF i <= next THEN new ELSE old)[Files[i]]
          /\ dir = old.package
      BY <1>1 DEF SecondRename, Bounded
    <2>2. ASSUME Files[next'] \notin Docs
          PROVE  tree'[Files[next']] = Written(new)[Files[next']]
      <3>1. tree[Files[next']] = Written(old)[Files[next']]
        BY <1>1, <1>2, <2>1, <2>2
      <3>2. Edited(Files[next'])
              = [m \in DOMAIN tree[Files[next']] |-> Rewrite(m, tree[Files[next']][m], old, new)]
        BY <2>2 DEF Edited
      <3> QED
        BY <1>2, <1>3, <2>1, <3>1, <3>2, PassRenames
    <2>3. ASSUME NEW i \in 1 .. Len(Files), Files[i] \notin Docs
          PROVE  tree'[Files[i]] = Written(IF i <= next' THEN new ELSE old)[Files[i]]
      <3>1. CASE i = next'
        BY <1>2, <2>2, <2>3, <3>1
      <3>2. CASE i # next'
        <4>1. i <= next' <=> i <= next
          BY <1>1, <1>2, <3>2, Walk
        <4> QED
          BY <1>4, <2>1, <2>3, <3>2, <4>1
      <3> QED
        BY <3>1, <3>2
    <2> QED
      BY <1>1, <2>1, <2>3 DEF SecondRename
  <1> QED
    BY <1>5, <1>6, <1>7, <1>8

LEMMA InvRenameDir == Inv /\ RenameDir => Inv'
  <1> SUFFICES ASSUME Inv, RenameDir PROVE Inv'
    OBVIOUS
  <1> USE DEF Inv
  <1>1. /\ pc = "editing" /\ pc' = "done" /\ next = Len(Files) /\ next' = next
        /\ dir' = (IF dir = old.package THEN new.package ELSE dir)
        /\ tree' = tree /\ renames' = renames /\ kills' = kills /\ killed' = killed
        /\ new' = new /\ old' = old /\ sweep' = sweep
    BY DEF RenameDir
  <1>2. Bounded'
    BY <1>1 DEF Bounded
  <1>3. Untouched'
    BY <1>1 DEF Untouched
  <1>4. FirstRename'
    <2> SUFFICES ASSUME Gentle' PROVE FirstRename'
      BY DEF FirstRename
    <2>1. Gentle
      BY <1>1 DEF Gentle, Apart
    <2>2. old = Upstream /\ dir = Upstream.package
      BY <1>1, <2>1 DEF FirstRename
    <2>3. \A i \in 1 .. Len(Files) : Aim(Files[i])' = Aim(Files[i])
      BY <1>1 DEF Aim
    <2>4. \A i \in 1 .. Len(Files) :
             \/ tree'[Files[i]] = Aim(Files[i])' /\ (killed' # {} \/ i <= next')
             \/ tree'[Files[i]] = Written(Upstream)[Files[i]] /\ next' < i
      BY <1>1, <2>1, <2>3 DEF FirstRename
    <2>5. (\A i \in 1 .. next' : Files[i] # Script) => tree'[Script] = Written(Upstream)[Script]
      BY <1>1, <2>1 DEF FirstRename
    <2> QED
      BY <1>1, <2>2, <2>4, <2>5 DEF FirstRename
  <1>5. SecondRename'
    <2> SUFFICES ASSUME renames = 2, kills = 0, Tellable(old) PROVE SecondRename'
      BY <1>1 DEF SecondRename, Tellable
    <2>1. SecondRename
      OBVIOUS
    <2> QED
      BY <1>1, <2>1 DEF SecondRename
  <1> QED
    BY <1>2, <1>3, <1>4, <1>5

(* A kill past the script, or in the middle of a file, is not gentle.      *)
LEMMA InvKill == Inv /\ Kill => Inv'
  <1> SUFFICES ASSUME Inv, Kill PROVE Inv'
    OBVIOUS
  <1> USE DEF Inv
  <1>1. /\ pc = "editing" /\ pc' = "idle" /\ kills' = kills + 1 /\ next' = next
        /\ dir' = dir /\ renames' = renames /\ new' = new /\ old' = old /\ sweep' = sweep
    BY DEF Kill
  <1>2. \/ /\ tree' = tree
           /\ killed' = killed \cup {IF \E i \in 1 .. next : Files[i] = Script
                                     THEN "past itself" ELSE "before itself"}
        \/ /\ tree' = [tree EXCEPT ![Files[next + 1]] = <<>>]
           /\ killed' = killed \cup {"writing"}
    BY DEF Kill
  <1>3. killed' # {} /\ DOMAIN tree' = ToSet(Files)
    BY <1>2 DEF Bounded
  <1>4. kills' \in Nat /\ kills' # 0
    BY <1>1 DEF Bounded
  <1>5. Bounded'
    BY <1>1, <1>3, <1>4 DEF Bounded
  <1>6. Untouched'
    BY <1>1 DEF Untouched
  <1>7. FirstRename'
    <2> SUFFICES ASSUME Gentle' PROVE FirstRename'
      BY DEF FirstRename
    <2>1. killed' \subseteq {"before itself"}
      BY DEF Gentle
    <2>2. tree' = tree /\ ~\E i \in 1 .. next : Files[i] = Script
      <3> DEFINE past == \E i \in 1 .. next : Files[i] = Script
      <3>1. past => "past itself" \in killed' \/ "writing" \in killed'
        BY <1>2
      <3>2. tree' = tree \/ "writing" \in killed'
        BY <1>2
      <3> HIDE DEF past
      <3> QED
        BY <2>1, <3>1, <3>2 DEF past
    <2>3. Gentle
      <3>1. killed \subseteq killed'
        BY <1>2
      <3> QED
        BY <1>1, <1>3, <3>1 DEF Gentle, Apart
    <2>4. \A i \in 1 .. Len(Files) : Aim(Files[i])' = Aim(Files[i])
      BY <1>1 DEF Aim
    <2>5. /\ old = Upstream /\ dir = Upstream.package
          /\ tree[Script] = Written(Upstream)[Script]
          /\ \A i \in 1 .. Len(Files) :
                tree[Files[i]] = Aim(Files[i]) \/ tree[Files[i]] = Written(Upstream)[Files[i]]
      BY <1>1, <2>2, <2>3 DEF FirstRename
    <2>6. \A i \in 1 .. Len(Files) :
             \/ tree'[Files[i]] = Aim(Files[i])' /\ killed' # {}
             \/ tree'[Files[i]] = Written(Upstream)[Files[i]] /\ pc' = "idle"
      BY <1>1, <1>3, <2>2, <2>4, <2>5
    <2> QED
      BY <1>1, <2>2, <2>5, <2>6 DEF FirstRename
  <1>8. SecondRename'
    BY <1>4 DEF SecondRename
  <1> QED
    BY <1>5, <1>6, <1>7, <1>8

LEMMA InvStep == Inv /\ [Next]_vars => Inv'
  <1> SUFFICES ASSUME Inv, [Next]_vars PROVE Inv'
    OBVIOUS
  <1>1. CASE Start
    BY <1>1, InvStart
  <1>2. CASE Rerun
    BY <1>2, InvRerun
  <1>3. CASE EditFile
    BY <1>3, InvEditFile
  <1>4. CASE RenameDir
    BY <1>4, InvRenameDir
  <1>5. CASE Kill
    BY <1>5, InvKill
  <1>6. CASE UNCHANGED vars
    BY <1>6 DEF vars, Inv, Bounded, Untouched, FirstRename, SecondRename, Gentle, Apart, Aim,
                Tellable
  <1> QED
    BY <1>1, <1>2, <1>3, <1>4, <1>5, <1>6 DEF Next

LEMMA InvAlways == Spec => []Inv
  <1>1. Init => Inv
    BY InvInit
  <1>2. Inv /\ [Next]_vars => Inv'
    BY InvStep
  <1> QED
    BY <1>1, <1>2, PTL DEF Spec

-----------------------------------------------------------------------------
(* What a rename promises.                                                 *)

(* A first rename that ends without having been stopped past the script    *)
(* has done what it was asked for.                                         *)
LEMMA GentleRenames ==
    ASSUME Inv, Gentle, pc = "done"
    PROVE  Renamed
  <1>1. next = Len(Files) /\ Len(Files) = 6
    BY Walk DEF Inv, Bounded
  <1>2. dir = new.package
    BY DEF Inv, FirstRename
  <1>3. ASSUME NEW f \in ToSet(Files) \ (IF sweep THEN {} ELSE Docs)
        PROVE  tree[f] = Written(new)[f]
    <2>1. PICK i \in 1 .. Len(Files) : f = Files[i]
      BY <1>3, Walk
    <2>2. tree[f] = Aim(f)
      BY <1>1, <2>1 DEF Inv, FirstRename
    <2>3. ~(f \in Docs /\ ~sweep)
      BY <1>3
    <2> QED
      BY <2>2, <2>3 DEF Aim
  <1> QED
    BY <1>2, <1>3 DEF Renamed

(* One rename of upstream gives every mention the name of its role, the    *)
(* command and the package among them, although they are spelled alike and *)
(* whatever the new names share with the old (rename_fork.py:100-167).     *)
THEOREM RolesKeptApart == Spec => []NamesAreSeparated
  <1>1. Inv => NamesAreSeparated
    BY GentleRenames DEF NamesAreSeparated, Gentle
  <1> QED
    BY <1>1, InvAlways, PTL

(* A run that was killed before it came to its own constants can be run    *)
(* again, any number of times (rename_fork.py:87-97, 207-230).             *)
THEOREM KilledRunsFinish == Spec => []RerunFinishes
  <1>1. Inv => RerunFinishes
    BY GentleRenames DEF RerunFinishes, Gentle
  <1> QED
    BY <1>1, InvAlways, PTL

(* A fork whose command is spelled like its package renames itself, by the *)
(* constants that the first rename wrote (rename_fork.py:38-46, 112-116).  *)
THEOREM ForksRename == Spec => []RenamesAgain
  <1>1. Inv => RenamesAgain
    <2> SUFFICES ASSUME Inv, pc = "done", renames = 2, kills = 0, Tellable(old)
                 PROVE  /\ \A f \in ToSet(Files) \ Docs : tree[f] = Written(new)[f]
                        /\ dir = new.package
      BY DEF RenamesAgain
    <2>1. next = Len(Files) /\ Len(Files) = 6
      BY Walk DEF Inv, Bounded
    <2>2. /\ \A i \in 1 .. Len(Files) :
                Files[i] \notin Docs =>
                    tree[Files[i]] = Written(IF i <= next THEN new ELSE old)[Files[i]]
          /\ dir = new.package
      BY DEF Inv, SecondRename
    <2>3. \A i \in 1 .. Len(Files) : Files[i] \notin Docs => tree[Files[i]] = Written(new)[Files[i]]
      BY <2>1, <2>2
    <2> QED
      BY <2>2, <2>3, Walk
  <1> QED
    BY <1>1, InvAlways, PTL
=============================================================================
