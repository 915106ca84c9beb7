--------------------------- MODULE ServingProofs ---------------------------
(***************************************************************************)
(* What a serving process promises of its answers, for any environments,   *)
(* settings files, rule packs, requests and edits. The argument has two    *)
(* halves: reads are functions of the environment and the file (Once), so  *)
(* that two readings of one file agree; and an answer that names somebody  *)
(* came through the container, past the guard (Behind).                    *)
(***************************************************************************)
EXTENDS Serving, TLAPS

-----------------------------------------------------------------------------
(* Reads. A read that raises has no value and any other has one.           *)

Once(S) == \A x, y \in S : x = y

LEMMA ResolveOnce ==
    ASSUME NEW raw
    PROVE  /\ Once(ResolveProfile(raw))
           /\ \A c \in ResolveProfile(raw) :
                 /\ c.profile \in KnownProfiles /\ c.explicit \in BOOLEAN
                 /\ c.explicit => c.profile = raw
                 /\ ~c.explicit => c.profile = LocalProfile
                 /\ c = [profile |-> c.profile, explicit |-> c.explicit]
  <1>1. CASE raw = Unset
    <2>1. ResolveProfile(raw) = {[profile |-> LocalProfile, explicit |-> FALSE]}
      BY <1>1 DEF ResolveProfile, KnownProfiles, LocalProfile, Unset
    <2> QED
      BY <2>1 DEF Once, KnownProfiles
  <1>2. CASE raw \in KnownProfiles
    <2>1. ResolveProfile(raw) = {[profile |-> raw, explicit |-> TRUE]}
      BY <1>2 DEF ResolveProfile, KnownProfiles, LocalProfile, Unset
    <2> QED
      BY <1>2, <2>1 DEF Once
  <1>3. CASE raw # Unset /\ raw \notin KnownProfiles
    <2>1. ResolveProfile(raw) = {}
      BY <1>3 DEF ResolveProfile
    <2> QED
      BY <2>1 DEF Once
  <1> QED
    BY <1>1, <1>2, <1>3

LEMMA SettingOnce ==
    ASSUME NEW raw, NEW default
    PROVE  Once(SettingOrDefault(raw, default)) /\ Once(BooleanSetting(raw, default))
  BY DEF SettingOrDefault, BooleanSetting, Once, Unset, Emptied

LEMMA FileOnce ==
    ASSUME NEW e, NEW f \in SettingsFiles
    PROVE  /\ Once(ReadSettingsFile(e, SettingsText[f]))
           /\ \A d \in ReadSettingsFile(e, SettingsText[f]) : Once(d.table)
  <1> DEFINE text == SettingsText[f]
             urls == SettingOrDefault(e.review_url, "")
             audiences == SettingOrDefault(e.iap_audience, "")
  <1>1. Once(text.table)
    BY ServingAssumption DEF Once
  <1>2. Once(urls) /\ Once(audiences)
    BY SettingOnce
  <1>3. \/ ReadSettingsFile(e, text) = {}
        \/ ReadSettingsFile(e, text) = {[review_url |-> "", iap_audience |-> "", table |-> {}]}
        \/ ReadSettingsFile(e, text)
              = [review_url : urls, iap_audience : audiences, table : {text.table}]
    BY DEF ReadSettingsFile
  <1> HIDE DEF text, urls, audiences
  <1> DEFINE all == [review_url : urls, iap_audience : audiences, table : {text.table}]
             none == {[review_url |-> "", iap_audience |-> "", table |-> {}]}
  <1>5. Once(all) /\ Once(none)
    BY <1>2 DEF Once
  <1>6. /\ \A d \in all : Once(d.table)
        /\ \A d \in none : Once(d.table)
    BY <1>1 DEF Once
  <1> HIDE DEF all, none
  <1>4. /\ Once(ReadSettingsFile(e, text))
        /\ \A d \in ReadSettingsFile(e, text) : Once(d.table)
    <2>1. Once({}) /\ \A d \in {} : Once(d.table)
      BY DEF Once
    <2> QED
      BY <2>1, <1>3, <1>5, <1>6 DEF all, none
  <1> QED
    BY <1>4 DEF text

(* One environment and one file make one settings record at most, and its  *)
(* profile is the environment's.                                           *)
LEMMA LoadOnce ==
    ASSUME NEW e, NEW f \in SettingsFiles
    PROVE  /\ Once(Load(e, SettingsText[f]))
           /\ \A s \in Load(e, SettingsText[f]) :
                 /\ s.profile \in KnownProfiles
                 /\ s.explicit => s.profile = e.profile
  <1> DEFINE text == SettingsText[f]
             datas == ReadSettingsFile(e, text)
             choices == ResolveProfile(e.profile)
             tables == UNION {BindingsFrom(d) : d \in datas}
             routings == BooleanSetting(e.review_routing, TRUE)
             All == [profile : {c.profile : c \in choices},
                     explicit : {c.explicit : c \in choices},
                     review_url : {d.review_url : d \in datas},
                     iap_audience : {d.iap_audience : d \in datas},
                     adapters : tables, review_routing : routings]
  <1>1. Once(datas) /\ \A d \in datas : Once(d.table)
    BY FileOnce
  <1>2. Once(choices) /\ Once(routings)
    BY ResolveOnce, SettingOnce
  <1>3. Once(tables)
    BY <1>1 DEF BindingsFrom, Once
  <1>4. Load(e, text) \subseteq All
    BY DEF Load
  <1>5. \A c \in choices :
           c.profile \in KnownProfiles /\ (c.explicit => c.profile = e.profile)
    BY ResolveOnce
  <1> HIDE DEF datas, tables, choices, routings
  <1>6. Once(All)
    BY <1>1, <1>2, <1>3 DEF Once
  <1>7. \A s \in All : \E c, b \in choices : s.profile = c.profile /\ s.explicit = b.explicit
    OBVIOUS
  <1>8. \A s \in All : \E c \in choices : s.profile = c.profile /\ s.explicit = c.explicit
    BY <1>2, <1>7 DEF Once
  <1> HIDE DEF All, text
  <1>9. Once(Load(e, text))
    BY <1>4, <1>6 DEF Once
  <1>10. ASSUME NEW s \in Load(e, text)
         PROVE  s.profile \in KnownProfiles /\ (s.explicit => s.profile = e.profile)
    <2>1. PICK c \in choices : s.profile = c.profile /\ s.explicit = c.explicit
      BY <1>4, <1>8
    <2>2. c.profile \in KnownProfiles /\ (c.explicit => c.profile = e.profile)
      BY <1>5
    <2> QED
      BY <2>1, <2>2
  <1> QED
    BY <1>9, <1>10 DEF text

(* What preflight and posture say of a file is true of the settings that   *)
(* any other reading of the same file returns.                             *)
LEMMA PreflightMeans ==
    ASSUME NEW e, NEW f \in SettingsFiles, PreflightPasses(e, SettingsText[f]),
           NEW s \in Load(e, SettingsText[f])
    PROVE  ManagedProfileReady(s)
  BY LoadOnce DEF PreflightPasses, Once

LEMMA VerifiedMeans ==
    ASSUME NEW e, NEW f \in SettingsFiles, EndUserAuthKind(e, SettingsText[f]) = "verified",
           NEW s \in Load(e, SettingsText[f])
    PROVE  Bound(s, "identity")[2] \in {"gcp", "client"}
  <1> DEFINE kinds == UNION {{DeclaredEndUserAuth(c) : c \in IdentityAdapterClass(t)} :
                                t \in Load(e, SettingsText[f])}
  <1>1. kinds # {} /\ "verified" = CHOOSE k \in kinds : TRUE
    BY DEF EndUserAuthKind
  <1>2. "verified" \in kinds
    BY <1>1
  <1>3. PICK t \in Load(e, SettingsText[f]) :
            \E c \in IdentityAdapterClass(t) : DeclaredEndUserAuth(c) = "verified"
    BY <1>2
  <1>4. t = s
    BY LoadOnce DEF Once
  <1>5. DeclaredEndUserAuth(Bound(s, "identity")) = "verified"
    BY <1>3, <1>4 DEF IdentityAdapterClass
  <1> QED
    BY <1>5 DEF DeclaredEndUserAuth

-----------------------------------------------------------------------------
(* Answers. What the container's routes may say, and on whose behalf.      *)

Family(s) == Bound(s, "identity")[2]

LEMMA ResolvedWho ==
    ASSUME NEW s, NEW req, NEW o \in Resolve(s, req)
    PROVE  /\ o.who = "persona" => Family(s) = "local" /\ ~LocalRefuses(s)
           /\ o.who = "asserted" => Family(s) = "undeclared"
           /\ o.status = 200 => o.who \in {"persona", "asserted", "verified"}
           /\ o.why # "placeholder"
  <1> DEFINE adapter == Bound(s, "identity")[2]
  <1>1. CASE adapter = "local" /\ LocalRefuses(s)
    <2>1. o = Outcome(401, "personas-refused", "nobody")
      BY <1>1 DEF Resolve
    <2> QED
      BY <2>1 DEF Outcome
  <1>2. CASE adapter = "local" /\ ~LocalRefuses(s)
    <2>1. o \in PersonaResolve(req)
      BY <1>2 DEF Resolve
    <2>2. o \in {Outcome(200, "resolved", "persona"), Outcome(401, Bare, "nobody")}
      BY <2>1 DEF PersonaResolve
    <2> QED
      BY <1>2, <2>2 DEF Outcome, Bare, Family
  <1>3. CASE adapter = "gcp"
    <2>1. o = IapResolve(s, req)
      BY <1>3 DEF Resolve
    <2>2. o \in {Outcome(503, "no-audience", "nobody"), Outcome(401, Bare, "nobody"),
                 Outcome(503, "no-verifier", "nobody"), Outcome(200, "resolved", "verified")}
      BY <2>1, ZenonT(30) DEF IapResolve
    <2> QED
      BY <2>2 DEF Outcome, Bare
  <1>4. CASE adapter = "onprem"
    <2>1. o = Outcome(501, "no-identity-provider", "nobody")
      BY <1>4 DEF Resolve
    <2> QED
      BY <2>1 DEF Outcome
  <1>5. CASE adapter = "unimportable"
    <2>1. o = Outcome(500, "import", "nobody")
      BY <1>5 DEF Resolve
    <2> QED
      BY <2>1 DEF Outcome
  <1>6. CASE adapter = "undeclared"
    <2>1. o = Outcome(200, "resolved", "asserted")
      BY <1>6 DEF Resolve
    <2> QED
      BY <1>6, <2>1 DEF Outcome, Family
  <1>7. CASE adapter \notin {"local", "gcp", "onprem", "unimportable", "undeclared"}
    <2>1. o \in {Outcome(200, "resolved", "verified"), Outcome(401, Bare, "nobody")}
      BY <1>7 DEF Resolve
    <2> QED
      BY <2>1 DEF Outcome, Bare
  <1> QED
    BY <1>1, <1>2, <1>3, <1>4, <1>5, <1>6, <1>7

LEMMA CertifyKeepsWho ==
    ASSUME NEW s, NEW req, NEW who, NEW o, o = CertifyOutcome(s, req, who)
    PROVE  /\ o.who = who
           /\ o.why = "placeholder" =>
                 \E port \in DataPorts \cup {"audit"} : Refuses(Bound(s, port))
  <1> DEFINE called == {Bound(s, port) : port \in DataPorts \cup {"audit"}}
             packs == PacksOf[env][dir]
  <1>1. CASE packs = {}
    BY <1>1 DEF CertifyOutcome, Outcome
  <1>2. CASE packs # {} /\ \A p \in packs : req.dataset \notin DOMAIN p
    BY <1>2 DEF CertifyOutcome, Outcome
  <1>3. CASE packs # {} /\ ~(\A p \in packs : req.dataset \notin DOMAIN p)
    <2>1. CASE \E a \in called : Refuses(a)
      <3>1. o = Outcome(500, "placeholder", who)
        BY <1>3, <2>1 DEF CertifyOutcome
      <3> QED
        BY <2>1, <3>1 DEF Outcome
    <2>2. CASE ~ \E a \in called : Refuses(a)
      <3>1. o \in {Outcome(200, "certified-by-no-rule", who),
                   Outcome(200, "certified-by-rules", who)}
        BY <1>3, <2>2 DEF CertifyOutcome
      <3> QED
        BY <3>1 DEF Outcome
    <2> QED
      BY <2>1, <2>2
  <1> QED
    BY <1>1, <1>2, <1>3

LEMMA StatusKeepsWho ==
    ASSUME NEW who
    PROVE  StatusOutcome(who).who = who /\ StatusOutcome(who).why # "placeholder"
  BY DEF StatusOutcome, Outcome

(* The two routes behind a principal answer as the principal, or refuse as *)
(* the identity port refused.                                              *)
LEMMA PrincipalRoute ==
    ASSUME NEW s, NEW req, req.route \in {"certify", "status"},
           NEW out \in RouteOutcomes(s, req)
    PROVE  \E o \in Resolve(s, req) :
              /\ out.who = o.who
              /\ o.status # 200 => out = o
              /\ out.why = "placeholder" =>
                    \E port \in DataPorts \cup {"audit"} : Refuses(Bound(s, port))
  <1>1. PICK o \in Resolve(s, req) :
            out = IF o.status # 200 THEN o
                  ELSE IF req.route = "certify" THEN CertifyOutcome(s, req, o.who)
                  ELSE StatusOutcome(o.who)
    BY DEF RouteOutcomes
  <1>2. o.why # "placeholder"
    BY ResolvedWho
  <1> QED
    BY <1>1, <1>2, CertifyKeepsWho, StatusKeepsWho

(* Who is named on any route behind the container. *)
LEMMA RoutedWho ==
    ASSUME NEW s, NEW req, NEW out \in RouteOutcomes(s, req)
    PROVE  /\ out.who = "persona" => Family(s) = "local" /\ ~LocalRefuses(s)
           /\ out.who = "asserted" => Family(s) = "undeclared"
           /\ out.why = "placeholder" =>
                 \E port \in DataPorts \cup {"audit"} : Refuses(Bound(s, port))
  <1>1. CASE req.route \in {"certify", "status"}
    <2>1. PICK o \in Resolve(s, req) :
              /\ out.who = o.who
              /\ out.why = "placeholder" =>
                    \E port \in DataPorts \cup {"audit"} : Refuses(Bound(s, port))
      BY <1>1, PrincipalRoute
    <2> QED
      BY <2>1, ResolvedWho
  <1>2. CASE req.route = "personas"
    <2>1. out = Personas(s)
      BY <1>2 DEF RouteOutcomes
    <2>2. CASE Family(s) = "local" /\ ~LocalRefuses(s)
      BY <2>1, <2>2 DEF Personas, Outcome, Family
    <2>3. CASE ~(Family(s) = "local" /\ ~LocalRefuses(s))
      <3>1. out \in {Outcome(503, "personas-refused", "nobody"),
                     Outcome(500, "import", "nobody"), Outcome(200, "no-personas", "nobody")}
        BY <2>1, <2>3 DEF Personas, Family
      <3> QED
        BY <3>1 DEF Outcome
    <2> QED
      BY <2>2, <2>3
  <1>3. CASE req.route \notin {"certify", "status", "personas"}
    <2>1. out = Outcome(200, Runtime(s), "nobody")
      BY <1>3 DEF RouteOutcomes
    <2> QED
      BY <2>1 DEF Outcome, Runtime
  <1> QED
    BY <1>1, <1>2, <1>3

(* A refusal of the identity port says "authentication-required" exactly   *)
(* where the same container would recognise another request.               *)
Recognised(s, r) == \E o \in Resolve(s, r) : o.status = 200

LEMMA CureOfRefusal ==
    ASSUME NEW s, NEW req, NEW o \in Resolve(s, req), o.status # 200, env.sdk
    PROVE  o.why = Bare <=> \E r \in Requests : Recognised(s, r)
  <1> DEFINE adapter == Bound(s, "identity")[2]
  <1>0. \A r : r.standard = "good" => SelectAssertion(r) = "good"
    BY DEF SelectAssertion
  <1>1. CASE adapter = "local" /\ LocalRefuses(s)
    <2>1. \A r : Resolve(s, r) = {Outcome(401, "personas-refused", "nobody")}
      BY <1>1 DEF Resolve
    <2>2. o.why # Bare
      BY <2>1 DEF Outcome, Bare
    <2>3. \A r : ~Recognised(s, r)
      BY <2>1 DEF Recognised, Outcome
    <2> QED
      BY <2>2, <2>3
  <1>2. CASE adapter = "local" /\ ~LocalRefuses(s)
    <2>1. \A r : Resolve(s, r) = PersonaResolve(r)
      BY <1>2 DEF Resolve
    <2>2. o \in {Outcome(200, "resolved", "persona"), Outcome(401, Bare, "nobody")}
      BY <2>1 DEF PersonaResolve
    <2>3. o.why = Bare
      BY <2>2 DEF Outcome
    <2>4. PICK r \in Requests : r.persona = "seeded"
      BY ServingAssumption
    <2>5. Resolve(s, r) = {Outcome(200, "resolved", "persona")}
      BY <2>1, <2>4 DEF PersonaResolve
    <2>6. Recognised(s, r)
      BY <2>5 DEF Recognised, Outcome
    <2> QED
      BY <2>3, <2>6
  <1>3. CASE adapter = "gcp"
    <2>1. \A r : Resolve(s, r) = {IapResolve(s, r)}
      BY <1>3 DEF Resolve
    <2>2. CASE s.iap_audience = ""
      <3>1. \A r : IapResolve(s, r) = Outcome(503, "no-audience", "nobody")
        BY <2>2, Zenon DEF IapResolve
      <3> HIDE <2>2
      <3>2. o.why # Bare
        BY <2>1, <3>1 DEF Outcome, Bare
      <3>3. \A r : ~Recognised(s, r)
        BY <2>1, <3>1 DEF Recognised, Outcome
      <3> QED
        BY <3>2, <3>3
    <2>3. CASE s.iap_audience # ""
      <3>0. o = IapResolve(s, req)
        BY <2>1
      <3>1. o = Outcome(401, Bare, "nobody") \/ o = Outcome(200, "resolved", "verified")
        <4>1. CASE SelectAssertion(req) \in {"absent", "unsigned"}
          BY <2>3, <3>0, <4>1, ZenonT(30) DEF IapResolve
        <4>2. CASE SelectAssertion(req) \notin {"absent", "unsigned"}
          BY <2>3, <3>0, <4>2, ZenonT(30) DEF IapResolve
        <4> QED
          BY <4>1, <4>2
      <3>2. o.why = Bare
        BY <3>1 DEF Outcome
      <3>3. PICK r \in Requests : r.standard = "good"
        BY ServingAssumption
      <3>4. SelectAssertion(r) = "good"
        BY <1>0, <3>3
      <3>5. IapResolve(s, r) = Outcome(200, "resolved", "verified")
        BY <2>3, <3>4, ZenonT(30) DEF IapResolve
      <3>6. Recognised(s, r)
        BY <2>1, <3>5 DEF Recognised, Outcome
      <3> QED
        BY <3>2, <3>6
    <2> QED
      BY <2>2, <2>3
  <1>4. CASE adapter = "onprem"
    <2>1. \A r : Resolve(s, r) = {Outcome(501, "no-identity-provider", "nobody")}
      BY <1>4 DEF Resolve
    <2>2. o.why # Bare
      BY <2>1 DEF Outcome, Bare
    <2>3. \A r : ~Recognised(s, r)
      BY <2>1 DEF Recognised, Outcome
    <2> QED
      BY <2>2, <2>3
  <1>5. CASE adapter = "unimportable"
    <2>1. \A r : Resolve(s, r) = {Outcome(500, "import", "nobody")}
      BY <1>5 DEF Resolve
    <2>2. o.why # Bare
      BY <2>1 DEF Outcome, Bare
    <2>3. \A r : ~Recognised(s, r)
      BY <2>1 DEF Recognised, Outcome
    <2> QED
      BY <2>2, <2>3
  <1>6. CASE adapter = "undeclared"
    <2>1. o = Outcome(200, "resolved", "asserted")
      BY <1>6 DEF Resolve
    <2> QED
      BY <2>1 DEF Outcome
  <1>7. CASE adapter \notin {"local", "gcp", "onprem", "unimportable", "undeclared"}
    <2>1. \A r : Resolve(s, r) = {IF SelectAssertion(r) = "good"
                                  THEN Outcome(200, "resolved", "verified")
                                  ELSE Outcome(401, Bare, "nobody")}
      BY <1>7 DEF Resolve
    <2>2. o.why = Bare
      BY <2>1 DEF Outcome
    <2>3. PICK r \in Requests : r.standard = "good"
      BY ServingAssumption
    <2>4. Resolve(s, r) = {Outcome(200, "resolved", "verified")}
      BY <1>0, <2>1, <2>3
    <2>5. Recognised(s, r)
      BY <2>4 DEF Recognised, Outcome
    <2> QED
      BY <2>2, <2>5
  <1> QED
    BY <1>1, <1>2, <1>3, <1>4, <1>5, <1>6, <1>7

-----------------------------------------------------------------------------
(* The invariant.                                                          *)

(* An answer that came through the container, past the guard, as one of    *)
(* the routes behind it answers under the settings the container holds.    *)
Behind(a) ==
    \E p \in posture, f \in container : \E s \in Loads[env][f] :
        /\ ~Guarded(a.req, p)
        /\ a.outcome \in RouteOutcomes(s, a.req)

(* An answer given in front of it.                                         *)
Before(a) ==
    /\ a.outcome.who \in {"nobody", "service"}
    /\ a.outcome.why # "placeholder"
    /\ a.req.route \in {"certify", "status"} => a.outcome.why = "guard" \/ container = {}

(* What the import settled is what it read of its file.                    *)
Imported(p) ==
    /\ p.read \in SettingsFiles
    /\ p.bind \in KnownProfiles
    /\ ~p.guard => p.choice.explicit /\ Kinds[env][p.read] = "verified"

PostureInv ==
    /\ phase \in {"main", "serving"} => posture # {}
    /\ Once(posture)
    /\ \A p \in posture : Imported(p)

CheckedInv == \A f \in checked : f \in SettingsFiles /\ Preflights[env][f]

AnswerInv == \A a \in answer : Behind(a) \/ Before(a)

Inv == TypeOK /\ PostureInv /\ CheckedInv /\ Once(container) /\ AnswerInv

(* The routes behind the container look at the process only through its    *)
(* environment and its rule packs.                                         *)
LEMMA SameAnswers ==
    ASSUME env' = env, dir' = dir, NEW s, NEW req
    PROVE  RouteOutcomes(s, req)' = RouteOutcomes(s, req)
  <1>1. \A who : CertifyOutcome(s, req, who)' = CertifyOutcome(s, req, who)
    BY DEF CertifyOutcome, PacksOf
  <1>2. \A who : StatusOutcome(who)' = StatusOutcome(who)
    BY DEF StatusOutcome, PacksOf
  <1>3. IapResolve(s, req)' = IapResolve(s, req)
    BY DEF IapResolve
  <1>4. Resolve(s, req)' = Resolve(s, req)
    BY <1>3 DEF Resolve
  <1> QED
    BY <1>1, <1>2, <1>4 DEF RouteOutcomes

LEMMA InvInit == Init => Inv
  <1> SUFFICES ASSUME Init PROVE Inv
    OBVIOUS
  <1> USE DEF Init, NoProcess
  <1>1. TypeOK
    BY ServingAssumption DEF TypeOK, Entries
  <1>2. PostureInv /\ CheckedInv /\ Once(container) /\ AnswerInv
    BY DEF PostureInv, CheckedInv, AnswerInv, Once
  <1> QED
    BY <1>1, <1>2 DEF Inv

(* Starting, stopping and the steps in between: nothing is being answered. *)
LEMMA StartKeepsInv ==
    ASSUME Inv, NEW how \in Entries, Start(how)
    PROVE  Inv'
  <1> USE DEF Inv, Start
  <1>1. container = {} /\ answer = {}
    BY DEF TypeOK
  <1>2. TypeOK'
    BY <1>1 DEF TypeOK, Entries
  <1>3. PostureInv'
    BY DEF PostureInv, Imported, Once, Kinds
  <1>4. CheckedInv' /\ Once(container)' /\ AnswerInv'
    BY <1>1 DEF CheckedInv, AnswerInv, Once, Preflights
  <1> QED
    BY <1>2, <1>3, <1>4

LEMMA PreflightKeepsInv ==
    ASSUME Inv, Preflight
    PROVE  Inv'
  <1> USE DEF Inv, Preflight
  <1>1. container = {} /\ answer = {}
    BY DEF TypeOK
  <1>2. TypeOK'
    BY <1>1 DEF TypeOK, Entries
  <1>3. PostureInv'
    BY DEF PostureInv, Imported, Once, Kinds
  <1>4. CheckedInv'
    BY DEF CheckedInv, Preflights, TypeOK
  <1>5. Once(container)' /\ AnswerInv'
    BY <1>1 DEF AnswerInv, Once
  <1> QED
    BY <1>2, <1>3, <1>4, <1>5

LEMMA PostureSound ==
    ASSUME file \in SettingsFiles, NEW choice \in ResolveProfile(env.profile),
           NEW p, p = PostureOf(choice, Kinds[env][file])
    PROVE  Imported(p)
  <1>1. choice.profile \in KnownProfiles /\ choice.explicit \in BOOLEAN
    BY ResolveOnce
  <1>2. p.read = file /\ p.choice = choice
    BY DEF PostureOf
  <1>3. p.bind \in KnownProfiles
    BY <1>1 DEF PostureOf, BindProfile, KnownProfiles
  <1>4. ~p.guard => choice.explicit /\ Kinds[env][file] = "verified"
    BY DEF PostureOf
  <1> QED
    BY <1>2, <1>3, <1>4 DEF Imported

LEMMA ImportKeepsInv ==
    ASSUME Inv, Import
    PROVE  Inv'
  <1> USE DEF Inv, Import
  <1>1. container = {} /\ answer = {} /\ file \in SettingsFiles
    BY DEF TypeOK
  <1>2. \A p \in posture' : Imported(p)
    BY <1>1, PostureSound
  <1>3. \A p \in posture' : Imported(p)'
    BY <1>2 DEF Imported, Kinds
  <1>4. TypeOK'
    <2>1. phase' \in {"refused", "main", "serving"} /\ host' \in {"none", "loopback", "all"}
      BY DEF TypeOK
    <2>2. \A p \in posture' : p.bind \in KnownProfiles /\ p.read \in SettingsFiles
      BY <1>2 DEF Imported
    <2> QED
      BY <1>1, <2>1, <2>2 DEF TypeOK
  <1>5. PostureInv'
    <2>1. Once(posture')
      BY ResolveOnce DEF Once
    <2>2. phase' \in {"main", "serving"} => posture' # {}
      OBVIOUS
    <2> QED
      BY <1>3, <2>1, <2>2 DEF PostureInv, Once
  <1>6. CheckedInv' /\ Once(container)' /\ AnswerInv'
    BY <1>1 DEF CheckedInv, AnswerInv, Once, Preflights
  <1> QED
    BY <1>4, <1>5, <1>6

LEMMA MainKeepsInv ==
    ASSUME Inv, Main
    PROVE  Inv'
  <1> USE DEF Inv, Main
  <1>1. container = {} /\ answer = {}
    BY DEF TypeOK
  <1>2. TypeOK'
    <2>1. host' \in {"none", "loopback", "all"}
      BY DEF TypeOK, BindHost
    <2> QED
      BY <1>1, <2>1 DEF TypeOK
  <1>3. PostureInv'
    BY DEF PostureInv, Imported, Once, Kinds
  <1>4. CheckedInv'
    BY DEF CheckedInv, Preflights, TypeOK
  <1>5. Once(container)' /\ AnswerInv'
    BY <1>1 DEF AnswerInv, Once
  <1> QED
    BY <1>2, <1>3, <1>4, <1>5

LEMMA QuietKeepsInv ==
    ASSUME Inv, Stop \/ Edit \/ Sent
    PROVE  Inv'
  <1>1. answer' = {} /\ env' = env
    BY DEF Stop, Edit, Sent, process
  <1>2. TypeOK'
    BY ServingAssumption DEF Inv, TypeOK, Stop, Edit, Sent, process
  <1>3. PostureInv'
    BY DEF Inv, PostureInv, Imported, Once, Kinds, Stop, Edit, Sent, process
  <1>4. CheckedInv' /\ Once(container)' /\ AnswerInv'
    BY <1>1 DEF Inv, CheckedInv, AnswerInv, Once, Preflights, Stop, Edit, Sent, process
  <1> QED
    BY <1>2, <1>3, <1>4 DEF Inv

(* A request. *)
LEMMA RouteOfAShortcut ==
    ASSUME NEW req, NEW p, NEW o, o = RequireServiceCaller(req, p)
    PROVE  o.who \in {"nobody", "service"} /\ o.why # "placeholder"
  <1>1. \/ o = Outcome(401, "unconfigured", "nobody")
        \/ o = Outcome(401, "service", "nobody")
        \/ o = Outcome(200, "ok", "service")
    BY DEF RequireServiceCaller
  <1> QED
    BY <1>1 DEF Outcome

LEMMA ServeKeepsInv ==
    ASSUME Inv, NEW req \in Requests, Serve(req)
    PROVE  Inv'
  <1>1. /\ phase = "serving" /\ posture # {}
        /\ UNCHANGED <<file, dir, edits, env, entry, phase, checked, posture, host>>
    BY DEF Inv, PostureInv, Serve, Shortcut, ThroughContainer, Reply
  <1>2. container' \in SUBSET SettingsFiles /\ Once(container')
    <2>1. CASE UNCHANGED container
      BY <2>1 DEF Inv, TypeOK
    <2>2. CASE ThroughContainer(req)
      BY <2>2 DEF Inv, TypeOK, ThroughContainer, Once
    <2> QED
      BY <2>1, <2>2 DEF Serve
  <1>3. TypeOK'
    BY <1>1, <1>2 DEF Inv, TypeOK
  <1>4. PostureInv' /\ CheckedInv' /\ Once(container)'
    BY <1>1, <1>2 DEF Inv, PostureInv, CheckedInv, Imported, Once, Kinds, Preflights
  <1>5. ASSUME NEW a \in answer' PROVE Behind(a)' \/ Before(a)'
    <2>1. CASE Shortcut(req) /\ UNCHANGED container
      <3>1. PICK p \in posture :
               \/ Reply(req, Outcome(503, "guard", "nobody"))
               \/ req.route = "ping" /\ Reply(req, RequireServiceCaller(req, p))
               \/ /\ req.route = "docs"
                  /\ Reply(req, Outcome(IF p.docs THEN 200 ELSE 404, "docs", "nobody"))
        BY <2>1 DEF Shortcut
      <3>2. CASE Reply(req, Outcome(503, "guard", "nobody"))
        <4>1. a.outcome = Outcome(503, "guard", "nobody")
          BY <3>2 DEF Reply
        <4> QED
          BY <4>1 DEF Before, Outcome
      <3>3. CASE req.route = "ping" /\ Reply(req, RequireServiceCaller(req, p))
        <4>1. a.outcome = RequireServiceCaller(req, p) /\ a.req.route = "ping"
          BY <3>3 DEF Reply
        <4> QED
          BY <4>1, RouteOfAShortcut DEF Before
      <3>4. CASE /\ req.route = "docs"
                 /\ Reply(req, Outcome(IF p.docs THEN 200 ELSE 404, "docs", "nobody"))
        <4>1. /\ a.outcome.who = "nobody" /\ a.outcome.why = "docs"
              /\ a.req.route = "docs"
          BY <3>4 DEF Reply, Outcome
        <4> QED
          BY <4>1 DEF Before
      <3> QED
        BY <3>1, <3>2, <3>3, <3>4
    <2>2. CASE ThroughContainer(req)
      <3>1. CASE container' = {} /\ Reply(req, Outcome(500, "settings", "nobody"))
        <4>1. a.outcome = Outcome(500, "settings", "nobody")
          BY <3>1 DEF Reply
        <4> QED
          BY <3>1, <4>1 DEF Before, Outcome
      <3>2. CASE \E f \in container' : \E s \in Loads[env][f] : \E o \in RouteOutcomes(s, req) :
                    Reply(req, o)
        <4>1. PICK f \in container' : \E s \in Loads[env][f] :
                    \E o \in RouteOutcomes(s, req) : Reply(req, o)
          BY <3>2
        <4>2. PICK s \in Loads[env][f] : \E o \in RouteOutcomes(s, req) : Reply(req, o)
          BY <4>1
        <4>3. a.req = req /\ a.outcome \in RouteOutcomes(s, req)
          BY <4>2 DEF Reply
        <4>4. PICK p \in posture : ~Guarded(req, p)
          BY <2>2 DEF ThroughContainer
        <4>5. a.outcome \in RouteOutcomes(s, a.req)' /\ s \in Loads[env][f]'
          BY <1>1, <4>3, SameAnswers DEF Loads
        <4>6. p \in posture' /\ ~Guarded(a.req, p)'
          BY <1>1, <4>3, <4>4 DEF Guarded
        <4> QED
          BY <4>5, <4>6 DEF Behind
      <3> QED
        BY <2>2, <3>1, <3>2 DEF ThroughContainer
    <2> QED
      BY <2>1, <2>2 DEF Serve
  <1> QED
    BY <1>3, <1>4, <1>5 DEF Inv, AnswerInv

LEMMA InvStep == Inv /\ [Next]_vars => Inv'
  <1> SUFFICES ASSUME Inv, [Next]_vars PROVE Inv'
    OBVIOUS
  <1>1. CASE Next
    BY <1>1, StartKeepsInv, PreflightKeepsInv, ImportKeepsInv, MainKeepsInv, QuietKeepsInv,
       ServeKeepsInv DEF Next
  <1>2. CASE UNCHANGED vars
    <2>1. TypeOK' /\ PostureInv' /\ CheckedInv' /\ Once(container)'
      BY <1>2 DEF Inv, vars, TypeOK, PostureInv, CheckedInv, Imported, Once, Kinds, Preflights
    <2>2. ASSUME NEW a \in answer PROVE Behind(a)' \/ Before(a)'
      BY <1>2, SameAnswers DEF Inv, vars, AnswerInv, Behind, Before, Guarded, Loads
    <2> QED
      BY <1>2, <2>1, <2>2 DEF Inv, AnswerInv, vars
  <1> QED
    BY <1>1, <1>2

-----------------------------------------------------------------------------
(* What a serving process promises.                                        *)

(* The container holds one settings record at most.                        *)
LEMMA RunningOnce ==
    ASSUME Inv
    PROVE  /\ Once(Running)
           /\ \A f \in container : \A s \in Loads[env][f] : s \in Running
  <1>1. \A f \in container : f \in SettingsFiles /\ env \in Envs
    BY DEF Inv, TypeOK
  <1>2. \A f \in container : Loads[env][f] = Load(env, SettingsText[f])
    BY <1>1 DEF Loads
  <1>3. \A f \in container : Once(Loads[env][f])
    BY <1>1, <1>2, LoadOnce
  <1> QED
    BY <1>3 DEF Inv, Running, Once

LEMMA InvEarned == Inv => IdentityIsEarned
  <1> SUFFICES ASSUME Inv, NEW a \in answer, NEW p \in posture
               PROVE  /\ (/\ a.outcome.who \in {"persona", "asserted"} /\ a.req.peer # "loopback"
                          /\ container = {p.read}) => env.insecure_demo
                      /\ a.outcome.who = "persona" => env.profile = LocalProfile
    BY DEF IdentityIsEarned
  <1> SUFFICES ASSUME a.outcome.who \in {"persona", "asserted"}
               PROVE  /\ a.req.peer # "loopback" /\ container = {p.read} => env.insecure_demo
                      /\ a.outcome.who = "persona" => env.profile = LocalProfile
    OBVIOUS
  <1>1. Behind(a)
    BY DEF Inv, AnswerInv, Before
  <1>2. PICK f \in container : \E s \in Loads[env][f] :
            /\ ~Guarded(a.req, p)
            /\ a.outcome \in RouteOutcomes(s, a.req)
    BY <1>1 DEF Behind, Inv, PostureInv, Once
  <1>3. PICK s \in Loads[env][f] :
            /\ ~Guarded(a.req, p)
            /\ a.outcome \in RouteOutcomes(s, a.req)
    BY <1>2
  <1>4. f \in SettingsFiles /\ s \in Load(env, SettingsText[f])
    BY <1>3 DEF Inv, TypeOK, Loads
  <1>5. /\ a.outcome.who = "persona" => Family(s) = "local" /\ ~LocalRefuses(s)
        /\ Family(s) \in {"local", "undeclared"}
    BY <1>3, RoutedWho
  <1>6. a.outcome.who = "persona" => env.profile = LocalProfile
    BY <1>4, <1>5, LoadOnce DEF LocalRefuses
  <1>7. ASSUME a.req.peer # "loopback", container = {p.read}, ~env.insecure_demo
        PROVE  FALSE
    <2>1. ~p.guard
      BY <1>3, <1>7 DEF Guarded
    <2>2. f = p.read
      BY <1>7
    <2>3. EndUserAuthKind(env, SettingsText[f]) = "verified"
      BY <1>4, <2>1, <2>2 DEF Inv, TypeOK, PostureInv, Imported, Kinds
    <2>4. Family(s) \in {"gcp", "client"}
      BY <1>4, <2>3, VerifiedMeans DEF Family
    <2> QED
      BY <1>5, <2>4
  <1> QED
    BY <1>6, <1>7

LEMMA InvCure == Inv => RefusalNamesItsCure
  <1> SUFFICES ASSUME Inv, NEW a \in answer, NEW s \in Running,
                      a.req.route \in {"certify", "status"}, a.outcome.who = "nobody",
                      a.outcome.why # "guard", env.sdk
               PROVE  a.outcome.why = Bare <=>
                         \E r \in Requests : \E o \in Resolve(s, r) : o.status = 200
    BY DEF RefusalNamesItsCure
  <1>1. container # {}
    BY DEF Running
  <1>2. Behind(a)
    BY <1>1 DEF Inv, AnswerInv, Before
  <1>3. PICK f \in container : \E t \in Loads[env][f] : a.outcome \in RouteOutcomes(t, a.req)
    BY <1>2 DEF Behind
  <1>4. PICK t \in Loads[env][f] : a.outcome \in RouteOutcomes(t, a.req)
    BY <1>3
  <1>5. t = s
    BY RunningOnce DEF Once
  <1>6. PICK o \in Resolve(s, a.req) : a.outcome.who = o.who /\ (o.status # 200 => a.outcome = o)
    BY <1>4, <1>5, PrincipalRoute
  <1>7. o.status # 200
    BY <1>6, ResolvedWho
  <1>8. o.why = Bare <=> \E r \in Requests : Recognised(s, r)
    BY <1>7, CureOfRefusal
  <1> QED
    BY <1>6, <1>7, <1>8 DEF Recognised

LEMMA InvPlaceholder == Inv => CheckedRunsNoPlaceholder
  <1> SUFFICES ASSUME Inv, NEW a \in answer, NEW s \in Running,
                      a.outcome.why = "placeholder", container = checked,
                      s.profile \in ManagedProfiles
               PROVE  \E port \in DataPorts \cup {"audit"} : Bound(s, port)[2] = "onprem"
    BY DEF CheckedRunsNoPlaceholder
  <1>1. Behind(a)
    BY DEF Inv, AnswerInv, Before
  <1>2. PICK f \in container : \E t \in Loads[env][f] : a.outcome \in RouteOutcomes(t, a.req)
    BY <1>1 DEF Behind
  <1>3. PICK t \in Loads[env][f] : a.outcome \in RouteOutcomes(t, a.req)
    BY <1>2
  <1>4. t = s
    BY RunningOnce DEF Once
  <1>5. PICK port \in DataPorts \cup {"audit"} : Refuses(Bound(s, port))
    BY <1>3, <1>4, RoutedWho
  <1>6. f \in SettingsFiles /\ Preflights[env][f] /\ env \in Envs
    BY DEF Inv, TypeOK, CheckedInv
  <1>7. PreflightPasses(env, SettingsText[f]) /\ s \in Load(env, SettingsText[f])
    BY <1>4, <1>6 DEF Preflights, Loads
  <1>8. ActiveTargets(s) \cap Placeholders = {}
    BY <1>6, <1>7, PreflightMeans DEF ManagedProfileReady
  <1>9. Bound(s, port) \in ActiveTargets(s)
    BY DEF ActiveTargets, Ports
  <1>10. Bound(s, port) \notin Placeholders
    BY <1>8, <1>9
  <1> QED
    BY <1>5, <1>10 DEF Refuses

LEMMA InvAlways == Spec => []Inv
  <1>1. Init => Inv
    BY InvInit
  <1>2. Inv /\ [Next]_vars => Inv'
    BY InvStep
  <1> QED
    BY <1>1, <1>2, PTL DEF Spec

(* Types, and: nothing is answered and no container is kept but by a       *)
(* serving process whose import has settled a posture (app.py:111-113,     *)
(* 273-290).                                                               *)
THEOREM TypeCorrect == Spec => []TypeOK
  <1>1. Inv => TypeOK
    BY DEF Inv
  <1> QED
    BY <1>1, InvAlways, PTL

(* Whoever a caller is taken for has been earned: off loopback nobody is   *)
(* named on his word by a process whose import and container read the same *)
(* settings, and a seeded persona takes a profile set to local, for every  *)
(* environment, settings file and order of edits (app.py:273-290,          *)
(* adapters/local/identity.py:53-66).                                      *)
THEOREM EarnedIdentity == Spec => []IdentityIsEarned
  BY InvEarned, InvAlways, PTL

(* The bare 401 is the answer exactly where another request to the same    *)
(* process would be recognised (app.py:126-150, ports/identity.py:68-85).  *)
THEOREM NamedCure == Spec => []RefusalNamesItsCure
  BY InvCure, InvAlways, PTL

(* A managed process whose container holds the settings its preflight read *)
(* meets no managed placeholder while it certifies                         *)
(* (managed_readiness.py:46-64, app.py:396-398).                           *)
THEOREM NoPlaceholderRuns == Spec => []CheckedRunsNoPlaceholder
  BY InvPlaceholder, InvAlways, PTL
=============================================================================
