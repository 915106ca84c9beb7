------------------------------ MODULE Serving ------------------------------
(***************************************************************************)
(* A serving process from its start to its answers: the preflight of the   *)
(* container image, the import that fixes the posture, the bind address,   *)
(* the container built by the first request that needs it, and the end     *)
(* user and service authentication in front of every route (api/app.py,    *)
(* config.py, the identity adapters).                                      *)
(*                                                                         *)
(* The environment of a process is fixed when it starts. The settings file *)
(* and the rule packs are files: they may be edited between any two steps, *)
(* and the process reads the settings up to three times.                   *)
(***************************************************************************)
EXTENDS RulePacks

CONSTANTS
    Envs,           \* environments a process may be started with
    SettingsFiles,  \* versions of the settings file
    SettingsText,   \* what each of them says
    PackDirs,       \* versions of the rule-pack directory
    PackText,       \* what each of them holds
    Requests,       \* requests a caller may send
    MaxEdits        \* bound on the edits of either

\* A mapping has one table of bindings or none, and callers may present a known persona and a
\* good assertion.
ASSUME ServingAssumption ==
    /\ \A f \in SettingsFiles : \A t, u \in SettingsText[f].table : t = u
    /\ \E r \in Requests : r.persona = "seeded"
    /\ \E r \in Requests : r.standard = "good"
    /\ MaxEdits \in Nat

VARIABLES
    file,       \* the settings file
    dir,        \* the rule-pack directory
    edits,      \* how many edits there were
    env,        \* environment of the process
    entry,      \* how it was started
    phase,      \* how far it is
    checked,    \* the settings files that passed a preflight of this process
    posture,    \* what the import decided: {} before, then one record
    host,       \* where it listens
    container,  \* the settings file the container was built from: {} before that
    answer      \* the last request and its answer: {} when none is being looked at

vars == <<file, dir, edits, env, entry, phase, checked, posture, host, container, answer>>
process == <<env, entry, phase, checked, posture, host, container>>

\* The container image runs the preflight and serves the app on every interface, main() checks
\* and binds for itself, and an operator may hand the app object to uvicorn.
Entries == {"container", "main", "uvicorn"}

Loads == [e \in Envs |-> [f \in SettingsFiles |-> Load(e, SettingsText[f])]]
Preflights == [e \in Envs |-> [f \in SettingsFiles |-> PreflightPasses(e, SettingsText[f])]]
Kinds == [e \in Envs |-> [f \in SettingsFiles |-> EndUserAuthKind(e, SettingsText[f])]]
PacksOf == [e \in Envs |-> [d \in PackDirs |-> LoadRulepacks(e, PackText[d])]]

NoProcess ==
    /\ phase = "down" /\ entry = "none" /\ checked = {} /\ posture = {} /\ host = "none"
    /\ container = {}

Init ==
    /\ file \in SettingsFiles
    /\ dir \in PackDirs
    /\ edits = 0
    /\ env \in Envs
    /\ answer = {}
    /\ NoProcess
-----------------------------------------------------------------------------
\* Starting.

Start(how) ==
    /\ phase = "down"
    /\ entry' = how
    /\ phase' = IF how = "container" THEN "preflight" ELSE "import"
    /\ UNCHANGED <<file, dir, edits, env, checked, posture, host, container, answer>>

\* python -m data_quality_governance.managed_readiness && ...
Preflight ==
    /\ phase = "preflight"
    /\ IF Preflights[env][file]
       THEN phase' = "import" /\ checked' = {file}
       ELSE phase' = "refused" /\ UNCHANGED checked
    /\ UNCHANGED <<file, dir, edits, env, entry, posture, host, container, answer>>

\* The posture that importing api/app.py settles for the life of the process.
PostureOf(choice, kind) ==
    LET authenticated == choice.explicit /\ kind = "verified"
    IN [choice |-> choice,
        exposure |-> ExposureProfile(choice),
        guard |-> ~authenticated,
        bind |-> IF authenticated THEN BindProfile(choice) ELSE LocalProfile,
        docs |-> ExposureProfile(choice) = LocalProfile,
        persona_header |-> ExposureProfile(choice) = LocalProfile,
        read |-> file]

Import ==
    /\ phase = "import"
    /\ posture' = {PostureOf(choice, Kinds[env][file]) :
                        choice \in ResolveProfile(env.profile)}
    /\ phase' = IF posture' = {} THEN "refused" ELSE IF entry = "main" THEN "main" ELSE "serving"
    /\ host' \in IF phase' # "serving" THEN {host}
                ELSE IF entry = "container" THEN {"all"} ELSE {"loopback", "all"}
    /\ UNCHANGED <<file, dir, edits, env, entry, checked, container, answer>>

\* resolve_bind_host: the local profile stays on loopback unless the operator accepts exposure.
BindHost(profile) == IF profile = LocalProfile /\ ~env.insecure_demo THEN "loopback" ELSE "all"

Main ==
    /\ phase = "main"
    /\ IF Preflights[env][file]
       THEN /\ phase' = "serving"
            /\ checked' = {file}
            /\ host' \in {BindHost(p.bind) : p \in posture}
       ELSE phase' = "refused" /\ UNCHANGED <<checked, host>>
    /\ UNCHANGED <<file, dir, edits, env, entry, posture, container, answer>>

\* Mutant of Stop: the cached container outlives the process that built it.
StopKeepsContainer ==
    /\ phase \in {"serving", "refused"}
    /\ answer = {}
    /\ phase' = "down" /\ entry' = "none" /\ checked' = {} /\ posture' = {} /\ host' = "none"
    /\ UNCHANGED <<file, dir, edits, env, container, answer>>

Stop ==
    /\ phase \in {"serving", "refused"}
    /\ answer = {}
    /\ phase' = "down" /\ entry' = "none" /\ checked' = {} /\ posture' = {} /\ host' = "none"
    /\ container' = {}
    /\ UNCHANGED <<file, dir, edits, env, answer>>

Edit ==
    /\ edits < MaxEdits
    /\ answer = {}
    /\ edits' = edits + 1
    /\ \/ file' \in SettingsFiles \ {file} /\ UNCHANGED dir
       \/ dir' \in PackDirs \ {dir} /\ UNCHANGED file
    /\ UNCHANGED <<process, answer>>
-----------------------------------------------------------------------------
\* Answers. An outcome is a status, why, and on whose behalf.

Outcome(status, why, who) == [status |-> status, why |-> why, who |-> who]
Bare == "authentication-required"

\* The IAP assertion: the edge's header first, then the portal's; a blank one is absent.
SelectAssertion(req) ==
    IF req.standard \notin {"absent", "blank"} THEN req.standard
    ELSE IF req.portal \notin {"absent", "blank"} THEN req.portal ELSE "absent"

\* Mutant of IapResolve: the header is read before the configuration.
IapResolveHeaderFirst(settings, req) ==
    IF SelectAssertion(req) \in {"absent", "unsigned"} THEN Outcome(401, Bare, "nobody")
    ELSE IF settings.iap_audience = "" THEN Outcome(503, "no-audience", "nobody")
    ELSE IF SelectAssertion(req) = "good" THEN Outcome(200, "resolved", "verified")
    ELSE Outcome(401, Bare, "nobody")

\* Configuration before the header, the algorithm before the verifier, claims after it.
IapResolve(settings, req) ==
    LET assertion == SelectAssertion(req)
    IN IF settings.iap_audience = "" THEN Outcome(503, "no-audience", "nobody")
       ELSE IF assertion \in {"absent", "unsigned"} THEN Outcome(401, Bare, "nobody")
       ELSE IF ~env.sdk THEN Outcome(503, "no-verifier", "nobody")
       ELSE IF assertion = "good" THEN Outcome(200, "resolved", "verified")
       ELSE Outcome(401, Bare, "nobody")

\* Mutant of LocalRefuses: the profile is checked, not whether anybody chose it.
LocalRefusesOtherProfiles(settings) == settings.profile # LocalProfile

\* The persona adapter refuses to be constructed without a deliberate local profile.
LocalRefuses(settings) == settings.profile # LocalProfile \/ ~settings.explicit

PersonaResolve(req) ==
    CASE req.persona = "seeded" -> {Outcome(200, "resolved", "persona")}
      [] req.persona = "unknown" -> {Outcome(401, Bare, "nobody")}
      [] OTHER -> {Outcome(200, "resolved", "persona"), Outcome(401, Bare, "nobody")}

\* What the identity port makes of a request, for the adapter the container binds.
Resolve(settings, req) ==
    LET adapter == Bound(settings, "identity")[2]
    IN CASE adapter = "local" /\ LocalRefuses(settings) ->
                {Outcome(401, "personas-refused", "nobody")}
         [] adapter = "local" /\ ~LocalRefuses(settings) -> PersonaResolve(req)
         [] adapter = "gcp" -> {IapResolve(settings, req)}
         [] adapter = "onprem" -> {Outcome(501, "no-identity-provider", "nobody")}
         [] adapter = "unimportable" -> {Outcome(500, "import", "nobody")}
         [] adapter = "undeclared" -> {Outcome(200, "resolved", "asserted")}
         [] OTHER -> {IF SelectAssertion(req) = "good" THEN Outcome(200, "resolved", "verified")
                      ELSE Outcome(401, Bare, "nobody")}

\* POST /v1/certify behind a principal: the packs are read, then the adapters are called.
CertifyOutcome(settings, req, who) ==
    LET packs == PacksOf[env][dir]
        called == {Bound(settings, port) : port \in DataPorts \cup {"audit"}}
    IN IF packs = {} THEN Outcome(500, "rule-packs", who)
       ELSE IF \A p \in packs : req.dataset \notin DOMAIN p THEN Outcome(500, "no-rule-pack", who)
       ELSE IF \E a \in called : Refuses(a) THEN Outcome(500, "placeholder", who)
       ELSE Outcome(200, IF \E p \in packs : p[req.dataset].rules = {}
                         THEN "certified-by-no-rule" ELSE "certified-by-rules", who)

\* GET /v1/certification/{id}: the packs are read here too; the store's answer is another model.
StatusOutcome(who) ==
    IF PacksOf[env][dir] = {} THEN Outcome(500, "rule-packs", who)
    ELSE Outcome(200, "store", who)

\* The personas endpoint constructs the identity adapter but resolves nobody.
Personas(settings) ==
    LET adapter == Bound(settings, "identity")[2]
    IN CASE adapter = "local" /\ LocalRefuses(settings) ->
                Outcome(503, "personas-refused", "nobody")
         [] adapter = "local" /\ ~LocalRefuses(settings) -> Outcome(200, "personas", "persona")
         [] adapter = "unimportable" -> Outcome(500, "import", "nobody")
         [] OTHER -> Outcome(200, "no-personas", "nobody")

\* A calling service: no scheme without a choice; a shared secret under local, open when there
\* is none; a signed token elsewhere.
RequireServiceCaller(req, p) ==
    CASE ~ServiceAuthConfigured(p.choice) -> Outcome(401, "unconfigured", "nobody")
      [] ServiceAuthConfigured(p.choice) /\ p.exposure = LocalProfile ->
            IF env.s2s_token = Unset \/ req.bearer = "secret" THEN Outcome(200, "ok", "service")
            ELSE Outcome(401, "service", "nobody")
      [] OTHER -> IF req.bearer = "signed" THEN Outcome(200, "ok", "service")
                  ELSE Outcome(401, "service", "nobody")

\* The routes behind the container.
RouteOutcomes(settings, req) ==
    CASE req.route = "personas" -> {Personas(settings)}
      [] req.route \in {"certify", "status"} ->
            {IF o.status # 200 THEN o
             ELSE IF req.route = "certify" THEN CertifyOutcome(settings, req, o.who)
             ELSE StatusOutcome(o.who) : o \in Resolve(settings, req)}
      [] OTHER -> {Outcome(200, Runtime(settings), "nobody")}

\* The outermost middleware: peers that are not plainly on loopback.
Guarded(req, p) == p.guard /\ ~env.insecure_demo /\ req.peer # "loopback"

Reaches(req) == host = "all" \/ req.peer # "remote"

Reply(req, outcome) ==
    /\ answer' = {[req |-> req, outcome |-> outcome]}
    /\ UNCHANGED <<file, dir, edits, env, entry, phase, checked, posture, host>>

\* Two answers that need no container, and one that waits for the schema.
Shortcut(req) ==
    \E p \in posture :
        \/ Guarded(req, p) /\ Reply(req, Outcome(503, "guard", "nobody"))
        \/ ~Guarded(req, p) /\ req.route = "ping" /\ Reply(req, RequireServiceCaller(req, p))
        \/ ~Guarded(req, p) /\ req.route = "docs"
           /\ Reply(req, Outcome(IF p.docs THEN 200 ELSE 404, "docs", "nobody"))

\* Mutant of ThroughContainer: the settings are those the import could read.
ThroughContainerOfImport(req) ==
    /\ req.route \notin {"ping", "docs"}
    /\ \E p \in posture :
        /\ ~Guarded(req, p)
        /\ container' = IF Loads[env][p.read] # {} THEN {p.read} ELSE {}
    /\ \/ container' = {} /\ Reply(req, Outcome(500, "settings", "nobody"))
       \/ \E f \in container' : \E s \in Loads[env][f] : \E o \in RouteOutcomes(s, req) :
              Reply(req, o)

\* The container is built by the first request that needs it. A build that raises is not
\* kept: the request fails, and the next one tries again.
ThroughContainer(req) ==
    /\ req.route \notin {"ping", "docs"}
    /\ \E p \in posture : ~Guarded(req, p)
    /\ container' = IF container = {} /\ Loads[env][file] # {} THEN {file} ELSE container
    /\ \/ container' = {} /\ Reply(req, Outcome(500, "settings", "nobody"))
       \/ \E f \in container' : \E s \in Loads[env][f] : \E o \in RouteOutcomes(s, req) :
              Reply(req, o)

Serve(req) ==
    /\ phase = "serving" /\ answer = {} /\ Reaches(req)
    /\ \/ Shortcut(req) /\ UNCHANGED container
       \/ ThroughContainer(req)

Sent ==
    /\ answer # {}
    /\ answer' = {}
    /\ UNCHANGED <<file, dir, edits, process>>

Next ==
    \/ \E how \in Entries : Start(how)
    \/ Preflight
    \/ Import
    \/ Main
    \/ Stop
    \/ Edit
    \/ \E req \in Requests : Serve(req)
    \/ Sent

Spec == Init /\ [][Next]_vars

\* The image's HEALTHCHECK asks /healthz on loopback again and again; an answer is sent.
HealthCheck == CHOOSE req \in Requests : req.route = "health" /\ req.peer = "loopback"
FairSpec == Spec /\ SF_vars(Serve(HealthCheck)) /\ WF_vars(Sent)
-----------------------------------------------------------------------------
\* Types, and what an answer may never be without: a serving process with a posture.
TypeOK ==
    /\ file \in SettingsFiles /\ dir \in PackDirs /\ edits \in 0 .. MaxEdits /\ env \in Envs
    /\ entry \in Entries \cup {"none"}
    /\ phase \in {"down", "preflight", "import", "main", "serving", "refused"}
    /\ host \in {"none", "loopback", "all"}
    /\ container \in SUBSET SettingsFiles
    /\ \A p \in posture : p.bind \in KnownProfiles /\ p.read \in SettingsFiles
    /\ container # {} \/ answer # {} => phase = "serving" /\ posture # {}

\* Whoever a caller is taken for has been earned. Off loopback it takes a verified assertion,
\* whatever the file binds, as long as the import and the container read the same file
\* (app.py:247-290 with config.py:669-684); and a seeded persona is given only by a process
\* whose profile was set to local, whatever was bound or edited in between
\* (adapters/local/identity.py:53-66).
IdentityIsEarned ==
    \A a \in answer, p \in posture :
        /\ (/\ a.outcome.who \in {"persona", "asserted"} /\ a.req.peer # "loopback"
            /\ container = {p.read}) => env.insecure_demo
        /\ a.outcome.who = "persona" => env.profile = LocalProfile

\* The settings of the container.
Running == UNION {Loads[env][f] : f \in container}

\* A refusal says who can cure it: a bare 401 exactly where another request to the same
\* process would have been recognised, and a status with a reason where none would
\* (app.py:126-150, ports/identity.py:68-85). With google-auth installed: without it the
\* missing and the unsigned assertion still get the bare 401, before the verifier is looked for.
RefusalNamesItsCure ==
    \A a \in answer, s \in Running :
        (/\ a.req.route \in {"certify", "status"} /\ a.outcome.who = "nobody"
         /\ a.outcome.why # "guard" /\ env.sdk) =>
            (a.outcome.why = Bare <=>
                \E r \in Requests : \E o \in Resolve(s, r) : o.status = 200)

\* A managed process that passed a preflight never meets a managed placeholder while it
\* certifies, only an exit adapter that somebody bound, unless the settings were edited between
\* the preflight and the first request (managed_readiness.py:46-64, app.py:396-398). Under any
\* other profile the preflight looks at no binding: a file that borrows a placeholder passes.
CheckedRunsNoPlaceholder ==
    \A a \in answer, s \in Running :
        (/\ a.outcome.why = "placeholder" /\ container = checked
         /\ s.profile \in ManagedProfiles) =>
            \E port \in DataPorts \cup {"audit"} : Bound(s, port)[2] = "onprem"

\* A process that could not read its settings recovers by itself: once they stay readable,
\* the health checks get the container built, because a failed build is not cached
\* (app.py:111-113, the lru_cache).
Recoverable == phase = "serving" /\ Loads[env][file] # {}
HealthReturns == <>[]Recoverable => <>[](container # {})
=============================================================================
