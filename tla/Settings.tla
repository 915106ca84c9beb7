----------------------------- MODULE Settings -----------------------------
(***************************************************************************)
(* How the service reads its configuration: environment variables in three *)
(* states, the settings file whose values name such variables, the profile *)
(* and the table that binds every port to an adapter (config.py,           *)
(* envread.py, managed_readiness.py, ports/identity.py).                   *)
(*                                                                         *)
(* A read that can raise returns a SET: empty when it raises, otherwise    *)
(* the one value it returns. A composition of reads is then the set of     *)
(* records over the product, empty as soon as one of the reads raises.     *)
(*                                                                         *)
(* An adapter is <<port, family>>, the class that a family ships for a     *)
(* port. Beside the three shipped families there are the adapters of a     *)
(* client: one that verifies its users, one that declares nothing, and a   *)
(* target that cannot be imported.                                         *)
(***************************************************************************)
EXTENDS Naturals

Unset == "unset"
Emptied == "emptied"

LocalProfile == "local"
KnownProfiles == {LocalProfile, "gcp", "onprem"}
UnconsentedProfile == "unconfigured"
ManagedProfiles == {"gcp"}

DataPorts == {"warehouse", "catalog", "baseline_store"}
Ports == DataPorts \cup {"audit", "identity", "review_router", "tracer", "evaluation"}
Families == KnownProfiles \cup {"client", "undeclared", "unimportable"}
Adapters == Ports \X Families
Tables == [Ports -> [KnownProfiles -> Adapters]]

-----------------------------------------------------------------------------
\* Environment reads.

\* A variable with a default, and a switch, each in three states.
SettingOrDefault(raw, default) ==
    IF raw = Emptied THEN {} ELSE {IF raw = Unset THEN default ELSE raw}

BooleanSetting(raw, default) ==
    CASE raw = Unset -> {default}
      [] raw = "on" -> {TRUE}
      [] raw = "off" -> {FALSE}
      [] OTHER -> {}

\* The profile is the only variable whose absence is carried on as a fact of its own.
ResolveProfile(raw) ==
    CASE raw = Unset -> {[profile |-> LocalProfile, explicit |-> FALSE]}
      [] raw \in KnownProfiles -> {[profile |-> raw, explicit |-> TRUE]}
      [] OTHER -> {}

\* What relaxations read and what restrictions read: without a choice neither sees the other's.
ExposureProfile(choice) == IF choice.explicit THEN choice.profile ELSE UnconsentedProfile
BindProfile(choice) == IF choice.explicit THEN choice.profile ELSE LocalProfile
ServiceAuthConfigured(choice) == choice.explicit

-----------------------------------------------------------------------------
\* The settings file: missing, not a mapping, or a mapping with perhaps a table of bindings.

DefaultBindings == [port \in Ports |-> [p \in KnownProfiles |-> <<port, p>>]]

\* What the file contributes, every value expanded, or nothing when reading it raises. An
\* implicit file may be missing, and then no variable it would have named is read either.
ReadSettingsFile(env, file) ==
    IF env.settings = Emptied \/ file.state = "malformed" THEN {}
    ELSE IF file.state = "missing"
    THEN IF env.settings = Unset THEN {[review_url |-> "", iap_audience |-> "", table |-> {}]}
         ELSE {}
    ELSE [review_url : SettingOrDefault(env.review_url, ""),
          iap_audience : SettingOrDefault(env.iap_audience, ""),
          table : {file.table}]

\* A table is adopted only when it binds every port under every profile, and no other.
BindingsFrom(data) ==
    IF data.table = {} THEN {DefaultBindings}
    ELSE {t \in data.table : DOMAIN t = Ports /\ \A port \in Ports : DOMAIN t[port] = KnownProfiles}

\* A managed profile with routing on must name its console.
Unconfigured(settings) ==
    settings.profile \in ManagedProfiles /\ settings.review_routing /\ settings.review_url = ""

Load(env, file) ==
    LET choices == ResolveProfile(env.profile)
        data == ReadSettingsFile(env, file)
    IN {s \in [profile : {c.profile : c \in choices}, explicit : {c.explicit : c \in choices},
               review_url : {d.review_url : d \in data},
               iap_audience : {d.iap_audience : d \in data},
               adapters : UNION {BindingsFrom(d) : d \in data},
               review_routing : BooleanSetting(env.review_routing, TRUE)] : ~Unconfigured(s)}

Bound(settings, port) == settings.adapters[port][settings.profile]

\* What /healthz reports: where the process runs and whose model answers. No port of this
\* service generates text.
Runtime(settings) == IF settings.profile \in ManagedProfiles THEN "gcp" ELSE "local"
GeneratorModel(settings) == "no-model"

-----------------------------------------------------------------------------
\* What an identity adapter declares, and what the process believes before it builds one.

DeclaredEndUserAuth(adapter) ==
    CASE adapter[2] \in {"gcp", "client"} -> "verified"
      [] adapter[2] = "onprem" -> "unimplemented"
      [] OTHER -> "client-asserted"

IdentityAdapterClass(settings) == {Bound(settings, "identity")} \ {<<"identity", "unimportable">>}

\* Any failure to find out reads as client-asserted.
EndUserAuthKind(env, file) ==
    LET kinds == UNION {{DeclaredEndUserAuth(c) : c \in IdentityAdapterClass(s)} :
                            s \in Load(env, file)}
    IN IF kinds = {} THEN "client-asserted" ELSE CHOOSE k \in kinds : TRUE

-----------------------------------------------------------------------------
\* The managed preflight.

Placeholders == {<<port, "gcp">> : port \in DataPorts}
ActiveTargets(settings) == {Bound(settings, port) : port \in Ports}

\* Mutant of ManagedProfileReady: the managed profile goes by another name.
ReadyByOtherName(settings) ==
    settings.profile \in {"platform"} => ActiveTargets(settings) \cap Placeholders = {}

\* A managed process is refused while a placeholder is among the adapters it would run.
ManagedProfileReady(settings) ==
    settings.profile \in ManagedProfiles => ActiveTargets(settings) \cap Placeholders = {}

PreflightPasses(env, file) == \E s \in Load(env, file) : ManagedProfileReady(s)

\* Adapters that refuse when they are called: the managed placeholders and every exit adapter
\* but the tracer, which is absent instead.
Refuses(adapter) ==
    adapter \in Placeholders \/ (adapter[2] = "onprem" /\ adapter[1] # "tracer")
=============================================================================
