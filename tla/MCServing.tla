----------------------------- MODULE MCServing -----------------------------
(***************************************************************************)
(* A small instance of Serving: environments around each profile, settings *)
(* files that are shipped, missing, damaged or rebound, three rule-pack    *)
(* directories, and a request of every route with every credential.        *)
(***************************************************************************)
EXTENDS Serving

PlainEnv ==
    [settings |-> Unset, profile |-> "gcp", review_routing |-> Unset, review_url |-> "url",
     iap_audience |-> "aud", rulepack_dir |-> Unset, insecure_demo |-> FALSE,
     s2s_token |-> Unset, sdk |-> TRUE]

ProfileEnvs ==
    {[PlainEnv EXCEPT !.profile = p] :
        p \in {Unset, Emptied, "Local", LocalProfile, "gcp", "onprem"}}

OddEnvs ==
    {[PlainEnv EXCEPT !.review_url = Unset], [PlainEnv EXCEPT !.review_url = Emptied],
     [PlainEnv EXCEPT !.review_url = Unset, !.review_routing = "off"],
     [PlainEnv EXCEPT !.review_routing = Emptied], [PlainEnv EXCEPT !.iap_audience = Unset],
     [PlainEnv EXCEPT !.sdk = FALSE],
     [PlainEnv EXCEPT !.settings = "named", !.rulepack_dir = "named"],
     [PlainEnv EXCEPT !.profile = LocalProfile, !.insecure_demo = TRUE],
     [PlainEnv EXCEPT !.profile = LocalProfile, !.s2s_token = "secret", !.iap_audience = Unset],
     [PlainEnv EXCEPT !.profile = LocalProfile, !.review_url = Emptied],
     [PlainEnv EXCEPT !.profile = "onprem", !.insecure_demo = TRUE]}

SmallEnvs == ProfileEnvs \cup OddEnvs

\* A table with some ports rebound under one profile.
Rebound(ports, profile, family) ==
    [port \in Ports |-> [p \in KnownProfiles |->
        IF port \in ports /\ p = profile THEN <<port, family>> ELSE <<port, p>>]]

Mapping(tables) == [state |-> "mapping", table |-> tables]

SmallText ==
    [shipped |-> Mapping({}),
     missing |-> [state |-> "missing", table |-> {}],
     malformed |-> [state |-> "malformed", table |-> {}],
     ported |-> Mapping({[Rebound(DataPorts, "gcp", "client")
                             EXCEPT !["warehouse"][LocalProfile] = <<"warehouse", "gcp">>]}),
     verifying |-> Mapping({[Rebound(DataPorts, "gcp", "onprem")
                                EXCEPT !["identity"][LocalProfile] = <<"identity", "gcp">>]}),
     own |-> Mapping({[Rebound(DataPorts \cup {"audit", "identity"}, "onprem", "client")
                          EXCEPT !["identity"]["gcp"] = <<"identity", LocalProfile>>]}),
     odd |-> Mapping({[Rebound({"identity"}, "onprem", "undeclared")
                          EXCEPT !["identity"]["gcp"] = <<"identity", "unimportable">>]}),
     partial |-> Mapping({[port \in Ports \ {"tracer"} |-> DefaultBindings[port]]})]
SmallFiles == DOMAIN SmallText

Written(id, severity) ==
    [id |-> id, column |-> "c", rule_type |-> "validity", severity |-> severity,
     params_is_mapping |-> TRUE]

PackFile(d, rules) ==
    [is_mapping |-> TRUE, dataset_id |-> d, rules_is_list |-> TRUE, sla_is_number |-> TRUE,
     rules |-> rules]

Packs(files) == [exists |-> TRUE, files |-> files]

SmallPacks ==
    [mixed |-> Packs(<<PackFile("d", {Written("r", NoName)}), PackFile("e", {Written("r", "low")}),
                       PackFile("e", {})>>),
     damaged |-> Packs(<<PackFile("d", {Written("r", "high")}),
                         PackFile("e", {Written("r", "odd")})>>),
     absent |-> [exists |-> FALSE, files |-> <<>>]]
SmallDirs == DOMAIN SmallPacks

Request(route, peer) ==
    [route |-> route, peer |-> peer, persona |-> "absent", standard |-> "absent",
     portal |-> "absent", bearer |-> "none", dataset |-> "d"]

Peers == {"loopback", "proxied", "remote"}

SmallRequests ==
    {Request(r, p) : r \in {"certify", "personas", "ping"}, p \in Peers}
    \cup {Request(r, "loopback") : r \in {"health", "status", "docs"}}
    \cup {[Request("certify", "loopback") EXCEPT !.persona = "seeded", !.dataset = "e"]}
    \cup {[Request("ping", "loopback") EXCEPT !.bearer = b] : b \in {"secret", "signed"}}
    \cup {[Request("certify", p) EXCEPT !.persona = h] :
            p \in {"loopback", "remote"}, h \in {"seeded", "unknown"}}
    \cup {[Request("certify", "remote") EXCEPT !.standard = h[1], !.portal = h[2]] :
            h \in {<<"good", "absent">>, <<"blank", "good">>, <<"unsigned", "good">>,
                   <<"absent", "foreign">>}}
=============================================================================
