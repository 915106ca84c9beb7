----------------------------- MODULE RulePacks -----------------------------
(***************************************************************************)
(* Rule packs: YAML files of a directory, parsed on every request into one *)
(* pack per dataset (rulepacks.py, domain/rulepack_loader.py). As in       *)
(* Settings, a read that raises is the empty set.                          *)
(*                                                                         *)
(* A file is what yaml makes of it: whether it is a mapping, the dataset   *)
(* it names (or NoName), whether "rules" is a list and sla_hours a number, *)
(* and the set of rules it writes. File names are numbers in sorted order. *)
(***************************************************************************)
EXTENDS Settings

NoName == "no name"
RuleTypes == {"completeness", "uniqueness", "validity", "referential_integrity", "timeliness"}
RuleSeverities == {"low", "medium", "high", "critical"}

\* One rule of a file. A missing severity is medium; anything else must be named and known.
ParseRule(raw) ==
    {[id |-> raw.id, column |-> raw.column, rule_type |-> raw.rule_type, severity |-> s] :
        s \in {t \in {IF raw.severity = NoName THEN "medium" ELSE raw.severity} :
                   /\ raw.id # NoName /\ raw.column # NoName /\ raw.params_is_mapping
                   /\ raw.rule_type \in RuleTypes /\ t \in RuleSeverities}}

\* One file. A pack without rules is a pack; a rule that does not parse refuses the file.
ParsePack(raw) ==
    IF /\ raw.is_mapping /\ raw.dataset_id # NoName /\ raw.rules_is_list /\ raw.sla_is_number
       /\ \A r \in raw.rules : ParseRule(r) # {}
    THEN {[dataset_id |-> raw.dataset_id, rules |-> UNION {ParseRule(r) : r \in raw.rules}]}
    ELSE {}

\* The directory, or nothing where a named one is missing: only the default may be.
ResolveDir(env, dir) ==
    IF env.rulepack_dir = Emptied \/ (env.rulepack_dir # Unset /\ ~dir.exists) THEN {} ELSE {dir}

\* Every file must parse. Of two files for one dataset, the later name wins.
LoadRulepacks(env, dir) ==
    LET files == IF dir.exists THEN DOMAIN dir.files ELSE {}
        Named(d) == {f \in files : dir.files[f].dataset_id = d}
        Winner(d) == CHOOSE f \in Named(d) : \A g \in Named(d) : g <= f
        datasets == {dir.files[f].dataset_id : f \in files}
    IN IF ResolveDir(env, dir) = {} \/ \E f \in files : ParsePack(dir.files[f]) = {} THEN {}
       ELSE {[d \in datasets |-> CHOOSE p \in ParsePack(dir.files[Winner(d)]) : TRUE]}
=============================================================================
