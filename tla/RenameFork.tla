---------------------------- MODULE RenameFork ----------------------------
(***************************************************************************)
(* Rebranding a fork (scripts/rename_fork.py): one pass over the files of  *)
(* the tree, in sorted order, then the package directory. The script is    *)
(* one of those files: it rewrites the constants that tell it what the     *)
(* tree is called, on its way to the sources. It may be killed between two *)
(* files or while it writes one, and be run again.                         *)
(*                                                                         *)
(* A name is a sequence of words, so that one name may begin with another. *)
(* A mention of a name has a role, which is what it should be renamed as,  *)
(* and a shape, which is what the rules can see of it.                     *)
(***************************************************************************)
EXTENDS Naturals, Sequences, SequencesExt

CONSTANTS
    Upstream,   \* [Roles -> names]: what the tree is called before any rename
    Requests,   \* the names a rename may ask for: [Roles -> names] too
    MaxRenames, \* bound on the renames, one after the other
    MaxKills    \* bound on the kills

Roles == {"dist", "cli", "package", "env", "resource"}
Shapes == {"constant", "command", "bare"}

\* The script's own constants, and the files around it in the order in which they are visited.
Script == "scripts/rename_fork.py"
Files == <<"Dockerfile", "docs/guide.md", "pyproject.toml", Script, "src/package", "tests">>
Docs == {"docs/guide.md"}

\* The command's name is written where a command is written; other mentions are bare.
Mentions ==
    [f \in ToSet(Files) |->
        IF f = Script THEN {<<role, "constant">> : role \in Roles}
        ELSE {<<role, "bare">> : role \in Roles \ {"cli"}} \cup {<<"cli", "command">>}]

\* A tree whose command is spelled like its package, as upstream, and whose other names can be
\* told apart at their beginning.
Tellable(names) ==
    /\ names.cli = names.package
    /\ \A r, s \in Roles \ {"cli"} : r # s => ~IsPrefix(names[s], names[r])

ASSUME RenameAssumption ==
    /\ Upstream \in [Roles -> Seq(STRING)] /\ Tellable(Upstream)
    /\ Requests \subseteq [Roles -> Seq(STRING)]
    /\ MaxRenames \in Nat /\ MaxKills \in Nat

VARIABLES
    tree,     \* per file, the name each of its mentions carries; {} once it is torn
    dir,      \* the name of the package directory
    pc,       \* "idle", "editing" or "done"
    next,     \* how many files this run has visited
    old,      \* the constants this run was started with
    new,      \* the names it was asked for
    sweep,    \* whether it sweeps the docs
    renames,  \* how many renames were asked for
    kills,    \* how many runs were killed
    killed    \* how runs of the current rename were killed

vars == <<tree, dir, pc, next, old, new, sweep, renames, kills, killed>>

Written(names) == [f \in ToSet(Files) |-> [m \in Mentions[f] |-> names[m[1]]]]

Init ==
    /\ tree = Written(Upstream)
    /\ dir = Upstream.package
    /\ pc = "idle" /\ next = 0
    /\ old = Upstream /\ new = Upstream /\ sweep = FALSE
    /\ renames = 0 /\ kills = 0 /\ killed = {}

-----------------------------------------------------------------------------
\* One pass over one file.

\* A token is found wherever a text contains it: here, where it begins with it.
Replace(name, from, to) == to \o SubSeq(name, Len(from) + 1, Len(name))

\* The rules in the order of the alternation: what a mention becomes under the first that
\* matches. A command's name is looked for under the package's old name, and only whole.
FirstRule(m, name, was, asked) ==
    IF IsPrefix(was.dist, name) THEN Replace(name, was.dist, asked.dist)
    ELSE IF m[1] = "cli" /\ m[2] # "bare" /\ name = was.package THEN asked.cli
    ELSE IF IsPrefix(was.package, name) THEN Replace(name, was.package, asked.package)
    ELSE IF IsPrefix(was.env, name) THEN Replace(name, was.env, asked.env)
    ELSE IF IsPrefix(was.resource, name) THEN Replace(name, was.resource, asked.resource)
    ELSE name

\* Mutant of Rewrite: a second pass over the first one's output.
RewriteTwice(m, name, was, asked) == FirstRule(m, FirstRule(m, name, was, asked), was, asked)

\* Mutant of Rewrite: the bare package rule comes before the rules for the command.
RewriteBareFirst(m, name, was, asked) ==
    IF IsPrefix(was.package, name) THEN Replace(name, was.package, asked.package)
    ELSE FirstRule(m, name, was, asked)

\* One pass: no rule sees another rule's output.
Rewrite(m, name, was, asked) == FirstRule(m, name, was, asked)

\* The script reads its constants when it starts.
Begin ==
    /\ tree[Script] # <<>>
    /\ pc' = "editing" /\ next' = 0
    /\ old' = [role \in Roles |-> tree[Script][<<role, "constant">>]]

\* A rename that is asked for. A dry run, which writes nothing, is left out.
Start ==
    /\ pc = "done" \/ renames = 0
    /\ Begin
    /\ renames < MaxRenames /\ renames' = renames + 1
    /\ new' \in Requests /\ sweep' \in BOOLEAN
    /\ killed' = {}
    /\ UNCHANGED <<tree, dir, kills>>

\* The same command again, after it was killed.
Rerun ==
    /\ pc = "idle" /\ killed # {}
    /\ Begin
    /\ UNCHANGED <<tree, dir, new, sweep, renames, kills, killed>>

Edited(f) == IF f \in Docs /\ ~sweep THEN tree[f]
             ELSE [m \in DOMAIN tree[f] |-> Rewrite(m, tree[f][m], old, new)]

\* Mutant of EditFile: the script skips itself.
EditOtherFile ==
    /\ pc = "editing" /\ next < Len(Files)
    /\ next' = next + 1
    /\ tree' = IF Files[next'] = Script THEN tree
               ELSE [tree EXCEPT ![Files[next']] = Edited(Files[next'])]
    /\ UNCHANGED <<dir, pc, old, new, sweep, renames, kills, killed>>

EditFile ==
    /\ pc = "editing" /\ next < Len(Files)
    /\ next' = next + 1
    /\ tree' = [tree EXCEPT ![Files[next']] = Edited(Files[next'])]
    /\ UNCHANGED <<dir, pc, old, new, sweep, renames, kills, killed>>

\* The directory last, if there is one under the old name.
RenameDir ==
    /\ pc = "editing" /\ next = Len(Files)
    /\ pc' = "done"
    /\ dir' = IF dir = old.package THEN new.package ELSE dir
    /\ UNCHANGED <<tree, next, old, new, sweep, renames, kills, killed>>

\* Killed between two files, before or after it came to itself, or with a file half written.
Kill ==
    /\ pc = "editing" /\ kills < MaxKills
    /\ kills' = kills + 1 /\ pc' = "idle"
    /\ \/ /\ killed' = killed \cup {IF \E i \in 1 .. next : Files[i] = Script
                                    THEN "past itself" ELSE "before itself"}
          /\ UNCHANGED tree
       \/ /\ next < Len(Files) /\ Edited(Files[next + 1]) # tree[Files[next + 1]]
          /\ tree' = [tree EXCEPT ![Files[next + 1]] = <<>>]
          /\ killed' = killed \cup {"writing"}
    /\ UNCHANGED <<dir, next, old, new, sweep, renames>>

Next == Start \/ Rerun \/ EditFile \/ RenameDir \/ Kill

Spec == Init /\ [][Next]_vars
-----------------------------------------------------------------------------
\* Every mention carries the name that was asked for its role, and so does the directory.
Renamed ==
    /\ \A f \in ToSet(Files) \ (IF sweep THEN {} ELSE Docs) : tree[f] = Written(new)[f]
    /\ dir = new.package

\* No new name begins with an old one, so that nothing can be renamed twice.
Apart == \A r, s \in Roles : ~IsPrefix(Upstream[s], new[r])

\* A rename of the upstream tree keeps the command and the package apart although they are
\* spelled alike, whatever the new names share with the old or with each other
\* (rename_fork.py:111-171).
NamesAreSeparated == pc = "done" /\ renames = 1 /\ killed = {} => Renamed

\* A run that was killed before it came to its own constants can simply be run again, as often
\* as it takes. Past that point it cannot: it no longer knows what the rest of the tree is
\* called (rename_fork.py:98-108, 219-227).
RerunFinishes ==
    pc = "done" /\ renames = 1 /\ killed \subseteq {"before itself"} /\ Apart => Renamed

\* Such a fork can rename itself a second time, because the first rename rewrote the script's own
\* constants with everything else (rename_fork.py:38-46, tests/unit/test_rename_fork.py:123-127).
\* Docs that the first rename left alone keep upstream's names.
RenamesAgain ==
    pc = "done" /\ renames = 2 /\ kills = 0 /\ Tellable(old) =>
        /\ \A f \in ToSet(Files) \ Docs : tree[f] = Written(new)[f]
        /\ dir = new.package
=============================================================================
