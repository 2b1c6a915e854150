---------------------------- MODULE MCProperties ----------------------------
\* The tree of dz: the level axis with the kit machinery under its kit rung, the
\* verbs, two tools of core, one of which the virtual kit f renames, and a tool whose
\* namespace has no kit.
EXTENDS Properties

CONSTANTS
    Spellings,  \* the paths the commands are given, by name
    EmptyText   \* the empty string

W(w) == <<w>>
MCMounts == (<<":", ".", "meta", ":", "level">> :> "levels")
         @@ (<<":", ".", "meta", ":", "level", ":", "kit">> :> "presence")
         @@ (<<":", ".", "meta", ":", "verb", ":", "management">> :> "lifecycle")
Nothing == [x \in {} |-> x]
MCKids == [o \in Objects |-> IF o = "presence" THEN "visibility" :> "shown"
                             ELSE IF o = "lifecycle" THEN "loading" :> "loads" ELSE Nothing]
MCRungs == [o \in Objects |-> CASE o = "levels" -> ("tool" :> -2) @@ ("kit" :> -1)
                                [] o = "loads" -> ("attach" :> 1) @@ ("detach" :> 0)
                                [] OTHER -> Nothing]
MCAliases == (<<":", ".", "level">> :> <<":", ".", "meta", ":", "level">>)
          @@ (<<":", ".", "kit">> :> <<":", ".", "meta", ":", "level", ":", "kit">>)
MCKits == <<[name |-> "core", virtual |-> FALSE, rewrites |-> Nothing],
            [name |-> "f", virtual |-> TRUE, rewrites |-> <<"core", ":", "rm">> :> "rm"]>>
MCTools == <<[fqcn |-> <<"core", ":", "rm">>, ns |-> "core", version |-> None],
             [fqcn |-> <<"core", ":", "find">>, ns |-> "core", version |-> "1"],
             [fqcn |-> <<"my", ":", "find">>, ns |-> "my", version |-> None]>>
MCDashed == "f" :> ("rm" :> "f-rm")
MCRankOf == ("-1" :> -1) @@ ("-2" :> -2) @@ ("0" :> 0) @@ ("1" :> 1)

Verbosity(n) == n \o <<".", "channels", ".", "verbosity">>
Config == <<":", ".", "meta", ":", "config", ".">>
AllTexts ==
    ("note" :> <<":", ".", "note">>) @@ ("dznote" :> <<"dz", ".", "note">>)
    @@ ("key" :> <<".", "note", ":", "KEY">>)
    @@ ("kit" :> Verbosity(<<":", ".", "kit">>)) @@ ("rank" :> Verbosity(<<":", ".", "level", ":", "-1">>))
    @@ ("rung" :> Verbosity(<<":", ".", "meta", ":", "level", ":", "kit">>))
    @@ ("core" :> Verbosity(<<":", "core">>)) @@ ("find" :> Verbosity(<<":", "core", ":", "find">>))
    @@ ("level" :> <<":", ".", "level">>)
    @@ ("there" :> Config \o W("hidden")) @@ ("absent" :> Config \o W("tree"))
    @@ ("named" :> W("dazzlecmd") \o Config \o W("tree"))
    @@ ("version" :> <<":", "core", ":", "find", ".", "version">>)
    @@ ("noversion" :> <<":", "core", ":", "rm", ".", "version">>)
    @@ ("mylevel" :> <<":", "my", ".", "level">>)
    @@ ("relation" :> <<":", "core", ":", "rm", ":", ".", "alias", ":", "f-rm", ".", "note">>)
    @@ ("view" :> <<":", "core", ":", "f", ":", "rm", ".", "note">>)
    @@ ("dashed" :> <<":", "core", ":", "f", ":", "f-rm", ".", "note">>)
    @@ ("up" :> <<":", ".", "meta", ":", "level", ":", "kit", ":+", "tool">>)
MCTexts == {AllTexts[s] : s \in Spellings}
\* Each command with the values that make a difference to it.
Quiet == [kind |-> "q", is |-> 3]
Null == [kind |-> "json", is |-> "null"]
MCTokens == [c \in Commands |->
               CASE c = "upsert" -> {Quiet}
                 [] c = "add" -> {[kind |-> "word", is |-> "loud"]}
                 [] c = "set" -> {Null}
                 [] c = "assign" -> {[kind |-> "empty", is |-> EmptyText]}
                 [] OTHER -> {None}]
MCNamed == "loud" :> 2
MCValueAliases == <<"dz", ":", ".", "level">> :> <<"dz", ".", "level">>
MCValid == <<"dz", ".", "level">> :> {2}
MCDefaults == <<"dz", ".", "level">> :> 2
MCReadonly == {ConfigDoor}

\* The tree is the same in every state.
Changing == <<file, config, job, jobs, older>>

Symmetry == Permutations(Procs)
=============================================================================
