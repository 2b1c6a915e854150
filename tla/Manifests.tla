----------------------------- MODULE Manifests -----------------------------
(* The blocks of a tool's manifest and what is computed from them without    *)
(* looking at the machine: deep merge, the branch of the host, the template  *)
(* variables, the schema version and the effective setup block.  Translated   *)
(* from platform_resolve.py, templates.py, schema_version.py and              *)
(* setup_resolve.py.                                                          *)
(*                                                                            *)
(* A block is a function from field names to values.  A value is a record     *)
(* that says what it is: a string, a string that is a reference {{name}}, a   *)
(* nested block, a list, or null.  A string is a name: only the reference in  *)
(* it matters here.  Nesting is bounded (platforms, os, subtype and one block  *)
(* below; prefer, entry, detect_when, all, condition): every recursive         *)
(* function of the code is its one level, given what to do one level below.   *)
EXTENDS Naturals, Sequences

CONSTANT MaxDepth    \* MAX_SUBSTITUTION_DEPTH: names in one chain of references

ASSUME MaxDepthIsPositive == MaxDepth \in Nat \ {0}

Str(s)  == [is |-> "str", text |-> s]
Var(n)  == [is |-> "var", name |-> n]
Dict(f) == [is |-> "dict", at |-> f]
List(s) == [is |-> "list", items |-> s]
Null    == [is |-> "null"]
Empty   == [k \in {} |-> Null]

Has(b, k)    == k \in DOMAIN b /\ b[k] # Null
IsDict(v)    == v.is = "dict"
HasDict(b, k) == k \in DOMAIN b /\ IsDict(b[k])
Without(b, ks) == [k \in DOMAIN b \ ks |-> b[k]]

---------------------------------------------------------------------------
(* deep_merge *)

MergeWith(Below(_, _), a, b) ==
  [k \in (DOMAIN a \cup DOMAIN b) \ {k \in DOMAIN b : b[k] = Null} |->
     CASE k \notin DOMAIN b -> a[k]
       [] HasDict(a, k) /\ HasDict(b, k) -> Dict(Below(a[k].at, b[k].at))
       [] OTHER -> b[k]]

Merge1(a, b)    == MergeWith(LAMBDA x, y : y, a, b)
Merge2(a, b)    == MergeWith(Merge1, a, b)
Merge3(a, b)    == MergeWith(Merge2, a, b)
Merge4(a, b)    == MergeWith(Merge3, a, b)
DeepMerge(a, b) == MergeWith(Merge4, a, b)

---------------------------------------------------------------------------
(* platforms.<os>.<subtype> *)

\* Dict-valued keys of an os block are subtypes, except the metadata keys.
Metadata == {"vars", "schema"}
Subtypes(osBlock) == {k \in DOMAIN osBlock : IsDict(osBlock[k])} \ Metadata
TopLevel(osBlock) == Without(osBlock, Subtypes(osBlock))

Branch(osBlock, host) ==
  CASE host.subtype \in Subtypes(osBlock) -> osBlock[host.subtype].at
    [] host.subtype \notin Subtypes(osBlock) /\ "general" \in Subtypes(osBlock)
         -> osBlock["general"].at
    [] OTHER -> Empty

\* The branch over the base, without the fields of the os above it.
PlatformSkipsOs(base, platforms, host) ==
  IF HasDict(platforms, host.os)
  THEN DeepMerge(base, Branch(platforms[host.os].at, host))
  ELSE base
ResolvePlatform(base, platforms, host) ==
  IF HasDict(platforms, host.os)
  THEN LET osBlock == platforms[host.os].at
       IN DeepMerge(DeepMerge(base, TopLevel(osBlock)), Branch(osBlock, host))
  ELSE base

ForHost(block, host) ==
  ResolvePlatform(Without(block, {"platforms"}),
                  IF HasDict(block, "platforms") THEN block["platforms"].at ELSE Empty,
                  host)

---------------------------------------------------------------------------
(* What platform_detect finds, from what the machine reports. *)

WindowsSubtype(probe) ==
  CASE probe.build >= 22000 -> "win11"
    [] probe.build \in 10240..21999 -> "win10"
    [] probe.build < 10240 /\ probe.release = "11" -> "win11"
    [] probe.build < 10240 /\ probe.release = "10" -> "win10"
    [] OTHER -> "none"

Host(probe) ==
  CASE probe.system = "Linux"   -> [os |-> "linux", subtype |-> probe.release]
    [] probe.system = "Windows" -> [os |-> "windows", subtype |-> WindowsSubtype(probe)]
    [] probe.system = "Darwin"  -> [os |-> "macos", subtype |-> probe.release]
    [] probe.system = "FreeBSD" -> [os |-> "bsd", subtype |-> "freebsd"]
    [] OTHER -> [os |-> "other", subtype |-> "none"]

---------------------------------------------------------------------------
(* Template variables *)

RefsWith(Below(_), v) ==
  CASE v.is = "var"  -> {v.name}
    [] v.is = "dict" -> UNION {Below(v.at[k]) : k \in DOMAIN v.at \ {"schema"}}
    [] v.is = "list" -> UNION {Below(v.items[i]) : i \in DOMAIN v.items}
    [] OTHER -> {}
Refs1(v) == RefsWith(LAMBDA x : {}, v)
Refs2(v) == RefsWith(Refs1, v)
Refs3(v) == RefsWith(Refs2, v)
Refs4(v) == RefsWith(Refs3, v)
Refs5(v) == RefsWith(Refs4, v)
Refs6(v) == RefsWith(Refs5, v)
Refs(block) == RefsWith(Refs6, Dict(block))

\* The n-th value met when `name` is followed through vars; Null when a name
\* of the chain is not declared.
Followed(vars, name) ==
  LET At[n \in 0..MaxDepth] ==
        IF n = 0 THEN Var(name)
        ELSE CASE At[n - 1].is # "var" -> At[n - 1]
               [] At[n - 1].is = "var" /\ At[n - 1].name \in DOMAIN vars -> vars[At[n - 1].name]
               [] OTHER -> Null
  IN At[MaxDepth]

\* A cycle never reaches a string, and neither does a chain of more than
\* MaxDepth names: both raise, like a name nobody declares.
Resolvable(vars, name) == Followed(vars, name).is = "str"

SubstWith(Below(_), vars, v) ==
  CASE v.is = "var"  -> Followed(vars, v.name)
    [] v.is = "dict" -> Dict([k \in DOMAIN v.at |->
                                IF k = "schema" THEN v.at[k] ELSE Below(v.at[k])])
    [] v.is = "list" -> List([i \in DOMAIN v.items |-> Below(v.items[i])])
    [] OTHER -> v
Subst1(vars, v) == SubstWith(LAMBDA x : x, vars, v)
Subst2(vars, v) == SubstWith(LAMBDA x : Subst1(vars, x), vars, v)
Subst3(vars, v) == SubstWith(LAMBDA x : Subst2(vars, x), vars, v)
Subst4(vars, v) == SubstWith(LAMBDA x : Subst3(vars, x), vars, v)
Subst5(vars, v) == SubstWith(LAMBDA x : Subst4(vars, x), vars, v)
Subst6(vars, v) == SubstWith(LAMBDA x : Subst5(vars, x), vars, v)
Subst(vars, block) == SubstWith(LAMBDA x : Subst6(vars, x), vars, Dict(block)).at

\* The variables a block sees: its own, then those of the manifest's top.
Scope(block, manifestVars) ==
  LET own == IF HasDict(block, "vars") THEN block["vars"].at ELSE Empty
  IN [n \in DOMAIN own \cup DOMAIN manifestVars |->
        IF n \in DOMAIN own THEN own[n] ELSE manifestVars[n]]

\* The block without its variables: only a nested block of that name is taken out.
Stripped(block) == IF HasDict(block, "vars") THEN Without(block, {"vars"}) ELSE block

Unresolved(block, manifestVars) ==
  \E n \in Refs(Stripped(block)) : ~Resolvable(Scope(block, manifestVars), n)

Substituted(block, manifestVars) ==
  Subst(Scope(block, manifestVars), Stripped(block))

---------------------------------------------------------------------------
(* Schema version and user override *)

Supported(block) == Has(block, "schema") => block["schema"] = Str("1")

\* What is at <overrides>/<layer>/<fqcn>.json: nothing, a file that is not a JSON
\* object or cannot be read, or a block.
NoFile  == [is |-> "absent"]
BadFile == [is |-> "bad"]
OverrideRaises(file) == file = BadFile \/ (IsDict(file) /\ ~Supported(file.at))
Overridden(block, file) == IF IsDict(file) THEN DeepMerge(block, file.at) ELSE block

---------------------------------------------------------------------------
(* resolve_setup_block *)

BothWays(block) == Has(block, "command") /\ Has(block, "script")

\* platforms.<os> may be a plain string: the command.
Normalized(platforms) ==
  [os \in DOMAIN platforms |->
     IF platforms[os].is \in {"str", "var"} THEN Dict([command |-> platforms[os]])
     ELSE platforms[os]]

NormalSetup(setup) ==
  IF HasDict(setup, "platforms")
  THEN [setup EXCEPT !["platforms"] = Dict(Normalized(@.at))]
  ELSE setup

SetupInvalid(setup) ==
  \/ BothWays(setup)
  \/ /\ HasDict(setup, "platforms")
     /\ LET p == NormalSetup(setup)["platforms"].at
        IN \E os \in DOMAIN p : IsDict(p[os]) /\ BothWays(p[os].at)

SetupRaises(setup, file, manifestVars, host) ==
  \/ OverrideRaises(file)
  \/ LET s == Overridden(setup, file)
     IN \/ ~Supported(s) \/ SetupInvalid(s)
        \/ Unresolved(ForHost(NormalSetup(s), host), manifestVars)

SetupBlock(setup, file, manifestVars, host) ==
  Substituted(ForHost(NormalSetup(Overridden(setup, file)), host), manifestVars)
=============================================================================
