----------------------------- MODULE Properties -----------------------------
(***************************************************************************)
(* The property verbs of prop_commands.py over PropertyStore, and          *)
(* touch_canonicalize(): processes of one user that read, set, delete and  *)
(* re-home values in one properties.json.                                  *)
(*                                                                         *)
(* set() goes through ConfigManager.write(), which reads the file again    *)
(* and merges; delete() goes through replace() with a copy of the cached   *)
(* read. Either way the file is replaced as a whole: between the reading   *)
(* and the replacing other processes may change it. A file that cannot be  *)
(* opened, or is no JSON object, is taken for an empty one by both reads.  *)
(***************************************************************************)
EXTENDS FiberTree

CONSTANTS
    Procs,
    ValueAliases,     \* [keys -> keys]: NODE_VALUE_ALIASES
    Valid,            \* [keys -> sets of values]: VALIDATED_KEYS
    Defaults,         \* [keys -> values]: KEY_DEFAULTS
    ReadonlyFamilies, \* READONLY_FAMILIES
    NamedRanks,       \* [words -> numbers]
    ConfigEntries,    \* keys that config.json may have
    Texts,            \* the paths the commands are given
    Tokens,           \* [commands -> sets]: the values they are given
    MaxJobs           \* bound on the commands, the failing reads and the changes of config.json

ASSUME PropertiesAssumption == MaxJobs \in Nat

Writes == {"set", "add", "upsert", "assign"}
Commands == Writes \cup {"get", "delete", "touch"}

VARIABLES
    file,    \* properties.json, [keys -> values]
    config,  \* the keys of config.json
    job,     \* [Procs]: the command in progress
    jobs,    \* how many there were
    older    \* history: whose look at the file, or whose copy of it, is not what is in it

vars == <<tree, file, config, job, jobs, older>>

\* cache is ConfigManager._cache, <<>> if empty, else a file; mem is what the next
\* replacement will write; to is where touch moves the value of key.
Idle == [pc |-> "idle", cmd |-> "get", key |-> <<>>, to |-> <<>>, value |-> None,
         cache |-> <<>>, mem |-> <<>>, answer |-> "none"]

Init == /\ tree = Built
        /\ file = <<>> /\ config = {}
        /\ job = [p \in Procs |-> Idle] /\ jobs = 0 /\ older = {}

Stored(f, k) == IF k \in DOMAIN f THEN f[k] ELSE None
Without(f, k) == [j \in DOMAIN f \ {k} |-> f[j]]
With(f, k, v) == [j \in {k} \cup DOMAIN f |-> IF j = k THEN v ELSE f[j]]

\* key_in_family(): a family ends at an operator.
InFamily(k, family) == Extends(k, family)

-----------------------------------------------------------------------------
(* Values: parse_property_value(). null is a value, and stored; a reader    *)
(* takes it for nothing.                                                    *)

Parses(token) == token.kind # "empty"
Parsed(token) ==
    CASE token.kind = "v" -> token.is
      [] token.kind = "q" -> 0 - token.is
      [] token.kind = "word" /\ token.is \in DOMAIN NamedRanks -> NamedRanks[token.is]
      [] token.kind = "json" /\ token.is = "null" -> None
      [] OTHER -> token.is

-----------------------------------------------------------------------------
(* Reads that are not the store's *)

Dot(k) == CHOOSE i \in DOMAIN k : k[i] = "." /\ \A j \in 1..i - 1 : k[j] # "."
HasDot(k) == "." \in Range(k)
NodePart(k) == SubSeq(k, 1, Dot(k) - 1)
Prop(k) == SubSeq(k, Dot(k) + 1, Len(k))

ToolAt(n) == {ToolSeq[i] : i \in {j \in DOMAIN ToolSeq : Own(ToolSeq[j].fqcn) = n}}
KitAt(n) == {KitSeq[i] : i \in {j \in DOMAIN KitSeq : Sub(Top, KitSeq[j].name) = n}}

\* derived_instance_read(): level, help and version of a tool or a kit, and the level of
\* a namespace that has no kit.
InstanceField(k) ==
    IF ~HasDot(k) THEN None
    ELSE LET n == Resolve(NodePart(k)) IN
         CASE NodePart(k) = Top -> None
           [] Prop(k) = <<"level">> /\ n \in Namespaces \ Machinery -> "derived"
           [] Prop(k) \in {<<"level">>, <<"help">>} /\ ToolAt(n) \cup KitAt(n) # {} -> "derived"
           [] Prop(k) = <<"version">> /\ (\E t \in ToolAt(n) : t.version # None) -> "derived"
           [] OTHER -> None

\* derived_config_read(): what config.json has under a name now.
ConfigField(k, entries) ==
    IF IsPrefix(ConfigDoor \o <<".">>, k)
       /\ SubSeq(k, Len(ConfigDoor) + 2, Len(k)) \in {<<e>> : e \in entries}
    THEN "derived" ELSE None

Derived(k) == InstanceField(k) # None \/ ConfigField(k, config) # None

\* counterpart_read(): the other address of one and the same alias.
\* Mutant: the views are known to the relation only.
CounterpartsOneWay(n) == {ViewLeaf(r) : r \in {q \in Projected : n = Leaf(q)}}
Counterparts(n) ==
    UNION {{Leaf(r), ViewLeaf(r)} \ {n} : r \in {q \in Projected : n \in {Leaf(q), ViewLeaf(q)}}}
\* A dashed spelling is forgiven below the kit's view.
DashedView(r) == Sub(View(r), Dashed[Spelling(r)[1]][Spelling(r)[2]])
NodeMeant(n) ==
    LET k == Resolve(n)
        kin == {r \in Projected : k = DashedView(r)} IN
    IF k \notin Nodes /\ Cardinality({ViewLeaf(r) : r \in kin}) = 1
    THEN ViewLeaf(CHOOSE r \in kin : TRUE) ELSE k
FoundElsewhere(f, k) ==
    /\ HasDot(k) /\ NodePart(k) # Top /\ NodeMeant(NodePart(k)) \in Nodes
    /\ \E n \in {NodeMeant(NodePart(k))} \cup Counterparts(NodeMeant(NodePart(k))) :
         Stored(f, n \o <<".">> \o Prop(k)) # None

\* plane_confusion_hint(): a property of the root that has a child's name.
Confused(k) == HasDot(k) /\ NodePart(k) = Top /\ Top \o <<":">> \o First(Prop(k)) \in Nodes

-----------------------------------------------------------------------------
(* A command: its key, what it reads, what it refuses *)

\* _canonical(): the forgiven spelling, then the alias of a node's value.
Key(text) == LET k == Canonical(text) IN IF k \in DOMAIN ValueAliases THEN ValueAliases[k] ELSE k

\* _write()'s refusals, in their order.
\* Mutant: the derived read alone guards the file's families.
RefusedDerivedOnly(k, v) == Derived(k) \/ (k \in DOMAIN Valid /\ v \notin Valid[k])
Refused(k, v) ==
    \/ \E family \in ReadonlyFamilies : InFamily(k, family)
    \/ Derived(k)
    \/ k \in DOMAIN Valid /\ v \notin Valid[k]

Wanted(cmd, f, k) == CASE cmd = "set" -> Stored(f, k) # None
                       [] cmd = "add" -> Stored(f, k) = None
                       [] OTHER -> TRUE

\* cmd_get()'s tiers.
Answer(f, k) ==
    IF Derived(k) THEN "derived"
    ELSE IF Stored(f, k) # None THEN "stored"
    ELSE IF k \in DOMAIN Defaults THEN "default"
    ELSE IF FoundElsewhere(f, k) THEN "counterpart"
    ELSE IF Resolve(k) \in Nodes \/ Confused(k) THEN "hint" ELSE "not set"

Sets(p, j) == job' = [job EXCEPT ![p] = j] /\ UNCHANGED tree
Done(p) == Sets(p, Idle) /\ older' = older \ ({p} \X {"look", "copy"})

Start(p, cmd, text, token) ==
    /\ job[p].pc = "idle" /\ jobs < MaxJobs /\ jobs' = jobs + 1
    /\ LET key == IF cmd = "touch" THEN text ELSE Key(text) IN
         /\ key # <<>>
         /\ Sets(p, [Idle EXCEPT !.pc = "look", !.cmd = cmd, !.key = key, !.value = token,
                                 !.to = IF cmd = "touch" THEN Resolve(text) ELSE <<>>])
    /\ UNCHANGED <<file, config, older>>

\* read(): the file is read once and kept.
Look(p) ==
    /\ job[p].pc = "look"
    /\ Sets(p, [job[p] EXCEPT !.pc = "decide", !.cache = <<file>>])
    /\ UNCHANGED <<file, config, jobs, older>>

\* A file that cannot be read is cached as an empty one.
LookFails(p) ==
    /\ job[p].pc = "look" /\ file # <<>> /\ jobs < MaxJobs /\ jobs' = jobs + 1
    /\ Sets(p, [job[p] EXCEPT !.pc = "decide", !.cache = <<<<>>>>])
    /\ older' = older \cup {<<p, "look">>}
    /\ UNCHANGED <<file, config>>

Deciding(p, cmds) == job[p].pc = "decide" /\ job[p].cmd \in cmds
Seen(p) == job[p].cache[1]

Gets(p) ==
    /\ Deciding(p, {"get"})
    /\ Sets(p, [job[p] EXCEPT !.pc = "told", !.answer = Answer(Seen(p), job[p].key)])
    /\ UNCHANGED <<file, config, jobs, older>>

\* A write that is wanted and not refused goes on to write(); its cache stays.
Decides(p) ==
    /\ Deciding(p, Writes)
    /\ LET j == job[p] v == Parsed(j.value) IN
         IF /\ Parses(j.value) \/ j.cmd = "assign"
            /\ Wanted(j.cmd, Seen(p), j.key) /\ ~Refused(j.key, v)
         THEN Sets(p, [j EXCEPT !.pc = "write", !.value = v]) /\ UNCHANGED older
         ELSE Done(p)
    /\ UNCHANGED <<file, config, jobs>>

\* delete(): the copy without the key.
Deletes(p) ==
    /\ Deciding(p, {"delete"})
    /\ IF job[p].key \in DOMAIN Seen(p)
       THEN Sets(p, [job[p] EXCEPT !.pc = "replace", !.mem = Without(Seen(p), job[p].key)])
            /\ UNCHANGED older
       ELSE Done(p)
    /\ UNCHANGED <<file, config, jobs>>

\* touch_canonicalize(): move the value if the node has none, then delete the old one.
Touches(p) ==
    /\ Deciding(p, {"touch"})
    /\ LET j == job[p] old == Stored(Seen(p), j.key) IN
         IF j.to = j.key \/ old = None THEN Done(p)
         ELSE /\ Sets(p, IF Stored(Seen(p), j.to) = None
                         THEN [j EXCEPT !.pc = "write", !.value = old]
                         ELSE [j EXCEPT !.pc = "replace", !.mem = Without(Seen(p), j.key)])
              /\ UNCHANGED older
    /\ UNCHANGED <<file, config, jobs>>

-----------------------------------------------------------------------------
(* ConfigManager: write() reads the file again; _atomic_write() empties the *)
(* cache                                                                    *)

Target(j) == IF j.cmd = "touch" /\ j.pc # "replace" THEN j.to ELSE j.key

Load(p) ==
    /\ job[p].pc = "write"
    /\ LET j == job[p] IN
         Sets(p, [j EXCEPT !.pc = "merged", !.mem = With(file, Target(j), j.value)])
    /\ UNCHANGED <<file, config, jobs, older>>

\* The second reading fails: what is written is this key alone.
LoadFails(p) ==
    /\ job[p].pc = "write" /\ file # <<>> /\ jobs < MaxJobs /\ jobs' = jobs + 1
    /\ LET j == job[p] IN
         Sets(p, [j EXCEPT !.pc = "merged", !.mem = With(<<>>, Target(j), j.value)])
    /\ older' = older \cup {<<p, "copy">>}
    /\ UNCHANGED <<file, config>>

\* A look counts to the end of its command; it is the copy of delete and of touch.
Looked(q) == job[q].pc \in {"decide", "write", "merged", "replace", "again"}
Copied(q) == job[q].pc = "merged" \/ (Looked(q) /\ job[q].cmd \in {"delete", "touch"})
Outdated(p) == {<<q, "look">> : q \in {r \in Procs \ {p} : Looked(r)}}
                 \cup {<<q, "copy">> : q \in {r \in Procs \ {p} : Copied(r)}}
Ages(p, over) == older' = (older \cup Outdated(p)) \ (IF over THEN {p} \X {"look", "copy"} ELSE {})

\* After its set touch looks again: its cache is empty.
TouchGoesOn(p) == job[p].cmd = "touch" /\ job[p].pc = "merged"
\* Mutant: the cache is kept over the write.
ReplaceKeepsCache(p) ==
    /\ job[p].pc \in {"merged", "replace"}
    /\ file' = job[p].mem /\ Ages(p, ~TouchGoesOn(p))
    /\ Sets(p, IF TouchGoesOn(p)
               THEN [job[p] EXCEPT !.pc = "replace", !.mem = Without(Seen(p), job[p].key)]
               ELSE Idle)
    /\ UNCHANGED <<config, jobs>>
Replace(p) ==
    /\ job[p].pc \in {"merged", "replace"}
    /\ file' = job[p].mem /\ Ages(p, ~TouchGoesOn(p))
    /\ Sets(p, IF TouchGoesOn(p)
               THEN [job[p] EXCEPT !.pc = "again", !.cache = <<>>, !.mem = <<>>] ELSE Idle)
    /\ UNCHANGED <<config, jobs>>

\* delete() of the old spelling, from a fresh read.
Again(p) ==
    /\ job[p].pc = "again"
    /\ IF job[p].key \in DOMAIN file
       THEN Sets(p, [job[p] EXCEPT !.pc = "replace", !.cache = <<file>>,
                                   !.mem = Without(file, job[p].key)]) /\ UNCHANGED older
       ELSE Done(p)
    /\ UNCHANGED <<file, config, jobs>>

\* A command told its answer; it is killed, or replacing the file fails, or its second
\* look (Again) finds a file it cannot read.
Leaves(p) == job[p].pc # "idle" /\ Done(p) /\ UNCHANGED <<file, config, jobs>>

\* Another command writes config.json, or the user's editor.
Configure(e) ==
    /\ jobs < MaxJobs /\ jobs' = jobs + 1
    /\ config' = IF e \in config THEN config \ {e} ELSE config \cup {e}
    /\ UNCHANGED <<tree, file, job, older>>

Step(p) == Look(p) \/ LookFails(p) \/ Gets(p) \/ Decides(p) \/ Deletes(p) \/ Touches(p)
             \/ Load(p) \/ LoadFails(p) \/ Replace(p) \/ Again(p) \/ Leaves(p)

\* touch is given a key of the store, the others what the user typed.
Next == \/ \E p \in Procs, c \in Commands : \E t \in Texts, v \in Tokens[c] :
             Start(p, c, IF c = "touch" THEN Canonical(t) ELSE t, v)
        \/ \E p \in Procs : Step(p)
        \/ \E e \in ConfigEntries : Configure(e)

Spec == Init /\ [][Next]_vars

-----------------------------------------------------------------------------
(* Properties *)

\* What is stored is stored under the one canonical spelling of a property's path. No verb
\* writes in a family whose truth is in a file, whether or not the file has the key when
\* the command looks (prop_commands.py, _canonical() and register_readonly_family()). Only
\* touch may bring a key into one: from the root's other spelling, which the test of the
\* families takes literally and so lets through.
TypeOK ==
    /\ \A k \in DOMAIN file : Canonical(k) = k /\ HasDot(k)
    /\ \A p \in Procs : job[p].pc \in {"write", "merged"} /\ job[p].cmd # "touch" =>
          \A family \in ReadonlyFamilies : ~InFamily(job[p].key, family)
    /\ config \subseteq ConfigEntries /\ jobs \in 0..MaxJobs
    /\ older \subseteq Procs \X {"look", "copy"}
    /\ \A p \in Procs : job[p].cmd \in Commands

\* instance_plane.py, counterpart_read(): a value set at an alias relation is told at the
\* views of that alias too, in their plain and in their dashed spelling. Not the other
\* way round, though counterpart_keys() joins "both ways": the name of a relation has a
\* dot of its own, at which the key of a value read there is cut.
Note(n) == n \o <<".", "note">>
RelationTold ==
    \A r \in Projected : Stored(file, Note(Leaf(r))) # None =>
        \A n \in {ViewLeaf(r), DashedView(r)} : Answer(file, Note(n)) \in {"stored", "counterpart"}

\* A command changes nothing but its own key; touch keeps the value under one of its
\* spellings, wherever it is killed, and never changes the node's own. add makes a key
\* and set changes one that is there. Only a command that overlaps another one's
\* writing may break this, or one whose reading of the file failed: a value is lost to a
\* copy that is out of date or empty.
Writes1(p) == job'[p] # job[p] /\ job[p].pc \in {"merged", "replace"} /\ file' # file
LossHasCause ==
    [][\A p \in Procs : Writes1(p) =>
         LET j == job[p] IN
         /\ <<p, "copy">> \notin older =>
              /\ \A k \in DOMAIN file \ {j.key, j.to} : Stored(file', k) = file[k]
              /\ j.cmd = "touch" =>
                   /\ Stored(file, j.key) # None =>
                        Stored(file', j.key) # None \/ Stored(file', j.to) # None
                   /\ Stored(file, j.to) # None => Stored(file', j.to) = file[j.to]
         /\ <<p, "look">> \notin older => Wanted(j.cmd, file, j.key)]_vars

\* fqcn_tree.py, effective_channel_verbosity(): to quiet a node quiets all that is
\* below it in the path, except in a tool that a kit gives an
\* alias, whose node has no parent in the tree.
Inside(n) == {m \in Nodes \ {n} : Extends(m, n)}
Quieted == {n \in Nodes : OwnLevel(file, n) # 0}
InATool(m) == \E t \in Aliased : Extends(m, t)
QuietCovers == \A n \in Quieted : \A m \in Inside(n) :
                 InATool(m) \/ Effective(file, m) <= OwnLevel(file, n)
=============================================================================
