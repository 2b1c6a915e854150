----------------------------- MODULE Discovery -----------------------------
(***************************************************************************)
(* discover(): the walk through an aggregator and the aggregators embedded *)
(* in it, reading one registration after the other while other processes   *)
(* change them (KitRegistry).                                              *)
(*                                                                         *)
(* The walk is a stack of frames, one for each call of                     *)
(* _discover_aggregator() in progress. A tool's name is the sequence of    *)
(* the kits on its way, then its namespace and its own name.               *)
(***************************************************************************)
EXTENDS KitRegistry, Sequences, SequencesExt

CONSTANTS
    Root,            \* the aggregator discover() starts from
    Order,           \* the kits in the order of their file names
    Tools,           \* names of tools
    OnDisk,          \* [Dirs -> SUBSET (Kits \X Tools)]: tools with a .dazzlecmd.json
    InKit,           \* [Dirs -> [Kits]]: those in the directory of a kit's own
    Introduced,      \* the aggregators with a description (aggregator.json)
    Layouts,         \* what the directories are, which kits are registered, the
                     \* root's configuration, how many calls the processes make
    Bases, Default,  \* names of directories of tools, and the usual one
    RealBase         \* [Dirs -> Bases]: the one an aggregator has

Refs == Kits \X Tools

Manifests == [tools : SUBSET Refs, base : Bases \cup {None}, override : Bases \cup {None}]
\* disabled_kits, active_kits, shadowed_tools, and DZ_KITS (None if not set).
Settings == [env : {None} \cup SUBSET Kits, active : SUBSET Kits, disabled : SUBSET Kits,
             shadowed : SUBSET Seq(Kits \cup Tools)]

ASSUME DiscoveryAssumption ==
    /\ Root \in Dirs /\ IsFiniteSet(Dirs) /\ None \notin Dirs
    /\ Order \in Seq(Kits) /\ \A k \in Kits : \E i \in DOMAIN Order : Order[i] = k
    /\ Default \in Bases /\ None \notin Bases /\ RealBase \in [Dirs -> Bases]
    /\ Contents \ {Broken} \subseteq
         [virtual : BOOLEAN, tools : SUBSET Refs, base : Bases \cup {None},
          override : Bases \cup {None}, named : BOOLEAN]
    /\ OnDisk \in [Dirs -> SUBSET Refs] /\ InKit \in [Dirs -> [Kits -> SUBSET Refs]]
    /\ Introduced \subseteq Dirs
    /\ \A l \in Layouts : /\ l.child \in [Dirs -> [Kits -> Dirs \cup {None}]]
                         /\ l.own \in [Dirs -> [Kits -> {None, Broken} \cup Manifests]]
                         /\ l.calls \in [Procs -> Nat]
                         /\ l.file \in [Dirs -> [Kits -> {Absent} \cup Registrations]]
                         /\ l.settings \in Settings

VARIABLES
    own,       \* [Dirs -> [Kits]]: a kit's own .kit.json, or None
    child,     \* [Dirs -> [Kits]]: the aggregator a kit's directory is, or None
    settings,  \* the keys of the configuration that discovery reads, and DZ_KITS
    stack,     \* the frames of the calls in progress
    status,    \* "none", "walking", "done", "cycle" or "failed"
    result,    \* what discover() leaves in the engine
    touched    \* history: the files that were written during the walk

walkVars == <<own, child, settings, stack, status, result, touched>>
vars == <<registryVars, walkVars>>

NoResult == [projects |-> {}, virtuals |-> {}, kits |-> {}]
Frame(d, name, base) == [dir |-> d, name |-> name, base |-> base, unread |-> Order, kits |-> {},
                   todo |-> {}, parted |-> FALSE, projects |-> {}, virtuals |-> {}]

\* child says what the directories are, file which kits are registered.
Init ==
    /\ \E l \in Layouts : own = l.own /\ child = l.child /\ file = l.file /\ calls = l.calls
                         /\ settings = l.settings
    /\ RegistryInit
    /\ stack = <<>> /\ status = "none" /\ result = NoResult /\ touched = {}

Top == stack[Len(stack)]
Depth == Len(stack) - 1
SetTop(frame) == stack' = [stack EXCEPT ![Len(stack)] = frame]
Walking == status = "walking"
\* Mutant: an aggregator may not embed itself, that is all.
OnStackTop(d) == Top.dir = d
OnStack(d) == \E i \in DOMAIN stack : stack[i].dir = d

\* Kits are gone through in the order of their file names.
First(kits) == Order[Min({i \in DOMAIN Order : Order[i] \in kits})]

-----------------------------------------------------------------------------
(* discover_kits(): a registration and the kit's own manifest *)

\* The kit's directory, when it is an aggregator; no kit has one where the
\* tools are looked for in a directory that is not there.
Inside(d, k, base) == IF base = RealBase[d] THEN child[d][k] ELSE None
Manifest(d, k, base) == IF base = RealBase[d] THEN own[d][k] ELSE None
IsBroken(content) == Readable(content) /\ content.says = Broken

\* An aggregator's own registrations, looked into from outside when it has no
\* .kit.json: one alone that bears the kit's name is the kit's manifest, of
\* others only hints are taken, the first tools_dir and the first name of a
\* manifest. Once both are known nothing is read any more.
OwnOnly(c, k) == {x \in Kits : file[c][x] # Absent} = {k} /\ Readable(file[c][k])
Physical(c, x) == Readable(file[c][x]) /\ ~IsBroken(file[c][x]) /\ ~file[c][x].says.virtual
HasBase(c, x) == Physical(c, x) /\ file[c][x].says.base # None
HasName(c, x) == Physical(c, x) /\ file[c][x].says.named
BaseInside(c) == LET having == {x \in Kits : HasBase(c, x)}
                 IN IF having = {} THEN None ELSE file[c][First(having)].says.base
Hinted(c) == c \in Introduced \/ \E x \in Kits : HasBase(c, x) \/ HasName(c, x)
LookRaises(c) == \E i \in DOMAIN Order :
    /\ IsBroken(file[c][Order[i]])
    /\ \/ \A j \in 1..(i - 1) : ~HasBase(c, Order[j])
       \/ \A j \in 1..(i - 1) : ~HasName(c, Order[j])

\* What is neither JSON nor unreadable is not expected: it raises, in a
\* registration, in a .kit.json, and where an aggregator is looked into.
\* Mutant: so does a file that another process is writing.
RaisesTorn(d, k, base) ==
    \/ file[d][k] = Torn \/ IsBroken(file[d][k])
    \/ /\ Readable(file[d][k]) /\ ~IsBroken(file[d][k]) /\ ~file[d][k].says.virtual
       /\ \/ Manifest(d, k, base) = Broken
          \/ Manifest(d, k, base) = None /\ Inside(d, k, base) # None
             /\ LookRaises(Inside(d, k, base))
Raises(d, k, base) ==
    \/ IsBroken(file[d][k])
    \/ /\ Readable(file[d][k]) /\ ~IsBroken(file[d][k]) /\ ~file[d][k].says.virtual
       /\ \/ Manifest(d, k, base) = Broken
          \/ Manifest(d, k, base) = None /\ Inside(d, k, base) # None
             /\ LookRaises(Inside(d, k, base))

\* The kit: its manifest, or the hints, overridden by the registration, which
\* says whether it is detached and may say where an embedded one's tools are;
\* a virtual kit, and one of which nothing else is known, is what its
\* registration says.
\* Mutant: a kit with a .kit.json forgets that it is detached.
MergedForgets(d, k, base) ==
    LET reg == file[d][k]
        c == Inside(d, k, base)
        mine == Manifest(d, k, base)
        over(other) == IF reg.says.override # None THEN reg.says.override ELSE other
    IN IF mine # None /\ ~reg.says.virtual
       THEN [kit |-> k, virtual |-> FALSE, pointer |-> FALSE, tools |-> mine.tools,
             base |-> mine.base, override |-> over(mine.override)]
       ELSE IF c # None /\ ~reg.says.virtual /\ OwnOnly(c, k)
       THEN [kit |-> k, virtual |-> file[c][k].says.virtual,
             pointer |-> reg.pointer \/ file[c][k].pointer, tools |-> file[c][k].says.tools,
             base |-> file[c][k].says.base, override |-> over(file[c][k].says.override)]
       ELSE IF c # None /\ ~reg.says.virtual /\ Hinted(c)
       THEN [kit |-> k, virtual |-> FALSE, pointer |-> reg.pointer, tools |-> {},
             base |-> BaseInside(c), override |-> reg.says.override]
       ELSE [kit |-> k, virtual |-> reg.says.virtual, pointer |-> reg.pointer,
             tools |-> reg.says.tools, base |-> reg.says.base, override |-> reg.says.override]
Merged(d, k, base) ==
    LET reg == file[d][k]
        c == Inside(d, k, base)
        mine == Manifest(d, k, base)
        over(other) == IF reg.says.override # None THEN reg.says.override ELSE other
    IN IF mine # None /\ ~reg.says.virtual
       THEN [kit |-> k, virtual |-> FALSE, pointer |-> reg.pointer, tools |-> mine.tools,
             base |-> mine.base, override |-> over(mine.override)]
       ELSE IF c # None /\ ~reg.says.virtual /\ OwnOnly(c, k)
       THEN [kit |-> k, virtual |-> file[c][k].says.virtual,
             pointer |-> reg.pointer \/ file[c][k].pointer, tools |-> file[c][k].says.tools,
             base |-> file[c][k].says.base, override |-> over(file[c][k].says.override)]
       ELSE IF c # None /\ ~reg.says.virtual /\ Hinted(c)
       THEN [kit |-> k, virtual |-> FALSE, pointer |-> reg.pointer, tools |-> {},
             base |-> BaseInside(c), override |-> reg.says.override]
       ELSE [kit |-> k, virtual |-> reg.says.virtual, pointer |-> reg.pointer,
             tools |-> reg.says.tools, base |-> reg.says.base, override |-> reg.says.override]

\* get_active_kits(): the root's configuration, DZ_KITS at every level.
ActiveNames(d, depth, names) ==
    IF settings.env # None THEN names \cap settings.env
    ELSE IF depth > 0 THEN names
    ELSE {k \in names : /\ k \notin settings.disabled
                        /\ \/ settings.active = {} \/ k \in settings.active
                           \/ <<d, k>> \in Constitutional}

\* discover_projects(): a tool is loaded if any flat kit lists it and it is in
\* the aggregator's directory of tools, or in the one a flat kit names, which is
\* its own if it has a .kit.json. A manifest of another name is not a matter
\* here: the usual one is found under whatever name a kit declares.
Listed(flat) == UNION {kit.tools : kit \in flat}
\* _scan_tool_dirs(): the tools with a manifest, if the directory is there.
Scanned(d, base) == IF base = RealBase[d] THEN OnDisk[d] ELSE {}
Extra(d, kit) == IF kit.base = None THEN {}
                 ELSE IF own[d][kit.kit] # None THEN InKit[d][kit.kit] ELSE Scanned(d, kit.base)
Discovered(d, base, flat) ==
    IF base # RealBase[d] THEN {}
    ELSE Listed(flat) \cap (Scanned(d, base) \cup UNION {Extra(d, kit) : kit \in flat})

-----------------------------------------------------------------------------
(* The walk *)

Begin ==
    /\ status = "none"
    /\ status' = "walking" /\ stack' = <<Frame(Root, <<>>, RealBase[Root])>> /\ touched' = {}
    /\ UNCHANGED <<registryVars, own, child, settings, result>>

\* The next file of the frame: what is gone, unreadable or being written is
\* passed over.
ReadKit ==
    /\ Walking /\ Top.unread # <<>>
    /\ LET k == Head(Top.unread)
       IN /\ ~Raises(Top.dir, k, Top.base)
          /\ SetTop([Top EXCEPT !.unread = Tail(@),
                       !.kits = IF Readable(file[Top.dir][k])
                                THEN @ \cup {Merged(Top.dir, k, Top.base)} ELSE @])
    /\ UNCHANGED <<registryVars, own, child, settings, status, result, touched>>

\* The aggregator around an embedded one that raises prints a warning and goes
\* on without it; in the root nothing catches it.
ReadFails ==
    /\ Walking /\ Top.unread # <<>>
    /\ Raises(Top.dir, Head(Top.unread), Top.base)
    /\ IF Depth = 0 THEN status' = "failed" /\ stack' = <<>>
       ELSE status' = status /\ stack' = Front(stack)
    /\ UNCHANGED <<registryVars, own, child, settings, result, touched>>

Active(frame, depth) ==
    ActiveNames(frame.dir, depth, {kit.kit : kit \in frame.kits})

\* _annotate_project_fqcn(): the kit that decides on a tool is the first of its
\* prefix, in the root its namespace. _rewrite_virtual_kit(): the prefix.
Project(frame, ref, active) ==
    LET importKit == IF frame.name = <<>> THEN ref[1] ELSE frame.name[1]
    IN [name |-> frame.name \o ref, active |-> importKit \in active]
VirtualKit(frame, k, active) == [name |-> Append(frame.name, k), active |-> k \in active]

\* The partition into virtual kits, pointers, embedded aggregators and flat
\* kits; the flat ones are loaded and the virtual ones renamed.
Partition ==
    /\ Walking /\ Top.unread = <<>> /\ ~Top.parted
    /\ LET loaded == {kit \in Top.kits : ~kit.virtual /\ ~kit.pointer}
           nested == {kit.kit : kit \in {x \in loaded : Inside(Top.dir, x.kit, Top.base) # None}}
           flat == {kit \in loaded : kit.kit \notin nested}
           active == Active(Top, Depth)
       IN /\ SetTop([Top EXCEPT
               !.parted = TRUE,
               !.todo = nested,
               !.projects = {Project(Top, ref, active) :
                               ref \in Discovered(Top.dir, Top.base, flat)},
               !.virtuals = {VirtualKit(Top, kit.kit, active) :
                               kit \in {x \in Top.kits : x.virtual}}])
          /\ result' = IF Depth = 0 THEN [result EXCEPT !.kits = {<<kit.kit>> : kit \in Top.kits}]
                       ELSE result
    /\ UNCHANGED <<registryVars, own, child, settings, status, touched>>

\* The real path of the next embedded aggregator, and where its tools are
\* looked for.
Embedded == child[Top.dir][First(Top.todo)]
BaseOf(kit) == IF kit.override # None THEN kit.override
               ELSE IF kit.base # None THEN kit.base ELSE Default
EmbeddedBase == BaseOf(CHOOSE x \in Top.kits : x.kit = First(Top.todo))

\* Mutant: the embedded aggregator is visited over and over.
DescendAgain ==
    /\ Walking /\ Top.parted /\ Top.todo # {}
    /\ ~OnStack(Embedded)
    /\ stack' = Append(stack, Frame(Embedded, Append(Top.name, First(Top.todo)), EmbeddedBase))
    /\ UNCHANGED <<registryVars, own, child, settings, status, result, touched>>
\* _recurse_into_nested(): a real path that is not being loaded yet.
Descend ==
    /\ Walking /\ Top.parted /\ Top.todo # {}
    /\ ~OnStack(Embedded)
    /\ stack' = Append([stack EXCEPT ![Len(stack)].todo = @ \ {First(@)}],
                       Frame(Embedded, Append(Top.name, First(Top.todo)), EmbeddedBase))
    /\ UNCHANGED <<registryVars, own, child, settings, status, result, touched>>

\* CircularDependencyError, which no level catches.
Cycle ==
    /\ Walking /\ Top.parted /\ Top.todo # {}
    /\ OnStack(Embedded)
    /\ status' = "cycle" /\ stack' = <<>>
    /\ UNCHANGED <<registryVars, own, child, settings, result, touched>>

Done == Walking /\ Top.parted /\ Top.todo = {}

\* The frame below takes over what was found; its view of what is active
\* holds for all of it.
Return ==
    /\ Done /\ Depth > 0
    /\ LET below == stack[Len(stack) - 1]
           active == Top.name[Len(Top.name)] \in Active(below, Depth - 1)
       IN stack' = [Front(stack) EXCEPT ![Len(stack) - 1] =
            [below EXCEPT
               !.projects = @ \cup {[p EXCEPT !.active = active] : p \in Top.projects},
               !.virtuals = @ \cup {[v EXCEPT !.active = active /\ v.active] : v \in Top.virtuals}]]
    /\ UNCHANGED <<registryVars, own, child, settings, status, result, touched>>

\* The root frame: shadowed tools are dropped, embedded virtual kits become
\* kits of the engine.
Finish ==
    /\ Done /\ Depth = 0
    /\ result' = [projects |-> {p \in Top.projects : p.name \notin settings.shadowed},
                  virtuals |-> Top.virtuals,
                  kits |-> result.kits \cup {v.name : v \in Top.virtuals}]
    /\ status' = "done" /\ stack' = <<>>
    /\ UNCHANGED <<registryVars, own, child, settings, touched>>

Walk == ReadKit \/ ReadFails \/ Partition \/ Descend \/ Cycle \/ Return \/ Finish

\* Another process, during the walk or before it.
Other ==
    /\ RegistryNext
    /\ touched' = touched \cup {s \in Dirs \X Kits : file'[s[1]][s[2]] # file[s[1]][s[2]]}
    /\ UNCHANGED <<own, child, settings, stack, status, result>>

Next == Begin \/ Walk \/ Other
\* discover() runs to its end: nothing in it waits for another process.
Spec == Init /\ [][Next]_vars /\ WF_vars(Begin) /\ WF_vars(Walk)

-----------------------------------------------------------------------------
(* Properties *)

FrameType == [dir : Dirs, base : Bases, name : Seq(Kits), unread : Seq(Kits),
              kits : SUBSET [kit : Kits, virtual : BOOLEAN, pointer : BOOLEAN, tools : SUBSET Refs,
                              base : Bases \cup {None}, override : Bases \cup {None}],
              todo : SUBSET Kits, parted : BOOLEAN,
              projects : SUBSET [name : Seq(Kits \cup Tools), active : BOOLEAN],
              virtuals : SUBSET [name : Seq(Kits), active : BOOLEAN]]

(* The type invariant. No aggregator is being loaded twice at a time, so   *)
(* the recursion is never deeper than there are directories, however they  *)
(* embed each other and whatever is registered meanwhile.                  *)
TypeOK ==
    /\ RegistryTypeOK
    /\ own \in [Dirs -> [Kits -> {None, Broken} \cup Manifests]]
    /\ child \in [Dirs -> [Kits -> Dirs \cup {None}]]
    /\ settings \in Settings
    /\ stack \in Seq(FrameType)
    /\ status \in {"none", "walking", "done", "cycle", "failed"}
    /\ (status = "walking") <=> (stack # <<>>)
    /\ touched \subseteq Dirs \X Kits
    /\ \A i, j \in DOMAIN stack : stack[i].dir = stack[j].dir => i = j

\* The chains of embedded aggregators over a set of registrations that load, of
\* which some look for the tools in the right place (found): a chain goes on
\* from a sound aggregator that is looked for there, and not from one it was in
\* before.
Start == [kits |-> <<>>, dirs |-> <<Root>>, found |-> TRUE]
Here(c) == c.dirs[Len(c.dirs)]
Repeats(c) == \E i \in 1..(Len(c.dirs) - 1) : c.dirs[i] = Here(c)
Grows(c, sound) == c.found /\ Here(c) \in sound /\ ~Repeats(c)
Longer(c, loads, found) ==
    {[kits |-> Append(c.kits, k), dirs |-> Append(c.dirs, child[Here(c)][k]),
      found |-> <<Here(c), k>> \in found] :
        k \in {k \in Kits : <<Here(c), k>> \in loads /\ child[Here(c)][k] # None}}
Chains(loads, found, sound) ==
    LET upTo[n \in 0..Cardinality(Dirs)] ==
          IF n = 0 THEN {Start}
          ELSE upTo[n - 1] \cup UNION {Longer(c, loads, found) :
                  c \in {c \in upTo[n - 1] : Grows(c, sound)}}
    IN upTo[Cardinality(Dirs)]

\* The names of the tools at the end of chains.
FlatTools(d, loads) ==
    LET flat == {k \in Kits : <<d, k>> \in loads /\ child[d][k] = None}
        based == {k \in flat : own[d][k] # None /\ own[d][k].base # None}
    IN (UNION {IF own[d][k] = None THEN origin[d][k].says.tools ELSE own[d][k].tools : k \in flat})
         \cap (OnDisk[d] \cup UNION {InKit[d][k] : k \in based})
NamesOver(loads, found, sound) ==
    UNION {{c.kits \o ref : ref \in FlatTools(Here(c), loads)} :
             c \in {c \in Chains(loads, found, sound) : Grows(c, sound)}}

\* The registrations that lead to tools: neither an overlay nor detached.
LoadingNow ==
    {s \in Dirs \X Kits :
        /\ Readable(file[s[1]][s[2]]) /\ ~Raises(s[1], s[2], RealBase[s[1]])
        /\ ~file[s[1]][s[2]].pointer
        /\ LET kit == Merged(s[1], s[2], RealBase[s[1]]) IN ~kit.pointer /\ ~kit.virtual}
FoundNow ==
    {s \in LoadingNow : child[s[1]][s[2]] # None =>
        RealBase[child[s[1]][s[2]]] = BaseOf(Merged(s[1], s[2], RealBase[s[1]]))}
SoundNow == {d \in Dirs : \A k \in Kits : ~Raises(d, k, RealBase[d])}
NamesNow == NamesOver(LoadingNow, FoundNow, SoundNow)
Cyclic == \E c \in Chains(LoadingNow, FoundNow, SoundNow) : Repeats(c)

\* The kit of the root that decides whether a name is active.
RootActive(k) ==
    /\ Readable(file[Root][k])
    /\ IF settings.env # None THEN k \in settings.env
       ELSE /\ k \notin settings.disabled
            /\ \/ settings.active = {} \/ k \in settings.active
               \/ <<Root, k>> \in Constitutional

(* What discovery finds is what is reachable: while nobody changes a       *)
(* registration it ends with an error exactly if an embedded aggregator    *)
(* leads back to one it is in, and otherwise with every tool of every      *)
(* chain, a diamond's under both names, active as the root's kit is; a     *)
(* detached kit's and a shadowed tool are left out, and an embedded         *)
(* aggregator that raises is left out as a whole.                          *)
FindsReachable ==
    touched = {} =>
        /\ status = "failed" => Root \notin SoundNow
        /\ status = "cycle" => Cyclic
        /\ status = "done" =>
             /\ Root \in SoundNow /\ ~Cyclic
             /\ result.projects = {[name |-> n, active |-> RootActive(n[1])] :
                                     n \in NamesNow \ settings.shadowed}
             /\ \A v \in result.virtuals : v.active => RootActive(v.name[1])

\* What another process wrote during the walk, seen from where it was read.
Moving == {s \in Dirs \X Kits :
             \/ s \in touched
             \/ /\ child[s[1]][s[2]] # None
                /\ \E x \in Kits : <<child[s[1]][s[2]], x>> \in touched}
CanLoad(s) == LET reg == origin[s[1]][s[2]]
              IN reg # Absent /\ reg.says # Broken /\ ~reg.says.virtual
NeverRaises(d) ==
    \A k \in Kits : /\ ~IsBroken(origin[d][k]) /\ own[d][k] # Broken
                    /\ child[d][k] # None => \A x \in Kits : ~IsBroken(origin[child[d][k]][x])

(* A registration that another process is writing can only take away what  *)
(* goes through it: whatever the others do during the walk, the tools      *)
(* whose registrations nobody touched are all found, and nothing is found  *)
(* that no registration ever led to.                                       *)
FindsUntouched ==
    status = "done" =>
        LET names == {p.name : p \in result.projects}
            possible == LoadingNow \cup {s \in Moving : CanLoad(s)}
        IN /\ NamesOver(LoadingNow \ Moving, FoundNow \ Moving, {d \in Dirs : NeverRaises(d)})
                \ settings.shadowed \subseteq names
           /\ names \subseteq NamesOver(possible, possible, Dirs)

(* discover() ends, whatever the other processes do. *)
DiscoveryEnds == <>(status \in {"done", "cycle", "failed"})
=============================================================================
