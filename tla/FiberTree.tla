------------------------------ MODULE FiberTree ------------------------------
(***************************************************************************)
(* fqcn_tree.py and the grafts of instance_plane.py: the one tree that     *)
(* every surface reads, its aliases, the resolution of a path on it, and   *)
(* the fold of a property up the chain of a node's ancestors.              *)
(*                                                                         *)
(* A node is its path, spelled without its trailing operator; the fiber    *)
(* mark belongs to the name after it, as ":.meta" does.                    *)
(***************************************************************************)
EXTENDS Paths, FiniteSets, FiniteSetsExt, Functions

CONSTANTS
    AppName,      \* engine.name, the root's other spelling
    Objects,      \* what the mounts are made of
    Mounts,       \* [paths under the root -> Objects]: tree_mounts
    Kids,         \* [Objects -> [names -> Objects]]: children()
    RungsOf,      \* [Objects -> [names -> ranks]]: those of a continuum
    TreeAliases,  \* [paths under the root -> paths under the root]
    KitSeq,       \* the kits: [name, virtual, level, rewrites]
    ToolSeq,      \* the tools found: [fqcn, ns, level, version]
    Dashed,       \* [names -> [names -> names]]: "f:rm" spelled "f-rm"
    RankOf,       \* [numbers -> ranks]
    VkRank,       \* the rank of virtual-kit, between a tool's and a kit's
    None

\* An object is mounted once: the visited set of _graft() never stops it.
ASSUME TreeAssumption ==
    /\ Range(Mounts) \subseteq Objects /\ DOMAIN Kids = Objects /\ DOMAIN RungsOf = Objects
    /\ DOMAIN RankOf = Numbers

Top == <<Root>>
Sub(n, name) == n \o <<":", name>>
Door(n, name) == n \o <<":", ".", name>>
Own(fqcn) == Top \o <<":">> \o fqcn
Colons(t) == {i \in DOMAIN t : t[i] = ":"}
Cuts(t) == {SubSeq(t, 1, i - 1) : i \in Colons(t)}

VARIABLE tree  \* a command builds it, always of the same declarations

-----------------------------------------------------------------------------
(* build_tree(): mounts, the objects below them, a node for every rung *)

\* Where an object puts itself and its children.
Spread[o \in Objects] ==
    {<<<<>>, o>>} \cup UNION {{<<<<":", k>> \o s[1], s[2]>> : s \in Spread[Kids[o][k]]} :
                              k \in DOMAIN Kids[o]}
Places == UNION {{<<Top \o b \o s[1], s[2]>> : s \in Spread[Mounts[b]]} : b \in DOMAIN Mounts}
RungNodes == UNION {{<<Sub(p[1], r), RungsOf[p[2]][r]>> : r \in DOMAIN RungsOf[p[2]]} : p \in Places}

Machinery == {Top} \cup UNION {{p[1]} \cup Cuts(p[1]) : p \in Places}
                   \cup {r[1] : r \in RungNodes}
Up(n) == CHOOSE c \in Cuts(n) : \A d \in Cuts(n) : Len(d) <= Len(c)
\* Mutant: a mount hangs from the root, whatever its path.
MachineryEdgesFlat == {<<IF n \in {p[1] : p \in Places} THEN Top ELSE Up(n), n>> :
                       n \in Machinery \ {Top}}
MachineryEdges == {<<Up(n), n>> : n \in Machinery \ {Top}}

-----------------------------------------------------------------------------
(* The instance plane: kits first, then tools; a node that is there already *)
(* keeps the edges it has                                                   *)

KitNodes == {Sub(Top, KitSeq[i].name) : i \in DOMAIN KitSeq}
Rewrites == UNION {{<<KitSeq[i], c>> : c \in DOMAIN KitSeq[i].rewrites} : i \in DOMAIN KitSeq}
Spelling(r) == <<r[1].name, r[1].rewrites[r[2]]>>
Leaf(r) == Sub(Door(Own(r[2]), "alias"), Dashed[Spelling(r)[1]][Spelling(r)[2]])

Aliased == {Own(r[2]) : r \in Rewrites}
RelationEdges == UNION {{<<Own(r[2]), Door(Own(r[2]), "alias")>>,
                         <<Door(Own(r[2]), "alias"), Leaf(r)>>} : r \in Rewrites}

Namespaces == {Sub(Top, ToolSeq[i].ns) : i \in DOMAIN ToolSeq}
Instances == {Own(ToolSeq[i].fqcn) : i \in DOMAIN ToolSeq}
InstanceEdges ==
    {<<Top, n>> : n \in (KitNodes \cup Namespaces) \ Machinery}
    \cup {e \in {<<Sub(Top, ToolSeq[i].ns), Own(ToolSeq[i].fqcn)>> : i \in DOMAIN ToolSeq} :
            e[2] \notin Machinery \cup Aliased \cup KitNodes \cup Namespaces}

LevelAxis == Sub(Door(Top, "meta"), "level")
VirtualKit == Sub(LevelAxis, "virtual-kit")
VirtualRung == IF LevelAxis \in Machinery THEN {<<LevelAxis, VirtualKit>>} ELSE {}

\* A virtual kit seen from the namespace of the tools it renames.
Projected == {r \in Rewrites : r[1].virtual /\ Sub(Top, r[2][1]) \in KitNodes \cup Namespaces}
View(r) == Sub(Sub(Top, r[2][1]), r[1].name)
ViewLeaf(r) == Sub(View(r), Spelling(r)[2])
ViewEdges == UNION {{<<Sub(Top, r[2][1]), View(r)>>, <<View(r), ViewLeaf(r)>>} : r \in Projected}

ConfigDoor == Sub(Door(Top, "meta"), "config")
ConfigEdge == IF Door(Top, "meta") \in Machinery THEN {<<Door(Top, "meta"), ConfigDoor>>} ELSE {}

-----------------------------------------------------------------------------
(* Aliases, and the resolution of a path *)

\* The tree's own, the root's name, and the names that virtual kits give.
Given(r) == Sub(Sub(Top, Spelling(r)[1]), Spelling(r)[2])
Aliases ==
    [t \in {Top \o a : a \in DOMAIN TreeAliases} |-> Top \o TreeAliases[Tail(t)]]
    @@ (IF AppName = Root THEN <<>> ELSE <<AppName>> :> Top)
    @@ [t \in {Given(r) : r \in Rewrites} |-> Own((CHOOSE r \in Rewrites : t = Given(r))[2])]

Extends(t, a) == IsPrefix(a, t) /\ (Len(t) = Len(a) \/ t[Len(a) + 1] \in {".", ":"})
Unaliased(aliases, t) ==
    LET fits == {a \in DOMAIN aliases : Extends(t, a)}
        best == CHOOSE a \in fits : \A b \in fits : Len(b) <= Len(a)
    IN  IF fits = {} THEN t ELSE aliases[best] \o SubSeq(t, Len(best) + 1, Len(t))

\* The kit frame's view of the three lifecycle axes, grafted where the kit rung is.
KitRung == Unaliased(Aliases, Sub(Door(Top, "level"), "kit"))
VerbSpace == Sub(Sub(Door(Top, "meta"), "verb"), "management")
FrameAxes == {a \in {"membership", "loading", "activation"} : Sub(VerbSpace, a) \in Machinery}
FrameEdges ==
    IF KitRung \notin Machinery \/ Up(VerbSpace) \notin Machinery THEN {}
    ELSE LET own == Sub(KitRung, "management") IN
         {<<KitRung, own>>} \cup UNION {{<<own, Sub(own, a)>>} \cup
             {<<Sub(own, a), Sub(Sub(own, a), Last(e[2]))>> :
                e \in {d \in MachineryEdges : d[1] = Sub(VerbSpace, a)}} : a \in FrameAxes}

Edges == MachineryEdges \cup InstanceEdges \cup VirtualRung \cup RelationEdges
           \cup ViewEdges \cup ConfigEdge \cup FrameEdges
All == {Top} \cup Aliased \cup UNION {{e[1], e[2]} : e \in Edges}
Lineage[n \in All] == {n} \cup UNION {Lineage[e[1]] : e \in {d \in Edges : d[2] = n}}
Built == [nodes |-> All, edges |-> Edges, aliases |-> Aliases,
          ranks |-> RungNodes \cup {<<VirtualKit, VkRank>>},
          lineage |-> [n \in All |-> Lineage[n]]]

Nodes == tree.nodes
Parents(n) == {e[1] : e \in {d \in tree.edges : d[2] = n}}
Below(n) == {e[2] : e \in {d \in tree.edges : d[1] = n}}
RanksAt(n) == {r[2] : r \in {s \in tree.ranks : s[1] = n}}

\* _resolve_ranks(): a segment that is no child selects one by its rank; a run of
\* pluses ascends. <<>> where the path leads nowhere.
Segments(t) == LET ends == Colons(t) \cup {Len(t) + 1} IN
    {<<i, SubSeq(t, i + 1, (CHOOSE j \in ends : j > i /\ \A k \in ends : k > i => j <= k) - 1)>> :
       i \in Colons(t)}
SegmentSeq(t) == SetToSortSeq(Segments(t), LAMBDA x, y : x[1] < y[1])
First(t) == SubSeq(t, 1, (CHOOSE j \in Colons(t) \cup {Len(t) + 1} :
                             \A k \in Colons(t) : j <= k) - 1)

Chosen(n, seg) ==
    LET child == n \o <<":">> \o seg
        inner == seg # <<>> /\ seg[1] = "."
        number == IF inner THEN Tail(seg) ELSE seg
        rank == RankOf[number[1]]
        seats == {c \in Below(n) : rank \in RanksAt(c)} IN
    IF child \in Nodes THEN child
    ELSE IF Len(number) # 1 THEN <<>>
    ELSE IF number[1] \notin Numbers THEN <<>>
    ELSE IF rank = 0 /\ (~inner \/ seats = {}) THEN n
    ELSE IF rank # 0 /\ Cardinality(seats) # 1 THEN <<>>
    ELSE CHOOSE c \in seats : TRUE

Ascends(n, ups) ==
    LET Climb[u \in 0..ups] == IF u = 0 THEN n
              ELSE IF Climb[u - 1] = <<>> THEN <<>>
              ELSE IF Cardinality(Parents(Climb[u - 1])) # 1 THEN <<>>
              ELSE CHOOSE m \in Parents(Climb[u - 1]) : TRUE
    IN  Climb[ups]

Walk(n, seg) ==
    LET ups == Pluses(seg, 1)
        rest == SubSeq(seg, ups + 1, Len(seg))
        at == IF n = <<>> THEN n ELSE Ascends(n, ups)
    IN  IF at = <<>> \/ (ups > 0 /\ rest = <<>>) THEN at ELSE Chosen(at, rest)

Resolve(t) ==
    LET u == Unaliased(tree.aliases, t)
        found == FoldLeft(LAMBDA n, s : Walk(n, s[2]), First(u), SegmentSeq(u)) IN
    IF u \in Nodes \/ First(u) \notin Nodes \/ found = <<>> THEN u ELSE found

-----------------------------------------------------------------------------
(* effective_channel_verbosity(), over a node and all its ancestors *)

ChannelKey(n) == n \o <<".", "channels", ".", "verbosity">>

\* What a node has by itself: 0 where nothing, or no number, is stored.
OwnLevel(stored, n) ==
    IF ChannelKey(n) \in DOMAIN stored /\ stored[ChannelKey(n)] \in Int THEN stored[ChannelKey(n)] ELSE 0
Effective(stored, n) == Min({OwnLevel(stored, m) : m \in tree.lineage[n]})
=============================================================================
