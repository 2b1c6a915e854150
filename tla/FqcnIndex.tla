------------------------------ MODULE FqcnIndex ------------------------------
(***************************************************************************)
(* The naming index of an aggregator: how AggregatorEngine fills FQCNIndex *)
(* from what discovery found (_build_fqcn_index, the constitutional        *)
(* overlay, the virtual kits), how resolve() reads it, and how the alias   *)
(* contexts (AliasRebindContext, ProjectionContext) change it afterwards   *)
(* and undo their changes.                                                 *)
(*                                                                         *)
(* A fully qualified name is the sequence of its segments. short_index is  *)
(* kept up to date by every insertion, repointing and removal, never       *)
(* rebuilt: whether it still agrees with the two tables is the question.   *)
(***************************************************************************)
EXTENDS Naturals, Sequences, FiniteSets, SequencesExt

CONSTANTS
    Segments,        \* kit, namespace and tool names
    Names,           \* the FQCNs in play
    Rank,            \* [Segments -> Nat]: alphabetical order of segments
    Dirs,            \* physical tool directories (os.path.realpath)
    None,
    Library, Core,   \* the segments dazzlecmd_lib and core
    Constitutional,  \* tool names whose engine lives in dazzlecmd_lib.core
    Preferred,       \* kits before all others: <<core, dazzletools>>
    Discoveries,     \* the project lists discovery may return
    VirtualKits,     \* the entries of active virtual kits it may return
    AliasNames,      \* alias names later group/ungroup calls may ask for
    MaxCalls         \* bound on group, ungroup and rebind calls

Projects == [fqcn : Names, dir : Dirs]
Entries  == [kit : Seq(Segments), tool : Names, short : Segments \cup {None}]

Short(n) == Last(n)
KitOf(n) == n[1]
Home(t)  == <<Library, Core, t>>

\* The alias of an entry of a virtual kit's "tools": name_rewrite or the short.
AliasOf(e) == Append(e.kit, IF e.short = None THEN Short(e.tool) ELSE e.short)

ASSUME IndexAssumption ==
    /\ None \notin Names \cup Dirs \cup Segments
    /\ \A n \in Names : n \in Seq(Segments) /\ Len(n) >= 2
    /\ Rank \in [Segments -> Nat] /\ {Library, Core} \subseteq Segments
    /\ Constitutional \subseteq Segments
    /\ \A t \in Constitutional : Home(t) \in Names
    /\ Preferred \in Seq(Segments)
    /\ \A d \in Discoveries : d \in Seq(Projects)
    /\ \A v \in VirtualKits : v \in Seq(Entries)
                             /\ \A k \in DOMAIN v : AliasOf(v[k]) \in Names
    /\ AliasNames \subseteq Names /\ MaxCalls \in Nat

Stages == {"register", "overlay", "virtual", "serve"}
Sources == {"auto-realpath", "overlay", "kit", "rebind"}

VARIABLES
    found,      \* self.projects, in discovery order
    entries,    \* the entries of the active virtual kits, in order
    stage, at,  \* the pass of discover() that is running, and its position
    pending,    \* projects (by position) the first pass has still to register
    demoted,    \* projects with auto_realpath_alias set
    canonical,  \* canonical_index: [Names -> Dirs \cup {None}]
    alias,      \* alias_index: [Names -> Names \cup {None}]
    source,     \* _alias_sources
    short,      \* short_index: [Segments -> Seq(Names)]
    shortcuts,  \* shortcut_candidates: sorted buckets, so sets will do
    kitOrder,   \* kit_order
    receipts,   \* receipts of calls that can still be undone
    calls,      \* calls made so far
    before      \* history: the index before the last call, None if undone

tables == <<canonical, alias, source, short, shortcuts, kitOrder>>
inputs == <<found, entries>>
vars == <<found, entries, stage, at, pending, demoted, canonical, alias, source,
          short, shortcuts, kitOrder, receipts, calls, before>>

Receipts == [verb : {"rebind", "project"}, alias : Names, prev : Names]
Snapshots == [receipt : Receipts, fresh : BOOLEAN,
              alias : [Names -> Names \cup {None}],
              source : [Names -> Sources \cup {None}],
              short : [Segments -> Seq(Names)]]

Init ==
    /\ found \in Discoveries /\ entries \in VirtualKits
    /\ stage = "register" /\ at = 1
    /\ pending = DOMAIN found /\ demoted = {}
    /\ canonical = [n \in Names |-> None]
    /\ alias = [n \in Names |-> None] /\ source = [n \in Names |-> None]
    /\ short = [s \in Segments |-> <<>>]
    /\ shortcuts = [k \in Segments \X Segments |-> {}]
    /\ kitOrder = <<>>
    /\ receipts = {} /\ calls = 0 /\ before = None

-----------------------------------------------------------------------------
(* FQCNIndex: the insertions, the repointing and the removal *)

With(seq, x) == IF Contains(seq, x) THEN seq ELSE Append(seq, x)

\* A name that is taken, as canonical or as alias.
Taken(n) == canonical[n] # None \/ alias[n] # None

\* insert_canonical() of a name that is free.
InsertCanonical(n, dir) ==
    /\ canonical' = [canonical EXCEPT ![n] = dir]
    /\ short' = [short EXCEPT ![Short(n)] = Append(@, n)]
    /\ kitOrder' = With(kitOrder, KitOf(n))
    /\ shortcuts' = [shortcuts EXCEPT ![<<KitOf(n), Short(n)>>] = @ \cup {n}]
    /\ UNCHANGED <<alias, source>>

\* Mutant: an alias may have the name of a real tool.
InsertableShadow(a, n) == canonical[n] # None /\ alias[a] \in {None, n}

\* insert_alias() refuses a target that is no canonical, a name that is one,
\* and a name that is bound to another target.
Insertable(a, n) == /\ canonical[n] # None /\ canonical[a] = None
                    /\ alias[a] \in {None, n}

\* insert_alias(); a second time with the same target it does nothing.
InsertAlias(a, n, src) ==
    IF alias[a] = n THEN UNCHANGED tables
    ELSE /\ alias' = [alias EXCEPT ![a] = n]
         /\ source' = [source EXCEPT ![a] = src]
         /\ short' = [short EXCEPT ![Short(a)] = With(@, n)]
         /\ UNCHANGED <<canonical, shortcuts, kitOrder>>

\* Mutant: only the canonical's own short name counts, not other aliases.
JustifiedOwn(s, n, a) == canonical[n] # None /\ Short(n) = s

\* _short_still_justified(): n keeps its place under the short name s when
\* alias a goes, as its own short name or through another alias.
Justified(s, n, a) == \/ canonical[n] # None /\ Short(n) = s
                      \/ \E b \in Names \ {a} : alias[b] = n /\ Short(b) = s

\* The bucket of a's short name once a no longer leads to its target.
Released(a) == LET s == Short(a) IN
    IF Justified(s, alias[a], a) THEN short[s] ELSE RemoveFirst(short[s], alias[a])

\* Mutant: the old target keeps its place under the alias's short name.
RepointAliasNaive(a, n) ==
    IF alias[a] = n THEN UNCHANGED tables
    ELSE /\ alias' = [alias EXCEPT ![a] = n]
         /\ source' = [source EXCEPT ![a] = "rebind"]
         /\ short' = [short EXCEPT ![Short(a)] = With(@, n)]
         /\ UNCHANGED <<canonical, shortcuts, kitOrder>>

\* repoint_alias(); to the target it has already it does nothing.
RepointAlias(a, n) ==
    IF alias[a] = n THEN UNCHANGED tables
    ELSE /\ alias' = [alias EXCEPT ![a] = n]
         /\ source' = [source EXCEPT ![a] = "rebind"]
         /\ short' = [short EXCEPT ![Short(a)] = With(Released(a), n)]
         /\ UNCHANGED <<canonical, shortcuts, kitOrder>>

\* Mutant: the provenance of the alias stays.
RemoveAliasOnly(a) ==
    IF alias[a] = None THEN UNCHANGED tables
    ELSE /\ alias' = [alias EXCEPT ![a] = None]
         /\ short' = [short EXCEPT ![Short(a)] = Released(a)]
         /\ UNCHANGED <<canonical, source, shortcuts, kitOrder>>

\* remove_alias(); a name that is no alias is left alone.
RemoveAlias(a) ==
    IF alias[a] = None THEN UNCHANGED tables
    ELSE /\ alias' = [alias EXCEPT ![a] = None]
         /\ source' = [source EXCEPT ![a] = None]
         /\ short' = [short EXCEPT ![Short(a)] = Released(a)]
         /\ UNCHANGED <<canonical, shortcuts, kitOrder>>

-----------------------------------------------------------------------------
(* _build_fqcn_index(): one script reached under several names *)

Alphabetical(m, n) == \E k \in DOMAIN m \cap DOMAIN n :
    Rank[m[k]] < Rank[n[k]] /\ \A j \in 1..(k - 1) : m[j] = n[j]

\* Projects of one directory form a group, at the place of its first member;
\* in a group the shortest name comes first, then the alphabetically least.
Group(i) == {j \in DOMAIN found : found[j].dir = found[i].dir}
Precedes(i, j) ==
    LET m == found[i].fqcn
        n == found[j].fqcn
    IN  IF found[i].dir # found[j].dir
        THEN \E k \in Group(i) : \A l \in Group(j) : k < l
        ELSE \/ Len(m) < Len(n)
             \/ Len(m) = Len(n) /\ (Alphabetical(m, n) \/ (m = n /\ i < j))
Upcoming(i) == i \in pending /\ \A j \in pending \ {i} : Precedes(i, j)

\* The member of its group that is to be canonical.
Winner(i) == \A j \in Group(i) \ {i} : Precedes(i, j)

\* The winner becomes canonical; if its name is taken the group is given up.
RegisterWinner ==
    /\ stage = "register"
    /\ \E i \in pending :
         /\ Upcoming(i) /\ Winner(i)
         /\ IF Taken(found[i].fqcn)
            THEN UNCHANGED tables /\ pending' = pending \ Group(i)
            ELSE /\ InsertCanonical(found[i].fqcn, found[i].dir)
                 /\ pending' = pending \ {i}
    /\ UNCHANGED <<inputs, stage, at, demoted, receipts, calls, before>>

\* Mutant: the other members are demoted and nothing leads to the winner.
RegisterDuplicateDropped ==
    /\ stage = "register"
    /\ \E i \in pending :
         /\ Upcoming(i) /\ ~Winner(i)
         /\ demoted' = demoted \cup {i} /\ pending' = pending \ {i}
    /\ UNCHANGED <<inputs, stage, at, tables, receipts, calls, before>>

\* The other members become aliases of it.
RegisterDuplicate ==
    /\ stage = "register"
    /\ \E i \in pending : \E w \in Group(i) :
         LET a == found[i].fqcn
             n == found[w].fqcn
         IN  /\ Upcoming(i) /\ ~Winner(i) /\ Winner(w)
             /\ IF Insertable(a, n)
                THEN InsertAlias(a, n, "auto-realpath") /\ demoted' = demoted \cup {i}
                ELSE UNCHANGED tables /\ UNCHANGED demoted
             /\ pending' = pending \ {i}
    /\ UNCHANGED <<inputs, stage, at, receipts, calls, before>>

\* _apply_constitutional_overlay(): the home name of a tool of the library
\* leads to the tool of this aggregator that surfaces it.
Surfaced(i) == LET n == found[i].fqcn IN
    /\ i \notin demoted /\ n[Len(n) - 1] = Core /\ Short(n) \in Constitutional
    /\ Home(Short(n)) # n

Overlay ==
    /\ stage = "overlay" /\ at \in DOMAIN found
    /\ LET n == found[at].fqcn
           h == Home(Short(n))
       IN  IF Surfaced(at) /\ Insertable(h, n) THEN InsertAlias(h, n, "overlay")
                                               ELSE UNCHANGED tables
    /\ at' = at + 1
    /\ UNCHANGED <<inputs, stage, pending, demoted, receipts, calls, before>>

\* _apply_virtual_kits(): an entry whose tool was demoted to an alias above
\* leads to the canonical of that alias. An entry that fails is reported.
Overlaid(e) == IF alias[e.tool] # None THEN alias[e.tool] ELSE e.tool
ApplyVirtualKit ==
    /\ stage = "virtual" /\ at \in DOMAIN entries
    /\ LET a == AliasOf(entries[at])
           n == Overlaid(entries[at])
       IN  IF Insertable(a, n) THEN InsertAlias(a, n, "kit") ELSE UNCHANGED tables
    /\ at' = at + 1
    /\ UNCHANGED <<inputs, stage, pending, demoted, receipts, calls, before>>

\* discover() runs its passes one after the other.
NextPass ==
    /\ \/ stage = "register" /\ pending = {} /\ stage' = "overlay"
       \/ stage = "overlay" /\ at \notin DOMAIN found /\ stage' = "virtual"
       \/ stage = "virtual" /\ at \notin DOMAIN entries /\ stage' = "serve"
    /\ at' = 1
    /\ UNCHANGED <<inputs, pending, demoted, tables, receipts, calls, before>>

Discover == RegisterWinner \/ RegisterDuplicate \/ Overlay \/ ApplyVirtualKit
            \/ NextPass

-----------------------------------------------------------------------------
(* resolve() *)

\* Mutant: only the top-level kit of the target is compared.
QualifiedTop(n) ==
    LET a == <<n[Len(n) - 1], n[Len(n)]>>
    IN  IF a \in Names /\ alias[a] # None /\ <<KitOf(alias[a])>> = SubSeq(n, 1, Len(n) - 2)
        THEN alias[a] ELSE None

\* An alias with the kit path of its target in front, as `dz list` shows it.
Qualified(n) ==
    LET a == <<n[Len(n) - 1], n[Len(n)]>>
    IN  IF a \in Names /\ alias[a] # None /\ Front(alias[a]) = Front(Front(n))
        THEN alias[a] ELSE None

\* A kit and the last segment of a tool: the alphabetically least such tool.
Shortcut(kit, tool) ==
    LET bucket == shortcuts[<<kit, tool>>]
    IN  IF bucket = {} THEN None
        ELSE CHOOSE m \in bucket : \A o \in bucket \ {m} :
                \/ Alphabetical(m, o)
                \/ Len(m) < Len(o) /\ ~Alphabetical(o, m)

\* A canonical name, an alias, a shortcut or a qualified alias, in this order.
ResolveFqcn(n) ==
    IF n \in Names /\ canonical[n] # None THEN n
    ELSE IF n \in Names /\ alias[n] # None THEN alias[n]
    ELSE IF Len(n) = 2 THEN Shortcut(n[1], n[2]) ELSE Qualified(n)

\* list.index(), or a place behind the last one.
Place(seq, k) ==
    IF Contains(seq, k)
    THEN CHOOSE i \in DOMAIN seq : seq[i] = k /\ \A j \in 1..(i - 1) : seq[j] # k
    ELSE Len(seq) + 1

\* The rank of a name's kit in _effective_precedence(): before the other kits, in
\* the order discovery met them, come the user's, or core and dazzletools if they
\* were met. Only the order of ranks counts, so the gaps between them may stay.
KitRank(override, n) ==
    LET kit == KitOf(n)
        first == IF override # <<>> THEN override ELSE Preferred
        ahead == Contains(first, kit) /\ (override # <<>> \/ Contains(kitOrder, kit))
    IN  IF ahead THEN Place(first, kit) ELSE Len(first) + Place(kitOrder, kit)

\* The first name of a bucket among those of the kit with the best rank:
\* _rank_by_precedence() sorts, and sorted() is stable.
Foremost(override, bucket) ==
    LET best(k) == \A j \in DOMAIN bucket :
                      KitRank(override, bucket[k]) <= KitRank(override, bucket[j])
    IN  IF bucket = <<>> THEN None
        ELSE bucket[CHOOSE k \in DOMAIN bucket :
                       best(k) /\ \A j \in 1..(k - 1) : ~best(j)]

\* Mutant: a favorite whose target is gone hides the tools of that name.
ResolveShortStale(s, override, favorite) ==
    IF favorite = None THEN Foremost(override, short[s])
    ELSE IF canonical[favorite] # None THEN favorite ELSE alias[favorite]

\* A favorite that still leads somewhere goes before the precedence of kits.
ResolveShort(s, override, favorite) ==
    LET pinned == IF favorite = None THEN None
                  ELSE IF canonical[favorite] # None THEN favorite
                  ELSE alias[favorite]
    IN  IF pinned # None THEN pinned
        ELSE Foremost(override, short[s])

-----------------------------------------------------------------------------
(* ProjectionContext and AliasRebindContext, by calls on the built index *)

Calling == stage = "serve" /\ calls < MaxCalls /\ calls' = calls + 1
Returns(r) ==
    /\ receipts' = receipts \cup {r}
    /\ before' = [receipt |-> r, fresh |-> alias[r.alias] = None,
                  alias |-> alias, source |-> source, short |-> short]

\* group() and ungroup() of a canonical project under one more name.
Project(n, a) ==
    /\ Calling /\ Insertable(a, n)
    /\ InsertAlias(a, n, "overlay")
    /\ Returns([verb |-> "project", alias |-> a, prev |-> n])
    /\ UNCHANGED <<inputs, stage, at, pending, demoted>>

\* Mutant: the receipt records the new target as the one to go back to.
RebindForgets(n, a, target) ==
    /\ Calling /\ alias[a] = n /\ canonical[target] # None
    /\ RepointAlias(a, target)
    /\ Returns([verb |-> "rebind", alias |-> a, prev |-> target])
    /\ UNCHANGED <<inputs, stage, at, pending, demoted>>

\* rebind() of an alias by the project it leads to.
Rebind(n, a, target) ==
    /\ Calling /\ alias[a] = n /\ canonical[target] # None
    /\ RepointAlias(a, target)
    /\ Returns([verb |-> "rebind", alias |-> a, prev |-> n])
    /\ UNCHANGED <<inputs, stage, at, pending, demoted>>

\* undo() of a receipt, at any later time and as often as one likes.
UndoProject(r) ==
    /\ Calling /\ r.verb = "project"
    /\ RemoveAlias(r.alias)
    /\ before' = None
    /\ UNCHANGED <<inputs, stage, at, pending, demoted, receipts>>
UndoRebind(r) ==
    /\ Calling /\ r.verb = "rebind" /\ alias[r.alias] # None
    /\ RepointAlias(r.alias, r.prev)
    /\ before' = None
    /\ UNCHANGED <<inputs, stage, at, pending, demoted, receipts>>
Undo(r) == UndoProject(r) \/ UndoRebind(r)

Next == \/ Discover
        \/ \E n \in Names, a \in AliasNames : Project(n, a)
        \/ \E n, a, target \in Names : Rebind(n, a, target)
        \/ \E r \in receipts : Undo(r)

Spec == Init /\ [][Next]_vars

-----------------------------------------------------------------------------
(* Properties *)

\* The types of the tables; and _alias_sources tells the provenance of aliases only:
\* it is cleared with the alias.
TypeOK ==
    /\ found \in Seq(Projects) /\ entries \in Seq(Entries)
    /\ stage \in Stages /\ at \in Nat \ {0}
    /\ pending \subseteq DOMAIN found /\ demoted \subseteq DOMAIN found
    /\ canonical \in [Names -> Dirs \cup {None}]
    /\ alias \in [Names -> Names \cup {None}]
    /\ source \in [Names -> Sources \cup {None}]
    /\ \A a \in Names : alias[a] = None => source[a] = None
    /\ short \in [Segments -> Seq(Names)]
    /\ shortcuts \in [Segments \X Segments -> SUBSET Names]
    /\ kitOrder \in Seq(Segments)
    /\ receipts \subseteq Receipts /\ calls \in 0..MaxCalls
    /\ before \in Snapshots \cup {None}

\* FQCNIndex's rule 9b and its single-hop rule: no name is both canonical and
\* alias, and an alias leads to a canonical name, never to another alias.
SingleHop == \A a \in Names :
    alias[a] # None => canonical[a] = None /\ canonical[alias[a]] # None

\* short_index, kept up by insertions, repointings and removals, is what it
\* would be if it were built anew: under a short name stand the canonicals of
\* that name and the targets of the aliases of that name, each once.
ShortNames(s) == {n \in Names : canonical[n] # None /\ Short(n) = s}
                 \cup {alias[a] : a \in {b \in Names : alias[b] # None /\ Short(b) = s}}
ShortExact == \A s \in Segments :
    /\ ToSet(short[s]) = ShortNames(s) /\ IsInjective(short[s])

\* When discovery ends every name it found leads to the directory it was found
\* at, if no two directories were found under one name.
Distinct == \A i, j \in DOMAIN found :
               found[i].fqcn = found[j].fqcn => found[i].dir = found[j].dir
Leads(i) == /\ ResolveFqcn(found[i].fqcn) # None
            /\ canonical[ResolveFqcn(found[i].fqcn)] = found[i].dir
AllDispatch == Distinct /\ stage = "serve" /\ calls = 0 =>
    \A i \in DOMAIN found : Leads(i)

\* What a user types converges on the tool. The form `dz list` shows an alias of a
\* virtual kit in, the kit path of the target before the alias, leads where the alias
\* does, unless that very name belongs to another entry; a short name leads to a
\* canonical whatever precedence or favorite is given, and a stale favorite hides no
\* name that exists.
Shown(a) == Front(alias[a]) \o a
Overrides == {<<>>} \cup {<<KitOf(n)>> : n \in Names}
Converge ==
    /\ \A a \in Names : alias[a] # None /\ Len(a) = 2 =>
          \/ ResolveFqcn(Shown(a)) = alias[a]
          \/ Shown(a) \in Names /\ Taken(Shown(a))
    /\ \A s \in {Short(n) : n \in Names}, o \in Overrides, f \in Names \cup {None} :
          LET n == ResolveShort(s, o, f) IN
          IF n = None THEN ShortNames(s) = {} ELSE canonical[n] # None

\* undo() right after rebind(), or after a projection under a new name, brings
\* every name back to where it led; after the projection no trace is left, the
\* provenance and every short name's order are what they were.
UndoRestores ==
    [][\A r \in receipts : Undo(r) /\ before # None /\ before.receipt = r
                           /\ (r.verb = "project" => before.fresh)
         => /\ alias' = before.alias
            /\ r.verb = "project" => short' = before.short /\ source' = before.source]_vars
=============================================================================
