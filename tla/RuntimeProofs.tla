--------------------------- MODULE RuntimeProofs ---------------------------
(* Runtime, for every set of manifests, overrides and machines.  The manifest  *)
(* and the override are merged at once, level by level, and then the branch of  *)
(* the machine is taken; the declarations are read place by place.  The first   *)
(* part shows that both say the same of a field (LevelSays for one level of     *)
(* the merge, HostSays for the branches, DeclaredHolds and BlockRead for the    *)
(* block a tool is run with, CommandRead for the command of its setup).  The    *)
(* second follows a command through its steps: Typed, Settled (the block is     *)
(* the one that was resolved) and Made (what setup made is still there) are     *)
(* inductive.                                                                   *)
EXTENDS Runtime, TLAPS

-----------------------------------------------------------------------------
(* Layers *)

\* The value that stands for saying nothing is none that a block holds.
Mute(v, k) == Speaks(v, k) /\ v.at[k] = Silent

\* What lies at a place where the manifest and the override both have a block: their
\* merge, given what lies one level below.
LEMMA BothSay ==
    ASSUME NEW m, NEW o, IsDict(m), IsDict(o), NEW below, NEW r,
           r = [k \in (DOMAIN m.at \cup DOMAIN o.at) \ {k \in DOMAIN o.at : o.at[k] = Null} |->
                  CASE k \notin DOMAIN o.at -> m.at[k]
                    [] HasDict(m.at, k) /\ HasDict(o.at, k) -> Dict(below[k])
                    [] OTHER -> o.at[k]],
           NEW k
    PROVE  LET u == Under(Place(m, o), k)
               w == Says(Dict(r), k)
           IN  /\ ~(IsDict(Says(m, k)) /\ IsDict(Says(o, k))) => w = Layer(Place(m, o), k)
               /\ IsDict(u.m) /\ IsDict(u.o) => w = Dict(below[k])
               /\ IsDict(u.m) /\ ~IsDict(u.o) => w = u.m
               /\ ~IsDict(u.m) /\ IsDict(u.o) => w = u.o
               /\ ~IsBlock(u) => ~IsDict(w)
               /\ Mute(Dict(r), k) => Mute(m, k) \/ Mute(o, k)
<1> DEFINE D == (DOMAIN m.at \cup DOMAIN o.at) \ {x \in DOMAIN o.at : o.at[x] = Null}
           u == Under(Place(m, o), k)
           w == Says(Dict(r), k)
<1>1. DOMAIN r = D
  OBVIOUS
<1>2. k \in D => r[k] = CASE k \notin DOMAIN o.at -> m.at[k]
                          [] HasDict(m.at, k) /\ HasDict(o.at, k) -> Dict(below[k])
                          [] OTHER -> o.at[k]
  OBVIOUS
<1>3. w = IF k \in D THEN r[k] ELSE Silent
  BY <1>1 DEF Says, Speaks, IsDict, Dict
<1> HIDE DEF w
<1>4. Mute(Dict(r), k) => Mute(m, k) \/ Mute(o, k)
  <2> SUFFICES ASSUME k \in D, r[k] = Silent PROVE Mute(m, k) \/ Mute(o, k)
    BY <1>1 DEF Mute, Speaks, Dict
  <2>1. \A x : Dict(x) # Silent
    BY DEF Dict, Silent
  <2>2. CASE k \notin DOMAIN o.at
    <3>1. r[k] = m.at[k] /\ k \in DOMAIN m.at
      BY <1>2, <2>2 DEF HasDict
    <3> QED
      BY <3>1 DEF Mute, Speaks
  <2>3. CASE k \in DOMAIN o.at
    <3>1. r[k] = Dict(below[k]) \/ r[k] = o.at[k]
      BY <1>2, <2>3
    <3> QED
      BY <2>1, <2>3, <3>1 DEF Mute, Speaks
  <2> QED
    BY <2>2, <2>3
<1>5. CASE k \notin DOMAIN o.at
  <2>1. w = Says(m, k)
    <3>1. k \in D <=> Speaks(m, k)
      BY <1>5 DEF Speaks
    <3>2. k \in D => r[k] = m.at[k]
      BY <1>2, <1>5 DEF HasDict
    <3> QED
      BY <1>3, <3>1, <3>2 DEF Says
  <2>2. ~Speaks(o, k) /\ Says(o, k) = Silent /\ ~IsDict(Silent)
    BY <1>5 DEF Speaks, Says, Silent, IsDict
  <2>3. u.m = Says(m, k) /\ u.o = Silent
    BY <2>2 DEF Under, Place
  <2> QED
    BY <1>4, <2>1, <2>2, <2>3 DEF Layer, Place, IsBlock, w
<1>6. CASE k \in DOMAIN o.at /\ o.at[k] = Null
  <2>1. w = Silent
    BY <1>3, <1>6
  <2>2. Speaks(o, k) /\ ~IsDict(Null) /\ ~IsDict(Silent)
    BY <1>6 DEF Speaks, Silent, Null, IsDict
  <2>3. u.m = Silent /\ u.o = Null
    BY <2>2, <1>6 DEF Under, Place, Says
  <2> QED
    BY <1>6, <1>4, <2>1, <2>2, <2>3 DEF Layer, Place, IsBlock, w
<1>7. CASE k \in DOMAIN o.at /\ o.at[k] # Null
  <2>1. Speaks(o, k) /\ k \in D /\ Says(o, k) = o.at[k] /\ u.o = o.at[k]
    BY <1>7 DEF Speaks, Says, Under, Place
  <2>2. IsDict(Says(m, k)) <=> HasDict(m.at, k)
    BY DEF Says, Speaks, HasDict, Silent, IsDict
  <2>3. Layer(Place(m, o), k) = o.at[k]
    BY <1>7, <2>1 DEF Layer, Place
  <2>4. u.m = IF ~IsDict(o.at[k]) THEN Silent ELSE Says(m, k)
    BY <2>1 DEF Under, Place
  <2>5. HasDict(o.at, k) <=> IsDict(o.at[k])
    BY <1>7 DEF HasDict
  <2>6. w = IF HasDict(m.at, k) /\ HasDict(o.at, k) THEN Dict(below[k]) ELSE o.at[k]
    BY <1>2, <1>3, <1>7, <2>1
  <2>7. ~IsDict(Silent)
    BY DEF Silent, IsDict
  <2> QED
    BY <1>4, <2>1, <2>2, <2>3, <2>4, <2>5, <2>6, <2>7 DEF IsBlock, w
<1> QED
  BY <1>5, <1>6, <1>7

\* And where one of them at most has a block.
LEMMA OneSays ==
    ASSUME NEW m, NEW o, ~(IsDict(m) /\ IsDict(o)), NEW k
    PROVE  LET u == Under(Place(m, o), k)
               w == Says(IF IsDict(o) THEN o ELSE m, k)
           IN  /\ w = Layer(Place(m, o), k)
               /\ ~(IsDict(u.m) /\ IsDict(u.o))
               /\ IsDict(u.m) => w = u.m
               /\ IsDict(u.o) => w = u.o
               /\ ~IsBlock(u) => ~IsDict(w)
               /\ Mute(IF IsDict(o) THEN o ELSE m, k) => Mute(m, k) \/ Mute(o, k)
<1> DEFINE u == Under(Place(m, o), k)
           w == Says(IF IsDict(o) THEN o ELSE m, k)
<1>1. ~IsDict(Silent)
  BY DEF Silent, IsDict
<1>2. CASE IsDict(o)
  <2>1. w = Says(o, k) /\ Says(m, k) = Silent /\ u.m = Silent /\ u.o = w
    BY <1>2 DEF Says, Speaks, Under, Place
  <2>2. w = Layer(Place(m, o), k)
    BY <1>2, <2>1 DEF Layer, Place, Says, Speaks
  <2> QED
    BY <1>1, <2>1, <2>2 DEF IsBlock
<1>3. CASE ~IsDict(o)
  <2>1. w = Says(m, k) /\ Says(o, k) = Silent /\ ~Speaks(o, k)
    BY <1>3 DEF Says, Speaks
  <2>2. u.m = w /\ u.o = Silent
    BY <2>1 DEF Under, Place
  <2>3. w = Layer(Place(m, o), k)
    BY <2>1 DEF Layer, Place
  <2> QED
    BY <1>1, <2>2, <2>3 DEF IsBlock
<1> QED
  BY <1>2, <1>3

\* What lies at a place, of the blocks of every level.
Lay(one, other, both) == IF IsDict(one) /\ IsDict(other) THEN Dict(both)
                         ELSE IF IsDict(other) THEN other ELSE one
Lay5(m, o) == Lay(m, o, DeepMerge(m.at, o.at))
Lay4(m, o) == Lay(m, o, Merge4(m.at, o.at))
Lay3(m, o) == Lay(m, o, Merge3(m.at, o.at))
Lay2(m, o) == Lay(m, o, Merge2(m.at, o.at))
Lay1(m, o) == Lay(m, o, Merge1(m.at, o.at))

\* What v says of k, if v lies at a place and `below` at the place of k under it.
LaidAs(pl, v, k, below) ==
    /\ ~(IsDict(Says(pl.m, k)) /\ IsDict(Says(pl.o, k))) => Says(v, k) = Layer(pl, k)
    /\ IsBlock(Under(pl, k)) => Says(v, k) = below
    /\ IsDict(Says(v, k)) <=> IsBlock(Under(pl, k))
    /\ Mute(v, k) => Mute(pl.m, k) \/ Mute(pl.o, k)

\* Where both have a block under k, it is theirs.
LEMMA UnderBlocks ==
    ASSUME NEW m, NEW o, NEW k
    PROVE  LET u == Under(Place(m, o), k)
           IN  IsDict(u.m) /\ IsDict(u.o) =>
                 k \in DOMAIN m.at \cup DOMAIN o.at /\ u.m = m.at[k] /\ u.o = o.at[k]
<1> DEFINE u == Under(Place(m, o), k)
<1>1. u.o = Says(o, k) /\ (u.m = Silent \/ u.m = Says(m, k))
  BY DEF Under, Place
<1>2. ~IsDict(Silent)
  BY DEF Silent, IsDict
<1> QED
  BY <1>1, <1>2 DEF Says, Speaks

LEMMA LevelSays ==
    ASSUME NEW m, NEW o, NEW k, NEW below, NEW r,
           r = [x \in (DOMAIN m.at \cup DOMAIN o.at) \ {x \in DOMAIN o.at : o.at[x] = Null} |->
                  CASE x \notin DOMAIN o.at -> m.at[x]
                    [] HasDict(m.at, x) /\ HasDict(o.at, x) -> Dict(below[x])
                    [] OTHER -> o.at[x]]
    PROVE  LaidAs(Place(m, o), Lay(m, o, r), k,
                  Lay(Under(Place(m, o), k).m, Under(Place(m, o), k).o, below[k]))
<1> DEFINE u == Under(Place(m, o), k)
           w == Says(Lay(m, o, r), k)
<1>1. Place(m, o).m = m /\ Place(m, o).o = o
  BY DEF Place
<1>2. CASE IsDict(m) /\ IsDict(o)
  <2>1. w = Says(Dict(r), k) /\ Lay(m, o, r) = Dict(r)
    BY <1>2 DEF Lay
  <2> HIDE DEF u, w
  <2>2. /\ ~(IsDict(Says(m, k)) /\ IsDict(Says(o, k))) => w = Layer(Place(m, o), k)
        /\ IsDict(u.m) /\ IsDict(u.o) => w = Dict(below[k])
        /\ IsDict(u.m) /\ ~IsDict(u.o) => w = u.m
        /\ ~IsDict(u.m) /\ IsDict(u.o) => w = u.o
        /\ ~IsBlock(u) => ~IsDict(w)
        /\ Mute(Dict(r), k) => Mute(m, k) \/ Mute(o, k)
    BY <1>2, <2>1, BothSay DEF u
  <2>3. IsBlock(u) => w = Lay(u.m, u.o, below[k]) /\ IsDict(w)
    BY <2>2 DEF Lay, IsBlock, IsDict, Dict
  <2> QED
    BY <1>1, <2>1, <2>2, <2>3 DEF LaidAs, u, w
<1>3. CASE ~(IsDict(m) /\ IsDict(o))
  <2>1. /\ w = Says(IF IsDict(o) THEN o ELSE m, k)
        /\ Lay(m, o, r) = IF IsDict(o) THEN o ELSE m
    BY <1>3 DEF Lay
  <2> HIDE DEF u, w
  <2>2. /\ w = Layer(Place(m, o), k)
        /\ ~(IsDict(u.m) /\ IsDict(u.o))
        /\ IsDict(u.m) => w = u.m
        /\ IsDict(u.o) => w = u.o
        /\ ~IsBlock(u) => ~IsDict(w)
        /\ Mute(IF IsDict(o) THEN o ELSE m, k) => Mute(m, k) \/ Mute(o, k)
    BY <1>3, <2>1, OneSays DEF u
  <2>3. IsBlock(u) => w = Lay(u.m, u.o, below[k]) /\ IsDict(w)
    BY <2>2 DEF Lay, IsBlock
  <2> QED
    BY <1>1, <2>1, <2>2, <2>3 DEF LaidAs, u, w
<1> QED
  BY <1>2, <1>3

LEMMA Level5 ==
    ASSUME NEW m, NEW o, NEW k
    PROVE  LaidAs(Place(m, o), Lay5(m, o), k, Lay4(Under(Place(m, o), k).m, Under(Place(m, o), k).o))
<1> DEFINE u == Under(Place(m, o), k)
           below == [x \in DOMAIN m.at \cup DOMAIN o.at |-> Merge4(m.at[x].at, o.at[x].at)]
           r == DeepMerge(m.at, o.at)
<1>1. r = [x \in (DOMAIN m.at \cup DOMAIN o.at) \ {x \in DOMAIN o.at : o.at[x] = Null} |->
             CASE x \notin DOMAIN o.at -> m.at[x]
               [] HasDict(m.at, x) /\ HasDict(o.at, x) -> Dict(below[x])
               [] OTHER -> o.at[x]]
  BY DEF DeepMerge, MergeWith
<1>2. IsDict(u.m) /\ IsDict(u.o) => below[k] = Merge4(u.m.at, u.o.at)
  <2>1. IsDict(u.m) /\ IsDict(u.o) =>
          k \in DOMAIN m.at \cup DOMAIN o.at /\ u.m = m.at[k] /\ u.o = o.at[k]
    BY UnderBlocks
  <2> HIDE DEF u
  <2> QED
    BY <2>1
<1> HIDE DEF below, r, u
<1>3. LaidAs(Place(m, o), Lay(m, o, r), k, Lay(u.m, u.o, below[k]))
  BY <1>1, LevelSays DEF u
<1>4. Lay(u.m, u.o, below[k]) = Lay4(u.m, u.o)
  BY <1>2 DEF Lay, Lay4
<1> QED
  BY <1>3, <1>4 DEF Lay5, r, u

LEMMA Level4 ==
    ASSUME NEW m, NEW o, NEW k
    PROVE  LaidAs(Place(m, o), Lay4(m, o), k, Lay3(Under(Place(m, o), k).m, Under(Place(m, o), k).o))
<1> DEFINE u == Under(Place(m, o), k)
           below == [x \in DOMAIN m.at \cup DOMAIN o.at |-> Merge3(m.at[x].at, o.at[x].at)]
           r == Merge4(m.at, o.at)
<1>1. r = [x \in (DOMAIN m.at \cup DOMAIN o.at) \ {x \in DOMAIN o.at : o.at[x] = Null} |->
             CASE x \notin DOMAIN o.at -> m.at[x]
               [] HasDict(m.at, x) /\ HasDict(o.at, x) -> Dict(below[x])
               [] OTHER -> o.at[x]]
  BY DEF Merge4, MergeWith
<1>2. IsDict(u.m) /\ IsDict(u.o) => below[k] = Merge3(u.m.at, u.o.at)
  <2>1. IsDict(u.m) /\ IsDict(u.o) =>
          k \in DOMAIN m.at \cup DOMAIN o.at /\ u.m = m.at[k] /\ u.o = o.at[k]
    BY UnderBlocks
  <2> HIDE DEF u
  <2> QED
    BY <2>1
<1> HIDE DEF below, r, u
<1>3. LaidAs(Place(m, o), Lay(m, o, r), k, Lay(u.m, u.o, below[k]))
  BY <1>1, LevelSays DEF u
<1>4. Lay(u.m, u.o, below[k]) = Lay3(u.m, u.o)
  BY <1>2 DEF Lay, Lay3
<1> QED
  BY <1>3, <1>4 DEF Lay4, r, u

LEMMA Level3 ==
    ASSUME NEW m, NEW o, NEW k
    PROVE  LaidAs(Place(m, o), Lay3(m, o), k, Lay2(Under(Place(m, o), k).m, Under(Place(m, o), k).o))
<1> DEFINE u == Under(Place(m, o), k)
           below == [x \in DOMAIN m.at \cup DOMAIN o.at |-> Merge2(m.at[x].at, o.at[x].at)]
           r == Merge3(m.at, o.at)
<1>1. r = [x \in (DOMAIN m.at \cup DOMAIN o.at) \ {x \in DOMAIN o.at : o.at[x] = Null} |->
             CASE x \notin DOMAIN o.at -> m.at[x]
               [] HasDict(m.at, x) /\ HasDict(o.at, x) -> Dict(below[x])
               [] OTHER -> o.at[x]]
  BY DEF Merge3, MergeWith
<1>2. IsDict(u.m) /\ IsDict(u.o) => below[k] = Merge2(u.m.at, u.o.at)
  <2>1. IsDict(u.m) /\ IsDict(u.o) =>
          k \in DOMAIN m.at \cup DOMAIN o.at /\ u.m = m.at[k] /\ u.o = o.at[k]
    BY UnderBlocks
  <2> HIDE DEF u
  <2> QED
    BY <2>1
<1> HIDE DEF below, r, u
<1>3. LaidAs(Place(m, o), Lay(m, o, r), k, Lay(u.m, u.o, below[k]))
  BY <1>1, LevelSays DEF u
<1>4. Lay(u.m, u.o, below[k]) = Lay2(u.m, u.o)
  BY <1>2 DEF Lay, Lay2
<1> QED
  BY <1>3, <1>4 DEF Lay3, r, u

LEMMA Level2 ==
    ASSUME NEW m, NEW o, NEW k
    PROVE  LaidAs(Place(m, o), Lay2(m, o), k, Lay1(Under(Place(m, o), k).m, Under(Place(m, o), k).o))
<1> DEFINE u == Under(Place(m, o), k)
           below == [x \in DOMAIN m.at \cup DOMAIN o.at |-> Merge1(m.at[x].at, o.at[x].at)]
           r == Merge2(m.at, o.at)
<1>1. r = [x \in (DOMAIN m.at \cup DOMAIN o.at) \ {x \in DOMAIN o.at : o.at[x] = Null} |->
             CASE x \notin DOMAIN o.at -> m.at[x]
               [] HasDict(m.at, x) /\ HasDict(o.at, x) -> Dict(below[x])
               [] OTHER -> o.at[x]]
  BY DEF Merge2, MergeWith
<1>2. IsDict(u.m) /\ IsDict(u.o) => below[k] = Merge1(u.m.at, u.o.at)
  <2>1. IsDict(u.m) /\ IsDict(u.o) =>
          k \in DOMAIN m.at \cup DOMAIN o.at /\ u.m = m.at[k] /\ u.o = o.at[k]
    BY UnderBlocks
  <2> HIDE DEF u
  <2> QED
    BY <2>1
<1> HIDE DEF below, r, u
<1>3. LaidAs(Place(m, o), Lay(m, o, r), k, Lay(u.m, u.o, below[k]))
  BY <1>1, LevelSays DEF u
<1>4. Lay(u.m, u.o, below[k]) = Lay1(u.m, u.o)
  BY <1>2 DEF Lay, Lay1
<1> QED
  BY <1>3, <1>4 DEF Lay2, r, u

-----------------------------------------------------------------------------
(* What a block says on this host *)

\* x over what is below it: null in x takes back what is below.
Over(x, k, below) ==
    IF Speaks(x, k) THEN (IF x.at[k] = Null THEN Silent ELSE x.at[k]) ELSE below

LEMMA MergeSays ==
    ASSUME NEW a, NEW b, NEW k, ~(IsDict(Says(Dict(a), k)) /\ IsDict(Says(Dict(b), k)))
    PROVE  /\ Says(Dict(DeepMerge(a, b)), k) = Over(Dict(b), k, Says(Dict(a), k))
           /\ Mute(Dict(DeepMerge(a, b)), k) => Mute(Dict(a), k) \/ Mute(Dict(b), k)
<1>1. /\ IsDict(Dict(a)) /\ Dict(a).at = a /\ IsDict(Dict(b)) /\ Dict(b).at = b
      /\ Place(Dict(a), Dict(b)).m = Dict(a) /\ Place(Dict(a), Dict(b)).o = Dict(b)
  BY DEF IsDict, Dict, Place
<1>2. Lay5(Dict(a), Dict(b)) = Dict(DeepMerge(a, b))
  BY <1>1 DEF Lay5, Lay
<1>3. LaidAs(Place(Dict(a), Dict(b)), Lay5(Dict(a), Dict(b)), k,
             Lay4(Under(Place(Dict(a), Dict(b)), k).m, Under(Place(Dict(a), Dict(b)), k).o))
  BY Level5
<1>4. /\ Says(Dict(DeepMerge(a, b)), k) = Layer(Place(Dict(a), Dict(b)), k)
      /\ Mute(Dict(DeepMerge(a, b)), k) => Mute(Dict(a), k) \/ Mute(Dict(b), k)
  BY <1>1, <1>2, <1>3 DEF LaidAs
<1> QED
  BY <1>1, <1>4 DEF Layer, Over

\* The branch of an os block that is taken.
BranchName(q, h) ==
    IF h.subtype \notin Metadata /\ IsDict(Says(q, h.subtype)) THEN h.subtype ELSE "general"

OsOf(b, h) == Says(Says(Dict(b), "platforms"), h.os)
BranchOf(b, h) == Says(OsOf(b, h), BranchName(OsOf(b, h), h))

LEMMA BranchIs ==
    ASSUME NEW b, NEW h, IsDict(OsOf(b, h))
    PROVE  Branch(OsOf(b, h).at, h) = IF IsDict(BranchOf(b, h)) THEN BranchOf(b, h).at ELSE Empty
<1> DEFINE q == OsOf(b, h)
<1>1. \A x : x \in Subtypes(q.at) <=> x \notin Metadata /\ IsDict(Says(q, x))
  BY DEF Subtypes, Says, Speaks, IsDict, Silent
<1>2. \A x : x \in Subtypes(q.at) => q.at[x] = Says(q, x)
  BY <1>1 DEF Says, Speaks, IsDict, Silent
<1>3. "general" \notin Metadata
  BY DEF Metadata
<1>4. BranchOf(b, h) = Says(q, BranchName(q, h))
  BY DEF BranchOf
<1> HIDE DEF q
<1>5. CASE h.subtype \notin Metadata /\ IsDict(Says(q, h.subtype))
  BY <1>1, <1>2, <1>4, <1>5 DEF Branch, BranchName, q
<1>6. CASE ~(h.subtype \notin Metadata /\ IsDict(Says(q, h.subtype)))
  BY <1>1, <1>2, <1>3, <1>4, <1>6 DEF Branch, BranchName, q
<1> QED
  BY <1>5, <1>6

\* resolve_platform_block, for a field that no layer gives a block.
LEMMA HostSays ==
    ASSUME NEW b, NEW h, NEW k, k # "platforms",
           ~IsDict(Says(Dict(b), k)), ~IsDict(Says(OsOf(b, h), k)), ~IsDict(Says(BranchOf(b, h), k))
    PROVE  /\ Says(Dict(ForHost(b, h)), k) =
                 Over(BranchOf(b, h), k, Over(OsOf(b, h), k, Says(Dict(b), k)))
           /\ Mute(Dict(ForHost(b, h)), k) =>
                 Mute(Dict(b), k) \/ Mute(OsOf(b, h), k) \/ Mute(BranchOf(b, h), k)
<1> DEFINE q == OsOf(b, h)
           s == BranchOf(b, h)
           base == Without(b, {"platforms"})
           platforms == IF HasDict(b, "platforms") THEN b["platforms"].at ELSE Empty
           first == DeepMerge(base, TopLevel(q.at))
           second == DeepMerge(first, Branch(q.at, h))
<1>1. ~IsDict(Silent)
  BY DEF Silent, IsDict
<1>2. /\ Says(Dict(base), k) = Says(Dict(b), k)
      /\ Mute(Dict(base), k) => Mute(Dict(b), k)
  BY DEF Says, Speaks, Mute, Dict, IsDict, Without
<1>3. HasDict(platforms, h.os) <=> IsDict(q)
  BY <1>1 DEF HasDict, OsOf, Says, Speaks, Dict, IsDict, Empty
<1>4. HasDict(platforms, h.os) => platforms[h.os] = q
  BY <1>1 DEF HasDict, OsOf, Says, Speaks, Dict, IsDict, Empty
<1>5. ForHost(b, h) = IF IsDict(q) THEN second ELSE base
  <2> HIDE DEF q, base, platforms
  <2>1. ForHost(b, h) = ResolvePlatform(base, platforms, h)
    BY DEF ForHost, base, platforms
  <2> QED
    BY <1>3, <1>4, <2>1 DEF ResolvePlatform
<1>6. CASE ~IsDict(q)
  <2>1. ~Speaks(q, k) /\ ~Speaks(s, k)
    BY <1>1, <1>6 DEF Speaks, BranchOf, Says
  <2> QED
    BY <1>2, <1>5, <1>6, <2>1 DEF Over
<1>7. CASE IsDict(q)
  <2>1. Dict(TopLevel(q.at)).at = TopLevel(q.at) /\ IsDict(Dict(TopLevel(q.at)))
    BY DEF Dict, IsDict
  <2>2. Speaks(Dict(TopLevel(q.at)), k) <=> Speaks(q, k)
    BY <1>7, <2>1 DEF TopLevel, Without, Subtypes, Speaks, Says
  <2>3. Speaks(q, k) => TopLevel(q.at)[k] = q.at[k]
    BY <1>7, <2>1, <2>2 DEF TopLevel, Without, Speaks
  <2> HIDE DEF q, base, first, second
  <2>4. /\ Says(Dict(first), k) = Over(q, k, Says(Dict(b), k))
        /\ Mute(Dict(first), k) => Mute(Dict(b), k) \/ Mute(q, k)
    <3>1. /\ Says(Dict(first), k) = Over(Dict(TopLevel(q.at)), k, Says(Dict(base), k))
          /\ Mute(Dict(first), k) => Mute(Dict(base), k) \/ Mute(Dict(TopLevel(q.at)), k)
      BY <1>2, MergeSays DEF first
    <3>2. Mute(Dict(TopLevel(q.at)), k) => Mute(q, k)
      BY <2>1, <2>2, <2>3 DEF Mute
    <3> QED
      BY <1>2, <2>1, <2>2, <2>3, <3>1, <3>2 DEF Over
  <2>5. ~IsDict(Says(Dict(first), k))
    <3>1. Speaks(q, k) => Says(q, k) = q.at[k]
      BY DEF Says
    <3> QED
      BY <1>1, <2>4, <3>1 DEF Over, q
  <2>6. /\ Says(Dict(second), k) = Over(Dict(Branch(q.at, h)), k, Says(Dict(first), k))
        /\ Mute(Dict(second), k) => Mute(Dict(first), k) \/ Mute(Dict(Branch(q.at, h)), k)
    BY <2>5, MergeSays DEF second
  <2>7. /\ Over(Dict(Branch(q.at, h)), k, Says(Dict(first), k)) = Over(s, k, Says(Dict(first), k))
        /\ Mute(Dict(Branch(q.at, h)), k) => Mute(s, k)
    <3>1. Branch(q.at, h) = IF IsDict(s) THEN s.at ELSE Empty
      BY <1>7, BranchIs DEF q
    <3> QED
      BY <3>1 DEF Over, Mute, Speaks, Dict, IsDict, Empty
  <2> QED
    BY <1>5, <1>7, <2>4, <2>6, <2>7 DEF q
<1> QED
  BY <1>6, <1>7

-----------------------------------------------------------------------------
(* The declared value is the one the merges leave *)

\* Nothing at this place is a block of its own under k.
Plainly(pl, k) ==
    /\ ~Mute(pl.m, k) /\ ~Mute(pl.o, k)
    /\ ~IsDict(Says(pl.m, k)) /\ ~IsDict(Says(pl.o, k))

\* q is what the blocks at the place of an os come to.
OsLies(os, q) ==
    /\ IsDict(q) <=> IsBlock(os)
    /\ IsBlock(os) => q = Lay3(os.m, os.o)

LEMMA NoBlock ==
    ASSUME NEW pl, NEW k, ~IsBlock(pl)
    PROVE  Layer(pl, k) = Silent
BY DEF IsBlock, Layer, Says, Speaks

LEMMA LayerPlain ==
    ASSUME NEW pl, NEW k, Plainly(pl, k)
    PROVE  ~IsDict(Layer(pl, k))
<1>1. ~IsDict(Silent)
  BY DEF Silent, IsDict
<1> QED
  BY <1>1 DEF Plainly, Layer, Says

\* The field of an os block and of its branch.
LEMMA OsSays ==
    ASSUME NEW os, NEW q, NEW k, OsLies(os, q), os = Place(os.m, os.o),
           Plainly(os, k), Plainly(SubPlace(os), k)
    PROVE  LET s == Says(q, BranchName(q, host)) IN
           /\ Says(q, k) = Layer(os, k) /\ ~Mute(q, k)
           /\ Says(s, k) = Layer(SubPlace(os), k) /\ ~Mute(s, k)
<1> DEFINE s == Says(q, BranchName(q, host))
           sub == Under(os, BranchName(q, host))
<1>1. ~IsDict(Silent)
  BY DEF Silent, IsDict
<1>2. CASE ~IsBlock(os)
  <2>1. ~IsDict(q) /\ s = Silent
    BY <1>1, <1>2 DEF OsLies, Says, Speaks
  <2>2. ~IsBlock(SubPlace(os))
    BY <1>1, <1>2 DEF SubPlace, Under, Place, Says, Speaks, IsBlock
  <2> QED
    BY <1>1, <1>2, <2>1, <2>2, NoBlock DEF Says, Speaks, Mute
<1>3. CASE IsBlock(os)
  <2>1. \A x : LaidAs(os, q, x, Lay2(Under(os, x).m, Under(os, x).o))
    BY <1>3, Level3 DEF OsLies
  <2>2. Says(q, k) = Layer(os, k) /\ ~Mute(q, k)
    BY <2>1 DEF LaidAs, Plainly
  <2>3. SubPlace(os) = sub
    BY <2>1 DEF LaidAs, SubPlace, BranchName
  <2>4. IsDict(s) <=> IsBlock(sub)
    BY <2>1 DEF LaidAs
  <2>5. IsBlock(sub) => s = Lay2(sub.m, sub.o)
    BY <2>1 DEF LaidAs
  <2>6. sub = Place(sub.m, sub.o)
    BY DEF Under, Place
  <2> HIDE DEF s, sub
  <2>7. CASE IsBlock(sub)
    <3>1. LaidAs(sub, s, k, Lay1(Under(sub, k).m, Under(sub, k).o))
      BY <2>5, <2>6, <2>7, Level2
    <3> QED
      BY <2>2, <2>3, <3>1 DEF LaidAs, Plainly, s
  <2>8. CASE ~IsBlock(sub)
    <3>1. ~IsDict(s)
      BY <2>4, <2>8
    <3>2. Says(s, k) = Silent /\ ~Mute(s, k)
      BY <3>1 DEF Says, Speaks, Mute
    <3>3. Layer(sub, k) = Silent
      BY <2>8, NoBlock
    <3> QED
      BY <2>2, <2>3, <3>2, <3>3 DEF s
  <2> QED
    BY <2>7, <2>8
<1> QED
  BY <1>2, <1>3

LEMMA DeclaredHolds ==
    ASSUME NEW b, NEW base, NEW os, NEW k, k # "platforms",
           Says(Dict(b), k) = Layer(base, k), ~Mute(Dict(b), k),
           OsLies(os, OsOf(b, host)), os = Place(os.m, os.o),
           Plainly(base, k), Plainly(os, k), Plainly(SubPlace(os), k)
    PROVE  LET d == Declared(base, os, k)
               F == ForHost(b, host)
           IN  IF d = Null THEN ~Has(F, k) ELSE Has(F, k) /\ F[k] = d
<1> DEFINE d == Declared(base, os, k)
           F == ForHost(b, host)
           v == Dict(b)
           q == OsOf(b, host)
           s == BranchOf(b, host)
<1>1. s = Says(q, BranchName(q, host))
  BY DEF BranchOf
<1>2. /\ Says(q, k) = Layer(os, k) /\ ~Mute(q, k)
      /\ Says(s, k) = Layer(SubPlace(os), k) /\ ~Mute(s, k)
  <2> HIDE DEF q, s
  <2> QED
    BY <1>1, OsSays DEF q
<1>3. ~IsDict(Says(v, k)) /\ ~IsDict(Says(q, k)) /\ ~IsDict(Says(s, k))
  BY <1>2, LayerPlain
<1>4. Says(Dict(F), k) = Over(s, k, Over(q, k, Says(v, k))) /\ ~Mute(Dict(F), k)
  BY <1>2, <1>3, HostSays
<1>5. Speaks(Dict(F), k) <=> k \in DOMAIN F
  BY DEF Speaks, Dict, IsDict
<1>6. Dict(F).at = F
  BY DEF Dict
<1>7. Silent # Null
  BY DEF Silent, Null
<1>8. d = Or(Says(s, k), Or(Says(q, k), Or(Says(v, k), Null)))
  BY <1>2 DEF Declared
<1> HIDE DEF d, F, v, q, s
<1>9. d = Null => Says(Dict(F), k) \in {Silent, Null}
  BY <1>2, <1>4, <1>7, <1>8 DEF Over, Or, Says, Mute
<1>10. d # Null => Says(Dict(F), k) = d /\ d # Silent
  BY <1>2, <1>4, <1>7, <1>8 DEF Over, Or, Says, Mute
<1> QED
  BY <1>4, <1>5, <1>6, <1>9, <1>10 DEF Says, Has, Mute, d, F

-----------------------------------------------------------------------------
(* The places of the manifest and the override *)

LEMMA OsPlaceLies ==
    ASSUME NEW m, NEW o, NEW b, Dict(b) = Lay5(m, o)
    PROVE  OsLies(OsPlace(Place(m, o)), OsOf(b, host))
<1> DEFINE u == Under(Place(m, o), "platforms")
           p == Says(Dict(b), "platforms")
           os == OsPlace(Place(m, o))
           q == OsOf(b, host)
<1>1. LaidAs(Place(m, o), Dict(b), "platforms", Lay4(u.m, u.o))
  BY Level5
<1>2. (IsDict(p) <=> IsBlock(u)) /\ (IsBlock(u) => p = Lay4(u.m, u.o))
  BY <1>1 DEF LaidAs
<1>3. os = Under(u, host.os) /\ q = Says(p, host.os)
  BY DEF OsPlace, OsOf
<1>4. u = Place(u.m, u.o)
  BY DEF Under, Place
<1>5. ~IsDict(Silent)
  BY DEF Silent, IsDict
<1> HIDE DEF u, p, os, q
<1>6. CASE IsBlock(u)
  <2>1. LaidAs(u, p, host.os, Lay3(os.m, os.o))
    BY <1>2, <1>3, <1>4, <1>6, Level4
  <2> QED
    BY <1>3, <2>1 DEF LaidAs, OsLies, os, q
<1>7. CASE ~IsBlock(u)
  <2>1. ~IsDict(q)
    BY <1>2, <1>3, <1>5, <1>7 DEF Says, Speaks
  <2>2. ~IsBlock(os)
    BY <1>3, <1>5, <1>7 DEF Under, Place, Says, Speaks, IsBlock
  <2> QED
    BY <2>1, <2>2 DEF OsLies, os, q
<1> QED
  BY <1>6, <1>7

Keys == DispatchFields \cup {"command", "prefer"}
PlainOs(v) == IsDict(v) => PlainBlock(v.at) /\ PlainBelow(v.at)
PlainSub(v) == IsDict(v) => PlainBlock(v.at)
PlainTop(v) == IsDict(v) => PlainLayers(v.at)

LEMMA PlainSays ==
    ASSUME NEW v, PlainSub(v), NEW k \in Keys
    PROVE  ~Mute(v, k) /\ ~IsDict(Says(v, k))
<1>1. ~IsDict(Silent) /\ ~IsDict(Null) /\ Silent # Null
  BY DEF Silent, Null, IsDict
<1>2. ASSUME Speaks(v, k) PROVE v.at[k] # Silent /\ ~IsDict(v.at[k])
  <2>1. PlainBlock(v.at) /\ k \in DOMAIN v.at
    BY <1>2 DEF PlainSub, Speaks
  <2>2. CASE k = "prefer"
    <3>1. v.at[k] = Null \/ v.at[k].is = "list"
      BY <2>1, <2>2 DEF PlainBlock, PlainPrefer
    <3> QED
      BY <1>1, <3>1 DEF IsDict, Silent
  <2>3. CASE k # "prefer"
    <3>1. v.at[k] = Null \/ v.at[k].is \in {"str", "var"}
      BY <2>1, <2>3 DEF PlainBlock, PlainFields, Plain, Keys
    <3> QED
      BY <1>1, <3>1 DEF IsDict, Silent
  <2> QED
    BY <2>2, <2>3
<1> QED
  BY <1>1, <1>2 DEF Mute, Says

LEMMA PlainPlaces ==
    ASSUME NEW os, PlainOs(os.m), PlainOs(os.o), NEW k \in Keys
    PROVE  Plainly(os, k) /\ Plainly(SubPlace(os), k)
<1>1. ~IsDict(Silent)
  BY DEF Silent, IsDict
<1>2. Plainly(os, k)
  BY PlainSays DEF PlainOs, PlainSub, Plainly
<1>3. \A v, x : PlainOs(v) => PlainSub(Says(v, x))
  BY <1>1 DEF PlainOs, PlainBelow, PlainSub, Says, Speaks
<1>4. PlainSub(Silent)
  BY <1>1 DEF PlainSub
<1>5. \A x : PlainSub(Under(os, x).m) /\ PlainSub(Under(os, x).o)
  BY <1>3, <1>4 DEF Under, Place
<1>6. PlainSub(SubPlace(os).m) /\ PlainSub(SubPlace(os).o)
  BY <1>5 DEF SubPlace
<1> QED
  BY <1>2, <1>6, PlainSays DEF Plainly

LEMMA PlainOsPlace ==
    ASSUME NEW m, NEW o, PlainTop(m), PlainTop(o)
    PROVE  LET os == OsPlace(Place(m, o)) IN PlainOs(os.m) /\ PlainOs(os.o)
<1>1. ~IsDict(Silent) /\ PlainOs(Silent)
  BY DEF Silent, IsDict, PlainOs
<1>2. ASSUME NEW v, PlainTop(v), NEW x
      PROVE  PlainOs(Says(Says(v, "platforms"), x))
  <2> SUFFICES ASSUME IsDict(Says(Says(v, "platforms"), x))
               PROVE  LET w == Says(Says(v, "platforms"), x) IN PlainBlock(w.at) /\ PlainBelow(w.at)
    BY DEF PlainOs
  <2>1. Speaks(v, "platforms") /\ Speaks(v.at["platforms"], x)
    BY <1>1 DEF Says, Speaks
  <2>2. HasDict(v.at, "platforms") /\ x \in DOMAIN v.at["platforms"].at
    BY <2>1 DEF Speaks, HasDict
  <2>3. Says(Says(v, "platforms"), x) = v.at["platforms"].at[x]
    BY <2>1 DEF Says
  <2>4. PlainLayers(v.at)
    BY <2>1, <1>2 DEF PlainTop, Speaks
  <2> QED
    BY <2>2, <2>3, <2>4 DEF PlainLayers, PlainBelow
<1>3. \A x : Says(Silent, x) = Silent
  BY <1>1 DEF Says, Speaks
<1> QED
  BY <1>1, <1>2, <1>3 DEF OsPlace, Under, Place

\* The runtime: what is declared is what ForHost leaves of the merged block.
LEMMA RuntimeDeclared ==
    ASSUME tool \in Tools, files \in Overrides, PlainDeclarations, tool.runtime # Empty,
           NEW k \in Keys
    PROVE  LET d == DeclaredRuntime(k, Empty)
               F == ForHost(Merged, host)
           IN  IF d = Null THEN ~Has(F, k) ELSE Has(F, k) /\ F[k] = d
<1> DEFINE m == Dict(tool.runtime)
           o == files.runtime
           base == Place(m, o)
           os == OsPlace(base)
<1>1. PlainTop(m) /\ PlainTop(o)
  BY DEF PlainDeclarations, PlainTop, Dict
<1>2. Base = base
  BY DEF Base
<1>3. Dict(Merged) = Lay5(m, o)
  BY DEF Merged, Overridden, Lay5, Lay, IsDict, Dict
<1>4. base.m = m /\ base.o = o /\ os = Place(os.m, os.o)
  BY DEF Place, OsPlace, Under
<1>5. k # "platforms" /\ k \notin DOMAIN Empty
  BY DEF Keys, DispatchFields, Empty
<1> HIDE DEF m, o, base, os
<1>6. PlainOs(os.m) /\ PlainOs(os.o)
  BY <1>1, PlainOsPlace DEF os, base
<1>7. Plainly(os, k) /\ Plainly(SubPlace(os), k)
  BY <1>6, PlainPlaces
<1>8. Plainly(base, k)
  BY <1>1, <1>4, PlainSays DEF PlainTop, PlainSub, PlainLayers, Plainly
<1>9. Says(Dict(Merged), k) = Layer(base, k) /\ ~Mute(Dict(Merged), k)
  <2>1. LaidAs(base, Dict(Merged), k, Lay4(Under(base, k).m, Under(base, k).o))
    BY <1>3, Level5 DEF base
  <2> QED
    BY <1>8, <2>1 DEF LaidAs, Plainly
<1>10. OsLies(os, OsOf(Merged, host))
  BY <1>3, OsPlaceLies DEF os, base
<1>11. DeclaredRuntime(k, Empty) = Declared(base, os, k)
  BY <1>2, <1>5 DEF DeclaredRuntime, os
<1> QED
  BY <1>4, <1>5, <1>7, <1>8, <1>9, <1>10, <1>11, DeclaredHolds

\* A declared value is of the form its field has.
LEMMA RuntimePlain ==
    ASSUME tool \in Tools, files \in Overrides, PlainDeclarations, tool.runtime # Empty,
           NEW k \in Keys
    PROVE  LET d == DeclaredRuntime(k, Empty)
           IN  IF k = "prefer" THEN PlainPrefer(d) ELSE Plain(d)
<1> DEFINE Fits(w) == IF k = "prefer" THEN PlainPrefer(w) ELSE Plain(w)
           os == OsPlace(Base)
<1>1. Base = Place(Dict(tool.runtime), files.runtime) /\ Base.m = Dict(tool.runtime)
      /\ Base.o = files.runtime
  BY DEF Base, Place
<1>2. PlainTop(Base.m) /\ PlainTop(Base.o)
  BY <1>1 DEF PlainDeclarations, PlainTop, Dict
<1>3. PlainOs(os.m) /\ PlainOs(os.o)
  BY <1>1, <1>2, PlainOsPlace
<1>4. ~IsDict(Silent)
  BY DEF Silent, IsDict
<1>5. ASSUME NEW v, PlainSub(v), Speaks(v, k) PROVE Fits(v.at[k])
  <2>1. PlainBlock(v.at) /\ k \in DOMAIN v.at
    BY <1>5 DEF PlainSub, Speaks
  <2> QED
    BY <2>1 DEF PlainBlock, PlainFields, Keys
<1>6. ASSUME NEW pl, PlainSub(pl.m), PlainSub(pl.o)
      PROVE  Layer(pl, k) = Silent \/ Fits(Layer(pl, k))
  <2>1. Layer(pl, k) = Silent \/ (Speaks(pl.m, k) /\ Layer(pl, k) = pl.m.at[k])
                              \/ (Speaks(pl.o, k) /\ Layer(pl, k) = pl.o.at[k])
    BY DEF Layer, Says
  <2> HIDE DEF Fits
  <2> QED
    BY <1>5, <1>6, <2>1
<1>7. PlainSub(Base.m) /\ PlainSub(Base.o) /\ PlainSub(os.m) /\ PlainSub(os.o)
  BY <1>2, <1>3 DEF PlainTop, PlainLayers, PlainOs, PlainSub
<1>8. PlainSub(SubPlace(os).m) /\ PlainSub(SubPlace(os).o)
  <2>1. \A v, x : PlainOs(v) => PlainSub(Says(v, x))
    BY <1>4 DEF PlainOs, PlainBelow, PlainSub, Says, Speaks
  <2>2. \A x : PlainSub(Under(os, x).m) /\ PlainSub(Under(os, x).o)
    BY <1>3, <1>4, <2>1 DEF Under, Place, PlainSub
  <2> HIDE DEF os
  <2> QED
    BY <2>2 DEF SubPlace
<1>9. Fits(Null)
  BY DEF PlainPrefer, Plain
<1>10. k \notin DOMAIN Empty
  BY DEF Empty
<1> HIDE DEF Fits, os
<1>11. Fits(DeclaredRuntime(k, Empty))
  BY <1>6, <1>7, <1>8, <1>9, <1>10 DEF DeclaredRuntime, Declared, Or, os
<1> QED
  BY <1>11 DEF Fits

-----------------------------------------------------------------------------
(* Substitution *)

LEMMA SubstSays ==
    ASSUME NEW vs, NEW b
    PROVE  /\ DOMAIN Subst(vs, b) = DOMAIN b
           /\ \A k \in DOMAIN b \ {"schema"} : Subst(vs, b)[k] = Subst6(vs, b[k])
BY DEF Subst, SubstWith, Dict

LEMMA SubstValue ==
    ASSUME NEW vs, NEW v
    PROVE  /\ v.is = "var" => /\ Subst6(vs, v) = Followed(vs, v.name)
                              /\ Subst5(vs, v) = Followed(vs, v.name)
                              /\ Subst4(vs, v) = Followed(vs, v.name)
           /\ v.is \notin {"var", "dict", "list"} =>
                 Subst6(vs, v) = v /\ Subst5(vs, v) = v /\ Subst4(vs, v) = v
           /\ v.is = "list" => /\ Subst6(vs, v) = List([i \in DOMAIN v.items |-> Subst5(vs, v.items[i])])
                               /\ ~IsDict(Subst5(vs, v))
<1>1. CASE v.is = "var"
  BY <1>1 DEF Subst6, Subst5, Subst4, SubstWith
<1>2. CASE v.is \notin {"var", "dict", "list"}
  BY <1>2 DEF Subst6, Subst5, Subst4, SubstWith
<1>3. CASE v.is = "list"
  BY <1>3 DEF Subst6, Subst5, SubstWith, List, IsDict
<1> QED
  BY <1>1, <1>2, <1>3

LEMMA SubstBlock ==
    ASSUME NEW vs, NEW v, v.is = "dict"
    PROVE  /\ DOMAIN Subst5(vs, v).at = DOMAIN v.at
           /\ \A k \in DOMAIN v.at \ {"schema"} : Subst5(vs, v).at[k] = Subst4(vs, v.at[k])
BY DEF Subst5, SubstWith, Dict

LEMMA RefsSay ==
    ASSUME NEW b, NEW k \in DOMAIN b \ {"schema"}
    PROVE  /\ b[k].is = "var" => b[k].name \in Refs(b)
           /\ b[k].is = "list" =>
                \A i \in DOMAIN b[k].items :
                   LET w == b[k].items[i] IN
                   /\ w.is = "var" => w.name \in Refs(b)
                   /\ w.is = "dict" => \A x \in DOMAIN w.at \ {"schema"} :
                                          w.at[x].is = "var" => w.at[x].name \in Refs(b)
<1>1. Refs(b) = UNION {Refs6(b[x]) : x \in DOMAIN b \ {"schema"}}
  BY DEF Refs, RefsWith, Dict
<1>2. Refs6(b[k]) \subseteq Refs(b)
  BY <1>1
<1>3. b[k].is = "var" => Refs6(b[k]) = {b[k].name}
  BY DEF Refs6, RefsWith
<1>4. ASSUME b[k].is = "list", NEW i \in DOMAIN b[k].items
      PROVE  LET w == b[k].items[i] IN
             /\ w.is = "var" => w.name \in Refs(b)
             /\ w.is = "dict" => \A x \in DOMAIN w.at \ {"schema"} :
                                    w.at[x].is = "var" => w.at[x].name \in Refs(b)
  <2> DEFINE w == b[k].items[i]
  <2>1. Refs6(b[k]) = UNION {Refs5(b[k].items[j]) : j \in DOMAIN b[k].items}
    BY <1>4 DEF Refs6, RefsWith
  <2>2. Refs5(w) \subseteq Refs(b)
    BY <1>2, <2>1
  <2>3. w.is = "var" => Refs5(w) = {w.name}
    BY DEF Refs5, RefsWith
  <2>4. w.is = "dict" => Refs5(w) = UNION {Refs4(w.at[x]) : x \in DOMAIN w.at \ {"schema"}}
    BY DEF Refs5, RefsWith
  <2>5. \A x : w.at[x].is = "var" => Refs4(w.at[x]) = {w.at[x].name}
    BY DEF Refs4, RefsWith
  <2> HIDE DEF w
  <2>6. w.is = "var" => w.name \in Refs(b)
    BY <2>2, <2>3
  <2>7. ASSUME w.is = "dict", NEW x \in DOMAIN w.at \ {"schema"}, w.at[x].is = "var"
        PROVE  w.at[x].name \in Refs(b)
    <3>1. Refs4(w.at[x]) \subseteq Refs5(w)
      BY <2>4, <2>7
    <3> QED
      BY <2>2, <2>5, <2>7, <3>1
  <2> QED
    BY <2>6, <2>7 DEF w
<1> QED
  BY <1>2, <1>3, <1>4

-----------------------------------------------------------------------------
(* The block before an entry of prefer is chosen *)

\* Without a runtime nothing is declared.
LEMMA BareDeclares ==
    ASSUME tool.runtime = Empty, NEW k
    PROVE  DeclaredRuntime(k, Empty) = Null
<1>1. k \notin DOMAIN Empty
  BY DEF Empty
<1>2. Base = Place(Dict(Empty), NoFile)
  BY DEF Base
<1>3. \A x : Says(Dict(Empty), x) = Silent /\ Says(NoFile, x) = Silent /\ Says(Silent, x) = Silent
  BY DEF Says, Speaks, Dict, Empty, NoFile, Silent, IsDict
<1>4. \A x : ~Speaks(NoFile, x) /\ ~Speaks(Silent, x)
  BY DEF Speaks, NoFile, Silent, IsDict
<1>5. \A x : Under(Base, x) = Place(Silent, Silent)
  BY <1>2, <1>3, <1>4 DEF Under, Place
<1>6. \A x : Under(Place(Silent, Silent), x) = Place(Silent, Silent)
  BY <1>3, <1>4 DEF Under, Place
<1>7. OsPlace(Base) = Place(Silent, Silent) /\ SubPlace(OsPlace(Base)) = Place(Silent, Silent)
  BY <1>5, <1>6 DEF OsPlace, SubPlace
<1>8. Layer(Base, k) = Silent /\ Layer(Place(Silent, Silent), k) = Silent
  BY <1>2, <1>3, <1>4 DEF Layer, Place
<1> QED
  BY <1>1, <1>7, <1>8 DEF DeclaredRuntime, Declared, Or

Fitting == tool \in Tools /\ files \in Overrides /\ PlainDeclarations

\* A block stands for a value: null if it does not have the field.
Reads(b, k, v) == IF v = Null THEN ~Has(b, k) ELSE Has(b, k) /\ b[k] = v

LEMMA StrippedSays ==
    ASSUME NEW b, NEW k, k # "vars"
    PROVE  /\ k \in DOMAIN Stripped(b) <=> k \in DOMAIN b
           /\ k \in DOMAIN b => Stripped(b)[k] = b[k]
BY DEF Stripped, Without

\* A reference in a block that was resolved leads to a string.
LEMMA RefsLead ==
    ASSUME ~RuntimeRaises, tool.runtime # Empty,
           NEW n \in Refs(Stripped(ForHost(Merged, host)))
    PROVE  Followed(Vars, n).is = "str"
BY DEF RuntimeRaises, Unresolved, Resolvable, Vars

LEMMA FieldRead ==
    ASSUME Fitting, ~RuntimeRaises, tool.runtime # Empty, NEW k \in DispatchFields
    PROVE  LET v == Resolved(DeclaredRuntime(k, Empty)) IN
           /\ Reads(RuntimeBlock, k, v)
           /\ v = Null \/ v.is = "str"
           /\ DeclaredRuntime(k, Empty) # Null => v # Null
<1> DEFINE d == DeclaredRuntime(k, Empty)
           F == ForHost(Merged, host)
           S == Stripped(F)
           R == RuntimeBlock
<1>1. k \in Keys /\ k # "prefer" /\ k # "vars" /\ k # "schema"
  BY DEF Keys, DispatchFields
<1>2. IF d = Null THEN ~Has(F, k) ELSE Has(F, k) /\ F[k] = d
  BY <1>1, RuntimeDeclared DEF Fitting
<1>3. d = Null \/ d.is \in {"str", "var"}
  BY <1>1, RuntimePlain DEF Fitting, Plain
<1>4. R = Subst(Vars, S)
  BY DEF RuntimeBlock, Substituted, Vars
<1>5. Null.is = "null"
  BY DEF Null
<1> HIDE DEF d, F, S, R
<1>6. (k \in DOMAIN S <=> k \in DOMAIN F) /\ (k \in DOMAIN F => S[k] = F[k])
  BY <1>1, StrippedSays DEF S
<1>7. /\ k \in DOMAIN R <=> k \in DOMAIN S
      /\ k \in DOMAIN S => R[k] = Subst6(Vars, S[k])
  BY <1>1, <1>4, SubstSays
<1>8. CASE d = Null
  <2>1. k \in DOMAIN R => R[k] = Null
    <3> SUFFICES ASSUME k \in DOMAIN R PROVE R[k] = Null
      OBVIOUS
    <3>1. S[k] = Null
      BY <1>2, <1>6, <1>7, <1>8 DEF Has
    <3> QED
      BY <1>5, <1>7, <3>1, SubstValue
  <2>2. Resolved(d) = Null
    BY <1>5, <1>8 DEF Resolved
  <2> QED
    BY <1>8, <2>1, <2>2 DEF Reads, Has, d, R
<1>9. CASE d # Null /\ d.is = "var"
  <2>1. k \in DOMAIN S /\ S[k] = d
    BY <1>2, <1>6, <1>9 DEF Has
  <2>2. k \in DOMAIN S \ {"schema"} /\ S[k] = d /\ R[k] = Followed(Vars, d.name) /\ k \in DOMAIN R
    <3>1. Subst6(Vars, d) = Followed(Vars, d.name)
      BY <1>9, SubstValue
    <3> QED
      BY <1>1, <1>7, <2>1, <3>1
  <2>3. d.name \in Refs(S)
    BY <1>9, <2>2, RefsSay
  <2>4. Followed(Vars, d.name).is = "str"
    BY <2>3, RefsLead DEF S, F
  <2>5. Resolved(d) = Followed(Vars, d.name)
    BY <1>9 DEF Resolved
  <2> QED
    BY <1>5, <2>2, <2>4, <2>5 DEF Reads, Has, d, R
<1>10. CASE d # Null /\ d.is = "str"
  <2>1. R[k] = d /\ k \in DOMAIN R
    <3>1. k \in DOMAIN S /\ S[k] = d
      BY <1>2, <1>6, <1>10 DEF Has
    <3>2. Subst6(Vars, d) = d
      BY <1>10, SubstValue
    <3> QED
      BY <1>7, <3>1, <3>2
  <2>2. Resolved(d) = d
    BY <1>10 DEF Resolved
  <2> QED
    BY <1>10, <2>1, <2>2 DEF Reads, Has, d, R
<1> QED
  BY <1>3, <1>8, <1>9, <1>10

\* prefer is the list that was declared, its references followed.
LEMMA PreferRead ==
    ASSUME Fitting, ~RuntimeRaises, tool.runtime # Empty
    PROVE  LET d == DeclaredPrefer IN
           /\ Has(RuntimeBlock, "prefer") <=> d # Null
           /\ d # Null =>
                /\ RuntimeBlock["prefer"] = Subst6(Vars, d) /\ PlainPrefer(d)
                /\ "prefer" \in DOMAIN Stripped(ForHost(Merged, host))
                /\ Stripped(ForHost(Merged, host))["prefer"] = d
<1> DEFINE d == DeclaredPrefer
           F == ForHost(Merged, host)
           S == Stripped(F)
           R == RuntimeBlock
<1>1. "prefer" \in Keys
  BY DEF Keys
<1>2. IF d = Null THEN ~Has(F, "prefer") ELSE Has(F, "prefer") /\ F["prefer"] = d
  BY <1>1, RuntimeDeclared DEF Fitting, DeclaredPrefer
<1>3. PlainPrefer(d)
  BY <1>1, RuntimePlain DEF Fitting, DeclaredPrefer
<1>4. R = Subst(Vars, S)
  BY DEF RuntimeBlock, Substituted, Vars
<1> HIDE DEF d, F, S, R
<1>5. ("prefer" \in DOMAIN S <=> "prefer" \in DOMAIN F) /\ ("prefer" \in DOMAIN F => S["prefer"] = F["prefer"])
  BY StrippedSays DEF S
<1>6. /\ "prefer" \in DOMAIN R <=> "prefer" \in DOMAIN S
      /\ "prefer" \in DOMAIN S => R["prefer"] = Subst6(Vars, S["prefer"])
  BY <1>4, SubstSays
<1>7. Subst6(Vars, Null) = Null
  <2>1. Null.is = "null"
    BY DEF Null
  <2> QED
    BY <2>1, SubstValue
<1>8. CASE d = Null
  BY <1>2, <1>5, <1>6, <1>7, <1>8 DEF Has, d, F, S, R
<1>9. CASE d # Null
  <2>1. d.is = "list"
    BY <1>3, <1>9 DEF PlainPrefer
  <2>2. Subst6(Vars, d).is = "list"
    BY <2>1, SubstValue DEF List
  <2>3. Subst6(Vars, d) # Null
    BY <2>2 DEF Null
  <2> QED
    BY <1>2, <1>3, <1>5, <1>6, <1>9, <2>3 DEF Has, d, F, S, R
<1> QED
  BY <1>8, <1>9

-----------------------------------------------------------------------------
(* The chosen entry over it *)

LEMMA EntryRead ==
    ASSUME Fitting, ~RuntimeRaises, tool.runtime # Empty, DeclaredPrefer # Null, NEW i
    PROVE  LET items == RuntimeBlock["prefer"].items
               w == DeclaredPrefer.items[i]
           IN  /\ DOMAIN items = DOMAIN DeclaredPrefer.items
               /\ PreferEntry(i) = items[i]
               /\ i \in DOMAIN items /\ IsDict(items[i]) =>
                    /\ IsDict(w) /\ DOMAIN items[i].at = DOMAIN w.at
                    /\ \A k \in DispatchFields \cap DOMAIN w.at :
                         /\ items[i].at[k] = Resolved(w.at[k])
                         /\ items[i].at[k] = Null \/ items[i].at[k].is = "str"
                         /\ w.at[k] # Null => items[i].at[k] # Null
<1> DEFINE d == DeclaredPrefer
           S == Stripped(ForHost(Merged, host))
           items == RuntimeBlock["prefer"].items
           w == d.items[i]
<1>1. /\ RuntimeBlock["prefer"] = Subst6(Vars, d) /\ PlainPrefer(d)
      /\ "prefer" \in DOMAIN S /\ S["prefer"] = d
  BY PreferRead
<1>2. d.is = "list"
  BY <1>1 DEF PlainPrefer
<1> HIDE DEF d, S
<1>3. Subst6(Vars, d) = List([j \in DOMAIN d.items |-> Subst5(Vars, d.items[j])])
  BY <1>2, SubstValue
<1>4. items = [j \in DOMAIN d.items |-> Subst5(Vars, d.items[j])]
  BY <1>1, <1>3 DEF List
<1>5. PreferEntry(i) = items[i]
  <2>1. "prefer" \in DOMAIN [prefer |-> d] \ {"schema"} /\ [prefer |-> d]["prefer"] = d
    OBVIOUS
  <2>2. Subst(Vars, [prefer |-> d])["prefer"] = Subst6(Vars, d)
    BY <2>1, SubstSays
  <2> QED
    BY <1>1, <2>2 DEF PreferEntry, d
<1> HIDE DEF items
<1>6. ASSUME i \in DOMAIN items, IsDict(items[i])
      PROVE  /\ IsDict(w) /\ DOMAIN items[i].at = DOMAIN w.at
             /\ \A k \in DispatchFields \cap DOMAIN w.at :
                  /\ items[i].at[k] = Resolved(w.at[k])
                  /\ items[i].at[k] = Null \/ items[i].at[k].is = "str"
                  /\ w.at[k] # Null => items[i].at[k] # Null
  <2>1. i \in DOMAIN d.items /\ items[i] = Subst5(Vars, w)
    BY <1>4, <1>6
  <2>2. "prefer" \in DOMAIN S \ {"schema"} /\ S["prefer"].is = "list"
    BY <1>1, <1>2
  <2>3. /\ w.is = "var" => w.name \in Refs(S)
        /\ w.is = "dict" => \A x \in DOMAIN w.at \ {"schema"} :
                               w.at[x].is = "var" => w.at[x].name \in Refs(S)
    BY <1>1, <2>1, <2>2, RefsSay
  <2>4. \A n \in Refs(S) : Followed(Vars, n).is = "str"
    BY RefsLead DEF S
  <2> HIDE DEF w
  <2>5. w.is = "dict"
    <3>1. w.is # "var"
      <4> SUFFICES ASSUME w.is = "var" PROVE FALSE
        OBVIOUS
      <4>1. items[i] = Followed(Vars, w.name)
        BY <2>1, SubstValue
      <4> QED
        BY <1>6, <2>3, <2>4, <4>1 DEF IsDict
    <3>2. w.is # "list"
      <4>1. w.is = "list" => ~IsDict(Subst5(Vars, w))
        BY SubstValue
      <4> QED
        BY <1>6, <2>1, <4>1
    <3>3. w.is \notin {"var", "dict", "list"} => items[i] = w
      <4>1. w.is \notin {"var", "dict", "list"} => Subst5(Vars, w) = w
        BY SubstValue
      <4> QED
        BY <2>1, <4>1
    <3> QED
      BY <1>6, <3>1, <3>2, <3>3 DEF IsDict
  <2>6. /\ DOMAIN items[i].at = DOMAIN w.at
        /\ \A k \in DOMAIN w.at \ {"schema"} : items[i].at[k] = Subst4(Vars, w.at[k])
    <3>1. /\ DOMAIN Subst5(Vars, w).at = DOMAIN w.at
          /\ \A k \in DOMAIN w.at \ {"schema"} : Subst5(Vars, w).at[k] = Subst4(Vars, w.at[k])
      BY <2>5, SubstBlock
    <3> QED
      BY <2>1, <3>1
  <2>7. PlainFields(w.at)
    <3>1. d = Null \/ \A j \in DOMAIN d.items : IsDict(d.items[j]) => PlainFields(d.items[j].at)
      BY <1>1 DEF PlainPrefer
    <3>2. d # Null
      BY <1>2 DEF Null
    <3> QED
      BY <2>1, <2>5, <3>1, <3>2 DEF IsDict, w
  <2>8. ASSUME NEW k \in DispatchFields \cap DOMAIN w.at
        PROVE  /\ items[i].at[k] = Resolved(w.at[k])
               /\ items[i].at[k] = Null \/ items[i].at[k].is = "str"
               /\ w.at[k] # Null => items[i].at[k] # Null
    <3>1. w.at[k] = Null \/ w.at[k].is \in {"str", "var"}
      BY <2>7 DEF PlainFields, Plain
    <3>2. k # "schema" /\ Null.is = "null"
      BY DEF DispatchFields, Null
    <3>3. items[i].at[k] = Subst4(Vars, w.at[k])
      BY <2>6, <3>2
    <3>4. CASE w.at[k].is = "var"
      <4>1. Followed(Vars, w.at[k].name).is = "str"
        BY <2>3, <2>4, <2>5, <3>2, <3>4
      <4>2. Subst4(Vars, w.at[k]) = Followed(Vars, w.at[k].name)
        BY <3>4, SubstValue
      <4> QED
        BY <3>2, <3>3, <3>4, <4>1, <4>2 DEF Resolved
    <3>5. CASE w.at[k] = Null \/ w.at[k].is = "str"
      <4>1. w.at[k].is \notin {"var", "dict", "list"}
        BY <3>2, <3>5
      <4>2. Subst4(Vars, w.at[k]) = w.at[k]
        BY <4>1, SubstValue
      <4> QED
        BY <3>3, <3>5, <4>1, <4>2 DEF Resolved
    <3> QED
      BY <3>1, <3>4, <3>5
  <2> QED
    BY <2>5, <2>6, <2>8 DEF IsDict
<1> QED
  BY <1>4, <1>5, <1>6 DEF d, items

\* What the block is from the moment on at which the runner is called.
Laid(b, i) ==
    \/ ~Has(RuntimeBlock, "prefer") /\ b = RuntimeBlock
    \/ /\ Has(RuntimeBlock, "prefer")
       /\ i \in DOMAIN RuntimeBlock["prefer"].items /\ IsDict(RuntimeBlock["prefer"].items[i])
       /\ b = DeepMerge(Without(RuntimeBlock, {"prefer"}),
                        Without(RuntimeBlock["prefer"].items[i].at, {"detect_when"}))

LEMMA BlockRead ==
    ASSUME Fitting, ~RuntimeRaises, Laid(block, next), NEW k \in DispatchFields
    PROVE  /\ Reads(block, k, Resolved(DeclaredRuntime(k, Chosen)))
           /\ DeclaredRuntime(k, Chosen) # Null => Resolved(DeclaredRuntime(k, Chosen)) # Null
<1>1. k # "prefer" /\ k # "detect_when"
  BY DEF DispatchFields
<1>2. Resolved(Null) = Null
  BY DEF Resolved, Null
<1>3. CASE tool.runtime = Empty
  <2>1. RuntimeBlock = Empty /\ \A x : ~Has(Empty, x)
    BY <1>3 DEF RuntimeBlock, Has, Empty
  <2>2. DeclaredPrefer = Null
    BY <1>3, BareDeclares DEF DeclaredPrefer
  <2>3. Chosen = Empty
    BY <2>2 DEF Chosen
  <2>4. DeclaredRuntime(k, Chosen) = Null
    BY <1>3, <2>3, BareDeclares
  <2>5. block = Empty
    BY <2>1 DEF Laid
  <2> QED
    BY <1>2, <2>1, <2>4, <2>5 DEF Reads
<1>4. CASE tool.runtime # Empty /\ DeclaredPrefer = Null
  <2>1. ~Has(RuntimeBlock, "prefer")
    BY <1>4, PreferRead
  <2>2. block = RuntimeBlock /\ Chosen = Empty
    BY <1>4, <2>1 DEF Laid, Chosen
  <2> QED
    BY <1>4, <2>2, FieldRead
<1>5. CASE tool.runtime # Empty /\ DeclaredPrefer # Null
  <2> DEFINE R == RuntimeBlock
             E == RuntimeBlock["prefer"].items[next].at
             e == DeclaredPrefer.items[next].at
             a == Without(R, {"prefer"})
             b == Without(E, {"detect_when"})
             v == Resolved(DeclaredRuntime(k, Empty))
  <2>1. /\ next \in DOMAIN R["prefer"].items /\ IsDict(R["prefer"].items[next])
        /\ block = DeepMerge(a, b)
    BY <1>5, PreferRead DEF Laid
  <2>2. /\ DOMAIN E = DOMAIN e
        /\ k \in DOMAIN e => E[k] = Resolved(e[k]) /\ (E[k] = Null \/ E[k].is = "str")
        /\ k \in DOMAIN e => (e[k] # Null => E[k] # Null)
    BY <1>5, <2>1, EntryRead
  <2>3. Chosen = e
    BY <1>5 DEF Chosen
  <2>4. Reads(R, k, v) /\ (v = Null \/ v.is = "str") /\ (DeclaredRuntime(k, Empty) # Null => v # Null)
    BY <1>5, FieldRead
  <2>5. /\ Resolved(DeclaredRuntime(k, Chosen)) = IF k \in DOMAIN e THEN E[k] ELSE v
        /\ DeclaredRuntime(k, Chosen) # Null => Resolved(DeclaredRuntime(k, Chosen)) # Null
    <3>1. k \notin DOMAIN Empty
      BY DEF Empty
    <3> QED
      BY <2>2, <2>3, <2>4, <3>1 DEF DeclaredRuntime
  <2> HIDE DEF R, E, e, v
  <2>6. /\ k \in DOMAIN a <=> k \in DOMAIN R
        /\ k \in DOMAIN R => a[k] = R[k]
        /\ k \in DOMAIN b <=> k \in DOMAIN e
        /\ k \in DOMAIN e => b[k] = E[k]
    BY <1>1, <2>2 DEF Without
  <2> HIDE DEF a, b
  <2>7. /\ Says(Dict(a), k) = IF k \in DOMAIN R THEN R[k] ELSE Silent
        /\ Says(Dict(b), k) = IF k \in DOMAIN e THEN E[k] ELSE Silent
        /\ Speaks(Dict(b), k) <=> k \in DOMAIN e
        /\ Dict(b).at = b
    BY <2>6 DEF Says, Speaks, Dict, IsDict
  <2>8. ~IsDict(Silent) /\ ~IsDict(Null) /\ Silent # Null
    BY DEF Silent, Null, IsDict
  <2>9. ~IsDict(Says(Dict(b), k)) /\ ~Mute(Dict(b), k)
    BY <2>2, <2>6, <2>7, <2>8 DEF IsDict, Mute, Silent
  <2>10. ~Mute(Dict(a), k)
    <3>1. k \in DOMAIN R => R[k] # Silent
      BY <2>4, <2>8 DEF Reads, Has, Silent
    <3> QED
      BY <2>6, <3>1 DEF Mute, Speaks, Dict
  <2>11. /\ Says(Dict(block), k) = Over(Dict(b), k, Says(Dict(a), k))
         /\ ~Mute(Dict(block), k)
    BY <2>1, <2>9, <2>10, MergeSays
  <2>12. /\ k \in DOMAIN block <=> Speaks(Dict(block), k)
         /\ Dict(block).at = block
    BY DEF Speaks, Dict, IsDict
  <2>13. CASE k \in DOMAIN e
    <3>1. Says(Dict(block), k) = IF E[k] = Null THEN Silent ELSE E[k]
      BY <2>6, <2>7, <2>11, <2>13 DEF Over
    <3>2. E[k] # Null => E[k] # Silent
      BY <2>2, <2>13 DEF Silent
    <3> QED
      BY <2>5, <2>11, <2>12, <2>13, <3>1, <3>2 DEF Reads, Has, Says, Mute
  <2>14. CASE k \notin DOMAIN e
    <3>1. Says(Dict(block), k) = IF k \in DOMAIN R THEN R[k] ELSE Silent
      BY <2>7, <2>11, <2>14 DEF Over
    <3>2. k \in DOMAIN R => R[k] # Silent
      BY <2>4, <2>8 DEF Reads, Has, Silent
    <3>3. /\ k \in DOMAIN block <=> k \in DOMAIN R
          /\ k \in DOMAIN R => block[k] = R[k]
      BY <2>11, <2>12, <3>1, <3>2 DEF Says, Mute
    <3> QED
      BY <2>4, <2>5, <2>14, <3>3 DEF Reads, Has
  <2> QED
    BY <2>13, <2>14
<1> QED
  BY <1>3, <1>4, <1>5

-----------------------------------------------------------------------------
(* What a step leaves alone *)

LEMMA PassesKept ==
    ASSUME UNCHANGED <<host, present, near>>, NEW v
    PROVE  Passes(v)' = Passes(v)
<1>1. \A n : Finds(n)' <=> Finds(n)
  BY DEF Finds
<1>2. \A k, w : Matches(k, w)' <=> Matches(k, w)
  BY <1>1 DEF Matches
<1>3. ASSUME NEW c PROVE Eval1(c)' = Eval1(c)
  <2> DEFINE Items(key) == [i \in DOMAIN c[key].items |-> Raised]
             Result(key) == CASE key \in Leaves -> IF Matches(key, c[key]) THEN Yes ELSE No
                              [] key = "all" -> Decided(Items(key), No)
                              [] key = "any" -> Decided(Items(key), Yes)
                              [] OTHER -> Raised
             results == [key \in DOMAIN c \ Metadata |-> Result(key)]
  <2>1. \A key : Items(key)' = Items(key)
    OBVIOUS
  <2>2. Eval1(c) = Verdict(results)
    BY DEF Eval1, EvalWith
  <2>3. Eval1(c)' = Verdict(results)'
    BY DEF Eval1, EvalWith
  <2> HIDE DEF Items
  <2>4. \A key : Result(key)' = Result(key)
    BY <1>2, <2>1
  <2> HIDE DEF Result
  <2>5. results' = results
    BY <2>4
  <2> HIDE DEF results
  <2> QED
    BY <2>2, <2>3, <2>5
<1>4. ASSUME NEW c PROVE Condition(c)' = Condition(c)
  <2> DEFINE Items(key) == [i \in DOMAIN c[key].items |-> Eval1(c[key].items[i].at)]
             Result(key) == CASE key \in Leaves -> IF Matches(key, c[key]) THEN Yes ELSE No
                              [] key = "all" -> Decided(Items(key), No)
                              [] key = "any" -> Decided(Items(key), Yes)
                              [] OTHER -> Raised
             results == [key \in DOMAIN c \ Metadata |-> Result(key)]
  <2>1. \A key : Items(key)' = Items(key)
    BY <1>3
  <2>2. Condition(c) = Verdict(results)
    BY DEF Condition, EvalWith
  <2>3. Condition(c)' = Verdict(results)'
    BY DEF Condition, EvalWith
  <2> HIDE DEF Items
  <2>4. \A key : Result(key)' = Result(key)
    BY <1>2, <2>1
  <2> HIDE DEF Result
  <2>5. results' = results
    BY <2>4
  <2> HIDE DEF results
  <2> QED
    BY <2>2, <2>3, <2>5
<1>5. \A e : Preconditions(e)' <=> Preconditions(e)
  BY <1>1 DEF Preconditions
<1> QED
  BY <1>4, <1>5 DEF Passes, Detects

-----------------------------------------------------------------------------
(* Types *)

LEMMA RunnerKinds ==
    ASSUME NEW b
    PROVE  /\ RunnerPlan(b).kind \in {"launch", "setup", "error"}
           /\ RunnerPlan(b).kind = "setup" =>
                RunnerPlan(b) = PythonPlan(b) /\ Text(b, "type") \in {None, "python"}
<1>1. \A k : Refuse(k).kind = k
  BY DEF Refuse, Nothing
<1>2. \A p, f, t, d : Launch(p, f, t, d).kind = "launch"
  BY DEF Launch
<1>3. \A p : InterpreterPlan(b, p).kind \in {"launch", "setup", "error"}
  BY <1>1, <1>2 DEF InterpreterPlan
<1>4. ThroughPlan(b).kind \in {"launch", "error"} /\ ImportPlan(b).kind \in {"launch", "error"}
  BY <1>1, <1>2 DEF ThroughPlan, ImportPlan
<1>5. PythonPlan(b).kind \in {"launch", "setup", "error"}
  BY <1>3, <1>4 DEF PythonPlan
<1>6. ShellPlan(b).kind \in {"launch", "error"} /\ ScriptPlan(b).kind \in {"launch", "error"}
  BY <1>1, <1>2 DEF ShellPlan, ScriptPlan
<1>7. BinaryPlan(b).kind \in {"launch", "error"}
  BY <1>1, <1>2 DEF BinaryPlan
<1>8. NodePlan(b).kind \in {"launch", "error"}
  BY <1>1, <1>2 DEF NodePlan
<1>9. DockerPlan(b).kind \in {"launch", "error"}
  BY <1>1, <1>2 DEF DockerPlan
<1>10. Refuse("error").kind = "error"
  BY <1>1
<1> QED
  BY <1>5, <1>6, <1>7, <1>8, <1>9, <1>10 DEF RunnerPlan, Text

\* What the phases of a command say of each other.
Phases ==
    /\ pc # "idle" => verb \in {"run", "setup"} /\ answer = None
    /\ pc \notin {"idle", "running"} => started = Nothing
    /\ pc = "idle" => started = Nothing \/ answer # None
    /\ pc = "start" => plan.kind = "launch"
    /\ pc \in {"prefer", "make"} => verb = "run"
    /\ pc = "running" => started.kind = "launch"

Typed == TypeOK /\ Phases

LEMMA PassesIs ==
    ASSUME NEW v
    PROVE  Passes(v) \in {Raised, Yes, No}
<1>1. \A r : Verdict(r) \in {Raised, Yes, No}
  BY DEF Verdict
<1>2. \A c : Condition(c) \in {Raised, Yes, No}
  BY <1>1 DEF Condition, EvalWith
<1> QED
  BY <1>2 DEF Passes, Detects

LEMMA TypedInit == Init => Typed
<1> SUFFICES ASSUME Init PROVE Typed
  OBVIOUS
<1>1. Nothing.kind = "none"
  BY DEF Nothing
<1>2. present \subseteq tool.uses /\ near \subseteq Relative
  BY DEF Init
<1>3. TypeOK
  <2>1. commands \in 0..MaxCommands /\ changes \in 0..MaxChanges /\ next \in Nat \ {0}
    BY BoundsAreNaturals DEF Init
  <2>2. ~(pc = "running") /\ ~(started # Nothing)
    BY DEF Init
  <2>3. still \in BOOLEAN /\ setUp \in BOOLEAN
    BY DEF Init
  <2>4. answer # "setup"
    BY DEF Init, None
  <2> QED
    BY <1>1, <1>2, <2>1, <2>2, <2>3, <2>4 DEF Init, TypeOK
<1>4. Phases
  BY <1>1 DEF Init, Phases
<1> QED
  BY <1>3, <1>4 DEF Typed

LEMMA TypedNext == Typed /\ [Next]_vars => Typed'
<1> SUFFICES ASSUME Typed, [Next]_vars PROVE Typed'
  OBVIOUS
<1> USE BoundsAreNaturals
<1>1. Nothing.kind = "none" /\ None = "none"
  BY DEF Nothing, None
<1>2. ASSUME NEW v \in {"run", "setup"}, Give(v) PROVE Typed'
  BY <1>1, <1>2 DEF Typed, TypeOK, Phases, Give, machine
<1>3. CASE Resolve
  BY <1>1, <1>3 DEF Typed, TypeOK, Phases, Resolve, Answer, machine, budgets
<1>4. CASE TryEntry
  <2>1. CASE Passes(Prefer[next]) = Raised
    BY <1>1, <1>4, <2>1 DEF Typed, TypeOK, Phases, TryEntry, Answer, Raised, Yes, No, machine, budgets
  <2>2. CASE Passes(Prefer[next]) = Yes
    BY <1>1, <1>4, <2>2 DEF Typed, TypeOK, Phases, TryEntry, Pass, Raised, Yes, No, machine, budgets
  <2>3. CASE Passes(Prefer[next]) = No
    BY <1>1, <1>4, <2>3 DEF Typed, TypeOK, Phases, TryEntry, Skip, Raised, Yes, No, machine, budgets
  <2> QED
    BY <2>1, <2>2, <2>3, PassesIs
<1>5. CASE NoEntry
  BY <1>1, <1>5 DEF Typed, TypeOK, Phases, NoEntry, Answer, machine, budgets
<1>6. CASE Call
  <2>1. /\ plan'.kind \in {"launch", "setup", "error"}
        /\ plan'.kind = "setup" => Text(block, "type") \in {None, "python"}
    BY <1>6, RunnerKinds DEF Call
  <2>2. CASE plan'.kind = "launch"
    BY <1>1, <1>6, <2>2 DEF Typed, TypeOK, Phases, Call, machine, budgets
  <2>3. CASE plan'.kind # "launch"
    BY <1>1, <1>6, <2>1, <2>3 DEF Typed, TypeOK, Phases, Call, Answer, machine, budgets
  <2> QED
    BY <2>2, <2>3
<1>7. CASE Start
  BY <1>1, <1>7 DEF Typed, TypeOK, Phases, Start, Answer, machine, budgets
<1>8. CASE ResolveSetup
  <2>1. \A p, f, t, d : Launch(p, f, t, d).kind = "launch"
    BY DEF Launch
  <2> QED
    BY <1>1, <1>8, <2>1 DEF Typed, TypeOK, Phases, ResolveSetup, Answer, machine, budgets
<1>9. CASE StartSetup
  BY <1>1, <1>9 DEF Typed, TypeOK, Phases, StartSetup, machine, budgets
<1>10. CASE Ends
  <2>1. Gives(started.target) \subseteq UNION {tool.gives[c] : c \in DOMAIN tool.gives}
    BY DEF Gives
  <2>2. answer' \in {"ran", "failed"} /\ pc' = "idle"
    BY <1>10 DEF Ends, Answer
  <2>3. present' \subseteq present \cup Gives(started.target)
    BY <1>10 DEF Ends
  <2>4. setUp' \in BOOLEAN
    BY <1>10 DEF Ends, Typed, TypeOK
  <2> QED
    BY <1>1, <1>10, <2>1, <2>2, <2>3, <2>4 DEF Typed, TypeOK, Phases, Ends, machine, budgets
<1>11. CASE Change
  <2>1. present' \subseteq present \cup tool.uses
    BY <1>11 DEF Change
  <2>2. changes' \in 0..MaxChanges /\ setUp' \in BOOLEAN /\ still' = FALSE
    BY <1>11 DEF Change, Typed, TypeOK
  <2> QED
    BY <1>1, <1>11, <2>1, <2>2 DEF Typed, TypeOK, Phases, Change, machine
<1>12. CASE UNCHANGED vars
  BY <1>12 DEF Typed, TypeOK, Phases, vars
<1> QED
  BY <1>2, <1>3, <1>4, <1>5, <1>6, <1>7, <1>8, <1>9, <1>10, <1>11, <1>12 DEF Next

\* The variables of the state machine keep their types, and a command that runs has
\* started something and has no answer yet.
THEOREM TypeCorrect == Spec => []TypeOK
<1>1. Init => Typed
  BY TypedInit
<1>2. Typed /\ [Next]_vars => Typed'
  BY TypedNext
<1>3. Typed => TypeOK
  BY DEF Typed
<1> QED
  BY <1>1, <1>2, <1>3, PTL DEF Spec

-----------------------------------------------------------------------------
(* The block a command runs with *)

Items == RuntimeBlock["prefer"].items
SkippedBefore(i) == \A j \in 1..i - 1 : Passes(Items[j]) = No

\* The blocks that were resolved, in every phase of a run, and while nothing changed
\* why they were chosen.
Settled ==
    /\ pc = "resolve" => next = 1
    /\ verb = "run" /\ pc \in {"prefer", "make", "start", "running"} => ~RuntimeRaises
    /\ pc = "prefer" => /\ block = RuntimeBlock /\ Has(RuntimeBlock, "prefer")
                        /\ still => SkippedBefore(next)
    /\ verb = "run" /\ pc \in {"make", "start", "running"} =>
         /\ Laid(block, next)
         /\ Has(RuntimeBlock, "prefer") /\ still =>
              Passes(Items[next]) = Yes /\ SkippedBefore(next)

LEMMA BlocksKept ==
    ASSUME UNCHANGED machine
    PROVE  RuntimeBlock' = RuntimeBlock /\ (RuntimeRaises' <=> RuntimeRaises) /\ Items' = Items
BY DEF machine, RuntimeBlock, RuntimeRaises, Merged, Items

LEMMA SkippedKept ==
    ASSUME UNCHANGED <<machine, present, near, next>>
    PROVE  /\ SkippedBefore(next)' <=> SkippedBefore(next)
           /\ Passes(Items[next])' = Passes(Items[next])
<1>1. \A v : Passes(v)' = Passes(v)
  BY PassesKept DEF machine
<1>2. Items' = Items
  BY BlocksKept
<1> HIDE DEF Items
<1> QED
  BY <1>1, <1>2 DEF SkippedBefore

LEMMA LaidKept ==
    ASSUME UNCHANGED <<machine, block, next>>
    PROVE  Laid(block, next)' <=> Laid(block, next)
<1>1. RuntimeBlock' = RuntimeBlock
  BY BlocksKept
<1> QED
  BY <1>1 DEF Laid

\* A step that leaves the machine and the command's progress alone.
LEMMA SettledKept ==
    ASSUME Settled, UNCHANGED <<machine, verb, block, next>>,
           \/ UNCHANGED <<present, near, still>>
           \/ ~still',
           \/ pc' = pc
           \/ pc \in {"make", "start"} /\ pc' \in {"start", "running"}
           \/ pc' = "idle"
    PROVE  Settled'
<1>1. Laid(block, next)' <=> Laid(block, next)
  BY LaidKept
<1>2. RuntimeBlock' = RuntimeBlock /\ (RuntimeRaises' <=> RuntimeRaises)
  BY BlocksKept
<1>3. still' => /\ still
                /\ SkippedBefore(next)' <=> SkippedBefore(next)
                /\ Passes(Items[next])' = Passes(Items[next])
  BY SkippedKept
<1>4. Settled' = (
    /\ pc' = "resolve" => next' = 1
    /\ verb' = "run" /\ pc' \in {"prefer", "make", "start", "running"} => ~RuntimeRaises'
    /\ pc' = "prefer" => /\ block' = RuntimeBlock' /\ Has(RuntimeBlock, "prefer")'
                         /\ still' => SkippedBefore(next)'
    /\ verb' = "run" /\ pc' \in {"make", "start", "running"} =>
         /\ Laid(block, next)'
         /\ Has(RuntimeBlock, "prefer")' /\ still' =>
              Passes(Items[next])' = Yes /\ SkippedBefore(next)')
  BY DEF Settled
<1>5. Has(RuntimeBlock, "prefer")' <=> Has(RuntimeBlock, "prefer")
  BY <1>2 DEF Has
<1> QED
  BY <1>1, <1>2, <1>3, <1>4, <1>5 DEF Settled

\* The block of a run as it is resolved, merged with an entry, or passed on.
LEMMA SettledResolve == Settled /\ Resolve => Settled'
<1> SUFFICES ASSUME Settled, Resolve PROVE Settled'
  OBVIOUS
<1>1. UNCHANGED machine /\ verb' = verb /\ next' = next /\ verb = "run" /\ next = 1
  BY DEF Resolve, Settled
<1>2. RuntimeBlock' = RuntimeBlock /\ (RuntimeRaises' <=> RuntimeRaises)
  BY <1>1, BlocksKept
<1>3. CASE RuntimeRaises
  <2>1. pc' = "idle"
    BY <1>3 DEF Resolve, Answer
  <2> QED
    BY <2>1 DEF Settled
<1>4. CASE ~RuntimeRaises /\ Has(RuntimeBlock, "prefer")
  <2>1. block' = RuntimeBlock /\ pc' = "prefer"
    BY <1>4 DEF Resolve
  <2>2. SkippedBefore(next)'
    BY <1>1 DEF SkippedBefore
  <2> QED
    BY <1>2, <1>4, <2>1, <2>2 DEF Settled, Has
<1>5. CASE ~RuntimeRaises /\ ~Has(RuntimeBlock, "prefer")
  <2>1. block' = RuntimeBlock /\ pc' = "make"
    BY <1>5 DEF Resolve
  <2>2. ~Has(RuntimeBlock, "prefer")'
    BY <1>2, <1>5 DEF Has
  <2> QED
    BY <1>2, <1>5, <2>1, <2>2 DEF Settled, Laid
<1> QED
  BY <1>3, <1>4, <1>5

LEMMA SettledTry == Typed /\ Settled /\ TryEntry => Settled'
<1> SUFFICES ASSUME Typed, Settled, TryEntry PROVE Settled'
  OBVIOUS
<1> DEFINE e == Prefer[next]
<1>1. /\ UNCHANGED machine /\ UNCHANGED <<present, near, verb, still>>
      /\ verb = "run" /\ pc = "prefer" /\ next \in DOMAIN Prefer
  BY DEF TryEntry, Typed, Phases
<1>2. /\ RuntimeBlock' = RuntimeBlock /\ (RuntimeRaises' <=> RuntimeRaises) /\ Items' = Items
      /\ Has(RuntimeBlock, "prefer")' <=> Has(RuntimeBlock, "prefer")
  BY <1>1, BlocksKept DEF Has
<1>3. /\ block = RuntimeBlock /\ Has(RuntimeBlock, "prefer") /\ ~RuntimeRaises
      /\ still => SkippedBefore(next)
      /\ Prefer = Items
  BY <1>1 DEF Settled, Prefer, Items
<1>4. \A v : Passes(v)' = Passes(v)
  BY <1>1, PassesKept DEF machine
<1>5. CASE Passes(e) = Raised
  <2>1. pc' = "idle"
    BY <1>5 DEF TryEntry, Answer, Raised, Yes, No
  <2> QED
    BY <2>1 DEF Settled
<1>6. CASE Passes(e) = Yes
  <2>1. pc' = "make" /\ next' = next
        /\ block' = DeepMerge(Without(block, {"prefer"}), Without(e.at, {"detect_when"}))
    BY <1>6 DEF TryEntry, Pass, Raised, Yes, No
  <2>2. IsDict(e)
    BY <1>6 DEF Passes, Yes, No
  <2>3. Laid(block, next)'
    <3>1. e = RuntimeBlock["prefer"].items[next] /\ next \in DOMAIN RuntimeBlock["prefer"].items
      BY <1>1, <1>3 DEF Items
    <3> QED
      BY <1>2, <1>3, <2>1, <2>2, <3>1 DEF Laid
  <2>4. still' => Passes(Items[next])' = Yes /\ SkippedBefore(next)'
    <3>1. SkippedBefore(next)' <=> SkippedBefore(next)
      BY <1>1, <2>1, SkippedKept
    <3>2. Passes(Items[next])' = Passes(Items[next])
      BY <1>1, <2>1, SkippedKept
    <3> QED
      BY <1>1, <1>3, <1>6, <3>1, <3>2
  <2> QED
    BY <1>2, <1>3, <2>1, <2>3, <2>4 DEF Settled
<1>7. CASE Passes(e) = No
  <2>1. pc' = "prefer" /\ next' = next + 1 /\ block' = block
    BY <1>1, <1>7 DEF TryEntry, Skip, Raised, Yes, No
  <2>2. still' => SkippedBefore(next)'
    <3> SUFFICES ASSUME still', NEW j \in 1..next' - 1 PROVE Passes(Items[j])' = No
      BY DEF SkippedBefore
    <3>1. j \in 1..next - 1 \/ j = next
      BY <2>1 DEF Typed, TypeOK
    <3>2. Passes(Items[j]) = No
      BY <1>1, <1>3, <1>7, <3>1 DEF SkippedBefore
    <3> HIDE DEF Items
    <3> QED
      BY <1>2, <1>4, <3>2
  <2> QED
    BY <1>2, <1>3, <2>1, <2>2 DEF Settled
<1> QED
  BY <1>5, <1>6, <1>7, PassesIs

LEMMA SettledNext == Typed /\ Settled /\ [Next]_vars => Settled'
<1> SUFFICES ASSUME Typed, Settled, [Next]_vars PROVE Settled'
  OBVIOUS
<1>1. ASSUME NEW v \in {"run", "setup"}, Give(v) PROVE Settled'
  BY <1>1 DEF Settled, Give
<1>2. CASE Resolve
  BY <1>2, SettledResolve
<1>3. CASE TryEntry
  BY <1>3, SettledTry
<1>4. CASE NoEntry
  BY <1>4 DEF Settled, NoEntry, Answer
<1>5. CASE Call
  <2>1. UNCHANGED <<machine, verb, block, next, present, near, still>> /\ pc = "make"
        /\ pc' \in {"start", "idle"}
    BY <1>5 DEF Call, Answer
  <2> QED
    BY <2>1, SettledKept
<1>6. CASE Start
  <2>1. UNCHANGED <<machine, verb, block, next, present, near, still>> /\ pc = "start"
        /\ pc' \in {"running", "idle"}
    BY <1>6 DEF Start, Answer
  <2> QED
    BY <2>1, SettledKept
<1>7. CASE ResolveSetup
  BY <1>7 DEF Settled, ResolveSetup, Answer
<1>8. CASE StartSetup
  BY <1>8 DEF Settled, StartSetup
<1>9. CASE Ends
  BY <1>9 DEF Settled, Ends, Answer
<1>10. CASE Change
  <2>1. UNCHANGED <<machine, verb, block, next, pc>> /\ ~still'
    BY <1>10 DEF Change
  <2> QED
    BY <2>1, SettledKept
<1>11. CASE UNCHANGED vars
  <2>1. UNCHANGED <<machine, verb, block, next, present, near, still, pc>>
    BY <1>11 DEF vars, machine
  <2> QED
    BY <2>1, SettledKept
<1> QED
  BY <1>1, <1>2, <1>3, <1>4, <1>5, <1>6, <1>7, <1>8, <1>9, <1>10, <1>11 DEF Next

LEMMA SettledDeclares ==
    ASSUME PlainDeclarations, Typed, Settled
    PROVE  RunAsDeclared
<1> SUFFICES ASSUME verb = "run", pc \in {"make", "start", "running"}
             PROVE  /\ \A k \in DispatchFields :
                          Reads(block, k, Resolved(DeclaredRuntime(k, Chosen)))
                    /\ DeclaredPrefer # Null /\ still =>
                          /\ Passes(PreferEntry(next)) = Yes
                          /\ \A i \in 1..next - 1 : Passes(PreferEntry(i)) = No
  BY DEF RunAsDeclared, Reads
<1>1. Fitting /\ ~RuntimeRaises /\ Laid(block, next)
  BY DEF Fitting, Typed, TypeOK, Settled
<1>2. \A k \in DispatchFields : Reads(block, k, Resolved(DeclaredRuntime(k, Chosen)))
  BY <1>1, BlockRead
<1>3. ASSUME DeclaredPrefer # Null, still
      PROVE  /\ Passes(PreferEntry(next)) = Yes
             /\ \A i \in 1..next - 1 : Passes(PreferEntry(i)) = No
  <2>1. tool.runtime # Empty
    BY <1>3, BareDeclares DEF DeclaredPrefer
  <2>2. Has(RuntimeBlock, "prefer")
    BY <1>1, <1>3, <2>1, PreferRead
  <2>3. \A i : PreferEntry(i) = Items[i]
    BY <1>1, <1>3, <2>1, EntryRead DEF Items
  <2>4. Passes(Items[next]) = Yes /\ SkippedBefore(next)
    BY <1>3, <2>2 DEF Settled
  <2> QED
    BY <2>3, <2>4 DEF SkippedBefore
<1> QED
  BY <1>2, <1>3

\* A tool is run with what its manifest and the user's override declare for this
\* machine, whatever the layers that declare it, and with the first entry of prefer
\* that passes, if the declarations have the form the documents describe
\* (resolve_runtime, resolve_platform_block, deep_merge).
THEOREM RunAsDeclaredHolds ==
    ASSUME PlainDeclarations
    PROVE  Spec => []RunAsDeclared
<1>1. Init => Typed /\ Settled
  BY TypedInit DEF Init, Settled
<1>2. Typed /\ Settled /\ [Next]_vars => (Typed /\ Settled)'
  BY TypedNext, SettledNext
<1>3. Typed /\ Settled => RunAsDeclared
  BY SettledDeclares
<1> QED
  BY <1>1, <1>2, <1>3, PTL DEF Spec

-----------------------------------------------------------------------------
(* The command setup runs *)

LEMMA FullIs ==
    ASSUME NEW v
    PROVE  /\ IsDict(Full(v)) <=> IsDict(v) \/ v.is \in {"str", "var"}
           /\ v.is \notin {"str", "var"} => Full(v) = v
           /\ PlainOs(v) => PlainOs(Full(v))
<1>1. CASE v.is \in {"str", "var"}
  <2>1. Full(v) = Dict([command |-> v]) /\ IsDict(Full(v)) /\ Full(v).at = [command |-> v]
    BY <1>1 DEF Full, Dict, IsDict
  <2>2. PlainBlock([command |-> v]) /\ PlainBelow([command |-> v])
    BY <1>1 DEF PlainBlock, PlainFields, Plain, PlainBelow, IsDict
  <2> QED
    BY <1>1, <2>1, <2>2 DEF PlainOs
<1>2. CASE v.is \notin {"str", "var"}
  BY <1>2 DEF Full
<1> QED
  BY <1>1, <1>2

\* A plain string for an os, in the manifest or over it, is its command.
LEMMA ShorthandLies ==
    ASSUME NEW m, NEW o, NEW b, Dict(b) = Lay5(m, o)
    PROVE  OsLies(Shorthand(OsPlace(Place(m, o))), Full(OsOf(b, host)))
<1> DEFINE u == Under(Place(m, o), "platforms")
           p == Says(Dict(b), "platforms")
           k == host.os
           pl == OsPlace(Place(m, o))
           q == OsOf(b, host)
<1>1. pl = Under(u, k) /\ pl = Place(pl.m, pl.o) /\ q = Says(p, k)
  BY DEF OsPlace, OsOf, Under, Place
<1>2. OsLies(pl, q)
  BY OsPlaceLies
<1>3. ~IsDict(Silent) /\ ~IsDict(Null) /\ Full(Silent) = Silent /\ Full(Null) = Null
  BY DEF Silent, Null, IsDict, Full
<1>4. ~IsDict(Says(u.m, k)) \/ ~IsDict(Says(u.o, k)) => q = Layer(u, k)
  <2>1. LaidAs(Place(m, o), Dict(b), "platforms", Lay4(u.m, u.o))
    BY Level5
  <2>2. u = Place(u.m, u.o)
    BY DEF Under, Place
  <2> HIDE DEF u, p, q
  <2>3. CASE IsBlock(u)
    <3>1. p = Lay4(u.m, u.o)
      BY <2>1, <2>3 DEF LaidAs, u, p
    <3>2. LaidAs(u, p, k, Lay3(Under(u, k).m, Under(u, k).o))
      BY <2>2, <3>1, Level4
    <3> QED
      BY <1>1, <3>2 DEF LaidAs, q
  <2>4. CASE ~IsBlock(u)
    <3>1. ~IsDict(p)
      BY <2>1, <2>4 DEF LaidAs, u, p
    <3> QED
      BY <1>1, <2>4, <3>1, NoBlock DEF Says, Speaks, q
  <2> QED
    BY <2>3, <2>4
<1>5. /\ pl.o = Says(u.o, k)
      /\ pl.m = IF Speaks(u.o, k) /\ ~IsDict(u.o.at[k]) THEN Silent ELSE Says(u.m, k)
  BY <1>1 DEF Under, Place
<1>6. Shorthand(pl) = IF IsDict(pl.o) THEN pl ELSE Place(Full(pl.m), Full(pl.o))
  BY DEF Shorthand
<1>7. \A x, y : Place(x, y).m = x /\ Place(x, y).o = y
  BY DEF Place
<1> HIDE DEF u, p, k, pl, q
<1>8. CASE IsDict(pl.o)
  <2>1. IsDict(q) /\ Full(q) = q
    BY <1>2, <1>8, FullIs DEF OsLies, IsBlock, IsDict
  <2> QED
    BY <1>2, <1>6, <1>8, <2>1 DEF pl, q
<1>9. CASE ~IsDict(pl.o) /\ IsDict(pl.m)
  <2>1. pl.o = Silent
    BY <1>3, <1>5, <1>9 DEF Says
  <2>2. Full(pl.m) = pl.m
    BY <1>9, FullIs DEF IsDict
  <2>3. Shorthand(pl) = pl
    BY <1>1, <1>3, <1>6, <1>9, <2>1, <2>2
  <2>4. IsDict(q) /\ Full(q) = q
    BY <1>2, <1>9, FullIs DEF OsLies, IsBlock, IsDict
  <2> QED
    BY <1>2, <2>3, <2>4 DEF pl, q
<1>10. CASE ~IsDict(pl.o) /\ ~IsDict(pl.m)
  <2>1. ~IsDict(q)
    BY <1>2, <1>10 DEF OsLies, IsBlock
  <2>2. Shorthand(pl) = Place(Full(pl.m), Full(pl.o))
    BY <1>6, <1>10
  <2>3. q = Layer(u, k)
    BY <1>3, <1>4, <1>5, <1>10
  <2>4. CASE ~Speaks(u.o, k)
    <3>1. q = pl.m /\ pl.o = Silent
      BY <1>5, <2>3, <2>4 DEF Layer, Says
    <3>2. Shorthand(pl) = Place(Full(q), Silent)
      BY <1>3, <2>2, <3>1
    <3> QED
      BY <1>3, <1>7, <3>2 DEF OsLies, IsBlock, Lay3, Lay, pl, q
  <2>5. CASE Speaks(u.o, k)
    <3>1. pl.o = u.o.at[k] /\ pl.m = Silent
      BY <1>5, <1>10, <2>5 DEF Says
    <3>2. Shorthand(pl) = Place(Silent, Full(pl.o))
      BY <1>3, <2>2, <3>1
    <3>3. q = pl.o \/ (pl.o = Null /\ q = Silent)
      BY <2>3, <2>5, <3>1 DEF Layer
    <3> QED
      BY <1>3, <1>7, <3>2, <3>3 DEF OsLies, IsBlock, Lay3, Lay, pl, q
  <2> QED
    BY <2>4, <2>5
<1> QED
  BY <1>8, <1>9, <1>10

LEMMA NormalSays ==
    ASSUME NEW b
    PROVE  /\ OsOf(NormalSetup(b), host) = Full(OsOf(b, host))
           /\ Says(Dict(NormalSetup(b)), "command") = Says(Dict(b), "command")
           /\ Mute(Dict(NormalSetup(b)), "command") => Mute(Dict(b), "command")
<1> DEFINE N == NormalSetup(b)
           p == Says(Dict(b), "platforms")
<1>1. Full(Silent) = Silent /\ ~IsDict(Silent)
  BY DEF Full, Silent, IsDict
<1>2. IsDict(p) <=> HasDict(b, "platforms")
  BY <1>1 DEF Says, Speaks, Dict, IsDict, HasDict
<1>3. \A f : IsDict(Dict(f)) /\ Dict(f).at = f
  BY DEF Dict, IsDict
<1>4. CASE ~HasDict(b, "platforms")
  <2>1. N = b
    BY <1>4 DEF NormalSetup
  <2>2. OsOf(b, host) = Silent
    BY <1>2, <1>4 DEF OsOf, Says, Speaks
  <2> QED
    BY <1>1, <2>1, <2>2
<1>5. CASE HasDict(b, "platforms")
  <2>1. p = b["platforms"]
    BY <1>3, <1>5 DEF Says, Speaks, HasDict
  <2>2. DOMAIN N = DOMAIN b /\ N["platforms"] = Dict(Normalized(p.at))
    BY <1>5, <2>1 DEF NormalSetup, HasDict
  <2>3. "command" \in DOMAIN b => N["command"] = b["command"]
    BY <1>5 DEF NormalSetup, HasDict
  <2> HIDE DEF N, p
  <2>4. Says(Dict(N), "platforms") = Dict(Normalized(p.at))
    BY <1>3, <1>5, <2>2 DEF Says, Speaks, HasDict
  <2>5. Says(Dict(Normalized(p.at)), host.os) = Full(Says(p, host.os))
    <3>1. DOMAIN Normalized(p.at) = DOMAIN p.at
      BY DEF Normalized
    <3>2. host.os \in DOMAIN p.at => Normalized(p.at)[host.os] = Full(p.at[host.os])
      BY DEF Normalized, Full
    <3> QED
      BY <1>1, <1>2, <1>3, <1>5, <3>1, <3>2 DEF Says, Speaks
  <2> QED
    BY <1>3, <2>2, <2>3, <2>4, <2>5 DEF OsOf, Says, Speaks, Mute, N, p
<1> QED
  BY <1>4, <1>5

\* The command declared for this machine, when it is a string, is what setup runs.
LEMMA CommandRead ==
    ASSUME PlainDeclarations, tool \in Tools, files \in Overrides,
           DeclaredCommand # Null, DeclaredCommand.is = "str"
    PROVE  SetupBlock(tool.setup, files.setup, tool.vars, host)["command"] = DeclaredCommand
<1> DEFINE m == Dict(tool.setup)
           o == files.setup
           base == Place(m, o)
           pl == OsPlace(base)
           os == Shorthand(pl)
           M == Overridden(tool.setup, files.setup)
           N == NormalSetup(M)
           F == ForHost(N, host)
<1>1. PlainTop(m) /\ PlainTop(o)
  BY DEF PlainDeclarations, PlainTop, Dict
<1>2. Dict(M) = Lay5(m, o)
  BY DEF Overridden, Lay5, Lay, IsDict, Dict
<1>3. SetupBase = base /\ DeclaredCommand = Declared(base, os, "command")
  BY DEF SetupBase, DeclaredCommand
<1>4. base.m = m /\ base.o = o /\ pl = Place(pl.m, pl.o) /\ os = Place(os.m, os.o)
  BY DEF Place, OsPlace, Under, Shorthand
<1>5. "command" \in Keys
  BY DEF Keys
<1> HIDE DEF m, o, base, pl, os, M, N, F
<1>6. PlainOs(os.m) /\ PlainOs(os.o)
  <2>1. PlainOs(pl.m) /\ PlainOs(pl.o)
    BY <1>1, PlainOsPlace DEF pl, base
  <2>2. PlainOs(Full(pl.m)) /\ PlainOs(Full(pl.o))
    BY <2>1, FullIs
  <2> QED
    BY <2>1, <2>2 DEF os, Shorthand, Place
<1>7. Plainly(os, "command") /\ Plainly(SubPlace(os), "command")
  BY <1>5, <1>6, PlainPlaces
<1>8. Plainly(base, "command")
  BY <1>1, <1>4, <1>5, PlainSays DEF PlainTop, PlainSub, PlainLayers, Plainly
<1>9. Says(Dict(M), "command") = Layer(base, "command") /\ ~Mute(Dict(M), "command")
  <2>1. LaidAs(base, Dict(M), "command", Lay4(Under(base, "command").m, Under(base, "command").o))
    BY <1>2, Level5 DEF base
  <2> QED
    BY <1>8, <2>1 DEF LaidAs, Plainly
<1>10. OsLies(os, OsOf(N, host))
  <2>1. OsLies(os, Full(OsOf(M, host)))
    BY <1>2, ShorthandLies DEF os, pl, base
  <2> QED
    BY <2>1, NormalSays DEF N
<1>11. Says(Dict(N), "command") = Layer(base, "command") /\ ~Mute(Dict(N), "command")
  BY <1>9, NormalSays DEF N
<1>12. Has(F, "command") /\ F["command"] = DeclaredCommand
  <2>1. LET d == Declared(base, os, "command")
        IN  IF d = Null THEN ~Has(F, "command") ELSE Has(F, "command") /\ F["command"] = d
    BY <1>4, <1>7, <1>8, <1>10, <1>11, DeclaredHolds DEF F
  <2> QED
    BY <1>3, <2>1
<1>13. "command" \in DOMAIN Stripped(F) \ {"schema"} /\ Stripped(F)["command"] = DeclaredCommand
  BY <1>12, StrippedSays DEF Has
<1>14. Subst6(Scope(F, tool.vars), DeclaredCommand) = DeclaredCommand
  BY SubstValue
<1>15. SetupBlock(tool.setup, files.setup, tool.vars, host) = Subst(Scope(F, tool.vars), Stripped(F))
  BY DEF SetupBlock, Substituted, F, N, M
<1> QED
  BY <1>13, <1>14, <1>15, SubstSays

-----------------------------------------------------------------------------
(* A tool that was set up *)

SetupCommand == SetupBlock(tool.setup, files.setup, tool.vars, host)["command"].text
InPython == Text(block, "type") \in {None, "python"}

\* What setup made is there, and a run that found it starts it.
Made ==
    /\ setUp /\ DeclaredCommand # Null /\ DeclaredCommand.is = "str" =>
         Gives(DeclaredCommand.text) \subseteq present
    /\ verb = "setup" /\ pc \in {"start", "running"} => plan.target = SetupCommand
    /\ verb = "setup" /\ pc = "running" => started = plan
    /\ verb = "run" /\ pc = "start" /\ setUp /\ Complete /\ InPython =>
         plan.program = DeclaredInterpreter.text /\ plan.from \in {"tool", "path"}
    /\ SetupThenRuns

LEMMA DeclarationsKept ==
    ASSUME UNCHANGED machine
    PROVE  /\ DeclaredCommand' = DeclaredCommand /\ SetupCommand' = SetupCommand
           /\ \A c : Gives(c)' = Gives(c)
           /\ UNCHANGED next => /\ DeclaredInterpreter' = DeclaredInterpreter
                                /\ Complete' <=> Complete
<1>1. DeclaredCommand' = DeclaredCommand /\ SetupCommand' = SetupCommand
  BY DEF machine, SetupCommand, DeclaredCommand, SetupBase, OsPlace, Declared, SubPlace
<1>2. \A c : Gives(c)' = Gives(c)
  BY DEF machine, Gives
<1>3. \A k, e : DeclaredRuntime(k, e)' = DeclaredRuntime(k, e)
  BY DEF machine, DeclaredRuntime, Base, OsPlace, Declared, SubPlace
<1>4. ASSUME UNCHANGED next
      PROVE  DeclaredInterpreter' = DeclaredInterpreter /\ (Complete' <=> Complete)
  <2>1. Chosen' = Chosen
    BY <1>3, <1>4 DEF Chosen, DeclaredPrefer
  <2>2. DeclaredInterpreter' = DeclaredInterpreter
    BY <1>3, <2>1 DEF DeclaredInterpreter, machine
  <2> QED
    BY <1>1, <1>2, <2>2 DEF Complete, machine
<1> QED
  BY <1>1, <1>2, <1>4

\* The interpreter the block has is the one that was declared.
LEMMA AskedFor ==
    ASSUME PlainDeclarations, Typed, Settled, verb = "run", pc = "make", Complete
    PROVE  PythonPlan(block) = InterpreterPlan(block, DeclaredInterpreter.text)
<1> DEFINE i == DeclaredRuntime("interpreter", Chosen)
           v == DeclaredRuntime("venv", Chosen)
<1>1. /\ Reads(block, "interpreter", Resolved(i))
      /\ Reads(block, "venv", Resolved(v)) /\ (v # Null => Resolved(v) # Null)
  <2>1. Fitting /\ ~RuntimeRaises /\ Laid(block, next)
    BY DEF Fitting, Typed, TypeOK, Settled
  <2>2. "interpreter" \in DispatchFields /\ "venv" \in DispatchFields
    BY DEF DispatchFields
  <2> QED
    BY <2>1, <2>2, BlockRead
<1>2. Resolved(Null) = Null
  BY DEF Resolved, Null
<1>3. /\ DeclaredInterpreter # Null /\ DeclaredInterpreter.is = "str"
      /\ i # Null => DeclaredInterpreter = i
      /\ i = Null /\ v # Null => DeclaredInterpreter = Str(VenvPython)
      /\ i = Null /\ v = Null => DeclaredInterpreter = Null
  BY DEF Complete, DeclaredInterpreter, VenvPython
<1> HIDE DEF i, v
<1>4. CASE i # Null
  <2>1. Resolved(i) = DeclaredInterpreter
    BY <1>3, <1>4 DEF Resolved
  <2>2. Has(block, "interpreter") /\ block["interpreter"] = DeclaredInterpreter
    BY <1>1, <1>3, <2>1 DEF Reads
  <2> QED
    BY <2>2 DEF PythonPlan
<1>5. CASE i = Null
  <2>1. ~Has(block, "interpreter")
    BY <1>1, <1>2, <1>5 DEF Reads
  <2>2. v # Null
    BY <1>3, <1>5
  <2>3. DeclaredInterpreter.text = VenvPython
    BY <1>3, <1>5, <2>2 DEF Str
  <2>4. Has(block, "venv")
    BY <1>1, <2>2 DEF Reads
  <2> QED
    BY <2>1, <2>3, <2>4 DEF PythonPlan
<1> QED
  BY <1>4, <1>5

\* A step that starts nothing and ends with nothing that asks for setup.
LEMMA MadeKept ==
    ASSUME Made, UNCHANGED machine, UNCHANGED <<verb, block, next, plan>>,
           setUp' => setUp /\ present \subseteq present',
           \/ pc' = pc /\ started' = started /\ answer' = answer
           \/ pc' = "idle" /\ answer' # "setup"
    PROVE  Made'
<1>1. /\ DeclaredCommand' = DeclaredCommand /\ SetupCommand' = SetupCommand
      /\ DeclaredInterpreter' = DeclaredInterpreter /\ (Complete' <=> Complete)
      /\ \A c : Gives(c)' = Gives(c)
  BY DeclarationsKept
<1>2. InPython' <=> InPython
  BY DEF InPython, Text, Has
<1> QED
  BY <1>1, <1>2 DEF Made, SetupThenRuns

\* A run that finds its tool set up is not sent to setup by the runner.
LEMMA MadeCall ==
    ASSUME PlainDeclarations, Typed, Settled, Made, Call
    PROVE  Made'
<1> DEFINE p == DeclaredInterpreter.text
<1>1. /\ UNCHANGED machine /\ UNCHANGED <<verb, block, next, present, started, setUp>>
      /\ verb = "run" /\ pc = "make"
  BY DEF Call, Typed, Phases
<1>2. /\ DeclaredCommand' = DeclaredCommand /\ DeclaredInterpreter' = DeclaredInterpreter
      /\ Complete' <=> Complete
      /\ \A c : Gives(c)' = Gives(c)
  BY <1>1, DeclarationsKept
<1>3. InPython' <=> InPython
  BY <1>1 DEF InPython, Text, Has
<1>4. /\ plan' = RunnerPlan(block) /\ answer = None
      /\ plan'.kind # "launch" => pc' = "idle" /\ answer' = plan'.kind
      /\ plan'.kind = "launch" => pc' = "start" /\ answer' = answer
  BY <1>1 DEF Call, Answer, Typed, Phases
<1>5. ASSUME setUp, Complete PROVE p \in present
  BY <1>5 DEF Complete, Made
<1>6. ASSUME setUp, Complete
      PROVE  /\ PythonPlan(block).kind # "setup"
             /\ PythonPlan(block).kind = "launch" =>
                  PythonPlan(block).program = p /\ PythonPlan(block).from \in {"tool", "path"}
  <2>1. PythonPlan(block) = InterpreterPlan(block, p)
    BY <1>1, <1>6, AskedFor
  <2>2. p \in present
    BY <1>5, <1>6
  <2>3. Where(p) \in {"tool", "path"}
    BY <2>2 DEF Where
  <2>4. \A k, x, f, t, d : /\ Refuse(k).kind = k
                          /\ Launch(x, f, t, d).kind = "launch"
                          /\ Launch(x, f, t, d).program = x /\ Launch(x, f, t, d).from = f
    BY DEF Refuse, Launch, Nothing
  <2> HIDE DEF p
  <2>5. InterpreterPlan(block, p) \in
          {Refuse("error")} \cup {Launch(p, Where(p), t, d) : t \in {block["module"].text, block["script_path"].text},
                                                          d \in {"tool", "user"}}
    BY <2>2 DEF InterpreterPlan
  <2> QED
    BY <2>1, <2>3, <2>4, <2>5
<1>7. InPython /\ RunnerPlan(block).kind = "launch" => RunnerPlan(block) = PythonPlan(block)
  <2>1. Refuse("error").kind # "launch"
    BY DEF Refuse, Nothing
  <2> QED
    BY <2>1 DEF InPython, Text, None, RunnerPlan
<1>8. answer' = "setup" => ~(setUp /\ Complete)
  <2>1. answer # "setup"
    BY <1>4 DEF None
  <2>2. answer' = "setup" => RunnerPlan(block).kind = "setup"
    BY <1>4, <2>1
  <2> QED
    BY <1>6, <2>2, RunnerKinds
<1>9. pc' = "start" /\ setUp /\ Complete /\ InPython =>
        plan'.program = p /\ plan'.from \in {"tool", "path"}
  BY <1>4, <1>6, <1>7
<1>10. Gives(DeclaredCommand.text)' = Gives(DeclaredCommand.text)
  BY <1>2
<1>11. pc' \in {"start", "idle"}
  BY <1>4
<1> QED
  BY <1>1, <1>2, <1>3, <1>8, <1>9, <1>10, <1>11 DEF Made, SetupThenRuns

\* Nor by the system, when it starts what the runner decided.
LEMMA MadeStart == Typed /\ Made /\ Start => Made'
<1> SUFFICES ASSUME Typed, Made, Start PROVE Made'
  OBVIOUS
<1>1. /\ UNCHANGED machine /\ UNCHANGED <<verb, block, next, present, plan, setUp>>
      /\ verb = "run" /\ pc = "start"
  BY DEF Start
<1>2. /\ DeclaredCommand' = DeclaredCommand /\ DeclaredInterpreter' = DeclaredInterpreter
      /\ Complete' <=> Complete
      /\ \A c : Gives(c)' = Gives(c)
  BY <1>1, DeclarationsKept
<1>3. pc' \in {"running", "idle"}
  BY DEF Start, Answer
<1>4. answer' = "setup" => ~Startable(plan) /\ InPython
  BY DEF Start, Answer, InPython, Typed, Phases, None
<1>5. setUp /\ Complete /\ InPython => Startable(plan)
  <2> SUFFICES ASSUME setUp, Complete, InPython PROVE Startable(plan)
    OBVIOUS
  <2>1. plan.program \in present /\ plan.from \in {"tool", "path"}
    BY <1>1 DEF Made, Complete
  <2> QED
    BY <2>1 DEF Startable
<1>6. Gives(DeclaredCommand.text)' = Gives(DeclaredCommand.text)
  BY <1>2
<1> QED
  BY <1>1, <1>2, <1>3, <1>4, <1>5, <1>6 DEF Made, SetupThenRuns

\* Setup runs the command that was declared, and leaves what it makes.
LEMMA MadeResolve == Typed /\ Made /\ ResolveSetup => Made'
<1> SUFFICES ASSUME Typed, Made, ResolveSetup PROVE Made'
  OBVIOUS
<1>1. /\ UNCHANGED machine /\ UNCHANGED <<verb, next, present, setUp>>
      /\ verb = "setup" /\ pc = "resolve" /\ answer = None
  BY DEF ResolveSetup, Typed, Phases
<1>2. /\ DeclaredCommand' = DeclaredCommand /\ SetupCommand' = SetupCommand
      /\ \A c : Gives(c)' = Gives(c)
  BY <1>1, DeclarationsKept
<1>3. \/ pc' = "idle" /\ answer' = "error"
      \/ pc' = "start" /\ answer' = None /\ plan'.target = SetupCommand
  BY <1>1 DEF ResolveSetup, Answer, Launch, SetupCommand
<1>4. Gives(DeclaredCommand.text)' = Gives(DeclaredCommand.text)
  BY <1>2
<1> QED
  BY <1>1, <1>2, <1>3, <1>4 DEF Made, SetupThenRuns, None

LEMMA MadeEnds ==
    ASSUME PlainDeclarations, Typed, Made, Ends
    PROVE  Made'
<1>1. /\ UNCHANGED machine /\ UNCHANGED <<verb, next>>
      /\ pc = "running" /\ pc' = "idle" /\ answer' \in {"ran", "failed"} /\ present \subseteq present'
  BY DEF Ends, Answer
<1>2. DeclaredCommand' = DeclaredCommand /\ \A c : Gives(c)' = Gives(c)
  BY <1>1, DeclarationsKept
<1>3. setUp' /\ DeclaredCommand # Null /\ DeclaredCommand.is = "str" =>
        Gives(DeclaredCommand.text) \subseteq present'
  <2>1. CASE setUp' = setUp
    BY <1>1, <2>1 DEF Made
  <2>2. CASE setUp' # setUp
    <3>1. verb = "setup" /\ present' = present \cup Gives(started.target)
      BY <2>2 DEF Ends
    <3>2. started.target = SetupCommand
      BY <1>1, <3>1 DEF Made
    <3>3. DeclaredCommand # Null /\ DeclaredCommand.is = "str" =>
            SetupCommand = DeclaredCommand.text
      BY CommandRead DEF SetupCommand, Typed, TypeOK
    <3> QED
      BY <3>1, <3>2, <3>3
  <2> QED
    BY <2>1, <2>2
<1>4. Gives(DeclaredCommand.text)' = Gives(DeclaredCommand.text)
  BY <1>2
<1> QED
  BY <1>1, <1>2, <1>3, <1>4 DEF Made, SetupThenRuns

LEMMA MadeNext ==
    ASSUME PlainDeclarations, Typed, Settled, Made, [Next]_vars
    PROVE  Made'
<1>1. ASSUME NEW v \in {"run", "setup"}, Give(v) PROVE Made'
  <2>1. UNCHANGED machine /\ UNCHANGED <<present, setUp>> /\ pc' = "resolve" /\ answer' = None
    BY <1>1 DEF Give
  <2>2. DeclaredCommand' = DeclaredCommand /\ \A c : Gives(c)' = Gives(c)
    BY <2>1, DeclarationsKept
  <2>3. Gives(DeclaredCommand.text)' = Gives(DeclaredCommand.text)
    BY <2>2
  <2> QED
    BY <2>1, <2>2, <2>3 DEF Made, SetupThenRuns, None
<1>2. ASSUME Resolve \/ TryEntry \/ NoEntry PROVE Made'
  <2>1. /\ UNCHANGED machine /\ UNCHANGED <<verb, present, setUp, plan>> /\ verb = "run"
        /\ answer = None
    BY <1>2 DEF Resolve, TryEntry, NoEntry, Typed, Phases
  <2>2. \/ pc' \in {"prefer", "make"} /\ answer' = answer
        \/ pc' = "idle" /\ answer' = "raised"
    <3>1. CASE Resolve
      BY <3>1 DEF Resolve, Answer
    <3>2. CASE TryEntry
      <4>1. CASE Passes(Prefer[next]) = Raised
        BY <3>2, <4>1 DEF TryEntry, Answer, Raised, Yes, No
      <4>2. CASE Passes(Prefer[next]) = Yes
        BY <3>2, <4>2 DEF TryEntry, Pass, Raised, Yes, No
      <4>3. CASE Passes(Prefer[next]) = No
        BY <3>2, <4>3 DEF TryEntry, Skip, Raised, Yes, No
      <4> QED
        BY <4>1, <4>2, <4>3, PassesIs
    <3>3. CASE NoEntry
      BY <3>3 DEF NoEntry, Answer
    <3> QED
      BY <1>2, <3>1, <3>2, <3>3
  <2>3. DeclaredCommand' = DeclaredCommand /\ \A c : Gives(c)' = Gives(c)
    BY <2>1, DeclarationsKept
  <2>4. Gives(DeclaredCommand.text)' = Gives(DeclaredCommand.text)
    BY <2>3
  <2> QED
    BY <2>1, <2>2, <2>3, <2>4 DEF Made, SetupThenRuns, None
<1>3. CASE Call
  BY <1>3, MadeCall
<1>4. CASE Start
  BY <1>4, MadeStart
<1>5. CASE ResolveSetup
  BY <1>5, MadeResolve
<1>6. CASE StartSetup
  <2>1. /\ UNCHANGED machine /\ UNCHANGED <<verb, present, setUp, plan, answer>> /\ verb = "setup"
        /\ started' = plan /\ pc = "start" /\ answer = None
    BY <1>6 DEF StartSetup, Typed, Phases
  <2>2. /\ DeclaredCommand' = DeclaredCommand /\ SetupCommand' = SetupCommand
        /\ \A c : Gives(c)' = Gives(c)
    BY <2>1, DeclarationsKept
  <2>3. Gives(DeclaredCommand.text)' = Gives(DeclaredCommand.text)
    BY <2>2
  <2> QED
    BY <2>1, <2>2, <2>3 DEF Made, SetupThenRuns, None
<1>7. CASE Ends
  BY <1>7, MadeEnds
<1>8. CASE Change
  BY <1>8, MadeKept DEF Change
<1>9. CASE UNCHANGED vars
  BY <1>9, MadeKept DEF vars, machine
<1> QED
  BY <1>1, <1>2, <1>3, <1>4, <1>5, <1>6, <1>7, <1>8, <1>9 DEF Next

\* A tool whose setup succeeded, and of which nothing was removed since, is not sent to
\* setup again, if its setup makes the interpreter its runtime asks for on this machine
\* (setup_handler, _make_python_interpreter_runner).
THEOREM SetupThenRunsHolds ==
    ASSUME PlainDeclarations
    PROVE  Spec => []SetupThenRuns
<1>1. Init => Typed /\ Settled /\ Made
  <2>1. Init => ~setUp /\ pc = "idle" /\ answer = None
    BY DEF Init
  <2> QED
    BY <2>1, TypedInit DEF Init, Settled, Made, SetupThenRuns
<1>2. Typed /\ Settled /\ Made /\ [Next]_vars => (Typed /\ Settled /\ Made)'
  BY TypedNext, SettledNext, MadeNext
<1>3. Made => SetupThenRuns
  BY DEF Made
<1> QED
  BY <1>1, <1>2, <1>3, PTL DEF Spec
=============================================================================
