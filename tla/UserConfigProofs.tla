-------------------------- MODULE UserConfigProofs --------------------------
(***************************************************************************)
(* What config.json never says, for any processes, tools and kits: a kit   *)
(* on both lists, a constitutional tool shadowed; and what a write loses,  *)
(* and an undo brings back.                                                *)
(*                                                                         *)
(* The first two are not inductive alone, because a write merges what was  *)
(* computed from an old read into what was loaded later. IndInv says that  *)
(* every content a process holds is good, and every update it has computed *)
(* is good by itself, whatever it will be merged into. WriteInv follows    *)
(* what is computed from a read until the read is outdated.                *)
(***************************************************************************)
EXTENDS UserConfig, TLAPS

Good(c) ==
    /\ IsContent(c)
    /\ c["active"] \cap c["disabled"] = {}
    /\ c["shadowed"] \cap Constitutional = {}

\* An update brings both lists of kits or neither.
GoodUpdate(u) ==
    /\ IsUpdate(u)
    /\ "active" \in DOMAIN u <=> "disabled" \in DOMAIN u
    /\ "active" \in DOMAIN u => u["active"] \cap u["disabled"] = {}
    /\ "shadowed" \in DOMAIN u => u["shadowed"] \cap Constitutional = {}

\* A step of a call belongs to a call that computed a good update.
JobOK(j) ==
    /\ DOMAIN j = {"pc", "verb", "who", "update", "mem", "gives", "undoes"}
    /\ j.pc \in {"idle", "load", "replace"} /\ j.verb \in Verbs
    /\ GoodUpdate(j.update)
    /\ j.mem = Nothing \/ Good(j.mem)
    /\ j.pc = "replace" => j.mem # Nothing
    /\ j.gives = None \/ (j.gives \in Receipts /\ j.who \in Tools)

IndInv ==
    /\ file = Nothing \/ Good(file)
    /\ DOMAIN cache = Procs /\ \A p \in Procs : cache[p] = Nothing \/ Good(cache[p])
    /\ DOMAIN job = Procs /\ \A p \in Procs : JobOK(job[p])
    /\ applied \in [Procs -> Tools \cup {None}]
    /\ receipts \in [Procs -> SUBSET Receipts]
    /\ stale \in [Procs -> SUBSET Reasons]
    /\ events \in Nat

KeyNames == {"silenced", "hidden", "shadowed", "active", "disabled", "option"}

-----------------------------------------------------------------------------
(* Contents *)

LEMMA TheKeys == Keys = KeyNames
BY DEF Keys, Rungs, KitKeys, KeyNames

LEMMA EmptyGood == Good(Empty)
BY ConfigAssumption DEF Good, IsContent, Empty, Values, Keys, Rungs, KitKeys

\* Reading never yields anything but a good content.
LEMMA ParseGood ==
    ASSUME NEW c, c = Nothing \/ Good(c)
    PROVE  Good(Parse(c))
BY EmptyGood DEF Parse

\* A good update keeps a good content good, however old its computation is.
LEMMA MergeGood ==
    ASSUME NEW c, NEW u, Good(c), GoodUpdate(u)
    PROVE  Good(Merge(c, u)) /\ Merge(c, u) # Nothing
<1>1. Merge(c, u) = [k \in Keys |-> IF k \in DOMAIN u THEN u[k] ELSE c[k]]
  BY DEF Merge
<1>2. IsContent(Merge(c, u))
  BY <1>1 DEF Good, GoodUpdate, IsUpdate, IsContent
<1>3. "active" \in Keys /\ "disabled" \in Keys /\ "shadowed" \in Keys
  BY DEF Keys, Rungs, KitKeys
<1>4. Merge(c, u)["active"] \cap Merge(c, u)["disabled"] = {}
  BY <1>1, <1>3 DEF Good, GoodUpdate
<1>5. Merge(c, u)["shadowed"] \cap Constitutional = {}
  BY <1>1, <1>3 DEF Good, GoodUpdate
<1>6. DOMAIN Merge(c, u) # DOMAIN Nothing
  BY <1>1, <1>3 DEF Nothing
<1> QED
  BY <1>2, <1>4, <1>5, <1>6 DEF Good

-----------------------------------------------------------------------------
(* Updates *)

\* A level that is not shadowed does not suppress resolution; one that is, is
\* for no constitutional tool.
LEMMA LevelGood ==
    ASSUME NEW c, NEW t \in Tools, NEW l \in Levels, Good(c),
           l = "shadowed" => t \notin Constitutional
    PROVE  GoodUpdate(LevelUpdate(c, t, l))
<1> DEFINE u == LevelUpdate(c, t, l)
<1>1. u = [r \in Rungs |-> Put(c[r], t, ChannelOf[r] \in ChannelsAt(l))]
  BY DEF LevelUpdate
<1>2. DOMAIN u = Rungs /\ Rungs \subseteq Keys
  BY <1>1 DEF Keys
<1>3. ASSUME NEW r \in Rungs PROVE u[r] \in Values(r)
  BY <1>1, <1>2 DEF Good, IsContent, Values, Put
<1>4. IsUpdate(u)
  BY <1>2, <1>3 DEF IsUpdate
<1>5. "shadowed" \in Rungs /\ ChannelOf["shadowed"] = "resolution"
  BY DEF Rungs, ChannelOf
<1>6. l = "shadowed" \/ "resolution" \notin ChannelsAt(l)
  BY DEF Levels, ChannelsAt
<1>7. u["shadowed"] \cap Constitutional = {}
  BY <1>1, <1>5, <1>6 DEF Good, Put
<1> HIDE DEF u
<1>8. "active" \notin DOMAIN u /\ "disabled" \notin DOMAIN u
  BY <1>2 DEF Rungs
<1> QED
  BY <1>4, <1>7, <1>8 DEF GoodUpdate, u

LEMMA RungGood ==
    ASSUME NEW c, NEW t \in Tools, NEW r \in Rungs, NEW add \in BOOLEAN, Good(c),
           (add /\ r = "shadowed") => t \notin Constitutional
    PROVE  GoodUpdate(RungUpdate(c, t, r, add))
<1> DEFINE u == RungUpdate(c, t, r, add)
<1>1. u = [k \in {r} |-> Put(c[r], t, add)]
  BY DEF RungUpdate
<1>2. DOMAIN u = {r} /\ r \in Keys /\ u[r] = Put(c[r], t, add)
  BY <1>1 DEF Keys
<1>3. Put(c[r], t, add) \in Values(r)
  BY <1>2 DEF Good, IsContent, Values, Put
<1>4. r = "shadowed" => u[r] \cap Constitutional = {}
  BY <1>2 DEF Good, Put
<1> HIDE DEF u
<1>5. "active" \notin DOMAIN u /\ "disabled" \notin DOMAIN u
  BY <1>2 DEF Rungs
<1> QED
  BY <1>2, <1>3, <1>4, <1>5 DEF GoodUpdate, IsUpdate, u

\* enable and disable put the kit on one list and take it off the other.
LEMMA KitGood ==
    ASSUME NEW c, NEW kit \in Kits, NEW on \in BOOLEAN, Good(c)
    PROVE  GoodUpdate(KitUpdate(c, kit, on))
<1> DEFINE u == KitUpdate(c, kit, on)
<1>1. u = [k \in KitKeys |-> Put(c[k], kit, on = (k = "active"))]
  BY DEF KitUpdate
<1>2. DOMAIN u = KitKeys /\ KitKeys \subseteq Keys /\ KitKeys \cap Rungs = {}
  BY <1>1 DEF Keys, KitKeys, Rungs
<1>3. ASSUME NEW k \in KitKeys PROVE u[k] \in Values(k)
  <2>1. c[k] \in SUBSET Kits
    BY <1>2 DEF Good, IsContent, Values
  <2> QED
    BY <1>1, <1>2, <2>1 DEF Values, Put
<1>4. "active" \in KitKeys /\ "disabled" \in KitKeys /\ "shadowed" \notin KitKeys
  BY DEF KitKeys
<1>5. u["active"] = Put(c["active"], kit, on) /\ u["disabled"] = Put(c["disabled"], kit, ~on)
  BY <1>1, <1>4
<1>6. u["active"] \cap u["disabled"] = {}
  BY <1>5 DEF Good, Put
<1> HIDE DEF u
<1> QED
  BY <1>2, <1>3, <1>4, <1>6 DEF GoodUpdate, IsUpdate, u

LEMMA OptionGood ==
    ASSUME NEW v \in Options
    PROVE  GoodUpdate([k \in {"option"} |-> v])
BY DEF GoodUpdate, IsUpdate, Values, Keys, Rungs, KitKeys

-----------------------------------------------------------------------------
(* The invariant is inductive *)

LEMMA SeenGood ==
    ASSUME IndInv, NEW p \in Procs
    PROVE  Good(Seen(p))
BY ParseGood DEF IndInv, Seen

LEMMA IdleOK == JobOK(Idle)
<1>1. DOMAIN Nothing = {}
  BY DEF Nothing
<1>2. GoodUpdate(Nothing)
  BY <1>1 DEF GoodUpdate, IsUpdate
<1> QED
  BY <1>2 DEF JobOK, Idle, Verbs

LEMMA InitInv == Init => IndInv
<1> SUFFICES ASSUME Init PROVE IndInv
  OBVIOUS
<1>1. Good(file)
  BY EmptyGood DEF Init
<1>2. \A p \in Procs : JobOK(job[p])
  BY IdleOK DEF Init
<1> QED
  BY <1>1, <1>2 DEF Init, IndInv

\* A call computes a good update from a good read.
LEMMA CallInv ==
    ASSUME IndInv, NEW p \in Procs, NEW verb \in Verbs, NEW who, NEW update,
           NEW gives, NEW undoes, GoodUpdate(update),
           gives = None \/ (gives \in Receipts /\ who \in Tools),
           Calls(p, verb, who, update, gives, undoes)
    PROVE  IndInv'
<1> DEFINE j == [pc |-> "load", verb |-> verb, who |-> who, update |-> update,
                 mem |-> Nothing, gives |-> gives, undoes |-> undoes]
<1>1. JobOK(j)
  BY DEF JobOK
<1> HIDE DEF j
<1>2. job' = [job EXCEPT ![p] = j]
  BY DEF Calls, j
<1>3. DOMAIN job' = Procs /\ \A q \in Procs : JobOK(job'[q])
  BY <1>1, <1>2 DEF IndInv
<1>4. DOMAIN cache' = Procs /\ \A q \in Procs : cache'[q] = Nothing \/ Good(cache'[q])
  BY SeenGood DEF IndInv, Calls, Caches
<1>5. events' \in Nat
  BY ConfigAssumption DEF IndInv, Calls, Event
<1>6. UNCHANGED <<file, applied, receipts, stale>>
  BY DEF Calls
<1> QED
  BY <1>3, <1>4, <1>5, <1>6 DEF IndInv, JobOK, GoodUpdate, IsUpdate, Good, IsContent

\* hide, expose and undo, whatever tool undo acts on.
LEMMA MoveInv ==
    ASSUME IndInv, NEW p \in Procs, NEW t \in Tools, NEW l \in Levels,
           NEW verb \in {"hide", "expose"}, NEW undoes, Move(p, t, l, verb, undoes)
    PROVE  IndInv'
<1> DEFINE c == Seen(p)  prev == LevelOf(c, t)  r == Receipt(t, prev, l)
           u == LevelUpdate(c, t, l)
<1>1. Good(c)
  BY SeenGood
<1>2. GoodUpdate(u)
  <2>1. l = "shadowed" => t \notin Constitutional
    BY DEF Move, CheckMove
  <2> HIDE DEF c
  <2> QED
    BY <1>1, <2>1, LevelGood
<1>3. prev \in Levels
  BY DEF LevelOf, Levels
<1>4. r \in Receipts
  BY <1>3 DEF Receipt, Receipts
<1>5. Calls(p, verb, t, u, r, undoes)
  BY DEF Move
<1>6. verb \in Verbs
  BY DEF Verbs
<1> HIDE DEF u, r, c, prev
<1> QED
  BY <1>2, <1>4, <1>5, <1>6, CallInv

LEMMA VisibilityInv ==
    ASSUME IndInv, NEW p \in Procs, Visibility(p)
    PROVE  IndInv'
<1>1. ASSUME NEW t \in Tools, NEW l \in Levels, Hide(p, t, l) \/ Expose(p, t, l)
      PROVE  IndInv'
  BY <1>1, MoveInv DEF Hide, Expose
<1>2. ASSUME NEW t \in Tools, NEW r \in Rungs, NEW add \in BOOLEAN, SetRung(p, t, r, add)
      PROVE  IndInv'
  <2> DEFINE u == RungUpdate(Seen(p), t, r, add)
  <2>1. (add /\ r = "shadowed") => t \notin Constitutional
    BY <1>2 DEF SetRung
  <2>2. GoodUpdate(u)
    BY <2>1, SeenGood, RungGood
  <2>3. Calls(p, "rung", t, u, None, None) /\ "rung" \in Verbs
    BY <1>2 DEF SetRung, Verbs
  <2> HIDE DEF u
  <2> QED
    BY <2>2, <2>3, CallInv
<1>3. ASSUME NEW r \in receipts[p], Undo(p, r)
      PROVE  IndInv'
  <2>1. applied[p] \in Tools /\ r.prev \in Levels
    BY <1>3 DEF IndInv, Undo, Receipts
  <2>2. PICK verb \in {"hide", "expose"} : Move(p, applied[p], r.prev, verb, r)
    BY <1>3 DEF Undo
  <2> QED
    BY <2>1, <2>2, MoveInv
<1> QED
  BY <1>1, <1>2, <1>3 DEF Visibility

LEMMA ActivationInv ==
    ASSUME IndInv, NEW p \in Procs, Activation(p)
    PROVE  IndInv'
<1>1. PICK kit \in Kits, on \in BOOLEAN, verb \in Verbs :
         Calls(p, verb, kit, KitUpdate(Seen(p), kit, on), None, None)
  BY DEF Activation, Enable, Disable, Verbs
<1>2. GoodUpdate(KitUpdate(Seen(p), kit, on))
  BY SeenGood, KitGood
<1> QED
  BY <1>1, <1>2, CallInv

LEMMA OptionInv ==
    ASSUME IndInv, NEW p \in Procs, NEW v \in Options, SetOption(p, v)
    PROVE  IndInv'
BY OptionGood, CallInv DEF SetOption, Verbs

\* What makes others' reads stale never leaves the type of stale.
LEMMA OutdatedType ==
    ASSUME NEW others
    PROVE  Outdated(others) \in [Procs -> SUBSET Reasons]
BY DEF Outdated, Reasons

\* A load, of the file or of one that cannot be opened.
LEMMA MemInv ==
    ASSUME IndInv, NEW p \in Procs, NEW c \in {Parse(file), Empty},
           job' = [job EXCEPT ![p].pc = "replace", ![p].mem = c],
           UNCHANGED <<file, cache, applied, receipts>>,
           stale' \in [Procs -> SUBSET Reasons], events' \in Nat
    PROVE  IndInv'
<1>1. Good(c) /\ c # Nothing
  <2>1. Good(c)
    BY ParseGood, EmptyGood DEF IndInv
  <2>2. DOMAIN c # DOMAIN Nothing
    BY <2>1, TheKeys DEF Good, IsContent, KeyNames, Nothing
  <2> QED
    BY <2>1, <2>2
<1>2. job' = [job EXCEPT ![p] = [job[p] EXCEPT !.pc = "replace", !.mem = c]]
  BY DEF IndInv
<1>3. JobOK([job[p] EXCEPT !.pc = "replace", !.mem = c])
  BY <1>1 DEF IndInv, JobOK
<1>4. DOMAIN job' = Procs /\ \A q \in Procs : JobOK(job'[q])
  BY <1>2, <1>3 DEF IndInv
<1> QED
  BY <1>4 DEF IndInv

LEMMA LoadInv ==
    ASSUME IndInv, NEW p \in Procs, LoadExisting(p) \/ LoadFails(p)
    PROVE  IndInv'
<1>1. events' \in Nat /\ stale' \in [Procs -> SUBSET Reasons]
  BY DEF IndInv, LoadExisting, LoadFails, Event, Reasons
<1>2. PICK c \in {Parse(file), Empty} :
         job' = [job EXCEPT ![p].pc = "replace", ![p].mem = c]
  BY DEF LoadExisting, LoadFails
<1>3. UNCHANGED <<file, cache, applied, receipts>>
  BY DEF LoadExisting, LoadFails
<1> QED
  BY <1>1, <1>2, <1>3, MemInv

\* However old the read, and whatever the file has become since it was loaded.
LEMMA ReplaceInv ==
    ASSUME IndInv, NEW p \in Procs, Replace(p)
    PROVE  IndInv'
<1>1. JobOK(job[p]) /\ job[p].pc = "replace"
  BY DEF IndInv, Replace, At
<1>2. Good(job[p].mem) /\ GoodUpdate(job[p].update)
  BY <1>1 DEF JobOK
<1>3. Good(file')
  BY <1>2, MergeGood DEF Replace
<1>4. DOMAIN job' = Procs /\ \A q \in Procs : JobOK(job'[q])
  BY IdleOK DEF IndInv, Replace
<1>5. DOMAIN cache' = Procs /\ \A q \in Procs : cache'[q] = Nothing \/ Good(cache'[q])
  BY DEF IndInv, Replace
<1>6. /\ applied' \in [Procs -> Tools \cup {None}]
      /\ receipts' \in [Procs -> SUBSET Receipts]
  BY <1>1 DEF IndInv, Replace, JobOK
<1>7. stale' \in [Procs -> SUBSET Reasons] /\ events' \in Nat
  BY OutdatedType DEF IndInv, Replace
<1> QED
  BY <1>3, <1>4, <1>5, <1>6, <1>7 DEF IndInv

\* A failing write, a crash and a broken file only take something away.
LEMMA MishapInv ==
    ASSUME IndInv, (\E p \in Procs : ReplaceFails(p) \/ Crash(p)) \/ Typo
    PROVE  IndInv'
<1>1. events' \in Nat
  BY DEF IndInv, ReplaceFails, Crash, Typo, Event
<1>2. ASSUME NEW p \in Procs, ReplaceFails(p) PROVE IndInv'
  <2>1. DOMAIN job' = Procs /\ \A q \in Procs : JobOK(job'[q])
    BY <1>2, IdleOK DEF IndInv, ReplaceFails
  <2>2. stale' \in [Procs -> SUBSET Reasons]
    BY <1>2 DEF IndInv, ReplaceFails
  <2> QED
    BY <1>1, <1>2, <2>1, <2>2 DEF IndInv, ReplaceFails
<1>3. ASSUME NEW p \in Procs, Crash(p) PROVE IndInv'
  <2>1. DOMAIN job' = Procs /\ \A q \in Procs : JobOK(job'[q])
    BY <1>3, IdleOK DEF IndInv, Crash
  <2>2. DOMAIN cache' = Procs /\ \A q \in Procs : cache'[q] = Nothing \/ Good(cache'[q])
    BY <1>3 DEF IndInv, Crash
  <2>3. /\ applied' \in [Procs -> Tools \cup {None}]
        /\ receipts' \in [Procs -> SUBSET Receipts]
        /\ stale' \in [Procs -> SUBSET Reasons]
    BY <1>3 DEF IndInv, Crash
  <2> QED
    BY <1>1, <1>3, <2>1, <2>2, <2>3 DEF IndInv, Crash
<1>4. CASE Typo
  BY <1>1, <1>4, OutdatedType DEF IndInv, Typo
<1> QED
  BY <1>2, <1>3, <1>4

LEMMA NextInv == IndInv /\ [Next]_vars => IndInv'
<1> SUFFICES ASSUME IndInv, [Next]_vars PROVE IndInv'
  OBVIOUS
<1>1. ASSUME NEW p \in Procs, Discover(p) PROVE IndInv'
  <2>1. DOMAIN cache' = Procs /\ \A q \in Procs : cache'[q] = Nothing \/ Good(cache'[q])
    BY <1>1, SeenGood DEF IndInv, Discover, Caches
  <2> QED
    BY <1>1, <2>1 DEF IndInv, Discover
<1>2. CASE UNCHANGED vars
  BY <1>2 DEF IndInv, vars
<1>3. ASSUME NEW p \in Procs, ReadFails(p) PROVE IndInv'
  <2>1. DOMAIN cache' = Procs /\ \A q \in Procs : cache'[q] = Nothing \/ Good(cache'[q])
    BY <1>3, EmptyGood DEF IndInv, ReadFails
  <2>2. events' \in Nat /\ stale' \in [Procs -> SUBSET Reasons]
    BY <1>3 DEF IndInv, ReadFails, Event, Reasons
  <2> QED
    BY <1>3, <2>1, <2>2 DEF IndInv, ReadFails
<1> QED
  BY <1>1, <1>2, <1>3, VisibilityInv, ActivationInv, OptionInv, LoadInv, ReplaceInv, MishapInv
     DEF Next

-----------------------------------------------------------------------------
(* What a write is computed from *)

Whole(c) == c = [k \in Keys |-> c[k]]

\* What a call writes, against the content c it was computed from.
Told(j, c) ==
    /\ \A k \in DOMAIN j.update \ {"option"} : j.update[k] \ {j.who} = c[k] \ {j.who}
    /\ j.gives # None => \E l \in Levels :
          /\ j.gives = Receipt(j.who, LevelOf(c, j.who), l)
          /\ j.update = LevelUpdate(c, j.who, l)
    /\ j.undoes # None => j.update = LevelUpdate(c, j.who, j.undoes.prev)

\* A read and a load that nobody has outdated are the file, and what a call is
\* about to write was computed from the read that is still cached.
FreshInv == \A p \in Procs :
    /\ cache[p] # Nothing /\ ReadHolds(p) => cache[p] = Parse(file)
    /\ job[p].pc = "replace" /\ LoadHolds(p) => job[p].mem = Parse(file)
    /\ job[p].pc # "idle" => cache[p] # Nothing /\ Told(job[p], cache[p])

\* The last write, if it was a move on what it had read, made the file what a
\* move makes of what was there; an undo of it acts on the same tool.
LastInv == last # None =>
    /\ last.by \in Procs
    /\ last.gave # None => applied[last.by] \in {None, last.who}
    /\ last.gave # None /\ ~last.late => \E l \in Levels :
          /\ last.gave = Receipt(last.who, LevelOf(last.was, last.who), l)
          /\ file = Merge(last.was, LevelUpdate(last.was, last.who, l))
          /\ IsContent(last.was) /\ Whole(last.was)
    /\ \A p \in Procs :
          (job[p].pc # "idle" /\ job[p].undoes # None
             /\ last.by = p /\ last.gave = job[p].undoes)
          => job[p].who = last.who

WriteInv == IndInv /\ FreshInv /\ LastInv /\ Whole(Parse(file))

\* What the verbs compute differs from the read by their own tool or kit.
LEMMA LevelOwn ==
    ASSUME NEW c, NEW t, NEW l
    PROVE  /\ DOMAIN LevelUpdate(c, t, l) = Rungs
           /\ \A k \in Rungs : LevelUpdate(c, t, l)[k] \ {t} = c[k] \ {t}
BY DEF LevelUpdate, Put

\* A content is not the empty string that cannot be parsed.
LEMMA ContentThere == \A c : Good(c) => c # Nothing
BY TheKeys DEF Good, IsContent, KeyNames, Nothing

\* A call that tells the truth of what it has read.
LEMMA CallFresh ==
    ASSUME WriteInv, NEW p \in Procs, NEW verb, NEW who, NEW update, NEW gives, NEW undoes,
           Calls(p, verb, who, update, gives, undoes),
           Told([pc |-> "load", verb |-> verb, who |-> who, update |-> update,
                 mem |-> Nothing, gives |-> gives, undoes |-> undoes], Seen(p)),
           undoes # None => who = applied[p] /\ who # None
    PROVE  FreshInv' /\ LastInv'
<1> DEFINE j == [pc |-> "load", verb |-> verb, who |-> who, update |-> update,
                 mem |-> Nothing, gives |-> gives, undoes |-> undoes]
<1>1. /\ job' = [job EXCEPT ![p] = j] /\ cache' = [cache EXCEPT ![p] = Seen(p)]
      /\ UNCHANGED <<file, applied, stale, last>>
  BY DEF Calls, Caches
<1>2. /\ j.pc = "load" /\ j.undoes = undoes /\ j.who = who
      /\ Told(j, Seen(p))
  OBVIOUS
<1> HIDE DEF j
<1>3. /\ DOMAIN job = Procs /\ DOMAIN cache = Procs
      /\ job'[p] = j /\ cache'[p] = Seen(p)
      /\ \A q \in Procs \ {p} : job'[q] = job[q] /\ cache'[q] = cache[q]
  BY <1>1 DEF WriteInv, IndInv
<1>4. Seen(p) # Nothing
  BY SeenGood, ContentThere DEF WriteInv
<1>5. FreshInv'
  <2> SUFFICES ASSUME NEW q \in Procs
               PROVE  /\ cache'[q] # Nothing /\ ReadHolds(q)
                           => cache'[q] = Parse(file)
                      /\ job'[q].pc = "replace" /\ LoadHolds(q)
                           => job'[q].mem = Parse(file)
                      /\ job'[q].pc # "idle" => cache'[q] # Nothing /\ Told(job'[q], cache'[q])
    BY <1>1 DEF FreshInv, Parse, ReadHolds, LoadHolds
  <2>1. CASE q = p
    BY <1>2, <1>3, <1>4, <2>1 DEF WriteInv, FreshInv, Seen
  <2>2. CASE q # p
    BY <1>3, <2>2 DEF WriteInv, FreshInv
  <2> QED
    BY <2>1, <2>2
<1>6. LastInv'
  BY <1>1, <1>2, <1>3 DEF WriteInv, LastInv
<1> QED
  BY <1>5, <1>6

\* hide, expose and undo, whatever tool undo acts on.
LEMMA MoveFresh ==
    ASSUME WriteInv, NEW p \in Procs, NEW t \in Tools, NEW l \in Levels, NEW verb, NEW undoes,
           Move(p, t, l, verb, undoes), undoes # None => t = applied[p] /\ l = undoes.prev
    PROVE  FreshInv' /\ LastInv'
<1> DEFINE c == Seen(p)
           u == LevelUpdate(c, t, l)
           r == Receipt(t, LevelOf(c, t), l)
           j == [pc |-> "load", verb |-> verb, who |-> t, update |-> u,
                 mem |-> Nothing, gives |-> r, undoes |-> undoes]
<1>1. Calls(p, verb, t, u, r, undoes)
  BY DEF Move
<1>2. /\ DOMAIN u = Rungs /\ \A k \in Rungs : u[k] \ {t} = c[k] \ {t}
  BY LevelOwn
<1>3. j.update = u /\ j.who = t /\ j.gives = r /\ j.undoes = undoes
  OBVIOUS
<1>4. Told(j, c)
  <2> HIDE DEF c, j
  <2> QED
    BY <1>2, <1>3 DEF Told
<1>5. t # None
  BY ConfigAssumption
<1> HIDE DEF u, r, c
<1> QED
  BY <1>1, <1>4, <1>5, CallFresh DEF c

\* Calls that give no receipt and undo none.
LEMMA PlainFresh ==
    ASSUME WriteInv, NEW p \in Procs, NEW verb, NEW who, NEW update,
           Calls(p, verb, who, update, None, None),
           \A k \in DOMAIN update \ {"option"} : update[k] \ {who} = Seen(p)[k] \ {who}
    PROVE  FreshInv' /\ LastInv'
<1> DEFINE j == [pc |-> "load", verb |-> verb, who |-> who, update |-> update,
                 mem |-> Nothing, gives |-> None, undoes |-> None]
<1>1. Told(j, Seen(p))
  BY DEF Told
<1> QED
  BY <1>1, CallFresh

LEMMA VerbFresh ==
    ASSUME WriteInv, NEW p \in Procs,
           Visibility(p) \/ Activation(p) \/ \E v \in Options : SetOption(p, v)
    PROVE  FreshInv' /\ LastInv'
<1>1. ASSUME NEW t \in Tools, NEW l \in Levels, Hide(p, t, l) \/ Expose(p, t, l)
      PROVE  FreshInv' /\ LastInv'
  BY <1>1, MoveFresh DEF Hide, Expose
<1>2. ASSUME NEW t \in Tools, NEW r \in Rungs, NEW add \in BOOLEAN, SetRung(p, t, r, add)
      PROVE  FreshInv' /\ LastInv'
  <2> DEFINE u == RungUpdate(Seen(p), t, r, add)
  <2>1. \A k \in DOMAIN u : u[k] \ {t} = Seen(p)[k] \ {t}
    BY DEF RungUpdate, Put
  <2>2. Calls(p, "rung", t, u, None, None)
    BY <1>2 DEF SetRung
  <2> HIDE DEF u
  <2> QED
    BY <2>1, <2>2, PlainFresh
<1>3. ASSUME NEW r \in receipts[p], Undo(p, r)
      PROVE  FreshInv' /\ LastInv'
  <2>1. applied[p] \in Tools /\ r.prev \in Levels
    BY <1>3 DEF WriteInv, IndInv, Undo, Receipts
  <2>2. PICK verb \in {"hide", "expose"} : Move(p, applied[p], r.prev, verb, r)
    BY <1>3 DEF Undo
  <2> QED
    BY <2>1, <2>2, MoveFresh
<1>4. ASSUME Activation(p) PROVE FreshInv' /\ LastInv'
  <2>1. PICK kit \in Kits, on \in BOOLEAN, verb \in Verbs :
           Calls(p, verb, kit, KitUpdate(Seen(p), kit, on), None, None)
    BY <1>4 DEF Activation, Enable, Disable, Verbs
  <2> DEFINE u == KitUpdate(Seen(p), kit, on)
  <2>2. \A k \in DOMAIN u : u[k] \ {kit} = Seen(p)[k] \ {kit}
    BY DEF KitUpdate, Put
  <2> HIDE DEF u
  <2> QED
    BY <2>1, <2>2, PlainFresh DEF u
<1>5. ASSUME NEW v \in Options, SetOption(p, v) PROVE FreshInv' /\ LastInv'
  <2> DEFINE u == [k \in {"option"} |-> v]
  <2>1. Calls(p, "option", None, u, None, None) /\ DOMAIN u = {"option"}
    BY <1>5 DEF SetOption
  <2> HIDE DEF u
  <2> QED
    BY <2>1, PlainFresh
<1> QED
  BY <1>1, <1>2, <1>3, <1>4, <1>5 DEF Visibility

\* What one process writes outdates what the others have read and loaded.
LEMMA OutdatedFresh ==
    ASSUME NEW others, NEW q \in Procs, q \in others
    PROVE  /\ cache[q] # Nothing => "read" \in Outdated(others)[q]
           /\ job[q].pc = "replace" => "load" \in Outdated(others)[q]
BY DEF Outdated, At

\* A replacement, of which the record tells what it made of what.
LEMMA ReplaceFresh ==
    ASSUME WriteInv, NEW p \in Procs, Replace(p)
    PROVE  FreshInv' /\ LastInv'
<1> DEFINE j == job[p]
<1>0. /\ IndInv /\ FreshInv /\ JobOK(j) /\ j.pc = "replace"
      /\ DOMAIN job = Procs /\ DOMAIN cache = Procs
      /\ applied \in [Procs -> Tools \cup {None}]
  BY DEF WriteInv, IndInv, Replace, At
<1>1. /\ file' = Merge(j.mem, j.update) /\ cache'[p] = Nothing /\ job'[p] = Idle
      /\ \A q \in Procs \ {p} : job'[q] = job[q] /\ cache'[q] = cache[q]
      /\ stale' = Outdated(Procs \ {p})
      /\ j.gives # None => applied'[p] = j.who
  BY <1>0 DEF Replace
<1>2. Idle.pc = "idle"
  BY DEF Idle
<1>3. FreshInv'
  <2> SUFFICES ASSUME NEW q \in Procs
               PROVE  /\ cache'[q] # Nothing => "read" \in stale'[q]
                      /\ job'[q].pc = "replace" => "load" \in stale'[q]
                      /\ job'[q].pc # "idle" => cache'[q] # Nothing /\ Told(job'[q], cache'[q])
    BY DEF FreshInv, ReadHolds, LoadHolds
  <2>1. CASE q = p
    BY <1>1, <1>2, <2>1
  <2>2. CASE q # p
    BY <1>0, <1>1, <2>2, OutdatedFresh DEF FreshInv
  <2> QED
    BY <2>1, <2>2
<1>4. LastInv'
  <2>1. last' = [by |-> p, verb |-> j.verb, who |-> j.who, gave |-> j.gives,
                 was |-> Parse(file), late |-> stale[p] # {}]
    BY DEF Replace
  <2>2. last'.by = p /\ last'.who = j.who /\ last'.gave = j.gives /\ last'.was = Parse(file)
    BY <2>1
  <2>3. last'.late = (stale[p] # {})
    BY <2>1, Zenon
  <2>4. ~last'.late => j.mem = Parse(file) /\ cache[p] = Parse(file)
    <3> SUFFICES ASSUME stale[p] = {} PROVE j.mem = Parse(file) /\ cache[p] = Parse(file)
      BY <2>3
    <3> QED
      BY <1>0 DEF FreshInv, ReadHolds, LoadHolds
  <2>5. ASSUME ~last'.late, j.gives # None
        PROVE  \E l \in Levels :
                 /\ j.gives = Receipt(j.who, LevelOf(Parse(file), j.who), l)
                 /\ file' = Merge(Parse(file), LevelUpdate(Parse(file), j.who, l))
    BY <1>0, <1>1, <2>4, <2>5 DEF FreshInv, Told
  <2>6. IsContent(Parse(file)) /\ Whole(Parse(file))
    BY <1>0, ParseGood DEF IndInv, Good, WriteInv
  <2>7. \A q \in Procs : job'[q].pc # "idle" => q # p
    BY <1>1, <1>2
  <2> QED
    BY <1>1, <2>2, <2>5, <2>6, <2>7 DEF LastInv
<1> QED
  BY <1>3, <1>4

\* The rest of the steps take something away or refresh a load.
LEMMA OtherFresh ==
    ASSUME WriteInv,
           \/ \E p \in Procs : \/ Discover(p) \/ ReadFails(p) \/ ReplaceFails(p)
                               \/ LoadExisting(p) \/ LoadFails(p) \/ Crash(p)
           \/ Typo
    PROVE  FreshInv' /\ LastInv'
<1>0. /\ IndInv /\ FreshInv /\ LastInv /\ DOMAIN job = Procs /\ DOMAIN cache = Procs
      /\ Idle.pc = "idle" /\ applied \in [Procs -> Tools \cup {None}]
      /\ stale \in [Procs -> SUBSET Reasons]
  BY DEF WriteInv, IndInv, Idle
<1>1. ASSUME NEW p \in Procs, Discover(p) PROVE FreshInv' /\ LastInv'
  <2>1. /\ UNCHANGED <<file, job, applied, stale, last>> /\ job[p].pc = "idle"
        /\ cache' = [cache EXCEPT ![p] = Parse(file)]
    BY <1>1 DEF Discover, At, Caches, Seen
  <2> QED
    BY <1>0, <2>1 DEF FreshInv, LastInv, Parse, ReadHolds, LoadHolds
<1>2. ASSUME NEW p \in Procs, LoadExisting(p) PROVE FreshInv' /\ LastInv'
  <2> DEFINE n == [job[p] EXCEPT !.pc = "replace", !.mem = Parse(file)]
  <2>1. UNCHANGED <<file, cache, applied, stale, last>> /\ job[p].pc = "load"
    BY <1>2 DEF LoadExisting, At
  <2>2. job'[p] = n /\ \A q \in Procs \ {p} : job'[q] = job[q]
    BY <1>0, <1>2 DEF LoadExisting
  <2>3. /\ n.pc = "replace" /\ n.mem = Parse(file) /\ n.update = job[p].update
        /\ n.who = job[p].who /\ n.gives = job[p].gives /\ n.undoes = job[p].undoes
    BY <1>0 DEF IndInv, JobOK
  <2>4. Told(n, cache[p])
    BY <1>0, <2>1, <2>3 DEF FreshInv, Told
  <2> HIDE DEF n
  <2>5. FreshInv'
    BY <1>0, <2>1, <2>2, <2>3, <2>4 DEF FreshInv, Parse, ReadHolds, LoadHolds
  <2>6. LastInv'
    BY <1>0, <2>1, <2>2, <2>3 DEF LastInv
  <2> QED
    BY <2>5, <2>6
<1>3. ASSUME NEW p \in Procs, ReplaceFails(p) PROVE FreshInv' /\ LastInv'
  <2>1. /\ UNCHANGED <<file, cache, applied, last>>
        /\ job' = [job EXCEPT ![p] = Idle]
        /\ stale' = [stale EXCEPT ![p] = @ \ {"load", "unloaded"}]
    BY <1>3 DEF ReplaceFails
  <2>2. \A q \in Procs : /\ ReadHolds(q)' <=> ReadHolds(q)
                         /\ q # p => stale'[q] = stale[q]
    BY <1>0, <2>1 DEF ReadHolds
  <2>3. job'[p] = Idle /\ \A q \in Procs \ {p} : job'[q] = job[q]
    BY <1>0, <2>1
  <2>4. FreshInv'
    BY <1>0, <2>1, <2>2, <2>3 DEF FreshInv, Parse, LoadHolds
  <2>5. LastInv'
    BY <1>0, <2>1, <2>3 DEF LastInv
  <2> QED
    BY <2>4, <2>5
<1>4. ASSUME NEW p \in Procs, Crash(p) PROVE FreshInv' /\ LastInv'
  <2>1. /\ UNCHANGED <<file, last>> /\ job'[p] = Idle /\ cache'[p] = Nothing
        /\ applied'[p] = None
        /\ \A q \in Procs \ {p} : /\ job'[q] = job[q] /\ cache'[q] = cache[q]
                                  /\ stale'[q] = stale[q] /\ applied'[q] = applied[q]
    BY <1>0, <1>4 DEF Crash
  <2>2. FreshInv'
    BY <1>0, <2>1 DEF FreshInv, Parse, ReadHolds, LoadHolds
  <2>3. LastInv'
    BY <1>0, <2>1 DEF LastInv
  <2> QED
    BY <2>2, <2>3
<1>5. CASE Typo
  <2>1. UNCHANGED <<cache, job>> /\ stale' = Outdated(Procs) /\ last' = None
    BY <1>5 DEF Typo
  <2>2. FreshInv'
    BY <1>0, <2>1, OutdatedFresh DEF FreshInv, ReadHolds, LoadHolds
  <2> QED
    BY <2>1, <2>2 DEF LastInv
<1>6. ASSUME NEW p \in Procs, ReadFails(p) PROVE FreshInv' /\ LastInv'
  <2>1. /\ UNCHANGED <<file, job, applied, last>> /\ job[p].pc = "idle"
        /\ cache' = [cache EXCEPT ![p] = Empty]
        /\ stale' = [stale EXCEPT ![p] = @ \cup {"unread"}]
    BY <1>6 DEF ReadFails, At
  <2>2. /\ ~ReadHolds(p)' /\ stale'[p] = stale[p] \cup {"unread"}
        /\ \A q \in Procs \ {p} : stale'[q] = stale[q] /\ cache'[q] = cache[q]
    BY <1>0, <2>1 DEF ReadHolds
  <2>3. FreshInv'
    BY <1>0, <2>1, <2>2 DEF FreshInv, Parse, ReadHolds, LoadHolds
  <2>4. LastInv'
    BY <1>0, <2>1 DEF LastInv
  <2> QED
    BY <2>3, <2>4
<1>7. ASSUME NEW p \in Procs, LoadFails(p) PROVE FreshInv' /\ LastInv'
  <2> DEFINE n == [job[p] EXCEPT !.pc = "replace", !.mem = Empty]
  <2>1. /\ UNCHANGED <<file, cache, applied, last>> /\ job[p].pc = "load"
        /\ stale' = [stale EXCEPT ![p] = @ \cup {"unloaded"}]
    BY <1>7 DEF LoadFails, At
  <2>2. job'[p] = n /\ \A q \in Procs \ {p} : job'[q] = job[q]
    BY <1>0, <1>7 DEF LoadFails
  <2>3. /\ n.pc = "replace" /\ n.update = job[p].update
        /\ n.who = job[p].who /\ n.gives = job[p].gives /\ n.undoes = job[p].undoes
    BY <1>0 DEF IndInv, JobOK
  <2>4. Told(n, cache[p])
    BY <1>0, <2>1, <2>3 DEF FreshInv, Told
  <2> HIDE DEF n
  <2>5. /\ ~LoadHolds(p)' /\ ReadHolds(p)' <=> ReadHolds(p)
        /\ \A q \in Procs \ {p} : stale'[q] = stale[q]
    BY <1>0, <2>1 DEF ReadHolds, LoadHolds
  <2>6. FreshInv'
    BY <1>0, <2>1, <2>2, <2>3, <2>4, <2>5 DEF FreshInv, Parse, ReadHolds, LoadHolds
  <2>7. LastInv'
    BY <1>0, <2>1, <2>2, <2>3 DEF LastInv
  <2> QED
    BY <2>6, <2>7
<1> QED
  BY <1>1, <1>2, <1>3, <1>4, <1>5, <1>6, <1>7

-----------------------------------------------------------------------------
(* The theorems *)

LEMMA Invariant == Spec => []IndInv
BY InitInv, NextInv, PTL DEF Spec

LEMMA Implied == IndInv => TypeOK /\ NeverBoth /\ NeverShadowed
<1> SUFFICES ASSUME IndInv PROVE TypeOK /\ NeverBoth /\ NeverShadowed
  OBVIOUS
<1>1. Good(Parse(file))
  BY ParseGood DEF IndInv
<1>2. TypeOK
  BY DEF IndInv, TypeOK, JobOK, Good, GoodUpdate, At
<1> QED
  BY <1>1, <1>2 DEF Good, NeverBoth, NeverShadowed

LEMMA WriteNext == WriteInv /\ [Next]_vars => WriteInv'
<1> SUFFICES ASSUME WriteInv, [Next]_vars 
             PROVE  FreshInv' /\ LastInv' /\ Whole(Parse(file))'
  BY NextInv DEF WriteInv
<1>0. Whole(Parse(file))'
  <2>1. \A c, u : Whole(Merge(c, u)) /\ Merge(c, u) # Nothing
    <3>1. \A c, u : DOMAIN Merge(c, u) = Keys /\ Whole(Merge(c, u))
      BY DEF Merge, Whole
    <3> QED
      BY <3>1, TheKeys DEF KeyNames, Nothing
  <2>2. Whole(Empty)
    BY DEF Whole, Empty
  <2>3. file' = file \/ file' = Nothing \/ \E c, u : file' = Merge(c, u)
    <3>1. ASSUME NEW p \in Procs, Visibility(p) \/ Activation(p) PROVE file' = file
      BY <3>1 DEF Visibility, Activation, Hide, Expose, Undo, SetRung, Move, Enable,
         Disable, Calls
    <3>2. ASSUME NEW p \in Procs, \/ \E v \in Options : SetOption(p, v)
                                  \/ Discover(p) \/ LoadExisting(p) \/ ReplaceFails(p)
                                  \/ ReadFails(p) \/ LoadFails(p) \/ Crash(p)
          PROVE  file' = file
      BY <3>2 DEF SetOption, Calls, Discover, LoadExisting, ReplaceFails, ReadFails,
         LoadFails, Crash
    <3>3. ASSUME NEW p \in Procs, Replace(p) PROVE \E c, u : file' = Merge(c, u)
      BY <3>3 DEF Replace
    <3>4. Typo => file' = Nothing
      BY DEF Typo
    <3>5. UNCHANGED vars => file' = file
      BY DEF vars
    <3> QED
      BY <3>1, <3>2, <3>3, <3>4, <3>5 DEF Next
  <2>4. CASE file' = file
    BY <2>4 DEF WriteInv, Whole, Parse
  <2>5. CASE file' = Nothing
    BY <2>2, <2>5 DEF Parse, Whole
  <2>6. CASE \E c, u : file' = Merge(c, u)
    BY <2>1, <2>6 DEF Parse, Whole
  <2> QED
    BY <2>3, <2>4, <2>5, <2>6
<1>1. CASE UNCHANGED vars
  BY <1>1 DEF WriteInv, FreshInv, LastInv, vars, Parse, ReadHolds, LoadHolds
<1> QED
  BY <1>0, <1>1, VerbFresh, ReplaceFresh, OtherFresh DEF Next

LEMMA WriteInit == Init => WriteInv
<1> SUFFICES ASSUME Init PROVE WriteInv
  OBVIOUS
<1>1. \A p \in Procs : job[p].pc = "idle" /\ cache[p] = Nothing
  BY DEF Init, Idle
<1>2. last = None /\ Whole(Parse(file))
  BY DEF Init, Whole, Parse, Empty
<1> QED
  BY <1>1, <1>2, InitInv DEF WriteInv, FreshInv, LastInv

LEMMA WriteInvariant == Spec => []WriteInv
BY WriteInit, WriteNext, PTL DEF Spec

\* Every variable has its type: what the verbs write is a configuration file.
THEOREM TypeCorrect == Spec => []TypeOK
BY Invariant, Implied, PTL

\* In no file is a kit on both lists, whatever writes overlapped.
THEOREM NeverOnBothLists == Spec => []NeverBoth
BY Invariant, Implied, PTL

\* C3: no constitutional tool is ever shadowed, whatever undo acted on.
THEOREM ConstitutionalKept == Spec => []NeverShadowed
BY Invariant, Implied, PTL

\* A replacement that nobody overlapped changes nothing but what its verb is about.
LEMMA LossNeeds ==
    ASSUME WriteInv, NEW p \in Procs, Replace(p)
    PROVE  LET j == job[p]  old == Parse(file) IN
           /\ LoadHolds(p) => \A k \in Keys \ DOMAIN j.update : file'[k] = old[k]
           /\ ReadHolds(p) => \A k \in DOMAIN j.update \ {"option"} :
                                 file'[k] \ {j.who} = old[k] \ {j.who}
<1> DEFINE j == job[p]
           old == Parse(file)
<1>1. /\ FreshInv /\ j.pc = "replace" /\ JobOK(j) /\ file' = Merge(j.mem, j.update)
  BY DEF WriteInv, IndInv, Replace, At
<1>2. \A k \in Keys : file'[k] = IF k \in DOMAIN j.update THEN j.update[k] ELSE j.mem[k]
  BY <1>1 DEF Merge
<1>3. DOMAIN j.update \subseteq Keys
  BY <1>1 DEF JobOK, GoodUpdate, IsUpdate
<1>4. LoadHolds(p) => j.mem = old
  BY <1>1 DEF FreshInv
<1>5. ReadHolds(p) => \A k \in DOMAIN j.update \ {"option"} :
                                  j.update[k] \ {j.who} = old[k] \ {j.who}
  BY <1>1 DEF FreshInv, Told
<1> QED
  BY <1>2, <1>3, <1>4, <1>5

\* A move and a move back to the level that the tool was at: nothing is changed
\* if it was at a level.
LEMMA BackAndForth ==
    ASSUME NEW c, IsContent(c), Whole(c), NEW t, NEW l,
           ChannelsOf(c, t) = ChannelsAt(LevelOf(c, t))
    PROVE  LET m == Merge(c, LevelUpdate(c, t, l))
           IN  Merge(m, LevelUpdate(m, t, LevelOf(c, t))) = c
<1> DEFINE b == LevelOf(c, t)
           m == Merge(c, LevelUpdate(c, t, l))
           n == Merge(m, LevelUpdate(m, t, b))
<1>0. /\ DOMAIN LevelUpdate(c, t, l) = Rungs /\ DOMAIN LevelUpdate(m, t, b) = Rungs
      /\ \A r \in Rungs : LevelUpdate(c, t, l)[r] \ {t} = c[r] \ {t}
  BY LevelOwn
<1>1. \A r \in Rungs : LevelUpdate(m, t, b)[r] = Put(m[r], t, ChannelOf[r] \in ChannelsAt(b))
  <2> HIDE DEF m, b
  <2> QED
    BY DEF LevelUpdate
<1>2. /\ Rungs \subseteq Keys
      /\ \A k \in Keys : m[k] = IF k \in Rungs THEN LevelUpdate(c, t, l)[k] ELSE c[k]
      /\ \A k \in Keys : n[k] = IF k \in Rungs THEN LevelUpdate(m, t, b)[k] ELSE m[k]
      /\ n = [k \in Keys |-> n[k]]
  BY <1>0 DEF Merge, Keys
<1>3. ASSUME NEW r \in Rungs PROVE ChannelOf[r] \in ChannelsAt(b) <=> t \in c[r]
  BY DEF ChannelsOf, ChannelOf, Rungs
<1> HIDE DEF b, m, n
<1>4. ASSUME NEW k \in Keys PROVE n[k] = c[k]
  <2>1. CASE k \in Rungs
    <3>1. n[k] = Put(m[k], t, ChannelOf[k] \in ChannelsAt(b)) /\ m[k] \ {t} = c[k] \ {t}
      BY <1>0, <1>1, <1>2, <2>1
    <3>2. c[k] \subseteq Tools
      BY <2>1, <1>2 DEF IsContent, Values
    <3>3. CASE t \in c[k]
      BY <1>3, <2>1, <3>1, <3>3 DEF Put
    <3>4. CASE t \notin c[k]
      BY <1>3, <2>1, <3>1, <3>4 DEF Put
    <3> QED
      BY <3>3, <3>4
  <2>2. CASE k \notin Rungs
    BY <1>2, <2>2
  <2> QED
    BY <2>1, <2>2
<1>5. c = [k \in Keys |-> c[k]]
  BY DEF Whole
<1>6. n = c
  BY <1>2, <1>4, <1>5
<1> QED
  BY <1>6 DEF b, m, n

\* Undoing the move made last brings the whole file back.
LEMMA UndoBack ==
    ASSUME WriteInv, NEW p \in Procs, Replace(p), UndoesLast(p)
    PROVE  file' = last.was
<1> DEFINE j == job[p]
           c == last.was
<1>1. /\ FreshInv /\ LastInv /\ j.pc = "replace" /\ file' = Merge(j.mem, j.update)
      /\ j.mem # Nothing
  BY DEF WriteInv, IndInv, JobOK, Replace, At
<1>2. /\ stale[p] = {} /\ last # None /\ ~last.late /\ j.undoes # None
      /\ last.by = p /\ last.gave = j.undoes
      /\ ChannelsOf(c, j.who) = ChannelsAt(LevelOf(c, j.who))
  BY DEF UndoesLast
<1>3. j.mem = Parse(file) /\ cache[p] = Parse(file)
      /\ j.update = LevelUpdate(cache[p], j.who, j.undoes.prev)
  BY <1>1, <1>2 DEF FreshInv, Told, ReadHolds, LoadHolds
<1>4. j.who = last.who
  BY <1>1, <1>2 DEF LastInv
<1>5. PICK l \in Levels : /\ last.gave = Receipt(j.who, LevelOf(c, j.who), l)
                          /\ file = Merge(c, LevelUpdate(c, j.who, l))
                          /\ IsContent(c) /\ Whole(c)
  BY <1>1, <1>2, <1>4 DEF LastInv
<1>6. j.undoes.prev = LevelOf(c, j.who)
  BY <1>2, <1>5 DEF Receipt
<1>7. file # Nothing
  <2>1. DOMAIN file = Keys
    BY <1>5 DEF Merge
  <2> QED
    BY <2>1, TheKeys DEF KeyNames, Nothing
<1>8. Parse(file) = Merge(c, LevelUpdate(c, j.who, l))
  BY <1>5, <1>7 DEF Parse
<1>9. file' = Merge(Parse(file), LevelUpdate(Parse(file), j.who, LevelOf(c, j.who)))
  BY <1>1, <1>3, <1>6
<1>10. Merge(Parse(file), LevelUpdate(Parse(file), j.who, LevelOf(c, j.who))) = c
  BY <1>2, <1>5, <1>8, BackAndForth
<1> QED
  BY <1>9, <1>10

\* A replacement loses what another wrote only if the file changed under it, or
\* could not be opened.
THEOREM LossExplained == Spec => LossHasCause
<1>1. WriteInv /\ [Next]_vars =>
        [\A p \in Procs : Replace(p) =>
           LET j == job[p]  old == Parse(file) IN
           /\ LoadHolds(p) => \A k \in Keys \ DOMAIN j.update : file'[k] = old[k]
           /\ ReadHolds(p) => \A k \in DOMAIN j.update \ {"option"} :
                                 file'[k] \ {j.who} = old[k] \ {j.who}]_vars
  BY LossNeeds
<1> QED
  BY <1>1, WriteInvariant, PTL DEF Spec, LossHasCause

\* "Every veil is reversible": the undo of the move made last.
THEOREM VeilReversible == Spec => MoveUndone
<1>1. WriteInv /\ [Next]_vars =>
        [\A p \in Procs : (Replace(p) /\ UndoesLast(p)) => file' = last.was]_vars
  BY UndoBack
<1> QED
  BY <1>1, WriteInvariant, PTL DEF Spec, MoveUndone
=============================================================================
