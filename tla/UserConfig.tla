----------------------------- MODULE UserConfig -----------------------------
(***************************************************************************)
(* An aggregator's config.json and the verbs that change it: hide and      *)
(* expose (VisibilityContext) with their undo, the verbs of single rungs   *)
(* (VisibilityRung), enable and disable (ActivationContext), all through   *)
(* ConfigManager, and get_active_kits(), which reads the result.           *)
(*                                                                         *)
(* A verb computes its lists from the cached read, write() then reads the  *)
(* file again, merges and replaces it: three moments, between which other  *)
(* processes and the user's editor may change the file.                    *)
(***************************************************************************)
EXTENDS Naturals, FiniteSets

CONSTANTS
    Procs, Tools, Kits, None,
    Constitutional,  \* tools with always_active
    AlwaysActive,    \* kits with always_active
    EnvKits,         \* the kits DZ_KITS names, None if it is not set
    Options,         \* values of a key that other commands write (favorites)
    Unset,           \* ... its default
    MaxEvents        \* bound on the calls, failures, crashes and typos

Levels == {"visible", "silenced", "hidden", "shadowed"}
Channels == {"hints", "display", "resolution"}
Rungs == {"silenced", "hidden", "shadowed"}
Verbs == {"hide", "expose", "rung", "enable", "disable", "option"}

\* VISIBILITY_CONTINUUM: how cold a level is, and what it suppresses.
Cold == [l \in Levels |-> CASE l = "visible" -> 0 [] l = "silenced" -> 1
                            [] l = "hidden" -> 2 [] l = "shadowed" -> 3]
ChannelsAt(l) == IF l = "visible" THEN {} ELSE IF l = "silenced" THEN {"hints"}
                 ELSE IF l = "hidden" THEN {"hints", "display"} ELSE Channels

\* VISIBILITY_RUNGS: the channel a rung introduces; its key has its name.
ChannelOf == [r \in Rungs |-> IF r = "silenced" THEN "hints"
                               ELSE IF r = "hidden" THEN "display" ELSE "resolution"]

\* The keys of the file: silenced_hints, hidden_tools, shadowed_tools,
\* active_kits, disabled_kits, and one that is no concern of these verbs.
KitKeys == {"active", "disabled"}
Keys == Rungs \cup KitKeys \cup {"option"}
Values(k) == IF k \in Rungs THEN SUBSET Tools
             ELSE IF k \in KitKeys THEN SUBSET Kits ELSE Options
IsContent(c) == DOMAIN c = Keys /\ \A k \in Keys : c[k] \in Values(k)

Empty == [k \in Keys |-> IF k = "option" THEN Unset ELSE {}]

ASSUME ConfigAssumption ==
    /\ Constitutional \subseteq Tools /\ AlwaysActive \subseteq Kits
    /\ EnvKits = None \/ EnvKits \subseteq Kits
    /\ Unset \in Options /\ None \notin Tools
    /\ MaxEvents \in Nat

VARIABLES
    file,      \* the content of config.json, <<>> if it is not JSON
    cache,     \* [Procs]: ConfigManager._cache, <<>> if empty
    job,       \* [Procs]: the verb in progress
    applied,   \* [Procs]: VisibilityContext._applied_entity
    receipts,  \* [Procs]: the receipts the context has returned
    events,    \* how many calls, failures, crashes and typos there were
    stale,     \* history, [Procs]: whether the file has changed since its cached
               \* "read", and since what write() loaded of it ("load"), and
               \* whether it could not be opened for them ("unread", "unloaded")
    last       \* history: the write that made the file what it is

vars == <<file, cache, job, applied, receipts, events, stale, last>>

Receipts == [tool : Tools, prev : Levels, new : Levels]
Nothing == <<>>

\* mem is what write() has loaded; gives is the receipt the call will return,
\* undoes the one it undoes.
Idle == [pc |-> "idle", verb |-> "hide", who |-> None, update |-> Nothing,
         mem |-> Nothing, gives |-> None, undoes |-> None]

Init ==
    /\ file = Empty
    /\ cache = [p \in Procs |-> Nothing] /\ job = [p \in Procs |-> Idle]
    /\ applied = [p \in Procs |-> None] /\ receipts = [p \in Procs |-> {}]
    /\ events = 0
    /\ stale = [p \in Procs |-> {}] /\ last = None

Event == events < MaxEvents /\ events' = events + 1

-----------------------------------------------------------------------------
(* Reading *)

At(p, step) == job[p].pc = step

\* A file that is not JSON reads as an empty one.
Parse(content) == IF content = Nothing THEN Empty ELSE content

\* read(): the cache, else the file.
Seen(p) == IF cache[p] = Nothing THEN Parse(file) ELSE cache[p]
Caches(p) == cache' = [cache EXCEPT ![p] = Seen(p)]

\* _read_suppressed() and level_for_channels(): the coldest channel decides.
ChannelsOf(c, t) == {ChannelOf[r] : r \in {q \in Rungs : t \in c[q]}}
LevelOf(c, t) == IF t \in c["shadowed"] THEN "shadowed"
                 ELSE IF t \in c["hidden"] THEN "hidden"
                 ELSE IF t \in c["silenced"] THEN "silenced" ELSE "visible"

\* get_active_kits(): an empty active_kits restricts nothing.
ActiveKits(c) ==
    IF EnvKits # None THEN EnvKits
    ELSE {k \in Kits : /\ k \notin c["disabled"]
                       /\ c["active"] = {} \/ k \in c["active"] \cup AlwaysActive}

\* Discovery reads the configuration before any verb runs.
Discover(p) ==
    /\ At(p, "idle") /\ cache[p] = Nothing
    /\ Caches(p)
    /\ UNCHANGED <<file, job, applied, receipts, events, stale, last>>

\* A file that cannot be opened is cached as an empty one, for all that follows.
ReadFails(p) ==
    /\ At(p, "idle") /\ cache[p] = Nothing /\ Event
    /\ cache' = [cache EXCEPT ![p] = Empty]
    /\ stale' = [stale EXCEPT ![p] = @ \cup {"unread"}]
    /\ UNCHANGED <<file, job, applied, receipts, last>>

-----------------------------------------------------------------------------
(* The verbs: what each writes, computed from the cached read *)

Put(set, x, present) == IF present THEN set \cup {x} ELSE set \ {x}

LevelUpdate(c, t, l) == [r \in Rungs |-> Put(c[r], t, ChannelOf[r] \in ChannelsAt(l))]
RungUpdate(c, t, r, add) == [k \in {r} |-> Put(c[r], t, add)]
\* Mutant: the other list keeps the kit.
KitUpdateAdds(c, kit, on) ==
    [k \in KitKeys |-> IF on = (k = "active") THEN c[k] \cup {kit} ELSE c[k]]
KitUpdate(c, kit, on) == [k \in KitKeys |-> Put(c[k], kit, on = (k = "active"))]

Calls(p, verb, who, update, gives, undoes) ==
    /\ At(p, "idle") /\ Event
    /\ Caches(p)
    /\ job' = [job EXCEPT ![p] =
                 [pc |-> "load", verb |-> verb, who |-> who, update |-> update,
                  mem |-> Nothing, gives |-> gives, undoes |-> undoes]]
    /\ UNCHANGED <<file, applied, receipts, stale, last>>

\* Mutant: whether the tool is shadowed already is what is checked.
CheckMovePrev(t, target, verb, prev) ==
    /\ verb = "hide" => Cold[target] >= Cold[prev]
    /\ verb = "expose" => Cold[target] <= Cold[prev]
    /\ prev = "shadowed" => t \notin Constitutional
\* _check_move(): direction, and C3.
CheckMove(t, target, verb, prev) ==
    /\ verb = "hide" => Cold[target] >= Cold[prev]
    /\ verb = "expose" => Cold[target] <= Cold[prev]
    /\ target = "shadowed" => t \notin Constitutional

\* Mutant: the receipt takes the level after the move for the one before.
ReceiptOfNew(t, prev, new) == [tool |-> t, prev |-> new, new |-> new]
Receipt(t, prev, new) == [tool |-> t, prev |-> prev, new |-> new]

Move(p, t, target, verb, undoes) ==
    LET prev == LevelOf(Seen(p), t) IN
    /\ CheckMove(t, target, verb, prev)
    /\ Calls(p, verb, t, LevelUpdate(Seen(p), t, target),
             Receipt(t, prev, target), undoes)

Hide(p, t, target)   == Move(p, t, target, "hide", None)
Expose(p, t, target) == Move(p, t, target, "expose", None)

\* undo(): the level of the receipt, for the entity of the last apply().
Undo(p, r) ==
    /\ applied[p] # None
    /\ Move(p, applied[p], r.prev,
            IF Cold[r.prev] < Cold[r.new] THEN "expose" ELSE "hide", r)

\* The verbs silence, hide, shadow and their opposites, which set one rung;
\* a rung that forbids_constitutional refuses those tools.
SetRung(p, t, r, add) ==
    /\ add /\ r = "shadowed" => t \notin Constitutional
    /\ Calls(p, "rung", t, RungUpdate(Seen(p), t, r, add), None, None)

Enable(p, kit)  == Calls(p, "enable", kit, KitUpdate(Seen(p), kit, TRUE), None, None)
Disable(p, kit) == Calls(p, "disable", kit, KitUpdate(Seen(p), kit, FALSE), None, None)
SetOption(p, v) == Calls(p, "option", None, [k \in {"option"} |-> v], None, None)

-----------------------------------------------------------------------------
(* ConfigManager.write() *)

\* Mutant: the file becomes the update alone.
MergeNothing(c, update) == update
Merge(c, update) ==
    [k \in Keys |-> IF k \in DOMAIN update THEN update[k] ELSE c[k]]

\* Mutant: write() merges into the cached read.
LoadCached(p) ==
    /\ At(p, "load")
    /\ job' = [job EXCEPT ![p].pc = "replace", ![p].mem = cache[p]]
    /\ UNCHANGED <<file, cache, applied, receipts, events, stale, last>>
LoadExisting(p) ==
    /\ At(p, "load")
    /\ job' = [job EXCEPT ![p].pc = "replace", ![p].mem = Parse(file)]
    /\ UNCHANGED <<file, cache, applied, receipts, events, stale, last>>

\* The file cannot be opened: what is written then is the update alone.
LoadFails(p) ==
    /\ At(p, "load") /\ Event
    /\ job' = [job EXCEPT ![p].pc = "replace", ![p].mem = Empty]
    /\ stale' = [stale EXCEPT ![p] = @ \cup {"unloaded"}]
    /\ UNCHANGED <<file, cache, applied, receipts, last>>

\* What the others have read and loaded when the file changes is stale.
Outdated(others) ==
    [q \in Procs |->
        IF q \notin others THEN {}
        ELSE (IF cache[q] = Nothing THEN {} ELSE {"read"})
             \cup (IF At(q, "replace") THEN {"load"} ELSE {})]

\* _atomic_write() and what the context does after it.
Replace(p) ==
    /\ At(p, "replace")
    /\ file' = Merge(job[p].mem, job[p].update)
    /\ cache' = [cache EXCEPT ![p] = Nothing]
    /\ IF job[p].gives = None THEN UNCHANGED <<applied, receipts>>
       ELSE /\ applied' = [applied EXCEPT ![p] = job[p].who]
            /\ receipts' = [receipts EXCEPT ![p] = @ \cup {job[p].gives}]
    /\ job' = [job EXCEPT ![p] = Idle]
    /\ stale' = Outdated(Procs \ {p})
    /\ last' = [by |-> p, verb |-> job[p].verb, who |-> job[p].who,
                gave |-> job[p].gives, was |-> Parse(file),
                late |-> stale[p] # {}]
    /\ UNCHANGED events

\* The write fails: the old file and the old cache stay.
ReplaceFails(p) ==
    /\ At(p, "replace") /\ Event
    /\ job' = [job EXCEPT ![p] = Idle]
    /\ stale' = [stale EXCEPT ![p] = @ \ {"load", "unloaded"}]
    /\ UNCHANGED <<file, cache, applied, receipts, last>>

Crash(p) ==
    /\ Event
    /\ job' = [job EXCEPT ![p] = Idle]
    /\ cache' = [cache EXCEPT ![p] = Nothing]
    /\ applied' = [applied EXCEPT ![p] = None]
    /\ receipts' = [receipts EXCEPT ![p] = {}]
    /\ stale' = [stale EXCEPT ![p] = {}]
    /\ UNCHANGED <<file, last>>

\* An edit by hand that is not JSON any more.
Typo ==
    /\ Event
    /\ file' = Nothing /\ stale' = Outdated(Procs) /\ last' = None
    /\ UNCHANGED <<cache, job, applied, receipts>>

Visibility(p) ==
    \/ \E t \in Tools, l \in Levels : Hide(p, t, l) \/ Expose(p, t, l)
    \/ \E t \in Tools, r \in Rungs, add \in BOOLEAN : SetRung(p, t, r, add)
    \/ \E r \in receipts[p] : Undo(p, r)
Activation(p) == \E kit \in Kits : Enable(p, kit) \/ Disable(p, kit)

Next ==
    \/ \E p \in Procs : \/ Discover(p) \/ ReadFails(p) \/ Visibility(p) \/ Activation(p)
                        \/ \E v \in Options : SetOption(p, v)
                        \/ LoadExisting(p) \/ LoadFails(p) \/ Replace(p) \/ ReplaceFails(p)
                        \/ Crash(p)
    \/ Typo

Spec == Init /\ [][Next]_vars

-----------------------------------------------------------------------------
(* Properties *)

Reasons == {"read", "load", "unread", "unloaded"}

\* What p has read, and loaded, is what the file says.
ReadHolds(p) == stale[p] \cap {"read", "unread"} = {}
LoadHolds(p) == stale[p] \cap {"load", "unloaded"} = {}

IsUpdate(u) == DOMAIN u \subseteq Keys /\ \A k \in DOMAIN u : u[k] \in Values(k)

\* What the verbs write has the shape of a configuration file.
TypeOK ==
    /\ file = Nothing \/ IsContent(file)
    /\ \A p \in Procs :
          /\ cache[p] = Nothing \/ IsContent(cache[p])
          /\ job[p].pc \in {"idle", "load", "replace"} /\ job[p].verb \in Verbs
          /\ IsUpdate(job[p].update)
          /\ job[p].mem = Nothing \/ IsContent(job[p].mem)
          /\ At(p, "replace") => job[p].mem # Nothing
          /\ applied[p] \in Tools \cup {None}
          /\ receipts[p] \subseteq Receipts /\ stale[p] \subseteq Reasons
    /\ events \in Nat

\* enable and disable move a kit from one list to the other: in no file, however
\* stale the read it was computed from, is a kit in both.
NeverBoth == Parse(file)["active"] \cap Parse(file)["disabled"] = {}

\* C3: no sequence of hide, expose, undo and rung verbs, undos for another tool
\* included, shadows a constitutional tool.
NeverShadowed == Parse(file)["shadowed"] \cap Constitutional = {}

\* "The merge write preserves other config keys": a replacement changes a key it
\* does not update, or what an updated list says of others than the verb's own
\* tool or kit, only if the file changed under it, or could not be opened for the
\* load, or for the read, that it goes back to.
LossHasCause ==
    [][\A p \in Procs : Replace(p) =>
         LET j == job[p]  old == Parse(file) IN
         /\ LoadHolds(p) => \A k \in Keys \ DOMAIN j.update : file'[k] = old[k]
         /\ ReadHolds(p) => \A k \in DOMAIN j.update \ {"option"} :
                               file'[k] \ {j.who} = old[k] \ {j.who}]_vars

\* "Every veil is reversible": undoing the move made last brings the whole
\* file back, if neither ran into another write nor into a file that could not be
\* opened, and what the tool's channels were before the move was a level.
UndoesLast(p) == /\ stale[p] = {} /\ last # None /\ ~last.late /\ job[p].undoes # None
                 /\ last.by = p /\ last.gave = job[p].undoes
                 /\ LET c == last.was  t == job[p].who
                    IN  ChannelsOf(c, t) = ChannelsAt(LevelOf(c, t))
MoveUndone ==
    [][\A p \in Procs : (Replace(p) /\ UndoesLast(p)) => file' = last.was]_vars

=============================================================================
