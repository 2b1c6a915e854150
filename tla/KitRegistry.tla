---------------------------- MODULE KitRegistry ----------------------------
(***************************************************************************)
(* The kits/*.kit.json files that register kits in an aggregator, and what *)
(* KitMembershipContext does to them: group and ungroup write and remove a *)
(* file, set_pointer and clear_pointer (detach and attach) rewrite it.     *)
(*                                                                         *)
(* None of them replaces a file atomically: open(path, "w") empties it and *)
(* a later write fills it, so other processes, a crash, and a write that   *)
(* fails, may come in between.                                             *)
(***************************************************************************)
EXTENDS Naturals, FiniteSets

CONSTANTS
    Dirs,            \* aggregators, each the real path of a directory
    Kits,            \* names of kits
    Procs,           \* processes that change registrations
    Home,            \* [Procs -> Dirs]: the project_root of their context
    Contents,        \* what a registration may say besides its pointer block
    Broken,          \* ... among them JSON that is not an object
    Constitutional,  \* the <<dir, kit>> with always_active
    Absent, Torn,    \* no file; a file that is not JSON
    None

Registrations == [says : Contents, pointer : BOOLEAN]

ASSUME RegistryAssumption ==
    /\ Home \in [Procs -> Dirs]
    /\ Constitutional \subseteq Dirs \X Kits
    /\ None \notin Kits
    /\ Absent # Torn /\ {Absent, Torn} \cap Registrations = {}

Files == {Absent, Torn} \cup Registrations
Verbs == {"detach", "attach", "group", "ungroup"}

VARIABLES
    file,      \* [Dirs -> [Kits -> Files]]
    job,       \* [Procs]: the call in progress
    captured,  \* [Procs -> [Kits]]: _captured, the bytes of removed files
    last,      \* [Procs]: _applied_entity and the verb of its receipt
    origin,    \* history: the files at the start
    latest,    \* history: what each file was last changed to by its calls
    calls,     \* [Procs]: how many calls may still come, the bound
    raced,     \* history: the files two processes worked on at a time
    cut,       \* history: the files whose process was killed or could not write
    regrouped  \* history: the files a group() wrote that were there, or of which
               \* another context had kept other bytes

histories == <<origin, latest, raced, cut, regrouped>>
registryVars == <<file, job, captured, last, calls, histories>>

Idle == [pc |-> "idle", kit |-> None, verb |-> "group", data |-> Torn]
Spot(p) == <<Home[p], job[p].kit>>
Its(p) == file[Home[p]][job[p].kit]

RegistryInit ==
    /\ job = [p \in Procs |-> Idle]
    /\ captured = [p \in Procs |-> [k \in Kits |-> Absent]]
    /\ last = [p \in Procs |-> None]
    /\ origin = file /\ latest = file
    /\ raced = {} /\ cut = {} /\ regrouped = {}

Readable(content) == content \notin {Absent, Torn}

-----------------------------------------------------------------------------
(* The calls. A refused one raises and changes nothing. *)

\* A call of p on kit k starts and leaves the step pc to be done.
Begins(p, k, pc, verb, data) ==
    /\ job[p].pc = "idle" /\ calls[p] > 0
    /\ calls' = [calls EXCEPT ![p] = @ - 1]
    /\ job' = [job EXCEPT ![p] = [pc |-> pc, kit |-> k, verb |-> verb, data |-> data]]
    /\ raced' = IF \E q \in Procs \ {p} : Home[q] = Home[p] /\ job[q].kit = k
                THEN raced \cup {<<Home[p], k>>} ELSE raced
    /\ UNCHANGED <<file, latest, cut, origin>>

\* _modify_registry(): read, change; the file is written by Open and Dump.
Modify(p, k, verb) ==
    LET old == file[Home[p]][k] IN
    /\ Readable(old) /\ old.says # Broken
    /\ Begins(p, k, "open", verb, [old EXCEPT !.pointer = (verb = "detach")])
    /\ UNCHANGED <<captured, last, regrouped>>

Detach(p, k) == Modify(p, k, "detach")
Attach(p, k) == Modify(p, k, "attach")

\* Mutant: the bytes of an earlier ungroup are not replaced.
UngroupKeepsFirst(p, k) ==
    LET old == file[Home[p]][k] IN
    /\ <<Home[p], k>> \notin Constitutional
    /\ old # Absent
    /\ Begins(p, k, "remove", "ungroup", Torn)
    /\ captured' = [captured EXCEPT ![p][k] = IF @ = Absent THEN old ELSE @]
    /\ UNCHANGED <<last, regrouped>>
\* _write_membership() without a target, up to os.remove; a kit that is not
\* registered is left alone.
Ungroup(p, k) ==
    LET old == file[Home[p]][k] IN
    /\ <<Home[p], k>> \notin Constitutional
    /\ old # Absent
    /\ Begins(p, k, "remove", "ungroup", Torn)
    /\ captured' = [captured EXCEPT ![p][k] = old]
    /\ UNCHANGED <<last, regrouped>>

\* What group() writes: the bytes this context captured, or those that the
\* caller's kit carries (registry_bytes), here the ones its file started with.
Bytes(p, k) == IF captured[p][k] # Absent THEN captured[p][k] ELSE origin[Home[p]][k]
\* _write_membership() with a target; it refuses a kit there are no bytes of.
Group(p, k) ==
    /\ Bytes(p, k) # Absent
    /\ Begins(p, k, "open", "group", Bytes(p, k))
    /\ regrouped' =
         IF \/ file[Home[p]][k] # Absent
            \/ \E q \in Procs : Home[q] = Home[p] /\ captured[q][k] \notin {Absent, Bytes(p, k)}
         THEN regrouped \cup {<<Home[p], k>>} ELSE regrouped
    /\ UNCHANGED <<captured, last>>

\* undo(): the opposite of the last apply, on its kit.
UndoMove(p) ==
    /\ last[p] # None
    /\ IF last[p].verb = "group" THEN Ungroup(p, last[p].kit)
       ELSE Group(p, last[p].kit)

-----------------------------------------------------------------------------
(* Their steps on the file. *)

SetFile(p, content) == file' = [file EXCEPT ![Home[p]][job[p].kit] = content]
Ends(p) == [job EXCEPT ![p] = Idle]
Applied(p) == last' = IF job[p].verb \in {"group", "ungroup"}
                      THEN [last EXCEPT ![p] = [kit |-> job[p].kit, verb |-> job[p].verb]]
                      ELSE last

\* open(path, "w"): the file is empty, or is there again. From here on it is
\* detach's or attach's change that must not be lost.
Open(p) ==
    /\ job[p].pc = "open"
    /\ SetFile(p, Torn)
    /\ job' = [job EXCEPT ![p].pc = "dump"]
    /\ latest' = IF job[p].verb = "group" THEN latest
                 ELSE [latest EXCEPT ![Home[p]][job[p].kit] = job[p].data]
    /\ UNCHANGED <<captured, last, calls, origin, raced, cut, regrouped>>

\* What a file holds when data is written over its beginning: the pointer
\* block makes a registration longer, and what is shorter leaves a tail.
Over(old, data) ==
    IF Readable(old) /\ data # Torn /\ old.pointer /\ ~data.pointer THEN Torn
    ELSE IF data = Torn THEN old ELSE data

Dump(p) ==
    /\ job[p].pc = "dump"
    /\ SetFile(p, Over(Its(p), job[p].data))
    /\ Applied(p) /\ job' = Ends(p)
    /\ UNCHANGED <<captured, calls, histories>>

\* The file was removed while it was open: what is written is lost with it.
DumpUnlinked(p) ==
    /\ job[p].pc = "unlinked"
    /\ Applied(p) /\ job' = Ends(p)
    /\ UNCHANGED <<file, captured, calls, histories>>

\* The write raises: what open() has done to the file stays.
DumpFails(p) ==
    /\ job[p].pc \in {"dump", "unlinked"}
    /\ cut' = cut \cup {Spot(p)} /\ job' = Ends(p)
    /\ UNCHANGED <<file, captured, last, calls, origin, latest, raced, regrouped>>

\* os.remove(): the open files of the others have no name any more.
RemoveFile(p) ==
    /\ job[p].pc = "remove" /\ Its(p) # Absent
    /\ SetFile(p, Absent)
    /\ job' = [q \in Procs |->
                 IF q = p THEN Idle
                 ELSE IF job[q].pc = "dump" /\ Spot(q) = Spot(p)
                      THEN [job[q] EXCEPT !.pc = "unlinked"] ELSE job[q]]
    /\ Applied(p)
    /\ UNCHANGED <<captured, calls, histories>>

\* open() or os.remove() raises: the latter if another process was faster, each
\* if the system refuses it.
CallFails(p) ==
    /\ job[p].pc \in {"open", "remove"}
    /\ job' = Ends(p)
    /\ UNCHANGED <<file, captured, last, calls, histories>>

\* A process ends, in a call or after it: its context is gone.
Killed(p) ==
    /\ \/ job[p].pc # "idle" \/ \E k \in Kits : captured[p][k] # Absent
    /\ cut' = cut \cup
         {<<Home[p], k>> : k \in {j \in Kits : j = job[p].kit \/ captured[p][j] # Absent}}
    /\ job' = Ends(p) /\ last' = [last EXCEPT ![p] = None]
    /\ captured' = [captured EXCEPT ![p] = [k \in Kits |-> Absent]]
    /\ UNCHANGED <<file, calls, origin, latest, raced, regrouped>>

Call(p, k) == Detach(p, k) \/ Attach(p, k) \/ Ungroup(p, k) \/ Group(p, k)
Step(p) == \/ Open(p) \/ Dump(p) \/ DumpUnlinked(p) \/ DumpFails(p)
           \/ RemoveFile(p) \/ CallFails(p)

RegistryNext ==
    \E p \in Procs : \/ \E k \in Kits : Call(p, k)
                     \/ UndoMove(p) \/ Step(p) \/ Killed(p)

-----------------------------------------------------------------------------
(* The type invariant. *)
RegistryTypeOK ==
    /\ file \in [Dirs -> [Kits -> Files]]
    /\ job \in [Procs -> [pc : {"idle", "open", "dump", "unlinked", "remove"},
                          kit : Kits \cup {None}, verb : Verbs, data : Files \ {Absent}]]
    /\ \A p \in Procs : job[p].pc # "idle" => job[p].kit # None
    /\ captured \in [Procs -> [Kits -> Files]]
    /\ last \in [Procs -> {None} \cup [kit : Kits, verb : {"group", "ungroup"}]]
    /\ calls \in [Procs -> Nat]
    /\ origin \in [Dirs -> [Kits -> Files]] /\ latest \in [Dirs -> [Kits -> Files]]
    /\ raced \subseteq Dirs \X Kits /\ cut \subseteq Dirs \X Kits
    /\ regrouped \subseteq Dirs \X Kits

\* What the file was last changed to is in it, or in a context of its directory.
Held(d, k) ==
    \/ file[d][k] = latest[d][k]
    \/ \E p \in Procs : /\ Home[p] = d
                        /\ \/ captured[p][k] = latest[d][k]
                           \/ job[p].kit = k /\ job[p].data = latest[d][k]

(* KitMembershipInvariant ("kit_registration"): whatever order the calls   *)
(* come in, what a registration was last changed to, and not an older copy *)
(* of it, is in its file, or in the context that removed or is rewriting   *)
(* it. Five things lose it, and each is left out: two processes that work  *)
(* on the file at a time, one that is killed or whose write fails with the *)
(* file empty, and a group() of a kit that is still registered, or that    *)
(* another context removed later.                                          *)
RegistrationKept ==
    \A d \in Dirs, k \in Kits :
        Readable(origin[d][k]) /\ <<d, k>> \notin raced \cup cut \cup regrouped => Held(d, k)
=============================================================================
