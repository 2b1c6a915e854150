----------------------------- MODULE TrashStore -----------------------------
(***************************************************************************)
(* The recoverable-delete engine of dazzlecmd_lib.core.safedel: trash(),   *)
(* recover_folder(), cmd_recover() and cmd_clean() running in one or more  *)
(* CLI processes over one file system.                                     *)
(*                                                                         *)
(* Every action is one durable effect (one rename, copy, unlink, rmtree or *)
(* atomic write), so a crash or another process can fall between any two.  *)
(***************************************************************************)
EXTENDS Naturals, Sequences, FiniteSets

CONSTANTS
    Procs,        \* CLI processes
    Paths,        \* absolute paths users keep things at
    Names,        \* base names
    Items,        \* the things a user owns: one file, directory or link each
    Stores,       \* trash directories: the central one and one per volume
    Central,      \* the central store
    None,         \* "nothing here"
    BaseName,     \* [Paths -> Names]: os.path.basename
    KindOf,       \* [Items -> Kinds]: what classify() finds an item to be
    AltPath,      \* [Names -> Paths]: where --to puts an entry of that name
    VolumeStore,  \* [Paths -> Stores]: per-volume store of a path (Central: none)
    Serials,      \* stores whose volume has a serial, so that it is registered
    Renames,      \* pairs <<path, store>> between which os.rename succeeds
    InitFs,       \* [Paths -> Items \cup {None}]: what exists at the start
    TrashArgs,    \* the argument lists trash() is called with
    Selections,   \* how recover and clean name folders: "exact", "last", "all"
    RecoverModes, \* recovery options in use: "full", "to", "metadata"
    CleanFlags,   \* option records [force, yes, tty] clean is called with
    ZoneA, ZoneB, ZoneC,  \* ages (in ticks) below which a zone applies
    FaultAt,      \* the operations the file system may refuse
    CrashAt,      \* the steps at which a process may be killed
    MaxClock, MaxCalls, MaxFaults, MaxCrashes  \* bounds of the exploration

LinkKinds == {"symlink", "broken", "junction"}
Kinds == {"file", "dir"} \cup LinkKinds

Steps == {"idle", "register", "save", "name", "mkdir", "stage", "delete",
          "recover", "unlink", "clean", "purge"}
FaultSites == {"load", "save", "mkdir", "symlink", "rename", "copy", "delete",
               "manifest", "recover", "unlink", "remove"}

\* A trash folder: its store, the second in its name, its collision suffix.
FolderIds == Stores \X (0..MaxClock) \X (0..MaxCalls)
Cells == [item : Items, whole : BOOLEAN]
Flags == [force : BOOLEAN, yes : BOOLEAN, tty : BOOLEAN]

\* One manifest entry: what was deleted, the link target kept for links, and
\* whether the manifest records a content path for it.
Entries == [path : Paths, kind : Kinds \cup {"absent"},
            link : Items \cup {None}, stored : BOOLEAN]

ASSUME TrashAssumption ==
    /\ Central \in Stores \ Serials /\ None \notin Items
    /\ BaseName \in [Paths -> Names] /\ KindOf \in [Items -> Kinds]
    /\ AltPath \in [Names -> Paths] /\ VolumeStore \in [Paths -> Stores]
    /\ Serials \subseteq Stores /\ Renames \subseteq Paths \X Stores
    /\ InitFs \in [Paths -> Items \cup {None}]
    /\ \A a \in TrashArgs : a \in Seq(Paths)
    /\ Selections \subseteq {"exact", "last", "all"}
    /\ RecoverModes \subseteq {"full", "to", "metadata"}
    /\ CleanFlags \subseteq Flags
    /\ ZoneA \in Nat /\ ZoneB \in Nat /\ ZoneC \in Nat
    /\ FaultAt \subseteq FaultSites /\ CrashAt \subseteq Steps \ {"idle"}
    /\ MaxClock \in Nat /\ MaxCalls \in Nat
    /\ MaxFaults \in Nat /\ MaxCrashes \in Nat

ASSUME NoneAssumption == None \notin Cells

VARIABLES
    fs,         \* [Paths -> Cells \cup {None}]: what is at each path
    clock,      \* wall clock, in the one-second ticks of folder names
    exists,     \* folders present in some store
    content,    \* [FolderIds -> [Names -> Cells \cup {None}]]: content/
    manifest,   \* [FolderIds -> Seq(Entries)]: manifest.json, <<>> if missing
    registered, \* per-volume stores of volumes.json, in insertion order
    job,        \* [Procs -> Jobs]: each process's call in progress
    calls,      \* trash() calls made so far
    faults,     \* I/O errors injected so far
    crashes,    \* processes killed so far
    born,       \* history: items that were ever at a path
    purged,     \* history: items the user agreed to delete permanently
    acked,      \* history: backups trash() reported success for, untouched since
    forgotten   \* history: stores that a volumes.json nobody could read dropped

disk   == <<exists, content, manifest>>
bounds == <<calls, faults, crashes>>
hist   == <<born, purged, acked, forgotten>>
vars   == <<fs, clock, exists, content, manifest, registered, job,
            calls, faults, crashes, born, purged, acked, forgotten>>

Loaded  == [fid : FolderIds, entries : Seq(Entries)]
Backups == [fid : FolderIds, items : SUBSET Items]

Jobs == [pc : Steps,
         todo : Seq(Entries),   \* classified paths trash() has still to stage
         done : Seq(Entries),   \* entries for the manifest
         given : SUBSET Items,  \* history: what the caller asked to trash
         store : Stores, seen : Seq(Stores), dest : FolderIds \cup {None},
         queue : Seq(Loaded),   \* folders recover or clean has still to do
         mode : {"full", "to", "metadata"}, flags : Flags,
         now : 0..MaxClock, failed : BOOLEAN,
         blind : BOOLEAN]       \* history: volumes.json could not be read

Idle == [pc |-> "idle", todo |-> <<>>, done |-> <<>>, given |-> {},
         store |-> Central, seen |-> <<>>, dest |-> None, queue |-> <<>>,
         mode |-> "full", now |-> 0, failed |-> FALSE, blind |-> FALSE,
         flags |-> [force |-> FALSE, yes |-> FALSE, tty |-> FALSE]]

NoContent == [n \in Names |-> None]

Init ==
    /\ fs = [q \in Paths |-> IF InitFs[q] = None THEN None
                             ELSE [item |-> InitFs[q], whole |-> TRUE]]
    /\ clock = 0 /\ exists = {} /\ registered = <<>>
    /\ content = [f \in FolderIds |-> NoContent]
    /\ manifest = [f \in FolderIds |-> <<>>]
    /\ job = [p \in Procs |-> Idle]
    /\ calls = 0 /\ faults = 0 /\ crashes = 0
    /\ born = {InitFs[q] : q \in Paths} \ {None}
    /\ purged = {} /\ acked = {} /\ forgotten = {}

-----------------------------------------------------------------------------
(* Reading the disk *)

At(p, step) == job[p].pc = step

\* An operation the file system refuses, and one it carries out.
Refused(site) == /\ site \in FaultAt /\ faults < MaxFaults
                 /\ faults' = faults + 1 /\ UNCHANGED <<calls, crashes>>
Granted == UNCHANGED bounds

\* classify() and _build_entry(): the entry a path would get now.
Classified(q) ==
    IF fs[q] = None
    THEN [path |-> q, kind |-> "absent", link |-> None, stored |-> FALSE]
    ELSE LET i == fs[q].item IN
         [path |-> q, kind |-> KindOf[i], stored |-> FALSE,
          link |-> IF KindOf[i] \in LinkKinds THEN i ELSE None]

\* get_all_trash_paths(): the central store, then the registered volumes.
ListedStores == <<Central>> \o registered

Stamp(f) == <<f[2], f[3]>>

\* get_folder() and remove_folder(): the first listed store with that name.
Finds(stamp, f) ==
    /\ f \in exists /\ Stamp(f) = stamp
    /\ \E k \in DOMAIN ListedStores :
         /\ ListedStores[k] = f[1]
         /\ \A j \in 1..(k - 1) :
              <<ListedStores[j], stamp[1], stamp[2]>> \notin exists

StoreRank(s) == CHOOSE k \in DOMAIN ListedStores :
    ListedStores[k] = s /\ \A j \in 1..(k - 1) : ListedStores[j] # s
Listed == {f \in exists : \E k \in DOMAIN ListedStores : ListedStores[k] = f[1]}

\* list_entries() sorts by the second in the folder name alone; ties keep the
\* order of the stores, and within a store that of os.listdir, which is free.
MayPrecede(f, g) == \/ f[2] < g[2]
                    \/ f[2] = g[2] /\ StoreRank(f[1]) <= StoreRank(g[1])
Listings == {q \in [1..Cardinality(Listed) -> Listed] :
               /\ \A i, j \in DOMAIN q : i # j => q[i] # q[j]
               /\ \A i, j \in DOMAIN q : i < j => MayPrecede(q[i], q[j])}

\* _resolve_folders(), or get_folder() for "exact": what a selection may yield.
Choices(sel) ==
    CASE sel = "exact" -> {<<f>> : f \in {g \in exists : Finds(Stamp(g), g)}}
                            \cup {<<>>}
      [] sel = "last"  -> {IF l = <<>> THEN <<>> ELSE <<l[Len(l)]>> : l \in Listings}
      [] sel = "all"   -> Listings
Load(q) == [k \in DOMAIN q |-> [fid |-> q[k], entries |-> manifest[q[k]]]]

-----------------------------------------------------------------------------
(* trash() *)

\* Steps 1 and 2: classify every path, then choose the store of the first one
\* that exists. resolve_trash_store() registers that volume if it has a serial.
TrashBegin(p, ps) ==
    LET todo  == [k \in DOMAIN ps |-> Classified(ps[k])]
        found == {k \in DOMAIN ps : fs[ps[k]] # None}
        first == CHOOSE k \in found : \A j \in found : k <= j
        store == IF found = {} THEN Central ELSE VolumeStore[ps[first]]
    IN  /\ At(p, "idle") /\ calls < MaxCalls
        /\ calls' = calls + 1
        /\ job' = [job EXCEPT ![p] =
                     [Idle EXCEPT !.pc = IF store \in Serials THEN "register"
                                         ELSE "name",
                                  !.todo = todo, !.store = store,
                                  !.given = {i \in Items : \E k \in DOMAIN ps :
                                                fs[ps[k]] = [item |-> i, whole |-> TRUE]}]]
        /\ UNCHANGED <<fs, clock, disk, registered, faults, crashes, hist>>

\* register_volume(): load volumes.json; one that cannot be read, or is no JSON,
\* is taken for an empty one ...
RegisterLoad(p) ==
    /\ At(p, "register")
    /\ \/ /\ Granted
          /\ job' = [job EXCEPT ![p].pc = "save", ![p].seen = registered]
       \/ /\ Refused("load")
          /\ job' = [job EXCEPT ![p].pc = "save", ![p].seen = <<>>,
                                ![p].blind = TRUE]
    /\ UNCHANGED <<fs, clock, disk, registered, hist>>

\* The stores that a process which could not read the registry writes it without.
Drops(p) == IF job[p].blind THEN {registered[k] : k \in DOMAIN registered} ELSE {}

\* Mutant: an OSError is ignored and the unregistered store used all the same.
RegisterSaveIgnored(p) ==
    LET s == job[p].seen IN
    /\ At(p, "save")
    /\ \/ /\ Granted
          /\ registered' = IF \E k \in DOMAIN s : s[k] = job[p].store THEN s
                           ELSE Append(s, job[p].store)
          /\ forgotten' = (forgotten \cup Drops(p)) \ {job[p].store}
       \/ Refused("save") /\ UNCHANGED <<registered, forgotten>>
    /\ job' = [job EXCEPT ![p].pc = "name"]
    /\ UNCHANGED <<fs, clock, disk, born, purged, acked>>

\* ... add the volume and write the whole registry back, what others wrote in
\* between included; an OSError falls back to the central store.
RegisterSave(p) ==
    LET s == job[p].seen IN
    /\ At(p, "save")
    /\ \/ /\ Granted
          /\ registered' = IF \E k \in DOMAIN s : s[k] = job[p].store THEN s
                           ELSE Append(s, job[p].store)
          /\ forgotten' = (forgotten \cup Drops(p)) \ {job[p].store}
          /\ job' = [job EXCEPT ![p].pc = "name"]
       \/ /\ Refused("save")
          /\ job' = [job EXCEPT ![p].pc = "name", ![p].store = Central]
          /\ UNCHANGED <<registered, forgotten>>
    /\ UNCHANGED <<fs, clock, disk, born, purged, acked>>

\* generate_unique_folder_name(): the first suffix free in this store.
NameFolder(p) ==
    /\ At(p, "name")
    /\ \E k \in 0..MaxCalls :
         /\ <<job[p].store, clock, k>> \notin exists
         /\ \A j \in 0..(k - 1) : <<job[p].store, clock, j>> \in exists
         /\ job' = [job EXCEPT ![p].pc = "mkdir",
                               ![p].dest = <<job[p].store, clock, k>>]
    /\ UNCHANGED <<fs, clock, disk, registered, bounds, hist>>

\* makedirs(content_dir, exist_ok=True): a folder made meanwhile is shared.
MakeFolder(p) ==
    /\ At(p, "mkdir")
    /\ \/ /\ Granted
          /\ exists' = exists \cup {job[p].dest}
          /\ job' = [job EXCEPT ![p].pc = "stage"]
       \/ /\ Refused("mkdir")
          /\ job' = [job EXCEPT ![p] = Idle]
          /\ UNCHANGED exists
    /\ UNCHANGED <<fs, clock, content, manifest, registered, hist>>

\* The loop over the classified paths takes the next one.
Staging(p) == At(p, "stage") /\ job[p].todo # <<>>
Slot(p, e) == content[job[p].dest][BaseName[e.path]]
Fill(p, e, cell) == [content EXCEPT ![job[p].dest][BaseName[e.path]] = cell]

\* Mutant: the loop does not go on after a path that did not exist.
StageAbsentForever(p) ==
    LET e == Head(job[p].todo) IN
    /\ Staging(p) /\ e.kind = "absent"
    /\ job' = [job EXCEPT ![p].failed = TRUE]
    /\ UNCHANGED <<fs, clock, disk, registered, bounds, hist>>

\* A path that did not exist when it was classified is reported and skipped.
StageAbsent(p) ==
    LET e == Head(job[p].todo) IN
    /\ Staging(p) /\ e.kind = "absent"
    /\ job' = [job EXCEPT ![p].todo = Tail(@), ![p].failed = TRUE]
    /\ UNCHANGED <<fs, clock, disk, registered, bounds, hist>>

\* _stage_link(): recreate a symlink in content/; a junction, or a symlink that
\* cannot be recreated, is kept as its manifest entry alone.
StageLink(p) ==
    LET e == Head(job[p].todo) IN
    /\ Staging(p) /\ e.kind \in LinkKinds
    /\ exists' = exists \cup {job[p].dest}
    /\ \/ /\ e.kind # "junction" /\ Slot(p, e) = None /\ Granted
          /\ content' = Fill(p, e, [item |-> e.link, whole |-> TRUE])
          /\ job' = [job EXCEPT ![p].pc = "delete",
                                ![p].done = Append(@, [e EXCEPT !.stored = TRUE])]
       \/ /\ \/ (e.kind = "junction" \/ Slot(p, e) # None) /\ Granted
             \/ e.kind # "junction" /\ Slot(p, e) = None /\ Refused("symlink")
          /\ job' = [job EXCEPT ![p].pc = "delete", ![p].done = Append(@, e)]
          /\ UNCHANGED content
    /\ UNCHANGED <<fs, clock, manifest, registered, hist>>

\* rename and copy replace a file of the same name, and refuse a directory.
Replaceable(cell, old) ==
    old # None => KindOf[cell.item] # "dir" /\ KindOf[old.item] # "dir"
Renamable(p, e) == /\ fs[e.path] # None
                   /\ <<e.path, job[p].dest[1]>> \in Renames
                   /\ Replaceable(fs[e.path], Slot(p, e))
Copyable(p, e) == /\ fs[e.path] # None
                  /\ KindOf[fs[e.path].item] = e.kind
                  /\ Replaceable(fs[e.path], Slot(p, e))

\* _stage_regular() on the same volume: one rename moves the item.
StageRename(p) ==
    LET e == Head(job[p].todo) IN
    /\ Staging(p) /\ e.kind \in {"file", "dir"}
    /\ Renamable(p, e) /\ Granted
    /\ fs' = [fs EXCEPT ![e.path] = None]
    /\ exists' = exists \cup {job[p].dest}
    /\ content' = Fill(p, e, fs[e.path])
    /\ job' = [job EXCEPT ![p].todo = Tail(@),
                          ![p].done = Append(@, [e EXCEPT !.stored = TRUE])]
    /\ UNCHANGED <<clock, manifest, registered, hist>>

\* _stage_regular() when the rename is refused: copy, delete comes next.
StageCopy(p) ==
    LET e == Head(job[p].todo) IN
    /\ Staging(p) /\ e.kind \in {"file", "dir"} /\ Copyable(p, e)
    /\ \/ ~Renamable(p, e) /\ Granted
       \/ Renamable(p, e) /\ Refused("rename")
    /\ exists' = exists \cup {job[p].dest}
    /\ content' = Fill(p, e, fs[e.path])
    /\ job' = [job EXCEPT ![p].pc = "delete",
                          ![p].done = Append(@, [e EXCEPT !.stored = TRUE])]
    /\ UNCHANGED <<fs, clock, manifest, registered, hist>>

\* Mutant: a failed copy is not reported.
StageFailSilent(p) ==
    LET e == Head(job[p].todo) IN
    /\ Staging(p) /\ e.kind \in {"file", "dir"}
    /\ Copyable(p, e) /\ Refused("copy")
    /\ job' = [job EXCEPT ![p].todo = Tail(@), ![p].done = Append(@, e)]
    /\ UNCHANGED <<fs, clock, disk, registered, hist>>

\* Mutant: after a failed copy the original is deleted all the same.
StageFailDeletes(p) ==
    LET e == Head(job[p].todo) IN
    /\ Staging(p) /\ e.kind \in {"file", "dir"}
    /\ Copyable(p, e) /\ Refused("copy")
    /\ job' = [job EXCEPT ![p].pc = "delete", ![p].failed = TRUE,
                          ![p].done = Append(@, e)]
    /\ UNCHANGED <<fs, clock, disk, registered, hist>>

\* _stage_regular() when the copy fails too, possibly half way: the entry is
\* kept without a content path and the original stays.
StageFail(p) ==
    LET e == Head(job[p].todo) IN
    /\ Staging(p) /\ e.kind \in {"file", "dir"}
    /\ exists' = exists \cup {job[p].dest}
    /\ \/ ~Renamable(p, e) /\ ~Copyable(p, e) /\ Granted /\ UNCHANGED content
       \/ /\ Copyable(p, e) /\ Refused("copy")
          /\ \/ UNCHANGED content
             \/ content' = Fill(p, e, [item |-> fs[e.path].item, whole |-> FALSE])
    /\ job' = [job EXCEPT ![p].todo = Tail(@), ![p].failed = TRUE,
                          ![p].done = Append(@, e)]
    /\ UNCHANGED <<fs, clock, manifest, registered, hist>>

\* unlink and rmdir refuse a directory tree, rmtree anything else.
Deletable(e) == /\ fs[e.path] # None
                /\ (e.kind = "dir") = (KindOf[fs[e.path].item] = "dir")

\* safe_delete() of the original. The error handler given to rmtree swallows
\* what it cannot remove, and the call still reports success.
Delete(p) ==
    LET e == Head(job[p].todo) IN
    /\ At(p, "delete")
    /\ \/ /\ Deletable(e) /\ Granted
          /\ fs' = [fs EXCEPT ![e.path] = None]
          /\ job' = [job EXCEPT ![p].pc = "stage", ![p].todo = Tail(@)]
       \/ /\ e.kind # "dir"
          /\ \/ Deletable(e) /\ Refused("delete")
             \/ ~Deletable(e) /\ Granted
          /\ job' = [job EXCEPT ![p].pc = "stage", ![p].todo = Tail(@),
                                ![p].failed = TRUE]
          /\ UNCHANGED fs
       \/ /\ e.kind = "dir"
          /\ \/ Deletable(e) /\ Refused("delete") /\ \E w \in {FALSE, fs[e.path].whole} :
                  fs' = [fs EXCEPT ![e.path].whole = w]
             \/ ~Deletable(e) /\ Granted /\ UNCHANGED fs
          /\ job' = [job EXCEPT ![p].pc = "stage", ![p].todo = Tail(@)]
    /\ UNCHANGED <<clock, disk, registered, hist>>

\* _save_manifest() and the report. The atomic write makes missing directories.
\* An I/O error here leaves trash() as an exception, with the items already
\* moved and no manifest to find them by.
SaveManifest(p) ==
    LET d == job[p].dest IN
    /\ At(p, "stage") /\ job[p].todo = <<>>
    /\ \/ /\ Granted
          /\ exists' = exists \cup {d}
          /\ manifest' = [manifest EXCEPT ![d] = job[p].done]
          /\ acked' = IF job[p].failed THEN acked
                      ELSE acked \cup {[fid |-> d, items |-> job[p].given]}
       \/ /\ Refused("manifest")
          /\ UNCHANGED <<exists, manifest, acked>>
    /\ job' = [job EXCEPT ![p] = Idle]
    /\ UNCHANGED <<fs, clock, content, registered, born, purged, forgotten>>

-----------------------------------------------------------------------------
(* recover_folder() and cmd_recover() *)

\* Done with the first folder of the queue: go on with the next, or return.
NextFolder(j, step) == IF Len(j.queue) = 1 THEN Idle
                       ELSE [j EXCEPT !.pc = step, !.queue = Tail(@)]

\* Backups that a recovery or a clean has begun to use up.
Touch(f) == acked' = {a \in acked : a.fid # f}

\* Folders and their manifests are read up front; nothing found, nothing done.
RecoverBegin(p, sel, mode) ==
    /\ At(p, "idle")
    /\ \E q \in Choices(sel) :
         job' = [job EXCEPT ![p] =
                   IF q = <<>> THEN Idle
                   ELSE [Idle EXCEPT !.pc = "recover", !.queue = Load(q),
                                     !.mode = mode]]
    /\ UNCHANGED <<fs, clock, disk, registered, bounds, hist>>

\* _recover_entry() works on the next entry of the folder at hand.
Recovering(p) == At(p, "recover") /\ job[p].queue[1].entries # <<>>
Target(p, e) == IF job[p].mode = "to" THEN AltPath[BaseName[e.path]] ELSE e.path
Backup(p, e) == content[job[p].queue[1].fid][BaseName[e.path]]
NextEntry(j, ok) == [j EXCEPT !.pc = "recover", !.queue[1].entries = Tail(@),
                              !.failed = @ \/ ~ok]

\* os.path.exists(): what a broken link answers no to.
Reaches(cell) == cell # None /\ KindOf[cell.item] # "broken"

\* A link can be made again from its manifest entry. A link that was broken
\* when deleted has a file type of its own, which no branch recreates.
Relinkable(p, e) == job[p].mode # "metadata" /\ fs[Target(p, e)] = None
                    /\ e.kind \in {"symlink", "junction"}
Restorable(p, e) == job[p].mode # "metadata" /\ fs[Target(p, e)] = None
                    /\ e.kind \notin {"symlink", "junction"}
                    /\ e.stored /\ Reaches(Backup(p, e))
Stampable(p, e) == job[p].mode = "metadata" /\ Reaches(fs[Target(p, e)])

RecoverMetadata(p) ==
    LET e == Head(job[p].queue[1].entries) IN
    /\ Recovering(p) /\ Stampable(p, e) /\ Granted
    /\ job' = [job EXCEPT ![p] = NextEntry(@, TRUE)]
    /\ UNCHANGED <<fs, clock, disk, registered, hist>>

RecoverLink(p) ==
    LET e == Head(job[p].queue[1].entries) IN
    /\ Recovering(p) /\ Relinkable(p, e) /\ Granted
    /\ fs' = [fs EXCEPT ![Target(p, e)] = [item |-> e.link, whole |-> TRUE]]
    /\ job' = [job EXCEPT ![p] = NextEntry(@, TRUE)]
    /\ UNCHANGED <<clock, disk, registered, hist>>

\* Content comes back as a copy; the copy in the folder is removed after it.
RecoverContent(p) ==
    LET e == Head(job[p].queue[1].entries) IN
    /\ Recovering(p) /\ Restorable(p, e) /\ Granted
    /\ fs' = [fs EXCEPT ![Target(p, e)] = Backup(p, e)]
    /\ job' = [job EXCEPT ![p].pc = "unlink"]
    /\ UNCHANGED <<clock, disk, registered, hist>>

\* Mutant: the copy in the folder is removed although it came back in part.
RecoverFailUnlinks(p) ==
    LET e == Head(job[p].queue[1].entries) IN
    /\ Recovering(p) /\ Restorable(p, e) /\ Refused("recover")
    /\ fs' = [fs EXCEPT ![Target(p, e)] =
                 [item |-> Backup(p, e).item, whole |-> FALSE]]
    /\ job' = [job EXCEPT ![p].pc = "unlink"]
    /\ UNCHANGED <<clock, disk, registered, hist>>

\* Every other entry counts as an error: the target is taken, there is nothing
\* to recover from, or the file system refuses, possibly half way in a copy.
RecoverFail(p) ==
    LET e == Head(job[p].queue[1].entries) IN
    /\ Recovering(p)
    /\ \/ /\ ~Stampable(p, e) /\ ~Relinkable(p, e) /\ ~Restorable(p, e)
          /\ Granted /\ UNCHANGED fs
       \/ /\ Stampable(p, e) \/ Relinkable(p, e)
          /\ Refused("recover") /\ UNCHANGED fs
       \/ /\ Restorable(p, e) /\ Refused("recover")
          /\ \/ UNCHANGED fs
             \/ fs' = [fs EXCEPT ![Target(p, e)] =
                         [item |-> Backup(p, e).item, whole |-> FALSE]]
    /\ job' = [job EXCEPT ![p] = NextEntry(@, FALSE)]
    /\ UNCHANGED <<clock, disk, registered, hist>>

\* The unlink or rmtree of the copy in the folder. rmtree may stop half way.
Unlink(p) ==
    LET f == job[p].queue[1].fid
        n == BaseName[Head(job[p].queue[1].entries).path]
        old == content[f][n]
    IN  /\ At(p, "unlink")
        /\ \/ /\ old # None /\ Granted
              /\ content' = [content EXCEPT ![f][n] = None]
              /\ job' = [job EXCEPT ![p] = NextEntry(@, TRUE)]
           \/ /\ old = None /\ Granted /\ UNCHANGED content
              /\ job' = [job EXCEPT ![p] = NextEntry(@, FALSE)]
           \/ /\ old # None /\ Refused("unlink")
              /\ \/ UNCHANGED content
                 \/ /\ KindOf[old.item] = "dir"
                    /\ content' = [content EXCEPT ![f][n].whole = FALSE]
              /\ job' = [job EXCEPT ![p] = NextEntry(@, FALSE)]
        /\ Touch(f)
        /\ UNCHANGED <<fs, clock, exists, manifest, registered, born, purged, forgotten>>

\* remove_folder() of the folder that the name of f leads to. With a registry that
\* cannot be read it looks in the central store alone, and a refused rmtree has
\* removed an arbitrary part of the folder.
RemoveFolder(f) ==
    \/ /\ \/ ~(\E g \in exists : Finds(Stamp(f), g)) /\ Granted
          \/ <<Central, f[2], f[3]>> \notin exists /\ Refused("load")
       /\ UNCHANGED disk
    \/ \E g \in exists :
         /\ Finds(Stamp(f), g)
         /\ \/ /\ Granted
               /\ exists' = exists \ {g}
               /\ content' = [content EXCEPT ![g] = NoContent]
               /\ manifest' = [manifest EXCEPT ![g] = <<>>]
            \/ /\ Refused("remove")
               /\ \E gone \in SUBSET Names :
                    content' = [content EXCEPT ![g] =
                        [n \in Names |-> IF n \in gone THEN None ELSE @[n]]]
               /\ \E m \in {manifest[g], <<>>} : manifest' = [manifest EXCEPT ![g] = m]
               /\ UNCHANGED exists

\* Mutant: the folder goes whether or not an entry failed.
RecoverEndAnyway(p) ==
    LET f == job[p].queue[1].fid IN
    /\ At(p, "recover") /\ job[p].queue[1].entries = <<>>
    /\ RemoveFolder(f) /\ Touch(f)
    /\ job' = [job EXCEPT ![p] = NextFolder(@, "recover")]
    /\ UNCHANGED <<fs, clock, registered, born, purged, forgotten>>

\* All entries are through: the folder goes unless an entry of it, or of an
\* earlier folder of the same command, failed.
RecoverEnd(p) ==
    LET f == job[p].queue[1].fid IN
    /\ At(p, "recover") /\ job[p].queue[1].entries = <<>>
    /\ IF job[p].failed THEN Granted /\ UNCHANGED <<disk, acked>>
                        ELSE RemoveFolder(f) /\ Touch(f)
    /\ job' = [job EXCEPT ![p] = NextFolder(@, "recover")]
    /\ UNCHANGED <<fs, clock, registered, born, purged, forgotten>>

-----------------------------------------------------------------------------
(* cmd_clean() *)

\* determine_zone() at the time the command started.
ZoneOf(f, now) == LET age == now - f[2] IN
                  IF age < ZoneA THEN "A"
                  ELSE IF age < ZoneB THEN "B"
                  ELSE IF age < ZoneC THEN "C" ELSE "D"

\* Mutant: --yes is accepted from a pipe in zones B and C too.
PermittedYes(zone, flags) ==
    /\ zone # "A"
    /\ zone = "B" => flags.force
    /\ flags.tty \/ flags.yes

\* check_clean_permission().
Permitted(zone, flags) ==
    /\ zone # "A"
    /\ zone = "B" => flags.force
    /\ zone \in {"B", "C"} => ~(flags.yes /\ ~flags.tty)
    /\ flags.tty \/ flags.yes

\* cmd_clean() asks before it deletes, unless --yes settles it in zone D.
Asks(zone, flags) == ~(zone = "D" /\ flags.yes)

CleanBegin(p, sel, flags) ==
    /\ At(p, "idle") /\ sel # "exact"
    /\ \E q \in Choices(sel) :
         job' = [job EXCEPT ![p] =
                   IF q = <<>> THEN Idle
                   ELSE [Idle EXCEPT !.pc = "clean", !.queue = Load(q),
                                     !.flags = flags, !.now = clock]]
    /\ UNCHANGED <<fs, clock, disk, registered, bounds, hist>>

\* A folder is skipped when its zone forbids it or the user does not say yes.
CleanSkip(p) ==
    LET zone == ZoneOf(job[p].queue[1].fid, job[p].now) IN
    /\ At(p, "clean")
    /\ ~Permitted(zone, job[p].flags) \/ Asks(zone, job[p].flags)
    /\ job' = [job EXCEPT ![p] = NextFolder(@, "clean")]
    /\ UNCHANGED <<fs, clock, disk, registered, bounds, hist>>

CleanConfirm(p) ==
    /\ At(p, "clean")
    /\ Permitted(ZoneOf(job[p].queue[1].fid, job[p].now), job[p].flags)
    /\ job' = [job EXCEPT ![p].pc = "purge"]
    /\ UNCHANGED <<fs, clock, disk, registered, bounds, hist>>

\* Mutant: counts the missing link target of a regular entry as an item.
HeldByNull(f) == {content[f][n].item : n \in {m \in Names : content[f][m] # None}}
                 \cup {manifest[f][k].link : k \in DOMAIN manifest[f]}

\* Items of which folder f holds a copy or a link record.
HeldBy(f) == {content[f][n].item : n \in {m \in Names : content[f][m] # None}}
             \cup ({manifest[f][k].link : k \in DOMAIN manifest[f]} \ {None})

Purge(p) ==
    LET f == job[p].queue[1].fid IN
    /\ At(p, "purge")
    /\ RemoveFolder(f) /\ Touch(f)
    /\ purged' = purged \cup HeldBy(f)
    /\ job' = [job EXCEPT ![p] = NextFolder(@, "clean")]
    /\ UNCHANGED <<fs, clock, registered, born, forgotten>>

-----------------------------------------------------------------------------
(* The users, the clock and the operating system *)

Tick == /\ clock < MaxClock /\ clock' = clock + 1
        /\ UNCHANGED <<fs, disk, registered, job, bounds, hist>>

\* Somebody makes a new thing at a free path.
UserCreate(q, i) ==
    /\ fs[q] = None /\ i \notin born
    /\ fs' = [fs EXCEPT ![q] = [item |-> i, whole |-> TRUE]]
    /\ born' = born \cup {i}
    /\ UNCHANGED <<clock, disk, registered, job, bounds, purged, acked, forgotten>>

Crash(p) ==
    /\ job[p].pc \in CrashAt /\ crashes < MaxCrashes
    /\ crashes' = crashes + 1
    /\ job' = [job EXCEPT ![p] = Idle]
    /\ UNCHANGED <<fs, clock, disk, registered, calls, faults, hist>>

-----------------------------------------------------------------------------
TrashStep(p) ==
    \/ RegisterLoad(p) \/ RegisterSave(p) \/ NameFolder(p) \/ MakeFolder(p)
    \/ StageAbsent(p) \/ StageLink(p)
    \/ StageRename(p) \/ StageCopy(p) \/ StageFail(p)
    \/ Delete(p) \/ SaveManifest(p)

RecoverStep(p) ==
    \/ RecoverMetadata(p) \/ RecoverLink(p)
    \/ RecoverContent(p) \/ RecoverFail(p)
    \/ Unlink(p) \/ RecoverEnd(p)

CleanStep(p) == CleanSkip(p) \/ CleanConfirm(p) \/ Purge(p)

Proceed(p) == TrashStep(p) \/ RecoverStep(p) \/ CleanStep(p)

Begin(p) == \/ \E ps \in TrashArgs : TrashBegin(p, ps)
            \/ \E sel \in Selections, m \in RecoverModes : RecoverBegin(p, sel, m)
            \/ \E sel \in Selections, o \in CleanFlags : CleanBegin(p, sel, o)

Next == \/ \E p \in Procs : Begin(p) \/ Proceed(p) \/ Crash(p)
        \/ Tick
        \/ \E q \in Paths, i \in Items : UserCreate(q, i)

Spec == Init /\ [][Next]_vars

\* A command that was started runs on: nothing in it waits for another one.
FairSpec == Spec /\ \A p \in Procs : WF_vars(Proceed(p))

-----------------------------------------------------------------------------
(* Properties *)

TypeOK ==
    /\ fs \in [Paths -> Cells \cup {None}]
    /\ clock \in 0..MaxClock
    /\ exists \subseteq FolderIds
    /\ content \in [FolderIds -> [Names -> Cells \cup {None}]]
    /\ manifest \in [FolderIds -> Seq(Entries)]
    /\ registered \in Seq(Stores)
    /\ job \in [Procs -> Jobs]
    /\ calls \in 0..MaxCalls
    /\ faults \in 0..MaxFaults /\ crashes \in 0..MaxCrashes
    /\ born \subseteq Items /\ purged \subseteq Items
    /\ acked \subseteq Backups /\ forgotten \subseteq Stores

\* Where item i can still be got from: a path, the content of a folder, or, for
\* a link, the target recorded in a manifest or held by the call that is about
\* to write one.
AtPath(i)   == \E q \in Paths : fs[q] = [item |-> i, whole |-> TRUE]
InFolder(i) == \E f \in exists : \E n \in Names :
                  content[f][n] = [item |-> i, whole |-> TRUE]
InManifest(i) == \E f \in exists : \E k \in DOMAIN manifest[f] :
                    manifest[f][k].link = i
InHand(i)   == \E p \in Procs : \E k \in DOMAIN job[p].done :
                  job[p].done[k].link = i
Kept(i)     == AtPath(i) \/ InFolder(i) \/ InManifest(i) \/ InHand(i)

\* Nothing a user ever had is lost unless a user agreed to its permanent
\* deletion in clean: trash() and recover keep a whole copy at every step.
NothingLost == \A i \in born : Kept(i) \/ i \in purged

\* The step of process p puts something in the place of item i in its folder, or
\* writes its manifest over one that records link i.
Overlays(p, i) ==
    /\ At(p, "stage")
    /\ IF job[p].todo # <<>>
       THEN LET old == Slot(p, Head(job[p].todo)) IN old # None /\ old.item = i
       ELSE \E k \in DOMAIN manifest[job[p].dest] : manifest[job[p].dest][k].link = i

\* The step deletes the original of item i, of which p did make a copy, when that
\* copy is not, or not all, in its place any more.
Outdone(p, i) ==
    /\ At(p, "delete") /\ job[p].done[Len(job[p].done)].stored
    /\ Slot(p, Head(job[p].todo)) # [item |-> i, whole |-> TRUE]

\* The step ends the call of a process that has link i on record.
Forsakes(p, i) == /\ \E k \in DOMAIN job[p].done : job[p].done[k].link = i
                  /\ job'[p] = Idle

\* All that trash() can lose without consent, however many processes delete in one
\* second and share a folder: a thing whose place another of its base name takes, be
\* it before or after its original is deleted, a link on record only in a manifest
\* that another process replaces, and one on record only with a process that is
\* killed or cannot write its manifest.
LossWhileTrashing ==
    [][\A i \in born : Kept(i) \/ i \in purged
         => \/ Kept(i)' \/ i \in purged'
            \/ \E p \in Procs :
                 /\ job'[p] # job[p]
                 /\ Overlays(p, i) \/ Outdone(p, i) \/ Forsakes(p, i)]_vars

\* A backup trash() reported success for holds everything it was given, whole
\* and recorded in the manifest, until a recovery or a clean uses it up.
AckedKept == \A a \in acked :
    /\ a.fid \in exists
    /\ \A i \in a.items : \E k \in DOMAIN manifest[a.fid] :
         LET e == manifest[a.fid][k] IN
         \/ e.link = i
         \/ /\ e.stored
            /\ content[a.fid][BaseName[e.path]] = [item |-> i, whole |-> TRUE]

\* Folders of different stores that were named in the same second.
NamesUnique == \A f, g \in exists : Stamp(f) = Stamp(g) => f = g

\* With several stores a backup is still found by its name as long as no two
\* folders share one, unless another volume was registered in a volumes.json that
\* could not be read at that moment: the new one lists that volume alone, and the
\* stores of the others are found again only when they are next written to.
FoundIfUnique == NamesUnique =>
    \A a \in acked : a.fid \in exists /\ a.fid[1] \notin forgotten
                     => Finds(Stamp(a.fid), a.fid)

\* The end of a recovery that brought no content back and still has no errors:
\* of metadata alone, or of a folder that a failed removal left without its
\* manifest. The folder goes, or part of it, with the content in it.
NothingCameBack ==
    \E p \in Procs : /\ At(p, "recover") /\ job[p].queue[1].entries = <<>>
                    /\ \/ job[p].mode = "metadata"
                       \/ manifest[job[p].queue[1].fid] = <<>>

\* At every step at which no two folders share a name nothing is lost without
\* consent, except at the end of a recovery for which nothing came back.
LossNeedsClash ==
    [][NamesUnique /\ ~NothingCameBack =>
       \A i \in born : Kept(i) \/ i \in purged
                        => Kept(i)' \/ i \in purged']_vars

\* clean deletes nothing that is younger than zone A even after the time the
\* prompt took; in zone B only with --force, and in zones B and C only when a
\* user at a terminal said yes.
CleanHonoursZones ==
    [][\A p \in Procs : At(p, "purge") /\ job'[p] # job[p] =>
         \A f \in exists \ exists' :
            /\ clock - f[2] >= ZoneA
            /\ job[p].now - f[2] < ZoneB => job[p].flags.force
            /\ job[p].now - f[2] < ZoneC => job[p].flags.tty]_vars

\* A recovery only ever removes a folder whose content is all back in place.
OnlyEmptiedRemoved ==
    [][\A p \in Procs : At(p, "recover") =>
         \A f \in exists \ exists' : \A n \in Names :
            content[f][n] # None => KindOf[content[f][n].item] \in LinkKinds]_vars

\* Every call that was started ends.
CallsEnd == \A p \in Procs : ~At(p, "idle") ~> At(p, "idle")
=============================================================================
