-------------------------- MODULE TrashStoreProofs --------------------------
(***************************************************************************)
(* What holds of TrashStore for every value of its constants:              *)
(*                                                                         *)
(*   TypeCorrect        the state keeps its types (TypeOK);                *)
(*   ZonesHonoured      cmd_clean() removes no folder that its age zone,   *)
(*                      the options and the terminal do not allow;         *)
(*   FoundByUniqueName  a backup is found by its name if no other folder   *)
(*                      has it (SerialsKnown, RegistryWhole);              *)
(*   BackupsKept        what trash() reported saved is kept, whole and     *)
(*                      recorded (OneProcess, Named);                      *)
(*   LossExplained      no step but one of a clash of names, or the end of *)
(*                      a recovery that brought nothing back, loses        *)
(*                      anything without consent; and so                   *)
(*   NothingIsLost      nothing is lost where neither occurs, and          *)
(*   PromiseKept        there TrashStore implements RecoverableDelete      *)
(*                      (OneProcess, Named, LinksSafe).                    *)
(*                                                                         *)
(* TypeOK alone is not inductive. Staging a link writes its recorded       *)
(* target to content/, so every entry a process holds must record one if   *)
(* its kind is a link (Told), in manifests too, since recovery reads them  *)
(* back; staging writes to dest, so dest must be set (Ready); recovery and *)
(* clean work on the head of a queue that must not be empty (Ready).       *)
(* ZonesHonoured needs in addition that a process about to remove a folder *)
(* was allowed to when it asked, and that clocks do not run back (ZoneInv).*)
(* FoundByUniqueName: the store a call writes to was registered before     *)
(* (ListedInv). The rest: what is in a folder, in its manifest and in the  *)
(* job that works on it tells of the same things, entry by entry           *)
(* (SoloInv); and of the things a call was given, each is still to be      *)
(* staged or covered by an entry that is done (AckInv).                    *)
(* PromiseKept: what an entry tells of the kind of a thing is true, links  *)
(* are never there in part, and a recovery holds what the manifest holds   *)
(* (KindInv), so that nothing comes back that was not trashed.             *)
(***************************************************************************)
EXTENDS TrashRefinement, FiniteSetTheorems, SequenceTheorems, WellFoundedInduction,
        TLAPS

\* An entry of a link knows the target of the link.
Told == {e \in Entries : e.kind \in LinkKinds => e.link # None}

\* A folder as recover_folder() and cmd_clean() load it.
ToldFolders == [fid : FolderIds, entries : Seq(Told)]

\* What a process in the middle of a call may hold.
ToldJobs == [pc : Steps, todo : Seq(Told), done : Seq(Told), given : SUBSET Items,
             store : Stores, seen : Seq(Stores), dest : FolderIds \cup {None},
             queue : Seq(ToldFolders), mode : {"full", "to", "metadata"},
             flags : Flags, now : 0..MaxClock, failed : BOOLEAN, blind : BOOLEAN]

\* Each step finds what the earlier steps of the call have to leave for it.
Ready(j) ==
    /\ j.pc \in {"mkdir", "stage", "delete"} => j.dest \in FolderIds
    /\ j.pc = "delete" => j.todo # <<>>
    /\ j.pc \in {"recover", "unlink", "clean", "purge"} => j.queue # <<>>
    /\ j.pc = "unlink" => j.queue[1].entries # <<>>

GoodJobs == {j \in ToldJobs : Ready(j)}

\* The file system; the folders are finitely many, so listing them works.
DiskOK ==
    /\ fs \in [Paths -> Cells \cup {None}]
    /\ clock \in 0..MaxClock
    /\ exists \subseteq FolderIds /\ IsFiniteSet(exists)
    /\ content \in [FolderIds -> [Names -> Cells \cup {None}]]
    /\ manifest \in [FolderIds -> Seq(Told)]
    /\ registered \in Seq(Stores)

\* The bounds of the exploration.
CountOK ==
    /\ calls \in 0..MaxCalls
    /\ faults \in 0..MaxFaults /\ crashes \in 0..MaxCrashes

\* The history variables.
HistOK ==
    /\ born \subseteq Items /\ purged \subseteq Items
    /\ acked \subseteq Backups /\ forgotten \subseteq Stores

\* The inductive invariant behind TypeCorrect.
IndInv == DiskOK /\ CountOK /\ HistOK /\ job \in [Procs -> GoodJobs]

\* A sequence over S is one over every larger set.
LEMMA SeqMonotone ==
    ASSUME NEW S, NEW T, S \subseteq T
    PROVE  Seq(S) \subseteq Seq(T)
  BY SMT

\* A process between two commands is in a good state.
LEMMA IdleGood == Idle \in GoodJobs
  BY TrashAssumption, SMT DEF Idle, GoodJobs, ToldJobs, Ready, Steps, Flags

\* Replacing the job of one process by a good one keeps all of them good.
LEMMA Put ==
    ASSUME NEW p \in Procs, NEW j \in GoodJobs, job \in [Procs -> GoodJobs],
           job' = [job EXCEPT ![p] = j]
    PROVE  job' \in [Procs -> GoodJobs]
  BY DEF GoodJobs

\* The loop over folders of cmd_recover() and cmd_clean() goes on, or returns.
LEMMA NextFolderGood ==
    ASSUME NEW j \in GoodJobs, NEW step \in {"recover", "clean"},
           j.queue # <<>>
    PROVE  NextFolder(j, step) \in GoodJobs
<1>1. CASE Len(j.queue) = 1
  BY <1>1, IdleGood DEF NextFolder
<1>2. CASE Len(j.queue) # 1
  <2> DEFINE q == Tail(j.queue)
             n == [j EXCEPT !.pc = step, !.queue = q]
  <2>1. j \in ToldJobs /\ j.queue \in Seq(ToldFolders)
    BY DEF GoodJobs, ToldJobs
  <2>2. q \in Seq(ToldFolders) /\ q # <<>>
    <3>1. q \in Seq(ToldFolders) /\ Len(q) = Len(j.queue) - 1
      BY <2>1, HeadTailProperties
    <3>2. Len(j.queue) \in Nat \ {0}
      BY <2>1, EmptySeq
    <3>3. Len(q) # 0
      BY <3>1, <3>2, <1>2
    <3> QED
      BY <3>1, <3>3, EmptySeq
  <2>3. n \in ToldJobs
    BY <2>1, <2>2 DEF ToldJobs, Steps
  <2>4. n.pc = step /\ n.queue = q
    BY <2>1 DEF ToldJobs
  <2>5. NextFolder(j, step) = n
    BY <1>2 DEF NextFolder
  <2> QED
    BY <2>2, <2>3, <2>4, <2>5 DEF GoodJobs, Ready
<1> QED
  BY <1>1, <1>2

\* The loop over the entries of one folder goes on, recording a failure.
LEMMA NextEntryGood ==
    ASSUME NEW j \in GoodJobs, NEW ok \in BOOLEAN,
           j.queue # <<>>, j.queue[1].entries # <<>>
    PROVE  NextEntry(j, ok) \in GoodJobs
<1> DEFINE h == [j.queue[1] EXCEPT !.entries = Tail(@)]
           q == [j.queue EXCEPT ![1] = h]
           n == [j EXCEPT !.pc = "recover", !.queue = q,
                          !.failed = j.failed \/ ~ok]
<1>1. j \in ToldJobs /\ j.queue \in Seq(ToldFolders) /\ j.failed \in BOOLEAN
  BY DEF GoodJobs, ToldJobs
<1>2. 1 \in 1..Len(j.queue) /\ j.queue[1] \in ToldFolders
  BY <1>1, EmptySeq, ElementOfSeq
<1>3. h \in ToldFolders
  BY <1>2, HeadTailProperties DEF ToldFolders
<1>4. q \in Seq(ToldFolders) /\ Len(q) = Len(j.queue)
  BY <1>1, <1>2, <1>3, ExceptSeq
<1>5. q # <<>>
  BY <1>2, <1>4
<1>6. n \in ToldJobs /\ n.pc = "recover" /\ n.queue = q
  BY <1>1, <1>4 DEF ToldJobs, Steps
<1>7. NextEntry(j, ok) = n
  BY DEF NextEntry
<1> QED
  BY <1>5, <1>6, <1>7 DEF GoodJobs, Ready

\* Granting or refusing an operation keeps the counters within bounds.
LEMMA CountKept ==
    ASSUME CountOK, Granted \/ \E site \in FaultSites : Refused(site)
    PROVE  CountOK'
  BY TrashAssumption DEF CountOK, Granted, Refused, bounds

\* A step that leaves the file system alone keeps DiskOK.
LEMMA StillDisk ==
    ASSUME DiskOK, UNCHANGED <<fs, clock, disk, registered>>
    PROVE  DiskOK'
  BY DEF DiskOK, disk

\* A step that leaves the history alone keeps HistOK.
LEMMA StillHist == ASSUME HistOK, UNCHANGED hist PROVE HistOK'
  BY DEF HistOK, hist

\* What IndInv says of the process that takes the step.
LEMMA JobAt ==
    ASSUME IndInv, NEW p \in Procs
    PROVE  job[p] \in GoodJobs /\ job[p] \in ToldJobs /\ Ready(job[p])
  BY DEF IndInv, GoodJobs

\* register_volume() reading volumes.json leaves the rest of the job as it was, be the
\* file read or not.
LEMMA RegistryRead ==
    ASSUME IndInv, NEW p \in Procs, RegisterLoad(p)
    PROVE  \E n \in GoodJobs : /\ job' = [job EXCEPT ![p] = n] /\ n.pc = "save"
                              /\ n.todo = job[p].todo /\ n.done = job[p].done
                              /\ n.given = job[p].given /\ n.failed = job[p].failed
                              /\ n.store = job[p].store
<1> DEFINE n == [job[p] EXCEPT !.pc = "save", !.seen = registered]
           m == [job[p] EXCEPT !.pc = "save", !.seen = <<>>, !.blind = TRUE]
           Same(x) == /\ x.pc = "save" /\ x.todo = job[p].todo /\ x.done = job[p].done
                      /\ x.given = job[p].given /\ x.failed = job[p].failed
                      /\ x.store = job[p].store
<1>0. job[p] \in ToldJobs /\ registered \in Seq(Stores) /\ <<>> \in Seq(Stores)
  BY JobAt, EmptySeq DEF IndInv, DiskOK
<1>1. n \in GoodJobs /\ Same(n)
  <2>1. n \in ToldJobs /\ Same(n)
    BY <1>0 DEF ToldJobs, Steps
  <2> QED
    BY <2>1 DEF GoodJobs, Ready
<1>2. m \in GoodJobs /\ Same(m)
  <2>1. m \in ToldJobs /\ Same(m)
    BY <1>0 DEF ToldJobs, Steps
  <2> QED
    BY <2>1 DEF GoodJobs, Ready
<1>3. job' = [job EXCEPT ![p] = n] \/ job' = [job EXCEPT ![p] = m]
  BY DEF RegisterLoad
<1> HIDE DEF n, m
<1> QED
  BY <1>1, <1>2, <1>3

\* register_volume() reading volumes.json keeps IndInv.
LEMMA RegisterLoadInv ==
    ASSUME IndInv, NEW p \in Procs, RegisterLoad(p)
    PROVE  IndInv'
<1>1. job' \in [Procs -> GoodJobs]
  BY RegistryRead, Put DEF IndInv
<1>2. CountOK'
  BY CountKept DEF RegisterLoad, IndInv, FaultSites
<1> QED
  BY <1>1, <1>2, StillDisk, StillHist DEF RegisterLoad, IndInv

\* register_volume() writing volumes.json keeps IndInv: what it writes is the
\* list it read, with at most one store added.
LEMMA RegisterSaveInv ==
    ASSUME IndInv, NEW p \in Procs, RegisterSave(p)
    PROVE  IndInv'
<1> DEFINE n == [job[p] EXCEPT !.pc = "name"]
           m == [job[p] EXCEPT !.pc = "name", !.store = Central]
<1>0. job[p] \in ToldJobs /\ registered \in Seq(Stores)
  BY JobAt DEF IndInv, DiskOK
<1>1. n \in GoodJobs /\ m \in GoodJobs
  <2>1. n \in ToldJobs /\ n.pc = "name" /\ m \in ToldJobs /\ m.pc = "name"
    BY <1>0, TrashAssumption DEF ToldJobs, Steps
  <2> QED
    BY <2>1 DEF GoodJobs, Ready
<1>2. job' = [job EXCEPT ![p] = n] \/ job' = [job EXCEPT ![p] = m]
  BY DEF RegisterSave
<1>3. job' \in [Procs -> GoodJobs]
  BY <1>1, <1>2, Put DEF IndInv
<1>4. registered' \in Seq(Stores)
  <2>1. job[p].seen \in Seq(Stores) /\ job[p].store \in Stores
    BY <1>0 DEF ToldJobs
  <2>2. Append(job[p].seen, job[p].store) \in Seq(Stores)
    BY <2>1, AppendProperties
  <2> QED
    BY <1>0, <2>1, <2>2 DEF RegisterSave
<1>5. CountOK'
  BY CountKept DEF RegisterSave, IndInv, FaultSites
<1>6. Drops(p) \subseteq Stores
  BY <1>0, LenProperties, ElementOfSeq DEF Drops
<1>7. HistOK'
  BY <1>6 DEF RegisterSave, IndInv, HistOK
<1> QED
  BY <1>3, <1>4, <1>5, <1>7 DEF RegisterSave, IndInv, DiskOK, disk

\* generate_unique_folder_name() keeps IndInv, and sets dest.
LEMMA NameFolderInv ==
    ASSUME IndInv, NEW p \in Procs, NameFolder(p)
    PROVE  IndInv'
<1>1. PICK k \in 0..MaxCalls :
        job' = [job EXCEPT ![p].pc = "mkdir", ![p].dest = <<job[p].store, clock, k>>]
  BY DEF NameFolder
<1> DEFINE n == [job[p] EXCEPT !.pc = "mkdir", !.dest = <<job[p].store, clock, k>>]
<1>2. n.dest \in FolderIds
  BY JobAt DEF IndInv, DiskOK, FolderIds, ToldJobs
<1>3. n \in GoodJobs
  <2>1. job[p] \in ToldJobs
    BY JobAt
  <2>2. n \in ToldJobs /\ n.pc = "mkdir" /\ n.dest = <<job[p].store, clock, k>>
    BY <1>2, <2>1 DEF ToldJobs, Steps
  <2> QED
    BY <1>2, <2>2 DEF GoodJobs, Ready
<1>4. job' \in [Procs -> GoodJobs]
  BY <1>1, <1>3, Put DEF IndInv
<1> QED
  BY <1>4, CountKept, StillDisk, StillHist DEF NameFolder, IndInv, Granted

\* Making the folder keeps IndInv, folders stay finitely many.
LEMMA MakeFolderInv ==
    ASSUME IndInv, NEW p \in Procs, MakeFolder(p)
    PROVE  IndInv'
<1> DEFINE n == [job[p] EXCEPT !.pc = "stage"]
<1>0. job[p] \in ToldJobs /\ job[p].dest \in FolderIds
  BY JobAt DEF MakeFolder, At, Ready
<1>1. n \in GoodJobs
  <2>1. n \in ToldJobs /\ n.pc = "stage" /\ n.dest = job[p].dest
    BY <1>0 DEF ToldJobs, Steps
  <2> QED
    BY <1>0, <2>1 DEF GoodJobs, Ready
<1>2. job' = [job EXCEPT ![p] = n] \/ job' = [job EXCEPT ![p] = Idle]
  BY DEF MakeFolder
<1>3. job' \in [Procs -> GoodJobs]
  BY <1>1, <1>2, IdleGood, Put DEF IndInv
<1>4. IsFiniteSet(exists \cup {job[p].dest})
  BY FS_AddElement DEF IndInv, DiskOK
<1>5. DiskOK'
  BY <1>0, <1>4 DEF MakeFolder, IndInv, DiskOK
<1>6. CountOK'
  BY CountKept DEF MakeFolder, IndInv, FaultSites
<1> QED
  BY <1>3, <1>5, <1>6, StillHist DEF MakeFolder, IndInv

\* The two ways trash() goes on after a path: to the next, or to its removal.
LEMMA Staged ==
    ASSUME NEW j \in GoodJobs, j.pc \in {"stage", "delete"}, j.todo # <<>>,
           NEW d \in Seq(Told), NEW b \in BOOLEAN
    PROVE  /\ [j EXCEPT !.pc = "stage", !.todo = Tail(@), !.done = d, !.failed = b]
                \in GoodJobs
           /\ [j EXCEPT !.pc = "delete", !.done = d] \in GoodJobs
<1> DEFINE n == [j EXCEPT !.pc = "stage", !.todo = Tail(@), !.done = d, !.failed = b]
           m == [j EXCEPT !.pc = "delete", !.done = d]
<1>1. j \in ToldJobs /\ j.dest \in FolderIds /\ j.todo \in Seq(Told)
  BY DEF GoodJobs, Ready, ToldJobs
<1>2. Tail(j.todo) \in Seq(Told)
  BY <1>1, HeadTailProperties
<1>3. n \in ToldJobs /\ n.pc = "stage" /\ n.dest = j.dest
  BY <1>1, <1>2 DEF ToldJobs, Steps
<1>4. m \in ToldJobs /\ m.pc = "delete" /\ m.dest = j.dest /\ m.todo = j.todo
  BY <1>1 DEF ToldJobs, Steps
<1> QED
  BY <1>1, <1>3, <1>4 DEF GoodJobs, Ready

\* What the next path of the staging loop is, and what its entry may become.
LEMMA NextPath ==
    ASSUME IndInv, NEW p \in Procs, At(p, "stage") \/ At(p, "delete"),
           job[p].todo # <<>>
    PROVE  LET e == Head(job[p].todo) IN
           /\ e \in Told /\ e.path \in Paths /\ BaseName[e.path] \in Names
           /\ [e EXCEPT !.stored = TRUE] \in Told
           /\ Append(job[p].done, e) \in Seq(Told)
           /\ Append(job[p].done, [e EXCEPT !.stored = TRUE]) \in Seq(Told)
           /\ job[p].dest \in FolderIds /\ job[p].pc \in {"stage", "delete"}
           /\ job[p].done \in Seq(Told) /\ job[p].failed \in BOOLEAN
           /\ job[p] \in GoodJobs /\ job[p] \in ToldJobs
<1> DEFINE e == Head(job[p].todo)
<1>1. job[p] \in ToldJobs /\ job[p] \in GoodJobs /\ Ready(job[p])
  BY JobAt
<1>2. job[p].todo \in Seq(Told) /\ job[p].done \in Seq(Told) /\ job[p].failed \in BOOLEAN
  BY <1>1 DEF ToldJobs
<1>3. e \in Told
  BY <1>2, HeadTailProperties
<1>4. e.path \in Paths /\ BaseName[e.path] \in Names
  BY <1>3, TrashAssumption DEF Told, Entries
<1>5. [e EXCEPT !.stored = TRUE] \in Told
  BY <1>3 DEF Told, Entries
<1>6. Append(job[p].done, e) \in Seq(Told)
  BY <1>2, <1>3, AppendProperties
<1>7. Append(job[p].done, [e EXCEPT !.stored = TRUE]) \in Seq(Told)
  BY <1>2, <1>5, AppendProperties
<1>8. job[p].dest \in FolderIds /\ job[p].pc \in {"stage", "delete"}
  BY <1>1 DEF At, Ready
<1> QED
  BY <1>1, <1>2, <1>3, <1>4, <1>5, <1>6, <1>7, <1>8

\* Skipping a path that did not exist keeps IndInv.
LEMMA StageAbsentInv ==
    ASSUME IndInv, NEW p \in Procs, StageAbsent(p)
    PROVE  IndInv'
<1> DEFINE n == [job[p] EXCEPT !.todo = Tail(@), !.failed = TRUE]
           m == [job[p] EXCEPT !.pc = "stage", !.todo = Tail(@),
                               !.done = job[p].done, !.failed = TRUE]
<1>1. job[p] \in ToldJobs /\ job[p].pc = "stage"
  BY JobAt DEF StageAbsent, Staging, At
<1>2. m \in GoodJobs
  BY NextPath, Staged, Zenon DEF StageAbsent, Staging
<1>3. n = m
  BY <1>1 DEF ToldJobs
<1>4. job' = [job EXCEPT ![p] = n]
  BY DEF StageAbsent
<1>5. job' \in [Procs -> GoodJobs]
  BY <1>2, <1>3, <1>4, Put DEF IndInv
<1> QED
  BY <1>5, CountKept, StillDisk, StillHist DEF StageAbsent, IndInv, Granted

\* Putting something into the content of a folder keeps its type.
LEMMA Filled ==
    ASSUME IndInv, NEW f \in FolderIds, NEW n \in Names,
           NEW c \in Cells \cup {None}
    PROVE  [content EXCEPT ![f][n] = c] \in [FolderIds -> [Names -> Cells \cup {None}]]
  BY DEF IndInv, DiskOK

\* One folder more is still finitely many.
LEMMA FolderAdded ==
    ASSUME IndInv, NEW f \in FolderIds
    PROVE  exists \cup {f} \subseteq FolderIds /\ IsFiniteSet(exists \cup {f})
  BY FS_AddElement DEF IndInv, DiskOK

\* _stage_link() keeps IndInv: the link it writes has a recorded target.
LEMMA StageLinkInv ==
    ASSUME IndInv, NEW p \in Procs, StageLink(p)
    PROVE  IndInv'
<1> DEFINE e == Head(job[p].todo)
           d1 == Append(job[p].done, [e EXCEPT !.stored = TRUE])
           d2 == Append(job[p].done, e)
           n == [job[p] EXCEPT !.pc = "delete", !.done = d1]
           m == [job[p] EXCEPT !.pc = "delete", !.done = d2]
<1>1. /\ e \in Told /\ e.kind \in LinkKinds /\ BaseName[e.path] \in Names
      /\ d1 \in Seq(Told) /\ d2 \in Seq(Told) /\ job[p].dest \in FolderIds
      /\ job[p].failed \in BOOLEAN
  BY NextPath DEF StageLink, Staging
<1>2. n \in GoodJobs /\ m \in GoodJobs
  BY <1>1, JobAt, Staged, Zenon DEF StageLink, Staging, At
<1>3. job' = [job EXCEPT ![p] = n] \/ job' = [job EXCEPT ![p] = m]
  BY DEF StageLink
<1>4. job' \in [Procs -> GoodJobs]
  BY <1>2, <1>3, Put DEF IndInv
<1>5. [item |-> e.link, whole |-> TRUE] \in Cells
  BY <1>1 DEF Told, Entries, Cells
<1>6. content' \in [FolderIds -> [Names -> Cells \cup {None}]]
  <2>1. content \in [FolderIds -> [Names -> Cells \cup {None}]]
    BY DEF IndInv, DiskOK
  <2>2. Fill(p, e, [item |-> e.link, whole |-> TRUE])
           \in [FolderIds -> [Names -> Cells \cup {None}]]
    BY <1>1, <1>5, Filled DEF Fill
  <2> QED
    BY <2>1, <2>2 DEF StageLink
<1>7. DiskOK'
  BY <1>1, <1>6, FolderAdded DEF StageLink, IndInv, DiskOK
<1>8. CountOK'
  BY CountKept DEF StageLink, IndInv, FaultSites
<1> QED
  BY <1>4, <1>7, <1>8, StillHist DEF StageLink, IndInv

\* The rename of _stage_regular() keeps IndInv.
LEMMA StageRenameInv ==
    ASSUME IndInv, NEW p \in Procs, StageRename(p)
    PROVE  IndInv'
<1> DEFINE e == Head(job[p].todo)
           d == Append(job[p].done, [e EXCEPT !.stored = TRUE])
           n == [job[p] EXCEPT !.todo = Tail(@), !.done = d]
           m == [job[p] EXCEPT !.pc = "stage", !.todo = Tail(@), !.done = d,
                               !.failed = job[p].failed]
<1>1. /\ e.path \in Paths /\ BaseName[e.path] \in Names
      /\ d \in Seq(Told) /\ job[p].dest \in FolderIds
      /\ job[p].failed \in BOOLEAN /\ job[p] \in ToldJobs
  BY NextPath DEF StageRename, Staging
<1>2. m \in GoodJobs
  BY <1>1, JobAt, Staged, Zenon DEF StageRename, Staging, At
<1>3. n = m
  BY <1>1 DEF ToldJobs, StageRename, Staging, At
<1>4. job' = [job EXCEPT ![p] = n]
  BY DEF StageRename
<1>5. job' \in [Procs -> GoodJobs]
  BY <1>2, <1>3, <1>4, Put DEF IndInv
<1>6. fs[e.path] \in Cells \cup {None}
  BY <1>1, SMTT(30) DEF IndInv, DiskOK
<1>7. content' \in [FolderIds -> [Names -> Cells \cup {None}]]
  BY <1>1, <1>6, Filled DEF StageRename, Fill
<1>8. DiskOK'
  BY <1>1, <1>7, FolderAdded, Zenon DEF StageRename, IndInv, DiskOK
<1> QED
  BY <1>5, <1>8, CountKept, StillHist DEF StageRename, IndInv

\* The copy of _stage_regular() keeps IndInv.
LEMMA StageCopyInv ==
    ASSUME IndInv, NEW p \in Procs, StageCopy(p)
    PROVE  IndInv'
<1> DEFINE e == Head(job[p].todo)
           d == Append(job[p].done, [e EXCEPT !.stored = TRUE])
           n == [job[p] EXCEPT !.pc = "delete", !.done = d]
<1>1. /\ e.path \in Paths /\ BaseName[e.path] \in Names
      /\ d \in Seq(Told) /\ job[p].dest \in FolderIds
      /\ job[p].failed \in BOOLEAN
  BY NextPath DEF StageCopy, Staging
<1>2. n \in GoodJobs
  BY <1>1, JobAt, Staged, Zenon DEF StageCopy, Staging, At
<1>3. job' = [job EXCEPT ![p] = n]
  BY DEF StageCopy
<1>4. job' \in [Procs -> GoodJobs]
  BY <1>2, <1>3, Put DEF IndInv
<1>5. fs[e.path] \in Cells \cup {None}
  BY <1>1 DEF IndInv, DiskOK
<1>6. content' \in [FolderIds -> [Names -> Cells \cup {None}]]
  BY <1>1, <1>5, Filled DEF StageCopy, Fill
<1>7. DiskOK'
  BY <1>1, <1>6, FolderAdded, Zenon DEF StageCopy, IndInv, DiskOK
<1>8. CountOK'
  BY CountKept DEF StageCopy, IndInv, FaultSites
<1> QED
  BY <1>4, <1>7, <1>8, StillHist DEF StageCopy, IndInv

\* A refused staging, complete or half way, keeps IndInv.
LEMMA StageFailInv ==
    ASSUME IndInv, NEW p \in Procs, StageFail(p)
    PROVE  IndInv'
<1> DEFINE e == Head(job[p].todo)
           d == Append(job[p].done, e)
           n == [job[p] EXCEPT !.todo = Tail(@), !.failed = TRUE, !.done = d]
           m == [job[p] EXCEPT !.pc = "stage", !.todo = Tail(@), !.done = d,
                               !.failed = TRUE]
<1>1. /\ e.path \in Paths /\ BaseName[e.path] \in Names
      /\ d \in Seq(Told) /\ job[p].dest \in FolderIds /\ job[p] \in ToldJobs
  BY NextPath DEF StageFail, Staging
<1>2. m \in GoodJobs
  BY <1>1, JobAt, Staged, Zenon DEF StageFail, Staging, At
<1>3. n = m
  BY <1>1 DEF ToldJobs, StageFail, Staging, At
<1>4. job' = [job EXCEPT ![p] = n]
  BY DEF StageFail
<1>5. job' \in [Procs -> GoodJobs]
  BY <1>2, <1>3, <1>4, Put DEF IndInv
<1>6. Copyable(p, e) => [item |-> fs[e.path].item, whole |-> FALSE] \in Cells
  BY <1>1, SMTT(30) DEF IndInv, DiskOK, Copyable, Cells
<1>7. content' \in [FolderIds -> [Names -> Cells \cup {None}]]
  <2>1. content \in [FolderIds -> [Names -> Cells \cup {None}]]
    BY DEF IndInv, DiskOK
  <2>2. Copyable(p, e) => Fill(p, e, [item |-> fs[e.path].item, whole |-> FALSE])
           \in [FolderIds -> [Names -> Cells \cup {None}]]
    BY <1>1, <1>6, Filled DEF Fill
  <2> QED
    BY <2>1, <2>2 DEF StageFail
<1>8. DiskOK'
  BY <1>1, <1>7, FolderAdded DEF StageFail, IndInv, DiskOK
<1>9. CountOK'
  BY CountKept DEF StageFail, IndInv, FaultSites
<1> QED
  BY <1>5, <1>8, <1>9, StillHist DEF StageFail, IndInv

\* Removing the original after a copy, or failing to, keeps IndInv.
LEMMA DeleteInv ==
    ASSUME IndInv, NEW p \in Procs, Delete(p)
    PROVE  IndInv'
<1> DEFINE e == Head(job[p].todo)
           n(b) == [job[p] EXCEPT !.pc = "stage", !.todo = Tail(@), !.failed = b]
           m(b) == [job[p] EXCEPT !.pc = "stage", !.todo = Tail(@),
                                  !.done = job[p].done, !.failed = b]
<1>0. At(p, "delete") /\ job[p].todo # <<>>
  BY JobAt, Zenon DEF Delete, At, Ready
<1>1. /\ e.path \in Paths /\ job[p].failed \in BOOLEAN /\ job[p] \in ToldJobs
      /\ job[p].done \in Seq(Told)
  BY <1>0, NextPath
<1>2. m(TRUE) \in GoodJobs /\ m(job[p].failed) \in GoodJobs
  BY <1>0, <1>1, JobAt, Staged, Zenon DEF At
<1>3. n(TRUE) = m(TRUE) /\ [job[p] EXCEPT !.pc = "stage", !.todo = Tail(@)] = m(job[p].failed)
  BY <1>1 DEF ToldJobs
<1>4. \/ job' = [job EXCEPT ![p] = n(TRUE)]
      \/ job' = [job EXCEPT ![p] = [job[p] EXCEPT !.pc = "stage", !.todo = Tail(@)]]
  BY Zenon DEF Delete
<1>5. job' \in [Procs -> GoodJobs]
  BY <1>2, <1>3, <1>4, Put DEF IndInv
<1>6. fs' \in [Paths -> Cells \cup {None}]
  <2>1. fs \in [Paths -> Cells \cup {None}]
    BY DEF IndInv, DiskOK
  <2>2. CASE fs' = [fs EXCEPT ![e.path] = None]
    BY <1>1, <2>1, <2>2, SMTT(30)
  <2>3. ASSUME Deletable(e), NEW w \in {FALSE, fs[e.path].whole},
               fs' = [fs EXCEPT ![e.path].whole = w]
        PROVE  fs' \in [Paths -> Cells \cup {None}]
    <3>1. fs[e.path] \in Cells
      BY <1>1, <2>1, <2>3 DEF Deletable
    <3>2. [fs[e.path] EXCEPT !.whole = w] \in Cells
      BY <3>1 DEF Cells
    <3> QED
      BY <1>1, <2>1, <2>3, <3>2, SMTT(30)
  <2> QED
    BY <2>1, <2>2, <2>3, Zenon DEF Delete
<1>7. DiskOK'
  BY <1>6, SMTT(30) DEF Delete, IndInv, DiskOK, disk
<1>8. CountOK'
  BY CountKept DEF Delete, IndInv, FaultSites
<1> QED
  BY <1>5, <1>7, <1>8, StillHist DEF Delete, IndInv

\* Writing manifest.json at the end of trash() keeps IndInv: the entries have
\* their link targets, which recovery will read back.
LEMMA SaveManifestInv ==
    ASSUME IndInv, NEW p \in Procs, SaveManifest(p)
    PROVE  IndInv'
<1>1. /\ job[p].dest \in FolderIds /\ job[p].done \in Seq(Told)
      /\ job[p].given \in SUBSET Items
  BY JobAt DEF SaveManifest, At, Ready, ToldJobs
<1>2. job' \in [Procs -> GoodJobs]
  BY IdleGood, Put DEF SaveManifest, IndInv
<1>3. DiskOK'
  BY <1>1, FolderAdded DEF SaveManifest, IndInv, DiskOK
<1>4. HistOK'
  BY <1>1 DEF SaveManifest, IndInv, HistOK, Backups
<1>5. CountOK'
  BY CountKept DEF SaveManifest, IndInv, FaultSites
<1> QED
  BY <1>2, <1>3, <1>4, <1>5 DEF IndInv

\* list_entries() returns a sequence of folders that exist.
LEMMA ListedSeq ==
    ASSUME IndInv, NEW q \in Listings
    PROVE  q \in Seq(FolderIds)
<1>1. Listed \subseteq exists /\ exists \subseteq FolderIds /\ IsFiniteSet(exists)
  BY DEF Listed, IndInv, DiskOK
<1>2. Cardinality(Listed) \in Nat
  BY <1>1, FS_Subset, FS_CardinalityType
<1>3. q \in [1..Cardinality(Listed) -> FolderIds]
  BY <1>1 DEF Listings
<1> QED
  BY <1>2, <1>3

\* Every way to name folders yields a sequence of folder names.
LEMMA ChosenSeq ==
    ASSUME IndInv, NEW sel \in {"exact", "last", "all"}, NEW q \in Choices(sel)
    PROVE  q \in Seq(FolderIds)
<1>1. CASE sel = "exact"
  <2>1. CASE q = <<>>
    BY <2>1, EmptySeq
  <2>2. CASE \E f \in exists : q = <<f>>
    <3>1. PICK f \in exists : q = <<f>>
      BY <2>2
    <3>2. f \in FolderIds
      BY DEF IndInv, DiskOK
    <3> QED
      BY <3>1, <3>2
  <2> QED
    BY <1>1, <2>1, <2>2 DEF Choices
<1>2. CASE sel = "last"
  <2>1. PICK l \in Listings : q = IF l = <<>> THEN <<>> ELSE <<l[Len(l)]>>
    BY <1>2 DEF Choices
  <2>2. l \in Seq(FolderIds)
    BY ListedSeq
  <2>3. CASE l = <<>>
    BY <2>1, <2>3
  <2>4. CASE l # <<>>
    <3>1. Len(l) \in 1..Len(l)
      BY <2>2, <2>4, EmptySeq
    <3>2. l[Len(l)] \in FolderIds
      BY <2>2, <3>1, ElementOfSeq
    <3> QED
      BY <2>1, <2>4, <3>2
  <2> QED
    BY <2>3, <2>4
<1>3. CASE sel = "all"
  BY <1>3, ListedSeq DEF Choices
<1> QED
  BY <1>1, <1>2, <1>3

\* Reading the manifests of chosen folders yields entries with link targets.
LEMMA LoadedSeq ==
    ASSUME IndInv, NEW q \in Seq(FolderIds), q # <<>>
    PROVE  Load(q) \in Seq(ToldFolders) /\ Load(q) # <<>>
<1>1. DOMAIN q = 1..Len(q) /\ Len(q) \in Nat \ {0}
  BY LenProperties, EmptySeq
<1>2. \A k \in 1..Len(q) : [fid |-> q[k], entries |-> manifest[q[k]]] \in ToldFolders
  BY ElementOfSeq DEF IndInv, DiskOK, ToldFolders
<1>3. Load(q) = [k \in 1..Len(q) |-> [fid |-> q[k], entries |-> manifest[q[k]]]]
  BY <1>1 DEF Load
<1>4. Load(q) \in Seq(ToldFolders)
  BY <1>1, <1>2, <1>3
<1>5. Len(Load(q)) = Len(q)
  BY <1>1, <1>3, <1>4
<1> QED
  BY <1>1, <1>4, <1>5, EmptySeq

\* Starting a recovery keeps IndInv: it runs on only with a non-empty queue.
LEMMA RecoverBeginInv ==
    ASSUME IndInv, NEW p \in Procs, NEW sel \in Selections,
           NEW mode \in RecoverModes, RecoverBegin(p, sel, mode)
    PROVE  IndInv'
<1>1. PICK q \in Choices(sel) :
        job' = [job EXCEPT ![p] =
                  IF q = <<>> THEN Idle
                  ELSE [Idle EXCEPT !.pc = "recover", !.queue = Load(q),
                                    !.mode = mode]]
  BY Zenon DEF RecoverBegin
<1>2. q \in Seq(FolderIds) /\ mode \in {"full", "to", "metadata"}
  BY ChosenSeq, TrashAssumption
<1> DEFINE n == [Idle EXCEPT !.pc = "recover", !.queue = Load(q), !.mode = mode]
<1>3. q # <<>> => n \in GoodJobs
  <2> SUFFICES ASSUME q # <<>> PROVE n \in GoodJobs
    OBVIOUS
  <2>1. Load(q) \in Seq(ToldFolders) /\ Load(q) # <<>>
    BY <1>2, LoadedSeq
  <2>2. Idle \in ToldJobs
    BY IdleGood DEF GoodJobs
  <2>3. n \in ToldJobs /\ n.pc = "recover" /\ n.queue = Load(q)
    BY <1>2, <2>1, <2>2 DEF ToldJobs, Steps
  <2> QED
    BY <2>1, <2>3 DEF GoodJobs, Ready
<1>4. job' \in [Procs -> GoodJobs]
  BY <1>1, <1>3, IdleGood, Put DEF IndInv
<1> QED
  BY <1>4, CountKept, StillDisk, StillHist DEF RecoverBegin, IndInv, Granted

\* Starting a clean keeps IndInv: it runs on only with a non-empty queue.
LEMMA CleanBeginInv ==
    ASSUME IndInv, NEW p \in Procs, NEW sel \in Selections,
           NEW flags \in CleanFlags, CleanBegin(p, sel, flags)
    PROVE  IndInv'
<1>1. PICK q \in Choices(sel) :
        job' = [job EXCEPT ![p] =
                  IF q = <<>> THEN Idle
                  ELSE [Idle EXCEPT !.pc = "clean", !.queue = Load(q),
                                    !.flags = flags, !.now = clock]]
  BY Zenon DEF CleanBegin
<1>2. q \in Seq(FolderIds) /\ flags \in Flags /\ clock \in 0..MaxClock
  BY ChosenSeq, TrashAssumption DEF IndInv, DiskOK
<1> DEFINE n == [Idle EXCEPT !.pc = "clean", !.queue = Load(q),
                             !.flags = flags, !.now = clock]
<1>3. q # <<>> => n \in GoodJobs
  <2> SUFFICES ASSUME q # <<>> PROVE n \in GoodJobs
    OBVIOUS
  <2>1. Load(q) \in Seq(ToldFolders) /\ Load(q) # <<>>
    BY <1>2, LoadedSeq
  <2>2. Idle \in ToldJobs
    BY IdleGood DEF GoodJobs
  <2>3. n \in ToldJobs /\ n.pc = "clean" /\ n.queue = Load(q)
    BY <1>2, <2>1, <2>2 DEF ToldJobs, Steps
  <2> QED
    BY <2>1, <2>3 DEF GoodJobs, Ready
<1>4. job' \in [Procs -> GoodJobs]
  BY <1>1, <1>3, IdleGood, Put DEF IndInv
<1> QED
  BY <1>4, CountKept, StillDisk, StillHist DEF CleanBegin, IndInv, Granted

\* The folder a recovery or a clean works on.
LEMMA FirstFolder ==
    ASSUME IndInv, NEW p \in Procs,
           job[p].pc \in {"recover", "unlink", "clean", "purge"}
    PROVE  /\ job[p] \in GoodJobs /\ job[p] \in ToldJobs /\ job[p].queue # <<>>
           /\ job[p].queue[1].fid \in FolderIds
           /\ job[p].queue[1].entries \in Seq(Told)
<1>1. job[p] \in GoodJobs /\ job[p] \in ToldJobs /\ job[p].queue # <<>>
  BY JobAt DEF Ready
<1>2. job[p].queue \in Seq(ToldFolders)
  BY <1>1 DEF ToldJobs
<1>3. 1 \in 1..Len(job[p].queue)
  BY <1>1, <1>2, EmptySeq
<1>4. job[p].queue[1] \in ToldFolders
  BY <1>2, <1>3, ElementOfSeq
<1> QED
  BY <1>1, <1>4 DEF ToldFolders

\* The entry a recovery works on.
LEMMA NextToldEntry ==
    ASSUME IndInv, NEW p \in Procs, job[p].pc \in {"recover", "unlink"},
           job[p].queue[1].entries # <<>>
    PROVE  LET e == Head(job[p].queue[1].entries) IN
           /\ e \in Told /\ BaseName[e.path] \in Names
           /\ Target(p, e) \in Paths
           /\ Backup(p, e) \in Cells \cup {None}
<1> DEFINE e == Head(job[p].queue[1].entries)
<1>1. job[p].queue[1].fid \in FolderIds /\ job[p].queue[1].entries \in Seq(Told)
  BY FirstFolder
<1>2. e \in Told
  BY <1>1, HeadTailProperties
<1>3. e.path \in Paths /\ BaseName[e.path] \in Names
  BY <1>2, TrashAssumption, SMTT(30) DEF Told, Entries
<1>4. Target(p, e) \in Paths
  BY <1>3, TrashAssumption DEF Target
<1>5. Backup(p, e) \in Cells \cup {None}
  BY <1>1, <1>3, Zenon DEF Backup, IndInv, DiskOK
<1> QED
  BY <1>2, <1>3, <1>4, <1>5

\* Recovering the metadata of an entry keeps IndInv.
LEMMA RecoverMetadataInv ==
    ASSUME IndInv, NEW p \in Procs, RecoverMetadata(p)
    PROVE  IndInv'
<1>1. NextEntry(job[p], TRUE) \in GoodJobs
  BY FirstFolder, NextEntryGood DEF RecoverMetadata, Recovering, At
<1>2. job' \in [Procs -> GoodJobs]
  BY <1>1, Put DEF RecoverMetadata, IndInv
<1> QED
  BY <1>2, CountKept, StillDisk, StillHist DEF RecoverMetadata, IndInv

\* Making a link again from its entry keeps IndInv: the entry has its target.
LEMMA RecoverLinkInv ==
    ASSUME IndInv, NEW p \in Procs, RecoverLink(p)
    PROVE  IndInv'
<1> DEFINE e == Head(job[p].queue[1].entries)
<1>1. NextEntry(job[p], TRUE) \in GoodJobs
  BY FirstFolder, NextEntryGood DEF RecoverLink, Recovering, At
<1>2. job' \in [Procs -> GoodJobs]
  BY <1>1, Put DEF RecoverLink, IndInv
<1>3. e \in Told /\ Target(p, e) \in Paths /\ e.kind \in LinkKinds
  BY NextToldEntry DEF RecoverLink, Recovering, At, Relinkable, LinkKinds
<1>4. [item |-> e.link, whole |-> TRUE] \in Cells
  BY <1>3 DEF Told, Entries, Cells
<1>5. DiskOK'
  BY <1>3, <1>4 DEF RecoverLink, IndInv, DiskOK, disk
<1> QED
  BY <1>2, <1>5, CountKept, StillHist DEF RecoverLink, IndInv

\* Copying content back keeps IndInv.
LEMMA RecoverContentInv ==
    ASSUME IndInv, NEW p \in Procs, RecoverContent(p)
    PROVE  IndInv'
<1> DEFINE e == Head(job[p].queue[1].entries)
           n == [job[p] EXCEPT !.pc = "unlink"]
<1>1. /\ job[p] \in ToldJobs /\ job[p].queue # <<>>
      /\ job[p].queue[1].entries # <<>>
  BY FirstFolder DEF RecoverContent, Recovering, At
<1>2. n \in ToldJobs /\ n.pc = "unlink" /\ n.queue = job[p].queue
  BY <1>1 DEF ToldJobs, Steps
<1>3. n \in GoodJobs
  BY <1>1, <1>2 DEF GoodJobs, Ready
<1>4. job' \in [Procs -> GoodJobs]
  BY <1>3, Put, SMTT(30) DEF RecoverContent, IndInv
<1>5. Target(p, e) \in Paths /\ Backup(p, e) \in Cells \cup {None}
  BY NextToldEntry DEF RecoverContent, Recovering, At
<1>6. DiskOK'
  BY <1>5 DEF RecoverContent, IndInv, DiskOK, disk
<1> QED
  BY <1>4, <1>6, CountKept, StillHist DEF RecoverContent, IndInv

\* An entry that cannot be recovered keeps IndInv.
LEMMA RecoverFailInv ==
    ASSUME IndInv, NEW p \in Procs, RecoverFail(p)
    PROVE  IndInv'
<1> DEFINE e == Head(job[p].queue[1].entries)
<1>1. NextEntry(job[p], FALSE) \in GoodJobs
  BY FirstFolder, NextEntryGood DEF RecoverFail, Recovering, At
<1>2. job' \in [Procs -> GoodJobs]
  BY <1>1, Put DEF RecoverFail, IndInv
<1>3. Target(p, e) \in Paths /\ Backup(p, e) \in Cells \cup {None}
  BY NextToldEntry, Zenon DEF RecoverFail, Recovering, At
<1>4. Restorable(p, e) => [item |-> Backup(p, e).item, whole |-> FALSE] \in Cells
  BY <1>3 DEF Restorable, Reaches, Cells
<1>5. fs \in [Paths -> Cells \cup {None}]
  BY DEF IndInv, DiskOK
<1>6. fs' \in [Paths -> Cells \cup {None}]
  BY <1>3, <1>4, <1>5 DEF RecoverFail
<1>7. DiskOK'
  BY <1>6 DEF RecoverFail, IndInv, DiskOK, disk
<1>8. CountOK'
  BY CountKept DEF RecoverFail, IndInv, FaultSites
<1> QED
  BY <1>2, <1>7, <1>8, StillHist DEF RecoverFail, IndInv

\* Removing the copy in the folder keeps IndInv, refused half way or not.
LEMMA UnlinkInv ==
    ASSUME IndInv, NEW p \in Procs, Unlink(p)
    PROVE  IndInv'
<1> DEFINE f == job[p].queue[1].fid
           n == BaseName[Head(job[p].queue[1].entries).path]
<1>0. job[p].pc = "unlink" /\ job[p].queue[1].entries # <<>>
  BY JobAt, Zenon DEF Unlink, At, Ready
<1>1. NextEntry(job[p], TRUE) \in GoodJobs /\ NextEntry(job[p], FALSE) \in GoodJobs
  BY <1>0, FirstFolder, NextEntryGood
<1>2. \/ job' = [job EXCEPT ![p] = NextEntry(job[p], TRUE)]
      \/ job' = [job EXCEPT ![p] = NextEntry(job[p], FALSE)]
  BY Zenon DEF Unlink
<1>3. job' \in [Procs -> GoodJobs]
  BY <1>1, <1>2, Put DEF IndInv
<1>4. f \in FolderIds /\ n \in Names
  BY <1>0, FirstFolder, NextToldEntry
<1>5. content' \in [FolderIds -> [Names -> Cells \cup {None}]]
  <2>1. content \in [FolderIds -> [Names -> Cells \cup {None}]]
    BY DEF IndInv, DiskOK
  <2>2. CASE content' = [content EXCEPT ![f][n] = None]
    BY <1>4, <2>1, <2>2, Zenon
  <2>3. CASE content[f][n] # None /\ content' = [content EXCEPT ![f][n].whole = FALSE]
    <3>0. content[f][n] \in Cells
      BY <1>4, <2>1, <2>3, Zenon
    <3>1. [content[f][n] EXCEPT !.whole = FALSE] \in Cells
      BY <3>0, Zenon DEF Cells
    <3> QED
      BY <1>4, <2>1, <2>3, <3>1, Zenon
  <2> QED
    BY <2>1, <2>2, <2>3, Zenon DEF Unlink
<1>6. DiskOK'
  BY <1>5, Zenon DEF Unlink, IndInv, DiskOK
<1>7. HistOK'
  BY Zenon DEF Unlink, Touch, IndInv, HistOK
<1>8. CountOK'
  BY CountKept, Zenon DEF Unlink, IndInv, FaultSites
<1> QED
  BY <1>3, <1>6, <1>7, <1>8 DEF IndInv

\* remove_folder() keeps DiskOK and CountOK, even when it stops half way.
LEMMA FolderRemoved ==
    ASSUME IndInv, NEW f, RemoveFolder(f),
           UNCHANGED <<fs, clock, registered>>
    PROVE  DiskOK' /\ CountOK'
<1>1. /\ exists \subseteq FolderIds /\ IsFiniteSet(exists)
      /\ content \in [FolderIds -> [Names -> Cells \cup {None}]]
      /\ manifest \in [FolderIds -> Seq(Told)]
  BY DEF IndInv, DiskOK
<1>2. CASE (Granted \/ Refused("load")) /\ UNCHANGED disk
  BY <1>2, StillDisk, CountKept DEF IndInv, FaultSites
<1>3. CASE \E g \in exists : /\ Granted
                             /\ exists' = exists \ {g}
                             /\ content' = [content EXCEPT ![g] = NoContent]
                             /\ manifest' = [manifest EXCEPT ![g] = <<>>]
  <2>1. PICK g \in exists : /\ Granted
                            /\ exists' = exists \ {g}
                            /\ content' = [content EXCEPT ![g] = NoContent]
                            /\ manifest' = [manifest EXCEPT ![g] = <<>>]
    BY <1>3
  <2>2. NoContent \in [Names -> Cells \cup {None}] /\ <<>> \in Seq(Told)
    BY EmptySeq DEF NoContent
  <2>3. exists' \subseteq FolderIds /\ IsFiniteSet(exists')
    BY <1>1, <2>1, FS_RemoveElement
  <2>4. content' \in [FolderIds -> [Names -> Cells \cup {None}]]
    BY <1>1, <2>1, <2>2
  <2>5. manifest' \in [FolderIds -> Seq(Told)]
    BY <1>1, <2>1, <2>2
  <2>6. CountOK'
    BY <2>1, CountKept DEF IndInv
  <2> QED
    BY <2>3, <2>4, <2>5, <2>6 DEF IndInv, DiskOK
<1>4. CASE \E g \in exists :
             /\ Refused("remove")
             /\ \E gone \in SUBSET Names :
                  content' = [content EXCEPT ![g] =
                      [n \in Names |-> IF n \in gone THEN None ELSE @[n]]]
             /\ \E m \in {manifest[g], <<>>} : manifest' = [manifest EXCEPT ![g] = m]
             /\ UNCHANGED exists
  <2>1. PICK g \in exists :
             /\ Refused("remove")
             /\ \E gone \in SUBSET Names :
                  content' = [content EXCEPT ![g] =
                      [n \in Names |-> IF n \in gone THEN None ELSE @[n]]]
             /\ \E m \in {manifest[g], <<>>} : manifest' = [manifest EXCEPT ![g] = m]
             /\ UNCHANGED exists
    BY <1>4
  <2>2. PICK gone \in SUBSET Names :
             content' = [content EXCEPT ![g] =
                 [n \in Names |-> IF n \in gone THEN None ELSE content[g][n]]]
    BY <2>1
  <2>3. PICK m \in {manifest[g], <<>>} : manifest' = [manifest EXCEPT ![g] = m]
    BY <2>1
  <2>4. g \in FolderIds /\ m \in Seq(Told)
    BY <1>1, EmptySeq
  <2>5. [n \in Names |-> IF n \in gone THEN None ELSE content[g][n]]
          \in [Names -> Cells \cup {None}]
    BY <1>1, <2>4
  <2>6. content' \in [FolderIds -> [Names -> Cells \cup {None}]]
    BY <1>1, <2>2, <2>4, <2>5
  <2>7. manifest' \in [FolderIds -> Seq(Told)]
    BY <1>1, <2>3, <2>4
  <2>8. CountOK'
    BY <2>1, CountKept DEF IndInv, FaultSites
  <2> QED
    BY <1>1, <2>1, <2>6, <2>7, <2>8 DEF IndInv, DiskOK
<1> QED
  BY <1>2, <1>3, <1>4 DEF RemoveFolder

\* The end of a folder's recovery keeps IndInv.
LEMMA RecoverEndInv ==
    ASSUME IndInv, NEW p \in Procs, RecoverEnd(p)
    PROVE  IndInv'
<1> DEFINE f == job[p].queue[1].fid
<1>1. NextFolder(job[p], "recover") \in GoodJobs
  BY FirstFolder, NextFolderGood DEF RecoverEnd, At
<1>2. job' \in [Procs -> GoodJobs]
  BY <1>1, Put DEF RecoverEnd, IndInv
<1>3. DiskOK' /\ CountOK'
  <2>1. CASE job[p].failed
    BY <2>1, StillDisk, CountKept DEF RecoverEnd, IndInv
  <2>2. CASE ~job[p].failed
    BY <2>2, FolderRemoved DEF RecoverEnd
  <2> QED
    BY <2>1, <2>2
<1>4. HistOK'
  BY DEF RecoverEnd, Touch, IndInv, HistOK
<1> QED
  BY <1>2, <1>3, <1>4 DEF IndInv

\* A folder that clean leaves alone keeps IndInv.
LEMMA CleanSkipInv ==
    ASSUME IndInv, NEW p \in Procs, CleanSkip(p)
    PROVE  IndInv'
<1>1. NextFolder(job[p], "clean") \in GoodJobs
  BY FirstFolder, NextFolderGood DEF CleanSkip, At
<1>2. job' \in [Procs -> GoodJobs]
  BY <1>1, Put DEF CleanSkip, IndInv, Granted
<1> QED
  BY <1>2, CountKept, StillDisk, StillHist DEF CleanSkip, IndInv, Granted

\* The user's yes keeps IndInv.
LEMMA CleanConfirmInv ==
    ASSUME IndInv, NEW p \in Procs, CleanConfirm(p)
    PROVE  IndInv'
<1> DEFINE n == [job[p] EXCEPT !.pc = "purge"]
<1>1. job[p] \in ToldJobs /\ job[p].queue # <<>>
  BY FirstFolder DEF CleanConfirm, At
<1>2. n \in ToldJobs /\ n.pc = "purge" /\ n.queue = job[p].queue
  BY <1>1 DEF ToldJobs, Steps
<1>3. n \in GoodJobs
  BY <1>1, <1>2 DEF GoodJobs, Ready
<1>4. job' \in [Procs -> GoodJobs]
  BY <1>3, Put DEF CleanConfirm, IndInv, Granted
<1> QED
  BY <1>4, CountKept, StillDisk, StillHist DEF CleanConfirm, IndInv, Granted

\* What the history counts as deleted for good are items.
LEMMA HeldItems ==
    ASSUME DiskOK, NEW f \in FolderIds
    PROVE  HeldBy(f) \subseteq Items
<1>1. \A n \in Names : content[f][n] # None => content[f][n].item \in Items
  BY DEF DiskOK, Cells
<1>2. \A k \in DOMAIN manifest[f] : manifest[f][k].link \in Items \cup {None}
  <2> SUFFICES ASSUME NEW k \in DOMAIN manifest[f]
               PROVE  manifest[f][k].link \in Items \cup {None}
    OBVIOUS
  <2>1. manifest[f] \in Seq(Told)
    BY DEF DiskOK
  <2>2. manifest[f][k] \in Told
    BY <2>1, LenProperties, ElementOfSeq
  <2> QED
    BY <2>2 DEF Told, Entries
<1> QED
  BY <1>1, <1>2 DEF HeldBy

\* The removal of a folder by clean keeps IndInv.
LEMMA PurgeInv ==
    ASSUME IndInv, NEW p \in Procs, Purge(p)
    PROVE  IndInv'
<1> DEFINE f == job[p].queue[1].fid
<1>0. job[p] \in GoodJobs /\ job[p].queue # <<>> /\ f \in FolderIds
  BY FirstFolder DEF Purge, At
<1>1. NextFolder(job[p], "clean") \in GoodJobs
  BY <1>0, NextFolderGood
<1>2. job' \in [Procs -> GoodJobs]
  BY <1>1, Put DEF Purge, IndInv
<1>3. DiskOK' /\ CountOK'
  BY FolderRemoved DEF Purge
<1>4. HeldBy(f) \subseteq Items
  BY <1>0, HeldItems DEF IndInv
<1>5. HistOK'
  BY <1>4 DEF Purge, Touch, IndInv, HistOK
<1> QED
  BY <1>2, <1>3, <1>5 DEF IndInv

\* Time passing keeps IndInv.
LEMMA TickInv ==
    ASSUME IndInv, Tick
    PROVE  IndInv'
<1>1. clock' \in 0..MaxClock
  BY TrashAssumption DEF Tick, IndInv, DiskOK
<1> QED
  BY <1>1 DEF Tick, IndInv, DiskOK, CountOK, HistOK, disk, bounds, hist

\* A user making a new thing keeps IndInv.
LEMMA UserCreateInv ==
    ASSUME IndInv, NEW q \in Paths, NEW i \in Items, UserCreate(q, i)
    PROVE  IndInv'
<1>1. fs' \in [Paths -> Cells \cup {None}]
  BY DEF UserCreate, IndInv, DiskOK, Cells
<1>2. DiskOK'
  BY <1>1 DEF UserCreate, IndInv, DiskOK, disk
<1>3. HistOK' /\ CountOK'
  BY DEF UserCreate, IndInv, HistOK, CountOK, bounds
<1> QED
  BY <1>2, <1>3 DEF UserCreate, IndInv

\* A killed process keeps IndInv.
LEMMA CrashInv ==
    ASSUME IndInv, NEW p \in Procs, Crash(p)
    PROVE  IndInv'
<1>1. job' \in [Procs -> GoodJobs]
  BY IdleGood, Put DEF Crash, IndInv
<1>2. CountOK'
  BY TrashAssumption DEF Crash, IndInv, CountOK
<1> QED
  BY <1>1, <1>2, StillDisk, StillHist DEF Crash, IndInv

\* Of the paths that exist there is a first one: trash() takes its store.
LEMMA Least ==
    ASSUME NEW T, T \subseteq Nat, T # {}
    PROVE  \E x \in T : \A y \in T : x <= y
<1> DEFINE R == OpToRel(<, Nat)
<1>1. IsWellFoundedOn(R, Nat)
  BY NatLessThanWellFounded, Zenon
<1>2. PICK x \in T : \A y \in T : ~(<<y, x>> \in R)
  <2> HIDE DEF R
  <2> QED
    BY <1>1, WFMin
<1>3. \A y \in T : y < x => <<y, x>> \in R
  BY DEF OpToRel
<1>4. \A y \in T : x <= y
  <2> HIDE DEF R
  <2>1. x \in Nat /\ \A y \in T : y \in Nat /\ ~(y < x)
    BY <1>2, <1>3
  <2> QED
    BY <2>1
<1> QED
  BY <1>4

\* classify() and _build_entry() record the target of every link.
LEMMA ClassifiedTold ==
    ASSUME DiskOK, NEW q \in Paths
    PROVE  Classified(q) \in Told
<1>1. CASE fs[q] = None
  BY <1>1 DEF Classified, Told, Entries, LinkKinds, Kinds
<1>2. CASE fs[q] # None
  <2> DEFINE i == fs[q].item
  <2>1. i \in Items /\ KindOf[i] \in Kinds /\ i # None
    BY <1>2, TrashAssumption DEF DiskOK, Cells
  <2>2. Classified(q) = [path |-> q, kind |-> KindOf[i], stored |-> FALSE,
                         link |-> IF KindOf[i] \in LinkKinds THEN i ELSE None]
    BY <1>2, SMTT(30) DEF Classified
  <2> HIDE DEF i
  <2> QED
    BY <2>1, <2>2 DEF Told, Entries
<1> QED
  BY <1>1, <1>2

\* Starting trash() keeps IndInv.
LEMMA TrashBeginInv ==
    ASSUME IndInv, NEW p \in Procs, NEW ps \in TrashArgs, TrashBegin(p, ps)
    PROVE  IndInv'
<1> DEFINE todo  == [k \in DOMAIN ps |-> Classified(ps[k])]
           found == {k \in DOMAIN ps : fs[ps[k]] # None}
           first == CHOOSE k \in found : \A j \in found : k <= j
           store == IF found = {} THEN Central ELSE VolumeStore[ps[first]]
           given == {i \in Items : \E k \in DOMAIN ps :
                        fs[ps[k]] = [item |-> i, whole |-> TRUE]}
           pc == IF store \in Serials THEN "register" ELSE "name"
           n == [Idle EXCEPT !.pc = pc, !.todo = todo, !.store = store,
                             !.given = given]
<1>1. /\ ps \in Seq(Paths) /\ DOMAIN ps = 1..Len(ps) /\ Len(ps) \in Nat
      /\ \A k \in DOMAIN ps : ps[k] \in Paths
  <2>1. ps \in Seq(Paths)
    BY TrashAssumption
  <2> QED
    BY <2>1, LenProperties, ElementOfSeq
<1>2. todo \in Seq(Told)
  <2>1. \A k \in 1..Len(ps) : Classified(ps[k]) \in Told
    BY <1>1, ClassifiedTold DEF IndInv
  <2>2. todo = [k \in 1..Len(ps) |-> Classified(ps[k])]
    BY <1>1
  <2> QED
    BY <1>1, <2>1, <2>2
<1>3. store \in Stores
  <2>1. CASE found = {}
    BY <2>1, TrashAssumption
  <2>2. CASE found # {}
    <3>1. found \subseteq Nat
      BY <1>1
    <3>2. \E k \in found : \A j \in found : k <= j
      BY <2>2, <3>1, Least
    <3>3. first \in found
      BY <3>2
    <3>4. ps[first] \in Paths
      BY <1>1, <3>3
    <3> QED
      BY <2>2, <3>4, TrashAssumption
  <2> QED
    BY <2>1, <2>2
<1>4. given \in SUBSET Items /\ pc \in {"register", "name"}
  OBVIOUS
<1>5. n \in GoodJobs
  <2> HIDE DEF todo, store, given, pc
  <2>1. Idle \in ToldJobs
    BY IdleGood DEF GoodJobs
  <2>2. n \in ToldJobs /\ n.pc = pc
    BY <1>2, <1>3, <1>4, <2>1 DEF ToldJobs, Steps
  <2> QED
    BY <1>4, <2>2 DEF GoodJobs, Ready
<1>6. job' = [job EXCEPT ![p] = n]
  BY DEF TrashBegin
<1>7. job' \in [Procs -> GoodJobs]
  <2> HIDE DEF n
  <2> QED
    BY <1>5, <1>6, Put DEF IndInv
<1>8. CountOK'
  BY TrashAssumption DEF TrashBegin, IndInv, CountOK
<1> QED
  BY <1>7, <1>8, StillDisk, StillHist DEF TrashBegin, IndInv

\* IndInv holds before any command.
LEMMA InitInv == Init => IndInv
<1> SUFFICES ASSUME Init PROVE IndInv
  OBVIOUS
<1>1. fs \in [Paths -> Cells \cup {None}]
  BY TrashAssumption DEF Init, Cells
<1>2. exists = {} /\ IsFiniteSet(exists) /\ clock \in 0..MaxClock
  BY TrashAssumption, FS_EmptySet DEF Init
<1>3. content \in [FolderIds -> [Names -> Cells \cup {None}]]
  BY DEF Init, NoContent
<1>4. manifest \in [FolderIds -> Seq(Told)] /\ registered \in Seq(Stores)
  BY EmptySeq DEF Init
<1>5. job \in [Procs -> GoodJobs]
  BY IdleGood DEF Init
<1>6. /\ born \subseteq Items /\ purged \subseteq Items /\ acked \subseteq Backups
      /\ forgotten \subseteq Stores
  BY TrashAssumption DEF Init
<1>7. CountOK
  BY TrashAssumption DEF Init, CountOK
<1> QED
  BY <1>1, <1>2, <1>3, <1>4, <1>5, <1>6, <1>7 DEF IndInv, DiskOK, HistOK

\* Every step of every process, of the clock and of a user keeps IndInv.
LEMMA NextInv == IndInv /\ [Next]_vars => IndInv'
<1> SUFFICES ASSUME IndInv, [Next]_vars PROVE IndInv'
  OBVIOUS
<1>1. CASE UNCHANGED vars
  BY <1>1 DEF vars, IndInv, DiskOK, CountOK, HistOK
<1>2. ASSUME NEW p \in Procs, Begin(p) PROVE IndInv'
  BY <1>2, TrashBeginInv, RecoverBeginInv, CleanBeginInv DEF Begin
<1>3. ASSUME NEW p \in Procs, TrashStep(p) PROVE IndInv'
  BY <1>3, RegisterLoadInv, RegisterSaveInv, NameFolderInv, MakeFolderInv,
     StageAbsentInv, StageLinkInv, StageRenameInv, StageCopyInv, StageFailInv,
     DeleteInv, SaveManifestInv DEF TrashStep
<1>4. ASSUME NEW p \in Procs, RecoverStep(p) PROVE IndInv'
  BY <1>4, RecoverMetadataInv, RecoverLinkInv, RecoverContentInv,
     RecoverFailInv, UnlinkInv, RecoverEndInv DEF RecoverStep
<1>5. ASSUME NEW p \in Procs, CleanStep(p) PROVE IndInv'
  BY <1>5, CleanSkipInv, CleanConfirmInv, PurgeInv DEF CleanStep
<1>6. ASSUME NEW p \in Procs, Crash(p) PROVE IndInv'
  BY <1>6, CrashInv
<1>7. CASE Tick
  BY <1>7, TickInv
<1>8. ASSUME NEW q \in Paths, NEW i \in Items, UserCreate(q, i) PROVE IndInv'
  BY <1>8, UserCreateInv
<1> QED
  BY <1>1, <1>2, <1>3, <1>4, <1>5, <1>6, <1>7, <1>8 DEF Next, Proceed

\* IndInv is a strengthening of TypeOK.
LEMMA IndTypes == IndInv => TypeOK
<1> SUFFICES ASSUME IndInv PROVE TypeOK
  OBVIOUS
<1>1. Told \subseteq Entries
  BY DEF Told
<1>2. Seq(Told) \subseteq Seq(Entries)
  BY <1>1, SeqMonotone
<1>3. ToldFolders \subseteq Loaded
  BY <1>2 DEF ToldFolders, Loaded
<1>4. Seq(ToldFolders) \subseteq Seq(Loaded)
  BY <1>3, SeqMonotone
<1>5. GoodJobs \subseteq Jobs
  BY <1>2, <1>4 DEF GoodJobs, ToldJobs, Jobs
<1> QED
  BY <1>2, <1>5 DEF IndInv, DiskOK, CountOK, HistOK, TypeOK

\* Whatever trash(), recover, clean, crashes and refused operations do, the
\* folders, manifests and processes keep their types: a manifest holds only
\* entries trash() built, and no process is at a step without its folder.
THEOREM TypeCorrect == Spec => []TypeOK
<1>1. Spec => []IndInv
  BY InitInv, NextInv, PTL DEF Spec
<1> QED
  BY <1>1, IndTypes, PTL

-----------------------------------------------------------------------------
(* clean and the zones *)

\* check_clean_permission() lets p delete the first folder of its queue.
Consent(p) == Permitted(ZoneOf(job[p].queue[1].fid, job[p].now), job[p].flags)

\* cmd_clean() started before now, and is at its rmtree only after the check.
ZoneInv == \A p \in Procs : /\ job[p].now <= clock
                            /\ At(p, "purge") => Consent(p)

\* Steps of p that do not lead to a deletion by clean.
Calm(p) == /\ clock' = clock
           /\ \A q \in Procs \ {p} : job'[q] = job[q]
           /\ job'[p].pc # "purge" /\ job'[p].now \in {0, job[p].now, clock}

\* Going on with the next folder does not lead straight to a deletion.
LEMMA NextFolderCalm ==
    ASSUME NEW j \in ToldJobs, NEW step \in {"recover", "clean"}
    PROVE  NextFolder(j, step).pc # "purge" /\ NextFolder(j, step).now \in {0, j.now}
  BY DEF NextFolder, ToldJobs, Idle

\* Going on with the next entry does not lead straight to a deletion.
LEMMA NextEntryCalm ==
    ASSUME NEW j \in ToldJobs, NEW ok \in BOOLEAN
    PROVE  NextEntry(j, ok).pc # "purge" /\ NextEntry(j, ok).now = j.now
  BY DEF NextEntry, ToldJobs

\* Starting a command deletes nothing, and takes the time from the clock.
LEMMA BeginCalm ==
    ASSUME IndInv, NEW p \in Procs, Begin(p)
    PROVE  Calm(p)
<1>1. job \in [Procs -> GoodJobs]
  BY DEF IndInv
<1>2. ASSUME NEW ps \in TrashArgs, TrashBegin(p, ps) PROVE Calm(p)
  BY <1>1, <1>2 DEF TrashBegin, Calm, Idle
<1>3. ASSUME NEW sel \in Selections, NEW mode \in RecoverModes,
             RecoverBegin(p, sel, mode)
      PROVE  Calm(p)
  BY <1>1, <1>3 DEF RecoverBegin, Calm, Idle
<1>4. ASSUME NEW sel \in Selections, NEW flags \in CleanFlags,
             CleanBegin(p, sel, flags)
      PROVE  Calm(p)
  BY <1>1, <1>4 DEF CleanBegin, Calm, Idle
<1> QED
  BY <1>2, <1>3, <1>4 DEF Begin

\* The steps of trash() do not lead to a deletion by clean.
LEMMA TrashCalm ==
    ASSUME IndInv, NEW p \in Procs, TrashStep(p)
    PROVE  Calm(p)
<1>1. job \in [Procs -> GoodJobs] /\ job[p] \in ToldJobs
  BY JobAt DEF IndInv
<1>2. CASE RegisterLoad(p)
  BY <1>1, <1>2 DEF RegisterLoad, Calm, ToldJobs
<1>3. CASE RegisterSave(p)
  BY <1>1, <1>3 DEF RegisterSave, Calm, ToldJobs
<1>4. CASE NameFolder(p)
  BY <1>1, <1>4 DEF NameFolder, Calm, ToldJobs
<1>5. CASE MakeFolder(p)
  BY <1>1, <1>5 DEF MakeFolder, Calm, ToldJobs, Idle
<1>6. CASE StageAbsent(p)
  BY <1>1, <1>6 DEF StageAbsent, Staging, At, Calm, ToldJobs
<1>7. CASE StageLink(p)
  BY <1>1, <1>7 DEF StageLink, Calm, ToldJobs
<1>8. CASE StageRename(p)
  BY <1>1, <1>8 DEF StageRename, Staging, At, Calm, ToldJobs
<1>9. CASE StageCopy(p)
  BY <1>1, <1>9 DEF StageCopy, Calm, ToldJobs
<1>10. CASE StageFail(p)
  BY <1>1, <1>10, SMTT(30) DEF StageFail, Staging, At, Calm, ToldJobs
<1>11. CASE Delete(p)
  BY <1>1, <1>11 DEF Delete, Calm, ToldJobs
<1>12. CASE SaveManifest(p)
  BY <1>1, <1>12 DEF SaveManifest, Calm, Idle
<1> QED
  BY <1>2, <1>3, <1>4, <1>5, <1>6, <1>7, <1>8, <1>9, <1>10, <1>11, <1>12
     DEF TrashStep

\* The steps of a recovery do not lead to a deletion by clean.
LEMMA RecoverCalm ==
    ASSUME IndInv, NEW p \in Procs, RecoverStep(p)
    PROVE  Calm(p)
<1>1. job \in [Procs -> GoodJobs] /\ job[p] \in ToldJobs
  BY JobAt DEF IndInv
<1>2. CASE RecoverMetadata(p)
  BY <1>1, <1>2, NextEntryCalm DEF RecoverMetadata, Calm
<1>3. CASE RecoverLink(p)
  BY <1>1, <1>3, NextEntryCalm DEF RecoverLink, Calm
<1>4. CASE RecoverContent(p)
  BY <1>1, <1>4 DEF RecoverContent, Calm, ToldJobs
<1>5. CASE RecoverFail(p)
  BY <1>1, <1>5, NextEntryCalm DEF RecoverFail, Calm
<1>6. CASE Unlink(p)
  BY <1>1, <1>6, NextEntryCalm, Zenon DEF Unlink, Calm
<1>7. CASE RecoverEnd(p)
  BY <1>1, <1>7, NextFolderCalm DEF RecoverEnd, Calm
<1> QED
  BY <1>2, <1>3, <1>4, <1>5, <1>6, <1>7 DEF RecoverStep

\* Of the steps of cmd_clean() only the user's yes leads to a deletion.
LEMMA CleanCalm ==
    ASSUME IndInv, NEW p \in Procs, CleanSkip(p) \/ Purge(p) \/ Crash(p)
    PROVE  Calm(p)
<1>1. job \in [Procs -> GoodJobs] /\ job[p] \in ToldJobs
  BY JobAt DEF IndInv
<1>2. CASE CleanSkip(p)
  BY <1>1, <1>2, NextFolderCalm DEF CleanSkip, Calm
<1>3. CASE Purge(p)
  BY <1>1, <1>3, NextFolderCalm DEF Purge, Calm
<1>4. CASE Crash(p)
  BY <1>1, <1>4 DEF Crash, Calm, Idle
<1> QED
  BY <1>2, <1>3, <1>4

\* A step that leads to no deletion keeps ZoneInv.
LEMMA CalmZones ==
    ASSUME IndInv, ZoneInv, NEW p \in Procs, Calm(p)
    PROVE  ZoneInv'
<1>1. \A q \in Procs : job[q].now \in Nat /\ clock \in Nat
  BY JobAt, TrashAssumption DEF ToldJobs, IndInv, DiskOK
<1>2. \A q \in Procs : job'[q].now <= clock'
  BY <1>1 DEF Calm, ZoneInv
<1>3. \A q \in Procs : job'[q].pc = "purge" => q # p /\ job'[q] = job[q]
  BY DEF Calm
<1> QED
  BY <1>2, <1>3 DEF ZoneInv, Consent, At

\* The user's yes keeps ZoneInv: it is only asked for when permitted.
LEMMA ConfirmZones ==
    ASSUME IndInv, ZoneInv, NEW p \in Procs, CleanConfirm(p)
    PROVE  ZoneInv'
<1> DEFINE n == [job[p] EXCEPT !.pc = "purge"]
<1>1. job \in [Procs -> GoodJobs] /\ job[p] \in ToldJobs
  BY JobAt DEF IndInv
<1>2. /\ n.now = job[p].now /\ n.queue = job[p].queue /\ n.flags = job[p].flags
  BY <1>1 DEF ToldJobs
<1>3. job' = [job EXCEPT ![p] = n] /\ clock' = clock
  BY DEF CleanConfirm
<1>4. Permitted(ZoneOf(job[p].queue[1].fid, job[p].now), job[p].flags)
  BY DEF CleanConfirm
<1>5. job'[p] = n /\ \A q \in Procs \ {p} : job'[q] = job[q]
  BY <1>1, <1>3
<1>6. Consent(p)'
  BY <1>2, <1>4, <1>5 DEF Consent
<1>7. \A q \in Procs : job'[q].now <= clock'
  BY <1>2, <1>3, <1>5 DEF ZoneInv
<1> QED
  BY <1>5, <1>6, <1>7 DEF ZoneInv, Consent, At

\* Every step keeps ZoneInv.
LEMMA NextZones == IndInv /\ ZoneInv /\ [Next]_vars => ZoneInv'
<1> SUFFICES ASSUME IndInv, ZoneInv, [Next]_vars PROVE ZoneInv'
  OBVIOUS
<1>1. CASE UNCHANGED <<job, clock>>
  BY <1>1 DEF ZoneInv, Consent, At
<1>2. ASSUME NEW p \in Procs, Begin(p) \/ Proceed(p) \/ Crash(p) PROVE ZoneInv'
  BY <1>2, BeginCalm, TrashCalm, RecoverCalm, CleanCalm, CalmZones, ConfirmZones
     DEF Proceed, CleanStep
<1>3. CASE Tick
  <2>1. \A q \in Procs : job[q].now \in Nat /\ clock \in Nat
    BY JobAt, TrashAssumption DEF ToldJobs, IndInv, DiskOK
  <2> QED
    BY <1>3, <2>1 DEF Tick, ZoneInv, Consent, At
<1>4. ASSUME NEW q \in Paths, NEW i \in Items, UserCreate(q, i) PROVE ZoneInv'
  BY <1>1, <1>4 DEF UserCreate
<1> QED
  BY <1>1, <1>2, <1>3, <1>4 DEF Next, vars

\* A permitted deletion is one the folder's age, --force and the terminal allow.
LEMMA PurgeHonours ==
    ASSUME IndInv, ZoneInv, NEW p \in Procs, Purge(p),
           NEW f \in exists, f \notin exists'
    PROVE  /\ clock - f[2] >= ZoneA
           /\ job[p].now - f[2] < ZoneB => job[p].flags.force
           /\ job[p].now - f[2] < ZoneC => job[p].flags.tty
<1> DEFINE g == job[p].queue[1].fid
<1>1. /\ job[p] \in ToldJobs /\ g \in FolderIds /\ f \in FolderIds
      /\ job[p].now \in Nat /\ clock \in Nat /\ f[2] \in Nat
  <2>1. job[p] \in ToldJobs /\ g \in FolderIds
    BY FirstFolder DEF Purge, At
  <2>2. f \in FolderIds /\ clock \in 0..MaxClock
    BY DEF IndInv, DiskOK
  <2>3. job[p].now \in Nat /\ clock \in Nat
    BY <2>1, <2>2, TrashAssumption DEF ToldJobs
  <2>4. f[2] \in Nat
    BY <2>2, TrashAssumption DEF FolderIds
  <2> QED
    BY <2>1, <2>2, <2>3, <2>4
<1>2. Finds(Stamp(g), f)
  BY DEF Purge, RemoveFolder, disk
<1>3. f[2] = g[2]
  BY <1>2 DEF Finds, Stamp
<1>4. Permitted(ZoneOf(f, job[p].now), job[p].flags) /\ job[p].now <= clock
  BY <1>3 DEF ZoneInv, Consent, Purge, ZoneOf
<1>5. job[p].flags \in Flags
  BY <1>1 DEF ToldJobs
<1>6. /\ job[p].now - f[2] >= ZoneA
      /\ job[p].now - f[2] < ZoneB => job[p].flags.force
      /\ job[p].now - f[2] < ZoneC => job[p].flags.tty
  BY <1>1, <1>4, <1>5, TrashAssumption DEF Permitted, ZoneOf, Flags
<1> QED
  BY <1>1, <1>4, <1>6, TrashAssumption

\* A process at its deletion takes no step but the deletion, or is killed.
LEMMA OnlyPurge ==
    ASSUME IndInv, [Next]_vars, NEW p \in Procs,
           At(p, "purge"), job'[p] # job[p]
    PROVE  Purge(p) \/ UNCHANGED exists
<1>1. job \in [Procs -> GoodJobs]
  BY DEF IndInv
<1>2. CASE UNCHANGED vars
  BY <1>2 DEF vars
<1>3. CASE Tick
  BY <1>3 DEF Tick, disk
<1>4. ASSUME NEW q \in Paths, NEW i \in Items, UserCreate(q, i) PROVE UNCHANGED exists
  BY <1>4 DEF UserCreate, disk
<1>5. ASSUME NEW q \in Procs, Begin(q) \/ Proceed(q) \/ Crash(q)
      PROVE  Purge(p) \/ UNCHANGED exists
  <2>1. CASE CleanConfirm(q)
    BY <2>1 DEF CleanConfirm, disk
  <2>2. CASE ~CleanConfirm(q)
    <3>1. Calm(q)
      BY <1>5, <2>2, BeginCalm, TrashCalm, RecoverCalm, CleanCalm
         DEF Proceed, CleanStep
    <3>2. q = p
      BY <3>1 DEF Calm
    <3>3. CASE Begin(q)
      BY <3>2, <3>3, Zenon DEF Begin, TrashBegin, RecoverBegin, CleanBegin, At
    <3>4. CASE Crash(q)
      BY <3>4 DEF Crash, disk
    <3>5. CASE TrashStep(q)
      BY <3>2, <3>5, Zenon DEF TrashStep, RegisterLoad, RegisterSave, NameFolder,
         MakeFolder, StageAbsent, StageLink, StageRename, StageCopy, StageFail,
         Delete, SaveManifest, Staging, At
    <3>6. CASE RecoverStep(q)
      BY <3>2, <3>6, Zenon DEF RecoverStep, RecoverMetadata, RecoverLink,
         RecoverContent, RecoverFail, Unlink, RecoverEnd, Recovering, At
    <3>7. CASE CleanSkip(q)
      BY <3>2, <3>7 DEF CleanSkip, At
    <3> QED
      BY <1>5, <2>2, <3>2, <3>3, <3>4, <3>5, <3>6, <3>7 DEF Proceed, CleanStep
  <2> QED
    BY <2>1, <2>2
<1> QED
  BY <1>2, <1>3, <1>4, <1>5 DEF Next

\* cmd_clean() never deletes a folder of zone A, one of zone B without --force,
\* or one of zones B and C on a --yes from a pipe, however long the prompt took
\* and whatever other processes, crashes and refused deletions do meanwhile.
THEOREM ZonesHonoured == Spec => CleanHonoursZones
<1> DEFINE A == \A p \in Procs : At(p, "purge") /\ job'[p] # job[p] =>
                   \A f \in exists \ exists' :
                      /\ clock - f[2] >= ZoneA
                      /\ job[p].now - f[2] < ZoneB => job[p].flags.force
                      /\ job[p].now - f[2] < ZoneC => job[p].flags.tty
<1>1. Init => ZoneInv
  BY TrashAssumption DEF Init, ZoneInv, At, Idle
<1>2. IndInv /\ ZoneInv /\ [Next]_vars => [A]_vars
  BY PurgeHonours, OnlyPurge
<1>3. Spec => [][A]_vars
  BY <1>1, <1>2, InitInv, NextInv, NextZones, PTL DEF Spec
<1> QED
  BY <1>3 DEF CleanHonoursZones

-----------------------------------------------------------------------------
(* Backups are found by their name *)

\* Every volume that trash() stages on has a serial number, so it is registered.
SerialsKnown == \A q \in Paths : VolumeStore[q] \in Serials \cup {Central}

\* What was read of volumes.json is written back before anybody else writes to it;
\* a process that could not read it may write at any time.
RegistryWhole ==
    [][\A p \in Procs : RegisterSave(p) => job[p].blind \/ job[p].seen = registered]_vars

\* get_all_trash_paths() has store s.
StoreListed(s) == \E k \in DOMAIN ListedStores : ListedStores[k] = s

\* get_all_trash_paths() has store s, or lost it to a volumes.json nobody could read.
StoreKnown(s) == StoreListed(s) \/ s \in forgotten

\* The list has the central store and then the volumes.
LEMMA ListHas ==
    ASSUME NEW r \in Seq(Stores)
    PROVE  LET L == <<Central>> \o r IN
           /\ L \in Seq(Stores) /\ DOMAIN L = 1..Len(r) + 1 /\ Len(r) \in Nat
           /\ L[1] = Central
           /\ \A k \in 1..Len(r) : L[k + 1] = r[k]
           /\ \A s : (\E k \in DOMAIN L : L[k] = s) <=>
                     (s = Central \/ \E k \in 1..Len(r) : r[k] = s)
<1> DEFINE L == <<Central>> \o r
<1>1. <<Central>> \in Seq(Stores) /\ Len(<<Central>>) = 1 /\ Len(r) \in Nat
  BY TrashAssumption, LenProperties
<1>2. /\ L \in Seq(Stores) /\ Len(L) = 1 + Len(r)
      /\ \A i \in 1..(1 + Len(r)) : L[i] = IF i <= 1 THEN <<Central>>[i] ELSE r[i - 1]
  BY <1>1, ConcatProperties
<1>3. DOMAIN L = 1..Len(r) + 1
  BY <1>1, <1>2, LenProperties
<1>4. L[1] = Central /\ \A k \in 1..Len(r) : L[k + 1] = r[k]
  BY <1>1, <1>2
<1> HIDE DEF L
<1>5. ASSUME NEW k \in DOMAIN L, k # 1
      PROVE  \E l \in 1..Len(r) : r[l] = L[k]
  <2>1. k - 1 \in 1..Len(r) /\ (k - 1) + 1 = k
    BY <1>1, <1>3, <1>5
  <2> QED
    BY <1>4, <2>1
<1>6. 1 \in DOMAIN L /\ \A k \in 1..Len(r) : k + 1 \in DOMAIN L
  BY <1>1, <1>3
<1>7. \A s : (\E k \in DOMAIN L : L[k] = s) <=>
             (s = Central \/ \E k \in 1..Len(r) : r[k] = s)
  BY <1>4, <1>5, <1>6
<1> QED
  BY <1>1, <1>2, <1>3, <1>4, <1>7 DEF L

\* A registry that is written lists the central store, the new one and what was read.
LEMMA RegistryWritten ==
    ASSUME NEW r \in Seq(Stores), NEW s \in Stores,
           registered' = IF \E k \in DOMAIN r : r[k] = s THEN r ELSE Append(r, s)
    PROVE  \A x : x = s \/ x = Central \/ (\E k \in DOMAIN r : r[k] = x)
             => \E k \in DOMAIN ListedStores' : ListedStores'[k] = x
<1>1. /\ registered' \in Seq(Stores)
      /\ \A x : x = s \/ (\E k \in DOMAIN r : r[k] = x)
               => \E k \in 1..Len(registered') : registered'[k] = x
  <2>1. DOMAIN r = 1..Len(r) /\ Len(r) \in Nat
    BY LenProperties
  <2>2. CASE \E k \in DOMAIN r : r[k] = s
    BY <2>1, <2>2
  <2>3. CASE ~\E k \in DOMAIN r : r[k] = s
    <3>1. /\ registered' \in Seq(Stores) /\ Len(registered') = Len(r) + 1
          /\ registered'[Len(r) + 1] = s
          /\ \A k \in 1..Len(r) : registered'[k] = r[k]
      BY <2>3, AppendProperties
    <3>2. /\ Len(r) + 1 \in 1..Len(registered')
          /\ 1..Len(r) \subseteq 1..Len(registered')
      BY <2>1, <3>1
    <3> QED
      BY <2>1, <3>1, <3>2
  <2> QED
    BY <2>2, <2>3
<1>2. \A x : (\E k \in DOMAIN ListedStores' : ListedStores'[k] = x)
             <=> (x = Central \/ \E k \in 1..Len(registered') : registered'[k] = x)
  BY <1>1, ListHas DEF ListedStores
<1> QED
  BY <1>1, <1>2

\* What a call that is making a backup has settled: a store with a serial number to
\* register, or one that is known.
JobListed(j) ==
    /\ j.pc \in {"register", "save"} => j.store \in Serials
    /\ j.pc = "name" => StoreKnown(j.store)
    /\ j.pc \in {"mkdir", "stage", "delete"} => StoreKnown(j.dest[1])

\* The stores that backups, and the calls that are making one, are in are known.
ListedInv ==
    /\ \A a \in acked : StoreKnown(a.fid[1])
    /\ \A p \in Procs : JobListed(job[p])

\* A step that leaves the registry alone is judged by the job it leads to.
LEMMA ListedKept ==
    ASSUME IndInv, ListedInv, NEW p \in Procs, NEW j, registered' = registered,
           forgotten' = forgotten, job' = [job EXCEPT ![p] = j], JobListed(j),
           \A a \in acked' : a \in acked \/ StoreKnown(a.fid[1])
    PROVE  ListedInv'
<1>1. \A s : StoreKnown(s)' <=> StoreKnown(s)
  BY DEF StoreKnown, StoreListed, ListedStores
<1>2. \A q \in Procs : job'[q] \in {j, job[q]} /\ job'[q] # job[q] => q = p
  BY DEF IndInv
<1>3. \A q \in Procs : JobListed(job'[q])
  BY <1>2 DEF ListedInv
<1>4. \A q \in Procs : JobListed(job[q])'
  BY <1>1, <1>3 DEF JobListed
<1> QED
  BY <1>1, <1>4 DEF ListedInv

\* trash() begins with a volume to register, or with the central store.
LEMMA TrashBeginListed ==
    ASSUME SerialsKnown, IndInv, ListedInv, NEW p \in Procs, NEW ps \in TrashArgs,
           TrashBegin(p, ps)
    PROVE  ListedInv'
<1> DEFINE todo  == [k \in DOMAIN ps |-> Classified(ps[k])]
           found == {k \in DOMAIN ps : fs[ps[k]] # None}
           first == CHOOSE k \in found : \A j \in found : k <= j
           store == IF found = {} THEN Central ELSE VolumeStore[ps[first]]
           given == {i \in Items : \E k \in DOMAIN ps :
                        fs[ps[k]] = [item |-> i, whole |-> TRUE]}
           pc == IF store \in Serials THEN "register" ELSE "name"
           n == [Idle EXCEPT !.pc = pc, !.todo = todo, !.store = store,
                             !.given = given]
<1>1. store \in Serials \cup {Central}
  <2>1. CASE found # {}
    <3>1. ps \in Seq(Paths) /\ DOMAIN ps = 1..Len(ps) /\ found \subseteq Nat
      BY TrashAssumption, LenProperties
    <3>2. first \in found
      BY <2>1, <3>1, Least
    <3>3. ps[first] \in Paths
      BY <3>1, <3>2, ElementOfSeq
    <3> QED
      BY <2>1, <3>3 DEF SerialsKnown
  <2> QED
    BY <2>1
<1>2. job' = [job EXCEPT ![p] = n]
  BY DEF TrashBegin
<1>3. n.pc = pc /\ n.store = store
  BY DEF Idle
<1>4. StoreListed(Central)
  BY ListHas DEF IndInv, DiskOK, StoreListed, ListedStores
<1>5. JobListed(n)
  <2> HIDE DEF n, store
  <2> QED
    BY <1>1, <1>3, <1>4 DEF JobListed, StoreKnown
<1> HIDE DEF n
<1> QED
  BY <1>2, <1>5, ListedKept, Zenon DEF TrashBegin, hist

\* register_volume() writes back what it read and the volume it is about: no store
\* but those of a registry that nobody could read gets lost.
LEMMA RegisterSaveListed ==
    ASSUME IndInv, ListedInv, NEW p \in Procs, RegisterSave(p),
           job[p].blind \/ job[p].seen = registered
    PROVE  ListedInv'
<1> DEFINE s == job[p].store
           r == job[p].seen
           Lists(x) == \E k \in DOMAIN ListedStores' : ListedStores'[k] = x
           Knows(x) == Lists(x) \/ x \in forgotten'
<1>1. /\ job[p] \in ToldJobs /\ s \in Stores /\ r \in Seq(Stores)
      /\ job[p].blind \in BOOLEAN /\ registered \in Seq(Stores)
  BY JobAt DEF IndInv, DiskOK, ToldJobs
<1>2. job \in [Procs -> GoodJobs] /\ acked' = acked
  BY DEF IndInv, RegisterSave
<1>3. \A x : StoreListed(x) <=> (x = Central \/ \E k \in DOMAIN registered : registered[k] = x)
  <2>1. DOMAIN registered = 1..Len(registered)
    BY <1>1, LenProperties
  <2>2. \A x : (\E k \in DOMAIN ListedStores : ListedStores[k] = x)
               <=> (x = Central \/ \E k \in 1..Len(registered) : registered[k] = x)
    BY <1>1, ListHas DEF ListedStores
  <2> QED
    BY <2>1, <2>2 DEF StoreListed
<1>4. ASSUME /\ registered' = IF \E k \in DOMAIN r : r[k] = s THEN r ELSE Append(r, s)
             /\ forgotten' = (forgotten \cup Drops(p)) \ {s}
             /\ job' = [job EXCEPT ![p].pc = "name"]
      PROVE  /\ \A x : StoreKnown(x) => Knows(x)
             /\ job'[p].pc = "name" /\ Knows(job'[p].store)
  <2>1. \A x : x = s \/ x = Central \/ (\E k \in DOMAIN r : r[k] = x) => Lists(x)
    BY <1>1, <1>4, RegistryWritten
  <2>2. ASSUME NEW x, StoreKnown(x) PROVE Knows(x)
    <3>1. CASE x = s \/ x = Central
      BY <2>1, <3>1
    <3>2. CASE x \in forgotten /\ x # s
      BY <1>4, <3>2
    <3>3. CASE x # s /\ \E k \in DOMAIN registered : registered[k] = x
      <4>1. CASE job[p].blind
        BY <1>4, <3>3, <4>1 DEF Drops
      <4>2. CASE r = registered
        BY <2>1, <3>3, <4>2
      <4> QED
        BY <4>1, <4>2
    <3> QED
      BY <1>3, <2>2, <3>1, <3>2, <3>3 DEF StoreKnown
  <2>3. job'[p].pc = "name" /\ job'[p].store = s
    BY <1>1, <1>2, <1>4 DEF ToldJobs
  <2> QED
    BY <2>1, <2>2, <2>3
<1>5. ASSUME /\ UNCHANGED <<registered, forgotten>>
             /\ job' = [job EXCEPT ![p].pc = "name", ![p].store = Central]
      PROVE  /\ \A x : StoreKnown(x) => Knows(x)
             /\ job'[p].pc = "name" /\ Knows(job'[p].store)
  <2>1. ListedStores' = ListedStores
    BY <1>5 DEF ListedStores
  <2>2. \A x : StoreKnown(x) => Knows(x)
    BY <1>5, <2>1 DEF StoreKnown, StoreListed
  <2>3. Knows(Central)
    BY <1>3, <2>2 DEF StoreKnown
  <2>4. job'[p].pc = "name" /\ job'[p].store = Central
    BY <1>1, <1>2, <1>5 DEF ToldJobs
  <2> QED
    BY <2>2, <2>3, <2>4
<1>6. /\ \A x : StoreKnown(x) => Knows(x)
      /\ job'[p].pc = "name" /\ Knows(job'[p].store)
  <2> HIDE DEF Knows, Lists
  <2>1. \/ /\ registered' = IF \E k \in DOMAIN r : r[k] = s THEN r ELSE Append(r, s)
           /\ forgotten' = (forgotten \cup Drops(p)) \ {s}
           /\ job' = [job EXCEPT ![p].pc = "name"]
        \/ /\ UNCHANGED <<registered, forgotten>>
           /\ job' = [job EXCEPT ![p].pc = "name", ![p].store = Central]
    BY DEF RegisterSave
  <2> QED
    BY <1>4, <1>5, <2>1 DEF Knows
<1>7. \A q \in Procs : q # p => job'[q] = job[q]
  BY <1>2 DEF RegisterSave
<1>8. ASSUME NEW q \in Procs PROVE JobListed(job[q])'
  <2>1. CASE q = p
    BY <1>6, <2>1 DEF JobListed, StoreKnown, StoreListed
  <2>2. CASE q # p
    <3>1. JobListed(job[q]) /\ job'[q] = job[q]
      BY <1>7, <2>2 DEF ListedInv
    <3>2. /\ StoreKnown(job[q].store) => Knows(job[q].store)
          /\ StoreKnown(job[q].dest[1]) => Knows(job[q].dest[1])
      BY <1>6
    <3> QED
      BY <3>1, <3>2 DEF JobListed, StoreKnown, StoreListed
  <2> QED
    BY <2>1, <2>2
<1>9. ASSUME NEW a \in acked' PROVE StoreKnown(a.fid[1])'
  BY <1>2, <1>6, <1>9 DEF ListedInv, StoreKnown, StoreListed
<1> QED
  BY <1>8, <1>9 DEF ListedInv

\* Between two commands, and in recover and clean, a job has no store to answer for.
LEMMA NoStore ==
    /\ JobListed(Idle)
    /\ \A j : j.pc \in {"recover", "unlink", "clean", "purge"} => JobListed(j)
BY DEF JobListed, Idle

\* The other steps of trash() keep to the store they have.
LEMMA TrashListed ==
    ASSUME IndInv, ListedInv, NEW p \in Procs, TrashStep(p), ~RegisterSave(p)
    PROVE  ListedInv'
<1>1. job[p] \in ToldJobs /\ job \in [Procs -> GoodJobs] /\ JobListed(job[p])
  BY JobAt DEF IndInv, ListedInv
<1>2. /\ registered' = registered /\ forgotten' = forgotten
      /\ job' = [job EXCEPT ![p] = job'[p]]
  <2>1. registered' = registered /\ forgotten' = forgotten
    BY Zenon DEF TrashStep, RegisterLoad, NameFolder, MakeFolder, StageAbsent, StageLink,
           StageRename, StageCopy, StageFail, Delete, SaveManifest, hist
  <2>2. job' = [job EXCEPT ![p] = job'[p]]
    BY <1>1, Zenon DEF TrashStep, RegisterLoad, NameFolder, MakeFolder, StageAbsent,
       StageLink,
           StageRename, StageCopy, StageFail, Delete, SaveManifest
  <2> QED
    BY <2>1, <2>2
<1>3. JobListed(job'[p])
  <2>1. CASE RegisterLoad(p)
    BY <1>1, <2>1 DEF RegisterLoad, At, JobListed, ToldJobs
  <2>2. CASE NameFolder(p)
    BY <1>1, <2>2 DEF NameFolder, At, JobListed, ToldJobs
  <2>3. CASE MakeFolder(p)
    <3>1. \/ job'[p] = Idle
          \/ job'[p].pc = "stage" /\ job'[p].dest = job[p].dest
      BY <1>1, <2>3 DEF MakeFolder, ToldJobs
    <3> QED
      BY <1>1, <2>3, <3>1, NoStore DEF MakeFolder, At, JobListed
  <2>4. CASE StageAbsent(p) \/ StageLink(p) \/ StageRename(p) \/ StageCopy(p) \/ StageFail(p)
    <3>1. At(p, "stage") /\ job'[p].pc \in {"stage", "delete"} /\ job'[p].dest = job[p].dest
      BY <1>1, <2>4, SMTT(30) DEF StageAbsent, StageLink, StageRename, StageCopy, StageFail,
                        Staging, At, ToldJobs
    <3> QED
      BY <1>1, <3>1, SMTT(30) DEF At, JobListed
  <2>5. CASE Delete(p)
    <3>1. At(p, "delete") /\ job'[p].pc = "stage" /\ job'[p].dest = job[p].dest
      BY <1>1, <2>5 DEF Delete, At, ToldJobs
    <3> QED
      BY <1>1, <3>1 DEF At, JobListed
  <2>6. CASE SaveManifest(p)
    BY <1>1, <2>6, NoStore DEF SaveManifest
  <2> QED
    BY <2>1, <2>2, <2>3, <2>4, <2>5, <2>6 DEF TrashStep
<1>4. \A a \in acked' : a \in acked \/ StoreKnown(a.fid[1])
  <2>1. CASE SaveManifest(p)
    <3>1. StoreKnown(job[p].dest[1])
      BY <1>1, <2>1 DEF SaveManifest, At, JobListed
    <3> QED
      BY <2>1, <3>1 DEF SaveManifest
  <2>2. CASE ~SaveManifest(p)
    BY <2>2, Zenon DEF TrashStep, RegisterLoad, NameFolder, MakeFolder, StageAbsent,
       StageLink,
           StageRename, StageCopy, StageFail, Delete, hist
  <2> QED
    BY <2>1, <2>2
<1> QED
  BY <1>2, <1>3, <1>4, ListedKept

\* Recovery and clean make no backup.
LEMMA OtherListed ==
    ASSUME IndInv, ListedInv, NEW p \in Procs,
           \/ RecoverStep(p) \/ CleanStep(p) \/ Crash(p)
           \/ \E sel \in Selections, m \in RecoverModes : RecoverBegin(p, sel, m)
           \/ \E sel \in Selections, o \in CleanFlags : CleanBegin(p, sel, o)
    PROVE  ListedInv'
<1>1. job \in [Procs -> GoodJobs] /\ job[p] \in ToldJobs
  BY JobAt DEF IndInv
<1>2. registered' = registered /\ forgotten' = forgotten /\ acked' \subseteq acked
  BY Zenon DEF RecoverStep, RecoverMetadata, RecoverLink, RecoverContent, RecoverFail,
     Unlink,
     RecoverEnd, CleanStep, CleanSkip, CleanConfirm, Purge, Crash, RecoverBegin, CleanBegin,
     Touch, hist
<1>3. \A b \in BOOLEAN : NextEntry(job[p], b).pc = "recover"
  BY <1>1 DEF NextEntry, ToldJobs
<1>4. \A s \in {"recover", "clean"} : NextFolder(job[p], s) = Idle \/ NextFolder(job[p], s).pc = s
  BY <1>1 DEF NextFolder, ToldJobs
<1>5. CASE RecoverStep(p)
  <2>1. job' = [job EXCEPT ![p] = job'[p]]
        /\ (job'[p] = Idle \/ job'[p].pc \in {"recover", "unlink"})
    BY <1>1, <1>3, <1>4, <1>5, Zenon DEF RecoverStep, RecoverMetadata, RecoverLink,
       RecoverContent,
       RecoverFail, Unlink, RecoverEnd, ToldJobs
  <2> QED
    BY <1>2, <2>1, NoStore, ListedKept
<1>6. CASE CleanStep(p)
  <2>1. job' = [job EXCEPT ![p] = job'[p]]
        /\ (job'[p] = Idle \/ job'[p].pc \in {"clean", "purge"})
    BY <1>1, <1>4, <1>6 DEF CleanStep, CleanSkip, CleanConfirm, Purge, ToldJobs
  <2> QED
    BY <1>2, <2>1, NoStore, ListedKept
<1>7. CASE Crash(p)
  BY <1>2, <1>7, NoStore, ListedKept DEF Crash
<1>8. ASSUME NEW sel \in Selections, NEW m \in RecoverModes, RecoverBegin(p, sel, m)
      PROVE  ListedInv'
  <2>1. PICK q \in Choices(sel) :
          job' = [job EXCEPT ![p] =
                    IF q = <<>> THEN Idle
                    ELSE [Idle EXCEPT !.pc = "recover", !.queue = Load(q), !.mode = m]]
    BY <1>8, Zenon DEF RecoverBegin
  <2> DEFINE n == [Idle EXCEPT !.pc = "recover", !.queue = Load(q), !.mode = m]
  <2>2. n.pc = "recover"
    BY DEF Idle
  <2> HIDE DEF n
  <2>3. JobListed(IF q = <<>> THEN Idle ELSE n)
    BY <2>2, NoStore
  <2> QED
    BY <1>2, <2>1, <2>3, ListedKept DEF n
<1>9. ASSUME NEW sel \in Selections, NEW o \in CleanFlags, CleanBegin(p, sel, o)
      PROVE  ListedInv'
  <2>1. PICK q \in Choices(sel) :
          job' = [job EXCEPT ![p] =
                    IF q = <<>> THEN Idle
                    ELSE [Idle EXCEPT !.pc = "clean", !.queue = Load(q), !.flags = o,
                                      !.now = clock]]
    BY <1>9, Zenon DEF CleanBegin
  <2> DEFINE n == [Idle EXCEPT !.pc = "clean", !.queue = Load(q), !.flags = o, !.now = clock]
  <2>2. n.pc = "clean"
    BY DEF Idle
  <2> HIDE DEF n
  <2>3. JobListed(IF q = <<>> THEN Idle ELSE n)
    BY <2>2, NoStore
  <2> QED
    BY <1>2, <2>1, <2>3, ListedKept DEF n
<1> QED
  BY <1>5, <1>6, <1>7, <1>8, <1>9

\* Every step keeps ListedInv, if no write of the registry was overtaken.
LEMMA NextListed ==
    ASSUME SerialsKnown, IndInv, ListedInv, [Next]_vars,
           [\A p \in Procs : RegisterSave(p) => job[p].blind \/ job[p].seen = registered]_vars
    PROVE  ListedInv'
<1>1. CASE UNCHANGED <<registered, job, acked, forgotten>>
  BY <1>1 DEF ListedInv, JobListed, StoreKnown, StoreListed, ListedStores
<1>2. ASSUME ~UNCHANGED vars, NEW p \in Procs, Begin(p) \/ Proceed(p) \/ Crash(p)
      PROVE  ListedInv'
  BY <1>2, TrashBeginListed, RegisterSaveListed, TrashListed, OtherListed
     DEF Begin, Proceed
<1>3. CASE Tick \/ \E q \in Paths, i \in Items : UserCreate(q, i)
  BY <1>1, <1>3 DEF Tick, UserCreate, hist
<1> QED
  BY <1>1, <1>2, <1>3 DEF Next, vars

\* Where no two folders share a name, the first store that has the name is the one.
LEMMA FoundByName ==
    ASSUME DiskOK, NamesUnique, NEW f \in exists, StoreListed(f[1])
    PROVE  Finds(Stamp(f), f)
<1> DEFINE T == {k \in DOMAIN ListedStores : ListedStores[k] = f[1]}
<1>1. ListedStores \in Seq(Stores) /\ DOMAIN ListedStores \subseteq Nat
  BY ListHas DEF DiskOK, ListedStores
<1>2. PICK k \in T : \A j \in T : k <= j
  <2>1. T \subseteq Nat /\ T # {}
    BY <1>1 DEF StoreListed
  <2> QED
    BY <2>1, Least
<1>3. f \in FolderIds /\ f = <<f[1], f[2], f[3]>>
  BY DEF DiskOK, FolderIds
<1>4. ASSUME NEW j \in 1..(k - 1), <<ListedStores[j], f[2], f[3]>> \in exists
      PROVE  FALSE
  <2>1. Stamp(<<ListedStores[j], f[2], f[3]>>) = Stamp(f)
    BY DEF Stamp
  <2>2. <<ListedStores[j], f[2], f[3]>> = f
    BY <1>4, <2>1 DEF NamesUnique
  <2>3. ListedStores[j] = f[1]
    BY <1>3, <2>2
  <2>4. j \in DOMAIN ListedStores /\ j < k
    BY <1>1, <1>2, ListHas DEF DiskOK, ListedStores
  <2> QED
    BY <1>1, <1>2, <2>3, <2>4
<1> QED
  BY <1>2, <1>4 DEF Finds, Stamp

\* get_folder(), remove_folder(): where every volume has a serial number and no two
\* processes overlap in volumes.json, a backup is found by its name as long as no
\* other folder has that name, unless its store was in a volumes.json that could not
\* be read when another volume was registered; whatever crashes, errors, recoveries
\* and cleans occur.
THEOREM FoundByUniqueName ==
    ASSUME SerialsKnown
    PROVE  Spec /\ RegistryWhole => []FoundIfUnique
<1>1. Init => ListedInv
  BY NoStore DEF Init, ListedInv
<1>2. IndInv /\ ListedInv => FoundIfUnique
  BY FoundByName DEF FoundIfUnique, ListedInv, IndInv, StoreKnown
<1>3. IndInv /\ ListedInv /\ [Next]_vars
        /\ [\A p \in Procs : RegisterSave(p) => job[p].blind \/ job[p].seen = registered]_vars
      => ListedInv'
  BY NextListed
<1> QED
  BY <1>1, <1>2, <1>3, InitInv, NextInv, PTL DEF Spec, RegistryWhole

-----------------------------------------------------------------------------
(* One command at a time: what is in a folder, and who accounts for it *)

\* Commands run one after the other.
OneProcess == \A p, q \in Procs : p = q

\* Nobody gives trash() two paths of one base name in a call.
Named == \A a \in TrashArgs : \A k, l \in DOMAIN a :
            BaseName[a[k]] = BaseName[a[l]] => k = l

Base(e) == BaseName[e.path]
Whole(i) == [item |-> i, whole |-> TRUE]
Trashing == {"register", "save", "name", "mkdir", "stage", "delete"}
Queued == {"recover", "unlink", "clean", "purge"}

\* The paths that trash() has still to stage.
Pending(j) == {k \in DOMAIN j.todo : j.pc = "delete" => k # 1}

\* Entries es account for folder f: every whole thing in it has an entry that says so,
\* and what is kept of a link is the link.
Tied(f, es) ==
    /\ \A n \in Names : content[f][n] # None /\ content[f][n].whole =>
          \E k \in DOMAIN es : es[k].stored /\ Base(es[k]) = n
    /\ \A k \in DOMAIN es :
         /\ es[k].kind \in LinkKinds =>
              /\ KindOf[es[k].link] \in LinkKinds
              /\ es[k].stored => content[f][Base(es[k])] \in {None, Whole(es[k].link)}
         /\ es[k].kind \notin LinkKinds => es[k].link = None

\* A folder that is not there is empty, and a manifest accounts for its folder.
FoldersOK == \A f \in FolderIds :
    /\ f \notin exists => content[f] = NoContent /\ manifest[f] = <<>>
    /\ manifest[f] # <<>> => Tied(f, manifest[f])

\* The path is as classify() found it.
Same(e) ==
    /\ e.kind # "absent" => fs[e.path] # None /\ KindOf[fs[e.path].item] = e.kind
    /\ e.kind \in LinkKinds => e.link = fs[e.path].item
    /\ e.kind \notin LinkKinds => e.link = None

\* What is still to stage is as it was, and shares no base name.
TodoOK(j) ==
    /\ j.pc \notin Trashing => j.todo = <<>>
    /\ j.pc \notin {"stage", "delete"} => j.done = <<>>
    /\ \A k \in DOMAIN j.todo : Same(j.todo[k])
    /\ \A k, l \in DOMAIN j.todo : Base(j.todo[k]) = Base(j.todo[l]) => k = l
    /\ \A k \in Pending(j), l \in DOMAIN j.done : Base(j.todo[k]) # Base(j.done[l])

\* The folder has what was staged, and what is about to be deleted.
DestOK(j) ==
    /\ j.pc \in {"mkdir", "stage", "delete"} => manifest[j.dest] = <<>>
    /\ j.pc = "mkdir" => j.dest \notin exists
    /\ j.pc \in {"stage", "delete"} =>
          /\ Tied(j.dest, j.done)
          /\ \A k \in Pending(j) : content[j.dest][Base(j.todo[k])] = None
    /\ j.pc = "delete" =>
          /\ Head(j.todo).kind # "absent"
          /\ \E k \in DOMAIN j.done : j.done[k].link = Head(j.todo).link
          /\ Head(j.todo).kind \notin LinkKinds =>
                content[j.dest][Base(Head(j.todo))] = fs[Head(j.todo).path]

\* The folders still to do exist, and those of one second are in the order in which
\* their name is looked up.
QueueOK(q) ==
    /\ \A k \in DOMAIN q : q[k].fid \in exists /\ StoreListed(q[k].fid[1])
    /\ \A k, l \in DOMAIN q : k < l =>
          /\ q[k].fid # q[l].fid
          /\ q[k].fid[2] = q[l].fid[2] => StoreRank(q[k].fid[1]) <= StoreRank(q[l].fid[1])

\* What a recovery without errors has not brought back yet, it has still to do.
Back(f, rest) ==
    /\ \A k \in DOMAIN rest : \E l \in DOMAIN manifest[f] : rest[k] = manifest[f][l]
    /\ \A n \in Names : content[f][n] # None /\ content[f][n].whole =>
          \/ AtPath(content[f][n].item)
          \/ \E k \in DOMAIN rest : rest[k].stored /\ Base(rest[k]) = n
    /\ \A k \in DOMAIN manifest[f] : manifest[f][k].link # None =>
          \/ AtPath(manifest[f][k].link)
          \/ \E l \in DOMAIN rest : rest[l].link = manifest[f][k].link
BackOK(j) ==
    /\ \A k \in DOMAIN j.queue : k # 1 => j.queue[k].entries = manifest[j.queue[k].fid]
    /\ ~j.failed /\ j.mode # "metadata" /\ manifest[j.queue[1].fid] # <<>> =>
          Back(j.queue[1].fid, j.queue[1].entries)

\* What is about to be removed from the folder has been brought back.
UnlinkOK(p) ==
    LET e == Head(job[p].queue[1].entries) IN
    /\ e.stored /\ e.kind \notin {"symlink", "junction"}
    /\ Backup(p, e) # None /\ fs[Target(p, e)] = Backup(p, e)

SoloOK(p) ==
    /\ TodoOK(job[p]) /\ DestOK(job[p])
    /\ job[p].pc \in Queued => QueueOK(job[p].queue)
    /\ job[p].pc \in {"recover", "unlink"} => BackOK(job[p])
    /\ job[p].pc = "unlink" => UnlinkOK(p)

SoloInv == FoldersOK /\ \A p \in Procs : SoloOK(p)

\* What the invariants say where nothing they speak of changes.
LEMMA SameFs ==
    ASSUME fs' = fs
    PROVE  /\ \A j : TodoOK(j)' <=> TodoOK(j)
           /\ \A i : AtPath(i)' <=> AtPath(i)
BY DEF TodoOK, Same, AtPath

LEMMA SameDisk ==
    ASSUME UNCHANGED <<fs, disk>>
    PROVE  /\ \A j : DestOK(j)' <=> DestOK(j)
           /\ FoldersOK' <=> FoldersOK
           /\ \A j : BackOK(j)' <=> BackOK(j)
<1>1. UNCHANGED <<fs, exists, content, manifest>>
  BY DEF disk
<1>2. \A f, es : Tied(f, es)' <=> Tied(f, es)
  BY <1>1 DEF Tied
<1>3. \A f, r : Back(f, r)' <=> Back(f, r)
  BY <1>1, SameFs DEF Back
<1>4. \A j : BackOK(j)' <=> BackOK(j)
  BY <1>1, <1>3 DEF BackOK
<1>5. \A j : DestOK(j)' <=> DestOK(j)
  BY <1>1, <1>2 DEF DestOK
<1>6. FoldersOK' <=> FoldersOK
  BY <1>1, <1>2 DEF FoldersOK
<1> QED
  BY <1>4, <1>5, <1>6

LEMMA SameList ==
    ASSUME UNCHANGED <<exists, registered>>
    PROVE  \A q : QueueOK(q)' <=> QueueOK(q)
BY DEF QueueOK, StoreListed, StoreRank, ListedStores

\* The only process is the one that moves.
LEMMA SoloIs ==
    ASSUME OneProcess, NEW p \in Procs, FoldersOK', TodoOK(job[p])', DestOK(job[p])',
           (job[p].pc \in Queued => QueueOK(job[p].queue))',
           (job[p].pc \in {"recover", "unlink"} => BackOK(job[p]))',
           (job[p].pc = "unlink" => UnlinkOK(p))'
    PROVE  SoloInv'
<1>1. \A q \in Procs : q = p
  BY DEF OneProcess
<1>2. SoloOK(p)'
  BY DEF SoloOK
<1> QED
  BY <1>1, <1>2 DEF SoloInv

\* A job that is none of trash()'s has nothing to stage and nothing staged.
LEMMA IdleOK == TodoOK(Idle) /\ DestOK(Idle) /\ Idle.pc \notin Queued
BY DEF TodoOK, DestOK, Idle, Trashing, Pending, Queued

LEMMA QueuedOK ==
    \A j : j.pc \in Queued => /\ DestOK(j)
                              /\ TodoOK(j) <=> j.todo = <<>> /\ j.done = <<>>
BY EmptySeq DEF TodoOK, DestOK, Queued, Trashing, Pending

\* Two entries of different base names are at different paths.
LEMMA Elsewhere == \A d, e : Base(d) # Base(e) => d.path # e.path
BY DEF Base

\* The tail of a sequence of entries.
LEMMA TailAt ==
    ASSUME NEW S, NEW s \in Seq(S), s # <<>>
    PROVE  /\ DOMAIN s = 1..Len(s) /\ Len(s) \in Nat \ {0} /\ 1 \in DOMAIN s
           /\ DOMAIN Tail(s) = 1..Len(s) - 1 /\ Tail(s) \in Seq(S) /\ Head(s) = s[1]
           /\ \A k \in DOMAIN Tail(s) : k + 1 \in DOMAIN s /\ k + 1 # 1 /\ Tail(s)[k] = s[k + 1]
           /\ \A k \in DOMAIN s \ {1} : k - 1 \in DOMAIN Tail(s) /\ Tail(s)[k - 1] = s[k]
<1>1. DOMAIN s = 1..Len(s) /\ Len(s) \in Nat \ {0}
  BY LenProperties, EmptySeq
<1>2. Tail(s) \in Seq(S) /\ Len(Tail(s)) = Len(s) - 1 /\ Head(s) = s[1]
      /\ \A k \in 1..Len(s) - 1 : Tail(s)[k] = s[k + 1]
  BY HeadTailProperties
<1>3. DOMAIN Tail(s) = 1..Len(s) - 1
  BY <1>1, <1>2, LenProperties
<1>4. \A k \in 1..Len(s) - 1 : k + 1 \in 1..Len(s) /\ k + 1 # 1
  BY <1>1
<1>5. \A k \in 1..Len(s) : k # 1 => k - 1 \in 1..Len(s) - 1 /\ (k - 1) + 1 = k
  BY <1>1
<1> QED
  BY <1>1, <1>2, <1>3, <1>4, <1>5

\* An appended sequence of entries.
LEMMA AppendAt ==
    ASSUME NEW S, NEW s \in Seq(S), NEW e \in S
    PROVE  /\ DOMAIN Append(s, e) = 1..Len(s) + 1 /\ DOMAIN s = 1..Len(s) /\ Len(s) \in Nat
           /\ Append(s, e)[Len(s) + 1] = e /\ Len(s) + 1 \in DOMAIN Append(s, e)
           /\ \A k \in DOMAIN s : k \in DOMAIN Append(s, e) /\ Append(s, e)[k] = s[k]
           /\ \A k \in DOMAIN Append(s, e) : k \in DOMAIN s \/ k = Len(s) + 1
<1>1. DOMAIN s = 1..Len(s) /\ Len(s) \in Nat
  BY LenProperties
<1>2. Append(s, e) \in Seq(S) /\ Len(Append(s, e)) = Len(s) + 1
      /\ Append(s, e)[Len(s) + 1] = e /\ \A k \in 1..Len(s) : Append(s, e)[k] = s[k]
  BY AppendProperties
<1>3. DOMAIN Append(s, e) = 1..Len(s) + 1
  BY <1>2, LenProperties
<1> QED
  BY <1>1, <1>2, <1>3

-----------------------------------------------------------------------------
(* Staging *)

\* Nothing in trash()'s job but what it has staged and which path is next.
LEMMA TodoMoves ==
    ASSUME NEW j \in ToldJobs, NEW n, NEW e2 \in Told, TodoOK(j),
           j.todo # <<>>, j.pc \in {"stage", "delete"}, Base(e2) = Base(Head(j.todo)),
           \/ n.pc = "stage" /\ n.todo = Tail(j.todo)
           \/ n.pc = "delete" /\ n.todo = j.todo,
           n.done \in {j.done, Append(j.done, e2)}
    PROVE  /\ TodoOK(n)
           /\ \A k \in Pending(n) : /\ Base(n.todo[k]) # Base(e2)
                                    /\ \E l \in Pending(j) : n.todo[k] = j.todo[l]
<1>1. j.todo \in Seq(Told) /\ j.done \in Seq(Told)
  BY DEF ToldJobs
<1>2. /\ \A k \in DOMAIN n.todo : \E l \in DOMAIN j.todo : n.todo[k] = j.todo[l]
      /\ \A k \in Pending(n) : \E l \in Pending(j) : l # 1 /\ n.todo[k] = j.todo[l]
      /\ \A k, l \in DOMAIN n.todo : Base(n.todo[k]) = Base(n.todo[l]) => k = l
  <2>1. CASE n.pc = "stage" /\ n.todo = Tail(j.todo)
    <3>1. \A k \in DOMAIN Tail(j.todo) : /\ k + 1 \in DOMAIN j.todo /\ k + 1 # 1 /\ k \in Int
                                         /\ Tail(j.todo)[k] = j.todo[k + 1]
      BY <1>1, TailAt
    <3>2. \A k, l \in DOMAIN Tail(j.todo) :
            Base(Tail(j.todo)[k]) = Base(Tail(j.todo)[l]) => k + 1 = l + 1
      BY <3>1 DEF TodoOK
    <3> QED
      BY <2>1, <3>1, <3>2 DEF Pending
  <2>2. CASE n.pc = "delete" /\ n.todo = j.todo
    BY <2>2 DEF TodoOK, Pending
  <2> QED
    BY <2>1, <2>2
<1>3. \A k \in Pending(n) : Base(n.todo[k]) # Base(e2)
  <2>1. 1 \in DOMAIN j.todo /\ Head(j.todo) = j.todo[1]
    BY <1>1, TailAt
  <2>2. \A l \in DOMAIN j.todo : l # 1 => Base(j.todo[l]) # Base(e2)
    BY <2>1 DEF TodoOK
  <2> QED
    BY <1>2, <2>2 DEF Pending
<1>4. \A k \in Pending(n), l \in DOMAIN n.done : Base(n.todo[k]) # Base(n.done[l])
  <2>1. \A k \in Pending(n), l \in DOMAIN j.done : Base(n.todo[k]) # Base(j.done[l])
    BY <1>2 DEF TodoOK
  <2>2. CASE n.done = Append(j.done, e2)
    BY <1>1, <1>3, <2>1, <2>2, AppendAt, SMTT(30)
  <2> QED
    BY <2>1, <2>2
<1> QED
  BY <1>2, <1>3, <1>4 DEF TodoOK, Trashing

\* A path that changes and is not to be staged disturbs nothing.
LEMMA TodoStays ==
    ASSUME NEW p \in Procs, TodoOK(job'[p]),
           \A k \in DOMAIN job'[p].todo : LET e == job'[p].todo[k] IN
              e.kind # "absent" => fs'[e.path] = fs[e.path]
    PROVE  TodoOK(job[p])'
<1> SUFFICES ASSUME NEW j, j = job'[p] PROVE TodoOK(job[p])'
  OBVIOUS
<1>1. \A e : Same(e) /\ (e.kind # "absent" => fs'[e.path] = fs[e.path]) => Same(e)'
  BY DEF Same, LinkKinds
<1>2. \A k \in DOMAIN j.todo : Same(j.todo[k])'
  BY <1>1 DEF TodoOK
<1>3. TodoOK(j)'
  BY <1>2 DEF TodoOK, Pending
<1> QED
  BY <1>3 DEF TodoOK, Same, Pending

\* The head of what is to stage: its slot is free and its path as it was.
LEMMA NextSlot ==
    ASSUME IndInv, SoloInv, NEW p \in Procs, Staging(p)
    PROVE  LET j == job[p]
               e == Head(j.todo)
           IN  /\ j \in ToldJobs /\ j.dest \in FolderIds /\ manifest[j.dest] = <<>>
               /\ j.todo \in Seq(Told) /\ j.done \in Seq(Told)
               /\ e \in Told /\ Base(e) \in Names /\ Same(e)
               /\ TodoOK(j) /\ DestOK(j) /\ Tied(j.dest, j.done)
               /\ Slot(p, e) = None /\ Fill(p, e, None) = content
<1> DEFINE j == job[p]
           e == Head(j.todo)
<1>1. SoloOK(p) /\ j.pc = "stage" /\ j.todo # <<>>
  BY DEF SoloInv, Staging, At
<1>2. /\ j \in ToldJobs /\ j.dest \in FolderIds /\ e \in Told /\ Base(e) \in Names
  BY <1>1, NextPath DEF At, Base
<1>3. j.todo \in Seq(Told) /\ j.done \in Seq(Told)
  BY <1>2 DEF ToldJobs
<1>4. 1 \in DOMAIN j.todo /\ e = j.todo[1]
  BY <1>1, <1>3, TailAt
<1>5. Same(e) /\ content[j.dest][Base(e)] = None /\ Tied(j.dest, j.done) /\ manifest[j.dest] = <<>>
  BY <1>1, <1>4 DEF SoloOK, TodoOK, DestOK, Pending
<1>6. content \in [FolderIds -> [Names -> Cells \cup {None}]]
  BY DEF IndInv, DiskOK
<1>7. Fill(p, e, None) = content
  BY <1>2, <1>5, <1>6 DEF Fill, Base
<1> QED
  BY <1>1, <1>2, <1>3, <1>5, <1>7 DEF SoloOK, Slot, Base

\* Entries account for a folder as before, if only a slot changed that the new one
\* accounts for.
LEMMA TiedMore ==
    ASSUME NEW d \in FolderIds, NEW es \in Seq(Told), NEW e2 \in Told, NEW c,
           content \in [FolderIds -> [Names -> Cells \cup {None}]], Base(e2) \in Names,
           content' = [content EXCEPT ![d][Base(e2)] = c], Tied(d, es),
           \A k \in DOMAIN es : Base(es[k]) # Base(e2),
           c # None /\ c.whole => e2.stored,
           e2.kind \in LinkKinds => /\ KindOf[e2.link] \in LinkKinds
                                    /\ e2.stored => c \in {None, Whole(e2.link)},
           e2.kind \notin LinkKinds => e2.link = None
    PROVE  \A fs2 : fs2 = Append(es, e2) => Tied(d, fs2)'
<1> DEFINE new == Append(es, e2)
<1>1. /\ DOMAIN new = 1..Len(es) + 1 /\ new[Len(es) + 1] = e2 /\ Len(es) + 1 \in DOMAIN new
      /\ \A k \in DOMAIN es : k \in DOMAIN new /\ new[k] = es[k]
      /\ \A k \in DOMAIN new : k \in DOMAIN es \/ k = Len(es) + 1
  BY AppendAt
<1> HIDE DEF new
<1>2. content'[d][Base(e2)] = c /\ \A n \in Names : n # Base(e2) => content'[d][n] = content[d][n]
  OBVIOUS
<1>3. ASSUME NEW n \in Names, content'[d][n] # None, content'[d][n].whole
      PROVE  \E k \in DOMAIN new : new[k].stored /\ Base(new[k]) = n
  <2>1. CASE n = Base(e2)
    BY <1>1, <1>2, <1>3, <2>1
  <2>2. CASE n # Base(e2)
    BY <1>1, <1>2, <1>3, <2>2 DEF Tied
  <2> QED
    BY <2>1, <2>2
<1>4. ASSUME NEW k \in DOMAIN new
      PROVE  /\ new[k].kind \in LinkKinds =>
                  /\ KindOf[new[k].link] \in LinkKinds
                  /\ new[k].stored => content'[d][Base(new[k])] \in {None, Whole(new[k].link)}
             /\ new[k].kind \notin LinkKinds => new[k].link = None
  <2>1. CASE k = Len(es) + 1
    BY <1>1, <1>2, <2>1
  <2>2. CASE k \in DOMAIN es
    <3>1. new[k] = es[k] /\ Base(es[k]) \in Names
      <4>1. es[k] \in Told
        BY <2>2
      <4> QED
        BY <1>1, <2>2, <4>1, TrashAssumption DEF Told, Entries, Base
    <3>2. content'[d][Base(es[k])] = content[d][Base(es[k])]
      BY <1>2, <2>2, <3>1
    <3> QED
      BY <2>2, <3>1, <3>2 DEF Tied
  <2> QED
    BY <1>1, <2>1, <2>2
<1>5. Tied(d, new)'
  BY <1>3, <1>4 DEF Tied
<1> QED
  BY <1>5 DEF new

\* A folder that has no manifest may change; the others keep theirs.
LEMMA FoldersStay ==
    ASSUME IndInv, FoldersOK, NEW d \in FolderIds, manifest[d] = <<>>, manifest' = manifest,
           exists' = exists \cup {d},
           \A f \in FolderIds : f # d => content'[f] = content[f]
    PROVE  FoldersOK'
<1>1. \A f \in FolderIds : f # d => \A es : Tied(f, es)' <=> Tied(f, es)
  BY SMTT(30) DEF Tied
<1> QED
  BY <1>1 DEF FoldersOK

\* What staging a path leaves behind: its slot filled with what the entry says, the
\* path itself gone or about to be deleted.
LEMMA StageSolo ==
    ASSUME IndInv, SoloInv, OneProcess, NEW p \in Procs, Staging(p),
           NEW j, j = job[p], NEW e, e = Head(j.todo),
           NEW n \in ToldJobs, NEW e2 \in Told, NEW c,
           e2.path = e.path, e2.kind = e.kind, e2.link = e.link,
           content' = Fill(p, e, c), exists' = exists \cup {j.dest}, manifest' = manifest,
           c # None /\ c.whole => e2.stored,
           e.kind \in LinkKinds /\ e2.stored => c \in {None, Whole(e.link)},
           \/ /\ n.pc = "stage" /\ n.todo = Tail(j.todo)
              /\ fs' \in {fs, [fs EXCEPT ![e.path] = None]}
           \/ /\ n.pc = "delete" /\ n.todo = j.todo /\ fs' = fs
              /\ e.kind # "absent" /\ (e.kind \notin LinkKinds => c = fs[e.path]),
           n.dest = j.dest, n.done = Append(j.done, e2), job' = [job EXCEPT ![p] = n]
    PROVE  SoloInv'
<1> SUFFICES ASSUME NEW d, d = j.dest PROVE SoloInv'
  OBVIOUS
<1>1. /\ j \in ToldJobs /\ d \in FolderIds /\ manifest[d] = <<>>
      /\ j.todo \in Seq(Told) /\ j.done \in Seq(Told) /\ j.todo # <<>> /\ j.pc = "stage"
      /\ e \in Told /\ Base(e) \in Names /\ Same(e)
      /\ TodoOK(j) /\ DestOK(j) /\ Tied(d, j.done)
  BY NextSlot DEF Staging, At
<1>2. /\ content \in [FolderIds -> [Names -> Cells \cup {None}]]
      /\ fs \in [Paths -> Cells \cup {None}] /\ job'[p] = n /\ FoldersOK
  BY DEF IndInv, DiskOK, SoloInv
<1>3. Base(e2) = Base(e) /\ content' = [content EXCEPT ![d][Base(e2)] = c]
  BY DEF Base, Fill
<1>0. /\ e2.path = e.path /\ e2.kind = e.kind /\ e2.link = e.link
      /\ c # None /\ c.whole => e2.stored
      /\ e.kind \in LinkKinds /\ e2.stored => c \in {None, Whole(e.link)}
      /\ \/ n.pc = "stage" /\ n.todo = Tail(j.todo) /\ fs' \in {fs, [fs EXCEPT ![e.path] = None]}
         \/ /\ n.pc = "delete" /\ n.todo = j.todo /\ fs' = fs
            /\ e.kind # "absent" /\ (e.kind \notin LinkKinds => c = fs[e.path])
      /\ exists' = exists \cup {d} /\ manifest' = manifest
      /\ n.dest = d /\ n.done = Append(j.done, e2) /\ e = Head(j.todo)
  OBVIOUS
<1>4. /\ TodoOK(n)
      /\ \A k \in Pending(n) : /\ Base(n.todo[k]) # Base(e2)
                               /\ \E l \in Pending(j) : n.todo[k] = j.todo[l]
  <2>1. \/ n.pc = "stage" /\ n.todo = Tail(j.todo)
        \/ n.pc = "delete" /\ n.todo = j.todo
    BY <1>0, SMTT(30)
  <2>2. Base(e2) = Base(Head(j.todo)) /\ n.done \in {j.done, Append(j.done, e2)}
    BY <1>0, <1>3
  <2>3. /\ j \in ToldJobs /\ TodoOK(j) /\ j.todo # <<>> /\ e2 \in Told
        /\ j.pc \in {"stage", "delete"}
    BY <1>1, SMTT(30)
  <2> QED
    BY ONLY <2>1, <2>2, <2>3, TodoMoves, SMTT(30)
<1>5. 1 \in Pending(j) /\ e = j.todo[1]
  BY <1>0, <1>1, TailAt, SMTT(30) DEF Pending
<1>6. \A k \in DOMAIN j.done : Base(j.done[k]) # Base(e2)
  BY <1>1, <1>3, <1>5, SMTT(30) DEF TodoOK
<1>7. KindOf[e.link] \in LinkKinds \/ e.kind \notin LinkKinds
  BY <1>1, SMTT(30) DEF Same, LinkKinds
<1>8. \A es : es = n.done => Tied(d, es)'
  <2>1. /\ c # None /\ c.whole => e2.stored
        /\ e2.kind \in LinkKinds => /\ KindOf[e2.link] \in LinkKinds
                                    /\ e2.stored => c \in {None, Whole(e2.link)}
        /\ e2.kind \notin LinkKinds => e2.link = None
    BY <1>0, <1>1, <1>7, Zenon DEF Same
  <2>2. ASSUME NEW es, es = Append(j.done, e2) PROVE Tied(d, es)'
    <3>1. /\ d \in FolderIds /\ j.done \in Seq(Told) /\ Base(e2) \in Names /\ Tied(d, j.done)
          /\ e2 \in Told
          /\ content \in [FolderIds -> [Names -> Cells \cup {None}]]
          /\ content' = [content EXCEPT ![d][Base(e2)] = c]
      BY <1>1, <1>2, <1>3, Zenon
    <3>2. \A fs2 : fs2 = Append(j.done, e2) => Tied(d, fs2)'
      BY ONLY <1>6, <2>1, <3>1, TiedMore
    <3> QED
      BY <2>2, <3>2
  <2> QED
    BY <1>0, <2>2
<1>9. FoldersOK'
  <2>1. \A f \in FolderIds : f # d => content'[f] = content[f]
    BY <1>1, <1>2, <1>3, SMTT(30)
  <2> QED
    BY <1>0, <1>1, <1>2, <2>1, FoldersStay, Zenon
<1>10. TodoOK(job[p])'
  <2>1. \A k \in DOMAIN n.todo : fs'[n.todo[k].path] = fs[n.todo[k].path]
    <3>1. CASE fs' = fs
      BY <3>1
    <3>2. CASE n.pc = "stage" /\ fs' = [fs EXCEPT ![e.path] = None]
      <4>1. \A k \in DOMAIN n.todo : Base(n.todo[k]) # Base(e)
        BY <1>3, <1>4, <3>2 DEF Pending
      <4>2. \A k \in DOMAIN n.todo : n.todo[k].path # e.path
        BY <4>1, Elsewhere
      <4> QED
        BY <1>2, <3>2, <4>2
    <3> QED
      BY <1>0, <3>1, <3>2
  <2> QED
    BY <1>2, <1>4, <2>1, TodoStays, SMTT(30)
<1>11. DestOK(job[p])'
  <2>1. \A k \in Pending(n) : content'[d][Base(n.todo[k])] = None
    <3> SUFFICES ASSUME NEW k \in Pending(n) PROVE content'[d][Base(n.todo[k])] = None
      OBVIOUS
    <3>1. PICK l \in Pending(j) : n.todo[k] = j.todo[l]
      BY <1>4, SMTT(30)
    <3>2. content[d][Base(n.todo[k])] = None
      BY <1>1, <3>1 DEF DestOK
    <3>3. Base(n.todo[k]) \in Names
      <4>1. j.todo[l] \in Told
        BY <1>1, <3>1, SMTT(30) DEF Pending
      <4> QED
        BY <3>1, <4>1, TrashAssumption DEF Told, Entries, Base
    <3> QED
      BY <1>1, <1>2, <1>3, <1>4, <3>2, <3>3, SMTT(30)
  <2>2. ASSUME n.pc = "delete"
        PROVE  /\ Head(n.todo).kind # "absent"
               /\ \E k \in DOMAIN n.done : n.done[k].link = Head(n.todo).link
               /\ Head(n.todo).kind \notin LinkKinds =>
                     content'[d][Base(Head(n.todo))] = fs'[Head(n.todo).path]
    <3>1. n.todo = j.todo /\ fs' = fs /\ e.kind # "absent"
          /\ (e.kind \notin LinkKinds => c = fs[e.path])
      BY <1>0, <2>2, SMTT(30)
    <3>2. content'[d][Base(e)] = c
      BY <1>1, <1>2, <1>3, SMTT(30)
    <3>3. n.done[Len(j.done) + 1] = e2 /\ Len(j.done) + 1 \in DOMAIN n.done
      BY <1>0, <1>1, AppendAt, SMTT(30)
    <3> QED
      BY <1>0, <3>1, <3>2, <3>3
  <2>3. manifest'[d] = <<>> /\ n.pc \in {"stage", "delete"} /\ n.dest = d
    BY <1>0, <1>1
  <2>4. Tied(d, n.done)'
    BY <1>8
  <2>5. DestOK(n)'
    BY <2>1, <2>2, <2>3, <2>4, ZenonT(30) DEF DestOK, Pending
  <2>6. \A m : m = n => DestOK(m)'
    BY <2>5
  <2> QED
    BY <1>2, <2>6, SMTT(30)
<1> QED
  BY <1>0, <1>2, <1>9, <1>10, <1>11, SoloIs DEF Queued

\* A step that changes nothing but the job of the one process.
LEMMA SoloPut ==
    ASSUME OneProcess, SoloInv, NEW p \in Procs, NEW n, job' = [job EXCEPT ![p] = n],
           job \in [Procs -> GoodJobs],
           UNCHANGED <<fs, disk, registered>>, n.pc # "unlink",
           TodoOK(n), DestOK(n), n.pc \in Queued => QueueOK(n.queue),
           n.pc = "recover" => BackOK(n)
    PROVE  SoloInv'
<1>1. job'[p] = n /\ exists' = exists
  BY DEF disk
<1>2. FoldersOK'
  BY SameDisk DEF SoloInv
<1>3. TodoOK(job[p])'
  BY <1>1, SameFs
<1>4. DestOK(job[p])'
  BY <1>1, SameDisk
<1>5. (job[p].pc \in Queued => QueueOK(job[p].queue))'
  <2>1. n.pc \in Queued => \A q : q = n.queue => QueueOK(q)'
    BY <1>1, SameList
  <2> QED
    BY <1>1, <2>1
<1>6. (job[p].pc \in {"recover", "unlink"} => BackOK(job[p]))'
  <2>1. n.pc \in {"recover", "unlink"} => \A m : m = n => BackOK(m)'
    BY SameDisk
  <2> QED
    BY <1>1, <2>1
<1>7. (job[p].pc = "unlink" => UnlinkOK(p))'
  BY <1>1
<1> QED
  BY <1>2, <1>3, <1>4, <1>5, <1>6, <1>7, SoloIs

\* The process returns, the disk as it was.
LEMMA SoloIdle ==
    ASSUME OneProcess, SoloInv, NEW p \in Procs, job' = [job EXCEPT ![p] = Idle],
           job \in [Procs -> GoodJobs], UNCHANGED <<fs, disk, registered>>
    PROVE  SoloInv'
  BY IdleOK, SoloPut DEF Queued, Idle

-----------------------------------------------------------------------------
(* trash(), step by step *)

\* Reading volumes.json and naming the folder.
LEMMA RegisterLoadSolo ==
    ASSUME IndInv, SoloInv, OneProcess, NEW p \in Procs, RegisterLoad(p)
    PROVE  SoloInv'
<1>1. job[p] \in ToldJobs /\ job[p].pc = "register" /\ TodoOK(job[p])
  BY JobAt DEF RegisterLoad, At, SoloInv, SoloOK
<1>2. PICK n : /\ job' = [job EXCEPT ![p] = n]
               /\ n.pc = "save" /\ n.todo = job[p].todo /\ n.done = job[p].done
  BY RegistryRead
<1>3. TodoOK(n) /\ DestOK(n)
  BY <1>1, <1>2 DEF TodoOK, DestOK, Trashing, Pending
<1>4. UNCHANGED <<fs, disk, registered>>
  BY DEF RegisterLoad
<1> QED
  BY <1>2, <1>3, <1>4, SoloPut DEF IndInv, Queued

LEMMA NameFolderSolo ==
    ASSUME IndInv, SoloInv, OneProcess, NEW p \in Procs, NameFolder(p)
    PROVE  SoloInv'
<1>1. PICK k \in 0..MaxCalls :
        /\ <<job[p].store, clock, k>> \notin exists
        /\ job' = [job EXCEPT ![p].pc = "mkdir", ![p].dest = <<job[p].store, clock, k>>]
  BY DEF NameFolder
<1> DEFINE n == [job[p] EXCEPT !.pc = "mkdir", !.dest = <<job[p].store, clock, k>>]
<1>2. job[p] \in ToldJobs /\ job[p].pc = "name" /\ TodoOK(job[p]) /\ FoldersOK
  BY JobAt DEF NameFolder, At, SoloInv, SoloOK
<1>3. /\ n.pc = "mkdir" /\ n.todo = job[p].todo /\ n.done = job[p].done
      /\ n.dest = <<job[p].store, clock, k>>
  BY <1>2 DEF ToldJobs
<1>4. n.dest \in FolderIds /\ n.dest \notin exists
  BY <1>1, <1>2, <1>3 DEF IndInv, DiskOK, FolderIds, ToldJobs
<1>5. TodoOK(n)
  BY <1>2, <1>3 DEF TodoOK, Trashing, Pending
<1>6. DestOK(n)
  BY <1>2, <1>3, <1>4 DEF DestOK, FoldersOK
<1>7. job' = [job EXCEPT ![p] = n] /\ UNCHANGED <<fs, disk, registered>>
  BY <1>1 DEF NameFolder
<1> HIDE DEF n
<1> QED
  BY <1>3, <1>5, <1>6, <1>7, SoloPut DEF IndInv, Queued

\* Writing volumes.json: no folder is at hand that it could hide.
LEMMA RegisterSaveSolo ==
    ASSUME IndInv, SoloInv, OneProcess, NEW p \in Procs, RegisterSave(p)
    PROVE  SoloInv'
<1> DEFINE n == [job[p] EXCEPT !.pc = "name"]
           m == [job[p] EXCEPT !.pc = "name", !.store = Central]
<1>1. /\ job[p] \in ToldJobs /\ job[p].pc = "save" /\ TodoOK(job[p])
      /\ job \in [Procs -> GoodJobs]
  BY JobAt DEF RegisterSave, At, SoloInv, SoloOK, IndInv
<1>2. \A w \in {n, m} : w.pc = "name" /\ w.todo = job[p].todo /\ w.done = job[p].done
  BY <1>1 DEF ToldJobs
<1>3. job'[p] \in {n, m} /\ UNCHANGED <<fs, disk>>
  BY <1>1 DEF RegisterSave
<1>4. PICK w : w = job'[p] /\ w \in {n, m}
  BY <1>3
<1>5. w.pc = "name" /\ w.todo = job[p].todo /\ w.done = job[p].done
  BY <1>2, <1>4
<1> HIDE DEF n, m
<1>6. TodoOK(w) /\ DestOK(w)
  BY <1>1, <1>5 DEF TodoOK, DestOK, Trashing, Pending
<1>7. TodoOK(job[p])' /\ DestOK(job[p])' /\ FoldersOK'
  BY <1>3, <1>4, <1>6, SameFs, SameDisk DEF SoloInv
<1> QED
  BY <1>4, <1>5, <1>7, SoloIs DEF Queued

\* Making the folder: it is new, and empty.
LEMMA MakeFolderSolo ==
    ASSUME IndInv, SoloInv, OneProcess, NEW p \in Procs, MakeFolder(p)
    PROVE  SoloInv'
<1> SUFFICES ASSUME NEW j, j = job[p], NEW d, d = j.dest PROVE SoloInv'
  OBVIOUS
<1>1. /\ j \in ToldJobs /\ j.pc = "mkdir" /\ TodoOK(j) /\ DestOK(j) /\ FoldersOK
      /\ d \in FolderIds /\ job \in [Procs -> GoodJobs]
  BY JobAt DEF MakeFolder, At, SoloInv, SoloOK, IndInv, Ready
<1>2. UNCHANGED <<fs, content, manifest, registered>>
  BY DEF MakeFolder
<1>3. CASE exists' = exists \cup {d} /\ job' = [job EXCEPT ![p].pc = "stage"]
  <2> DEFINE n0 == [j EXCEPT !.pc = "stage"]
  <2>1. job'[p] = n0
    BY <1>1, <1>3
  <2>2. PICK n : n = n0
    OBVIOUS
  <2>3. n.pc = "stage" /\ n.todo = j.todo /\ n.done = j.done /\ n.dest = d
    BY <1>1, <2>2 DEF ToldJobs
  <2> HIDE DEF n0
  <2>4. manifest[d] = <<>> /\ content[d] = NoContent /\ j.done = <<>>
    BY <1>1 DEF DestOK, FoldersOK, TodoOK
  <2>5. FoldersOK'
    BY <1>1, <1>2, <1>3, <2>4, FoldersStay
  <2>6. TodoOK(n)
    BY <1>1, <2>3 DEF TodoOK, Trashing, Pending
  <2>7. Tied(d, <<>>)' /\ \A k \in DOMAIN n.todo : content'[d][Base(n.todo[k])] = None
    <3>1. \A x : NoContent[x] = None \/ x \notin Names
      BY DEF NoContent
    <3>2. \A k \in DOMAIN n.todo : Base(n.todo[k]) \in Names
      <4> SUFFICES ASSUME NEW k \in DOMAIN n.todo PROVE Base(n.todo[k]) \in Names
        OBVIOUS
      <4>1. n.todo \in Seq(Told)
        BY <1>1, <2>3 DEF ToldJobs
      <4>2. n.todo[k] \in Told
        BY <4>1
      <4> QED
        BY <4>2, TrashAssumption DEF Told, Entries, Base
    <3> QED
      BY <1>2, <2>4, <3>1, <3>2 DEF Tied
  <2>8. DestOK(n)'
    <3>1. Tied(n.dest, n.done)'
      BY <2>3, <2>4, <2>7
    <3> QED
      BY <1>2, <2>3, <2>4, <2>7, <3>1 DEF DestOK, Pending
  <2>9. job'[p] = n /\ TodoOK(job[p])' /\ DestOK(job[p])'
    <3>1. \A m : m = n => DestOK(m)' /\ TodoOK(m)'
      BY <1>2, <2>6, <2>8, SameFs
    <3> QED
      BY <2>1, <2>2, <3>1
  <2> QED
    BY <2>3, <2>5, <2>9, SoloIs DEF Queued
<1>4. CASE exists' = exists /\ job' = [job EXCEPT ![p] = Idle]
  BY <1>1, <1>2, <1>4, SoloIdle DEF disk
<1> QED
  BY <1>3, <1>4 DEF MakeFolder

\* Skipping a path that did not exist.
LEMMA StageAbsentSolo ==
    ASSUME IndInv, SoloInv, OneProcess, NEW p \in Procs, StageAbsent(p)
    PROVE  SoloInv'
<1> SUFFICES ASSUME NEW j, j = job[p], NEW e, e = Head(j.todo) PROVE SoloInv'
  OBVIOUS
<1> DEFINE n0 == [j EXCEPT !.todo = Tail(@), !.failed = TRUE]
<1>1. /\ j \in ToldJobs /\ j.pc = "stage" /\ j.todo # <<>> /\ e \in Told
      /\ TodoOK(j) /\ DestOK(j) /\ j.dest \in FolderIds
  BY NextSlot DEF StageAbsent, Staging, At
<1>2. job' = [job EXCEPT ![p] = n0] /\ UNCHANGED <<fs, disk, registered>>
  BY DEF StageAbsent
<1>3. PICK n : n = n0
  OBVIOUS
<1>4. n.pc = "stage" /\ n.todo = Tail(j.todo) /\ n.done = j.done /\ n.dest = j.dest
  BY <1>1, <1>3 DEF ToldJobs
<1>5. job' = [job EXCEPT ![p] = n]
  BY <1>2, <1>3
<1> HIDE DEF n0
<1>6. /\ TodoOK(n)
      /\ \A k \in Pending(n) : /\ Base(n.todo[k]) # Base(e)
                               /\ \E l \in Pending(j) : n.todo[k] = j.todo[l]
  <2>1. \/ n.pc = "stage" /\ n.todo = Tail(j.todo)
        \/ n.pc = "delete" /\ n.todo = j.todo
    BY <1>4
  <2>2. Base(e) = Base(Head(j.todo)) /\ n.done \in {j.done, Append(j.done, e)}
    BY <1>4
  <2>3. j.pc \in {"stage", "delete"}
    BY <1>1
  <2> QED
    BY ONLY <1>1, <2>1, <2>2, <2>3, TodoMoves, ZenonT(30)
<1>7. DestOK(n)
  <2>1. \A k \in Pending(n) : content[j.dest][Base(n.todo[k])] = None
    BY <1>1, <1>6 DEF DestOK
  <2>2. Tied(j.dest, j.done) /\ manifest[j.dest] = <<>>
    BY <1>1 DEF DestOK
  <2> QED
    BY <1>4, <2>1, <2>2 DEF DestOK
<1> QED
  BY <1>2, <1>4, <1>5, <1>6, <1>7, SoloPut DEF IndInv, Queued

\* The job of trash() after a path is staged: its removal comes next ...
LEMMA StagedDelete ==
    ASSUME NEW j \in ToldJobs, NEW e2 \in Told, NEW n,
           n = [j EXCEPT !.pc = "delete", !.done = Append(@, e2)]
    PROVE  /\ n \in ToldJobs /\ n.dest = j.dest /\ n.done = Append(j.done, e2)
           /\ n.pc = "delete" /\ n.todo = j.todo
<1>1. Append(j.done, e2) \in Seq(Told)
  BY AppendProperties DEF ToldJobs
<1> QED
  BY <1>1 DEF ToldJobs, Steps

\* ... or the next path.
LEMMA StagedNext ==
    ASSUME NEW j \in ToldJobs, j.pc = "stage", j.todo # <<>>, NEW e2 \in Told, NEW n,
           \/ n = [j EXCEPT !.todo = Tail(@), !.done = Append(@, e2)]
           \/ n = [j EXCEPT !.todo = Tail(@), !.failed = TRUE, !.done = Append(@, e2)]
    PROVE  /\ n \in ToldJobs /\ n.dest = j.dest /\ n.done = Append(j.done, e2)
           /\ n.pc = "stage" /\ n.todo = Tail(j.todo)
<1>1. j.todo \in Seq(Told) /\ Append(j.done, e2) \in Seq(Told)
  BY AppendProperties DEF ToldJobs
<1>2. Tail(j.todo) \in Seq(Told)
  BY <1>1, HeadTailProperties
<1> QED
  BY <1>1, <1>2, ZenonT(30) DEF ToldJobs, Steps

\* A link is made again in content/, or kept as its entry alone.
LEMMA StageLinkSolo ==
    ASSUME IndInv, SoloInv, OneProcess, NEW p \in Procs, StageLink(p)
    PROVE  SoloInv'
<1> SUFFICES ASSUME NEW j, j = job[p], NEW e, e = Head(j.todo) PROVE SoloInv'
  OBVIOUS
<1>1. /\ j \in ToldJobs /\ j.pc = "stage" /\ j.todo # <<>> /\ Staging(p)
      /\ e \in Told /\ [e EXCEPT !.stored = TRUE] \in Told
      /\ Fill(p, e, None) = content
  BY NextSlot, NextPath DEF StageLink, Staging, At
<1>2. e.kind \in LinkKinds /\ e.kind # "absent"
  BY DEF StageLink, LinkKinds
<1>3. /\ exists' = exists \cup {j.dest} /\ UNCHANGED <<fs, manifest>>
      /\ \/ /\ content' = Fill(p, e, [item |-> e.link, whole |-> TRUE])
            /\ job' = [job EXCEPT ![p].pc = "delete",
                                  ![p].done = Append(@, [e EXCEPT !.stored = TRUE])]
         \/ /\ job' = [job EXCEPT ![p].pc = "delete", ![p].done = Append(@, e)]
            /\ content' = content
  BY SMTT(30) DEF StageLink
<1>4. CASE /\ content' = Fill(p, e, [item |-> e.link, whole |-> TRUE])
           /\ job' = [job EXCEPT ![p].pc = "delete",
                                 ![p].done = Append(@, [e EXCEPT !.stored = TRUE])]
  <2>1. PICK t \in Told : t = [e EXCEPT !.stored = TRUE]
    BY <1>1
  <2>0. t \in Told /\ j \in ToldJobs
    BY <1>1
  <2>2. t.path = e.path /\ t.kind = e.kind /\ t.link = e.link /\ t.stored = TRUE
    BY <1>1, <2>1 DEF Told, Entries
  <2>3. PICK n : n = [j EXCEPT !.pc = "delete", !.done = Append(@, t)]
    OBVIOUS
  <2>4. job' = [job EXCEPT ![p] = n]
    BY <1>4, <2>1, <2>3
  <2>5. /\ n \in ToldJobs /\ n.dest = j.dest /\ n.done = Append(j.done, t)
        /\ n.pc = "delete" /\ n.todo = j.todo
    BY ONLY <2>0, <2>3, StagedDelete, ZenonT(30)
  <2>6. content' = Fill(p, e, Whole(e.link))
    BY <1>4 DEF Whole
  <2> QED
    <3>1. fs' = fs /\ manifest' = manifest /\ exists' = exists \cup {j.dest}
      BY <1>3
    <3>2. Staging(p) /\ e.kind \in LinkKinds /\ e.kind # "absent"
      BY <1>1, <1>2
    <3> QED
      BY <2>1, <2>2, <2>4, <2>5, <2>6, <3>1, <3>2, StageSolo, ZenonT(30)
<1>5. CASE /\ job' = [job EXCEPT ![p].pc = "delete", ![p].done = Append(@, e)]
           /\ content' = content
  <2>1. PICK n : n = [j EXCEPT !.pc = "delete", !.done = Append(@, e)]
    OBVIOUS
  <2>2. job' = [job EXCEPT ![p] = n] /\ content' = Fill(p, e, None)
    BY <1>1, <1>5, <2>1
  <2>3. /\ n \in ToldJobs /\ n.dest = j.dest /\ n.done = Append(j.done, e)
        /\ n.pc = "delete" /\ n.todo = j.todo
    <3>1. j \in ToldJobs /\ e \in Told
      BY <1>1
    <3> QED
      BY ONLY <2>1, <3>1, StagedDelete, ZenonT(30)
  <2> QED
    BY <1>1, <1>2, <1>3, <2>2, <2>3, StageSolo, ZenonT(30)
<1> QED
  BY <1>3, <1>4, <1>5, SMTT(30)

\* A rename moves the thing into content/.
LEMMA StageRenameSolo ==
    ASSUME IndInv, SoloInv, OneProcess, NEW p \in Procs, StageRename(p)
    PROVE  SoloInv'
<1> SUFFICES ASSUME NEW j, j = job[p], NEW e, e = Head(j.todo) PROVE SoloInv'
  OBVIOUS
<1>1. /\ j \in ToldJobs /\ j.pc = "stage" /\ j.todo # <<>> /\ Staging(p)
      /\ e \in Told /\ [e EXCEPT !.stored = TRUE] \in Told
  BY NextSlot, NextPath, SMTT(30) DEF StageRename, Staging, At
<1>2. e.kind \notin LinkKinds
  BY DEF StageRename, LinkKinds
<1>3. PICK t \in Told : t = [e EXCEPT !.stored = TRUE]
  BY <1>1
<1>0. t \in Told /\ j \in ToldJobs
  BY <1>1
<1>4. t.path = e.path /\ t.kind = e.kind /\ t.link = e.link /\ t.stored = TRUE
  BY <1>1, <1>3 DEF Told, Entries
<1>5. PICK n : n = [j EXCEPT !.todo = Tail(@), !.done = Append(@, t)]
  BY SMTT(30)
<1>6. /\ exists' = exists \cup {j.dest} /\ manifest' = manifest
      /\ fs' = [fs EXCEPT ![e.path] = None] /\ content' = Fill(p, e, fs[e.path])
      /\ job' = [job EXCEPT ![p] = n]
  BY <1>3, <1>5 DEF StageRename
<1>7. /\ n \in ToldJobs /\ n.dest = j.dest /\ n.done = Append(j.done, t)
      /\ n.pc = "stage" /\ n.todo = Tail(j.todo)
  BY ONLY <1>1, <1>0, <1>5, StagedNext, ZenonT(30)
<1> QED
  BY <1>1, <1>2, <1>4, <1>6, <1>7, StageSolo, ZenonT(30)

\* A copy goes into content/, the original is deleted next.
LEMMA StageCopySolo ==
    ASSUME IndInv, SoloInv, OneProcess, NEW p \in Procs, StageCopy(p)
    PROVE  SoloInv'
<1> SUFFICES ASSUME NEW j, j = job[p], NEW e, e = Head(j.todo) PROVE SoloInv'
  OBVIOUS
<1>1. /\ j \in ToldJobs /\ j.pc = "stage" /\ j.todo # <<>> /\ Staging(p)
      /\ e \in Told /\ [e EXCEPT !.stored = TRUE] \in Told
  BY NextSlot, NextPath DEF StageCopy, Staging, At
<1>2. e.kind \notin LinkKinds /\ e.kind # "absent"
  BY SMTT(30) DEF StageCopy, LinkKinds
<1>3. PICK t \in Told : t = [e EXCEPT !.stored = TRUE]
  BY <1>1
<1>0. t \in Told /\ j \in ToldJobs
  BY <1>1
<1>4. t.path = e.path /\ t.kind = e.kind /\ t.link = e.link /\ t.stored = TRUE
  BY <1>1, <1>3 DEF Told, Entries
<1>5. PICK n : n = [j EXCEPT !.pc = "delete", !.done = Append(@, t)]
  OBVIOUS
<1>6. /\ exists' = exists \cup {j.dest} /\ manifest' = manifest /\ fs' = fs
      /\ content' = Fill(p, e, fs[e.path]) /\ job' = [job EXCEPT ![p] = n]
  BY <1>3, <1>5, ZenonT(30) DEF StageCopy
<1>7. /\ n \in ToldJobs /\ n.dest = j.dest /\ n.done = Append(j.done, t)
      /\ n.pc = "delete" /\ n.todo = j.todo
  BY ONLY <1>0, <1>5, StagedDelete, ZenonT(30)
<1> QED
  BY <1>1, <1>2, <1>4, <1>6, <1>7, StageSolo, ZenonT(30)

\* What could not be staged stays, with an entry that records nothing in content/.
LEMMA StageFailSolo ==
    ASSUME IndInv, SoloInv, OneProcess, NEW p \in Procs, StageFail(p)
    PROVE  SoloInv'
<1> SUFFICES ASSUME NEW j, j = job[p], NEW e, e = Head(j.todo) PROVE SoloInv'
  OBVIOUS
<1>1. /\ j \in ToldJobs /\ j.pc = "stage" /\ j.todo # <<>> /\ Staging(p)
      /\ e \in Told /\ Fill(p, e, None) = content
  BY NextSlot, NextPath, SMTT(30) DEF StageFail, Staging, At
<1>2. e.kind \notin LinkKinds
  BY DEF StageFail, LinkKinds
<1>3. PICK n : n = [j EXCEPT !.todo = Tail(@), !.failed = TRUE, !.done = Append(@, e)]
  OBVIOUS
<1>4. /\ exists' = exists \cup {j.dest} /\ UNCHANGED <<fs, manifest>>
      /\ job' = [job EXCEPT ![p] = n]
  BY <1>3 DEF StageFail
<1>5. /\ n \in ToldJobs /\ n.dest = j.dest /\ n.done = Append(j.done, e)
      /\ n.pc = "stage" /\ n.todo = Tail(j.todo)
  BY ONLY <1>1, <1>3, StagedNext, Zenon
<1>6. PICK c : /\ content' = Fill(p, e, c)
               /\ c = None \/ c = [item |-> fs[e.path].item, whole |-> FALSE]
  BY <1>1, SMTT(30) DEF StageFail
<1>7. ~(c # None /\ c.whole)
  BY <1>6
<1> QED
  BY <1>1, <1>2, <1>4, <1>5, <1>6, <1>7, StageSolo

\* The original goes, or not: the next path comes after it.
LEMMA DeleteSolo ==
    ASSUME IndInv, SoloInv, OneProcess, NEW p \in Procs, Delete(p)
    PROVE  SoloInv'
<1> SUFFICES ASSUME NEW j, j = job[p], NEW e, e = Head(j.todo), NEW d, d = j.dest
             PROVE  SoloInv'
  OBVIOUS
<1>1. /\ j \in ToldJobs /\ j.pc = "delete" /\ j.todo # <<>> /\ e \in Told
      /\ TodoOK(j) /\ DestOK(j) /\ FoldersOK /\ j.dest \in FolderIds
      /\ fs \in [Paths -> Cells \cup {None}] /\ job \in [Procs -> GoodJobs]
  <2>1. j.pc = "delete" /\ j.todo # <<>>
    BY JobAt, Zenon DEF Delete, At, Ready
  <2> QED
    BY <2>1, NextPath DEF At, SoloInv, SoloOK, IndInv, DiskOK
<1>2. PICK n : /\ job' = [job EXCEPT ![p] = n]
               /\ n.pc = "stage" /\ n.todo = Tail(j.todo) /\ n.done = j.done /\ n.dest = d
  <2>1. CASE job' = [job EXCEPT ![p].pc = "stage", ![p].todo = Tail(@)]
    <3> DEFINE n == [j EXCEPT !.pc = "stage", !.todo = Tail(@)]
    <3>1. n.pc = "stage" /\ n.todo = Tail(j.todo) /\ n.done = j.done /\ n.dest = d
      BY <1>1 DEF ToldJobs
    <3>2. job' = [job EXCEPT ![p] = n]
      BY <2>1
    <3> QED
      BY <3>1, <3>2
  <2>2. CASE job' = [job EXCEPT ![p].pc = "stage", ![p].todo = Tail(@), ![p].failed = TRUE]
    <3> DEFINE n == [j EXCEPT !.pc = "stage", !.todo = Tail(@), !.failed = TRUE]
    <3>1. n.pc = "stage" /\ n.todo = Tail(j.todo) /\ n.done = j.done /\ n.dest = d
      BY <1>1 DEF ToldJobs
    <3>2. job' = [job EXCEPT ![p] = n]
      BY <2>2
    <3> QED
      BY <3>1, <3>2
  <2> QED
    BY <2>1, <2>2, Zenon DEF Delete
<1>3. UNCHANGED <<disk, registered>> /\ \A q \in Paths : q # e.path => fs'[q] = fs[q]
  BY <1>1, Zenon DEF Delete
<1>4. job'[p] = n
  BY <1>1, <1>2
<1>5. /\ TodoOK(n)
      /\ \A k \in Pending(n) : /\ Base(n.todo[k]) # Base(e)
                               /\ \E l \in Pending(j) : n.todo[k] = j.todo[l]
  <2>1. \/ n.pc = "stage" /\ n.todo = Tail(j.todo)
        \/ n.pc = "delete" /\ n.todo = j.todo
    BY <1>2
  <2>2. Base(e) = Base(Head(j.todo)) /\ n.done \in {j.done, Append(j.done, e)}
    BY <1>2
  <2>3. j.pc \in {"stage", "delete"}
    BY <1>1
  <2> QED
    BY ONLY <1>1, <2>1, <2>2, <2>3, TodoMoves
<1>6. DestOK(n)
  <2>1. \A k \in Pending(n) : content[d][Base(n.todo[k])] = None
    BY <1>1, <1>5 DEF DestOK
  <2>2. Tied(d, j.done) /\ manifest[d] = <<>>
    BY <1>1 DEF DestOK
  <2> QED
    BY <1>2, <2>1, <2>2 DEF DestOK
<1>7. TodoOK(job[p])'
  <2>1. \A k \in DOMAIN n.todo : n.todo[k].path \in Paths /\ n.todo[k].path # e.path
    <3> SUFFICES ASSUME NEW k \in DOMAIN n.todo
                 PROVE  n.todo[k].path \in Paths /\ n.todo[k].path # e.path
      OBVIOUS
    <3>1. Base(n.todo[k]) # Base(e) /\ \E l \in DOMAIN j.todo : n.todo[k] = j.todo[l]
      BY <1>2, <1>5 DEF Pending
    <3>2. j.todo \in Seq(Told)
      BY <1>1 DEF ToldJobs
    <3>3. n.todo[k] \in Told
      BY <3>1, <3>2
    <3> QED
      BY <3>1, <3>3, Elsewhere DEF Told, Entries
  <2> QED
    BY <1>3, <1>4, <1>5, <2>1, TodoStays
<1>8. DestOK(job[p])' /\ FoldersOK'
  <2>1. \A m : m = n => DestOK(m)'
    <3>1. /\ \A f, es : Tied(f, es)' <=> Tied(f, es)
          /\ UNCHANGED <<exists, content, manifest>>
      BY <1>3 DEF Tied, disk
    <3> QED
      BY <1>2, <1>6, <3>1 DEF DestOK
  <2>2. FoldersOK'
    <3>1. /\ \A f, es : Tied(f, es)' <=> Tied(f, es)
          /\ UNCHANGED <<exists, content, manifest>>
      BY <1>3 DEF Tied, disk
    <3> QED
      BY <1>1, <3>1 DEF FoldersOK
  <2> QED
    BY <1>4, <2>1, <2>2
<1> QED
  BY <1>2, <1>4, <1>7, <1>8, SoloIs DEF Queued

\* The manifest accounts for what was staged.
LEMMA SaveManifestSolo ==
    ASSUME IndInv, SoloInv, OneProcess, NEW p \in Procs, SaveManifest(p)
    PROVE  SoloInv'
<1> SUFFICES ASSUME NEW j, j = job[p], NEW d, d = j.dest PROVE SoloInv'
  OBVIOUS
<1>1. /\ j \in ToldJobs /\ j.pc = "stage" /\ DestOK(j) /\ FoldersOK /\ d \in FolderIds
      /\ job \in [Procs -> GoodJobs] /\ manifest \in [FolderIds -> Seq(Told)]
  BY JobAt DEF SaveManifest, At, Ready, SoloInv, SoloOK, IndInv, DiskOK
<1>2. job' = [job EXCEPT ![p] = Idle] /\ UNCHANGED <<fs, content, registered>>
  BY DEF SaveManifest
<1>3. CASE exists' = exists \cup {d} /\ manifest' = [manifest EXCEPT ![d] = j.done]
  <2>1. \A f, es : Tied(f, es)' <=> Tied(f, es)
    BY <1>2 DEF Tied
  <2>2. Tied(d, j.done)
    BY <1>1 DEF DestOK
  <2>3. FoldersOK'
    BY <1>1, <1>2, <1>3, <2>1, <2>2 DEF FoldersOK
  <2>4. job'[p] = Idle
    BY <1>1, <1>2
  <2>5. Idle.pc = "idle" /\ Idle.todo = <<>> /\ Idle.done = <<>>
    BY DEF Idle
  <2>6. TodoOK(job[p])' /\ DestOK(job[p])'
    BY <2>4, <2>5 DEF TodoOK, DestOK, Pending
  <2> QED
    BY <2>3, <2>4, <2>5, <2>6, SoloIs DEF Queued
<1>4. CASE exists' = exists /\ manifest' = manifest
  BY <1>1, <1>2, <1>4, SoloIdle DEF disk
<1> QED
  BY <1>3, <1>4 DEF SaveManifest

\* What trash() is given is as it was classified, and shares no base name.
LEMMA TrashBeginSolo ==
    ASSUME IndInv, SoloInv, OneProcess, Named, NEW p \in Procs, NEW ps \in TrashArgs,
           TrashBegin(p, ps)
    PROVE  SoloInv'
<1>1. PICK store, given :
        job' = [job EXCEPT ![p] =
                  [Idle EXCEPT !.pc = IF store \in Serials THEN "register" ELSE "name",
                               !.todo = [k \in DOMAIN ps |-> Classified(ps[k])],
                               !.store = store, !.given = given]]
  BY Zenon DEF TrashBegin
<1>2. PICK n : /\ job' = [job EXCEPT ![p] = n] /\ n.pc \in {"register", "name"}
               /\ n.todo = [k \in DOMAIN ps |-> Classified(ps[k])] /\ n.done = <<>>
  <2> DEFINE m == [Idle EXCEPT !.pc = IF store \in Serials THEN "register" ELSE "name",
                               !.todo = [k \in DOMAIN ps |-> Classified(ps[k])],
                               !.store = store, !.given = given]
  <2>1. m.pc \in {"register", "name"} /\ m.done = <<>>
        /\ m.todo = [k \in DOMAIN ps |-> Classified(ps[k])]
    BY DEF Idle
  <2> HIDE DEF m
  <2>2. job' = [job EXCEPT ![p] = m]
    BY <1>1 DEF m
  <2> QED
    BY <2>1, <2>2
<1>3. \A q : Same(Classified(q)) /\ Base(Classified(q)) = BaseName[q]
  <2> SUFFICES ASSUME NEW q PROVE Same(Classified(q)) /\ Base(Classified(q)) = BaseName[q]
    OBVIOUS
  <2>1. CASE fs[q] = None
    BY <2>1 DEF Same, Classified, Base, LinkKinds
  <2>2. CASE fs[q] # None
    <3>1. PICK i : i = fs[q].item
      OBVIOUS
    <3>2. Classified(q) = [path |-> q, kind |-> KindOf[i], stored |-> FALSE,
                           link |-> IF KindOf[i] \in LinkKinds THEN i ELSE None]
      BY <2>2, <3>1 DEF Classified
    <3>3. PICK e : e = Classified(q)
      OBVIOUS
    <3>4. /\ e.path = q /\ e.kind = KindOf[i]
          /\ e.kind \in LinkKinds => e.link = i
          /\ e.kind \notin LinkKinds => e.link = None
      BY <3>2, <3>3
    <3>5. Same(e) /\ Base(e) = BaseName[q]
      BY <2>2, <3>1, <3>4 DEF Same, Base
    <3> QED
      BY <3>3, <3>5
  <2> QED
    BY <2>1, <2>2
<1>4. TodoOK(n)
  <2>1. \A k, l \in DOMAIN ps : BaseName[ps[k]] = BaseName[ps[l]] => k = l
    BY DEF Named
  <2>2. DOMAIN n.todo = DOMAIN ps /\ \A k \in DOMAIN n.todo :
          Same(n.todo[k]) /\ Base(n.todo[k]) = BaseName[ps[k]]
    BY <1>2, <1>3
  <2>3. DOMAIN n.done = {}
    BY <1>2
  <2> QED
    BY <1>2, <2>1, <2>2, <2>3 DEF TodoOK, Trashing
<1>5. DestOK(n)
  BY <1>2 DEF DestOK
<1>6. UNCHANGED <<fs, disk, registered>>
  BY DEF TrashBegin
<1> QED
  BY <1>2, <1>4, <1>5, <1>6, SoloPut DEF IndInv, Queued

-----------------------------------------------------------------------------
(* What recover and clean have still to do *)

\* A folder that is found by its name is in a listed store.
LEMMA FoundListed ==
    ASSUME NEW stamp, NEW f, Finds(stamp, f)
    PROVE  f \in exists /\ Stamp(f) = stamp /\ StoreListed(f[1])
  BY DEF Finds, StoreListed

\* What a selection names exists, and is in the order of the listing.
LEMMA ChosenOK ==
    ASSUME IndInv, NEW sel \in {"exact", "last", "all"}, NEW q \in Choices(sel)
    PROVE  QueueOK(Load(q))
<1>1. /\ \A k \in DOMAIN q : q[k] \in exists /\ StoreListed(q[k][1])
      /\ \A k, l \in DOMAIN q : k < l =>
            q[k] # q[l] /\ (q[k][2] = q[l][2] => StoreRank(q[k][1]) <= StoreRank(q[l][1]))
  <2>0. \A f \in Listed : f \in exists /\ StoreListed(f[1])
    BY DEF Listed, StoreListed
  <2>1. CASE sel = "exact"
    <3>1. CASE q = <<>>
      BY <3>1
    <3>2. CASE \E f \in exists : Finds(Stamp(f), f) /\ q = <<f>>
      <4>1. PICK f \in exists : Finds(Stamp(f), f) /\ q = <<f>>
        BY <3>2
      <4>2. DOMAIN q = {1} /\ q[1] = f
        BY <4>1
      <4> QED
        BY <4>1, <4>2, FoundListed
    <3> QED
      BY <2>1, <3>1, <3>2 DEF Choices
  <2>2. CASE sel = "last"
    <3>1. PICK l \in Listings : q = IF l = <<>> THEN <<>> ELSE <<l[Len(l)]>>
      BY <2>2 DEF Choices
    <3>2. CASE l = <<>>
      BY <3>1, <3>2
    <3>3. CASE l # <<>>
      <4>1. l \in Seq(FolderIds) /\ l \in [DOMAIN l -> Listed]
        BY ListedSeq DEF Listings
      <4>2. Len(l) \in DOMAIN l
        BY <3>3, <4>1, EmptySeq, LenProperties
      <4>3. DOMAIN q = {1} /\ q[1] \in Listed
        BY <3>1, <3>3, <4>1, <4>2
      <4> QED
        BY <2>0, <4>3
    <3> QED
      BY <3>2, <3>3
  <2>3. CASE sel = "all"
    <3>1. q \in Listings
      BY <2>3 DEF Choices
    <3>2. \A k \in DOMAIN q : q[k] \in Listed
      BY <3>1 DEF Listings
    <3>3. ASSUME NEW k \in DOMAIN q, NEW l \in DOMAIN q, k < l, q[k][2] = q[l][2]
          PROVE  StoreRank(q[k][1]) <= StoreRank(q[l][1])
      <4>1. MayPrecede(q[k], q[l])
        BY <3>1, <3>3 DEF Listings
      <4>2. q[k][2] \in Nat
        BY <2>0, <3>2, TrashAssumption DEF IndInv, DiskOK, FolderIds
      <4>3. ~(q[k][2] < q[l][2])
        BY <3>3, <4>2
      <4> QED
        BY <4>1, <4>3 DEF MayPrecede
    <3>4. \A k, l \in DOMAIN q : k < l => q[k] # q[l]
      <4>1. q \in Seq(FolderIds)
        BY <3>1, ListedSeq
      <4>2. \A k \in DOMAIN q : k \in Nat
        BY <4>1, LenProperties
      <4>3. \A k, l \in DOMAIN q : k < l => k # l
        BY <4>2
      <4> QED
        BY <3>1, <4>3 DEF Listings
    <3> QED
      BY <2>0, <3>2, <3>3, <3>4
  <2> QED
    BY <2>1, <2>2, <2>3
<1>2. DOMAIN Load(q) = DOMAIN q /\ \A k \in DOMAIN q : Load(q)[k].fid = q[k]
  BY DEF Load
<1> QED
  BY <1>1, <1>2 DEF QueueOK

\* A manifest that was just read has everything that is in its folder.
LEMMA FreshBack ==
    ASSUME FoldersOK, NEW f \in FolderIds
    PROVE  manifest[f] # <<>> => Back(f, manifest[f])
  BY DEF FoldersOK, Tied, Back

\* Starting a recovery.
LEMMA RecoverBeginSolo ==
    ASSUME IndInv, SoloInv, OneProcess, NEW p \in Procs, NEW sel \in Selections,
           NEW mode \in RecoverModes, RecoverBegin(p, sel, mode)
    PROVE  SoloInv'
<1>1. PICK q \in Choices(sel) :
        job' = [job EXCEPT ![p] =
                  IF q = <<>> THEN Idle
                  ELSE [Idle EXCEPT !.pc = "recover", !.queue = Load(q),
                                    !.mode = mode]]
  BY Zenon DEF RecoverBegin
<1>2. UNCHANGED <<fs, disk, registered>> /\ job \in [Procs -> GoodJobs] /\ FoldersOK
  BY DEF RecoverBegin, SoloInv, IndInv
<1>3. CASE q = <<>>
  BY <1>1, <1>2, <1>3, SoloIdle
<1>4. CASE q # <<>>
  <2>1. PICK n : n = [Idle EXCEPT !.pc = "recover", !.queue = Load(q), !.mode = mode]
    OBVIOUS
  <2>2. n.pc = "recover" /\ n.queue = Load(q) /\ n.todo = <<>> /\ n.done = <<>>
    BY <2>1 DEF Idle
  <2>3. sel \in {"exact", "last", "all"}
    BY TrashAssumption
  <2>4. QueueOK(n.queue)
    BY <2>2, <2>3, ChosenOK
  <2>5. q \in Seq(FolderIds) /\ 1 \in DOMAIN q /\ q[1] \in FolderIds
    BY <1>4, <2>3, ChosenSeq, EmptySeq, LenProperties
  <2>6. BackOK(n)
    <3>1. \A k \in DOMAIN n.queue : n.queue[k].entries = manifest[n.queue[k].fid]
      BY <2>2 DEF Load
    <3>2. 1 \in DOMAIN n.queue /\ n.queue[1].fid = q[1]
      BY <2>2, <2>5 DEF Load
    <3> QED
      BY <1>2, <2>5, <3>1, <3>2, FreshBack DEF BackOK
  <2>7. TodoOK(n) /\ DestOK(n)
    BY <2>2, QueuedOK DEF Queued
  <2>8. job' = [job EXCEPT ![p] = n]
    BY <1>1, <1>4, <2>1
  <2> QED
    BY <1>2, <2>2, <2>4, <2>6, <2>7, <2>8, SoloPut
<1> QED
  BY <1>3, <1>4

\* Starting a clean.
LEMMA CleanBeginSolo ==
    ASSUME IndInv, SoloInv, OneProcess, NEW p \in Procs, NEW sel \in Selections,
           NEW flags \in CleanFlags, CleanBegin(p, sel, flags)
    PROVE  SoloInv'
<1>1. PICK q \in Choices(sel) :
        job' = [job EXCEPT ![p] =
                  IF q = <<>> THEN Idle
                  ELSE [Idle EXCEPT !.pc = "clean", !.queue = Load(q),
                                    !.flags = flags, !.now = clock]]
  BY Zenon DEF CleanBegin
<1>2. UNCHANGED <<fs, disk, registered>> /\ job \in [Procs -> GoodJobs]
  BY DEF CleanBegin, IndInv
<1>3. CASE q = <<>>
  BY <1>1, <1>2, <1>3, SoloIdle
<1>4. CASE q # <<>>
  <2>1. PICK n : n = [Idle EXCEPT !.pc = "clean", !.queue = Load(q),
                                  !.flags = flags, !.now = clock]
    OBVIOUS
  <2>2. n.pc = "clean" /\ n.queue = Load(q) /\ n.todo = <<>> /\ n.done = <<>>
    BY <2>1 DEF Idle
  <2>3. sel \in {"exact", "last", "all"}
    BY TrashAssumption
  <2>4. QueueOK(n.queue)
    BY <2>2, <2>3, ChosenOK
  <2>5. TodoOK(n) /\ DestOK(n)
    BY <2>2, QueuedOK DEF Queued
  <2>6. job' = [job EXCEPT ![p] = n]
    BY <1>1, <1>4, <2>1
  <2> QED
    BY <1>2, <2>2, <2>4, <2>5, <2>6, SoloPut
<1> QED
  BY <1>3, <1>4

\* A listed store has a place in the list, and no earlier one.
LEMMA RankIs ==
    ASSUME IndInv, NEW s, StoreListed(s)
    PROVE  /\ StoreRank(s) \in DOMAIN ListedStores /\ StoreRank(s) \in Nat
           /\ ListedStores[StoreRank(s)] = s
           /\ \A k \in DOMAIN ListedStores : ListedStores[k] = s => StoreRank(s) <= k
<1> DEFINE T == {k \in DOMAIN ListedStores : ListedStores[k] = s}
<1>1. ListedStores \in Seq(Stores) /\ DOMAIN ListedStores \subseteq Nat
  <2>1. <<Central>> \in Seq(Stores) /\ registered \in Seq(Stores)
    BY TrashAssumption DEF IndInv, DiskOK
  <2>2. ListedStores \in Seq(Stores)
    BY <2>1, ConcatProperties DEF ListedStores
  <2> QED
    BY <2>2, LenProperties
<1>2. T # {} /\ T \subseteq Nat
  BY <1>1 DEF StoreListed
<1>3. PICK x \in T : \A y \in T : x <= y
  <2> HIDE DEF T
  <2> QED
    BY <1>2, Least
<1>4. x \in DOMAIN ListedStores /\ ListedStores[x] = s /\ \A j \in 1..(x - 1) : ListedStores[j] # s
  <2>1. x \in Nat /\ x \in 1..Len(ListedStores) /\ DOMAIN ListedStores = 1..Len(ListedStores)
    BY <1>1, LenProperties
  <2>2. \A j \in 1..(x - 1) : j \in DOMAIN ListedStores /\ ~(x <= j)
    BY <2>1
  <2> QED
    BY <1>3, <2>2
<1>5. /\ StoreRank(s) \in DOMAIN ListedStores /\ ListedStores[StoreRank(s)] = s
      /\ \A j \in 1..(StoreRank(s) - 1) : ListedStores[j] # s
  BY <1>4 DEF StoreRank
<1>6. \A k \in DOMAIN ListedStores : ListedStores[k] = s => StoreRank(s) <= k
  <2> SUFFICES ASSUME NEW k \in DOMAIN ListedStores, ListedStores[k] = s, ~(StoreRank(s) <= k)
               PROVE  FALSE
    OBVIOUS
  <2>1. PICK r : r = StoreRank(s)
    OBVIOUS
  <2>2. k \in Nat /\ k \in 1..Len(ListedStores) /\ r \in Nat /\ ~(r <= k)
    BY <1>1, <1>5, <2>1, LenProperties
  <2>3. k \in 1..(r - 1)
    BY <2>2
  <2> QED
    BY <1>5, <2>1, <2>3
<1> QED
  BY <1>1, <1>5, <1>6

\* Of the folders still to do, the one that a name leads to is the first.
LEMMA NotLater ==
    ASSUME IndInv, NEW q \in Seq(ToldFolders), QueueOK(q), q # <<>>,
           NEW g \in exists, Finds(Stamp(q[1].fid), g)
    PROVE  \A k \in DOMAIN q : k # 1 => q[k].fid # g
<1> SUFFICES ASSUME NEW k \in DOMAIN q, k # 1, q[k].fid = g PROVE FALSE
  OBVIOUS
<1> DEFINE f == q[1].fid
<1>1. 1 \in DOMAIN q /\ k \in Nat /\ 1 < k
  BY EmptySeq, LenProperties
<1>2. /\ f # g /\ f \in exists /\ g \in exists /\ StoreListed(f[1]) /\ StoreListed(g[1])
      /\ f[2] = g[2] => StoreRank(f[1]) <= StoreRank(g[1])
  BY <1>1 DEF QueueOK
<1>3. f \in FolderIds /\ g \in FolderIds
  BY <1>2 DEF IndInv, DiskOK
<1>4. f = <<f[1], f[2], f[3]>> /\ g = <<g[1], g[2], g[3]>>
  BY <1>3, SMTT(30) DEF FolderIds
<1>5. PICK r \in DOMAIN ListedStores :
         /\ ListedStores[r] = g[1]
         /\ \A j \in 1..(r - 1) : <<ListedStores[j], f[2], f[3]>> \notin exists
  BY DEF Finds, Stamp
<1>6. g[2] = f[2] /\ g[3] = f[3]
  BY DEF Finds, Stamp
<1>7. PICK a : a = StoreRank(f[1])
  OBVIOUS
<1>8. PICK b : b = StoreRank(g[1])
  OBVIOUS
<1>9. /\ a \in DOMAIN ListedStores /\ ListedStores[a] = f[1]
      /\ b \in DOMAIN ListedStores /\ ListedStores[b] = g[1] /\ b <= r /\ a <= b
      /\ a \in Nat /\ b \in Nat
  BY <1>2, <1>5, <1>6, <1>7, <1>8, RankIs
<1>10. a \notin 1..(r - 1)
  BY <1>2, <1>4, <1>5, <1>9
<1>11. a = b
  <2>1. r \in Nat /\ a >= 1
    <3>1. ListedStores \in Seq(Stores)
      <4>1. <<Central>> \in Seq(Stores) /\ registered \in Seq(Stores)
        BY TrashAssumption DEF IndInv, DiskOK
      <4> QED
        BY <4>1, ConcatProperties DEF ListedStores
    <3> QED
      BY <1>5, <1>9, <3>1, LenProperties
  <2> QED
    BY <1>9, <1>10, <2>1
<1> QED
  BY <1>2, <1>4, <1>6, <1>9, <1>11

-----------------------------------------------------------------------------
(* recover, entry by entry *)

\* What is at a path stays at it, if only a free path is filled.
LEMMA StillThere ==
    ASSUME NEW t, fs[t] = None, \A q \in Paths : q # t => fs'[q] = fs[q]
    PROVE  \A i \in Items : AtPath(i) => AtPath(i)'
<1>1. \A i \in Items : Whole(i) \in Cells
  BY DEF Whole, Cells
<1> QED
  BY <1>1, NoneAssumption DEF AtPath, Whole

\* A recovery or a clean has nothing to stage in the next state either.
LEMMA QueuedNext ==
    \A j : j.pc \in Queued \cup {"idle"} /\ j.todo = <<>> /\ j.done = <<>>
              => TodoOK(j)' /\ DestOK(j)'
BY DEF TodoOK, DestOK, Queued, Trashing, Pending

\* The job after an entry.
LEMMA NextEntryIs ==
    ASSUME NEW j \in ToldJobs, NEW ok \in BOOLEAN, j.queue # <<>>, NEW n, n = NextEntry(j, ok)
    PROVE  /\ n.pc = "recover" /\ n.mode = j.mode /\ n.todo = j.todo /\ n.done = j.done
           /\ n.failed = (j.failed \/ ~ok)
           /\ DOMAIN n.queue = DOMAIN j.queue /\ 1 \in DOMAIN j.queue
           /\ n.queue[1].fid = j.queue[1].fid
           /\ n.queue[1].entries = Tail(j.queue[1].entries)
           /\ \A k \in DOMAIN j.queue : k # 1 => n.queue[k] = j.queue[k]
<1>1. j.queue \in Seq(ToldFolders) /\ j.failed \in BOOLEAN
  BY DEF ToldJobs
<1>2. 1 \in DOMAIN j.queue /\ j.queue[1] \in ToldFolders
  BY <1>1, EmptySeq, LenProperties
<1>3. PICK h : h = [j.queue[1] EXCEPT !.entries = Tail(@)]
  OBVIOUS
<1>4. h.fid = j.queue[1].fid /\ h.entries = Tail(j.queue[1].entries)
  BY <1>2, <1>3 DEF ToldFolders
<1>5. n = [j EXCEPT !.pc = "recover", !.queue = [@ EXCEPT ![1] = h], !.failed = @ \/ ~ok]
  BY <1>3 DEF NextEntry
<1>6. n.queue = [j.queue EXCEPT ![1] = h]
  BY <1>5 DEF ToldJobs
<1> QED
  BY <1>2, <1>4, <1>5, <1>6 DEF ToldJobs

\* What a step of recover that is through with an entry has to leave.
LEMMA EntrySolo ==
    ASSUME IndInv, SoloInv, OneProcess, NEW p \in Procs, NEW j, j = job[p],
           j.pc \in {"recover", "unlink"}, NEW ok \in BOOLEAN, NEW n, n = NextEntry(j, ok),
           job' = [job EXCEPT ![p] = n], UNCHANGED <<exists, manifest, registered>>,
           FoldersOK',
           ~n.failed /\ j.mode # "metadata" /\ manifest[j.queue[1].fid] # <<>> =>
              Back(j.queue[1].fid, Tail(j.queue[1].entries))'
    PROVE  SoloInv'
<1>1. /\ j \in ToldJobs /\ j.queue # <<>> /\ TodoOK(j) /\ QueueOK(j.queue) /\ BackOK(j)
      /\ job \in [Procs -> GoodJobs]
  BY FirstFolder DEF SoloInv, SoloOK, Queued, IndInv
<1>2. /\ n.pc = "recover" /\ n.mode = j.mode /\ n.todo = j.todo /\ n.done = j.done
      /\ DOMAIN n.queue = DOMAIN j.queue /\ 1 \in DOMAIN j.queue
      /\ n.queue[1].fid = j.queue[1].fid
      /\ n.queue[1].entries = Tail(j.queue[1].entries)
      /\ \A k \in DOMAIN j.queue : k # 1 => n.queue[k] = j.queue[k]
  BY <1>1, NextEntryIs
<1>3. job'[p] = n
  BY <1>1
<1>4. j.todo = <<>> /\ j.done = <<>>
  BY <1>1 DEF TodoOK, Trashing
<1>5. TodoOK(job[p])' /\ DestOK(job[p])'
  <2>1. n.pc \in Queued \cup {"idle"} /\ n.todo = <<>> /\ n.done = <<>>
    BY <1>2, <1>4 DEF Queued
  <2>2. \A m : m = n => TodoOK(m)' /\ DestOK(m)'
    BY <2>1, QueuedNext
  <2> QED
    BY <1>3, <2>2
<1>6. QueueOK(n.queue)
  <2>1. \A k \in DOMAIN n.queue : k \in DOMAIN j.queue /\ n.queue[k].fid = j.queue[k].fid
    BY <1>2
  <2> QED
    BY <1>1, <2>1 DEF QueueOK
<1>7. (job[p].pc \in Queued => QueueOK(job[p].queue))'
  <2>1. \A q : q = n.queue => QueueOK(q)'
    BY <1>6, SameList
  <2> QED
    BY <1>3, <2>1
<1>8. BackOK(n)'
  <2>1. \A k \in DOMAIN n.queue : k # 1 => n.queue[k].entries = manifest'[n.queue[k].fid]
    BY <1>1, <1>2 DEF BackOK
  <2>2. ~n.failed /\ n.mode # "metadata" /\ manifest'[n.queue[1].fid] # <<>>
          => \A f, r : f = n.queue[1].fid /\ r = n.queue[1].entries => Back(f, r)'
    <3>1. PICK f : f = j.queue[1].fid
      OBVIOUS
    <3>2. PICK r : r = Tail(j.queue[1].entries)
      OBVIOUS
    <3>3. ~n.failed /\ j.mode # "metadata" /\ manifest[f] # <<>> => Back(f, r)'
      BY <3>1, <3>2
    <3> QED
      BY <1>2, <3>1, <3>2, <3>3
  <2>3. ~n.failed /\ n.mode # "metadata" /\ manifest'[n.queue[1].fid] # <<>>
          => Back(n.queue[1].fid, n.queue[1].entries)'
    BY <2>2
  <2> QED
    BY <2>1, <2>3 DEF BackOK
<1>9. (job[p].pc \in {"recover", "unlink"} => BackOK(job[p]))'
  <2>1. \A m : m = n => BackOK(m)'
    BY <1>8
  <2> QED
    BY <1>3, <2>1
<1> QED
  BY <1>2, <1>3, <1>5, <1>7, <1>9, SoloIs

\* The folders are as they were.
LEMMA SameFolders == ASSUME FoldersOK, UNCHANGED disk PROVE FoldersOK'
<1>1. UNCHANGED <<exists, content, manifest>> /\ \A f, es : Tied(f, es)' <=> Tied(f, es)
  BY DEF disk, Tied
<1> QED
  BY <1>1 DEF FoldersOK

\* What the rest of the entries has to bring back, once the first one is back.
LEMMA BackOn ==
    ASSUME NEW f, NEW r \in Seq(Told), r # <<>>, Back(f, r), manifest' = manifest,
           \A i \in Items : AtPath(i) => AtPath(i)',
           f \in FolderIds, content \in [FolderIds -> [Names -> Cells \cup {None}]],
           manifest \in [FolderIds -> Seq(Told)],
           \A n \in Names : content'[f][n] \in {None, content[f][n]},
           LET e == Head(r) IN
           /\ content'[f][Base(e)] # None /\ content'[f][Base(e)].whole /\ e.stored
                 => \A i : i = content'[f][Base(e)].item => AtPath(i)'
           /\ e.link # None => AtPath(e.link)'
    PROVE  Back(f, Tail(r))'
<1> SUFFICES ASSUME NEW e, e = Head(r), NEW t, t = Tail(r) PROVE Back(f, t)'
  OBVIOUS
<1>1. /\ \A k \in DOMAIN t : k + 1 \in DOMAIN r /\ t[k] = r[k + 1]
      /\ \A k \in DOMAIN r : k # 1 => k - 1 \in DOMAIN t /\ t[k - 1] = r[k]
      /\ r[1] = e
  BY TailAt
<1>2. \A k \in DOMAIN r : r[k] = e \/ \E l \in DOMAIN t : t[l] = r[k]
  BY <1>1
<1>3. \A k \in DOMAIN t : \E l \in DOMAIN manifest'[f] : t[k] = manifest'[f][l]
  BY <1>1 DEF Back
<1>4. ASSUME NEW n \in Names, content'[f][n] # None, content'[f][n].whole,
             NEW i, i = content[f][n].item
      PROVE  \/ AtPath(i)'
             \/ \E k \in DOMAIN t : t[k].stored /\ Base(t[k]) = n
  <2>1. content'[f][n] = content[f][n] /\ i \in Items
    BY <1>4, NoneAssumption DEF Cells
  <2>2. CASE AtPath(i)
    BY <2>1, <2>2
  <2>3. CASE \E k \in DOMAIN r : r[k].stored /\ Base(r[k]) = n
    <3>1. PICK k \in DOMAIN r : r[k].stored /\ Base(r[k]) = n
      BY <2>3
    <3>2. CASE r[k] = e
      BY <1>4, <2>1, <3>1, <3>2
    <3> QED
      BY <1>2, <3>1, <3>2
  <2> QED
    BY <1>4, <2>1, <2>2, <2>3 DEF Back
<1>5. ASSUME NEW k \in DOMAIN manifest[f], NEW i, i = manifest[f][k].link, i # None
      PROVE  \/ AtPath(i)'
             \/ \E l \in DOMAIN t : t[l].link = i
  <2>1. i \in Items
    <3>1. manifest[f] \in Seq(Told)
      OBVIOUS
    <3>2. manifest[f][k] \in Told
      BY <3>1
    <3> QED
      BY <1>5, <3>2 DEF Told, Entries
  <2>2. AtPath(i) \/ \E l \in DOMAIN r : r[l].link = i
    BY <1>5 DEF Back
  <2>3. e.link = i => AtPath(i)'
    <3>1. e.link # None => AtPath(e.link)'
      OBVIOUS
    <3> QED
      BY <1>5, <3>1
  <2> QED
    BY <1>2, <2>1, <2>2, <2>3
<1>6. \A n \in Names : content'[f][n] # None /\ content'[f][n].whole =>
         \/ AtPath(content[f][n].item)'
         \/ \E k \in DOMAIN t : t[k].stored /\ Base(t[k]) = n
  <2> SUFFICES ASSUME NEW n \in Names, content'[f][n] # None, content'[f][n].whole
               PROVE  \/ AtPath(content[f][n].item)'
                      \/ \E k \in DOMAIN t : t[k].stored /\ Base(t[k]) = n
    OBVIOUS
  <2>1. PICK i : i = content[f][n].item
    OBVIOUS
  <2>2. AtPath(i)' \/ \E k \in DOMAIN t : t[k].stored /\ Base(t[k]) = n
    BY <1>4, <2>1
  <2>3. i = content'[f][n].item
    BY <2>1
  <2> QED
    BY <2>2, <2>3
<1>7. \A k \in DOMAIN manifest'[f] : manifest'[f][k].link # None =>
         \/ AtPath(manifest[f][k].link)'
         \/ \E l \in DOMAIN t : t[l].link = manifest'[f][k].link
  <2> SUFFICES ASSUME NEW k \in DOMAIN manifest'[f], manifest'[f][k].link # None
               PROVE  \/ AtPath(manifest[f][k].link)'
                      \/ \E l \in DOMAIN t : t[l].link = manifest'[f][k].link
    OBVIOUS
  <2>1. PICK i : i = manifest'[f][k].link
    OBVIOUS
  <2>2. AtPath(i)' \/ \E l \in DOMAIN t : t[l].link = i
    BY <1>5, <2>1
  <2> QED
    BY <2>1, <2>2
<1> QED
  BY <1>3, <1>6, <1>7 DEF Back

\* What is back stays back.
LEMMA BackGrows ==
    ASSUME IndInv, UNCHANGED <<content, manifest>>, \A i \in Items : AtPath(i) => AtPath(i)'
    PROVE  \A g \in FolderIds : \A s : Back(g, s) => Back(g, s)'
<1> SUFFICES ASSUME NEW g \in FolderIds, NEW s, Back(g, s) PROVE Back(g, s)'
  OBVIOUS
<1>1. \A n \in Names : content[g][n] # None => content[g][n].item \in Items
  BY DEF IndInv, DiskOK, Cells
<1>2. \A k \in DOMAIN manifest[g] : manifest[g][k].link \in Items \cup {None}
  <2> SUFFICES ASSUME NEW k \in DOMAIN manifest[g]
               PROVE  manifest[g][k].link \in Items \cup {None}
    OBVIOUS
  <2>1. manifest[g] \in Seq(Told)
    BY DEF IndInv, DiskOK
  <2>2. manifest[g][k] \in Told
    BY <2>1, SMTT(30)
  <2> QED
    BY <2>2 DEF Told, Entries
<1> QED
  BY <1>1, <1>2 DEF Back

\* The entry a recovery is at.
LEMMA EntryAt ==
    ASSUME IndInv, SoloInv, NEW p \in Procs, job[p].pc \in {"recover", "unlink"},
           job[p].queue[1].entries # <<>>,
           NEW j, j = job[p], NEW f, f = j.queue[1].fid, NEW r, r = j.queue[1].entries,
           NEW e, e = Head(r)
    PROVE  /\ j \in ToldJobs /\ j.queue # <<>> /\ f \in FolderIds /\ f \in exists
           /\ r \in Seq(Told) /\ r # <<>> /\ e \in Told /\ Base(e) \in Names
           /\ 1 \in DOMAIN r /\ e = r[1]
           /\ Target(p, e) \in Paths /\ Backup(p, e) = content[f][Base(e)]
           /\ FoldersOK /\ BackOK(j) /\ fs \in [Paths -> Cells \cup {None}]
           /\ content \in [FolderIds -> [Names -> Cells \cup {None}]]
           /\ manifest \in [FolderIds -> Seq(Told)] /\ job \in [Procs -> GoodJobs]
<1>1. j \in ToldJobs /\ j.queue # <<>> /\ f \in FolderIds /\ r \in Seq(Told) /\ r # <<>>
  BY FirstFolder
<1>2. e \in Told /\ Base(e) \in Names /\ Target(p, e) \in Paths
  BY NextToldEntry DEF Base
<1>3. Backup(p, e) = content[f][Base(e)]
  BY DEF Backup, Base
<1>4. f \in exists
  <2>1. QueueOK(j.queue)
    BY DEF SoloInv, SoloOK, Queued
  <2>2. 1 \in DOMAIN j.queue
    BY <1>1, EmptySeq, LenProperties DEF ToldJobs
  <2> QED
    BY <2>1, <2>2 DEF QueueOK
<1>5. FoldersOK /\ BackOK(j)
  BY DEF SoloInv, SoloOK
<1>6. 1 \in DOMAIN r /\ e = r[1]
  BY <1>1, TailAt
<1> QED
  BY <1>1, <1>2, <1>3, <1>4, <1>5, <1>6, SMTT(30) DEF IndInv, DiskOK

\* Metadata alone: nothing has to come back.
LEMMA RecoverMetadataSolo ==
    ASSUME IndInv, SoloInv, OneProcess, NEW p \in Procs, RecoverMetadata(p)
    PROVE  SoloInv'
<1> SUFFICES ASSUME NEW j, j = job[p], NEW n, n = NextEntry(j, TRUE) PROVE SoloInv'
  OBVIOUS
<1>1. /\ j.pc = "recover" /\ j.mode = "metadata" /\ UNCHANGED <<disk, registered>>
      /\ job' = [job EXCEPT ![p] = n] /\ FoldersOK
  BY DEF RecoverMetadata, Recovering, At, Stampable, SoloInv
<1>2. FoldersOK' /\ UNCHANGED <<exists, manifest, registered>>
  BY <1>1, SameFolders DEF disk
<1> QED
  BY <1>1, <1>2, EntrySolo

\* An entry that was not recovered: from here on nothing is removed.
LEMMA RecoverFailSolo ==
    ASSUME IndInv, SoloInv, OneProcess, NEW p \in Procs, RecoverFail(p)
    PROVE  SoloInv'
<1> SUFFICES ASSUME NEW j, j = job[p], NEW n, n = NextEntry(j, FALSE) PROVE SoloInv'
  OBVIOUS
<1>1. /\ j.pc = "recover" /\ UNCHANGED <<disk, registered>>
      /\ job' = [job EXCEPT ![p] = n] /\ FoldersOK
  BY DEF RecoverFail, Recovering, At, SoloInv
<1>2. FoldersOK' /\ UNCHANGED <<exists, manifest, registered>>
  BY <1>1, SameFolders DEF disk
<1>3. n.failed
  BY <1>1, FirstFolder, NextEntryIs, ZenonT(30)
<1> QED
  BY <1>1, <1>2, <1>3, EntrySolo

\* A link that was made again is back.
LEMMA RecoverLinkSolo ==
    ASSUME IndInv, SoloInv, OneProcess, NEW p \in Procs, RecoverLink(p)
    PROVE  SoloInv'
<1> SUFFICES ASSUME NEW j, j = job[p], NEW n, n = NextEntry(j, TRUE),
                    NEW f, f = j.queue[1].fid, NEW r, r = j.queue[1].entries,
                    NEW e, e = Head(r), NEW t, t = Target(p, e)
             PROVE  SoloInv'
  BY ZenonT(30)
<1>1. /\ j.pc = "recover" /\ UNCHANGED <<disk, registered>> /\ r # <<>>
      /\ job' = [job EXCEPT ![p] = n] /\ e.kind \in LinkKinds
      /\ fs[t] = None /\ fs' = [fs EXCEPT ![t] = Whole(e.link)]
  BY SMTT(30) DEF RecoverLink, Recovering, At, Relinkable, LinkKinds, Whole
<1>2. /\ j \in ToldJobs /\ j.queue # <<>> /\ f \in FolderIds
      /\ r \in Seq(Told) /\ e \in Told /\ Base(e) \in Names
      /\ 1 \in DOMAIN r /\ e = r[1] /\ t \in Paths
      /\ FoldersOK /\ BackOK(j) /\ fs \in [Paths -> Cells \cup {None}]
      /\ content \in [FolderIds -> [Names -> Cells \cup {None}]]
      /\ manifest \in [FolderIds -> Seq(Told)]
  BY <1>1, EntryAt, SMTT(30)
<1>3. FoldersOK' /\ UNCHANGED <<exists, content, manifest, registered>>
  BY <1>1, <1>2, SameFolders, SMTT(30) DEF disk
<1>4. AtPath(e.link)' /\ \A i \in Items : AtPath(i) => AtPath(i)'
  <2>1. fs'[t] = Whole(e.link) /\ \A q \in Paths : q # t => fs'[q] = fs[q]
    BY <1>1, <1>2, SMTT(30)
  <2>2. \A i \in Items : AtPath(i) => AtPath(i)'
    BY <1>1, <2>1, StillThere, SMTT(30)
  <2> QED
    BY <1>2, <2>1, <2>2 DEF AtPath, Whole
<1>5. ASSUME ~n.failed, j.mode # "metadata", manifest[f] # <<>>
      PROVE  Back(f, Tail(r))'
  <2>1. Back(f, r) /\ Tied(f, manifest[f])
    <3>1. ~j.failed
      BY <1>2, <1>5, NextEntryIs DEF ToldJobs
    <3> QED
      BY <1>2, <1>5, <3>1, SMTT(30) DEF BackOK, FoldersOK
  <2>2. e.stored => content[f][Base(e)] \in {None, Whole(e.link)}
    <3>0. 1 \in DOMAIN r /\ e = r[1] /\ Back(f, r)
      BY <1>2, <2>1, SMTT(30)
    <3>1. PICK l \in DOMAIN manifest[f] : e = manifest[f][l]
      BY ONLY <3>0 DEF Back
    <3> QED
      BY <1>1, <2>1, <3>1, ZenonT(30) DEF Tied
  <2>3. content'[f][Base(e)] # None /\ content'[f][Base(e)].whole /\ e.stored
           => \A i : i = content'[f][Base(e)].item => AtPath(i)'
    <3>1. content'[f][Base(e)] = content[f][Base(e)]
      BY <1>3
    <3>2. Whole(e.link).item = e.link
      BY DEF Whole
    <3>3. \A i : i = e.link => AtPath(i)'
      BY <1>4
    <3> QED
      BY ONLY <2>2, <3>1, <3>2, <3>3
  <2>4. \A n2 \in Names : content'[f][n2] \in {None, content[f][n2]}
    BY <1>3
  <2> QED
    BY <1>1, <1>2, <1>3, <1>4, <2>1, <2>3, <2>4, BackOn, ZenonT(30)
<1> QED
  BY <1>1, <1>3, <1>5, EntrySolo

\* What came back as a copy is at its path, and in the folder.
LEMMA RecoverContentSolo ==
    ASSUME IndInv, SoloInv, OneProcess, NEW p \in Procs, RecoverContent(p)
    PROVE  SoloInv'
<1> SUFFICES ASSUME NEW j, j = job[p], NEW f, f = j.queue[1].fid,
                    NEW r, r = j.queue[1].entries,
                    NEW e, e = Head(r), NEW t, t = Target(p, e)
             PROVE  SoloInv'
  BY SMTT(30)
<1>1. /\ j.pc = "recover" /\ UNCHANGED <<disk, registered>> /\ r # <<>>
      /\ job' = [job EXCEPT ![p].pc = "unlink"]
      /\ fs[t] = None /\ fs' = [fs EXCEPT ![t] = Backup(p, e)]
      /\ e.stored /\ e.kind \notin {"symlink", "junction"} /\ Backup(p, e) # None
  BY SMTT(30) DEF RecoverContent, Recovering, At, Restorable, Reaches
<1>2. /\ j \in ToldJobs /\ j.queue # <<>> /\ t \in Paths /\ FoldersOK /\ BackOK(j)
      /\ fs \in [Paths -> Cells \cup {None}] /\ job \in [Procs -> GoodJobs]
  BY <1>1, EntryAt, SMTT(30)
<1>3. FoldersOK' /\ UNCHANGED <<exists, content, manifest, registered>>
  BY <1>1, <1>2, SameFolders, SMTT(30) DEF disk
<1>4. \A i \in Items : AtPath(i) => AtPath(i)'
  <2>1. \A q \in Paths : q # t => fs'[q] = fs[q]
    BY <1>1, <1>2
  <2> QED
    BY <1>1, <2>1, StillThere, SMTT(30)
<1>5. PICK n : n = [j EXCEPT !.pc = "unlink"]
  OBVIOUS
<1>6. /\ n.pc = "unlink" /\ n.queue = j.queue /\ n.todo = j.todo /\ n.done = j.done
      /\ n.failed = j.failed /\ n.mode = j.mode
  BY <1>2, <1>5 DEF ToldJobs
<1>7. job'[p] = n
  BY <1>1, <1>2, <1>5
<1>8. TodoOK(j) /\ QueueOK(j.queue)
  BY <1>1, SMTT(30) DEF SoloInv, SoloOK, Queued
<1>9. TodoOK(job[p])' /\ DestOK(job[p])'
  <2>1. n.pc \in Queued \cup {"idle"} /\ n.todo = <<>> /\ n.done = <<>>
    BY <1>1, <1>6, <1>8 DEF Queued, TodoOK, Trashing
  <2>2. \A m : m = n => TodoOK(m)' /\ DestOK(m)'
    BY <2>1, QueuedNext
  <2> QED
    BY <1>7, <2>2, SMTT(30)
<1>10. (job[p].pc \in Queued => QueueOK(job[p].queue))'
  <2>1. \A q : q = n.queue => QueueOK(q)'
    BY <1>3, <1>6, <1>8, SameList
  <2> QED
    BY <1>7, <2>1
<1>11. \A g \in FolderIds : \A s : Back(g, s) => Back(g, s)'
  BY <1>3, <1>4, BackGrows
<1>12. (job[p].pc \in {"recover", "unlink"} => BackOK(job[p]))'
  <2>0. f \in FolderIds
    BY <1>1, EntryAt
  <2>1. BackOK(n)'
    BY <1>2, <1>3, <1>6, <1>11, <2>0 DEF BackOK
  <2>2. \A m : m = n => BackOK(m)'
    BY <2>1
  <2> QED
    BY <1>7, <2>2, SMTT(30)
<1>13. (job[p].pc = "unlink" => UnlinkOK(p))'
  <2>1. e = Head(job'[p].queue[1].entries) /\ f = job'[p].queue[1].fid
    BY <1>6, <1>7
  <2>2. \A x : Target(p, x)' = Target(p, x)
    BY <1>6, <1>7 DEF Target
  <2>3. Backup(p, e) = content[f][BaseName[e.path]]
    BY DEF Backup
  <2>4. \A x : x = e => Backup(p, x)' = Backup(p, e)
    BY <1>3, <1>6, <1>7, <2>3, ZenonT(30) DEF Backup
  <2>5. fs'[t] = Backup(p, e)
    BY <1>1, <1>2
  <2> QED
    BY <1>1, <2>1, <2>2, <2>4, <2>5, Zenon DEF UnlinkOK
<1> QED
  BY <1>3, <1>9, <1>10, <1>12, <1>13, SoloIs

\* Less of what is in a folder than before, and its entries account for it still.
LEMMA TiedLess ==
    ASSUME NEW f, NEW es, Tied(f, es),
           \A n \in Names : \/ content'[f][n] \in {None, content[f][n]}
                            \/ /\ content[f][n] # None /\ ~content'[f][n].whole
                               /\ KindOf[content[f][n].item] = "dir",
           \A k \in DOMAIN es : Base(es[k]) \in Names
    PROVE  Tied(f, es)'
<1>1. \A i : KindOf[i] \in LinkKinds => KindOf[Whole(i).item] # "dir"
  BY DEF LinkKinds, Whole
<1> QED
  BY <1>1 DEF Tied

\* The entries of a manifest have base names.
LEMMA EntryNames ==
    ASSUME NEW es \in Seq(Told)
    PROVE  \A k \in DOMAIN es : es[k] \in Told /\ Base(es[k]) \in Names
<1> SUFFICES ASSUME NEW k \in DOMAIN es PROVE es[k] \in Told /\ Base(es[k]) \in Names
  OBVIOUS
<1>1. es[k] \in Told
  OBVIOUS
<1> QED
  BY <1>1, TrashAssumption DEF Told, Entries, Base

\* The copy in the folder goes once the thing is back.
LEMMA UnlinkSolo ==
    ASSUME IndInv, SoloInv, OneProcess, NEW p \in Procs, Unlink(p)
    PROVE  SoloInv'
<1> SUFFICES ASSUME NEW j, j = job[p], NEW f, f = j.queue[1].fid,
                    NEW r, r = j.queue[1].entries,
                    NEW e, e = Head(r), NEW t, t = Target(p, e), NEW b, b = Base(e)
             PROVE  SoloInv'
  OBVIOUS
<1>1. j.pc = "unlink" /\ r # <<>>
  BY JobAt, ZenonT(30) DEF Unlink, At, Ready
<1>2. /\ j \in ToldJobs /\ j.queue # <<>> /\ f \in FolderIds /\ f \in exists
      /\ r \in Seq(Told) /\ e \in Told /\ b \in Names
      /\ 1 \in DOMAIN r /\ e = r[1] /\ t \in Paths /\ Backup(p, e) = content[f][b]
      /\ FoldersOK /\ BackOK(j) /\ fs \in [Paths -> Cells \cup {None}]
      /\ content \in [FolderIds -> [Names -> Cells \cup {None}]]
      /\ manifest \in [FolderIds -> Seq(Told)]
  BY <1>1, EntryAt
<1>3. /\ e.stored /\ content[f][b] # None /\ fs[t] = content[f][b]
  <2>1. UnlinkOK(p)
    BY <1>1 DEF SoloInv, SoloOK
  <2> QED
    BY <1>2, <2>1, Zenon DEF UnlinkOK
<1>4. /\ UNCHANGED <<fs, exists, manifest, registered>>
      /\ \/ /\ job' = [job EXCEPT ![p] = NextEntry(j, TRUE)]
            /\ content' = [content EXCEPT ![f][b] = None]
         \/ /\ job' = [job EXCEPT ![p] = NextEntry(j, FALSE)]
            /\ \/ content' = content
               \/ /\ KindOf[content[f][b].item] = "dir"
                  /\ content' = [content EXCEPT ![f][b].whole = FALSE]
  BY <1>2, <1>3, Zenon DEF Unlink, Base
<1>5. /\ \A g \in FolderIds : g # f => content'[g] = content[g]
      /\ \A n \in Names : \/ content'[f][n] \in {None, content[f][n]}
                          \/ /\ content[f][n] # None /\ ~content'[f][n].whole
                             /\ KindOf[content[f][n].item] = "dir"
  <2>1. CASE content' = [content EXCEPT ![f][b] = None]
    BY <1>2, <2>1, Zenon
  <2>2. CASE /\ KindOf[content[f][b].item] = "dir"
             /\ content' = [content EXCEPT ![f][b].whole = FALSE]
    <3>1. content[f][b] \in Cells
      BY <1>2, <1>3, ZenonT(30)
    <3>2. ~[content[f][b] EXCEPT !.whole = FALSE].whole
      BY <3>1 DEF Cells
    <3>3. /\ content'[f][b] = [content[f][b] EXCEPT !.whole = FALSE]
          /\ \A n \in Names : n # b => content'[f][n] = content[f][n]
          /\ \A g \in FolderIds : g # f => content'[g] = content[g]
      BY <1>2, <2>2, Zenon
    <3>4. \A n \in Names : n # b => content'[f][n] \in {None, content[f][n]}
      BY <3>3, Zenon
    <3>5. ~content'[f][b].whole
      BY <3>2, <3>3, ZenonT(30)
    <3> QED
      BY <1>3, <2>2, <3>3, <3>4, <3>5, ZenonT(40)
  <2>3. CASE content' = content
    BY <2>3
  <2> QED
    BY <1>4, <2>1, <2>2, <2>3, Zenon
<1>6. FoldersOK'
  <2>1. manifest[f] # <<>> => Tied(f, manifest[f])'
    <3>1. \A k \in DOMAIN manifest[f] : Base(manifest[f][k]) \in Names
      BY <1>2, EntryNames
    <3>2. \A es : es = manifest[f] /\ es # <<>> => Tied(f, es)'
      BY <1>2, <1>5, <3>1, TiedLess, ZenonT(30) DEF FoldersOK
    <3>3. PICK es : es = manifest[f]
      OBVIOUS
    <3> QED
      BY <1>4, <3>2, <3>3, Zenon
  <2>2. \A g \in FolderIds : g # f => \A es : Tied(g, es)' <=> Tied(g, es)
    BY <1>5, ZenonT(40) DEF Tied
  <2> QED
    BY <1>2, <1>4, <1>5, <2>1, <2>2, ZenonT(30) DEF FoldersOK
<1>7. CASE /\ job' = [job EXCEPT ![p] = NextEntry(j, TRUE)]
           /\ content' = [content EXCEPT ![f][b] = None]
  <2>1. PICK n : n = NextEntry(j, TRUE)
    OBVIOUS
  <2>2. ASSUME ~n.failed, j.mode # "metadata", manifest[f] # <<>>
        PROVE  Back(f, Tail(r))'
    <3>1. Back(f, r) /\ Tied(f, manifest[f])
      <4>1. ~j.failed
        BY <1>2, <2>1, <2>2, NextEntryIs, Zenon DEF ToldJobs
      <4> QED
        BY <1>2, <2>2, <4>1, Zenon DEF BackOK, FoldersOK
    <3>2. /\ content'[f][b] = None
          /\ \A n2 \in Names : content'[f][n2] \in {None, content[f][n2]}
          /\ \A i \in Items : AtPath(i) => AtPath(i)'
      <4>1. \A i \in Items : AtPath(i) => AtPath(i)'
        BY <1>4, Zenon DEF AtPath
      <4> QED
        BY <1>2, <1>7, <4>1, Zenon
    <3>3. e.link # None => AtPath(e.link)'
      <4>0. 1 \in DOMAIN r /\ e = r[1] /\ Back(f, r)
        BY <1>2, <3>1, Zenon
      <4>1. PICK l \in DOMAIN manifest[f] : e = manifest[f][l]
        BY ONLY <4>0 DEF Back
      <4>2. e.link # None => content[f][b] \in {None, Whole(e.link)}
        BY <1>3, <3>1, <4>1, ZenonT(40) DEF Tied
      <4>3. e.link # None => fs'[t] = [item |-> e.link, whole |-> TRUE]
        BY <1>3, <1>4, <4>2, Zenon DEF Whole
      <4> QED
        BY <1>2, <4>3, Zenon DEF AtPath
    <3>4. content'[f][Base(e)] # None /\ content'[f][Base(e)].whole /\ e.stored
             => \A i : i = content'[f][Base(e)].item => AtPath(i)'
      BY <3>2, Zenon
    <3>5. /\ r \in Seq(Told) /\ r # <<>> /\ f \in FolderIds /\ manifest' = manifest
          /\ content \in [FolderIds -> [Names -> Cells \cup {None}]]
          /\ manifest \in [FolderIds -> Seq(Told)] /\ e = Head(r)
      BY <1>1, <1>2, <1>4, Zenon
    <3> QED
      BY ONLY <3>1, <3>2, <3>3, <3>4, <3>5, BackOn
  <2>3. /\ UNCHANGED <<exists, manifest, registered>> /\ job' = [job EXCEPT ![p] = n]
        /\ j.pc \in {"recover", "unlink"} /\ TRUE \in BOOLEAN
    BY <1>1, <1>4, <1>7, <2>1, SMTT(30)
  <2>4. ~n.failed /\ j.mode # "metadata" /\ manifest[j.queue[1].fid] # <<>> =>
           Back(j.queue[1].fid, Tail(j.queue[1].entries))'
    BY <2>2
  <2>5. IndInv /\ SoloInv /\ OneProcess /\ p \in Procs /\ j = job[p]
    OBVIOUS
  <2> QED
    BY ONLY <1>6, <2>1, <2>3, <2>4, <2>5, EntrySolo
<1>8. CASE job' = [job EXCEPT ![p] = NextEntry(j, FALSE)]
  <2>1. PICK n : n = NextEntry(j, FALSE)
    OBVIOUS
  <2>2. n.failed
    BY <1>2, <2>1, NextEntryIs
  <2> QED
    BY <1>1, <1>4, <1>6, <1>8, <2>1, <2>2, EntrySolo, Zenon
<1> QED
  BY <1>4, <1>7, <1>8, Zenon

-----------------------------------------------------------------------------
(* The end of a folder *)

\* The job of recover or clean after a folder.
LEMMA NextFolderIs ==
    ASSUME NEW j \in ToldJobs, NEW step, NEW n, n = NextFolder(j, step)
    PROVE  \/ n = Idle
           \/ /\ n.pc = step /\ n.queue = Tail(j.queue) /\ n.todo = j.todo
              /\ n.done = j.done /\ n.failed = j.failed /\ n.mode = j.mode
              /\ Len(j.queue) # 1
  BY DEF NextFolder, ToldJobs

\* What remove_folder() does, and what it leaves alone.
LEMMA RemovedIs ==
    ASSUME IndInv, FoldersOK, NEW f, RemoveFolder(f)
    PROVE  /\ FoldersOK'
           /\ \/ UNCHANGED disk
              \/ \E g \in exists :
                    /\ Finds(Stamp(f), g) /\ exists' \in {exists, exists \ {g}}
                    /\ \A h \in FolderIds : h # g => /\ content'[h] = content[h]
                                                     /\ manifest'[h] = manifest[h]
<1>1. /\ content \in [FolderIds -> [Names -> Cells \cup {None}]]
      /\ manifest \in [FolderIds -> Seq(Told)] /\ exists \subseteq FolderIds
  BY DEF IndInv, DiskOK
<1>2. CASE UNCHANGED disk
  BY <1>2, SameFolders
<1>3. ASSUME NEW g \in exists, Finds(Stamp(f), g), exists' = exists \ {g},
             content' = [content EXCEPT ![g] = NoContent],
             manifest' = [manifest EXCEPT ![g] = <<>>]
      PROVE  FoldersOK' /\ \A h \in FolderIds : h # g => /\ content'[h] = content[h]
                                                         /\ manifest'[h] = manifest[h]
  <2>1. /\ \A h \in FolderIds : h # g => /\ content'[h] = content[h]
                                         /\ manifest'[h] = manifest[h]
        /\ g \in FolderIds /\ content'[g] = NoContent /\ manifest'[g] = <<>>
    BY <1>1, <1>3
  <2>2. \A h \in FolderIds : h # g => \A es : Tied(h, es)' <=> Tied(h, es)
    BY <2>1 DEF Tied
  <2>3. \A v : v = NoContent => v = NoContent'
    BY DEF NoContent
  <2> QED
    BY <1>3, <2>1, <2>2, <2>3 DEF FoldersOK
<1>4. ASSUME NEW g \in exists, Finds(Stamp(f), g), exists' = exists,
             NEW gone \in SUBSET Names, NEW m \in {manifest[g], <<>>},
             content' = [content EXCEPT ![g] =
                            [n \in Names |-> IF n \in gone THEN None ELSE content[g][n]]],
             manifest' = [manifest EXCEPT ![g] = m]
      PROVE  FoldersOK' /\ \A h \in FolderIds : h # g => /\ content'[h] = content[h]
                                                         /\ manifest'[h] = manifest[h]
  <2>1. /\ \A h \in FolderIds : h # g => /\ content'[h] = content[h]
                                         /\ manifest'[h] = manifest[h]
        /\ g \in FolderIds /\ manifest'[g] = m
        /\ \A n \in Names : content'[g][n] \in {None, content[g][n]}
    BY <1>1, <1>4
  <2>2. \A h \in FolderIds : h # g => \A es : Tied(h, es)' <=> Tied(h, es)
    BY <2>1 DEF Tied
  <2>3. m # <<>> => Tied(g, m)'
    <3>1. ASSUME m # <<>> PROVE Tied(g, m)'
      <4>1. m = manifest[g]
        BY <3>1
      <4>2. Tied(g, m) /\ m \in Seq(Told)
        BY <1>1, <2>1, <3>1, <4>1 DEF FoldersOK
      <4> QED
        BY <2>1, <4>2, EntryNames, TiedLess
    <3> QED
      BY <3>1
  <2>4. manifest'[g] # <<>> => \A es : es = manifest'[g] => Tied(g, es)'
    BY <2>1, <2>3
  <2> QED
    BY <1>4, <2>1, <2>2, <2>4 DEF FoldersOK
<1>5. ASSUME NEW g \in exists, Finds(Stamp(f), g), UNCHANGED exists,
             \E gone \in SUBSET Names :
                content' = [content EXCEPT ![g] =
                    [n \in Names |-> IF n \in gone THEN None ELSE @[n]]],
             \E m \in {manifest[g], <<>>} : manifest' = [manifest EXCEPT ![g] = m]
      PROVE  FoldersOK' /\ \A h \in FolderIds : h # g => /\ content'[h] = content[h]
                                                         /\ manifest'[h] = manifest[h]
  <2>1. PICK gone \in SUBSET Names :
                content' = [content EXCEPT ![g] =
                    [n \in Names |-> IF n \in gone THEN None ELSE content[g][n]]]
    BY <1>1, <1>5
  <2>2. PICK m \in {manifest[g], <<>>} : manifest' = [manifest EXCEPT ![g] = m]
    BY <1>5
  <2>3. exists' = exists
    BY <1>5
  <2> QED
    BY <1>4, <1>5, <2>1, <2>2, <2>3
<1> QED
  BY <1>2, <1>3, <1>5 DEF RemoveFolder

\* The next folder, and what its manifest accounts for.
LEMMA FreshNext ==
    ASSUME FoldersOK', NEW f \in FolderIds, NEW r, r = manifest'[f], r # <<>>
    PROVE  Back(f, r)'
  BY DEF FoldersOK, Tied, Back

\* What a step of recover or clean that is through with a folder has to leave.
LEMMA FolderSolo ==
    ASSUME IndInv, SoloInv, OneProcess, NEW p \in Procs, NEW j, j = job[p],
           NEW step, j.pc \in Queued \ {"unlink"}, step \in {"recover", "clean"},
           step = "recover" => j.pc = "recover",
           NEW n, n = NextFolder(j, step), job' = [job EXCEPT ![p] = n],
           UNCHANGED registered, FoldersOK',
           \/ UNCHANGED disk
           \/ \E g \in exists :
                 /\ Finds(Stamp(j.queue[1].fid), g) /\ exists' \in {exists, exists \ {g}}
                 /\ \A h \in FolderIds : h # g => /\ content'[h] = content[h]
                                                  /\ manifest'[h] = manifest[h]
    PROVE  /\ SoloInv'
           /\ j.pc = "recover" /\ job'[p].pc = "recover" =>
              job'[p].queue[1].entries = manifest'[job'[p].queue[1].fid]
<1>1. /\ j \in ToldJobs /\ j.queue # <<>> /\ j.queue \in Seq(ToldFolders)
      /\ job \in [Procs -> GoodJobs] /\ exists \subseteq FolderIds
  BY FirstFolder DEF Queued, IndInv, DiskOK, ToldJobs
<1>2. /\ TodoOK(j) /\ QueueOK(j.queue) /\ j.todo = <<>> /\ j.done = <<>>
      /\ j.pc = "recover" => BackOK(j)
  BY DEF SoloInv, SoloOK, Queued, TodoOK, Trashing
<1>3. PICK g : /\ \A k \in DOMAIN j.queue : k # 1 => j.queue[k].fid # g
               /\ exists' \in {exists, exists \ {g}}
               /\ \A h \in FolderIds : h # g => manifest'[h] = manifest[h]
  <2>1. CASE UNCHANGED disk
    <3>1. PICK g : g = j.queue[1].fid
      OBVIOUS
    <3>2. 1 \in DOMAIN j.queue /\ \A k \in DOMAIN j.queue : k \in Nat
      BY <1>1, EmptySeq, LenProperties
    <3>3. \A k \in DOMAIN j.queue : k # 1 => 1 < k
      BY <1>1, LenProperties
    <3>4. \A k \in DOMAIN j.queue : k # 1 => j.queue[k].fid # g
      BY <1>2, <3>1, <3>2, <3>3 DEF QueueOK
    <3> QED
      BY <2>1, <3>4 DEF disk
  <2>2. ASSUME NEW g \in exists, Finds(Stamp(j.queue[1].fid), g),
               exists' \in {exists, exists \ {g}},
               \A h \in FolderIds : h # g => /\ content'[h] = content[h]
                                             /\ manifest'[h] = manifest[h]
        PROVE  /\ \A k \in DOMAIN j.queue : k # 1 => j.queue[k].fid # g
               /\ exists' \in {exists, exists \ {g}}
               /\ \A h \in FolderIds : h # g => manifest'[h] = manifest[h]
    BY <1>1, <1>2, <2>2, NotLater
  <2> QED
    BY <2>1, <2>2, ZenonT(40)
<1>4. job'[p] = n
  BY <1>1
<1>5. CASE n = Idle
  <2>1. n.pc = "idle" /\ n.todo = <<>> /\ n.done = <<>>
    BY <1>5 DEF Idle
  <2>2. TodoOK(job[p])' /\ DestOK(job[p])'
    <3>1. \A m : m = n => TodoOK(m)' /\ DestOK(m)'
      BY <2>1, QueuedNext
    <3> QED
      BY <1>4, <3>1
  <2> QED
    BY <1>4, <2>1, <2>2, SoloIs DEF Queued
<1>6. CASE /\ n.pc = step /\ n.queue = Tail(j.queue) /\ n.todo = j.todo
           /\ n.done = j.done /\ n.failed = j.failed /\ n.mode = j.mode
           /\ Len(j.queue) # 1
  <2>1. TodoOK(job[p])' /\ DestOK(job[p])'
    <3>1. n.pc \in Queued \cup {"idle"} /\ n.todo = <<>> /\ n.done = <<>>
      BY <1>2, <1>6 DEF Queued
    <3>2. \A m : m = n => TodoOK(m)' /\ DestOK(m)'
      BY <3>1, QueuedNext
    <3> QED
      BY <1>4, <3>2
  <2>2. \A k \in DOMAIN n.queue : /\ k + 1 \in DOMAIN j.queue /\ k + 1 # 1
                                  /\ n.queue[k] = j.queue[k + 1] /\ k \in Nat
    <3>1. DOMAIN Tail(j.queue) \subseteq Nat
      BY <1>1, TailAt
    <3> QED
      BY <1>1, <1>6, <3>1, TailAt
  <2>3. QueueOK(n.queue)'
    <3>1. \A s : StoreRank(s)' = StoreRank(s) /\ (StoreListed(s)' <=> StoreListed(s))
      BY DEF StoreRank, StoreListed, ListedStores
    <3>2. \A k \in DOMAIN n.queue : n.queue[k].fid \in exists' /\ StoreListed(n.queue[k].fid[1])
      BY <1>2, <1>3, <2>2 DEF QueueOK
    <3>3. \A k, l \in DOMAIN n.queue : k < l => k + 1 < l + 1
      BY <2>2
    <3>4. \A k, l \in DOMAIN n.queue : k < l =>
             /\ n.queue[k].fid # n.queue[l].fid
             /\ n.queue[k].fid[2] = n.queue[l].fid[2] =>
                   StoreRank(n.queue[k].fid[1]) <= StoreRank(n.queue[l].fid[1])
      BY <1>2, <2>2, <3>3 DEF QueueOK
    <3> QED
      BY <3>1, <3>2, <3>4 DEF QueueOK
  <2>4. (job[p].pc \in Queued => QueueOK(job[p].queue))'
    <3>1. \A q : q = n.queue => QueueOK(q)'
      BY <2>3
    <3> QED
      BY <1>4, <3>1
  <2>5. j.pc = "recover" => \A k \in DOMAIN n.queue :
            n.queue[k].entries = manifest'[n.queue[k].fid] /\ n.queue[k].fid \in FolderIds
    <3>1. \A k \in DOMAIN j.queue : j.queue[k].fid \in FolderIds
      BY <1>1, <1>2 DEF QueueOK
    <3> QED
      BY <1>2, <1>3, <2>2, <3>1 DEF BackOK
  <2>9. 1 \in DOMAIN n.queue
    <3>1. Len(j.queue) \in Nat \ {0} /\ DOMAIN Tail(j.queue) = 1..Len(j.queue) - 1
      BY <1>1, TailAt
    <3>2. \A m \in Nat \ {0} : m # 1 => 1 \in 1..m - 1
      OBVIOUS
    <3>3. 1 \in DOMAIN Tail(j.queue)
      BY <1>6, <3>1, <3>2
    <3> QED
      BY <1>6, <3>3
  <2>6. j.pc = "recover" => BackOK(n)'
    <3> SUFFICES ASSUME j.pc = "recover" PROVE BackOK(n)'
      OBVIOUS
    <3>2. PICK f \in FolderIds : f = n.queue[1].fid
      BY <2>5, <2>9
    <3>3. PICK r : r = n.queue[1].entries
      OBVIOUS
    <3>4. manifest'[f] # <<>> => Back(f, r)'
      BY <2>5, <2>9, <3>2, <3>3, FreshNext
    <3>5. manifest'[n.queue[1].fid] # <<>> => Back(n.queue[1].fid, n.queue[1].entries)'
      BY <3>2, <3>3, <3>4
    <3> QED
      BY <2>5, <3>5 DEF BackOK
  <2>7. (job[p].pc \in {"recover", "unlink"} => BackOK(job[p]))'
    <3>1. \A m : m = n => (n.pc \in {"recover", "unlink"} => BackOK(m))'
      BY <1>6, <2>6
    <3> QED
      BY <1>4, <3>1
  <2>8. j.pc = "recover" => n.queue[1].entries = manifest'[n.queue[1].fid]
    BY <2>5, <2>9
  <2> QED
    BY <1>4, <1>6, <2>1, <2>4, <2>7, <2>8, SoloIs
<1> QED
  BY <1>1, <1>5, <1>6, NextFolderIs

-----------------------------------------------------------------------------
\* The end of a folder's recovery.
LEMMA RecoverEndSolo ==
    ASSUME IndInv, SoloInv, OneProcess, NEW p \in Procs, RecoverEnd(p)
    PROVE  /\ SoloInv'
           /\ job'[p].pc = "recover" =>
              job'[p].queue[1].entries = manifest'[job'[p].queue[1].fid]
<1> SUFFICES ASSUME NEW j, j = job[p], NEW n, n = NextFolder(j, "recover")
             PROVE  /\ SoloInv'
                    /\ job'[p].pc = "recover" =>
                       job'[p].queue[1].entries = manifest'[job'[p].queue[1].fid]
  OBVIOUS
<1>1. /\ j.pc = "recover" /\ job' = [job EXCEPT ![p] = n] /\ registered' = registered
      /\ UNCHANGED disk \/ RemoveFolder(j.queue[1].fid)
      /\ FoldersOK
  BY DEF RecoverEnd, At, SoloInv
<1>2. CASE UNCHANGED disk
  <2>1. FoldersOK' /\ j.pc \in Queued \ {"unlink"}
    BY <1>1, <1>2, SameFolders DEF Queued
  <2> QED
    BY <1>1, <1>2, <2>1, FolderSolo
<1>3. CASE RemoveFolder(j.queue[1].fid)
  <2>1. j.pc \in Queued \ {"unlink"}
    BY <1>1 DEF Queued
  <2>2. /\ FoldersOK'
        /\ \/ UNCHANGED disk
           \/ \E g \in exists :
                 /\ Finds(Stamp(j.queue[1].fid), g) /\ exists' \in {exists, exists \ {g}}
                 /\ \A h \in FolderIds : h # g => /\ content'[h] = content[h]
                                                  /\ manifest'[h] = manifest[h]
    BY <1>1, <1>3, RemovedIs
  <2> QED
    BY <1>1, <2>1, <2>2, FolderSolo, ZenonT(40)
<1> QED
  BY <1>1, <1>2, <1>3

\* A folder that clean leaves alone, and one the user said yes to.
LEMMA CleanSkipSolo ==
    ASSUME IndInv, SoloInv, OneProcess, NEW p \in Procs, CleanSkip(p)
    PROVE  SoloInv'
<1> SUFFICES ASSUME NEW j, j = job[p], NEW n, n = NextFolder(j, "clean") PROVE SoloInv'
  OBVIOUS
<1>1. /\ j.pc = "clean" /\ job' = [job EXCEPT ![p] = n] /\ registered' = registered
      /\ UNCHANGED disk /\ FoldersOK
  BY DEF CleanSkip, At, SoloInv
<1>2. FoldersOK' /\ j.pc \in Queued \ {"unlink"}
  BY <1>1, SameFolders DEF Queued
<1> QED
  BY <1>1, <1>2, FolderSolo

LEMMA CleanConfirmSolo ==
    ASSUME IndInv, SoloInv, OneProcess, NEW p \in Procs, CleanConfirm(p)
    PROVE  SoloInv'
<1> SUFFICES ASSUME NEW j, j = job[p] PROVE SoloInv'
  OBVIOUS
<1>1. /\ j \in ToldJobs /\ j.pc = "clean" /\ TodoOK(j) /\ QueueOK(j.queue)
      /\ job' = [job EXCEPT ![p].pc = "purge"] /\ UNCHANGED <<fs, disk, registered>>
      /\ job \in [Procs -> GoodJobs]
  BY JobAt DEF CleanConfirm, At, SoloInv, SoloOK, Queued, IndInv
<1>2. PICK n : n = [j EXCEPT !.pc = "purge"]
  OBVIOUS
<1>3. n.pc = "purge" /\ n.queue = j.queue /\ n.todo = j.todo /\ n.done = j.done
  BY <1>1, <1>2 DEF ToldJobs
<1>4. TodoOK(n) /\ DestOK(n)
  <2>1. n.todo = <<>> /\ n.done = <<>>
    BY <1>1, <1>3 DEF TodoOK, Trashing
  <2> QED
    BY <1>3, <2>1, QueuedOK DEF Queued
<1>5. job' = [job EXCEPT ![p] = n]
  BY <1>1, <1>2
<1> QED
  BY <1>1, <1>3, <1>4, <1>5, SoloPut

\* The removal of a folder by clean.
LEMMA PurgeSolo ==
    ASSUME IndInv, SoloInv, OneProcess, NEW p \in Procs, Purge(p)
    PROVE  SoloInv'
<1> SUFFICES ASSUME NEW j, j = job[p], NEW n, n = NextFolder(j, "clean") PROVE SoloInv'
  OBVIOUS
<1>1. /\ j.pc = "purge" /\ job' = [job EXCEPT ![p] = n] /\ registered' = registered
      /\ RemoveFolder(j.queue[1].fid) /\ FoldersOK
  BY DEF Purge, At, SoloInv
<1>2. j.pc \in Queued \ {"unlink"}
  BY <1>1 DEF Queued
<1>3. /\ FoldersOK'
      /\ \/ UNCHANGED disk
         \/ \E g \in exists :
               /\ Finds(Stamp(j.queue[1].fid), g) /\ exists' \in {exists, exists \ {g}}
               /\ \A h \in FolderIds : h # g => /\ content'[h] = content[h]
                                                /\ manifest'[h] = manifest[h]
  BY <1>1, RemovedIs
<1> QED
  BY <1>1, <1>2, <1>3, FolderSolo

\* A killed process leaves the disk as it was.
LEMMA CrashSolo ==
    ASSUME IndInv, SoloInv, OneProcess, NEW p \in Procs, Crash(p)
    PROVE  SoloInv'
  BY SoloIdle DEF Crash, IndInv

\* A step that changes neither the disk nor a job.
LEMMA SoloSame ==
    ASSUME SoloInv, UNCHANGED <<fs, disk, registered, job>>
    PROVE  SoloInv'
<1>1. FoldersOK' /\ \A j : (TodoOK(j)' <=> TodoOK(j)) /\ (DestOK(j)' <=> DestOK(j))
                          /\ (BackOK(j)' <=> BackOK(j))
  BY SameDisk, SameFs DEF SoloInv
<1>2. \A q : QueueOK(q)' <=> QueueOK(q)
  BY SameList DEF disk
<1>3. \A p : UnlinkOK(p)' <=> UnlinkOK(p)
  BY DEF UnlinkOK, Backup, Target, disk
<1> QED
  BY <1>1, <1>2, <1>3 DEF SoloInv, SoloOK

\* A new thing at a free path.
LEMMA UserCreateSolo ==
    ASSUME IndInv, SoloInv, NEW u \in Paths, NEW i \in Items, UserCreate(u, i)
    PROVE  SoloInv'
<1>1. /\ fs[u] = None /\ \A q \in Paths : q # u => fs'[q] = fs[q]
      /\ UNCHANGED <<disk, registered, job>>
      /\ UNCHANGED <<exists, content, manifest>>
  BY DEF UserCreate, IndInv, DiskOK, disk
<1>2. FoldersOK' /\ \A x \in Items : AtPath(x) => AtPath(x)'
  BY <1>1, SameFolders, StillThere DEF SoloInv
<1>3. ASSUME NEW p \in Procs PROVE SoloOK(p)'
  <2> SUFFICES ASSUME NEW j, j = job[p] PROVE SoloOK(p)'
    OBVIOUS
  <2>1. j \in ToldJobs /\ job'[p] = j /\ SoloOK(p)
    BY <1>1, JobAt DEF SoloInv
  <2>2. \A k \in DOMAIN j.todo : j.todo[k].kind # "absent" =>
           /\ fs[j.todo[k].path] # None /\ fs'[j.todo[k].path] = fs[j.todo[k].path]
    <3> SUFFICES ASSUME NEW k \in DOMAIN j.todo, j.todo[k].kind # "absent"
                 PROVE  /\ fs[j.todo[k].path] # None
                        /\ fs'[j.todo[k].path] = fs[j.todo[k].path]
      OBVIOUS
    <3>1. j.todo[k].path \in Paths
      <4>1. j.todo \in Seq(Told)
        BY <2>1 DEF ToldJobs
      <4>2. j.todo[k] \in Told
        BY <4>1
      <4> QED
        BY <4>2 DEF Told, Entries
    <3>2. fs[j.todo[k].path] # None
      BY <2>1 DEF SoloOK, TodoOK, Same
    <3> QED
      BY <1>1, <3>1, <3>2
  <2>3. TodoOK(job[p])'
    BY <2>1, <2>2, TodoStays DEF SoloOK
  <2>4. DestOK(job[p])'
    <3>1. \A f, es : Tied(f, es)' <=> Tied(f, es)
      BY <1>1 DEF Tied
    <3>2. j.pc = "delete" => fs'[Head(j.todo).path] = fs[Head(j.todo).path]
      <4> SUFFICES ASSUME j.pc = "delete"
                   PROVE  fs'[Head(j.todo).path] = fs[Head(j.todo).path]
        OBVIOUS
      <4>1. j.todo \in Seq(Told) /\ j.todo # <<>>
        BY <2>1, JobAt DEF ToldJobs, Ready
      <4>2. Head(j.todo) = j.todo[1] /\ 1 \in DOMAIN j.todo
        BY <4>1, TailAt
      <4>3. Head(j.todo).kind # "absent"
        BY <2>1 DEF SoloOK, DestOK
      <4> QED
        BY <2>2, <4>2, <4>3
    <3>3. DestOK(j)'
      BY <1>1, <2>1, <3>1, <3>2 DEF SoloOK, DestOK
    <3>4. \A m : m = j => DestOK(m)'
      BY <3>3
    <3> QED
      BY <2>1, <3>4
  <2>5. (job[p].pc \in Queued => QueueOK(job[p].queue))'
    BY <1>1, <2>1, SameList DEF SoloOK
  <2>6. (job[p].pc \in {"recover", "unlink"} => BackOK(job[p]))'
    <3> SUFFICES ASSUME j.pc \in {"recover", "unlink"} PROVE BackOK(job[p])'
      BY <2>1
    <3>1. j.queue[1].fid \in FolderIds
      BY FirstFolder
    <3>2. \A f \in FolderIds : \A r : Back(f, r) => Back(f, r)'
      BY <1>1, <1>2, BackGrows
    <3>3. BackOK(j)'
      BY <1>1, <2>1, <3>1, <3>2 DEF SoloOK, BackOK
    <3>4. \A m : m = j => BackOK(m)'
      BY <3>3, SMTT(30)
    <3> QED
      BY <2>1, <3>4
  <2>7. (job[p].pc = "unlink" => UnlinkOK(p))'
    <3> SUFFICES ASSUME j.pc = "unlink" PROVE UnlinkOK(p)'
      BY <2>1
    <3>1. PICK e : e = Head(j.queue[1].entries)
      OBVIOUS
    <3>2. PICK t : t = Target(p, e)
      BY SMTT(30)
    <3>3. t \in Paths /\ Backup(p, e) # None /\ fs[t] = Backup(p, e)
          /\ e.stored /\ e.kind \notin {"symlink", "junction"}
      <4>1. j.queue[1].entries # <<>>
        BY JobAt, SMTT(30) DEF Ready
      <4>2. t \in Paths
        BY <3>1, <3>2, <4>1, NextToldEntry
      <4> QED
        BY <2>1, <3>1, <3>2, <4>2 DEF SoloOK, UnlinkOK
    <3>4. fs'[t] = fs[t]
      BY <1>1, <3>3
    <3>5. \A x : Target(p, x)' = Target(p, x) /\ Backup(p, x)' = Backup(p, x)
      BY <1>1 DEF Target, Backup
    <3> QED
      BY <2>1, <3>1, <3>2, <3>3, <3>4, <3>5 DEF UnlinkOK
  <2> QED
    BY <2>3, <2>4, <2>5, <2>6, <2>7 DEF SoloOK
<1> QED
  BY <1>2, <1>3 DEF SoloInv

\* At the start there is no folder and nothing is under way.
LEMMA InitSolo == Init => SoloInv
<1> SUFFICES ASSUME Init PROVE SoloInv
  OBVIOUS
<1>1. \A f \in FolderIds : content[f] = NoContent /\ manifest[f] = <<>>
  BY DEF Init
<1>2. \A p \in Procs : job[p] = Idle
  BY DEF Init
<1>3. Idle.pc = "idle"
  BY DEF Idle
<1> QED
  BY <1>1, <1>2, <1>3, IdleOK DEF SoloInv, SoloOK, FoldersOK, Queued

\* One command after the other leaves every folder accounted for.
LEMMA TrashSolo ==
    ASSUME IndInv, SoloInv, OneProcess, NEW p \in Procs, TrashStep(p)
    PROVE  SoloInv'
  BY RegisterLoadSolo, RegisterSaveSolo, NameFolderSolo, MakeFolderSolo, StageAbsentSolo,
     StageLinkSolo, StageRenameSolo, StageCopySolo, StageFailSolo, DeleteSolo,
     SaveManifestSolo DEF TrashStep

LEMMA RestSolo ==
    ASSUME IndInv, SoloInv, OneProcess, NEW p \in Procs, RecoverStep(p) \/ CleanStep(p)
    PROVE  SoloInv'
  BY RecoverMetadataSolo, RecoverLinkSolo, RecoverContentSolo, RecoverFailSolo, UnlinkSolo,
     RecoverEndSolo, CleanSkipSolo, CleanConfirmSolo, PurgeSolo DEF RecoverStep, CleanStep

LEMMA BeginSolo ==
    ASSUME IndInv, SoloInv, OneProcess, Named, NEW p \in Procs, Begin(p)
    PROVE  SoloInv'
  BY TrashBeginSolo, RecoverBeginSolo, CleanBeginSolo DEF Begin

LEMMA NextSolo ==
    ASSUME IndInv, SoloInv, OneProcess, Named, [Next]_vars
    PROVE  SoloInv'
<1>1. CASE UNCHANGED vars
  BY <1>1, SoloSame DEF vars, disk
<1>2. CASE Tick
  BY <1>2, SoloSame DEF Tick
<1>3. CASE \E q \in Paths, i \in Items : UserCreate(q, i)
  BY <1>3, UserCreateSolo
<1>4. CASE \E p \in Procs : Begin(p) \/ Proceed(p) \/ Crash(p)
  BY <1>4, BeginSolo, TrashSolo, RestSolo, CrashSolo DEF Proceed
<1> QED
  BY <1>1, <1>2, <1>3, <1>4 DEF Next

-----------------------------------------------------------------------------
(* What trash() reported success for *)

\* Entries es of folder d hold item i: its link, or its content, whole.
Covered(d, es, i) == \E k \in DOMAIN es :
    \/ es[k].link = i
    \/ es[k].stored /\ content[d][Base(es[k])] = Whole(i)

\* No reported backup is in the folder that a trash() fills.
Apart(j) == j.pc \in {"mkdir", "stage", "delete"} => \A a \in acked : a.fid # j.dest

\* As long as a trash() has seen no error, all it was given is staged or still to stage.
Promised(j) == j.pc \in Trashing /\ ~j.failed =>
    \A i \in j.given : \/ Covered(j.dest, j.done, i)
                       \/ \E k \in Pending(j) : fs[j.todo[k].path] = Whole(i)

\* The inductive invariant behind BackupsKept.
AckInv == AckedKept /\ \A p \in Procs : Apart(job[p]) /\ Promised(job[p])

LEMMA AckedIs ==
    AckedKept <=> \A a \in acked : /\ a.fid \in exists
                                   /\ \A i \in a.items : Covered(a.fid, manifest[a.fid], i)
  BY SMTT(30) DEF AckedKept, Covered, Whole, Base

\* A backup whose folder is left alone is kept.
LEMMA AckedStill ==
    ASSUME AckedKept, acked' \subseteq acked,
           \A a \in acked' : /\ a.fid \in exists' /\ content'[a.fid] = content[a.fid]
                             /\ manifest'[a.fid] = manifest[a.fid]
    PROVE  AckedKept'
  BY DEF AckedKept

\* The only process is the one that moves.
LEMMA AckIs ==
    ASSUME OneProcess, NEW p \in Procs, NEW n, job' = [job EXCEPT ![p] = n],
           job \in [Procs -> GoodJobs], AckedKept', Apart(n)', Promised(n)'
    PROVE  AckInv'
<1>1. \A q \in Procs : job'[q] = n
  BY DEF OneProcess
<1>2. \A m : m = n => Apart(m)' /\ Promised(m)'
  OBVIOUS
<1> QED
  BY <1>1, <1>2 DEF AckInv

\* A job that is none of trash()'s has nothing to keep.
LEMMA AckOther ==
    ASSUME OneProcess, NEW p \in Procs, NEW n, job' = [job EXCEPT ![p] = n],
           job \in [Procs -> GoodJobs], AckedKept', n.pc \notin Trashing
    PROVE  AckInv'
<1>1. Apart(n)' /\ Promised(n)'
  BY DEF Apart, Promised, Trashing
<1> QED
  BY <1>1, AckIs

\* A step of trash() before it stages anything.
LEMMA EarlyAck ==
    ASSUME IndInv, OneProcess, AckInv, NEW p \in Procs, NEW j, j = job[p], NEW n,
           job' = [job EXCEPT ![p] = n], UNCHANGED <<fs, content, manifest, acked>>,
           exists \subseteq exists', j.pc \in Trashing \ {"delete"},
           n.pc \in Trashing \ {"delete"}, n.todo = j.todo,
           j.done = <<>>, n.done = <<>>, n.given = j.given, n.failed = j.failed,
           n.pc \in {"mkdir", "stage"} => \A a \in acked : a.fid # n.dest
    PROVE  AckInv'
<1>1. AckedKept'
  BY AckedStill, Zenon DEF AckInv, AckedKept
<1>2. Apart(n)'
  BY DEF Apart
<1>3. Promised(n)'
  <2>1. Promised(j)
    BY DEF AckInv
  <2>2. \A d, i : ~Covered(d, j.done, i)
    BY DEF Covered
  <2>3. Pending(n) = DOMAIN j.todo /\ Pending(j) = DOMAIN j.todo
    BY DEF Pending
  <2> QED
    BY <2>1, <2>2, <2>3 DEF Promised
<1> QED
  BY <1>1, <1>2, <1>3, AckIs DEF IndInv

LEMMA RegisterLoadAck ==
    ASSUME IndInv, SoloInv, OneProcess, AckInv, NEW p \in Procs, RegisterLoad(p)
    PROVE  AckInv'
<1> SUFFICES ASSUME NEW j, j = job[p] PROVE AckInv'
  OBVIOUS
<1>1. j \in ToldJobs /\ j.pc = "register" /\ TodoOK(j)
  BY JobAt DEF RegisterLoad, At, SoloInv, SoloOK
<1>2. PICK n : /\ job' = [job EXCEPT ![p] = n]
               /\ n.pc = "save" /\ n.todo = j.todo /\ n.done = j.done
               /\ n.given = j.given /\ n.failed = j.failed
  BY RegistryRead
<1>3. j.done = <<>>
  BY <1>1 DEF TodoOK
<1>4. UNCHANGED <<fs, content, manifest, acked, exists>>
  BY DEF RegisterLoad, disk, hist
<1> QED
  BY <1>1, <1>2, <1>3, <1>4, EarlyAck DEF Trashing

LEMMA RegisterSaveAck ==
    ASSUME IndInv, SoloInv, OneProcess, AckInv, NEW p \in Procs, RegisterSave(p)
    PROVE  AckInv'
<1> SUFFICES ASSUME NEW j, j = job[p] PROVE AckInv'
  OBVIOUS
<1>1. j \in ToldJobs /\ j.pc = "save" /\ TodoOK(j)
  BY JobAt DEF RegisterSave, At, SoloInv, SoloOK
<1>2. PICK n : /\ job' = [job EXCEPT ![p] = n]
               /\ n \in {[j EXCEPT !.pc = "name"], [j EXCEPT !.pc = "name", !.store = Central]}
  BY DEF RegisterSave
<1>3. /\ n.pc = "name" /\ n.todo = j.todo /\ n.done = j.done
      /\ n.given = j.given /\ n.failed = j.failed /\ j.done = <<>>
  BY <1>1, <1>2 DEF ToldJobs, TodoOK
<1>4. UNCHANGED <<fs, content, manifest, acked, exists>>
  BY DEF RegisterSave, disk, hist
<1>5. job' = [job EXCEPT ![p] = n]
  BY <1>2
<1> QED
  BY <1>1, <1>3, <1>4, <1>5, EarlyAck DEF Trashing

\* The folder is new, so no reported backup is in it.
LEMMA NameFolderAck ==
    ASSUME IndInv, SoloInv, OneProcess, AckInv, NEW p \in Procs, NameFolder(p)
    PROVE  AckInv'
<1> SUFFICES ASSUME NEW j, j = job[p] PROVE AckInv'
  OBVIOUS
<1>1. j \in ToldJobs /\ j.pc = "name" /\ TodoOK(j)
  BY JobAt DEF NameFolder, At, SoloInv, SoloOK
<1>2. PICK k \in 0..MaxCalls :
        /\ <<j.store, clock, k>> \notin exists
        /\ job' = [job EXCEPT ![p].pc = "mkdir", ![p].dest = <<j.store, clock, k>>]
  BY DEF NameFolder
<1>3. PICK n : n = [j EXCEPT !.pc = "mkdir", !.dest = <<j.store, clock, k>>]
  OBVIOUS
<1>4. /\ n.pc = "mkdir" /\ n.todo = j.todo /\ n.done = j.done /\ n.dest = <<j.store, clock, k>>
      /\ n.given = j.given /\ n.failed = j.failed /\ j.done = <<>>
  BY <1>1, <1>3 DEF ToldJobs, TodoOK
<1>5. /\ job' = [job EXCEPT ![p] = n] /\ UNCHANGED <<fs, content, manifest, acked, exists>>
  BY <1>2, <1>3, ZenonT(30) DEF NameFolder, disk, hist
<1>6. \A a \in acked : a.fid # n.dest
  BY <1>2, <1>4, SMTT(30) DEF AckInv, AckedKept
<1> QED
  BY <1>1, <1>4, <1>5, <1>6, EarlyAck DEF Trashing

LEMMA MakeFolderAck ==
    ASSUME IndInv, SoloInv, OneProcess, AckInv, NEW p \in Procs, MakeFolder(p)
    PROVE  AckInv'
<1> SUFFICES ASSUME NEW j, j = job[p] PROVE AckInv'
  OBVIOUS
<1>1. j \in ToldJobs /\ j.pc = "mkdir" /\ TodoOK(j) /\ Apart(j) /\ job \in [Procs -> GoodJobs]
  BY JobAt DEF MakeFolder, At, SoloInv, SoloOK, AckInv, IndInv
<1>2. UNCHANGED <<fs, content, manifest, acked>> /\ exists \subseteq exists'
  BY DEF MakeFolder, hist
<1>3. CASE job' = [job EXCEPT ![p].pc = "stage"]
  <2>1. PICK n : n = [j EXCEPT !.pc = "stage"]
    OBVIOUS
  <2>2. /\ n.pc = "stage" /\ n.todo = j.todo /\ n.done = j.done /\ n.dest = j.dest
        /\ n.given = j.given /\ n.failed = j.failed /\ j.done = <<>>
    BY <1>1, <2>1 DEF ToldJobs, TodoOK
  <2>3. job' = [job EXCEPT ![p] = n]
    BY <1>3, <2>1
  <2>4. \A a \in acked : a.fid # n.dest
    BY <1>1, <2>2 DEF Apart
  <2> QED
    BY <1>1, <1>2, <2>2, <2>3, <2>4, EarlyAck DEF Trashing
<1>4. CASE job' = [job EXCEPT ![p] = Idle]
  <2>1. AckedKept'
    BY <1>2, AckedStill DEF AckInv, AckedKept
  <2>2. Idle.pc \notin Trashing
    BY DEF Idle, Trashing
  <2> QED
    BY <1>1, <1>4, <2>1, <2>2, AckOther, ZenonT(30)
<1> QED
  BY <1>3, <1>4 DEF MakeFolder

\* A step of trash() that is through with a path, and covers it if it reports no error.
LEMMA StageAck ==
    ASSUME IndInv, SoloInv, OneProcess, AckInv, NEW p \in Procs, Staging(p),
           NEW j, j = job[p], NEW e, e = Head(j.todo),
           NEW n \in ToldJobs, NEW e2 \in Told, NEW c,
           e2.path = e.path,
           content' = Fill(p, e, c), exists' = exists \cup {j.dest},
           UNCHANGED <<manifest, acked>>,
           \A i : i \in Items /\ fs[e.path] = Whole(i) => \/ n.failed
                                                          \/ e2.link = i
                                                          \/ e2.stored /\ c = Whole(i),
           \/ /\ n.pc = "stage" /\ n.todo = Tail(j.todo)
              /\ fs' \in {fs, [fs EXCEPT ![e.path] = None]}
           \/ n.pc = "delete" /\ n.todo = j.todo /\ fs' = fs,
           n.dest = j.dest, n.done = Append(j.done, e2), n.given = j.given,
           j.failed => n.failed, job' = [job EXCEPT ![p] = n]
    PROVE  AckInv'
<1> SUFFICES ASSUME NEW d, d = j.dest PROVE AckInv'
  OBVIOUS
<1>1. /\ j \in ToldJobs /\ d \in FolderIds /\ j.todo # <<>> /\ j.pc = "stage"
      /\ j.todo \in Seq(Told) /\ j.done \in Seq(Told)
      /\ e \in Told /\ Base(e) \in Names /\ TodoOK(j)
  BY NextSlot DEF Staging, At
<1>2. /\ content \in [FolderIds -> [Names -> Cells \cup {None}]]
      /\ fs \in [Paths -> Cells \cup {None}] /\ job \in [Procs -> GoodJobs]
      /\ Apart(j) /\ Promised(j) /\ AckedKept
  BY DEF IndInv, DiskOK, AckInv
<1>3. /\ content'[d][Base(e)] = c
      /\ \A m \in Names : m # Base(e) => content'[d][m] = content[d][m]
      /\ \A f \in FolderIds : f # d => content'[f] = content[f]
  BY <1>1, <1>2 DEF Fill, Base
<1>4. Apart(n)' /\ AckedKept'
  <2>1. \A a \in acked : a.fid # d /\ a.fid \in exists /\ a.fid \in FolderIds
    BY <1>1, <1>2 DEF Apart, AckedKept, IndInv, DiskOK
  <2>2. AckedKept'
    BY <1>2, <1>3, <2>1, AckedStill
  <2>3. Apart(n)'
    BY <2>1 DEF Apart
  <2> QED
    BY <2>2, <2>3, SMTT(30)
<1>5. /\ DOMAIN n.done = 1..Len(j.done) + 1 /\ n.done[Len(j.done) + 1] = e2
      /\ Len(j.done) + 1 \in DOMAIN n.done
      /\ \A k \in DOMAIN j.done : k \in DOMAIN n.done /\ n.done[k] = j.done[k]
  BY <1>1, AppendAt
<1>6. 1 \in DOMAIN j.todo /\ j.todo[1] = e /\ Pending(j) = DOMAIN j.todo
      /\ \A k \in DOMAIN j.todo : k # 1 => /\ j.todo[k].path \in Paths
                                           /\ j.todo[k].path # e.path
  <2>1. 1 \in DOMAIN j.todo /\ j.todo[1] = e /\ Pending(j) = DOMAIN j.todo
    BY <1>1, TailAt DEF Pending
  <2>2. \A k \in DOMAIN j.todo : j.todo[k].path \in Paths
    <3> SUFFICES ASSUME NEW k \in DOMAIN j.todo PROVE j.todo[k].path \in Paths
      OBVIOUS
    <3>1. j.todo[k] \in Told
      BY <1>1
    <3> QED
      BY <3>1 DEF Told, Entries
  <2>3. \A k \in DOMAIN j.todo : k # 1 => Base(j.todo[k]) # Base(e)
    BY <1>1, <2>1 DEF TodoOK
  <2> QED
    BY <2>1, <2>2, <2>3, Elsewhere
<1>7. \A k \in DOMAIN j.todo : k # 1 => \E l \in Pending(n) : n.todo[l] = j.todo[k]
  <2>1. CASE n.pc = "stage" /\ n.todo = Tail(j.todo)
    <3>1. \A k \in DOMAIN j.todo : k # 1 => k - 1 \in DOMAIN n.todo /\ n.todo[k - 1] = j.todo[k]
      BY <1>1, <2>1, TailAt
    <3>2. Pending(n) = DOMAIN n.todo
      BY <2>1 DEF Pending
    <3> QED
      BY <3>1, <3>2
  <2>2. CASE n.pc = "delete" /\ n.todo = j.todo
    BY <2>2 DEF Pending
  <2> QED
    BY <2>1, <2>2
<1>8. ASSUME ~n.failed, NEW i \in n.given
      PROVE  Covered(d, n.done, i)' \/ \E k \in Pending(n) : fs'[n.todo[k].path] = Whole(i)
  <2>0. i \in Items
    BY DEF ToldJobs
  <2>1. \/ Covered(d, j.done, i)
        \/ \E k \in Pending(j) : fs[j.todo[k].path] = Whole(i)
    <3>1. ~j.failed /\ i \in j.given
      BY <1>8
    <3> QED
      BY <1>1, <1>2, <3>1 DEF Promised, Trashing
  <2>2. CASE Covered(d, j.done, i)
    <3>1. PICK k \in DOMAIN j.done : \/ j.done[k].link = i
                                     \/ j.done[k].stored /\ content[d][Base(j.done[k])] = Whole(i)
      BY <2>2 DEF Covered
    <3>2. Base(j.done[k]) # Base(e) /\ Base(j.done[k]) \in Names
      <4>1. j.done[k] \in Told
        BY <1>1
      <4>2. Base(j.done[k]) \in Names
        BY <4>1, TrashAssumption, SMTT(30) DEF Told, Entries, Base
      <4> QED
        BY <1>1, <1>6, <4>2 DEF TodoOK
    <3>3. content'[d][Base(j.done[k])] = content[d][Base(j.done[k])]
      BY <1>3, <3>2
    <3>4. k \in DOMAIN n.done /\ n.done[k] = j.done[k]
      BY <1>5, SMTT(30)
    <3>5. \/ n.done[k].link = i
          \/ n.done[k].stored /\ content'[d][Base(n.done[k])] = Whole(i)
      BY <3>1, <3>3, <3>4
    <3>6. Covered(d, n.done, i)'
      BY ONLY <3>4, <3>5 DEF Covered
    <3> QED
      BY <3>6, SMTT(30)
  <2>3. CASE \E k \in Pending(j) : fs[j.todo[k].path] = Whole(i)
    <3>1. PICK k \in Pending(j) : fs[j.todo[k].path] = Whole(i)
      BY <2>3
    <3>2. CASE k = 1
      <4>1. e2.link = i \/ (e2.stored /\ c = Whole(i))
        BY <1>6, <1>8, <2>0, <3>1, <3>2
      <4>2. Base(e2) = Base(e)
        BY SMTT(30) DEF Base
      <4>3. Covered(d, n.done, i)'
        BY <1>3, <1>5, <4>1, <4>2 DEF Covered
      <4> QED
        BY <4>3
    <3>3. CASE k # 1
      <4>1. PICK l \in Pending(n) : n.todo[l] = j.todo[k]
        BY <1>6, <1>7, <3>3
      <4>2. fs'[j.todo[k].path] = fs[j.todo[k].path]
        BY <1>2, <1>6, <3>3
      <4> QED
        BY <3>1, <4>1, <4>2
    <3> QED
      BY <3>2, <3>3
  <2> QED
    BY <2>1, <2>2, <2>3
<1>9. Promised(n)'
  <2>1. ~n.failed => \A i \in n.given : \/ Covered(n.dest, n.done, i)'
                                        \/ \E k \in Pending(n) : fs'[n.todo[k].path] = Whole(i)
    <3>1. \A f, i : f = d /\ Covered(d, n.done, i)' => Covered(f, n.done, i)'
      OBVIOUS
    <3> QED
      BY <1>8, <3>1
  <2> QED
    BY <2>1, Zenon DEF Promised, Pending, Whole
<1> QED
  BY <1>2, <1>4, <1>9, AckIs

\* A path that did not exist is an error.
LEMMA StageAbsentAck ==
    ASSUME IndInv, SoloInv, OneProcess, AckInv, NEW p \in Procs, StageAbsent(p)
    PROVE  AckInv'
<1> SUFFICES ASSUME NEW j, j = job[p] PROVE AckInv'
  OBVIOUS
<1>1. /\ j \in ToldJobs /\ j.pc = "stage" /\ Apart(j) /\ AckedKept
      /\ UNCHANGED <<fs, exists, content, manifest, acked>>
  BY JobAt DEF StageAbsent, Staging, At, AckInv, disk, hist
<1>2. PICK n : n = [j EXCEPT !.todo = Tail(@), !.failed = TRUE]
  OBVIOUS
<1>3. n.dest = j.dest /\ n.failed
  BY <1>1, <1>2, SMTT(30) DEF ToldJobs
<1>4. AckedKept'
  BY <1>1, AckedStill DEF AckedKept
<1>5. Apart(n)' /\ Promised(n)'
  BY <1>1, <1>3 DEF Apart, Promised
<1>6. job' = [job EXCEPT ![p] = n]
  BY <1>2 DEF StageAbsent
<1> QED
  BY <1>4, <1>5, <1>6, AckIs DEF IndInv

\* What the job of trash() keeps while it stages.
LEMMA StagedKeeps ==
    ASSUME NEW j \in ToldJobs, NEW e2, NEW n,
           n \in {[j EXCEPT !.pc = "delete", !.done = Append(@, e2)],
                  [j EXCEPT !.todo = Tail(@), !.done = Append(@, e2)],
                  [j EXCEPT !.todo = Tail(@), !.failed = TRUE, !.done = Append(@, e2)]}
    PROVE  n.given = j.given /\ (j.failed => n.failed)
  BY DEF ToldJobs

\* The link is kept with its entry, in content/ or not.
LEMMA StageLinkAck ==
    ASSUME IndInv, SoloInv, OneProcess, AckInv, NEW p \in Procs, StageLink(p)
    PROVE  AckInv'
<1> SUFFICES ASSUME NEW j, j = job[p], NEW e, e = Head(j.todo) PROVE AckInv'
  BY SMTT(30)
<1>1. /\ j \in ToldJobs /\ j.pc = "stage" /\ j.todo # <<>> /\ Staging(p)
      /\ e \in Told /\ [e EXCEPT !.stored = TRUE] \in Told
      /\ Fill(p, e, None) = content /\ Same(e)
  BY NextSlot, NextPath DEF StageLink, Staging, At
<1>2. /\ e.kind \in LinkKinds
      /\ exists' = exists \cup {j.dest} /\ UNCHANGED <<fs, manifest, acked>>
      /\ \/ /\ content' = Fill(p, e, [item |-> e.link, whole |-> TRUE])
            /\ job' = [job EXCEPT ![p].pc = "delete",
                                  ![p].done = Append(@, [e EXCEPT !.stored = TRUE])]
         \/ /\ job' = [job EXCEPT ![p].pc = "delete", ![p].done = Append(@, e)]
            /\ content' = content
  BY SMTT(30) DEF StageLink, hist
<1>3. PICK e2, c : /\ e2 \in Told /\ e2.path = e.path /\ e2.link = e.link
                   /\ content' = Fill(p, e, c)
                   /\ job' = [job EXCEPT ![p].pc = "delete", ![p].done = Append(@, e2)]
  <2>1. CASE /\ content' = Fill(p, e, [item |-> e.link, whole |-> TRUE])
             /\ job' = [job EXCEPT ![p].pc = "delete",
                                   ![p].done = Append(@, [e EXCEPT !.stored = TRUE])]
    <3>1. /\ [e EXCEPT !.stored = TRUE].path = e.path
          /\ [e EXCEPT !.stored = TRUE].link = e.link
      BY <1>1 DEF Told, Entries
    <3> QED
      BY <1>1, <2>1, <3>1
  <2>2. CASE /\ job' = [job EXCEPT ![p].pc = "delete", ![p].done = Append(@, e)]
             /\ content' = content
    BY <1>1, <2>2
  <2> QED
    BY <1>2, <2>1, <2>2
<1>4. PICK n : n = [j EXCEPT !.pc = "delete", !.done = Append(@, e2)]
  OBVIOUS
<1>5. e2 \in Told /\ j \in ToldJobs
  BY <1>1, <1>3
<1>6. /\ n \in ToldJobs /\ n.dest = j.dest /\ n.done = Append(j.done, e2)
      /\ n.pc = "delete" /\ n.todo = j.todo
  BY ONLY <1>4, <1>5, StagedDelete, ZenonT(40)
<1>7. n.given = j.given /\ (j.failed => n.failed)
  BY ONLY <1>4, <1>5, StagedKeeps, Zenon
<1>8. \A i : i \in Items /\ fs[e.path] = Whole(i) => e2.link = i
  <2>1. e.link = fs[e.path].item
    BY <1>1, <1>2 DEF Same
  <2> QED
    BY <1>3, <2>1 DEF Whole
<1>9. job' = [job EXCEPT ![p] = n]
  BY <1>3, <1>4
<1> QED
  <2>1. /\ IndInv /\ SoloInv /\ OneProcess /\ AckInv /\ p \in Procs /\ Staging(p)
        /\ j = job[p] /\ e = Head(j.todo) /\ n \in ToldJobs /\ e2 \in Told
    BY <1>1, <1>5, <1>6, SMTT(30)
  <2>2. /\ e2.path = e.path /\ content' = Fill(p, e, c) /\ exists' = exists \cup {j.dest}
        /\ UNCHANGED <<manifest, acked>> /\ (j.failed => n.failed)
    BY <1>2, <1>3, <1>7
  <2>3. \A i : i \in Items /\ fs[e.path] = Whole(i) => \/ n.failed
                                                       \/ e2.link = i
                                                       \/ e2.stored /\ c = Whole(i)
    BY ONLY <1>8
  <2>4. \/ /\ n.pc = "stage" /\ n.todo = Tail(j.todo)
           /\ fs' \in {fs, [fs EXCEPT ![e.path] = None]}
        \/ n.pc = "delete" /\ n.todo = j.todo /\ fs' = fs
    BY <1>2, <1>6
  <2>5. n.dest = j.dest /\ n.done = Append(j.done, e2) /\ n.given = j.given
    BY <1>6, <1>7
  <2> QED
    BY ONLY <2>1, <2>2, <2>3, <2>4, <2>5, <1>9, StageAck

\* A thing that is moved or copied into content/ is there as it was.
LEMMA StageMoveAck ==
    ASSUME IndInv, SoloInv, OneProcess, AckInv, NEW p \in Procs,
           StageRename(p) \/ StageCopy(p)
    PROVE  AckInv'
<1> SUFFICES ASSUME NEW j, j = job[p], NEW e, e = Head(j.todo) PROVE AckInv'
  OBVIOUS
<1>1. /\ j \in ToldJobs /\ j.pc = "stage" /\ j.todo # <<>> /\ Staging(p)
      /\ e \in Told /\ [e EXCEPT !.stored = TRUE] \in Told
  BY NextSlot, NextPath, Zenon DEF StageRename, StageCopy, Staging, At
<1>2. PICK t : t \in Told /\ t = [e EXCEPT !.stored = TRUE]
  BY <1>1
<1>3. t.path = e.path /\ t.stored = TRUE
  BY <1>1, <1>2 DEF Told, Entries
<1>4. t \in Told /\ j \in ToldJobs /\ j.pc = "stage" /\ j.todo # <<>>
  BY <1>1, <1>2, SMTT(30)
<1>5. /\ exists' = exists \cup {j.dest} /\ UNCHANGED <<manifest, acked>>
      /\ content' = Fill(p, e, fs[e.path])
      /\ \/ /\ fs' = [fs EXCEPT ![e.path] = None]
            /\ job' = [job EXCEPT ![p].todo = Tail(@), ![p].done = Append(@, t)]
         \/ /\ fs' = fs
            /\ job' = [job EXCEPT ![p].pc = "delete", ![p].done = Append(@, t)]
  BY <1>2 DEF StageRename, StageCopy, hist
<1>6. PICK n : /\ job' = [job EXCEPT ![p] = n]
               /\ \/ n = [j EXCEPT !.todo = Tail(@), !.done = Append(@, t)]
                     /\ fs' = [fs EXCEPT ![e.path] = None]
                  \/ n = [j EXCEPT !.pc = "delete", !.done = Append(@, t)] /\ fs' = fs
  <2>1. CASE /\ fs' = [fs EXCEPT ![e.path] = None]
             /\ job' = [job EXCEPT ![p].todo = Tail(@), ![p].done = Append(@, t)]
    <3>1. PICK n : n = [j EXCEPT !.todo = Tail(@), !.done = Append(@, t)]
      OBVIOUS
    <3>2. job' = [job EXCEPT ![p] = n]
      BY <2>1, <3>1
    <3> QED
      BY <2>1, <3>1, <3>2
  <2>2. CASE fs' = fs /\ job' = [job EXCEPT ![p].pc = "delete", ![p].done = Append(@, t)]
    <3>1. PICK n : n = [j EXCEPT !.pc = "delete", !.done = Append(@, t)]
      OBVIOUS
    <3>2. job' = [job EXCEPT ![p] = n]
      BY <2>2, <3>1
    <3> QED
      BY <2>2, <3>1, <3>2
  <2> QED
    BY <1>5, <2>1, <2>2, Zenon
<1>7. /\ n \in ToldJobs /\ n.dest = j.dest /\ n.done = Append(j.done, t)
      /\ \/ /\ n.pc = "stage" /\ n.todo = Tail(j.todo)
            /\ fs' \in {fs, [fs EXCEPT ![e.path] = None]}
         \/ n.pc = "delete" /\ n.todo = j.todo /\ fs' = fs
  <2>1. CASE n = [j EXCEPT !.todo = Tail(@), !.done = Append(@, t)]
             /\ fs' = [fs EXCEPT ![e.path] = None]
    <3>1. n = [j EXCEPT !.todo = Tail(@), !.done = Append(@, t)]
      BY <2>1
    <3>2. /\ n \in ToldJobs /\ n.dest = j.dest /\ n.done = Append(j.done, t)
          /\ n.pc = "stage" /\ n.todo = Tail(j.todo)
      BY ONLY <1>4, <3>1, StagedNext, Zenon
    <3> QED
      BY <2>1, <3>2
  <2>2. CASE n = [j EXCEPT !.pc = "delete", !.done = Append(@, t)] /\ fs' = fs
    <3>1. n = [j EXCEPT !.pc = "delete", !.done = Append(@, t)]
      BY <2>2
    <3>2. /\ n \in ToldJobs /\ n.dest = j.dest /\ n.done = Append(j.done, t)
          /\ n.pc = "delete" /\ n.todo = j.todo
      BY ONLY <1>4, <3>1, StagedDelete, ZenonT(30)
    <3> QED
      BY <2>2, <3>2
  <2> QED
    BY <1>6, <2>1, <2>2
<1>8. n.given = j.given /\ (j.failed => n.failed)
  BY <1>4, <1>6 DEF ToldJobs
<1>9. job' = [job EXCEPT ![p] = n]
  BY <1>6
<1> QED
  <2>1. /\ IndInv /\ SoloInv /\ OneProcess /\ AckInv /\ p \in Procs /\ Staging(p)
        /\ j = job[p] /\ e = Head(j.todo) /\ n \in ToldJobs /\ t \in Told
    BY <1>1, <1>4, <1>7
  <2>2. PICK c : c = fs[e.path]
    OBVIOUS
  <2>3. /\ t.path = e.path /\ content' = Fill(p, e, c) /\ exists' = exists \cup {j.dest}
        /\ UNCHANGED <<manifest, acked>> /\ (j.failed => n.failed)
    BY <1>3, <1>5, <1>8, <2>2
  <2>6. \A i : i \in Items /\ fs[e.path] = Whole(i) => \/ n.failed
                                                       \/ t.link = i
                                                       \/ t.stored /\ c = Whole(i)
    BY ONLY <1>3, <2>2
  <2>4. \/ /\ n.pc = "stage" /\ n.todo = Tail(j.todo)
           /\ fs' \in {fs, [fs EXCEPT ![e.path] = None]}
        \/ n.pc = "delete" /\ n.todo = j.todo /\ fs' = fs
    BY <1>7
  <2>5. n.dest = j.dest /\ n.done = Append(j.done, t) /\ n.given = j.given
    BY <1>7, <1>8
  <2> QED
    BY ONLY <2>1, <2>3, <2>4, <2>5, <2>6, <1>9, StageAck

\* A thing that could not be staged is an error.
LEMMA StageFailAck ==
    ASSUME IndInv, SoloInv, OneProcess, AckInv, NEW p \in Procs, StageFail(p)
    PROVE  AckInv'
<1> SUFFICES ASSUME NEW j, j = job[p], NEW e, e = Head(j.todo) PROVE AckInv'
  OBVIOUS
<1>1. /\ j \in ToldJobs /\ j.pc = "stage" /\ j.todo # <<>> /\ Staging(p)
      /\ e \in Told /\ Fill(p, e, None) = content
  BY NextSlot, NextPath DEF StageFail, Staging, At
<1>2. PICK n : n = [j EXCEPT !.todo = Tail(@), !.failed = TRUE, !.done = Append(@, e)]
  OBVIOUS
<1>3. /\ exists' = exists \cup {j.dest} /\ UNCHANGED <<fs, manifest, acked>>
      /\ job' = [job EXCEPT ![p] = n]
  BY <1>2 DEF StageFail, hist
<1>4. /\ n \in ToldJobs /\ n.dest = j.dest /\ n.done = Append(j.done, e)
      /\ n.pc = "stage" /\ n.todo = Tail(j.todo)
  BY ONLY <1>1, <1>2, StagedNext, Zenon
<1>5. n.failed /\ n.given = j.given
  BY <1>1, <1>2 DEF ToldJobs
<1>6. PICK c : content' = Fill(p, e, c)
  BY <1>1 DEF StageFail
<1> QED
  <2>1. /\ IndInv /\ SoloInv /\ OneProcess /\ AckInv /\ p \in Procs /\ Staging(p)
        /\ j = job[p] /\ e = Head(j.todo) /\ n \in ToldJobs /\ e \in Told
    BY <1>1, <1>4
  <2>2. /\ e.path = e.path /\ content' = Fill(p, e, c) /\ exists' = exists \cup {j.dest}
        /\ UNCHANGED <<manifest, acked>> /\ (j.failed => n.failed)
    BY <1>3, <1>5, <1>6
  <2>3. \A i : i \in Items /\ fs[e.path] = Whole(i) => \/ n.failed
                                                       \/ e.link = i
                                                       \/ e.stored /\ c = Whole(i)
    BY ONLY <1>5
  <2>4. \/ /\ n.pc = "stage" /\ n.todo = Tail(j.todo)
           /\ fs' \in {fs, [fs EXCEPT ![e.path] = None]}
        \/ n.pc = "delete" /\ n.todo = j.todo /\ fs' = fs
    BY <1>3, <1>4
  <2>5. n.dest = j.dest /\ n.done = Append(j.done, e) /\ n.given = j.given
    BY <1>4, <1>5
  <2>6. job' = [job EXCEPT ![p] = n]
    BY <1>3, SMTT(30)
  <2> QED
    BY ONLY <2>1, <2>2, <2>3, <2>4, <2>5, <2>6, StageAck, ZenonT(40)

\* What is deleted has been staged, or its deletion is what is left to do.
LEMMA DeleteAck ==
    ASSUME IndInv, SoloInv, OneProcess, AckInv, NEW p \in Procs, Delete(p)
    PROVE  AckInv'
<1> SUFFICES ASSUME NEW j, j = job[p], NEW e, e = Head(j.todo) PROVE AckInv'
  OBVIOUS
<1>1. /\ j \in ToldJobs /\ j.pc = "delete" /\ j.todo # <<>> /\ j.todo \in Seq(Told)
      /\ TodoOK(j) /\ Apart(j) /\ Promised(j) /\ AckedKept /\ e \in Told
      /\ fs \in [Paths -> Cells \cup {None}] /\ job \in [Procs -> GoodJobs]
  <2>1. j.pc = "delete" /\ j.todo # <<>>
    BY JobAt, Zenon DEF Delete, At, Ready
  <2>2. j \in ToldJobs /\ e \in Told
    BY <2>1, NextPath DEF At
  <2> QED
    BY <2>1, <2>2 DEF ToldJobs, SoloInv, SoloOK, AckInv, IndInv, DiskOK
<1>2. PICK n : /\ job' = [job EXCEPT ![p] = n] /\ n.pc = "stage" /\ n.todo = Tail(j.todo)
               /\ n.done = j.done /\ n.dest = j.dest /\ n.given = j.given
               /\ (j.failed => n.failed)
  <2>1. CASE job' = [job EXCEPT ![p].pc = "stage", ![p].todo = Tail(@)]
    <3>1. PICK n : n = [j EXCEPT !.pc = "stage", !.todo = Tail(@)]
      OBVIOUS
    <3>2. /\ n.pc = "stage" /\ n.todo = Tail(j.todo) /\ n.done = j.done /\ n.dest = j.dest
          /\ n.given = j.given /\ n.failed = j.failed
      BY <1>1, <3>1 DEF ToldJobs
    <3>3. job' = [job EXCEPT ![p] = n]
      BY <2>1, <3>1
    <3> QED
      BY <3>2, <3>3
  <2>2. CASE job' = [job EXCEPT ![p].pc = "stage", ![p].todo = Tail(@), ![p].failed = TRUE]
    <3>1. PICK n : n = [j EXCEPT !.pc = "stage", !.todo = Tail(@), !.failed = TRUE]
      OBVIOUS
    <3>2. /\ n.pc = "stage" /\ n.todo = Tail(j.todo) /\ n.done = j.done /\ n.dest = j.dest
          /\ n.given = j.given /\ n.failed
      BY <1>1, <3>1 DEF ToldJobs
    <3>3. job' = [job EXCEPT ![p] = n]
      BY <2>2, <3>1, ZenonT(30)
    <3> QED
      BY <3>2, <3>3
  <2> QED
    BY <2>1, <2>2, Zenon DEF Delete
<1>3. /\ UNCHANGED <<exists, content, manifest, acked>>
      /\ \A q \in Paths : q # e.path => fs'[q] = fs[q]
  BY <1>1 DEF Delete, disk, hist
<1>4. AckedKept' /\ Apart(n)'
  <2>1. AckedKept'
    BY <1>1, <1>3, AckedStill DEF AckedKept
  <2> QED
    BY <1>1, <1>2, <1>3, <2>1, SMTT(30) DEF Apart
<1>5. ASSUME NEW k \in Pending(j)
      PROVE  /\ fs'[j.todo[k].path] = fs[j.todo[k].path]
             /\ \E l \in Pending(n) : n.todo[l] = j.todo[k]
  <2>1. k \in DOMAIN j.todo /\ k # 1
    BY <1>1, <1>5 DEF Pending
  <2>2. /\ 1 \in DOMAIN j.todo /\ j.todo[1] = e
        /\ k - 1 \in DOMAIN Tail(j.todo) /\ Tail(j.todo)[k - 1] = j.todo[k]
    BY <1>1, <2>1, TailAt
  <2>3. j.todo[k].path # e.path
    <3>1. Base(j.todo[k]) # Base(e)
      BY <1>1, <2>1, <2>2 DEF TodoOK
    <3> QED
      BY <3>1, Elsewhere
  <2>4. j.todo[k].path \in Paths
    <3>1. j.todo[k] \in Told
      BY <1>1, <2>1
    <3> QED
      BY <3>1 DEF Told, Entries
  <2>5. k - 1 \in Pending(n)
    BY <1>2, <2>2 DEF Pending
  <2> QED
    BY <1>2, <1>3, <2>2, <2>3, <2>4, <2>5
<1>6. Promised(n)'
  <2>1. ASSUME ~n.failed, NEW i \in n.given
        PROVE  Covered(n.dest, n.done, i)' \/ \E k \in Pending(n) : fs'[n.todo[k].path] = Whole(i)
    <3>1. \/ Covered(j.dest, j.done, i)
          \/ \E k \in Pending(j) : fs[j.todo[k].path] = Whole(i)
      BY <1>1, <1>2, <2>1, SMTT(30) DEF Promised, Trashing
    <3>2. CASE Covered(j.dest, j.done, i)
      BY <1>2, <1>3, <3>2 DEF Covered
    <3>3. CASE \E k \in Pending(j) : fs[j.todo[k].path] = Whole(i)
      BY <1>5, <3>3
    <3> QED
      BY <3>1, <3>2, <3>3
  <2> QED
    BY <2>1 DEF Promised, Pending, Whole
<1> QED
  BY <1>1, <1>2, <1>4, <1>6, AckIs

\* What is reported is what the manifest and content/ have of it.
LEMMA SaveManifestAck ==
    ASSUME IndInv, SoloInv, OneProcess, AckInv, NEW p \in Procs, SaveManifest(p)
    PROVE  AckInv'
<1> SUFFICES ASSUME NEW j, j = job[p], NEW d, d = j.dest PROVE AckInv'
  OBVIOUS
<1>1. /\ j \in ToldJobs /\ j.pc = "stage" /\ j.todo = <<>> /\ Apart(j) /\ Promised(j)
      /\ AckedKept /\ job \in [Procs -> GoodJobs] /\ d \in FolderIds
      /\ manifest \in [FolderIds -> Seq(Told)]
  BY JobAt DEF SaveManifest, At, Ready, AckInv, IndInv, DiskOK
<1>2. content' = content /\ job' = [job EXCEPT ![p] = Idle]
  BY DEF SaveManifest
<1>3. CASE /\ exists' = exists \cup {d} /\ manifest' = [manifest EXCEPT ![d] = j.done]
           /\ acked' = IF j.failed THEN acked ELSE acked \cup {[fid |-> d, items |-> j.given]}
  <2>1. manifest'[d] = j.done /\ \A f \in FolderIds : f # d => manifest'[f] = manifest[f]
    BY <1>1, <1>3
  <2>2. ASSUME NEW a \in acked
        PROVE  a.fid \in exists' /\ \A i \in a.items : Covered(a.fid, manifest[a.fid], i)'
    <3>1. a.fid # d /\ a.fid \in exists /\ a.fid \in FolderIds
      BY <1>1, <2>2 DEF Apart, AckedKept, IndInv, DiskOK
    <3>2. \A i \in a.items : Covered(a.fid, manifest[a.fid], i)
      BY <1>1, AckedIs
    <3>3. manifest'[a.fid] = manifest[a.fid]
      BY <2>1, <3>1
    <3> QED
      BY <1>2, <1>3, <3>1, <3>2, <3>3 DEF Covered
  <2>3. ASSUME ~j.failed, NEW a, a = [fid |-> d, items |-> j.given]
        PROVE  a.fid \in exists' /\ \A i \in a.items : Covered(a.fid, manifest[a.fid], i)'
    <3>1. a.fid = d /\ a.items = j.given
      BY <2>3
    <3>2. Pending(j) = {}
      BY <1>1 DEF Pending
    <3>3. \A i \in a.items : Covered(d, j.done, i)
      BY <1>1, <2>3, <3>1, <3>2, SMTT(30) DEF Promised, Trashing
    <3> QED
      BY <1>2, <1>3, <2>1, <3>1, <3>3 DEF Covered
  <2>4. AckedKept'
    <3>1. \A a \in acked' : /\ a.fid \in exists'
                            /\ \A i \in a.items : Covered(a.fid, manifest[a.fid], i)'
      BY <1>3, <2>2, <2>3
    <3> QED
      BY <3>1 DEF AckedKept, Covered, Whole, Base
  <2> QED
    BY <1>1, <1>2, <2>4, AckOther DEF Idle, Trashing
<1>4. CASE UNCHANGED <<exists, manifest, acked>>
  <2>1. AckedKept'
    BY <1>1, <1>2, <1>4, AckedStill, Zenon DEF AckedKept
  <2> QED
    BY <1>1, <1>2, <2>1, AckOther DEF Idle, Trashing
<1> QED
  BY <1>3, <1>4 DEF SaveManifest

\* What was asked for is what is at the paths when trash() begins.
LEMMA TrashBeginAck ==
    ASSUME IndInv, SoloInv, OneProcess, AckInv, NEW p \in Procs, NEW ps \in TrashArgs,
           TrashBegin(p, ps)
    PROVE  AckInv'
<1>1. PICK store :
        job' = [job EXCEPT ![p] =
                  [Idle EXCEPT !.pc = IF store \in Serials THEN "register" ELSE "name",
                               !.todo = [k \in DOMAIN ps |-> Classified(ps[k])],
                               !.store = store,
                               !.given = {i \in Items : \E k \in DOMAIN ps :
                                             fs[ps[k]] = [item |-> i, whole |-> TRUE]}]]
  BY Zenon DEF TrashBegin
<1>2. PICK n : /\ job' = [job EXCEPT ![p] = n] /\ n.pc \in {"register", "name"}
               /\ n.todo = [k \in DOMAIN ps |-> Classified(ps[k])] /\ n.done = <<>>
               /\ n.given = {i \in Items : \E k \in DOMAIN ps :
                                fs[ps[k]] = [item |-> i, whole |-> TRUE]}
  <2>1. PICK m : m = [Idle EXCEPT !.pc = IF store \in Serials THEN "register" ELSE "name",
                               !.todo = [k \in DOMAIN ps |-> Classified(ps[k])],
                               !.store = store,
                               !.given = {i \in Items : \E k \in DOMAIN ps :
                                             fs[ps[k]] = [item |-> i, whole |-> TRUE]}]
    BY Zenon
  <2>2. m.pc \in {"register", "name"} /\ m.done = <<>>
        /\ m.todo = [k \in DOMAIN ps |-> Classified(ps[k])]
        /\ m.given = {i \in Items : \E k \in DOMAIN ps :
                                fs[ps[k]] = [item |-> i, whole |-> TRUE]}
    BY <2>1 DEF Idle
  <2>3. job' = [job EXCEPT ![p] = m]
    BY <1>1, <2>1
  <2> QED
    BY <2>2, <2>3
<1>3. UNCHANGED <<fs, exists, content, manifest, acked>>
  BY DEF TrashBegin, disk, hist
<1>4. AckedKept' /\ Apart(n)'
  <2>1. AckedKept'
    BY <1>3, AckedStill DEF AckInv, AckedKept
  <2> QED
    BY <1>2, <2>1, SMTT(30) DEF Apart
<1>5. ASSUME NEW i \in n.given PROVE \E k \in Pending(n) : fs'[n.todo[k].path] = Whole(i)
  <2>1. PICK k \in DOMAIN ps : fs[ps[k]] = Whole(i)
    BY <1>2, <1>5 DEF Whole
  <2>2. \A q : Classified(q).path = q
    BY DEF Classified
  <2>3. k \in Pending(n) /\ n.todo[k].path = ps[k]
    BY <1>2, <2>1, <2>2 DEF Pending
  <2> QED
    BY <1>3, <2>1, <2>3
<1>6. Promised(n)'
  BY <1>5 DEF Promised, Pending, Whole
<1> QED
  BY <1>2, <1>4, <1>6, AckIs DEF IndInv

\* Steps of recover and clean that leave every folder alone.
LEMMA RestAck ==
    ASSUME IndInv, OneProcess, AckInv, NEW p \in Procs, NEW n,
           job' = [job EXCEPT ![p] = n], n.pc \notin Trashing, UNCHANGED disk,
           acked' \subseteq acked
    PROVE  AckInv'
<1>1. AckedKept'
  BY AckedStill DEF AckInv, AckedKept, disk
<1> QED
  BY <1>1, AckOther, ZenonT(30) DEF IndInv

LEMMA AloneAck ==
    ASSUME IndInv, OneProcess, AckInv, NEW p \in Procs,
           \/ RecoverMetadata(p) \/ RecoverLink(p) \/ RecoverContent(p) \/ RecoverFail(p)
           \/ CleanSkip(p) \/ CleanConfirm(p) \/ Crash(p)
    PROVE  AckInv'
<1> SUFFICES ASSUME NEW j, j = job[p] PROVE AckInv'
  BY SMTT(30)
<1>1. j \in ToldJobs /\ UNCHANGED <<disk, acked>>
  BY JobAt DEF RecoverMetadata, RecoverLink, RecoverContent, RecoverFail, CleanSkip,
     CleanConfirm, Crash, hist
<1>2. ASSUME NEW ok \in BOOLEAN, job' = [job EXCEPT ![p] = NextEntry(j, ok)],
             Recovering(p)
      PROVE  AckInv'
  <2>1. j.queue # <<>>
    BY <1>2, FirstFolder DEF Recovering, At
  <2>2. PICK n : n = NextEntry(j, ok)
    OBVIOUS
  <2>3. n.pc = "recover"
    BY <1>1, <2>1, <2>2, NextEntryIs
  <2>4. n.pc \notin Trashing /\ job' = [job EXCEPT ![p] = n]
    BY <1>2, <2>2, <2>3 DEF Trashing
  <2> QED
    BY <1>1, <2>4, RestAck
<1>3. ASSUME NEW step \in {"unlink", "purge"}, job' = [job EXCEPT ![p].pc = step]
      PROVE  AckInv'
  <2>1. PICK n : n = [j EXCEPT !.pc = step]
    OBVIOUS
  <2>2. n.pc = step /\ job' = [job EXCEPT ![p] = n]
    BY <1>1, <1>3, <2>1 DEF ToldJobs
  <2>3. n.pc \notin Trashing
    BY <2>2 DEF Trashing
  <2> QED
    BY <1>1, <2>2, <2>3, RestAck
<1>4. CASE RecoverMetadata(p) \/ RecoverLink(p) \/ RecoverFail(p)
  <2>1. \E ok \in BOOLEAN : job' = [job EXCEPT ![p] = NextEntry(j, ok)]
    BY <1>4, Zenon DEF RecoverMetadata, RecoverLink, RecoverFail
  <2>2. Recovering(p)
    BY <1>4, Zenon DEF RecoverMetadata, RecoverLink, RecoverFail
  <2> QED
    BY <1>2, <2>1, <2>2
<1>5. CASE RecoverContent(p) \/ CleanConfirm(p)
  BY <1>3, <1>5 DEF RecoverContent, CleanConfirm
<1>6. CASE CleanSkip(p)
  <2>1. PICK n : n = NextFolder(j, "clean")
    OBVIOUS
  <2>2. n.pc \notin Trashing
    <3>1. n = Idle \/ n.pc = "clean"
      BY <1>1, <2>1, NextFolderIs
    <3> QED
      BY <3>1 DEF Idle, Trashing
  <2>3. job' = [job EXCEPT ![p] = n]
    BY <1>6, <2>1 DEF CleanSkip
  <2> QED
    BY <1>1, <2>2, <2>3, RestAck
<1>7. CASE Crash(p)
  BY <1>1, <1>7, RestAck DEF Crash, Idle, Trashing
<1> QED
  BY <1>4, <1>5, <1>6, <1>7

LEMMA QueueBeginAck ==
    ASSUME IndInv, OneProcess, AckInv, NEW p \in Procs, NEW sel,
           \/ \E mode : RecoverBegin(p, sel, mode)
           \/ \E flags : CleanBegin(p, sel, flags)
    PROVE  AckInv'
<1>1. UNCHANGED <<disk, acked>>
  BY Zenon DEF RecoverBegin, CleanBegin, hist
<1>2. PICK n : job' = [job EXCEPT ![p] = n] /\ n.pc \in {"idle", "recover", "clean"}
  <2>1. ASSUME NEW q, NEW mode,
               job' = [job EXCEPT ![p] =
                   IF q = <<>> THEN Idle
                   ELSE [Idle EXCEPT !.pc = "recover", !.queue = Load(q), !.mode = mode]]
        PROVE  \E n : job' = [job EXCEPT ![p] = n] /\ n.pc \in {"idle", "recover", "clean"}
    <3>1. /\ Idle.pc = "idle"
          /\ [Idle EXCEPT !.pc = "recover", !.queue = Load(q), !.mode = mode].pc = "recover"
      BY DEF Idle
    <3> QED
      BY <2>1, <3>1
  <2>2. ASSUME NEW q, NEW flags,
               job' = [job EXCEPT ![p] =
                   IF q = <<>> THEN Idle
                   ELSE [Idle EXCEPT !.pc = "clean", !.queue = Load(q),
                                     !.flags = flags, !.now = clock]]
        PROVE  \E n : job' = [job EXCEPT ![p] = n] /\ n.pc \in {"idle", "recover", "clean"}
    <3>1. /\ Idle.pc = "idle"
          /\ [Idle EXCEPT !.pc = "clean", !.queue = Load(q),
                          !.flags = flags, !.now = clock].pc = "clean"
      BY DEF Idle
    <3> QED
      BY <2>2, <3>1
  <2> QED
    BY <2>1, <2>2, Zenon DEF RecoverBegin, CleanBegin
<1>3. n.pc \notin Trashing
  BY <1>2 DEF Trashing
<1> QED
  BY <1>1, <1>2, <1>3, RestAck

\* A step that uses up the backup in folder f leaves the others alone.
LEMMA UsedAck ==
    ASSUME IndInv, OneProcess, AckInv, NEW p \in Procs, NEW n,
           job' = [job EXCEPT ![p] = n], n.pc \notin Trashing, NEW f, Touch(f),
           exists \ {f} \subseteq exists',
           \A h \in FolderIds : h # f => content'[h] = content[h] /\ manifest'[h] = manifest[h]
    PROVE  AckInv'
<1>1. AckedKept'
  <2>1. \A a \in acked' : a \in acked /\ a.fid # f /\ a.fid \in exists /\ a.fid \in FolderIds
    BY DEF Touch, AckInv, AckedKept, IndInv, DiskOK
  <2> QED
    BY <2>1, AckedStill DEF AckInv
<1> QED
  BY <1>1, AckOther DEF IndInv

LEMMA UnlinkAck ==
    ASSUME IndInv, SoloInv, OneProcess, AckInv, NEW p \in Procs, Unlink(p)
    PROVE  AckInv'
<1> SUFFICES ASSUME NEW j, j = job[p], NEW f, f = j.queue[1].fid PROVE AckInv'
  OBVIOUS
<1>1. j \in ToldJobs /\ j.queue # <<>>
  BY JobAt, Zenon DEF Unlink, At, Ready
<1>2. PICK ok \in BOOLEAN : job' = [job EXCEPT ![p] = NextEntry(j, ok)]
  BY Zenon DEF Unlink
<1>3. PICK n : n = NextEntry(j, ok)
  OBVIOUS
<1>4. n.pc \notin Trashing
  <2>1. n.pc = "recover"
    BY <1>1, <1>3, NextEntryIs
  <2> QED
    BY <2>1 DEF Trashing
<1>5. Touch(f) /\ UNCHANGED <<exists, manifest>>
  BY Zenon DEF Unlink
<1>6. \A h \in FolderIds : h # f => content'[h] = content[h]
  BY Zenon DEF Unlink, IndInv, DiskOK
<1>7. job' = [job EXCEPT ![p] = n]
  BY <1>2, <1>3
<1> QED
  BY <1>4, <1>5, <1>6, <1>7, UsedAck

\* While folder names are unique, the folder that goes is the one meant.
LEMMA RemoveAck ==
    ASSUME IndInv, SoloInv, OneProcess, NamesUnique, AckInv, NEW p \in Procs,
           RecoverEnd(p) \/ Purge(p)
    PROVE  AckInv'
<1> SUFFICES ASSUME NEW j, j = job[p], NEW f, f = j.queue[1].fid PROVE AckInv'
  OBVIOUS
<1>1. j.pc \in {"recover", "purge"}
  BY DEF RecoverEnd, Purge, At
<1>2. /\ j \in ToldJobs /\ j.queue # <<>> /\ f \in exists /\ FoldersOK
  <2>1. j \in ToldJobs /\ j.queue # <<>> /\ QueueOK(j.queue) /\ FoldersOK
    BY <1>1, FirstFolder DEF SoloInv, SoloOK, Queued
  <2>2. 1 \in DOMAIN j.queue
    <3>1. j.queue \in Seq(ToldFolders)
      BY <2>1 DEF ToldJobs
    <3> QED
      BY <2>1, <3>1, TailAt
  <2> QED
    BY <2>1, <2>2 DEF QueueOK
<1>3. PICK step \in {"recover", "clean"} : job' = [job EXCEPT ![p] = NextFolder(j, step)]
  BY DEF RecoverEnd, Purge
<1>4. PICK n : n = NextFolder(j, step)
  OBVIOUS
<1>5. n.pc \notin Trashing
  <2>1. n = Idle \/ n.pc = step
    BY <1>2, <1>4, NextFolderIs
  <2> QED
    BY <2>1 DEF Idle, Trashing
<1>6. job' = [job EXCEPT ![p] = n]
  BY <1>3, <1>4
<1>7. CASE UNCHANGED <<disk, acked>>
  BY <1>5, <1>6, <1>7, RestAck
<1>8. CASE RemoveFolder(f) /\ Touch(f)
  <2>1. \/ UNCHANGED disk
        \/ \E g \in exists :
              /\ Finds(Stamp(f), g) /\ exists' \in {exists, exists \ {g}}
              /\ \A h \in FolderIds : h # g => /\ content'[h] = content[h]
                                               /\ manifest'[h] = manifest[h]
    BY <1>2, <1>8, RemovedIs
  <2>2. CASE UNCHANGED disk
    BY <1>5, <1>6, <1>8, <2>2, UsedAck, ZenonT(30) DEF disk
  <2>3. ASSUME NEW g \in exists, Finds(Stamp(f), g), exists' \in {exists, exists \ {g}},
               \A h \in FolderIds : h # g => /\ content'[h] = content[h]
                                             /\ manifest'[h] = manifest[h]
        PROVE  AckInv'
    <3>1. g = f
      BY <1>2, <2>3 DEF NamesUnique, Finds
    <3>2. exists \ {f} \subseteq exists'
      BY <2>3, <3>1
    <3> QED
      BY <1>5, <1>6, <1>8, <2>3, <3>1, <3>2, UsedAck
  <2> QED
    BY <2>1, <2>2, <2>3
<1> QED
  BY <1>7, <1>8 DEF RecoverEnd, Purge

\* A user who makes a new thing takes a path that nothing is at.
LEMMA UserCreateAck ==
    ASSUME IndInv, AckInv, NEW u \in Paths, NEW v \in Items, UserCreate(u, v)
    PROVE  AckInv'
<1>1. /\ UNCHANGED <<exists, content, manifest, acked, job>> /\ fs[u] = None
      /\ \A q \in Paths : q # u => fs'[q] = fs[q]
  BY SMTT(30) DEF UserCreate, disk, IndInv, DiskOK
<1>2. AckedKept'
  BY <1>1, AckedStill DEF AckInv, AckedKept
<1>3. ASSUME NEW p \in Procs PROVE Apart(job[p])' /\ Promised(job[p])'
  <2> SUFFICES ASSUME NEW j, j = job[p] PROVE Apart(j)' /\ Promised(j)'
    BY <1>1
  <2>1. Apart(j) /\ Promised(j) /\ j \in ToldJobs
    BY JobAt DEF AckInv
  <2>2. Apart(j)'
    BY <1>1, <2>1 DEF Apart
  <2>3. ASSUME NEW i \in j.given, NEW k \in Pending(j), fs[j.todo[k].path] = Whole(i)
        PROVE  fs'[j.todo[k].path] = Whole(i)
    <3>1. i \in Items /\ Whole(i) # None
      <4>1. i \in Items
        BY <2>1 DEF ToldJobs
      <4>2. Whole(i) \in Cells
        BY <4>1 DEF Whole, Cells
      <4> QED
        BY <4>1, <4>2, NoneAssumption
    <3>2. j.todo[k].path \in Paths
      <4>1. j.todo \in Seq(Told) /\ k \in DOMAIN j.todo
        BY <2>1 DEF ToldJobs, Pending
      <4>2. j.todo[k] \in Told
        BY <4>1
      <4> QED
        BY <4>2 DEF Told, Entries
    <3> QED
      BY <1>1, <2>3, <3>1, <3>2
  <2>4. \A d, es, i : Covered(d, es, i)' <=> Covered(d, es, i)
    BY <1>1 DEF Covered, Whole
  <2>5. Promised(j)'
    BY <2>1, <2>3, <2>4, SMTT(30) DEF Promised, Pending, Whole
  <2> QED
    BY <2>2, <2>5
<1> QED
  BY <1>2, <1>3 DEF AckInv

\* A step that only lets time pass.
LEMMA SameAck ==
    ASSUME AckInv, UNCHANGED <<fs, exists, content, manifest, job, acked>>
    PROVE  AckInv'
  BY DEF AckInv, AckedKept, Apart, Promised, Covered, Pending

LEMMA NextAck ==
    ASSUME IndInv, SoloInv, OneProcess, NamesUnique, AckInv, [Next]_vars
    PROVE  AckInv'
<1>1. CASE \E p \in Procs : TrashStep(p)
  BY <1>1, RegisterLoadAck, RegisterSaveAck, NameFolderAck, MakeFolderAck, StageAbsentAck,
     StageLinkAck, StageMoveAck, StageFailAck, DeleteAck, SaveManifestAck DEF TrashStep
<1>2. CASE \E p \in Procs : RecoverStep(p) \/ CleanStep(p) \/ Crash(p)
  BY <1>2, AloneAck, UnlinkAck, RemoveAck DEF RecoverStep, CleanStep
<1>3. CASE \E p \in Procs : Begin(p)
  BY <1>3, TrashBeginAck, QueueBeginAck DEF Begin
<1>4. CASE Tick \/ UNCHANGED vars
  BY <1>4, SameAck DEF Tick, vars, disk, hist
<1>5. CASE \E q \in Paths, i \in Items : UserCreate(q, i)
  BY <1>5, UserCreateAck
<1> QED
  BY <1>1, <1>2, <1>3, <1>4, <1>5 DEF Next, Proceed

LEMMA InitAck == Init => AckInv
<1>1. Idle.pc = "idle"
  BY DEF Idle
<1> QED
  BY <1>1 DEF Init, AckInv, AckedKept, Apart, Promised, Trashing

\* As long as no two folders share a name, a backup that trash() reported success for
\* holds everything it was given, whole and recorded in the manifest, until a recovery or
\* a clean uses it up: for commands that run one after the other and are given no two
\* paths of one base name.
THEOREM BackupsKept ==
    ASSUME OneProcess, Named
    PROVE  Spec /\ []NamesUnique => []AckedKept
<1>1. Init => IndInv /\ SoloInv /\ AckInv
  BY InitInv, InitSolo, InitAck
<1>2. IndInv /\ SoloInv /\ AckInv /\ NamesUnique /\ [Next]_vars
        => IndInv' /\ SoloInv' /\ AckInv'
  BY NextInv, NextSolo, NextAck
<1>3. AckInv => AckedKept
  BY DEF AckInv
<1> QED
  BY <1>1, <1>2, <1>3, PTL DEF Spec

-----------------------------------------------------------------------------
(* Nothing is lost *)

\* A link whose target is nowhere but in the memory of trash() reaches the manifest.
LinksSafe == \/ \A i \in Items : KindOf[i] \notin LinkKinds
             \/ "manifest" \notin FaultAt /\ {"stage", "delete"} \cap CrashAt = {}

\* Item i is somewhere, or a user gave it up.
Safe(i) == Kept(i) \/ i \in purged

\* What is at a path, in a folder or in a manifest is not nothing.
LEMMA WholeIs == \A i \in Items : Whole(i) \in Cells /\ Whole(i) # None
<1>1. \A i \in Items : Whole(i) \in Cells
  BY DEF Whole, Cells
<1> QED
  BY <1>1, NoneAssumption

\* What a call holds in memory it goes on holding.
LEMMA HandHeld ==
    ASSUME job \in [Procs -> GoodJobs], NEW p \in Procs, NEW n, job' = [job EXCEPT ![p] = n],
           \A k \in DOMAIN job[p].done :
              \E l \in DOMAIN n.done : n.done[l].link = job[p].done[k].link
    PROVE  \A i : InHand(i) => InHand(i)'
<1>1. job'[p] = n /\ \A q \in Procs : q # p => job'[q] = job[q]
  OBVIOUS
<1> SUFFICES ASSUME NEW i, NEW q \in Procs, NEW k \in DOMAIN job[q].done,
                    job[q].done[k].link = i
             PROVE  InHand(i)'
  BY DEF InHand
<1>2. CASE q = p
  <2>1. PICK l \in DOMAIN n.done : n.done[l].link = i
    BY <1>2
  <2>2. l \in DOMAIN job'[p].done /\ job'[p].done[l].link = i
    BY <1>1, <2>1
  <2> QED
    BY <2>2 DEF InHand
<1>3. CASE q # p
  BY <1>1, <1>3 DEF InHand
<1> QED
  BY <1>2, <1>3

\* Where each thing is, is where it stays.
LEMMA KeptStill ==
    ASSUME \A i \in Items : AtPath(i) => AtPath(i)', \A i : InHand(i) => InHand(i)',
           exists \subseteq exists', UNCHANGED <<content, manifest>>
    PROVE  \A i \in Items : Kept(i) => Kept(i)'
<1>1. \A i : InFolder(i) => InFolder(i)'
  BY DEF InFolder
<1>2. \A i : InManifest(i) => InManifest(i)'
  BY DEF InManifest
<1> QED
  BY <1>1, <1>2 DEF Kept

\* A call that holds nothing in memory does not lose it.
LEMMA NoneHeld ==
    ASSUME IndInv, NEW p \in Procs, NEW n, job' = [job EXCEPT ![p] = n],
           job[p].done \in {<<>>, n.done}
    PROVE  \A i : InHand(i) => InHand(i)'
<1>1. \A k \in DOMAIN job[p].done :
        \E l \in DOMAIN n.done : n.done[l].link = job[p].done[k].link
  OBVIOUS
<1> QED
  BY <1>1, HandHeld DEF IndInv

\* What trash() holds in memory of a link is a link.
LEMMA HeldLink ==
    ASSUME IndInv, SoloInv, NEW p \in Procs, NEW k \in DOMAIN job[p].done,
           job[p].done[k].link # None
    PROVE  KindOf[job[p].done[k].link] \in LinkKinds /\ job[p].done[k].link \in Items
<1>1. job[p] \in ToldJobs /\ TodoOK(job[p]) /\ DestOK(job[p])
  BY JobAt DEF SoloInv, SoloOK
<1>2. job[p].pc \in {"stage", "delete"}
  BY <1>1 DEF TodoOK
<1>3. Tied(job[p].dest, job[p].done)
  BY <1>1, <1>2 DEF DestOK
<1>4. job[p].done[k] \in Told
  <2>1. job[p].done \in Seq(Told)
    BY <1>1 DEF ToldJobs
  <2> QED
    BY <2>1
<1> QED
  BY <1>3, <1>4 DEF Tied, Told, Entries

\* An action of trash() that only goes on to the next step holds what it held.
LEMMA EarlyJob ==
    ASSUME IndInv, SoloInv, NEW p \in Procs,
           \/ RegisterLoad(p) \/ RegisterSave(p) \/ NameFolder(p) \/ MakeFolder(p)
           \/ StageAbsent(p)
    PROVE  \E n : job' = [job EXCEPT ![p] = n] /\ n.done = job[p].done
<1> SUFFICES ASSUME NEW j, j = job[p]
             PROVE  \E n : job' = [job EXCEPT ![p] = n] /\ n.done = j.done
  OBVIOUS
<1>1. j \in ToldJobs /\ TodoOK(j)
  BY JobAt DEF SoloInv, SoloOK
<1>2. CASE RegisterLoad(p)
  BY <1>2, RegistryRead
<1>3. CASE RegisterSave(p)
  <2>1. \E n \in {[j EXCEPT !.pc = "name"], [j EXCEPT !.pc = "name", !.store = Central]} :
           job' = [job EXCEPT ![p] = n]
    BY <1>3 DEF RegisterSave
  <2>2. \A n \in {[j EXCEPT !.pc = "name"], [j EXCEPT !.pc = "name", !.store = Central]} :
           n.done = j.done
    BY <1>1 DEF ToldJobs
  <2> QED
    BY <2>1, <2>2
<1>4. CASE NameFolder(p)
  <2>1. PICK d : job' = [job EXCEPT ![p] = [j EXCEPT !.pc = "mkdir", !.dest = d]]
    BY <1>4, Zenon DEF NameFolder
  <2>2. [j EXCEPT !.pc = "mkdir", !.dest = d].done = j.done
    BY <1>1 DEF ToldJobs
  <2> QED
    BY <2>1, <2>2
<1>5. CASE MakeFolder(p)
  <2>1. j.done = <<>> /\ Idle.done = <<>> /\ [j EXCEPT !.pc = "stage"].done = j.done
    BY <1>1, <1>5 DEF MakeFolder, At, TodoOK, Idle, ToldJobs
  <2>2. \/ job' = [job EXCEPT ![p] = Idle]
        \/ job' = [job EXCEPT ![p] = [j EXCEPT !.pc = "stage"]]
    BY <1>5 DEF MakeFolder
  <2> QED
    BY <2>1, <2>2
<1>6. CASE StageAbsent(p)
  <2>1. job' = [job EXCEPT ![p] = [j EXCEPT !.todo = Tail(@), !.failed = TRUE]]
    BY <1>6 DEF StageAbsent
  <2>2. [j EXCEPT !.todo = Tail(@), !.failed = TRUE].done = j.done
    BY <1>1 DEF ToldJobs
  <2> QED
    BY <2>1, <2>2
<1> QED
  BY <1>2, <1>3, <1>4, <1>5, <1>6

\* It loses nothing.
LEMMA EarlySafe ==
    ASSUME IndInv, SoloInv, NEW p \in Procs,
           \/ RegisterLoad(p) \/ RegisterSave(p) \/ NameFolder(p) \/ MakeFolder(p)
           \/ StageAbsent(p)
    PROVE  \A i \in Items : Safe(i) => Safe(i)'
<1>1. UNCHANGED <<fs, content, manifest, purged>> /\ exists \subseteq exists'
  BY DEF RegisterLoad, RegisterSave, NameFolder, MakeFolder, StageAbsent, disk, hist
<1>2. \A i : InHand(i) => InHand(i)'
  BY EarlyJob, NoneHeld
<1>3. \A i : AtPath(i) => AtPath(i)'
  BY <1>1 DEF AtPath
<1> QED
  BY <1>1, <1>2, <1>3, KeptStill DEF Safe

\* A path that trash() is through with: what was there is in the folder, or still there.
LEMMA StagedKept ==
    ASSUME IndInv, SoloInv, NEW p \in Procs, Staging(p),
           NEW j, j = job[p], NEW e, e = Head(j.todo), NEW n, NEW e2 \in Told, NEW c,
           job' = [job EXCEPT ![p] = n], n.done = Append(j.done, e2),
           content' = Fill(p, e, c), exists' = exists \cup {j.dest},
           UNCHANGED <<manifest, purged>>,
           fs' = fs \/ (fs' = [fs EXCEPT ![e.path] = None] /\ c = fs[e.path])
    PROVE  \A i \in Items : Kept(i) => Kept(i)'
<1> SUFFICES ASSUME NEW d, d = j.dest, NEW b, b = Base(e)
             PROVE  \A i \in Items : Kept(i) => Kept(i)'
  BY SMTT(30)
<1>1. /\ j.done \in Seq(Told) /\ d \in FolderIds /\ b \in Names /\ content[d][b] = None
  BY NextSlot DEF Slot, Base
<1>2. /\ content \in [FolderIds -> [Names -> Cells \cup {None}]] /\ exists \subseteq FolderIds
      /\ fs \in [Paths -> Cells \cup {None}] /\ job \in [Procs -> GoodJobs]
  BY SMTT(30) DEF IndInv, DiskOK
<1>3. /\ content'[d][b] = c
      /\ \A f \in FolderIds, m \in Names : f # d \/ m # b => content'[f][m] = content[f][m]
  BY <1>1, <1>2 DEF Fill, Base
<1>4. \A i : InHand(i) => InHand(i)'
  <2>1. \A k \in DOMAIN j.done :
          \E l \in DOMAIN n.done : n.done[l].link = j.done[k].link
    BY <1>1, AppendAt
  <2> QED
    BY <1>2, <2>1, HandHeld
<1>5. ASSUME NEW i \in Items, InFolder(i) PROVE InFolder(i)'
  <2>1. PICK f \in exists, m \in Names : content[f][m] = Whole(i)
    BY <1>5 DEF InFolder, Whole
  <2>2. content'[f][m] = Whole(i) /\ f \in exists'
    BY <1>1, <1>2, <1>3, <2>1, WholeIs
  <2> QED
    BY <2>2, SMTT(30) DEF InFolder, Whole
<1>6. \A i : InManifest(i) => InManifest(i)'
  BY DEF InManifest
<1>7. ASSUME NEW i \in Items, AtPath(i) PROVE AtPath(i)' \/ InFolder(i)'
  <2>1. PICK q \in Paths : fs[q] = Whole(i)
    BY <1>7 DEF AtPath, Whole
  <2>2. CASE fs'[q] = fs[q]
    BY <2>1, <2>2, SMTT(30) DEF AtPath, Whole
  <2>3. CASE fs'[q] # fs[q]
    <3>1. q = e.path /\ c = fs[e.path]
      BY <1>2, <2>3
    <3>2. content'[d][b] = Whole(i) /\ d \in exists'
      BY <1>3, <2>1, <3>1, Zenon
    <3> QED
      BY <1>1, <3>2 DEF InFolder, Whole
  <2> QED
    BY <2>2, <2>3
<1> QED
  BY <1>4, <1>5, <1>6, <1>7 DEF Kept

\* _stage_link() and _stage_regular() lose nothing.
LEMMA StageKept ==
    ASSUME IndInv, SoloInv, NEW p \in Procs,
           StageLink(p) \/ StageRename(p) \/ StageCopy(p) \/ StageFail(p)
    PROVE  purged' = purged /\ \A i \in Items : Kept(i) => Kept(i)'
<1> SUFFICES ASSUME NEW j, j = job[p], NEW e, e = Head(j.todo)
             PROVE  purged' = purged /\ \A i \in Items : Kept(i) => Kept(i)'
  OBVIOUS
<1>1. /\ Staging(p) /\ j \in ToldJobs /\ e \in Told
      /\ Fill(p, e, None) = content
  BY NextSlot, Zenon DEF StageLink, StageRename, StageCopy, StageFail
<1>2. PICK t : t \in Told /\ t = [e EXCEPT !.stored = TRUE]
  BY <1>1, NextPath, Zenon DEF Staging
<1>3. exists' = exists \cup {j.dest} /\ UNCHANGED <<manifest, purged>>
  BY Zenon DEF StageLink, StageRename, StageCopy, StageFail, hist
<1>4. PICK c : /\ content' = Fill(p, e, c)
               /\ fs' = fs \/ (fs' = [fs EXCEPT ![e.path] = None] /\ c = fs[e.path])
  BY <1>1, Zenon DEF StageLink, StageRename, StageCopy, StageFail
<1>5. PICK e2 \in {e, t} :
        \/ job' = [job EXCEPT ![p].pc = "delete", ![p].done = Append(@, e2)]
        \/ job' = [job EXCEPT ![p].todo = Tail(@), ![p].done = Append(@, e2)]
        \/ job' = [job EXCEPT ![p].todo = Tail(@), ![p].failed = TRUE,
                              ![p].done = Append(@, e2)]
  BY <1>2, Zenon DEF StageLink, StageRename, StageCopy, StageFail
<1>6. PICK n : /\ n \in {[j EXCEPT !.pc = "delete", !.done = Append(@, e2)],
                         [j EXCEPT !.todo = Tail(@), !.done = Append(@, e2)],
                         [j EXCEPT !.todo = Tail(@), !.failed = TRUE, !.done = Append(@, e2)]}
               /\ job' = [job EXCEPT ![p] = n]
  BY <1>5, ZenonT(30)
<1>7. n.done = Append(j.done, e2)
  BY <1>1, <1>6 DEF ToldJobs
<1>8. e2 \in Told
  BY <1>1, <1>2
<1>9. job' = [job EXCEPT ![p] = n]
  BY <1>6
<1>10. /\ IndInv /\ SoloInv /\ p \in Procs /\ Staging(p) /\ j = job[p] /\ e = Head(j.todo)
  BY <1>1
<1> QED
  BY ONLY <1>10, <1>3, <1>4, <1>7, <1>8, <1>9, StagedKept

\* What is deleted is in the folder, or the call holds the link.
LEMMA DeleteKept ==
    ASSUME IndInv, SoloInv, NEW p \in Procs, Delete(p)
    PROVE  purged' = purged /\ \A i \in Items : Kept(i) => Kept(i)'
<1> SUFFICES ASSUME NEW j, j = job[p], NEW e, e = Head(j.todo), NEW d, d = j.dest
             PROVE  purged' = purged /\ \A i \in Items : Kept(i) => Kept(i)'
  OBVIOUS
<1>1. /\ j \in ToldJobs /\ j.pc = "delete" /\ j.todo # <<>> /\ j.todo \in Seq(Told)
      /\ TodoOK(j) /\ DestOK(j) /\ FoldersOK /\ e \in Told /\ Base(e) \in Names
      /\ fs \in [Paths -> Cells \cup {None}] /\ job \in [Procs -> GoodJobs]
      /\ d \in FolderIds
  <2>1. j.pc = "delete" /\ j.todo # <<>>
    BY JobAt, Zenon DEF Delete, At, Ready
  <2>2. j \in ToldJobs /\ e \in Told /\ Base(e) \in Names /\ d \in FolderIds
    BY <2>1, NextPath DEF At, Base
  <2> QED
    BY <2>1, <2>2 DEF ToldJobs, SoloInv, SoloOK, IndInv, DiskOK
<1>2. PICK n : /\ job' = [job EXCEPT ![p] = n] /\ n.done = j.done
  <2>1. \E n \in {[j EXCEPT !.pc = "stage", !.todo = Tail(@)],
                  [j EXCEPT !.pc = "stage", !.todo = Tail(@), !.failed = TRUE]} :
          job' = [job EXCEPT ![p] = n]
    BY Zenon DEF Delete
  <2>2. \A n \in {[j EXCEPT !.pc = "stage", !.todo = Tail(@)],
                  [j EXCEPT !.pc = "stage", !.todo = Tail(@), !.failed = TRUE]} :
          n.done = j.done
    BY <1>1 DEF ToldJobs
  <2> QED
    BY <2>1, <2>2
<1>3. /\ UNCHANGED <<exists, content, manifest, purged>>
      /\ \A q \in Paths : q # e.path => fs'[q] = fs[q]
  <2>1. UNCHANGED <<exists, content, manifest, purged>>
    BY Zenon DEF Delete, disk, hist
  <2>2. \/ fs' = [fs EXCEPT ![e.path] = None]
        \/ fs' = fs
        \/ \E w \in {FALSE, fs[e.path].whole} : fs' = [fs EXCEPT ![e.path].whole = w]
    BY Zenon DEF Delete
  <2>3. fs \in [Paths -> Cells \cup {None}]
    BY <1>1, ZenonT(40)
  <2>4. \A q \in Paths : q # e.path => fs'[q] = fs[q]
    BY <2>2, <2>3
  <2> QED
    BY <2>1, <2>4, Zenon
<1>4. \A i : InHand(i) => InHand(i)'
  BY <1>2, NoneHeld
<1>5. \A i : (InFolder(i) => InFolder(i)') /\ (InManifest(i) => InManifest(i)')
  BY <1>3 DEF InFolder, InManifest
<1>6. Same(e)
  BY <1>1, TailAt DEF TodoOK
<1>7. ASSUME NEW i \in Items, AtPath(i) PROVE AtPath(i)' \/ InFolder(i)' \/ InHand(i)'
  <2>1. PICK q \in Paths : fs[q] = Whole(i)
    BY <1>7 DEF AtPath, Whole
  <2>2. CASE q # e.path
    BY <1>3, <2>1, <2>2 DEF AtPath, Whole
  <2>3. CASE q = e.path /\ e.kind \in LinkKinds
    <3>1. e.link = i
      BY <1>6, <2>1, <2>3 DEF Same, Whole
    <3>2. \E k \in DOMAIN j.done : j.done[k].link = i
      BY <1>1, <3>1 DEF DestOK
    <3>3. InHand(i)
      BY <3>2 DEF InHand
    <3> QED
      BY <1>4, <3>3
  <2>4. CASE q = e.path /\ e.kind \notin LinkKinds
    <3>1. content[d][Base(e)] = Whole(i)
      BY <1>1, <2>1, <2>4 DEF DestOK
    <3>2. Whole(i) # None
      BY WholeIs
    <3>3. d \in exists
      BY <1>1, <3>1, <3>2 DEF FoldersOK, NoContent
    <3>4. InFolder(i)
      BY <1>1, <3>1, <3>3 DEF InFolder, Whole
    <3> QED
      BY <1>5, <3>4
  <2> QED
    BY <2>2, <2>3, <2>4
<1> QED
  BY <1>3, <1>4, <1>5, <1>7 DEF Kept

\* The links that trash() held are in the manifest, unless it was refused.
LEMMA SaveManifestSafe ==
    ASSUME IndInv, SoloInv, LinksSafe, NEW p \in Procs, SaveManifest(p)
    PROVE  \A i \in Items : Safe(i) => Safe(i)'
<1> SUFFICES ASSUME NEW j, j = job[p], NEW d, d = j.dest
             PROVE  \A i \in Items : Safe(i) => Safe(i)'
  OBVIOUS
<1>1. /\ j \in ToldJobs /\ j.pc = "stage" /\ DestOK(j) /\ d \in FolderIds
      /\ job \in [Procs -> GoodJobs] /\ manifest \in [FolderIds -> Seq(Told)]
      /\ exists \subseteq FolderIds
  BY JobAt DEF SaveManifest, At, Ready, SoloInv, SoloOK, IndInv, DiskOK
<1>2. job' = [job EXCEPT ![p] = Idle] /\ UNCHANGED <<fs, content, purged>>
      /\ exists \subseteq exists'
  BY DEF SaveManifest
<1>3. \A i : (AtPath(i) => AtPath(i)') /\ (InFolder(i) => InFolder(i)')
  BY <1>2 DEF AtPath, InFolder
<1>4. ASSUME NEW i \in Items, InHand(i)
      PROVE  InHand(i)' \/ \E k \in DOMAIN j.done : j.done[k].link = i
  <2>1. PICK q \in Procs : \E k \in DOMAIN job[q].done : job[q].done[k].link = i
    BY <1>4 DEF InHand
  <2>2. CASE q # p
    <3>1. job'[q] = job[q]
      BY <1>1, <1>2, <2>2
    <3> QED
      BY <2>1, <3>1 DEF InHand
  <2> QED
    BY <2>1, <2>2
<1>5. CASE exists' = exists \cup {d} /\ manifest' = [manifest EXCEPT ![d] = j.done]
  <2>1. manifest'[d] = j.done /\ \A f \in FolderIds : f # d => manifest'[f] = manifest[f]
    BY <1>1, <1>5
  <2>2. manifest[d] = <<>>
    BY <1>1 DEF DestOK
  <2>3. ASSUME NEW i, InManifest(i) PROVE InManifest(i)'
    <3>1. PICK f \in exists : \E k \in DOMAIN manifest[f] : manifest[f][k].link = i
      BY <2>3 DEF InManifest
    <3>2. f # d
      BY <2>2, <3>1
    <3>3. f \in exists' /\ manifest'[f] = manifest[f]
      BY <1>1, <1>5, <2>1, <3>2
    <3> QED
      BY <3>1, <3>3 DEF InManifest
  <2>4. ASSUME NEW i, \E k \in DOMAIN j.done : j.done[k].link = i PROVE InManifest(i)'
    <3>1. d \in exists'
      BY <1>5
    <3> QED
      BY <2>1, <2>4, <3>1 DEF InManifest
  <2> QED
    BY <1>2, <1>3, <1>4, <2>3, <2>4 DEF Safe, Kept
<1>6. CASE Refused("manifest") /\ UNCHANGED <<exists, manifest>>
  <2>1. \A i \in Items : KindOf[i] \notin LinkKinds
    BY <1>6 DEF Refused, LinksSafe
  <2>2. ASSUME NEW i \in Items, NEW k \in DOMAIN j.done, j.done[k].link = i PROVE FALSE
    <3>1. i # None
      BY TrashAssumption
    <3> QED
      BY <2>1, <2>2, <3>1, HeldLink
  <2>3. \A i : InManifest(i) => InManifest(i)'
    BY <1>6 DEF InManifest
  <2> QED
    BY <1>2, <1>3, <1>4, <2>2, <2>3 DEF Safe, Kept
<1> QED
  BY <1>5, <1>6 DEF SaveManifest

\* A process that is killed held no link in memory.
LEMMA CrashSafe ==
    ASSUME IndInv, SoloInv, LinksSafe, NEW p \in Procs, Crash(p)
    PROVE  \A i \in Items : Safe(i) => Safe(i)'
<1>1. UNCHANGED <<fs, exists, content, manifest, purged>> /\ job' = [job EXCEPT ![p] = Idle]
      /\ job[p].pc \in CrashAt /\ TodoOK(job[p]) /\ job \in [Procs -> GoodJobs]
  BY DEF Crash, disk, hist, SoloInv, SoloOK, IndInv
<1>2. ASSUME NEW i \in Items, InHand(i) PROVE InHand(i)'
  <2>1. PICK q \in Procs : \E k \in DOMAIN job[q].done : job[q].done[k].link = i
    BY <1>2 DEF InHand
  <2>2. q # p
    <3>1. SUFFICES ASSUME q = p PROVE FALSE
      OBVIOUS
    <3>2. i # None
      BY TrashAssumption
    <3>3. KindOf[i] \in LinkKinds
      BY <2>1, <3>1, <3>2, HeldLink
    <3>4. job[p].pc \in {"stage", "delete"}
      BY <1>1, <2>1, <3>1 DEF TodoOK
    <3> QED
      BY <1>1, <3>3, <3>4 DEF LinksSafe
  <2>3. job'[q] = job[q]
    BY <1>1, <2>2
  <2> QED
    BY <2>1, <2>3 DEF InHand
<1>3. \A i : /\ AtPath(i) => AtPath(i)'
             /\ InFolder(i) => InFolder(i)'
             /\ InManifest(i) => InManifest(i)'
  BY <1>1 DEF AtPath, InFolder, InManifest
<1> QED
  BY <1>1, <1>2, <1>3 DEF Safe, Kept

\* A command that stages nothing holds nothing in memory.
LEMMA FreeHand ==
    ASSUME IndInv, SoloInv, NEW p \in Procs, job[p].pc \notin {"stage", "delete"},
           NEW n, job' = [job EXCEPT ![p] = n]
    PROVE  \A i : InHand(i) => InHand(i)'
<1>1. job[p].done = <<>>
  BY DEF SoloInv, SoloOK, TodoOK
<1> QED
  BY <1>1, NoneHeld

\* Commands that start, and steps that leave every folder alone.
LEMMA AloneKept ==
    ASSUME IndInv, SoloInv, NEW p \in Procs,
           \/ Begin(p) \/ CleanSkip(p) \/ CleanConfirm(p)
           \/ RecoverMetadata(p) \/ RecoverLink(p) \/ RecoverContent(p) \/ RecoverFail(p)
    PROVE  purged' = purged /\ \A i \in Items : Kept(i) => Kept(i)'
<1>1. /\ UNCHANGED <<exists, content, manifest, purged>>
      /\ job[p].pc \in {"idle", "recover", "clean"}
      /\ \E n : job' = [job EXCEPT ![p] = n]
  BY Zenon DEF Begin, TrashBegin, RecoverBegin, CleanBegin, CleanSkip, CleanConfirm, At,
     RecoverMetadata, RecoverLink, RecoverContent, RecoverFail, Recovering, disk, hist
<1>2. \A i : InHand(i) => InHand(i)'
  BY <1>1, FreeHand
<1>3. \A i \in Items : AtPath(i) => AtPath(i)'
  <2>1. CASE fs' = fs
    BY <2>1 DEF AtPath
  <2>2. CASE fs' # fs
    <3>1. PICK t : fs[t] = None /\ \E c : fs' = [fs EXCEPT ![t] = c]
      BY <2>2, Zenon DEF Begin, TrashBegin, RecoverBegin, CleanBegin, CleanSkip,
         CleanConfirm,
         RecoverMetadata, RecoverLink, RecoverContent, RecoverFail, Relinkable, Restorable
    <3>2. \A q \in Paths : q # t => fs'[q] = fs[q]
      BY <3>1 DEF IndInv, DiskOK
    <3> QED
      BY <3>1, <3>2, StillThere
  <2> QED
    BY <2>1, <2>2
<1> QED
  BY <1>1, <1>2, <1>3, KeptStill

\* The copy in the folder goes when the thing is back at its path.
LEMMA UnlinkSafe ==
    ASSUME IndInv, SoloInv, NEW p \in Procs, Unlink(p)
    PROVE  \A i \in Items : Safe(i) => Safe(i)'
<1> SUFFICES ASSUME NEW j, j = job[p], NEW f, f = j.queue[1].fid,
                    NEW r, r = j.queue[1].entries, NEW e, e = Head(r), NEW b, b = Base(e)
             PROVE  \A i \in Items : Safe(i) => Safe(i)'
  OBVIOUS
<1>1. j.pc = "unlink" /\ r # <<>>
  BY JobAt, Zenon DEF Unlink, At, Ready
<1>2. /\ f \in FolderIds /\ b \in Names /\ Target(p, e) \in Paths
      /\ Backup(p, e) = content[f][b]
      /\ content \in [FolderIds -> [Names -> Cells \cup {None}]]
  BY <1>1, EntryAt
<1>3. fs[Target(p, e)] = content[f][b]
  BY <1>1, <1>2, Zenon DEF SoloInv, SoloOK, UnlinkOK
<1>4. /\ UNCHANGED <<fs, exists, manifest, purged>> /\ \E n : job' = [job EXCEPT ![p] = n]
      /\ \A g \in FolderIds, m \in Names : g # f \/ m # b => content'[g][m] = content[g][m]
  <2>1. \/ content' = content
        \/ \E c : content' = [content EXCEPT ![f][b] = c]
    <3>1. [content EXCEPT ![f][b].whole = FALSE]
             = [content EXCEPT ![f][b] = [content[f][b] EXCEPT !.whole = FALSE]]
      OBVIOUS
    <3> QED
      BY <3>1, Zenon DEF Unlink, Base
  <2>2. \A g \in FolderIds, m \in Names : g # f \/ m # b => content'[g][m] = content[g][m]
    <3>1. ASSUME NEW c, content' = [content EXCEPT ![f][b] = c],
                 NEW g \in FolderIds, NEW m \in Names, g # f \/ m # b
          PROVE  content'[g][m] = content[g][m]
      BY <1>2, <3>1, Zenon
    <3> QED
      BY <2>1, <3>1, Zenon
  <2>3. UNCHANGED <<fs, exists, manifest, purged>> /\ \E n : job' = [job EXCEPT ![p] = n]
    BY Zenon DEF Unlink
  <2> QED
    BY <2>2, <2>3, Zenon
<1>5. \A i : InHand(i) => InHand(i)'
  BY <1>1, <1>4, FreeHand
<1>6. \A i : (AtPath(i) => AtPath(i)') /\ (InManifest(i) => InManifest(i)')
  BY <1>4 DEF AtPath, InManifest
<1>7. ASSUME NEW i \in Items, InFolder(i) PROVE InFolder(i)' \/ AtPath(i)
  <2>1. PICK g \in exists, m \in Names : content[g][m] = Whole(i)
    BY <1>7 DEF InFolder, Whole
  <2>2. CASE g = f /\ m = b
    BY <1>2, <1>3, <2>1, <2>2, Zenon DEF AtPath, Whole
  <2>3. CASE ~(g = f /\ m = b)
    <3>1. g \in FolderIds
      BY <2>1 DEF IndInv, DiskOK
    <3>2. content'[g][m] = Whole(i) /\ g \in exists'
      BY <1>4, <2>1, <2>3, <3>1
    <3> QED
      BY <3>2 DEF InFolder, Whole
  <2> QED
    BY <2>2, <2>3
<1> QED
  BY <1>4, <1>5, <1>6, <1>7 DEF Safe, Kept

\* A folder that goes takes nothing with it that is not elsewhere, or given up.
LEMMA RemovedSafe ==
    ASSUME IndInv, SoloInv, NamesUnique, NEW p \in Procs,
           NEW j, j = job[p], j.pc \in {"recover", "purge"},
           NEW f, f = j.queue[1].fid, RemoveFolder(f), NEW n, job' = [job EXCEPT ![p] = n],
           fs' = fs, purged \subseteq purged',
           \A i \in Items, m \in Names : content[f][m] = Whole(i) => AtPath(i) \/ i \in purged',
           \A i \in Items, k \in DOMAIN manifest[f] :
              manifest[f][k].link = i => AtPath(i) \/ i \in purged'
    PROVE  \A i \in Items : Safe(i) => Safe(i)'
<1>1. FoldersOK /\ f \in exists /\ exists \subseteq FolderIds
  <2>1. /\ j \in ToldJobs /\ j.queue # <<>> /\ QueueOK(j.queue) /\ FoldersOK
    BY FirstFolder DEF SoloInv, SoloOK, Queued
  <2>2. 1 \in DOMAIN j.queue
    <3>1. j.queue \in Seq(ToldFolders)
      BY <2>1, SMTT(30) DEF ToldJobs
    <3> QED
      BY <2>1, <3>1, TailAt, SMTT(30)
  <2> QED
    BY <2>1, <2>2, SMTT(30) DEF QueueOK, IndInv, DiskOK
<1>2. /\ exists \ {f} \subseteq exists'
      /\ \A h \in FolderIds : h # f => content'[h] = content[h] /\ manifest'[h] = manifest[h]
  <2>1. CASE UNCHANGED disk
    BY <2>1, SMTT(30) DEF disk
  <2>2. ASSUME NEW g \in exists, Finds(Stamp(f), g), exists' \in {exists, exists \ {g}},
               \A h \in FolderIds : h # g => /\ content'[h] = content[h]
                                             /\ manifest'[h] = manifest[h]
        PROVE  <1>2
    <3>1. g = f
      BY <1>1, <2>2, SMTT(30) DEF NamesUnique, Finds
    <3> QED
      BY <2>2, <3>1, SMTT(30)
  <2> QED
    BY <1>1, <2>1, <2>2, RemovedIs
<1>3. \A i : InHand(i) => InHand(i)'
  BY FreeHand
<1>4. \A i : AtPath(i) => AtPath(i)'
  BY Zenon DEF AtPath
<1>5. ASSUME NEW i \in Items, InFolder(i) PROVE InFolder(i)' \/ AtPath(i) \/ i \in purged'
  <2>1. PICK g \in exists, m \in Names : content[g][m] = Whole(i)
    BY <1>5, SMTT(30) DEF InFolder, Whole
  <2>2. CASE g # f
    <3>1. content'[g][m] = Whole(i) /\ g \in exists'
      BY <1>1, <1>2, <2>1, <2>2
    <3> QED
      BY <3>1 DEF InFolder, Whole
  <2> QED
    BY <2>1, <2>2
<1>6. ASSUME NEW i \in Items, InManifest(i) PROVE InManifest(i)' \/ AtPath(i) \/ i \in purged'
  <2>1. PICK g \in exists : \E k \in DOMAIN manifest[g] : manifest[g][k].link = i
    BY <1>6 DEF InManifest
  <2>2. CASE g # f
    <3>1. manifest'[g] = manifest[g] /\ g \in exists'
      BY <1>1, <1>2, <2>1, <2>2
    <3> QED
      BY <2>1, <3>1 DEF InManifest
  <2> QED
    BY <2>1, <2>2
<1> QED
  BY <1>3, <1>4, <1>5, <1>6 DEF Safe, Kept

\* What a recovery leaves a folder with is back in place.
LEMMA RecoverEndSafe ==
    ASSUME IndInv, SoloInv, NamesUnique, ~NothingCameBack, NEW p \in Procs, RecoverEnd(p)
    PROVE  \A i \in Items : Safe(i) => Safe(i)'
<1> SUFFICES ASSUME NEW j, j = job[p], NEW f, f = j.queue[1].fid
             PROVE  \A i \in Items : Safe(i) => Safe(i)'
  OBVIOUS
<1>1. /\ j.pc = "recover" /\ j.queue[1].entries = <<>> /\ UNCHANGED <<fs, purged>>
      /\ \E n : job' = [job EXCEPT ![p] = n]
  BY DEF RecoverEnd, At
<1>2. CASE j.failed
  <2>1. UNCHANGED <<exists, content, manifest>>
    BY <1>2 DEF RecoverEnd, disk
  <2>2. \A i : InHand(i) => InHand(i)'
    BY <1>1, FreeHand, ZenonT(30)
  <2>3. \A i : AtPath(i) => AtPath(i)'
    BY <1>1, SMTT(30) DEF AtPath
  <2> QED
    BY <1>1, <2>1, <2>2, <2>3, KeptStill DEF Safe
<1>3. CASE ~j.failed
  <2>1. RemoveFolder(f)
    BY <1>3 DEF RecoverEnd
  <2>2. Back(f, <<>>)
    <3>1. j.mode # "metadata" /\ manifest[f] # <<>>
      BY <1>1 DEF NothingCameBack, At
    <3>2. BackOK(j)
      BY <1>1, SMTT(30) DEF SoloInv, SoloOK
    <3> QED
      BY <1>1, <1>3, <3>1, <3>2 DEF BackOK
  <2>3. \A i \in Items, m \in Names : content[f][m] = Whole(i) => AtPath(i)
    <3> SUFFICES ASSUME NEW i \in Items, NEW m \in Names, content[f][m] = Whole(i)
                 PROVE  AtPath(i)
      OBVIOUS
    <3>1. content[f][m] # None /\ content[f][m].whole /\ content[f][m].item = i
      <4>1. Whole(i).whole /\ Whole(i).item = i
        BY DEF Whole
      <4> QED
        BY <4>1, WholeIs
    <3>2. ~\E k \in DOMAIN <<>> : TRUE
      BY SMTT(30)
    <3> QED
      BY <2>2, <3>1, <3>2 DEF Back
  <2>4. \A i \in Items, k \in DOMAIN manifest[f] : manifest[f][k].link = i => AtPath(i)
    <3>1. \A i \in Items : i # None
      BY TrashAssumption, SMTT(30)
    <3> QED
      BY <2>2, <3>1 DEF Back
  <2> QED
    BY <1>1, <2>1, <2>3, <2>4, RemovedSafe
<1> QED
  BY <1>2, <1>3

\* What clean deletes the user has given up.
LEMMA PurgeSafe ==
    ASSUME IndInv, SoloInv, NamesUnique, NEW p \in Procs, Purge(p)
    PROVE  \A i \in Items : Safe(i) => Safe(i)'
<1> SUFFICES ASSUME NEW j, j = job[p], NEW f, f = j.queue[1].fid
             PROVE  \A i \in Items : Safe(i) => Safe(i)'
  OBVIOUS
<1>1. /\ j.pc = "purge" /\ RemoveFolder(f) /\ purged' = purged \cup HeldBy(f) /\ fs' = fs
      /\ \E n : job' = [job EXCEPT ![p] = n]
  BY DEF Purge, At
<1>2. ASSUME NEW i \in Items, NEW m \in Names, content[f][m] = Whole(i)
      PROVE  i \in HeldBy(f)
  <2>1. content[f][m] # None
    BY <1>2, WholeIs
  <2>2. content[f][m].item = i
    BY <1>2, SMTT(30) DEF Whole
  <2> QED
    BY <2>1, <2>2, Zenon DEF HeldBy
<1>3. \A i \in Items, k \in DOMAIN manifest[f] : manifest[f][k].link = i => i \in HeldBy(f)
  BY TrashAssumption DEF HeldBy
<1> QED
  BY <1>1, <1>2, <1>3, RemovedSafe

\* Time passing, and a user who makes a new thing where nothing is.
LEMMA OtherSafe ==
    ASSUME IndInv, Tick \/ UNCHANGED vars \/ \E q \in Paths, i \in Items : UserCreate(q, i)
    PROVE  /\ \A i \in Items : Safe(i) => Safe(i)'
           /\ \A i \in born' : i \in born \/ AtPath(i)'
<1>1. UNCHANGED <<exists, content, manifest, purged, job>>
  BY DEF Tick, vars, UserCreate, disk, hist
<1>2. \A i : InHand(i) => InHand(i)'
  BY <1>1 DEF InHand
<1>3. CASE UNCHANGED <<fs, born>>
  <2>1. \A i : AtPath(i) => AtPath(i)'
    BY <1>3 DEF AtPath
  <2> QED
    BY <1>1, <1>2, <1>3, <2>1, KeptStill DEF Safe
<1>4. ASSUME NEW q \in Paths, NEW i \in Items, UserCreate(q, i)
      PROVE  /\ \A x \in Items : Safe(x) => Safe(x)'
             /\ \A x \in born' : x \in born \/ AtPath(x)'
  <2>1. fs' = [fs EXCEPT ![q] = Whole(i)] /\ fs[q] = None /\ born' = born \cup {i}
    BY <1>4 DEF UserCreate, Whole
  <2>2. fs'[q] = Whole(i) /\ \A u \in Paths : u # q => fs'[u] = fs[u]
    BY <2>1 DEF IndInv, DiskOK
  <2>3. \A x \in Items : AtPath(x) => AtPath(x)'
    BY <2>1, <2>2, StillThere
  <2>4. AtPath(i)'
    BY <2>2 DEF AtPath, Whole
  <2> QED
    BY <1>1, <1>2, <2>1, <2>3, <2>4, KeptStill DEF Safe
<1> QED
  BY <1>3, <1>4 DEF Tick, vars, hist

\* No step loses a thing, while names are unique, but one with which a recovery that
\* brought nothing back ends.
LEMMA NextSafe ==
    ASSUME IndInv, SoloInv, LinksSafe, NamesUnique, ~NothingCameBack, [Next]_vars
    PROVE  /\ \A i \in Items : Safe(i) => Safe(i)'
           /\ \A i \in born' : i \in born \/ AtPath(i)'
<1>1. ASSUME NEW p \in Procs, Begin(p) \/ Proceed(p) \/ Crash(p)
      PROVE  (\A i \in Items : Safe(i) => Safe(i)') /\ born' = born
  <2>1. CASE TrashStep(p)
    <3>1. \A i \in Items : Safe(i) => Safe(i)'
      BY <2>1, EarlySafe, StageKept, DeleteKept, SaveManifestSafe DEF TrashStep, Safe
    <3>2. born' = born
      BY <2>1, Zenon DEF TrashStep, RegisterLoad, RegisterSave, NameFolder, MakeFolder,
         StageAbsent,
         StageLink, StageRename, StageCopy, StageFail, Delete, SaveManifest, hist
    <3> QED
      BY <3>1, <3>2
  <2>2. CASE RecoverStep(p) \/ CleanStep(p)
    <3>1. \A i \in Items : Safe(i) => Safe(i)'
      BY <2>2, AloneKept, UnlinkSafe, RecoverEndSafe, PurgeSafe DEF RecoverStep, CleanStep, Safe
    <3>2. born' = born
      BY <2>2, Zenon DEF RecoverStep, CleanStep, RecoverMetadata, RecoverLink,
         RecoverContent,
         RecoverFail, Unlink, RecoverEnd, CleanSkip, CleanConfirm, Purge, hist
    <3> QED
      BY <3>1, <3>2
  <2>3. CASE Begin(p)
    <3>1. born' = born
      BY <2>3, Zenon DEF Begin, TrashBegin, RecoverBegin, CleanBegin, hist
    <3> QED
      BY <2>3, <3>1, AloneKept DEF Safe
  <2>4. CASE Crash(p)
    BY <2>4, CrashSafe DEF Crash, hist
  <2> QED
    BY <1>1, <2>1, <2>2, <2>3, <2>4 DEF Proceed
<1>2. CASE Tick \/ UNCHANGED vars \/ \E q \in Paths, i \in Items : UserCreate(q, i)
  BY <1>2, OtherSafe
<1> QED
  BY <1>1, <1>2 DEF Next

LEMMA SpecSolo ==
    ASSUME OneProcess, Named
    PROVE  Spec => [](IndInv /\ SoloInv)
<1>1. Init => IndInv /\ SoloInv
  BY InitInv, InitSolo
<1>2. IndInv /\ SoloInv /\ [Next]_vars => (IndInv /\ SoloInv)'
  BY NextInv, NextSolo
<1> QED
  BY <1>1, <1>2, PTL DEF Spec

\* A step loses something without consent only if two folders share a name, or if it
\* ends a recovery that brought nothing back: for commands that run one after the other,
\* are given no two paths of one base name, and get the links they hold into a manifest.
THEOREM LossExplained ==
    ASSUME OneProcess, Named, LinksSafe
    PROVE  Spec => LossNeedsClash
<1> DEFINE A == NamesUnique /\ ~NothingCameBack =>
                   \A i \in born : Kept(i) \/ i \in purged => Kept(i)' \/ i \in purged'
<1>1. IndInv /\ SoloInv /\ [Next]_vars => [A]_vars
  <2>1. ASSUME IndInv, SoloInv, [Next]_vars, NamesUnique, ~NothingCameBack, NEW i \in born,
               Kept(i) \/ i \in purged
        PROVE  Kept(i)' \/ i \in purged'
    <3>1. i \in Items
      BY <2>1 DEF IndInv, HistOK
    <3> QED
      BY <2>1, <3>1, NextSafe DEF Safe
  <2> QED
    BY <2>1
<1> HIDE DEF A
<1>2. Spec => [][A]_vars
  BY <1>1, SpecSolo, PTL DEF Spec
<1> QED
  BY <1>2 DEF LossNeedsClash, A

\* As long as folder names are unique and no recovery ends that brought nothing back,
\* nothing a user ever had is lost without consent.
THEOREM NothingIsLost ==
    ASSUME OneProcess, Named, LinksSafe
    PROVE  Spec /\ [](NamesUnique /\ ~NothingCameBack) => []NothingLost
<1>1. Init => NothingLost
  <2>1. ASSUME Init, NEW i \in born PROVE AtPath(i)
    <3>1. PICK q \in Paths : InitFs[q] = i /\ i # None
      BY <2>1 DEF Init
    <3>2. fs[q] = [item |-> i, whole |-> TRUE]
      BY <2>1, <3>1 DEF Init
    <3> QED
      BY <3>2 DEF AtPath
  <2> QED
    BY <2>1 DEF NothingLost, Kept
<1>2. /\ IndInv /\ SoloInv /\ NamesUnique /\ ~NothingCameBack /\ NothingLost /\ [Next]_vars
      => NothingLost'
  <2> SUFFICES ASSUME IndInv, SoloInv, NamesUnique, ~NothingCameBack, NothingLost, [Next]_vars,
                      NEW i \in born'
               PROVE  Safe(i)'
    BY DEF NothingLost, Safe
  <2>1. CASE i \in born
    <3>1. i \in Items /\ Safe(i)
      BY <2>1 DEF IndInv, HistOK, NothingLost, Safe
    <3> QED
      BY <3>1, NextSafe
  <2>2. CASE AtPath(i)'
    BY <2>2 DEF Safe, Kept
  <2> QED
    BY <2>1, <2>2, NextSafe
<1> QED
  BY <1>1, <1>2, SpecSolo, PTL DEF Spec

-----------------------------------------------------------------------------
(* RecoverableDelete is implemented *)

\* What an entry tells of the kind of a thing is true of the thing it is about.
Kin(f, es) == \A k \in DOMAIN es :
    /\ es[k].kind \in LinkKinds => KindOf[es[k].link] = es[k].kind
    /\ es[k].stored /\ content[f][Base(es[k])] # None
          => KindOf[content[f][Base(es[k])].item] = es[k].kind

\* A link is there or not, never half of it.
LinkWhole(cell) == cell # None /\ KindOf[cell.item] \in LinkKinds => cell.whole

\* What a recovery has still to do is in the manifest of the folder at hand.
Rest(j) == \A k \in DOMAIN j.queue[1].entries :
    \E l \in DOMAIN manifest[j.queue[1].fid] :
       j.queue[1].entries[k] = manifest[j.queue[1].fid][l]

\* The inductive invariant behind PromiseKept: without it, a recovery could make a link
\* again that nobody had trashed, or bring back half a thing as a whole one.
KindInv ==
    /\ \A q \in Paths : LinkWhole(fs[q])
    /\ \A f \in FolderIds : /\ Kin(f, manifest[f])
                            /\ \A n \in Names : LinkWhole(content[f][n])
    /\ \A p \in Procs : /\ job[p].pc \in {"stage", "delete"} => Kin(job[p].dest, job[p].done)
                        /\ job[p].pc \in {"recover", "unlink"} => Rest(job[p])

\* The only process is the one that moves.
LEMMA KindIs ==
    ASSUME OneProcess, NEW p \in Procs,
           \A q \in Paths : LinkWhole(fs'[q]),
           \A f \in FolderIds, n \in Names : LinkWhole(content'[f][n]),
           \A f \in FolderIds : Kin(f, manifest[f])',
           (job[p].pc \in {"stage", "delete"} => Kin(job[p].dest, job[p].done))',
           (job[p].pc \in {"recover", "unlink"} => Rest(job[p]))'
    PROVE  KindInv'
<1>1. \A q \in Procs : q = p
  BY DEF OneProcess
<1> QED
  BY <1>1, Zenon DEF KindInv, LinkWhole

\* Entries tell the kinds of what is left of a folder.
LEMMA KinLess ==
    ASSUME NEW f, NEW es \in Seq(Told), Kin(f, es),
           \A n \in Names : \/ content'[f][n] = None
                            \/ /\ content[f][n] # None
                               /\ content'[f][n].item = content[f][n].item
    PROVE  Kin(f, es)'
<1>1. \A k \in DOMAIN es : Base(es[k]) \in Names
  BY EntryNames
<1> QED
  BY <1>1 DEF Kin

\* Staging a path: its entry tells the kind of what fills its slot.
LEMMA KinMore ==
    ASSUME NEW d \in FolderIds, NEW es \in Seq(Told), NEW e2 \in Told, NEW c,
           content \in [FolderIds -> [Names -> Cells \cup {None}]], Base(e2) \in Names,
           content' = [content EXCEPT ![d][Base(e2)] = c], Kin(d, es),
           \A k \in DOMAIN es : Base(es[k]) # Base(e2),
           e2.kind \in LinkKinds => KindOf[e2.link] = e2.kind,
           e2.stored /\ c # None => KindOf[c.item] = e2.kind
    PROVE  \A new : new = Append(es, e2) => Kin(d, new)'
<1> SUFFICES ASSUME NEW new, new = Append(es, e2) PROVE Kin(d, new)'
  OBVIOUS
<1>1. /\ new[Len(es) + 1] = e2
      /\ \A k \in DOMAIN es : new[k] = es[k]
      /\ \A k \in DOMAIN new : k \in DOMAIN es \/ k = Len(es) + 1
  BY AppendAt
<1>2. content'[d][Base(e2)] = c /\ \A n \in Names : n # Base(e2) => content'[d][n] = content[d][n]
  OBVIOUS
<1>3. \A k \in DOMAIN es : Base(es[k]) \in Names
  BY EntryNames
<1>4. ASSUME NEW k \in DOMAIN new
      PROVE  /\ new[k].kind \in LinkKinds => KindOf[new[k].link] = new[k].kind
             /\ new[k].stored /\ content'[d][Base(new[k])] # None
                   => KindOf[content'[d][Base(new[k])].item] = new[k].kind
  <2>1. CASE k \in DOMAIN es
    <3>1. new[k] = es[k] /\ content'[d][Base(es[k])] = content[d][Base(es[k])]
      BY <1>1, <1>2, <1>3, <2>1
    <3> QED
      BY <2>1, <3>1 DEF Kin
  <2>2. CASE k = Len(es) + 1
    BY <1>1, <1>2, <2>2
  <2> QED
    BY <1>1, <2>1, <2>2
<1> QED
  BY <1>4 DEF Kin

\* Staging a path, and the links in the file system and the folders.
LEMMA StageKind ==
    ASSUME IndInv, SoloInv, KindInv, OneProcess, NEW p \in Procs, Staging(p),
           NEW j, j = job[p], NEW e, e = Head(j.todo), NEW n, NEW e2 \in Told, NEW c,
           e2.path = e.path, e2.kind = e.kind, e2.link = e.link,
           content' = Fill(p, e, c), manifest' = manifest,
           fs' \in {fs, [fs EXCEPT ![e.path] = None]},
           LinkWhole(c), e2.stored /\ c # None => KindOf[c.item] = e.kind,
           n.pc \in {"stage", "delete"}, n.dest = j.dest, n.done = Append(j.done, e2),
           job' = [job EXCEPT ![p] = n]
    PROVE  KindInv'
<1> SUFFICES ASSUME NEW d, d = j.dest PROVE KindInv'
  OBVIOUS
<1>1. /\ j \in ToldJobs /\ d \in FolderIds /\ manifest[d] = <<>> /\ j.todo # <<>>
      /\ j.todo \in Seq(Told) /\ j.done \in Seq(Told) /\ j.pc = "stage"
      /\ e \in Told /\ Base(e) \in Names /\ Same(e) /\ TodoOK(j)
  BY NextSlot DEF Staging, At
<1>2. /\ content \in [FolderIds -> [Names -> Cells \cup {None}]]
      /\ fs \in [Paths -> Cells \cup {None}] /\ job \in [Procs -> GoodJobs]
      /\ job'[p] = n
  BY SMTT(30) DEF IndInv, DiskOK
<1>3. Base(e2) = Base(e) /\ content' = [content EXCEPT ![d][Base(e2)] = c]
  BY DEF Base, Fill
<1>4. content'[d][Base(e)] = c
      /\ \A f \in FolderIds, m \in Names : f # d \/ m # Base(e) => content'[f][m] = content[f][m]
  BY <1>1, <1>2, <1>3
<1>5. \A f \in FolderIds, m \in Names : LinkWhole(content'[f][m])
  BY <1>4, SMTT(30) DEF KindInv
<1>6. \A q \in Paths : LinkWhole(fs'[q])
  <2>1. \A q \in Paths : fs'[q] \in {fs[q], None}
    BY <1>2
  <2>2. LinkWhole(None)
    BY DEF LinkWhole
  <2> QED
    BY <2>1, <2>2, SMTT(30) DEF KindInv
<1>7. ASSUME NEW f \in FolderIds PROVE Kin(f, manifest[f])'
  <2>1. CASE f = d
    BY <1>1, <2>1, SMTT(30) DEF Kin
  <2>2. CASE f # d
    <3>1. content'[f] = content[f]
      BY <1>1, <1>2, <1>3, <2>2
    <3>2. Kin(f, manifest[f])
      BY SMTT(30) DEF KindInv
    <3> QED
      BY <3>1, <3>2 DEF Kin
  <2> QED
    BY <2>1, <2>2, SMTT(30)
<1>8. Kin(d, n.done)'
  <2>1. Kin(d, j.done)
    BY <1>1, SMTT(30) DEF KindInv
  <2>2. \A k \in DOMAIN j.done : Base(j.done[k]) # Base(e2)
    <3>1. 1 \in DOMAIN j.todo /\ e = j.todo[1]
      BY <1>1, TailAt, SMTT(30)
    <3> QED
      BY <1>1, <1>3, <3>1 DEF TodoOK, Pending
  <2>3. e2.kind \in LinkKinds => KindOf[e2.link] = e2.kind
    BY <1>1 DEF Same, LinkKinds
  <2>4. \A new : new = Append(j.done, e2) => Kin(d, new)'
    <3>1. d \in FolderIds /\ j.done \in Seq(Told) /\ e2 \in Told /\ Base(e2) \in Names
      BY <1>1, <1>3
    <3>2. e2.stored /\ c # None => KindOf[c.item] = e2.kind
      OBVIOUS
    <3> QED
      BY ONLY <3>1, <3>2, <1>2, <1>3, <2>1, <2>2, <2>3, KinMore
  <2>5. \A new : new = n.done => Kin(d, new)'
    BY <2>4
  <2> QED
    BY <2>5
<1>9. Kin(job[p].dest, job[p].done)'
  <2>1. \A f, new : f = d /\ new = n.done => Kin(f, new)'
    BY <1>8
  <2> QED
    BY <1>2, <2>1
<1>10. (job[p].pc \notin {"recover", "unlink"})'
  BY <1>2
<1> QED
  BY <1>5, <1>6, <1>7, <1>9, <1>10, KindIs

\* A step that adds to no folder and no manifest, and makes half a link of none.
LEMMA KindLess ==
    ASSUME IndInv, KindInv, OneProcess, NEW p \in Procs, NEW n, job' = [job EXCEPT ![p] = n],
           \A q \in Paths : LinkWhole(fs'[q]),
           \A f \in FolderIds : manifest'[f] \in {<<>>, manifest[f]},
           \A f \in FolderIds, m \in Names :
              \/ content'[f][m] \in {None, content[f][m]}
              \/ /\ content[f][m] # None /\ content'[f][m].item = content[f][m].item
                 /\ KindOf[content[f][m].item] \notin LinkKinds,
           n.pc \in {"stage", "delete"} =>
              /\ n.dest \in FolderIds /\ n.done \in Seq(Told) /\ Kin(n.dest, n.done),
           n.pc \in {"recover", "unlink"} => Rest(n)'
    PROVE  KindInv'
<1>1. /\ job'[p] = n /\ manifest \in [FolderIds -> Seq(Told)]
      /\ content \in [FolderIds -> [Names -> Cells \cup {None}]]
  BY DEF IndInv, DiskOK
<1>2. \A f \in FolderIds, m \in Names : LinkWhole(content'[f][m])
  BY DEF KindInv, LinkWhole
<1>3. \A f \in FolderIds, es \in Seq(Told) : Kin(f, es) => Kin(f, es)'
  <2> SUFFICES ASSUME NEW f \in FolderIds, NEW es \in Seq(Told), Kin(f, es) PROVE Kin(f, es)'
    OBVIOUS
  <2>1. \A m \in Names : \/ content'[f][m] = None
                         \/ /\ content[f][m] # None
                            /\ content'[f][m].item = content[f][m].item
    OBVIOUS
  <2> QED
    BY <2>1, KinLess
<1>4. ASSUME NEW f \in FolderIds PROVE Kin(f, manifest[f])'
  <2>1. Kin(f, manifest[f])'  \/ manifest'[f] = manifest[f]
    BY EmptySeq DEF Kin
  <2>2. CASE manifest'[f] = manifest[f]
    <3>1. \A es : es = manifest[f] => Kin(f, es)'
      BY <1>1, <1>3 DEF KindInv
    <3> QED
      BY <2>2, <3>1
  <2> QED
    BY <2>1, <2>2
<1>5. (job[p].pc \in {"stage", "delete"} => Kin(job[p].dest, job[p].done))'
  <2>1. n.pc \in {"stage", "delete"} => \A f, es : f = n.dest /\ es = n.done => Kin(f, es)'
    BY <1>3
  <2> QED
    BY <1>1, <2>1
<1>6. (job[p].pc \in {"recover", "unlink"} => Rest(job[p]))'
  <2>1. n.pc \in {"recover", "unlink"} => \A m : m = n => Rest(m)'
    OBVIOUS
  <2> QED
    BY <1>1, <2>1
<1> QED
  BY <1>2, <1>4, <1>5, <1>6, KindIs

\* A step that leaves the disk alone.
LEMMA KindPut ==
    ASSUME IndInv, KindInv, OneProcess, NEW p \in Procs, NEW n, job' = [job EXCEPT ![p] = n],
           \A q \in Paths : LinkWhole(fs'[q]), UNCHANGED <<content, manifest>>,
           n.pc \in {"stage", "delete"} =>
              /\ n.dest \in FolderIds /\ n.done \in Seq(Told) /\ Kin(n.dest, n.done),
           n.pc \in {"recover", "unlink"} => Rest(n)
    PROVE  KindInv'
<1>1. n.pc \in {"recover", "unlink"} => Rest(n)'
  BY DEF Rest
<1>2. \A f \in FolderIds : manifest'[f] \in {<<>>, manifest[f]}
  OBVIOUS
<1>3. \A f \in FolderIds, m \in Names : content'[f][m] \in {None, content[f][m]}
  OBVIOUS
<1> QED
  BY <1>1, <1>2, <1>3, KindLess

\* Nothing of the kind changes.
LEMMA KindSame ==
    ASSUME KindInv, UNCHANGED <<content, manifest, job>>, \A q \in Paths : LinkWhole(fs'[q])
    PROVE  KindInv'
<1>1. \A f, es : Kin(f, es)' <=> Kin(f, es)
  BY DEF Kin
<1>2. \A j : Rest(j)' <=> Rest(j)
  BY DEF Rest
<1> QED
  BY <1>1, <1>2, SMTT(30) DEF KindInv, LinkWhole

\* trash() before and after the paths are staged.
LEMMA EarlyKind ==
    ASSUME IndInv, SoloInv, KindInv, OneProcess, NEW p \in Procs,
           \/ RegisterLoad(p) \/ RegisterSave(p) \/ NameFolder(p) \/ MakeFolder(p)
           \/ StageAbsent(p)
    PROVE  KindInv'
<1> SUFFICES ASSUME NEW j, j = job[p] PROVE KindInv'
  OBVIOUS
<1>1. j \in ToldJobs /\ TodoOK(j) /\ job \in [Procs -> GoodJobs] /\ Ready(j)
  BY JobAt DEF SoloInv, SoloOK, IndInv
<1>2. UNCHANGED <<fs, content, manifest>> /\ \A q \in Paths : LinkWhole(fs'[q])
  BY DEF RegisterLoad, RegisterSave, NameFolder, MakeFolder, StageAbsent, disk, KindInv
<1>3. CASE \E n : job' = [job EXCEPT ![p] = n] /\ n.pc \in {"save", "name", "mkdir", "idle"}
  BY <1>2, <1>3, KindPut
<1>4. CASE RegisterLoad(p)
  <2>1. \E n : job' = [job EXCEPT ![p] = n] /\ n.pc = "save"
    BY <1>4, RegistryRead
  <2> QED
    BY <1>3, <2>1
<1>5. CASE RegisterSave(p)
  <2>1. \A n \in {[j EXCEPT !.pc = "name"], [j EXCEPT !.pc = "name", !.store = Central]} :
           n.pc = "name"
    BY <1>1 DEF ToldJobs
  <2>2. \E n \in {[j EXCEPT !.pc = "name"], [j EXCEPT !.pc = "name", !.store = Central]} :
           job' = [job EXCEPT ![p] = n]
    BY <1>5 DEF RegisterSave
  <2> QED
    BY <1>3, <2>1, <2>2
<1>6. CASE NameFolder(p)
  <2>1. PICK d : job' = [job EXCEPT ![p] = [j EXCEPT !.pc = "mkdir", !.dest = d]]
    BY <1>6, Zenon DEF NameFolder
  <2>2. [j EXCEPT !.pc = "mkdir", !.dest = d].pc = "mkdir"
    BY <1>1 DEF ToldJobs
  <2> QED
    BY <1>3, <2>1, <2>2
<1>7. CASE MakeFolder(p)
  <2>1. CASE job' = [job EXCEPT ![p] = Idle]
    <3>1. Idle.pc = "idle"
      BY DEF Idle
    <3> QED
      BY <1>3, <2>1, <3>1
  <2>2. CASE job' = [job EXCEPT ![p].pc = "stage"]
    <3>1. PICK n : n = [j EXCEPT !.pc = "stage"]
      OBVIOUS
    <3>2. job' = [job EXCEPT ![p] = n]
      BY <2>2, <3>1
    <3>3. n.pc = "stage" /\ n.done = <<>> /\ n.dest = j.dest /\ j.dest \in FolderIds
      BY <1>1, <1>7, <3>1 DEF MakeFolder, At, TodoOK, ToldJobs, Ready
    <3>4. Kin(n.dest, n.done) /\ n.done \in Seq(Told)
      BY <3>3, EmptySeq DEF Kin
    <3> QED
      BY <1>2, <3>2, <3>3, <3>4, KindPut
  <2> QED
    BY <1>7, <2>1, <2>2 DEF MakeFolder
<1>8. CASE StageAbsent(p)
  <2>1. PICK n : n = [j EXCEPT !.todo = Tail(@), !.failed = TRUE]
    OBVIOUS
  <2>2. job' = [job EXCEPT ![p] = n]
    BY <1>8, <2>1 DEF StageAbsent
  <2>3. /\ n.pc = "stage" /\ n.done = j.done /\ n.dest = j.dest /\ j.dest \in FolderIds
        /\ j.pc = "stage" /\ j.done \in Seq(Told)
    BY <1>1, <1>8, <2>1 DEF StageAbsent, Staging, At, ToldJobs, Ready
  <2>4. Kin(n.dest, n.done)
    BY <2>3 DEF KindInv
  <2> QED
    BY <1>2, <2>2, <2>3, <2>4, KindPut
<1> QED
  BY <1>4, <1>5, <1>6, <1>7, <1>8

\* The actions of trash() that stage a path.
LEMMA StageLinkKind ==
    ASSUME IndInv, SoloInv, KindInv, OneProcess, NEW p \in Procs, StageLink(p)
    PROVE  KindInv'
<1> SUFFICES ASSUME NEW j, j = job[p], NEW e, e = Head(j.todo) PROVE KindInv'
  OBVIOUS
<1>1. /\ j \in ToldJobs /\ Staging(p) /\ e \in Told /\ [e EXCEPT !.stored = TRUE] \in Told
      /\ Fill(p, e, None) = content /\ Same(e)
  BY NextSlot, NextPath DEF StageLink, Staging, At
<1>2. /\ e.kind \in LinkKinds /\ e.kind # "absent" /\ KindOf[e.link] = e.kind
      /\ UNCHANGED <<fs, manifest>>
  BY <1>1 DEF StageLink, LinkKinds, Same
<1>3. PICK t : t \in Told /\ t = [e EXCEPT !.stored = TRUE]
  BY <1>1
<1>4. t.path = e.path /\ t.kind = e.kind /\ t.link = e.link
  BY <1>1, <1>3 DEF Told, Entries
<1>5. PICK e2 \in {e, t}, c \in {None, Whole(e.link)} :
         /\ content' = Fill(p, e, c) /\ (e2 = e => c = None \/ e = t)
         /\ job' = [job EXCEPT ![p].pc = "delete", ![p].done = Append(@, e2)]
  BY <1>1, <1>3, Zenon DEF StageLink, Whole
<1>6. LinkWhole(c) /\ (c # None => KindOf[c.item] = e.kind)
  BY <1>2 DEF LinkWhole, Whole
<1>7. PICK n : n = [j EXCEPT !.pc = "delete", !.done = Append(@, e2)]
  OBVIOUS
<1>8. /\ n.dest = j.dest /\ n.done = Append(j.done, e2) /\ n.pc = "delete"
  BY <1>1, <1>7 DEF ToldJobs
<1>9. /\ job' = [job EXCEPT ![p] = n] /\ e2 \in Told
      /\ e2.path = e.path /\ e2.kind = e.kind /\ e2.link = e.link
  BY <1>1, <1>3, <1>4, <1>5, <1>7, ZenonT(40)
<1> QED
  <2>1. /\ IndInv /\ SoloInv /\ KindInv /\ OneProcess /\ p \in Procs /\ Staging(p)
        /\ j = job[p] /\ e = Head(j.todo) /\ e2 \in Told
        /\ e2.path = e.path /\ e2.kind = e.kind /\ e2.link = e.link
        /\ content' = Fill(p, e, c) /\ manifest' = manifest /\ fs' = fs
        /\ LinkWhole(c) /\ (e2.stored /\ c # None => KindOf[c.item] = e.kind)
        /\ n.pc = "delete" /\ n.dest = j.dest /\ n.done = Append(j.done, e2)
        /\ job' = [job EXCEPT ![p] = n]
    BY <1>1, <1>2, <1>5, <1>6, <1>8, <1>9, Zenon
  <2> QED
    BY ONLY <2>1, StageKind

\* What is moved or copied keeps its kind.
LEMMA StageMoveKind ==
    ASSUME IndInv, SoloInv, KindInv, OneProcess, NEW p \in Procs, StageRename(p) \/ StageCopy(p)
    PROVE  KindInv'
<1> SUFFICES ASSUME NEW j, j = job[p], NEW e, e = Head(j.todo) PROVE KindInv'
  OBVIOUS
<1>1. /\ j \in ToldJobs /\ Staging(p) /\ e \in Told /\ [e EXCEPT !.stored = TRUE] \in Told
      /\ Same(e) /\ j.pc = "stage" /\ j.todo # <<>> /\ e.path \in Paths
  <2>1. Staging(p)
    BY Zenon DEF StageRename, StageCopy
  <2> QED
    BY <2>1, NextSlot, NextPath, SMTT(30) DEF Staging, At
<1>2. /\ e.kind \notin LinkKinds /\ fs[e.path] # None /\ KindOf[fs[e.path].item] = e.kind
      /\ content' = Fill(p, e, fs[e.path]) /\ manifest' = manifest
      /\ fs' \in {fs, [fs EXCEPT ![e.path] = None]}
  BY <1>1, SMTT(30) DEF StageRename, StageCopy, LinkKinds, Same
<1>3. PICK t : t \in Told /\ t = [e EXCEPT !.stored = TRUE]
  BY <1>1
<1>4. t.path = e.path /\ t.kind = e.kind /\ t.link = e.link
  BY <1>1, <1>3 DEF Told, Entries
<1>5. LinkWhole(fs[e.path])
  BY <1>1 DEF KindInv
<1>6. \/ job' = [job EXCEPT ![p].pc = "delete", ![p].done = Append(@, t)]
      \/ job' = [job EXCEPT ![p].todo = Tail(@), ![p].done = Append(@, t)]
  BY <1>3, Zenon DEF StageRename, StageCopy
<1>7. PICK n : /\ n \in {[j EXCEPT !.pc = "delete", !.done = Append(@, t)],
                         [j EXCEPT !.todo = Tail(@), !.done = Append(@, t)]}
               /\ job' = [job EXCEPT ![p] = n]
  BY <1>6, ZenonT(30)
<1>8. n.dest = j.dest /\ n.done = Append(j.done, t) /\ n.pc \in {"stage", "delete"}
  BY <1>1, <1>7 DEF ToldJobs
<1> QED
  <2>1. /\ IndInv /\ SoloInv /\ KindInv /\ OneProcess /\ p \in Procs /\ Staging(p)
        /\ j = job[p] /\ e = Head(j.todo) /\ t \in Told
        /\ t.path = e.path /\ t.kind = e.kind /\ t.link = e.link
        /\ content' = Fill(p, e, fs[e.path]) /\ manifest' = manifest
        /\ fs' \in {fs, [fs EXCEPT ![e.path] = None]}
        /\ LinkWhole(fs[e.path]) /\ KindOf[fs[e.path].item] = e.kind
        /\ n.pc \in {"stage", "delete"} /\ n.dest = j.dest /\ n.done = Append(j.done, t)
        /\ job' = [job EXCEPT ![p] = n]
    BY <1>1, <1>2, <1>3, <1>4, <1>5, <1>7, <1>8, Zenon
  <2> QED
    BY ONLY <2>1, StageKind, Zenon

\* What is copied in part is no link.
LEMMA StageFailKind ==
    ASSUME IndInv, SoloInv, KindInv, OneProcess, NEW p \in Procs, StageFail(p)
    PROVE  KindInv'
<1> SUFFICES ASSUME NEW j, j = job[p], NEW e, e = Head(j.todo) PROVE KindInv'
  OBVIOUS
<1>1. /\ j \in ToldJobs /\ Staging(p) /\ e \in Told /\ Same(e) /\ j.pc = "stage"
      /\ j.todo # <<>> /\ Fill(p, e, None) = content
  BY NextSlot, NextPath, SMTT(30) DEF StageFail, Staging, At
<1>2. /\ e.kind \notin LinkKinds /\ UNCHANGED <<fs, manifest>>
      /\ job' = [job EXCEPT ![p].todo = Tail(@), ![p].failed = TRUE, ![p].done = Append(@, e)]
  BY SMTT(30) DEF StageFail, LinkKinds
<1>3. PICK c : /\ content' = Fill(p, e, c)
               /\ \/ c = None
                  \/ /\ c = [item |-> fs[e.path].item, whole |-> FALSE]
                     /\ KindOf[fs[e.path].item] = e.kind
  BY <1>1, Zenon DEF StageFail, Copyable
<1>4. LinkWhole(c) /\ (c # None => KindOf[c.item] = e.kind)
  BY <1>2, <1>3 DEF LinkWhole
<1>5. PICK n : n = [j EXCEPT !.todo = Tail(@), !.failed = TRUE, !.done = Append(@, e)]
  OBVIOUS
<1>6. job' = [job EXCEPT ![p] = n]
  BY <1>2, <1>5
<1>7. n.dest = j.dest /\ n.done = Append(j.done, e) /\ n.pc = "stage"
  BY <1>1, <1>5 DEF ToldJobs
<1> QED
  <2>1. /\ IndInv /\ SoloInv /\ KindInv /\ OneProcess /\ p \in Procs /\ Staging(p)
        /\ j = job[p] /\ e = Head(j.todo) /\ e \in Told
        /\ content' = Fill(p, e, c) /\ manifest' = manifest /\ fs' = fs
        /\ LinkWhole(c) /\ (e.stored /\ c # None => KindOf[c.item] = e.kind)
        /\ n.pc = "stage" /\ n.dest = j.dest /\ n.done = Append(j.done, e)
        /\ job' = [job EXCEPT ![p] = n]
    BY <1>1, <1>2, <1>3, <1>4, <1>6, <1>7, Zenon
  <2> QED
    BY ONLY <2>1, StageKind

\* The original goes; rmtree leaves half a directory, never half a link.
LEMMA DeleteKind ==
    ASSUME IndInv, SoloInv, KindInv, OneProcess, NEW p \in Procs, Delete(p)
    PROVE  KindInv'
<1> SUFFICES ASSUME NEW j, j = job[p], NEW e, e = Head(j.todo) PROVE KindInv'
  OBVIOUS
<1>1. /\ j \in ToldJobs /\ j.pc = "delete" /\ j.dest \in FolderIds /\ j.done \in Seq(Told)
      /\ fs \in [Paths -> Cells \cup {None}] /\ Kin(j.dest, j.done)
  <2>1. j \in ToldJobs /\ j.pc = "delete" /\ Ready(j)
    BY JobAt, Zenon DEF Delete, At, IndInv
  <2>2. j.dest \in FolderIds /\ j.done \in Seq(Told)
    BY <2>1 DEF Ready, ToldJobs
  <2>3. fs \in [Paths -> Cells \cup {None}]
    BY DEF IndInv, DiskOK
  <2>4. Kin(j.dest, j.done)
    BY <2>1, <2>2, SMT DEF KindInv
  <2> QED
    BY <2>1, <2>2, <2>3, <2>4
<1>2. PICK n \in {[j EXCEPT !.pc = "stage", !.todo = Tail(@)],
                  [j EXCEPT !.pc = "stage", !.todo = Tail(@), !.failed = TRUE]} :
         job' = [job EXCEPT ![p] = n]
  BY Zenon DEF Delete
<1>3. n.pc = "stage" /\ n.dest = j.dest /\ n.done = j.done
  BY <1>1, <1>2, Zenon DEF ToldJobs
<1>4. UNCHANGED <<content, manifest>>
  BY Zenon DEF Delete, disk
<1>5. \A q \in Paths : LinkWhole(fs'[q])
  <2>1. CASE fs' = fs
    BY <2>1 DEF KindInv
  <2>2. CASE fs' = [fs EXCEPT ![e.path] = None]
    BY <1>1, <2>2 DEF KindInv, LinkWhole
  <2>3. ASSUME NEW w, fs' = [fs EXCEPT ![e.path].whole = w],
               KindOf[fs[e.path].item] = "dir", fs[e.path] # None
        PROVE  \A q \in Paths : LinkWhole(fs'[q])
    <3> SUFFICES ASSUME NEW q \in Paths PROVE LinkWhole(fs'[q])
      BY SMTT(30)
    <3>1. CASE q = e.path
      <4>1. fs'[q].item = fs[q].item
        BY <1>1, <2>3, <3>1, NoneAssumption DEF Cells
      <4> QED
        BY <2>3, <3>1, <4>1, SMTT(30) DEF LinkWhole, LinkKinds
    <3>2. CASE q # e.path
      <4>1. fs'[q] = fs[q]
        BY <1>1, <2>3, <3>2
      <4> QED
        BY <4>1, SMTT(30) DEF KindInv
    <3> QED
      BY <3>1, <3>2
  <2> QED
    <3>1. \/ fs' = fs
          \/ fs' = [fs EXCEPT ![e.path] = None]
          \/ /\ e.kind = "dir" /\ Deletable(e)
             /\ \E w \in {FALSE, fs[e.path].whole} : fs' = [fs EXCEPT ![e.path].whole = w]
      BY Zenon DEF Delete
    <3>2. e.kind = "dir" /\ Deletable(e) => KindOf[fs[e.path].item] = "dir" /\ fs[e.path] # None
      BY DEF Deletable
    <3> QED
      BY <2>1, <2>2, <2>3, <3>1, <3>2, Zenon
<1> QED
  BY <1>1, <1>2, <1>3, <1>4, <1>5, KindPut

\* The manifest gets the entries that trash() held.
LEMMA SaveManifestKind ==
    ASSUME IndInv, SoloInv, KindInv, OneProcess, NEW p \in Procs, SaveManifest(p)
    PROVE  KindInv'
<1> SUFFICES ASSUME NEW j, j = job[p], NEW d, d = j.dest PROVE KindInv'
  OBVIOUS
<1>1. /\ j.pc = "stage" /\ d \in FolderIds /\ manifest \in [FolderIds -> Seq(Told)]
      /\ job' = [job EXCEPT ![p] = Idle] /\ UNCHANGED <<fs, content>>
      /\ job \in [Procs -> GoodJobs] /\ Idle.pc = "idle"
  BY JobAt, SMTT(30) DEF SaveManifest, At, Ready, IndInv, DiskOK, Idle
<1>2. CASE manifest' = [manifest EXCEPT ![d] = j.done]
  <2>1. \A f, es : Kin(f, es)' <=> Kin(f, es)
    BY <1>1 DEF Kin
  <2>2. \A f \in FolderIds : Kin(f, manifest'[f])
    BY <1>1, <1>2 DEF KindInv
  <2>3. ASSUME NEW f \in FolderIds PROVE Kin(f, manifest[f])'
    <3>1. \A es : es = manifest'[f] => Kin(f, es)'
      BY <2>1, <2>2
    <3> QED
      BY <3>1
  <2>4. job'[p].pc = "idle"
    BY <1>1
  <2> QED
    BY <1>1, <2>3, <2>4, KindIs DEF KindInv
<1>3. CASE manifest' = manifest
  BY <1>1, <1>3, KindPut DEF KindInv
<1> QED
  BY <1>2, <1>3 DEF SaveManifest

\* What is left to do after an entry is still in the manifest.
LEMMA RestTail ==
    ASSUME NEW j \in ToldJobs, j.queue # <<>>, Rest(j), NEW ok \in BOOLEAN,
           j.queue[1].entries \in Seq(Told), j.queue[1].entries # <<>>
    PROVE  Rest(NextEntry(j, ok))
<1> SUFFICES ASSUME NEW n, n = NextEntry(j, ok) PROVE Rest(n)
  OBVIOUS
<1>1. n.queue[1].fid = j.queue[1].fid /\ n.queue[1].entries = Tail(j.queue[1].entries)
  BY NextEntryIs
<1>2. \A k \in DOMAIN Tail(j.queue[1].entries) :
         /\ k + 1 \in DOMAIN j.queue[1].entries
         /\ Tail(j.queue[1].entries)[k] = j.queue[1].entries[k + 1]
  BY TailAt
<1> QED
  BY <1>1, <1>2 DEF Rest

\* What an entry tells of the kind of its thing is true.
KindTold(f, e) == e.stored /\ content[f][Base(e)] # None
                     => KindOf[content[f][Base(e)].item] = e.kind

\* What the entry at hand says is in the manifest.
LEMMA EntryKnown ==
    ASSUME IndInv, SoloInv, KindInv, NEW p \in Procs, job[p].pc \in {"recover", "unlink"},
           job[p].queue[1].entries # <<>>, NEW f, f = job[p].queue[1].fid,
           NEW e, e = Head(job[p].queue[1].entries)
    PROVE  /\ f \in exists /\ f \in FolderIds
           /\ \E l \in DOMAIN manifest[f] : manifest[f][l] = e
           /\ KindTold(f, e)
<1> SUFFICES ASSUME NEW r, r = job[p].queue[1].entries
             PROVE  /\ f \in exists /\ f \in FolderIds
                    /\ \E l \in DOMAIN manifest[f] : manifest[f][l] = e
                    /\ KindTold(f, e)
  OBVIOUS
<1>1. f \in exists /\ f \in FolderIds /\ 1 \in DOMAIN r /\ e = r[1]
  BY EntryAt
<1>2. Rest(job[p]) /\ Kin(f, manifest[f])
  BY <1>1, SMTT(30) DEF KindInv
<1>3. PICK l \in DOMAIN manifest[f] : manifest[f][l] = e
  BY <1>1, <1>2, SMTT(30) DEF Rest
<1>4. KindTold(f, e)
  BY <1>2, <1>3, ZenonT(40) DEF Kin, KindTold
<1> QED
  BY <1>1, <1>3, <1>4, Zenon

\* The steps of a recovery that are through with an entry, or bring it back.
LEMMA RecoverKind ==
    ASSUME IndInv, SoloInv, KindInv, OneProcess, NEW p \in Procs,
           RecoverMetadata(p) \/ RecoverLink(p) \/ RecoverContent(p) \/ RecoverFail(p)
    PROVE  KindInv'
<1> SUFFICES ASSUME NEW j, j = job[p], NEW f, f = j.queue[1].fid,
                    NEW r, r = j.queue[1].entries, NEW e, e = Head(r)
             PROVE  KindInv'
  OBVIOUS
<1>1. j.pc = "recover" /\ r # <<>>
  BY Zenon DEF RecoverMetadata, RecoverLink, RecoverContent, RecoverFail, Recovering, At
<1>2. /\ j \in ToldJobs /\ j.queue # <<>> /\ f \in FolderIds /\ r \in Seq(Told)
      /\ Base(e) \in Names /\ Backup(p, e) = content[f][Base(e)]
      /\ fs \in [Paths -> Cells \cup {None}]
      /\ content \in [FolderIds -> [Names -> Cells \cup {None}]]
  BY <1>1, EntryAt
<1>3. /\ Rest(j) /\ LinkWhole(Backup(p, e))
      /\ e.stored /\ Backup(p, e) # None => KindOf[Backup(p, e).item] = e.kind
  <2>1. Rest(j)
    BY <1>1, Zenon DEF KindInv
  <2>2. LinkWhole(content[f][Base(e)])
    BY <1>2, Zenon DEF KindInv
  <2>3. e.stored /\ content[f][Base(e)] # None => KindOf[content[f][Base(e)].item] = e.kind
    <3>1. /\ job[p].pc \in {"recover", "unlink"} /\ job[p].queue[1].entries # <<>>
          /\ f = job[p].queue[1].fid /\ e = Head(job[p].queue[1].entries)
      BY <1>1
    <3>2. KindTold(f, e)
      BY <3>1, EntryKnown, Zenon
    <3> QED
      BY <3>2, Zenon DEF KindTold
  <2> QED
    BY <1>2, <2>1, <2>2, <2>3, Zenon
<1>4. UNCHANGED <<content, manifest>>
  BY Zenon DEF RecoverMetadata, RecoverLink, RecoverContent, RecoverFail, disk
<1>5. PICK n : /\ n \in {NextEntry(j, TRUE), NextEntry(j, FALSE), [j EXCEPT !.pc = "unlink"]}
               /\ job' = [job EXCEPT ![p] = n]
  BY Zenon DEF RecoverMetadata, RecoverLink, RecoverContent, RecoverFail
<1>6. n.pc \in {"recover", "unlink"} /\ Rest(n)
  <2>1. CASE n = [j EXCEPT !.pc = "unlink"]
    <3>1. n.pc = "unlink" /\ n.queue = j.queue
      BY <1>2, <2>1 DEF ToldJobs
    <3> QED
      BY <1>3, <3>1 DEF Rest
  <2>2. ASSUME NEW ok \in BOOLEAN, n = NextEntry(j, ok)
        PROVE  n.pc \in {"recover", "unlink"} /\ Rest(n)
    <3>1. Rest(NextEntry(j, ok))
      BY <1>1, <1>2, <1>3, RestTail, ZenonT(40)
    <3>2. n.pc = "recover"
      BY <1>2, <2>2, NextEntryIs
    <3> QED
      BY <2>2, <3>1, <3>2, SMTT(30)
  <2> QED
    BY <1>5, <2>1, <2>2
<1>7. \A q \in Paths : LinkWhole(fs'[q])
  <2>1. \/ fs' = fs
        \/ \E c : fs' = [fs EXCEPT ![Target(p, e)] = c] /\ LinkWhole(c)
    <3>1. CASE RecoverMetadata(p)
      BY <3>1, SMTT(30) DEF RecoverMetadata
    <3>2. CASE RecoverLink(p)
      <4>1. fs' = [fs EXCEPT ![Target(p, e)] = [item |-> e.link, whole |-> TRUE]]
        BY <3>2 DEF RecoverLink
      <4>2. LinkWhole([item |-> e.link, whole |-> TRUE])
        BY SMTT(30) DEF LinkWhole
      <4> QED
        BY <4>1, <4>2
    <3>3. CASE RecoverContent(p)
      BY <1>3, <3>3, Zenon DEF RecoverContent
    <3>4. CASE RecoverFail(p)
      <4> DEFINE c == [item |-> Backup(p, e).item, whole |-> FALSE]
      <4>1. CASE Restorable(p, e)
        <5>1. /\ e.stored /\ Backup(p, e) # None /\ KindOf[Backup(p, e).item] # "broken"
              /\ e.kind \notin {"symlink", "junction"}
          BY <4>1, SMTT(30) DEF Restorable, Reaches
        <5>2. LinkWhole(c)
          BY <1>3, <5>1 DEF LinkWhole, LinkKinds
        <5>3. fs' = fs \/ fs' = [fs EXCEPT ![Target(p, e)] = c]
          BY <3>4, Zenon DEF RecoverFail
        <5> QED
          BY <5>2, <5>3, SMTT(30)
      <4>2. CASE ~Restorable(p, e)
        BY <3>4, <4>2, Zenon DEF RecoverFail
      <4> QED
        BY <4>1, <4>2, SMTT(30)
    <3> QED
      BY <3>1, <3>2, <3>3, <3>4
  <2>2. CASE fs' = fs
    BY <2>2, SMTT(30) DEF KindInv
  <2>3. ASSUME NEW c, fs' = [fs EXCEPT ![Target(p, e)] = c], LinkWhole(c)
        PROVE  \A q \in Paths : LinkWhole(fs'[q])
    BY <1>2, <2>3 DEF KindInv
  <2> QED
    BY <2>1, <2>2, <2>3
<1>8. n.pc \notin {"stage", "delete"}
  BY <1>6
<1> QED
  BY <1>4, <1>5, <1>6, <1>7, <1>8, KindPut

\* The copy in the folder goes, or half of a directory does.
LEMMA UnlinkKind ==
    ASSUME IndInv, SoloInv, KindInv, OneProcess, NEW p \in Procs, Unlink(p)
    PROVE  KindInv'
<1> SUFFICES ASSUME NEW j, j = job[p], NEW f, f = j.queue[1].fid,
                    NEW r, r = j.queue[1].entries, NEW e, e = Head(r), NEW b, b = Base(e)
             PROVE  KindInv'
  OBVIOUS
<1>1. j.pc = "unlink" /\ r # <<>>
  BY JobAt, Zenon DEF Unlink, At, Ready
<1>2. /\ j \in ToldJobs /\ j.queue # <<>> /\ f \in FolderIds /\ r \in Seq(Told)
      /\ b \in Names /\ content \in [FolderIds -> [Names -> Cells \cup {None}]]
  BY <1>1, EntryAt
<1>3. Rest(j)
  BY <1>1 DEF KindInv
<1>4. PICK ok \in BOOLEAN : job' = [job EXCEPT ![p] = NextEntry(j, ok)]
  BY Zenon DEF Unlink
<1>5. PICK n : n = NextEntry(j, ok)
  OBVIOUS
<1>6. n.pc = "recover" /\ Rest(n)
  BY <1>1, <1>2, <1>3, <1>5, RestTail, NextEntryIs
<1>7. \/ content' = content
      \/ content' = [content EXCEPT ![f][b] = None]
      \/ /\ content[f][b] # None /\ KindOf[content[f][b].item] = "dir"
         /\ content' = [content EXCEPT ![f][b].whole = FALSE]
  BY ZenonT(40) DEF Unlink, Base
<1>8. \A g \in FolderIds, m \in Names :
              \/ content'[g][m] \in {None, content[g][m]}
              \/ /\ content[g][m] # None /\ content'[g][m].item = content[g][m].item
                 /\ KindOf[content[g][m].item] \notin LinkKinds
  <2>1. CASE content' = content
    BY <2>1, SMTT(30)
  <2>2. CASE content' = [content EXCEPT ![f][b] = None]
    BY <1>2, <2>2, SMTT(30)
  <2>3. CASE /\ content[f][b] # None /\ KindOf[content[f][b].item] = "dir"
             /\ content' = [content EXCEPT ![f][b].whole = FALSE]
    <3>1. PICK c : c = [content[f][b] EXCEPT !.whole = FALSE]
      BY Zenon
    <3>2. c.item = content[f][b].item
      <4>1. content[f][b] \in Cells
        BY <1>2, <2>3, ZenonT(40)
      <4> QED
        BY <3>1, <4>1, Zenon DEF Cells
    <3>3. content' = [content EXCEPT ![f][b] = c]
      BY <2>3, <3>1, ZenonT(40)
    <3>4. content'[f][b].item = content[f][b].item
      BY <1>2, <3>2, <3>3, ZenonT(40)
    <3>5. \A g \in FolderIds, m \in Names : g # f \/ m # b => content'[g][m] = content[g][m]
      BY <1>2, <3>3
    <3> QED
      BY <2>3, <3>4, <3>5, ZenonT(40) DEF LinkKinds
  <2> QED
    BY <1>7, <2>1, <2>2, <2>3, Zenon
<1>9. UNCHANGED <<fs, manifest>> /\ \A q \in Paths : LinkWhole(fs'[q])
  BY Zenon DEF Unlink, KindInv
<1>10. Rest(n)'
  BY <1>6, <1>9 DEF Rest
<1> QED
  BY <1>4, <1>5, <1>6, <1>8, <1>9, <1>10, KindLess

\* remove_folder() adds nothing anywhere.
LEMMA RemovedLess ==
    ASSUME IndInv, NEW f, RemoveFolder(f)
    PROVE  /\ exists' \subseteq exists
           /\ \A h \in FolderIds : manifest'[h] \in {<<>>, manifest[h]}
           /\ \A h \in FolderIds, m \in Names : content'[h][m] \in {None, content[h][m]}
<1>1. /\ content \in [FolderIds -> [Names -> Cells \cup {None}]]
      /\ manifest \in [FolderIds -> Seq(Told)]
  BY DEF IndInv, DiskOK
<1>2. CASE UNCHANGED disk
  BY <1>2 DEF disk
<1>3. ASSUME NEW g, exists' \subseteq exists, NEW c, NEW m,
             \A n \in Names : c[n] \in {None, content[g][n]}, m \in {manifest[g], <<>>},
             content' = [content EXCEPT ![g] = c], manifest' = [manifest EXCEPT ![g] = m]
      PROVE  /\ exists' \subseteq exists
             /\ \A h \in FolderIds : manifest'[h] \in {<<>>, manifest[h]}
             /\ \A h \in FolderIds, n \in Names : content'[h][n] \in {None, content[h][n]}
  BY <1>1, <1>3
<1>4. ASSUME NEW g \in exists, exists' = exists \ {g},
             content' = [content EXCEPT ![g] = NoContent],
             manifest' = [manifest EXCEPT ![g] = <<>>]
      PROVE  /\ exists' \subseteq exists
             /\ \A h \in FolderIds : manifest'[h] \in {<<>>, manifest[h]}
             /\ \A h \in FolderIds, n \in Names : content'[h][n] \in {None, content[h][n]}
  <2>1. \A n \in Names : NoContent[n] \in {None, content[g][n]}
    BY DEF NoContent
  <2> QED
    BY <1>3, <1>4, <2>1
<1>5. ASSUME NEW g \in exists, UNCHANGED exists,
             \E gone \in SUBSET Names :
                content' = [content EXCEPT ![g] =
                    [n \in Names |-> IF n \in gone THEN None ELSE @[n]]],
             \E m \in {manifest[g], <<>>} : manifest' = [manifest EXCEPT ![g] = m]
      PROVE  /\ exists' \subseteq exists
             /\ \A h \in FolderIds : manifest'[h] \in {<<>>, manifest[h]}
             /\ \A h \in FolderIds, n \in Names : content'[h][n] \in {None, content[h][n]}
  <2>1. PICK c : /\ content' = [content EXCEPT ![g] = c]
                 /\ \A n \in Names : c[n] \in {None, content[g][n]}
    <3>1. PICK gone : content' = [content EXCEPT ![g] =
                    [n \in Names |-> IF n \in gone THEN None ELSE content[g][n]]]
      BY <1>1, <1>5
    <3>2. PICK c : c = [n \in Names |-> IF n \in gone THEN None ELSE content[g][n]]
      OBVIOUS
    <3>3. \A n \in Names : c[n] \in {None, content[g][n]}
      BY <3>2
    <3>4. content' = [content EXCEPT ![g] = c]
      BY <3>1, <3>2
    <3> QED
      BY <3>3, <3>4
  <2>2. PICK m \in {manifest[g], <<>>} : manifest' = [manifest EXCEPT ![g] = m]
    BY <1>5
  <2>3. exists' \subseteq exists
    BY <1>5
  <2> QED
    BY <1>3, <2>1, <2>2, <2>3
<1> QED
  BY <1>2, <1>4, <1>5 DEF RemoveFolder

\* The end of a folder, in recover and in clean.
LEMMA FolderKind ==
    ASSUME IndInv, SoloInv, KindInv, OneProcess, NEW p \in Procs,
           RecoverEnd(p) \/ CleanSkip(p) \/ Purge(p)
    PROVE  KindInv'
<1> SUFFICES ASSUME NEW j, j = job[p], NEW f, f = j.queue[1].fid PROVE KindInv'
  OBVIOUS
<1>1. PICK step \in {"recover", "clean"} :
         /\ job' = [job EXCEPT ![p] = NextFolder(j, step)]
         /\ step = "recover" => RecoverEnd(p)
  BY DEF RecoverEnd, CleanSkip, Purge
<1>2. PICK n : n = NextFolder(j, step)
  OBVIOUS
<1>3. n.pc \in {"idle", step} /\ job' = [job EXCEPT ![p] = n] /\ j \in ToldJobs
      /\ job'[p] = n
  BY <1>1, <1>2, JobAt, NextFolderIs DEF Idle, IndInv
<1>4. UNCHANGED <<content, manifest>> \/ RemoveFolder(f)
  BY DEF RecoverEnd, CleanSkip, Purge, disk
<1>5. \A h \in FolderIds : manifest'[h] \in {<<>>, manifest[h]}
  BY <1>4, RemovedLess
<1>6. \A h \in FolderIds, m \in Names : content'[h][m] \in {None, content[h][m]}
  BY <1>4, RemovedLess
<1>7. \A q \in Paths : LinkWhole(fs'[q])
  BY Zenon DEF RecoverEnd, CleanSkip, Purge, KindInv
<1>8. n.pc \in {"recover", "unlink"} => Rest(n)'
  <2> SUFFICES ASSUME n.pc \in {"recover", "unlink"} PROVE Rest(n)'
    OBVIOUS
  <2>1. n.pc = "recover" /\ RecoverEnd(p)
    BY <1>1, <1>3
  <2>2. n.queue[1].entries = manifest'[n.queue[1].fid]
    BY <1>3, <2>1, RecoverEndSolo
  <2> QED
    BY <2>2 DEF Rest
<1>9. n.pc \notin {"stage", "delete"}
  BY <1>3
<1> QED
  BY <1>3, <1>5, <1>6, <1>7, <1>8, <1>9, KindLess

\* Commands that start, a folder that clean is about to delete, a crash.
LEMMA BeginKind ==
    ASSUME IndInv, SoloInv, KindInv, OneProcess, NEW p \in Procs,
           Begin(p) \/ CleanConfirm(p) \/ Crash(p)
    PROVE  KindInv'
<1>1. UNCHANGED <<content, manifest>> /\ \A q \in Paths : LinkWhole(fs'[q])
  BY Zenon DEF Begin, TrashBegin, RecoverBegin, CleanBegin, CleanConfirm, Crash, disk, KindInv
<1>2. Idle.pc = "idle"
  BY DEF Idle
<1>3. ASSUME NEW n, job' = [job EXCEPT ![p] = n],
             n.pc \in {"idle", "register", "name", "clean", "purge"}
      PROVE  KindInv'
  BY <1>1, <1>3, KindPut
<1>4. ASSUME NEW sel \in Selections, NEW m \in RecoverModes, RecoverBegin(p, sel, m)
      PROVE  KindInv'
  <2>1. PICK q \in Choices(sel) :
        job' = [job EXCEPT ![p] =
                  IF q = <<>> THEN Idle
                  ELSE [Idle EXCEPT !.pc = "recover", !.queue = Load(q), !.mode = m]]
    BY <1>4, Zenon DEF RecoverBegin
  <2>2. CASE q = <<>>
    BY <1>2, <1>3, <2>1, <2>2
  <2>3. CASE q # <<>>
    <3>1. PICK n : n = [Idle EXCEPT !.pc = "recover", !.queue = Load(q), !.mode = m]
      OBVIOUS
    <3>2. n.pc = "recover" /\ n.queue = Load(q) /\ job' = [job EXCEPT ![p] = n]
      BY <2>1, <2>3, <3>1 DEF Idle
    <3>3. q \in Seq(FolderIds) /\ 1 \in DOMAIN q
      BY <2>3, ChosenSeq, EmptySeq, LenProperties, TrashAssumption
    <3>4. n.queue[1].entries = manifest[n.queue[1].fid]
      BY <3>2, <3>3 DEF Load
    <3>5. Rest(n)
      BY <3>4 DEF Rest
    <3> QED
      BY <1>1, <3>2, <3>5, KindPut
  <2> QED
    BY <2>2, <2>3
<1>5. CASE Crash(p)
  BY <1>2, <1>3, <1>5 DEF Crash
<1>6. CASE CleanConfirm(p)
  <2>1. PICK n : n = [job[p] EXCEPT !.pc = "purge"]
    OBVIOUS
  <2>2. n.pc = "purge" /\ job' = [job EXCEPT ![p] = n]
    BY <1>6, <2>1, JobAt DEF CleanConfirm, ToldJobs
  <2> QED
    BY <1>3, <2>2
<1>7. ASSUME NEW sel \in Selections, NEW o \in CleanFlags, CleanBegin(p, sel, o)
      PROVE  KindInv'
  <2>1. PICK q : job' = [job EXCEPT ![p] =
                   IF q = <<>> THEN Idle
                   ELSE [Idle EXCEPT !.pc = "clean", !.queue = Load(q),
                                     !.flags = o, !.now = clock]]
    BY <1>7, Zenon DEF CleanBegin
  <2>2. PICK n : n = IF q = <<>> THEN Idle
                   ELSE [Idle EXCEPT !.pc = "clean", !.queue = Load(q),
                                     !.flags = o, !.now = clock]
    OBVIOUS
  <2>3. n.pc \in {"idle", "clean"}
    BY <2>2 DEF Idle
  <2> QED
    BY <1>3, <2>1, <2>2, <2>3
<1>8. ASSUME NEW ps \in TrashArgs, TrashBegin(p, ps)
      PROVE  KindInv'
  <2>1. PICK s, t, st, g : job' = [job EXCEPT ![p] =
                   [Idle EXCEPT !.pc = IF s THEN "register" ELSE "name",
                                  !.todo = t, !.store = st, !.given = g]]
    BY <1>8, Zenon DEF TrashBegin
  <2>2. PICK n : n = [Idle EXCEPT !.pc = IF s THEN "register" ELSE "name",
                                  !.todo = t, !.store = st, !.given = g]
    OBVIOUS
  <2>3. n.pc \in {"register", "name"}
    BY <2>2 DEF Idle
  <2> QED
    BY <1>3, <2>1, <2>2, <2>3
<1> QED
  BY <1>4, <1>5, <1>6, <1>7, <1>8 DEF Begin

\* KindInv holds at the start: no folder exists and what exists is whole.
LEMMA InitKind == Init => KindInv
<1> SUFFICES ASSUME Init PROVE KindInv
  OBVIOUS
<1>1. \A q \in Paths : LinkWhole(fs[q])
  BY DEF Init, LinkWhole
<1>2. \A f \in FolderIds : Kin(f, manifest[f]) /\ \A n \in Names : LinkWhole(content[f][n])
  BY DEF Init, Kin, LinkWhole, NoContent
<1>3. \A p \in Procs : job[p].pc = "idle"
  BY DEF Init, Idle
<1> QED
  BY <1>1, <1>2, <1>3 DEF KindInv

\* Every step keeps KindInv.
LEMMA NextKind ==
    ASSUME IndInv, SoloInv, KindInv, OneProcess, [Next]_vars
    PROVE  KindInv'
<1>1. ASSUME NEW p \in Procs, Begin(p) \/ Proceed(p) \/ Crash(p) PROVE KindInv'
  <2>1. CASE TrashStep(p)
    BY <2>1, EarlyKind, StageLinkKind, StageMoveKind, StageFailKind, DeleteKind,
       SaveManifestKind DEF TrashStep
  <2>2. CASE RecoverStep(p) \/ CleanStep(p)
    BY <2>2, RecoverKind, UnlinkKind, FolderKind, BeginKind DEF RecoverStep, CleanStep
  <2> QED
    BY <1>1, <2>1, <2>2, BeginKind DEF Proceed
<1>2. CASE Tick \/ UNCHANGED vars
  <2>1. UNCHANGED <<content, manifest, job>> /\ \A q \in Paths : LinkWhole(fs'[q])
    BY <1>2 DEF Tick, vars, disk, KindInv
  <2> QED
    BY <2>1, KindSame
<1>3. ASSUME NEW u \in Paths, NEW i \in Items, UserCreate(u, i) PROVE KindInv'
  <2>1. UNCHANGED <<content, manifest, job>>
    BY <1>3 DEF UserCreate, disk
  <2>2. LinkWhole([item |-> i, whole |-> TRUE])
    BY DEF LinkWhole
  <2>3. fs \in [Paths -> Cells \cup {None}]
    BY DEF IndInv, DiskOK
  <2>4. \A q \in Paths : LinkWhole(fs'[q])
    BY <1>3, <2>2, <2>3 DEF UserCreate, KindInv
  <2> QED
    BY <2>1, <2>4, KindSame
<1> QED
  BY <1>1, <1>2, <1>3 DEF Next

\* What is whole in a folder, or named in a manifest, was so before, if nothing was added.
LEMMA LessDisk ==
    ASSUME IndInv, FoldersOK, exists' \subseteq FolderIds,
           \A f \in FolderIds : manifest'[f] \in {<<>>, manifest[f]},
           \A f \in FolderIds, n \in Names, i \in Items :
              content'[f][n] = Whole(i) => content[f][n] = Whole(i)
    PROVE  \A i \in Items : /\ InFolder(i)' => InFolder(i)
                            /\ InManifest(i)' => InManifest(i)
<1>1. ASSUME NEW i \in Items, InFolder(i)' PROVE InFolder(i)
  <2>1. PICK f \in exists', n \in Names : content'[f][n] = Whole(i)
    BY <1>1 DEF InFolder, Whole
  <2>2. f \in FolderIds /\ content[f][n] = Whole(i)
    BY <2>1
  <2>3. f \in exists
    BY <2>2, WholeIs DEF FoldersOK, NoContent
  <2> QED
    BY <2>2, <2>3 DEF InFolder, Whole
<1>2. ASSUME NEW i \in Items, InManifest(i)' PROVE InManifest(i)
  <2>1. PICK f \in exists' : \E k \in DOMAIN manifest'[f] : manifest'[f][k].link = i
    BY <1>2 DEF InManifest
  <2>2. ~\E k \in DOMAIN <<>> : TRUE
    BY SMT
  <2>3. f \in FolderIds /\ manifest'[f] = manifest[f] /\ manifest[f] # <<>>
    BY <2>1, <2>2
  <2>4. f \in exists
    BY <2>3 DEF FoldersOK
  <2> QED
    BY <2>1, <2>3, <2>4 DEF InManifest
<1> QED
  BY <1>1, <1>2

\* What is in memory was so before, if nothing was added.
LEMMA LessHand ==
    ASSUME job \in [Procs -> GoodJobs], NEW p \in Procs, NEW n, job' = [job EXCEPT ![p] = n],
           n.done \in {<<>>, job[p].done}
    PROVE  \A i : InHand(i)' => InHand(i)
<1> SUFFICES ASSUME NEW i, NEW q \in Procs, NEW k \in DOMAIN job'[q].done,
                    job'[q].done[k].link = i
             PROVE  InHand(i)
  BY DEF InHand
<1>1. job'[p] = n /\ \A u \in Procs : u # p => job'[u] = job[u]
  OBVIOUS
<1>2. ~\E l \in DOMAIN <<>> : TRUE
  BY SMT
<1>3. job'[q].done = job[q].done
  BY <1>1, <1>2
<1> QED
  BY <1>3 DEF InHand

\* A path is taken by another thing, or none: what that means for where each thing is.
LEMMA OnePath ==
    ASSUME fs \in [Paths -> Cells \cup {None}], NEW t, NEW c, fs' = [fs EXCEPT ![t] = c]
    PROVE  \A i \in Items :
              /\ AtPath(i)' => AtPath(i) \/ c = Whole(i)
              /\ c # Whole(i) /\ fs[t] # Whole(i) => (AtPath(i)' <=> AtPath(i))
<1>1. \A q \in Paths : fs'[q] = IF q = t THEN c ELSE fs[q]
  OBVIOUS
<1> QED
  BY <1>1 DEF AtPath, Whole

\* What is put somewhere is something that is at a path.
Old(cell) == \A i \in Items : cell = Whole(i) => AtPath(i)

\* A path trash() is through with: nothing is in the folder that was not at the path.
LEMMA StagedOld ==
    ASSUME IndInv, SoloInv, NEW p \in Procs, Staging(p),
           NEW j, j = job[p], NEW e, e = Head(j.todo), NEW n, NEW e2 \in Told, NEW c,
           job' = [job EXCEPT ![p] = n], n.done = Append(j.done, e2), e2.link = e.link,
           content' = Fill(p, e, c), exists' = exists \cup {j.dest}, manifest' = manifest,
           fs' = fs \/ fs' = [fs EXCEPT ![e.path] = None],
           Old(c), Old(Whole(e.link))
    PROVE  \A i \in Items : Kept(i)' => Kept(i)
<1> SUFFICES ASSUME NEW d, d = j.dest, NEW b, b = Base(e)
             PROVE  \A i \in Items : Kept(i)' => Kept(i)
  BY SMTT(30)
<1>1. j.done \in Seq(Told) /\ d \in FolderIds /\ b \in Names
  BY NextSlot
<1>2. /\ content \in [FolderIds -> [Names -> Cells \cup {None}]] /\ exists \subseteq FolderIds
      /\ fs \in [Paths -> Cells \cup {None}] /\ job \in [Procs -> GoodJobs] /\ FoldersOK
  BY SMTT(30) DEF IndInv, DiskOK, SoloInv
<1>3. /\ content'[d][b] = c
      /\ \A f \in FolderIds, m \in Names : f # d \/ m # b => content'[f][m] = content[f][m]
  BY <1>1, <1>2 DEF Fill, Base
<1>4. ASSUME NEW i \in Items, AtPath(i)' PROVE AtPath(i)
  <2>1. \A q \in Paths : fs'[q] \in {fs[q], None}
    BY <1>2
  <2> QED
    BY <1>4, <2>1, WholeIs DEF AtPath, Whole
<1>5. ASSUME NEW i \in Items, InFolder(i)' PROVE Kept(i)
  <2>1. PICK f \in exists', m \in Names : content'[f][m] = Whole(i)
    BY <1>5 DEF InFolder, Whole
  <2>2. CASE f = d /\ m = b
    BY <1>3, <2>1, <2>2 DEF Kept, Old
  <2>3. CASE ~(f = d /\ m = b)
    <3>1. f \in FolderIds
      BY <1>1, <1>2, <2>1
    <3>2. content[f][m] = Whole(i)
      BY <1>3, <2>1, <2>3, <3>1
    <3>3. f \in exists
      BY <1>2, <3>1, <3>2, WholeIs DEF FoldersOK, NoContent
    <3> QED
      BY <3>2, <3>3 DEF Kept, InFolder, Whole
  <2> QED
    BY <2>2, <2>3
<1>6. ASSUME NEW i, InManifest(i)' PROVE InManifest(i)
  <2>1. PICK f \in exists' : \E k \in DOMAIN manifest[f] : manifest[f][k].link = i
    BY <1>6 DEF InManifest
  <2>2. ~\E k \in DOMAIN <<>> : TRUE
    BY SMT
  <2>3. f \in exists
    BY <1>1, <1>2, <2>1, <2>2 DEF FoldersOK
  <2> QED
    BY <2>1, <2>3 DEF InManifest
<1>7. ASSUME NEW i \in Items, InHand(i)' PROVE Kept(i)
  <2>1. PICK q \in Procs : \E k \in DOMAIN job'[q].done : job'[q].done[k].link = i
    BY <1>7 DEF InHand
  <2>2. CASE q # p
    <3>1. job'[q] = job[q]
      BY <1>2, <2>2
    <3> QED
      BY <2>1, <3>1 DEF Kept, InHand
  <2>3. CASE q = p
    <3>1. PICK k \in DOMAIN n.done : n.done[k].link = i
      BY <1>2, <2>1, <2>3
    <3>2. (k \in DOMAIN j.done /\ n.done[k] = j.done[k]) \/ n.done[k] = e2
      BY <1>1, <3>1, AppendAt
    <3>3. CASE n.done[k] = e2
      BY <3>1, <3>3 DEF Kept, Old, Whole
    <3>4. CASE k \in DOMAIN j.done /\ n.done[k] = j.done[k]
      BY <3>1, <3>4 DEF Kept, InHand
    <3> QED
      BY <3>2, <3>3, <3>4
  <2> QED
    BY <2>2, <2>3
<1> QED
  BY <1>4, <1>5, <1>6, <1>7 DEF Kept

\* Staging a path puts nothing anywhere that was not at the path.
LEMMA StageOld ==
    ASSUME IndInv, SoloInv, KindInv, NEW p \in Procs,
           StageLink(p) \/ StageRename(p) \/ StageCopy(p) \/ StageFail(p)
    PROVE  \A i \in Items : Kept(i)' => Kept(i)
<1> SUFFICES ASSUME NEW j, j = job[p], NEW e, e = Head(j.todo)
             PROVE  \A i \in Items : Kept(i)' => Kept(i)
  OBVIOUS
<1>1. /\ Staging(p) /\ j \in ToldJobs /\ e \in Told /\ Same(e)
      /\ Fill(p, e, None) = content
  BY NextSlot, Zenon DEF StageLink, StageRename, StageCopy, StageFail
<1>2. PICK t : t \in Told /\ t = [e EXCEPT !.stored = TRUE] /\ t.link = e.link
  <2>1. [e EXCEPT !.stored = TRUE] \in Told
    BY <1>1, NextPath, Zenon DEF Staging
  <2> QED
    BY <1>1, <2>1 DEF Told, Entries
<1>3. exists' = exists \cup {j.dest} /\ manifest' = manifest
  BY Zenon DEF StageLink, StageRename, StageCopy, StageFail
<1>4. e.path \in Paths /\ fs \in [Paths -> Cells \cup {None}]
  BY <1>1, SMTT(30) DEF Told, Entries, IndInv, DiskOK
<1>5. \A i \in Items : e.link = i => AtPath(i)
  <2> SUFFICES ASSUME NEW i \in Items, e.link = i PROVE AtPath(i)
    OBVIOUS
  <2>1. i # None
    BY TrashAssumption
  <2>2. e.kind \in LinkKinds /\ e.kind # "absent"
    BY <1>1, <2>1, SMTT(30) DEF Same, LinkKinds
  <2>3. fs[e.path] # None /\ KindOf[fs[e.path].item] = e.kind /\ i = fs[e.path].item
    BY <1>1, <2>2, SMTT(30) DEF Same
  <2>4. fs[e.path].whole /\ fs[e.path] \in Cells
    BY <1>4, <2>2, <2>3, SMTT(30) DEF KindInv, LinkWhole
  <2>5. fs[e.path] = Whole(i)
    BY <2>3, <2>4 DEF Whole, Cells
  <2> QED
    BY <1>4, <2>5 DEF AtPath, Whole
<1>6. PICK c : /\ content' = Fill(p, e, c)
               /\ \/ c = None \/ c = fs[e.path] \/ c = Whole(e.link)
                  \/ c = [item |-> fs[e.path].item, whole |-> FALSE]
  BY <1>1, Zenon DEF StageLink, StageRename, StageCopy, StageFail, Whole
<1>7. \A i \in Items : c = Whole(i) => AtPath(i)
  <2> SUFFICES ASSUME NEW i \in Items, c = Whole(i) PROVE AtPath(i)
    OBVIOUS
  <2>1. c # None /\ c # [item |-> fs[e.path].item, whole |-> FALSE]
    BY WholeIs DEF Whole
  <2>2. c = Whole(e.link) => e.link = i
    BY DEF Whole
  <2>3. c = fs[e.path] => AtPath(i)
    BY <1>4 DEF AtPath, Whole
  <2> QED
    BY <1>5, <1>6, <2>1, <2>2, <2>3
<1>8. PICK e2 \in {e, t} :
        \/ job' = [job EXCEPT ![p].pc = "delete", ![p].done = Append(@, e2)]
        \/ job' = [job EXCEPT ![p].todo = Tail(@), ![p].done = Append(@, e2)]
        \/ job' = [job EXCEPT ![p].todo = Tail(@), ![p].failed = TRUE,
                              ![p].done = Append(@, e2)]
  BY <1>2, Zenon DEF StageLink, StageRename, StageCopy, StageFail
<1>9. PICK n : /\ n \in {[j EXCEPT !.pc = "delete", !.done = Append(@, e2)],
                         [j EXCEPT !.todo = Tail(@), !.done = Append(@, e2)],
                         [j EXCEPT !.todo = Tail(@), !.failed = TRUE, !.done = Append(@, e2)]}
               /\ job' = [job EXCEPT ![p] = n]
  BY <1>8, ZenonT(30)
<1>10. n.done = Append(j.done, e2)
  BY <1>1, <1>9 DEF ToldJobs
<1>11. fs' = fs \/ fs' = [fs EXCEPT ![e.path] = None]
  BY Zenon DEF StageLink, StageRename, StageCopy, StageFail
<1>12. /\ IndInv /\ SoloInv /\ p \in Procs /\ Staging(p) /\ j = job[p] /\ e = Head(j.todo)
       /\ e2 \in Told /\ e2.link = e.link /\ job' = [job EXCEPT ![p] = n]
       /\ content' = Fill(p, e, c)
  BY <1>1, <1>2, <1>6, <1>8, <1>9, Zenon
<1>13. Old(c) /\ Old(Whole(e.link))
  BY <1>5, <1>7 DEF Old, Whole
<1> QED
  BY ONLY <1>3, <1>10, <1>11, <1>12, <1>13, StagedOld

\* The other steps add nothing to a path, a folder or a manifest.
LEMMA EarlyOld ==
    ASSUME IndInv, SoloInv, IndInv', NEW p \in Procs,
           \/ RegisterLoad(p) \/ RegisterSave(p) \/ NameFolder(p) \/ MakeFolder(p)
           \/ StageAbsent(p) \/ Crash(p) \/ Begin(p) \/ CleanSkip(p) \/ CleanConfirm(p)
           \/ RecoverEnd(p) \/ Purge(p)
    PROVE  \A i \in Items : Kept(i)' => Kept(i)
<1> SUFFICES ASSUME NEW j, j = job[p] PROVE \A i \in Items : Kept(i)' => Kept(i)
  OBVIOUS
<1>1. /\ j \in ToldJobs /\ TodoOK(j) /\ job \in [Procs -> GoodJobs] /\ FoldersOK
      /\ exists' \subseteq FolderIds /\ Idle.done = <<>>
  BY JobAt DEF SoloInv, SoloOK, IndInv, DiskOK, Idle
<1>2. fs' = fs /\ (UNCHANGED <<content, manifest>> \/ RemoveFolder(j.queue[1].fid))
  BY Zenon DEF RegisterLoad, RegisterSave, NameFolder, MakeFolder, StageAbsent, Crash, Begin,
     CleanSkip, CleanConfirm, RecoverEnd, Purge, TrashBegin, RecoverBegin, CleanBegin, disk
<1>3. /\ \A f \in FolderIds : manifest'[f] \in {<<>>, manifest[f]}
      /\ \A f \in FolderIds, n \in Names : content'[f][n] \in {None, content[f][n]}
  BY <1>2, RemovedLess
<1>4. \A i \in Items : /\ InFolder(i)' => InFolder(i)
                       /\ InManifest(i)' => InManifest(i)
  BY <1>1, <1>3, WholeIs, LessDisk
<1>5. \A i : AtPath(i)' => AtPath(i)
  BY <1>2 DEF AtPath
<1>6. \E n : job' = [job EXCEPT ![p] = n] /\ n.done \in {<<>>, j.done}
  <2>1. CASE \/ RegisterLoad(p) \/ RegisterSave(p) \/ NameFolder(p) \/ MakeFolder(p)
             \/ StageAbsent(p)
    BY <2>1, EarlyJob
  <2>2. CASE Crash(p)
    BY <1>1, <2>2 DEF Crash
  <2>3. CASE CleanConfirm(p)
    <3>1. [j EXCEPT !.pc = "purge"].done = j.done
      BY <1>1 DEF ToldJobs
    <3> QED
      BY <2>3, <3>1 DEF CleanConfirm
  <2>4. CASE RecoverEnd(p) \/ CleanSkip(p) \/ Purge(p)
    <3>1. PICK step : job' = [job EXCEPT ![p] = NextFolder(j, step)]
      BY <2>4 DEF RecoverEnd, CleanSkip, Purge
    <3>2. NextFolder(j, step).done \in {<<>>, j.done}
      BY <1>1, NextFolderIs
    <3> QED
      BY <3>1, <3>2
  <2>5. ASSUME NEW ps \in TrashArgs, TrashBegin(p, ps)
        PROVE  \E n : job' = [job EXCEPT ![p] = n] /\ n.done \in {<<>>, j.done}
    <3>1. PICK s, t, st, g : job' = [job EXCEPT ![p] =
                   [Idle EXCEPT !.pc = s, !.todo = t, !.store = st, !.given = g]]
      BY <2>5, Zenon DEF TrashBegin
    <3>2. [Idle EXCEPT !.pc = s, !.todo = t, !.store = st, !.given = g].done = <<>>
      BY DEF Idle
    <3> QED
      BY <3>1, <3>2
  <2>6. ASSUME NEW q, NEW m,
               job' = [job EXCEPT ![p] =
                   IF q = <<>> THEN Idle
                   ELSE [Idle EXCEPT !.pc = "recover", !.queue = Load(q), !.mode = m]]
        PROVE  \E n : job' = [job EXCEPT ![p] = n] /\ n.done \in {<<>>, j.done}
    <3>1. [Idle EXCEPT !.pc = "recover", !.queue = Load(q), !.mode = m].done = <<>>
      BY DEF Idle
    <3> QED
      BY <1>1, <2>6, <3>1
  <2>7. ASSUME NEW q, NEW o,
               job' = [job EXCEPT ![p] =
                   IF q = <<>> THEN Idle
                   ELSE [Idle EXCEPT !.pc = "clean", !.queue = Load(q),
                                     !.flags = o, !.now = clock]]
        PROVE  \E n : job' = [job EXCEPT ![p] = n] /\ n.done \in {<<>>, j.done}
    <3>1. [Idle EXCEPT !.pc = "clean", !.queue = Load(q), !.flags = o, !.now = clock].done
             = <<>>
      BY DEF Idle
    <3> QED
      BY <1>1, <2>7, <3>1
  <2>8. CASE Begin(p)
    BY <2>5, <2>6, <2>7, <2>8, Zenon DEF Begin, RecoverBegin, CleanBegin
  <2> QED
    BY <2>1, <2>2, <2>3, <2>4, <2>8
<1>7. \A i : InHand(i)' => InHand(i)
  BY <1>1, <1>6, LessHand
<1> QED
  BY <1>4, <1>5, <1>7 DEF Kept

\* The original goes, or half of it: no other thing comes or goes.
LEMMA DeleteOld ==
    ASSUME IndInv, SoloInv, NEW p \in Procs, Delete(p)
    PROVE  /\ \A i \in Items : Kept(i)' => Kept(i)
           /\ \E x : \A i \in Items : i # x => (AtPath(i)' <=> AtPath(i))
<1> SUFFICES ASSUME NEW j, j = job[p], NEW e, e = Head(j.todo)
             PROVE  /\ \A i \in Items : Kept(i)' => Kept(i)
                    /\ \E x : \A i \in Items : i # x => (AtPath(i)' <=> AtPath(i))
  OBVIOUS
<1>0. At(p, "delete") /\ job[p].todo # <<>>
  BY JobAt, Zenon DEF Delete, At, Ready
<1>1. /\ j \in ToldJobs /\ fs \in [Paths -> Cells \cup {None}] /\ job \in [Procs -> GoodJobs]
      /\ e.path \in Paths
  <2>1. j \in ToldJobs /\ e \in Told
    BY <1>0, NextPath, Zenon
  <2>2. fs \in [Paths -> Cells \cup {None}] /\ job \in [Procs -> GoodJobs]
    BY DEF IndInv, DiskOK
  <2> QED
    BY <2>1, <2>2 DEF Told, Entries
<1>2. PICK n \in {[j EXCEPT !.pc = "stage", !.todo = Tail(@)],
                  [j EXCEPT !.pc = "stage", !.todo = Tail(@), !.failed = TRUE]} :
         job' = [job EXCEPT ![p] = n]
  BY Zenon DEF Delete
<1>3. n.done = j.done
  BY <1>1, <1>2, Zenon DEF ToldJobs
<1>4. UNCHANGED <<exists, content, manifest>>
  BY Zenon DEF Delete, disk
<1>5. \A i \in Items : /\ InFolder(i)' => InFolder(i)
                       /\ InManifest(i)' => InManifest(i)
  BY <1>4 DEF InFolder, InManifest
<1>6. \A i : InHand(i)' => InHand(i)
  BY <1>1, <1>2, <1>3, LessHand
<1>7. \/ fs' = fs
      \/ fs' = [fs EXCEPT ![e.path] = None]
      \/ /\ fs[e.path] # None
         /\ \E w \in {FALSE, fs[e.path].whole} : fs' = [fs EXCEPT ![e.path].whole = w]
  BY ZenonT(40) DEF Delete, Deletable
<1>8. \/ fs' = fs
      \/ \E c : /\ fs' = [fs EXCEPT ![e.path] = c]
                /\ \A i \in Items : c = Whole(i) => fs[e.path] = Whole(i)
  <2>1. CASE fs' = [fs EXCEPT ![e.path] = None]
    <3>1. PICK c : c = None
      OBVIOUS
    <3>2. fs' = [fs EXCEPT ![e.path] = c]
      BY <2>1, <3>1
    <3>3. \A i \in Items : c = Whole(i) => fs[e.path] = Whole(i)
      BY <3>1, WholeIs
    <3> QED
      BY <3>2, <3>3
  <2>2. ASSUME fs[e.path] # None, NEW w \in {FALSE, fs[e.path].whole},
               fs' = [fs EXCEPT ![e.path].whole = w]
        PROVE  \E c : /\ fs' = [fs EXCEPT ![e.path] = c]
                      /\ \A i \in Items : c = Whole(i) => fs[e.path] = Whole(i)
    <3>1. fs[e.path] \in Cells
      BY <1>1, <2>2
    <3>2. PICK c : c = [fs[e.path] EXCEPT !.whole = w]
      BY ZenonT(40)
    <3>3. \A i \in Items : c = Whole(i) => fs[e.path] = Whole(i)
      BY <2>2, <3>1, <3>2, ZenonT(40) DEF Whole, Cells
    <3>4. fs' = [fs EXCEPT ![e.path] = c]
      BY <2>2, <3>2
    <3> QED
      BY <3>3, <3>4
  <2> QED
    BY <1>7, <2>1, <2>2, Zenon
<1>9. CASE fs' = fs
  <2>1. \A i : AtPath(i)' <=> AtPath(i)
    BY <1>9 DEF AtPath
  <2> QED
    BY <1>5, <1>6, <2>1 DEF Kept
<1>10. ASSUME NEW c, fs' = [fs EXCEPT ![e.path] = c],
              \A i \in Items : c = Whole(i) => fs[e.path] = Whole(i)
       PROVE  /\ \A i \in Items : Kept(i)' => Kept(i)
              /\ \E x : \A i \in Items : i # x => (AtPath(i)' <=> AtPath(i))
  <2>1. \A i \in Items : AtPath(i)' => AtPath(i)
    <3>1. \A i \in Items : fs[e.path] = Whole(i) => AtPath(i)
      BY <1>1 DEF AtPath, Whole
    <3> QED
      BY <1>1, <1>10, <3>1, OnePath
  <2>2. PICK x : x = fs[e.path].item
    OBVIOUS
  <2>3. \A i \in Items : fs[e.path] = Whole(i) => i = x
    BY <2>2 DEF Whole
  <2>4. \A i \in Items : i # x => (AtPath(i)' <=> AtPath(i))
    BY <1>1, <1>10, <2>3, OnePath
  <2> QED
    BY <1>5, <1>6, <2>1, <2>4 DEF Kept
<1> QED
  BY <1>8, <1>9, <1>10

\* A rename moves one thing.
LEMMA RenameMoves ==
    ASSUME IndInv, NEW p \in Procs, StageRename(p)
    PROVE  \E x : \A i \in Items : i # x => (AtPath(i)' <=> AtPath(i))
<1> SUFFICES ASSUME NEW e, e = Head(job[p].todo)
             PROVE  \E x : \A i \in Items : i # x => (AtPath(i)' <=> AtPath(i))
  OBVIOUS
<1>1. fs' = [fs EXCEPT ![e.path] = None] /\ fs \in [Paths -> Cells \cup {None}]
  BY SMTT(30) DEF StageRename, IndInv, DiskOK
<1>2. PICK x : x = fs[e.path].item
  OBVIOUS
<1>3. \A i \in Items : fs[e.path] = Whole(i) => i = x
  BY <1>2 DEF Whole
<1>4. \A i \in Items : i # x => (AtPath(i)' <=> AtPath(i))
  BY <1>1, <1>3, WholeIs, OnePath
<1> QED
  BY <1>4

\* The manifest names the links that trash() held.
LEMMA SaveManifestOld ==
    ASSUME IndInv, SoloInv, NEW p \in Procs, SaveManifest(p)
    PROVE  \A i \in Items : Kept(i)' => Kept(i)
<1> SUFFICES ASSUME NEW j, j = job[p], NEW d, d = j.dest
             PROVE  \A i \in Items : Kept(i)' => Kept(i)
  OBVIOUS
<1>1. /\ j \in ToldJobs /\ j.pc = "stage" /\ d \in FolderIds /\ FoldersOK
      /\ job \in [Procs -> GoodJobs] /\ manifest \in [FolderIds -> Seq(Told)]
      /\ exists \subseteq FolderIds
  BY JobAt DEF SaveManifest, At, Ready, SoloInv, IndInv, DiskOK
<1>2. /\ job' = [job EXCEPT ![p] = Idle] /\ UNCHANGED <<fs, content>>
      /\ \/ exists' = exists \cup {d} /\ manifest' = [manifest EXCEPT ![d] = j.done]
         \/ UNCHANGED <<exists, manifest>>
  BY DEF SaveManifest
<1>3. \A i : AtPath(i)' => AtPath(i)
  BY <1>2 DEF AtPath
<1>4. \A i : InHand(i)' => InHand(i)
  <2>1. Idle.done = <<>>
    BY DEF Idle
  <2> QED
    BY <1>1, <1>2, <2>1, LessHand
<1>5. ASSUME NEW i \in Items, InFolder(i)' PROVE InFolder(i)
  <2>1. PICK f \in exists', m \in Names : content[f][m] = Whole(i)
    BY <1>2, <1>5 DEF InFolder, Whole
  <2>2. f \in FolderIds
    BY <1>1, <1>2, <2>1
  <2>3. f \in exists
    BY <1>1, <2>1, <2>2, WholeIs DEF FoldersOK, NoContent
  <2> QED
    BY <2>1, <2>3 DEF InFolder, Whole
<1>6. ASSUME NEW i \in Items, InManifest(i)' PROVE InManifest(i) \/ InHand(i)
  <2>1. PICK f \in exists' : \E k \in DOMAIN manifest'[f] : manifest'[f][k].link = i
    BY <1>6 DEF InManifest
  <2>2. CASE UNCHANGED <<exists, manifest>>
    BY <2>1, <2>2 DEF InManifest
  <2>3. CASE exists' = exists \cup {d} /\ manifest' = [manifest EXCEPT ![d] = j.done]
    <3>1. CASE f = d
      <4>1. manifest'[f] = j.done
        BY <1>1, <2>3, <3>1
      <4> QED
        BY <2>1, <4>1 DEF InHand
    <3>2. CASE f # d
      <4>1. f \in exists /\ manifest'[f] = manifest[f]
        BY <1>1, <2>1, <2>3, <3>2
      <4> QED
        BY <2>1, <4>1 DEF InManifest
    <3> QED
      BY <3>1, <3>2
  <2> QED
    BY <1>2, <2>2, <2>3
<1> QED
  BY <1>3, <1>4, <1>5, <1>6 DEF Kept

\* A recovery makes a link again from its manifest, and copies what is in the folder:
\* one thing comes back.
LEMMA RecoverOld ==
    ASSUME IndInv, SoloInv, KindInv, NEW p \in Procs,
           RecoverMetadata(p) \/ RecoverLink(p) \/ RecoverContent(p) \/ RecoverFail(p)
    PROVE  /\ \A i \in Items : Kept(i)' => Kept(i)
           /\ \E x : \A i \in Items : i # x => (AtPath(i)' <=> AtPath(i))
<1> SUFFICES ASSUME NEW j, j = job[p], NEW f, f = j.queue[1].fid,
                    NEW r, r = j.queue[1].entries, NEW e, e = Head(r)
             PROVE  /\ \A i \in Items : Kept(i)' => Kept(i)
                    /\ \E x : \A i \in Items : i # x => (AtPath(i)' <=> AtPath(i))
  OBVIOUS
<1>1. j.pc = "recover" /\ r # <<>>
  BY Zenon DEF RecoverMetadata, RecoverLink, RecoverContent, RecoverFail, Recovering, At
<1>2. /\ j \in ToldJobs /\ j.queue # <<>> /\ f \in FolderIds
      /\ Base(e) \in Names /\ Backup(p, e) = content[f][Base(e)]
      /\ fs \in [Paths -> Cells \cup {None}] /\ job \in [Procs -> GoodJobs]
  BY <1>1, EntryAt
<1>3. UNCHANGED <<exists, content, manifest>>
  BY Zenon DEF RecoverMetadata, RecoverLink, RecoverContent, RecoverFail, disk
<1>4. \A i : (InFolder(i)' => InFolder(i)) /\ (InManifest(i)' => InManifest(i))
  BY <1>3 DEF InFolder, InManifest
<1>5. PICK n : /\ n \in {NextEntry(j, TRUE), NextEntry(j, FALSE), [j EXCEPT !.pc = "unlink"]}
               /\ job' = [job EXCEPT ![p] = n]
  BY Zenon DEF RecoverMetadata, RecoverLink, RecoverContent, RecoverFail
<1>6. n.done = j.done
  <2>1. [j EXCEPT !.pc = "unlink"].done = j.done
    BY <1>2 DEF ToldJobs
  <2>2. \A ok \in BOOLEAN : NextEntry(j, ok).done = j.done
    BY <1>2, NextEntryIs
  <2> QED
    BY <1>5, <2>1, <2>2
<1>7. \A i : InHand(i)' => InHand(i)
  BY <1>2, <1>5, <1>6, LessHand
<1>8. \/ fs' = fs
      \/ \E t, c : /\ fs' = [fs EXCEPT ![t] = c] /\ fs[t] = None
                   /\ \A i \in Items : c = Whole(i) => Kept(i)
  <2>1. CASE RecoverMetadata(p)
    BY <2>1 DEF RecoverMetadata
  <2>2. CASE RecoverLink(p)
    <3>1. PICK c : c = [item |-> e.link, whole |-> TRUE]
      OBVIOUS
    <3>2. fs' = [fs EXCEPT ![Target(p, e)] = c] /\ fs[Target(p, e)] = None
      BY <2>2, <3>1 DEF RecoverLink, Relinkable
    <3>3. \A i \in Items : c = Whole(i) => Kept(i)
      <4>1. \A i \in Items : c = Whole(i) => e.link = i
        BY <3>1 DEF Whole
      <4>2. InManifest(e.link)
        BY <1>1, EntryKnown DEF InManifest
      <4> QED
        BY <4>1, <4>2 DEF Kept
    <3> QED
      BY <3>2, <3>3
  <2>3. CASE RecoverContent(p)
    <3>1. fs' = [fs EXCEPT ![Target(p, e)] = Backup(p, e)] /\ fs[Target(p, e)] = None
      BY <2>3 DEF RecoverContent, Restorable
    <3>2. f \in exists
      BY <1>1, EntryKnown
    <3>3. \A i \in Items : Backup(p, e) = Whole(i) => Kept(i)
      BY <1>2, <3>2 DEF Kept, InFolder, Whole
    <3> QED
      BY <3>1, <3>3
  <2>4. CASE RecoverFail(p)
    <3>1. PICK c : c = [item |-> Backup(p, e).item, whole |-> FALSE]
      OBVIOUS
    <3>2. \A i \in Items : c # Whole(i)
      BY <3>1 DEF Whole
    <3>3. fs' = fs \/ (fs' = [fs EXCEPT ![Target(p, e)] = c] /\ fs[Target(p, e)] = None)
      BY <2>4, <3>1, Zenon DEF RecoverFail, Restorable
    <3> QED
      BY <3>2, <3>3
  <2> QED
    BY <2>1, <2>2, <2>3, <2>4
<1>9. CASE fs' = fs
  <2>1. \A i : AtPath(i)' <=> AtPath(i)
    BY <1>9 DEF AtPath
  <2> QED
    BY <1>4, <1>7, <2>1 DEF Kept
<1>10. ASSUME NEW t, NEW c, fs' = [fs EXCEPT ![t] = c], fs[t] = None,
              \A i \in Items : c = Whole(i) => Kept(i)
       PROVE  /\ \A i \in Items : Kept(i)' => Kept(i)
              /\ \E x : \A i \in Items : i # x => (AtPath(i)' <=> AtPath(i))
  <2>1. \A i \in Items : AtPath(i)' => Kept(i)
    <3>1. \A i \in Items : c # Whole(i) => (AtPath(i)' <=> AtPath(i))
      BY <1>2, <1>10, WholeIs, OnePath
    <3> QED
      BY <1>10, <3>1, Zenon DEF Kept
  <2>2. PICK x : x = c.item
    OBVIOUS
  <2>3. \A i \in Items : c = Whole(i) => i = x
    BY <2>2 DEF Whole
  <2>4. \A i \in Items : i # x => (AtPath(i)' <=> AtPath(i))
    BY <1>2, <1>10, <2>3, WholeIs, OnePath
  <2> QED
    BY <1>4, <1>7, <2>1, <2>4 DEF Kept
<1> QED
  BY <1>8, <1>9, <1>10

\* The copy in the folder goes, or half of it.
LEMMA UnlinkOld ==
    ASSUME IndInv, SoloInv, NEW p \in Procs, Unlink(p)
    PROVE  \A i \in Items : Kept(i)' => Kept(i)
<1> SUFFICES ASSUME NEW j, j = job[p], NEW f, f = j.queue[1].fid,
                    NEW r, r = j.queue[1].entries, NEW b, b = Base(Head(r))
             PROVE  \A i \in Items : Kept(i)' => Kept(i)
  OBVIOUS
<1>1. j.pc = "unlink" /\ r # <<>>
  BY JobAt, Zenon DEF Unlink, At, Ready
<1>2. /\ j \in ToldJobs /\ j.queue # <<>> /\ f \in FolderIds /\ b \in Names /\ FoldersOK
      /\ content \in [FolderIds -> [Names -> Cells \cup {None}]]
      /\ job \in [Procs -> GoodJobs] /\ exists \subseteq FolderIds
  BY <1>1, EntryAt DEF IndInv, DiskOK
<1>3. UNCHANGED <<fs, exists, manifest>>
  BY Zenon DEF Unlink
<1>4. PICK ok \in BOOLEAN : job' = [job EXCEPT ![p] = NextEntry(j, ok)]
  BY Zenon DEF Unlink
<1>5. NextEntry(j, ok).done = j.done
  BY <1>2, NextEntryIs
<1>6. \A i : InHand(i)' => InHand(i)
  BY <1>2, <1>4, <1>5, LessHand, Zenon
<1>7. \/ content' = content
      \/ content' = [content EXCEPT ![f][b] = None]
      \/ content[f][b] # None /\ content' = [content EXCEPT ![f][b].whole = FALSE]
  BY Zenon DEF Unlink, Base
<1>8. \A g \in FolderIds, m \in Names, i \in Items :
         content'[g][m] = Whole(i) => content[g][m] = Whole(i)
  <2>1. CASE content' = [content EXCEPT ![f][b] = None]
    BY <1>2, <2>1, WholeIs
  <2>2. CASE content[f][b] # None /\ content' = [content EXCEPT ![f][b].whole = FALSE]
    <3>1. content[f][b] \in Cells
      BY <1>2, <2>2, ZenonT(40)
    <3>2. PICK c : c = [content[f][b] EXCEPT !.whole = FALSE]
      BY ZenonT(40)
    <3>3. \A i \in Items : c # Whole(i)
      BY <3>1, <3>2, ZenonT(40) DEF Whole, Cells
    <3>4. content' = [content EXCEPT ![f][b] = c]
      BY <2>2, <3>2, Zenon
    <3> QED
      BY <1>2, <3>3, <3>4
  <2> QED
    BY <1>7, <2>1, <2>2, Zenon
<1>9. \A i \in Items : InFolder(i)' => InFolder(i)
  BY <1>2, <1>3, <1>8, LessDisk
<1>10. \A i : (AtPath(i)' => AtPath(i)) /\ (InManifest(i)' => InManifest(i))
  BY <1>3 DEF AtPath, InManifest
<1> QED
  BY <1>6, <1>9, <1>10 DEF Kept

\* Where an item is, by what is known of it.
LEMMA PlaceIs ==
    /\ \A i \in Items : place[i] = IF i \notin born THEN "unborn"
                                   ELSE IF AtPath(i) THEN "live"
                                   ELSE IF Kept(i) THEN "trashed" ELSE "gone"
    /\ \A i \in Items : place'[i] = IF i \notin born' THEN "unborn"
                                    ELSE IF AtPath(i)' THEN "live"
                                    ELSE IF Kept(i)' THEN "trashed" ELSE "gone"
    /\ place \in [Items -> Promise!Places] /\ place' \in [Items -> Promise!Places]
<1>1. /\ \A i \in Items : place[i] = IF i \notin born THEN "unborn"
                                     ELSE IF AtPath(i) THEN "live"
                                     ELSE IF Kept(i) THEN "trashed" ELSE "gone"
      /\ place = [i \in Items |-> place[i]]
  BY DEF place
<1>2. /\ \A i \in Items : place'[i] = IF i \notin born' THEN "unborn"
                                      ELSE IF AtPath(i)' THEN "live"
                                      ELSE IF Kept(i)' THEN "trashed" ELSE "gone"
      /\ place' = [i \in Items |-> place'[i]]
  BY DEF place
<1>3. \A i \in Items : place[i] \in Promise!Places
  BY <1>1 DEF Promise!Places
<1>4. \A i \in Items : place'[i] \in Promise!Places
  BY <1>2 DEF Promise!Places
<1> QED
  BY <1>1, <1>2, <1>3, <1>4

\* Two placings of the items that agree everywhere are one.
LEMMA SamePlace ==
    ASSUME NEW T, NEW f \in [Items -> T], NEW g \in [Items -> T],
           \A i \in Items : f[i] = g[i]
    PROVE  f = g
OBVIOUS

\* A step that leaves the paths alone, adds nothing and loses only what the user agreed
\* to lose is the promise's Purge.
LEMMA CalmStep ==
    ASSUME IndInv, IndInv', born' = born, purged \subseteq purged',
           \A i \in Items : AtPath(i)' <=> AtPath(i),
           \A i \in Items : Kept(i)' => Kept(i),
           \A i \in Items : Kept(i) => Kept(i)' \/ i \in purged'
    PROVE  Promise!Next
<1> DEFINE S == purged'
           T == {i \in born : Kept(i) /\ ~Kept(i)'}
<1>1. born \subseteq Items /\ S \in SUBSET Items
  BY DEF IndInv, HistOK
<1>2. T \in SUBSET S
  BY <1>1
<1>3. \A i \in T : place[i] = "trashed"
  <2>1. \A i \in T : i \in born /\ ~AtPath(i) /\ Kept(i)
    BY <1>1 DEF Kept
  <2> QED
    BY <1>1, <2>1, PlaceIs
<1>4. purged' = purged \cup S
  OBVIOUS
<1>5. place' = [i \in Items |-> IF i \in T THEN "gone" ELSE place[i]]
  <2>1. ASSUME NEW i \in Items
        PROVE  place'[i] = IF i \in T THEN "gone" ELSE place[i]
    <3>1. CASE i \notin born
      BY <3>1, PlaceIs
    <3>2. CASE i \in born /\ AtPath(i)
      BY <3>2, PlaceIs DEF Kept
    <3>3. CASE i \in born /\ ~AtPath(i) /\ Kept(i)
      BY <3>3, PlaceIs
    <3>4. CASE i \in born /\ ~AtPath(i) /\ ~Kept(i)
      BY <3>4, PlaceIs
    <3> QED
      BY <3>1, <3>2, <3>3, <3>4
  <2> HIDE DEF T
  <2>2. place' = [i \in Items |-> place'[i]]
    BY PlaceIs
  <2> QED
    BY <2>1, <2>2
<1> HIDE DEF S, T
<1>6. Promise!Purge(S, T)
  BY <1>2, <1>3, <1>4, <1>5 DEF Promise!Purge
<1> QED
  BY <1>1, <1>2, <1>6 DEF Promise!Next

\* A step that moves one item between its place and the trash, and loses nothing.
LEMMA MoveStep ==
    ASSUME IndInv, born' = born, purged' = purged,
           \A i \in Items : Kept(i)' <=> Kept(i),
           NEW x, \A i \in Items : i # x => (AtPath(i)' <=> AtPath(i))
    PROVE  [Promise!Next]_<<place, purged>>
<1>1. \A i \in Items : i # x => place'[i] = place[i]
  BY PlaceIs
<1>2. CASE x \notin Items \/ place'[x] = place[x]
  <2>1. place' = place
    BY <1>1, <1>2, PlaceIs, SamePlace
  <2> QED
    BY <2>1
<1>3. CASE x \in Items /\ place'[x] # place[x]
  <2>1. place' = [place EXCEPT ![x] = place'[x]]
    <3>1. \A i \in Items : place'[i] = [place EXCEPT ![x] = place'[x]][i]
      BY <1>1, <1>3, PlaceIs
    <3>2. [place EXCEPT ![x] = place'[x]] \in [Items -> Promise!Places]
      BY <1>3, PlaceIs
    <3> QED
      BY <3>1, <3>2, PlaceIs, SamePlace
  <2>2. \/ place[x] = "live" /\ place'[x] = "trashed"
        \/ place[x] = "trashed" /\ place'[x] = "live"
    <3>1. x \in born /\ (AtPath(x) \/ AtPath(x)')
      BY <1>3, PlaceIs
    <3>2. Kept(x) /\ Kept(x)'
      BY <1>3, <3>1 DEF Kept
    <3> QED
      BY <1>3, <3>1, <3>2, PlaceIs
  <2>3. Promise!Trash(x) \/ Promise!Recover(x)
    BY <2>1, <2>2 DEF Promise!Trash, Promise!Recover, Promise!Move
  <2> QED
    BY <1>3, <2>3 DEF Promise!Next
<1> QED
  BY <1>2, <1>3

\* A user makes a new thing: it is live, and nothing else moves.
LEMMA MakeStep ==
    ASSUME IndInv, NEW q \in Paths, NEW x \in Items, UserCreate(q, x)
    PROVE  Promise!Next
<1>1. /\ fs' = [fs EXCEPT ![q] = Whole(x)] /\ fs[q] = None
      /\ born' = born \cup {x} /\ x \notin born
      /\ UNCHANGED <<exists, content, manifest, purged, job>>
      /\ fs \in [Paths -> Cells \cup {None}]
  BY DEF UserCreate, Whole, disk, IndInv, DiskOK
<1>2. \A i \in Items : i # x => Whole(i) # Whole(x) /\ Whole(i) # None
  BY WholeIs DEF Whole
<1>3. \A i \in Items : i # x => (AtPath(i)' <=> AtPath(i))
  BY <1>1, <1>2, OnePath
<1>4. \A i : /\ InFolder(i)' <=> InFolder(i)
             /\ InManifest(i)' <=> InManifest(i)
             /\ InHand(i)' <=> InHand(i)
  BY <1>1 DEF InFolder, InManifest, InHand
<1>5. \A i \in Items : i # x => (Kept(i)' <=> Kept(i))
  BY <1>3, <1>4 DEF Kept
<1>6. fs'[q] = Whole(x)
  BY <1>1
<1>7. AtPath(x)'
  BY <1>6 DEF AtPath, Whole
<1>8. \A i \in Items : i # x => place'[i] = place[i]
  BY <1>1, <1>3, <1>5, PlaceIs
<1>9. place[x] = "unborn" /\ place'[x] = "live"
  BY <1>1, <1>7, PlaceIs
<1>10. place' = [place EXCEPT ![x] = "live"]
  <2>1. \A i \in Items : place'[i] = [place EXCEPT ![x] = "live"][i]
    BY <1>8, <1>9, PlaceIs
  <2>2. [place EXCEPT ![x] = "live"] \in [Items -> Promise!Places]
    BY PlaceIs DEF Promise!Places
  <2> QED
    BY <2>1, <2>2, PlaceIs, SamePlace
<1>11. Promise!Make(x)
  BY <1>1, <1>9, <1>10 DEF Promise!Make, Promise!Move
<1> QED
  BY <1>11 DEF Promise!Next

\* The steps that leave every path alone.
LEMMA CalmSteps ==
    ASSUME IndInv, IndInv', SoloInv, KindInv, LinksSafe, NamesUnique, ~NothingCameBack,
           NEW p \in Procs,
           \/ RegisterLoad(p) \/ RegisterSave(p) \/ NameFolder(p) \/ MakeFolder(p)
           \/ StageAbsent(p) \/ StageLink(p) \/ StageCopy(p) \/ StageFail(p)
           \/ SaveManifest(p) \/ Unlink(p) \/ RecoverEnd(p)
           \/ CleanSkip(p) \/ CleanConfirm(p) \/ Purge(p) \/ Begin(p) \/ Crash(p)
    PROVE  Promise!Next
<1>1. [Next]_vars
  BY Zenon DEF Next, Proceed, TrashStep, RecoverStep, CleanStep
<1>2. born' = born /\ purged \subseteq purged'
  BY Zenon DEF RegisterLoad, RegisterSave, NameFolder, MakeFolder, StageAbsent, StageLink,
     StageCopy, StageFail, SaveManifest, Unlink, RecoverEnd, CleanSkip, CleanConfirm, Purge,
     Begin, TrashBegin, RecoverBegin, CleanBegin, Crash, hist
<1>3. fs' = fs
  BY Zenon DEF RegisterLoad, RegisterSave, NameFolder, MakeFolder, StageAbsent, StageLink,
     StageCopy, StageFail, SaveManifest, Unlink, RecoverEnd, CleanSkip, CleanConfirm, Purge,
     Begin, TrashBegin, RecoverBegin, CleanBegin, Crash, disk
<1>4. \A i : AtPath(i)' <=> AtPath(i)
  BY <1>3 DEF AtPath
<1>5. \A i \in Items : Kept(i)' => Kept(i)
  BY StageOld, EarlyOld, SaveManifestOld, UnlinkOld
<1>6. \A i \in Items : Kept(i) => Kept(i)' \/ i \in purged'
  BY <1>1, NextSafe DEF Safe
<1> QED
  BY <1>2, <1>4, <1>5, <1>6, CalmStep

\* The steps that move something.
LEMMA MoveSteps ==
    ASSUME IndInv, SoloInv, KindInv, NEW p \in Procs,
           \/ StageRename(p) \/ Delete(p) \/ RecoverMetadata(p) \/ RecoverLink(p)
           \/ RecoverContent(p) \/ RecoverFail(p)
    PROVE  [Promise!Next]_<<place, purged>>
<1>1. born' = born
  BY Zenon DEF StageRename, Delete, RecoverMetadata, RecoverLink, RecoverContent,
     RecoverFail, hist
<1>2. purged' = purged /\ \A i \in Items : Kept(i) => Kept(i)'
  BY StageKept, DeleteKept, AloneKept
<1>3. \A i \in Items : Kept(i)' => Kept(i)
  BY StageOld, DeleteOld, RecoverOld
<1>4. PICK x : \A i \in Items : i # x => (AtPath(i)' <=> AtPath(i))
  BY RenameMoves, DeleteOld, RecoverOld
<1> QED
  BY <1>1, <1>2, <1>3, <1>4, MoveStep

\* Every step of the trash store is one the promise allows.
LEMMA NextPromised ==
    ASSUME IndInv, IndInv', SoloInv, KindInv, LinksSafe, NamesUnique, ~NothingCameBack,
           [Next]_vars
    PROVE  [Promise!Next]_<<place, purged>>
<1>1. CASE Tick \/ UNCHANGED vars
  <2>1. UNCHANGED <<fs, exists, content, manifest, job, born, purged>>
    BY <1>1 DEF Tick, vars, disk, hist
  <2>2. \A i : (AtPath(i)' <=> AtPath(i)) /\ (Kept(i)' <=> Kept(i))
    BY <2>1 DEF AtPath, Kept, InFolder, InManifest, InHand
  <2>3. \A i \in Items : place'[i] = place[i]
    BY <2>1, <2>2, PlaceIs
  <2>4. place' = place
    BY <2>3, PlaceIs, SamePlace
  <2> QED
    BY <2>1, <2>4
<1>2. ASSUME NEW q \in Paths, NEW x \in Items, UserCreate(q, x) PROVE Promise!Next
  BY <1>2, MakeStep
<1>3. ASSUME NEW p \in Procs, Begin(p) \/ Proceed(p) \/ Crash(p)
      PROVE  [Promise!Next]_<<place, purged>>
  BY <1>3, CalmSteps, MoveSteps, Zenon DEF Proceed, TrashStep, RecoverStep, CleanStep
<1> QED
  BY <1>1, <1>2, <1>3, Zenon DEF Next

\* At the start every item that exists is in its place.
LEMMA InitPromised == Init => Promise!Init
<1> SUFFICES ASSUME Init PROVE Promise!Init
  OBVIOUS
<1>1. ASSUME NEW i \in born PROVE AtPath(i)
  <2>1. PICK q \in Paths : InitFs[q] = i /\ i # None
    BY <1>1 DEF Init
  <2>2. fs[q] = [item |-> i, whole |-> TRUE]
    BY <2>1 DEF Init
  <2> QED
    BY <2>2 DEF AtPath
<1>2. \A i \in Items : place[i] \in {"unborn", "live"}
  BY <1>1, PlaceIs
<1>3. place \in [Items -> {"unborn", "live"}]
  BY <1>2, PlaceIs
<1> QED
  BY <1>3 DEF Promise!Init, Init

\* While folder names are unique and no recovery ends that brought nothing back, the trash
\* store implements recoverable deletion: each step of trash, recover and clean, each fault
\* and crash, makes one thing, moves one thing between its place and the trash, destroys
\* what the user agreed to lose and only in the trash, or changes nothing a user can see.
THEOREM PromiseKept ==
    ASSUME OneProcess, Named, LinksSafe
    PROVE  Spec /\ [](NamesUnique /\ ~NothingCameBack) => KeepsPromise
<1>1. Init => KindInv
  BY InitKind
<1>2. IndInv /\ SoloInv /\ KindInv /\ [Next]_vars => KindInv'
  BY NextKind
<1>3. Spec => []KindInv
  BY <1>1, <1>2, SpecSolo, PTL DEF Spec
<1>4. /\ IndInv /\ IndInv' /\ SoloInv /\ KindInv /\ NamesUnique /\ ~NothingCameBack
      /\ [Next]_vars
      => [Promise!Next]_<<place, purged>>
  BY NextPromised
<1> QED
  BY <1>3, <1>4, InitPromised, SpecSolo, PTL DEF Spec, KeepsPromise, Promise!Spec
=============================================================================
