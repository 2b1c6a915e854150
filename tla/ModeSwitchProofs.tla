-------------------------- MODULE ModeSwitchProofs --------------------------
(***************************************************************************)
(* What the mode switch keeps, for any tools, processes and bounds. What   *)
(* people wrote is never lost if edits are given up with --force only      *)
(* (ContentSafe), whoever else works on the tool and whatever fails. That  *)
(* the way back is recorded needs more, and each of it is named: one       *)
(* command at a time, and no failure or kill in the windows the code       *)
(* leaves open (OneAtATime, WholeCopies, EditsMade, SwapsFinish).          *)
(*                                                                         *)
(* NamesInv says who owns a backup: without it a second command could fill *)
(* the folder that a first one recorded. OriginInv and ReturnInv follow a  *)
(* command from step to step: what it read at its start is still so, and   *)
(* what it owes the records it will write.                                 *)
(***************************************************************************)
EXTENDS ModeSwitch, TLAPS

\* Each step finds what the earlier steps of the command have to leave for it.
Ready(j) ==
    /\ j.pc # "idle" => j.tool \in Tools /\ j.id \in Folders
    /\ j.pc \in {"detach", "recover"} => j.folder \in Folders
    /\ j.pc = "peek" => j.edit \in {"remember", "forget"}
    /\ j.edit = "record" => j.prior \in {"embedded", "submodule"}

GoodJobs == {j \in Jobs : Ready(j)}

\* The tree, the trash and the configuration file.
TreeOK ==
    /\ form \in [Tools -> {"dir", "link", "none"}]
    /\ body \in [Tools -> Bodies \cup {None}]
    /\ dev \subseteq Tools /\ registered \subseteq Tools
    /\ trash \in [Folders -> Backups \cup {None}]
    /\ \A t \in Tools : form[t] = "dir" => body[t] # None

FileOK == config \in Configs /\ torn \in BOOLEAN

\* The bounds of the exploration.
CountOK ==
    /\ calls \in 0..MaxCalls /\ faults \in 0..MaxFaults
    /\ crashes \in 0..MaxCrashes /\ edits \in 0..MaxEdits

\* The history variables.
HistOK == made \subseteq Tools \X Bodies /\ discarded \subseteq Tools \X Bodies

\* The inductive invariant behind TypeCorrect.
TypeInv == TreeOK /\ FileOK /\ CountOK /\ HistOK /\ job \in [Procs -> GoodJobs]

-----------------------------------------------------------------------------
(* Lemmas that every action needs *)

\* The empty configuration is one.
LEMMA NoConfigTyped == NoConfig \in Configs
  BY DEF NoConfig, Configs

\* A process between two commands is in a good state.
LEMMA IdleGood == Idle \in GoodJobs
<1>1. Idle \in Jobs
  BY NoConfigTyped DEF Idle, Jobs, Steps, States, Edits
<1>2. Idle.pc = "idle" /\ Idle.edit = "cache"
  BY DEF Idle
<1> QED
  BY <1>1, <1>2 DEF GoodJobs, Ready

\* Reading mode_local.json gives a configuration, also when it is truncated.
LEMMA LoadTyped == ASSUME FileOK PROVE Load \in Configs
  BY NoConfigTyped DEF Load, FileOK

\* What TypeInv says of the process that takes the step.
LEMMA JobAt ==
    ASSUME TypeInv, NEW p \in Procs
    PROVE  job[p] \in GoodJobs /\ job[p] \in Jobs /\ Ready(job[p])
  BY DEF TypeInv, GoodJobs

\* Replacing the job of one process by a good one keeps all of them good.
LEMMA Put ==
    ASSUME NEW p \in Procs, NEW j \in GoodJobs, job \in [Procs -> GoodJobs],
           job' = [job EXCEPT ![p] = j]
    PROVE  job' \in [Procs -> GoodJobs]
  BY DEF GoodJobs

\* Granting or refusing operations keeps the counters within bounds.
LEMMA CountKept ==
    ASSUME CountOK, \/ Granted \/ RefusedBoth("trash", "rmtree")
                    \/ \E site \in FaultSites : Refused(site)
    PROVE  CountOK'
  BY ModeAssumption DEF CountOK, Granted, Refused, RefusedBoth, count

\* A step that leaves a part of the state alone keeps its types.
LEMMA StillTree == ASSUME TreeOK, UNCHANGED tree PROVE TreeOK'
  BY DEF TreeOK, tree
LEMMA StillFile == ASSUME FileOK, UNCHANGED <<config, torn>> PROVE FileOK'
  BY DEF FileOK
LEMMA StillHist == ASSUME HistOK, UNCHANGED hist PROVE HistOK'
  BY DEF HistOK, hist

\* A process may go on to any step that needs no more than it has.
LEMMA GotoGood ==
    ASSUME NEW j \in GoodJobs, j.pc # "idle", NEW s \in Steps \ {"idle", "peek"},
           s \in {"detach", "recover"} => j.folder \in Folders
    PROVE  [j EXCEPT !.pc = s] \in GoodJobs
<1> DEFINE n == [j EXCEPT !.pc = s]
<1>1. j \in Jobs /\ Ready(j)
  BY DEF GoodJobs
<1>2. n \in Jobs
  BY <1>1 DEF Jobs
<1>3. /\ n.pc = s /\ n.tool = j.tool /\ n.id = j.id /\ n.folder = j.folder
      /\ n.edit = j.edit /\ n.prior = j.prior
  BY <1>1 DEF Jobs
<1> QED
  BY <1>1, <1>2, <1>3 DEF GoodJobs, Ready

\* As GotoGood, with the result of a removal recorded.
LEMMA RemovedGood ==
    ASSUME NEW j \in GoodJobs, j.pc # "idle", NEW s \in {"link", "git"},
           NEW k \in Folders \cup {None}
    PROVE  [j EXCEPT !.pc = s, !.removed = TRUE, !.folder = k] \in GoodJobs
<1> DEFINE n == [j EXCEPT !.pc = s, !.removed = TRUE, !.folder = k]
<1>1. j \in Jobs /\ Ready(j)
  BY DEF GoodJobs
<1>2. n \in Jobs
  BY <1>1 DEF Jobs, Steps
<1>3. /\ n.pc = s /\ n.tool = j.tool /\ n.id = j.id
      /\ n.edit = j.edit /\ n.prior = j.prior
  BY <1>1 DEF Jobs
<1> QED
  BY <1>1, <1>2, <1>3 DEF GoodJobs, Ready

\* A process may go on to an edit of mode_local.json, with the paths it read;
\* an origin is recorded only of a directory.
LEMMA EditGood ==
    ASSUME NEW j \in GoodJobs, j.pc # "idle", NEW s \in {"peek", "load"},
           NEW e \in Edits, NEW d \in SUBSET Tools,
           s = "peek" => e \in {"remember", "forget"},
           e = "record" => j.prior \in {"embedded", "submodule"}
    PROVE  [j EXCEPT !.pc = s, !.edit = e, !.devs = d] \in GoodJobs
<1> DEFINE n == [j EXCEPT !.pc = s, !.edit = e, !.devs = d]
<1>1. j \in Jobs /\ Ready(j)
  BY DEF GoodJobs
<1>2. n \in Jobs
  BY <1>1 DEF Jobs, Steps
<1>3. /\ n.pc = s /\ n.tool = j.tool /\ n.id = j.id
      /\ n.edit = e /\ n.prior = j.prior
  BY <1>1 DEF Jobs
<1> QED
  BY <1>1, <1>2, <1>3 DEF GoodJobs, Ready

\* Then() leads to a step the process is ready for.
LEMMA ThenGood ==
    ASSUME NEW j \in GoodJobs, j.pc # "idle"
    PROVE  Then(j) \in GoodJobs
<1>1. j \in Jobs
  BY DEF GoodJobs
<1>2. j.devs \in SUBSET Tools /\ j.prior \in States
  BY <1>1 DEF Jobs
<1>3. [j EXCEPT !.pc = "publish"] \in GoodJobs
  BY GotoGood DEF Steps
<1>4. CASE j.edit = "remember" /\ j.removed /\ j.prior \in {"embedded", "submodule"}
  <2>1. [j EXCEPT !.pc = "load", !.edit = "record", !.devs = j.devs] \in GoodJobs
    BY <1>2, <1>4, EditGood DEF Edits
  <2>2. [j EXCEPT !.pc = "load", !.edit = "record", !.devs = j.devs]
          = [j EXCEPT !.pc = "load", !.edit = "record"]
    BY <1>1 DEF Jobs
  <2> QED
    BY <1>4, <2>1, <2>2 DEF Then
<1>5. [j EXCEPT !.pc = "peek", !.edit = "forget"] \in GoodJobs
  <2>1. [j EXCEPT !.pc = "peek", !.edit = "forget", !.devs = j.devs] \in GoodJobs
    BY <1>2, EditGood DEF Edits
  <2>2. [j EXCEPT !.pc = "peek", !.edit = "forget", !.devs = j.devs]
          = [j EXCEPT !.pc = "peek", !.edit = "forget"]
    BY <1>1 DEF Jobs
  <2> QED
    BY <2>1, <2>2
<1> QED
  BY <1>3, <1>4, <1>5, IdleGood DEF Then

\* What an edit writes is a configuration.
LEMMA EditedTyped ==
    ASSUME NEW j \in GoodJobs, j.pc # "idle", NEW c \in Configs
    PROVE  Edited(c, j) \in Configs
<1>1. j \in Jobs /\ Ready(j)
  BY DEF GoodJobs
<1>2. /\ j.tool \in Tools /\ j.edit \in Edits /\ j.devs \subseteq Tools
      /\ j.folder \in Folders \cup {None}
  BY <1>1 DEF Jobs, Ready
<1>3. CASE j.edit = "cache"
  BY <1>2, <1>3 DEF Edited, Configs
<1>4. CASE j.edit \in {"remember", "forget"}
  BY <1>2, <1>4 DEF Edited, Configs
<1>5. CASE j.edit = "clear"
  <2>1. [c EXCEPT !.origin[j.tool] = None] \in Configs
    BY <1>2 DEF Configs
  <2> QED
    BY <1>5, <2>1 DEF Edited
<1>6. CASE j.edit = "record"
  <2> DEFINE o == [prior |-> j.prior,
                   folder |-> IF j.prior = "embedded" THEN j.folder ELSE None]
  <2>1. o \in Origins
    BY <1>1, <1>2, <1>6 DEF Origins, Ready
  <2>2. [c EXCEPT !.origin[j.tool] = o] \in Configs
    BY <1>2, <2>1 DEF Configs
  <2> QED
    BY <1>6, <2>2 DEF Edited
<1> QED
  BY <1>2, <1>3, <1>4, <1>5, <1>6 DEF Edits

-----------------------------------------------------------------------------
(* The actions keep TypeInv *)

\* What a command starts with.
LEMMA StartedGood ==
    ASSUME TypeInv, calls < MaxCalls, NEW t \in Tools, NEW act \in {"dev", "publish", "restore"},
           NEW opt \in [force : BOOLEAN, immediate : BOOLEAN],
           NEW s \in {"gate", "remove", "link", "load"}
    PROVE  /\ [Started(t, act, opt) EXCEPT !.pc = s] \in GoodJobs
           /\ \A k \in Folders, d \in SUBSET Tools :
                [Started(t, act, opt) EXCEPT !.pc = "detach", !.folder = k, !.devs = d]
                  \in GoodJobs
<1>1. Idle \in Jobs /\ Idle.edit = "cache"
  BY IdleGood DEF GoodJobs, Idle
<1>2. StateOf(t) \in States /\ calls + 1 \in Folders
  BY ModeAssumption DEF StateOf, States, TypeInv, CountOK, Folders
<1> DEFINE j == Started(t, act, opt)
<1> DEFINE r(b) == [Idle EXCEPT !.tool = t, !.act = act, !.opt = opt,
                        !.prior = StateOf(t), !.sub = b, !.id = calls + 1]
<1>3. /\ j \in Jobs /\ j.tool = t /\ j.id = calls + 1 /\ j.edit = "cache"
  <2>1. ASSUME NEW b \in BOOLEAN
        PROVE  /\ r(b) \in Jobs /\ r(b).tool = t /\ r(b).id = calls + 1
               /\ r(b).edit = "cache"
    BY <1>1, <1>2 DEF Jobs
  <2>2. (t \in registered) \in BOOLEAN
    OBVIOUS
  <2>3. j = r(t \in registered)
    BY Zenon DEF Started
  <2> HIDE DEF r, j
  <2> QED
    BY <2>1, <2>2, <2>3, Zenon
<1> HIDE DEF j
<1>4. [j EXCEPT !.pc = s] \in GoodJobs
  <2> DEFINE n == [j EXCEPT !.pc = s]
  <2>1. n \in Jobs /\ n.pc = s /\ n.tool = t /\ n.id = calls + 1 /\ n.edit = "cache"
    BY <1>3 DEF Jobs, Steps
  <2> QED
    BY <1>2, <2>1 DEF GoodJobs, Ready
<1>5. ASSUME NEW k \in Folders, NEW d \in SUBSET Tools
      PROVE  [j EXCEPT !.pc = "detach", !.folder = k, !.devs = d] \in GoodJobs
  <2> DEFINE n == [j EXCEPT !.pc = "detach", !.folder = k, !.devs = d]
  <2>1. /\ n \in Jobs /\ n.tool = t /\ n.id = calls + 1 /\ n.edit = "cache"
        /\ n.folder = k /\ n.pc = "detach"
    BY <1>3 DEF Jobs, Steps
  <2> QED
    BY <1>2, <2>1 DEF GoodJobs, Ready
<1> QED
  BY <1>4, <1>5 DEF j

\* cmd_switch() keeps TypeInv when it begins.
LEMMA SwitchType ==
    ASSUME TypeInv, NEW p \in Procs, NEW t \in Tools,
           NEW forced \in {"none", "dev", "publish"}, NEW opt \in Options,
           NEW explicit \in BOOLEAN, Switch(p, t, forced, opt, explicit)
    PROVE  TypeInv'
<1>1. opt \in [force : BOOLEAN, immediate : BOOLEAN]
  BY ModeAssumption
<1>2. calls < MaxCalls
  BY DEF Switch
<1>3. ASSUME SwitchDev(p, t, opt, explicit) PROVE job' \in [Procs -> GoodJobs]
  <2> DEFINE s == IF form[t] # "dir" THEN "link"
                  ELSE IF opt.force THEN "remove" ELSE "gate"
             n == [Started(t, "dev", opt) EXCEPT !.pc = s]
  <2>1. n \in GoodJobs
    BY <1>1, <1>2, StartedGood
  <2>2. job' = [job EXCEPT ![p] = n] \/ job' = [job EXCEPT ![p] = Idle]
    BY <1>3 DEF SwitchDev
  <2> QED
    BY <2>1, <2>2, IdleGood, Put DEF TypeInv
<1>4. ASSUME SwitchPublish(p, t, opt) PROVE job' \in [Procs -> GoodJobs]
  <2> DEFINE n == [Started(t, "publish", opt) EXCEPT !.pc = "load"]
             m == [Started(t, "publish", opt) EXCEPT !.pc = "load", !.edit = "cache"]
  <2>1. n \in GoodJobs
    BY <1>1, <1>2, StartedGood
  <2>2. m = n
    <3>1. Idle.edit = "cache" /\ Idle \in Jobs
      BY IdleGood DEF Idle, GoodJobs
    <3> QED
      BY <3>1 DEF Started, Jobs
  <2>3. job' = [job EXCEPT ![p] = m] \/ job' = [job EXCEPT ![p] = Idle]
    BY <1>4 DEF SwitchPublish
  <2> QED
    BY <2>1, <2>2, <2>3, IdleGood, Put DEF TypeInv
<1>5. job' \in [Procs -> GoodJobs]
  <2>1. SwitchDev(p, t, opt, explicit) \/ SwitchPublish(p, t, opt)
    BY DEF Switch
  <2> QED
    BY <1>3, <1>4, <2>1
<1>6. CountOK'
  BY <1>2, ModeAssumption DEF Switch, TypeInv, CountOK
<1> QED
  BY <1>5, <1>6, StillTree, StillFile, StillHist DEF Switch, TypeInv

\* cmd_restore() keeps TypeInv when it begins.
LEMMA RestoreType ==
    ASSUME TypeInv, NEW p \in Procs, NEW t \in Tools, Restore(p, t)
    PROVE  TypeInv'
<1> DEFINE o == Load.origin[t]
           m == [Started(t, "publish", Idle.opt) EXCEPT !.pc = "load"]
           n == [Started(t, "restore", Idle.opt) EXCEPT
                   !.pc = "detach", !.folder = o.folder, !.devs = Load.dev]
<1>1. calls < MaxCalls
  BY DEF Restore
<1>2. Idle.opt \in [force : BOOLEAN, immediate : BOOLEAN]
  BY DEF Idle
<1>3. Load \in Configs
  BY LoadTyped DEF TypeInv
<1>4. Load.dev \subseteq Tools /\ o \in Origins \cup {None}
  BY <1>3 DEF Configs
<1>5. m \in GoodJobs
  BY <1>1, <1>2, StartedGood
<1>6. o # None /\ o.folder # None => n \in GoodJobs
  <2>1. o # None /\ o.folder # None => o.folder \in Folders
    BY <1>4 DEF Origins
  <2> QED
    BY <1>1, <1>2, <1>4, <2>1, StartedGood
<1>7. \/ job' = [job EXCEPT ![p] = Idle]
      \/ job' = [job EXCEPT ![p] = m]
      \/ o # None /\ o.folder # None /\ job' = [job EXCEPT ![p] = n]
  BY DEF Restore
<1>8. job' \in [Procs -> GoodJobs]
  BY <1>5, <1>6, <1>7, IdleGood, Put DEF TypeInv
<1>9. CountOK'
  BY <1>1, ModeAssumption DEF Restore, TypeInv, CountOK
<1> QED
  BY <1>8, <1>9, StillTree, StillFile, StillHist DEF Restore, TypeInv

\* The gate before a removal keeps TypeInv.
LEMMA GateType == ASSUME TypeInv, NEW p \in Procs, Gate(p) PROVE TypeInv'
<1>1. [job[p] EXCEPT !.pc = "remove"] \in GoodJobs
  BY JobAt, GotoGood DEF Gate, At, Steps
<1>2. job' = [job EXCEPT ![p] = [job[p] EXCEPT !.pc = "remove"]]
        \/ job' = [job EXCEPT ![p] = Idle]
  BY DEF Gate, Goto, Return
<1>3. job' \in [Procs -> GoodJobs]
  BY <1>1, <1>2, IdleGood, Put DEF TypeInv
<1>4. CountOK'
  BY CountKept DEF Gate, TypeInv, FaultSites
<1> QED
  BY <1>3, <1>4, StillTree, StillFile, StillHist DEF Gate, TypeInv

\* Replacing what is at one tool's path keeps the types of the tree.
LEMMA Placed ==
    ASSUME TreeOK, NEW t \in Tools, NEW f \in {"dir", "link", "none"},
           NEW b \in Bodies \cup {None}, f = "dir" => b # None,
           form' = [form EXCEPT ![t] = f], body' = [body EXCEPT ![t] = b]
    PROVE  /\ form' \in [Tools -> {"dir", "link", "none"}]
           /\ body' \in [Tools -> Bodies \cup {None}]
           /\ \A u \in Tools : form'[u] = "dir" => body'[u] # None
  BY DEF TreeOK

\* rmtree() keeps TypeInv.
LEMMA RemoveNowType == ASSUME TypeInv, NEW p \in Procs, RemoveNow(p) PROVE TypeInv'
<1> DEFINE t == job[p].tool
           n == [job[p] EXCEPT !.pc = Onward(p), !.removed = TRUE]
           m == [job[p] EXCEPT !.pc = Onward(p), !.removed = TRUE,
                               !.folder = job[p].folder]
<1>1. /\ job[p] \in GoodJobs /\ job[p] \in Jobs /\ job[p].pc = "remove" /\ t \in Tools
      /\ job[p].folder \in Folders \cup {None}
  BY JobAt DEF RemoveNow, At, Ready, Jobs
<1>2. Onward(p) \in {"link", "git"}
  BY DEF Onward
<1>3. m \in GoodJobs
  BY <1>1, <1>2, RemovedGood
<1>4. n = m
  BY <1>1 DEF Jobs
<1>5. job' = [job EXCEPT ![p] = n]
  BY DEF RemoveNow
<1>6. job' \in [Procs -> GoodJobs]
  BY <1>3, <1>4, <1>5, Put DEF TypeInv
<1>7. TreeOK'
  BY <1>1, Placed DEF RemoveNow, Empty, TypeInv, TreeOK
<1>8. HistOK'
  <2>1. body[t] \in Bodies
    BY <1>1 DEF RemoveNow, TypeInv, TreeOK
  <2> QED
    BY <1>1, <2>1 DEF RemoveNow, GivenUpBy, TypeInv, HistOK
<1>9. CountOK'
  BY CountKept DEF RemoveNow, TypeInv, FaultSites
<1> QED
  BY <1>6, <1>7, <1>8, <1>9, StillFile DEF RemoveNow, TypeInv

\* An rmtree() that raises keeps TypeInv.
LEMMA RmtreeFailsType ==
    ASSUME TypeInv, NEW p \in Procs, RmtreeFails(p) PROVE TypeInv'
<1> DEFINE t == job[p].tool
<1>1. t \in Tools
  BY JobAt DEF RmtreeFails, At, Ready
<1>2. job' \in [Procs -> GoodJobs]
  BY IdleGood, Put DEF RmtreeFails, Return, TypeInv
<1>3. body[t] \in Bodies /\ form[t] = "dir" /\ "rest" \in Bodies \ {None}
  BY <1>1, ModeAssumption DEF RmtreeFails, TypeInv, TreeOK, Bodies
<1>4. \/ UNCHANGED <<body, discarded>>
      \/ /\ body' = [body EXCEPT ![t] = "rest"]
         /\ discarded' = discarded \cup GivenUpBy(p)
  BY DEF RmtreeFails
<1>5. UNCHANGED <<form, dev, registered, trash, made>>
  BY DEF RmtreeFails
<1>6. TreeOK'
  BY <1>1, <1>3, <1>4, <1>5 DEF TypeInv, TreeOK
<1>7. HistOK'
  BY <1>1, <1>3, <1>4, <1>5 DEF GivenUpBy, TypeInv, HistOK
<1>8. CountOK'
  BY CountKept DEF RmtreeFails, TypeInv, FaultSites
<1> QED
  BY <1>2, <1>6, <1>7, <1>8, StillFile DEF RmtreeFails, TypeInv

\* trash() keeps TypeInv.
LEMMA RemoveToTrashType ==
    ASSUME TypeInv, NEW p \in Procs, RemoveToTrash(p) PROVE TypeInv'
<1> DEFINE t == job[p].tool
           n == [job[p] EXCEPT !.pc = Onward(p), !.removed = TRUE,
                               !.folder = job[p].id]
<1>1. /\ job[p] \in GoodJobs /\ job[p].pc = "remove" /\ t \in Tools
      /\ job[p].id \in Folders
  BY JobAt DEF RemoveToTrash, At, Ready
<1>2. Onward(p) \in {"link", "git"}
  BY DEF Onward
<1>3. n \in GoodJobs
  BY <1>1, <1>2, RemovedGood
<1>4. job' = [job EXCEPT ![p] = n]
  BY DEF RemoveToTrash
<1>5. job' \in [Procs -> GoodJobs]
  BY <1>3, <1>4, Put DEF TypeInv
<1>6. TreeOK'
  <2>1. [tool |-> t, body |-> body[t], listed |-> TRUE] \in Backups
    BY <1>1 DEF TypeInv, TreeOK, Backups
  <2>2. trash' \in [Folders -> Backups \cup {None}]
    BY <2>1, <1>1 DEF RemoveToTrash, TypeInv, TreeOK
  <2>3. /\ form' \in [Tools -> {"dir", "link", "none"}]
        /\ body' \in [Tools -> Bodies \cup {None}]
        /\ \A u \in Tools : form'[u] = "dir" => body'[u] # None
    <3>1. CASE Empty(t)
      BY <1>1, <3>1, Placed DEF Empty, TypeInv
    <3>2. CASE UNCHANGED form /\ body' = [body EXCEPT ![t] = "rest"]
      <4>1. "rest" \in Bodies /\ "rest" # None
        BY ModeAssumption DEF Bodies
      <4> QED
        BY <1>1, <3>2, <4>1 DEF TypeInv, TreeOK
    <3> QED
      BY <3>1, <3>2 DEF RemoveToTrash
  <2> QED
    BY <2>2, <2>3 DEF RemoveToTrash, TypeInv, TreeOK
<1>7. CountOK'
  BY CountKept DEF RemoveToTrash, TypeInv, FaultSites
<1> QED
  BY <1>5, <1>6, <1>7, StillFile, StillHist DEF RemoveToTrash, TypeInv

\* A removal that fails keeps TypeInv.
LEMMA RemoveFailsType ==
    ASSUME TypeInv, NEW p \in Procs, RemoveFails(p) PROVE TypeInv'
<1> DEFINE t == job[p].tool
<1>1. t \in Tools /\ job[p].id \in Folders
  BY JobAt DEF RemoveFails, At, Ready
<1>2. job' \in [Procs -> GoodJobs]
  BY IdleGood, Put DEF RemoveFails, Return, TypeInv
<1>3. [tool |-> t, body |-> body[t], listed |-> FALSE] \in Backups
  BY <1>1 DEF TypeInv, TreeOK, Backups
<1>4. ASSUME UNCHANGED tree PROVE TreeOK'
  BY <1>4, StillTree DEF TypeInv
<1>5. ASSUME Empty(t), UNCHANGED <<dev, registered>>,
             trash' = [trash EXCEPT ![job[p].id] =
                         [tool |-> t, body |-> body[t], listed |-> FALSE]]
      PROVE  TreeOK'
  <2>1. trash' \in [Folders -> Backups \cup {None}]
    BY <1>1, <1>3, <1>5 DEF TypeInv, TreeOK
  <2> QED
    BY <1>1, <1>5, <2>1, Placed DEF Empty, TypeInv, TreeOK
<1>6. TreeOK'
  BY <1>4, <1>5 DEF RemoveFails
<1>7. CountOK'
  BY CountKept DEF RemoveFails, TypeInv, FaultSites
<1> QED
  BY <1>2, <1>6, <1>7, StillFile, StillHist DEF RemoveFails, TypeInv

\* create_link() keeps TypeInv.
LEMMA LinkType == ASSUME TypeInv, NEW p \in Procs, Link(p) PROVE TypeInv'
<1> DEFINE t == job[p].tool
           n == [job[p] EXCEPT !.pc = "peek", !.edit = "remember"]
           m == [job[p] EXCEPT !.pc = "peek", !.edit = "remember", !.devs = job[p].devs]
<1>1. /\ job[p] \in GoodJobs /\ job[p] \in Jobs /\ job[p].pc = "link" /\ t \in Tools
      /\ job[p].devs \in SUBSET Tools
  BY JobAt DEF Link, At, Ready, Jobs
<1>2. m \in GoodJobs
  BY <1>1, EditGood DEF Edits
<1>3. m = n
  BY <1>1 DEF Jobs
<1>4. job' = [job EXCEPT ![p] = n] \/ job' = [job EXCEPT ![p] = Idle]
  BY DEF Link, Return
<1>5. job' \in [Procs -> GoodJobs]
  BY <1>2, <1>3, <1>4, IdleGood, Put DEF TypeInv
<1>6. TreeOK'
  BY <1>1 DEF Link, TypeInv, TreeOK
<1>7. CountOK'
  BY CountKept DEF Link, TypeInv, FaultSites
<1> QED
  BY <1>5, <1>6, <1>7, StillFile, StillHist DEF Link, TypeInv

\* _switch_to_publish() keeps TypeInv.
LEMMA PublishType == ASSUME TypeInv, NEW p \in Procs, Publish(p) PROVE TypeInv'
<1>1. /\ job[p] \in GoodJobs /\ job[p].pc = "publish" /\ job[p].tool \in Tools
  BY JobAt DEF Publish, At, Ready
<1>2. \A s \in {"git", "remove", "gate"} : [job[p] EXCEPT !.pc = s] \in GoodJobs
  BY <1>1, GotoGood DEF Steps
<1>3. \/ job' = [job EXCEPT ![p] = Idle]
      \/ \E s \in {"git", "remove", "gate"} :
            job' = [job EXCEPT ![p] = [job[p] EXCEPT !.pc = s]]
  BY DEF Publish, Return, Goto
<1>4. job' \in [Procs -> GoodJobs]
  BY <1>2, <1>3, IdleGood, Put DEF TypeInv
<1>5. TreeOK'
  BY <1>1 DEF Publish, TypeInv, TreeOK
<1>6. CountOK'
  BY CountKept DEF Publish, TypeInv, FaultSites
<1> QED
  BY <1>4, <1>5, <1>6, StillFile, StillHist DEF Publish, TypeInv

\* What follows git and recover_folder(): the origin is cleared.
LEMMA ClearGood ==
    ASSUME NEW j \in GoodJobs, j.pc # "idle"
    PROVE  [j EXCEPT !.pc = "load", !.edit = "clear"] \in GoodJobs
<1>1. j \in Jobs /\ j.devs \in SUBSET Tools
  BY DEF GoodJobs, Jobs
<1>2. [j EXCEPT !.pc = "load", !.edit = "clear", !.devs = j.devs] \in GoodJobs
  BY <1>1, EditGood DEF Edits
<1>3. [j EXCEPT !.pc = "load", !.edit = "clear", !.devs = j.devs]
        = [j EXCEPT !.pc = "load", !.edit = "clear"]
  BY <1>1 DEF Jobs
<1> QED
  BY <1>2, <1>3

\* git submodule add or update keeps TypeInv.
LEMMA GitType == ASSUME TypeInv, NEW p \in Procs, Git(p) PROVE TypeInv'
<1> DEFINE t == job[p].tool
           n == [job[p] EXCEPT !.pc = "load", !.edit = "clear"]
<1>1. job[p] \in GoodJobs /\ job[p].pc = "git" /\ t \in Tools
  BY JobAt DEF Git, At, Ready
<1>2. n \in GoodJobs
  BY <1>1, ClearGood
<1>3. job' = [job EXCEPT ![p] = n] \/ job' = [job EXCEPT ![p] = Idle]
  BY DEF Git, Return
<1>4. job' \in [Procs -> GoodJobs]
  BY <1>2, <1>3, IdleGood, Put DEF TypeInv
<1>5. \A b \in {"clone", "rest"} : b \in Bodies /\ b # None
  BY ModeAssumption DEF Bodies
<1>6. /\ form' \in [Tools -> {"dir", "link", "none"}]
      /\ body' \in [Tools -> Bodies \cup {None}]
      /\ \A u \in Tools : form'[u] = "dir" => body'[u] # None
  <2>1. CASE UNCHANGED <<form, body>>
    BY <2>1 DEF TypeInv, TreeOK
  <2>2. CASE /\ form' = [form EXCEPT ![t] = "dir"]
             /\ body' = [body EXCEPT ![t] = IF form[t] = "dir" THEN @ ELSE "clone"]
    <3> DEFINE b == IF form[t] = "dir" THEN body[t] ELSE "clone"
    <3>1. b \in Bodies \cup {None} /\ b # None
      BY <1>1, <1>5 DEF TypeInv, TreeOK
    <3>2. body' = [body EXCEPT ![t] = b]
      BY <2>2
    <3> HIDE DEF b
    <3> QED
      BY <1>1, <2>2, <3>1, <3>2, Placed DEF TypeInv
  <2>3. CASE /\ form' = [form EXCEPT ![t] = "dir"]
             /\ body' = [body EXCEPT ![t] = "rest"]
    BY <1>1, <1>5, <2>3, Placed DEF TypeInv
  <2> QED
    BY <2>1, <2>2, <2>3 DEF Git
<1>7. TreeOK'
  BY <1>1, <1>6 DEF Git, TypeInv, TreeOK
<1>8. CountOK'
  BY CountKept DEF Git, TypeInv, FaultSites
<1> QED
  BY <1>4, <1>7, <1>8, StillFile, StillHist DEF Git, TypeInv

\* remove_link() before the recovery keeps TypeInv.
LEMMA DetachType == ASSUME TypeInv, NEW p \in Procs, Detach(p) PROVE TypeInv'
<1>1. /\ job[p] \in GoodJobs /\ job[p].pc = "detach" /\ job[p].tool \in Tools
      /\ job[p].folder \in Folders
  BY JobAt DEF Detach, At, Ready
<1>2. [job[p] EXCEPT !.pc = "recover"] \in GoodJobs
  BY <1>1, GotoGood DEF Steps
<1>3. \/ job' = [job EXCEPT ![p] = Idle]
      \/ job' = [job EXCEPT ![p] = [job[p] EXCEPT !.pc = "recover"]]
  BY DEF Detach, Return, Goto
<1>4. job' \in [Procs -> GoodJobs]
  BY <1>2, <1>3, IdleGood, Put DEF TypeInv
<1>5. TreeOK'
  BY <1>1 DEF Detach, TypeInv, TreeOK
<1>6. CountOK'
  BY CountKept DEF Detach, TypeInv, FaultSites
<1> QED
  BY <1>4, <1>5, <1>6, StillFile, StillHist DEF Detach, TypeInv

\* Putting a backup, or a part of it, at an empty path keeps the types.
LEMMA Filled ==
    ASSUME TreeOK, NEW t \in Tools, NEW b \in Bodies \cup {None},
           form' = [form EXCEPT ![t] = IF b = None THEN "link" ELSE "dir"],
           body' = [body EXCEPT ![t] = b]
    PROVE  /\ form' \in [Tools -> {"dir", "link", "none"}]
           /\ body' \in [Tools -> Bodies \cup {None}]
           /\ \A u \in Tools : form'[u] = "dir" => body'[u] # None
<1> DEFINE f == IF b = None THEN "link" ELSE "dir"
<1>1. f \in {"dir", "link", "none"} /\ (f = "dir" => b # None)
  OBVIOUS
<1>2. form' = [form EXCEPT ![t] = f]
  OBVIOUS
<1> HIDE DEF f
<1> QED
  BY <1>1, <1>2, Placed

\* recover_folder() keeps TypeInv.
LEMMA RecoverType == ASSUME TypeInv, NEW p \in Procs, Recover(p) PROVE TypeInv'
<1> DEFINE t == job[p].tool
           k == job[p].folder
           Fill(b) == /\ form' = [form EXCEPT ![t] = IF b = None THEN "link" ELSE "dir"]
                      /\ body' = [body EXCEPT ![t] = b]
<1>1. /\ job[p] \in GoodJobs /\ job[p].pc = "recover" /\ t \in Tools /\ k \in Folders
  BY JobAt DEF Recover, At, Ready
<1>2. /\ [job[p] EXCEPT !.pc = "load", !.edit = "clear"] \in GoodJobs
      /\ [job[p] EXCEPT !.pc = "relink"] \in GoodJobs
  BY <1>1, ClearGood, GotoGood DEF Steps
<1>3. \/ job' = [job EXCEPT ![p] = [job[p] EXCEPT !.pc = "load", !.edit = "clear"]]
      \/ job' = [job EXCEPT ![p] = [job[p] EXCEPT !.pc = "relink"]]
  BY DEF Recover, Goto
<1>4. job' \in [Procs -> GoodJobs]
  BY <1>2, <1>3, Put DEF TypeInv
<1>5. \/ UNCHANGED <<form, body>>
      \/ Fill("rest")
      \/ trash[k] # None /\ Fill(trash[k].body)
  BY DEF Recover
<1>6. trash[k] # None => trash[k].body \in Bodies \cup {None}
  BY <1>1 DEF TypeInv, TreeOK, Backups
<1>7. "rest" \in Bodies
  BY DEF Bodies
<1>8. /\ form' \in [Tools -> {"dir", "link", "none"}]
      /\ body' \in [Tools -> Bodies \cup {None}]
      /\ \A u \in Tools : form'[u] = "dir" => body'[u] # None
  <2>1. CASE UNCHANGED <<form, body>>
    BY <2>1 DEF TypeInv, TreeOK
  <2>2. CASE Fill("rest")
    BY <1>1, <1>7, <2>2, Filled DEF TypeInv
  <2>3. CASE trash[k] # None /\ Fill(trash[k].body)
    BY <1>1, <1>6, <2>3, Filled DEF TypeInv
  <2> QED
    BY <1>5, <2>1, <2>2, <2>3
<1>9. trash' \in [Folders -> Backups \cup {None}]
  <2>1. trash' = trash \/ trash' = [trash EXCEPT ![k] = None]
    BY DEF Recover
  <2> QED
    BY <1>1, <2>1 DEF TypeInv, TreeOK
<1>10. TreeOK'
  BY <1>8, <1>9 DEF Recover, TypeInv, TreeOK
<1>11. CountOK'
  BY CountKept DEF Recover, TypeInv, FaultSites
<1> QED
  BY <1>4, <1>10, <1>11, StillFile, StillHist DEF Recover, TypeInv

\* The rollback keeps TypeInv.
LEMMA RelinkType == ASSUME TypeInv, NEW p \in Procs, Relink(p) PROVE TypeInv'
<1>1. job[p].tool \in Tools
  BY JobAt DEF Relink, At, Ready
<1>2. job' \in [Procs -> GoodJobs]
  BY IdleGood, Put DEF Relink, Return, TypeInv
<1>3. TreeOK'
  BY <1>1 DEF Relink, TypeInv, TreeOK
<1>4. CountOK'
  BY CountKept DEF Relink, TypeInv, FaultSites
<1> QED
  BY <1>2, <1>3, <1>4, StillFile, StillHist DEF Relink, TypeInv

\* load_local_config() keeps TypeInv.
LEMMA PeekType == ASSUME TypeInv, NEW p \in Procs, Peek(p) PROVE TypeInv'
<1> DEFINE t == job[p].tool
           d == IF job[p].edit = "forget" THEN Load.dev \ {t} ELSE Load.dev \cup {t}
           n == [job[p] EXCEPT !.pc = "load", !.devs = d]
           m == [job[p] EXCEPT !.pc = "load", !.edit = job[p].edit, !.devs = d]
<1>1. /\ job[p] \in GoodJobs /\ job[p] \in Jobs /\ job[p].pc = "peek" /\ t \in Tools
      /\ job[p].edit \in Edits /\ Ready(job[p])
  BY JobAt DEF Peek, At, Ready, Jobs
<1>2. d \in SUBSET Tools
  BY <1>1, LoadTyped DEF TypeInv, Configs
<1>3. m = n
  BY <1>1 DEF Jobs
<1>4. job' = [job EXCEPT ![p] = n] \/ job' = [job EXCEPT ![p] = Idle]
  BY DEF Peek
<1> HIDE DEF d
<1>5. m \in GoodJobs
  BY <1>1, <1>2, EditGood DEF Ready
<1>6. job' \in [Procs -> GoodJobs]
  BY <1>3, <1>4, <1>5, IdleGood, Put DEF TypeInv
<1>7. CountOK'
  BY CountKept DEF Peek, TypeInv, Granted
<1> QED
  BY <1>6, <1>7, StillTree, StillFile, StillHist DEF Peek, TypeInv

\* Reading mode_local.json keeps TypeInv.
LEMMA LoadConfigType ==
    ASSUME TypeInv, NEW p \in Procs, LoadConfig(p) PROVE TypeInv'
<1> DEFINE j == job[p]
           c == Edited(Load, j)
           n == [j EXCEPT !.pc = "trunc", !.mem = c]
<1>1. j \in GoodJobs /\ j \in Jobs /\ j.pc = "load" /\ Ready(j)
  BY JobAt DEF LoadConfig, At
<1>2. c \in Configs
  BY <1>1, LoadTyped, EditedTyped DEF TypeInv
<1>3. job' = [job EXCEPT ![p] = n] \/ job' = [job EXCEPT ![p] = Then(j)]
  BY DEF LoadConfig
<1> HIDE DEF c
<1>4. n \in GoodJobs
  <2>1. /\ n \in Jobs /\ n.pc = "trunc" /\ n.tool = j.tool /\ n.id = j.id
        /\ n.edit = j.edit /\ n.prior = j.prior
    BY <1>1, <1>2 DEF Jobs, Steps
  <2> QED
    BY <1>1, <2>1 DEF GoodJobs, Ready
<1>5. job' \in [Procs -> GoodJobs]
  BY <1>1, <1>3, <1>4, ThenGood, Put DEF TypeInv
<1>6. CountOK'
  BY CountKept DEF LoadConfig, TypeInv, Granted
<1> QED
  BY <1>5, <1>6, StillTree, StillFile, StillHist DEF LoadConfig, TypeInv

\* Opening mode_local.json for writing keeps TypeInv.
LEMMA TruncateType ==
    ASSUME TypeInv, NEW p \in Procs, Truncate(p) PROVE TypeInv'
<1>1. job[p] \in GoodJobs /\ job[p].pc = "trunc"
  BY JobAt DEF Truncate, At
<1>2. [job[p] EXCEPT !.pc = "write"] \in GoodJobs /\ Then(job[p]) \in GoodJobs
  BY <1>1, GotoGood, ThenGood DEF Steps
<1>3. \/ job' = [job EXCEPT ![p] = [job[p] EXCEPT !.pc = "write"]]
      \/ job' = [job EXCEPT ![p] = Then(job[p])]
  BY DEF Truncate, Goto
<1>4. job' \in [Procs -> GoodJobs]
  BY <1>2, <1>3, Put DEF TypeInv
<1>5. CountOK'
  BY CountKept DEF Truncate, TypeInv, FaultSites
<1>6. FileOK'
  BY DEF Truncate, TypeInv, FileOK
<1> QED
  BY <1>4, <1>5, <1>6, StillTree, StillHist DEF Truncate, TypeInv

\* Writing mode_local.json keeps TypeInv.
LEMMA WriteType == ASSUME TypeInv, NEW p \in Procs, Write(p) PROVE TypeInv'
<1>1. job[p] \in GoodJobs /\ job[p] \in Jobs /\ job[p].pc = "write"
  BY JobAt DEF Write, At
<1>2. job' \in [Procs -> GoodJobs]
  BY <1>1, ThenGood, Put DEF Write, TypeInv
<1>3. FileOK'
  BY <1>1 DEF Write, TypeInv, FileOK, Jobs
<1>4. CountOK'
  BY CountKept DEF Write, TypeInv, FaultSites
<1> QED
  BY <1>2, <1>3, <1>4, StillTree, StillHist DEF Write, TypeInv

\* What users do, and a kill, keep TypeInv.
LEMMA WorldType ==
    ASSUME TypeInv, World \/ \E p \in Procs : Crash(p) PROVE TypeInv'
<1>1. ASSUME NEW t \in Tools, Edit(t) PROVE TypeInv'
  <2>1. "edits" \in Bodies /\ "edits" # None
    BY ModeAssumption DEF Bodies
  <2>2. TreeOK'
    BY <1>1, <2>1 DEF Edit, TypeInv, TreeOK
  <2>3. CountOK'
    BY <1>1, ModeAssumption DEF Edit, May, TypeInv, CountOK
  <2>4. HistOK'
    BY <1>1, <2>1 DEF Edit, TypeInv, HistOK
  <2> QED
    BY <1>1, <2>2, <2>3, <2>4, StillFile DEF Edit, TypeInv
<1>2. ASSUME NEW t \in Tools, LoseDev(t) PROVE TypeInv'
  <2>1. TreeOK'
    BY <1>2 DEF LoseDev, TypeInv, TreeOK
  <2>2. CountOK'
    BY <1>2, ModeAssumption DEF LoseDev, May, TypeInv, CountOK
  <2> QED
    BY <1>2, <2>1, <2>2, StillFile, StillHist DEF LoseDev, TypeInv
<1>3. ASSUME NEW k \in Folders, Clean(k) PROVE TypeInv'
  <2>1. trash[k] \in Backups
    BY <1>3 DEF Clean, TypeInv, TreeOK
  <2>2. TreeOK'
    BY <1>3 DEF Clean, TypeInv, TreeOK
  <2>3. CountOK'
    BY <1>3, ModeAssumption DEF Clean, May, TypeInv, CountOK
  <2>4. HistOK'
    BY <1>3, <2>1 DEF Clean, TypeInv, HistOK, Backups
  <2> QED
    BY <1>3, <2>2, <2>3, <2>4, StillFile DEF Clean, TypeInv
<1>4. ASSUME NEW k \in Folders, RecoverByHand(k) PROVE TypeInv'
  <2>1. trash[k].tool \in Tools /\ trash[k].body \in Bodies \cup {None}
    BY <1>4 DEF RecoverByHand, TypeInv, TreeOK, Backups
  <2>2. /\ form' \in [Tools -> {"dir", "link", "none"}]
        /\ body' \in [Tools -> Bodies \cup {None}]
        /\ \A u \in Tools : form'[u] = "dir" => body'[u] # None
    BY <1>4, <2>1, Filled DEF RecoverByHand, TypeInv
  <2>3. TreeOK'
    BY <1>4, <2>2 DEF RecoverByHand, TypeInv, TreeOK
  <2>4. CountOK'
    BY <1>4, ModeAssumption DEF RecoverByHand, May, TypeInv, CountOK
  <2> QED
    BY <1>4, <2>3, <2>4, StillFile, StillHist DEF RecoverByHand, TypeInv
<1>5. ASSUME NEW p \in Procs, Crash(p) PROVE TypeInv'
  <2>1. job' \in [Procs -> GoodJobs]
    BY <1>5, IdleGood, Put DEF Crash, Return, TypeInv
  <2>2. CountOK'
    BY <1>5, ModeAssumption DEF Crash, TypeInv, CountOK
  <2> QED
    BY <1>5, <2>1, <2>2, StillTree, StillFile, StillHist DEF Crash, TypeInv
<1> QED
  BY <1>1, <1>2, <1>3, <1>4, <1>5 DEF World

\* Every step keeps TypeInv.
LEMMA TypeInvNext == TypeInv /\ [Next]_vars => TypeInv'
<1> SUFFICES ASSUME TypeInv, [Next]_vars PROVE TypeInv'
  OBVIOUS
<1>1. ASSUME NEW p \in Procs, Begin(p) PROVE TypeInv'
  BY <1>1, SwitchType, RestoreType DEF Begin
<1>2. ASSUME NEW p \in Procs, Proceed(p) PROVE TypeInv'
  BY <1>2, GateType, RemoveNowType, RmtreeFailsType, RemoveToTrashType,
     RemoveFailsType, LinkType,
     PublishType, GitType, DetachType, RecoverType, RelinkType, PeekType,
     LoadConfigType, TruncateType, WriteType DEF Proceed
<1>3. CASE World \/ \E p \in Procs : Crash(p)
  BY <1>3, WorldType
<1>4. CASE UNCHANGED vars
  BY <1>4 DEF vars, TypeInv, TreeOK, FileOK, CountOK, HistOK
<1> QED
  BY <1>1, <1>2, <1>3, <1>4 DEF Next

\* The initial states satisfy TypeInv.
LEMMA TypeInvInit == Init => TypeInv
<1> SUFFICES ASSUME Init PROVE TypeInv
  OBVIOUS
<1>1. "own" \in Bodies /\ "clone" \in Bodies /\ "own" # None /\ "clone" # None
  BY ModeAssumption DEF Bodies
<1>2. \A t \in Tools : InitState[t] \in {"embedded", "submodule", "local_only"}
  BY ModeAssumption
<1>3. TreeOK
  <2>1. body \in [Tools -> Bodies \cup {None}]
    BY <1>1, <1>2 DEF Init
  <2>2. \A t \in Tools : form[t] = "dir" => body[t] # None
    BY <1>1, <1>2 DEF Init
  <2> QED
    BY <1>2, <2>1, <2>2 DEF Init, TreeOK
<1>4. FileOK
  BY NoConfigTyped DEF Init, FileOK
<1>5. CountOK
  BY ModeAssumption DEF Init, CountOK
<1>6. HistOK
  BY <1>1 DEF Init, HistOK
<1>7. job \in [Procs -> GoodJobs]
  BY IdleGood DEF Init
<1> QED
  BY <1>3, <1>4, <1>5, <1>6, <1>7 DEF TypeInv

\* Every variable keeps its type: the tree, the trash, mode_local.json and what
\* the commands of mode.py hold, under every interleaving, error and kill.
THEOREM TypeCorrect == Spec => []TypeOK
<1>1. Init => TypeInv
  BY TypeInvInit
<1>2. TypeInv /\ [Next]_vars => TypeInv'
  BY TypeInvNext
<1>3. TypeInv => TypeOK
  BY DEF TypeInv, TreeOK, FileOK, CountOK, HistOK, TypeOK, GoodJobs
<1> QED
  BY <1>1, <1>2, <1>3, PTL DEF Spec

-----------------------------------------------------------------------------
(* Who owns a backup *)

\* The command may still move something to the trash, under the name it chose.
Pending(j) == \/ j.pc \in {"gate", "remove", "publish"}
              \/ j.pc \in {"load", "trunc", "write"} /\ j.edit = "cache"

\* The folders of each tool that no command will fill any more: what they hold,
\* if they still hold something, is of that tool.
mine == [t \in Tools |->
           {k \in Folders : /\ k <= calls
                            /\ \A q \in Procs : Pending(job[q]) => job[q].id # k
                            /\ trash[k] # None => trash[k].tool = t}]

\* The folders that a configuration and a command name are their tools'.
OriginsIn(c, m) ==
    \A t \in Tools : c.origin[t] # None => c.origin[t].folder \in m[t] \cup {None}
OwnIn(j, m) == /\ j.folder # None => j.tool \in Tools /\ j.folder \in m[j.tool]
               /\ OriginsIn(j.mem, m)

IdsDistinct == \A p, q \in Procs :
    p # q /\ Pending(job[p]) /\ Pending(job[q]) => job[p].id # job[q].id
IdsFree == \A p \in Procs :
    Pending(job[p]) => job[p].id <= calls /\ trash[job[p].id] = None
Unused == \A k \in Folders : k > calls => trash[k] = None

\* No two commands put their backups in one folder, and every recorded folder
\* holds, if anything, what its tool held.
NamesInv == /\ IdsDistinct /\ IdsFree /\ Unused
            /\ OriginsIn(config, mine)
            /\ \A p \in Procs : OwnIn(job[p], mine)

\* A command between two commands names no folder.
LEMMA IdleOwn == \A m : OwnIn(Idle, m) /\ ~Pending(Idle)
<1>1. Idle.folder = None /\ Idle.mem = NoConfig /\ Idle.pc = "idle"
  BY DEF Idle
<1>2. \A t \in Tools : NoConfig.origin[t] = None
  BY DEF NoConfig
<1> QED
  BY <1>1, <1>2 DEF OwnIn, OriginsIn, Pending

\* Nothing is lost where every tool keeps its folders.
LEMMA OwnGrows ==
    ASSUME NEW m, NEW n, \A t \in Tools : m[t] \subseteq n[t]
    PROVE  /\ \A c : OriginsIn(c, m) => OriginsIn(c, n)
           /\ \A j : OwnIn(j, m) => OwnIn(j, n)
<1>1. ASSUME NEW c, OriginsIn(c, m) PROVE OriginsIn(c, n)
  BY <1>1 DEF OriginsIn
<1>2. ASSUME NEW j, OwnIn(j, m) PROVE OwnIn(j, n)
  BY <1>1, <1>2 DEF OwnIn
<1> QED
  BY <1>1, <1>2

\* A step that fills no folder, begins no command, and names no folder that was
\* not its tool's keeps NamesInv.
LEMMA QuietNames ==
    ASSUME NamesInv, TypeInv, calls' = calls,
           \A k \in Folders : trash'[k] \in {trash[k], None},
           \A q \in Procs : /\ Pending(job'[q]) => Pending(job[q]) /\ job'[q].id = job[q].id
                            /\ OwnIn(job'[q], mine),
           OriginsIn(config', mine)
    PROVE  NamesInv'
<1>1. \A t \in Tools : mine[t] \subseteq mine'[t]
  BY DEF mine
<1>2. OriginsIn(config', mine') /\ \A p \in Procs : OwnIn(job'[p], mine')
  BY <1>1, OwnGrows
<1>3. IdsDistinct'
  BY DEF NamesInv, IdsDistinct
<1>4. IdsFree'
  <2> SUFFICES ASSUME NEW p \in Procs, Pending(job'[p])
               PROVE  job'[p].id <= calls' /\ trash'[job'[p].id] = None
    BY DEF IdsFree
  <2>1. Pending(job[p]) /\ job'[p].id = job[p].id
    OBVIOUS
  <2>2. job[p].id \in Folders
    BY <2>1, JobAt DEF Pending, Ready
  <2> QED
    BY <2>1, <2>2 DEF NamesInv, IdsFree
<1>5. Unused'
  BY DEF NamesInv, Unused
<1> QED
  BY <1>2, <1>3, <1>4, <1>5 DEF NamesInv

\* The same of a step of one process that leaves mode_local.json alone.
LEMMA StepNames ==
    ASSUME NamesInv, TypeInv, calls' = calls, config' = config,
           \A k \in Folders : trash'[k] \in {trash[k], None},
           NEW p \in Procs, \A q \in Procs \ {p} : job'[q] = job[q],
           Pending(job'[p]) => Pending(job[p]) /\ job'[p].id = job[p].id,
           OwnIn(job'[p], mine)
    PROVE  NamesInv'
<1>1. \A q \in Procs : /\ Pending(job'[q]) => Pending(job[q]) /\ job'[q].id = job[q].id
                       /\ OwnIn(job'[q], mine)
  BY DEF NamesInv
<1>2. OriginsIn(config', mine)
  BY DEF NamesInv
<1> QED
  BY <1>1, <1>2, QuietNames

\* A backup goes into the folder its command chose, which no other command
\* fills, and which is its tool's from then on.
LEMMA StowNames ==
    ASSUME NamesInv, TypeInv, calls' = calls, config' = config,
           NEW p \in Procs, At(p, "remove"), NEW b \in Backups,
           b.tool = job[p].tool,
           trash' = [trash EXCEPT ![job[p].id] = b],
           \A q \in Procs \ {p} : job'[q] = job[q], ~Pending(job'[p]),
           \/ job'[p].folder = None
           \/ job'[p].folder = job[p].id /\ job'[p].tool = job[p].tool,
           \/ job'[p].mem = NoConfig
           \/ job'[p].mem = job[p].mem
    PROVE  NamesInv'
<1> DEFINE k == job[p].id
<1>1. k \in Folders /\ Pending(job[p]) /\ job[p].tool \in Tools
  BY JobAt DEF At, Pending, Ready
<1>2. \A q \in Procs \ {p} : Pending(job[q]) => job[q].id # k
  BY <1>1 DEF NamesInv, IdsDistinct
<1>3. \A t \in Tools : mine[t] \subseteq mine'[t]
  <2> SUFFICES ASSUME NEW t \in Tools, NEW i \in mine[t] PROVE i \in mine'[t]
    OBVIOUS
  <2>1. i # k /\ i \in Folders /\ trash'[i] = trash[i]
    BY <1>1 DEF mine
  <2> QED
    BY <2>1 DEF mine
<1>4. k \in mine'[job[p].tool]
  <2>1. k <= calls'
    BY <1>1 DEF NamesInv, IdsFree
  <2>2. trash'[k] = b
    BY <1>1 DEF TypeInv, TreeOK
  <2>3. \A q \in Procs : Pending(job'[q]) => job'[q].id # k
    BY <1>2
  <2> QED
    BY <1>1, <2>1, <2>2, <2>3 DEF mine
<1>5. OriginsIn(config', mine') /\ \A q \in Procs : OwnIn(job[q], mine')
  BY <1>3, OwnGrows DEF NamesInv
<1>6. OwnIn(job'[p], mine')
  <2>1. OriginsIn(NoConfig, mine')
    BY DEF OriginsIn, NoConfig
  <2>2. OriginsIn(job'[p].mem, mine')
    BY <1>5, <2>1 DEF OwnIn
  <2> QED
    BY <1>1, <1>4, <2>2 DEF OwnIn
<1>7. IdsDistinct'
  BY DEF NamesInv, IdsDistinct
<1>8. IdsFree'
  <2> SUFFICES ASSUME NEW q \in Procs, Pending(job'[q])
               PROVE  job'[q].id <= calls' /\ trash'[job'[q].id] = None
    BY DEF IdsFree
  <2>1. q # p /\ job'[q] = job[q] /\ job[q].id # k
    BY <1>2
  <2>2. job[q].id <= calls /\ trash[job[q].id] = None
    BY <2>1 DEF NamesInv, IdsFree
  <2> QED
    BY <2>1, <2>2
<1>9. Unused'
  <2>1. k <= calls
    BY <1>1 DEF NamesInv, IdsFree
  <2> QED
    BY <1>1, <2>1 DEF NamesInv, Unused, TypeInv, CountOK, Folders
<1> QED
  BY <1>5, <1>6, <1>7, <1>8, <1>9 DEF NamesInv

\* A command that begins chooses a name that nobody has used.
LEMMA BeginNames ==
    ASSUME NamesInv, TypeInv, calls < MaxCalls, calls' = calls + 1,
           UNCHANGED <<config, trash>>,
           NEW p \in Procs, At(p, "idle"), \A q \in Procs \ {p} : job'[q] = job[q],
           Pending(job'[p]) => job'[p].id = calls + 1,
           OwnIn(job'[p], mine)
    PROVE  NamesInv'
<1>1. calls \in Nat /\ calls + 1 \in Folders
  BY ModeAssumption DEF TypeInv, CountOK, Folders
<1>2. ~Pending(job[p])
  BY DEF At, Pending
<1>3. \A t \in Tools : mine[t] \subseteq mine'[t]
  <2> SUFFICES ASSUME NEW t \in Tools, NEW i \in mine[t] PROVE i \in mine'[t]
    OBVIOUS
  <2>1. i \in Folders /\ i <= calls /\ i # calls + 1 /\ i <= calls'
    BY <1>1 DEF mine, Folders
  <2>2. \A q \in Procs : Pending(job'[q]) => job'[q].id # i
    BY <2>1 DEF mine
  <2> QED
    BY <2>1, <2>2 DEF mine
<1>4. OriginsIn(config', mine') /\ \A q \in Procs : OwnIn(job'[q], mine')
  <2>1. OriginsIn(config', mine) /\ \A q \in Procs : OwnIn(job'[q], mine)
    BY DEF NamesInv
  <2> QED
    BY <1>3, <2>1, OwnGrows
<1>5. \A q \in Procs \ {p} : Pending(job[q]) => job[q].id <= calls /\ job[q].id \in Folders
  BY JobAt DEF NamesInv, IdsFree, Pending, Ready
<1>6. IdsDistinct'
  BY <1>1, <1>5 DEF NamesInv, IdsDistinct, Folders
<1>7. IdsFree'
  BY <1>1, <1>5 DEF NamesInv, IdsFree, Unused, Folders
<1>8. Unused'
  BY <1>1 DEF NamesInv, Unused, Folders
<1> QED
  BY <1>4, <1>6, <1>7, <1>8 DEF NamesInv

\* Then() names no other folder, and chooses no new name for one.
LEMMA ThenOwn ==
    ASSUME NEW j \in GoodJobs, j.pc \in {"load", "trunc", "write"}, NEW m,
           OwnIn(j, m)
    PROVE  /\ OwnIn(Then(j), m)
           /\ Pending(Then(j)) => Pending(j) /\ Then(j).id = j.id
           /\ Then(j).opt \in {j.opt, Idle.opt}
<1>1. j \in Jobs
  BY DEF GoodJobs
<1>2. CASE j.edit = "cache"
  BY <1>1, <1>2 DEF Then, Jobs, OwnIn, Pending
<1>3. CASE j.edit = "remember" /\ j.removed /\ j.prior \in {"embedded", "submodule"}
  BY <1>1, <1>3 DEF Then, Jobs, OwnIn, Pending
<1>4. CASE j.edit = "clear" /\ j.act = "restore"
  BY <1>1, <1>4 DEF Then, Jobs, OwnIn, Pending
<1>5. CASE /\ j.edit # "cache" /\ ~(j.edit = "clear" /\ j.act = "restore")
           /\ ~(j.edit = "remember" /\ j.removed /\ j.prior \in {"embedded", "submodule"})
  <2>1. Then(j) = Idle
    BY <1>5 DEF Then
  <2> QED
    BY <2>1, IdleOwn
<1> QED
  BY <1>2, <1>3, <1>4, <1>5

\* What an edit writes names the folders it read, and the backup of its command.
LEMMA EditedOwn ==
    ASSUME NEW j \in GoodJobs, j.pc # "idle", NEW c \in Configs, NEW m,
           OwnIn(j, m), OriginsIn(c, m)
    PROVE  OriginsIn(Edited(c, j), m)
<1>1. j \in Jobs /\ j.tool \in Tools /\ j.edit \in Edits
  BY DEF GoodJobs, Jobs, Ready
<1>2. CASE j.edit = "cache"
  BY <1>2 DEF Edited, Configs, OriginsIn
<1>3. CASE j.edit \in {"remember", "forget"}
  BY <1>3 DEF Edited, Configs, OriginsIn
<1>4. CASE j.edit = "clear"
  <2>1. \A t \in Tools : [c EXCEPT !.origin[j.tool] = None].origin[t]
                           = IF t = j.tool THEN None ELSE c.origin[t]
    BY <1>1 DEF Configs
  <2> QED
    BY <1>4, <2>1 DEF Edited, OriginsIn
<1>5. CASE j.edit = "record"
  <2> DEFINE o == [prior |-> j.prior,
                   folder |-> IF j.prior = "embedded" THEN j.folder ELSE None]
  <2>1. \A t \in Tools : [c EXCEPT !.origin[j.tool] = o].origin[t]
                           = IF t = j.tool THEN o ELSE c.origin[t]
    BY <1>1 DEF Configs
  <2>2. o.folder \in m[j.tool] \cup {None}
    BY DEF OwnIn
  <2>3. Edited(c, j) = [c EXCEPT !.origin[j.tool] = o]
    BY <1>5 DEF Edited
  <2> HIDE DEF o
  <2> QED
    BY <2>1, <2>2, <2>3 DEF OriginsIn
<1> QED
  BY <1>1, <1>2, <1>3, <1>4, <1>5 DEF Edits

\* A job that differs only in its step, its edit and its paths.
LEMMA MovedOwn ==
    ASSUME NEW j \in Jobs, NEW n \in Jobs, NEW m, OwnIn(j, m),
           n.folder = j.folder, n.tool = j.tool, n.mem = j.mem
    PROVE  OwnIn(n, m)
  BY DEF OwnIn

\* What the process that takes the step names.
LEMMA OwnAt == ASSUME NamesInv, NEW p \in Procs PROVE OwnIn(job[p], mine)
  BY DEF NamesInv

\* cmd_switch() keeps NamesInv when it begins.
LEMMA SwitchNames ==
    ASSUME TypeInv, NamesInv, NEW p \in Procs, NEW t \in Tools,
           NEW forced \in {"none", "dev", "publish"}, NEW opt \in Options,
           NEW explicit \in BOOLEAN, Switch(p, t, forced, opt, explicit)
    PROVE  NamesInv'
<1>1. job'[p] = Idle \/ \E act \in {"dev", "publish"}, s \in Steps :
         \/ job'[p] = [Started(t, act, opt) EXCEPT !.pc = s]
         \/ job'[p] = [Started(t, act, opt) EXCEPT !.pc = s, !.edit = "cache"]
  <2>1. SwitchDev(p, t, opt, explicit) \/ SwitchPublish(p, t, opt)
    BY DEF Switch
  <2>2. ASSUME SwitchDev(p, t, opt, explicit)
        PROVE  job'[p] = Idle \/ \E s \in Steps :
                  job'[p] = [Started(t, "dev", opt) EXCEPT !.pc = s]
    <3> DEFINE s == IF form[t] # "dir" THEN "link"
                    ELSE IF opt.force THEN "remove" ELSE "gate"
    <3>1. s \in Steps
      BY DEF Steps
    <3>2. job'[p] = Idle \/ job'[p] = [Started(t, "dev", opt) EXCEPT !.pc = s]
      BY <2>2 DEF SwitchDev, TypeInv
    <3> QED
      BY <3>1, <3>2
  <2>3. ASSUME SwitchPublish(p, t, opt)
        PROVE  job'[p] = Idle \/ \E s \in Steps :
                  job'[p] = [Started(t, "publish", opt) EXCEPT !.pc = s, !.edit = "cache"]
    <3>1. "load" \in Steps
      BY DEF Steps
    <3> QED
      BY <2>3, <3>1 DEF SwitchPublish, TypeInv
  <2> QED
    BY <2>1, <2>2, <2>3
<1>2. /\ Idle.folder = None /\ Idle.mem = NoConfig /\ ~Pending(Idle)
  BY IdleOwn DEF Idle
<1>3. \/ job'[p] = Idle
      \/ job'[p].folder = None /\ job'[p].mem = NoConfig /\ job'[p].id = calls + 1
  BY <1>1 DEF Started, Idle
<1>4. \A m : OriginsIn(NoConfig, m)
  BY DEF OriginsIn, NoConfig
<1>5. OwnIn(job'[p], mine)
  BY <1>3, <1>4, IdleOwn DEF OwnIn
<1>6. \A q \in Procs \ {p} : job'[q] = job[q]
  BY DEF Switch, SwitchDev, SwitchPublish, TypeInv
<1> QED
  BY <1>2, <1>3, <1>5, <1>6, BeginNames DEF Switch, tree

\* cmd_restore() keeps NamesInv when it begins.
LEMMA RestoreNames ==
    ASSUME TypeInv, NamesInv, NEW p \in Procs, NEW t \in Tools, Restore(p, t)
    PROVE  NamesInv'
<1> DEFINE o == Load.origin[t]
           m == [Started(t, "publish", Idle.opt) EXCEPT !.pc = "load"]
           n == [Started(t, "restore", Idle.opt) EXCEPT
                   !.pc = "detach", !.folder = o.folder, !.devs = Load.dev]
<1>1. \/ job'[p] = Idle
      \/ job'[p] = m
      \/ o # None /\ o.folder # None /\ job'[p] = n
  BY DEF Restore, TypeInv
<1>2. \A i : OriginsIn(NoConfig, i)
  BY DEF OriginsIn, NoConfig
<1>3. OriginsIn(Load, mine)
  BY <1>2 DEF Load, NamesInv
<1>4. m.folder = None /\ m.mem = NoConfig /\ m.id = calls + 1
  BY DEF Started, Idle
<1>5. n.folder = o.folder /\ n.mem = NoConfig /\ n.id = calls + 1 /\ n.tool = t
  BY DEF Started, Idle
<1>6. OwnIn(job'[p], mine)
  <2>1. OwnIn(m, mine)
    BY <1>2, <1>4 DEF OwnIn
  <2>2. o # None /\ o.folder # None => OwnIn(n, mine)
    BY <1>2, <1>3, <1>5 DEF OwnIn, OriginsIn
  <2> HIDE DEF m, n, o
  <2> QED
    BY <1>1, <2>1, <2>2, IdleOwn
<1>7. Pending(job'[p]) => job'[p].id = calls + 1
  <2> HIDE DEF m, n, o
  <2> QED
    BY <1>1, <1>4, <1>5, IdleOwn
<1>8. \A q \in Procs \ {p} : job'[q] = job[q]
  BY DEF Restore, TypeInv
<1> QED
  BY <1>6, <1>7, <1>8, BeginNames DEF Restore, tree

\* The steps of a command keep NamesInv, each but the removals quietly.
LEMMA ProceedNames ==
    ASSUME TypeInv, NamesInv, NEW p \in Procs, Proceed(p)
    PROVE  NamesInv'
<1>0. /\ job \in [Procs -> Jobs] /\ job[p] \in Jobs /\ job[p] \in GoodJobs
      /\ Ready(job[p]) /\ OwnIn(job[p], mine)
  BY JobAt, OwnAt DEF TypeInv, GoodJobs
<1>1. \A k \in Folders : trash[k] \in {trash[k], None}
  OBVIOUS
<1>2. ASSUME Gate(p) PROVE NamesInv'
  <2>1. /\ OwnIn(job'[p], mine)
        /\ Pending(job'[p]) => Pending(job[p]) /\ job'[p].id = job[p].id
    <3>1. CASE Goto(p, "remove")
      BY <1>0, <1>2, <3>1 DEF Gate, At, Goto, Jobs, OwnIn, Pending
    <3>2. CASE Return(p)
      BY <1>0, <3>2, IdleOwn DEF Return
    <3> QED
      BY <1>2, <3>1, <3>2 DEF Gate
  <2>2. \A q \in Procs \ {p} : job'[q] = job[q]
    BY <1>0, <1>2 DEF Gate, Goto, Return
  <2>3. calls' = calls
    BY <1>2 DEF Gate, Granted, Refused, count
  <2> QED
    BY <1>1, <1>2, <2>1, <2>2, <2>3, StepNames DEF Gate, tree
<1>3. ASSUME RemoveNow(p) PROVE NamesInv'
  <2>1. OwnIn(job'[p], mine) /\ ~Pending(job'[p])
    BY <1>0, <1>3 DEF RemoveNow, At, Onward, Jobs, OwnIn, Pending
  <2>2. \A q \in Procs \ {p} : job'[q] = job[q]
    BY <1>0, <1>3 DEF RemoveNow
  <2>3. calls' = calls
    BY <1>3 DEF RemoveNow, Granted, Refused, count
  <2> QED
    BY <1>1, <1>3, <2>1, <2>2, <2>3, StepNames DEF RemoveNow
<1>4. ASSUME RemoveToTrash(p) PROVE NamesInv'
  <2> DEFINE b == [tool |-> job[p].tool, body |-> body[job[p].tool], listed |-> TRUE]
  <2>1. b \in Backups /\ b.tool = job[p].tool
    BY <1>0, <1>4 DEF RemoveToTrash, At, Ready, TypeInv, TreeOK, Backups
  <2>2. /\ ~Pending(job'[p]) /\ job'[p].folder = job[p].id
        /\ job'[p].tool = job[p].tool /\ job'[p].mem = job[p].mem
    BY <1>0, <1>4 DEF RemoveToTrash, At, Onward, Jobs, Pending
  <2>3. \A q \in Procs \ {p} : job'[q] = job[q]
    BY <1>0, <1>4 DEF RemoveToTrash
  <2>4. calls' = calls
    BY <1>4 DEF RemoveToTrash, Granted, Refused, count
  <2>5. /\ At(p, "remove") /\ config' = config
        /\ trash' = [trash EXCEPT ![job[p].id] = b]
    BY <1>4 DEF RemoveToTrash
  <2> HIDE DEF b
  <2> QED
    BY <2>1, <2>2, <2>3, <2>4, <2>5, StowNames
<1>5. ASSUME RemoveFails(p) PROVE NamesInv'
  <2> DEFINE b == [tool |-> job[p].tool, body |-> body[job[p].tool], listed |-> FALSE]
  <2>1. b \in Backups /\ b.tool = job[p].tool
    BY <1>0, <1>5 DEF RemoveFails, At, Ready, TypeInv, TreeOK, Backups
  <2>2. job'[p] = Idle /\ \A q \in Procs \ {p} : job'[q] = job[q]
    BY <1>0, <1>5 DEF RemoveFails, Return
  <2>3. calls' = calls
    BY <1>5 DEF RemoveFails, Granted, Refused, count
  <2>4. At(p, "remove") /\ config' = config
    BY <1>5 DEF RemoveFails
  <2>5. trash' = trash \/ trash' = [trash EXCEPT ![job[p].id] = b]
    BY <1>5 DEF RemoveFails, tree
  <2>6. Idle.folder = None /\ Idle.mem = NoConfig
    BY DEF Idle
  <2> HIDE DEF b
  <2>7. CASE trash' = trash
    BY <1>1, <2>2, <2>3, <2>4, <2>7, IdleOwn, StepNames
  <2>8. CASE trash' = [trash EXCEPT ![job[p].id] = b]
    BY <2>1, <2>2, <2>3, <2>4, <2>6, <2>8, IdleOwn, StowNames
  <2> QED
    BY <2>5, <2>7, <2>8
<1>6. ASSUME Link(p) PROVE NamesInv'
  <2>1. OwnIn(job'[p], mine) /\ ~Pending(job'[p])
    <3>1. CASE job' = [job EXCEPT ![p].pc = "peek", ![p].edit = "remember"]
      BY <1>0, <3>1 DEF Jobs, OwnIn, Pending
    <3>2. CASE Return(p)
      BY <1>0, <3>2, IdleOwn DEF Return
    <3> QED
      BY <1>6, <3>1, <3>2 DEF Link
  <2>2. \A q \in Procs \ {p} : job'[q] = job[q]
    BY <1>0, <1>6 DEF Link, Return
  <2>3. calls' = calls
    BY <1>6 DEF Link, Granted, Refused, count
  <2> QED
    BY <1>1, <1>6, <2>1, <2>2, <2>3, StepNames DEF Link
<1>7. ASSUME Publish(p) PROVE NamesInv'
  <2>1. /\ OwnIn(job'[p], mine)
        /\ Pending(job'[p]) => Pending(job[p]) /\ job'[p].id = job[p].id
    <3>1. ASSUME NEW s \in {"git", "remove", "gate"}, Goto(p, s)
          PROVE  /\ OwnIn(job'[p], mine) /\ job'[p].id = job[p].id
      BY <1>0, <3>1 DEF Goto, Jobs, OwnIn
    <3>2. CASE Return(p)
      BY <1>0, <3>2, IdleOwn DEF Return
    <3>3. Pending(job[p])
      BY <1>7 DEF Publish, At, Pending
    <3>4. Return(p) \/ \E s \in {"git", "remove", "gate"} : Goto(p, s)
      BY <1>7 DEF Publish
    <3> QED
      BY <3>1, <3>2, <3>3, <3>4
  <2>2. \A q \in Procs \ {p} : job'[q] = job[q]
    BY <1>0, <1>7 DEF Publish, Goto, Return
  <2>3. calls' = calls
    BY <1>7 DEF Publish, Granted, Refused, count
  <2> QED
    BY <1>1, <1>7, <2>1, <2>2, <2>3, StepNames DEF Publish
<1>8. ASSUME Git(p) PROVE NamesInv'
  <2>1. OwnIn(job'[p], mine) /\ ~Pending(job'[p])
    <3>1. CASE job' = [job EXCEPT ![p].pc = "load", ![p].edit = "clear"]
      BY <1>0, <3>1 DEF Jobs, OwnIn, Pending
    <3>2. CASE Return(p)
      BY <1>0, <3>2, IdleOwn DEF Return
    <3> QED
      BY <1>8, <3>1, <3>2 DEF Git
  <2>2. \A q \in Procs \ {p} : job'[q] = job[q]
    BY <1>0, <1>8 DEF Git, Return
  <2>3. calls' = calls
    BY <1>8 DEF Git, Granted, Refused, count
  <2> QED
    BY <1>1, <1>8, <2>1, <2>2, <2>3, StepNames DEF Git
<1>9. ASSUME Detach(p) PROVE NamesInv'
  <2>1. OwnIn(job'[p], mine) /\ ~Pending(job'[p])
    <3>1. CASE Goto(p, "recover")
      BY <1>0, <3>1 DEF Goto, Jobs, OwnIn, Pending
    <3>2. CASE Return(p)
      BY <1>0, <3>2, IdleOwn DEF Return
    <3> QED
      BY <1>9, <3>1, <3>2 DEF Detach
  <2>2. \A q \in Procs \ {p} : job'[q] = job[q]
    BY <1>0, <1>9 DEF Detach, Goto, Return
  <2>3. calls' = calls
    BY <1>9 DEF Detach, Granted, Refused, count
  <2> QED
    BY <1>1, <1>9, <2>1, <2>2, <2>3, StepNames DEF Detach
<1>10. ASSUME Recover(p) PROVE NamesInv'
  <2>1. OwnIn(job'[p], mine) /\ ~Pending(job'[p])
    <3>1. CASE job' = [job EXCEPT ![p].pc = "load", ![p].edit = "clear"]
      BY <1>0, <3>1 DEF Jobs, OwnIn, Pending
    <3>2. CASE Goto(p, "relink")
      BY <1>0, <3>2 DEF Goto, Jobs, OwnIn, Pending
    <3> QED
      BY <1>10, <3>1, <3>2 DEF Recover
  <2>2. \A q \in Procs \ {p} : job'[q] = job[q]
    BY <1>0, <1>10 DEF Recover, Goto
  <2>3. calls' = calls
    BY <1>10 DEF Recover, Granted, Refused, count
  <2>4. \A k \in Folders : trash'[k] \in {trash[k], None}
    <3>1. trash' = trash \/ trash' = [trash EXCEPT ![job[p].folder] = None]
      BY <1>10 DEF Recover
    <3> QED
      BY <3>1 DEF TypeInv, TreeOK
  <2> QED
    BY <1>10, <2>1, <2>2, <2>3, <2>4, StepNames DEF Recover
<1>11. ASSUME Relink(p) PROVE NamesInv'
  <2>1. job'[p] = Idle /\ \A q \in Procs \ {p} : job'[q] = job[q]
    BY <1>0, <1>11 DEF Relink, Return
  <2>2. calls' = calls
    BY <1>11 DEF Relink, Granted, Refused, count
  <2> QED
    BY <1>1, <1>11, <2>1, <2>2, IdleOwn, StepNames DEF Relink
<1>12. ASSUME Peek(p) PROVE NamesInv'
  <2>1. OwnIn(job'[p], mine)
        /\ (Pending(job'[p]) => Pending(job[p]) /\ job'[p].id = job[p].id)
    <3> DEFINE d == IF job[p].edit = "forget" THEN Load.dev \ {job[p].tool}
                    ELSE Load.dev \cup {job[p].tool}
               n == [job[p] EXCEPT !.pc = "load", !.devs = d]
    <3>1. job'[p] = Idle \/ job'[p] = n
      BY <1>0, <1>12 DEF Peek
    <3>2. job[p].edit # "cache"
      BY <1>0, <1>12 DEF Peek, At, Ready
    <3>3. OwnIn(n, mine) /\ ~Pending(n)
      <4> HIDE DEF d
      <4> QED
        BY <1>0, <3>2 DEF OwnIn, Jobs, Pending
    <3> HIDE DEF n
    <3> QED
      BY <3>1, <3>3, IdleOwn
  <2>2. \A q \in Procs \ {p} : job'[q] = job[q]
    BY <1>0, <1>12 DEF Peek
  <2>3. calls' = calls
    BY <1>12 DEF Peek, count
  <2> QED
    BY <1>1, <1>12, <2>1, <2>2, <2>3, StepNames DEF Peek, tree
<1>13. ASSUME LoadConfig(p) PROVE NamesInv'
  <2> DEFINE j == job[p]
             c == Edited(Load, j)
             n == [j EXCEPT !.pc = "trunc", !.mem = c]
  <2>1. j.pc = "load" /\ (job'[p] = Then(j) \/ job'[p] = n)
    BY <1>0, <1>13 DEF LoadConfig, At
  <2>2. OriginsIn(Load, mine)
    <3>1. OriginsIn(NoConfig, mine)
      BY DEF OriginsIn, NoConfig
    <3> QED
      BY <3>1 DEF Load, NamesInv
  <2>3. c \in Configs /\ OriginsIn(c, mine)
    BY <1>0, <2>1, <2>2, EditedTyped, EditedOwn, LoadTyped DEF TypeInv
  <2> HIDE DEF c
  <2>4. OwnIn(n, mine) /\ n.id = j.id /\ n.edit = j.edit /\ n.pc = "trunc"
    BY <1>0, <2>3 DEF Jobs, OwnIn
  <2>5. OwnIn(job'[p], mine)
        /\ (Pending(job'[p]) => Pending(job[p]) /\ job'[p].id = job[p].id)
    BY <1>0, <2>1, <2>4, ThenOwn DEF Pending
  <2>6. \A q \in Procs \ {p} : job'[q] = job[q]
    BY <1>0, <1>13 DEF LoadConfig
  <2>7. calls' = calls
    BY <1>13 DEF LoadConfig, count
  <2> QED
    BY <1>1, <1>13, <2>5, <2>6, <2>7, StepNames DEF LoadConfig, tree
<1>14. ASSUME Truncate(p) PROVE NamesInv'
  <2>1. OwnIn(job'[p], mine)
        /\ (Pending(job'[p]) => Pending(job[p]) /\ job'[p].id = job[p].id)
    <3>1. CASE Goto(p, "write")
      BY <1>0, <1>14, <3>1 DEF Truncate, At, Goto, Jobs, OwnIn, Pending
    <3>2. CASE job' = [job EXCEPT ![p] = Then(@)]
      BY <1>0, <1>14, <3>2, ThenOwn DEF Truncate, At
    <3> QED
      BY <1>14, <3>1, <3>2 DEF Truncate
  <2>2. \A q \in Procs \ {p} : job'[q] = job[q]
    BY <1>0, <1>14 DEF Truncate, Goto
  <2>3. calls' = calls
    BY <1>14 DEF Truncate, Granted, Refused, count
  <2> QED
    BY <1>1, <1>14, <2>1, <2>2, <2>3, StepNames DEF Truncate, tree
<1>15. ASSUME Write(p) PROVE NamesInv'
  <2>1. OwnIn(job'[p], mine)
        /\ (Pending(job'[p]) => Pending(job[p]) /\ job'[p].id = job[p].id)
    BY <1>0, <1>15, ThenOwn DEF Write, At
  <2>2. \A q \in Procs \ {p} : job'[q] = job[q]
    BY <1>0, <1>15 DEF Write
  <2>3. OriginsIn(config', mine)
    <3>1. config' = job[p].mem \/ config' = config
      BY <1>15 DEF Write
    <3> QED
      BY <1>0, <3>1 DEF OwnIn, NamesInv
  <2>4. calls' = calls /\ trash' = trash
    BY <1>15 DEF Write, Granted, Refused, count, tree
  <2>5. \A q \in Procs : /\ Pending(job'[q]) => Pending(job[q]) /\ job'[q].id = job[q].id
                         /\ OwnIn(job'[q], mine)
    BY <2>1, <2>2, OwnAt
  <2> QED
    BY <1>1, <2>3, <2>4, <2>5, QuietNames
<1>16. ASSUME RmtreeFails(p) PROVE NamesInv'
  <2>1. job'[p] = Idle /\ \A q \in Procs \ {p} : job'[q] = job[q]
    BY <1>0, <1>16 DEF RmtreeFails, Return
  <2>2. calls' = calls
    BY <1>16 DEF RmtreeFails, Granted, Refused, RefusedBoth, count
  <2>3. UNCHANGED <<config, trash>>
    BY <1>16 DEF RmtreeFails
  <2> QED
    BY <1>1, <2>1, <2>2, <2>3, IdleOwn, StepNames
<1> QED
  BY <1>2, <1>3, <1>4, <1>5, <1>6, <1>7, <1>8, <1>9, <1>10, <1>11, <1>12,
     <1>13, <1>14, <1>15, <1>16 DEF Proceed

\* What users do, and a kill, fill no folder.
LEMMA WorldNames ==
    ASSUME TypeInv, NamesInv, World \/ \E p \in Procs : Crash(p) PROVE NamesInv'
<1>1. /\ calls' = calls /\ config' = config
      /\ \A k \in Folders : trash'[k] \in {trash[k], None}
  BY DEF World, Edit, LoseDev, Clean, RecoverByHand, Crash, tree, TypeInv, TreeOK
<1>2. \A q \in Procs : job'[q] \in {job[q], Idle}
  <2>1. job' = job \/ \E p \in Procs : job' = [job EXCEPT ![p] = Idle]
    BY DEF World, Edit, LoseDev, Clean, RecoverByHand, Crash, Return
  <2> QED
    BY <2>1 DEF TypeInv
<1>3. \A q \in Procs : /\ Pending(job'[q]) => Pending(job[q]) /\ job'[q].id = job[q].id
                       /\ OwnIn(job'[q], mine)
  BY <1>2, IdleOwn, OwnAt
<1>4. OriginsIn(config', mine)
  BY <1>1 DEF NamesInv
<1> QED
  BY <1>1, <1>3, <1>4, QuietNames

\* Every step keeps NamesInv.
LEMMA NamesNext == TypeInv /\ NamesInv /\ [Next]_vars => NamesInv'
<1> SUFFICES ASSUME TypeInv, NamesInv, [Next]_vars PROVE NamesInv'
  OBVIOUS
<1>1. ASSUME NEW p \in Procs, Begin(p) PROVE NamesInv'
  BY <1>1, SwitchNames, RestoreNames DEF Begin
<1>2. CASE UNCHANGED vars
  <2>1. UNCHANGED <<calls, job, trash, config>>
    BY <1>2 DEF vars
  <2> QED
    BY <2>1 DEF NamesInv, IdsDistinct, IdsFree, Unused, mine
<1> QED
  BY <1>1, <1>2, ProceedNames, WorldNames DEF Next

-----------------------------------------------------------------------------
(* What people wrote is kept *)

\* Every command in progress that asks for no backup says --force too.
OptsOK == \A p \in Procs : job[p].opt.immediate => job[p].opt.force

\* The history holds what people write, and nothing a program wrote.
MadeOK == made \subseteq Tools \X {"own", "edits"}

SafeInv == TypeInv /\ NamesInv /\ OptsOK /\ MadeOK /\ ContentKept

\* Where what a person wrote may be.
InPlace(m) == form[m[1]] = "dir" /\ body[m[1]] = m[2]
InTrash(m, k) == trash[k] # None /\ trash[k].tool = m[1] /\ trash[k].body = m[2]

\* A step that leaves every directory, the trash and the history alone loses
\* nothing.
LEMMA SafeStep ==
    ASSUME ContentKept, MadeOK, UNCHANGED <<trash, hist>>,
           \A t \in Tools : form[t] = "dir" => form'[t] = "dir" /\ body'[t] = body[t]
    PROVE  ContentKept'
<1> SUFFICES ASSUME NEW m \in made \ discarded
             PROVE  \/ form'[m[1]] = "dir" /\ body'[m[1]] = m[2]
                    \/ \E k \in Folders : trash'[k] # None /\ trash'[k].tool = m[1]
                                            /\ trash'[k].body = m[2]
  BY DEF ContentKept, hist
<1>1. m[1] \in Tools
  BY DEF MadeOK
<1> QED
  BY <1>1 DEF ContentKept, hist

\* rmtree() loses nothing its user did not give up.
LEMMA RemoveNowSafe ==
    ASSUME SafeInv, NEW p \in Procs, RemoveNow(p) PROVE ContentKept'
<1> DEFINE t == job[p].tool
<1>1. t \in Tools /\ job[p].opt.force
  BY JobAt DEF RemoveNow, At, Ready, SafeInv, OptsOK
<1>2. discarded' = discarded \cup {<<t, body[t]>>}
  BY <1>1 DEF RemoveNow, GivenUpBy
<1> SUFFICES ASSUME NEW m \in made' \ discarded'
             PROVE  InPlace(m)' \/ \E k \in Folders : InTrash(m, k)'
  BY DEF ContentKept, InPlace, InTrash
<1>3. m \in made \ discarded /\ m # <<t, body[t]>>
  BY <1>2 DEF RemoveNow
<1>4. m[1] \in Tools /\ m = <<m[1], m[2]>>
  BY <1>3 DEF SafeInv, MadeOK
<1>5. InPlace(m) \/ \E k \in Folders : InTrash(m, k)
  BY <1>3 DEF SafeInv, ContentKept, InPlace, InTrash
<1>6. CASE InPlace(m)
  <2>1. m[1] # t
    BY <1>3, <1>4, <1>6 DEF InPlace
  <2> QED
    BY <1>4, <1>6, <2>1 DEF InPlace, RemoveNow, Empty, SafeInv, TypeInv, TreeOK
<1>7. CASE \E k \in Folders : InTrash(m, k)
  BY <1>7 DEF InTrash, RemoveNow
<1> QED
  BY <1>5, <1>6, <1>7

\* Nor does an rmtree() that raises.
LEMMA RmtreeFailsSafe ==
    ASSUME SafeInv, NEW p \in Procs, RmtreeFails(p) PROVE ContentKept'
<1> DEFINE t == job[p].tool
<1>0. TypeInv /\ MadeOK /\ ContentKept
  BY DEF SafeInv
<1>1. t \in Tools /\ job[p].opt.force
  BY JobAt DEF RmtreeFails, At, Ready, SafeInv, OptsOK
<1>2. UNCHANGED <<form, trash, made>>
  BY DEF RmtreeFails
<1>3. CASE UNCHANGED <<body, discarded>>
  BY <1>0, <1>2, <1>3, SafeStep DEF hist
<1>4. CASE /\ body' = [body EXCEPT ![t] = "rest"]
           /\ discarded' = discarded \cup {<<t, body[t]>>}
  <2> SUFFICES ASSUME NEW m \in made \ discarded, m # <<t, body[t]>>
               PROVE  InPlace(m)' \/ \E k \in Folders : InTrash(m, k)'
    BY <1>2, <1>4 DEF ContentKept, InPlace, InTrash
  <2>1. m[1] \in Tools /\ m = <<m[1], m[2]>>
    BY <1>0 DEF MadeOK
  <2>2. InPlace(m) \/ \E k \in Folders : InTrash(m, k)
    BY <1>0 DEF ContentKept, InPlace, InTrash
  <2>3. CASE InPlace(m)
    <3>1. m[1] # t
      BY <2>1, <2>3 DEF InPlace
    <3> QED
      BY <1>0, <1>2, <1>4, <2>1, <2>3, <3>1 DEF InPlace, TypeInv, TreeOK
  <2>4. CASE \E k \in Folders : InTrash(m, k)
    BY <1>2, <2>4 DEF InTrash
  <2> QED
    BY <2>2, <2>3, <2>4
<1> QED
  BY <1>1, <1>3, <1>4 DEF RmtreeFails, GivenUpBy

\* Moving a directory to the trash moves what it held there, into a folder
\* that held nothing.
LEMMA StowSafe ==
    ASSUME SafeInv, NEW p \in Procs, At(p, "remove"), NEW b \in Backups,
           b.tool = job[p].tool, b.body = body[job[p].tool],
           trash' = [trash EXCEPT ![job[p].id] = b],
           \A t \in Tools \ {job[p].tool} : form'[t] = form[t] /\ body'[t] = body[t],
           UNCHANGED hist
    PROVE  ContentKept'
<1> DEFINE t == job[p].tool
           i == job[p].id
<1>1. t \in Tools /\ i \in Folders /\ Pending(job[p])
  BY JobAt DEF At, Ready, Pending, SafeInv
<1>2. trash[i] = None /\ b # None
  BY <1>1, ModeAssumption DEF SafeInv, NamesInv, IdsFree
<1> SUFFICES ASSUME NEW m \in made' \ discarded'
             PROVE  InPlace(m)' \/ \E k \in Folders : InTrash(m, k)'
  BY DEF ContentKept, InPlace, InTrash
<1>3. m \in made \ discarded /\ m[1] \in Tools
  BY DEF hist, SafeInv, MadeOK
<1>4. InPlace(m) \/ \E k \in Folders : InTrash(m, k)
  BY <1>3 DEF SafeInv, ContentKept, InPlace, InTrash
<1>5. trash'[i] = b /\ \A k \in Folders \ {i} : trash'[k] = trash[k]
  BY <1>1 DEF SafeInv, TypeInv, TreeOK
<1>6. CASE InPlace(m) /\ m[1] = t
  BY <1>1, <1>2, <1>5, <1>6 DEF InPlace, InTrash
<1>7. CASE InPlace(m) /\ m[1] # t
  BY <1>3, <1>7 DEF InPlace
<1>8. CASE \E k \in Folders : InTrash(m, k)
  BY <1>2, <1>5, <1>8 DEF InTrash
<1> QED
  BY <1>4, <1>6, <1>7, <1>8

\* Putting a backup where its tool was, and dropping it, loses nothing.
LEMMA FillSafe ==
    ASSUME SafeInv, NEW k \in Folders, trash[k] # None, form[trash[k].tool] = "none",
           form' = [form EXCEPT ![trash[k].tool] =
                      IF trash[k].body = None THEN "link" ELSE "dir"],
           body' = [body EXCEPT ![trash[k].tool] = trash[k].body],
           trash' = [trash EXCEPT ![k] = None],
           UNCHANGED hist
    PROVE  ContentKept'
<1> DEFINE t == trash[k].tool
<1>1. t \in Tools
  BY DEF SafeInv, TypeInv, TreeOK, Backups
<1> SUFFICES ASSUME NEW m \in made' \ discarded'
             PROVE  InPlace(m)' \/ \E i \in Folders : InTrash(m, i)'
  BY DEF ContentKept, InPlace, InTrash
<1>2. m \in made \ discarded /\ m[1] \in Tools /\ m[2] # None
  BY ModeAssumption DEF hist, SafeInv, MadeOK, Bodies
<1>3. InPlace(m) \/ \E i \in Folders : InTrash(m, i)
  BY <1>2 DEF SafeInv, ContentKept, InPlace, InTrash
<1>4. CASE InPlace(m)
  <2>1. m[1] # t
    BY <1>4 DEF InPlace
  <2> QED
    BY <1>2, <1>4, <2>1 DEF InPlace, SafeInv, TypeInv, TreeOK
<1>5. CASE InTrash(m, k)
  BY <1>1, <1>2, <1>5 DEF InPlace, InTrash, SafeInv, TypeInv, TreeOK
<1>6. CASE \E i \in Folders \ {k} : InTrash(m, i)
  BY <1>6 DEF InTrash, SafeInv, TypeInv, TreeOK
<1> QED
  BY <1>3, <1>4, <1>5, <1>6

\* The steps of a command keep what people wrote.
LEMMA ProceedSafe ==
    ASSUME SafeInv, NEW p \in Procs, Proceed(p) PROVE ContentKept'
<1> DEFINE t == job[p].tool
<1>0. TypeInv /\ NamesInv /\ MadeOK /\ ContentKept
  BY DEF SafeInv
<1>1. CASE \/ Gate(p) \/ Peek(p) \/ LoadConfig(p) \/ Truncate(p) \/ Write(p)
  <2>1. UNCHANGED <<form, body, trash, hist>>
    BY <1>1 DEF Gate, Peek, LoadConfig, Truncate, Write, tree
  <2> QED
    BY <1>0, <2>1, SafeStep
<1>2. CASE RemoveNow(p) \/ RmtreeFails(p)
  BY <1>2, RemoveNowSafe, RmtreeFailsSafe
<1>3. CASE RemoveToTrash(p)
  <2> DEFINE b == [tool |-> t, body |-> body[t], listed |-> TRUE]
  <2>1. b \in Backups /\ b.tool = t /\ b.body = body[t]
    BY <1>0, <1>3, JobAt DEF RemoveToTrash, At, Ready, TypeInv, TreeOK, Backups
  <2>2. /\ At(p, "remove") /\ trash' = [trash EXCEPT ![job[p].id] = b] /\ UNCHANGED hist
    BY <1>3 DEF RemoveToTrash
  <2>3. \A u \in Tools \ {t} : form'[u] = form[u] /\ body'[u] = body[u]
    BY <1>0, <1>3 DEF RemoveToTrash, Empty, TypeInv, TreeOK
  <2> HIDE DEF b
  <2> QED
    BY <2>1, <2>2, <2>3, StowSafe
<1>4. CASE RemoveFails(p)
  <2> DEFINE b == [tool |-> t, body |-> body[t], listed |-> FALSE]
  <2>1. b \in Backups /\ b.tool = t /\ b.body = body[t]
    BY <1>0, <1>4, JobAt DEF RemoveFails, At, Ready, TypeInv, TreeOK, Backups
  <2>2. \/ UNCHANGED tree
        \/ Empty(t) /\ trash' = [trash EXCEPT ![job[p].id] = b]
    BY <1>4, Zenon DEF RemoveFails
  <2>3. At(p, "remove") /\ UNCHANGED hist
    BY <1>4 DEF RemoveFails
  <2> HIDE DEF b
  <2>4. CASE UNCHANGED tree
    BY <1>0, <2>3, <2>4, SafeStep DEF tree
  <2>5. CASE Empty(t) /\ trash' = [trash EXCEPT ![job[p].id] = b]
    <3>1. \A u \in Tools \ {t} : form'[u] = form[u] /\ body'[u] = body[u]
      BY <1>0, <2>5 DEF Empty, TypeInv, TreeOK
    <3> QED
      BY <2>1, <2>3, <2>5, <3>1, StowSafe
  <2> QED
    BY <2>2, <2>4, <2>5
<1>5. CASE Link(p) \/ Publish(p) \/ Detach(p) \/ Relink(p)
  <2>1. UNCHANGED <<body, trash, hist>>
    BY <1>5 DEF Link, Publish, Detach, Relink
  <2>2. \A u \in Tools : form[u] = "dir" => form'[u] = "dir"
    BY <1>0, <1>5 DEF Link, Publish, Detach, Relink, TypeInv, TreeOK
  <2> QED
    BY <1>0, <2>1, <2>2, SafeStep
<1>6. CASE Git(p)
  <2>1. UNCHANGED <<trash, hist>>
    BY <1>6 DEF Git
  <2>2. \A u \in Tools : form[u] = "dir" => form'[u] = "dir" /\ body'[u] = body[u]
    BY <1>0, <1>6 DEF Git, TypeInv, TreeOK
  <2> QED
    BY <1>0, <2>1, <2>2, SafeStep
<1>7. CASE Recover(p)
  <2> DEFINE k == job[p].folder
             F(b) == /\ form' = [form EXCEPT ![t] = IF b = None THEN "link" ELSE "dir"]
                     /\ body' = [body EXCEPT ![t] = b]
  <2>1. k \in Folders /\ t \in Tools
    BY <1>0, <1>7, JobAt DEF Recover, At, Ready
  <2>2. trash[k] # None => trash[k].tool = t
    <3>1. k # None
      BY <2>1, ModeAssumption
    <3>2. k \in mine[t]
      BY <1>0, <3>1, OwnAt DEF OwnIn
    <3> QED
      BY <2>1, <3>2 DEF mine
  <2>3. UNCHANGED hist
    BY <1>7 DEF Recover
  <2>4. CASE /\ form[t] = "none" /\ trash[k] # None /\ F(trash[k].body)
             /\ trash' = [trash EXCEPT ![k] = None]
    BY <2>1, <2>2, <2>3, <2>4, FillSafe
  <2>5. CASE /\ UNCHANGED trash
             /\ UNCHANGED <<form, body>> \/ (form[t] = "none" /\ \E b : F(b))
    <3>1. \A u \in Tools : form[u] = "dir" => form'[u] = "dir" /\ body'[u] = body[u]
      BY <1>0, <2>5 DEF TypeInv, TreeOK
    <3> QED
      BY <1>0, <2>3, <2>5, <3>1, SafeStep
  <2> QED
    BY <1>7, <2>4, <2>5 DEF Recover
<1> QED
  BY <1>1, <1>2, <1>3, <1>4, <1>5, <1>6, <1>7 DEF Proceed

\* What users do, and a kill, lose nothing a user did not give up.
LEMMA WorldSafe ==
    ASSUME SafeInv, World \/ \E p \in Procs : Begin(p) \/ Crash(p)
    PROVE  ContentKept'
<1>0. TypeInv /\ MadeOK /\ ContentKept
  BY DEF SafeInv
<1>1. CASE \E p \in Procs : Begin(p) \/ Crash(p)
  <2>1. UNCHANGED <<form, body, trash, hist>>
    BY <1>1 DEF Begin, Switch, Restore, Crash, tree
  <2> QED
    BY <1>0, <2>1, SafeStep
<1>2. ASSUME NEW t \in Tools, LoseDev(t) PROVE ContentKept'
  <2>1. UNCHANGED <<form, body, trash, hist>>
    BY <1>2 DEF LoseDev
  <2> QED
    BY <1>0, <2>1, SafeStep
<1>3. ASSUME NEW t \in Tools, Edit(t) PROVE ContentKept'
  <2> SUFFICES ASSUME NEW m \in made' \ discarded'
               PROVE  InPlace(m)' \/ \E i \in Folders : InTrash(m, i)'
    BY DEF ContentKept, InPlace, InTrash
  <2>1. form'[t] = "dir" /\ body'[t] = "edits"
    BY <1>0, <1>3 DEF Edit, TypeInv, TreeOK
  <2>2. CASE m = <<t, "edits">>
    BY <2>1, <2>2 DEF InPlace
  <2>3. CASE m \in made \ discarded
    <3>1. m[1] \in Tools /\ m[2] # "clone"
      BY <1>0, <2>3 DEF MadeOK
    <3>2. InPlace(m) \/ \E i \in Folders : InTrash(m, i)
      BY <1>0, <2>3 DEF ContentKept, InPlace, InTrash
    <3>3. CASE InPlace(m)
      <4>1. m[1] # t
        BY <1>3, <3>1, <3>3 DEF Edit, InPlace
      <4> QED
        BY <1>0, <1>3, <3>1, <3>3, <4>1 DEF Edit, InPlace, TypeInv, TreeOK
    <3>4. CASE \E i \in Folders : InTrash(m, i)
      BY <1>3, <3>4 DEF Edit, InTrash
    <3> QED
      BY <3>2, <3>3, <3>4
  <2> QED
    BY <1>3, <2>2, <2>3 DEF Edit
<1>4. ASSUME NEW k \in Folders, Clean(k) PROVE ContentKept'
  <2> SUFFICES ASSUME NEW m \in made' \ discarded'
               PROVE  InPlace(m)' \/ \E i \in Folders : InTrash(m, i)'
    BY DEF ContentKept, InPlace, InTrash
  <2>1. m \in made \ discarded /\ m = <<m[1], m[2]>> /\ m[2] # None
    BY <1>0, <1>4, ModeAssumption DEF Clean, MadeOK, Bodies
  <2>2. ~InTrash(m, k)
    BY <1>4, <2>1 DEF Clean, InTrash
  <2>3. InPlace(m) \/ \E i \in Folders : InTrash(m, i)
    BY <1>0, <2>1 DEF ContentKept, InPlace, InTrash
  <2>4. UNCHANGED <<form, body>> /\ \A i \in Folders \ {k} : trash'[i] = trash[i]
    BY <1>0, <1>4 DEF Clean, TypeInv, TreeOK
  <2> QED
    BY <2>2, <2>3, <2>4 DEF InPlace, InTrash
<1>5. ASSUME NEW k \in Folders, RecoverByHand(k) PROVE ContentKept'
  BY <1>5, FillSafe DEF RecoverByHand
<1> QED
  BY <1>1, <1>2, <1>3, <1>4, <1>5 DEF World

\* The options of a command do not change while it runs.
LEMMA OptsNext ==
    ASSUME \A o \in Options : o.immediate => o.force,
           TypeInv, NamesInv, OptsOK, [Next]_vars
    PROVE  OptsOK'
<1>0. Idle.opt.immediate = FALSE
  BY DEF Idle
<1>1. \A q \in Procs : job[q] \in Jobs
  BY JobAt
<1>2. ASSUME NEW p \in Procs, NEW n, job' = [job EXCEPT ![p] = n],
             n.opt.immediate => n.opt.force
      PROVE  OptsOK'
  BY <1>2 DEF OptsOK, TypeInv
<1>3. ASSUME NEW p \in Procs, NEW n, job' = [job EXCEPT ![p] = n],
             n.opt \in {job[p].opt, Idle.opt}
      PROVE  OptsOK'
  BY <1>0, <1>2, <1>3 DEF OptsOK
<1>4. ASSUME NEW p \in Procs, Return(p) PROVE OptsOK'
  BY <1>3, <1>4 DEF Return
<1>5. ASSUME NEW p \in Procs, NEW s, Goto(p, s) PROVE OptsOK'
  BY <1>1, <1>5 DEF Goto, OptsOK, TypeInv, Jobs
<1>6. ASSUME NEW p \in Procs, NEW t \in Tools, NEW forced \in {"none", "dev", "publish"},
             NEW opt \in Options, NEW explicit \in BOOLEAN,
             Switch(p, t, forced, opt, explicit)
      PROVE  OptsOK'
  <2>1. \A act, s : [Started(t, act, opt) EXCEPT !.pc = s].opt = opt
    BY DEF Started, Idle
  <2>2. \A act, s, e : [Started(t, act, opt) EXCEPT !.pc = s, !.edit = e].opt = opt
    BY DEF Started, Idle
  <2>3. CASE SwitchDev(p, t, opt, explicit)
    <3> DEFINE s == IF form[t] # "dir" THEN "link"
                    ELSE IF opt.force THEN "remove" ELSE "gate"
               n == [Started(t, "dev", opt) EXCEPT !.pc = s]
    <3>1. job' = [job EXCEPT ![p] = Idle] \/ job' = [job EXCEPT ![p] = n]
      BY <2>3 DEF SwitchDev
    <3>2. n.opt = opt
      BY <2>1
    <3> HIDE DEF n
    <3> QED
      BY <1>2, <1>3, <3>1, <3>2
  <2>4. CASE SwitchPublish(p, t, opt)
    <3> DEFINE n == [Started(t, "publish", opt) EXCEPT !.pc = "load", !.edit = "cache"]
    <3>1. job' = [job EXCEPT ![p] = Idle] \/ job' = [job EXCEPT ![p] = n]
      BY <2>4 DEF SwitchPublish
    <3>2. n.opt = opt
      BY <2>2
    <3> HIDE DEF n
    <3> QED
      BY <1>2, <1>3, <3>1, <3>2
  <2> QED
    BY <1>6, <2>3, <2>4 DEF Switch
<1>7. ASSUME NEW p \in Procs, NEW t \in Tools, Restore(p, t) PROVE OptsOK'
  <2> DEFINE o == Load.origin[t]
             m == [Started(t, "publish", Idle.opt) EXCEPT !.pc = "load"]
             n == [Started(t, "restore", Idle.opt) EXCEPT
                     !.pc = "detach", !.folder = o.folder, !.devs = Load.dev]
  <2>1. \/ job' = [job EXCEPT ![p] = Idle] \/ job' = [job EXCEPT ![p] = m]
        \/ job' = [job EXCEPT ![p] = n]
    BY <1>7 DEF Restore
  <2>2. m.opt = Idle.opt /\ n.opt = Idle.opt
    BY DEF Started, Idle
  <2> HIDE DEF m, n
  <2> QED
    BY <1>3, <2>1, <2>2
<1>8. ASSUME NEW p \in Procs, Proceed(p) PROVE OptsOK'
  <2>1. job[p] \in Jobs /\ job[p] \in GoodJobs
    BY <1>8, JobAt
  <2>2. \A s, e : [job[p] EXCEPT !.pc = s, !.edit = e].opt = job[p].opt
    BY <2>1 DEF Jobs
  <2>3. CASE \/ Gate(p) \/ Publish(p) \/ Detach(p) \/ RemoveFails(p) \/ Relink(p)
             \/ RmtreeFails(p)
    BY <1>4, <1>5, <2>3 DEF Gate, Publish, Detach, RemoveFails, Relink, RmtreeFails
  <2>4. CASE Link(p)
    <3> DEFINE n == [job[p] EXCEPT !.pc = "peek", !.edit = "remember"]
    <3>1. Return(p) \/ job' = [job EXCEPT ![p] = n]
      BY <2>4 DEF Link
    <3> QED
      BY <1>3, <1>4, <2>2, <3>1
  <2>5. CASE Git(p) \/ Recover(p)
    <3> DEFINE n == [job[p] EXCEPT !.pc = "load", !.edit = "clear"]
    <3>1. Return(p) \/ Goto(p, "relink") \/ job' = [job EXCEPT ![p] = n]
      BY <2>5 DEF Git, Recover
    <3> QED
      BY <1>3, <1>4, <1>5, <2>2, <3>1
  <2>6. CASE RemoveNow(p) \/ RemoveToTrash(p)
    BY <2>1, <2>6 DEF RemoveNow, RemoveToTrash, OptsOK, TypeInv, Jobs
  <2>7. CASE Peek(p)
    BY <2>1, <2>7, <1>0 DEF Peek, OptsOK, TypeInv, Jobs
  <2>8. CASE LoadConfig(p) \/ Truncate(p) \/ Write(p)
    <3>1. job[p].pc \in {"load", "trunc", "write"}
      BY <2>8 DEF LoadConfig, Truncate, Write, At
    <3>2. Then(job[p]).opt \in {job[p].opt, Idle.opt}
      BY <2>1, <3>1, OwnAt, ThenOwn
    <3>3. [job[p] EXCEPT !.pc = "trunc", !.mem = Edited(Load, job[p])].opt = job[p].opt
      BY <2>1 DEF Jobs
    <3>4. \/ Goto(p, "write") \/ job' = [job EXCEPT ![p] = Then(job[p])]
          \/ job' = [job EXCEPT ![p] =
                       [job[p] EXCEPT !.pc = "trunc", !.mem = Edited(Load, job[p])]]
      BY <2>8 DEF LoadConfig, Truncate, Write
    <3> QED
      BY <1>3, <1>5, <3>2, <3>3, <3>4
  <2> QED
    BY <1>8, <2>3, <2>4, <2>5, <2>6, <2>7, <2>8 DEF Proceed
<1>9. CASE World
  <2>1. job' = job
    BY <1>9 DEF World, Edit, LoseDev, Clean, RecoverByHand
  <2> QED
    BY <2>1 DEF OptsOK
<1>10. CASE UNCHANGED vars
  BY <1>10 DEF vars, OptsOK
<1> QED
  BY <1>4, <1>6, <1>7, <1>8, <1>9, <1>10 DEF Next, Begin, Crash

\* Only Edit() adds to the history, and it adds edits.
LEMMA MadeNext == MadeOK /\ [Next]_vars => MadeOK'
<1> SUFFICES ASSUME MadeOK, [Next]_vars PROVE MadeOK'
  OBVIOUS
<1>1. made' = made \/ \E t \in Tools : made' = made \cup {<<t, "edits">>}
  <2>1. ASSUME NEW p \in Procs, Begin(p) \/ Crash(p) PROVE made' = made
    BY <2>1 DEF Begin, Switch, Restore, Crash, hist
  <2>2. ASSUME NEW p \in Procs, Proceed(p) PROVE made' = made
    BY <2>2 DEF Proceed, Gate, RemoveNow, RmtreeFails, RemoveToTrash, RemoveFails,
       Link, Publish, Git, Detach, Recover, Relink, Peek, LoadConfig, Truncate, Write, hist
  <2>3. CASE World
    BY <2>3 DEF World, Edit, LoseDev, Clean, RecoverByHand, hist
  <2>4. CASE UNCHANGED vars
    BY <2>4 DEF vars
  <2> QED
    BY <2>1, <2>2, <2>3, <2>4 DEF Next
<1> QED
  BY <1>1 DEF MadeOK

\* Where --immediate is given only together with --force, what a person wrote in
\* a tool's directory is there, or in the trash, unless they chose to delete it,
\* whatever the commands of several processes, errors, kills and users do.
THEOREM ContentSafe ==
    ASSUME \A o \in Options : o.immediate => o.force
    PROVE  Spec => []ContentKept
<1>1. Init => SafeInv
  <2> SUFFICES ASSUME Init PROVE SafeInv
    OBVIOUS
  <2>1. TypeInv
    BY TypeInvInit
  <2>2. NamesInv
    <3>1. \A m : OriginsIn(NoConfig, m)
      BY DEF OriginsIn, NoConfig
    <3>2. \A p \in Procs : job[p] = Idle
      BY DEF Init
    <3>3. config = NoConfig /\ calls = 0 /\ \A k \in Folders : trash[k] = None
      BY DEF Init
    <3> QED
      BY <3>1, <3>2, <3>3, IdleOwn DEF NamesInv, IdsDistinct, IdsFree, Unused
  <2>3. OptsOK
    BY DEF Init, OptsOK, Idle
  <2>4. MadeOK
    BY DEF Init, MadeOK
  <2>5. ContentKept
    BY ModeAssumption DEF Init, ContentKept
  <2> QED
    BY <2>1, <2>2, <2>3, <2>4, <2>5 DEF SafeInv
<1>2. SafeInv /\ [Next]_vars => SafeInv'
  <2> SUFFICES ASSUME SafeInv, [Next]_vars PROVE SafeInv'
    OBVIOUS
  <2>1. TypeInv' /\ NamesInv' /\ OptsOK' /\ MadeOK'
    BY TypeInvNext, NamesNext, OptsNext, MadeNext DEF SafeInv
  <2>2. ContentKept'
    <3>1. CASE UNCHANGED vars
      BY <3>1 DEF vars, SafeInv, ContentKept
    <3> QED
      BY <3>1, ProceedSafe, WorldSafe DEF Next
  <2> QED
    BY <2>1, <2>2 DEF SafeInv
<1>3. SafeInv => ContentKept
  BY DEF SafeInv
<1> QED
  BY <1>1, <1>2, <1>3, PTL DEF Spec

-----------------------------------------------------------------------------
(* The way back: one command at a time, copies made whole, edits of            *)
(* mode_local.json that neither fail nor are cut short                         *)

\* Commands run one after the other, and nobody recovers a backup by hand.
OneAtATime == "recover" \notin UserActs /\ \A p, q \in Procs : p = q

\* No copy or clone that fails leaves a part of a directory behind.
WholeCopies == {"partial", "rest", "leftover"} \cap FaultAt = {}

\* An edit of mode_local.json that begins is made.
EditsMade == "save" \notin FaultAt /\ {"load", "trunc", "write"} \cap CrashAt = {}

OwnKept(t, k) == trash[k] # None /\ trash[k].tool = t /\ trash[k].body = "own"
GivenUp(t, k) == /\ <<t, "own">> \in discarded
                 /\ trash[k] = None \/ trash[k].body = "rest"
Saving(j) == j.pc \in {"load", "trunc", "write"}
Clearing(j, t) == j.tool = t /\ j.edit = "clear" /\ Saving(j)
Origin(t, k) == config.origin[t] # None /\ config.origin[t].folder = k

\* An unregistered directory is what its author wrote, or what is left of it by
\* an rmtree() that raised.
AuthorsOwn == \A t \in Tools : form[t] = "dir" /\ t \notin registered =>
    body[t] = "own" \/ (body[t] = "rest" /\ <<t, "own">> \in discarded)

\* A recorded folder holds the author's work until the command that put it back
\* clears the record, or the user gave it up.
OriginHolds == \A t \in Tools, k \in Folders : Origin(t, k) =>
    \/ OwnKept(t, k) \/ GivenUp(t, k)
    \/ /\ trash[k] = None /\ form[t] = "dir" /\ body[t] = "own"
       /\ \E p \in Procs : Clearing(job[p], t)

\* mode_local.json is whole except while a command writes it.
WholeFile == torn => \E p \in Procs : job[p].pc = "write"

\* What is about to be written is the edit of what the file still holds.
FreshEdit == \A p \in Procs :
    job[p].pc \in {"trunc", "write"} => job[p].mem = Edited(config, job[p])

\* The folder about to be recorded holds the author's work.
BackupHolds == \A p \in Procs : \A k \in Folders :
    /\ job[p].pc = "link" \/ job[p].edit \in {"remember", "record"}
    /\ job[p].prior = "embedded" /\ job[p].folder = k
    => OwnKept(job[p].tool, k) \/ GivenUp(job[p].tool, k)

\* What the command found is still so.
StillEmbedded == \A p \in Procs :
    job[p].act = "dev" /\ job[p].pc \in {"gate", "remove"} /\ job[p].prior = "embedded"
    => form[job[p].tool] = "dir" /\ job[p].tool \notin registered

\* What cmd_restore() recovers is what the record names.
StillOrigin == \A p \in Procs :
    job[p].pc \in {"detach", "recover"} => Origin(job[p].tool, job[p].folder)

OriginInv == /\ AuthorsOwn /\ OriginHolds /\ WholeFile /\ FreshEdit
             /\ BackupHolds /\ StillEmbedded /\ StillOrigin

\* The step, the edit and the command of a process go together.
Fits(j) ==
    /\ j.pc \in {"gate", "remove", "link", "publish", "git", "detach", "recover",
                 "relink"} => j.edit = "cache"
    /\ j.pc \in {"publish", "git"} \/ (Saving(j) /\ j.edit = "cache")
         => j.act = "publish"
    /\ j.pc = "idle" => ~j.removed
    /\ j.pc \in {"gate", "remove"} => j.act \in {"dev", "publish"} /\ ~j.removed
    /\ j.pc \in {"publish", "detach", "recover", "relink"} => ~j.removed
    /\ j.pc = "link" \/ j.edit \in {"remember", "record"} => j.act = "dev"
    /\ j.pc \in {"detach", "recover", "relink"} => j.act = "restore"
    /\ j.act = "restore" => ~j.removed
    /\ j.edit = "forget" => j.act = "restore"
    /\ j.edit = "clear" => j.act \in {"publish", "restore"}
    /\ j.act = "publish" /\ j.removed => j.pc = "git" \/ j.edit = "clear"
    /\ j.edit = "record" => j.removed
    /\ Saving(j) /\ j.edit = "cache" => ~j.removed
    /\ j.pc \in {"gate", "remove", "publish"} \/ (Saving(j) /\ j.edit = "cache")
         => j.folder = None
PathInv == \A p \in Procs : Fits(job[p])

\* A process between two commands fits.
LEMMA IdleFits == Fits(Idle)
  BY DEF Idle, Fits, Saving

\* Then() leads to a step that fits.
LEMMA ThenFits ==
    ASSUME NEW j \in Jobs, Fits(j), Saving(j) PROVE Fits(Then(j))
<1>1. CASE j.edit = "cache"
  BY <1>1 DEF Then, Jobs, Fits, Saving
<1>2. CASE j.edit = "remember" /\ j.removed /\ j.prior \in {"embedded", "submodule"}
  BY <1>2 DEF Then, Jobs, Fits, Saving
<1>3. CASE j.edit = "clear" /\ j.act = "restore"
  BY <1>3 DEF Then, Jobs, Fits, Saving
<1>4. CASE /\ j.edit # "cache" /\ ~(j.edit = "clear" /\ j.act = "restore")
           /\ ~(j.edit = "remember" /\ j.removed /\ j.prior \in {"embedded", "submodule"})
  <2>1. Then(j) = Idle
    BY <1>4 DEF Then
  <2> QED
    BY <2>1, IdleFits
<1> QED
  BY <1>1, <1>2, <1>3, <1>4

\* Commands begin with a step that fits.
LEMMA BeginFits ==
    ASSUME TypeInv, PathInv, NEW p \in Procs, Begin(p) PROVE Fits(job'[p])
<1>1. /\ Idle.removed = FALSE /\ Idle.edit = "cache" /\ Idle \in Jobs
  BY IdleGood DEF Idle, GoodJobs
<1>2. ASSUME NEW t, NEW opt, NEW s \in {"link", "remove", "gate"}
      PROVE  Fits([Started(t, "dev", opt) EXCEPT !.pc = s])
  BY DEF Started, Idle, Fits, Saving
<1>3. ASSUME NEW t, NEW opt
      PROVE  /\ Fits([Started(t, "publish", opt) EXCEPT !.pc = "load", !.edit = "cache"])
             /\ Fits([Started(t, "publish", opt) EXCEPT !.pc = "load"])
  BY DEF Started, Idle, Fits, Saving
<1>4. ASSUME NEW t, NEW opt, NEW k, NEW d
      PROVE  Fits([Started(t, "restore", opt) EXCEPT
                     !.pc = "detach", !.folder = k, !.devs = d])
  BY DEF Started, Idle, Fits, Saving
<1>5. ASSUME NEW t \in Tools, NEW forced \in {"none", "dev", "publish"},
             NEW opt \in Options, NEW explicit \in BOOLEAN,
             Switch(p, t, forced, opt, explicit)
      PROVE  Fits(job'[p])
  <2>1. CASE SwitchDev(p, t, opt, explicit)
    <3> DEFINE s == IF form[t] # "dir" THEN "link"
                    ELSE IF opt.force THEN "remove" ELSE "gate"
               n == [Started(t, "dev", opt) EXCEPT !.pc = s]
    <3>1. job'[p] = Idle \/ job'[p] = n
      BY <2>1 DEF SwitchDev, TypeInv
    <3>2. s \in {"link", "remove", "gate"}
      OBVIOUS
    <3>3. Fits(n)
      <4> HIDE DEF s
      <4> QED
        BY <1>2, <3>2
    <3> HIDE DEF n
    <3> QED
      BY <3>1, <3>3, IdleFits
  <2>2. CASE SwitchPublish(p, t, opt)
    <3> DEFINE n == [Started(t, "publish", opt) EXCEPT !.pc = "load", !.edit = "cache"]
    <3>1. job'[p] = Idle \/ job'[p] = n
      BY <2>2 DEF SwitchPublish, TypeInv
    <3>2. Fits(n)
      BY <1>3
    <3> HIDE DEF n
    <3> QED
      BY <3>1, <3>2, IdleFits
  <2> QED
    BY <1>5, <2>1, <2>2 DEF Switch
<1>6. ASSUME NEW t \in Tools, Restore(p, t) PROVE Fits(job'[p])
  <2> DEFINE o == Load.origin[t]
             m == [Started(t, "publish", Idle.opt) EXCEPT !.pc = "load"]
             n == [Started(t, "restore", Idle.opt) EXCEPT
                     !.pc = "detach", !.folder = o.folder, !.devs = Load.dev]
  <2>1. job'[p] = Idle \/ job'[p] = m \/ job'[p] = n
    BY <1>6 DEF Restore, TypeInv
  <2>2. Fits(m) /\ Fits(n)
    BY <1>3, <1>4
  <2> HIDE DEF m, n
  <2> QED
    BY <2>1, <2>2, IdleFits
<1> QED
  BY <1>5, <1>6 DEF Begin

\* They go on with steps that fit.
LEMMA ProceedFits ==
    ASSUME TypeInv, PathInv, NEW p \in Procs, Proceed(p) PROVE Fits(job'[p])
<1>0. job[p] \in Jobs /\ Fits(job[p]) /\ Ready(job[p]) /\ job \in [Procs -> GoodJobs]
  BY JobAt DEF PathInv, TypeInv
<1>1. ASSUME Return(p) PROVE Fits(job'[p])
  BY <1>0, <1>1, IdleFits DEF Return
<1>3. CASE Gate(p)
  <2>1. job'[p] = Idle \/ job'[p] = [job[p] EXCEPT !.pc = "remove"]
    BY <1>0, <1>3 DEF Gate, Return, Goto
  <2>2. job[p].pc = "gate"
    BY <1>3 DEF Gate, At
  <2> QED
    BY <1>0, <2>1, <2>2, IdleFits DEF Jobs, Fits, Saving
<1>4. CASE RemoveNow(p) \/ RemoveToTrash(p)
  BY <1>0, <1>4 DEF RemoveNow, RemoveToTrash, At, Onward, Jobs, Fits, Saving
<1>5. CASE RmtreeFails(p) \/ RemoveFails(p) \/ Relink(p)
  BY <1>1, <1>5 DEF RmtreeFails, RemoveFails, Relink
<1>6. CASE Link(p)
  BY <1>0, <1>1, <1>6 DEF Link, At, Jobs, Fits, Saving
<1>7. CASE Publish(p)
  <2>1. job'[p] = Idle \/ \E s \in {"git", "remove", "gate"} :
                              job'[p] = [job[p] EXCEPT !.pc = s]
    BY <1>0, <1>7 DEF Publish, Return, Goto
  <2>2. job[p].pc = "publish"
    BY <1>7 DEF Publish, At
  <2> QED
    BY <1>0, <2>1, <2>2, IdleFits DEF Jobs, Fits, Saving
<1>8. CASE Git(p)
  BY <1>0, <1>1, <1>8 DEF Git, At, Jobs, Fits, Saving
<1>9. CASE Detach(p)
  <2>1. job'[p] = Idle \/ job'[p] = [job[p] EXCEPT !.pc = "recover"]
    BY <1>0, <1>9 DEF Detach, Return, Goto
  <2>2. job[p].pc = "detach"
    BY <1>9 DEF Detach, At
  <2> QED
    BY <1>0, <2>1, <2>2, IdleFits DEF Jobs, Fits, Saving
<1>10. CASE Recover(p)
  <2>1. \/ job'[p] = [job[p] EXCEPT !.pc = "relink"]
        \/ job'[p] = [job[p] EXCEPT !.pc = "load", !.edit = "clear"]
    BY <1>0, <1>10 DEF Recover, Goto
  <2>2. job[p].pc = "recover"
    BY <1>10 DEF Recover, At
  <2>3. CASE job'[p] = [job[p] EXCEPT !.pc = "relink"]
    BY <1>0, <2>2, <2>3 DEF Jobs, Fits, Saving
  <2>4. CASE job'[p] = [job[p] EXCEPT !.pc = "load", !.edit = "clear"]
    BY <1>0, <2>2, <2>4 DEF Jobs, Fits, Saving
  <2> QED
    BY <2>1, <2>3, <2>4
<1>11. CASE Peek(p)
  <2> DEFINE d == IF job[p].edit = "forget" THEN Load.dev \ {job[p].tool}
                  ELSE Load.dev \cup {job[p].tool}
             n == [job[p] EXCEPT !.pc = "load", !.devs = d]
  <2>1. job'[p] = Idle \/ job'[p] = n
    BY <1>0, <1>11 DEF Peek
  <2>2. job[p].edit \in {"remember", "forget"}
    BY <1>0, <1>11 DEF Peek, At, Ready
  <2> HIDE DEF d
  <2> QED
    BY <1>0, <2>1, <2>2, IdleFits DEF Jobs, Fits, Saving
<1>12. CASE LoadConfig(p) \/ Truncate(p) \/ Write(p)
  <2> DEFINE c == Edited(Load, job[p])
             n == [job[p] EXCEPT !.pc = "trunc", !.mem = c]
  <2>1. Saving(job[p])
    BY <1>12 DEF LoadConfig, Truncate, Write, At, Saving
  <2>2. \/ job'[p] = Then(job[p]) \/ job'[p] = n
        \/ job'[p] = [job[p] EXCEPT !.pc = "write"]
    BY <1>0, <1>12 DEF LoadConfig, Truncate, Write, Goto
  <2> HIDE DEF c
  <2>3. CASE job'[p] = Then(job[p])
    BY <1>0, <2>1, <2>3, ThenFits
  <2>4. CASE job'[p] = n
    BY <1>0, <2>1, <2>4 DEF Jobs, Fits, Saving
  <2>5. CASE job'[p] = [job[p] EXCEPT !.pc = "write"]
    BY <1>0, <2>1, <2>5 DEF Jobs, Fits, Saving
  <2> QED
    BY <2>2, <2>3, <2>4, <2>5
<1> QED
  BY <1>3, <1>4, <1>5, <1>6, <1>7, <1>8, <1>9, <1>10, <1>11, <1>12 DEF Proceed

\* Every step keeps PathInv.
LEMMA PathNext == TypeInv /\ PathInv /\ [Next]_vars => PathInv'
<1> SUFFICES ASSUME TypeInv, PathInv, [Next]_vars PROVE PathInv'
  OBVIOUS
<1>1. ASSUME NEW p \in Procs, Begin(p) \/ Proceed(p) \/ Crash(p) PROVE PathInv'
  <2>1. \A q \in Procs \ {p} : job'[q] = job[q]
    BY <1>1 DEF Begin, Switch, SwitchDev, SwitchPublish, Restore, Proceed, Gate,
       RemoveNow, RmtreeFails, RemoveToTrash, RemoveFails, Link, Publish, Git,
       Detach, Recover, Relink, Peek, LoadConfig, Truncate, Write, Crash, Return, Goto, TypeInv
  <2>2. Fits(job'[p])
    BY <1>1, BeginFits, ProceedFits, IdleFits DEF Crash, Return, TypeInv
  <2> QED
    BY <2>1, <2>2 DEF PathInv
<1>2. CASE World \/ UNCHANGED vars
  <2>1. job' = job
    BY <1>2 DEF World, Edit, LoseDev, Clean, RecoverByHand, vars
  <2> QED
    BY <2>1 DEF PathInv
<1> QED
  BY <1>1, <1>2 DEF Next

WayInv == TypeInv /\ NamesInv /\ PathInv /\ OriginInv

\* A folder that is recorded, or that a command names, is not the one that a
\* command still has to fill.
LEMMA NamedElsewhere ==
    ASSUME TypeInv, NamesInv, NEW p \in Procs, Pending(job[p])
    PROVE  /\ \A t \in Tools, k \in Folders : Origin(t, k) => k # job[p].id
           /\ \A q \in Procs : job[q].folder \in Folders => job[q].folder # job[p].id
<1>1. None \notin Folders
  BY ModeAssumption
<1>2. ASSUME NEW t \in Tools, NEW k \in Folders, Origin(t, k) PROVE k # job[p].id
  <2>1. k \in mine[t]
    BY <1>1, <1>2 DEF Origin, NamesInv, OriginsIn
  <2> QED
    BY <2>1 DEF mine
<1>3. ASSUME NEW q \in Procs, job[q].folder \in Folders
      PROVE  job[q].folder # job[p].id
  <2>1. job[q].tool \in Tools /\ job[q].folder \in mine[job[q].tool]
    BY <1>1, <1>3, OwnAt DEF OwnIn
  <2> QED
    BY <2>1 DEF mine
<1> QED
  BY <1>2, <1>3

\* A step of the command that touches no directory, no backup and no record,
\* and is not a part of an edit, keeps OriginInv if the command may go on so.
LEMMA QuietWay ==
    ASSUME WayInv, OneAtATime, UNCHANGED <<config, torn, trash, discarded, registered>>,
           \A t \in Tools : form[t] = "dir" => form'[t] = "dir" /\ body'[t] = body[t],
           \A t \in Tools : form'[t] = "dir" => form[t] = "dir",
           NEW p \in Procs, ~Saving(job[p]), job'[p].pc \notin {"trunc", "write"},
           \/ ~(job'[p].pc = "link" \/ job'[p].edit \in {"remember", "record"})
           \/ job'[p].folder = None
           \/ /\ job'[p].prior = job[p].prior /\ job'[p].folder = job[p].folder
              /\ job'[p].tool = job[p].tool
              /\ job[p].pc = "link" \/ job[p].edit \in {"remember", "record"},
           job'[p].act = "dev" /\ job'[p].pc \in {"gate", "remove"}
             /\ job'[p].prior = "embedded"
             => /\ job'[p].tool \in Tools /\ form[job'[p].tool] = "dir"
                /\ job'[p].tool \notin registered,
           job'[p].pc \in {"detach", "recover"} => Origin(job'[p].tool, job'[p].folder)
    PROVE  OriginInv'
<1>0. /\ OriginInv /\ \A q \in Procs : q = p
      /\ None \notin Folders
  BY ModeAssumption DEF WayInv, OneAtATime
<1>1. AuthorsOwn'
  BY <1>0 DEF OriginInv, AuthorsOwn
<1>2. OriginHolds'
  BY <1>0 DEF OriginInv, OriginHolds, Origin, OwnKept, GivenUp, Clearing
<1>3. WholeFile'
  BY <1>0 DEF OriginInv, WholeFile, Saving
<1>4. FreshEdit'
  BY <1>0 DEF OriginInv, FreshEdit
<1>5. BackupHolds'
  BY <1>0 DEF OriginInv, BackupHolds, OwnKept, GivenUp
<1>6. StillEmbedded'
  BY <1>0 DEF OriginInv, StillEmbedded
<1>7. StillOrigin'
  BY <1>0 DEF OriginInv, StillOrigin, Origin
<1> QED
  BY <1>1, <1>2, <1>3, <1>4, <1>5, <1>6, <1>7 DEF OriginInv

\* A command that ends outside an edit keeps OriginInv.
LEMMA ReturnWay ==
    ASSUME WayInv, OneAtATime, UNCHANGED <<config, torn, trash, discarded, registered>>,
           \A t \in Tools : form[t] = "dir" => form'[t] = "dir" /\ body'[t] = body[t],
           \A t \in Tools : form'[t] = "dir" => form[t] = "dir",
           NEW p \in Procs, ~Saving(job[p]), Return(p)
    PROVE  OriginInv'
<1>1. job'[p] = Idle
  BY DEF Return, WayInv, TypeInv
<1>2. Idle.pc = "idle" /\ Idle.folder = None /\ Idle.edit = "cache"
  BY DEF Idle
<1> QED
  BY <1>1, <1>2, QuietWay

\* A command that goes on to a step past which nothing is recorded.
LEMMA GotoWay ==
    ASSUME WayInv, OneAtATime, UNCHANGED <<config, torn, trash, discarded, registered>>,
           \A t \in Tools : form[t] = "dir" => form'[t] = "dir" /\ body'[t] = body[t],
           \A t \in Tools : form'[t] = "dir" => form[t] = "dir",
           NEW p \in Procs, ~Saving(job[p]),
           NEW s \in {"gate", "remove", "git", "recover", "relink"}, Goto(p, s),
           job[p].act = "dev" /\ s \in {"gate", "remove"} => job[p].pc \in {"gate", "remove"},
           s = "recover" => job[p].pc = "detach"
    PROVE  OriginInv'
<1>0. job[p] \in Jobs /\ OriginInv
  BY JobAt DEF WayInv
<1>1. job'[p] = [job[p] EXCEPT !.pc = s]
  BY DEF Goto, WayInv, TypeInv
<1>2. /\ job'[p].pc = s /\ job'[p].prior = job[p].prior /\ job'[p].tool = job[p].tool
      /\ job'[p].folder = job[p].folder /\ job'[p].edit = job[p].edit
      /\ job'[p].act = job[p].act
  BY <1>0, <1>1 DEF Jobs
<1>3. job[p].pc \in {"gate", "remove"} => job[p].tool \in Tools
  BY JobAt DEF WayInv, Ready
<1> QED
  BY <1>0, <1>2, <1>3, QuietWay DEF OriginInv, StillEmbedded, StillOrigin

\* A command that begins finds what OriginInv says of it.
LEMMA BeginWay ==
    ASSUME WayInv, OneAtATime, NEW p \in Procs, Begin(p) PROVE OriginInv'
<1>0. /\ job \in [Procs -> GoodJobs]
      /\ Idle.folder = None /\ Idle.edit = "cache" /\ Idle.pc = "idle"
  BY DEF WayInv, TypeInv, Idle
<1>1. ASSUME NEW t \in Tools, NEW forced \in {"none", "dev", "publish"},
             NEW opt \in Options, NEW explicit \in BOOLEAN,
             Switch(p, t, forced, opt, explicit)
      PROVE  OriginInv'
  <2>1. job[p].pc = "idle" /\ UNCHANGED <<form, body, config, torn, trash, discarded, registered>>
    BY <1>1 DEF Switch, At, tree, hist
  <2>2. StateOf(t) = "embedded" => form[t] = "dir" /\ t \notin registered
    BY DEF StateOf
  <2>3. \A act, s : LET n == [Started(t, act, opt) EXCEPT !.pc = s] IN
          /\ n.pc = s /\ n.prior = StateOf(t) /\ n.folder = None /\ n.tool = t
    BY DEF Started, Idle
  <2>4. \A act, s, e : LET n == [Started(t, act, opt) EXCEPT !.pc = s, !.edit = e] IN
          n.pc = s /\ n.folder = None
    BY DEF Started, Idle
  <2>5. CASE SwitchDev(p, t, opt, explicit)
    <3> DEFINE s == IF form[t] # "dir" THEN "link"
                    ELSE IF opt.force THEN "remove" ELSE "gate"
               n == [Started(t, "dev", opt) EXCEPT !.pc = s]
    <3>1. job'[p] = Idle \/ job'[p] = n
      BY <1>0, <2>5 DEF SwitchDev
    <3>2. n.pc = s /\ n.prior = StateOf(t) /\ n.folder = None /\ n.tool = t
      BY <2>3
    <3>3. s \in {"link", "remove", "gate"}
      OBVIOUS
    <3> HIDE DEF n, s
    <3> QED
      BY <1>0, <2>1, <2>2, <3>1, <3>2, <3>3, QuietWay DEF Saving
  <2>6. CASE SwitchPublish(p, t, opt)
    <3> DEFINE n == [Started(t, "publish", opt) EXCEPT !.pc = "load", !.edit = "cache"]
    <3>1. job'[p] = Idle \/ job'[p] = n
      BY <1>0, <2>6 DEF SwitchPublish
    <3>2. n.pc = "load" /\ n.folder = None
      BY <2>4
    <3> HIDE DEF n
    <3> QED
      BY <1>0, <2>1, <3>1, <3>2, QuietWay DEF Saving
  <2> QED
    BY <1>1, <2>5, <2>6 DEF Switch
<1>2. ASSUME NEW t \in Tools, Restore(p, t) PROVE OriginInv'
  <2> DEFINE o == Load.origin[t]
             m == [Started(t, "publish", Idle.opt) EXCEPT !.pc = "load"]
             n == [Started(t, "restore", Idle.opt) EXCEPT
                     !.pc = "detach", !.folder = o.folder, !.devs = Load.dev]
  <2>1. job[p].pc = "idle" /\ UNCHANGED <<form, body, config, torn, trash, discarded, registered>>
    BY <1>2 DEF Restore, At, tree, hist
  <2>2. \/ job'[p] = Idle \/ job'[p] = m
        \/ job'[p] = n /\ o # None
    BY <1>0, <1>2 DEF Restore
  <2>3. m.pc = "load" /\ m.folder = None
    BY DEF Started, Idle
  <2>4. n.pc = "detach" /\ n.folder = o.folder /\ n.edit = "cache" /\ n.tool = t
    BY DEF Started, Idle
  <2>5. o # None => Origin(t, o.folder)
    <3>1. NoConfig.origin[t] = None
      BY DEF NoConfig
    <3> QED
      BY <3>1 DEF Load, Origin
  <2> HIDE DEF m, n, o
  <2>6. CASE job'[p] = Idle \/ job'[p] = m
    BY <1>0, <2>1, <2>3, <2>6, QuietWay DEF Saving
  <2>7. CASE job'[p] = n /\ o # None
    BY <2>1, <2>4, <2>5, <2>7, QuietWay DEF Saving
  <2> QED
    BY <2>2, <2>6, <2>7
<1> QED
  BY <1>1, <1>2 DEF Begin

\* The steps of a command up to and after the removal keep OriginInv.
LEMMA CalmWay ==
    ASSUME WayInv, OneAtATime, WholeCopies, NEW p \in Procs,
           \/ Gate(p) \/ Link(p) \/ Publish(p) \/ Detach(p) \/ Relink(p) \/ Peek(p)
    PROVE  OriginInv'
<1>0. /\ job[p] \in Jobs /\ job \in [Procs -> GoodJobs] /\ Fits(job[p])
      /\ form \in [Tools -> {"dir", "link", "none"}] /\ Ready(job[p])
  BY JobAt DEF WayInv, TypeInv, TreeOK, PathInv
<1>1. CASE Gate(p)
  <2>1. /\ UNCHANGED <<config, torn, trash, discarded, registered, form, body>>
        /\ job[p].pc = "gate" /\ (Return(p) \/ Goto(p, "remove"))
    BY <1>1 DEF Gate, At, tree, hist
  <2> QED
    BY <2>1, ReturnWay, GotoWay DEF Saving
<1>2. CASE Link(p)
  <2>1. /\ UNCHANGED <<config, torn, trash, discarded, registered, body>>
        /\ job[p].pc = "link" /\ job[p].tool \in Tools
    BY <1>0, <1>2 DEF Link, At, hist, Ready
  <2>2. \A t \in Tools : form[t] = "dir" <=> form'[t] = "dir"
    BY <1>0, <1>2 DEF Link
  <2>3. CASE Return(p)
    BY <2>1, <2>2, <2>3, ReturnWay DEF Saving
  <2>4. CASE job' = [job EXCEPT ![p].pc = "peek", ![p].edit = "remember"]
    <3>1. /\ job'[p].pc = "peek" /\ job'[p].prior = job[p].prior
          /\ job'[p].tool = job[p].tool /\ job'[p].folder = job[p].folder
      BY <1>0, <2>4 DEF Jobs
    <3> QED
      BY <2>1, <2>2, <3>1, QuietWay DEF Saving
  <2> QED
    BY <1>2, <2>3, <2>4 DEF Link
<1>3. CASE Publish(p)
  <2>1. /\ UNCHANGED <<config, torn, trash, discarded, registered, body>>
        /\ job[p].pc = "publish"
    BY <1>3 DEF Publish, At, hist
  <2>2. \A t \in Tools : form[t] = "dir" <=> form'[t] = "dir"
    BY <1>0, <1>3 DEF Publish
  <2>3. job[p].act = "publish"
    BY <1>0, <2>1 DEF Fits
  <2>4. Return(p) \/ \E s \in {"git", "remove", "gate"} : Goto(p, s)
    BY <1>3 DEF Publish
  <2>5. CASE Return(p)
    BY <2>1, <2>2, <2>5, ReturnWay DEF Saving
  <2>6. ASSUME NEW s \in {"git", "remove", "gate"}, Goto(p, s) PROVE OriginInv'
    BY <2>1, <2>2, <2>3, <2>6, GotoWay DEF Saving
  <2> QED
    BY <2>4, <2>5, <2>6
<1>4. CASE Detach(p)
  <2>1. /\ UNCHANGED <<config, torn, trash, discarded, registered, body>>
        /\ job[p].pc = "detach" /\ (Return(p) \/ Goto(p, "recover"))
    BY <1>4 DEF Detach, At, hist
  <2>2. \A t \in Tools : form[t] = "dir" <=> form'[t] = "dir"
    BY <1>0, <1>4 DEF Detach
  <2> QED
    BY <2>1, <2>2, ReturnWay, GotoWay DEF Saving
<1>5. CASE Relink(p)
  <2>1. /\ UNCHANGED <<config, torn, trash, discarded, registered, body>>
        /\ job[p].pc = "relink" /\ Return(p)
    BY <1>5 DEF Relink, At, hist
  <2>2. \A t \in Tools : form[t] = "dir" <=> form'[t] = "dir"
    BY <1>0, <1>5 DEF Relink
  <2> QED
    BY <2>1, <2>2, ReturnWay DEF Saving
<1>6. CASE Peek(p)
  <2> DEFINE d == IF job[p].edit = "forget" THEN Load.dev \ {job[p].tool}
                  ELSE Load.dev \cup {job[p].tool}
             n == [job[p] EXCEPT !.pc = "load", !.devs = d]
  <2>1. /\ UNCHANGED <<config, torn, trash, discarded, registered, form, body>>
        /\ job[p].pc = "peek"
    BY <1>6 DEF Peek, At, hist, tree
  <2>2. Return(p) \/ job'[p] = n
    BY <1>0, <1>6 DEF Peek, Return
  <2> HIDE DEF d
  <2>3. /\ n.pc = "load" /\ n.prior = job[p].prior /\ n.tool = job[p].tool
        /\ n.folder = job[p].folder /\ n.edit = job[p].edit
    BY <1>0 DEF Jobs
  <2> HIDE DEF n
  <2>4. CASE Return(p)
    BY <2>1, <2>4, ReturnWay DEF Saving
  <2>5. CASE job'[p] = n
    BY <2>1, <2>3, <2>5, QuietWay DEF Saving
  <2> QED
    BY <2>2, <2>4, <2>5
<1> QED
  BY <1>1, <1>2, <1>3, <1>4, <1>5, <1>6

\* rmtree() keeps OriginInv: what it removes, its user gave up, and no folder
\* is recorded for it.
LEMMA RemoveNowWay ==
    ASSUME WayInv, OneAtATime, NEW p \in Procs, RemoveNow(p) PROVE OriginInv'
<1>0. /\ job[p] \in Jobs /\ Fits(job[p]) /\ OriginInv /\ \A q \in Procs : q = p
      /\ job \in [Procs -> GoodJobs] /\ form \in [Tools -> {"dir", "link", "none"}]
      /\ body \in [Tools -> Bodies \cup {None}] /\ None \notin Folders
  BY JobAt, ModeAssumption DEF WayInv, TypeInv, TreeOK, PathInv, OneAtATime
<1>1. /\ job[p].pc = "remove" /\ UNCHANGED <<registered, config, torn, trash>>
      /\ discarded \subseteq discarded' /\ Empty(job[p].tool)
  BY <1>0 DEF RemoveNow, At
<1>2. /\ job'[p].pc \in {"link", "git"} /\ job'[p].folder = None
      /\ job'[p].edit = "cache"
  <2>1. job[p].folder = None /\ job[p].edit = "cache"
    BY <1>0, <1>1 DEF Fits
  <2> QED
    BY <1>0, <2>1 DEF RemoveNow, Onward, Jobs
<1>3. AuthorsOwn'
  BY <1>0, <1>1 DEF OriginInv, AuthorsOwn, Empty
<1>4. OriginHolds'
  BY <1>0, <1>1 DEF OriginInv, OriginHolds, Origin, OwnKept, GivenUp, Clearing, Saving
<1>5. WholeFile'
  BY <1>0, <1>1 DEF OriginInv, WholeFile
<1>6. FreshEdit' /\ BackupHolds' /\ StillEmbedded' /\ StillOrigin'
  BY <1>0, <1>2 DEF FreshEdit, BackupHolds, StillEmbedded, StillOrigin
<1> QED
  BY <1>3, <1>4, <1>5, <1>6 DEF OriginInv

\* So does an rmtree() that raises.
LEMMA RmtreeFailsWay ==
    ASSUME WayInv, OneAtATime, NEW p \in Procs, RmtreeFails(p) PROVE OriginInv'
<1> DEFINE t == job[p].tool
<1>0. /\ job[p] \in Jobs /\ OriginInv /\ \A q \in Procs : q = p
      /\ job \in [Procs -> GoodJobs] /\ body \in [Tools -> Bodies \cup {None}]
  BY JobAt DEF WayInv, TypeInv, TreeOK, OneAtATime
<1>1. /\ job[p].pc = "remove" /\ UNCHANGED <<form, registered, config, torn, trash>>
      /\ Return(p)
  BY DEF RmtreeFails, At
<1>2. CASE UNCHANGED <<body, discarded>>
  BY <1>1, <1>2, ReturnWay DEF Saving
<1>3. CASE /\ body' = [body EXCEPT ![t] = "rest"] /\ discarded \subseteq discarded'
           /\ body[t] = "own" => <<t, "own">> \in discarded'
  <2>1. /\ job'[p].pc = "idle" /\ job'[p].folder = None /\ job'[p].edit = "cache"
        /\ None \notin Folders
    BY <1>0, <1>1, ModeAssumption DEF Return, Idle
  <2>2. AuthorsOwn'
    BY <1>0, <1>1, <1>3 DEF OriginInv, AuthorsOwn
  <2>3. OriginHolds'
    BY <1>0, <1>1, <1>3
       DEF OriginInv, OriginHolds, Origin, OwnKept, GivenUp, Clearing, Saving
  <2>4. WholeFile'
    BY <1>0, <1>1 DEF OriginInv, WholeFile
  <2>5. FreshEdit' /\ BackupHolds' /\ StillEmbedded' /\ StillOrigin'
    BY <1>0, <2>1 DEF FreshEdit, BackupHolds, StillEmbedded, StillOrigin
  <2> QED
    BY <2>2, <2>3, <2>4, <2>5 DEF OriginInv
<1> QED
  BY <1>2, <1>3 DEF RmtreeFails, GivenUpBy

\* trash() keeps OriginInv: the folder that will be recorded for an embedded
\* directory holds what its author wrote, and no recorded folder is written.
LEMMA ToTrashWay ==
    ASSUME WayInv, OneAtATime, WholeCopies, NEW p \in Procs,
           RemoveToTrash(p) \/ RemoveFails(p)
    PROVE  OriginInv'
<1> DEFINE t == job[p].tool
           i == job[p].id
<1>0. /\ job[p] \in Jobs /\ Fits(job[p]) /\ OriginInv /\ \A q \in Procs : q = p
      /\ job \in [Procs -> GoodJobs] /\ form \in [Tools -> {"dir", "link", "none"}]
      /\ body \in [Tools -> Bodies \cup {None}] /\ trash \in [Folders -> Backups \cup {None}]
      /\ None \notin Folders /\ None \notin Backups
  BY JobAt, ModeAssumption DEF WayInv, TypeInv, TreeOK, PathInv, OneAtATime
<1>1. /\ job[p].pc = "remove" /\ UNCHANGED <<registered, config, torn, discarded>>
      /\ t \in Tools /\ i \in Folders /\ Pending(job[p])
  <2>1. job[p].pc = "remove" /\ UNCHANGED <<registered, config, torn, discarded>>
    BY DEF RemoveToTrash, RemoveFails, At, tree, hist
  <2> QED
    BY <2>1, JobAt DEF WayInv, Pending, Ready
<1>2. CASE RemoveFails(p) /\ UNCHANGED tree
  <2>1. Return(p) /\ UNCHANGED <<form, body, trash>>
    BY <1>2 DEF RemoveFails, tree
  <2> QED
    BY <1>1, <2>1, ReturnWay DEF Saving
<1>3. ASSUME Empty(t), NEW listed \in BOOLEAN,
             trash' = [trash EXCEPT ![i] =
                         [tool |-> t, body |-> body[t], listed |-> listed]],
             job'[p] = Idle \/ (/\ job'[p].pc \in {"link", "git"}
                                /\ job'[p].pc = "link" => job[p].act = "dev"
                                /\ job'[p].folder = i /\ job'[p].tool = t
                                /\ job'[p].prior = job[p].prior
                                /\ job'[p].edit = "cache")
      PROVE  OriginInv'
  <2>1. /\ \A k \in Folders \ {i} : trash'[k] = trash[k]
        /\ trash'[i] = [tool |-> t, body |-> body[t], listed |-> listed]
        /\ [tool |-> t, body |-> body[t], listed |-> listed] # None
    <3>1. [tool |-> t, body |-> body[t], listed |-> listed] \in Backups
      BY <1>0, <1>1 DEF Backups
    <3> QED
      BY <1>0, <1>1, <1>3, <3>1
  <2>2. Idle.pc = "idle" /\ Idle.edit = "cache" /\ Idle.folder = None
    BY DEF Idle
  <2>3. \A u \in Tools, k \in Folders : Origin(u, k) => k # i
    BY <1>1, NamedElsewhere DEF WayInv
  <2>4. AuthorsOwn'
    BY <1>0, <1>1, <1>3 DEF OriginInv, AuthorsOwn, Empty
  <2>5. OriginHolds'
    <3> SUFFICES ASSUME NEW u \in Tools, NEW k \in Folders, Origin(u, k)'
                 PROVE  OwnKept(u, k)' \/ GivenUp(u, k)'
      BY DEF OriginHolds
    <3>1. Origin(u, k) /\ k # i
      BY <1>1, <2>3 DEF Origin
    <3>2. OwnKept(u, k) \/ GivenUp(u, k)
      BY <1>0, <1>1, <3>1 DEF OriginInv, OriginHolds, Clearing, Saving
    <3> QED
      BY <1>1, <2>1, <3>1, <3>2 DEF OwnKept, GivenUp
  <2>6. WholeFile'
    BY <1>0, <1>1 DEF OriginInv, WholeFile
  <2>7. FreshEdit' /\ StillEmbedded' /\ StillOrigin'
    BY <1>0, <1>3, <2>2 DEF FreshEdit, StillEmbedded, StillOrigin
  <2>8. BackupHolds'
    <3> SUFFICES ASSUME NEW k \in Folders, job'[p].pc = "link",
                        job'[p].prior = "embedded", job'[p].folder = k
                 PROVE  OwnKept(job[p].tool, k)' \/ GivenUp(job[p].tool, k)'
      BY <1>0, <1>3, <2>2 DEF BackupHolds
    <3>1. k = i /\ job[p].prior = "embedded" /\ job[p].act = "dev" /\ job'[p].tool = t
      BY <1>0, <1>3, <2>2
    <3>2. form[t] = "dir" /\ t \notin registered
      BY <1>0, <1>1, <3>1 DEF OriginInv, StillEmbedded
    <3>3. body[t] = "own" \/ (body[t] = "rest" /\ <<t, "own">> \in discarded)
      BY <1>0, <1>1, <3>2 DEF OriginInv, AuthorsOwn
    <3> QED
      BY <1>1, <2>1, <3>1, <3>3 DEF OwnKept, GivenUp
  <2> QED
    BY <2>4, <2>5, <2>6, <2>7, <2>8 DEF OriginInv
<1>4. CASE RemoveToTrash(p)
  <2>1. Empty(t)
    BY <1>4 DEF RemoveToTrash, Refused, WholeCopies
  <2>2. /\ job'[p].pc \in {"link", "git"}
        /\ job'[p].pc = "link" => job[p].act = "dev"
        /\ job'[p].folder = i /\ job'[p].tool = t
        /\ job'[p].prior = job[p].prior /\ job'[p].edit = job[p].edit
    BY <1>0, <1>4 DEF RemoveToTrash, Onward, Jobs
  <2>3. job[p].edit = "cache"
    BY <1>0, <1>1 DEF Fits
  <2> QED
    BY <1>3, <1>4, <2>1, <2>2, <2>3 DEF RemoveToTrash
<1>5. CASE /\ RemoveFails(p) /\ Empty(t)
           /\ trash' = [trash EXCEPT ![i] =
                          [tool |-> t, body |-> body[t], listed |-> FALSE]]
  BY <1>0, <1>3, <1>5 DEF RemoveFails, Return
<1>6. RemoveFails(p) =>
        \/ UNCHANGED tree
        \/ /\ Empty(t)
           /\ trash' = [trash EXCEPT ![i] =
                          [tool |-> t, body |-> body[t], listed |-> FALSE]]
  BY Zenon DEF RemoveFails
<1> QED
  BY <1>2, <1>4, <1>5, <1>6

\* git submodule keeps OriginInv: a clone is registered.
LEMMA GitWay ==
    ASSUME WayInv, OneAtATime, WholeCopies, NEW p \in Procs, Git(p)
    PROVE  OriginInv'
<1> DEFINE t == job[p].tool
<1>0. /\ job[p] \in Jobs /\ OriginInv /\ \A q \in Procs : q = p
      /\ job \in [Procs -> GoodJobs] /\ form \in [Tools -> {"dir", "link", "none"}]
      /\ body \in [Tools -> Bodies \cup {None}]
  BY JobAt DEF WayInv, TypeInv, TreeOK, OneAtATime
<1>1. /\ job[p].pc = "git" /\ UNCHANGED <<config, torn, trash, discarded>>
      /\ t \in Tools
  BY JobAt DEF Git, At, hist, Ready, WayInv
<1>2. CASE Return(p) /\ UNCHANGED <<form, body, registered>>
  BY <1>1, <1>2, ReturnWay DEF Saving
<1>3. CASE /\ form' = [form EXCEPT ![t] = "dir"]
           /\ body' = [body EXCEPT ![t] = IF form[t] = "dir" THEN @ ELSE "clone"]
           /\ registered' = registered \cup {t}
           /\ job' = [job EXCEPT ![p].pc = "load", ![p].edit = "clear"]
  <2>1. job'[p].pc = "load" /\ job'[p].edit = "clear"
    BY <1>0, <1>3 DEF Jobs
  <2>2. AuthorsOwn'
    BY <1>0, <1>1, <1>3 DEF OriginInv, AuthorsOwn
  <2>3. OriginHolds'
    BY <1>0, <1>1 DEF OriginInv, OriginHolds, Origin, OwnKept, GivenUp, Clearing, Saving
  <2>4. WholeFile'
    BY <1>0, <1>1 DEF OriginInv, WholeFile
  <2>5. FreshEdit' /\ BackupHolds' /\ StillEmbedded' /\ StillOrigin'
    BY <1>0, <2>1 DEF FreshEdit, BackupHolds, StillEmbedded, StillOrigin
  <2> QED
    BY <2>2, <2>3, <2>4, <2>5 DEF OriginInv
<1>4. \/ Return(p) /\ UNCHANGED <<form, body, registered>>
      \/ /\ form' = [form EXCEPT ![t] = "dir"]
         /\ body' = [body EXCEPT ![t] = IF form[t] = "dir" THEN @ ELSE "clone"]
         /\ registered' = registered \cup {t}
         /\ job' = [job EXCEPT ![p].pc = "load", ![p].edit = "clear"]
  <2>1. ~Refused("partial")
    BY DEF Refused, WholeCopies
  <2> QED
    BY <2>1, Zenon DEF Git
<1> QED
  BY <1>2, <1>3, <1>4

\* recover_folder() keeps OriginInv: it puts back what the author wrote, and the
\* command goes on to clear the record.
LEMMA RecoverWay ==
    ASSUME WayInv, OneAtATime, WholeCopies, NEW p \in Procs, Recover(p)
    PROVE  OriginInv'
<1> DEFINE t == job[p].tool
           k == job[p].folder
<1>0. /\ job[p] \in Jobs /\ OriginInv /\ \A q \in Procs : q = p
      /\ job \in [Procs -> GoodJobs] /\ form \in [Tools -> {"dir", "link", "none"}]
      /\ body \in [Tools -> Bodies \cup {None}] /\ trash \in [Folders -> Backups \cup {None}]
  BY JobAt DEF WayInv, TypeInv, TreeOK, OneAtATime
<1>1. /\ job[p].pc = "recover" /\ UNCHANGED <<config, torn, registered, discarded>>
      /\ t \in Tools /\ k \in Folders
  BY JobAt DEF Recover, At, hist, Ready, WayInv
<1>2. Origin(t, k)
  BY <1>0, <1>1 DEF OriginInv, StillOrigin
<1>3. CASE Goto(p, "relink") /\ UNCHANGED <<form, body, trash>>
  BY <1>1, <1>3, GotoWay DEF Saving
<1>4. ASSUME form[t] = "none", trash[k] # None,
             form' = [form EXCEPT ![t] = IF trash[k].body = None THEN "link" ELSE "dir"],
             body' = [body EXCEPT ![t] = trash[k].body],
             trash' = [trash EXCEPT ![k] = None],
             job' = [job EXCEPT ![p].pc = "load", ![p].edit = "clear"]
      PROVE  OriginInv'
  <2>1. /\ trash[k].tool = t
        /\ \/ trash[k].body = "own"
           \/ trash[k].body = "rest" /\ <<t, "own">> \in discarded
    <3>1. k \in mine[t]
      BY <1>1, <1>2, ModeAssumption DEF Origin, WayInv, NamesInv, OriginsIn
    <3> QED
      BY <1>0, <1>1, <1>2, <1>4, <3>1
         DEF OriginInv, OriginHolds, OwnKept, GivenUp, mine
  <2>2. /\ form'[t] = "dir" /\ trash'[k] = None
        /\ body'[t] = "own" \/ (body'[t] = "rest" /\ <<t, "own">> \in discarded')
    <3>1. "own" # None /\ "rest" # None
      BY ModeAssumption DEF Bodies
    <3> QED
      BY <1>0, <1>1, <1>4, <2>1, <3>1
  <2>3. \A u \in Tools \ {t} : form'[u] = form[u] /\ body'[u] = body[u]
    BY <1>0, <1>4
  <2>4. job'[p].pc = "load" /\ job'[p].edit = "clear" /\ job'[p].tool = t
    BY <1>0, <1>4 DEF Jobs
  <2>5. AuthorsOwn'
    BY <1>0, <1>1, <2>2, <2>3 DEF OriginInv, AuthorsOwn
  <2>6. OriginHolds'
    <3> SUFFICES ASSUME NEW u \in Tools, NEW i \in Folders, Origin(u, i)'
                 PROVE  \/ OwnKept(u, i)' \/ GivenUp(u, i)'
                        \/ /\ trash'[i] = None /\ form'[u] = "dir" /\ body'[u] = "own"
                           /\ Clearing(job'[p], u)
      BY DEF OriginHolds
    <3>1. Origin(u, i) /\ (OwnKept(u, i) \/ GivenUp(u, i))
      BY <1>0, <1>1 DEF Origin, OriginInv, OriginHolds, Clearing, Saving
    <3>2. CASE i # k
      <4>1. trash'[i] = trash[i]
        BY <1>0, <1>4, <3>2
      <4> QED
        BY <1>1, <3>1, <4>1 DEF OwnKept, GivenUp
    <3>3. CASE i = k
      <4>1. i \in mine[u]
        <5>1. None \notin Folders
          BY ModeAssumption
        <5> QED
          BY <3>1, <5>1 DEF Origin, WayInv, NamesInv, OriginsIn
      <4>2. u = t
        BY <1>4, <2>1, <3>3, <4>1 DEF mine
      <4> QED
        BY <2>2, <2>4, <3>3, <4>2 DEF Clearing, Saving, GivenUp
    <3> QED
      BY <3>2, <3>3
  <2>7. WholeFile'
    BY <1>0, <1>1 DEF OriginInv, WholeFile
  <2>8. FreshEdit' /\ BackupHolds' /\ StillEmbedded' /\ StillOrigin'
    BY <1>0, <2>4 DEF FreshEdit, BackupHolds, StillEmbedded, StillOrigin
  <2> QED
    BY <2>5, <2>6, <2>7, <2>8 DEF OriginInv
<1>5. ~Refused("rest") /\ ~Refused("leftover")
  BY DEF Refused, WholeCopies
<1> QED
  BY <1>3, <1>4, <1>5 DEF Recover

\* What an edit does to the recorded origins.
LEMMA EditedOrigin ==
    ASSUME NEW c \in Configs, NEW j \in GoodJobs, j.pc # "idle", NEW u \in Tools
    PROVE  Edited(c, j).origin[u] =
             IF u = j.tool /\ j.edit = "clear" THEN None
             ELSE IF u = j.tool /\ j.edit = "record"
             THEN [prior |-> j.prior,
                   folder |-> IF j.prior = "embedded" THEN j.folder ELSE None]
             ELSE c.origin[u]
<1>1. j.edit \in Edits /\ j.tool \in Tools
  BY DEF GoodJobs, Jobs, Ready
<1> DEFINE o == [prior |-> j.prior,
                 folder |-> IF j.prior = "embedded" THEN j.folder ELSE None]
<1>2. CASE j.edit = "cache"
  BY <1>2 DEF Edited, Configs
<1>3. CASE j.edit \in {"remember", "forget"}
  BY <1>3 DEF Edited, Configs
<1>4. CASE j.edit = "clear"
  <2>1. [c EXCEPT !.origin[j.tool] = None].origin[u] = IF u = j.tool THEN None ELSE c.origin[u]
    BY <1>1 DEF Configs
  <2> QED
    BY <1>4, <2>1 DEF Edited
<1>5. CASE j.edit = "record"
  <2>1. [c EXCEPT !.origin[j.tool] = o].origin[u] = IF u = j.tool THEN o ELSE c.origin[u]
    BY <1>1 DEF Configs
  <2> QED
    BY <1>5, <2>1 DEF Edited
<1> QED
  BY <1>1, <1>2, <1>3, <1>4, <1>5 DEF Edits

\* Then() records nothing that was not about to be recorded.
LEMMA ThenWay ==
    ASSUME NEW j \in Jobs, Saving(j)
    PROVE  /\ Then(j).pc \notin {"trunc", "write", "link", "gate", "remove", "detach",
                                 "recover"}
           /\ Then(j).edit \in {"remember", "record"} =>
                /\ Then(j).prior = j.prior /\ Then(j).folder = j.folder
                /\ Then(j).tool = j.tool /\ j.edit = "remember"
<1>0. Idle.pc = "idle" /\ Idle.edit = "cache"
  BY DEF Idle
<1>1. CASE j.edit = "cache"
  BY <1>1 DEF Then, Jobs
<1>2. CASE j.edit = "remember" /\ j.removed /\ j.prior \in {"embedded", "submodule"}
  BY <1>2 DEF Then, Jobs
<1>3. CASE j.edit = "clear" /\ j.act = "restore"
  BY <1>3 DEF Then, Jobs
<1>4. CASE /\ j.edit # "cache" /\ ~(j.edit = "clear" /\ j.act = "restore")
           /\ ~(j.edit = "remember" /\ j.removed /\ j.prior \in {"embedded", "submodule"})
  <2>1. Then(j) = Idle
    BY <1>4 DEF Then
  <2> QED
    BY <1>0, <2>1
<1> QED
  BY <1>1, <1>2, <1>3, <1>4

\* The three steps of an edit of mode_local.json keep OriginInv.
LEMMA EditWay ==
    ASSUME WayInv, OneAtATime, EditsMade, NEW p \in Procs,
           LoadConfig(p) \/ Truncate(p) \/ Write(p)
    PROVE  OriginInv'
<1> DEFINE j == job[p]
<1>0. /\ j \in Jobs /\ j \in GoodJobs /\ OriginInv /\ \A q \in Procs : q = p
      /\ job \in [Procs -> GoodJobs] /\ config \in Configs /\ None \notin Folders
  BY JobAt, ModeAssumption DEF WayInv, TypeInv, FileOK, OneAtATime
<1>1. /\ Saving(j) /\ j.pc # "idle" /\ j.tool \in Tools
      /\ UNCHANGED <<form, body, registered, trash, discarded>>
  <2>1. Saving(j) /\ UNCHANGED <<form, body, registered, trash, discarded>>
    BY DEF LoadConfig, Truncate, Write, At, Saving, tree, hist
  <2> QED
    BY <1>0, <2>1 DEF Saving, GoodJobs, Ready
<1>2. AuthorsOwn'
  BY <1>0, <1>1 DEF OriginInv, AuthorsOwn
<1>3. ASSUME NEW n, job'[p] = n, n.pc \in {"trunc", "write"}, n.edit = j.edit,
             n.tool = j.tool, n.prior = j.prior, n.folder = j.folder,
             UNCHANGED config, n.mem = Edited(config, n), torn' => n.pc = "write"
      PROVE  OriginInv'
  <2>1. OriginHolds'
    BY <1>0, <1>1, <1>3 DEF OriginInv, OriginHolds, Origin, OwnKept, GivenUp, Clearing, Saving
  <2>2. BackupHolds'
    BY <1>0, <1>1, <1>3 DEF OriginInv, BackupHolds, OwnKept, GivenUp
  <2>3. FreshEdit'
    BY <1>0, <1>3 DEF FreshEdit
  <2>4. WholeFile' /\ StillEmbedded' /\ StillOrigin'
    BY <1>0, <1>3 DEF WholeFile, StillEmbedded, StillOrigin
  <2> QED
    BY <1>2, <2>1, <2>2, <2>3, <2>4 DEF OriginInv
<1>4. ASSUME job'[p] = Then(j), torn' = FALSE,
             \A u \in Tools, k \in Folders : Origin(u, k)' =>
               OwnKept(u, k) \/ GivenUp(u, k)
      PROVE  OriginInv'
  <2>1. OriginHolds'
    BY <1>1, <1>4 DEF OriginHolds, OwnKept, GivenUp
  <2>2. BackupHolds'
    BY <1>0, <1>1, <1>4, ThenWay DEF OriginInv, BackupHolds, OwnKept, GivenUp
  <2>3. FreshEdit' /\ WholeFile' /\ StillEmbedded' /\ StillOrigin'
    BY <1>0, <1>1, <1>4, ThenWay DEF FreshEdit, WholeFile, StillEmbedded, StillOrigin
  <2> QED
    BY <1>2, <2>1, <2>2, <2>3 DEF OriginInv
<1>5. \A n : n.edit = j.edit /\ n.tool = j.tool /\ n.prior = j.prior
               /\ n.folder = j.folder /\ n.devs = j.devs
               => Edited(config, n) = Edited(config, j)
  BY DEF Edited
<1>6. CASE LoadConfig(p)
  <2>1. ~torn /\ Load = config
    BY <1>0, <1>6 DEF OriginInv, WholeFile, LoadConfig, At, Load
  <2>2. UNCHANGED <<config, torn>>
    BY <1>6 DEF LoadConfig
  <2>3. CASE j.edit = "clear" /\ config.origin[j.tool] = None
    <3>1. job'[p] = Then(j)
      BY <1>0, <1>6, <2>1, <2>3 DEF LoadConfig
    <3>2. \A u \in Tools, k \in Folders : Origin(u, k)' => OwnKept(u, k) \/ GivenUp(u, k)
      BY <1>0, <2>2, <2>3 DEF OriginInv, OriginHolds, Origin, Clearing
    <3>3. torn' = FALSE
      BY <2>1, <2>2 DEF WayInv, TypeInv, FileOK
    <3> QED
      BY <1>4, <3>1, <3>2, <3>3
  <2>4. CASE ~(j.edit = "clear" /\ config.origin[j.tool] = None)
    <3> DEFINE c == Edited(config, j)
               n == [j EXCEPT !.pc = "trunc", !.mem = c]
    <3>1. job'[p] = n
      BY <1>0, <1>6, <2>1, <2>4 DEF LoadConfig
    <3> HIDE DEF c
    <3>2. /\ n.pc = "trunc" /\ n.edit = j.edit /\ n.tool = j.tool /\ n.mem = c
          /\ n.prior = j.prior /\ n.folder = j.folder /\ n.devs = j.devs
      BY <1>0 DEF Jobs
    <3>3. n.mem = Edited(config, n)
      BY <1>5, <3>2 DEF c
    <3> HIDE DEF n
    <3> QED
      BY <1>3, <2>1, <2>2, <3>1, <3>2, <3>3
  <2> QED
    BY <2>3, <2>4
<1>7. CASE Truncate(p)
  <2>1. Goto(p, "write") /\ UNCHANGED config /\ j.pc = "trunc"
    BY <1>7 DEF Truncate, Refused, EditsMade, At
  <2> DEFINE n == [j EXCEPT !.pc = "write"]
  <2>2. job'[p] = n
    BY <1>0, <2>1 DEF Goto
  <2>3. /\ n.pc = "write" /\ n.edit = j.edit /\ n.tool = j.tool /\ n.mem = j.mem
        /\ n.prior = j.prior /\ n.folder = j.folder /\ n.devs = j.devs
    BY <1>0 DEF Jobs
  <2>4. n.mem = Edited(config, n)
    BY <1>0, <1>5, <2>1, <2>3 DEF OriginInv, FreshEdit
  <2> HIDE DEF n
  <2> QED
    BY <1>3, <2>1, <2>2, <2>3, <2>4
<1>8. CASE Write(p)
  <2>1. /\ config' = j.mem /\ torn' = FALSE /\ job'[p] = Then(j) /\ j.pc = "write"
    BY <1>0, <1>8 DEF Write, At, Refused, EditsMade
  <2>2. config' = Edited(config, j)
    BY <1>0, <2>1 DEF OriginInv, FreshEdit
  <2>3. ASSUME NEW u \in Tools, NEW k \in Folders, Origin(u, k)'
        PROVE  OwnKept(u, k) \/ GivenUp(u, k)
    <3>1. config'.origin[u] # None /\ config'.origin[u].folder = k
      BY <2>3 DEF Origin
    <3>2. ~(u = j.tool /\ j.edit = "clear")
      BY <1>0, <1>1, <2>2, <3>1, EditedOrigin
    <3>3. CASE u = j.tool /\ j.edit = "record"
      <4> DEFINE f == IF j.prior = "embedded" THEN j.folder ELSE None
                 o == [prior |-> j.prior, folder |-> f]
      <4>0. config'.origin[u] = o /\ o.folder = f
        BY <1>0, <1>1, <2>2, <3>3, EditedOrigin
      <4>1. j.prior = "embedded" /\ j.folder = k
        BY <1>0, <3>1, <4>0
      <4> QED
        BY <1>0, <3>3, <4>1 DEF OriginInv, BackupHolds
    <3>4. CASE ~(u = j.tool /\ j.edit = "record")
      <4>1. Origin(u, k)
        BY <1>0, <1>1, <2>2, <3>1, <3>2, <3>4, EditedOrigin DEF Origin
      <4> QED
        BY <1>0, <3>2, <4>1 DEF OriginInv, OriginHolds, Clearing
    <3> QED
      BY <3>3, <3>4
  <2> QED
    BY <1>4, <2>1, <2>3
<1> QED
  BY <1>6, <1>7, <1>8

\* What users do, and a kill outside an edit, keep OriginInv.
LEMMA WorldWay ==
    ASSUME WayInv, OneAtATime, EditsMade, World \/ \E p \in Procs : Crash(p)
    PROVE  OriginInv'
<1>0. /\ OriginInv /\ form \in [Tools -> {"dir", "link", "none"}]
      /\ body \in [Tools -> Bodies \cup {None}] /\ trash \in [Folders -> Backups \cup {None}]
  BY DEF WayInv, TypeInv, TreeOK
<1>1. ASSUME NEW p \in Procs, Crash(p) PROVE OriginInv'
  <2>1. ~Saving(job[p])
    BY <1>1 DEF Crash, EditsMade, Saving
  <2> QED
    BY <1>1, <2>1, ReturnWay DEF Crash, tree, hist
<1>2. ASSUME NEW t \in Tools, LoseDev(t) PROVE OriginInv'
  BY <1>0, <1>2 DEF LoseDev, hist, OriginInv, AuthorsOwn, OriginHolds, Origin, OwnKept,
     GivenUp, WholeFile, FreshEdit, BackupHolds, StillEmbedded, StillOrigin
<1>3. ASSUME NEW t \in Tools, Edit(t) PROVE OriginInv'
  <2>1. /\ UNCHANGED <<form, registered, config, torn, trash, job, discarded>>
        /\ body[t] = "clone" /\ form[t] = "dir"
        /\ \A u \in Tools \ {t} : body'[u] = body[u]
    BY <1>0, <1>3 DEF Edit
  <2>2. AuthorsOwn'
    BY <1>0, <2>1 DEF OriginInv, AuthorsOwn
  <2>3. OriginHolds'
    BY <1>0, <2>1 DEF OriginInv, OriginHolds, Origin, OwnKept, GivenUp
  <2>4. WholeFile' /\ FreshEdit' /\ BackupHolds' /\ StillEmbedded' /\ StillOrigin'
    BY <1>0, <2>1 DEF OriginInv, WholeFile, FreshEdit, BackupHolds, StillEmbedded,
       StillOrigin, Origin, OwnKept, GivenUp
  <2> QED
    BY <2>2, <2>3, <2>4 DEF OriginInv
<1>4. ASSUME NEW i \in Folders, Clean(i) PROVE OriginInv'
  <2>1. /\ UNCHANGED <<form, body, registered, config, torn, job>>
        /\ \A k \in Folders \ {i} : trash'[k] = trash[k]
        /\ trash'[i] = None /\ discarded \subseteq discarded'
        /\ \A t \in Tools : OwnKept(t, i) => <<t, "own">> \in discarded'
    <3>1. "own" # None
      BY ModeAssumption DEF Bodies
    <3> QED
      BY <1>0, <1>4, <3>1 DEF Clean, OwnKept
  <2>2. ASSUME NEW t \in Tools, NEW k \in Folders, OwnKept(t, k) \/ GivenUp(t, k)
        PROVE  OwnKept(t, k)' \/ GivenUp(t, k)'
    BY <2>1, <2>2 DEF OwnKept, GivenUp
  <2>3. AuthorsOwn' /\ WholeFile' /\ FreshEdit' /\ StillEmbedded' /\ StillOrigin'
    BY <1>0, <2>1 DEF OriginInv, AuthorsOwn, WholeFile, FreshEdit, StillEmbedded,
       StillOrigin, Origin
  <2>4. OriginHolds'
    <3> SUFFICES ASSUME NEW t \in Tools, NEW k \in Folders, Origin(t, k)'
                 PROVE  \/ OwnKept(t, k)' \/ GivenUp(t, k)'
                        \/ /\ trash'[k] = None /\ form'[t] = "dir" /\ body'[t] = "own"
                           /\ \E p \in Procs : Clearing(job'[p], t)
      BY DEF OriginHolds
    <3>1. Origin(t, k)
      BY <2>1 DEF Origin
    <3>2. CASE OwnKept(t, k) \/ GivenUp(t, k)
      BY <2>2, <3>2
    <3>3. CASE /\ trash[k] = None /\ form[t] = "dir" /\ body[t] = "own"
               /\ \E p \in Procs : Clearing(job[p], t)
      BY <2>1, <3>3
    <3> QED
      BY <1>0, <3>1, <3>2, <3>3 DEF OriginInv, OriginHolds
  <2>5. BackupHolds'
    <3> SUFFICES ASSUME NEW p \in Procs, NEW k \in Folders,
                        job[p].pc = "link" \/ job[p].edit \in {"remember", "record"},
                        job[p].prior = "embedded", job[p].folder = k
                 PROVE  OwnKept(job[p].tool, k)' \/ GivenUp(job[p].tool, k)'
      BY <2>1 DEF BackupHolds
    <3>1. OwnKept(job[p].tool, k) \/ GivenUp(job[p].tool, k)
      BY <1>0 DEF OriginInv, BackupHolds
    <3>2. job[p].tool \in Tools
      <4>1. job[p].folder # None
        BY ModeAssumption
      <4> QED
        BY <4>1, OwnAt DEF WayInv, OwnIn
    <3> QED
      BY <2>1, <3>1, <3>2 DEF OwnKept, GivenUp
  <2> QED
    BY <2>3, <2>4, <2>5 DEF OriginInv
<1>5. ASSUME NEW k \in Folders, RecoverByHand(k) PROVE OriginInv'
  BY <1>5 DEF RecoverByHand, May, OneAtATime
<1> QED
  BY <1>1, <1>2, <1>3, <1>4, <1>5 DEF World

\* Every step keeps WayInv.
LEMMA WayNext ==
    ASSUME WayInv, OneAtATime, WholeCopies, EditsMade, [Next]_vars
    PROVE  WayInv'
<1>1. TypeInv' /\ NamesInv' /\ PathInv'
  BY TypeInvNext, NamesNext, PathNext DEF WayInv
<1>2. ASSUME NEW p \in Procs, Proceed(p) PROVE OriginInv'
  BY <1>2, CalmWay, RemoveNowWay, RmtreeFailsWay, ToTrashWay, GitWay, RecoverWay,
     EditWay DEF Proceed
<1>3. ASSUME UNCHANGED vars PROVE OriginInv'
  <2>1. UNCHANGED <<form, body, registered, config, torn, trash, job, discarded>>
    BY <1>3 DEF vars
  <2>2. AuthorsOwn' /\ WholeFile' /\ FreshEdit' /\ StillEmbedded' /\ StillOrigin'
    BY <2>1 DEF WayInv, OriginInv, AuthorsOwn, WholeFile, FreshEdit, StillEmbedded,
       StillOrigin, Origin
  <2>3. OriginHolds'
    BY <2>1 DEF WayInv, OriginInv, OriginHolds, Origin, OwnKept, GivenUp, Clearing
  <2>4. BackupHolds'
    BY <2>1 DEF WayInv, OriginInv, BackupHolds, OwnKept, GivenUp
  <2> QED
    BY <2>2, <2>3, <2>4 DEF OriginInv
<1>4. OriginInv'
  <2>1. ASSUME NEW p \in Procs, Begin(p) PROVE OriginInv'
    BY <2>1, BeginWay
  <2>2. CASE World \/ \E p \in Procs : Crash(p)
    BY <2>2, WorldWay
  <2> QED
    BY <1>2, <1>3, <2>1, <2>2 DEF Next
<1> QED
  BY <1>1, <1>4 DEF WayInv

\* The initial states satisfy WayInv.
LEMMA WayInit == Init => WayInv
<1> SUFFICES ASSUME Init PROVE WayInv
  OBVIOUS
<1>1. TypeInv /\ NamesInv
  <2>1. \A m : OriginsIn(NoConfig, m)
    BY DEF OriginsIn, NoConfig
  <2>2. \A p \in Procs : job[p] = Idle
    BY DEF Init
  <2>3. config = NoConfig /\ calls = 0 /\ \A k \in Folders : trash[k] = None
    BY DEF Init
  <2>4. NamesInv
    BY <2>1, <2>2, <2>3, IdleOwn DEF NamesInv, IdsDistinct, IdsFree, Unused
  <2> QED
    BY <2>4, TypeInvInit
<1>2. PathInv
  BY IdleFits DEF PathInv, Init
<1>3. AuthorsOwn
  BY ModeAssumption DEF AuthorsOwn, Init
<1>4. OriginHolds /\ StillOrigin
  BY DEF OriginHolds, StillOrigin, Origin, Init, NoConfig, Idle
<1>5. WholeFile /\ FreshEdit /\ BackupHolds /\ StillEmbedded
  BY DEF WholeFile, FreshEdit, BackupHolds, StillEmbedded, Init, Idle
<1> QED
  BY <1>1, <1>2, <1>3, <1>4, <1>5 DEF WayInv, OriginInv

\* One command at a time, with copies made whole and edits of mode_local.json
\* made: a recorded origin that names a backup leads to what the tool held, until
\* that is back in place or given up.
THEOREM OriginSafe ==
    ASSUME OneAtATime, WholeCopies, EditsMade
    PROVE  Spec => []OriginLeadsBack
<1>1. WayInv => OriginLeadsBack
  <2> SUFFICES ASSUME WayInv, NEW t \in Tools, NEW k \in Folders, Origin(t, k)
               PROVE  \/ OwnKept(t, k)
                      \/ form[t] = "dir" /\ body[t] = "own"
                      \/ <<t, "own">> \in discarded
    BY DEF OriginLeadsBack, Origin, OwnKept
  <2> QED
    BY DEF WayInv, OriginInv, OriginHolds, GivenUp
<1>2. WayInv /\ [Next]_vars => WayInv'
  BY WayNext
<1> QED
  BY <1>1, <1>2, WayInit, PTL DEF Spec

-----------------------------------------------------------------------------
(* A tool in dev mode can be brought back *)

\* A swap that has removed the old directory is carried through.
SwapsFinish == /\ {"manifest", "link", "git"} \cap FaultAt = {}
               /\ {"link", "git", "peek"} \cap CrashAt = {}

Kept(t) == <<t, "own">> \in made \ discarded
Recorded(t) == \E k \in Folders : Origin(t, k) /\ trash[k] # None

\* The author's work that is not in place is recorded, unless the command that
\* moved it away is still at it.
AwayRecorded == \A t \in Tools :
    (/\ t \notin registered /\ Kept(t) /\ form[t] # "dir"
     /\ \A p \in Procs : job[p].tool = t => job[p].pc # "git" /\ ~job[p].removed)
    => Recorded(t)

\* That command will record it.
WillRecord == \A p \in Procs :
    (/\ job[p].act = "dev" /\ job[p].removed
     /\ job[p].tool \notin registered /\ Kept(job[p].tool))
    => /\ job[p].prior = "embedded"
       /\ job[p].folder \in Folders /\ trash[job[p].folder] # None
       /\ job[p].pc = "link" \/ job[p].edit \in {"remember", "record"}

\* What each command has found and done is still so.
StillSo == \A p \in Procs :
    /\ job[p].act = "publish" /\ job[p].edit = "clear" => job[p].tool \in registered
    /\ job[p].act = "restore" /\ job[p].edit = "clear" => form[job[p].tool] = "dir"
    /\ job[p].sub => job[p].tool \in registered
    /\ job[p].pc = "git" => form[job[p].tool] = "none" \/ job[p].sub
    /\ job[p].pc \in {"gate", "remove"} => form[job[p].tool] = "dir"
    /\ job[p].pc \in {"gate", "remove"} /\ job[p].act = "dev"
         /\ job[p].tool \notin registered => job[p].prior = "embedded"
    /\ job[p].pc = "link" => form[job[p].tool] = "none"

ReturnInv == AwayRecorded /\ WillRecord /\ StillSo
BackInv == WayInv /\ ReturnInv

\* What the proofs of the actions below start from.
LEMMA BackAt ==
    ASSUME BackInv, OneAtATime, NEW p \in Procs
    PROVE  /\ ReturnInv /\ OriginInv /\ WayInv /\ \A q \in Procs : q = p
           /\ job[p] \in Jobs /\ job[p] \in GoodJobs /\ Ready(job[p]) /\ Fits(job[p])
           /\ job \in [Procs -> GoodJobs] /\ form \in [Tools -> {"dir", "link", "none"}]
           /\ body \in [Tools -> Bodies \cup {None}]
           /\ trash \in [Folders -> Backups \cup {None}]
           /\ config \in Configs /\ None \notin Folders /\ None \notin Backups
  BY JobAt, ModeAssumption
     DEF BackInv, WayInv, TypeInv, TreeOK, FileOK, PathInv, OneAtATime

\* A step that changes neither a record, nor a backup, nor the place of a
\* directory, by a command that has removed nothing, keeps the two invariants
\* about the author's work.
LEMMA QuietBack ==
    ASSUME BackInv, OneAtATime, NEW p \in Procs,
           UNCHANGED <<config, trash, registered, made, discarded>>,
           \A t \in Tools : form'[t] = "dir" <=> form[t] = "dir",
           ~job[p].removed /\ ~job'[p].removed,
           job[p].pc = "git" => job'[p].pc = "git" /\ job'[p].tool = job[p].tool
    PROVE  AwayRecorded' /\ WillRecord'
<1>0. ReturnInv /\ \A q \in Procs : q = p
  BY BackAt
<1>1. AwayRecorded'
  BY <1>0 DEF ReturnInv, AwayRecorded, Recorded, Origin, Kept
<1>2. WillRecord'
  BY <1>0 DEF WillRecord
<1> QED
  BY <1>1, <1>2

\* A command that begins.
LEMMA BeginBack ==
    ASSUME BackInv, OneAtATime, NEW p \in Procs, Begin(p) PROVE ReturnInv'
<1>0. /\ ReturnInv /\ \A q \in Procs : q = p /\ job \in [Procs -> GoodJobs]
      /\ form \in [Tools -> {"dir", "link", "none"}]
  BY BackAt
<1>1. /\ job[p].pc = "idle" /\ UNCHANGED <<config, trash, registered, made, discarded, form>>
  BY DEF Begin, Switch, Restore, At, tree, hist
<1>2. /\ Idle.pc = "idle" /\ Idle.edit = "cache" /\ ~Idle.sub /\ ~Idle.removed
  BY DEF Idle
<1>3. ASSUME NEW n, job'[p] = n, ~n.removed, n.edit = "cache",
             n.sub => n.tool \in registered, n.pc \in {"idle", "load", "detach"}
      PROVE  StillSo'
  BY <1>0, <1>1, <1>3 DEF StillSo
<1>4. StillSo' /\ ~job'[p].removed
  <2>1. ASSUME NEW t \in Tools, NEW forced \in {"none", "dev", "publish"},
               NEW opt \in Options, NEW explicit \in BOOLEAN,
               Switch(p, t, forced, opt, explicit)
        PROVE  StillSo' /\ ~job'[p].removed
    <3>1. CASE SwitchDev(p, t, opt, explicit)
      <4> DEFINE s == IF form[t] # "dir" THEN "link"
                      ELSE IF opt.force THEN "remove" ELSE "gate"
                 n == [Started(t, "dev", opt) EXCEPT !.pc = s]
      <4>1. \/ job'[p] = Idle
            \/ /\ job'[p] = n
               /\ t \in dev /\ StateOf(t) \notin {"symlink", "local_only"}
        BY <1>0, <3>1 DEF SwitchDev, DevPath
      <4>2. /\ n.pc = s /\ n.edit = "cache" /\ ~n.removed /\ n.tool = t
            /\ n.sub = (t \in registered) /\ n.act = "dev" /\ n.prior = StateOf(t)
        BY DEF Started, Idle
      <4>3. t \in dev /\ StateOf(t) \notin {"symlink", "local_only"} /\ form[t] # "dir"
              => form[t] = "none"
        BY <1>0 DEF StateOf
      <4>4. form[t] = "dir" /\ t \notin registered => StateOf(t) = "embedded"
        BY DEF StateOf
      <4>5. CASE job'[p] = Idle
        BY <1>2, <1>3, <4>5
      <4>6. CASE /\ job'[p] = n
                 /\ t \in dev /\ StateOf(t) \notin {"symlink", "local_only"}
        <5>1. s = "link" => form[t] = "none"
          BY <4>3, <4>6
        <5>2. s \in {"gate", "remove"} => form[t] = "dir"
          OBVIOUS
        <5>3. s \in {"link", "gate", "remove"}
          OBVIOUS
        <5> HIDE DEF n, s
        <5> QED
          BY <1>0, <1>1, <4>2, <4>4, <4>6, <5>1, <5>2, <5>3 DEF StillSo
      <4> QED
        BY <4>1, <4>5, <4>6
    <3>2. CASE SwitchPublish(p, t, opt)
      <4> DEFINE n == [Started(t, "publish", opt) EXCEPT !.pc = "load", !.edit = "cache"]
      <4>1. job'[p] = Idle \/ job'[p] = n
        BY <1>0, <3>2 DEF SwitchPublish
      <4>2. /\ n.pc = "load" /\ n.edit = "cache" /\ ~n.removed /\ n.tool = t
            /\ n.sub = (t \in registered)
        BY DEF Started, Idle
      <4> HIDE DEF n
      <4> QED
        BY <1>2, <1>3, <4>1, <4>2
    <3> QED
      BY <2>1, <3>1, <3>2 DEF Switch
  <2>2. ASSUME NEW t \in Tools, Restore(p, t) PROVE StillSo' /\ ~job'[p].removed
    <3> DEFINE o == Load.origin[t]
               m == [Started(t, "publish", Idle.opt) EXCEPT !.pc = "load"]
               n == [Started(t, "restore", Idle.opt) EXCEPT
                       !.pc = "detach", !.folder = o.folder, !.devs = Load.dev]
    <3>1. job'[p] = Idle \/ job'[p] = m \/ job'[p] = n
      BY <1>0, <2>2 DEF Restore
    <3>2. /\ m.pc = "load" /\ m.edit = "cache" /\ ~m.removed /\ m.tool = t
          /\ m.sub = (t \in registered)
          /\ n.pc = "detach" /\ n.edit = "cache" /\ ~n.removed /\ n.tool = t
          /\ n.sub = (t \in registered)
      BY DEF Started, Idle
    <3> HIDE DEF m, n
    <3> QED
      BY <1>2, <1>3, <3>1, <3>2
  <2> QED
    BY <2>1, <2>2 DEF Begin
<1>5. AwayRecorded'
  <2> SUFFICES ASSUME NEW t \in Tools, t \notin registered, Kept(t)', form[t] # "dir"
               PROVE  Recorded(t)'
    BY <1>1 DEF AwayRecorded
  <2>1. Kept(t) /\ \A q \in Procs : job[q].tool = t => job[q].pc # "git"
    BY <1>0, <1>1 DEF Kept
  <2>2. ~job[p].removed
    BY <1>1, BackAt DEF Fits
  <2> QED
    BY <1>0, <1>1, <2>1, <2>2 DEF ReturnInv, AwayRecorded, Recorded, Origin
<1>6. WillRecord'
  BY <1>0, <1>4 DEF WillRecord
<1> QED
  BY <1>4, <1>5, <1>6 DEF ReturnInv

\* A command that has removed nothing may end, outside git and an edit.
LEMMA ReturnBack ==
    ASSUME BackInv, OneAtATime, NEW p \in Procs, Return(p),
           UNCHANGED <<config, trash, registered, made, discarded>>,
           \A t \in Tools : form'[t] = "dir" <=> form[t] = "dir",
           ~job[p].removed, job[p].pc # "git"
    PROVE  ReturnInv'
<1>1. job'[p] = Idle /\ \A q \in Procs : q = p
  BY BackAt DEF Return
<1>2. /\ Idle.pc = "idle" /\ Idle.edit = "cache" /\ ~Idle.sub /\ ~Idle.removed
  BY DEF Idle
<1>3. AwayRecorded' /\ WillRecord'
  BY <1>1, <1>2, QuietBack
<1>4. StillSo'
  BY <1>1, <1>2 DEF StillSo
<1> QED
  BY <1>3, <1>4 DEF ReturnInv

\* A step by which the command stays the one that it is, and which moves no
\* directory and changes no backup and no record.
LEMMA StepBack ==
    ASSUME BackInv, OneAtATime, NEW p \in Procs,
           UNCHANGED <<config, trash, registered, made, discarded>>,
           \A t \in Tools : form'[t] = "dir" <=> form[t] = "dir",
           job[p].pc # "git",
           job'[p].act = job[p].act, job'[p].removed = job[p].removed,
           job'[p].tool = job[p].tool, job'[p].prior = job[p].prior,
           job'[p].folder = job[p].folder,
           job[p].pc = "link" \/ job[p].edit \in {"remember", "record"}
             => job'[p].edit \in {"remember", "record"}
    PROVE  AwayRecorded' /\ WillRecord'
<1>0. ReturnInv /\ \A q \in Procs : q = p
  BY BackAt
<1>1. AwayRecorded'
  BY <1>0 DEF ReturnInv, AwayRecorded, Recorded, Origin, Kept
<1>2. WillRecord'
  BY <1>0 DEF ReturnInv, WillRecord, Kept
<1> QED
  BY <1>1, <1>2

\* The steps that look before they remove, make or put back a link, or read the
\* dev paths.
LEMMA CalmBack ==
    ASSUME BackInv, OneAtATime, SwapsFinish, NEW p \in Procs,
           Gate(p) \/ Link(p) \/ Publish(p) \/ Detach(p) \/ Relink(p) \/ Peek(p)
    PROVE  ReturnInv'
<1> DEFINE t == job[p].tool
<1>0. /\ ReturnInv /\ \A q \in Procs : q = p /\ job \in [Procs -> GoodJobs]
      /\ job[p] \in Jobs /\ Fits(job[p]) /\ Ready(job[p])
      /\ form \in [Tools -> {"dir", "link", "none"}]
  BY BackAt
<1>1. CASE Gate(p)
  <2>1. /\ job[p].pc = "gate" /\ ~job[p].removed
        /\ UNCHANGED <<form, config, trash, registered, made, discarded>>
        /\ Return(p) \/ job'[p] = [job[p] EXCEPT !.pc = "remove"]
    BY <1>0, <1>1 DEF Gate, At, Fits, Goto, tree, hist
  <2>2. CASE Return(p)
    BY <2>1, <2>2, ReturnBack
  <2>3. CASE job'[p] = [job[p] EXCEPT !.pc = "remove"]
    <3>1. AwayRecorded' /\ WillRecord'
      BY <1>0, <2>1, <2>3, StepBack DEF Jobs
    <3>2. StillSo'
      BY <1>0, <2>1, <2>3 DEF ReturnInv, StillSo, Jobs
    <3> QED
      BY <3>1, <3>2 DEF ReturnInv
  <2> QED
    BY <2>1, <2>2, <2>3
<1>2. CASE Link(p)
  <2>1. /\ job[p].pc = "link" /\ form[t] = "none"
        /\ UNCHANGED <<config, trash, registered, made, discarded>>
    BY <1>0, <1>2 DEF Link, At, hist, ReturnInv, StillSo
  <2>2. ~Refused("link")
    BY DEF Refused, SwapsFinish
  <2>3. /\ form' = [form EXCEPT ![t] = "link"]
        /\ job'[p] = [job[p] EXCEPT !.pc = "peek", !.edit = "remember"]
    BY <1>0, <1>2, <2>1, <2>2 DEF Link
  <2>4. AwayRecorded' /\ WillRecord'
    BY <1>0, <2>1, <2>3, StepBack DEF Jobs
  <2>5. StillSo'
    <3>1. /\ job'[p].edit = "remember" /\ job'[p].pc = "peek"
          /\ job'[p].sub = job[p].sub /\ job'[p].tool = t
      BY <1>0, <2>3 DEF Jobs
    <3> QED
      BY <1>0, <2>1, <3>1 DEF ReturnInv, StillSo
  <2> QED
    BY <2>4, <2>5 DEF ReturnInv
<1>3. CASE Publish(p)
  <2>1. /\ job[p].pc = "publish" /\ ~job[p].removed /\ job[p].act = "publish"
        /\ job[p].edit = "cache" /\ t \in Tools
        /\ UNCHANGED <<config, trash, registered, made, discarded>>
        /\ \A u \in Tools : form'[u] = "dir" <=> form[u] = "dir"
    BY <1>0, <1>3 DEF Publish, At, hist, Fits, Ready
  <2>2. CASE Return(p)
    BY <2>1, <2>2, ReturnBack
  <2>3. ASSUME NEW s \in {"git", "remove", "gate"}, Goto(p, s),
               s = "git" => form'[t] = "none" \/ job[p].sub,
               s # "git" => form'[t] = "dir"
        PROVE  ReturnInv'
    <3>1. job'[p] = [job[p] EXCEPT !.pc = s]
      BY <1>0, <2>3 DEF Goto
    <3>2. AwayRecorded' /\ WillRecord'
      BY <1>0, <2>1, <3>1, StepBack DEF Jobs
    <3>3. StillSo'
      BY <1>0, <2>1, <2>3, <3>1 DEF ReturnInv, StillSo, Jobs
    <3> QED
      BY <3>2, <3>3 DEF ReturnInv
  <2>4. \/ Return(p)
        \/ Goto(p, "git") /\ (form'[t] = "none" \/ job[p].sub)
        \/ \E s \in {"remove", "gate"} : Goto(p, s) /\ form'[t] = "dir"
    BY <1>0, <1>3, <2>1 DEF Publish
  <2> QED
    BY <2>2, <2>3, <2>4
<1>4. CASE Detach(p)
  <2>1. /\ job[p].pc = "detach" /\ ~job[p].removed
        /\ job[p].edit = "cache" /\ t \in Tools
        /\ UNCHANGED <<config, trash, registered, made, discarded>>
        /\ \A u \in Tools : form'[u] = "dir" <=> form[u] = "dir"
        /\ Return(p) \/ job'[p] = [job[p] EXCEPT !.pc = "recover"]
    BY <1>0, <1>4 DEF Detach, At, hist, Fits, Ready, Goto
  <2>2. CASE Return(p)
    BY <2>1, <2>2, ReturnBack
  <2>3. CASE job'[p] = [job[p] EXCEPT !.pc = "recover"]
    <3>1. AwayRecorded' /\ WillRecord'
      BY <1>0, <2>1, <2>3, StepBack DEF Jobs
    <3>2. StillSo'
      BY <1>0, <2>1, <2>3 DEF ReturnInv, StillSo, Jobs
    <3> QED
      BY <3>1, <3>2 DEF ReturnInv
  <2> QED
    BY <2>1, <2>2, <2>3
<1>5. CASE Relink(p)
  <2>1. /\ job[p].pc = "relink" /\ ~job[p].removed /\ t \in Tools /\ Return(p)
        /\ UNCHANGED <<config, trash, registered, made, discarded>>
        /\ \A u \in Tools : form'[u] = "dir" <=> form[u] = "dir"
    BY <1>0, <1>5 DEF Relink, At, hist, Fits, Ready
  <2> QED
    BY <2>1, ReturnBack
<1>6. CASE Peek(p)
  <2> DEFINE d == IF job[p].edit = "forget" THEN Load.dev \ {t} ELSE Load.dev \cup {t}
             n == [job[p] EXCEPT !.pc = "load", !.devs = d]
  <2>1. /\ job[p].pc = "peek"
        /\ UNCHANGED <<form, config, trash, registered, made, discarded>>
        /\ (job[p].edit = "forget" /\ Return(p)) \/ job'[p] = n
    BY <1>0, <1>6 DEF Peek, At, hist, tree, Return
  <2>2. CASE job[p].edit = "forget" /\ Return(p)
    <3>1. ~job[p].removed
      BY <1>0, <2>2 DEF Fits
    <3> QED
      BY <2>1, <2>2, <3>1, ReturnBack
  <2>3. CASE job'[p] = n
    <3> HIDE DEF d
    <3>1. AwayRecorded' /\ WillRecord'
      BY <1>0, <2>1, <2>3, StepBack DEF Jobs
    <3>2. StillSo'
      <4>1. /\ job'[p].edit = job[p].edit /\ job'[p].pc = "load"
            /\ job'[p].sub = job[p].sub /\ job'[p].tool = t /\ job'[p].act = job[p].act
        BY <1>0, <2>3 DEF Jobs
      <4> QED
        BY <1>0, <2>1, <4>1 DEF ReturnInv, StillSo
    <3> QED
      BY <3>1, <3>2 DEF ReturnInv
  <2> QED
    BY <2>1, <2>2, <2>3
<1> QED
  BY <1>1, <1>2, <1>3, <1>4, <1>5, <1>6

\* A step that takes a directory away, for a command that will record it.
LEMMA RemoveBack ==
    ASSUME BackInv, OneAtATime, WholeCopies, SwapsFinish, NEW p \in Procs,
           RemoveNow(p) \/ RemoveToTrash(p) \/ RemoveFails(p)
    PROVE  ReturnInv'
<1> DEFINE t == job[p].tool
           i == job[p].id
<1>0. /\ ReturnInv /\ OriginInv /\ \A q \in Procs : q = p /\ job \in [Procs -> GoodJobs]
      /\ job[p] \in Jobs /\ Fits(job[p]) /\ Ready(job[p])
      /\ form \in [Tools -> {"dir", "link", "none"}]
      /\ body \in [Tools -> Bodies \cup {None}]
      /\ trash \in [Folders -> Backups \cup {None}] /\ None \notin Backups
  BY BackAt
<1>1. /\ job[p].pc = "remove" /\ ~job[p].removed /\ t \in Tools /\ form[t] = "dir"
      /\ job[p].edit = "cache" /\ UNCHANGED <<config, registered, made>>
      /\ i \in Folders /\ Pending(job[p])
  <2>1. job[p].pc = "remove" /\ UNCHANGED <<config, registered, made>>
    BY DEF RemoveNow, RemoveToTrash, RemoveFails, At, tree, hist
  <2> QED
    BY <1>0, <2>1 DEF Fits, Ready, ReturnInv, StillSo, Pending
<1>2. CASE RemoveFails(p)
  <2>1. Return(p) /\ UNCHANGED <<form, trash, discarded>>
    <3>1. ~Refused("manifest")
      BY DEF Refused, SwapsFinish
    <3> QED
      BY <1>2, <3>1, Zenon DEF RemoveFails, tree, hist
  <2> QED
    BY <1>1, <2>1, ReturnBack
<1>3. ASSUME Empty(t), discarded \subseteq discarded',
             \A k \in Folders \ {i} : trash'[k] = trash[k],
             job'[p].removed, job'[p].tool = t, job'[p].act = job[p].act,
             job'[p].pc \in {"link", "git"}, job'[p].edit = "cache",
             job'[p].sub = job[p].sub,
             WillRecord'
      PROVE  ReturnInv'
  <2>1. AwayRecorded'
    <3> SUFFICES ASSUME NEW u \in Tools, u \notin registered, Kept(u)',
                        form'[u] # "dir", u # t
                 PROVE  Recorded(u)'
      BY <1>0, <1>1, <1>3 DEF AwayRecorded
    <3>1. Kept(u) /\ form[u] # "dir"
      BY <1>0, <1>1, <1>3 DEF Kept, Empty
    <3>2. PICK k \in Folders : Origin(u, k) /\ trash[k] # None
      BY <1>0, <1>1, <3>1 DEF ReturnInv, AwayRecorded, Recorded
    <3>3. k # i
      BY <1>1, <3>2, NamedElsewhere DEF BackInv, WayInv
    <3> QED
      BY <1>1, <1>3, <3>2, <3>3 DEF Recorded, Origin
  <2>2. StillSo'
    <3>1. form'[t] = "none"
      BY <1>0, <1>1, <1>3 DEF Empty
    <3> QED
      BY <1>0, <1>1, <1>3, <3>1 DEF ReturnInv, StillSo
  <2> QED
    BY <1>3, <2>1, <2>2 DEF ReturnInv
<1>4. CASE RemoveNow(p)
  <2>1. /\ Empty(t) /\ discarded \subseteq discarded' /\ UNCHANGED trash
        /\ body[t] = "own" => <<t, "own">> \in discarded'
    BY <1>4 DEF RemoveNow, GivenUpBy
  <2>2. /\ job'[p].removed /\ job'[p].tool = t /\ job'[p].act = job[p].act
        /\ job'[p].pc \in {"link", "git"} /\ job'[p].edit = "cache"
        /\ job'[p].sub = job[p].sub
    BY <1>0, <1>1, <1>4 DEF RemoveNow, Onward, Jobs
  <2>3. WillRecord'
    BY <1>0, <1>1, <2>1, <2>2 DEF WillRecord, Kept, OriginInv, AuthorsOwn
  <2> QED
    BY <1>3, <2>1, <2>2, <2>3
<1>5. CASE RemoveToTrash(p)
  <2> DEFINE b == [tool |-> t, body |-> body[t], listed |-> TRUE]
  <2>1. /\ Empty(t) /\ UNCHANGED discarded /\ trash' = [trash EXCEPT ![i] = b]
    <3>1. ~Refused("leftover")
      BY DEF Refused, WholeCopies
    <3> QED
      BY <1>5, <3>1 DEF RemoveToTrash, hist
  <2>2. /\ job'[p].removed /\ job'[p].tool = t /\ job'[p].act = job[p].act
        /\ job'[p].pc = Onward(p) /\ job'[p].edit = "cache"
        /\ job'[p].sub = job[p].sub /\ job'[p].folder = i
        /\ job'[p].prior = job[p].prior
    BY <1>0, <1>1, <1>5 DEF RemoveToTrash, Jobs
  <2>3. trash'[i] # None /\ \A k \in Folders \ {i} : trash'[k] = trash[k]
    <3>1. b \in Backups
      BY <1>0, <1>1 DEF Backups
    <3> HIDE DEF b
    <3> QED
      BY <1>0, <1>1, <2>1, <3>1
  <2>4. WillRecord'
    BY <1>0, <1>1, <2>1, <2>2, <2>3
       DEF WillRecord, Kept, Onward, ReturnInv, StillSo
  <2>5. job'[p].pc \in {"link", "git"}
    BY <2>2 DEF Onward
  <2> QED
    BY <1>3, <2>1, <2>2, <2>3, <2>4, <2>5
<1> QED
  BY <1>2, <1>4, <1>5

\* An rmtree() that raises leaves the directory where it was.
LEMMA RmtreeFailsBack ==
    ASSUME BackInv, OneAtATime, NEW p \in Procs, RmtreeFails(p)
    PROVE  ReturnInv'
<1>0. /\ ReturnInv /\ \A q \in Procs : q = p /\ job \in [Procs -> GoodJobs]
      /\ Fits(job[p])
  BY BackAt
<1>1. /\ UNCHANGED <<form, trash, config, registered, made>>
      /\ job[p].pc = "remove" /\ discarded \subseteq discarded' /\ Return(p)
  BY DEF RmtreeFails, At
<1>2. /\ job'[p].pc = "idle" /\ job'[p].edit = "cache" /\ ~job'[p].sub
      /\ ~job'[p].removed /\ ~job[p].removed
  BY <1>0, <1>1 DEF Return, Idle, Fits
<1>3. AwayRecorded'
  <2> SUFFICES ASSUME NEW u \in Tools, u \notin registered, Kept(u), form[u] # "dir"
               PROVE  Recorded(u)'
    BY <1>1 DEF AwayRecorded, Kept
  <2>1. Recorded(u)
    BY <1>0, <1>1, <1>2 DEF ReturnInv, AwayRecorded
  <2> QED
    BY <1>1, <2>1 DEF Recorded, Origin
<1>4. WillRecord' /\ StillSo'
  BY <1>0, <1>2 DEF WillRecord, StillSo
<1> QED
  BY <1>3, <1>4 DEF ReturnInv

\* git registers the tool, whose work then no longer has to be in dev mode.
LEMMA GitBack ==
    ASSUME BackInv, OneAtATime, WholeCopies, SwapsFinish, NEW p \in Procs, Git(p)
    PROVE  ReturnInv'
<1> DEFINE t == job[p].tool
<1>0. /\ ReturnInv /\ \A q \in Procs : q = p /\ job \in [Procs -> GoodJobs]
      /\ job[p] \in Jobs /\ Fits(job[p]) /\ Ready(job[p])
      /\ form \in [Tools -> {"dir", "link", "none"}]
  BY BackAt
<1>1. /\ job[p].pc = "git" /\ job[p].act = "publish" /\ t \in Tools
      /\ form[t] = "none" \/ job[p].sub
      /\ UNCHANGED <<config, trash, made, discarded>>
  BY <1>0 DEF Git, At, hist, Fits, Ready, ReturnInv, StillSo
<1>2. /\ form' = [form EXCEPT ![t] = "dir"] /\ registered' = registered \cup {t}
      /\ job' = [job EXCEPT ![p].pc = "load", ![p].edit = "clear"]
  <2>1. ~Refused("partial") /\ ~Refused("git")
    BY DEF Refused, WholeCopies, SwapsFinish
  <2>2. \/ /\ form' = [form EXCEPT ![t] = "dir"] /\ registered' = registered \cup {t}
           /\ job' = [job EXCEPT ![p].pc = "load", ![p].edit = "clear"]
        \/ form[t] # "none" /\ ~job[p].sub
    BY <2>1, Zenon DEF Git
  <2> QED
    BY <1>1, <2>2
<1>3. /\ job'[p].pc = "load" /\ job'[p].edit = "clear" /\ job'[p].tool = t
      /\ job'[p].act = "publish"
  BY <1>0, <1>1, <1>2 DEF Jobs
<1>4. AwayRecorded'
  <2> SUFFICES ASSUME NEW u \in Tools, u \notin registered, Kept(u), u # t,
                      form'[u] # "dir"
               PROVE  Recorded(u)'
    BY <1>1, <1>2 DEF AwayRecorded, Kept
  <2>1. form[u] # "dir"
    BY <1>0, <1>2
  <2>2. Recorded(u)
    BY <1>0, <2>1 DEF ReturnInv, AwayRecorded
  <2> QED
    BY <1>1, <2>2 DEF Recorded, Origin
<1>5. WillRecord'
  BY <1>0, <1>3 DEF WillRecord
<1>6. StillSo'
  BY <1>0, <1>1, <1>2, <1>3 DEF StillSo
<1> QED
  BY <1>4, <1>5, <1>6 DEF ReturnInv

\* recover_folder() puts back the work of the tool that was asked for, and
\* empties no folder recorded for another.
LEMMA RecoverBack ==
    ASSUME BackInv, OneAtATime, WholeCopies, NEW p \in Procs, Recover(p)
    PROVE  ReturnInv'
<1> DEFINE t == job[p].tool
           k == job[p].folder
<1>0. /\ ReturnInv /\ OriginInv /\ WayInv /\ \A q \in Procs : q = p
      /\ job \in [Procs -> GoodJobs]
      /\ job[p] \in Jobs /\ Fits(job[p]) /\ Ready(job[p])
      /\ form \in [Tools -> {"dir", "link", "none"}]
      /\ trash \in [Folders -> Backups \cup {None}] /\ None \notin Folders
  BY BackAt
<1>1. /\ job[p].pc = "recover" /\ job[p].act = "restore" /\ ~job[p].removed
      /\ t \in Tools /\ k \in Folders /\ job[p].edit = "cache"
      /\ UNCHANGED <<config, registered, made, discarded>>
  BY <1>0 DEF Recover, At, hist, Fits, Ready
<1>2. CASE Goto(p, "relink") /\ UNCHANGED <<form, trash>>
  <2>1. job'[p] = [job[p] EXCEPT !.pc = "relink"]
    BY <1>0, <1>2 DEF Goto
  <2>2. AwayRecorded' /\ WillRecord'
    BY <1>0, <1>1, <1>2, <2>1, StepBack DEF Jobs
  <2>3. StillSo'
    BY <1>0, <1>1, <1>2, <2>1 DEF ReturnInv, StillSo, Jobs
  <2> QED
    BY <2>2, <2>3 DEF ReturnInv
<1>3. ASSUME form[t] = "none", trash[k] # None,
             form' = [form EXCEPT ![t] = IF trash[k].body = None THEN "link" ELSE "dir"],
             trash' = [trash EXCEPT ![k] = None],
             job' = [job EXCEPT ![p].pc = "load", ![p].edit = "clear"]
      PROVE  ReturnInv'
  <2>1. trash[k].body \in {"own", "rest"} /\ trash[k].tool = t
    <3>1. Origin(t, k)
      BY <1>0, <1>1 DEF OriginInv, StillOrigin
    <3>2. k \in mine[t]
      BY <1>0, <1>1, <3>1 DEF Origin, WayInv, NamesInv, OriginsIn
    <3> QED
      BY <1>0, <1>1, <1>3, <3>1, <3>2
         DEF OriginInv, OriginHolds, OwnKept, GivenUp, mine
  <2>2. form'[t] = "dir"
    <3>1. "own" # None /\ "rest" # None
      BY ModeAssumption DEF Bodies
    <3> QED
      BY <1>0, <1>1, <1>3, <2>1, <3>1
  <2>3. /\ job'[p].pc = "load" /\ job'[p].edit = "clear" /\ job'[p].tool = t
        /\ job'[p].act = "restore" /\ job'[p].sub = job[p].sub
    BY <1>0, <1>1, <1>3 DEF Jobs
  <2>4. AwayRecorded'
    <3> SUFFICES ASSUME NEW u \in Tools, u \notin registered, Kept(u), u # t,
                        form'[u] # "dir"
                 PROVE  Recorded(u)'
      BY <1>1, <2>2 DEF AwayRecorded, Kept
    <3>1. form[u] # "dir"
      BY <1>0, <1>3
    <3>2. PICK i \in Folders : Origin(u, i) /\ trash[i] # None
      BY <1>0, <1>1, <3>1 DEF ReturnInv, AwayRecorded, Recorded
    <3>3. i \in mine[u]
      BY <1>0, <3>2 DEF Origin, WayInv, NamesInv, OriginsIn
    <3>4. trash[i].tool = u
      BY <3>2, <3>3 DEF mine
    <3>5. i # k
      BY <2>1, <3>4
    <3> QED
      BY <1>0, <1>1, <1>3, <3>2, <3>5 DEF Recorded, Origin
  <2>5. WillRecord'
    BY <1>0, <2>3 DEF WillRecord
  <2>6. StillSo'
    BY <1>0, <1>1, <2>2, <2>3 DEF ReturnInv, StillSo
  <2> QED
    BY <2>4, <2>5, <2>6 DEF ReturnInv
<1>4. ~Refused("rest") /\ ~Refused("leftover")
  BY DEF Refused, WholeCopies
<1> QED
  BY <1>2, <1>3, <1>4 DEF Recover

\* What follows an edit that is over: the record it owes is made, and what it
\* no longer owes is in place or in .gitmodules.
LEMMA ThenBack ==
    ASSUME BackInv, OneAtATime, NEW p \in Procs, Saving(job[p]),
           UNCHANGED <<form, trash, registered, made, discarded>>,
           job'[p] = Then(job[p]),
           \A u \in Tools :
               Recorded(u) => \/ Recorded(u)'
                              \/ u = job[p].tool /\ job[p].edit \in {"clear", "record"},
           (/\ job[p].edit = "record" /\ job[p].prior = "embedded"
            /\ job[p].folder \in Folders /\ trash[job[p].folder] # None)
             => \A u \in Tools : u = job[p].tool => Recorded(u)'
    PROVE  ReturnInv'
<1> DEFINE j == job[p]
           n == Then(j)
<1>0. /\ ReturnInv /\ \A q \in Procs : q = p
      /\ j \in Jobs /\ Fits(j) /\ Ready(j)
      /\ form \in [Tools -> {"dir", "link", "none"}]
  BY BackAt
<1>1. /\ Idle.pc = "idle" /\ Idle.edit = "cache" /\ ~Idle.sub /\ ~Idle.removed
      /\ Idle.act = "dev" /\ j.tool \in Tools
  BY <1>0 DEF Idle, Ready, Saving
<1>2. ASSUME NEW u \in Tools, u \notin registered, Kept(u), form[u] # "dir",
             ~(j.tool = u /\ j.removed)
      PROVE  Recorded(u)
  BY <1>0, <1>2 DEF ReturnInv, AwayRecorded, Saving
<1>3. CASE j.edit = "cache"
  <2>1. n = [j EXCEPT !.pc = "publish"] /\ ~j.removed
    BY <1>0, <1>3 DEF Then, Fits
  <2>2. /\ n.pc = "publish" /\ n.removed = FALSE /\ n.edit = "cache" /\ n.tool = j.tool
        /\ n.sub = j.sub
    BY <1>0, <1>3, <2>1 DEF Jobs
  <2> HIDE DEF n
  <2>3. AwayRecorded'
    BY <1>0, <1>2, <1>3, <2>1 DEF AwayRecorded, Kept
  <2>4. WillRecord' /\ StillSo'
    BY <1>0, <2>2 DEF ReturnInv, WillRecord, StillSo, n
  <2> QED
    BY <2>3, <2>4 DEF ReturnInv
<1>4. CASE j.edit = "remember" /\ j.removed /\ j.prior \in {"embedded", "submodule"}
  <2>1. n = [j EXCEPT !.pc = "load", !.edit = "record"]
    BY <1>4 DEF Then
  <2>2. /\ n.pc = "load" /\ n.removed = j.removed /\ n.edit = "record" /\ n.tool = j.tool
        /\ n.sub = j.sub /\ n.act = j.act /\ n.prior = j.prior /\ n.folder = j.folder
    BY <1>0, <2>1 DEF Jobs
  <2>3. job'[p] = n
    OBVIOUS
  <2> HIDE DEF n
  <2>4. AwayRecorded'
    BY <1>0, <1>2, <1>4, <2>2, <2>3 DEF AwayRecorded, Kept
  <2>5. WillRecord'
    BY <1>0, <1>4, <2>2, <2>3 DEF ReturnInv, WillRecord, Kept
  <2>6. StillSo'
    BY <1>0, <2>2, <2>3 DEF ReturnInv, StillSo
  <2> QED
    BY <2>4, <2>5, <2>6 DEF ReturnInv
<1>5. CASE j.edit = "clear" /\ j.act = "restore"
  <2>1. n = [j EXCEPT !.pc = "peek", !.edit = "forget"] /\ ~j.removed
    BY <1>0, <1>5 DEF Then, Fits
  <2>2. /\ n.pc = "peek" /\ n.removed = FALSE /\ n.edit = "forget" /\ n.tool = j.tool
        /\ n.sub = j.sub /\ n.act = "restore"
    BY <1>0, <1>5, <2>1 DEF Jobs
  <2>3. job'[p] = n /\ form[j.tool] = "dir"
    BY <1>0, <1>5 DEF ReturnInv, StillSo
  <2> HIDE DEF n
  <2>4. AwayRecorded'
    BY <1>0, <1>2, <1>5, <2>1, <2>3 DEF AwayRecorded, Kept
  <2>5. WillRecord' /\ StillSo'
    BY <1>0, <2>2, <2>3 DEF ReturnInv, WillRecord, StillSo
  <2> QED
    BY <2>4, <2>5 DEF ReturnInv
<1>6. CASE /\ j.edit # "cache" /\ ~(j.edit = "clear" /\ j.act = "restore")
           /\ ~(j.edit = "remember" /\ j.removed /\ j.prior \in {"embedded", "submodule"})
  <2>1. job'[p] = Idle
    BY <1>6 DEF Then
  <2>2. AwayRecorded'
    <3> SUFFICES ASSUME NEW u \in Tools, u \notin registered, Kept(u), form[u] # "dir"
                 PROVE  Recorded(u)'
      BY DEF AwayRecorded, Kept
    <3>1. CASE u # j.tool
      BY <1>2, <3>1
    <3>2. CASE u = j.tool /\ j.edit \in {"remember", "forget"}
      <4>1. ~j.removed
        BY <1>0, <1>6, <3>2 DEF Fits, ReturnInv, WillRecord
      <4> QED
        BY <1>2, <3>2, <4>1
    <3>3. CASE u = j.tool /\ j.edit = "record"
      <4>1. j.act = "dev" /\ j.removed
        BY <1>0, <3>3 DEF Fits
      <4>2. /\ j.prior = "embedded"
            /\ j.folder \in Folders /\ trash[j.folder] # None
        BY <1>0, <3>3, <4>1 DEF ReturnInv, WillRecord
      <4> QED
        BY <3>3, <4>2
    <3>4. CASE u = j.tool /\ j.edit = "clear"
      BY <1>0, <1>6, <3>4 DEF Fits, ReturnInv, StillSo
    <3> QED
      BY <1>0, <1>6, <3>1, <3>2, <3>3, <3>4 DEF Jobs, Edits
  <2>3. WillRecord' /\ StillSo'
    BY <1>0, <1>1, <2>1 DEF WillRecord, StillSo
  <2> QED
    BY <2>2, <2>3 DEF ReturnInv
<1> QED
  BY <1>3, <1>4, <1>5, <1>6

\* The three steps of an edit of mode_local.json.
LEMMA EditBack ==
    ASSUME BackInv, OneAtATime, EditsMade, NEW p \in Procs,
           LoadConfig(p) \/ Truncate(p) \/ Write(p)
    PROVE  ReturnInv'
<1> DEFINE j == job[p]
<1>0. /\ ReturnInv /\ OriginInv /\ \A q \in Procs : q = p
      /\ job \in [Procs -> GoodJobs] /\ j \in GoodJobs
      /\ j \in Jobs /\ Fits(j) /\ Ready(j) /\ config \in Configs
  BY BackAt
<1>1. /\ Saving(j) /\ j.pc # "idle" /\ j.tool \in Tools
      /\ UNCHANGED <<form, registered, trash, made, discarded>>
  <2>1. Saving(j) /\ UNCHANGED <<form, registered, trash, made, discarded>>
    BY DEF LoadConfig, Truncate, Write, At, Saving, tree, hist
  <2> QED
    BY <1>0, <2>1 DEF Saving, Ready
<1>2. ASSUME UNCHANGED config, NEW n, job'[p] = n, n.pc \in {"trunc", "write"},
             n.edit = j.edit, n.tool = j.tool, n.prior = j.prior, n.folder = j.folder,
             n.act = j.act, n.removed = j.removed, n.sub = j.sub
      PROVE  ReturnInv'
  <2>1. AwayRecorded' /\ WillRecord'
    BY <1>0, <1>1, <1>2, StepBack DEF Saving
  <2>2. StillSo'
    BY <1>0, <1>1, <1>2 DEF ReturnInv, StillSo
  <2> QED
    BY <2>1, <2>2 DEF ReturnInv
<1>3. CASE LoadConfig(p)
  <2>1. UNCHANGED config
    BY <1>3 DEF LoadConfig
  <2> DEFINE c == Edited(Load, j)
             n == [j EXCEPT !.pc = "trunc", !.mem = c]
  <2>2. \/ j.edit = "clear" /\ job'[p] = Then(j)
        \/ job'[p] = n
    BY <1>0, <1>3 DEF LoadConfig
  <2> HIDE DEF c
  <2>3. CASE job'[p] = n
    <3>1. /\ n.pc = "trunc" /\ n.edit = j.edit /\ n.tool = j.tool /\ n.prior = j.prior
          /\ n.folder = j.folder /\ n.act = j.act /\ n.removed = j.removed
          /\ n.sub = j.sub
      BY <1>0 DEF Jobs
    <3> HIDE DEF n
    <3> QED
      BY <1>2, <2>1, <2>3, <3>1
  <2>4. CASE j.edit = "clear" /\ job'[p] = Then(j)
    <3>1. \A u \in Tools :
              Recorded(u) => \/ Recorded(u)'
                             \/ u = job[p].tool /\ job[p].edit \in {"clear", "record"}
      BY <1>1, <2>1 DEF Recorded, Origin
    <3>2. job[p].edit # "record"
      BY <2>4
    <3> QED
      BY <1>1, <2>4, <3>1, <3>2, ThenBack
  <2> QED
    BY <2>2, <2>3, <2>4
<1>4. CASE Truncate(p)
  <2>1. Goto(p, "write") /\ UNCHANGED config
    BY <1>4 DEF Truncate, Refused, EditsMade
  <2> DEFINE n == [j EXCEPT !.pc = "write"]
  <2>2. job'[p] = n
    BY <1>0, <2>1 DEF Goto
  <2>3. /\ n.pc = "write" /\ n.edit = j.edit /\ n.tool = j.tool /\ n.prior = j.prior
        /\ n.folder = j.folder /\ n.act = j.act /\ n.removed = j.removed
        /\ n.sub = j.sub
    BY <1>0 DEF Jobs
  <2> HIDE DEF n
  <2> QED
    BY <1>2, <2>1, <2>2, <2>3
<1>5. CASE Write(p)
  <2>1. config' = j.mem /\ job'[p] = Then(j) /\ j.pc = "write"
    BY <1>0, <1>5 DEF Write, At, Refused, EditsMade
  <2>2. config' = Edited(config, j)
    BY <1>0, <2>1 DEF OriginInv, FreshEdit
  <2>3. ASSUME NEW u \in Tools, Recorded(u),
               ~(u = j.tool /\ j.edit \in {"clear", "record"})
        PROVE  Recorded(u)'
    <3>1. config'.origin[u] = config.origin[u]
      BY <1>0, <1>1, <2>2, <2>3, EditedOrigin
    <3> QED
      BY <1>1, <2>3, <3>1 DEF Recorded, Origin
  <2>4. ASSUME j.edit = "record", j.prior = "embedded",
               j.folder \in Folders, trash[j.folder] # None,
               NEW u \in Tools, u = j.tool
        PROVE  Recorded(u)'
    <3> DEFINE o == [prior |-> j.prior, folder |-> j.folder]
    <3>1. config'.origin[u] = o
      BY <1>0, <1>1, <2>2, <2>4, EditedOrigin
    <3>2. o # None
      <4>1. o \in Origins
        BY <2>4 DEF Origins
      <4> HIDE DEF o
      <4> QED
        BY <4>1, ModeAssumption
    <3>3. o.folder = j.folder
      OBVIOUS
    <3> HIDE DEF o
    <3> QED
      BY <1>1, <2>4, <3>1, <3>2, <3>3 DEF Recorded, Origin
  <2>5. \A u \in Tools :
            Recorded(u) => \/ Recorded(u)'
                           \/ u = job[p].tool /\ job[p].edit \in {"clear", "record"}
    BY <2>3
  <2>6. job[p].edit = "record" /\ job[p].prior = "embedded"
        /\ job[p].folder \in Folders /\ trash[job[p].folder] # None
          => \A u \in Tools : u = job[p].tool => Recorded(u)'
    BY <2>4
  <2> QED
    BY <1>1, <2>1, <2>5, <2>6, ThenBack
<1> QED
  BY <1>3, <1>4, <1>5

\* What users do, and a kill before a directory is removed.
LEMMA WorldBack ==
    ASSUME BackInv, OneAtATime, EditsMade, SwapsFinish,
           World \/ \E p \in Procs : Crash(p)
    PROVE  ReturnInv'
<1>0. ReturnInv /\ OriginInv /\ trash \in [Folders -> Backups \cup {None}]
  BY DEF BackInv, WayInv, TypeInv, TreeOK
<1>1. ASSUME NEW p \in Procs, Crash(p) PROVE ReturnInv'
  <2>1. /\ job[p].pc \notin {"link", "git", "peek", "load", "trunc", "write", "idle"}
        /\ job[p] \in Jobs /\ Fits(job[p])
    BY <1>1, BackAt, ModeAssumption DEF Crash, EditsMade, SwapsFinish
  <2>2. ~job[p].removed
    BY <2>1 DEF Fits, Jobs, Steps
  <2> QED
    BY <1>1, <2>1, <2>2, ReturnBack DEF Crash, tree, hist
<1>2. ASSUME NEW t \in Tools, Edit(t) \/ LoseDev(t) PROVE ReturnInv'
  <2>1. /\ UNCHANGED <<form, registered, config, trash, job, discarded>>
        /\ \A u : Kept(u)' => Kept(u)
    BY <1>2 DEF Edit, LoseDev, hist, Kept
  <2> QED
    BY <1>0, <2>1
       DEF ReturnInv, AwayRecorded, WillRecord, StillSo, Recorded, Origin
<1>3. ASSUME NEW i \in Folders, Clean(i) PROVE ReturnInv'
  <2>1. /\ UNCHANGED <<form, registered, config, job, made>>
        /\ \A k \in Folders \ {i} : trash'[k] = trash[k]
        /\ \A u \in Tools : Kept(u)' => Kept(u) /\ ~OwnKept(u, i)
        /\ trash[i] # None
    <3>1. "own" # None
      BY ModeAssumption DEF Bodies
    <3> QED
      BY <1>0, <1>3, <3>1 DEF Clean, OwnKept, Kept
  <2>2. AwayRecorded'
    <3> SUFFICES ASSUME NEW u \in Tools, u \notin registered, Kept(u)', form[u] # "dir",
                        \A p \in Procs : job[p].tool = u =>
                            job[p].pc # "git" /\ ~job[p].removed
                 PROVE  Recorded(u)'
      BY <2>1 DEF AwayRecorded
    <3>1. PICK k \in Folders : Origin(u, k) /\ trash[k] # None
      BY <1>0, <2>1 DEF ReturnInv, AwayRecorded, Recorded
    <3>2. k # i
      BY <1>0, <2>1, <3>1 DEF OriginInv, OriginHolds, GivenUp, Kept
    <3> QED
      BY <2>1, <3>1, <3>2 DEF Recorded, Origin
  <2>3. WillRecord'
    <3> SUFFICES ASSUME NEW p \in Procs, job[p].act = "dev", job[p].removed,
                        job[p].tool \notin registered, Kept(job[p].tool)'
                 PROVE  /\ job[p].prior = "embedded"
                        /\ job[p].folder \in Folders /\ trash'[job[p].folder] # None
                        /\ job[p].pc = "link" \/ job[p].edit \in {"remember", "record"}
      BY <2>1 DEF WillRecord
    <3>0. job[p].tool \in Tools
      <4>1. Ready(job[p]) /\ Fits(job[p])
        BY BackAt
      <4> QED
        BY <4>1 DEF Ready, Fits
    <3>1. /\ job[p].prior = "embedded"
          /\ job[p].folder \in Folders /\ trash[job[p].folder] # None
          /\ job[p].pc = "link" \/ job[p].edit \in {"remember", "record"}
      BY <1>0, <2>1, <3>0 DEF ReturnInv, WillRecord
    <3>2. <<job[p].tool, "own">> \notin discarded
      BY <2>1, <3>0 DEF Kept
    <3>3. OwnKept(job[p].tool, job[p].folder)
      BY <1>0, <3>1, <3>2 DEF OriginInv, BackupHolds, GivenUp
    <3> QED
      BY <2>1, <3>0, <3>1, <3>3
  <2>4. StillSo'
    BY <1>0, <2>1 DEF ReturnInv, StillSo
  <2> QED
    BY <2>2, <2>3, <2>4 DEF ReturnInv
<1>4. ASSUME NEW k \in Folders, RecoverByHand(k) PROVE ReturnInv'
  BY <1>4 DEF RecoverByHand, May, OneAtATime
<1> QED
  BY <1>1, <1>2, <1>3, <1>4 DEF World

\* Every step keeps BackInv.
LEMMA BackNext ==
    ASSUME BackInv, OneAtATime, WholeCopies, EditsMade, SwapsFinish, [Next]_vars
    PROVE  BackInv'
<1>1. WayInv'
  BY WayNext DEF BackInv
<1>2. ASSUME NEW p \in Procs, Proceed(p) PROVE ReturnInv'
  BY <1>2, CalmBack, RemoveBack, RmtreeFailsBack, GitBack, RecoverBack,
     EditBack DEF Proceed
<1>3. ASSUME UNCHANGED vars PROVE ReturnInv'
  BY <1>3 DEF BackInv, ReturnInv, AwayRecorded, WillRecord, StillSo, Recorded, Origin,
     Kept, vars
<1>4. ReturnInv'
  <2>1. ASSUME NEW p \in Procs, Begin(p) PROVE ReturnInv'
    BY <2>1, BeginBack
  <2>2. CASE World \/ \E p \in Procs : Crash(p)
    BY <2>2, WorldBack
  <2> QED
    BY <1>2, <1>3, <2>1, <2>2 DEF Next
<1> QED
  BY <1>1, <1>4 DEF BackInv

\* One command at a time, with copies made whole, edits of mode_local.json made
\* and swaps that finish: a tool in dev mode whose directory its author wrote,
\* and has not given up, has a recorded origin with a backup that exists.
THEOREM ReturnSafe ==
    ASSUME OneAtATime, WholeCopies, EditsMade, SwapsFinish
    PROVE  Spec => []DevCanReturn
<1>1. Init => BackInv
  <2> SUFFICES ASSUME Init PROVE ReturnInv
    BY WayInit DEF BackInv
  <2>1. \A p \in Procs : job[p] = Idle
    BY DEF Init
  <2>2. /\ Idle.pc = "idle" /\ Idle.edit = "cache" /\ ~Idle.sub /\ ~Idle.removed
    BY DEF Idle
  <2>3. WillRecord /\ StillSo
    BY <2>1, <2>2 DEF WillRecord, StillSo
  <2>4. AwayRecorded
    <3> SUFFICES ASSUME NEW t \in Tools, Kept(t) PROVE form[t] = "dir"
      BY DEF AwayRecorded
    <3>1. InitState[t] = "embedded"
      BY DEF Init, Kept
    <3> QED
      BY <3>1 DEF Init
  <2> QED
    BY <2>3, <2>4 DEF ReturnInv
<1>2. BackInv /\ [Next]_vars => BackInv'
  BY BackNext
<1>3. BackInv => DevCanReturn
  <2> SUFFICES ASSUME BackInv, NEW t \in Tools, form[t] = "link", t \notin registered,
                      Kept(t), \A p \in Procs : job[p].tool # t
               PROVE  /\ config.origin[t] # None
                      /\ config.origin[t].folder # None
                      /\ trash[config.origin[t].folder] # None
    BY DEF DevCanReturn, Kept
  <2>1. Recorded(t)
    BY DEF BackInv, ReturnInv, AwayRecorded
  <2>2. None \notin Folders
    BY ModeAssumption
  <2> QED
    BY <2>1, <2>2 DEF Recorded, Origin
<1> QED
  BY <1>1, <1>2, <1>3, PTL DEF Spec

=============================================================================
