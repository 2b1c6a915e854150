----------------------------- MODULE ModeSwitch -----------------------------
(***************************************************************************)
(* dazzlecmd_lib.mode: switching a tool between an embedded directory, a   *)
(* git submodule and a symlink to a development checkout, and restoring    *)
(* the form it had before. The tool's directory, .gitmodules, the trash    *)
(* and mode_local.json change one after the other, each in an action of    *)
(* its own, so that an error, a crash or another process can come between. *)
(*                                                                         *)
(* The trash is seen through the results trash() and recover_folder() may  *)
(* have; TrashStore models how they come about.                            *)
(***************************************************************************)
EXTENDS Naturals, FiniteSets

CONSTANTS
    Tools, Procs, None,
    InitState,    \* [Tools -> {"embedded", "submodule", "local_only"}]
    RemoteKnown,  \* tools whose manifest or --url gives a remote URL
    Options,      \* records [force, immediate] of the switches made
    FaultAt,      \* the operations that may fail
    CrashAt,      \* the steps at which a process may be killed
    UserActs,     \* what users do besides: {"edit", "lose", "clean", "recover"}
    MaxCalls, MaxFaults, MaxCrashes, MaxEdits  \* bounds of the exploration

\* What a tool directory may hold: what its author wrote there, a clone, a
\* clone with uncommitted edits, the leftovers of an operation that failed.
Bodies == {"own", "clone", "edits", "rest"}
States == {"missing", "symlink", "local_only", "submodule", "embedded"}
Folders == 1..MaxCalls
Backups == [tool : Tools, body : Bodies \cup {None}, listed : BOOLEAN]
Origins == [prior : {"embedded", "submodule"}, folder : Folders \cup {None}]
Configs == [dev : SUBSET Tools, cached : SUBSET Tools,
            origin : [Tools -> Origins \cup {None}]]
Steps == {"idle", "gate", "remove", "link", "publish", "git", "detach",
          "recover", "relink", "peek", "load", "trunc", "write"}
Edits == {"cache", "remember", "record", "clear", "forget"}
FaultSites == {"query", "trash", "rmtree", "manifest", "leftover", "link", "unlink",
               "git", "partial", "recover", "rest", "save"}

ASSUME ModeAssumption ==
    /\ InitState \in [Tools -> {"embedded", "submodule", "local_only"}]
    /\ RemoteKnown \subseteq Tools
    /\ Options \subseteq [force : BOOLEAN, immediate : BOOLEAN]
    /\ UserActs \subseteq {"edit", "lose", "clean", "recover"}
    /\ FaultAt \subseteq FaultSites /\ CrashAt \subseteq Steps \ {"idle"}
    /\ MaxCalls \in Nat /\ MaxFaults \in Nat
    /\ MaxCrashes \in Nat /\ MaxEdits \in Nat
    /\ None \notin Tools /\ None \notin Bodies /\ None \notin Folders
    /\ None \notin Backups /\ None \notin Origins

VARIABLES
    form,        \* [Tools -> {"dir", "link", "none"}]: what is at the tool's path
    body,        \* [Tools -> Bodies \cup {None}]: what the directory holds
    dev,         \* tools whose development checkout exists
    registered,  \* tools that .gitmodules lists
    config,      \* the last complete content of mode_local.json
    torn,        \* mode_local.json is truncated: a save has not finished
    trash,       \* [Folders -> Backups \cup {None}]: the trash store
    job,         \* [Procs -> Jobs]: each process's command in progress
    calls, faults, crashes, edits,
    made,        \* history: what people wrote, as <<tool, body>>
    discarded    \* history: what they chose to delete without a backup

count == <<calls, faults, crashes, edits>>
hist  == <<made, discarded>>
tree  == <<form, body, dev, registered, trash>>
vars  == <<form, body, dev, registered, config, torn, trash, job,
           calls, faults, crashes, edits, made, discarded>>

NoConfig == [dev |-> {}, cached |-> {}, origin |-> [t \in Tools |-> None]]

Jobs == [pc : Steps, tool : Tools \cup {None},
         act : {"dev", "publish", "restore"},
         opt : [force : BOOLEAN, immediate : BOOLEAN],
         sub : BOOLEAN,                   \* .gitmodules listed the tool
         prior : States,                  \* the form found at the start
         id : Folders \cup {0},           \* name of the folder trash() makes
         folder : Folders \cup {None},    \* backup made, or to recover
         removed : BOOLEAN,               \* this call removed a directory
         edit : Edits, devs : SUBSET Tools, mem : Configs]

Idle == [pc |-> "idle", tool |-> None, act |-> "dev", sub |-> FALSE,
         opt |-> [force |-> FALSE, immediate |-> FALSE], prior |-> "missing",
         id |-> 0, folder |-> None, removed |-> FALSE, edit |-> "cache",
         devs |-> {}, mem |-> NoConfig]

Init ==
    /\ form = [t \in Tools |-> IF InitState[t] = "local_only" THEN "link" ELSE "dir"]
    /\ body = [t \in Tools |-> CASE InitState[t] = "embedded" -> "own"
                                 [] InitState[t] = "submodule" -> "clone"
                                 [] OTHER -> None]
    /\ dev = Tools
    /\ registered = {t \in Tools : InitState[t] = "submodule"}
    /\ config = NoConfig /\ torn = FALSE
    /\ trash = [k \in Folders |-> None]
    /\ job = [p \in Procs |-> Idle]
    /\ calls = 0 /\ faults = 0 /\ crashes = 0 /\ edits = 0
    /\ made = {<<t, "own">> : t \in {u \in Tools : InitState[u] = "embedded"}}
    /\ discarded = {}

-----------------------------------------------------------------------------
(* Reading the tree and mode_local.json *)

At(p, step) == job[p].pc = step
Goto(p, step) == job' = [job EXCEPT ![p].pc = step]
Return(p) == job' = [job EXCEPT ![p] = Idle]

Refused(site) == /\ site \in FaultAt /\ faults < MaxFaults
                 /\ faults' = faults + 1 /\ UNCHANGED <<calls, crashes, edits>>
RefusedBoth(site, other) ==
    /\ {site, other} \subseteq FaultAt /\ faults + 2 <= MaxFaults
    /\ faults' = faults + 2 /\ UNCHANGED <<calls, crashes, edits>>
Granted == UNCHANGED count

\* _load_full_config(): an unreadable file reads as an empty one.
Load == IF torn THEN NoConfig ELSE config

\* detect_tool_state(): a link whose target is gone does not exist.
StateOf(t) ==
    CASE form[t] = "link" /\ t \in dev ->
             IF t \in registered THEN "symlink" ELSE "local_only"
      [] form[t] = "dir" -> IF t \in registered THEN "submodule" ELSE "embedded"
      [] OTHER -> "missing"

\* _find_undiscovered_tool(): what is not on disk needs a cached manifest.
Findable(t) == form[t] # "none" \/ t \in Load.cached

\* _determine_target() when the user forces no direction.
Toggle(state) == CASE state = "symlink" -> "publish"
                   [] state \in {"submodule", "embedded"} -> "dev"
                   [] OTHER -> "none"

\* resolve_dev_path(): the --path option, then the remembered path.
DevPath(t, explicit) == t \in dev /\ (explicit \/ t \in Load.dev)

-----------------------------------------------------------------------------
(* cmd_switch() *)

\* The command reads the state and .gitmodules once and goes by what it read.
Started(t, act, opt) ==
    [Idle EXCEPT !.tool = t, !.act = act, !.opt = opt, !.prior = StateOf(t),
                 !.sub = t \in registered, !.id = calls + 1]

SwitchDev(p, t, opt, explicit) ==
    job' = [job EXCEPT ![p] =
              IF StateOf(t) \in {"symlink", "local_only"} \/ ~DevPath(t, explicit)
              THEN Idle
              ELSE [Started(t, "dev", opt) EXCEPT
                      !.pc = IF form[t] # "dir" THEN "link"
                             ELSE IF opt.force THEN "remove" ELSE "gate"]]

SwitchPublish(p, t, opt) ==
    job' = [job EXCEPT ![p] =
              IF StateOf(t) = "submodule" THEN Idle
              ELSE [Started(t, "publish", opt) EXCEPT !.pc = "load",
                                                      !.edit = "cache"]]

Switch(p, t, forced, opt, explicit) ==
    LET target == IF forced = "none" THEN Toggle(StateOf(t)) ELSE forced IN
    /\ At(p, "idle") /\ Findable(t) /\ calls < MaxCalls
    /\ \/ target = "dev" /\ SwitchDev(p, t, opt, explicit)
       \/ target = "publish" /\ SwitchPublish(p, t, opt)
    /\ calls' = calls + 1
    /\ UNCHANGED <<tree, config, torn, faults, crashes, edits, hist>>

\* _check_dirty_tree(): no answer from git counts as a clean tree; leftovers may
\* be of a clone, which is not clean any more, or of something else.
Gate(p) ==
    LET holds(bodies) == form[job[p].tool] = "dir" /\ body[job[p].tool] \in bodies IN
    /\ At(p, "gate")
    /\ \/ Granted /\ holds({"edits", "rest"}) /\ Return(p)
       \/ Granted /\ ~holds({"edits"}) /\ Goto(p, "remove")
       \/ Refused("query") /\ Goto(p, "remove")
    /\ UNCHANGED <<tree, config, torn, hist>>

\* The step that follows the removal of the old directory.
Onward(p) == IF job[p].act = "dev" THEN "link" ELSE "git"
Empty(t) == /\ form' = [form EXCEPT ![t] = "none"]
            /\ body' = [body EXCEPT ![t] = None]

\* Mutant: a failed backup leads to rmtree without --force.
RemoveNowUnforced(p) ==
    LET t == job[p].tool IN
    /\ At(p, "remove") /\ form[t] = "dir"
    /\ \/ job[p].opt.immediate /\ Granted
       \/ ~job[p].opt.immediate /\ Refused("trash")
    /\ Empty(t)
    /\ job' = [job EXCEPT ![p].pc = Onward(p), ![p].removed = TRUE]
    /\ UNCHANGED <<dev, registered, config, torn, trash, hist>>

\* A user who asked for no backup gives up the content, but uncommitted edits
\* only with --force.
GivenUpBy(p) ==
    LET t == job[p].tool
        opt == job[p].opt
    IN {<<t, b>> : b \in {c \in {body[t]} : opt.force \/ (opt.immediate /\ c # "edits")}}

\* --immediate, or --force after the trash failed: rmtree without a backup.
RemoveNow(p) ==
    LET t == job[p].tool IN
    /\ At(p, "remove") /\ form[t] = "dir"
    /\ \/ job[p].opt.immediate /\ Granted
       \/ ~job[p].opt.immediate /\ job[p].opt.force /\ Refused("trash")
    /\ Empty(t)
    /\ discarded' = discarded \cup GivenUpBy(p)
    /\ job' = [job EXCEPT ![p].pc = Onward(p), ![p].removed = TRUE]
    /\ UNCHANGED <<dev, registered, config, torn, trash, made>>

\* _rmtree_or_error(): rmtree raises, before or after it has deleted a part of
\* the directory. The swap is given up.
RmtreeFails(p) ==
    LET t == job[p].tool IN
    /\ At(p, "remove") /\ form[t] = "dir"
    /\ \/ job[p].opt.immediate /\ Refused("rmtree")
       \/ ~job[p].opt.immediate /\ job[p].opt.force /\ RefusedBoth("trash", "rmtree")
    /\ \/ UNCHANGED <<body, discarded>>
       \/ /\ body' = [body EXCEPT ![t] = "rest"]
          /\ discarded' = discarded \cup GivenUpBy(p)
    /\ Return(p)
    /\ UNCHANGED <<form, dev, registered, config, torn, trash, made>>

\* trash() succeeds, also for a link another process has put there since the
\* command began. After a copy across devices it may leave part of a directory
\* behind and still say so.
RemoveToTrash(p) ==
    LET t == job[p].tool IN
    /\ At(p, "remove") /\ form[t] # "none" /\ ~job[p].opt.immediate
    /\ trash' = [trash EXCEPT ![job[p].id] =
                   [tool |-> t, body |-> body[t], listed |-> TRUE]]
    /\ \/ Granted /\ Empty(t)
       \/ /\ form[t] = "dir" /\ Refused("leftover")
          /\ body' = [body EXCEPT ![t] = "rest"] /\ UNCHANGED form
    /\ job' = [job EXCEPT ![p].pc = Onward(p), ![p].removed = TRUE,
                          ![p].folder = job[p].id]
    /\ UNCHANGED <<dev, registered, config, torn, hist>>

\* trash() fails with nothing done, or raises when it writes the manifest,
\* with the directory already moved; or the path is empty, or is a link, which
\* rmtree refuses. The swap is given up, whatever the options.
RemoveFails(p) ==
    LET t == job[p].tool
        opt == job[p].opt IN
    /\ At(p, "remove")
    /\ \/ form[t] = "none" /\ Granted /\ UNCHANGED tree
       \/ form[t] = "link" /\ opt.immediate /\ Granted /\ UNCHANGED tree
       \/ /\ ~opt.immediate /\ (form[t] = "link" \/ ~opt.force)
          /\ form[t] # "none" /\ Refused("trash") /\ UNCHANGED tree
       \/ /\ ~opt.immediate /\ form[t] # "none" /\ Refused("manifest")
          /\ Empty(t)
          /\ trash' = [trash EXCEPT ![job[p].id] =
                         [tool |-> t, body |-> body[t], listed |-> FALSE]]
          /\ UNCHANGED <<dev, registered>>
    /\ Return(p)
    /\ UNCHANGED <<config, torn, hist>>

\* create_link(), which needs a free path. Then the dev path is remembered.
Link(p) ==
    LET t == job[p].tool IN
    /\ At(p, "link")
    /\ \/ /\ form[t] = "none" /\ Granted
          /\ form' = [form EXCEPT ![t] = "link"]
          /\ job' = [job EXCEPT ![p].pc = "peek", ![p].edit = "remember"]
       \/ /\ \/ form[t] # "none" /\ Granted
             \/ form[t] = "none" /\ Refused("link")
          /\ Return(p) /\ UNCHANGED form
    /\ UNCHANGED <<body, dev, registered, config, torn, trash, hist>>

\* _switch_to_publish() after the manifest is cached: clear the path, by the
\* same gate and removal as above if it is a directory.
Publish(p) ==
    LET t == job[p].tool IN
    /\ At(p, "publish")
    /\ \/ ~job[p].sub /\ t \notin RemoteKnown /\ Granted /\ Return(p)
          /\ UNCHANGED form
       \/ /\ job[p].sub \/ t \in RemoteKnown
          /\ \/ /\ form[t] = "link" /\ Granted
                /\ form' = [form EXCEPT ![t] = "none"] /\ Goto(p, "git")
             \/ form[t] = "link" /\ Refused("unlink") /\ Return(p) /\ UNCHANGED form
             \/ /\ form[t] = "dir" /\ ~job[p].sub /\ Granted /\ UNCHANGED form
                /\ Goto(p, IF job[p].opt.force THEN "remove" ELSE "gate")
             \/ /\ form[t] = "none" \/ (form[t] = "dir" /\ job[p].sub)
                /\ Granted /\ Goto(p, "git") /\ UNCHANGED form
    /\ UNCHANGED <<body, dev, registered, config, torn, trash, hist>>

\* git submodule add, or update --init. It may fail or time out, leaving
\* nothing or part of a clone; the link that was there is not put back.
Git(p) ==
    LET t == job[p].tool IN
    /\ At(p, "git")
    /\ \/ /\ form[t] = "none" \/ job[p].sub
          /\ Granted
          /\ form' = [form EXCEPT ![t] = "dir"]
          /\ body' = [body EXCEPT ![t] = IF form[t] = "dir" THEN @ ELSE "clone"]
          /\ registered' = registered \cup {t}
          /\ job' = [job EXCEPT ![p].pc = "load", ![p].edit = "clear"]
       \/ /\ \/ form[t] # "none" /\ ~job[p].sub /\ Granted /\ UNCHANGED <<form, body>>
             \/ Refused("git") /\ UNCHANGED <<form, body>>
             \/ /\ form[t] = "none" /\ Refused("partial")
                /\ form' = [form EXCEPT ![t] = "dir"]
                /\ body' = [body EXCEPT ![t] = "rest"]
          /\ Return(p) /\ UNCHANGED registered
    /\ UNCHANGED <<dev, config, torn, trash, hist>>

-----------------------------------------------------------------------------
(* cmd_restore() *)

Restore(p, t) ==
    LET o == Load.origin[t] IN
    /\ At(p, "idle") /\ Findable(t) /\ calls < MaxCalls
    /\ job' = [job EXCEPT ![p] =
                 IF o = None \/ StateOf(t) \notin {"symlink", "local_only"}
                 THEN Idle
                 ELSE IF o.prior = "submodule"
                 THEN [Started(t, "publish", Idle.opt) EXCEPT !.pc = "load"]
                 ELSE IF o.folder = None \/ trash[o.folder] = None
                 THEN Idle
                 ELSE [Started(t, "restore", Idle.opt) EXCEPT
                         !.pc = "detach", !.folder = o.folder,
                         !.devs = Load.dev]]
    /\ calls' = calls + 1
    /\ UNCHANGED <<tree, config, torn, faults, crashes, edits, hist>>

\* remove_link(), because recover_folder() refuses an occupied path.
Detach(p) ==
    LET t == job[p].tool IN
    /\ At(p, "detach")
    /\ \/ form[t] = "link" /\ Granted
          /\ form' = [form EXCEPT ![t] = "none"] /\ Goto(p, "recover")
       \/ form[t] = "link" /\ Refused("unlink") /\ Return(p) /\ UNCHANGED form
       \/ form[t] # "link" /\ Granted /\ Goto(p, "recover") /\ UNCHANGED form
    /\ UNCHANGED <<body, dev, registered, config, torn, trash, hist>>

\* Mutant: the backup is dropped although the copy was not made.
RecoverDropsBackup(p) ==
    LET t == job[p].tool IN
    /\ At(p, "recover") /\ trash' = [trash EXCEPT ![job[p].folder] = None]
    /\ \/ form[t] = "none" /\ Granted /\ form' = [form EXCEPT ![t] = "dir"]
          /\ body' = [body EXCEPT ![t] = trash[job[p].folder].body]
          /\ job' = [job EXCEPT ![p].pc = "load", ![p].edit = "clear"]
       \/ Refused("recover") /\ Goto(p, "relink") /\ UNCHANGED <<form, body>>
    /\ UNCHANGED <<dev, registered, config, torn, hist>>

\* recover_folder(): the copy is made and the backup removed, or the copy
\* fails (with nothing or a part of it made), or the backup outlives the copy.
Recover(p) ==
    LET t == job[p].tool
        k == job[p].folder
        free == form[t] = "none" /\ trash[k] # None
        Fill(b) == /\ form' = [form EXCEPT ![t] = IF b = None THEN "link" ELSE "dir"]
                   /\ body' = [body EXCEPT ![t] = b] IN
    /\ At(p, "recover")
    /\ \/ /\ free /\ Granted /\ Fill(trash[k].body)
          /\ trash' = [trash EXCEPT ![k] = None]
          /\ job' = [job EXCEPT ![p].pc = "load", ![p].edit = "clear"]
       \/ /\ \/ ~free /\ Granted /\ UNCHANGED <<form, body>>
             \/ free /\ Refused("recover") /\ UNCHANGED <<form, body>>
             \/ free /\ Refused("rest") /\ Fill("rest")
             \/ free /\ Refused("leftover") /\ Fill(trash[k].body)
          /\ Goto(p, "relink") /\ UNCHANGED trash
    /\ UNCHANGED <<dev, registered, config, torn, hist>>

\* The rollback: the symlink again, if the dev path was remembered and the
\* path is free. Its own failure is not reported.
Relink(p) ==
    LET t == job[p].tool
        can == t \in job[p].devs /\ form[t] = "none" IN
    /\ At(p, "relink")
    /\ \/ can /\ Granted /\ form' = [form EXCEPT ![t] = "link"]
       \/ can /\ Refused("link") /\ UNCHANGED form
       \/ ~can /\ Granted /\ UNCHANGED form
    /\ Return(p)
    /\ UNCHANGED <<body, dev, registered, config, torn, trash, hist>>

-----------------------------------------------------------------------------
(* Editing mode_local.json: read all of it, change one record, write all of it *)

\* load_local_config(): the dev paths are read before the whole file is.
Peek(p) ==
    LET t == job[p].tool
        forget == job[p].edit = "forget" IN
    /\ At(p, "peek")
    /\ job' = [job EXCEPT ![p] =
                 IF forget /\ t \notin Load.dev THEN Idle
                 ELSE [@ EXCEPT !.pc = "load",
                         !.devs = IF forget THEN Load.dev \ {t}
                                  ELSE Load.dev \cup {t}]]
    /\ UNCHANGED <<tree, config, torn, count, hist>>

\* What each edit writes: cache_manifest, save_local_config, _record_origin,
\* _clear_origin.
Edited(c, j) ==
    LET t == j.tool IN
    CASE j.edit = "cache" -> [c EXCEPT !.cached = @ \cup {t}]
      [] j.edit \in {"remember", "forget"} -> [c EXCEPT !.dev = j.devs]
      [] j.edit = "clear" -> [c EXCEPT !.origin[t] = None]
      [] j.edit = "record" -> [c EXCEPT !.origin[t] =
            [prior |-> j.prior,
             folder |-> IF j.prior = "embedded" THEN j.folder ELSE None]]

\* Mutant: an origin is recorded whatever there was before.
ThenAnyOrigin(j) ==
    CASE j.edit = "cache" -> [j EXCEPT !.pc = "publish"]
      [] j.edit = "remember" -> [j EXCEPT !.pc = "load", !.edit = "record"]
      [] j.edit = "clear" /\ j.act = "restore" ->
            [j EXCEPT !.pc = "peek", !.edit = "forget"]
      [] OTHER -> Idle

\* Mutant: no origin is recorded for an embedded directory.
ThenNoOrigin(j) ==
    CASE j.edit = "cache" -> [j EXCEPT !.pc = "publish"]
      [] j.edit = "remember" /\ j.removed /\ j.prior = "submodule" ->
            [j EXCEPT !.pc = "load", !.edit = "record"]
      [] j.edit = "clear" /\ j.act = "restore" ->
            [j EXCEPT !.pc = "peek", !.edit = "forget"]
      [] OTHER -> Idle

\* What the command does when this edit is over.
Then(j) ==
    CASE j.edit = "cache" -> [j EXCEPT !.pc = "publish"]
      [] j.edit = "remember" /\ j.removed /\ j.prior \in {"embedded", "submodule"} ->
            [j EXCEPT !.pc = "load", !.edit = "record"]
      [] j.edit = "clear" /\ j.act = "restore" ->
            [j EXCEPT !.pc = "peek", !.edit = "forget"]
      [] OTHER -> Idle

LoadConfig(p) ==
    LET j == job[p] IN
    /\ At(p, "load")
    /\ job' = [job EXCEPT ![p] =
                 IF j.edit = "clear" /\ Load.origin[j.tool] = None THEN Then(j)
                 ELSE [j EXCEPT !.pc = "trunc", !.mem = Edited(Load, j)]]
    /\ UNCHANGED <<tree, config, torn, count, hist>>

\* open(..., "w") empties the file; an error is only a warning.
Truncate(p) ==
    /\ At(p, "trunc")
    /\ \/ Granted /\ torn' = TRUE /\ Goto(p, "write")
       \/ Refused("save") /\ UNCHANGED torn /\ job' = [job EXCEPT ![p] = Then(@)]
    /\ UNCHANGED <<tree, config, hist>>

\* Nor is it more when the file cannot be filled: it stays as open() left it, or
\* holds a part.
Write(p) ==
    /\ At(p, "write")
    /\ \/ Granted /\ config' = job[p].mem /\ torn' = FALSE
       \/ Refused("save") /\ UNCHANGED config /\ torn' \in {torn, TRUE}
    /\ job' = [job EXCEPT ![p] = Then(@)]
    /\ UNCHANGED <<tree, hist>>

-----------------------------------------------------------------------------
(* The world around *)

May(act) == act \in UserActs /\ edits < MaxEdits

\* The user works in a clone, or loses the development checkout.
Edit(t) ==
    /\ form[t] = "dir" /\ body[t] = "clone" /\ May("edit")
    /\ body' = [body EXCEPT ![t] = "edits"] /\ made' = made \cup {<<t, "edits">>}
    /\ edits' = edits + 1
    /\ UNCHANGED <<form, dev, registered, config, torn, trash, job, calls,
                   faults, crashes, discarded>>

LoseDev(t) ==
    /\ t \in dev /\ May("lose")
    /\ dev' = dev \ {t} /\ edits' = edits + 1
    /\ UNCHANGED <<form, body, registered, config, torn, trash, job, calls,
                   faults, crashes, hist>>

\* safedel clean: deleting a backup needs the user's consent.
Clean(k) ==
    /\ trash[k] # None /\ trash[k].listed /\ May("clean")
    /\ trash' = [trash EXCEPT ![k] = None]
    /\ discarded' = discarded \cup {<<trash[k].tool, b>> : b \in {trash[k].body} \ {None}}
    /\ edits' = edits + 1
    /\ UNCHANGED <<form, body, dev, registered, config, torn, job, calls,
                   faults, crashes, made>>

\* safedel recover, where the path is free.
RecoverByHand(k) ==
    LET t == trash[k].tool IN
    /\ trash[k] # None /\ trash[k].listed /\ form[t] = "none" /\ May("recover")
    /\ form' = [form EXCEPT ![t] = IF trash[k].body = None THEN "link" ELSE "dir"]
    /\ body' = [body EXCEPT ![t] = trash[k].body]
    /\ trash' = [trash EXCEPT ![k] = None]
    /\ edits' = edits + 1
    /\ UNCHANGED <<dev, registered, config, torn, job, calls, faults, crashes, hist>>

\* A process is killed; only what it wrote stays.
Crash(p) ==
    /\ job[p].pc \in CrashAt /\ crashes < MaxCrashes
    /\ Return(p) /\ crashes' = crashes + 1
    /\ UNCHANGED <<tree, config, torn, calls, faults, edits, hist>>

Begin(p) ==
    \/ \E t \in Tools, forced \in {"none", "dev", "publish"}, opt \in Options,
          explicit \in BOOLEAN : Switch(p, t, forced, opt, explicit)
    \/ \E t \in Tools : Restore(p, t)

Proceed(p) ==
    \/ Gate(p) \/ RemoveNow(p) \/ RmtreeFails(p) \/ RemoveToTrash(p) \/ RemoveFails(p)
    \/ Link(p) \/ Publish(p) \/ Git(p)
    \/ Detach(p) \/ Recover(p) \/ Relink(p)
    \/ Peek(p) \/ LoadConfig(p) \/ Truncate(p) \/ Write(p)

World ==
    \/ \E t \in Tools : Edit(t) \/ LoseDev(t)
    \/ \E k \in Folders : Clean(k) \/ RecoverByHand(k)

Next ==
    \/ \E p \in Procs : Begin(p) \/ Proceed(p) \/ Crash(p)
    \/ World

Spec == Init /\ [][Next]_vars

-----------------------------------------------------------------------------
(* Properties *)

\* Every variable keeps its type.
TypeOK ==
    /\ form \in [Tools -> {"dir", "link", "none"}]
    /\ body \in [Tools -> Bodies \cup {None}]
    /\ dev \subseteq Tools /\ registered \subseteq Tools
    /\ config \in Configs /\ torn \in BOOLEAN
    /\ trash \in [Folders -> Backups \cup {None}]
    /\ job \in [Procs -> Jobs]
    /\ calls \in 0..MaxCalls /\ faults \in 0..MaxFaults
    /\ crashes \in 0..MaxCrashes /\ edits \in 0..MaxEdits
    /\ made \subseteq Tools \X Bodies /\ discarded \subseteq Tools \X Bodies

\* What a person wrote in a tool's directory is there, or in the trash, unless
\* they chose to delete it: whatever errors and crashes befall the swaps.
ContentKept ==
    \A m \in made \ discarded :
        \/ form[m[1]] = "dir" /\ body[m[1]] = m[2]
        \/ \E k \in Folders : /\ trash[k] # None
                              /\ trash[k].tool = m[1] /\ trash[k].body = m[2]

\* A recorded origin that names a backup leads to what the tool held before,
\* until the content is back in place or the user has deleted it.
OriginLeadsBack ==
    \A t \in Tools : \A k \in Folders :
        (config.origin[t] # None /\ config.origin[t].folder = k) =>
            \/ trash[k] # None /\ trash[k].tool = t /\ trash[k].body = "own"
            \/ form[t] = "dir" /\ body[t] = "own"
            \/ <<t, "own">> \in discarded

\* A tool in dev mode that replaced an embedded directory can be restored: its
\* origin is recorded, with a backup that exists.
DevCanReturn ==
    \A t \in Tools :
        (/\ form[t] = "link" /\ t \notin registered
         /\ <<t, "own">> \in made \ discarded
         /\ \A p \in Procs : job[p].tool # t)
        => /\ config.origin[t] # None
           /\ config.origin[t].folder # None
           /\ trash[config.origin[t].folder] # None

=============================================================================
