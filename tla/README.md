# Formal models of dazzlecmd-lib

TLA+ modules that model parts of `dazzlecmd_lib`, TLC configurations that check
them on small instances, and TLAPS proofs of what matters most. The modules
follow the source line by line where control is concerned (every durable effect,
guard, early return and error path, in their order) and keep of the data only
what the properties tell apart. `PROJECT.json` names, for every definition, the
source lines it stands for.

    tlc -workers 2 -config Names.cfg MCFqcnIndex.tla      # one run
    tlapm FqcnProofs.tla                                  # one proof module

## 1. The system

`dazzlecmd_lib` is the library under aggregators of command-line tools. An
aggregator discovers kits of tools on disk, gives every tool a fully qualified
name (FQCN), lets users rename, hide and regroup tools by contexts that can be
undone, keeps tools under development checked out beside the embedded ones, and
ships core tools of its own, of which `safedel` (a recoverable delete) is by far
the largest. There is no server and no thread: one process runs one command to
its end. What is hard comes from outside of one process: the file system refuses
an operation halfway, the process is killed, git or the user's editor is at work
at the same time, another terminal runs another command; and, inside, from
tables and files that are kept up to date incrementally instead of being
rebuilt.

| Component | State it keeps | Operations | Interacts with |
|---|---|---|---|
| Trash store (`core/safedel`) | trash folders (content, `manifest.json`) in a central store and in one per volume; `volumes.json` | `trash`, `recover`, `clean`, `list` | file system, other processes, the user's answers |
| Path classification (`_classifier`) | none | what a path is, how it must be deleted | read by `trash` |
| Link tool (`core/links`) | none | list links | file system |
| Mode switch (`mode.py`) | a tool's directory, `.gitmodules`, `mode_local.json`, backups in the trash | `switch` to dev, publish; `restore` | trash store, git, the user's checkout |
| FQCN index (`engine.py`) | `canonical_index`, `alias_index`, `short_index`, `shortcut_candidates`, `kit_order` | insert, repoint, remove, `resolve` | filled by discovery, changed by the alias contexts |
| Alias contexts (`contexts.py`) | receipts of what they changed | apply and undo of a rebind or a projection | the index |
| Discovery (`engine.py`, `loader.py`) | the frames of the walk, the projects found | `discover`, recurse into embedded aggregators | reads the kits' registration files, fills the index |
| Dispatch (`engine.py`, `fqcn_grammar.py`, `meta_command_registry.py`, `verb_contracts.py`) | the environment and `sys.argv`, the registry of verbs and its lock, the calls of `run()` in progress | `run`; `register`, `override`, `unregister`; `resolve_target` | the index, the tools it runs (which may be aggregators) |
| User configuration (`config.py`, `property_store.py`, `user_overrides.py`, contexts) | `config.json`, its cached copy | read, merge-write, replace; visibility, activation | read by the loader |
| Containment, kit membership (`contexts.py`, `loader.py`) | a kit's list of tools in memory; `kits/*.kit.json` with their pointer block | group, ungroup, attach, detach | discovery |
| Runtime dispatch and setup (`registry.py`, `platform_resolve.py`, `templates.py`, `conditions.py`, `setup_resolve.py`, `user_overrides.py`) | none between commands; during one, the block resolved so far | resolve the block for this host, choose a `prefer` entry, plan and start a program; `setup` | called by dispatch; reads the machine several times |
| Property cascade (`fqcn_tree.py`, `instance_plane.py`, `prop_commands.py`, `property_store.py`) | `properties.json` and each process's cached copy; the tree, built per command | get, set, add, upsert, delete, touch; the verbosity cascade | `config.json`, kits and tools |
| Self setup, shell fix | PATH, shell profiles | install, back up, restore | the user's shell |
| Tool paths, presentation | none | string functions, printing | |

### What makes each correct, and why it is hard to test

* **Trash store.** Nothing that was ever given to `trash` disappears before its
  owner agreed to purge it; what a call acknowledged is complete and listed;
  a lookup answers with the folder it was asked for; no clean gets past the
  protection zones. Every call makes many durable changes, the manifest last,
  so there are many points to be interrupted at, and folder names have a
  resolution of one second.
* **Mode switch.** What a person wrote in a tool's directory exists somewhere
  whatever fails; a tool in dev mode can come back to what it was; the records
  of one tool survive a command on another; a failed restore leaves a usable
  tool. One command combines the trash, git, a symlink and a JSON file, and
  each fails alone.
* **FQCN index.** Each name is the name of one tool or leads to one; every
  spelling of a name that the code shows resolves to the same tool;
  `short_index`, never rebuilt, is what a rebuild would give; undo restores.
  The order in which discovery meets projects, and a long sequence of legal
  rebinds and undos, are what tests do not enumerate.
* **Discovery.** Recursion into aggregators that embed each other ends, and a
  diamond is not mistaken for a cycle; what is found is what the registrations
  lead to; a registration that another process is rewriting takes away no more
  than what goes through it.
* **Dispatch.** The line that was typed decides what runs, whatever tools, verbs
  and properties share its words; a mutating verb never picks its level by
  chance; whatever a tool or a nested aggregator does, `run()` leaves the process
  as it found it.
* **Runtime and setup.** What runs on this machine is what the layers of the
  manifest and of the user's override declare for it, layer by layer, although
  the code computes it by a chain of merges and substitutions; what setup makes
  is what the runtime then looks for.
* **User configuration.** Changing a setting keeps every other, in its own list
  too; no order of verbs and undos reaches a state that a single verb refuses;
  a kit is never on both lists; undo restores. What a verb writes was computed
  from a read that may be as old as its process.
* **Kit membership.** What a registration said is never lost by a sequence of
  attach, detach, group, ungroup and undo, although the file is rewritten in place.
* **Properties.** A value is stored under one canonical spelling, never over the
  truth of a file; two-step moves lose nothing; quieting a node quiets what is
  below it; a value at an alias relation is told at its views.
* **Self setup.** Applied twice it changes nothing; undone it leaves no trace.

## 2. The modules

    RecoverableDelete        NameSpace                 abstract specifications
          ^                      ^
          | refinement           | refinement
    TrashRefinement          FqcnRefinement            refinement mappings
          |                      |
    TrashStore               FqcnIndex <- MCFqcnIndex  detailed models

    TrashRefinement <- MCTrashStore, TrashStoreProofs  instances, proofs
    FqcnRefinement <- FqcnProofs
    ModeSwitch <- MCModeSwitch, ModeSwitchProofs

    UserConfig <- MCUserConfig, UserConfigProofs
    KitRegistry <- Discovery <- MCDiscovery, DiscoveryProofs
    Manifests <- Runtime <- MCRuntime, RuntimeProofs
    Paths <- Dispatch <- MCDispatch, DispatchProofs
    Paths <- FiberTree <- Properties <- MCProperties, PropertiesProofs

### TrashStore: `core/safedel`

State: `fs` (what is at each path), `exists`, `content` and `manifest` (the trash
folders), `registered` (`volumes.json`), and one record `job[p]` for the call
process `p` is in: the step it will do next and what it has read so far. A
folder is identified as in the code by store, second and collision suffix.

| Code | Actions |
|---|---|
| `trash()`: register the volume, name the folder, make it, then per path stage and delete, at last save the manifest | `TrashBegin`, `RegisterLoad`, `RegisterSave`, `NameFolder`, `MakeFolder`, `StageLink`, `StageRename`, `StageCopy`, `StageAbsent`, `StageFail`, `Delete`, `SaveManifest` |
| `cmd_recover`, `recover_folder`, `_recover_entry` | `RecoverBegin`, `RecoverContent`, `RecoverLink`, `RecoverMetadata`, `RecoverFail`, `Unlink`, `RecoverEnd` |
| `cmd_clean`: the zone, the question, `remove_folder` | `CleanBegin`, `CleanSkip`, `CleanConfirm`, `Purge` |
| the world | `Tick`, `UserCreate`, `Crash` |

One action is one durable effect: a rename, a copy, an rmtree, an atomic write.
Between any two of them another process may act or the process be killed.
`Finds`, `Listings` and `Choices` are the lookups by exact name, by `last` and of
everything, with the order the code leaves open (folders of the same second)
left open. A registry that cannot be read is taken for an empty one and replaced by
one that holds the call's own store (`RegisterLoad`, `Drops`); the stores it drops are
remembered in `forgotten`, a history variable, until they are registered again.

What it leaves out: a lookup during which `volumes.json` cannot be read, which sees the
central store alone; dry runs; the alternative path under WSL; two paths of one
call of which one contains the other; directories with nothing in them and
files staged onto a directory of their name; copying over an existing symlink;
a path that turns into a link between classification and a copy across devices;
a crash in the middle of one copy; the age filter, `--contains` and `--path`;
users changing a file while a call works on it. A purge the user agreed to is
loss by consent (`purged`). `born`, `purged`, `acked` and `forgotten` are history variables.
The age limits of the zones and the parsing of time patterns are constants of
the model (`ZoneA` .. `ZoneC`, `Selections`).

`RecoverableDelete` is the promise: a thing is in place, kept or gone; it is
kept before it leaves its place, and is gone only when its owner said so.
`TrashRefinement` gives the mapping.

### ModeSwitch: `mode.py`

State: `form` and `body` (what is at the tool's path and who wrote it), `dev` (the
checkouts), `registered` (`.gitmodules`), `config` and `torn` (`mode_local.json`,
and whether a save has truncated it), `trash` (the backups), `job`.

| Code | Actions |
|---|---|
| `cmd_switch`, `_determine_target`, `resolve_dev_path` | `Switch` (`SwitchDev`, `SwitchPublish`) |
| switching to dev: gate on uncommitted work, remove with or without a backup, link | `Gate`, `RemoveNow`, `RemoveToTrash`, `RemoveFails`, `RmtreeFails` (what an `rmtree` that raises leaves), `Link` |
| switching to the published form: clear the path, `git submodule add` or `update` | `Publish`, `Git` |
| restoring: unlink, recover the recorded backup or check out the submodule, relink on failure | `Restore`, `Detach`, `Recover`, `Git`, `Relink` |
| the edits of `mode_local.json`: load, truncate, write, which may fail | `Peek`, `LoadConfig`, `Truncate`, `Write` |
| the user and the world | `Edit`, `LoseDev`, `Clean`, `RecoverByHand`, `Crash` |

Left out: the trash is seen through its results (a folder listed or not);
recovering an unlisted folder by hand; the trailing garbage that two writers of
different lengths may leave in `mode_local.json`; more than one checkout per
tool; a git child that outlives its parent; dry runs. The local URL in
`.gitmodules` is folded into the path of the checkout. A link whose checkout is
gone counts as missing, as `os.path.exists` says, and makes a restore refuse.

### FqcnIndex: the index in `engine.py` and the alias contexts

State: the tables of `FQCNIndex`, the position of the running pass of
`discover()` and the receipts of calls that can still be undone. A name is the
sequence of its segments.

| Code | Actions |
|---|---|
| `_build_fqcn_index`: groups by real path, the winner and its aliases | `RegisterWinner`, `RegisterDuplicate` |
| constitutional overlay; virtual kits' aliases; on to the next pass | `Overlay`, `ApplyVirtualKit`, `NextPass` |
| `AliasRebindContext.apply`, `.undo` | `Rebind`, `UndoRebind` |
| `ProjectionContext.apply`, `.undo` | `Project`, `UndoProject` |
| `resolve()`: exact, alias, kit shortcut, short with kit precedence, override and favorite | `ResolveFqcn`, `Shortcut`, `ResolveShort`: operators the properties speak of |

Given as inputs: what discovery found (module `Discovery`), and the virtual kits. Names have no dot inside a segment,
at least two segments, and the alphabet's order stands for string order. A
receipt may be undone at any later time and any number of times. The executor of
contexts is in another library and enters as "apply, later perhaps undo". The
wording of warnings is left out.

`NameSpace` is the promise of the index: a name belongs to a tool or leads to one, never both;
one operation settles one name; the answers to a short name are at all times
what the names in force say.

### UserConfig: `config.py` and the contexts over it

State: `file` (the keys of `config.json` that the verbs write, and one key that is
no concern of theirs), and per process the cached read, the verb in progress,
the entity of the last move and the receipts. `stale` and `last` are history:
whether the file has changed since a process read or loaded it, and the write
that made the file what it is.

| Code | Actions |
|---|---|
| `read()` when discovery computes the active kits | `Discover` |
| `hide`, `expose` and undo of `VisibilityContext` | `Hide`, `Expose`, `Undo` |
| `VisibilityRung.write`: silence, hide, shadow and their opposites | `SetRung` |
| `ActivationContext.enable`, `.disable` | `Enable`, `Disable` |
| any other command that writes a key | `SetOption` |
| `ConfigManager.write`: load the file, merge, replace it | `LoadExisting`, `Replace`, `ReplaceFails` |
| the file cannot be opened: what is read, or loaded to be merged into, is empty | `ReadFails`, `LoadFails` |
| the world | `Crash`, `Typo` (an edit that is not JSON) |

A verb computes its lists from the cached read in the first step; `write()` reads
the file anew in the second and replaces it in the third. `ActiveKits` is
`get_active_kits()`, `LevelOf` what the channels of a tool make its level.
Lists are sets (no verb adds a member twice). Given: the kits and tools, and that
`dz shadow` honours `forbids_constitutional`, which the library declares and the
command line enforces. The executor of transitions is in another library; it
may refuse moves the model allows, such as hiding what is already shadowed, none
of which changes a level. Left out: frames other than the global one, which
the code refuses; edits by hand that are still JSON; the schema version; the
silenced kits, which no verb here changes.

### KitRegistry and Discovery: kit registrations and the walk over them

`KitRegistry` has the files `kits/*.kit.json` of several aggregators and the calls
of `KitMembershipContext` on them, `Discovery` composes it with the walk of
`discover()`. State: `file`; per process the call in progress, the bytes it has
captured and its last move; the stack of frames of `_discover_aggregator()`, what
each has found, and the status of the whole.

| Code | Actions |
|---|---|
| `set_pointer`, `clear_pointer`: read, open (which empties the file), dump | `Detach`, `Attach`, `Open`, `Dump` |
| ungroup: capture and remove; group: write the captured bytes, or those the caller's kit carries; `undo()` | `Ungroup`, `RemoveFile`, `Group` (`Bytes`), `UndoMove` |
| the file removed under an open handle; a write that fails, an `open` or `remove` that raises; the process killed | `DumpUnlinked`, `DumpFails`, `CallFails`, `Killed` |
| `discover_kits`, one file at a time, merged with the kit's manifest | `ReadKit` (`Merged`, `Raises`), `ReadFails` |
| the partition into virtual, detached, embedded and flat kits; the scan | `Partition` |
| `_recurse_into_nested`, its loading stack and what it passes up | `Descend`, `Cycle`, `Return`, `Finish` |

A file being written is read as one that is not JSON; of two contents written over
one another the longer leaves a tail (`Over`). The order of file names is `Order`. An
aggregator's tools are in one directory (`RealBase`), which a walk may be told to look
for elsewhere: by the kit's own `tools_dir`, the hints of the embedded aggregator, or an
`override_tools_dir` (`BaseOf`); a kit with a `tools_dir` adds what is in it (`Extra`).
Given: which directories are aggregators (`child`) and the manifests of kits (`own`),
which nobody changes during a walk, and which tools have a manifest where (`OnDisk`,
`InKit`). Left out: the duplicate names that `FqcnIndex` handles, and the names of
manifests, because a tool is found under the usual one whatever name its namespace
declares (`loader.py:421-427`); a declared name enters as a hint only.

### Paths and Dispatch: `run()`

`Paths` has the grammar: texts are sequences of marks and names; `Parse`,
`ParseCli`, `Canonical`, `Planes` are the functions of `fqcn_grammar.py`.
`Dispatch` state: the stack of calls of `run()`, `os.environ`, `sys.argv`, and per
engine the registry of verbs, its overrides and its lock.

| Code | Actions |
|---|---|
| `register`, `override`, `unregister`, `clear` | `Register`, `Override`, `Unregister` |
| `_intercept_path_form` and the property form it answers with | `PropertyForm` (`Intercept`, `PathForm`) |
| `run()` up to routing; discovery that fails | `Run`, `Begins`, `DiscoveryFails` |
| `_dispatch_registry_path`, `_run_escape_hatch` | `GiveTool`, `StartMeta`, `MetaRefused`, `NothingToDo` (`Owns`) |
| `_run_tool` with its environment and its `finally` | `GiveTool`, `ToolEnds`, `MetaEnds` |
| `resolve_target` of a level-object verb | `ResolveTarget` (`Target`) |
| a tool in the process, a caller of the registry | `Meddle`, `Meddles` |

Left out: what a verb prints; argparse beyond the refusal of words a verb does
not have; `parse_known_args` of application parsers.

### Manifests and Runtime: running a tool and setting it up

`Manifests` has the pure part (deep merge, platform block, variables, override,
setup block) as operators, one level of recursion at a time, because manifests
nest no deeper; `Runtime` has a command's steps, each of which reads the machine anew.

| Code | Actions |
|---|---|
| `resolve_runtime`: block, then `prefer` entry by entry | `Resolve`, `TryEntry` (`Pass`, `Skip`), `NoEntry` |
| `RunnerRegistry.resolve` and the runners | `Call` (`PythonPlan`, `ShellPlan`, `NodePlan`, `DockerPlan`, ...) |
| `subprocess.run`, `os.execvp` | `Start`, `Ends` |
| the setup verb | `ResolveSetup`, `StartSetup` |
| installing or removing a program or file | `Change` |

Strings are opaque, a reference `{{name}}` is the whole of its string, and a path
is relative or not by its name. Left out: working directories beyond which
directory a relative path is looked up in, arguments, and output.

### FiberTree and Properties: the property store and the tree

`FiberTree` builds the tree as the code does, mounts first, then the instance plane,
virtual kits, projections, alias registries and the config ring, and defines
`Resolve` and the cascade (`Effective`) on it. `Properties` state: `properties.json`,
which keys `config.json` has, and per process the command, its cached read and the
content it is about to write.

| Code | Actions |
|---|---|
| a command looks at its key, and answers or refuses; the file cannot be opened | `Start`, `Look`, `LookFails`, `Gets`, `Decides` |
| `set`, `add`, `upsert`, an assignment: merge-write; the file cannot be opened for it | `Load`, `LoadFails`, `Replace` |
| `delete`: replace from the cached read | `Deletes`, `Replace` |
| `touch_canonicalize`: write first, delete second | `Touches`, `Replace`, `Again` |
| killed or failed; another writer of `config.json` | `Leaves`, `Configure` |

Left out: listing and rendering of subtrees; relations other than aliases.

## 3. The runs

Every bound is a constant of the `.cfg`; `Fault...` and `Crash...` name the places
where an operation may fail or a process be killed. One fault and one crash are
enough to reach each of the recorded partial states where a failure is handled at
the place it occurs and nothing keeps a count. The mode switch is the exception: what fails in a restore is
rolled back by steps that may fail as well, and so may the removal that follows a failed
backup; `ModeContent` has two faults.

| Run | Question | Bounds |
|---|---|---|
| `TrashSingle` | Does one process, interrupted or refused at any step, keep what it acknowledged complete, end every call, and implement `RecoverableDelete` (which says that nothing is lost)? | a file renamed, a directory copied across devices, a junction; 2 calls of `trash`, unlimited recovers and cleans; 1 fault anywhere but the manifest, 1 crash in recover or clean; one second, so that all folders collide |
| `TrashTwo` | What can two processes that trash in the same second lose? Nothing but a thing whose place another of its base name takes, and a link that was on record in one manifest or with one process alone (`LossWhileTrashing`) | two files of one base name, in different directories and on different volumes, and a junction; 3 calls, one of them with two paths; the same path given twice; every fault, an unreadable registry included, and a crash at every step of `trash`; the processes symmetric; nobody recovers |
| `TrashVolumes` | Two stores: when is the wrong folder found, and is content lost otherwise, and can a clean get past a zone? | a symlink, a directory, a broken link; a registry that cannot be read or saved; recovery in place, elsewhere and of metadata alone; all 8 combinations of `--force`, `--yes`, terminal; ages 0 to 3 with a limit at 1, 2 and 3, time passing while the user is asked |
| `ModeContent` | Is what people wrote kept by two processes that switch and restore one tool? | 2 commands with no option, `--force` or `--force --immediate`; 2 faults at any of 12 places, an `rmtree` that stops halfway and a failing rollback included; 1 crash at any step, 1 edit, all the user's acts |
| `ModeReturn` | Can a tool always come back to the content it had? | two tools (one embedded, one submodule), 4 commands with every option; 1 failure of the gate, the backup, the removal, the unlinking, the recovery; 1 crash before the records are saved; 1 edit; the checkout lost, the trash cleaned |
| `Names` | Everything about names: six properties and the refinement | 4 discoveries x 4 lists of virtual kits, chosen so that each rule of the passes applies in one of them, then 3 calls and all undos |
| `FindUnlisted` | (violation) a folder without a manifest is removed with its files by a recovery | 1 crash |
| `Settings` | Is what a write loses lost to an overlap or a file that cannot be opened only, does undo bring the file back, do overlapping verbs keep out of the states a single verb refuses? | 2 processes (symmetric), 2 tools (one constitutional), 2 kits (one always active), 3 calls, failures, crashes or broken files in all |
| `Discovery` | Does the walk find exactly what the registrations lead to, end, and survive registrations being rewritten meanwhile? | 3 aggregators that embed each other and themselves in every way of two kits each, overlays, detached and broken kits, tools in unusual directories among them, under 3 configurations (1,900 combinations); under the first of them one call on a registration of the root or of an embedded aggregator at any time, failing or killed at any step, and one layout with three calls by two processes and with four by one |
| `Runtime` | Is what runs what the layers declare for this machine, and does a tool that was set up run? | 14 tools that use every way of dispatching and of declaring, 8 overrides, 4 machines; 2 commands, 1 change of the machine at any time |
| `Dispatch` | Is every line routed as typed, is a mutating verb's level certain, is the process put back? | 3 aggregators (registry path, escape hatch, embedded), 2 calls of `run()` that may nest, about 300 lines, 2 registrations or acts of meddling |
| `Properties` | Is a value kept canonical, told at its views, inherited below its node, and lost to an overlap or a failed reading only? | 2 processes (symmetric), 9 paths (an axis, a rung, a kit, a validated key under two nodes, a key of the config ring that may be absent, under two spellings of the root, a derived field, an alias relation), 7 verbs, 3 commands, failed readings or changes of `config.json` |

Why the bounds suffice: the objects of a trash call are handled one by one and
meet only in a folder (same base name, same second) or in a registry, so two of
them, two folders and two stores produce every meeting; two processes produce
every pair of interleaved steps; the zones are three thresholds and five ages put
one value on each side of each. In the index, three calls after a discovery let
a rebind, a second that depends on it and the undo of the first happen; five
directories and twelve names produce each kind of conflict the passes resolve. In
the configuration, two processes give every overlap of one read, load and replacement with
another, and three calls a move, a second one and the undo of either.

`ModeReturn` leaves out the faults and crashes that are known to
break its properties (section 6), and `TrashSingle` the crash inside `trash` and the
failing manifest for the same reason. `TrashTwo` has no recovery, because its property
says what deleting alone can lose.

In the walk, two kits per directory give a kit that leads on and one beside it, and
three directories every cycle and diamond of length up to three. In the
dispatch, two calls are what it takes for one to run inside the other. A tree of
properties has one node of each origin (mounted, rung, kit, tool, alias relation,
view, ring), because the grafts treat nodes by their origin.

`CHECK_DEADLOCK FALSE` stands in the configurations of every component but the
trash: their numbered commands run out, and the system has nothing left to do. The
trash runs check deadlock.

## 4. Fairness

Two runs check liveness. `TrashSingle` uses `FairSpec`: weak fairness of
`Proceed(p)`, the disjunction of the steps of the call `p` is in. A call is a
synchronous Python call that waits for nothing but the user's answer to a
question, which the model takes to be given; nothing in one process waits for
another. Weak fairness of the whole disjunction, not of the single actions, is
what that justifies: that a step is taken, not which of its outcomes. No
fairness is assumed of users, clocks, faults or crashes. `CallsEnd` then says
that the search for a free folder name and the walks over folders end.
`Discovery` uses weak fairness of `Begin` and of `Walk`, the disjunction of the walk's
steps, because `discover()` is one call that waits for nobody. The other processes
have no fairness: `DiscoveryEnds` holds whatever they do.

## 5. The proofs

`TrashStoreProofs` proves, for any number of volumes, items, calls, faults and crashes,
from `TrashAssumption` and `NoneAssumption` (`None` is not a thing), and from the
hypotheses that each theorem names:

* `TypeCorrect`: `Spec => []TypeOK`. `TypeOK` is not inductive: a step that fills a
  folder or takes the head of a queue relies on what earlier steps put in the
  job record. The strengthening adds `Ready`, which says for each step of a job what its
  fields hold there (a job that stages has a folder that is a folder's name, a
  job that recovers has a queue that is not empty). The proof has one lemma per
  action.
* `ZonesHonoured`: `Spec => []CleanHonoursZones`. `ZoneInv` says that a job that
  waits for an answer or purges belongs to a folder whose zone, at the time it was
  looked at, permitted it; zones only loosen with age, so the folder that is
  removed later is permitted still.
* `FoundByUniqueName`: `Spec /\ RegistryWhole => []FoundIfUnique`, for any number of
  processes, if every volume that things are trashed on has a serial number
  (`SerialsKnown`: without one `_volumes.py` registers nothing and the store is not
  searched). `RegistryWhole` says that nobody writes `volumes.json` between a process's
  read and its write; that race (`_volumes.py:364`) really unlists a store. The
  inductive invariant `ListedInv`: the store of every backup, and of every call that
  got past its registration, is listed. The property leaves out the stores that an
  unreadable `volumes.json` was replaced without (`forgotten`): of them nobody need have
  overtaken anybody.
* `BackupsKept`: `Spec /\ []NamesUnique => []AckedKept`; `LossExplained`:
  `Spec => LossNeedsClash`; `NothingIsLost`:
  `Spec /\ [](NamesUnique /\ ~NothingCameBack) => []NothingLost`; and under the same
  condition `PromiseKept`: `KeepsPromise`, that is, `TrashStore` implements
  `RecoverableDelete`. All four are for
  commands that run one after the other (`OneProcess`; the processes overlap in
  `TrashTwo` only) and are given no two paths of one base name in a call (`Named`; the
  call of `TrashTwo` with two such paths is outside of it:
  otherwise the second replaces the first in `content/`). The last three moreover need
  that a link which is only in the memory of `trash()` gets into a manifest
  (`LinksSafe`: there are no links, or no manifest write fails and nobody is killed
  between staging and manifest; without it the target is lost, as it is in the code).
  The instances `TrashSingle` and `TrashVolumes` satisfy the hypotheses of the theorems
  on their properties.
  None of the properties is inductive. `SoloInv` ties the three places that tell of one
  folder together: what is in `content/` is accounted for by an entry of the manifest, or
  of the job that is filling the folder (`Tied`); what is still to be staged is at its
  path as `classify()` found it and shares no base name with what was staged (`TodoOK`);
  what is about to be deleted has its copy in the folder (`DestOK`); the folders a job
  has queued exist, in the order in which a name is looked up (`QueueOK`), so that
  under unique names the folder a name leads to is the one that was listed; what a recovery
  without errors has not brought back is still in the queue's entries (`BackOK`). `AckInv`
  adds that each thing a call was given is still to be staged or covered by a finished
  entry; `NextSafe`, that a step which makes an item disappear from its path, a folder or a
  manifest finds it in another of them. `Tied` and `TodoOK` fail at the overlaps of two
  processes that share a folder, which is why the theorems are about one at a time.
  For the promise it is not enough that nothing is lost: nothing that is gone, or was
  never there, may come back. `KindInv` says that what an entry tells of the kind of a
  thing is true, that links are there whole or not at all, and that a recovery holds of
  its folder what the manifest holds. Then each action maps to a step of
  `RecoverableDelete` or leaves every item where it is (one lemma per action); the
  condition is needed for the steps at which `NothingLost` would fail.

`FqcnProofs` proves, for every discovery result, every list of virtual kits and
every number of calls, from `IndexAssumption`:

* `IndexInvariant`, `SingleHopHolds`, `ShortExactHolds`. The inductive invariant
  is `TypeOK`, what the inputs keep (`Given`), `SingleHop`, `ShortExact` and
  `ReceiptsOK` (a receipt names tools that are canonical). `SingleHop` is needed
  to show that a repointing or a removal justifies the short names it leaves;
  `ReceiptsOK` that an undo leads back to a canonical name.
* `Refinement`: `Spec => IsNameSpace`, by the invariant and one lemma per kind of
  table change (`StepNames`).
* `UndoRestoresHolds`: what `undo()` gives back is what `before` remembers. `LastCall`
  says by which one alias, and which entry of a short name's bucket, the index differs
  from `before`, and `Sourced` that a name which is no alias has no provenance that an
  undo could leave behind.
* `AllDispatchHolds`: `Reached` follows the insertion loop of discovery: for the
  directories already through, the winner of each name has it and the others are
  reachable by aliases, the ones still to come have taken nothing.
* `ConvergeHolds`: from `ShortExact` and `SingleHop`, and that the choice of a least
  rank in `resolve_command` is among the tools that bear the name.

`UserConfigProofs` proves, for any processes, tools and kits, from
`ConfigAssumption`:

* `TypeCorrect`, `NeverOnBothLists` (`Spec => []NeverBoth`) and
  `ConstitutionalKept` (`Spec => []NeverShadowed`). What the file says is not
  inductive, because a write merges an update into a content loaded at another
  time than the read it was computed from. The invariant says that every
  content a process holds is good, and that every update it has computed is good
  by itself: it brings both lists of kits or neither, and its list of shadowed
  tools has no constitutional one. A good update then keeps any good content
  good (`MergeGood`). A verb that wrote one of the two lists alone would break it.
* `LossExplained` (`Spec => LossHasCause`) and `VeilReversible`
  (`Spec => MoveUndone`). `WriteInv` adds that a process whose copy nobody overtook, and
  whose readings did not fail, computed its update from what the file says still, and
  that the last write, if it was a move, made the file what a move makes of what was
  there. Both properties exempt a file that could not be opened, which the code takes
  for an empty one; `MoveUndone` moreover speaks of tools whose channels were those of a
  level, because a move sets all the channels of its level and so does its undo.

`DiscoveryProofs` proves, for any aggregators, kits and processes, from
`RegistryAssumption` and `DiscoveryAssumption`:

* `RegistryInvariant` and `RegistrationsKept` (`Spec => []RegistrationKept`). That a
  file, or somebody, holds what its registration was last changed to is not inductive: a
  file that is emptied is only safe because the one process that emptied it is about to
  write the very content, and a file that is gone because a process captured it.
  `SpotInv` says so of each file on which no two processes met (`raced`), whose process
  was not killed and did not fail to write (`cut`), and that no group() wrote over or
  from older bytes (`regrouped`): one job at most works on it, the file and the job say
  what it was last changed to, an empty file has a job that will fill it, an absent one
  a captor. Those five causes do lose a change in the code.
* `TypeCorrect`: `WalkInv` adds to the types that no aggregator is twice on the stack
  of the walk, so the recursion is never deeper than there are aggregators, and that
  there is a walk exactly while there is a stack.
* `FindsUntouchedHolds` (`Spec => []FindsUntouched`) and `FindsReachableHolds`
  (`Spec => []FindsReachable`), with no hypothesis: however the aggregators embed each
  other, and whatever other processes do to the files while the walk reads them. Both
  follow from `FindInv`. `SaysInv`: whatever is written anywhere for a registration says what
  it said at the start. `ShapeInv`: each frame was entered from the one below through a
  kit that it loads, and its name is the way there. `ReadInv`: a frame holds what it has
  read, as far as nobody wrote it. So what is found is found at the end of a `Trail` of
  registrations (`FoundPossible`, `FoundHere`): nothing is found too much. For the converse
  `CompleteInv` says of every `Road` that a chain of registrations can take, frame by
  frame, that it goes on through an embedded aggregator still to be entered, or the one the
  next frame is in, or that all that is at its end is reported and it nowhere comes
  back to where it was. This takes the place of a set of visited aggregators, which the
  code has not. The chains of `FindsReachable` are the last of the levels of a fold
  (`IsLevels`); that each level's chains are roads, and each trail a chain of the last
  level, is shown by the least level where it fails. `EndsInv` adds that a walk nobody
  disturbs fails only where the root raises and reports a cycle only where there is
  one; `ActiveInv`, that what is found below the root is active as the root's kit is.

`ModeSwitchProofs` proves, from `ModeAssumption`:

* `TypeCorrect`, with no hypothesis.
* `ContentSafe` (`Spec => []ContentKept`), if `--immediate` is only ever given with
  `--force`. `NamesInv` says that the folder a command is about to fill is free and
  no other command's, and that every folder a record or a command names holds what its
  tool held; `OptsOK` carries the hypothesis to the commands in progress. Without
  `--force` the gate is all that protects an edit when there is no backup, and the edit
  may come between the gate and the removal, or git give no answer.
  An `rmtree` that raises leaves all of the directory or a part of it; there is no
  backup then, because `--immediate` asked for none or because the backup failed and
  `--force` went on, so what is lost is given up by that consent (`RmtreeFailsSafe`).
  The commands of `ModeContent.cfg` give no option, `--force`, or both (`Considered`),
  as the theorem assumes.
* `OriginSafe` (`Spec => []OriginLeadsBack`), for one command at a time (`OneAtATime`),
  directories that are copied and removed whole or not (`WholeCopies`), and edits of
  `mode_local.json` that are made once begun (`EditsMade`). `WayInv` ties, per step of a
  command, what is on disk to what the file says and to what is about to be
  written in it.
* `ReturnSafe` (`Spec => []DevCanReturn`), if moreover a swap that has removed the
  directory is carried through (`SwapsFinish`). `AwayRecorded` says that work that is
  not in place is recorded, unless the command that moved it away is still at it.

Each hypothesis excludes a window that TLC finds open and section 6 lists; `ModeReturn.cfg`
meets them all, and the theorems cover every tool, folder and number of commands.

`DispatchProofs` proves, from `DispatchAssumption`, `LinesAssumption` (a line is a sequence,
and only words and assignments have a text) and `PathsAssumption`, with the invariant `IInv`:

* `TypeCorrect`, `PutBackHolds` (`Spec => PutBack`), `OneTargetHolds`. A call of `run()` puts
  back what it saw at its start, which is only right if nothing below it changed
  anything for good: `Nesting` says that every call but the last has given the process to a
  tool and no aggregator runs twice, `AsFound` that until a tool has it the process is as
  the last call found it, `Locks` that a registry is locked exactly while a call that uses
  it is past discovery. `OneTarget` follows from how `Target` treats a tie: it breaks one
  for no mutating verb.
* `RoutedAsTypedHolds` (`Spec => []RoutedAsTyped`), with no hypothesis. `RouteInv` ties what a
  call holds to the line it was typed as: past discovery that line has passed the
  intercept, and the call's own is the same without the colon of an entity path; a
  tool or a handler has the parts of that line. That no property or fiber path is
  run is a fact about the tokenizer (`PathStripped`): if every step of a path is an
  entity's, no mark of its text is a dot (`LexTells`). The tokenizer and the walk over
  the leading flags (`Prefix`) are recursive functions, for which the prover has no
  induction. `LexExists` and `SkipExists` show from the end of the text on, by the greatest
  place where it fails, that a function meets the definition; then it is unfolded
  step by step. `SplitIs` says how a setup line falls into its two parts.

`PropertiesProofs` proves `LossHasCauseHolds` (`Spec => LossHasCause`): `LookHolds`
says that what a command nobody overtook has read, and read successfully, is so still,
`CopyHolds` that the content it is about to write is the file but for its own key.

`RuntimeProofs` proves, from `BoundsAreNaturals`:

* `TypeCorrect`, with no hypothesis.
* `RunAsDeclaredHolds` (`Spec => []RunAsDeclared`), if declarations have the form the
  documents describe (`PlainDeclarations`). The code computes a block by merging
  level into level and substituting; the property reads each field from the first layer
  that declares it. One lemma per level shows that the merge says what its layers say
  (`LevelSays`, `HostSays`, `DeclaredHolds`), then that the substitutions keep it
  (`FieldRead`, `EntryRead`, `BlockRead`, `CommandRead`), with the shorthand of a plain string
  as a case of its own. The state part, `Settled`, says that the block a command holds is the declared
  one or the first entry of `prefer` that passed, while the machine stood still. Nothing in the code checks the form of
  a declaration; `MCRuntime` states that its tools and overrides have it exactly
  where the proof assumes it, so TLC evaluates the hypothesis.
* `SetupThenRunsHolds` (`Spec => []SetupThenRuns`): `Made` says that once a setup
  succeeded what its command makes is on the machine, until something is removed, and that
  a run which found the declared interpreter starts it.

Only model-checked:

* liveness (`CallsEnd`, `DiscoveryEnds`), which is out of the prover's reach;
* what processes that overlap can lose (`LossWhileTrashing`, `TrashTwo`);
* `TypeOK`, `RelationTold` and `QuietCovers` of `Properties`: they speak of the tree that the
  declarations build, and hold of trees built as the engine's are, not of any
  declarations; and the tree is a recursive function of objects, with no
  number that bounds it from which to start, as the length of a line does.

## 6. Where the code and its documentation disagree

One disagreement has a run of its own (`FindUnlisted`). The others met while
modelling, each reproduced by TLC before the bounds of the passing runs were
set, are:

* A recovery of metadata only counts as a full success, and the folder with the
  content is removed (`_recover.py:338`). So is a folder that a failed removal left
  without its manifest: it has no entries that could fail (`_recover.py:250`).
* Two paths of one call with the same base name share a place in the folder, and
  the second replaces the first (`_platform.py:202`).
* A folder is removed by name from the first store that has one, which need not
  be the store it was found in (`_store.py:396`); two folders of one second have no
  order, so `last` may be either (`_store.py:362`).
* What is staged on a volume without a serial number is not listed afterwards
  (`_volumes.py:359`), nor what is staged on one of two volumes that two
  processes register at once (`_volumes.py:364`), nor what is on any volume but the
  caller's own when the registry could not be read (`_volumes.py:326`): the next save
  replaces it.
* Two processes that settle on one folder name share the folder; the later
  manifest replaces the earlier and content of the same name is overwritten
  (`_timepattern.py:69`).
* A link is recorded in the manifest only: a crash after its deletion and before
  the manifest is saved loses it.
* The error handler given to `rmtree` swallows what it cannot delete
  (`_platform.py:320`).
* Cleaning warns of links by the kind `symlink`, whereas manifests hold
  `symlink_file` and `symlink_dir`; entries of broken links cannot be recovered.
* The gate of the mode switch answers "clean" when git is missing or times out
  (`mode.py:1109`); "nothing deleted" is printed although the backup was moved and
  only its manifest failed (`mode.py:1198`); after a link that failed, a second
  switch does not record where the tool came from (`mode.py:1294`).
* The undo of a rebind appends to the short name's bucket, so that among kits of
  one rank another tool may answer than before (`contexts.py:229`,
  `engine.py:278`).
* A group of directories whose winning name is taken is given up as a whole
  (`engine.py:1481`).
* `mode_local.json` is saved as a whole from a copy loaded before: two commands
  on two tools overwrite each other's records (`mode.py:298`).
* `disable k; enable k` on a fresh configuration makes every other kit inactive
  (`contexts.py:766`, `loader.py:310`), whereas `states.py:190-191` says
  "(enable o disable = identity)" and `tests/test_verb_context_adherence.py:28`
  "is its own inverse".
* The undo of a projection onto a name that led to the tool already removes that
  name (`contexts.py:311`, `engine.py:203`).
* A tool that a virtual kit renames has a node without a parent
  (`instance_plane.py:124`, `160-162`): quieting its kit does not reach it,
  although `fqcn_tree.py:302` says "squelches its whole subtree". `QuietCovers`
  excepts these tools.
* A value set at a view is not told at its alias relation (`instance_plane.py:481` cuts
  the key at the dot of the relation's name), although `counterpart_keys` joins them
  "both ways" (`instance_plane.py:451-454`). `RelationTold` is the way that works.
* A broken manifest in an embedded aggregator takes the whole of it away, and in a
  kit of the root the whole discovery (`loader.py:206`).
* `dz :.note:KEY` is refused on the command line though `canonicalize()` forgives
  it (`fqcn_grammar.py:284`).
* `setup` runs the resolved `command` and ignores a `script`
  (`default_meta_commands.py:436`, against `setup_resolve.py:35-38`); a base
  `command` and a platform's `script` merge into a block with both
  (`setup_resolve.py:52`); an interpreter that is a relative path is checked in one
  directory and started from another (`registry.py:350-385`).
* An override for a tool whose manifest has no runtime is ignored
  (`registry.py:1092`), whereas the documents say it is merged over the manifest; one that
  adds a subtype to an os whose setup is a plain string drops that command
  (`setup_resolve.py:203-208`: merged first, normalized after).

Met while reading, without a run:

* `MetaCommandRegistry` is locked after the parsers are built (`engine.py:2203`),
  where `lock()` says before (`meta_command_registry.py:220-228`); its user overrides
  survive `unregister()` and `clear()`; a stale favorite makes `resolve_target` find
  nothing although a kit has the name (`engine.py:1861`); `dz :.note:.x` raises an
  uncaught `FQCNParseError`.
* Runtime: `RunnerRegistry.resolve` is outside the `try` that reports errors
  (`engine.py:2308`); fields of `platforms.<os>` that hold a dict are taken for
  subtypes (`platform_resolve.py:94`); a null nested in a new block is kept
  (`platform_resolve.py:72-79`).
* Properties: one alias is applied per resolution (`instance_plane.py:80`);
  `dazzlecmd:.meta:config.x` escapes the read-only family that rejects "EVERY write
  under it" (`prop_commands.py:126-131`), and `touch_canonicalize` then moves the value
  into that family, over the truth of `config.json`; a value stored under an alias key has no
  effect on the cascade until `touch_canonicalize`, which nothing in the library
  calls; a stored `null` reads as not set.

* A `config.json` or `properties.json` that is not JSON, or that cannot be opened, is
  taken for an empty one by the next write, which so drops every other key
  (`config.py:178-184`); a failed read is kept as an empty one for the rest of the
  process (`config.py:121-127`).
* `undo` of the visibility, containment and membership contexts acts on the
  entity of the last `apply()`, not on the receipt's (`contexts.py:660`).
* `hide`'s docstring says that dispatch always survives (`entity.py:128`);
  shadowed tools are removed at discovery (`engine.py:1124`).
* `expose` to a level adds what a tool set by single rungs had not suppressed.
* `KitMembershipContext` writes the registry file in place; a torn file is skipped
  by `discover_kits` (`contexts.py:1076`). Its docstring calls both verbs idempotent;
  a group of a kit that is registered still writes older bytes over it: those its
  context captured before, or those the kit was loaded with (`contexts.py:1107-1122`).

## 7. Plan

What is left, in this order:

1. `LossWhileTrashing`, what processes that overlap can lose, as a theorem.
2. `ModeRebindContext`, composing `ModeSwitch` with `FqcnIndex`, and the parity
   report.
3. The composition of `Discovery` with `FqcnIndex`, whose `found` it produces, on one
   instance small enough to check.
4. Commands that create and remove override files; the handlers of the
   level-object verbs on top of `Dispatch` and `UserConfig`.

## 8. Not modelled

* `core/links`, `rendering`, `colors`, `presentation`, `interrogation`, `cli_helpers`,
  `aggregator_config`, `testing`: they keep no state and only read or print.
* `paths`: string functions on the paths of the host.
* `self_setup` and `shell_fix`: one process that edits one text once; their
  correctness is in the text.
* The tables of `verb_axis`, `reserved` and `continuum`: data.
* The scripts and the tests, which are not part of the library.
