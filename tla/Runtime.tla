------------------------------ MODULE Runtime ------------------------------
(* Running a tool and setting it up: registry.py's resolve_runtime and the   *)
(* runner factories, conditions.py, and the setup handler of                  *)
(* default_meta_commands.py.  One user gives commands ("run" or "setup") for  *)
(* one tool; each command reads the machine several times, and between two    *)
(* reads somebody may install or remove what it read.                         *)
(*                                                                            *)
(* Files, commands on PATH, environment variables, container images are all   *)
(* names that are `present` or not.  A relative path names a file of the      *)
(* tool's directory when it is in `present` and a file of the directory the   *)
(* user stands in when it is in `near`.                                       *)
EXTENDS Manifests, FiniteSets

CONSTANTS
  Tools,        \* manifests: [runtime, setup, vars, through, uses, gives]
  Overrides,    \* pairs of override files [runtime, setup] a user may have
  Probes,       \* machines, as the platform module reports them
  Relative,     \* the names that are relative paths with a separator
  Absolute,     \* the names that are absolute paths
  MaxCommands,  \* commands a user gives
  MaxChanges    \* installations and removals while commands run

ASSUME BoundsAreNaturals == MaxCommands \in Nat /\ MaxChanges \in Nat

VARIABLES
  tool, files, host,      \* the manifest, the user's override files, the machine
  present, near,          \* what is there now
  pc, verb,               \* where the current command is, and which it is
  block,                  \* effective: the block resolved so far
  next,                   \* the prefer entry to try next
  plan,                   \* what the runner decided to start
  answer, started,        \* how the command ended, and what it started
  commands, changes,      \* budgets used
  still,                  \* history: nothing changed since the command began
  setUp                   \* history: setup succeeded and nothing was removed since

vars == <<tool, files, host, present, near, pc, verb, block, next, plan, answer, started,
          commands, changes, still, setUp>>
machine == <<tool, files, host>>
budgets == <<commands, changes>>

None == "none"
Nothing == [kind |-> "none", program |-> None, from |-> None, target |-> None, dir |-> None]

---------------------------------------------------------------------------
(* conditions.py *)

\* A path or a command as this process finds it: a relative path from where the
\* user stands, anything else on the machine (os.path.isfile, shutil.which).
Finds(name) == IF name \in Relative THEN name \in near ELSE name \in present

Matches(key, v) ==
  IF key = "uname_contains" THEN v.text \in {host.os, host.subtype} ELSE Finds(v.text)

Leaves == {"file_exists", "dir_exists", "env_var", "env_var_equals", "command_available",
           "uname_contains"}
Raised == "raised"
Yes == "yes"
No == "no"

\* all() and any() stop at the first item that decides.
Decided(results, stop) ==
  LET at == {i \in DOMAIN results : results[i] \in {stop, Raised}}
  IN IF at = {} THEN (IF stop = No THEN Yes ELSE No)
     ELSE results[CHOOSE i \in at : \A j \in at : i <= j]

\* Every key must hold; one nobody knows raises.
Verdict(results) ==
  CASE \E k \in DOMAIN results : results[k] = Raised -> Raised
    [] \A k \in DOMAIN results : results[k] = Yes -> Yes
    [] OTHER -> No

EvalWith(Below(_), c) ==
  LET Items(key) == [i \in DOMAIN c[key].items |-> Below(c[key].items[i].at)]
  IN Verdict([key \in DOMAIN c \ Metadata |->
                CASE key \in Leaves -> IF Matches(key, c[key]) THEN Yes ELSE No
                  [] key = "all" -> Decided(Items(key), No)
                  [] key = "any" -> Decided(Items(key), Yes)
                  [] OTHER -> Raised])

Eval1(c) == EvalWith(LAMBDA d : Raised, c)
Condition(c) == EvalWith(Eval1, c)

---------------------------------------------------------------------------
(* The checks of a prefer entry *)

Text(b, k) == IF Has(b, k) THEN b[k].text ELSE None

\* _check_prefer_preconditions
Preconditions(e) ==
  /\ Has(e, "interpreter") => Finds(Text(e, "interpreter"))
  /\ Has(e, "npx") => Finds("npx")
  /\ Has(e, "npm_script") => Finds("npm")
  /\ Has(e, "script_path") => Text(e, "script_path") \in present

Detects(e) == IF Has(e, "detect_when") THEN Condition(e["detect_when"].at) ELSE Yes

\* One entry of prefer: it must be a block, detect_when comes first.
Passes(v) ==
  IF ~IsDict(v) THEN No
  ELSE IF Detects(v.at) = Yes THEN (IF Preconditions(v.at) THEN Yes ELSE No)
  ELSE Detects(v.at)

---------------------------------------------------------------------------
(* The runners: what each decides from the effective block when it is called *)

Refuse(kind) == [Nothing EXCEPT !.kind = kind]
Launch(p, f, t, d) == [kind |-> "launch", program |-> p, from |-> f, target |-> t, dir |-> d]

\* A program given to subprocess: a relative path is the tool's own file when it
\* is there, and otherwise the path itself, from the user's directory.
Where(p) == CASE p \in Relative /\ p \in present -> "tool"
              [] p \in Relative /\ p \notin present -> "user"
              [] OTHER -> "path"

\* A program that is given to subprocess as it is declared.
AsDeclared(p) == IF p \in Relative THEN "user" ELSE "path"

\* _make_python_interpreter_runner
InterpreterPlan(b, p) ==
  IF p \in Relative \cup Absolute /\ p \notin present /\ ~Finds(p) THEN Refuse("setup")
  ELSE IF Has(b, "module") THEN Launch(p, Where(p), b["module"].text, "tool")
  ELSE IF Text(b, "script_path") \in present
       THEN Launch(p, Where(p), b["script_path"].text, "user")
  ELSE Refuse("error")

\* make_subprocess_runner: the process's own Python
ThroughPlan(b) ==
  IF Has(b, "module") THEN Launch("self", "self", b["module"].text, "tool")
  ELSE IF Has(b, "script_path") /\ "__init__" \in present
       THEN Launch("self", "self", b["script_path"].text, "tool")
  ELSE IF Text(b, "script_path") \in present
       THEN Launch("self", "self", b["script_path"].text, "user")
  ELSE Refuse("error")

\* The import modes: the tool's module becomes part of this process. The declared
\* module goes before the script, but is looked for only where there is one.
ImportPlan(b) ==
  LET module == IF Has(b, "module") THEN b["module"].text ELSE Text(b, "script_path")
  IN IF Has(b, "script_path") /\ module \in present
     THEN Launch("self", "import", module, "user")
     ELSE Refuse("error")

VenvPosix == "venv/bin/python"
VenvPython == IF host.os = "windows" THEN "venv/Scripts/python" ELSE "venv/bin/python"

PythonPlan(b) ==
  IF Has(b, "interpreter") THEN InterpreterPlan(b, b["interpreter"].text)
  ELSE IF Has(b, "venv") THEN InterpreterPlan(b, VenvPython)
  ELSE IF tool.through THEN ThroughPlan(b)
  ELSE ImportPlan(b)

\* SHELL_PROFILES: who can stay open after the script
Shells == {"cmd", "bash", "sh", "zsh", "csh", "pwsh", "powershell"}
Interactive == Shells \ {"sh", "csh"}

ShellPlan(b) ==
  LET sh == IF Has(b, "shell") THEN b["shell"].text ELSE "bash"
  IN IF \/ sh \notin Shells
        \/ Text(b, "script_path") \notin present
        \/ Has(b, "interactive") /\ sh \notin Interactive
        \/ HasDict(b, "shell_env") /\ ~Has(b["shell_env"].at, "script")
     THEN Refuse("error")
     ELSE Launch(sh, IF Text(b, "interactive") = "exec" THEN "exec" ELSE "path",
                 b["script_path"].text, "user")

ScriptPlan(b) ==
  IF Text(b, "script_path") \notin present THEN Refuse("error")
  ELSE LET i == IF Has(b, "interpreter") THEN b["interpreter"].text ELSE "python"
       IN Launch(i, AsDeclared(i), b["script_path"].text, "user")

BinaryPlan(b) ==
  LET built == b["script_path"].text \in present
      forced == "DAZZLECMD_FORCE_DEV" \in present
  IN IF ~Has(b, "script_path") THEN Refuse("error")
     ELSE IF Has(b, "dev_command") /\ (forced \/ ~built)
          THEN Launch(b["dev_command"].text, "path", None, "tool")
     ELSE IF built THEN Launch(b["script_path"].text, "tool", None, "user")
     ELSE Refuse("error")

Modes(b) == {k \in {"script_path", "npm_script", "npx"} : Has(b, k)}
TypeScript(name) == name = "tool.ts"

\* Exactly one way to start it; TypeScript needs an interpreter of its own.
NodePlan(b) ==
  CASE Modes(b) = {"npm_script"} -> Launch("npm", "path", b["npm_script"].text, "tool")
    [] Modes(b) = {"npx"} -> Launch("npx", "path", b["npx"].text, "tool")
    [] Modes(b) = {"script_path"} ->
         IF \/ TypeScript(b["script_path"].text) /\ ~Has(b, "interpreter")
            \/ b["script_path"].text \notin present
         THEN Refuse("error")
         ELSE LET i == IF Has(b, "interpreter") THEN b["interpreter"].text ELSE "node"
              IN Launch(i, AsDeclared(i), b["script_path"].text, "tool")
    [] OTHER -> Refuse("error")

\* make_docker_runner: docker images -q answers before docker run is given
Mounts(b) == Has(b, "volumes") =>
  \A i \in DOMAIN b["volumes"].items :
    LET v == b["volumes"].items[i]
    IN IsDict(v) /\ Has(v.at, "host") /\ Has(v.at, "container")

DockerPlan(b) ==
  IF /\ Has(b, "image") /\ {"docker", "daemon", b["image"].text} \subseteq present
     /\ Mounts(b)
  THEN Launch("docker", "path", b["image"].text, "user")
  ELSE Refuse("error")

\* RunnerRegistry.resolve: the factory of the type
RunnerPlan(b) ==
  LET type == IF Has(b, "type") THEN b["type"].text ELSE "python"
  IN CASE type = "python" -> PythonPlan(b)
       [] type = "shell"  -> ShellPlan(b)
       [] type = "script" -> ScriptPlan(b)
       [] type = "binary" -> BinaryPlan(b)
       [] type = "node"   -> NodePlan(b)
       [] type = "docker" -> DockerPlan(b)
       [] OTHER -> Refuse("error")

\* Whether the operating system finds the program when it is started.  POSIX
\* looks a relative path up from the child's directory, Windows from the parent's.
Startable(p) ==
  CASE p.from \in {"self", "import"} -> TRUE
    [] p.from = "user" ->
         p.program \in IF p.dir = "user" \/ host.os = "windows" THEN near ELSE present
    [] OTHER -> p.program \in present

---------------------------------------------------------------------------
Init ==
  /\ tool \in Tools /\ files \in Overrides /\ \E p \in Probes : host = Host(p)
  /\ present \in SUBSET tool.uses /\ near \in SUBSET (tool.uses \cap Relative)
  /\ pc = "idle" /\ verb = None /\ block = Empty /\ next = 1
  /\ plan = Nothing /\ answer = None /\ started = Nothing
  /\ commands = 0 /\ changes = 0 /\ still = TRUE /\ setUp = FALSE

Give(v) ==
  /\ pc = "idle" /\ commands < MaxCommands
  /\ commands' = commands + 1
  /\ pc' = "resolve" /\ verb' = v /\ block' = Empty /\ next' = 1 /\ plan' = Nothing
  /\ answer' = None /\ started' = Nothing /\ still' = TRUE
  /\ UNCHANGED <<machine, present, near, changes, setUp>>

\* The command is over.
Answer(a) == pc' = "idle" /\ answer' = a

\* resolve_runtime: everything before the prefer entries.
Merged == Overridden(tool.runtime, files.runtime)

RuntimeRaises ==
  /\ tool.runtime # Empty
  /\ \/ OverrideRaises(files.runtime)
     \/ ~Supported(Merged) \/ Unresolved(ForHost(Merged, host), tool.vars)

\* A tool that declares nothing is returned as it is, whatever overrides there are.
RuntimeBlock ==
  IF tool.runtime = Empty THEN Empty ELSE Substituted(ForHost(Merged, host), tool.vars)

Resolve ==
  /\ pc = "resolve" /\ verb = "run"
  /\ IF RuntimeRaises
     THEN Answer("raised") /\ UNCHANGED block
     ELSE /\ block' = RuntimeBlock
          /\ pc' = IF Has(RuntimeBlock, "prefer") THEN "prefer" ELSE "make"
          /\ UNCHANGED answer
  /\ UNCHANGED <<machine, present, near, verb, next, plan, started, budgets, still, setUp>>

Prefer == block["prefer"].items

\* One entry: detect_when, then what its fields need.
Pass(e) ==
  /\ block' = DeepMerge(Without(block, {"prefer"}), Without(e, {"detect_when"}))
  /\ pc' = "make" /\ UNCHANGED <<next, answer>>
Skip == next' = next + 1 /\ UNCHANGED <<pc, block, answer>>

TryEntry ==
  /\ pc = "prefer" /\ next \in DOMAIN Prefer
  /\ CASE Passes(Prefer[next]) = Raised -> Answer("raised") /\ UNCHANGED <<next, block>>
       [] Passes(Prefer[next]) = Yes -> Pass(Prefer[next].at)
       [] Passes(Prefer[next]) = No -> Skip
  /\ UNCHANGED <<machine, present, near, verb, plan, started, budgets, still, setUp>>

\* NoRuntimeResolutionError
NoEntry ==
  /\ pc = "prefer" /\ next \notin DOMAIN Prefer
  /\ Answer("raised")
  /\ UNCHANGED <<machine, present, near, verb, block, next, plan, started, budgets, still, setUp>>

\* The runner is called: it looks at the files and decides.
Call ==
  /\ pc = "make"
  /\ plan' = RunnerPlan(block)
  /\ IF plan'.kind = "launch" THEN pc' = "start" /\ UNCHANGED answer ELSE Answer(plan'.kind)
  /\ UNCHANGED <<machine, present, near, verb, block, next, started, budgets, still, setUp>>

\* Mutant: whatever the type, a program that is not found is taken for missing setup.
StartAsksSetup ==
  /\ pc = "start" /\ verb = "run"
  /\ IF Startable(plan)
     THEN started' = plan /\ pc' = "running" /\ UNCHANGED answer
     ELSE Answer("setup") /\ UNCHANGED started
  /\ UNCHANGED <<machine, present, near, verb, block, next, plan, budgets, still, setUp>>
\* subprocess.run, os.execvp or import; FileNotFoundError is an answer of its own
\* for a Python interpreter and an error for the others.
Start ==
  /\ pc = "start" /\ verb = "run"
  /\ IF Startable(plan)
     THEN started' = plan /\ pc' = "running" /\ UNCHANGED answer
     ELSE /\ Answer(IF Text(block, "type") \in {None, "python"} THEN "setup" ELSE "error")
          /\ UNCHANGED started
  /\ UNCHANGED <<machine, present, near, verb, block, next, plan, budgets, still, setUp>>

\* setup_handler: the block, its command, the shell.
ResolveSetup ==
  /\ pc = "resolve" /\ verb = "setup"
  /\ IF \/ tool.setup = Empty
        \/ SetupRaises(tool.setup, files.setup, tool.vars, host)
        \/ ~Has(SetupBlock(tool.setup, files.setup, tool.vars, host), "command")
     THEN Answer("error") /\ UNCHANGED <<block, plan>>
     ELSE /\ block' = SetupBlock(tool.setup, files.setup, tool.vars, host)
          /\ plan' = Launch("sh", "self", block'["command"].text, "tool")
          /\ pc' = "start" /\ UNCHANGED answer
  /\ UNCHANGED <<machine, present, near, verb, next, started, budgets, still, setUp>>

StartSetup ==
  /\ pc = "start" /\ verb = "setup"
  /\ started' = plan /\ pc' = "running"
  /\ UNCHANGED <<machine, present, near, verb, block, next, plan, answer, budgets, still, setUp>>

Gives(command) == IF command \in DOMAIN tool.gives THEN tool.gives[command] ELSE {}

\* What was started ends: a setup that succeeds has made what its command makes,
\* one that fails may have made some of it.
Ends ==
  /\ pc = "running"
  /\ \/ verb = "run" /\ Answer("ran") /\ UNCHANGED <<present, setUp>>
     \/ /\ verb = "setup" /\ Answer("ran")
        /\ present' = present \cup Gives(started.target) /\ setUp' = TRUE
     \/ /\ verb = "setup" /\ Answer("failed")
        /\ \E some \in SUBSET Gives(started.target) : present' = present \cup some
        /\ UNCHANGED setUp
  /\ UNCHANGED <<machine, near, verb, block, next, plan, started, budgets, still>>

\* Somebody installs or removes something.
Change ==
  /\ changes < MaxChanges /\ changes' = changes + 1
  /\ \E x \in tool.uses :
       present' = IF x \in present THEN present \ {x} ELSE present \cup {x}
  /\ setUp' = (setUp /\ present \subseteq present') /\ still' = FALSE
  /\ UNCHANGED <<machine, near, pc, verb, block, next, plan, answer, started, commands>>

Next ==
  \/ \E v \in {"run", "setup"} : Give(v)
  \/ Resolve \/ TryEntry \/ NoEntry \/ Call \/ Start
  \/ ResolveSetup \/ StartSetup \/ Ends \/ Change

Spec == Init /\ [][Next]_vars

---------------------------------------------------------------------------
(* Properties *)

\* The types; a command that runs has started something and has no answer yet, and only
\* a tool of Python is ever said to need its setup (SetupRequiredError).
TypeOK ==
  /\ tool \in Tools /\ files \in Overrides
  /\ present \subseteq tool.uses \cup UNION {tool.gives[c] : c \in DOMAIN tool.gives}
  /\ near \subseteq Relative
  /\ pc \in {"idle", "resolve", "prefer", "make", "start", "running"}
  /\ verb \in {None, "run", "setup"}
  /\ answer \in {None, "raised", "setup", "error", "ran", "failed"}
  /\ pc = "running" <=> started # Nothing /\ answer = None
  /\ answer = "setup" => verb = "run" /\ Text(block, "type") \in {None, "python"}
  /\ started.kind \in {"none", "launch"} /\ plan.kind \in {"none", "launch", "setup", "error"}
  /\ commands \in 0..MaxCommands /\ changes \in 0..MaxChanges /\ next \in Nat \ {0}
  /\ still \in BOOLEAN /\ setUp \in BOOLEAN

\* What the declarations say, layer by layer.  A place is a value of the manifest
\* (v.at when it is a block) with the value of the user's override there; an
\* override that has something else than a block takes the manifest's away.
Silent == [is |-> "silent"]
Speaks(v, k) == IsDict(v) /\ k \in DOMAIN v.at
Says(v, k) == IF Speaks(v, k) THEN v.at[k] ELSE Silent

Place(m, o) == [m |-> m, o |-> o]
IsBlock(pl) == IsDict(pl.m) \/ IsDict(pl.o)
Under(pl, k) ==
  Place(IF Speaks(pl.o, k) /\ ~IsDict(pl.o.at[k]) THEN Silent ELSE Says(pl.m, k), Says(pl.o, k))

\* null takes back what the manifest says in the same block.
Layer(pl, k) ==
  CASE ~Speaks(pl.o, k) -> Says(pl.m, k)
    [] Speaks(pl.o, k) /\ pl.o.at[k] = Null /\ IsDict(pl.m) -> Silent
    [] OTHER -> pl.o.at[k]

OsPlace(base) == Under(Under(base, "platforms"), host.os)
SubPlace(os) ==
  IF host.subtype \notin Metadata /\ IsBlock(Under(os, host.subtype))
  THEN Under(os, host.subtype)
  ELSE Under(os, "general")

\* From the most specific layer to the most general.
Or(v, w) == IF v = Silent THEN w ELSE v
Declared(base, os, k) == Or(Layer(SubPlace(os), k), Or(Layer(os, k), Or(Layer(base, k), Null)))

\* The runtime of the tool: an override needs a block to lie over.
Base == Place(Dict(tool.runtime), IF tool.runtime = Empty THEN NoFile ELSE files.runtime)
DeclaredRuntime(k, entry) ==
  IF k \in DOMAIN entry THEN entry[k] ELSE Declared(Base, OsPlace(Base), k)

DispatchFields ==
  {"type", "interpreter", "venv", "script_path", "module", "shell", "interactive",
   "dev_command", "npm_script", "npx", "image"}

Vars == Scope(ForHost(Merged, host), tool.vars)
Resolved(v) == IF v.is = "var" THEN Followed(Vars, v.name) ELSE v

DeclaredPrefer == DeclaredRuntime("prefer", Empty)
PreferEntry(i) == Subst(Vars, [prefer |-> DeclaredPrefer])["prefer"].items[i]
Chosen == IF DeclaredPrefer = Null THEN Empty ELSE DeclaredPrefer.items[next].at

\* What a tool is run with is what was declared for this machine: each field from
\* the most specific layer that says something (the chosen prefer entry, the
\* subtype's branch or general, the os, the base; the user's override over the
\* manifest at each), and while nothing changed the chosen entry is the first
\* that passes.
RunAsDeclared ==
  verb = "run" /\ pc \in {"make", "start", "running"} =>
    /\ \A k \in DispatchFields :
         LET v == Resolved(DeclaredRuntime(k, Chosen))
         IN IF v = Null THEN ~Has(block, k) ELSE Has(block, k) /\ block[k] = v
    /\ DeclaredPrefer # Null /\ still =>
         Passes(PreferEntry(next)) = Yes /\ \A i \in 1..next - 1 : Passes(PreferEntry(i)) = No

\* The setup command declared for this machine makes the interpreter the runtime
\* declared for it.  A plain string for an os is its command, unless the override
\* has a block there.
Full(v) == IF v.is \in {"str", "var"} THEN Dict([command |-> v]) ELSE v
Shorthand(pl) == IF IsDict(pl.o) THEN pl ELSE Place(Full(pl.m), Full(pl.o))

SetupBase == Place(Dict(tool.setup), files.setup)
DeclaredCommand == Declared(SetupBase, Shorthand(OsPlace(SetupBase)), "command")
DeclaredInterpreter ==
  LET i == DeclaredRuntime("interpreter", Chosen)
  IN CASE i # Null -> i
       [] i = Null /\ DeclaredRuntime("venv", Chosen) # Null ->
            Str(IF host.os = "windows" THEN "venv/Scripts/python" ELSE "venv/bin/python")
       [] OTHER -> Null
Complete ==
  /\ tool.setup # Empty /\ DeclaredCommand # Null /\ DeclaredInterpreter # Null
  /\ DeclaredInterpreter.is = "str" /\ DeclaredCommand.is = "str"
  /\ DeclaredInterpreter.text \in Gives(DeclaredCommand.text)

\* A tool that was set up is not sent to setup again: when setup succeeded, and
\* nothing was removed since, and the manifest's setup makes the interpreter its
\* runtime asks for on this machine, the tool's run does not ask for setup.
SetupThenRuns == setUp /\ answer = "setup" => ~Complete

\* Declarations of the form the documents describe: the fields that say how to start
\* or set up a tool are strings, references or null, in every layer, and prefer is a
\* list.  (Nothing in the code checks the former.)
Plain(v) == v = Null \/ v.is \in {"str", "var"}
PlainFields(b) == \A k \in DOMAIN b : k \in DispatchFields \cup {"command"} => Plain(b[k])
PlainPrefer(v) ==
  v = Null \/ (v.is = "list" /\ \A i \in DOMAIN v.items :
                                 IsDict(v.items[i]) => PlainFields(v.items[i].at))
PlainBlock(b) == PlainFields(b) /\ ("prefer" \in DOMAIN b => PlainPrefer(b["prefer"]))
PlainBelow(b) == \A k \in DOMAIN b : IsDict(b[k]) => PlainBlock(b[k].at)
PlainLayers(b) ==
  /\ PlainBlock(b)
  /\ HasDict(b, "platforms") =>
       LET platforms == b["platforms"].at
       IN PlainBelow(platforms) /\ \A os \in DOMAIN platforms :
                                    IsDict(platforms[os]) => PlainBelow(platforms[os].at)
PlainDeclarations ==
  /\ \A t \in Tools : PlainLayers(t.runtime) /\ PlainLayers(t.setup)
  /\ \A o \in Overrides : /\ IsDict(o.runtime) => PlainLayers(o.runtime.at)
                          /\ IsDict(o.setup) => PlainLayers(o.setup.at)

=============================================================================
