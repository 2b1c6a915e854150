------------------------------ MODULE Dispatch ------------------------------
(***************************************************************************)
(* AggregatorEngine.run() in one process: the path intercept, the choice   *)
(* between tool and meta-command, and what a call changes in the process   *)
(* for its duration: environment, sys.argv, the lock of the registry.      *)
(* A tool that runs in the process may be another aggregator: calls nest.  *)
(***************************************************************************)
EXTENDS Paths, FiniteSets

CONSTANTS
    Engines,        \* the aggregators in the process
    RootEngines,    \* is_root
    EscapeHatches,  \* those with a parser_builder
    Dispatchers,    \* those with a tool_dispatcher
    Tools,
    InProcess,      \* tools that run in the process
    ToolNamed,      \* [Engines -> [texts -> Tools]]: what resolve_command finds
    KitNames,       \* [Engines -> sets of texts]
    OwnNames,       \* [Engines -> sets of texts]: name and command
    Favorites,      \* [Engines -> sets of texts]
    Metas,          \* names of meta-commands, as texts
    NoParser,       \* those registered without a parser (kit_list)
    TagOf,          \* [Metas -> Metas]: the _meta tag a parser sets
    AppliesAt,      \* [verbs -> sets of levels], for the verbs with a target
    Mutating,       \* the verbs that change what they act on
    Extra,          \* extra_reserved_commands
    Validated,      \* names of VALIDATED_KEYS at the root
    ShellLine,      \* the command line of the process
    None,
    Lines,          \* the argument lists the application may pass to run()
    NestedLines,    \* those a tool that is an aggregator passes, besides sys.argv
    Registrable,    \* the names that are registered and removed while it runs
    MeddledVars, MeddledValues,  \* what a tool in the process does to os.environ
    MaxCalls, MaxChanges  \* bounds: calls of run(), registrations and meddling

Levels == {"tool", "kit", "aggregator"}
Vars == {"APP_NAME", "COMMAND", "CANONICAL_FQCN", "INVOKED_FQCN"}

ASSUME DispatchAssumption ==
    /\ None \notin Tools \cup Levels
    /\ \A e \in Engines : \A t \in DOMAIN ToolNamed[e] : ToolNamed[e][t] \in Tools
    /\ \A verb \in DOMAIN AppliesAt : AppliesAt[verb] \subseteq Levels
    /\ Registrable \subseteq Metas /\ MeddledVars \subseteq Vars
    /\ MaxCalls \in Nat /\ MaxChanges \in Nat

\* An argument: what the intercept and argparse tell apart of it.
Word(t) == [kind |-> "word", text |-> t, value |-> None]
Assign(t, v) == [kind |-> "assign", text |-> t, value |-> v]
Mark(k) == [kind |-> k, text |-> <<>>, value |-> None]
DashLed == {"flag", "show", "version", "help", "--", "-", "negative"}
Flags == DashLed \ {"--", "-"}

\* Only words and assignments have a text.
IsArgument(w) ==
    /\ w = [kind |-> w.kind, text |-> w.text, value |-> w.value]
    /\ w.text \in Seq(Range(w.text))
    /\ w.kind \in DashLed => w.text = <<>>
IsLine(a) == a \in Seq(Range(a)) /\ \A i \in DOMAIN a : IsArgument(a[i])
ASSUME LinesAssumption == \A a \in Lines \cup NestedLines \cup {ShellLine} : IsLine(a)

VARIABLES
    stack,     \* the calls of run() in progress, the last one on top
    env,       \* [Vars]: os.environ, <<>> if not set
    sysargv,   \* sys.argv: its program and its arguments
    commands,  \* [Engines]: the registry, [name -> who made the entry]
    overrides, \* [Engines]: its _user_overrides
    locked,    \* [Engines]: its _locked
    calls, changes  \* how many so far

vars == <<stack, env, sysargv, commands, overrides, locked, calls, changes>>

Makers == {"default", "app", "late"}

Top == stack[Len(stack)]
Pop == SubSeq(stack, 1, Len(stack) - 1)
Busy(pc) == stack # <<>> /\ Top.pc = pc
Sets(frame) == stack' = Append(Pop, frame)

Init ==
    /\ stack = <<>>
    /\ env = [v \in Vars |-> <<>>]
    /\ sysargv = [prog |-> <<>>, rest |-> ShellLine]
    /\ commands = [e \in Engines |-> [n \in Metas |-> "default"]]
    /\ overrides = [e \in Engines |-> {}] /\ locked = [e \in Engines |-> FALSE]
    /\ calls = 0 /\ changes = 0

-----------------------------------------------------------------------------
(* MetaCommandRegistry. Whoever runs may call it: the application between   *)
(* calls, a tool or a handler in the process during one. It raises while    *)
(* it is locked, and then changes nothing.                                  *)

Meddles == /\ changes < MaxChanges /\ changes' = changes + 1
           /\ stack = <<>> \/ Busy("meta") \/ (Busy("tool") /\ Top.tool \in InProcess)
Maker == IF stack = <<>> THEN "app" ELSE "late"
Entries(e, f) == commands' = [commands EXCEPT ![e] = f]
Others == UNCHANGED <<stack, env, sysargv, locked, calls>>

\* Mutant: a registry that is in use takes new commands.
RegisterUnlocked(e, n) ==
    /\ Meddles
    /\ n \notin DOMAIN commands[e]
    /\ Entries(e, [m \in DOMAIN commands[e] \cup {n} |->
                     IF m = n THEN Maker ELSE commands[e][m]])
    /\ UNCHANGED overrides /\ Others
Register(e, n) ==
    /\ Meddles
    /\ ~locked[e] /\ n \notin DOMAIN commands[e]
    /\ Entries(e, [m \in DOMAIN commands[e] \cup {n} |->
                     IF m = n THEN Maker ELSE commands[e][m]])
    /\ UNCHANGED overrides /\ Others

Override(e, n) ==
    /\ Meddles
    /\ ~locked[e] /\ n \in DOMAIN commands[e]
    /\ Entries(e, [commands[e] EXCEPT ![n] = Maker])
    /\ overrides' = [overrides EXCEPT ![e] = @ \cup {n}]
    /\ Others

\* unregister(), and clear() for all: the overrides stay.
Unregister(e, gone) ==
    /\ Meddles
    /\ ~locked[e] /\ gone # {} /\ gone \subseteq DOMAIN commands[e]
    /\ Entries(e, [m \in DOMAIN commands[e] \ gone |-> commands[e][m]])
    /\ UNCHANGED overrides /\ Others

ReservedNames(e) == IF e \in RootEngines THEN DOMAIN commands[e] \cup Extra ELSE {}

-----------------------------------------------------------------------------
(* The intercept: what an operator-led or assigning first word asks for *)

\* The flags before the first word; --show takes a value.
Prefix(a) ==
    LET Skip[i \in 1..Len(a) + 2] ==
          IF i > Len(a) THEN Len(a)
          ELSE IF a[i].kind = "show" THEN Skip[IF i < Len(a) THEN i + 2 ELSE i + 1]
          ELSE IF a[i].kind \in Flags THEN Skip[i + 1] ELSE i - 1
    IN  Skip[1]

\* The spellings of an assignment: "l=r", "l=" "r", "l" "=" "r", "l" "=r".
\* n is how many arguments it takes.
Assignment(a) ==
    LET glued == Len(a) > 1 /\ a[2].kind = "assign" /\ a[2].text = <<>> IN
    CASE a[1].kind = "assign" /\ a[1].value = "" /\ Len(a) > 1 -> [text |-> a[1].text, n |-> 2]
      [] a[1].kind = "assign" /\ ~(a[1].value = "" /\ Len(a) > 1) -> [text |-> a[1].text, n |-> 1]
      [] a[1].kind = "word" /\ glued ->
           [text |-> a[1].text, n |-> IF a[2].value = "" /\ Len(a) > 2 THEN 3 ELSE 2]
      [] OTHER -> [text |-> <<>>, n |-> 0]
IsAssigned(t) == IsOperatorLed(t) \/ (t # <<>> /\ t \in Validated)

Says(what, node) == [what |-> what, path |-> node]
Wrong == Says("error", <<>>)
Passes == Says("none", <<>>)

\* What a look at property path t does with the arguments after it.
Value(t, rest) ==
    LET values == IF rest[1].kind = "--" THEN Tail(rest) ELSE rest IN
    IF rest = <<>> THEN Says("get", t)
    ELSE IF rest[1].kind = "help" THEN Says("usage", t)
    ELSE IF rest[1].kind \in DashLed \ {"--", "negative"} \/ Len(values) # 1
            \/ values[1].kind = "--" THEN Wrong
    ELSE Says("set", t)

PathForm(t, rest) ==
    LET cli == ParseCli(t) IN
    IF OpAt(t, 1) = ":+" \/ cli = Malformed \/ (IsListing(t) /\ rest # <<>>) THEN Wrong
    ELSE IF IsListing(t) THEN Says("list", Unparse(cli))
    ELSE IF cli.steps # <<>> /\ Planes(cli) = {"entity"} THEN Says("strip", Tail(t))
    ELSE Value(t, rest)

Intercept(a) ==
    LET words == SubSeq(a, Prefix(a) + 1, Len(a))
        assigned == Assignment(words) IN
    IF words = <<>> THEN Passes
    ELSE IF words[1].kind = "--" THEN Passes
    ELSE IF assigned.n > 0 /\ IsAssigned(assigned.text)
         THEN IF Len(words) > assigned.n THEN Wrong
              ELSE Says("assign", IF IsOperatorLed(assigned.text) THEN assigned.text
                                  ELSE <<".">> \o assigned.text)
    ELSE IF words[1].kind # "word" \/ ~IsOperatorLed(words[1].text) THEN Passes
    ELSE PathForm(words[1].text, Tail(words))

\* The colon of an entity path is stripped where it stands.
Stripped(a) == IF Intercept(a).what # "strip" THEN a
               ELSE [a EXCEPT ![Prefix(a) + 1].text = Tail(@)]

-----------------------------------------------------------------------------
(* run() *)

\* Who may call it: the application, or a tool that is another aggregator.
Callers(e) == /\ \A i \in DOMAIN stack : stack[i].e # e
              /\ stack = <<>> \/ (Busy("tool") /\ Top.tool \in InProcess)

Frame(e, a) ==
    [e |-> e, pc |-> "start", argv |-> a, typed |-> a, tool |-> None, args |-> <<>>,
     parsers |-> {}, backup |-> <<>>, oldargv |-> <<>>, level |-> <<>>, target |-> None,
     \* history: the process as the call found it
     env |-> env, sysargv |-> sysargv]

Run(e, a) ==
    /\ calls < MaxCalls /\ calls' = calls + 1
    /\ Callers(e)
    /\ stack' = Append(stack, Frame(e, a))
    /\ UNCHANGED <<env, sysargv, commands, overrides, locked, changes>>

Returns == stack' = Pop

\* A property form needs no discovery; whatever the surface does, the call ends.
PropertyForm ==
    /\ Busy("start") /\ Intercept(Top.argv).what \notin {"none", "strip"}
    /\ Returns
    /\ UNCHANGED <<env, sysargv, commands, overrides, locked, calls, changes>>

\* discover() and, on the registry path, the parser and then the lock.
Begins ==
    /\ Busy("start") /\ Intercept(Top.argv).what \in {"none", "strip"}
    /\ LET e == Top.e a == Stripped(Top.argv) IN
         IF e \notin EscapeHatches /\ a # <<>> /\ a[1].kind = "version"
         THEN Returns /\ UNCHANGED locked
         ELSE /\ Sets([Top EXCEPT !.pc = "dispatch", !.argv = a,
                         !.parsers = IF e \in RootEngines
                                     THEN DOMAIN commands[e] \ NoParser ELSE {}])
              /\ locked' = [locked EXCEPT ![e] = e \notin EscapeHatches]
    /\ UNCHANGED <<env, sysargv, commands, overrides, calls, changes>>

\* discover() raises.
DiscoveryFails ==
    /\ Busy("start") /\ Intercept(Top.argv).what \in {"none", "strip"}
    /\ Returns
    /\ UNCHANGED <<env, sysargv, commands, overrides, locked, calls, changes>>

\* resolve_command(): _absolute_to_local() strips the aggregator's own name.
Local(e, t) == IF Len(t) > 2 /\ t[2] = ":" /\ <<t[1]>> \in OwnNames[e]
               THEN SubSeq(t, 3, Len(t)) ELSE t
Resolved(e, w) ==
    LET t == Local(e, w.text) IN
    IF w.kind = "word" /\ t \in DOMAIN ToolNamed[e] THEN ToolNamed[e][t] ELSE None

\* The escape hatch has a fixed set of meta-commands and asks it first.
IsMeta(e, w) ==
    /\ e \in RootEngines
    /\ \/ w.kind \in DashLed
       \/ w.kind = "word" /\ e \in EscapeHatches /\ w.text \in Metas
       \/ w.kind = "word" /\ e \notin EscapeHatches /\ w.text \in ReservedNames(e)
\* Mutant: the meta-commands first, as before issue #67.
OwnsMetaFirst(e, w) == IF IsMeta(e, w) THEN "meta"
                       ELSE IF Resolved(e, w) # None THEN "tool" ELSE "unknown"
Owns(e, w) ==
    IF e \in EscapeHatches /\ IsMeta(e, w) THEN "meta"
    ELSE IF Resolved(e, w) # None THEN "tool"
    ELSE IF IsMeta(e, w) THEN "meta" ELSE "unknown"

Ready == Busy("dispatch") /\ Top.argv # <<>>

\* finally: the lock is released whatever happened.
Unlocks(e) == locked' = [locked EXCEPT ![e] = IF e \in EscapeHatches THEN @ ELSE FALSE]

\* No arguments: the help. An unknown name: argparse ends the call.
NothingToDo ==
    /\ Busy("dispatch")
    /\ Top.argv # <<>> => Owns(Top.e, Top.argv[1]) = "unknown"
    /\ Returns /\ Unlocks(Top.e)
    /\ UNCHANGED <<env, sysargv, commands, overrides, calls, changes>>

\* _run_tool(): the four variables; a runner in the process gets sys.argv.
GiveTool ==
    /\ Ready /\ Owns(Top.e, Top.argv[1]) = "tool"
    /\ LET e == Top.e
           w == Top.argv[1]
           t == Resolved(e, w)
           swaps == t \in InProcess /\ e \notin Dispatchers \cup EscapeHatches IN
         /\ env' = [env EXCEPT !["APP_NAME"] = <<e>>, !["COMMAND"] = <<e>>,
                               !["CANONICAL_FQCN"] = <<t>>,
                               !["INVOKED_FQCN"] = Local(e, w.text)]
         /\ sysargv' = IF swaps THEN [prog |-> <<t>>, rest |-> Tail(Top.argv)] ELSE sysargv
         /\ Sets([Top EXCEPT !.pc = "tool", !.tool = t, !.args = Tail(Top.argv),
                             !.backup = <<env>>,
                             !.oldargv = IF swaps THEN <<sysargv>> ELSE <<>>])
    /\ UNCHANGED <<commands, overrides, locked, calls, changes>>

\* What a tool in the process does to the process is its own business.
Meddle(v, x) ==
    /\ Busy("tool") /\ Top.tool \in InProcess
    /\ changes < MaxChanges /\ changes' = changes + 1
    /\ env' = [env EXCEPT ![v] = x]
    /\ sysargv' = [sysargv EXCEPT !.rest = <<>>]
    /\ UNCHANGED <<stack, commands, overrides, locked, calls>>

\* The tool returns, raises or exits, or could not be started: the finally
\* clauses of the runner, of _run_tool() and of _run_registry() run alike.
\* Mutant: only the branding is put back.
RestoredBrandOnly(backup) ==
    [v \in Vars |-> IF v \in {"APP_NAME", "COMMAND"} THEN backup[v] ELSE env[v]]
Restored(backup) == [v \in Vars |-> backup[v]]

ToolEnds ==
    /\ Busy("tool")
    /\ env' = Restored(Top.backup[1])
    /\ sysargv' = IF Top.oldargv = <<>> THEN sysargv ELSE Top.oldargv[1]
    /\ Returns /\ Unlocks(Top.e)
    /\ UNCHANGED <<commands, overrides, calls, changes>>

-----------------------------------------------------------------------------
(* Meta-commands *)

\* split_level_args(): setup speaks the verb-mediated contract.
Dashes(a) == {i \in DOMAIN a : a[i].kind = "--"}
Split(a) == IF a[1].text # <<"setup">> \/ Dashes(a) = {} THEN Len(a)
            ELSE (CHOOSE i \in Dashes(a) : \A j \in Dashes(a) : i <= j) - 1

\* argparse reads the head of the line from sys.argv; if it accepts it, the tag
\* chooses the handler. It has accepted a name only if it has its parser.
StartMeta ==
    /\ Ready /\ Owns(Top.e, Top.argv[1]) = "meta"
    /\ LET e == Top.e
           n == IF e \in EscapeHatches THEN Len(Top.argv) ELSE Split(Top.argv)
           name == Top.argv[1].text IN
         /\ name \in (IF e \in EscapeHatches THEN Metas ELSE Top.parsers)
         /\ e \in EscapeHatches \/ TagOf[name] \in DOMAIN commands[e]
         /\ sysargv' = [prog |-> <<e>>, rest |-> SubSeq(Top.argv, 1, n)]
         /\ Sets([Top EXCEPT !.pc = "meta", !.args = SubSeq(Top.argv, 2, n),
                             !.level = SubSeq(Top.argv, n + 2, Len(Top.argv)),
                             !.oldargv = <<sysargv>>])
    /\ UNCHANGED <<env, commands, overrides, locked, calls, changes>>

\* A flag of the aggregator, a name without a parser, a line that argparse
\* refuses, a tag without a handler.
MetaRefused ==
    /\ Ready /\ Owns(Top.e, Top.argv[1]) = "meta"
    /\ Returns /\ Unlocks(Top.e)
    /\ UNCHANGED <<env, sysargv, commands, overrides, calls, changes>>

MetaEnds ==
    /\ Busy("meta")
    /\ sysargv' = Top.oldargv[1]
    /\ Returns /\ Unlocks(Top.e)
    /\ UNCHANGED <<env, commands, overrides, calls, changes>>

-----------------------------------------------------------------------------
(* resolve_target(): a bare name and the level it is meant at *)

NamedAt(e, l, t) == CASE l = "tool" -> Resolved(e, Word(t)) # None
                      [] l = "kit" -> t \in KitNames[e]
                      [] l = "aggregator" -> t \in OwnNames[e]

Want(e, verb, t, as) ==
    IF as # None THEN AppliesAt[verb] \cap {as}
    ELSE IF t \in Favorites[e] /\ "tool" \in AppliesAt[verb] THEN {"tool"}
    ELSE AppliesAt[verb]

Precedence == [l \in Levels |-> CASE l = "tool" -> 0 [] l = "kit" -> 1 [] l = "aggregator" -> 2]

\* The level, None if nothing matches, "ambiguous" for AmbiguousLevelError.
\* Mutant: the precedence decides for a mutating verb too.
TargetByPrecedence(e, verb, t, as, fg) ==
    LET found == {l \in Want(e, verb, t, as) : NamedAt(e, l, t)} IN
    IF found = {} THEN None
    ELSE IF fg \in found THEN fg
    ELSE CHOOSE l \in found : \A k \in found : Precedence[l] <= Precedence[k]
Target(e, verb, t, as, fg) ==
    LET found == {l \in Want(e, verb, t, as) : NamedAt(e, l, t)} IN
    IF found = {} THEN None
    ELSE IF Cardinality(found) > 1 /\ verb \in Mutating /\ as = None THEN "ambiguous"
    ELSE IF fg \in found THEN fg
    ELSE CHOOSE l \in found : \A k \in found : Precedence[l] <= Precedence[k]

\* A handler resolves its target once; what it then does is not modelled.
ResolveTarget(as, fg) ==
    /\ Busy("meta") /\ Top.target = None
    /\ Top.argv[1].text \in DOMAIN AppliesAt /\ Top.args # <<>> /\ Top.args[1].kind = "word"
    /\ LET t == Top.args[1].text IN
         Sets([Top EXCEPT !.target =
           [level |-> Target(Top.e, Top.argv[1].text, t, as, fg), text |-> t, as |-> as]])
    /\ UNCHANGED <<env, sysargv, commands, overrides, locked, calls, changes>>
-----------------------------------------------------------------------------
(* Every step of a call; the application and the tools choose the rest *)

Registration(e) ==
    \/ \E n \in Registrable : Register(e, n) \/ Override(e, n)
    \/ \E gone \in {{n} : n \in Registrable} \cup {DOMAIN commands[e]} : Unregister(e, gone)
Calls(e) == \/ \E a \in Lines : stack = <<>> /\ Run(e, a)
            \/ \E a \in NestedLines \cup {sysargv.rest} :
                  stack # <<>> /\ Top.tool = e /\ Run(e, a)
Step == \/ PropertyForm \/ Begins \/ DiscoveryFails \/ NothingToDo
        \/ GiveTool \/ ToolEnds \/ StartMeta \/ MetaRefused \/ MetaEnds

Next == \/ \E e \in Engines : Registration(e) \/ Calls(e)
        \/ Step
        \/ \E v \in MeddledVars, x \in MeddledValues : Meddle(v, x)
        \/ \E as, fg \in Levels \cup {None} : ResolveTarget(as, fg)

Spec == Init /\ [][Next]_vars

-----------------------------------------------------------------------------
(* Properties *)

\* The process state and every call in progress are of the kinds declared. While a call
\* dispatches, nobody changes what its parser was built from: what can be typed and
\* what can be dispatched stay the same set.
TypeOK ==
    /\ DOMAIN env = Vars
    /\ \A e \in Engines : /\ DOMAIN commands[e] \subseteq Metas
                          /\ \A n \in DOMAIN commands[e] : commands[e][n] \in Makers
                          /\ overrides[e] \subseteq Metas /\ locked[e] \in BOOLEAN
    /\ \A i \in DOMAIN stack :
         /\ stack[i].e \in Engines
         /\ stack[i].tool \in IF stack[i].pc = "tool" THEN Tools ELSE {None}
         /\ stack[i].pc \in {"start", "dispatch", "tool", "meta"}
         /\ \A j \in 1..i - 1 : stack[j].pc = "tool" /\ stack[j].e # stack[i].e
         /\ stack[i].pc # "start" /\ stack[i].e \in RootEngines \ EscapeHatches =>
               DOMAIN commands[stack[i].e] \ NoParser = stack[i].parsers
    /\ calls \in 0..MaxCalls /\ changes \in 0..MaxChanges

\* However a call of run() ends, and whatever the tool it ran or the calls nested in
\* it did, it leaves the environment and sys.argv as it found them and its registry
\* open. (Only a tool_dispatcher answers for what its tool does to sys.argv.)
PutBack ==
    [][Len(stack') < Len(stack) =>
         /\ env' = Top.env /\ ~locked'[Top.e]
         /\ sysargv' = Top.sysargv \/ (Top.pc = "tool" /\ Top.oldargv = <<>>)]_vars

\* A line is routed by what was typed. A word with a property or fiber step in it is
\* never run. A tool gets its words unchanged, and its name may have had a colon. A
\* tool with the name of a meta-command runs instead of it, and what follows the
\* first "--" of a setup line reaches the target, not the verb: both save in an engine
\* with the escape hatch, whose verbs go before its tools and get their line as it is.
RoutedAsTyped ==
    \A i \in DOMAIN stack : LET f == stack[i] w == f.typed[1] IN
      f.pc \in {"tool", "meta"} =>
        /\ w.kind = "word" /\ IsOperatorLed(w.text) => "." \notin Range(w.text)
        /\ f.pc = "tool" =>
             /\ Tail(f.typed) = f.args
             /\ \E t \in {w.text, Tail(w.text)} : Resolved(f.e, Word(t)) = f.tool
        /\ f.pc = "meta" /\ f.e \notin EscapeHatches =>
             /\ Resolved(f.e, f.argv[1]) = None
             /\ f.argv[1].text = <<"setup">> =>
                  /\ Dashes(f.args) = {}
                  /\ Len(Tail(f.argv)) - Len(f.args) = Len(f.level)
                       + (IF Dashes(f.argv) = {} THEN 0 ELSE 1)

\* A verb that changes something acts at a level the line left no doubt about: it was
\* pinned, it is a favorite's, or nothing else the verb applies to has the name.
OneTarget ==
    \A i \in DOMAIN stack : LET f == stack[i] g == f.target IN
      (f.pc = "meta" /\ f.target # None) =>
        (f.argv[1].text \in Mutating /\ g.level \in Levels =>
          /\ NamedAt(f.e, g.level, g.text)
          /\ \A l \in AppliesAt[f.argv[1].text] \ {g.level} : NamedAt(f.e, l, g.text) =>
               g.as = g.level \/ (g.level = "tool" /\ g.text \in Favorites[f.e]))

=============================================================================
