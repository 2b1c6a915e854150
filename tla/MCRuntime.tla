----------------------------- MODULE MCRuntime -----------------------------
(* Tools that between them use every way of dispatching, the overrides a user  *)
(* may keep for them, and the machines they run on.                            *)
EXTENDS Runtime

LinuxPy == "venv/bin/python"
WinPy == "venv/Scripts/python"
MCRelative == {LinuxPy, WinPy}
MCAbsolute == {"/opt/python"}

Makes ==
  [c \in {"mk", "mk-win", "mk-deb", "other"} |->
     CASE c = "mk-win" -> {WinPy} [] c \in {"mk", "mk-deb"} -> {LinuxPy} [] OTHER -> {}]

Tool(rt, su, uses) ==
  [runtime |-> rt, setup |-> su, vars |-> Empty, through |-> FALSE, uses |-> uses, gives |-> Makes]

S(x) == Str(x)
Entry(f) == Dict(f)

VenvTool ==
  Tool([type |-> S("python"), venv |-> S("venv"), script_path |-> S("tool.py")],
       [command |-> S("mk"),
        platforms |-> Dict([windows |-> S("mk-win"),
                            linux |-> Dict([debian |-> Dict([command |-> S("mk-deb")])])])],
       {"tool.py", LinuxPy, WinPy})

\* Every layer declares an interpreter of its own.
LayeredTool ==
  Tool([type |-> S("python"), interpreter |-> S("python"), script_path |-> S("tool.py"),
        platforms |-> Dict([
          windows |-> Dict([interpreter |-> S(WinPy)]),
          linux |-> Dict([interpreter |-> S(LinuxPy), module |-> S("pkg"),
                          debian |-> Dict([script_path |-> S("deb.py"), module |-> Null]),
                          general |-> Dict([interpreter |-> S("/opt/python")])])])],
       [command |-> S("mk"), platforms |-> Dict([windows |-> Dict([script |-> S("s.py")])])],
       {"tool.py", "deb.py", LinuxPy, "/opt/python"})

PreferTool ==
  Tool([type |-> S("node"), script_path |-> S("tool.ts"),
        prefer |-> List(<<
          Entry([interpreter |-> S("bun"), detect_when |-> Dict([command_available |-> S("bun")])]),
          Entry([interpreter |-> S("deno")]),
          Entry([npx |-> S("pkg")]) >>),
        platforms |-> Dict([windows |-> Dict([general |-> Dict([prefer |-> List(<<
          Entry([script_path |-> Null, npm_script |-> S("go")]), Entry([script_path |-> Null, npx |-> S("pkg")]) >>)])])])],
       Empty, {"tool.ts", "bun", "deno", "npx", "npm"})

Any(cs) == Dict([any |-> List(cs)])
DetectTool ==
  Tool([type |-> S("script"), script_path |-> S("tool.pl"),
        prefer |-> List(<<
          S("not a block"),
          Entry([interpreter |-> S("perl"),
                 detect_when |-> Dict([schema |-> S("1"), uname_contains |-> S("linux"),
                   all |-> List(<< Dict([env_var |-> S("P")]), Dict([os_is |-> S("x")]) >>)])]),
          Entry([interpreter |-> S("ruby"),
                 detect_when |-> Any(<<Dict([file_exists |-> S("/opt/python")]), Dict([uname_contains |-> S("win11")])>>)])
          >>)],
       Empty, {"tool.pl", "perl", "ruby", "P"})

VarTool ==
  [Tool([type |-> S("python"), interpreter |-> Var("py"), script_path |-> S("tool.py"),
         vars |-> Dict([py |-> Var("venv")]),
         platforms |-> Dict([windows |-> Dict([vars |-> Dict([py |-> Var("win")])]),
                             linux |-> Dict([debian |-> Dict([vars |-> Dict([venv |-> Var("deep")])])])])],
        [command |-> Var("make")], {"tool.py", LinuxPy, "python"})
   EXCEPT !.vars = [venv |-> S(LinuxPy), win |-> S("python"), deep |-> Var("deeper"),
                    deeper |-> S("python"), make |-> S("mk")]]

DockerTool ==
  Tool([type |-> S("docker"), image |-> S("img"),
        volumes |-> List(<<Dict([host |-> S("data"), container |-> S("/data")])>>),
        platforms |-> Dict([linux |-> Dict([image |-> S("img-linux")])])],
       Empty, {"docker", "daemon", "img", "img-linux"})

BinaryTool ==
  Tool([type |-> S("binary"), script_path |-> S("bin"), dev_command |-> S("cargo")],
       Empty, {"bin", "cargo", "DAZZLECMD_FORCE_DEV"})

ShellTool ==
  Tool([type |-> S("shell"), shell |-> S("sh"), script_path |-> S("tool.sh"),
        shell_env |-> Dict([script |-> S("env.sh")]),
        platforms |-> Dict([windows |-> Dict([shell |-> S("pwsh"), interactive |-> S("exec")]),
                            macos |-> Dict([interactive |-> S("yes")])])],
       Empty, {"tool.sh", "sh", "pwsh"})

ThroughTool ==
  [Tool([script_path |-> S("tool.py")], [script |-> S("s.py")], {"tool.py", "__init__"})
   EXCEPT !.through = TRUE]
ImportTool == Tool([script_path |-> S("tool.py")], Empty, {"tool.py"})
ModuleTool == Tool([script_path |-> S("tool.py"), module |-> S("pkg")], Empty, {"tool.py", "pkg"})
\* The same interpreter, given to the system as it stands.
LocalTool ==
  Tool([type |-> S("script"), script_path |-> S("tool.py"), interpreter |-> S(LinuxPy),
        platforms |-> Dict([macos |-> Dict([type |-> S("node")])])],
       Empty, {"tool.py", LinuxPy})

\* A tool of another language may declare no runtime at all.
BareTool == Tool(Empty, [command |-> S("mk")], {"tool.py"})

\* The interpreter setup makes is that of one entry of prefer.
ChoiceTool ==
  Tool([script_path |-> S("tool.py"),
        prefer |-> List(<<Entry([interpreter |-> S("/opt/python")]), Entry([venv |-> S("venv")])>>)],
       [command |-> S("mk"), platforms |-> Dict([windows |-> S("mk-win")])],
       {"tool.py", LinuxPy, WinPy, "/opt/python"})

MCTools == {BareTool, ChoiceTool, VenvTool, LayeredTool, PreferTool, DetectTool, VarTool, DockerTool, BinaryTool,
            ShellTool, ThroughTool, ImportTool, ModuleTool, LocalTool}

None2 == [runtime |-> NoFile, setup |-> NoFile]
MCOverrides ==
  { None2,
    [None2 EXCEPT !.runtime = BadFile, !.setup = BadFile],
    [None2 EXCEPT !.runtime = Dict([schema |-> S("2")])],
    [None2 EXCEPT !.runtime = Dict([interpreter |-> Null, venv |-> Null,
        platforms |-> Dict([linux |-> Dict([interpreter |-> Null, arch |-> Dict([script_path |-> S("tool.py")])])])])],
    [None2 EXCEPT !.runtime = Dict([platforms |-> Dict([linux |-> Dict([type |-> S("python"),
          debian |-> Dict([interpreter |-> S("python"), prefer |-> Null])])])]),
        !.setup = Dict([platforms |-> Dict([linux |-> Dict([debian |-> Dict([command |-> S("other")])])])])],
    [None2 EXCEPT !.runtime = Dict([platforms |-> Dict([linux |-> Null, windows |-> Dict([prefer |-> Null])])]),
        !.setup = Dict([platforms |-> Dict([linux |-> S("other"), windows |-> Dict([win10 |-> Dict([command |-> S("mk")])])])])],
    [None2 EXCEPT !.runtime = Dict([interpreter |-> Var("nobody")]),
        !.setup = Dict([command |-> S("mk"), script |-> S("s.py")])],
    [None2 EXCEPT !.setup = Dict([platforms |-> Dict([macos |-> Dict([command |-> S("mk"), script |-> S("x")])])])] }

MCProbes ==
  { [system |-> "Linux", release |-> "debian", build |-> 0],
    [system |-> "Linux", release |-> "arch", build |-> 0],
    [system |-> "Windows", release |-> "10", build |-> 22000],
    [system |-> "Darwin", release |-> "macos14", build |-> 0] }

ASSUME MCIsPlain == PlainDeclarations
=============================================================================
