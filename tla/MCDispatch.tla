----------------------------- MODULE MCDispatch -----------------------------
\* Three aggregators: dz; wtf, on the escape hatch; and sub, embedded. The programs of
\* wtf and sub are tools of dz that run in the process. "setup" is a tool of sub and
\* of wtf, and a meta-command; "core" is a tool and a kit of dz, "wtf" as well; "tree" is
\* a meta-command and dz's alias for find.
EXTENDS Dispatch

T(w) == <<w>>
Full(k, w) == <<k, ":", w>>
MCNamed == [e \in Engines |->
    IF e = "dz"
    THEN (T("find") :> "find") @@ (Full("core", "find") :> "find")
           @@ (T("wtf") :> "wtf") @@ (T("sub") :> "sub") @@ (T("core") :> "core")
           @@ (T("tree") :> "find")
    ELSE (T("setup") :> "setup") @@ (T("find") :> "find") @@ (T("sub") :> "sub")]
MCKits == [e \in Engines |-> IF e = "dz" THEN {T("core"), T("wtf")} ELSE {}]
MCOwn == [e \in Engines |-> {T(e)}]
MCFavorites == [e \in Engines |-> IF e = "dz" THEN {T("wtf")} ELSE {}]
MCMetas == {T("list"), T("setup"), T("kit"), T("kit_list"), T("enable"), T("tree")}
MCTagOf == [n \in MCMetas |-> IF n = T("kit") THEN T("kit_list") ELSE n]
MCAppliesAt == (T("list") :> Levels) @@ (T("enable") :> {"tool", "kit"})

\* Command lines: flags, then words, operator-led paths, assignments and values.
Texts == {T("find"), T("core"), T("wtf"), T("setup"), T("kit"), T("kit_list"),
          T("enable"), T("tree"), T("level"), T("note"), Full("core", "find"), Full("dz", "find"),
          <<":", "find">>, <<":", "core", ":", "find">>, <<":", "setup">>,
          <<".", "note">>, <<":", ".", "note">>, <<":", ".", "kit">>,
          <<":", ".", "note", ":", "KEY">>, <<":", ".", "note", ":", ".", "find">>,
          <<":", ".">>, <<".", "note", ":", ".">>, <<":", "+">>, <<":", "find", ".", "note">>}
Longer == {T("find"), T("wtf"), T("setup"), T("enable"), T("tree"), T("level"), Full("core", "find"),
           <<":", "core", ":", "find">>, <<".", "note">>, <<":", ".", "note">>, <<":", ".", "kit">>,
           <<":", "find", ".", "note">>}
Few == {Word(T("find")), Word(T("core")), Word(<<".", "note">>), Mark("--"), Mark("help"),
        Mark("flag"), Mark("negative"), Assign(<<>>, ""), Assign(<<>>, "v")}
MCLines == {<<>>} \cup {<<Mark(k)>> : k \in DashLed}
           \cup {<<Word(t)>> : t \in Texts}
           \cup {<<Word(t), a>> : t \in Longer, a \in Few}
           \cup {<<Mark(k), Word(t)>> : k \in {"flag", "--", "version"}, t \in Texts}
           \cup {<<Mark("show"), Word(T("core")), Word(t)>> : t \in Texts}
           \cup {<<Assign(t, v), a>> : t \in {<<".", "note">>, T("level"), T("find")},
                                       v \in {"", "v"}, a \in Few}
           \cup {<<Word(T("setup")), Word(T("core")), Mark("--"), Word(T("find")), Mark("--")>>,
                 <<Word(T("wtf")), Word(T("setup")), Mark("--"), Word(T("core"))>>,
                 <<Word(T("wtf")), Word(T("find")), Mark("help")>>,
                 <<Word(<<".", "note">>), Mark("--"), Mark("flag")>>}

\* A nested aggregator reads sys.argv, or is called with a line of its own.
MCNested == {<<Word(T("setup")), Mark("help")>>, <<Word(T("list"))>>}
MCRegistrable == {T("setup"), T("kit_list")}
MCMeddledValues == {<<>>, <<"other">>}

MCValidated == {T("level")}
MCShellLine == <<>>
MCNoParser == {T("kit_list")}
MCMutating == {T("enable")}
MCExtra == {T("prop")}
=============================================================================
