---------------------------- MODULE MCDiscovery ----------------------------
(* Small instances of Discovery for TLC. *)
EXTENDS Discovery

CONSTANTS root, wtf, sub, a, b, t, p1, p2, p3

MCOrder == <<a, b>>
MCHome == (p1 :> root) @@ (p2 :> root) @@ (p3 :> wtf)
CallsOf(n1, n2, n3) == (p1 :> n1) @@ (p2 :> n2) @@ (p3 :> n3)
\* What a registration says of one tool, of where its kit's tools are and of
\* where those of the aggregator in its directory are.
Says(ref, base, override, named) ==
    [virtual |-> FALSE, tools |-> {ref}, base |-> base, override |-> override, named |-> named]
Plain(ref, base) == Says(ref, base, None, FALSE)
Virtual == [virtual |-> TRUE, tools |-> {}, base |-> None, override |-> None, named |-> FALSE]
MCContents == {Broken, Virtual} \cup
    {Says(<<k, t>>, base, override, named) : k \in Kits, base \in {None, "tools"},
                                            override \in {None, "projects"}, named \in BOOLEAN}

\* The tools of wtf are not in the usual place, and one is in its kit's own.
MCRealBase == [d \in Dirs |-> IF d = wtf THEN "tools" ELSE "projects"]
MCOnDisk == [d \in Dirs |-> IF d = wtf THEN {<<a, t>>} ELSE {<<a, t>>, <<b, t>>}]
MCInKit == [d \in Dirs |-> [k \in Kits |-> IF d = wtf /\ k = a THEN {<<b, t>>} ELSE {}]]

\* What may be at kits/k.kit.json of d, with the kit's directory: whether it is
\* an aggregator, and the .kit.json in it.
Slot(reg, dir, mine) == [file |-> reg, child |-> dir, own |-> mine]
Is(says, pointer) == [says |-> says, pointer |-> pointer]
Empty == Slot(Absent, None, None)
Flat(k) == Slot(Is(Plain(<<k, t>>, None), FALSE), None, None)
Nested(k, d) == Slot(Is(Plain(<<k, t>>, None), FALSE), d, None)
NestedAt(k, d, base, override) == Slot(Is(Says(<<k, t>>, base, override, FALSE), FALSE), d, None)
Detached(k, d, base) == Slot(Is(Plain(<<k, t>>, None), TRUE), d,
                             [tools |-> {<<k, t>>}, base |-> base, override |-> None])
Overlay == Slot(Is(Virtual, FALSE), None, None)
Bad == Slot(Is(Broken, FALSE), None, None)
Described(k, base, named) == Slot(Is(Says(<<k, t>>, base, None, named), FALSE), None,
                                  [tools |-> {<<b, t>>}, base |-> base, override |-> None])

\* sub has a description: what the root's registration says of its place is not
\* heard, but for an override.
RootA == {Flat(a), Nested(a, wtf), Nested(a, root), Detached(a, wtf, "tools"), Bad}
RootB == {Empty, Flat(a), Nested(b, wtf), NestedAt(b, sub, "tools", None), Overlay}
WtfA == {Described(a, "tools", FALSE), Described(a, "tools", TRUE),
         NestedAt(a, sub, "tools", "projects"), Nested(a, root), Overlay, Bad}
SubA == {Described(a, None, FALSE), Nested(a, wtf), Nested(a, root), Bad}
\* wtf has a kit b as well: one that says where its tools are when a does not,
\* and one that cannot be read behind an a that says all that is asked for.
WtfB(wa) ==
    IF wa.child = root THEN Slot(Is(Plain(<<a, t>>, "tools"), FALSE), None, None)
    ELSE IF wa = Described(a, "tools", TRUE) THEN Bad ELSE Empty
At(ra, rb, wa, sa, d, k) ==
    IF d = root THEN (IF k = a THEN ra ELSE rb)
    ELSE IF d = wtf THEN (IF k = a THEN wa ELSE WtfB(wa))
    ELSE IF k = a THEN sa ELSE Empty
Layout(ra, rb, wa, sa, n, c) ==
    LET at == [d \in Dirs |-> [k \in Kits |-> At(ra, rb, wa, sa, d, k)]]
    IN [calls |-> n, settings |-> c,
        own |-> [d \in Dirs |-> [k \in Kits |-> at[d][k].own]],
        child |-> [d \in Dirs |-> [k \in Kits |-> at[d][k].child]],
        file |-> [d \in Dirs |-> [k \in Kits |-> at[d][k].file]]]

Config(env, disabled, shadowed) ==
    [env |-> env, active |-> {}, disabled |-> disabled, shadowed |-> shadowed]
Usual == Config(None, {}, {<<a, a, t>>})
MCConfigs == {Config(None, {a}, {}), Config({a}, {}, {})}

\* Every layout while one registration of the root changes, those with an
\* embedded aggregator while one of its registrations does, and one layout in
\* which two processes work on the root's, or one does for longer; and every
\* layout under the other configurations, while nobody changes anything.
MCLayouts ==
    {Layout(ra, rb, wa, sa, CallsOf(1, 0, 0), Usual) :
        ra \in RootA, rb \in RootB, wa \in WtfA, sa \in SubA}
    \cup {Layout(ra, rb, wa, sa, CallsOf(0, 0, 0), c) :
        ra \in RootA, rb \in RootB, wa \in WtfA, sa \in SubA, c \in MCConfigs}
    \cup {Layout(Nested(a, wtf), rb, wa, sa, CallsOf(0, 0, 1), Config(None, {}, {})) :
        rb \in RootB, wa \in WtfA, sa \in SubA}
    \cup {Layout(Flat(a), Empty, Overlay, Flat(a), n, Config(None, {}, {})) :
        n \in {CallsOf(2, 1, 0), CallsOf(4, 0, 0)}}
=============================================================================
