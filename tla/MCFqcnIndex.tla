----------------------------- MODULE MCFqcnIndex -----------------------------
(***************************************************************************)
(* Instances of FqcnIndex for TLC. The aggregator has the kits core, dt    *)
(* (dazzletools) and wtf, which is an aggregator itself, and a virtual kit *)
(* cl. fd and lk are tools; sd is one whose engine is in dazzlecmd_lib.    *)
(***************************************************************************)
EXTENDS FqcnRefinement

Alphabet == <<"cl", "core", "dt", "fd", "lib", "lk", "sd", "wtf">>
McSegments == {Alphabet[k] : k \in DOMAIN Alphabet}
McRank == [s \in McSegments |-> CHOOSE k \in DOMAIN Alphabet : Alphabet[k] = s]
McPreferred == <<"core", "dt">>

CoreFd == <<"core", "fd">>
CoreSd == <<"core", "sd">>
DtFd == <<"dt", "fd">>
DtLk == <<"dt", "lk">>
ClFd == <<"cl", "fd">>
ClLk == <<"cl", "lk">>
LibSd == <<"lib", "core", "sd">>
WtfCoreFd == <<"wtf", "core", "fd">>
WtfCoreSd == <<"wtf", "core", "sd">>
WtfClLk == <<"wtf", "cl", "lk">>
WtfClFd == <<"wtf", "cl", "fd">>
DtClLk == <<"dt", "cl", "lk">>
McNames == {CoreFd, CoreSd, DtFd, DtLk, ClFd, ClLk, LibSd,
            WtfCoreFd, WtfCoreSd, WtfClLk, WtfClFd, DtClLk}

At2(n, d) == [fqcn |-> n, dir |-> d]

\* Two tools with one short name, a tool of dt reached through wtf as well, a
\* tool of the library that both core and wtf surface.
Overlapping == <<At2(WtfCoreFd, "d1"), At2(DtFd, "d1"), At2(DtLk, "d2"),
                 At2(WtfCoreSd, "d4"), At2(CoreSd, "d3")>>
\* The library installed as a kit: the home name is reached by discovery too.
\* A tool has the name that the alias cl:lk of a tool of dt is shown under.
HomeFound == <<At2(LibSd, "d3"), At2(CoreSd, "d3"), At2(DtFd, "d1"),
               At2(CoreFd, "d2"), At2(DtLk, "d4"), At2(DtClLk, "d5")>>
\* Two tools of one kit with one short name.
SameKit == <<At2(WtfClFd, "d2"), At2(WtfCoreFd, "d1"), At2(CoreSd, "d3")>>
\* Two directories whose manifests give the same name; one has another name.
Clashing == <<At2(DtFd, "d1"), At2(DtFd, "d2"), At2(WtfCoreFd, "d2"), At2(DtLk, "d3")>>

McDiscoveries == {Overlapping, HomeFound, SameKit, Clashing}
FewDiscoveries == {Overlapping, SameKit}

Of(kit, tool, s) == [kit |-> kit, tool |-> tool, short |-> s]
\* A demoted target, a second entry for the same alias, a missing target.
Rewriting == <<Of(<<"cl">>, WtfCoreFd, "lk"), Of(<<"cl">>, DtLk, None),
               Of(<<"cl">>, CoreFd, None)>>
\* An entry that shadows a real tool, one of a nested virtual kit.
Shadowing == <<Of(<<"dt">>, CoreSd, "fd"), Of(<<"cl">>, DtLk, "fd"),
               Of(<<"wtf", "cl">>, WtfCoreFd, "lk")>>
\* Two aliases with one short name for tools of one kit.
Twofold == <<Of(<<"cl">>, WtfCoreFd, "lk"), Of(<<"wtf", "cl">>, WtfClFd, "lk")>>
McVirtualKits == {<<>>, Rewriting, Shadowing, Twofold}
FewVirtualKits == {Rewriting, Shadowing, Twofold}
McAliasNames == {ClFd, ClLk, LibSd}
=============================================================================
