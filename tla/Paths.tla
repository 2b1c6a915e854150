-------------------------------- MODULE Paths --------------------------------
(***************************************************************************)
(* fqcn_grammar.py: the path operators of the command line. A text is the  *)
(* sequence of its marks and its maximal names; names are opaque except    *)
(* for the class of spelling that the grammar tells apart.                 *)
(***************************************************************************)
EXTENDS Integers, Sequences, SequencesExt

CONSTANTS
    Root,         \* engine.command
    Words,        \* names that are no number, Root among them
    Digits,       \* names that are a number too: "0", "2"
    Ranks,        \* negative numbers: "-1"
    SubkeysOnly,  \* names with a capital letter or a leading underscore
    FiberRoots    \* FIBER_ROOTS

Marks == {":", ".", "+"}
Names == Words \cup Digits
Subkeys == Names \cup SubkeysOnly
Numbers == Digits \cup Ranks
Operators == {":", ".", ":.", ":+"}

ASSUME PathsAssumption ==
    /\ Root \in Words /\ FiberRoots \subseteq Words
    /\ Marks \cap (Subkeys \cup Ranks \cup {""}) = {} /\ "" \notin Subkeys \cup Ranks

-----------------------------------------------------------------------------
(* Tokenizing: the compound operators before the bare colon *)

At(t, i) == IF i \in DOMAIN t THEN t[i] ELSE ""

OpAt(t, i) == IF At(t, i) = ":" /\ At(t, i + 1) = "." THEN ":."
              ELSE IF At(t, i) = ":" /\ At(t, i + 1) = "+" THEN ":+"
              ELSE IF At(t, i) \in {":", "."} THEN t[i] ELSE ""

IsOperatorLed(t) == OpAt(t, 1) # ""

Size(op) == IF op \in {":.", ":+"} THEN 2 ELSE 1
Pluses(t, i) == CHOOSE n \in 0..Len(t) : /\ \A k \in i..i + n - 1 : At(t, k) = "+"
                                         /\ At(t, i + n) # "+"

\* The steps of a text without its root. ups counts the further '+' of a supra
\* step; the name is empty where none follows.
Steps(t) ==
    LET Lex[i \in 1..Len(t) + 4] ==
          IF i > Len(t) THEN <<>>
          ELSE LET op == OpAt(t, i)
                   start == i + Size(op)
                   ups == IF op = ":+" THEN Pluses(t, start) ELSE 0
                   name == IF At(t, start + ups) \in Marks THEN "" ELSE At(t, start + ups)
               IN  <<[op |-> op, ups |-> ups, name |-> name]>>
                     \o Lex[start + ups + (IF name = "" THEN 0 ELSE 1)]
    IN  Lex[1]

\* in_property: a '.' step before step k.
InProperty(steps, k) == \E j \in 1..k - 1 : steps[j].op = "."

Legal(steps, k) ==
    LET s == steps[k] IN
    IF InProperty(steps, k)
    THEN \/ s.op = "." /\ s.name \in Names
         \/ s.op = ":" /\ s.name \in Subkeys
    ELSE \/ s.op \in {":", ".", ":."} /\ s.name \in Names \cup Numbers
         \/ s.op = ":+" /\ s.name \in {""} \cup Names \cup Numbers

-----------------------------------------------------------------------------
(* parse(), unparse(), parse_cli(), canonicalize(), segment_planes() *)

\* FQCNParseError.
Malformed == [root |-> "", steps |-> <<>>]

Parse(t) ==
    LET steps == Steps(Tail(t)) IN
    IF t # <<>> /\ Head(t) \in Names /\ \A k \in DOMAIN steps : Legal(steps, k)
    THEN [root |-> Head(t), steps |-> steps] ELSE Malformed

Spelled(op) == CASE op = ":." -> <<":", ".">> [] op = ":+" -> <<":", "+">> [] OTHER -> <<op>>
Unparse(p) ==
    <<p.root>> \o FlattenSeq([k \in DOMAIN p.steps |->
        Spelled(p.steps[k].op) \o [u \in 1..p.steps[k].ups |-> "+"]
          \o IF p.steps[k].name = "" THEN <<>> ELSE <<p.steps[k].name>>])

\* The implicit root: an operator-led text is the running aggregator's.
Rooted(t) == IF IsOperatorLed(t) THEN <<Root>> \o t ELSE t

EndsWith(t, end) == IsSuffix(end, t)
IsListing(t) == EndsWith(t, <<":", ".">>)
Reserved(t) == ~IsListing(t) /\ (\E end \in {<<":", "+">>, <<":">>, <<".">>} : EndsWith(t, end))

ParseCli(t) ==
    LET node == SubSeq(t, 1, Len(t) - 2) IN
    IF t = <<>> \/ Reserved(t) THEN Malformed
    ELSE IF ~IsListing(t) THEN Parse(Rooted(t))
    ELSE IF node = <<>> THEN [root |-> Root, steps |-> <<>>] ELSE Parse(Rooted(node))

\* The first-segment rule: after a leading ':.' a name that is no fiber word is
\* the user's spelling of a property.
Forgivable(t) == /\ Len(t) >= 4 /\ t[1] \in Names /\ SubSeq(t, 2, 3) = <<":", ".">>
                 /\ t[4] \in Names \ FiberRoots
Forgive(t) == IF Forgivable(t) THEN <<t[1]>> \o SubSeq(t, 3, Len(t)) ELSE t

\* <<>> where it raises.
Canonical(t) ==
    LET p == Parse(Forgive(Rooted(t))) IN IF p = Malformed THEN <<>> ELSE Unparse(p)

Plane(steps, k) ==
    LET op == steps[k].op IN
    CASE op = "." -> "property"
      [] op = ":" -> IF InProperty(steps, k) THEN "subkey" ELSE "entity"
      [] op = ":." -> "fiber"
      [] op = ":+" -> "supra"
Planes(p) == {Plane(p.steps, k) : k \in DOMAIN p.steps}
=============================================================================
