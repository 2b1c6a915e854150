----------------------------- MODULE FqcnProofs -----------------------------
(***************************************************************************)
(* FQCNIndex keeps its two rules for every value of the constants: a name  *)
(* is a canonical or an alias that leads to one, and short_index is what   *)
(* it would be if it were built anew; with them every step of the index is *)
(* a step of NameSpace, an undo of the last call undoes it, all that       *)
(* discovery found is dispatched, and every form of a name leads there.    *)
(*                                                                         *)
(* The two rules are not inductive alone. Undoing a rebind repoints an     *)
(* alias to the name in the receipt, so the invariant says that every      *)
(* receipt leads back to a canonical (ReceiptsOK); applying a virtual kit  *)
(* adds names from the configuration, so it says that the inputs are still *)
(* those the constants gave (Given). Undoing the last call needs what that *)
(* call did to the snapshot before it (LastCall); dispatch needs that the  *)
(* winner of a group is dealt with first and that the first pass names     *)
(* nothing that was not found (WinnerFirst and FromFound in Reached).      *)
(***************************************************************************)
EXTENDS FqcnRefinement, SequenceTheorems, WellFoundedInduction, TLAPS

\* Adding a name to a bucket once: the bucket stays free of duplicates.
LEMMA Added ==
    ASSUME NEW S, NEW b \in Seq(S), NEW x \in S, IsInjective(b)
    PROVE  /\ With(b, x) \in Seq(S) /\ IsInjective(With(b, x))
           /\ ToSet(With(b, x)) = ToSet(b) \cup {x}
<1>1. CASE Contains(b, x)
  BY <1>1 DEF With, Contains, ToSet
<1>2. CASE ~Contains(b, x)
  BY <1>2, AppendProperties DEF With, Contains, ToSet, IsInjective
<1> QED
  BY <1>1, <1>2

\* A set of numbers has a least member; Min in RemoveFirst chooses it.
LEMMA Least ==
    ASSUME NEW T, T \subseteq Nat, T # {}
    PROVE  \E x \in T : \A y \in T : x <= y
<1> DEFINE R == OpToRel(<, Nat)
<1>1. IsWellFoundedOn(R, Nat)
  BY NatLessThanWellFounded
<1>2. PICK x \in T : \A y \in T : ~(<<y, x>> \in R)
  <2> HIDE DEF R
  <2> QED
    BY <1>1, WFMin
<1>3. \A y \in T : y < x => <<y, x>> \in R
  BY DEF OpToRel
<1>4. \A y \in T : x <= y
  <2> HIDE DEF R
  <2>1. x \in Nat /\ \A y \in T : y \in Nat /\ ~(y < x)
    BY <1>2, <1>3
  <2> QED
    BY <2>1
<1> QED
  BY <1>4

\* RemoveFirst looks for the value where it really stands.
LEMMA Found ==
    ASSUME NEW S, NEW b \in Seq(S), NEW x \in S, Contains(b, x)
    PROVE  LET k == SelectInSeq(b, LAMBDA v : v = x) IN
           k \in 1..Len(b) /\ b[k] = x
<1> DEFINE I == {i \in 1..Len(b) : b[i] = x}
<1>1. I # {} /\ I \subseteq Nat
  BY DEF Contains
<1>2. \E m \in I : \A y \in I : m <= y
  BY <1>1, Least
<1>3. Min(I) \in I
  BY <1>2 DEF Min
<1>4. SelectInSeq(b, LAMBDA v : v = x) = Min(I)
  BY <1>1 DEF SelectInSeq
<1> QED
  BY <1>3, <1>4

\* Removing a name from a bucket without duplicates leaves the others, each once.
LEMMA Removed ==
    ASSUME NEW S, NEW b \in Seq(S), NEW x \in S, IsInjective(b)
    PROVE  /\ RemoveFirst(b, x) \in Seq(S) /\ IsInjective(RemoveFirst(b, x))
           /\ ToSet(RemoveFirst(b, x)) = ToSet(b) \ {x}
<1>1. CASE ~Contains(b, x)
  BY <1>1 DEF RemoveFirst, Contains, ToSet
<1>2. CASE Contains(b, x)
  <2> DEFINE k == SelectInSeq(b, LAMBDA v : v = x)
             r == RemoveFirst(b, x)
  <2>1. k \in 1..Len(b) /\ b[k] = x
    BY <1>2, Found
  <2> HIDE DEF k
  <2>2. r = SubSeq(b, 1, k - 1) \o SubSeq(b, k + 1, Len(b))
    BY <1>2 DEF RemoveFirst, RemoveAt, Contains, k
  <2>3. /\ r \in Seq(S) /\ Len(r) = Len(b) - 1
        /\ \A i \in 1..Len(r) : r[i] = b[IF i < k THEN i ELSE i + 1]
    <3> DEFINE u == SubSeq(b, 1, k - 1)
               v == SubSeq(b, k + 1, Len(b))
    <3>1. u \in Seq(S) /\ Len(u) = k - 1 /\ \A i \in 1..(k - 1) : u[i] = b[i]
      <4>1. \A i \in 1..(k - 1) : b[i] \in S
        BY <2>1
      <4>2. k - 1 \in Int /\ (1 <= k - 1 => k - 1 - 1 + 1 = k - 1) /\ (~(1 <= k - 1) => k - 1 = 0)
        BY <2>1
      <4>3. /\ u \in Seq(S) /\ Len(u) = IF 1 <= k - 1 THEN k - 1 - 1 + 1 ELSE 0
            /\ \A i \in 1..(k - 1 - 1 + 1) : u[i] = b[1 + i - 1]
        BY <4>1, <4>2, SubSeqProperties
      <4> QED
        BY <4>2, <4>3, <2>1
    <3>2. /\ v \in Seq(S) /\ Len(v) = Len(b) - k
          /\ \A i \in 1..(Len(b) - k) : v[i] = b[k + i]
      <4>1. \A i \in (k + 1)..Len(b) : b[i] \in S
        BY <2>1
      <4>3. /\ v \in Seq(S)
            /\ Len(v) = IF k + 1 <= Len(b) THEN Len(b) - (k + 1) + 1 ELSE 0
            /\ \A i \in 1..(Len(b) - (k + 1) + 1) : v[i] = b[(k + 1) + i - 1]
        BY <4>1, <2>1, SubSeqProperties
      <4> HIDE DEF v
      <4> QED
        BY <4>3, <2>1
    <3> HIDE DEF u, v
    <3>3. /\ u \o v \in Seq(S) /\ Len(u \o v) = Len(u) + Len(v)
          /\ \A i \in 1..(Len(u) + Len(v)) :
                (u \o v)[i] = IF i <= Len(u) THEN u[i] ELSE v[i - Len(u)]
      BY <3>1, <3>2, ConcatProperties
    <3>4. r = u \o v
      BY <2>2 DEF u, v
    <3> HIDE DEF r
    <3>5. Len(b) \in Nat /\ k \in Nat /\ k >= 1 /\ k <= Len(b)
      BY <2>1
    <3>6. Len(r) = Len(b) - 1
      <4>1. Len(r) = Len(u) + Len(v)
        BY <3>3, <3>4
      <4>2. Len(u) = k - 1 /\ Len(v) = Len(b) - k
        BY <3>1, <3>2
      <4> QED
        BY <4>1, <4>2, <3>5
    <3>7. ASSUME NEW i \in 1..Len(r) PROVE r[i] = b[IF i < k THEN i ELSE i + 1]
      <4>1. CASE i < k
        <5>1. i \in 1..(k - 1) /\ i \in 1..(Len(u) + Len(v)) /\ i <= Len(u)
          BY <4>1, <3>1, <3>2, <3>5, <3>6
        <5>2. r[i] = u[i]
          BY <5>1, <3>3, <3>4
        <5> QED
          BY <4>1, <5>1, <5>2, <3>1
      <4>2. CASE ~(i < k)
        <5>1. r[i] = v[i - (k - 1)]
          BY <4>2, <3>1, <3>2, <3>3, <3>4, <3>5, <3>6
        <5>2. i - (k - 1) \in 1..(Len(b) - k) /\ k + (i - (k - 1)) = i + 1
          BY <4>2, <3>5, <3>6
        <5> QED
          BY <4>2, <5>1, <5>2, <3>2
      <4> QED
        BY <4>1, <4>2
    <3> QED
      BY <3>3, <3>4, <3>6, <3>7
  <2> HIDE DEF r
  <2>a. k \in Nat /\ Len(b) \in Nat /\ Len(r) \in Nat /\ DOMAIN r = 1..Len(r) /\ DOMAIN b = 1..Len(b)
    BY <2>1, <2>3
  <2>b. \A i, j \in 1..Len(b) : b[i] = b[j] => i = j
    BY <2>a DEF IsInjective
  <2>c. \A i \in 1..Len(r) : LET m == IF i < k THEN i ELSE i + 1 IN
                                m \in 1..Len(b) /\ m # k /\ r[i] = b[m]
    BY <2>1, <2>3, <2>a
  <2>4. IsInjective(r)
    <3> SUFFICES ASSUME NEW i \in 1..Len(r), NEW j \in 1..Len(r), r[i] = r[j]
                 PROVE  i = j
      BY <2>a DEF IsInjective
    <3>1. (IF i < k THEN i ELSE i + 1) = (IF j < k THEN j ELSE j + 1)
      BY <2>b, <2>c
    <3> QED
      BY <3>1, <2>a
  <2>5. ToSet(r) = ToSet(b) \ {x}
    <3>1. ASSUME NEW i \in 1..Len(r) PROVE r[i] \in ToSet(b) \ {x}
      BY <2>1, <2>a, <2>b, <2>c DEF ToSet
    <3>2. ASSUME NEW j \in 1..Len(b), b[j] # x PROVE b[j] \in ToSet(r)
      <4> DEFINE i == IF j < k THEN j ELSE j - 1
      <4>1. i \in 1..Len(r) /\ (IF i < k THEN i ELSE i + 1) = j
        BY <3>2, <2>1, <2>3, <2>a
      <4>2. r[i] = b[j]
        BY <4>1, <2>3
      <4> QED
        BY <4>1, <4>2, <2>a DEF ToSet
    <3> QED
      BY <3>1, <3>2, <2>a DEF ToSet
  <2> QED
    BY <2>3, <2>4, <2>5 DEF r
<1> QED
  BY <1>1, <1>2

-----------------------------------------------------------------------------
\* The types of the index's tables.
TablesOK ==
    /\ canonical \in [Names -> Dirs \cup {None}]
    /\ alias \in [Names -> Names \cup {None}]
    /\ source \in [Names -> Sources \cup {None}]
    /\ \A a \in Names : alias[a] = None => source[a] = None
    /\ short \in [Segments -> Seq(Names)]
    /\ shortcuts \in [Segments \X Segments -> SUBSET Names]
    /\ kitOrder \in Seq(Segments)

\* What every operation of FQCNIndex may assume and has to keep.
Coherent == TablesOK /\ SingleHop /\ ShortExact

\* A name has a short name and a kit, and is not None.
LEMMA Parts ==
    ASSUME NEW n \in Names
    PROVE  Short(n) \in Segments /\ KitOf(n) \in Segments /\ n # None
<1>1. n \in Seq(Segments) /\ Len(n) >= 2 /\ Len(n) \in Nat
  BY IndexAssumption
<1>2. Len(n) \in 1..Len(n) /\ 1 \in 1..Len(n)
  BY <1>1
<1> QED
  BY <1>1, <1>2, IndexAssumption DEF Short, Last, KitOf

\* insert_canonical() of a free name keeps the index coherent, and no canonical
\* is lost.
LEMMA CanonicalIn ==
    ASSUME Coherent, NEW n \in Names, NEW d \in Dirs, ~Taken(n), InsertCanonical(n, d)
    PROVE  Coherent' /\ \A m \in Names : canonical[m] # None => canonical'[m] # None
<1> DEFINE s == Short(n)
<1>0. s \in Segments /\ KitOf(n) \in Segments /\ d # None
  BY Parts, IndexAssumption
<1>1. short[s] \in Seq(Names) /\ IsInjective(short[s]) /\ ToSet(short[s]) = ShortNames(s)
  BY <1>0 DEF Coherent, TablesOK, ShortExact
<1>2. n \notin ShortNames(s)
  BY DEF ShortNames, Taken, Coherent, SingleHop, TablesOK
<1>3. Append(short[s], n) = With(short[s], n)
  BY <1>1, <1>2 DEF With, Contains, ToSet
<1>4. /\ short'[s] \in Seq(Names) /\ IsInjective(short'[s])
      /\ ToSet(short'[s]) = ShortNames(s) \cup {n}
      /\ \A x \in Segments \ {s} : short'[x] = short[x]
      /\ short' \in [Segments -> Seq(Names)]
  BY <1>0, <1>1, <1>3, Added DEF InsertCanonical, Coherent, TablesOK
<1>5. With(kitOrder, KitOf(n)) \in Seq(Segments)
  BY <1>0 DEF With, Coherent, TablesOK
<1>6. TablesOK'
  BY <1>0, <1>4, <1>5 DEF InsertCanonical, Coherent, TablesOK
<1>7. /\ \A m \in Names : canonical'[m] = IF m = n THEN d ELSE canonical[m]
      /\ alias' = alias
  BY DEF InsertCanonical, Coherent, TablesOK
<1>8. SingleHop'
  BY <1>0, <1>7 DEF SingleHop, Coherent, Taken, TablesOK
<1>9. \A x \in Segments : ShortNames(x)' = IF x = s THEN ShortNames(x) \cup {n}
                                                    ELSE ShortNames(x)
  BY <1>0, <1>7 DEF ShortNames
<1>10. ShortExact'
  BY <1>4, <1>9 DEF ShortExact, Coherent
<1> QED
  BY <1>0, <1>6, <1>7, <1>8, <1>10 DEF Coherent

\* insert_alias() that does not refuse keeps the index coherent.
LEMMA AliasIn ==
    ASSUME Coherent, NEW a \in Names, NEW n \in Names, NEW src \in Sources,
           Insertable(a, n), InsertAlias(a, n, src)
    PROVE  Coherent' /\ canonical' = canonical
<1>1. CASE alias[a] = n
  BY <1>1 DEF InsertAlias, tables, Coherent, TablesOK, SingleHop, ShortExact, ShortNames
<1>2. CASE alias[a] # n
  <2> DEFINE s == Short(a)
  <2>0. s \in Segments /\ n # None /\ alias[a] = None
    BY <1>2, Parts DEF Insertable
  <2>1. short[s] \in Seq(Names) /\ IsInjective(short[s]) /\ ToSet(short[s]) = ShortNames(s)
    BY <2>0 DEF Coherent, TablesOK, ShortExact
  <2>2. /\ short'[s] \in Seq(Names) /\ IsInjective(short'[s])
        /\ ToSet(short'[s]) = ShortNames(s) \cup {n}
        /\ \A x \in Segments \ {s} : short'[x] = short[x]
        /\ short' \in [Segments -> Seq(Names)]
    <3>0. \A b \in Seq(Names) : IsInjective(b) =>
             /\ With(b, n) \in Seq(Names) /\ IsInjective(With(b, n))
             /\ ToSet(With(b, n)) = ToSet(b) \cup {n}
      BY Added
    <3>1. /\ With(short[s], n) \in Seq(Names) /\ IsInjective(With(short[s], n))
          /\ ToSet(With(short[s], n)) = ToSet(short[s]) \cup {n}
      BY <2>1, <3>0
    <3>2. short' = [short EXCEPT ![s] = With(short[s], n)]
      BY <1>2 DEF InsertAlias
    <3> QED
      BY <2>0, <2>1, <3>1, <3>2 DEF Coherent, TablesOK
  <2>3. TablesOK'
    <3>1. \A b \in Names : alias'[b] = None => source'[b] = None
      BY <1>2, <2>0 DEF InsertAlias, Coherent, TablesOK
    <3> QED
      BY <1>2, <2>2, <3>1 DEF InsertAlias, Coherent, TablesOK
  <2>4. /\ \A b \in Names : alias'[b] = IF b = a THEN n ELSE alias[b]
        /\ canonical' = canonical
    BY <1>2 DEF InsertAlias, Coherent, TablesOK
  <2>5. SingleHop'
    BY <2>4 DEF SingleHop, Coherent, Insertable
  <2>6. \A x \in Segments : ShortNames(x)' = IF x = s THEN ShortNames(x) \cup {n}
                                                      ELSE ShortNames(x)
    BY <2>0, <2>4 DEF ShortNames
  <2>7. ShortExact'
    BY <2>2, <2>6 DEF ShortExact, Coherent
  <2> QED
    BY <2>3, <2>4, <2>5, <2>7 DEF Coherent
<1> QED
  BY <1>1, <1>2

\* _short_still_justified() is asked the right question: the bucket that is left
\* holds the names that are there without the alias, each once.
LEMMA ReleasedShort ==
    ASSUME Coherent, NEW a \in Names, alias[a] # None
    PROVE  LET s == Short(a)
               rest == {n \in Names : canonical[n] # None /\ Short(n) = s}
                       \cup {alias[x] : x \in {b \in Names \ {a} : alias[b] # None
                                                                   /\ Short(b) = s}}
           IN  /\ Released(a) \in Seq(Names) /\ IsInjective(Released(a))
               /\ ToSet(Released(a)) = rest
<1> DEFINE s == Short(a)
           rest == {n \in Names : canonical[n] # None /\ Short(n) = s}
                   \cup {alias[x] : x \in {b \in Names \ {a} : alias[b] # None
                                                               /\ Short(b) = s}}
<1>1. /\ s \in Segments /\ short[s] \in Seq(Names) /\ IsInjective(short[s])
      /\ ToSet(short[s]) = ShortNames(s) /\ alias[a] \in Names
  BY Parts DEF Coherent, TablesOK, ShortExact
<1>2. ShortNames(s) = rest \cup {alias[a]}
  BY DEF ShortNames
<1>3. Justified(s, alias[a], a) <=> alias[a] \in rest
  BY <1>1, Parts DEF Justified, Coherent, TablesOK
<1>4. CASE Justified(s, alias[a], a)
  BY <1>1, <1>2, <1>3, <1>4 DEF Released
<1>5. CASE ~Justified(s, alias[a], a)
  <2>1. Released(a) = RemoveFirst(short[s], alias[a])
    BY <1>5 DEF Released
  <2>2. ToSet(short[s]) \ {alias[a]} = rest
    BY <1>1, <1>2, <1>3, <1>5
  <2>3. /\ Released(a) \in Seq(Names) /\ IsInjective(Released(a))
        /\ ToSet(Released(a)) = ToSet(short[s]) \ {alias[a]}
    <3>1. \A b \in Seq(Names), x \in Names : IsInjective(b) =>
             /\ RemoveFirst(b, x) \in Seq(Names) /\ IsInjective(RemoveFirst(b, x))
             /\ ToSet(RemoveFirst(b, x)) = ToSet(b) \ {x}
      BY Removed
    <3>2. short[s] \in Seq(Names) /\ IsInjective(short[s]) /\ alias[a] \in Names
      BY <1>1
    <3> QED
      BY <2>1, <3>1, <3>2
  <2> QED
    BY <2>2, <2>3
<1> QED
  BY <1>4, <1>5

\* repoint_alias() to a canonical keeps the index coherent.
LEMMA AliasMoved ==
    ASSUME Coherent, NEW a \in Names, NEW n \in Names, alias[a] # None,
           canonical[n] # None, RepointAlias(a, n)
    PROVE  Coherent' /\ canonical' = canonical
<1>1. CASE alias[a] = n
  BY <1>1 DEF RepointAlias, tables, Coherent, TablesOK, SingleHop, ShortExact, ShortNames
<1>2. CASE alias[a] # n
  <2> DEFINE s == Short(a)
             rest == {m \in Names : canonical[m] # None /\ Short(m) = s}
                     \cup {alias[x] : x \in {b \in Names \ {a} : alias[b] # None
                                                                 /\ Short(b) = s}}
  <2>0. s \in Segments /\ n # None
    BY Parts
  <2>1. Released(a) \in Seq(Names) /\ IsInjective(Released(a)) /\ ToSet(Released(a)) = rest
    BY ReleasedShort
  <2>2. /\ short'[s] \in Seq(Names) /\ IsInjective(short'[s])
        /\ ToSet(short'[s]) = rest \cup {n}
        /\ \A x \in Segments \ {s} : short'[x] = short[x]
        /\ short' \in [Segments -> Seq(Names)]
    <3> HIDE DEF rest
    <3>1. /\ With(Released(a), n) \in Seq(Names) /\ IsInjective(With(Released(a), n))
          /\ ToSet(With(Released(a), n)) = rest \cup {n}
      BY <2>1, Added
    <3>2. short' = [short EXCEPT ![s] = With(Released(a), n)]
      BY <1>2 DEF RepointAlias
    <3> QED
      BY <2>0, <3>1, <3>2 DEF Coherent, TablesOK
  <2>3. TablesOK'
    <3>1. \A b \in Names : alias'[b] = None => source'[b] = None
      BY <1>2, <2>0 DEF RepointAlias, Coherent, TablesOK
    <3> QED
      BY <1>2, <2>2, <3>1 DEF RepointAlias, Coherent, TablesOK, Sources
  <2>4. /\ \A b \in Names : alias'[b] = IF b = a THEN n ELSE alias[b]
        /\ canonical' = canonical
    BY <1>2 DEF RepointAlias, Coherent, TablesOK
  <2>5. SingleHop'
    BY <2>4 DEF SingleHop, Coherent
  <2>6. ShortNames(s)' = rest \cup {n}
    BY <2>0, <2>4 DEF ShortNames
  <2>7. \A x \in Segments \ {s} : ShortNames(x)' = ShortNames(x)
    BY <2>4 DEF ShortNames
  <2>8. ShortExact'
    BY <2>2, <2>6, <2>7 DEF ShortExact, Coherent
  <2> QED
    BY <2>3, <2>4, <2>5, <2>8 DEF Coherent
<1> QED
  BY <1>1, <1>2

\* remove_alias() keeps the index coherent.
LEMMA AliasOut ==
    ASSUME Coherent, NEW a \in Names, RemoveAlias(a)
    PROVE  Coherent' /\ canonical' = canonical
<1>1. CASE alias[a] = None
  BY <1>1 DEF RemoveAlias, tables, Coherent, TablesOK, SingleHop, ShortExact, ShortNames
<1>2. CASE alias[a] # None
  <2> DEFINE s == Short(a)
             rest == {m \in Names : canonical[m] # None /\ Short(m) = s}
                     \cup {alias[x] : x \in {b \in Names \ {a} : alias[b] # None
                                                                 /\ Short(b) = s}}
  <2>1. /\ Released(a) \in Seq(Names) /\ IsInjective(Released(a))
        /\ ToSet(Released(a)) = rest
    BY <1>2, ReleasedShort
  <2>2. /\ short' = [short EXCEPT ![s] = Released(a)] /\ canonical' = canonical
        /\ \A b \in Names : alias'[b] = IF b = a THEN None ELSE alias[b]
    BY <1>2 DEF RemoveAlias, Coherent, TablesOK
  <2>3. TablesOK'
    BY <1>2, <2>1 DEF RemoveAlias, Coherent, TablesOK
  <2>4. SingleHop'
    BY <2>2 DEF SingleHop, Coherent
  <2>5. ShortNames(s)' = rest
    BY <2>2 DEF ShortNames
  <2>6. \A x \in Segments \ {s} : ShortNames(x)' = ShortNames(x)
    BY <2>2 DEF ShortNames
  <2>7. ShortExact'
    <3> HIDE DEF rest
    <3> QED
      BY <2>1, <2>2, <2>5, <2>6 DEF ShortExact, Coherent, TablesOK
  <2> QED
    BY <2>2, <2>3, <2>4, <2>7 DEF Coherent
<1> QED
  BY <1>1, <1>2

-----------------------------------------------------------------------------
\* A receipt leads back to a canonical, so undo() repoints to one.
ReceiptsOK == \A r \in receipts : canonical[r.prev] # None
\* The projects and the virtual kits are still those of the constants.
Given == found \in Discoveries /\ entries \in VirtualKits
\* The inductive invariant.
IndInv == TypeOK /\ Given /\ SingleHop /\ ShortExact /\ ReceiptsOK

\* The empty index satisfies it.
LEMMA InitInv == Init => IndInv
<1> SUFFICES ASSUME Init PROVE IndInv
  OBVIOUS
<1>1. Given /\ found \in Seq(Projects) /\ entries \in Seq(Entries)
  BY IndexAssumption DEF Init, Given
<1>2. Coherent
  <2>1. TablesOK
    BY DEF Init, TablesOK
  <2>2. SingleHop
    BY DEF Init, SingleHop
  <2>3. ShortExact
    BY DEF Init, ShortExact, ShortNames, ToSet, IsInjective
  <2> QED
    BY <2>1, <2>2, <2>3 DEF Coherent
<1>3. TypeOK
  BY <1>1, <1>2, IndexAssumption DEF Init, TypeOK, Coherent, TablesOK, Stages
<1> QED
  BY <1>1, <1>2, <1>3 DEF IndInv, Coherent, ReceiptsOK, Init

\* The inductive invariant makes the index coherent.
LEMMA Tables == ASSUME IndInv PROVE Coherent
  BY DEF IndInv, TypeOK, Coherent, TablesOK

\* A step that leaves the tables alone keeps it coherent.
LEMMA Still == ASSUME Coherent, UNCHANGED tables PROVE Coherent'
  BY DEF tables, Coherent, TablesOK, SingleHop, ShortExact, ShortNames

\* What a step of discover() has to keep besides a coherent index.
LEMMA Discovering ==
    ASSUME IndInv, Coherent', UNCHANGED <<inputs, receipts, calls, before>>,
           \A m \in Names : canonical[m] # None => canonical'[m] # None,
           stage' \in Stages, at' \in Nat \ {0},
           pending' \subseteq DOMAIN found, demoted' \subseteq DOMAIN found
    PROVE  IndInv'
  BY DEF IndInv, TypeOK, Coherent, TablesOK, Given, ReceiptsOK, inputs, Receipts

\* A project has a name and a directory.
LEMMA AnEntry ==
    ASSUME IndInv, NEW i \in DOMAIN found
    PROVE  found[i] \in Projects /\ found[i].fqcn \in Names /\ found[i].dir \in Dirs
<1>1. found \in Seq(Projects)
  BY DEF IndInv, TypeOK
<1>2. found[i] \in Projects
  BY <1>1, ElementOfSeq
<1> QED
  BY <1>2 DEF Projects

\* Making the shortest name of a directory the canonical one.
LEMMA RegisterWinnerInv == IndInv /\ RegisterWinner => IndInv'
<1> SUFFICES ASSUME IndInv, RegisterWinner PROVE IndInv'
  OBVIOUS
<1>1. PICK i \in pending :
         IF Taken(found[i].fqcn)
         THEN UNCHANGED tables /\ pending' = pending \ Group(i)
         ELSE /\ InsertCanonical(found[i].fqcn, found[i].dir)
              /\ pending' = pending \ {i}
  BY DEF RegisterWinner
<1>2. i \in DOMAIN found /\ pending \subseteq DOMAIN found
  BY DEF IndInv, TypeOK
<1>3. found[i].fqcn \in Names /\ found[i].dir \in Dirs
  BY <1>2, AnEntry
<1>4. Coherent' /\ \A m \in Names : canonical[m] # None => canonical'[m] # None
  <2>1. CASE Taken(found[i].fqcn)
    BY <1>1, <2>1, Tables, Still DEF tables
  <2>2. CASE ~Taken(found[i].fqcn)
    BY <1>1, <1>3, <2>2, Tables, CanonicalIn
  <2> QED
    BY <2>1, <2>2
<1>5. pending' \subseteq DOMAIN found
  BY <1>1, <1>2
<1>6. /\ UNCHANGED <<inputs, receipts, calls, before>>
      /\ stage' \in Stages /\ at' \in Nat \ {0} /\ demoted' \subseteq DOMAIN found
  BY DEF RegisterWinner, IndInv, TypeOK
<1> QED
  BY <1>4, <1>5, <1>6, Discovering

\* Making the other names of a directory aliases.
LEMMA RegisterDuplicateInv == IndInv /\ RegisterDuplicate => IndInv'
<1> SUFFICES ASSUME IndInv, RegisterDuplicate PROVE IndInv'
  OBVIOUS
<1>1. PICK i \in pending, w \in DOMAIN found :
         /\ IF Insertable(found[i].fqcn, found[w].fqcn)
            THEN /\ InsertAlias(found[i].fqcn, found[w].fqcn, "auto-realpath")
                 /\ demoted' = demoted \cup {i}
            ELSE UNCHANGED tables /\ UNCHANGED demoted
         /\ pending' = pending \ {i}
  BY DEF RegisterDuplicate, Group
<1>2. i \in DOMAIN found /\ pending \subseteq DOMAIN found /\ demoted \subseteq DOMAIN found
  BY DEF IndInv, TypeOK
<1>3. found[i].fqcn \in Names /\ found[w].fqcn \in Names
  BY <1>2, AnEntry
<1>4. Coherent' /\ canonical' = canonical
  <2>1. CASE Insertable(found[i].fqcn, found[w].fqcn)
    BY <1>1, <1>3, <2>1, Tables, AliasIn DEF Sources
  <2>2. CASE ~Insertable(found[i].fqcn, found[w].fqcn)
    BY <1>1, <2>2, Tables, Still DEF tables
  <2> QED
    BY <2>1, <2>2
<1>5. pending' \subseteq DOMAIN found /\ demoted' \subseteq DOMAIN found
  BY <1>1, <1>2
<1>6. /\ UNCHANGED <<inputs, receipts, calls, before>>
      /\ stage' \in Stages /\ at' \in Nat \ {0}
  BY DEF RegisterDuplicate, IndInv, TypeOK
<1> QED
  BY <1>4, <1>5, <1>6, Discovering

\* The constitutional overlay.
LEMMA OverlayInv == IndInv /\ Overlay => IndInv'
<1> SUFFICES ASSUME IndInv, Overlay PROVE IndInv'
  OBVIOUS
<1> DEFINE n == found[at].fqcn
           h == Home(Short(n))
<1>1. n \in Names
  BY AnEntry DEF Overlay
<1>2. CASE Surfaced(at) /\ Insertable(h, n)
  <2>1. h \in Names
    BY <1>2, IndexAssumption DEF Surfaced
  <2>2. InsertAlias(h, n, "overlay")
    BY <1>2 DEF Overlay
  <2> QED
    BY <1>1, <1>2, <2>1, <2>2, Tables, AliasIn, Discovering
       DEF Sources, Overlay, IndInv, TypeOK
<1>3. CASE ~(Surfaced(at) /\ Insertable(h, n))
  <2>1. UNCHANGED tables
    BY <1>3 DEF Overlay
  <2> QED
    BY <2>1, Tables, Still, Discovering DEF Overlay, IndInv, TypeOK, tables
<1> QED
  BY <1>2, <1>3

\* The alias and the target of an entry of a virtual kit are names.
LEMMA EntryNames ==
    ASSUME IndInv, at \in DOMAIN entries
    PROVE  AliasOf(entries[at]) \in Names /\ Overlaid(entries[at]) \in Names
<1>1. entries \in VirtualKits /\ entries \in Seq(Entries)
  BY DEF IndInv, Given, TypeOK
<1>2. entries[at] \in Entries /\ AliasOf(entries[at]) \in Names
  BY <1>1, IndexAssumption, ElementOfSeq
<1>3. entries[at].tool \in Names
  BY <1>2 DEF Entries
<1> QED
  BY <1>2, <1>3 DEF Overlaid, IndInv, TypeOK

\* The entries of the virtual kits.
LEMMA ApplyVirtualKitInv == IndInv /\ ApplyVirtualKit => IndInv'
<1> SUFFICES ASSUME IndInv, ApplyVirtualKit PROVE IndInv'
  OBVIOUS
<1> DEFINE a == AliasOf(entries[at])
           n == Overlaid(entries[at])
<1>1. a \in Names /\ n \in Names
  BY EntryNames DEF ApplyVirtualKit
<1>2. CASE Insertable(a, n)
  <2>1. InsertAlias(a, n, "kit")
    BY <1>2 DEF ApplyVirtualKit
  <2> QED
    BY <1>1, <1>2, <2>1, Tables, AliasIn, Discovering
       DEF Sources, ApplyVirtualKit, IndInv, TypeOK
<1>3. CASE ~Insertable(a, n)
  <2>1. UNCHANGED tables
    BY <1>3 DEF ApplyVirtualKit
  <2> QED
    BY <2>1, Tables, Still, Discovering DEF ApplyVirtualKit, IndInv, TypeOK, tables
<1> QED
  BY <1>2, <1>3

\* From one pass of discover() to the next.
LEMMA NextPassInv == IndInv /\ NextPass => IndInv'
<1> SUFFICES ASSUME IndInv, NextPass PROVE IndInv'
  OBVIOUS
<1>1. stage' \in Stages /\ at' \in Nat \ {0} /\ UNCHANGED tables
  BY DEF NextPass, Stages
<1> QED
  BY <1>1, Tables, Still, Discovering DEF NextPass, IndInv, TypeOK, tables

\* What group, ungroup and rebind have to keep besides a coherent index.
LEMMA Called ==
    ASSUME IndInv, Coherent', canonical' = canonical, Calling,
           NEW r \in Receipts, canonical[r.prev] # None, Returns(r),
           UNCHANGED <<inputs, stage, at, pending, demoted>>
    PROVE  IndInv'
<1>1. before' \in Snapshots
  BY DEF Returns, Snapshots, IndInv, TypeOK
<1>2. receipts' \subseteq Receipts /\ ReceiptsOK'
  BY DEF Returns, IndInv, TypeOK, ReceiptsOK
<1>3. calls' \in 0..MaxCalls
  BY IndexAssumption DEF Calling, IndInv, TypeOK
<1> QED
  BY <1>1, <1>2, <1>3 DEF IndInv, TypeOK, Coherent, TablesOK, Given, inputs

\* What an undo has to keep besides a coherent index.
LEMMA Undone ==
    ASSUME IndInv, Coherent', canonical' = canonical, Calling, before' = None,
           UNCHANGED <<inputs, stage, at, pending, demoted, receipts>>
    PROVE  IndInv'
<1>1. calls' \in 0..MaxCalls
  BY IndexAssumption DEF Calling, IndInv, TypeOK
<1> QED
  BY <1>1 DEF IndInv, TypeOK, Coherent, TablesOK, Given, inputs, ReceiptsOK

\* group() and ungroup().
LEMMA ProjectInv ==
    ASSUME IndInv, NEW n \in Names, NEW a \in AliasNames, Project(n, a)
    PROVE  IndInv'
<1>1. a \in Names /\ Insertable(a, n) /\ InsertAlias(a, n, "overlay")
  BY IndexAssumption DEF Project
<1>2. Coherent' /\ canonical' = canonical
  BY <1>1, Tables, AliasIn DEF Sources
<1>3. [verb |-> "project", alias |-> a, prev |-> n] \in Receipts
  BY <1>1 DEF Receipts
<1>4. canonical[n] # None
  BY <1>1 DEF Insertable
<1> QED
  BY <1>2, <1>3, <1>4, Called DEF Project

\* rebind(): the receipt records a target that is a canonical.
LEMMA RebindInv ==
    ASSUME IndInv, NEW n \in Names, NEW a \in Names, NEW t \in Names, Rebind(n, a, t)
    PROVE  IndInv'
<1>1. alias[a] = n /\ n # None /\ canonical[t] # None /\ RepointAlias(a, t)
  BY Parts DEF Rebind
<1>2. Coherent' /\ canonical' = canonical
  BY <1>1, Tables, AliasMoved
<1>3. [verb |-> "rebind", alias |-> a, prev |-> n] \in Receipts
  BY DEF Receipts
<1>4. canonical[n] # None
  BY <1>1 DEF IndInv, SingleHop
<1> QED
  BY <1>2, <1>3, <1>4, Called DEF Rebind

\* undo() of any receipt, at any time.
LEMMA UndoInv ==
    ASSUME IndInv, NEW r \in receipts, Undo(r)
    PROVE  IndInv'
<1>1. r.alias \in Names /\ r.prev \in Names /\ canonical[r.prev] # None
  BY DEF IndInv, TypeOK, ReceiptsOK, Receipts
<1>2. CASE UndoProject(r)
  BY <1>1, <1>2, Tables, AliasOut, Undone DEF UndoProject
<1>3. CASE UndoRebind(r)
  BY <1>1, <1>3, Tables, AliasMoved, Undone DEF UndoRebind
<1> QED
  BY <1>2, <1>3 DEF Undo

\* The invariant is inductive.
LEMMA NextInv == IndInv /\ [Next]_vars => IndInv'
<1> SUFFICES ASSUME IndInv, [Next]_vars PROVE IndInv'
  OBVIOUS
<1>1. CASE Discover
  BY <1>1, RegisterWinnerInv, RegisterDuplicateInv, OverlayInv, ApplyVirtualKitInv,
     NextPassInv DEF Discover
<1>2. CASE \E n \in Names, a \in AliasNames : Project(n, a)
  BY <1>2, ProjectInv
<1>3. CASE \E n, a, t \in Names : Rebind(n, a, t)
  BY <1>3, RebindInv
<1>4. CASE \E r \in receipts : Undo(r)
  BY <1>4, UndoInv
<1>5. CASE UNCHANGED vars
  BY <1>5 DEF vars, IndInv, TypeOK, Given, SingleHop, ShortExact, ShortNames, ReceiptsOK
<1> QED
  BY <1>1, <1>2, <1>3, <1>4, <1>5 DEF Next

\* The type invariant and the two rules of the index hold in every state, from
\* the first insertion of discovery to any sequence of calls and undos.
THEOREM IndexInvariant == Spec => [](TypeOK /\ SingleHop /\ ShortExact)
<1>1. Spec => []IndInv
  BY InitInv, NextInv, PTL DEF Spec
<1>2. IndInv => TypeOK /\ SingleHop /\ ShortExact
  BY DEF IndInv
<1> QED
  BY <1>1, <1>2, PTL

-----------------------------------------------------------------------------
\* The empty index is NameSpace's initial state.
LEMMA InitNames == Init => N!Init
  BY DEF Init, N!Init, N!Current, N!InForce, ToSet

\* If short_index is exact, NameSpace's answers are current.
LEMMA AnswersCurrent == ASSUME ShortExact PROVE N!Current
  BY DEF ShortExact, ShortNames, N!Current, N!InForce

\* What a step may do to the tables: one operation of FQCNIndex, or nothing.
TableStep ==
    \/ \E n \in Names, d \in Dirs : ~Taken(n) /\ InsertCanonical(n, d)
    \/ \E a, n \in Names, src \in Sources : Insertable(a, n) /\ InsertAlias(a, n, src)
    \/ \E a, n \in Names : alias[a] # None /\ canonical[n] # None /\ RepointAlias(a, n)
    \/ \E a \in Names : RemoveAlias(a)
    \/ UNCHANGED tables

\* Each operation of FQCNIndex settles one name, or does nothing.
LEMMA OneName ==
    ASSUME Coherent, Coherent', TableStep
    PROVE  [N!Next]_(N!vars)
<1>1. N!Current'
  BY AnswersCurrent DEF Coherent, ShortExact, ShortNames, N!Current, N!InForce
<1>2. CASE UNCHANGED tables
  BY <1>2 DEF tables, N!vars
<1>3. CASE \E n \in Names, d \in Dirs : ~Taken(n) /\ InsertCanonical(n, d)
  BY <1>1, <1>3 DEF N!Next, N!Claim, N!Free, Taken, InsertCanonical
<1>4. CASE \E a, n \in Names, src \in Sources : Insertable(a, n) /\ InsertAlias(a, n, src)
  <2>1. PICK a \in Names, n \in Names, src \in Sources :
            Insertable(a, n) /\ InsertAlias(a, n, src)
    BY <1>4
  <2>2. CASE alias[a] = n
    BY <1>2, <2>1, <2>2 DEF InsertAlias
  <2>3. CASE alias[a] # n
    BY <1>1, <2>1, <2>3 DEF N!Next, N!Bind, N!Free, Insertable, InsertAlias
  <2> QED
    BY <2>2, <2>3
<1>5. CASE \E a, n \in Names : /\ alias[a] # None /\ canonical[n] # None
                               /\ RepointAlias(a, n)
  <2>1. PICK a \in Names, n \in Names :
            alias[a] # None /\ canonical[n] # None /\ RepointAlias(a, n)
    BY <1>5
  <2>2. CASE alias[a] = n
    BY <1>2, <2>1, <2>2 DEF RepointAlias
  <2>3. CASE alias[a] # n
    BY <1>1, <2>1, <2>3 DEF N!Next, N!Move, RepointAlias
  <2> QED
    BY <2>2, <2>3
<1>6. CASE \E a \in Names : RemoveAlias(a)
  <2>1. PICK a \in Names : RemoveAlias(a)
    BY <1>6
  <2>2. CASE alias[a] = None
    BY <1>2, <2>1, <2>2 DEF RemoveAlias
  <2>3. CASE alias[a] # None
    BY <1>1, <2>1, <2>3 DEF N!Next, N!Drop, RemoveAlias
  <2> QED
    BY <2>2, <2>3
<1> QED
  BY <1>2, <1>3, <1>4, <1>5, <1>6 DEF TableStep

\* Every step of discovery, of a call or of an undo uses the tables that way.
LEMMA StepTables == IndInv /\ [Next]_vars => TableStep
<1> SUFFICES ASSUME IndInv, [Next]_vars PROVE TableStep
  OBVIOUS
<1>1. CASE RegisterWinner
  <2>1. PICK i \in pending :
           IF Taken(found[i].fqcn) THEN UNCHANGED tables
           ELSE InsertCanonical(found[i].fqcn, found[i].dir)
    BY <1>1 DEF RegisterWinner
  <2>2. found[i].fqcn \in Names /\ found[i].dir \in Dirs
    BY AnEntry DEF IndInv, TypeOK
  <2> QED
    BY <2>1, <2>2 DEF TableStep
<1>2. CASE RegisterDuplicate
  <2>1. PICK i \in pending, w \in DOMAIN found :
           IF Insertable(found[i].fqcn, found[w].fqcn)
           THEN InsertAlias(found[i].fqcn, found[w].fqcn, "auto-realpath")
           ELSE UNCHANGED tables
    BY <1>2 DEF RegisterDuplicate, Group
  <2>2. found[i].fqcn \in Names /\ found[w].fqcn \in Names
    BY AnEntry DEF IndInv, TypeOK
  <2> QED
    BY <2>1, <2>2 DEF TableStep, Sources
<1>3. CASE Overlay
  <2> DEFINE n == found[at].fqcn
             h == Home(Short(n))
  <2>1. n \in Names
    BY <1>3, AnEntry DEF Overlay
  <2>2. CASE Surfaced(at) /\ Insertable(h, n)
    <3>1. h \in Names
      BY <2>2, IndexAssumption DEF Surfaced
    <3>2. InsertAlias(h, n, "overlay")
      BY <1>3, <2>2 DEF Overlay
    <3> HIDE DEF n, h
    <3> QED
      BY <2>1, <2>2, <3>1, <3>2 DEF TableStep, Sources
  <2>3. CASE ~(Surfaced(at) /\ Insertable(h, n))
    <3>1. UNCHANGED tables
      BY <1>3, <2>3 DEF Overlay
    <3> QED
      BY <3>1 DEF TableStep
  <2> QED
    BY <2>2, <2>3
<1>4. CASE ApplyVirtualKit
  <2> DEFINE a == AliasOf(entries[at])
             n == Overlaid(entries[at])
  <2>1. a \in Names /\ n \in Names
    BY <1>4, EntryNames DEF ApplyVirtualKit
  <2>2. CASE Insertable(a, n)
    <3>1. InsertAlias(a, n, "kit")
      BY <1>4, <2>2 DEF ApplyVirtualKit
    <3> HIDE DEF a, n
    <3> QED
      BY <2>1, <2>2, <3>1 DEF TableStep, Sources
  <2>3. CASE ~Insertable(a, n)
    <3>1. UNCHANGED tables
      BY <1>4, <2>3 DEF ApplyVirtualKit
    <3> QED
      BY <3>1 DEF TableStep
  <2> QED
    BY <2>2, <2>3
<1>5. CASE NextPass \/ UNCHANGED vars
  <2>1. UNCHANGED tables
    BY <1>5 DEF NextPass, vars, tables
  <2> QED
    BY <2>1 DEF TableStep
<1>6. ASSUME NEW n \in Names, NEW a \in AliasNames, Project(n, a)
      PROVE  TableStep
  <2>1. a \in Names /\ Insertable(a, n) /\ InsertAlias(a, n, "overlay")
    BY <1>6, IndexAssumption DEF Project
  <2> QED
    BY <2>1 DEF TableStep, Sources
<1>7. ASSUME NEW n \in Names, NEW a \in Names, NEW t \in Names, Rebind(n, a, t)
      PROVE  TableStep
  <2>1. alias[a] # None /\ canonical[t] # None /\ RepointAlias(a, t)
    BY <1>7, Parts DEF Rebind
  <2> QED
    BY <2>1 DEF TableStep
<1>8. ASSUME NEW r \in receipts, Undo(r)
      PROVE  TableStep
  <2>1. r.alias \in Names /\ r.prev \in Names /\ canonical[r.prev] # None
    BY DEF IndInv, TypeOK, ReceiptsOK, Receipts
  <2>2. CASE UndoProject(r)
    BY <2>1, <2>2 DEF TableStep, UndoProject
  <2>3. CASE UndoRebind(r)
    BY <2>1, <2>3 DEF TableStep, UndoRebind
  <2> QED
    BY <1>8, <2>2, <2>3 DEF Undo
<1> QED
  BY <1>1, <1>2, <1>3, <1>4, <1>5, <1>6, <1>7, <1>8 DEF Next, Discover

\* Hence it is a step of NameSpace.
LEMMA StepNames == IndInv /\ [Next]_vars => [N!Next]_(N!vars)
<1> SUFFICES ASSUME IndInv, [Next]_vars PROVE [N!Next]_(N!vars)
  OBVIOUS
<1>1. Coherent /\ Coherent'
  BY NextInv, Tables DEF IndInv, TypeOK, Coherent, TablesOK
<1> QED
  BY <1>1, StepTables, OneName

\* No name is both canonical and alias, and an alias leads to a canonical.
THEOREM SingleHopHolds == Spec => []SingleHop
BY IndexInvariant, PTL

\* short_index, never rebuilt, always holds what the two tables say, each name
\* once: no undo or rebind leaves a stale or a missing entry behind.
THEOREM ShortExactHolds == Spec => []ShortExact
BY IndexInvariant, PTL

\* The index implements NameSpace: callers may rely on the tables alone, whatever
\* order discovery, calls and undos use the four operations in.
THEOREM Refinement == Spec => IsNameSpace
<1>1. Spec => []IndInv
  BY InitInv, NextInv, PTL DEF Spec
<1> QED
  BY <1>1, InitNames, StepNames, PTL DEF Spec, IsNameSpace, N!Spec
-----------------------------------------------------------------------------
\* What the last call did to the snapshot taken before it: a rebind moved one
\* alias away from the name in the receipt; a projection under a new name added
\* an alias, and to its short name's bucket the target, unless it was there for
\* a reason that does not need the alias.
LastCall == before # None =>
    LET r == before.receipt
        s == Short(r.alias)
    IN  /\ stage = "serve"
        /\ r.verb = "rebind" =>
              /\ before.alias[r.alias] = r.prev
              /\ \E t \in Names : alias = [before.alias EXCEPT ![r.alias] = t]
        /\ r.verb = "project" /\ before.fresh =>
              /\ before.alias[r.alias] = None /\ before.source[r.alias] = None
              /\ alias = [before.alias EXCEPT ![r.alias] = r.prev]
              /\ source = [before.source EXCEPT ![r.alias] = "overlay"]
              /\ short = [before.short EXCEPT ![s] = With(@, r.prev)]
              /\ Contains(before.short[s], r.prev) <=> Justified(s, r.prev, r.alias)

\* The strengthening that undo() needs.
BackInv == IndInv /\ LastCall
LEMMA InitBack == Init => LastCall
BY DEF Init, LastCall

\* After a projection the snapshot tells what has been added.
LEMMA ProjectLast ==
    ASSUME IndInv, NEW n \in Names, NEW a \in AliasNames, Project(n, a)
    PROVE  LastCall'
<1> DEFINE r == [verb |-> "project", alias |-> a, prev |-> n]
           s == Short(a)
<1>1. /\ a \in Names /\ s \in Segments /\ InsertAlias(a, n, "overlay") /\ n # None
      /\ stage' = stage /\ stage = "serve"
      /\ before' = [receipt |-> r, fresh |-> alias[a] = None,
                    alias |-> alias, source |-> source, short |-> short]
  BY IndexAssumption, Parts DEF Project, Calling, Returns
<1>2. ASSUME alias[a] = None
      PROVE  /\ source[a] = None
             /\ alias' = [alias EXCEPT ![a] = n]
             /\ source' = [source EXCEPT ![a] = "overlay"]
             /\ short' = [short EXCEPT ![s] = With(@, n)]
             /\ Contains(short[s], n) <=> Justified(s, n, a)'
  <2>1. /\ source[a] = None /\ canonical' = canonical
        /\ alias' = [alias EXCEPT ![a] = n]
        /\ source' = [source EXCEPT ![a] = "overlay"]
        /\ short' = [short EXCEPT ![s] = With(@, n)]
    BY <1>1, <1>2 DEF InsertAlias, IndInv, TypeOK
  <2>2. Contains(short[s], n) <=> n \in ShortNames(s)
    BY <1>1 DEF IndInv, ShortExact, Contains, ToSet, TypeOK
  <2>3. \A b \in Names \ {a} : alias'[b] = alias[b]
    BY <2>1 DEF IndInv, TypeOK
  <2>4. Justified(s, n, a)' <=> Justified(s, n, a)
    BY <2>1, <2>3 DEF Justified
  <2>5. Justified(s, n, a) <=> n \in ShortNames(s)
    BY <1>1, <1>2 DEF Justified, ShortNames
  <2> QED
    BY <2>1, <2>2, <2>4, <2>5
<1>3. before'.fresh => alias[a] = None
  <2>1. before'.fresh = (alias[a] = None)
    BY <1>1, Zenon
  <2> QED
    BY <2>1
<1> HIDE DEF s
<1>4. /\ before'.receipt = r /\ before'.alias = alias /\ before'.source = source
      /\ before'.short = short /\ r.verb = "project" /\ r.alias = a /\ r.prev = n
  BY <1>1
<1> HIDE DEF r
<1> QED
  BY <1>1, <1>2, <1>3, <1>4 DEF LastCall, s

\* After a rebind it tells what has been moved.
LEMMA RebindLast ==
    ASSUME IndInv, NEW n \in Names, NEW a \in Names, NEW t \in Names, Rebind(n, a, t)
    PROVE  LastCall'
<1> DEFINE r == [verb |-> "rebind", alias |-> a, prev |-> n]
<1>1. /\ alias[a] = n /\ RepointAlias(a, t) /\ stage' = stage /\ stage = "serve"
      /\ before'.receipt = r /\ before'.alias = alias
  BY DEF Rebind, Calling, Returns
<1>2. alias' = [alias EXCEPT ![a] = t]
  BY <1>1 DEF RepointAlias, tables, IndInv, TypeOK
<1>3. r.verb = "rebind" /\ r.alias = a /\ r.prev = n
  OBVIOUS
<1> HIDE DEF r
<1> QED
  BY <1>1, <1>2, <1>3 DEF LastCall

\* The strengthened invariant is inductive.
LEMMA BackNext == BackInv /\ [Next]_vars => BackInv'
<1> SUFFICES ASSUME BackInv, [Next]_vars PROVE BackInv'
  OBVIOUS
<1>1. IndInv'
  BY NextInv DEF BackInv
<1>2. LastCall'
  <2>1. CASE Discover
    <3>1. stage # "serve" /\ before' = before
      BY <2>1 DEF Discover, RegisterWinner, RegisterDuplicate, Overlay, ApplyVirtualKit,
                  NextPass
    <3> QED
      BY <3>1 DEF BackInv, LastCall
  <2>2. CASE \E n \in Names, a \in AliasNames : Project(n, a)
    BY <2>2, ProjectLast DEF BackInv
  <2>3. CASE \E n, a, t \in Names : Rebind(n, a, t)
    BY <2>3, RebindLast DEF BackInv
  <2>4. CASE \E r \in receipts : Undo(r)
    BY <2>4 DEF Undo, UndoProject, UndoRebind, LastCall
  <2>5. CASE UNCHANGED vars
    BY <2>5 DEF vars, BackInv, LastCall, Justified
  <2> QED
    BY <2>1, <2>2, <2>3, <2>4, <2>5 DEF Next
<1> QED
  BY <1>1, <1>2 DEF BackInv

\* What was appended to a bucket last is what RemoveFirst takes away, if it was
\* not there before.
LEMMA LastRemoved ==
    ASSUME NEW S, NEW b \in Seq(S), NEW x \in S, ~Contains(b, x)
    PROVE  RemoveFirst(Append(b, x), x) = b
<1> DEFINE c == Append(b, x)
           n == Len(b)
<1>1. /\ c \in Seq(S) /\ Len(c) = n + 1 /\ c[n + 1] = x /\ n \in Nat
      /\ \A i \in 1..n : c[i] = b[i]
  BY AppendProperties
<1>2. Contains(c, x)
  BY <1>1 DEF Contains
<1> DEFINE k == SelectInSeq(c, LAMBDA v : v = x)
<1>3. k \in 1..Len(c) /\ c[k] = x
  BY <1>1, <1>2, Found
<1> HIDE DEF k, c
<1>4. k = n + 1
  BY <1>1, <1>3 DEF Contains
<1>5. RemoveFirst(c, x) = SubSeq(c, 1, k - 1) \o SubSeq(c, k + 1, Len(c))
  BY <1>2 DEF RemoveFirst, RemoveAt, Contains, k
<1>6. SubSeq(c, 1, n) = b
  <2>1. \A i \in 1..n : c[i] \in S
    BY <1>1
  <2>2. /\ SubSeq(c, 1, n) \in Seq(S)
        /\ Len(SubSeq(c, 1, n)) = IF 1 <= n THEN n - 1 + 1 ELSE 0
        /\ \A i \in 1..(n - 1 + 1) : SubSeq(c, 1, n)[i] = c[1 + i - 1]
    BY <1>1, <2>1, SubSeqProperties
  <2>3. Len(SubSeq(c, 1, n)) = n /\ \A i \in 1..n : SubSeq(c, 1, n)[i] = b[i]
    BY <1>1, <2>2
  <2> QED
    BY <2>2, <2>3, SeqEqual
<1>7. SubSeq(c, n + 2, Len(c)) = << >>
  BY <1>1
<1>8. k - 1 = n /\ k + 1 = n + 2
  BY <1>1, <1>4
<1> QED
  BY <1>5, <1>6, <1>7, <1>8 DEF c

\* The undo of the last call.
LEMMA UndoLast ==
    ASSUME BackInv, NEW r \in receipts, Undo(r), before # None, before.receipt = r,
           r.verb = "project" => before.fresh
    PROVE  /\ alias' = before.alias
           /\ r.verb = "project" => short' = before.short /\ source' = before.source
<1> DEFINE a == r.alias
           n == r.prev
           s == Short(a)
<1>1. /\ a \in Names /\ n \in Names /\ n # None /\ s \in Segments
      /\ before \in Snapshots
      /\ before.alias \in [Names -> Names \cup {None}]
      /\ before.source \in [Names -> Sources \cup {None}]
      /\ before.short \in [Segments -> Seq(Names)]
  BY Parts DEF BackInv, IndInv, TypeOK, Receipts, Snapshots
<1>2. CASE UndoRebind(r)
  <2>1. /\ r.verb = "rebind" /\ RepointAlias(a, n) /\ before.alias[a] = n
        /\ \E t \in Names : alias = [before.alias EXCEPT ![a] = t]
    BY <1>2 DEF UndoRebind, BackInv, LastCall
  <2>2. alias' = [alias EXCEPT ![a] = n]
    BY <2>1 DEF RepointAlias, tables, BackInv, IndInv, TypeOK
  <2>3. alias' = before.alias
    BY <1>1, <2>1, <2>2
  <2> QED
    BY <2>1, <2>3
<1>3. CASE UndoProject(r)
  <2>1. /\ r.verb = "project" /\ RemoveAlias(a)
        /\ before.alias[a] = None /\ before.source[a] = None
        /\ alias = [before.alias EXCEPT ![a] = n]
        /\ source = [before.source EXCEPT ![a] = "overlay"]
        /\ short = [before.short EXCEPT ![s] = With(@, n)]
        /\ Contains(before.short[s], n) <=> Justified(s, n, a)
    BY <1>3 DEF UndoProject, BackInv, LastCall
  <2>2. alias[a] = n
    BY <1>1, <2>1
  <2>3. /\ alias' = [alias EXCEPT ![a] = None] /\ source' = [source EXCEPT ![a] = None]
        /\ short' = [short EXCEPT ![s] = Released(a)]
    BY <1>1, <2>1, <2>2 DEF RemoveAlias
  <2>4. alias' = before.alias /\ source' = before.source
    BY <1>1, <2>1, <2>3
  <2>5. Released(a) = before.short[s]
    <3>1. short[s] = With(before.short[s], n) /\ before.short[s] \in Seq(Names)
      BY <1>1, <2>1
    <3>2. CASE Justified(s, n, a)
      BY <2>1, <2>2, <3>1, <3>2 DEF Released, With
    <3>3. CASE ~Justified(s, n, a)
      <4>1. short[s] = Append(before.short[s], n) /\ ~Contains(before.short[s], n)
        BY <2>1, <3>1, <3>3 DEF With
      <4>2. Released(a) = RemoveFirst(Append(before.short[s], n), n)
        BY <2>2, <3>3, <4>1 DEF Released
      <4> HIDE DEF a, n, s
      <4> QED
        BY <1>1, <3>1, <4>1, <4>2, LastRemoved
    <3> QED
      BY <3>2, <3>3
  <2>6. short' = before.short
    BY <1>1, <2>1, <2>3, <2>5
  <2> QED
    BY <2>4, <2>6
<1> QED
  BY <1>2, <1>3 DEF Undo

\* undo() right after a rebind or a projection under a new name takes the index
\* back to where it was, for every index discovery can have built. Of a projection
\* onto an alias that was there it says nothing: undo() removes that alias.
THEOREM UndoRestoresHolds == Spec => UndoRestores
<1>1. BackInv /\ [Next]_vars =>
         [\A r \in receipts : Undo(r) /\ before # None /\ before.receipt = r
                              /\ (r.verb = "project" => before.fresh)
            => /\ alias' = before.alias
               /\ r.verb = "project" => short' = before.short /\ source' = before.source]_vars
  BY UndoLast
<1>2. Init => BackInv
  BY InitInv, InitBack DEF BackInv
<1> QED
  BY <1>1, <1>2, BackNext, PTL DEF Spec, UndoRestores
-----------------------------------------------------------------------------
\* A project is reached under its own name, as canonical or as alias.
Led(i) ==
    LET n == found[i].fqcn
    IN  \/ canonical[n] = found[i].dir
        \/ alias[n] # None /\ canonical[alias[n]] = found[i].dir

\* What is registered comes from a project that has been dealt with.
FromFound ==
    /\ \A n \in Names : canonical[n] # None =>
          \E j \in DOMAIN found \ pending :
             found[j].fqcn = n /\ found[j].dir = canonical[n]
    /\ stage = "register" => \A a \in Names : alias[a] # None =>
          \E j \in DOMAIN found \ pending :
             found[j].fqcn = a /\ found[j].dir = canonical[alias[a]]

\* The winner of a group is dealt with before its other members.
WinnerFirst ==
    /\ \A w \in DOMAIN found \ pending : Winner(w) => canonical[found[w].fqcn] = found[w].dir
    /\ \A j \in DOMAIN found \ pending : \A w \in Group(j) : Winner(w) => w \notin pending

\* If no two directories have one name, the projects dealt with are reached.
Reached == Distinct /\ calls = 0 =>
    /\ stage # "register" => pending = {}
    /\ FromFound /\ WinnerFirst
    /\ \A i \in DOMAIN found \ pending : Led(i)

\* Names are compared in one direction only.
LEMMA OneDirection ==
    ASSUME NEW i \in DOMAIN found, NEW j \in DOMAIN found, IndInv,
           Precedes(i, j), Precedes(j, i)
    PROVE  FALSE
<1> DEFINE m == found[i].fqcn
           n == found[j].fqcn
<1>1. found \in Seq(Projects) /\ i \in Nat /\ j \in Nat
  BY DEF IndInv, TypeOK
<1>2. /\ m \in Names /\ n \in Names
      /\ m \in Seq(Segments) /\ n \in Seq(Segments) /\ Len(m) \in Nat /\ Len(n) \in Nat
  BY AnEntry, IndexAssumption
<1>3. \A k \in DOMAIN m : m[k] \in Segments /\ Rank[m[k]] \in Nat /\ k \in Nat /\ k >= 1
  BY <1>2, IndexAssumption
<1>4. \A k \in DOMAIN n : n[k] \in Segments /\ Rank[n[k]] \in Nat /\ k \in Nat /\ k >= 1
  BY <1>2, IndexAssumption
<1>5. ASSUME Alphabetical(m, n) PROVE m # n
  BY <1>3, <1>5 DEF Alphabetical
<1>6. ASSUME Alphabetical(n, m) PROVE m # n
  BY <1>3, <1>6 DEF Alphabetical
<1>7. ASSUME Alphabetical(m, n), Alphabetical(n, m) PROVE FALSE
  <2> HIDE DEF m, n
  <2>1. PICK k \in DOMAIN m \cap DOMAIN n :
           Rank[m[k]] < Rank[n[k]] /\ \A l \in 1..(k - 1) : m[l] = n[l]
    BY <1>7 DEF Alphabetical
  <2>2. PICK h \in DOMAIN n \cap DOMAIN m :
           Rank[n[h]] < Rank[m[h]] /\ \A l \in 1..(h - 1) : n[l] = m[l]
    BY <1>7 DEF Alphabetical
  <2>3. CASE k < h
    <3>1. k \in 1..(h - 1)
      BY <1>3, <2>3
    <3> QED
      BY <1>3, <1>4, <2>1, <2>2, <3>1
  <2>4. CASE h < k
    <3>1. h \in 1..(k - 1)
      BY <1>3, <2>4
    <3> QED
      BY <1>3, <1>4, <2>1, <2>2, <3>1
  <2>5. CASE h = k
    BY <1>3, <1>4, <2>1, <2>2, <2>5
  <2> QED
    BY <1>3, <2>3, <2>4, <2>5
<1>8. CASE found[i].dir = found[j].dir
  <2>1. \/ Len(m) < Len(n)
        \/ Len(m) = Len(n) /\ (Alphabetical(m, n) \/ (m = n /\ i < j))
    BY <1>8 DEF Precedes
  <2>2. \/ Len(n) < Len(m)
        \/ Len(n) = Len(m) /\ (Alphabetical(n, m) \/ (n = m /\ j < i))
    BY <1>8 DEF Precedes
  <2> HIDE DEF m, n
  <2> QED
    BY <1>1, <1>2, <1>5, <1>6, <1>7, <2>1, <2>2
<1>9. CASE found[i].dir # found[j].dir
  <2>1. PICK k \in Group(i) : \A l \in Group(j) : k < l
    BY <1>9 DEF Precedes
  <2>2. PICK h \in Group(j) : \A l \in Group(i) : h < l
    BY <1>9 DEF Precedes
  <2>3. k \in Nat /\ h \in Nat /\ k < h /\ h < k
    BY <1>1, <2>1, <2>2 DEF Group
  <2> QED
    BY <2>3
<1> QED
  BY <1>8, <1>9
\* The winner of a group finds its name free, and takes it.
LEMMA WinnerReached ==
    ASSUME IndInv, Reached, RegisterWinner
    PROVE  Reached'
<1> SUFFICES ASSUME Distinct, calls = 0
             PROVE  /\ stage' = "register" /\ FromFound' /\ WinnerFirst'
                    /\ \A i \in DOMAIN found' \ pending' : Led(i)'
  BY DEF Reached, RegisterWinner, Distinct, inputs
<1>0. /\ FromFound /\ WinnerFirst /\ \A i \in DOMAIN found \ pending : Led(i)
      /\ stage = "register" /\ stage' = "register" /\ found' = found
      /\ pending \subseteq DOMAIN found
  BY DEF Reached, RegisterWinner, inputs, IndInv, TypeOK
<1>1. PICK i \in pending :
         /\ Winner(i)
         /\ IF Taken(found[i].fqcn)
            THEN UNCHANGED tables /\ pending' = pending \ Group(i)
            ELSE /\ InsertCanonical(found[i].fqcn, found[i].dir)
                 /\ pending' = pending \ {i}
  BY DEF RegisterWinner
<1> DEFINE n == found[i].fqcn
           d == found[i].dir
<1>2. i \in DOMAIN found /\ n \in Names /\ d \in Dirs /\ d # None
  BY <1>0, <1>1, AnEntry, IndexAssumption
<1>3. ~Taken(n)
  <2> SUFFICES ASSUME Taken(n) PROVE FALSE
    OBVIOUS
  <2>1. PICK j \in DOMAIN found \ pending : found[j].fqcn = n
    BY <1>0, <1>2 DEF FromFound, Taken
  <2>2. i \in Group(j)
    BY <1>2, <2>1 DEF Distinct, Group
  <2> QED
    BY <1>0, <1>1, <2>1, <2>2 DEF WinnerFirst
<1>4. /\ pending' = pending \ {i} /\ alias' = alias
      /\ \A m \in Names : canonical'[m] = IF m = n THEN d ELSE canonical[m]
  BY <1>1, <1>2, <1>3 DEF InsertCanonical, IndInv, TypeOK
<1>5. FromFound'
  <2>1. ASSUME NEW m \in Names, canonical'[m] # None
        PROVE  \E j \in DOMAIN found \ pending' :
                  found[j].fqcn = m /\ found[j].dir = canonical'[m]
    <3>1. CASE m = n
      BY <1>0, <1>2, <1>4, <3>1
    <3>2. CASE m # n
      BY <1>0, <1>4, <2>1, <3>2 DEF FromFound
    <3> QED
      BY <3>1, <3>2
  <2>2. ASSUME NEW a \in Names, alias'[a] # None
        PROVE  \E j \in DOMAIN found \ pending' :
                  found[j].fqcn = a /\ found[j].dir = canonical'[alias'[a]]
    <3>1. alias[a] # None /\ canonical[alias[a]] # None /\ alias[a] \in Names
      BY <1>4, <2>2 DEF IndInv, SingleHop, TypeOK
    <3>2. canonical'[alias'[a]] = canonical[alias[a]]
      BY <1>3, <1>4, <3>1 DEF Taken
    <3> QED
      BY <1>0, <1>4, <3>1, <3>2 DEF FromFound
  <2> QED
    BY <1>0, <2>1, <2>2 DEF FromFound
<1>6. WinnerFirst'
  <2>1. ASSUME NEW w \in DOMAIN found \ pending', Winner(w)
        PROVE  canonical'[found[w].fqcn] = found[w].dir
    <3>1. CASE w = i
      BY <1>2, <1>4, <3>1
    <3>2. CASE w # i
      <4>1. canonical[found[w].fqcn] = found[w].dir /\ found[w].dir # None
            /\ found[w].fqcn \in Names
        BY <1>0, <1>4, <2>1, <3>2, AnEntry, IndexAssumption DEF WinnerFirst
      <4> QED
        BY <1>3, <1>4, <4>1 DEF Taken
    <3> QED
      BY <3>1, <3>2
  <2>2. ASSUME NEW j \in DOMAIN found \ pending', NEW w \in Group(j), Winner(w)
        PROVE  w \notin pending'
    <3>1. CASE j = i
      <4>1. w \in DOMAIN found /\ (w # i => i \in Group(w) \ {w} /\ w \in Group(i) \ {i})
        BY <1>2, <2>2, <3>1 DEF Group
      <4>2. w = i
        BY <1>1, <1>2, <2>2, <4>1, OneDirection DEF Winner
      <4> QED
        BY <1>4, <4>2
    <3>2. CASE j # i
      BY <1>0, <1>4, <2>2, <3>2 DEF WinnerFirst
    <3> QED
      BY <3>1, <3>2
  <2> QED
    BY <1>0, <2>1, <2>2 DEF WinnerFirst, Winner, Group, Precedes
<1>7. ASSUME NEW j \in DOMAIN found \ pending'
      PROVE  Led(j)'
  <2>1. found[j].fqcn \in Names /\ found[j].dir # None
    BY AnEntry, IndexAssumption
  <2>2. CASE j = i
    BY <1>0, <1>2, <1>4, <2>2 DEF Led
  <2>3. CASE j # i
    <3>1. Led(j)
      BY <1>0, <1>4, <2>3
    <3>2. ASSUME alias[found[j].fqcn] # None
          PROVE  /\ alias[found[j].fqcn] \in Names
                 /\ canonical[alias[found[j].fqcn]] # None
      BY <2>1, <3>2 DEF IndInv, SingleHop, TypeOK
    <3> QED
      BY <1>0, <1>3, <1>4, <2>1, <3>1, <3>2 DEF Led, Taken
  <2> QED
    BY <2>2, <2>3
<1> QED
  BY <1>0, <1>5, <1>6, <1>7

\* Another member becomes an alias of the winner, unless its name leads to the
\* directory already.
LEMMA DuplicateReached ==
    ASSUME IndInv, Reached, RegisterDuplicate
    PROVE  Reached'
<1> SUFFICES ASSUME Distinct, calls = 0
             PROVE  /\ stage' = "register" /\ FromFound' /\ WinnerFirst'
                    /\ \A i \in DOMAIN found' \ pending' : Led(i)'
  BY DEF Reached, RegisterDuplicate, Distinct, inputs
<1>0. /\ FromFound /\ WinnerFirst /\ \A i \in DOMAIN found \ pending : Led(i)
      /\ stage = "register" /\ stage' = "register" /\ found' = found
      /\ pending \subseteq DOMAIN found
  BY DEF Reached, RegisterDuplicate, inputs, IndInv, TypeOK
<1>1. PICK i \in pending, w \in DOMAIN found :
         /\ w \in Group(i) /\ Upcoming(i) /\ ~Winner(i) /\ Winner(w)
         /\ IF Insertable(found[i].fqcn, found[w].fqcn)
            THEN InsertAlias(found[i].fqcn, found[w].fqcn, "auto-realpath")
            ELSE UNCHANGED tables
         /\ pending' = pending \ {i}
  BY DEF RegisterDuplicate, Group
<1> DEFINE a == found[i].fqcn
           n == found[w].fqcn
           d == found[i].dir
<1>2. /\ i \in DOMAIN found /\ w \in DOMAIN found /\ a \in Names /\ n \in Names
      /\ d # None /\ found[w].dir = d /\ n # None
  BY <1>0, <1>1, AnEntry, IndexAssumption, Parts DEF Group
<1>3. ASSUME NEW v \in Group(i), Winner(v) PROVE v \notin pending
  <2> SUFFICES ASSUME v \in pending PROVE FALSE
    OBVIOUS
  <2>1. v # i /\ v \in DOMAIN found /\ i \in Group(v)
    BY <1>1, <1>2, <1>3 DEF Group
  <2>2. Precedes(i, v) /\ Precedes(v, i)
    BY <1>1, <1>3, <2>1 DEF Upcoming, Winner
  <2> QED
    BY <1>2, <2>1, <2>2, OneDirection
<1>4. canonical[n] = d
  BY <1>0, <1>1, <1>2, <1>3 DEF WinnerFirst
<1>5. canonical' = canonical
  BY <1>1 DEF InsertAlias, tables
<1>6. /\ Led(i)'
      /\ \A b \in Names : b # a => alias'[b] = alias[b]
      /\ alias'[a] = alias[a] \/ (alias'[a] = n /\ canonical[a] = None /\ alias[a] = None)
  <2>1. CASE Insertable(a, n)
    <3>1. InsertAlias(a, n, "auto-realpath")
      BY <1>1, <2>1
    <3>2. alias' = [alias EXCEPT ![a] = n] /\ canonical[a] = None /\ alias[a] \in {None, n}
      BY <2>1, <3>1 DEF InsertAlias, Insertable, tables, IndInv, TypeOK
    <3> HIDE DEF a, n, d
    <3>3. /\ alias'[a] = n
          /\ \A b \in Names : b # a => alias'[b] = alias[b]
      BY <1>2, <3>2 DEF IndInv, TypeOK
    <3>4. Led(i)'
      BY <1>0, <1>2, <1>4, <1>5, <3>3 DEF Led, a, d
    <3> QED
      BY <3>2, <3>3, <3>4
  <2>2. CASE ~Insertable(a, n)
    <3>1. UNCHANGED tables
      BY <1>1, <2>2
    <3>2. canonical[a] # None \/ alias[a] # None
      BY <1>2, <1>4, <2>2 DEF Insertable
    <3>3. Led(i)
      BY <1>0, <1>2, <3>2 DEF FromFound, Led, Distinct
    <3> QED
      BY <1>0, <3>1, <3>3 DEF tables, Led
  <2> QED
    BY <2>1, <2>2
<1> HIDE DEF a, n, d
<1>7. FromFound'
  <2>1. ASSUME NEW b \in Names, alias'[b] # None
        PROVE  \E j \in DOMAIN found \ pending' :
                  found[j].fqcn = b /\ found[j].dir = canonical'[alias'[b]]
    <3>1. CASE alias'[b] = alias[b]
      BY <1>0, <1>1, <1>5, <2>1, <3>1 DEF FromFound
    <3>2. CASE alias'[b] # alias[b]
      BY <1>1, <1>2, <1>4, <1>5, <1>6, <3>2 DEF a, d
    <3> QED
      BY <3>1, <3>2
  <2> QED
    BY <1>0, <1>1, <1>5, <2>1 DEF FromFound
<1>8. WinnerFirst'
  <2>1. \A v \in DOMAIN found \ pending' :
            Winner(v) => canonical[found[v].fqcn] = found[v].dir
    BY <1>0, <1>1 DEF WinnerFirst
  <2>2. \A j \in DOMAIN found \ pending' : \A v \in Group(j) :
           Winner(v) => v \notin pending'
    BY <1>0, <1>1, <1>3 DEF WinnerFirst
  <2> QED
    BY <1>0, <1>5, <2>1, <2>2 DEF WinnerFirst, Winner, Group, Precedes
<1>9. ASSUME NEW j \in DOMAIN found \ pending'
      PROVE  Led(j)'
  <2>1. found[j].fqcn \in Names /\ found[j].dir # None
    BY AnEntry, IndexAssumption
  <2>2. CASE j = i
    BY <1>6, <2>2
  <2>3. CASE j # i
    <3>1. Led(j)
      BY <1>0, <1>1, <2>3
    <3> QED
      BY <1>0, <1>5, <1>6, <2>1, <3>1 DEF Led
  <2> QED
    BY <2>2, <2>3
<1> QED
  BY <1>0, <1>7, <1>8, <1>9
\* The passes after the first only add aliases under names that are free.
LEMMA LaterReached ==
    ASSUME IndInv, Reached, stage # "register", stage' # "register",
           UNCHANGED <<found, pending, calls, canonical>>,
           \/ alias' = alias
           \/ \E a, n \in Names : Insertable(a, n) /\ alias' = [alias EXCEPT ![a] = n]
    PROVE  Reached'
<1> SUFFICES ASSUME Distinct, calls = 0
             PROVE  /\ pending = {} /\ FromFound' /\ WinnerFirst'
                    /\ \A i \in DOMAIN found' \ pending' : Led(i)'
  BY DEF Reached, Distinct
<1>1. /\ pending = {} /\ FromFound /\ WinnerFirst
      /\ \A i \in DOMAIN found : Led(i)
  BY DEF Reached
<1>2. FromFound' /\ WinnerFirst'
  BY <1>1 DEF FromFound, WinnerFirst, Winner, Group, Precedes
<1>3. ASSUME NEW i \in DOMAIN found
      PROVE  Led(i)'
  <2>1. found[i].fqcn \in Names /\ found[i].dir # None /\ Led(i)
    BY <1>1, AnEntry, IndexAssumption
  <2>2. CASE alias' = alias
    BY <2>1, <2>2 DEF Led
  <2>3. CASE \E a, n \in Names : Insertable(a, n) /\ alias' = [alias EXCEPT ![a] = n]
    <3>1. PICK a \in Names, n \in Names :
             Insertable(a, n) /\ alias' = [alias EXCEPT ![a] = n]
      BY <2>3
    <3>2. /\ canonical[a] = None /\ alias[a] \in {None, n} /\ alias'[a] = n
          /\ \A b \in Names : b # a => alias'[b] = alias[b]
      BY <3>1 DEF Insertable, IndInv, TypeOK
    <3> QED
      BY <2>1, <3>2 DEF Led
  <2> QED
    BY <2>2, <2>3
<1> QED
  BY <1>1, <1>2, <1>3

\* The overlay and the virtual kits insert an alias, or do nothing.
LEMMA AliasAdded ==
    ASSUME IndInv, NEW a \in Names, NEW n \in Names, NEW src,
           Insertable(a, n), InsertAlias(a, n, src)
    PROVE  /\ canonical' = canonical
           /\ \/ alias' = alias
              \/ \E b, m \in Names : Insertable(b, m) /\ alias' = [alias EXCEPT ![b] = m]
BY DEF InsertAlias, tables

LEMMA ReachedStep == IndInv /\ Reached /\ [Next]_vars => Reached'
<1> SUFFICES ASSUME IndInv, Reached, [Next]_vars PROVE Reached'
  OBVIOUS
<1>1. CASE RegisterWinner
  BY <1>1, WinnerReached
<1>2. CASE RegisterDuplicate
  BY <1>2, DuplicateReached
<1>3. CASE Overlay
  <2> DEFINE n == found[at].fqcn
             h == Home(Short(n))
  <2>1. /\ n \in Names /\ stage = "overlay" /\ stage' = stage
        /\ UNCHANGED <<found, pending, calls>>
    BY <1>3, AnEntry DEF Overlay, inputs
  <2>2. CASE Surfaced(at) /\ Insertable(h, n)
    <3>1. h \in Names
      BY <2>2, IndexAssumption DEF Surfaced
    <3>2. InsertAlias(h, n, "overlay")
      BY <1>3, <2>2 DEF Overlay
    <3> HIDE DEF n, h
    <3> QED
      BY <2>1, <2>2, <3>1, <3>2, AliasAdded, LaterReached
  <2>3. CASE ~(Surfaced(at) /\ Insertable(h, n))
    <3>1. UNCHANGED tables
      BY <1>3, <2>3 DEF Overlay
    <3> QED
      BY <2>1, <3>1, LaterReached DEF tables
  <2> QED
    BY <2>2, <2>3
<1>4. CASE ApplyVirtualKit
  <2> DEFINE a == AliasOf(entries[at])
             n == Overlaid(entries[at])
  <2>1. /\ a \in Names /\ n \in Names /\ stage = "virtual" /\ stage' = stage
        /\ UNCHANGED <<found, pending, calls>>
    BY <1>4, EntryNames DEF ApplyVirtualKit, inputs
  <2>2. CASE Insertable(a, n)
    <3>1. InsertAlias(a, n, "kit")
      BY <1>4, <2>2 DEF ApplyVirtualKit
    <3> HIDE DEF a, n
    <3> QED
      BY <2>1, <2>2, <3>1, AliasAdded, LaterReached
  <2>3. CASE ~Insertable(a, n)
    <3>1. UNCHANGED tables
      BY <1>4, <2>3 DEF ApplyVirtualKit
    <3> QED
      BY <2>1, <3>1, LaterReached DEF tables
  <2> QED
    BY <2>2, <2>3
<1>5. CASE NextPass
  <2>1. /\ stage' # "register" /\ (stage = "register" => pending = {})
        /\ UNCHANGED <<found, pending, calls, canonical, alias>>
    BY <1>5 DEF NextPass, inputs, tables
  <2>2. CASE stage # "register"
    BY <2>1, <2>2, LaterReached
  <2>3. CASE stage = "register"
    BY <2>1, <2>3 DEF Reached, Distinct, FromFound, WinnerFirst, Winner, Group, Precedes, Led
  <2> QED
    BY <2>2, <2>3
<1>6. CASE \/ \E n \in Names, a \in AliasNames : Project(n, a)
           \/ \E n, a, target \in Names : Rebind(n, a, target)
           \/ \E r \in receipts : Undo(r)
  <2>1. calls' = calls + 1
    BY <1>6 DEF Project, Rebind, Undo, UndoProject, UndoRebind, Calling
  <2>2. calls' # 0
    BY <2>1, IndexAssumption DEF IndInv, TypeOK
  <2> QED
    BY <2>2 DEF Reached
<1>7. CASE UNCHANGED vars
  BY <1>7 DEF vars, Reached, Distinct, FromFound, WinnerFirst, Winner, Group, Precedes, Led
<1> QED
  BY <1>1, <1>2, <1>3, <1>4, <1>5, <1>6, <1>7 DEF Next, Discover

\* Whatever directories discovery finds under whatever names, as long as no two
\* share one, every name it found is dispatched to its directory.
THEOREM AllDispatchHolds == Spec => []AllDispatch
<1>1. Init => Reached
  BY DEF Init, Reached, FromFound, WinnerFirst
<1>2. IndInv /\ Reached => AllDispatch
  <2> SUFFICES ASSUME IndInv, Reached, Distinct, stage = "serve", calls = 0,
                      NEW i \in DOMAIN found
               PROVE  Leads(i)
    BY DEF AllDispatch
  <2>1. found[i].fqcn \in Names /\ found[i].dir # None /\ Led(i)
    BY AnEntry, IndexAssumption DEF Reached
  <2> DEFINE n == found[i].fqcn
  <2>2. CASE canonical[n] # None
    <3>1. ResolveFqcn(n) = n /\ n # None
      BY <2>1, <2>2, Parts DEF ResolveFqcn
    <3>2. canonical[n] = found[i].dir
      BY <2>1, <2>2 DEF Led, IndInv, SingleHop
    <3> QED
      BY <3>1, <3>2 DEF Leads
  <2>3. CASE canonical[n] = None
    <3>1. alias[n] # None /\ canonical[alias[n]] = found[i].dir
      BY <2>1, <2>3 DEF Led
    <3>2. ResolveFqcn(n) = alias[n]
      BY <2>1, <2>3, <3>1 DEF ResolveFqcn
    <3> QED
      BY <3>1, <3>2 DEF Leads
  <2> QED
    BY <2>2, <2>3
<1> QED
  BY <1>1, <1>2, InitInv, NextInv, ReachedStep, PTL DEF Spec
-----------------------------------------------------------------------------
\* A place in a sequence is a number.
LEMMA PlaceNat ==
    ASSUME NEW S, NEW seq \in Seq(S), NEW k
    PROVE  Place(seq, k) \in Nat
<1> DEFINE I == {i \in DOMAIN seq : seq[i] = k}
<1>1. DOMAIN seq = 1..Len(seq) /\ Len(seq) \in Nat
  OBVIOUS
<1>2. CASE Contains(seq, k)
  <2>1. I # {} /\ I \subseteq Nat
    BY <1>1, <1>2 DEF Contains
  <2>2. PICK m \in I : \A y \in I : m <= y
    BY <2>1, Least
  <2>3. \A j \in 1..(m - 1) : seq[j] # k
    <3> SUFFICES ASSUME NEW j \in 1..(m - 1), seq[j] = k PROVE FALSE
      OBVIOUS
    <3>1. m \in 1..Len(seq) /\ j \in 1..Len(seq) /\ j < m
      BY <1>1, <2>2
    <3>2. j \in I
      BY <1>1, <3>1
    <3> QED
      BY <2>2, <3>1, <3>2
  <2>4. \E i \in DOMAIN seq : seq[i] = k /\ \A j \in 1..(i - 1) : seq[j] # k
    BY <2>2, <2>3
  <2>5. Place(seq, k) \in DOMAIN seq
    BY <1>2, <2>4 DEF Place
  <2> QED
    BY <1>1, <2>5
<1>3. CASE ~Contains(seq, k)
  BY <1>1, <1>3 DEF Place
<1> QED
  BY <1>2, <1>3

\* Whatever kits the user lists, the first of the best rank is a name of the bucket.
LEMMA ForemostIn ==
    ASSUME IndInv, NEW o \in Seq(Segments), NEW b \in Seq(Names), b # << >>
    PROVE  Foremost(o, b) \in ToSet(b)
<1> DEFINE rank(k) == KitRank(o, b[k])
           R == {rank(k) : k \in DOMAIN b}
           best(k) == \A j \in DOMAIN b : rank(k) <= rank(j)
           B == {k \in DOMAIN b : best(k)}
<1>1. DOMAIN b = 1..Len(b) /\ Len(b) \in Nat /\ DOMAIN b # {}
  <2>1. Len(b) # 0
    BY EmptySeq
  <2>2. 1 \in 1..Len(b)
    BY <2>1
  <2>3. DOMAIN b = 1..Len(b) /\ Len(b) \in Nat
    OBVIOUS
  <2>4. 1 \in DOMAIN b
    BY <2>2, <2>3
  <2> HIDE DEF best, B
  <2> QED
    BY <2>3, <2>4
<1>2. \A k \in DOMAIN b : rank(k) \in Nat
  <2>1. Preferred \in Seq(Segments) /\ kitOrder \in Seq(Segments)
    BY IndexAssumption DEF IndInv, TypeOK
  <2>2. /\ Len(o) \in Nat /\ Len(Preferred) \in Nat
        /\ \A k : /\ Place(o, k) \in Nat /\ Place(Preferred, k) \in Nat
                  /\ Place(kitOrder, k) \in Nat
    BY <2>1, PlaceNat
  <2> QED
    BY <2>2 DEF KitRank
<1>3. R # {} /\ R \subseteq Nat
  BY <1>1, <1>2
<1>4. \E r \in R : \A y \in R : r <= y
  <2> HIDE DEF R
  <2> QED
    BY <1>3, Least
<1>5. B # {} /\ B \subseteq Nat
  BY <1>1, <1>4
<1>6. PICK m \in B : \A y \in B : m <= y
  <2> HIDE DEF B
  <2> QED
    BY <1>5, Least
<1>7. \A j \in 1..(m - 1) : ~best(j)
  <2> SUFFICES ASSUME NEW j \in 1..(m - 1), best(j) PROVE FALSE
    OBVIOUS
  <2>1. m \in DOMAIN b /\ m \in 1..Len(b)
    BY <1>1, <1>6
  <2>2. j \in DOMAIN b /\ j < m /\ j \in Nat
    BY <1>1, <2>1
  <2>3. j \in B
    BY <2>2
  <2> HIDE DEF B, best
  <2> QED
    BY <1>1, <1>6, <2>1, <2>2, <2>3
<1>8. \E k \in DOMAIN b : best(k) /\ \A j \in 1..(k - 1) : ~best(j)
  BY <1>6, <1>7
<1>9. Foremost(o, b) = b[CHOOSE k \in DOMAIN b : best(k) /\ \A j \in 1..(k - 1) : ~best(j)]
  BY DEF Foremost
<1> HIDE DEF best
<1>10. PICK k \in DOMAIN b : Foremost(o, b) = b[k]
  BY <1>8, <1>9
<1> QED
  BY <1>10 DEF ToSet

\* A short name with a bucket leads to a canonical, whatever the user prefers.
LEMMA ShortLeads ==
    ASSUME IndInv, NEW s \in Segments, NEW o \in Seq(Segments),
           NEW f \in Names \cup {None}
    PROVE  LET n == ResolveShort(s, o, f) IN
           IF n = None THEN ShortNames(s) = {} ELSE canonical[n] # None
<1> DEFINE pinned == IF f = None THEN None
                     ELSE IF canonical[f] # None THEN f ELSE alias[f]
<1>1. CASE pinned # None
  <2>1. ResolveShort(s, o, f) = pinned
    BY <1>1 DEF ResolveShort
  <2>2. canonical[pinned] # None
    BY <1>1 DEF IndInv, SingleHop
  <2> QED
    BY <1>1, <2>1, <2>2
<1>2. CASE pinned = None
  <2>1. ResolveShort(s, o, f) = Foremost(o, short[s])
    BY <1>2 DEF ResolveShort
  <2>2. short[s] \in Seq(Names) /\ ToSet(short[s]) = ShortNames(s)
    BY DEF IndInv, TypeOK, ShortExact
  <2>3. CASE short[s] = << >>
    <3>1. ShortNames(s) = {}
      BY <2>2, <2>3 DEF ToSet
    <3>2. Foremost(o, short[s]) = None
      BY <2>3 DEF Foremost
    <3> QED
      BY <2>1, <3>1, <3>2
  <2>4. CASE short[s] # << >>
    <3>1. Foremost(o, short[s]) \in ShortNames(s)
      BY <2>2, <2>4, ForemostIn
    <3>2. \A n \in ShortNames(s) : n \in Names /\ n # None /\ canonical[n] # None
      BY Parts DEF ShortNames, IndInv, TypeOK, SingleHop
    <3> QED
      BY <2>1, <3>1, <3>2
  <2> QED
    BY <2>3, <2>4
<1> QED
  BY <1>1, <1>2

\* The kit path of the target in front of an alias is taken off again.
LEMMA ShownLeads ==
    ASSUME IndInv, NEW a \in Names, alias[a] # None, Len(a) = 2
    PROVE  \/ ResolveFqcn(Shown(a)) = alias[a]
           \/ Shown(a) \in Names /\ Taken(Shown(a))
<1> DEFINE n == alias[a]
           k == Len(n) - 1
           x == Shown(a)
<1>1. /\ n \in Names /\ n # None
      /\ a \in Seq(Segments) /\ n \in Seq(Segments) /\ Len(n) >= 2 /\ Len(n) \in Nat
  BY IndexAssumption DEF IndInv, TypeOK
<1>2. Front(n) \in Seq(Segments) /\ Len(Front(n)) = k /\ k \in Nat /\ k >= 1
  <2>1. \A i \in 1..k : n[i] \in Segments
    BY <1>1
  <2> QED
    BY <1>1, <2>1, SubSeqProperties DEF Front
<1> DEFINE g == Front(n)
<1> HIDE DEF n, g
<1>3. x = g \o a
  BY DEF Shown, n, g
<1> HIDE DEF k, x
<1>4. /\ x \in Seq(Segments) /\ Len(x) = k + 2
      /\ \A i \in 1..(k + 2) : x[i] = IF i <= k THEN g[i] ELSE a[i - k]
  <2>1. Len(g) = k /\ g \in Seq(Segments)
    BY <1>2 DEF g
  <2>2. \A u, v \in Seq(Segments) :
           /\ u \o v \in Seq(Segments) /\ Len(u \o v) = Len(u) + Len(v)
           /\ \A i \in 1..(Len(u) + Len(v)) :
                 (u \o v)[i] = IF i <= Len(u) THEN u[i] ELSE v[i - Len(u)]
    BY ConcatProperties
  <2> HIDE DEF g
  <2>3. /\ g \o a \in Seq(Segments) /\ Len(g \o a) = Len(g) + Len(a)
        /\ \A i \in 1..(Len(g) + Len(a)) :
              (g \o a)[i] = IF i <= Len(g) THEN g[i] ELSE a[i - Len(g)]
    BY <1>1, <2>1, <2>2
  <2>4. Len(g) + Len(a) = k + 2
    BY <1>2, <2>1
  <2> QED
    BY <1>3, <2>1, <2>3, <2>4
<1>5. <<x[Len(x) - 1], x[Len(x)]>> = a
  <2>1. x[Len(x) - 1] = a[1] /\ x[Len(x)] = a[2]
    BY <1>2, <1>4
  <2> QED
    BY <1>1, <2>1
<1>6. Front(Front(x)) = g
  <2>1. /\ Front(x) \in Seq(Segments) /\ Len(Front(x)) = k + 1
        /\ \A i \in 1..(k + 1) : Front(x)[i] = x[i]
    <3>1. \A i \in 1..(k + 1) : x[i] \in Segments
      BY <1>2, <1>4
    <3>2. Front(x) = SubSeq(x, 1, k + 1)
      BY <1>2, <1>4 DEF Front
    <3> QED
      BY <1>2, <3>1, <3>2, SubSeqProperties
  <2> DEFINE y == Front(x)
  <2> HIDE DEF y
  <2>2. /\ Front(y) \in Seq(Segments) /\ Len(Front(y)) = k
        /\ \A i \in 1..k : Front(y)[i] = y[i]
    <3>1. /\ y \in Seq(Segments) /\ Len(y) = k + 1
          /\ \A i \in 1..(k + 1) : y[i] = x[i]
      BY <2>1 DEF y
    <3>2. \A i \in 1..k : y[i] \in Segments
      BY <1>2, <1>4, <3>1
    <3>3. Front(y) = SubSeq(y, 1, k)
      BY <1>2, <3>1 DEF Front
    <3> QED
      BY <1>2, <3>2, <3>3, SubSeqProperties
  <2>3. \A i \in 1..k : Front(y)[i] = g[i]
    BY <1>2, <1>4, <2>1, <2>2 DEF y
  <2>4. g \in Seq(Segments) /\ Len(g) = k
    BY <1>2 DEF g
  <2>5. Front(y) = g
    BY <2>2, <2>3, <2>4, SeqEqual
  <2> QED
    BY <2>5 DEF y
<1>7. Qualified(x) = n
  BY <1>1, <1>5, <1>6 DEF Qualified, n, g
<1>8. Len(x) # 2
  BY <1>2, <1>4
<1>9. CASE x \in Names /\ Taken(x)
  BY <1>9 DEF x
<1>10. CASE ~(x \in Names /\ Taken(x))
  BY <1>7, <1>8, <1>10 DEF ResolveFqcn, Taken, x, n
<1> QED
  BY <1>9, <1>10

\* The forms of a name a user sees lead where the index leads, in every state.
THEOREM ConvergeHolds == Spec => []Converge
<1>1. IndInv => Converge
  <2> SUFFICES ASSUME IndInv PROVE Converge
    OBVIOUS
  <2>1. \A a \in Names : alias[a] # None /\ Len(a) = 2 =>
           \/ ResolveFqcn(Shown(a)) = alias[a]
           \/ Shown(a) \in Names /\ Taken(Shown(a))
    BY ShownLeads
  <2>2. \A o \in Overrides : o \in Seq(Segments)
    <3>1. << >> \in Seq(Segments)
      BY EmptySeq
    <3>2. \A n \in Names : <<KitOf(n)>> \in Seq(Segments)
      <4>1. \A k \in Segments : <<k>> \in Seq(Segments)
        OBVIOUS
      <4> QED
        BY <4>1, Parts
    <3> QED
      BY <3>1, <3>2 DEF Overrides
  <2>3. \A s \in {Short(n) : n \in Names} : s \in Segments
    BY Parts
  <2> QED
    BY <2>1, <2>2, <2>3, ShortLeads DEF Converge
<1> QED
  BY <1>1, InitInv, NextInv, PTL DEF Spec
=============================================================================
