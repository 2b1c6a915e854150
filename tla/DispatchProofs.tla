--------------------------- MODULE DispatchProofs ---------------------------
(***************************************************************************)
(* However calls of run() nest, whatever the tools in the process do and   *)
(* whoever registers commands in between, for any aggregators, tools and   *)
(* command lines: the kinds of the state, what a call puts back when it    *)
(* ends, the level a mutating verb acts at, and how a line is routed.      *)
(*                                                                         *)
(* What a call puts back it took from the process when it began, and the   *)
(* calls below it have all given the process to a tool: the invariant says *)
(* of every call in progress what it holds (FrameOK) and how the calls lie *)
(* on one another (Nesting), of the last one that the process still is as  *)
(* it found it until a tool has it (AsFound), and that exactly the calls   *)
(* past discovery hold the locks (Locks).                                  *)
(*                                                                         *)
(* How a line is routed is said of a call from the line it was typed as    *)
(* (RouteInv). It needs what the intercept computes: where its walk over   *)
(* the flags ends, and that a path whose steps are all entities has no dot *)
(* in its text. Both are recursive functions: that one exists is shown     *)
(* from the end of the line or of the text on.                             *)
(***************************************************************************)
EXTENDS Dispatch, SequenceTheorems, FiniteSetTheorems, WellFoundedInduction, TLAPS

\* A sequence, of whatever elements.
IsSequence(s) == s \in Seq({s[i] : i \in DOMAIN s})

\* What is appended to a sequence stands behind what was there.
LEMMA Pushed ==
    ASSUME NEW s, NEW x, IsSequence(s)
    PROVE  /\ IsSequence(Append(s, x))
           /\ Len(s) \in Nat /\ Len(Append(s, x)) = Len(s) + 1
           /\ Append(s, x)[Len(s) + 1] = x
           /\ \A i \in 1..Len(s) : Append(s, x)[i] = s[i]
<1> DEFINE T == {s[i] : i \in DOMAIN s} \cup {x}
           t == Append(s, x)
<1>1. /\ s \in Seq(T) /\ Len(s) \in Nat /\ DOMAIN s = 1..Len(s)
      /\ \A i \in 1..Len(s) : s[i] \in T
  <2>1. \A U, V : U \subseteq V => Seq(U) \subseteq Seq(V)
    OBVIOUS
  <2>2. s \in Seq({s[i] : i \in DOMAIN s})
    BY DEF IsSequence
  <2>3. {s[i] : i \in DOMAIN s} \subseteq T
    OBVIOUS
  <2>4. s \in Seq(T)
    BY <2>1, <2>2, <2>3
  <2> HIDE DEF T
  <2> QED
    BY <2>4
<1>2. x \in T
  OBVIOUS
<1> HIDE DEF T
<1>3. /\ t \in Seq(T) /\ Len(t) = Len(s) + 1 /\ t[Len(s) + 1] = x
      /\ \A i \in 1..Len(s) : t[i] = s[i]
  BY <1>1, <1>2, AppendProperties
<1> HIDE DEF t
<1>4. IsSequence(t)
  <2>1. DOMAIN t = 1..Len(t) /\ Len(t) \in Nat
    BY <1>3
  <2>2. t = [i \in 1..Len(t) |-> t[i]]
    BY <1>3, <2>1
  <2> DEFINE V == {t[i] : i \in DOMAIN t}
  <2>3. \A i \in 1..Len(t) : t[i] \in V
    BY <2>1
  <2> HIDE DEF V
  <2>4. t \in Seq(V)
    BY <2>1, <2>2, <2>3
  <2> QED
    BY <2>4 DEF IsSequence, V
<1> QED
  BY <1>1, <1>3, <1>4 DEF t

\* Without its last element a sequence is what it was before.
LEMMA Popped ==
    ASSUME NEW s, IsSequence(s), s # << >>
    PROVE  LET r == SubSeq(s, 1, Len(s) - 1) IN
           /\ IsSequence(r) /\ Len(s) \in Nat \ {0} /\ Len(r) = Len(s) - 1
           /\ DOMAIN s = 1..Len(s)
           /\ \A i \in 1..(Len(s) - 1) : r[i] = s[i]
<1> DEFINE S == {s[i] : i \in DOMAIN s}
           r == SubSeq(s, 1, Len(s) - 1)
<1>1. s \in Seq(S)
  BY DEF IsSequence
<1> HIDE DEF S
<1>2. Len(s) \in Nat \ {0} /\ DOMAIN s = 1..Len(s)
  BY <1>1, EmptySeq
<1>3. /\ r \in Seq(S) /\ Len(r) = Len(s) - 1
      /\ \A i \in 1..(Len(s) - 1) : r[i] = s[i]
  <2>1. \A i \in 1..(Len(s) - 1) : s[i] \in S
    BY <1>1, <1>2
  <2> QED
    BY <1>1, <1>2, <2>1, SubSeqProperties
<1> HIDE DEF r
<1>4. IsSequence(r)
  <2>1. DOMAIN r = 1..Len(r) /\ Len(r) \in Nat
    BY <1>3
  <2>2. r = [i \in 1..Len(r) |-> r[i]]
    BY <1>3, <2>1
  <2> DEFINE V == {r[i] : i \in DOMAIN r}
  <2>3. \A i \in 1..Len(r) : r[i] \in V
    BY <2>1
  <2> HIDE DEF V
  <2>4. r \in Seq(V)
    BY <2>1, <2>2, <2>3
  <2> QED
    BY <2>4 DEF IsSequence, V
<1> QED
  BY <1>2, <1>3, <1>4 DEF r

-----------------------------------------------------------------------------
(* The inductive invariant *)

Fields == {"e", "pc", "argv", "typed", "tool", "args", "parsers", "backup", "oldargv",
           "level", "target", "env", "sysargv"}

\* An environment is a function on the variables: restoring it gives it back.
Whole(x) == x = Restored(x)

\* What a call in progress holds: what it will put back is what it found.
FrameOK(f) ==
    /\ DOMAIN f = Fields /\ f.e \in Engines
    /\ f.pc \in {"start", "dispatch", "tool", "meta"}
    /\ f.tool \in IF f.pc = "tool" THEN Tools ELSE {None}
    /\ Whole(f.env)
    /\ f.pc = "tool" => f.backup = <<f.env>> /\ f.oldargv \in {<< >>, <<f.sysargv>>}
    /\ f.pc = "meta" => f.oldargv = <<f.sysargv>>
    /\ f.pc # "meta" => f.target = None
    /\ f.target # None =>
          \E as, fg \in Levels \cup {None} :
             /\ f.argv[1].text \in DOMAIN AppliesAt
             /\ f.target.as = as
             /\ f.target.level =
                   Target(f.e, f.argv[1].text, f.target.text, as, fg)

\* Every call but the last has given the process to a tool; no aggregator twice.
Nesting == \A i \in DOMAIN stack, j \in DOMAIN stack :
              j < i => stack[j].pc = "tool" /\ stack[j].e # stack[i].e

Structure == IsSequence(stack) /\ (\A i \in DOMAIN stack : FrameOK(stack[i])) /\ Nesting

\* Until a tool has it, the process is as the last call found it.
AsFound ==
    /\ Whole(env)
    /\ stack # << >> =>
         /\ Top.pc # "tool" => env = Top.env
         /\ Top.pc \in {"start", "dispatch"} => sysargv = Top.sysargv

Registries == UNION {[S -> Makers] : S \in SUBSET Metas}
RegistryOK == /\ commands \in [Engines -> Registries]
              /\ overrides \in [Engines -> SUBSET Metas]
              /\ locked \in [Engines -> BOOLEAN]

\* A registry is locked exactly while a call that uses it is past discovery, and
\* the parser of such a call knows the commands there are.
Locks ==
    /\ \A e \in Engines : locked[e] =>
          /\ e \notin EscapeHatches
          /\ \E i \in DOMAIN stack : stack[i].e = e /\ stack[i].pc # "start"
    /\ \A i \in DOMAIN stack : stack[i].pc # "start" /\ stack[i].e \notin EscapeHatches =>
          /\ locked[stack[i].e]
          /\ stack[i].e \in RootEngines =>
                DOMAIN commands[stack[i].e] \ NoParser = stack[i].parsers

Counted == calls \in 0..MaxCalls /\ changes \in 0..MaxChanges

IInv == Structure /\ AsFound /\ RegistryOK /\ Locks /\ Counted

\* No call is in progress at first.
LEMMA InitIInv == Init => IInv
<1> SUFFICES ASSUME Init PROVE IInv
  OBVIOUS
<1>1. stack = << >> /\ DOMAIN << >> = {}
  BY DEF Init
<1>2. Structure
  <2>1. << >> \in Seq({<< >>[i] : i \in DOMAIN << >>})
    BY EmptySeq
  <2> QED
    BY <1>1, <2>1 DEF Structure, IsSequence, Nesting
<1>3. AsFound
  BY <1>1 DEF Init, AsFound, Whole, Restored
<1>4. RegistryOK
  <2>1. [n \in Metas |-> "default"] \in [Metas -> Makers]
    BY DEF Makers
  <2>2. [n \in Metas |-> "default"] \in Registries
    BY <2>1 DEF Registries
  <2> QED
    BY <2>2 DEF Init, RegistryOK
<1>5. Locks
  BY <1>1 DEF Init, Locks
<1>6. Counted
  BY DispatchAssumption DEF Init, Counted
<1> QED
  BY <1>2, <1>3, <1>4, <1>5, <1>6 DEF IInv

-----------------------------------------------------------------------------
(* The three ways a step changes the stack *)

\* The last call goes on.
LEMMA SetsStructure ==
    ASSUME Structure, stack # << >>, NEW f, Sets(f), FrameOK(f), f.e = Top.e
    PROVE  /\ Structure' /\ Len(stack) \in Nat \ {0} /\ Len(stack') = Len(stack)
           /\ DOMAIN stack = 1..Len(stack) /\ DOMAIN stack' = 1..Len(stack)
           /\ Top' = f /\ \A i \in 1..(Len(stack) - 1) : stack'[i] = stack[i]
<1> DEFINE r == Pop
<1>1. /\ IsSequence(r) /\ Len(stack) \in Nat \ {0} /\ Len(r) = Len(stack) - 1
      /\ DOMAIN stack = 1..Len(stack)
      /\ \A i \in 1..(Len(stack) - 1) : r[i] = stack[i]
  BY Popped DEF Structure, Pop
<1> HIDE DEF r
<1>2. stack' = Append(r, f)
  BY DEF Sets, r
<1>3. /\ IsSequence(stack') /\ Len(stack') = Len(stack)
      /\ stack'[Len(stack)] = f
      /\ \A i \in 1..(Len(stack) - 1) : stack'[i] = stack[i]
  <2>1. /\ IsSequence(Append(r, f)) /\ Len(Append(r, f)) = Len(r) + 1
        /\ Append(r, f)[Len(r) + 1] = f
        /\ \A i \in 1..Len(r) : Append(r, f)[i] = r[i]
    BY <1>1, Pushed
  <2>2. Len(r) + 1 = Len(stack)
    BY <1>1
  <2> QED
    BY <1>1, <1>2, <2>1, <2>2
<1>4. DOMAIN stack' = 1..Len(stack)
  BY <1>3 DEF IsSequence
<1>5. Top' = f /\ Top = stack[Len(stack)]
  BY <1>3 DEF Top
<1>6. \A i \in DOMAIN stack' : FrameOK(stack'[i]) /\ stack'[i].e = stack[i].e
  BY <1>1, <1>3, <1>4, <1>5 DEF Structure
<1>7. \A j \in DOMAIN stack' : j # Len(stack) => stack'[j].pc = stack[j].pc
  BY <1>1, <1>3, <1>4
<1>8. Nesting'
  <2> SUFFICES ASSUME NEW i \in 1..Len(stack), NEW j \in 1..Len(stack), j < i
               PROVE  stack'[j].pc = "tool" /\ stack'[j].e # stack'[i].e
    BY <1>4 DEF Nesting
  <2>1. j # Len(stack)
    BY <1>1
  <2> QED
    BY <1>1, <1>4, <1>6, <1>7, <2>1 DEF Structure, Nesting
<1> QED
  BY <1>1, <1>3, <1>4, <1>5, <1>6, <1>8 DEF Structure

\* The last call ends.
LEMMA PopStructure ==
    ASSUME Structure, stack # << >>, Returns
    PROVE  /\ Structure' /\ Len(stack) \in Nat \ {0} /\ Len(stack') = Len(stack) - 1
           /\ DOMAIN stack = 1..Len(stack) /\ DOMAIN stack' = 1..(Len(stack) - 1)
           /\ \A i \in 1..(Len(stack) - 1) : stack'[i] = stack[i]
<1>1. /\ IsSequence(stack') /\ Len(stack) \in Nat \ {0} /\ Len(stack') = Len(stack) - 1
      /\ DOMAIN stack = 1..Len(stack)
      /\ \A i \in 1..(Len(stack) - 1) : stack'[i] = stack[i]
  BY Popped DEF Structure, Returns, Pop
<1>2. DOMAIN stack' = 1..(Len(stack) - 1)
  BY <1>1 DEF IsSequence
<1>3. \A i \in DOMAIN stack' : i \in DOMAIN stack /\ stack'[i] = stack[i]
  BY <1>1, <1>2
<1> QED
  BY <1>1, <1>2, <1>3 DEF Structure, Nesting

\* Another call begins.
LEMMA RunStructure ==
    ASSUME Structure, NEW f, stack' = Append(stack, f), FrameOK(f),
           \A i \in DOMAIN stack : stack[i].e # f.e,
           stack # << >> => Top.pc = "tool"
    PROVE  /\ Structure' /\ Len(stack) \in Nat /\ Len(stack') = Len(stack) + 1
           /\ DOMAIN stack = 1..Len(stack) /\ DOMAIN stack' = 1..(Len(stack) + 1)
           /\ Top' = f /\ \A i \in 1..Len(stack) : stack'[i] = stack[i]
<1>1. /\ IsSequence(stack') /\ Len(stack) \in Nat /\ Len(stack') = Len(stack) + 1
      /\ stack'[Len(stack) + 1] = f
      /\ \A i \in 1..Len(stack) : stack'[i] = stack[i]
  BY Pushed DEF Structure
<1>2. DOMAIN stack' = 1..(Len(stack) + 1) /\ DOMAIN stack = 1..Len(stack)
  BY <1>1 DEF IsSequence, Structure
<1>3. Top' = f
  BY <1>1 DEF Top
<1>4. \A i \in 1..Len(stack) : stack[i].pc = "tool"
  <2> SUFFICES ASSUME NEW i \in 1..Len(stack) PROVE stack[i].pc = "tool"
    OBVIOUS
  <2>1. stack # << >>
    BY <1>1, <1>2
  <2>2. CASE i = Len(stack)
    BY <2>1, <2>2 DEF Top
  <2>3. CASE i # Len(stack)
    <3> DEFINE n == Len(stack)
    <3>1. n \in Nat /\ DOMAIN stack = 1..n
      BY <1>1, <1>2
    <3> HIDE DEF n
    <3>2. i \in 1..n /\ i # n
      BY <2>3 DEF n
    <3>3. n \in 1..n /\ i < n
      BY <3>1, <3>2
    <3>4. i \in DOMAIN stack /\ n \in DOMAIN stack
      BY <3>1, <3>2, <3>3
    <3> QED
      BY <3>3, <3>4 DEF Structure, Nesting
  <2> QED
    BY <2>2, <2>3
<1>5. Nesting'
  <2> SUFFICES ASSUME NEW i \in 1..(Len(stack) + 1), NEW j \in 1..(Len(stack) + 1), j < i
               PROVE  stack'[j].pc = "tool" /\ stack'[j].e # stack'[i].e
    BY <1>2 DEF Nesting
  <2>1. j \in 1..Len(stack)
    BY <1>1
  <2>2. CASE i = Len(stack) + 1
    BY <1>1, <1>2, <1>4, <2>1, <2>2
  <2>3. CASE i # Len(stack) + 1
    <3>1. i \in 1..Len(stack)
      BY <1>1, <2>3, SMTT(30)
    <3> QED
      BY <1>1, <1>2, <2>1, <3>1 DEF Structure, Nesting
  <2> QED
    BY <2>2, <2>3
<1>6. \A i \in DOMAIN stack' : FrameOK(stack'[i])
  BY <1>1, <1>2 DEF Structure
<1> QED
  BY <1>1, <1>2, <1>3, <1>5, <1>6 DEF Structure

-----------------------------------------------------------------------------
(* Each kind of step keeps the invariant *)

\* The last call stands on the stack like the others.
LEMMA TopOK ==
    ASSUME Structure, stack # << >>
    PROVE  /\ FrameOK(Top) /\ Len(stack) \in Nat \ {0}
           /\ DOMAIN stack = 1..Len(stack) /\ Len(stack) \in DOMAIN stack
           /\ Top = stack[Len(stack)]
           /\ \A i \in 1..(Len(stack) - 1) : stack[i].pc = "tool" /\ stack[i].e # Top.e
<1>1. Len(stack) \in Nat \ {0} /\ DOMAIN stack = 1..Len(stack)
  BY Popped DEF Structure
<1>2. Len(stack) \in DOMAIN stack /\ Top = stack[Len(stack)]
  BY <1>1 DEF Top
<1>3. \A i \in 1..(Len(stack) - 1) : i \in DOMAIN stack /\ i < Len(stack)
  BY <1>1
<1> QED
  BY <1>1, <1>2, <1>3 DEF Structure, Nesting

\* A call that has its tool or its handler, or gets one, keeps the lock it has.
LEMMA Goes ==
    ASSUME IInv, stack # << >>, NEW f, Sets(f), FrameOK(f), f.e = Top.e,
           f.pc # "start", Top.pc # "start", f.parsers = Top.parsers,
           UNCHANGED <<commands, overrides, locked, calls, changes>>,
           Whole(env'), f.pc # "tool" => env' = f.env,
           f.pc = "dispatch" => sysargv' = f.sysargv
    PROVE  IInv' /\ Len(stack') = Len(stack)
<1>1. /\ Structure' /\ Len(stack) \in Nat \ {0} /\ Len(stack') = Len(stack)
      /\ DOMAIN stack = 1..Len(stack) /\ DOMAIN stack' = 1..Len(stack)
      /\ Top' = f /\ \A i \in 1..(Len(stack) - 1) : stack'[i] = stack[i]
  BY SetsStructure DEF IInv
<1>2. Top' = stack'[Len(stack)] /\ Top = stack[Len(stack)]
  BY <1>1 DEF Top
<1>3. AsFound'
  BY <1>1 DEF AsFound
<1>4. \A i \in DOMAIN stack : /\ stack'[i].e = stack[i].e /\ stack'[i].parsers = stack[i].parsers
                              /\ stack'[i].pc # "start" <=> stack[i].pc # "start"
  BY <1>1, <1>2
<1>5. Locks'
  BY <1>1, <1>4 DEF Locks, IInv
<1>6. RegistryOK' /\ Counted'
  BY DEF IInv, RegistryOK, Counted
<1> QED
  BY <1>1, <1>3, <1>5, <1>6 DEF IInv

\* At the end the registry is open, whether the call unlocks it or never locked it.
LEMMA Opened ==
    ASSUME IInv, stack # << >>,
           Unlocks(Top.e) \/ (Top.pc = "start" /\ UNCHANGED locked)
    PROVE  locked' = [locked EXCEPT ![Top.e] = FALSE]
<1>1. Top.e \in Engines /\ locked \in [Engines -> BOOLEAN]
  BY TopOK DEF FrameOK, IInv, RegistryOK
<1>2. CASE Top.e \in EscapeHatches
  <2>1. ~locked[Top.e]
    BY <1>1, <1>2 DEF IInv, Locks
  <2> QED
    BY <1>1, <1>2, <2>1 DEF Unlocks
<1>3. CASE Top.e \notin EscapeHatches /\ Unlocks(Top.e)
  BY <1>1, <1>3 DEF Unlocks
<1>4. CASE Top.pc = "start" /\ UNCHANGED locked
  <2>1. \A i \in DOMAIN stack : stack[i].e = Top.e => stack[i] = Top
    BY TopOK DEF IInv
  <2>2. ~locked[Top.e]
    BY <1>1, <1>4, <2>1 DEF IInv, Locks
  <2> QED
    BY <1>1, <1>4, <2>2
<1> QED
  BY <1>2, <1>3, <1>4

\* The end of a call.
LEMMA Ends ==
    ASSUME IInv, stack # << >>, Returns, Whole(env'),
           Unlocks(Top.e) \/ (Top.pc = "start" /\ UNCHANGED locked),
           UNCHANGED <<commands, overrides, calls, changes>>
    PROVE  IInv' /\ ~locked'[Top.e]
<1>1. /\ Structure' /\ Len(stack) \in Nat \ {0} /\ Len(stack') = Len(stack) - 1
      /\ DOMAIN stack = 1..Len(stack) /\ DOMAIN stack' = 1..(Len(stack) - 1)
      /\ \A i \in 1..(Len(stack) - 1) : stack'[i] = stack[i]
  BY PopStructure DEF IInv
<1>2. locked' = [locked EXCEPT ![Top.e] = FALSE]
  BY Opened
<1>3. /\ Top.e \in Engines /\ locked \in [Engines -> BOOLEAN]
      /\ Top = stack[Len(stack)]
      /\ \A i \in 1..(Len(stack) - 1) : stack[i].pc = "tool" /\ stack[i].e # Top.e
  BY TopOK DEF FrameOK, IInv, RegistryOK
<1>4. AsFound'
  <2> SUFFICES ASSUME stack' # << >> PROVE Top'.pc = "tool"
    BY DEF AsFound
  <2>1. Len(stack') \in Nat \ {0}
    BY <1>1, Popped DEF Structure
  <2>2. Top' = stack'[Len(stack) - 1] /\ Len(stack) - 1 \in 1..(Len(stack) - 1)
    BY <1>1, <2>1 DEF Top
  <2> QED
    BY <1>1, <1>3, <2>2
<1>5. RegistryOK' /\ Counted' /\ ~locked'[Top.e]
  BY <1>2, <1>3 DEF IInv, RegistryOK, Counted
<1>6. Locks'
  <2>1. ASSUME NEW e \in Engines, locked'[e]
        PROVE  /\ e \notin EscapeHatches
               /\ \E i \in DOMAIN stack' : stack'[i].e = e /\ stack'[i].pc # "start"
    <3>1. e # Top.e /\ locked[e]
      BY <1>2, <1>3, <2>1
    <3>2. e \notin EscapeHatches
          /\ \E i \in DOMAIN stack : stack[i].e = e /\ stack[i].pc # "start"
      BY <3>1 DEF IInv, Locks
    <3> QED
      BY <1>1, <1>3, <3>1, <3>2
  <2>2. \A i \in DOMAIN stack' : /\ i \in DOMAIN stack /\ stack'[i] = stack[i]
                                 /\ stack[i].e # Top.e /\ stack[i].e \in Engines
    BY <1>1, <1>3 DEF IInv, Structure, FrameOK
  <2>3. \A i \in DOMAIN stack' : locked'[stack[i].e] = locked[stack[i].e]
    BY <1>2, <1>3, <2>2
  <2> QED
    BY <2>1, <2>2, <2>3 DEF Locks, IInv
<1> QED
  BY <1>1, <1>4, <1>5, <1>6 DEF IInv

-----------------------------------------------------------------------------
(* One lemma per action: the invariant, and whether the call ends *)

\* The registry of an aggregator that is not in use changes.
LEMMA EntriesKeep ==
    ASSUME IInv, NEW e \in Engines, ~locked[e], NEW f \in Registries, Entries(e, f),
           overrides' \in [Engines -> SUBSET Metas], Others, Meddles
    PROVE  IInv' /\ stack' = stack
<1>1. /\ commands' = [commands EXCEPT ![e] = f]
      /\ UNCHANGED <<stack, env, sysargv, locked, calls>>
      /\ changes < MaxChanges /\ changes' = changes + 1
  BY DEF Entries, Others, Meddles
<1>2. Structure' /\ AsFound'
  BY <1>1 DEF IInv, Structure, Nesting, AsFound, Top
<1>3. RegistryOK'
  BY <1>1 DEF IInv, RegistryOK
<1>4. Counted'
  BY <1>1, DispatchAssumption DEF IInv, Counted
<1>5. Locks'
  <2>1. \A i \in DOMAIN stack :
            stack[i].pc # "start" /\ stack[i].e \notin EscapeHatches =>
               commands'[stack[i].e] = commands[stack[i].e]
    BY <1>1 DEF IInv, Locks, Structure, FrameOK, RegistryOK
  <2> QED
    BY <1>1, <2>1 DEF IInv, Locks
<1> QED
  BY <1>1, <1>2, <1>3, <1>4, <1>5 DEF IInv

\* register(), override(), unregister() and clear() of a registry that is open.
LEMMA RegistrationKeeps ==
    ASSUME IInv, NEW e \in Engines, Registration(e)
    PROVE  IInv' /\ stack' = stack
<1>1. PICK S \in SUBSET Metas : commands[e] \in [S -> Makers]
  BY DEF IInv, RegistryOK, Registries
<1>2. Maker \in Makers /\ Registrable \subseteq Metas
      /\ overrides \in [Engines -> SUBSET Metas]
  BY DispatchAssumption DEF Maker, Makers, IInv, RegistryOK
<1>3. ASSUME NEW n \in Registrable, Register(e, n) PROVE IInv' /\ stack' = stack
  <2> DEFINE f == [m \in DOMAIN commands[e] \cup {n} |->
                     IF m = n THEN Maker ELSE commands[e][m]]
  <2>1. f \in [S \cup {n} -> Makers] /\ S \cup {n} \in SUBSET Metas
    BY <1>1, <1>2
  <2>2. f \in Registries
    BY <2>1 DEF Registries
  <2>3. Entries(e, f) /\ ~locked[e] /\ overrides' = overrides /\ Others /\ Meddles
    BY <1>3 DEF Register
  <2> HIDE DEF f
  <2> QED
    BY <1>2, <2>2, <2>3, EntriesKeep
<1>4. ASSUME NEW n \in Registrable, Override(e, n) PROVE IInv' /\ stack' = stack
  <2> DEFINE f == [commands[e] EXCEPT ![n] = Maker]
  <2>1. f \in [S -> Makers]
    BY <1>1, <1>2
  <2>2. f \in Registries
    BY <2>1 DEF Registries
  <2>3. /\ Entries(e, f) /\ ~locked[e] /\ Others /\ Meddles
        /\ overrides' = [overrides EXCEPT ![e] = @ \cup {n}]
    BY <1>4 DEF Override
  <2>4. overrides' \in [Engines -> SUBSET Metas]
    BY <1>2, <2>3
  <2> HIDE DEF f
  <2> QED
    BY <2>2, <2>3, <2>4, EntriesKeep
<1>5. ASSUME NEW gone, Unregister(e, gone) PROVE IInv' /\ stack' = stack
  <2> DEFINE f == [m \in DOMAIN commands[e] \ gone |-> commands[e][m]]
  <2>1. f \in [S \ gone -> Makers] /\ S \ gone \in SUBSET Metas
    BY <1>1
  <2>2. f \in Registries
    BY <2>1 DEF Registries
  <2>3. Entries(e, f) /\ ~locked[e] /\ overrides' = overrides /\ Others /\ Meddles
    BY <1>5 DEF Unregister
  <2> HIDE DEF f
  <2> QED
    BY <1>2, <2>2, <2>3, EntriesKeep
<1> QED
  BY <1>3, <1>4, <1>5 DEF Registration

\* run() begins.
LEMMA RunKeeps ==
    ASSUME IInv, NEW e \in Engines, NEW a, Run(e, a)
    PROVE  IInv' /\ Len(stack') > Len(stack)
<1> DEFINE f == Frame(e, a)
<1>1. /\ f.e = e /\ f.pc = "start" /\ f.env = env /\ f.sysargv = sysargv
      /\ f.tool = None /\ f.target = None /\ DOMAIN f = Fields
  BY DEF Frame, Fields
<1>2. /\ stack' = Append(stack, f) /\ Callers(e) /\ calls < MaxCalls /\ calls' = calls + 1
      /\ UNCHANGED <<env, sysargv, commands, overrides, locked, changes>>
  BY DEF Run
<1> HIDE DEF f
<1>3. FrameOK(f)
  BY <1>1 DEF FrameOK, IInv, AsFound
<1>4. /\ Structure' /\ Len(stack) \in Nat /\ Len(stack') = Len(stack) + 1
      /\ DOMAIN stack = 1..Len(stack) /\ DOMAIN stack' = 1..(Len(stack) + 1)
      /\ Top' = f /\ \A i \in 1..Len(stack) : stack'[i] = stack[i]
  BY <1>1, <1>2, <1>3, RunStructure DEF IInv, Callers, Busy
<1>5. stack'[Len(stack) + 1] = f
  BY <1>4 DEF Top
<1>6. AsFound'
  BY <1>1, <1>2, <1>4 DEF AsFound, IInv
<1>7. RegistryOK' /\ Counted'
  BY <1>2, DispatchAssumption DEF IInv, RegistryOK, Counted
<1>8. Locks'
  <2>1. \A i \in DOMAIN stack : i \in DOMAIN stack' /\ stack'[i] = stack[i]
    BY <1>4
  <2>2. \A i \in DOMAIN stack' : stack'[i].pc # "start" => i \in DOMAIN stack
    BY <1>1, <1>4, <1>5
  <2> QED
    BY <1>2, <2>1, <2>2 DEF IInv, Locks
<1> QED
  BY <1>4, <1>6, <1>7, <1>8 DEF IInv

\* A call before its dispatch ends with nothing changed, or goes on.
LEMMA StartKeeps ==
    ASSUME IInv, PropertyForm \/ DiscoveryFails \/ Begins
    PROVE  /\ IInv'
           /\ \/ Len(stack') = Len(stack)
              \/ env' = Top.env /\ sysargv' = Top.sysargv /\ ~locked'[Top.e]
<1>1. /\ stack # << >> /\ Top.pc = "start" /\ env' = env /\ sysargv' = sysargv
      /\ UNCHANGED <<commands, overrides, calls, changes>>
  BY DEF PropertyForm, DiscoveryFails, Begins, Busy
<1>2. Whole(env) /\ env = Top.env /\ sysargv = Top.sysargv
  BY <1>1 DEF IInv, AsFound
<1>3. CASE Returns /\ UNCHANGED locked
  <2>1. IInv' /\ ~locked'[Top.e]
    BY <1>1, <1>2, <1>3, Ends
  <2> QED
    BY <1>1, <1>2, <2>1
<1>4. CASE Begins /\ ~(Returns /\ UNCHANGED locked)
  <2> DEFINE e == Top.e
             a == Stripped(Top.argv)
             f == [Top EXCEPT !.pc = "dispatch", !.argv = a,
                     !.parsers = IF e \in RootEngines
                                 THEN DOMAIN commands[e] \ NoParser ELSE {}]
  <2>1. Sets(f) /\ locked' = [locked EXCEPT ![e] = e \notin EscapeHatches]
    BY <1>4 DEF Begins
  <2>2. FrameOK(Top) /\ e \in Engines
    BY <1>1, TopOK DEF IInv, FrameOK
  <2>3. /\ DOMAIN f = Fields /\ f.e = e /\ f.pc = "dispatch" /\ f.tool = Top.tool
        /\ f.env = Top.env /\ f.sysargv = Top.sysargv /\ f.target = Top.target
        /\ f.parsers = IF e \in RootEngines THEN DOMAIN commands[e] \ NoParser ELSE {}
    BY <2>2 DEF FrameOK, Fields
  <2> HIDE DEF f
  <2>4. FrameOK(f)
    BY <1>1, <2>2, <2>3 DEF FrameOK
  <2>5. /\ Structure' /\ Len(stack) \in Nat \ {0} /\ Len(stack') = Len(stack)
        /\ DOMAIN stack = 1..Len(stack) /\ DOMAIN stack' = 1..Len(stack)
        /\ Top' = f /\ \A i \in 1..(Len(stack) - 1) : stack'[i] = stack[i]
    BY <1>1, <2>1, <2>3, <2>4, SetsStructure DEF IInv
  <2>6. AsFound'
    BY <1>1, <1>2, <2>3, <2>5 DEF AsFound
  <2>7. RegistryOK' /\ Counted'
    BY <1>1, <2>1, <2>2 DEF IInv, RegistryOK, Counted
  <2>8. Locks'
    <3>1. /\ stack'[Len(stack)] = f /\ Len(stack) \in DOMAIN stack'
          /\ \A i \in 1..(Len(stack) - 1) : stack[i].e # e
          /\ Top = stack[Len(stack)]
      BY <1>1, <2>5, TopOK DEF IInv, Top
    <3>2. \A x \in Engines : locked'[x] = IF x = e THEN e \notin EscapeHatches ELSE locked[x]
      BY <2>1, <2>2, Zenon DEF IInv, RegistryOK
    <3>3. ASSUME NEW x \in Engines, locked'[x]
          PROVE  /\ x \notin EscapeHatches
                 /\ \E i \in DOMAIN stack' : stack'[i].e = x /\ stack'[i].pc # "start"
      <4>1. CASE x = e
        BY <2>3, <3>1, <3>2, <3>3, <4>1
      <4>2. CASE x # e
        BY <2>5, <3>1, <3>2, <3>3, <4>2 DEF IInv, Locks
      <4> QED
        BY <4>1, <4>2
    <3>4. ASSUME NEW i \in DOMAIN stack', stack'[i].pc # "start",
                 stack'[i].e \notin EscapeHatches
          PROVE  /\ locked'[stack'[i].e]
                 /\ stack'[i].e \in RootEngines =>
                       DOMAIN commands'[stack'[i].e] \ NoParser = stack'[i].parsers
      <4>1. CASE i = Len(stack)
        BY <1>1, <2>2, <2>3, <3>1, <3>2, <3>4, <4>1
      <4>2. CASE i # Len(stack)
        <5>1. /\ i \in 1..(Len(stack) - 1) /\ i \in DOMAIN stack /\ stack'[i] = stack[i]
              /\ stack[i].e \in Engines /\ stack[i].e # e
          BY <2>5, <3>1, <4>2 DEF IInv, Structure, FrameOK
        <5> QED
          BY <1>1, <3>2, <3>4, <5>1 DEF IInv, Locks
      <4> QED
        BY <4>1, <4>2
    <3> QED
      BY <3>3, <3>4 DEF Locks
  <2> QED
    BY <2>5, <2>6, <2>7, <2>8 DEF IInv
<1> QED
  BY <1>3, <1>4 DEF PropertyForm, DiscoveryFails

\* Nothing to run, or a line that is refused: the call ends as it began.
LEMMA RefusedKeeps ==
    ASSUME IInv, NothingToDo \/ MetaRefused
    PROVE  IInv' /\ env' = Top.env /\ sysargv' = Top.sysargv /\ ~locked'[Top.e]
<1>1. /\ stack # << >> /\ Top.pc = "dispatch" /\ Returns /\ Unlocks(Top.e)
      /\ UNCHANGED <<env, sysargv, commands, overrides, calls, changes>>
  BY DEF NothingToDo, MetaRefused, Ready, Busy
<1>2. Whole(env) /\ env = Top.env /\ sysargv = Top.sysargv
  BY <1>1 DEF IInv, AsFound
<1> QED
  BY <1>1, <1>2, Ends

\* The process is given to a tool: what is kept is what the call found.
LEMMA GiveToolKeeps ==
    ASSUME IInv, GiveTool
    PROVE  IInv' /\ Len(stack') = Len(stack)
<1> DEFINE e == Top.e
           t == Resolved(e, Top.argv[1])
           swaps == t \in InProcess /\ e \notin Dispatchers \cup EscapeHatches
           f == [Top EXCEPT !.pc = "tool", !.tool = t, !.args = Tail(Top.argv),
                            !.backup = <<env>>,
                            !.oldargv = IF swaps THEN <<sysargv>> ELSE <<>>]
<1>1. /\ stack # << >> /\ Top.pc = "dispatch" /\ Owns(e, Top.argv[1]) = "tool"
      /\ Sets(f)
      /\ env' = [env EXCEPT !["APP_NAME"] = <<e>>, !["COMMAND"] = <<e>>,
                            !["CANONICAL_FQCN"] = <<t>>,
                            !["INVOKED_FQCN"] = Local(e, Top.argv[1].text)]
      /\ UNCHANGED <<commands, overrides, locked, calls, changes>>
  BY DEF GiveTool, Ready, Busy
<1>2. FrameOK(Top) /\ env = Top.env /\ sysargv = Top.sysargv /\ Whole(env)
  BY <1>1, TopOK DEF IInv, AsFound
<1>3. t \in Tools
  <2>1. t # None
    BY <1>1 DEF Owns
  <2> QED
    BY <1>2, <2>1, DispatchAssumption DEF Resolved, FrameOK
<1>4. /\ DOMAIN f = Fields /\ f.e = e /\ f.pc = "tool" /\ f.tool = t
      /\ f.backup = <<env>> /\ f.oldargv \in {<< >>, <<sysargv>>}
      /\ f.env = Top.env /\ f.sysargv = Top.sysargv /\ f.target = Top.target
      /\ f.parsers = Top.parsers
  BY <1>2 DEF FrameOK, Fields
<1> HIDE DEF f, t, swaps
<1>5. FrameOK(f)
  BY <1>1, <1>2, <1>3, <1>4 DEF FrameOK
<1>6. Whole(env')
  BY <1>1, <1>2 DEF Whole, Restored
<1> QED
  BY <1>1, <1>4, <1>5, <1>6, Goes

\* A tool in the process changes the environment and sys.argv.
LEMMA MeddleKeeps ==
    ASSUME IInv, NEW v \in MeddledVars, NEW x, Meddle(v, x)
    PROVE  IInv' /\ stack' = stack
<1>1. /\ Top.pc = "tool" /\ env' = [env EXCEPT ![v] = x]
      /\ changes < MaxChanges /\ changes' = changes + 1
      /\ UNCHANGED <<stack, commands, overrides, locked, calls>>
  BY DEF Meddle, Busy
<1>2. Whole(env')
  BY <1>1 DEF Whole, Restored, IInv, AsFound
<1>3. AsFound' /\ Structure' /\ Locks' /\ RegistryOK'
  BY <1>1, <1>2 DEF AsFound, IInv, Top, Structure, Nesting, Locks, RegistryOK
<1>4. Counted'
  BY <1>1, DispatchAssumption DEF IInv, Counted
<1> QED
  BY <1>1, <1>3, <1>4 DEF IInv

\* The tool ends, however: the call puts back what it kept.
LEMMA ToolEndsKeeps ==
    ASSUME IInv, ToolEnds
    PROVE  /\ IInv' /\ env' = Top.env /\ ~locked'[Top.e]
           /\ sysargv' = Top.sysargv \/ (Top.pc = "tool" /\ Top.oldargv = <<>>)
<1>1. /\ stack # << >> /\ Top.pc = "tool" /\ Returns /\ Unlocks(Top.e)
      /\ env' = Restored(Top.backup[1])
      /\ sysargv' = IF Top.oldargv = <<>> THEN sysargv ELSE Top.oldargv[1]
      /\ UNCHANGED <<commands, overrides, calls, changes>>
  BY DEF ToolEnds, Busy
<1>2. FrameOK(Top)
  BY <1>1, TopOK DEF IInv
<1>3. env' = Top.env /\ Whole(Top.env)
  BY <1>1, <1>2 DEF FrameOK, Whole
<1>4. sysargv' = Top.sysargv \/ Top.oldargv = << >>
  BY <1>1, <1>2 DEF FrameOK
<1> QED
  BY <1>1, <1>3, <1>4, Ends

\* A handler gets the process with the line for argparse in sys.argv.
LEMMA StartMetaKeeps ==
    ASSUME IInv, StartMeta
    PROVE  IInv' /\ Len(stack') = Len(stack)
<1> DEFINE e == Top.e
           n == IF e \in EscapeHatches THEN Len(Top.argv) ELSE Split(Top.argv)
           f == [Top EXCEPT !.pc = "meta", !.args = SubSeq(Top.argv, 2, n),
                            !.level = SubSeq(Top.argv, n + 2, Len(Top.argv)),
                            !.oldargv = <<sysargv>>]
<1>1. /\ stack # << >> /\ Top.pc = "dispatch" /\ Sets(f)
      /\ UNCHANGED <<env, commands, overrides, locked, calls, changes>>
  BY DEF StartMeta, Ready, Busy
<1>2. FrameOK(Top) /\ env = Top.env /\ sysargv = Top.sysargv /\ Whole(env)
  BY <1>1, TopOK DEF IInv, AsFound
<1>3. /\ DOMAIN f = Fields /\ f.e = e /\ f.pc = "meta" /\ f.tool = Top.tool
      /\ f.oldargv = <<sysargv>>
      /\ f.env = Top.env /\ f.sysargv = Top.sysargv /\ f.target = Top.target
      /\ f.parsers = Top.parsers
  BY <1>2 DEF FrameOK, Fields
<1> HIDE DEF f
<1>4. FrameOK(f)
  BY <1>1, <1>2, <1>3 DEF FrameOK
<1> QED
  BY <1>1, <1>2, <1>3, <1>4, Goes

\* The handler ends.
LEMMA MetaEndsKeeps ==
    ASSUME IInv, MetaEnds
    PROVE  IInv' /\ env' = Top.env /\ sysargv' = Top.sysargv /\ ~locked'[Top.e]
<1>1. /\ stack # << >> /\ Top.pc = "meta" /\ Returns /\ Unlocks(Top.e)
      /\ sysargv' = Top.oldargv[1]
      /\ UNCHANGED <<env, commands, overrides, calls, changes>>
  BY DEF MetaEnds, Busy
<1>2. FrameOK(Top) /\ env = Top.env /\ Whole(env)
  BY <1>1, TopOK DEF IInv, AsFound
<1>3. sysargv' = Top.sysargv
  BY <1>1, <1>2 DEF FrameOK
<1> QED
  BY <1>1, <1>2, <1>3, Ends

\* A handler resolves its target.
LEMMA ResolveTargetKeeps ==
    ASSUME IInv, NEW as \in Levels \cup {None}, NEW fg \in Levels \cup {None},
           ResolveTarget(as, fg)
    PROVE  IInv' /\ Len(stack') = Len(stack)
<1> DEFINE t == Top.args[1].text
           g == [level |-> Target(Top.e, Top.argv[1].text, t, as, fg), text |-> t, as |-> as]
           f == [Top EXCEPT !.target = g]
<1>1. /\ stack # << >> /\ Top.pc = "meta" /\ Sets(f)
      /\ Top.argv[1].text \in DOMAIN AppliesAt
      /\ UNCHANGED <<env, sysargv, commands, overrides, locked, calls, changes>>
  BY DEF ResolveTarget, Busy
<1>2. FrameOK(Top) /\ env = Top.env /\ Whole(env)
  BY <1>1, TopOK DEF IInv, AsFound
<1>3. /\ DOMAIN f = Fields /\ f.e = Top.e /\ f.pc = "meta" /\ f.tool = Top.tool
      /\ f.oldargv = Top.oldargv /\ f.argv = Top.argv
      /\ f.env = Top.env /\ f.sysargv = Top.sysargv /\ f.target = g
      /\ f.parsers = Top.parsers
  BY <1>1, <1>2 DEF FrameOK, Fields
<1>4. /\ g.as = as
      /\ g.level = Target(f.e, f.argv[1].text, g.text, as, fg)
  BY <1>3
<1> HIDE DEF f, g
<1>5. FrameOK(f)
  BY <1>1, <1>2, <1>3, <1>4 DEF FrameOK
<1> QED
  BY <1>1, <1>2, <1>3, <1>5, Goes

\* What a step of a call in progress does.
LEMMA StepKeeps ==
    ASSUME IInv, Step
    PROVE  /\ IInv'
           /\ \/ Len(stack') = Len(stack)
              \/ /\ env' = Top.env /\ ~locked'[Top.e]
                 /\ sysargv' = Top.sysargv \/ (Top.pc = "tool" /\ Top.oldargv = <<>>)
BY StartKeeps, RefusedKeeps, GiveToolKeeps, ToolEndsKeeps, StartMetaKeeps, MetaEndsKeeps
   DEF Step

\* Every step keeps the invariant, and a call that ends puts things back.
LEMMA NextIInv ==
    ASSUME IInv, [Next]_vars
    PROVE  /\ IInv'
           /\ \/ Len(stack') >= Len(stack)
              \/ /\ env' = Top.env /\ ~locked'[Top.e]
                 /\ sysargv' = Top.sysargv \/ (Top.pc = "tool" /\ Top.oldargv = <<>>)
<1>0. Len(stack) \in Nat
  BY DEF IInv, Structure, IsSequence
<1>1. CASE \E e \in Engines : Registration(e)
  BY <1>0, <1>1, RegistrationKeeps
<1>2. CASE \E e \in Engines : Calls(e)
  <2>1. PICK e \in Engines : \E a : Run(e, a)
    BY <1>2 DEF Calls
  <2>2. PICK a : Run(e, a)
    BY <2>1
  <2>3. IInv' /\ Len(stack') > Len(stack)
    BY <2>2, RunKeeps
  <2>4. Len(stack') \in Nat
    BY <2>3 DEF IInv, Structure, IsSequence
  <2> QED
    BY <1>0, <2>3, <2>4
<1>3. CASE Step
  BY <1>0, <1>3, StepKeeps
<1>4. CASE \E v \in MeddledVars, x \in MeddledValues : Meddle(v, x)
  BY <1>0, <1>4, MeddleKeeps
<1>5. CASE \E as, fg \in Levels \cup {None} : ResolveTarget(as, fg)
  <2>1. PICK as \in Levels \cup {None}, fg \in Levels \cup {None} : ResolveTarget(as, fg)
    BY <1>5
  <2>2. IInv' /\ Len(stack') = Len(stack)
    BY <2>1, ResolveTargetKeeps
  <2> QED
    BY <1>0, <2>2
<1>6. CASE UNCHANGED vars
  BY <1>0, <1>6 DEF vars, IInv, Structure, Nesting, AsFound, Top, RegistryOK, Locks, Counted
<1> QED
  BY <1>1, <1>2, <1>3, <1>4, <1>5, <1>6 DEF Next

-----------------------------------------------------------------------------
\* What FrameOK says of a target is what OneTarget asks for: Target never breaks a tie
\* for a mutating verb.
Single(e, verb, t, as, l) ==
    /\ NamedAt(e, l, t)
    /\ \A k \in AppliesAt[verb] \ {l} : NamedAt(e, k, t) =>
         as = l \/ (l = "tool" /\ t \in Favorites[e])
LEMMA TargetSingle ==
    ASSUME NEW e, NEW verb \in DOMAIN AppliesAt, NEW t, NEW as, NEW fg,
           Target(e, verb, t, as, fg) \in Levels, verb \in Mutating
    PROVE  Single(e, verb, t, as, Target(e, verb, t, as, fg))
<1> DEFINE found == {k \in Want(e, verb, t, as) : NamedAt(e, k, t)}
           g == Target(e, verb, t, as, fg)
<1>1. found \subseteq Levels
  BY DispatchAssumption DEF Want, Levels
<1>2. found # {} /\ ~(Cardinality(found) > 1 /\ as = None)
  <2>1. g = IF found = {} THEN None
            ELSE IF Cardinality(found) > 1 /\ verb \in Mutating /\ as = None THEN "ambiguous"
            ELSE IF fg \in found THEN fg
            ELSE CHOOSE l \in found : \A k \in found : Precedence[l] <= Precedence[k]
    BY DEF Target
  <2>2. g \in Levels /\ "ambiguous" \notin Levels /\ None \notin Levels
    BY DispatchAssumption DEF Levels
  <2> HIDE DEF found, g
  <2> QED
    BY <2>1, <2>2
<1>3. g \in found
  <2>1. g = IF fg \in found THEN fg
            ELSE CHOOSE l \in found : \A k \in found : Precedence[l] <= Precedence[k]
    BY <1>2 DEF Target
  <2>2. \E l \in found : \A k \in found : Precedence[l] <= Precedence[k]
    <3>1. Precedence["tool"] = 0 /\ Precedence["kit"] = 1 /\ Precedence["aggregator"] = 2
      BY DEF Precedence, Levels
    <3>2. \A k \in found : k \in {"tool", "kit", "aggregator"}
      BY <1>1 DEF Levels
    <3> HIDE DEF found
    <3>3. CASE "tool" \in found
      BY <3>1, <3>2, <3>3
    <3>4. CASE "tool" \notin found /\ "kit" \in found
      BY <3>1, <3>2, <3>4
    <3>5. CASE "tool" \notin found /\ "kit" \notin found
      <4>1. \A k \in found : k = "aggregator"
        BY <3>2, <3>5
      <4> QED
        BY <1>2, <3>1, <4>1
    <3> QED
      BY <3>3, <3>4, <3>5
  <2> HIDE DEF found, g
  <2> QED
    BY <2>1, <2>2
<1>4. NamedAt(e, g, t)
  BY <1>3
<1>5. CASE as # None
  <2>1. g = as
    BY <1>3, <1>5 DEF Want
  <2> QED
    BY <1>4, <2>1 DEF Single
<1>6. CASE as = None /\ t \in Favorites[e] /\ "tool" \in AppliesAt[verb]
  <2>1. g = "tool"
    BY <1>3, <1>6 DEF Want
  <2> QED
    BY <1>4, <1>6, <2>1 DEF Single
<1>7. CASE as = None /\ ~(t \in Favorites[e] /\ "tool" \in AppliesAt[verb])
  <2>1. Want(e, verb, t, as) = AppliesAt[verb]
    BY <1>7 DEF Want
  <2>2. ASSUME NEW k \in AppliesAt[verb] \ {g}, NamedAt(e, k, t) PROVE FALSE
    <3>1. k \in found /\ k # g
      BY <2>1, <2>2
    <3>2. IsFiniteSet(found)
      <4>1. IsFiniteSet({"tool"} \cup {"kit"} \cup {"aggregator"})
        BY FS_Singleton, FS_AddElement, ZenonT(40)
      <4>2. Levels = {"tool"} \cup {"kit"} \cup {"aggregator"}
        BY DEF Levels
      <4> HIDE DEF found
      <4> QED
        BY <1>1, <4>1, <4>2, FS_Subset
    <3> HIDE DEF found, g
    <3>3. {g} \in SUBSET found /\ {g} # found
      BY <1>3, <3>1
    <3>4. Cardinality({g}) = 1
      BY FS_Singleton
    <3>5. Cardinality(found) \in Nat /\ ~(Cardinality(found) > 1)
      BY <1>2, <1>7, <3>2, FS_CardinalityType
    <3>6. Cardinality({g}) <= Cardinality(found) /\ Cardinality({g}) # Cardinality(found)
      BY <3>2, <3>3, FS_Subset
    <3> QED
      BY <3>4, <3>5, <3>6
  <2> QED
    BY <1>4, <2>2 DEF Single
<1> QED
  BY <1>5, <1>6, <1>7

-----------------------------------------------------------------------------
\* The process and the calls in progress are of their kinds, and while a call
\* dispatches nobody changes what its parser was built from.
THEOREM TypeCorrect == Spec => []TypeOK
<1>1. IInv => TypeOK
  <2> SUFFICES ASSUME IInv PROVE TypeOK
    OBVIOUS
  <2>1. DOMAIN env = Vars
    BY DEF IInv, AsFound, Whole, Restored
  <2>2. \A e \in Engines : /\ DOMAIN commands[e] \subseteq Metas
                           /\ \A n \in DOMAIN commands[e] : commands[e][n] \in Makers
                           /\ overrides[e] \subseteq Metas /\ locked[e] \in BOOLEAN
    BY DEF IInv, RegistryOK, Registries
  <2>3. ASSUME NEW i \in DOMAIN stack
        PROVE  /\ stack[i].e \in Engines
               /\ stack[i].tool \in IF stack[i].pc = "tool" THEN Tools ELSE {None}
               /\ stack[i].pc \in {"start", "dispatch", "tool", "meta"}
               /\ \A j \in 1..i - 1 : stack[j].pc = "tool" /\ stack[j].e # stack[i].e
               /\ stack[i].pc # "start" /\ stack[i].e \in RootEngines \ EscapeHatches =>
                     DOMAIN commands[stack[i].e] \ NoParser = stack[i].parsers
    <3>1. DOMAIN stack = 1..Len(stack) /\ Len(stack) \in Nat
      BY DEF IInv, Structure, IsSequence
    <3>2. \A j \in 1..i - 1 : j \in DOMAIN stack /\ j < i
      BY <3>1
    <3> QED
      BY <3>2 DEF IInv, Structure, FrameOK, Nesting, Locks
  <2> QED
    BY <2>1, <2>2, <2>3 DEF TypeOK, IInv, Counted
<1> QED
  BY <1>1, InitIInv, NextIInv, PTL DEF Spec

\* However a call ends, and however calls nest in it, it leaves the environment,
\* sys.argv and its registry's lock as it found them.
THEOREM PutBackHolds == Spec => PutBack
<1>1. IInv /\ [Next]_vars =>
         [Len(stack') < Len(stack) =>
            /\ env' = Top.env /\ ~locked'[Top.e]
            /\ sysargv' = Top.sysargv \/ (Top.pc = "tool" /\ Top.oldargv = <<>>)]_vars
  <2> SUFFICES ASSUME IInv, [Next]_vars, Len(stack') < Len(stack)
               PROVE  /\ env' = Top.env /\ ~locked'[Top.e]
                      /\ sysargv' = Top.sysargv \/ (Top.pc = "tool" /\ Top.oldargv = <<>>)
    OBVIOUS
  <2>1. Len(stack) \in Nat /\ Len(stack') \in Nat
    BY NextIInv DEF IInv, Structure, IsSequence
  <2> QED
    BY <2>1, NextIInv
<1> QED
  BY <1>1, InitIInv, NextIInv, PTL DEF Spec, PutBack

\* A mutating verb acts at a level the line left no doubt about.
THEOREM OneTargetHolds == Spec => []OneTarget
<1>1. IInv => OneTarget
  <2> SUFFICES ASSUME IInv, NEW i \in DOMAIN stack, stack[i].target # None,
                      stack[i].argv[1].text \in Mutating, stack[i].target.level \in Levels
               PROVE  LET f == stack[i]
                          g == f.target IN
                      /\ NamedAt(f.e, g.level, g.text)
                      /\ \A l \in AppliesAt[f.argv[1].text] \ {g.level} :
                           NamedAt(f.e, l, g.text) =>
                             g.as = g.level \/ (g.level = "tool" /\ g.text \in Favorites[f.e])
    BY DEF OneTarget
  <2> DEFINE f == stack[i]
             g == f.target
             verb == f.argv[1].text
  <2>1. PICK as \in Levels \cup {None}, fg \in Levels \cup {None} :
           /\ verb \in DOMAIN AppliesAt /\ g.as = as
           /\ g.level = Target(f.e, verb, g.text, as, fg)
    BY DEF IInv, Structure, FrameOK
  <2> DEFINE l == Target(f.e, verb, g.text, as, fg)
  <2>2. verb \in Mutating /\ l \in Levels
    BY <2>1
  <2>3. Single(f.e, verb, g.text, as, l)
    BY <2>1, <2>2, TargetSingle
  <2>4. l = g.level /\ as = g.as
    BY <2>1
  <2> HIDE DEF l
  <2> QED
    BY <2>3, <2>4 DEF Single
<1> QED
  BY <1>1, InitIInv, NextIInv, PTL DEF Spec

-----------------------------------------------------------------------------
(* The flags before the first word *)

\* A set of numbers that are bounded has a greatest member.
LEMMA Greatest ==
    ASSUME NEW N \in Nat, NEW T, T \subseteq 0..N, T # {}
    PROVE  \E x \in T : \A y \in T : y <= x
<1> DEFINE U == {N - y : y \in T}
           R == OpToRel(<, Nat)
<1>1. IsWellFoundedOn(R, Nat)
  BY NatLessThanWellFounded
<1>2. U \subseteq Nat /\ U # {}
  <2>1. \A y \in T : N - y \in Nat
    OBVIOUS
  <2> QED
    BY <2>1
<1>3. PICK u \in U : \A y \in U : ~(<<y, u>> \in R)
  <2> HIDE DEF R, U
  <2> QED
    BY <1>1, <1>2, WFMin
<1>4. \A y \in U : ~(y < u)
  BY <1>2, <1>3 DEF OpToRel
<1>5. PICK x \in T : u = N - x
  OBVIOUS
<1>6. ASSUME NEW y \in T PROVE y <= x
  <2>1. N - y \in U /\ ~(N - y < N - x)
    BY <1>4, <1>5
  <2> QED
    BY <2>1
<1> QED
  BY <1>6

\* Where the prefix ends, as seen from the m-th argument on.
IsSkip(f, a, m) ==
    f = [i \in m..Len(a) + 2 |->
           IF i > Len(a) THEN Len(a)
           ELSE IF a[i].kind = "show" THEN f[IF i < Len(a) THEN i + 2 ELSE i + 1]
           ELSE IF a[i].kind \in Flags THEN f[i + 1] ELSE i - 1]

\* Where the walk over the flags goes from an argument.
LEMMA SkipExists ==
    ASSUME NEW a, Len(a) \in Nat
    PROVE  \E f : IsSkip(f, a, 1)
<1> DEFINE N == Len(a) + 2
           Bad == {m \in 1..N : ~\E f : IsSkip(f, a, m)}
<1> SUFFICES ASSUME Bad # {} PROVE FALSE
  <2>1. 1 \in 1..N
    OBVIOUS
  <2>2. 1 \notin Bad
    OBVIOUS
  <2> HIDE DEF N
  <2> QED
    BY <2>1, <2>2
<1>1. PICK m \in Bad : \A y \in Bad : y <= m
  <2>1. N \in Nat /\ Bad \subseteq 0..N
    OBVIOUS
  <2> HIDE DEF Bad, N
  <2> QED
    BY <2>1, Greatest
<1>2. m \in 1..N
  OBVIOUS
<1>3. PICK g : m < N => IsSkip(g, a, m + 1)
  <2>1. m < N => m + 1 \in 1..N /\ m + 1 \notin Bad
    BY <1>1, <1>2
  <2> QED
    BY <2>1
<1> DEFINE Next1 == IF m > Len(a) THEN Len(a)
                    ELSE IF a[m].kind = "show" THEN g[IF m < Len(a) THEN m + 2 ELSE m + 1]
                    ELSE IF a[m].kind \in Flags THEN g[m + 1] ELSE m - 1
           f == [i \in m..N |-> IF i = m THEN Next1 ELSE g[i]]
<1> HIDE DEF Next1
<1>4. \A i \in m + 1..N :
         g[i] = IF i > Len(a) THEN Len(a)
                ELSE IF a[i].kind = "show" THEN g[IF i < Len(a) THEN i + 2 ELSE i + 1]
                ELSE IF a[i].kind \in Flags THEN g[i + 1] ELSE i - 1
  <2>1. CASE m < N
    BY <1>3, <2>1 DEF IsSkip
  <2>2. CASE m = N
    BY <2>2
  <2> QED
    BY <1>2, <2>1, <2>2
<1>5. f[m] = Next1 /\ \A i \in m + 1..N : f[i] = g[i]
  BY <1>2
<1>6. ASSUME NEW i \in m..N
      PROVE  f[i] = IF i > Len(a) THEN Len(a)
                    ELSE IF a[i].kind = "show" THEN f[IF i < Len(a) THEN i + 2 ELSE i + 1]
                    ELSE IF a[i].kind \in Flags THEN f[i + 1] ELSE i - 1
  <2>1. i <= Len(a) => /\ i + 1 \in m + 1..N
                       /\ (IF i < Len(a) THEN i + 2 ELSE i + 1) \in m + 1..N
    BY <1>2
  <2>2. i <= Len(a) => /\ f[i + 1] = g[i + 1]
                       /\ f[IF i < Len(a) THEN i + 2 ELSE i + 1]
                             = g[IF i < Len(a) THEN i + 2 ELSE i + 1]
    BY <1>5, <2>1
  <2> HIDE DEF f
  <2>3. CASE i = m
    BY <1>2, <1>5, <2>2, <2>3 DEF Next1
  <2>4. CASE i # m
    <3>1. i \in m + 1..N
      BY <1>2, <2>4
    <3> QED
      BY <1>4, <1>5, <2>2, <3>1
  <2> QED
    BY <2>3, <2>4
<1>7. IsSkip(f, a, m)
  BY <1>6, Zenon DEF IsSkip
<1> QED
  BY <1>7

\* The prefix is a part of the line, and empty before a word.
LEMMA PrefixIs ==
    ASSUME NEW a, Len(a) \in Nat
    PROVE  /\ Prefix(a) \in 0..Len(a)
           /\ Len(a) > 0 /\ a[1].kind = "word" => Prefix(a) = 0
           /\ Prefix(a) < Len(a) => a[Prefix(a) + 1].kind \notin Flags
<1> DEFINE N == Len(a) + 2
<1>1. PICK f : IsSkip(f, a, 1) /\ Prefix(a) = f[1]
  BY SkipExists, Zenon DEF Prefix, IsSkip
<1>2. \A i \in 1..N :
         f[i] = IF i > Len(a) THEN Len(a)
                ELSE IF a[i].kind = "show" THEN f[IF i < Len(a) THEN i + 2 ELSE i + 1]
                ELSE IF a[i].kind \in Flags THEN f[i + 1] ELSE i - 1
  BY <1>1 DEF IsSkip
<1> DEFINE Good(i) == /\ f[i] \in 0..Len(a)
                      /\ f[i] < Len(a) => a[f[i] + 1].kind \notin Flags
           Bad == {i \in 1..N : ~Good(i)}
<1>3. Bad = {}
  <2> SUFFICES ASSUME Bad # {} PROVE FALSE
    OBVIOUS
  <2>1. PICK m \in Bad : \A y \in Bad : y <= m
    <3>1. N \in Nat /\ Bad \subseteq 0..N
      OBVIOUS
    <3> HIDE DEF Bad, N
    <3> QED
      BY <3>1, Greatest
  <2>2. m \in 1..N /\ ~Good(m)
    OBVIOUS
  <2>3. CASE m > Len(a)
    BY <1>2, <2>2, <2>3
  <2>4. CASE m <= Len(a)
    <3>1. /\ m + 1 \in 1..N /\ m + 1 \notin Bad
          /\ (IF m < Len(a) THEN m + 2 ELSE m + 1) \in 1..N
          /\ (IF m < Len(a) THEN m + 2 ELSE m + 1) \notin Bad
      BY <2>1, <2>2, <2>4
    <3>2. Good(m + 1) /\ Good(IF m < Len(a) THEN m + 2 ELSE m + 1)
      BY <3>1
    <3>3. "show" \in Flags
      BY DEF Flags, DashLed
    <3>4. CASE a[m].kind = "show"
      <4>1. f[m] = f[IF m < Len(a) THEN m + 2 ELSE m + 1]
        BY <1>2, <2>2, <2>4, <3>4
      <4> QED
        BY <2>2, <3>2, <4>1
    <3>5. CASE a[m].kind # "show" /\ a[m].kind \in Flags
      <4>1. f[m] = f[m + 1]
        BY <1>2, <2>2, <2>4, <3>5
      <4> QED
        BY <2>2, <3>2, <4>1
    <3>6. CASE a[m].kind \notin Flags
      <4>1. f[m] = m - 1
        BY <1>2, <2>2, <2>4, <3>3, <3>6
      <4> QED
        BY <2>2, <2>4, <3>6, <4>1
    <3> QED
      BY <3>4, <3>5, <3>6
  <2> QED
    BY <2>2, <2>3, <2>4
<1>4. Good(1)
  <2>1. 1 \in 1..N /\ 1 \notin Bad
    BY <1>3
  <2> QED
    BY <2>1
<1>5. Len(a) > 0 /\ a[1].kind = "word" => f[1] = 0
  <2>1. "word" \notin Flags
    BY DEF Flags, DashLed
  <2> QED
    BY <1>2, <2>1
<1> QED
  BY <1>1, <1>4, <1>5

-----------------------------------------------------------------------------
(* The steps of a path *)

\* A text is a sequence of marks and names.
IsText(t) == t \in Seq(Range(t))

\* As many pluses as there are, none of them behind the end.
LEMMA PlusesIs ==
    ASSUME NEW t, IsText(t), NEW i \in 1..Len(t) + 2
    PROVE  Pluses(t, i) \in Nat /\ Len(t) \in Nat /\ i + Pluses(t, i) <= Len(t) + 2
<1>1. Len(t) \in Nat /\ DOMAIN t = 1..Len(t)
  BY DEF IsText
<1>2. \A k \in Int : At(t, k) = "+" => k \in 1..Len(t)
  BY <1>1 DEF At
<1> DEFINE L == Len(t)
           T == {n \in 0..L + 3 : At(t, i + n) # "+"}
           IsRun(n) == /\ \A k \in i..i + n - 1 : At(t, k) = "+"
                       /\ At(t, i + n) # "+"
<1>3. PICK x \in T : \A y \in T : x <= y
  <2>1. At(t, i + (L + 3)) # "+"
    BY <1>1, <1>2
  <2>2. L + 3 \in 0..L + 3
    BY <1>1
  <2>3. L + 3 \in T
    BY <2>1, <2>2
  <2>4. T \subseteq 0..L + 3 /\ L + 3 \in Nat
    BY <1>1
  <2> DEFINE V == {(L + 3) - y : y \in T}
  <2>5. V \subseteq 0..L + 3 /\ V # {}
    <3>1. \A y \in T : (L + 3) - y \in 0..L + 3
      BY <1>1
    <3> QED
      BY <2>3, <3>1
  <2>6. PICK v \in V : \A w \in V : w <= v
    <3> HIDE DEF V, T, L
    <3> QED
      BY <2>4, <2>5, Greatest
  <2>7. PICK z \in T : v = (L + 3) - z
    OBVIOUS
  <2>8. ASSUME NEW y \in T PROVE z <= y
    <3>1. (L + 3) - y \in V
      OBVIOUS
    <3>2. (L + 3) - y <= (L + 3) - z
      BY <2>6, <2>7, <3>1
    <3>3. y \in Nat /\ z \in Nat /\ L \in Nat
      BY <1>1
    <3> HIDE DEF L, T, V
    <3> QED
      BY <3>2, <3>3
  <2> QED
    BY <2>8
<1>4. x \in Nat /\ At(t, i + x) # "+"
  BY <1>1
<1>5. ASSUME NEW k \in i..i + x - 1 PROVE At(t, k) = "+"
  <2>1. k - i \in 0..L + 3 /\ k - i < x /\ i + (k - i) = k
    BY <1>1, <1>5
  <2>2. k - i \notin T
    <3>1. \A y \in T : x <= y
      BY <1>3
    <3> HIDE DEF T
    <3>2. ~(x <= k - i)
      BY <1>4, <2>1
    <3> QED
      BY <3>1, <3>2
  <2> QED
    BY <2>1, <2>2
<1>6. x <= L
  <2>1. CASE x = 0
    BY <1>1, <2>1
  <2>2. CASE x # 0
    <3>1. i + x - 1 \in i..i + x - 1
      BY <1>1, <1>4, <2>2
    <3>2. i + x - 1 \in 1..Len(t)
      BY <1>2, <1>5, <3>1
    <3> QED
      BY <1>1, <1>4, <3>2
  <2> QED
    BY <2>1, <2>2
<1>7. x \in 0..L /\ IsRun(x)
  BY <1>1, <1>4, <1>5, <1>6
<1>8. Pluses(t, i) \in 0..L /\ IsRun(Pluses(t, i))
  <2>1. Pluses(t, i) = CHOOSE n \in 0..L : IsRun(n)
    BY Zenon DEF Pluses
  <2> HIDE DEF IsRun
  <2> QED
    BY <1>7, <2>1
<1> DEFINE n == Pluses(t, i)
<1> HIDE DEF n
<1>9. CASE n = 0
  BY <1>1, <1>8, <1>9 DEF n
<1>10. CASE n # 0
  <2>1. n \in Nat /\ IsRun(n)
    BY <1>1, <1>8 DEF n
  <2>2. i + n - 1 \in i..i + n - 1
    BY <1>1, <1>10, <2>1
  <2>3. i + n - 1 \in 1..Len(t)
    BY <1>2, <2>1, <2>2
  <2> QED
    BY <1>1, <2>1, <2>3 DEF n
<1> QED
  BY <1>9, <1>10

\* The step that begins at a mark, and where the next one does.
UpsAt(t, i) == IF OpAt(t, i) = ":+" THEN Pluses(t, i + Size(OpAt(t, i))) ELSE 0
NameAt(t, i) == LET k == i + Size(OpAt(t, i)) + UpsAt(t, i) IN
                IF At(t, k) \in Marks THEN "" ELSE At(t, k)
StepAt(t, i) == [op |-> OpAt(t, i), ups |-> UpsAt(t, i), name |-> NameAt(t, i)]
After(t, i) == i + Size(OpAt(t, i)) + UpsAt(t, i) + (IF NameAt(t, i) = "" THEN 0 ELSE 1)

\* It begins later, and not far behind the end.
LEMMA AfterIs ==
    ASSUME NEW t, IsText(t), NEW i \in 1..Len(t)
    PROVE  After(t, i) \in i + 1..Len(t) + 4 /\ Len(t) \in Nat /\ UpsAt(t, i) \in Nat
<1>1. Len(t) \in Nat /\ DOMAIN t = 1..Len(t)
  BY DEF IsText
<1>2. Size(OpAt(t, i)) \in {1, 2}
  BY DEF Size
<1>5. PICK d \in {0, 1} : After(t, i) = i + Size(OpAt(t, i)) + UpsAt(t, i) + d
  BY DEF After
<1>3. CASE OpAt(t, i) = ":+"
  <2>1. Size(OpAt(t, i)) = 2 /\ i + 2 \in 1..Len(t) + 2
    BY <1>1, <1>3 DEF Size
  <2>2. UpsAt(t, i) = Pluses(t, i + 2)
    BY <1>3, <2>1 DEF UpsAt
  <2>3. UpsAt(t, i) \in Nat /\ i + 2 + UpsAt(t, i) <= Len(t) + 2
    BY <2>1, <2>2, PlusesIs
  <2> QED
    BY <1>1, <1>5, <2>1, <2>3
<1>4. CASE OpAt(t, i) # ":+"
  <2>1. UpsAt(t, i) = 0
    BY <1>4 DEF UpsAt
  <2> QED
    BY <1>1, <1>2, <1>5, <2>1
<1> QED
  BY <1>3, <1>4

\* The steps of a text, as seen from each mark from the m-th on.
IsLex(f, t, m) ==
    f = [i \in m..Len(t) + 4 |->
           IF i > Len(t) THEN <<>> ELSE <<StepAt(t, i)>> \o f[After(t, i)]]

\* There are steps from the first mark on.
LEMMA LexExists ==
    ASSUME NEW t, IsText(t)
    PROVE  \E f : IsLex(f, t, 1)
<1> DEFINE N == Len(t) + 4
           Bad == {m \in 1..N : ~\E f : IsLex(f, t, m)}
<1>0. Len(t) \in Nat /\ N \in Nat
  BY DEF IsText
<1> SUFFICES ASSUME Bad # {} PROVE FALSE
  <2>1. 1 \in 1..N
    BY <1>0
  <2>2. 1 \notin Bad
    OBVIOUS
  <2> HIDE DEF N
  <2> QED
    BY <2>1, <2>2
<1>1. PICK m \in Bad : \A y \in Bad : y <= m
  <2>1. Bad \subseteq 0..N
    BY <1>0
  <2> HIDE DEF Bad, N
  <2> QED
    BY <1>0, <2>1, Greatest
<1>2. m \in 1..N
  OBVIOUS
<1>3. PICK g : m < N => IsLex(g, t, m + 1)
  <2>1. m < N => m + 1 \in 1..N /\ m + 1 \notin Bad
    BY <1>0, <1>1, <1>2
  <2> QED
    BY <2>1
<1> DEFINE first == IF m > Len(t) THEN <<>> ELSE <<StepAt(t, m)>> \o g[After(t, m)]
           f == [i \in m..N |-> IF i = m THEN first ELSE g[i]]
<1> HIDE DEF first
<1>4. \A i \in m + 1..N : g[i] = IF i > Len(t) THEN <<>> ELSE <<StepAt(t, i)>> \o g[After(t, i)]
  <2>1. CASE m < N
    BY <1>3, <2>1 DEF IsLex
  <2>2. CASE m = N
    BY <1>0, <2>2
  <2> QED
    BY <1>0, <1>2, <2>1, <2>2
<1>5. f[m] = first /\ \A i \in m + 1..N : f[i] = g[i]
  BY <1>0, <1>2
<1>6. ASSUME NEW i \in m..N
      PROVE  f[i] = IF i > Len(t) THEN <<>> ELSE <<StepAt(t, i)>> \o f[After(t, i)]
  <2>1. i <= Len(t) => After(t, i) \in m + 1..N
    BY <1>0, <1>2, AfterIs
  <2>2. i <= Len(t) => f[After(t, i)] = g[After(t, i)]
    BY <1>5, <2>1
  <2> HIDE DEF f
  <2>3. CASE i = m
    BY <1>0, <1>2, <1>5, <2>2, <2>3 DEF first
  <2>4. CASE i # m
    <3>1. i \in m + 1..N
      BY <1>0, <1>2, <2>4
    <3> QED
      BY <1>0, <1>4, <1>5, <2>2, <3>1
  <2> QED
    BY <2>3, <2>4
<1>7. IsLex(f, t, m)
  BY <1>6, Zenon DEF IsLex
<1> QED
  BY <1>7

\* What Steps computes.
LEMMA StepsAre ==
    ASSUME NEW t, IsText(t)
    PROVE  \E f : IsLex(f, t, 1) /\ Steps(t) = f[1]
BY LexExists, Zenon DEF Steps, IsLex, StepAt, After, NameAt, UpsAt

\* Steps of entities only: none of them has a dot, nor goes without a name.
Entities(s) == \A k \in 1..Len(s) : s[k].op = ":" /\ s[k].name # ""
StepsOf(t) == {StepAt(t, i) : i \in 1..Len(t)}
\* From the m-th mark on such steps take no dot of the text.
Undotted(s, t, m) == /\ s \in Seq(StepsOf(t))
                     /\ Entities(s) => \A k \in m..Len(t) : t[k] # "."

\* A further step in front.
LEMMA UndottedOn ==
    ASSUME NEW t, IsText(t), NEW m \in 1..Len(t), NEW s, Undotted(s, t, After(t, m))
    PROVE  Undotted(<<StepAt(t, m)>> \o s, t, m)
<1> DEFINE x == StepAt(t, m)
           r == <<x>> \o s
<1>1. Len(t) \in Nat /\ DOMAIN t = 1..Len(t)
  BY DEF IsText
<1>2. <<x>> \in Seq(StepsOf(t)) /\ Len(<<x>>) = 1 /\ <<x>>[1] = x
  BY DEF StepsOf
<1>3. s \in Seq(StepsOf(t)) /\ Len(s) \in Nat
  BY DEF Undotted
<1> HIDE DEF x
<1>4. /\ r \in Seq(StepsOf(t)) /\ Len(r) = Len(s) + 1
      /\ \A k \in 1..Len(s) + 1 : r[k] = IF k <= 1 THEN <<x>>[k] ELSE s[k - 1]
  <2>1. /\ <<x>> \o s \in Seq(StepsOf(t)) /\ Len(<<x>> \o s) = Len(<<x>>) + Len(s)
        /\ \A k \in 1..Len(<<x>>) + Len(s) :
              (<<x>> \o s)[k] = IF k <= Len(<<x>>) THEN <<x>>[k] ELSE s[k - Len(<<x>>)]
    BY <1>2, <1>3, ConcatProperties
  <2> QED
    BY <1>2, <1>3, <2>1
<1> HIDE DEF r
<1>5. r[1] = x /\ \A k \in 1..Len(s) : k + 1 \in 1..Len(r) /\ r[k + 1] = s[k]
  BY <1>2, <1>3, <1>4
<1>6. ASSUME Entities(r), NEW k \in m..Len(t) PROVE t[k] # "."
  <2>1. x.op = ":" /\ x.name # ""
    <3>1. 1 \in 1..Len(r)
      BY <1>3, <1>4
    <3> QED
      BY <1>5, <1>6, <3>1 DEF Entities
  <2>2. \A j \in After(t, m)..Len(t) : t[j] # "."
    <3>1. Entities(s)
      BY <1>5, <1>6 DEF Entities
    <3> QED
      BY <3>1 DEF Undotted
  <2>3. OpAt(t, m) = ":" /\ NameAt(t, m) # ""
    BY <2>1 DEF x, StepAt
  <2>4. t[m] = ":"
    BY <1>1, <2>3 DEF OpAt, At
  <2>5. UpsAt(t, m) = 0 /\ Size(OpAt(t, m)) = 1
    BY <2>3 DEF UpsAt, Size
  <2>6. At(t, m + 1) \notin Marks
    <3>1. m + Size(OpAt(t, m)) + UpsAt(t, m) = m + 1
      BY <2>5
    <3> QED
      BY <2>3, <3>1, Zenon DEF NameAt
  <2>7. After(t, m) = m + 2
    <3>1. After(t, m) = m + 1 + 0 + 1
      BY <2>3, <2>5, Zenon DEF After
    <3>2. m \in Nat
      BY <1>1
    <3> QED
      BY <3>1, <3>2
  <2>8. m \in Nat /\ k \in Nat /\ Len(t) \in Nat /\ m <= k /\ k <= Len(t) /\ m >= 1
    BY <1>1, <1>6
  <2>9. k = m \/ k = m + 1 \/ k \in m + 2..Len(t)
    BY <2>8
  <2>10. CASE k = m + 1
    <3>1. k \in DOMAIN t
      BY <1>1, <2>8
    <3> QED
      BY <2>6, <2>10, <3>1 DEF At, Marks
  <2> QED
    BY <2>2, <2>4, <2>7, <2>9, <2>10
<1> QED
  BY <1>4, <1>6 DEF Undotted, r, x

\* So it is for all the steps.
LEMMA LexTells ==
    ASSUME NEW t, IsText(t), NEW f, IsLex(f, t, 1)
    PROVE  Undotted(f[1], t, 1)
<1> DEFINE N == Len(t) + 4
           Bad == {i \in 1..N : ~Undotted(f[i], t, i)}
<1>1. Len(t) \in Nat /\ N \in Nat /\ 1 \in 1..N
  BY DEF IsText
<1>2. \A i \in 1..N : f[i] = IF i > Len(t) THEN <<>> ELSE <<StepAt(t, i)>> \o f[After(t, i)]
  BY DEF IsLex
<1>3. Bad = {}
  <2> SUFFICES ASSUME Bad # {} PROVE FALSE
    OBVIOUS
  <2>1. PICK m \in Bad : \A y \in Bad : y <= m
    <3>1. Bad \subseteq 0..N
      BY <1>1
    <3> HIDE DEF Bad, N
    <3> QED
      BY <1>1, <3>1, Greatest
  <2>2. m \in 1..N /\ ~Undotted(f[m], t, m)
    OBVIOUS
  <2>3. CASE m > Len(t)
    <3>1. f[m] = <<>>
      BY <1>2, <2>2, <2>3
    <3>2. \A k \in m..Len(t) : FALSE
      <4> HIDE DEF Bad
      <4> QED
        BY <1>1, <2>2, <2>3
    <3>3. Undotted(<<>>, t, m)
      BY <3>2 DEF Undotted
    <3> QED
      BY <2>2, <3>1, <3>3
  <2>4. CASE m <= Len(t)
    <3>1. m \in 1..Len(t) /\ m \in Nat
      BY <1>1, <2>2, <2>4
    <3>2. After(t, m) \in m + 1..N
      BY <3>1, AfterIs
    <3>3. After(t, m) \in 1..N /\ ~(After(t, m) <= m)
      BY <1>1, <3>1, <3>2
    <3>4. Undotted(f[After(t, m)], t, After(t, m))
      BY <2>1, <3>3
    <3>5. f[m] = <<StepAt(t, m)>> \o f[After(t, m)]
      <4>1. ~(m > Len(t)) /\ m \in 1..N
        BY <1>1, <3>1
      <4> HIDE DEF N
      <4> QED
        BY <1>2, <4>1, Zenon
    <3> QED
      BY <2>2, <3>1, <3>4, <3>5, UndottedOn
  <2> QED
    BY <1>1, <2>2, <2>3, <2>4
<1>4. ~(1 \in Bad)
  BY <1>3
<1> QED
  BY <1>1, <1>4

-----------------------------------------------------------------------------
(* What the intercept makes of a line *)

\* Tail takes off what was put in front.
LEMMA TailOfLonger ==
    ASSUME NEW S, NEW t \in Seq(S), NEW x \in S
    PROVE  Tail(<<x>> \o t) = t
<1> DEFINE r == <<x>> \o t
<1>1. <<x>> \in Seq(S) /\ Len(<<x>>) = 1 /\ Len(t) \in Nat
  OBVIOUS
<1>2. /\ r \in Seq(S) /\ Len(r) = Len(<<x>>) + Len(t)
      /\ \A k \in 1..Len(<<x>>) + Len(t) :
            r[k] = IF k <= Len(<<x>>) THEN <<x>>[k] ELSE t[k - Len(<<x>>)]
  BY <1>1, ConcatProperties
<1> HIDE DEF r
<1>3. Len(r) = Len(t) + 1 /\ r # <<>>
  BY <1>1, <1>2
<1>4. /\ Tail(r) \in Seq(S) /\ Len(Tail(r)) = Len(r) - 1
      /\ \A k \in 1..Len(Tail(r)) : Tail(r)[k] = r[k + 1]
  BY <1>2, <1>3, HeadTailProperties
<1>5. Len(Tail(r)) = Len(t)
  BY <1>1, <1>3, <1>4
<1>6. ASSUME NEW k \in 1..Len(t) PROVE Tail(r)[k] = t[k]
  <2>1. k + 1 \in 1..1 + Len(t) /\ ~(k + 1 <= 1) /\ (k + 1) - 1 = k
    BY <1>1
  <2> QED
    BY <1>1, <1>2, <1>4, <1>5, <2>1
<1>7. Tail(r) = t
  BY <1>4, <1>5, <1>6, SeqEqual
<1> QED
  BY <1>7 DEF r

\* Only a path of entities loses its colon: there is no dot in it.
LEMMA PathStripped ==
    ASSUME NEW t, IsText(t), IsOperatorLed(t), NEW rest,
           PathForm(t, rest).what \in {"none", "strip"}
    PROVE  PathForm(t, rest).what = "strip" /\ t # <<>> /\ "." \notin Range(t)
<1> DEFINE cli == ParseCli(t)
<1>1. /\ \A node : Says("error", node).what = "error" /\ Says("list", node).what = "list"
                   /\ Says("get", node).what = "get" /\ Says("usage", node).what = "usage"
                   /\ Says("set", node).what = "set" /\ Says("strip", node).what = "strip"
      /\ Wrong.what = "error"
  BY DEF Says, Wrong
<1>2. Value(t, rest).what \in {"get", "usage", "error", "set"}
  BY <1>1, Zenon DEF Value
<1>3. /\ cli # Malformed /\ ~IsListing(t) /\ cli.steps # <<>> /\ Planes(cli) = {"entity"}
      /\ PathForm(t, rest).what = "strip"
  BY <1>1, <1>2 DEF PathForm
<1>4. t # <<>> /\ cli = Parse(Rooted(t))
  BY <1>3, Zenon DEF ParseCli
<1> DEFINE steps == Steps(Tail(Rooted(t)))
<1>5. /\ \A k \in DOMAIN steps : Legal(steps, k)
      /\ cli = [root |-> Head(Rooted(t)), steps |-> steps]
  BY <1>3, <1>4, Zenon DEF Parse
<1>6. cli.steps = steps
  BY <1>5
<1>7. Tail(Rooted(t)) = t
  <2>1. t \in Seq(Range(t) \cup {Root})
    <3>1. Range(t) \subseteq Range(t) \cup {Root} /\ t \in Seq(Range(t))
      BY DEF IsText
    <3> HIDE DEF Range
    <3> QED
      BY <3>1, SeqMonotonic
  <2>2. Tail(<<Root>> \o t) = t
    BY <2>1, TailOfLonger
  <2> QED
    BY <2>2 DEF Rooted
<1>8. PICK f : IsLex(f, t, 1) /\ Steps(t) = f[1]
  BY StepsAre
<1>9. Undotted(steps, t, 1)
  BY <1>7, <1>8, LexTells
<1>10. DOMAIN steps = 1..Len(steps)
  BY <1>9 DEF Undotted
<1> HIDE DEF steps, cli
<1>11. ASSUME NEW k \in 1..Len(steps) PROVE steps[k].op = ":" /\ steps[k].name # ""
  <2>1. Legal(steps, k)
    BY <1>5, <1>10
  <2>2. Plane(steps, k) = "entity"
    BY <1>3, <1>6, <1>10 DEF Planes
  <2>3. steps[k].op \in {":", ".", ":.", ":+"}
    BY <2>1 DEF Legal
  <2>4. steps[k].op = ":"
    BY <2>2, <2>3 DEF Plane
  <2>5. "" \notin Subkeys \cup Ranks
    BY PathsAssumption
  <2>6. steps[k].name \in Subkeys \cup Ranks
    BY <2>1, <2>4 DEF Legal, Numbers, Names, Subkeys
  <2> QED
    BY <2>4, <2>5, <2>6
<1>12. \A k \in 1..Len(t) : t[k] # "."
  BY <1>9, <1>11 DEF Undotted, Entities
<1>13. DOMAIN t = 1..Len(t)
  BY DEF IsText
<1> QED
  BY <1>3, <1>4, <1>12, <1>13 DEF Range

-----------------------------------------------------------------------------
(* What stands where in a line *)

\* A sequence is one of its own elements.
LEMMA OwnRange ==
    ASSUME NEW S, NEW s \in Seq(S)
    PROVE  s \in Seq(Range(s)) /\ Len(s) \in Nat /\ DOMAIN s = 1..Len(s)
<1> DEFINE V == Range(s)
<1>1. Len(s) \in Nat /\ DOMAIN s = 1..Len(s) /\ s = [i \in 1..Len(s) |-> s[i]]
  OBVIOUS
<1>2. \A i \in 1..Len(s) : s[i] \in V
  BY <1>1 DEF Range
<1> HIDE DEF V
<1>3. s \in Seq(V)
  BY <1>1, <1>2
<1> QED
  BY <1>1, <1>3 DEF V

\* The arguments from one on.
LEMMA PartOfLine ==
    ASSUME NEW a, IsLine(a), NEW m \in 1..Len(a) + 1, NEW n \in 0..Len(a)
    PROVE  LET b == SubSeq(a, m, n) IN
           /\ IsLine(b) /\ Len(b) = IF m <= n THEN n - m + 1 ELSE 0
           /\ \A i \in 1..n - m + 1 : b[i] = a[m + i - 1]
<1> DEFINE b == SubSeq(a, m, n)
<1>1. a \in Seq(Range(a)) /\ Len(a) \in Nat /\ DOMAIN a = 1..Len(a)
      /\ \A i \in 1..Len(a) : a[i] \in Range(a) /\ IsArgument(a[i])
  BY DEF IsLine, Range
<1>2. \A i \in m..n : a[i] \in Range(a)
  BY <1>1
<1>3. /\ b \in Seq(Range(a)) /\ Len(b) = IF m <= n THEN n - m + 1 ELSE 0
      /\ \A i \in 1..n - m + 1 : b[i] = a[m + i - 1]
  BY <1>1, <1>2, SubSeqProperties
<1> HIDE DEF b
<1>4. b \in Seq(Range(b)) /\ DOMAIN b = 1..Len(b)
  BY <1>3, OwnRange
<1>5. ASSUME NEW i \in DOMAIN b PROVE IsArgument(b[i])
  <2>1. i \in 1..n - m + 1 /\ m + i - 1 \in 1..Len(a)
    BY <1>1, <1>3, <1>4
  <2> QED
    BY <1>1, <1>3, <2>1
<1>6. IsLine(b)
  BY <1>4, <1>5 DEF IsLine
<1> QED
  BY <1>3, <1>6 DEF b

\* The tail of a line.
LEMMA TailOfLine ==
    ASSUME NEW a, IsLine(a), a # <<>>
    PROVE  /\ IsLine(Tail(a)) /\ Len(a) \in Nat \ {0} /\ DOMAIN a = 1..Len(a)
           /\ Len(Tail(a)) = Len(a) - 1
           /\ \A i \in 1..Len(a) - 1 : Tail(a)[i] = a[i + 1]
<1>1. a \in Seq(Range(a)) /\ Len(a) \in Nat \ {0} /\ DOMAIN a = 1..Len(a)
      /\ \A i \in 1..Len(a) : IsArgument(a[i])
  BY EmptySeq DEF IsLine
<1>2. /\ Tail(a) \in Seq(Range(a)) /\ Len(Tail(a)) = Len(a) - 1
      /\ \A i \in 1..Len(Tail(a)) : Tail(a)[i] = a[i + 1]
  BY <1>1, HeadTailProperties
<1> DEFINE b == Tail(a)
<1> HIDE DEF b
<1>3. b \in Seq(Range(b)) /\ DOMAIN b = 1..Len(b)
  BY <1>2, OwnRange DEF b
<1>4. ASSUME NEW i \in DOMAIN b PROVE IsArgument(b[i])
  <2>1. i \in 1..Len(Tail(a)) /\ i + 1 \in 1..Len(a)
    BY <1>1, <1>2, <1>3 DEF b
  <2> QED
    BY <1>1, <1>2, <2>1 DEF b
<1>5. IsLine(b)
  BY <1>3, <1>4 DEF IsLine
<1> QED
  BY <1>1, <1>2, <1>5 DEF b

\* The arguments from the first word on begin with it.
LEMMA WordsOf ==
    ASSUME NEW a, IsLine(a)
    PROVE  LET p == Prefix(a)
               words == SubSeq(a, p + 1, Len(a)) IN
           /\ p \in 0..Len(a) /\ Len(a) \in Nat
           /\ words # <<>> => p < Len(a) /\ words[1] = a[p + 1]
           /\ a # <<>> /\ a[1].kind = "word" => p = 0 /\ words # <<>>
<1> DEFINE p == Prefix(a)
           words == SubSeq(a, p + 1, Len(a))
<1>1. a \in Seq(Range(a)) /\ Len(a) \in Nat /\ (a # <<>> => Len(a) > 0)
  BY EmptySeq DEF IsLine
<1>2. p \in 0..Len(a) /\ (a # <<>> /\ a[1].kind = "word" => p = 0)
  BY <1>1, PrefixIs
<1> HIDE DEF p
<1>3. p + 1 \in 1..Len(a) + 1 /\ Len(a) \in 0..Len(a)
  BY <1>1, <1>2
<1>4. /\ Len(words) = IF p + 1 <= Len(a) THEN Len(a) - (p + 1) + 1 ELSE 0
      /\ \A i \in 1..Len(a) - (p + 1) + 1 : words[i] = a[p + 1 + i - 1]
      /\ IsLine(words)
  BY <1>3, PartOfLine
<1> HIDE DEF words
<1>5. words # <<>> => Len(words) # 0
  BY <1>4, EmptySeq DEF IsLine
<1>6. words # <<>> => p < Len(a)
  BY <1>1, <1>2, <1>4, <1>5
<1>7. p < Len(a) => words[1] = a[p + 1] /\ Len(words) # 0
  <2> SUFFICES ASSUME p < Len(a) PROVE words[1] = a[p + 1] /\ Len(words) # 0
    OBVIOUS
  <2>1. 1 \in 1..Len(a) - (p + 1) + 1 /\ p + 1 + 1 - 1 = p + 1 /\ p + 1 <= Len(a)
    BY <1>1, <1>2
  <2>2. words[1] = a[p + 1]
    BY <1>4, <2>1
  <2> QED
    BY <1>1, <1>2, <1>4, <2>1, <2>2
<1>8. Len(<<>>) = 0
  OBVIOUS
<1>9. a # <<>> /\ a[1].kind = "word" => p < Len(a)
  BY <1>1, <1>2
<1> QED
  BY <1>1, <1>2, <1>6, <1>7, <1>8, <1>9 DEF p, words

\* What Intercept says of a line: nothing, or what is wrong with it or what it assigns, or
\* what the path says that it begins with.
LEMMA InterceptSays ==
    ASSUME NEW a
    PROVE  LET words == SubSeq(a, Prefix(a) + 1, Len(a))
               path == PathForm(words[1].text, Tail(words)) IN
           \/ /\ Intercept(a).what = "none"
              /\ words = <<>> \/ words[1].kind = "--" \/ words[1].kind # "word"
                   \/ ~IsOperatorLed(words[1].text)
           \/ Intercept(a).what \in {"error", "assign"}
           \/ /\ words # <<>> /\ words[1].kind = "word" /\ IsOperatorLed(words[1].text)
              /\ Intercept(a) = path
<1> DEFINE words == SubSeq(a, Prefix(a) + 1, Len(a))
           path == PathForm(words[1].text, Tail(words))
           as == Assignment(words)
<1>1. Passes.what = "none" /\ Wrong.what = "error" /\ \A x : Says("assign", x).what = "assign"
  BY DEF Passes, Wrong, Says
<1>2. Intercept(a) =
        IF words = <<>> THEN Passes
        ELSE IF words[1].kind = "--" THEN Passes
        ELSE IF as.n > 0 /\ IsAssigned(as.text)
             THEN IF Len(words) > as.n THEN Wrong
                  ELSE Says("assign", IF IsOperatorLed(as.text) THEN as.text
                                      ELSE <<".">> \o as.text)
        ELSE IF words[1].kind # "word" \/ ~IsOperatorLed(words[1].text) THEN Passes
        ELSE path
  BY DEF Intercept
<1> HIDE DEF words, path, as
<1> QED
  BY <1>1, <1>2, Zenon DEF words, path

\* A word that is stripped is led by a colon.
LEMMA Strips ==
    ASSUME NEW a, IsLine(a), Intercept(a).what = "strip"
    PROVE  LET p == Prefix(a) IN
           /\ p \in 0..Len(a) /\ p + 1 \in 1..Len(a)
           /\ a[p + 1].kind = "word" /\ a[p + 1].text # <<>>
<1> DEFINE p == Prefix(a)
           words == SubSeq(a, p + 1, Len(a))
<1>1. p \in 0..Len(a) /\ Len(a) \in Nat
      /\ (words # <<>> => p < Len(a) /\ words[1] = a[p + 1])
  BY WordsOf
<1>2. /\ words # <<>> /\ words[1].kind = "word" /\ IsOperatorLed(words[1].text)
      /\ Intercept(a) = PathForm(words[1].text, Tail(words))
  BY InterceptSays
<1> HIDE DEF p, words
<1>3. p + 1 \in 1..Len(a) /\ words[1] = a[p + 1]
  BY <1>1, <1>2
<1>4. IsText(words[1].text)
  <2>1. IsArgument(a[p + 1])
    BY <1>3 DEF IsLine
  <2> QED
    BY <1>3, <2>1 DEF IsArgument, IsText
<1>5. words[1].text # <<>>
  BY <1>2, <1>4, PathStripped
<1> QED
  BY <1>1, <1>2, <1>3, <1>5 DEF p

\* A first word that is led by an operator and goes through has no dot.
LEMMA WordPasses ==
    ASSUME NEW a, IsLine(a), a # <<>>, a[1].kind = "word", IsOperatorLed(a[1].text),
           Intercept(a).what \in {"none", "strip"}
    PROVE  "." \notin Range(a[1].text)
<1> DEFINE p == Prefix(a)
           words == SubSeq(a, p + 1, Len(a))
<1>1. p = 0 /\ words # <<>> /\ words[1] = a[p + 1] /\ Len(a) \in Nat /\ p < Len(a)
  BY WordsOf
<1> HIDE DEF p, words
<1>2. words[1] = a[1] /\ 1 \in DOMAIN a
  BY <1>1 DEF IsLine
<1>3. Intercept(a) = PathForm(words[1].text, Tail(words))
  <2>1. /\ words # <<>> /\ words[1].kind = "word" /\ IsOperatorLed(words[1].text)
        /\ words[1].kind # "--"
    BY <1>1, <1>2
  <2>2. \/ /\ Intercept(a).what = "none"
           /\ words = <<>> \/ words[1].kind = "--" \/ words[1].kind # "word"
                \/ ~IsOperatorLed(words[1].text)
        \/ Intercept(a).what \in {"error", "assign"}
        \/ Intercept(a) = PathForm(words[1].text, Tail(words))
    BY InterceptSays DEF words, p
  <2> QED
    BY <2>1, <2>2
<1>4. IsText(a[1].text)
  BY <1>3 DEF IsLine, IsArgument, IsText
<1> QED
  BY <1>2, <1>3, <1>4, PathStripped

\* The argument with another text.
LEMMA Retold ==
    ASSUME NEW c, NEW k, NEW t, NEW v, c = [kind |-> k, text |-> t, value |-> v]
    PROVE  [c EXCEPT !.text = Tail(@)] = [kind |-> k, text |-> Tail(t), value |-> v]
<1> DEFINE d == [c EXCEPT !.text = Tail(@)]
           u == Tail(t)
           x == [kind |-> k, text |-> u, value |-> v]
<1>1. c.text = t /\ c.kind = k /\ c.value = v /\ DOMAIN c = {"kind", "text", "value"}
  OBVIOUS
<1> HIDE DEF u
<1>2. /\ x.kind = k /\ x.text = u /\ x.value = v /\ DOMAIN x = {"kind", "text", "value"}
      /\ x = [i \in {"kind", "text", "value"} |-> x[i]]
  OBVIOUS
<1>3. d = [c EXCEPT !.text = u]
  BY <1>1 DEF u
<1>4. /\ d.kind = k /\ d.text = u /\ d.value = v /\ DOMAIN d = {"kind", "text", "value"}
      /\ d = [i \in {"kind", "text", "value"} |-> d[i]]
  BY <1>1, <1>3
<1> HIDE DEF d, x
<1>5. d = x
  BY <1>2, <1>4
<1> QED
  BY <1>5 DEF d, x, u

\* Stripping a colon changes the text of one word, and of no other argument.
LEMMA StrippedLine ==
    ASSUME NEW a, IsLine(a), a # <<>>
    PROVE  LET b == Stripped(a) IN
           /\ IsLine(b) /\ b # <<>>
           /\ b[1].kind = a[1].kind
           /\ a[1].kind = "word" =>
                /\ Tail(b) = Tail(a)
                /\ b[1].text \in {a[1].text, Tail(a[1].text)}
<1> DEFINE b == Stripped(a)
           k == Prefix(a) + 1
           w == [a[k] EXCEPT !.text = Tail(@)]
<1>1. CASE Intercept(a).what # "strip"
  <2>1. b = a
    BY <1>1 DEF Stripped
  <2> HIDE DEF b
  <2> QED
    BY <2>1 DEF b
<1>2. CASE Intercept(a).what = "strip"
  <2>1. k \in 1..Len(a) /\ a[k].kind = "word" /\ a[k].text # <<>>
    BY <1>2, Strips
  <2>2. b = [a EXCEPT ![k] = w]
    BY <1>2 DEF Stripped
  <2>3. a \in Seq(Range(a)) /\ Len(a) \in Nat /\ DOMAIN a = 1..Len(a)
        /\ \A i \in 1..Len(a) : IsArgument(a[i])
    BY DEF IsLine
  <2>4. a[1].kind = "word" => k = 1
    BY WordsOf
  <2> HIDE DEF k
  <2>5. IsArgument(w) /\ w.kind = a[k].kind /\ w.text = Tail(a[k].text)
    <3> DEFINE t == a[k].text
    <3>1. a[k] = [kind |-> a[k].kind, text |-> t, value |-> a[k].value] /\ t \in Seq(Range(t))
      BY <2>1, <2>3 DEF IsArgument
    <3> HIDE DEF t
    <3>2. w = [kind |-> a[k].kind, text |-> Tail(t), value |-> a[k].value]
      BY <3>1, Retold, Zenon
    <3>3. Tail(t) \in Seq(Range(t))
      BY <2>1, <3>1, HeadTailProperties DEF t
    <3>4. Tail(t) \in Seq(Range(Tail(t)))
      BY <3>3, OwnRange
    <3>5. a[k].kind \notin DashLed
      BY <2>1 DEF DashLed
    <3> HIDE DEF w
    <3>6. w.kind = a[k].kind /\ w.text = Tail(t) /\ w.value = a[k].value
      BY <3>2
    <3> QED
      BY <3>2, <3>4, <3>5, <3>6 DEF IsArgument, t
  <2> HIDE DEF w
  <2>6. /\ DOMAIN b = 1..Len(a)
        /\ \A i \in 1..Len(a) : b[i] = IF i = k THEN w ELSE a[i]
    BY <2>1, <2>2, <2>3
  <2>7. b \in Seq(Range(a) \cup {w}) /\ Len(b) = Len(a)
    <3> DEFINE T == Range(a) \cup {w}
    <3>1. \A i \in 1..Len(a) : b[i] \in T
      BY <2>3, <2>6 DEF Range
    <3> HIDE DEF T
    <3>2. b = [i \in 1..Len(a) |-> b[i]]
      BY <2>2, <2>3, <2>6
    <3>3. b \in Seq(T)
      BY <2>3, <3>1, <3>2
    <3>4. Len(b) = Len(a)
      BY <2>3, <2>6, <3>3
    <3> QED
      BY <3>3, <3>4 DEF T
  <2> HIDE DEF b
  <2>8. IsLine(b)
    <3>1. b \in Seq(Range(b))
      BY <2>7, OwnRange
    <3>2. \A i \in DOMAIN b : IsArgument(b[i])
      BY <2>3, <2>5, <2>6
    <3> QED
      BY <3>1, <3>2 DEF IsLine
  <2>9. b # <<>>
    <3>1. Len(b) # 0
      BY <2>1, <2>3, <2>7
    <3> QED
      BY <3>1
  <2>10. 1 \in 1..Len(a)
    BY <2>1, <2>3
  <2>11. b[1].kind = a[1].kind
    BY <2>5, <2>6, <2>10
  <2>12. ASSUME a[1].kind = "word"
         PROVE  Tail(b) = Tail(a) /\ b[1].text \in {a[1].text, Tail(a[1].text)}
    <3>1. k = 1 /\ b[1] = w
      BY <2>4, <2>6, <2>10, <2>12
    <3>2. /\ IsLine(Tail(b)) /\ Len(Tail(b)) = Len(b) - 1
          /\ \A i \in 1..Len(b) - 1 : Tail(b)[i] = b[i + 1]
      BY <2>8, <2>9, TailOfLine
    <3>3. /\ IsLine(Tail(a)) /\ Len(Tail(a)) = Len(a) - 1
          /\ \A i \in 1..Len(a) - 1 : Tail(a)[i] = a[i + 1]
      BY TailOfLine
    <3>4. \A i \in 1..Len(a) - 1 : i + 1 \in 1..Len(a) /\ i + 1 # 1
      BY <2>3
    <3>5. \A i \in 1..Len(a) - 1 : Tail(b)[i] = Tail(a)[i]
      BY <2>6, <2>7, <3>1, <3>2, <3>3, <3>4
    <3>6. Tail(a) = Tail(b)
      <4> DEFINE s == Tail(a)
                 r == Tail(b)
                 S == Range(s) \cup Range(r)
      <4>1. s \in Seq(Range(s)) /\ r \in Seq(Range(r))
        BY <3>2, <3>3 DEF IsLine
      <4>2. s \in Seq(S) /\ r \in Seq(S)
        <5>1. \A U, V : U \subseteq V => Seq(U) \subseteq Seq(V)
          OBVIOUS
        <5>2. Range(s) \subseteq S /\ Range(r) \subseteq S
          OBVIOUS
        <5> HIDE DEF S, s, r
        <5> QED
          BY <4>1, <5>1, <5>2
      <4>3. Len(s) = Len(r) /\ \A i \in 1..Len(s) : s[i] = r[i]
        BY <2>7, <3>2, <3>3, <3>5
      <4> HIDE DEF S, s, r
      <4>4. s = r
        BY <4>2, <4>3, SeqEqual
      <4> QED
        BY <4>4 DEF s, r
    <3> QED
      BY <2>5, <3>1, <3>6
  <2> QED
    BY <2>8, <2>9, <2>11, <2>12 DEF b
<1> QED
  BY <1>1, <1>2

\* A set of numbers has a least member.
LEMMA Least ==
    ASSUME NEW N \in Nat, NEW T, T \subseteq 0..N, T # {}
    PROVE  \E x \in T : \A y \in T : x <= y
<1> DEFINE U == {N - y : y \in T}
<1>1. U \subseteq 0..N /\ U # {}
  <2>1. \A y \in T : N - y \in 0..N
    OBVIOUS
  <2> QED
    BY <2>1
<1>2. PICK u \in U : \A y \in U : y <= u
  <2> HIDE DEF U
  <2> QED
    BY <1>1, Greatest
<1>3. PICK x \in T : u = N - x
  OBVIOUS
<1>4. ASSUME NEW y \in T PROVE x <= y
  <2>1. N - y \in U /\ N - y <= N - x
    BY <1>2, <1>3
  <2> QED
    BY <2>1
<1> QED
  BY <1>4

\* A setup line is split at its first "--": what stands before it goes to the verb, what
\* stands behind it to the target, and nothing is lost.
LEMMA SplitIs ==
    ASSUME NEW a, IsLine(a), a # <<>>, a[1].text = <<"setup">>
    PROVE  LET n == Split(a)
               args == SubSeq(a, 2, n)
               level == SubSeq(a, n + 2, Len(a)) IN
           /\ Dashes(args) = {}
           /\ Len(Tail(a)) - Len(args) = Len(level) + (IF Dashes(a) = {} THEN 0 ELSE 1)
<1> DEFINE n == Split(a)
           args == SubSeq(a, 2, n)
           level == SubSeq(a, n + 2, Len(a))
<1>1. Len(a) \in Nat \ {0} /\ DOMAIN a = 1..Len(a) /\ Len(Tail(a)) = Len(a) - 1
  BY TailOfLine
<1>2. Dashes(a) \subseteq 1..Len(a) /\ 1 \notin Dashes(a)
  <2>1. IsArgument(a[1])
    BY <1>1 DEF IsLine
  <2>2. <<"setup">> # <<>>
    OBVIOUS
  <2>3. a[1].kind # "--"
    BY <2>1, <2>2 DEF IsArgument, DashLed
  <2> QED
    BY <1>1, <2>3 DEF Dashes
<1>3. /\ n \in 1..Len(a) /\ \A i \in 2..n : i \notin Dashes(a)
      /\ Dashes(a) = {} => n = Len(a)
      /\ Dashes(a) # {} => n < Len(a)
  <2>1. CASE Dashes(a) = {}
    BY <1>1, <2>1 DEF Split
  <2>2. CASE Dashes(a) # {}
    <3> DEFINE D == Dashes(a)
               x == CHOOSE i \in D : \A j \in D : i <= j
    <3>1. n = x - 1
      BY <2>2 DEF Split
    <3>2. D \subseteq 0..Len(a)
      BY <1>1, <1>2
    <3> HIDE DEF D
    <3>3. \E i \in D : \A j \in D : i <= j
      BY <1>1, <2>2, <3>2, Least DEF D
    <3>4. x \in D /\ \A j \in D : x <= j
      BY <3>3
    <3> HIDE DEF x
    <3>5. x \in 1..Len(a) /\ x # 1
      BY <1>2, <3>4 DEF D
    <3> HIDE DEF n
    <3>6. n \in 1..Len(a) /\ n < Len(a)
      BY <1>1, <3>1, <3>5
    <3>7. ASSUME NEW i \in 2..n PROVE i \notin D
      BY <1>1, <3>1, <3>4, <3>5, <3>7
    <3> QED
      BY <2>2, <3>6, <3>7 DEF D
  <2> QED
    BY <2>1, <2>2
<1> HIDE DEF n
<1>9. n \in 1..Len(a)
  BY <1>3, Zenon
<1>10. n \in Int /\ n >= 1 /\ n <= Len(a) /\ \A i \in 2..n : i \in 1..Len(a)
  BY <1>1, <1>9
<1>4. \A i \in 1..Len(a) : a[i] \in Range(a)
  BY <1>1 DEF Range
<1>5. /\ args \in Seq(Range(a)) /\ Len(args) = IF 2 <= n THEN n - 2 + 1 ELSE 0
      /\ \A i \in 1..n - 2 + 1 : args[i] = a[2 + i - 1]
  <2>1. n \in Int /\ \A i \in 2..n : a[i] \in Range(a)
    BY <1>4, <1>10
  <2>2. args = SubSeq(a, 2, n)
    OBVIOUS
  <2> HIDE DEF args
  <2> QED
    BY <2>1, <2>2, SubSeqProperties
<1>6. Len(level) = IF n + 2 <= Len(a) THEN Len(a) - (n + 2) + 1 ELSE 0
  <2> DEFINE m == n + 2
  <2>1. /\ m \in Int /\ Len(a) \in Int
        /\ \A i \in m..Len(a) : i \in 1..Len(a) /\ a[i] \in Range(a)
    <3>1. \A i \in m..Len(a) : i \in 1..Len(a)
      BY <1>1, <1>10
    <3>2. m \in Int /\ Len(a) \in Int
      BY <1>1, <1>10
    <3> QED
      BY <1>4, <3>1, <3>2
  <2>2. level = SubSeq(a, m, Len(a))
    OBVIOUS
  <2> HIDE DEF m, level
  <2>3. Len(level) = IF m <= Len(a) THEN Len(a) - m + 1 ELSE 0
    BY <2>1, <2>2, SubSeqProperties
  <2> QED
    BY <2>3 DEF m
<1> HIDE DEF args, level
<1>7. ASSUME NEW i \in Dashes(args) PROVE FALSE
  <2>1. i \in DOMAIN args /\ args[i].kind = "--" /\ DOMAIN args = 1..Len(args)
    BY <1>5 DEF Dashes
  <2> DEFINE q == Len(args)
  <2>5. n \in Int /\ n >= 1 /\ n <= Len(a) /\ q = IF 2 <= n THEN n - 2 + 1 ELSE 0
    <3>1. n \in Int /\ n >= 1 /\ n <= Len(a)
      BY <1>10
    <3>2. q = IF 2 <= n THEN n - 2 + 1 ELSE 0
      BY <1>5
    <3> QED
      BY <3>1, <3>2
  <2>6. i \in 1..q
    BY <2>1
  <2> HIDE DEF q
  <2>2. i \in 1..n - 2 + 1 /\ 2 + i - 1 = i + 1 /\ i + 1 \in 2..n
    BY <2>5, <2>6
  <2>3. args[i] = a[i + 1] /\ i + 1 \in 1..Len(a)
    <3>1. args[i] = a[2 + i - 1]
      BY <1>5, <2>2
    <3> QED
      BY <1>1, <2>2, <2>5, <3>1
  <2>4. i + 1 \in Dashes(a)
    BY <1>1, <2>1, <2>3 DEF Dashes
  <2> QED
    BY <1>3, <2>2, <2>4
<1>8. Len(Tail(a)) - Len(args) = Len(level) + (IF Dashes(a) = {} THEN 0 ELSE 1)
  <2> DEFINE L == Len(a)
             q == Len(args)
             r == Len(level)
             T == Len(Tail(a))
  <2>1. /\ L \in Nat \ {0} /\ T = L - 1 /\ n \in 1..L
        /\ q = IF 2 <= n THEN n - 2 + 1 ELSE 0
        /\ r = IF n + 2 <= L THEN L - (n + 2) + 1 ELSE 0
        /\ Dashes(a) = {} => n = L
        /\ Dashes(a) # {} => n < L
    BY <1>1, <1>3, <1>5, <1>6
  <2> HIDE DEF L, q, r, T
  <2>2. T - q = r + (IF Dashes(a) = {} THEN 0 ELSE 1)
    BY <2>1
  <2> QED
    BY <2>2 DEF L, q, r, T
<1> QED
  BY <1>7, <1>8 DEF n, args, level

-----------------------------------------------------------------------------
(* How a line is routed *)

\* The head of a line that argparse sees is a part of the line.
LEMMA SplitRange ==
    ASSUME NEW a, IsLine(a), a # <<>>
    PROVE  Split(a) \in 0..Len(a) /\ Len(a) \in Nat \ {0}
<1>1. Len(a) \in Nat \ {0} /\ DOMAIN a = 1..Len(a)
  BY TailOfLine
<1> DEFINE D == Dashes(a)
           x == CHOOSE i \in D : \A j \in D : i <= j
<1>2. D \subseteq 1..Len(a) /\ D \subseteq 0..Len(a)
  BY <1>1 DEF Dashes
<1>3. Split(a) = IF a[1].text # <<"setup">> \/ D = {} THEN Len(a) ELSE x - 1
  BY DEF Split
<1> HIDE DEF D
<1>4. D # {} => x \in D
  <2> SUFFICES ASSUME D # {} PROVE x \in D
    OBVIOUS
  <2>1. \E i \in D : \A j \in D : i <= j
    BY <1>1, <1>2, Least
  <2> QED
    BY <2>1
<1> HIDE DEF x
<1>5. D # {} => x - 1 \in 0..Len(a)
  <2> SUFFICES ASSUME D # {} PROVE x - 1 \in 0..Len(a)
    OBVIOUS
  <2>1. x \in 1..Len(a)
    BY <1>2, <1>4
  <2> QED
    BY <1>1, <2>1
<1>6. Len(a) \in 0..Len(a)
  BY <1>1
<1> QED
  BY <1>1, <1>3, <1>5, <1>6

\* What a call in progress holds of the line it was given: the line it was typed as, the
\* line as the intercept left it, and what it passes on of that.
IsArgv(x) == x = [prog |-> x.prog, rest |-> x.rest] /\ IsLine(x.rest)
RouteOK(f) ==
    /\ IsLine(f.typed) /\ IsLine(f.argv) /\ IsArgv(f.sysargv)
    /\ f.pc = "start" => f.argv = f.typed
    /\ f.pc # "start" => /\ Intercept(f.typed).what \in {"none", "strip"}
                         /\ f.argv = Stripped(f.typed)
    /\ f.pc \in {"tool", "meta"} => f.argv # <<>>
    /\ f.pc = "tool" => /\ f.args = Tail(f.argv)
                        /\ f.tool # None /\ f.tool = Resolved(f.e, f.argv[1])
    /\ f.pc = "meta" /\ f.e \notin EscapeHatches =>
         /\ Resolved(f.e, f.argv[1]) = None
         /\ f.args = SubSeq(f.argv, 2, Split(f.argv))
         /\ f.level = SubSeq(f.argv, Split(f.argv) + 2, Len(f.argv))
RouteInv == IsArgv(sysargv) /\ \A i \in DOMAIN stack : RouteOK(stack[i])

\* The stack changes in one of three ways, as above.
LEMMA RouteSets ==
    ASSUME IInv, RouteInv, stack # <<>>, NEW f, Sets(f), RouteOK(f), IsArgv(sysargv')
    PROVE  RouteInv'
<1> DEFINE r == Pop
<1>1. /\ IsSequence(r) /\ Len(stack) \in Nat \ {0} /\ Len(r) = Len(stack) - 1
      /\ DOMAIN stack = 1..Len(stack)
      /\ \A i \in 1..(Len(stack) - 1) : r[i] = stack[i]
  BY Popped DEF IInv, Structure, Pop
<1> HIDE DEF r
<1>2. stack' = Append(r, f)
  BY DEF Sets, r
<1>3. /\ IsSequence(stack') /\ Len(stack') = Len(r) + 1 /\ stack'[Len(r) + 1] = f
      /\ \A i \in 1..Len(r) : stack'[i] = r[i]
  BY <1>1, <1>2, Pushed
<1>4. DOMAIN stack' = 1..Len(stack)
  BY <1>1, <1>3 DEF IsSequence
<1>5. ASSUME NEW i \in DOMAIN stack' PROVE RouteOK(stack'[i])
  <2>1. i = Len(r) + 1 \/ (i \in 1..Len(r) /\ i \in 1..(Len(stack) - 1) /\ i \in DOMAIN stack)
    BY <1>1, <1>4
  <2> QED
    BY <1>1, <1>3, <2>1 DEF RouteInv
<1> QED
  BY <1>5 DEF RouteInv

\* The last call ends.
LEMMA RoutePops ==
    ASSUME IInv, RouteInv, stack # <<>>, Returns, IsArgv(sysargv')
    PROVE  RouteInv'
<1>1. /\ DOMAIN stack = 1..Len(stack) /\ DOMAIN stack' = 1..(Len(stack) - 1)
      /\ Len(stack) \in Nat
      /\ \A i \in 1..(Len(stack) - 1) : stack'[i] = stack[i]
  BY PopStructure DEF IInv
<1>2. \A i \in DOMAIN stack' : i \in DOMAIN stack /\ stack'[i] = stack[i]
  BY <1>1
<1>3. \A i \in DOMAIN stack' : RouteOK(stack'[i])
  BY <1>2 DEF RouteInv
<1> QED
  BY <1>3 DEF RouteInv

\* A call begins with a line that somebody typed.
LEMMA RouteRuns ==
    ASSUME IInv, RouteInv, NEW e, NEW a, IsLine(a), Run(e, a)
    PROVE  RouteInv'
<1> DEFINE f == Frame(e, a)
<1>1. /\ f.pc = "start" /\ f.argv = a /\ f.typed = a /\ f.sysargv = sysargv
  BY DEF Frame
<1>2. stack' = Append(stack, f) /\ sysargv' = sysargv
  BY DEF Run
<1> HIDE DEF f
<1>3. RouteOK(f)
  BY <1>1 DEF RouteOK, RouteInv
<1>4. /\ IsSequence(stack') /\ Len(stack) \in Nat /\ Len(stack') = Len(stack) + 1
      /\ stack'[Len(stack) + 1] = f
      /\ \A i \in 1..Len(stack) : stack'[i] = stack[i]
  BY <1>2, Pushed DEF IInv, Structure
<1>5. DOMAIN stack' = 1..(Len(stack) + 1) /\ DOMAIN stack = 1..Len(stack)
  BY <1>4 DEF IsSequence, IInv, Structure
<1>6. \A i \in DOMAIN stack' : RouteOK(stack'[i])
  <2> SUFFICES ASSUME NEW i \in DOMAIN stack' PROVE RouteOK(stack'[i])
    OBVIOUS
  <2>1. i = Len(stack) + 1 \/ (i \in 1..Len(stack) /\ i \in DOMAIN stack)
    BY <1>4, <1>5
  <2> QED
    BY <1>3, <1>4, <2>1 DEF RouteInv
<1> QED
  BY <1>2, <1>6 DEF RouteInv

\* The last call is one of those.
LEMMA RouteTop ==
    ASSUME IInv, RouteInv, stack # <<>>
    PROVE  RouteOK(Top) /\ IsArgv(sysargv) /\ FrameOK(Top)
BY TopOK DEF IInv, RouteInv

\* After discovery a call has its line without the colon.
LEMMA RouteBegins ==
    ASSUME IInv, RouteInv, Begins
    PROVE  RouteInv'
<1> DEFINE e == Top.e
           a == Stripped(Top.argv)
           f == [Top EXCEPT !.pc = "dispatch", !.argv = a,
                   !.parsers = IF e \in RootEngines
                               THEN DOMAIN commands[e] \ NoParser ELSE {}]
<1>1. /\ stack # <<>> /\ Top.pc = "start" /\ Intercept(Top.argv).what \in {"none", "strip"}
      /\ sysargv' = sysargv /\ (Returns \/ Sets(f))
  BY DEF Begins, Busy
<1>2. RouteOK(Top) /\ IsArgv(sysargv') /\ FrameOK(Top)
  BY <1>1, RouteTop
<1>3. /\ f.pc = "dispatch" /\ f.argv = a /\ f.typed = Top.typed /\ f.sysargv = Top.sysargv
  BY <1>2 DEF FrameOK, Fields
<1>4. Top.argv = Top.typed /\ IsLine(Top.typed) /\ IsArgv(Top.sysargv)
  BY <1>1, <1>2 DEF RouteOK
<1>5. IsLine(a)
  <2>1. CASE Top.argv = <<>>
    <3>1. Intercept(<<>>).what # "strip"
      <4>1. IsLine(<<>>)
        BY <1>4, <2>1
      <4>2. Intercept(<<>>).what = "strip" =>
               Prefix(<<>>) \in 0..Len(<<>>) /\ Prefix(<<>>) + 1 \in 1..Len(<<>>)
        BY <4>1, Strips
      <4>3. Len(<<>>) = 0
        OBVIOUS
      <4> QED
        BY <4>2, <4>3
    <3>2. a = Top.argv
      BY <2>1, <3>1 DEF Stripped
    <3> QED
      BY <1>4, <3>2
  <2>2. CASE Top.argv # <<>>
    BY <1>4, <2>2, StrippedLine
  <2> QED
    BY <2>1, <2>2
<1> HIDE DEF f
<1>6. RouteOK(f)
  BY <1>1, <1>3, <1>4, <1>5 DEF RouteOK
<1> QED
  BY <1>1, <1>2, <1>6, RoutePops, RouteSets

\* A tool gets what follows its name.
LEMMA RouteGiveTool ==
    ASSUME IInv, RouteInv, GiveTool
    PROVE  RouteInv'
<1> DEFINE e == Top.e
           t == Resolved(e, Top.argv[1])
           swaps == t \in InProcess /\ e \notin Dispatchers \cup EscapeHatches
           f == [Top EXCEPT !.pc = "tool", !.tool = t, !.args = Tail(Top.argv),
                            !.backup = <<env>>,
                            !.oldargv = IF swaps THEN <<sysargv>> ELSE <<>>]
<1>1. /\ stack # << >> /\ Top.pc = "dispatch" /\ Owns(e, Top.argv[1]) = "tool"
      /\ Sets(f) /\ Top.argv # <<>>
      /\ sysargv' = IF swaps THEN [prog |-> <<t>>, rest |-> Tail(Top.argv)] ELSE sysargv
  BY DEF GiveTool, Ready, Busy
<1>2. RouteOK(Top) /\ IsArgv(sysargv) /\ FrameOK(Top)
  BY <1>1, RouteTop
<1>3. t # None
  BY <1>1 DEF Owns
<1>4. /\ f.e = e /\ f.pc = "tool" /\ f.tool = t /\ f.args = Tail(Top.argv)
      /\ f.argv = Top.argv /\ f.typed = Top.typed /\ f.sysargv = Top.sysargv
  BY <1>2 DEF FrameOK, Fields
<1>5. IsArgv(sysargv')
  <2>1. IsLine(Tail(Top.argv))
    BY <1>1, <1>2, TailOfLine DEF RouteOK
  <2> DEFINE y == Tail(Top.argv)
             z == [prog |-> <<t>>, rest |-> y]
  <2> HIDE DEF y, t
  <2>2. IsArgv(z)
    BY <2>1 DEF IsArgv, y
  <2> HIDE DEF swaps
  <2> QED
    BY <1>1, <1>2, <2>2 DEF y
<1> HIDE DEF f, t, swaps
<1>6. t = Resolved(e, Top.argv[1])
  BY DEF t
<1>7. RouteOK(f)
  BY <1>1, <1>2, <1>3, <1>4, <1>6 DEF RouteOK
<1> QED
  BY <1>1, <1>5, <1>7, RouteSets

\* A handler gets what argparse was shown, a target what stands behind it.
LEMMA RouteStartMeta ==
    ASSUME IInv, RouteInv, StartMeta
    PROVE  RouteInv'
<1> DEFINE e == Top.e
           n == IF e \in EscapeHatches THEN Len(Top.argv) ELSE Split(Top.argv)
           f == [Top EXCEPT !.pc = "meta", !.args = SubSeq(Top.argv, 2, n),
                            !.level = SubSeq(Top.argv, n + 2, Len(Top.argv)),
                            !.oldargv = <<sysargv>>]
           y == SubSeq(Top.argv, 1, n)
<1>1. /\ stack # << >> /\ Top.pc = "dispatch" /\ Owns(e, Top.argv[1]) = "meta"
      /\ Sets(f) /\ Top.argv # <<>> /\ sysargv' = [prog |-> <<e>>, rest |-> y]
  BY DEF StartMeta, Ready, Busy
<1>2. RouteOK(Top) /\ IsArgv(sysargv) /\ FrameOK(Top)
  BY <1>1, RouteTop
<1>3. /\ f.e = e /\ f.pc = "meta" /\ f.args = SubSeq(Top.argv, 2, n)
      /\ f.level = SubSeq(Top.argv, n + 2, Len(Top.argv))
      /\ f.argv = Top.argv /\ f.typed = Top.typed /\ f.sysargv = Top.sysargv
  BY <1>2 DEF FrameOK, Fields
<1>4. IsLine(Top.argv) /\ IsLine(Top.typed)
  BY <1>2 DEF RouteOK
<1>5. n \in 0..Len(Top.argv) /\ 1 \in 1..Len(Top.argv) + 1
  BY <1>1, <1>4, SplitRange
<1>6. e \notin EscapeHatches => n = Split(Top.argv) /\ Resolved(e, Top.argv[1]) = None
  BY <1>1 DEF Owns
<1> HIDE DEF n, f
<1>7. IsLine(y)
  BY <1>4, <1>5, PartOfLine
<1> HIDE DEF y
<1>8. IsArgv(sysargv')
  BY <1>1, <1>7 DEF IsArgv
<1>9. RouteOK(f)
  BY <1>1, <1>2, <1>3, <1>6 DEF RouteOK
<1> QED
  BY <1>1, <1>8, <1>9, RouteSets

\* The end of a call: sys.argv is left alone or is what the call found.
LEMMA RouteEnds ==
    ASSUME IInv, RouteInv,
           PropertyForm \/ DiscoveryFails \/ NothingToDo \/ MetaRefused \/ ToolEnds \/ MetaEnds
    PROVE  RouteInv'
<1>1. stack # <<>> /\ Returns
  BY DEF PropertyForm, DiscoveryFails, NothingToDo, MetaRefused, ToolEnds, MetaEnds, Busy, Ready
<1>2. RouteOK(Top) /\ IsArgv(sysargv) /\ FrameOK(Top)
  BY <1>1, RouteTop
<1>3. IsArgv(Top.sysargv)
  BY <1>2 DEF RouteOK
<1>4. sysargv' = sysargv \/ sysargv' = Top.sysargv
  <2>1. CASE ToolEnds
    BY <1>2, <2>1 DEF ToolEnds, Busy, FrameOK
  <2>2. CASE MetaEnds
    BY <1>2, <2>2 DEF MetaEnds, Busy, FrameOK
  <2> QED
    BY <2>1, <2>2 DEF PropertyForm, DiscoveryFails, NothingToDo, MetaRefused
<1>5. IsArgv(sysargv')
  BY <1>2, <1>3, <1>4
<1> QED
  BY <1>1, <1>5, RoutePops

\* What a handler finds for its target changes nothing of the line.
LEMMA RouteTarget ==
    ASSUME IInv, RouteInv, NEW as, NEW fg, ResolveTarget(as, fg)
    PROVE  RouteInv'
<1> DEFINE t == Top.args[1].text
           g == [level |-> Target(Top.e, Top.argv[1].text, t, as, fg), text |-> t, as |-> as]
           f == [Top EXCEPT !.target = g]
<1>1. stack # << >> /\ Top.pc = "meta" /\ Sets(f) /\ sysargv' = sysargv
  BY DEF ResolveTarget, Busy
<1>2. RouteOK(Top) /\ IsArgv(sysargv) /\ FrameOK(Top)
  BY <1>1, RouteTop
<1> HIDE DEF g
<1>3. /\ f.e = Top.e /\ f.pc = "meta" /\ f.args = Top.args /\ f.level = Top.level
      /\ f.argv = Top.argv /\ f.typed = Top.typed /\ f.sysargv = Top.sysargv
  BY <1>1, <1>2 DEF FrameOK, Fields
<1> HIDE DEF f
<1>4. RouteOK(f)
  BY <1>1, <1>2, <1>3 DEF RouteOK
<1>5. IsArgv(sysargv')
  BY <1>1, <1>2
<1> QED
  BY <1>1, <1>4, <1>5, RouteSets

\* A tool that meddles leaves an empty line in sys.argv.
LEMMA RouteMeddle ==
    ASSUME RouteInv, NEW v, NEW x, Meddle(v, x)
    PROVE  RouteInv'
<1>1. stack' = stack /\ sysargv' = [sysargv EXCEPT !.rest = <<>>]
  BY DEF Meddle
<1>2. sysargv = [prog |-> sysargv.prog, rest |-> sysargv.rest]
  BY DEF RouteInv, IsArgv
<1>3. sysargv' = [prog |-> sysargv.prog, rest |-> <<>>]
  BY <1>1, <1>2
<1>4. IsLine(<<>>)
  <2>1. <<>> \in Seq(Range(<<>>)) /\ DOMAIN <<>> = {}
    BY EmptySeq
  <2> QED
    BY <2>1 DEF IsLine
<1>5. IsArgv(sysargv')
  BY <1>3, <1>4 DEF IsArgv
<1> QED
  BY <1>1, <1>5 DEF RouteInv

\* Every step keeps it.
LEMMA NextRoute ==
    ASSUME IInv, RouteInv, [Next]_vars
    PROVE  RouteInv'
<1>1. CASE \E e \in Engines : Registration(e)
  <2>1. stack' = stack /\ sysargv' = sysargv
    BY <1>1 DEF Registration, Register, Override, Unregister, Others
  <2> QED
    BY <2>1 DEF RouteInv
<1>2. CASE \E e \in Engines : Calls(e)
  <2>1. PICK e \in Engines, a \in Lines \cup NestedLines \cup {sysargv.rest} : Run(e, a)
    BY <1>2 DEF Calls
  <2>2. IsLine(a)
    BY <2>1, LinesAssumption DEF RouteInv, IsArgv
  <2> QED
    BY <2>1, <2>2, RouteRuns
<1>3. CASE Step
  BY <1>3, RouteBegins, RouteGiveTool, RouteStartMeta, RouteEnds DEF Step
<1>4. CASE \E v \in MeddledVars, x \in MeddledValues : Meddle(v, x)
  BY <1>4, RouteMeddle
<1>5. CASE \E as, fg \in Levels \cup {None} : ResolveTarget(as, fg)
  BY <1>5, RouteTarget
<1>6. CASE UNCHANGED vars
  BY <1>6 DEF vars, RouteInv
<1> QED
  BY <1>1, <1>2, <1>3, <1>4, <1>5, <1>6 DEF Next

\* There is no call at first.
LEMMA InitRoute == Init => RouteInv
<1> SUFFICES ASSUME Init PROVE RouteInv
  OBVIOUS
<1>1. stack = << >> /\ DOMAIN << >> = {} /\ sysargv = [prog |-> <<>>, rest |-> ShellLine]
  BY DEF Init
<1>2. IsLine(ShellLine)
  BY LinesAssumption
<1>3. IsArgv(sysargv)
  BY <1>1, <1>2 DEF IsArgv
<1> QED
  BY <1>1, <1>3 DEF RouteInv

\* A line is routed by what was typed.
THEOREM RoutedAsTypedHolds == Spec => []RoutedAsTyped
<1>1. RouteInv => RoutedAsTyped
  <2> SUFFICES ASSUME RouteInv, NEW i \in DOMAIN stack, NEW f, f = stack[i],
                      NEW w, w = f.typed[1], f.pc \in {"tool", "meta"}
               PROVE  /\ w.kind = "word" /\ IsOperatorLed(w.text) => "." \notin Range(w.text)
                      /\ f.pc = "tool" =>
                           /\ Tail(f.typed) = f.args
                           /\ \E t \in {w.text, Tail(w.text)} : Resolved(f.e, Word(t)) = f.tool
                      /\ f.pc = "meta" /\ f.e \notin EscapeHatches =>
                           /\ Resolved(f.e, f.argv[1]) = None
                           /\ f.argv[1].text = <<"setup">> =>
                                /\ Dashes(f.args) = {}
                                /\ Len(Tail(f.argv)) - Len(f.args) = Len(f.level)
                                     + (IF Dashes(f.argv) = {} THEN 0 ELSE 1)
    BY Zenon DEF RoutedAsTyped
  <2>1. RouteOK(f)
    BY DEF RouteInv
  <2>2. /\ IsLine(f.typed) /\ IsLine(f.argv) /\ f.argv # <<>>
        /\ Intercept(f.typed).what \in {"none", "strip"} /\ f.argv = Stripped(f.typed)
    BY <2>1 DEF RouteOK
  <2>3. f.typed # <<>>
    <3> SUFFICES ASSUME f.typed = <<>> PROVE FALSE
      OBVIOUS
    <3>1. Intercept(<<>>).what = "strip" =>
             Prefix(<<>>) \in 0..Len(<<>>) /\ Prefix(<<>>) + 1 \in 1..Len(<<>>)
      BY <2>2, Strips
    <3>2. Len(<<>>) = 0
      OBVIOUS
    <3>3. Intercept(<<>>).what # "strip"
      BY <3>1, <3>2
    <3> QED
      BY <2>2, <3>3 DEF Stripped
  <2>4. w.kind = "word" /\ IsOperatorLed(w.text) => "." \notin Range(w.text)
    BY <2>2, <2>3, WordPasses
  <2>5. /\ f.argv[1].kind = w.kind
        /\ w.kind = "word" => /\ Tail(f.argv) = Tail(f.typed)
                              /\ f.argv[1].text \in {w.text, Tail(w.text)}
    BY <2>2, <2>3, StrippedLine
  <2>6. ASSUME f.pc = "tool"
        PROVE  /\ Tail(f.typed) = f.args
               /\ \E t \in {w.text, Tail(w.text)} : Resolved(f.e, Word(t)) = f.tool
    <3> DEFINE v == f.argv[1]
    <3>1. f.args = Tail(f.argv) /\ f.tool # None /\ f.tool = Resolved(f.e, v)
      BY <2>1, <2>6 DEF RouteOK
    <3>2. v.kind = "word"
      BY <3>1 DEF Resolved
    <3>3. Word(v.text).kind = "word" /\ Word(v.text).text = v.text
      BY DEF Word
    <3>4. Resolved(f.e, Word(v.text)) = Resolved(f.e, v)
      BY <3>2, <3>3, Zenon DEF Resolved
    <3> HIDE DEF v
    <3>5. w.kind = "word" /\ Tail(f.argv) = Tail(f.typed) /\ v.text \in {w.text, Tail(w.text)}
      BY <2>5, <3>2 DEF v
    <3> QED
      BY <3>1, <3>4, <3>5
  <2>7. ASSUME f.pc = "meta", f.e \notin EscapeHatches
        PROVE  /\ Resolved(f.e, f.argv[1]) = None
               /\ f.argv[1].text = <<"setup">> =>
                    /\ Dashes(f.args) = {}
                    /\ Len(Tail(f.argv)) - Len(f.args) = Len(f.level)
                         + (IF Dashes(f.argv) = {} THEN 0 ELSE 1)
    <3>1. /\ Resolved(f.e, f.argv[1]) = None
          /\ f.args = SubSeq(f.argv, 2, Split(f.argv))
          /\ f.level = SubSeq(f.argv, Split(f.argv) + 2, Len(f.argv))
      BY <2>1, <2>7 DEF RouteOK
    <3>2. ASSUME f.argv[1].text = <<"setup">>
          PROVE  /\ Dashes(f.args) = {}
                 /\ Len(Tail(f.argv)) - Len(f.args) = Len(f.level)
                      + (IF Dashes(f.argv) = {} THEN 0 ELSE 1)
      <4> DEFINE a == f.argv
                 n == Split(a)
                 b == SubSeq(a, 2, n)
                 c == SubSeq(a, n + 2, Len(a))
      <4>1. /\ Dashes(b) = {}
            /\ Len(Tail(a)) - Len(b) = Len(c) + (IF Dashes(a) = {} THEN 0 ELSE 1)
        BY <2>2, <3>2, SplitIs
      <4>2. f.args = b /\ f.level = c
        BY <3>1
      <4> HIDE DEF a, n, b, c
      <4>3. /\ Dashes(f.args) = {}
            /\ Len(Tail(a)) - Len(f.args) = Len(f.level) + (IF Dashes(a) = {} THEN 0 ELSE 1)
        BY <4>1, <4>2
      <4> QED
        BY <4>3 DEF a
    <3> QED
      BY <3>1, <3>2
  <2> QED
    BY <2>4, <2>6, <2>7, Zenon
<1> QED
  BY <1>1, InitIInv, NextIInv, InitRoute, NextRoute, PTL DEF Spec
=============================================================================
