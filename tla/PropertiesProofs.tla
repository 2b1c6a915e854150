-------------------------- MODULE PropertiesProofs --------------------------
(***************************************************************************)
(* What commands on properties.json may lose, for any tree of nodes, any   *)
(* number of processes and any paths and values they are given.            *)
(*                                                                         *)
(* A command acts on what it has read: until another process replaces the  *)
(* file, what it has seen, decided and put together is still true of the   *)
(* file (LookHolds, CopyHolds). `older` has a command from the moment on   *)
(* at which that is no longer so, and the invariant says so at every step  *)
(* between the reading and the replacing. A reading that fails puts the    *)
(* command there too; what a failed look holds is an empty file, of which  *)
(* delete and touch write nothing.                                         *)
(***************************************************************************)
EXTENDS Properties, TLAPS

Fields == {"pc", "cmd", "key", "to", "value", "cache", "mem", "answer"}

\* Which command is where.
Shape(p) ==
    LET j == job[p] IN
    /\ DOMAIN j = Fields
    /\ j.pc \in {"write", "merged"} => j.cmd \in Writes \cup {"touch"}
    /\ j.pc = "replace" => j.cmd \in {"delete", "touch"}
    /\ j.pc = "again" => j.cmd = "touch"

\* What a command has looked at is the file, and it is still wanted.
LookHolds(p) ==
    LET j == job[p] IN
    <<p, "look">> \notin older =>
        /\ j.pc = "decide" => Seen(p) = file
        /\ j.pc \in {"write", "merged"} => Wanted(j.cmd, file, j.key)

\* What it will write is the file but for its own key; touch has its value under the
\* node's own key before it gives up the other.
CopyHolds(p) ==
    LET j == job[p] IN
    <<p, "copy">> \notin older =>
        /\ j.pc = "decide" /\ j.cmd \in {"delete", "touch"} => Seen(p) \in {file, <<>>}
        /\ j.pc = "merged" => j.mem = With(file, Target(j), j.value)
        /\ j.pc = "replace" => j.mem = Without(file, j.key)
        /\ j.cmd = "touch" /\ j.pc \in {"write", "merged", "again", "replace"} => j.to # j.key
        /\ j.cmd = "touch" /\ j.pc \in {"write", "merged"} =>
              j.value # None /\ Stored(file, j.to) = None
        /\ j.cmd = "touch" /\ j.pc \in {"again", "replace"} => Stored(file, j.to) # None

IInv ==
    /\ DOMAIN job = Procs
    /\ \A p \in Procs : Shape(p) /\ LookHolds(p) /\ CopyHolds(p)

-----------------------------------------------------------------------------
(* Files *)

LEMMA StoredWith ==
    ASSUME NEW f, NEW k, NEW v, NEW x
    PROVE  Stored(With(f, k, v), x) = IF x = k THEN v ELSE Stored(f, x)
<1>1. DOMAIN With(f, k, v) = {k} \cup DOMAIN f
  BY DEF With
<1>2. \A y \in {k} \cup DOMAIN f : With(f, k, v)[y] = IF y = k THEN v ELSE f[y]
  BY DEF With
<1> QED
  BY <1>1, <1>2 DEF Stored

LEMMA StoredWithout ==
    ASSUME NEW f, NEW k, NEW x
    PROVE  Stored(Without(f, k), x) = IF x = k THEN None ELSE Stored(f, x)
BY DEF Stored, Without

-----------------------------------------------------------------------------
(* Steps *)

\* A step of one process that leaves the file alone is none to the others.
LEMMA OthersStay ==
    ASSUME IInv, NEW p \in Procs, NEW j, DOMAIN j = Fields,
           job' = [job EXCEPT ![p] = j], file' = file,
           \A q \in Procs \ {p} : \A what : <<q, what>> \in older <=> <<q, what>> \in older'
    PROVE  /\ DOMAIN job' = Procs /\ job'[p] = j
           /\ \A q \in Procs \ {p} : Shape(q)' /\ LookHolds(q)' /\ CopyHolds(q)'
<1>1. DOMAIN job' = Procs /\ job'[p] = j /\ \A q \in Procs \ {p} : job'[q] = job[q]
  BY DEF IInv
<1>2. ASSUME NEW q \in Procs \ {p} PROVE Shape(q)' /\ LookHolds(q)' /\ CopyHolds(q)'
  <2>1. job'[q] = job[q] /\ Shape(q) /\ LookHolds(q) /\ CopyHolds(q)
    BY <1>1 DEF IInv
  <2>2. /\ <<q, "look">> \in older <=> <<q, "look">> \in older'
        /\ <<q, "copy">> \in older <=> <<q, "copy">> \in older'
    OBVIOUS
  <2> QED
    BY <2>1, <2>2 DEF Shape, LookHolds, CopyHolds, Seen
<1> QED
  BY <1>1, <1>2

\* A command that is over, or that has not looked yet, holds nothing.
LEMMA Rests ==
    ASSUME NEW p \in Procs, DOMAIN job'[p] = Fields, job'[p].pc \in {"idle", "look", "told"}
    PROVE  Shape(p)' /\ LookHolds(p)' /\ CopyHolds(p)'
BY DEF Shape, LookHolds, CopyHolds

LEMMA StartKeeps ==
    ASSUME IInv, NEW p \in Procs, NEW cmd \in Commands, NEW text, NEW token,
           Start(p, cmd, text, token)
    PROVE  IInv'
<1> DEFINE key == IF cmd = "touch" THEN text ELSE Key(text)
           j == [Idle EXCEPT !.pc = "look", !.cmd = cmd, !.key = key, !.value = token,
                             !.to = IF cmd = "touch" THEN Resolve(text) ELSE <<>>]
<1>1. job' = [job EXCEPT ![p] = j] /\ file' = file /\ older' = older
  BY DEF Start, Sets
<1>2. DOMAIN j = Fields /\ j.pc = "look"
  BY DEF Idle, Fields
<1> HIDE DEF key, j
<1>3. /\ DOMAIN job' = Procs /\ job'[p] = j
      /\ \A q \in Procs \ {p} : Shape(q)' /\ LookHolds(q)' /\ CopyHolds(q)'
  BY <1>1, <1>2, OthersStay
<1>4. Shape(p)' /\ LookHolds(p)' /\ CopyHolds(p)'
  BY <1>2, <1>3, Rests
<1> QED
  BY <1>3, <1>4 DEF IInv

\* A command that ends leaves nothing behind.
LEMMA DoneKeeps ==
    ASSUME IInv, NEW p \in Procs, Done(p), file' = file
    PROVE  IInv'
<1>1. job' = [job EXCEPT ![p] = Idle] /\ older' = older \ ({p} \X {"look", "copy"})
  BY DEF Done, Sets
<1>2. DOMAIN Idle = Fields /\ Idle.pc = "idle"
  BY DEF Idle, Fields
<1>3. /\ DOMAIN job' = Procs /\ job'[p] = Idle
      /\ \A q \in Procs \ {p} : Shape(q)' /\ LookHolds(q)' /\ CopyHolds(q)'
  BY <1>1, <1>2, OthersStay
<1>4. Shape(p)' /\ LookHolds(p)' /\ CopyHolds(p)'
  BY <1>2, <1>3, Rests
<1> QED
  BY <1>3, <1>4 DEF IInv

\* A command goes on, and what it holds is true of the file.
LEMMA GoesOn ==
    ASSUME IInv, NEW p \in Procs, NEW j, Sets(p, j), file' = file, older' = older,
           DOMAIN j = Fields,
           DOMAIN job' = Procs /\ job'[p] = j => Shape(p)' /\ LookHolds(p)' /\ CopyHolds(p)'
    PROVE  IInv'
<1>1. job' = [job EXCEPT ![p] = j]
  BY DEF Sets
<1>2. /\ DOMAIN job' = Procs /\ job'[p] = j
      /\ \A q \in Procs \ {p} : Shape(q)' /\ LookHolds(q)' /\ CopyHolds(q)'
  BY <1>1, OthersStay
<1> QED
  BY <1>2 DEF IInv

LEMMA LookKeeps == ASSUME IInv, NEW p \in Procs, Look(p) PROVE IInv'
<1> DEFINE j == [job[p] EXCEPT !.pc = "decide", !.cache = <<file>>]
<1>1. Sets(p, j) /\ file' = file /\ older' = older
  BY DEF Look
<1>2. DOMAIN job[p] = Fields
  BY DEF IInv, Shape
<1>3. DOMAIN j = Fields /\ j.pc = "decide" /\ j.cache = <<file>>
  BY <1>2 DEF Fields
<1> HIDE DEF j
<1>4. ASSUME DOMAIN job' = Procs, job'[p] = j
      PROVE  Shape(p)' /\ LookHolds(p)' /\ CopyHolds(p)'
  <2>1. Seen(p)' = file'
    BY <1>1, <1>3, <1>4 DEF Seen
  <2> QED
    BY <1>3, <1>4, <2>1 DEF Shape, LookHolds, CopyHolds
<1> QED
  BY <1>1, <1>3, <1>4, GoesOn

LEMMA NothingStored == ASSUME NEW k PROVE k \notin DOMAIN <<>> /\ Stored(<<>>, k) = None
BY DEF Stored

\* What is cached after a failed look is an empty file.
LEMMA LookFailsKeeps == ASSUME IInv, NEW p \in Procs, LookFails(p) PROVE IInv'
<1> DEFINE j == [job[p] EXCEPT !.pc = "decide", !.cache = <<<<>>>>]
<1>1. Sets(p, j) /\ file' = file /\ older' = older \cup {<<p, "look">>}
  BY DEF LookFails
<1>2. DOMAIN job[p] = Fields
  BY DEF IInv, Shape
<1>3. DOMAIN j = Fields /\ j.pc = "decide" /\ j.cache = <<<<>>>>
  BY <1>2 DEF Fields
<1>4. job' = [job EXCEPT ![p] = j]
  BY <1>1 DEF Sets
<1> HIDE DEF j
<1>5. /\ DOMAIN job' = Procs /\ job'[p] = j
      /\ \A q \in Procs \ {p} : Shape(q)' /\ LookHolds(q)' /\ CopyHolds(q)'
  BY <1>1, <1>3, <1>4, OthersStay
<1>6. Shape(p)' /\ LookHolds(p)' /\ CopyHolds(p)'
  <2>1. Seen(p)' = <<>> /\ <<p, "look">> \in older'
    BY <1>1, <1>3, <1>5 DEF Seen
  <2> QED
    BY <1>3, <1>5, <2>1 DEF Shape, LookHolds, CopyHolds
<1> QED
  BY <1>5, <1>6 DEF IInv

LEMMA GetsKeeps == ASSUME IInv, NEW p \in Procs, Gets(p) PROVE IInv'
<1> DEFINE j == [job[p] EXCEPT !.pc = "told", !.answer = Answer(Seen(p), job[p].key)]
<1>1. Sets(p, j) /\ file' = file /\ older' = older
  BY DEF Gets
<1>2. DOMAIN job[p] = Fields
  BY DEF IInv, Shape
<1>3. DOMAIN j = Fields /\ j.pc = "told"
  BY <1>2 DEF Fields
<1> HIDE DEF j
<1> QED
  BY <1>1, <1>3, GoesOn, Rests

LEMMA DecidesKeeps == ASSUME IInv, NEW p \in Procs, Decides(p) PROVE IInv'
<1> DEFINE v == Parsed(job[p].value)
           j == [job[p] EXCEPT !.pc = "write", !.value = v]
<1>1. CASE Done(p) /\ file' = file
  BY <1>1, DoneKeeps
<1>2. CASE Sets(p, j) /\ Wanted(job[p].cmd, Seen(p), job[p].key) /\ file' = file /\ older' = older
  <2>1. /\ DOMAIN job[p] = Fields /\ LookHolds(p)
        /\ job[p].pc = "decide" /\ job[p].cmd \in Writes
    BY DEF IInv, Shape, Decides, Deciding
  <2>2. DOMAIN j = Fields /\ j.pc = "write" /\ j.cmd = job[p].cmd /\ j.key = job[p].key
    BY <2>1 DEF Fields
  <2> HIDE DEF j
  <2>3. ASSUME DOMAIN job' = Procs, job'[p] = j
        PROVE  Shape(p)' /\ LookHolds(p)' /\ CopyHolds(p)'
    <3>1. <<p, "look">> \notin older => Wanted(j.cmd, file, j.key)
      BY <1>2, <2>1, <2>2 DEF LookHolds
    <3>2. j.cmd \in Writes /\ "touch" \notin Writes /\ "delete" \notin Writes
      BY <2>1, <2>2 DEF Writes
    <3> QED
      BY <1>2, <2>2, <2>3, <3>1, <3>2 DEF Shape, LookHolds, CopyHolds, Wanted
  <2> QED
    BY <1>2, <2>2, <2>3, GoesOn
<1> QED
  BY <1>1, <1>2 DEF Decides

LEMMA DeletesKeeps == ASSUME IInv, NEW p \in Procs, Deletes(p) PROVE IInv'
<1> DEFINE j == [job[p] EXCEPT !.pc = "replace", !.mem = Without(Seen(p), job[p].key)]
<1>1. CASE Done(p) /\ file' = file
  BY <1>1, DoneKeeps
<1>2. CASE /\ Sets(p, j) /\ file' = file /\ older' = older
           /\ job[p].key \in DOMAIN Seen(p)
  <2>1. /\ DOMAIN job[p] = Fields /\ CopyHolds(p)
        /\ job[p].pc = "decide" /\ job[p].cmd = "delete"
    BY DEF IInv, Shape, Deletes, Deciding
  <2>4. Seen(p) # <<>>
    BY <1>2, NothingStored
  <2>2. /\ DOMAIN j = Fields /\ j.pc = "replace" /\ j.cmd = "delete"
        /\ j.key = job[p].key /\ j.mem = Without(Seen(p), job[p].key)
    BY <2>1 DEF Fields
  <2> HIDE DEF j
  <2>3. ASSUME DOMAIN job' = Procs, job'[p] = j
        PROVE  Shape(p)' /\ LookHolds(p)' /\ CopyHolds(p)'
    <3>1. <<p, "copy">> \notin older => j.mem = Without(file, j.key)
      BY <2>1, <2>2, <2>4 DEF CopyHolds
    <3> QED
      BY <1>2, <2>2, <2>3, <3>1 DEF Shape, LookHolds, CopyHolds
  <2> QED
    BY <1>2, <2>2, <2>3, GoesOn
<1> QED
  BY <1>1, <1>2 DEF Deletes

LEMMA TouchesKeeps == ASSUME IInv, NEW p \in Procs, Touches(p) PROVE IInv'
<1> DEFINE old == Stored(Seen(p), job[p].key)
           moves == [job[p] EXCEPT !.pc = "write", !.value = old]
           drops == [job[p] EXCEPT !.pc = "replace", !.mem = Without(Seen(p), job[p].key)]
<1>1. CASE Done(p) /\ file' = file
  BY <1>1, DoneKeeps
<1>2. /\ DOMAIN job[p] = Fields /\ CopyHolds(p)
      /\ job[p].pc = "decide" /\ job[p].cmd = "touch"
  BY DEF IInv, Shape, Touches, Deciding
<1>3. <<p, "copy">> \notin older /\ old # None => Seen(p) = file
  BY <1>2, NothingStored DEF CopyHolds
<1>4. CASE /\ Sets(p, moves) /\ Stored(Seen(p), job[p].to) = None /\ old # None
           /\ job[p].to # job[p].key /\ file' = file /\ older' = older
  <2>1. /\ DOMAIN moves = Fields /\ moves.pc = "write" /\ moves.cmd = "touch"
        /\ moves.key = job[p].key /\ moves.to = job[p].to /\ moves.value = old
    BY <1>2 DEF Fields
  <2> HIDE DEF moves, old
  <2>2. ASSUME DOMAIN job' = Procs, job'[p] = moves
        PROVE  Shape(p)' /\ LookHolds(p)' /\ CopyHolds(p)'
    BY <1>3, <1>4, <2>1, <2>2 DEF Shape, LookHolds, CopyHolds, Wanted
  <2> QED
    BY <1>4, <2>1, <2>2, GoesOn
<1>5. CASE /\ Sets(p, drops) /\ Stored(Seen(p), job[p].to) # None
           /\ job[p].to # job[p].key /\ file' = file /\ older' = older /\ old # None
  <2>1. /\ DOMAIN drops = Fields /\ drops.pc = "replace" /\ drops.cmd = "touch"
        /\ drops.key = job[p].key /\ drops.to = job[p].to
        /\ drops.mem = Without(Seen(p), job[p].key)
    BY <1>2 DEF Fields
  <2> HIDE DEF drops, old
  <2>2. ASSUME DOMAIN job' = Procs, job'[p] = drops
        PROVE  Shape(p)' /\ LookHolds(p)' /\ CopyHolds(p)'
    BY <1>3, <1>5, <2>1, <2>2 DEF Shape, LookHolds, CopyHolds
  <2> QED
    BY <1>5, <2>1, <2>2, GoesOn
<1> QED
  BY <1>1, <1>4, <1>5 DEF Touches

LEMMA LoadKeeps == ASSUME IInv, NEW p \in Procs, Load(p) PROVE IInv'
<1> DEFINE j == [job[p] EXCEPT !.pc = "merged",
                               !.mem = With(file, Target(job[p]), job[p].value)]
<1>1. Sets(p, j) /\ file' = file /\ older' = older
  BY DEF Load
<1>2. /\ DOMAIN job[p] = Fields /\ job[p].pc = "write" /\ job[p].cmd \in Writes \cup {"touch"}
      /\ LookHolds(p) /\ CopyHolds(p)
  BY DEF IInv, Shape, Load
<1>3. /\ DOMAIN j = Fields /\ j.pc = "merged" /\ j.cmd = job[p].cmd
      /\ j.key = job[p].key /\ j.to = job[p].to /\ j.value = job[p].value
      /\ j.mem = With(file, Target(job[p]), job[p].value)
  BY <1>2 DEF Fields
<1>4. Target(j) = Target(job[p])
  BY <1>2, <1>3 DEF Target
<1> HIDE DEF j
<1>5. ASSUME DOMAIN job' = Procs, job'[p] = j
      PROVE  Shape(p)' /\ LookHolds(p)' /\ CopyHolds(p)'
  <2>1. Shape(p)'
    BY <1>2, <1>3, <1>5 DEF Shape
  <2>2. LookHolds(p)'
    BY <1>1, <1>2, <1>3, <1>5 DEF LookHolds, Wanted
  <2>3. CopyHolds(p)'
    BY <1>1, <1>2, <1>3, <1>4, <1>5 DEF CopyHolds, Target
  <2> QED
    BY <2>1, <2>2, <2>3
<1> QED
  BY <1>1, <1>3, <1>5, GoesOn

\* Nothing is claimed of a copy that was made of no reading.
LEMMA LoadFailsKeeps == ASSUME IInv, NEW p \in Procs, LoadFails(p) PROVE IInv'
<1> DEFINE j == [job[p] EXCEPT !.pc = "merged",
                               !.mem = With(<<>>, Target(job[p]), job[p].value)]
<1>1. Sets(p, j) /\ file' = file /\ older' = older \cup {<<p, "copy">>}
  BY DEF LoadFails
<1>2. /\ DOMAIN job[p] = Fields /\ job[p].pc = "write" /\ job[p].cmd \in Writes \cup {"touch"}
      /\ LookHolds(p)
  BY DEF IInv, Shape, LoadFails
<1>3. /\ DOMAIN j = Fields /\ j.pc = "merged" /\ j.cmd = job[p].cmd /\ j.key = job[p].key
  BY <1>2 DEF Fields
<1>4. job' = [job EXCEPT ![p] = j]
  BY <1>1 DEF Sets
<1> HIDE DEF j
<1>5. /\ DOMAIN job' = Procs /\ job'[p] = j
      /\ \A q \in Procs \ {p} : Shape(q)' /\ LookHolds(q)' /\ CopyHolds(q)'
  BY <1>1, <1>3, <1>4, OthersStay
<1>6. Shape(p)'
  BY <1>2, <1>3, <1>5 DEF Shape
<1>7. LookHolds(p)'
  BY <1>1, <1>2, <1>3, <1>5 DEF LookHolds, Wanted
<1>8. CopyHolds(p)'
  BY <1>1 DEF CopyHolds
<1> QED
  BY <1>5, <1>6, <1>7, <1>8 DEF IInv

\* The file is replaced: whoever has looked at it, or has a copy, is out of date.
LEMMA ReplaceKeeps == ASSUME IInv, NEW p \in Procs, Replace(p) PROVE IInv'
<1> DEFINE j == IF TouchGoesOn(p)
                THEN [job[p] EXCEPT !.pc = "again", !.cache = <<>>, !.mem = <<>>] ELSE Idle
<1>1. /\ job' = [job EXCEPT ![p] = j] /\ file' = job[p].mem
      /\ older' = (older \cup Outdated(p))
                    \ (IF ~TouchGoesOn(p) THEN {p} \X {"look", "copy"} ELSE {})
  BY DEF Replace, Sets, Ages
<1>2. DOMAIN job[p] = Fields /\ CopyHolds(p)
  BY DEF IInv, Shape
<1>3. CASE TouchGoesOn(p)
  <2>1. /\ DOMAIN j = Fields /\ j.pc = "again" /\ j.cmd = "touch"
        /\ j.key = job[p].key /\ j.to = job[p].to
    BY <1>2, <1>3 DEF Fields, TouchGoesOn
  <2> HIDE DEF j
  <2>2. DOMAIN job' = Procs /\ job'[p] = j
    BY <1>1 DEF IInv
  <2>3. <<p, "copy">> \notin older' => <<p, "copy">> \notin older
    BY <1>1, <1>3
  <2>4. ASSUME <<p, "copy">> \notin older' PROVE Stored(file', j.to) # None /\ j.to # j.key
    <3>1. /\ job[p].mem = With(file, Target(job[p]), job[p].value)
          /\ job[p].value # None /\ job[p].to # job[p].key
      BY <1>2, <1>3, <2>3, <2>4 DEF CopyHolds, TouchGoesOn
    <3>2. Target(job[p]) = job[p].to
      BY <1>3 DEF Target, TouchGoesOn
    <3>3. Stored(file', job[p].to) = job[p].value
      BY <1>1, <3>1, <3>2, StoredWith
    <3> QED
      BY <2>1, <3>1, <3>3
  <2> QED
    <3>1. Shape(p)' /\ LookHolds(p)' /\ CopyHolds(p)'
      BY <2>1, <2>2, <2>4 DEF Shape, LookHolds, CopyHolds
    <3>2. ASSUME NEW q \in Procs \ {p} PROVE Shape(q)' /\ LookHolds(q)' /\ CopyHolds(q)'
      <4>1. job'[q] = job[q] /\ Shape(q)
        BY <1>1 DEF IInv
      <4>2. /\ Looked(q) => <<q, "look">> \in older'
            /\ Copied(q) => <<q, "copy">> \in older'
        BY <1>1, <1>3 DEF Outdated
      <4> QED
        BY <4>1, <4>2 DEF Shape, LookHolds, CopyHolds, Looked, Copied
    <3> QED
      BY <2>2, <3>1, <3>2 DEF IInv
<1>4. CASE ~TouchGoesOn(p)
  <2>1. DOMAIN job' = Procs /\ job'[p] = Idle
    BY <1>1, <1>4 DEF IInv
  <2>2. DOMAIN Idle = Fields /\ Idle.pc = "idle"
    BY DEF Idle, Fields
  <2>3. Shape(p)' /\ LookHolds(p)' /\ CopyHolds(p)'
    BY <2>1, <2>2, Rests
  <2>4. ASSUME NEW q \in Procs \ {p} PROVE Shape(q)' /\ LookHolds(q)' /\ CopyHolds(q)'
    <3>1. job'[q] = job[q] /\ Shape(q)
      BY <1>1 DEF IInv
    <3>2. /\ Looked(q) => <<q, "look">> \in older'
          /\ Copied(q) => <<q, "copy">> \in older'
      BY <1>1, <1>4 DEF Outdated
    <3> QED
      BY <3>1, <3>2 DEF Shape, LookHolds, CopyHolds, Looked, Copied
  <2> QED
    BY <2>1, <2>3, <2>4 DEF IInv
<1> QED
  BY <1>3, <1>4

LEMMA AgainKeeps == ASSUME IInv, NEW p \in Procs, Again(p) PROVE IInv'
<1> DEFINE j == [job[p] EXCEPT !.pc = "replace", !.cache = <<file>>,
                               !.mem = Without(file, job[p].key)]
<1>1. CASE Done(p) /\ file' = file
  BY <1>1, DoneKeeps
<1>2. CASE Sets(p, j) /\ file' = file /\ older' = older
  <2>1. DOMAIN job[p] = Fields /\ CopyHolds(p) /\ job[p].pc = "again" /\ job[p].cmd = "touch"
    BY DEF IInv, Shape, Again
  <2>2. /\ DOMAIN j = Fields /\ j.pc = "replace" /\ j.cmd = "touch" /\ j.to = job[p].to
        /\ j.key = job[p].key /\ j.mem = Without(file, job[p].key)
    BY <2>1 DEF Fields
  <2> HIDE DEF j
  <2>3. ASSUME DOMAIN job' = Procs, job'[p] = j
        PROVE  Shape(p)' /\ LookHolds(p)' /\ CopyHolds(p)'
    BY <1>2, <2>1, <2>2, <2>3 DEF Shape, LookHolds, CopyHolds
  <2> QED
    BY <1>2, <2>2, <2>3, GoesOn
<1> QED
  BY <1>1, <1>2 DEF Again

LEMMA InvStutters == ASSUME IInv, UNCHANGED <<file, job, older>> PROVE IInv'
BY DEF IInv, Shape, LookHolds, CopyHolds, Seen

LEMMA InitIInv == Init => IInv
BY DEF Init, IInv, Shape, LookHolds, CopyHolds, Idle, Fields

LEMMA NextIInv == ASSUME IInv, [Next]_vars PROVE IInv'
<1>1. ASSUME NEW p \in Procs, NEW c \in Commands, NEW text, NEW v, Start(p, c, text, v)
      PROVE  IInv'
  BY <1>1, StartKeeps
<1>2. ASSUME NEW p \in Procs, Step(p) PROVE IInv'
  <2>1. CASE Leaves(p)
    BY <2>1, DoneKeeps DEF Leaves
  <2> QED
    BY <1>2, <2>1, LookKeeps, LookFailsKeeps, GetsKeeps, DecidesKeeps, DeletesKeeps,
       TouchesKeeps, LoadKeeps, LoadFailsKeeps, ReplaceKeeps, AgainKeeps DEF Step
<1>3. ASSUME NEW e \in ConfigEntries, Configure(e) PROVE IInv'
  BY <1>3, InvStutters DEF Configure
<1>4. CASE UNCHANGED vars
  BY <1>4, InvStutters DEF vars
<1> QED
  BY <1>1, <1>2, <1>3, <1>4 DEF Next

-----------------------------------------------------------------------------
\* PropertyStore and touch_canonicalize(): a command that nobody overtook, and whose readings
\* of the file did not fail, changes its own key only, touch keeps the value and never the
\* node's own one changes, and what set and add asked for is so. Whatever is lost is lost to
\* a copy that was out of date or empty.
THEOREM LossHasCauseHolds == Spec => LossHasCause
<1> DEFINE Kept(p) ==
      LET j == job[p] IN
      /\ <<p, "copy">> \notin older =>
           /\ \A k \in DOMAIN file \ {j.key, j.to} : Stored(file', k) = file[k]
           /\ j.cmd = "touch" =>
                /\ Stored(file, j.key) # None =>
                     Stored(file', j.key) # None \/ Stored(file', j.to) # None
                /\ Stored(file, j.to) # None => Stored(file', j.to) = file[j.to]
      /\ <<p, "look">> \notin older => Wanted(j.cmd, file, j.key)
<1>1. ASSUME IInv, [Next]_vars, NEW p \in Procs, Writes1(p) PROVE Kept(p)
  <2>1. Replace(p)
    <3>1. file' # file /\ job'[p] # job[p]
      BY <1>1 DEF Writes1
    <3>2. PICK q \in Procs : Replace(q)
      BY <1>1, <3>1 DEF Next, Step, Start, Look, LookFails, Gets, Decides, Deletes, Touches,
         Load, LoadFails, Again,
         Leaves, Configure, vars
    <3>3. job'[p] # job[p] => p = q
      BY <1>1, <3>2 DEF Replace, Sets, IInv
    <3> QED
      BY <3>1, <3>2, <3>3
  <2> DEFINE j == job[p]
  <2>2. /\ file' = j.mem /\ j.pc \in {"merged", "replace"}
        /\ Shape(p) /\ LookHolds(p) /\ CopyHolds(p)
    BY <1>1, <2>1 DEF Replace, IInv
  <2>3. <<p, "look">> \notin older => Wanted(j.cmd, file, j.key)
    BY <2>2 DEF Shape, LookHolds, Wanted
  <2>4. ASSUME <<p, "copy">> \notin older
        PROVE  /\ \A k \in DOMAIN file \ {j.key, j.to} : Stored(file', k) = file[k]
               /\ j.cmd = "touch" =>
                    /\ Stored(file, j.key) # None =>
                         Stored(file', j.key) # None \/ Stored(file', j.to) # None
                    /\ Stored(file, j.to) # None => Stored(file', j.to) = file[j.to]
    <3>1. \A k \in DOMAIN file : Stored(file, k) = file[k]
      BY DEF Stored
    <3>2. \A k : Stored(file, k) # None => k \in DOMAIN file
      BY DEF Stored
    <3>3. CASE j.pc = "merged"
      <4>1. /\ \A k : Stored(file', k) = IF k = Target(j) THEN j.value ELSE Stored(file, k)
            /\ Target(j) \in {j.key, j.to} /\ (j.cmd = "touch" => Target(j) = j.to)
        BY <2>2, <2>4, <3>3, StoredWith DEF CopyHolds, Target
      <4>2. j.cmd = "touch" => /\ j.to # j.key /\ j.value # None
                               /\ Stored(file, j.to) = None
        BY <2>2, <2>4, <3>3 DEF CopyHolds
      <4> HIDE DEF j
      <4> QED
        BY <3>1, <3>2, <4>1, <4>2
    <3>4. CASE j.pc = "replace"
      <4>1. \A k : Stored(file', k) = IF k = j.key THEN None ELSE Stored(file, k)
        BY <2>2, <2>4, <3>4, StoredWithout DEF CopyHolds
      <4>2. j.cmd = "touch" => j.to # j.key /\ Stored(file, j.to) # None
        BY <2>2, <2>4, <3>4 DEF CopyHolds
      <4> HIDE DEF j
      <4> QED
        BY <3>1, <3>2, <4>1, <4>2
    <3> QED
      BY <2>2, <3>3, <3>4
  <2> QED
    BY <2>3, <2>4
<1>2. IInv /\ [Next]_vars => [\A p \in Procs : Writes1(p) => Kept(p)]_vars
  BY <1>1
<1> QED
  BY <1>2, InitIInv, NextIInv, PTL DEF Spec, LossHasCause
=============================================================================
