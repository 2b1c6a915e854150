--------------------------- MODULE DiscoveryProofs ---------------------------
(***************************************************************************)
(* What holds of Discovery for every value of its constants:               *)
(*                                                                         *)
(*   RegistrationsKept    what a registration was last changed to is not   *)
(*                        lost by a sequence of calls;                     *)
(*   TypeCorrect          the walk keeps its types (TypeOK);               *)
(*   FindsUntouchedHolds  a discovery that ends finds every tool whose     *)
(*                        registrations nobody touched, and none that no   *)
(*                        registration ever led to;                        *)
(*   FindsReachableHolds  while nobody writes it ends with exactly what is *)
(*                        registered, or raises: on a cycle, or where the  *)
(*                        root itself cannot be read.                      *)
(*                                                                         *)
(* The first is not inductive: that a file holds the latest depends on     *)
(* who is working on it and on what they hold. SpotInv says it of one      *)
(* file. WalkInv says of the walk what its frames hold, and that no        *)
(* aggregator is on the stack twice: with it the recursion is never deeper *)
(* than there are aggregators.                                             *)
(*                                                                         *)
(* The theorems about the result follow from FindInv. All that is ever     *)
(* written tells what a registration said at the start (SaysInv); each     *)
(* frame was entered from the one below through a kit that it loads, under *)
(* the name of the way there (ShapeInv), and holds what it has read        *)
(* (ReadInv). So a found name is a Trail (FoundPossible, FoundHere). For   *)
(* the converse no set of what was visited is needed: every Road is done   *)
(* with, or goes on through a kit that some frame of the stack has still   *)
(* to enter or is in (CompleteInv). The chains by which Discovery says     *)
(* what is reachable are a fold; IsLevels says of its n-th level that it   *)
(* has the chains of at most n steps. EndsInv and ActiveInv add how a walk *)
(* ends and what is active.                                                *)
(***************************************************************************)
EXTENDS Discovery, FiniteSetTheorems, SequenceTheorems, WellFoundedInduction, TLAPS

On(p, d, k) == Home[p] = d /\ job[p].kit = k
Clean(d, k) == Readable(origin[d][k]) /\ <<d, k>> \notin raced \cup cut \cup regrouped

IdleInv == \A p \in Procs : job[p].pc = "idle" => job[p].kit = None

Alone(d, k) == \A p, q \in Procs : On(p, d, k) /\ On(q, d, k) => p = q
FileSays(d, k) == /\ Readable(latest[d][k])
                  /\ Readable(file[d][k]) => file[d][k] = latest[d][k]
JobSays(d, k) ==
    \A p \in Procs : On(p, d, k) =>
        /\ job[p].pc # "unlinked"
        /\ job[p].pc = "open" => /\ Readable(job[p].data)
                                 /\ job[p].verb = "group" => job[p].data = latest[d][k]
        /\ job[p].pc = "dump" => job[p].data = latest[d][k] /\ file[d][k] = Torn
        /\ job[p].pc = "remove" => captured[p][k] = latest[d][k]
TornByJob(d, k) ==
    file[d][k] = Torn => \E p \in Procs : On(p, d, k) /\ job[p].pc = "dump"
AbsentCaptured(d, k) ==
    file[d][k] = Absent => \E p \in Procs : Home[p] = d /\ captured[p][k] = latest[d][k]

SpotInv(d, k) ==
    /\ Alone(d, k)
    /\ FileSays(d, k)
    /\ JobSays(d, k)
    /\ TornByJob(d, k)
    /\ AbsentCaptured(d, k)

RegistryInv ==
    /\ RegistryTypeOK
    /\ IdleInv
    /\ \A d \in Dirs, k \in Kits : Clean(d, k) => SpotInv(d, k)

Jobs == [pc : {"idle", "open", "dump", "unlinked", "remove"},
         kit : Kits \cup {None}, verb : Verbs, data : Files \ {Absent}]

USE DEF Readable

-----------------------------------------------------------------------------

\* At the start every file that is registered says what it says.
LEMMA RegistryInitInv == Init => RegistryInv
<1> SUFFICES ASSUME Init PROVE RegistryInv
  OBVIOUS
<1>1. PICK l \in Layouts : file = l.file /\ calls = l.calls
  BY DEF Init
<1>2. file \in [Dirs -> [Kits -> {Absent} \cup Registrations]] /\ calls \in [Procs -> Nat]
  BY <1>1, DiscoveryAssumption
<1>3. RegistryTypeOK
  BY <1>2, RegistryAssumption DEF Init, RegistryInit, RegistryTypeOK, Idle, Files, Verbs
<1>4. IdleInv
  BY DEF Init, RegistryInit, IdleInv, Idle
<1>5. ASSUME NEW d \in Dirs, NEW k \in Kits, Clean(d, k) PROVE SpotInv(d, k)
  <2>1. \A p \in Procs : ~On(p, d, k)
    BY RegistryAssumption DEF Init, RegistryInit, On, Idle
  <2>2. file[d][k] \notin {Absent, Torn} /\ latest = file
    BY <1>5 DEF Init, RegistryInit, Clean
  <2>. QED
    BY <2>1, <2>2 DEF SpotInv, Alone, FileSays, JobSays, TornByJob, AbsentCaptured
<1>. QED
  BY <1>3, <1>4, <1>5 DEF RegistryInv

\* A call that begins on a file is alone there, or the file is marked as raced for.
LEMMA BeginsAlone ==
  ASSUME NEW p \in Procs, NEW k \in Kits, NEW pc, NEW verb, NEW data,
         RegistryInv, Begins(p, k, pc, verb, data), regrouped \subseteq regrouped',
         NEW d \in Dirs, NEW x \in Kits, Clean(d, x)'
  PROVE  /\ Clean(d, x) /\ SpotInv(d, x)
         /\ Alone(d, x)'
         /\ d = Home[p] /\ x = k => \A q \in Procs : ~On(q, d, x)
         /\ d = Home[p] /\ x = k => file[d][x] # Torn
         /\ d = Home[p] /\ x = k => \A q \in Procs : On(q, d, x)' => q = p
<1>1. Clean(d, x)
  BY DEF Clean, Begins
<1>2. SpotInv(d, x)
  BY <1>1 DEF RegistryInv
<1>3. job[p].kit = None
  BY DEF RegistryInv, IdleInv, Begins
<1>4. \A q \in Procs \ {p} : job'[q] = job[q]
  BY DEF Begins, RegistryInv, RegistryTypeOK
<1>5. job'[p].kit = k
  BY DEF Begins, RegistryInv, RegistryTypeOK
<1>6. ASSUME d = Home[p], x = k PROVE \A q \in Procs : ~On(q, d, x)
  BY <1>3, <1>6, RegistryAssumption DEF Begins, Clean, On
<1>7. Alone(d, x)'
  <2>1. CASE d = Home[p] /\ x = k
    BY <2>1, <1>6, <1>4 DEF Alone, On
  <2>2. CASE ~(d = Home[p] /\ x = k)
    BY <2>2, <1>2, <1>4, <1>5 DEF SpotInv, Alone, On
  <2>. QED BY <2>1, <2>2
<1>8. d = Home[p] /\ x = k => file[d][x] # Torn
  BY <1>2, <1>6 DEF SpotInv, TornByJob
<1>9. d = Home[p] /\ x = k => \A q \in Procs : On(q, d, x)' => q = p
  BY <1>6, <1>4 DEF On
<1>. QED
  BY <1>1, <1>2, <1>6, <1>7, <1>8, <1>9

\* ... and keeps the types.
LEMMA BeginsType ==
  ASSUME NEW p \in Procs, NEW k \in Kits, NEW pc \in {"open", "remove"}, NEW verb \in Verbs,
         NEW data \in Files \ {Absent}, RegistryInv, Begins(p, k, pc, verb, data),
         captured' \in [Procs -> [Kits -> Files]], last' = last,
         regrouped' \subseteq Dirs \X Kits
  PROVE  RegistryTypeOK' /\ IdleInv'
<1> DEFINE new == [pc |-> pc, kit |-> k, verb |-> verb, data |-> data]
<1>1. job' = [job EXCEPT ![p] = new]
  BY DEF Begins
<1>2. new \in Jobs
  BY DEF Jobs
<1>3. job' \in [Procs -> Jobs]
  BY <1>1, <1>2 DEF RegistryInv, RegistryTypeOK, Jobs
<1>4. \A q \in Procs : job'[q] = IF q = p THEN new ELSE job[q]
  BY <1>1 DEF RegistryInv, RegistryTypeOK
<1>5. \A q \in Procs : job'[q].pc = "idle" <=> job'[q].kit = None
  <2>1. new.pc # "idle" /\ new.kit # None
    BY RegistryAssumption
  <2>2. \A q \in Procs : job[q].pc = "idle" <=> job[q].kit = None
    BY DEF RegistryInv, RegistryTypeOK, IdleInv
  <2>. HIDE DEF new
  <2>. QED
    BY <1>4, <2>1, <2>2
<1>6. calls' \in [Procs -> Nat]
  <2>1. calls \in [Procs -> Nat] /\ calls[p] > 0
    BY DEF Begins, RegistryInv, RegistryTypeOK
  <2>2. calls[p] - 1 \in Nat
    BY <2>1
  <2>. QED
    BY <2>1, <2>2 DEF Begins
<1>7. raced' \subseteq Dirs \X Kits
  <2>1. raced \subseteq Dirs \X Kits
    BY DEF RegistryInv, RegistryTypeOK
  <2>2. <<Home[p], k>> \in Dirs \X Kits
    BY RegistryAssumption
  <2>. QED
    BY <2>1, <2>2 DEF Begins
<1>. QED
  BY <1>3, <1>5, <1>6, <1>7 DEF Begins, RegistryInv, RegistryTypeOK, IdleInv, Jobs

-----------------------------------------------------------------------------
(* The calls begin *)

\* detach and attach carry what the file says.
LEMMA ModifyKeeps ==
  ASSUME NEW p \in Procs, NEW k \in Kits, NEW verb \in {"detach", "attach"}, RegistryInv,
         Modify(p, k, verb)
  PROVE  RegistryInv'
<1> DEFINE data == [file[Home[p]][k] EXCEPT !.pointer = (verb = "detach")]
<1>1. Begins(p, k, "open", verb, data) /\ UNCHANGED <<captured, last, regrouped>>
  BY DEF Modify
<1>2. file[Home[p]][k] \in Registrations
  BY RegistryAssumption DEF Modify, RegistryInv, RegistryTypeOK, Files
<1>3. data \in Registrations
  BY <1>2 DEF Registrations
<1>4. RegistryTypeOK' /\ IdleInv'
  <2>1. data \in Files \ {Absent} /\ verb \in Verbs
    BY <1>3, RegistryAssumption DEF Files, Verbs
  <2>2. captured' \in [Procs -> [Kits -> Files]] /\ regrouped' \subseteq Dirs \X Kits
    BY <1>1 DEF RegistryInv, RegistryTypeOK
  <2>. HIDE DEF data
  <2>. QED
    BY <1>1, <2>1, <2>2, BeginsType
<1>5. ASSUME NEW d \in Dirs, NEW x \in Kits, Clean(d, x)' PROVE SpotInv(d, x)'
  <2>1. /\ Clean(d, x) /\ SpotInv(d, x) /\ Alone(d, x)'
        /\ d = Home[p] /\ x = k => \A q \in Procs : On(q, d, x)' => q = p
    BY <1>1, <1>5, BeginsAlone
  <2>2. UNCHANGED <<file, captured, latest>>
    BY <1>1 DEF Begins
  <2>3. \A q \in Procs \ {p} : job'[q] = job[q]
    BY <1>1 DEF Begins, RegistryInv, RegistryTypeOK
  <2>4. job'[p] = [pc |-> "open", kit |-> k, verb |-> verb, data |-> data]
    BY <1>1 DEF Begins, RegistryInv, RegistryTypeOK
  <2>5. FileSays(d, x)' /\ AbsentCaptured(d, x)'
    BY <2>1, <2>2 DEF SpotInv, FileSays, AbsentCaptured
  <2>6. JobSays(d, x)'
    <3> SUFFICES ASSUME NEW q \in Procs, On(q, d, x)'
                 PROVE  /\ job'[q].pc # "unlinked"
                        /\ job'[q].pc = "open" =>
                             /\ Readable(job'[q].data)
                             /\ job'[q].verb = "group" => job'[q].data = latest'[d][x]
                        /\ job'[q].pc = "dump" => job'[q].data = latest'[d][x] /\ file'[d][x] = Torn
                        /\ job'[q].pc = "remove" => captured'[q][x] = latest'[d][x]
      BY DEF JobSays
    <3>1. CASE q = p
      <4>1. Readable(data) /\ verb # "group"
        BY <1>3, RegistryAssumption
      <4>2. job'[q].data = data /\ job'[q].pc = "open" /\ job'[q].verb = verb
        BY <3>1, <2>4
      <4>. HIDE DEF data
      <4>. QED
        BY <4>1, <4>2
    <3>2. CASE q # p
      BY <3>2, <2>1, <2>2, <2>3 DEF SpotInv, JobSays, On
    <3>. QED
      BY <3>1, <3>2
  <2>7. TornByJob(d, x)'
    BY <2>1, <2>2, <2>3, <1>1 DEF SpotInv, TornByJob, On, Begins, RegistryInv, IdleInv
  <2>. QED
    BY <2>1, <2>5, <2>6, <2>7 DEF SpotInv
<1>. QED
  BY <1>4, <1>5 DEF RegistryInv

\* ungroup keeps what the file says before it removes it.
LEMMA UngroupKeeps ==
  ASSUME NEW p \in Procs, NEW k \in Kits, RegistryInv, Ungroup(p, k)
  PROVE  RegistryInv'
<1>1. Begins(p, k, "remove", "ungroup", Torn) /\ UNCHANGED <<last, regrouped>>
  BY DEF Ungroup
<1>2. captured' = [captured EXCEPT ![p][k] = file[Home[p]][k]] /\ file[Home[p]][k] # Absent
  BY DEF Ungroup
<1>3. RegistryTypeOK' /\ IdleInv'
  <2>1. Torn \in Files \ {Absent} /\ "ungroup" \in Verbs
    BY RegistryAssumption DEF Files, Verbs
  <2>2. file[Home[p]][k] \in Files
    BY RegistryAssumption DEF RegistryInv, RegistryTypeOK
  <2>3. captured' \in [Procs -> [Kits -> Files]]
    BY <1>2, <2>2 DEF RegistryInv, RegistryTypeOK
  <2>. QED
    BY <1>1, <2>1, <2>3, BeginsType DEF RegistryInv, RegistryTypeOK
<1>4. ASSUME NEW d \in Dirs, NEW x \in Kits, Clean(d, x)' PROVE SpotInv(d, x)'
  <2>1. /\ Clean(d, x) /\ SpotInv(d, x) /\ Alone(d, x)'
        /\ d = Home[p] /\ x = k => file[d][x] # Torn
    BY <1>1, <1>4, BeginsAlone
  <2>2. UNCHANGED <<file, latest>>
    BY <1>1 DEF Begins
  <2>3. \A q \in Procs \ {p} : job'[q] = job[q]
    BY <1>1 DEF Begins, RegistryInv, RegistryTypeOK
  <2>4. job'[p].pc = "remove" /\ job'[p].kit = k /\ job[p].kit = None /\ job[p].pc = "idle"
    BY <1>1 DEF Begins, RegistryInv, RegistryTypeOK, IdleInv
  <2>5. \A q \in Procs, y \in Kits :
          captured'[q][y] = IF q = p /\ y = k THEN file[Home[p]][k] ELSE captured[q][y]
    BY <1>2 DEF RegistryInv, RegistryTypeOK
  <2>6. FileSays(d, x)' /\ AbsentCaptured(d, x)'
    BY <2>1, <2>2, <2>5, <1>2 DEF SpotInv, FileSays, AbsentCaptured
  <2>7. d = Home[p] /\ x = k => file[d][x] = latest[d][x]
    BY <2>1, <1>2 DEF SpotInv, FileSays
  <2>8. JobSays(d, x)'
    BY <2>1, <2>2, <2>3, <2>4, <2>5, <2>7 DEF SpotInv, JobSays, On
  <2>9. TornByJob(d, x)'
    BY <2>1, <2>2, <2>3, <2>4 DEF SpotInv, TornByJob, On
  <2>. QED
    BY <2>1, <2>6, <2>8, <2>9 DEF SpotInv
<1>. QED
  BY <1>3, <1>4 DEF RegistryInv

\* group carries what was captured last, or the file was there.
LEMMA GroupKeeps ==
  ASSUME NEW p \in Procs, NEW k \in Kits, RegistryInv, Group(p, k)
  PROVE  RegistryInv'
<1> DEFINE data == Bytes(p, k)
<1>1. Begins(p, k, "open", "group", data) /\ UNCHANGED <<captured, last>> /\ data # Absent
  BY DEF Group
<1>2. /\ regrouped' = regrouped \/ regrouped' = regrouped \cup {<<Home[p], k>>}
      /\ <<Home[p], k>> \notin regrouped' =>
           /\ file[Home[p]][k] = Absent
           /\ \A q \in Procs : Home[q] = Home[p] => captured[q][k] \in {Absent, data}
  BY DEF Group
<1>3. data \in Files
  BY RegistryAssumption DEF Bytes, RegistryInv, RegistryTypeOK
<1>. HIDE DEF data
<1>4. RegistryTypeOK' /\ IdleInv'
  <2>1. data \in Files \ {Absent} /\ "group" \in Verbs
    BY <1>1, <1>3 DEF Verbs
  <2>2. regrouped' \subseteq Dirs \X Kits
    BY <1>2, RegistryAssumption DEF RegistryInv, RegistryTypeOK
  <2>. QED
    BY <1>1, <2>1, <2>2, BeginsType DEF RegistryInv, RegistryTypeOK
<1>5. ASSUME NEW d \in Dirs, NEW x \in Kits, Clean(d, x)' PROVE SpotInv(d, x)'
  <2>1. /\ Clean(d, x) /\ SpotInv(d, x) /\ Alone(d, x)'
        /\ d = Home[p] /\ x = k => file[d][x] # Torn
    BY <1>1, <1>2, <1>5, BeginsAlone
  <2>2. UNCHANGED <<file, captured, latest>>
    BY <1>1 DEF Begins
  <2>3. \A q \in Procs \ {p} : job'[q] = job[q]
    BY <1>1 DEF Begins, RegistryInv, RegistryTypeOK
  <2>4. /\ job'[p].pc = "open" /\ job'[p].kit = k /\ job'[p].data = data
        /\ job[p].kit = None /\ job[p].pc = "idle"
    BY <1>1 DEF Begins, RegistryInv, RegistryTypeOK, IdleInv
  <2>5. FileSays(d, x)' /\ AbsentCaptured(d, x)'
    BY <2>1, <2>2 DEF SpotInv, FileSays, AbsentCaptured
  <2>6. d = Home[p] /\ x = k => data = latest[d][x] /\ Readable(data)
    <3> SUFFICES ASSUME d = Home[p], x = k PROVE data = latest[d][x] /\ Readable(data)
      OBVIOUS
    <3>1. file[d][x] = Absent /\ \A q \in Procs : Home[q] = d => captured[q][x] \in {Absent, data}
      BY <1>2, <1>5 DEF Clean
    <3>2. PICK q \in Procs : Home[q] = d /\ captured[q][x] = latest[d][x]
      BY <2>1, <3>1 DEF SpotInv, AbsentCaptured
    <3>3. Readable(latest[d][x])
      BY <2>1 DEF SpotInv, FileSays
    <3>. QED
      BY <3>1, <3>2, <3>3
  <2>7. JobSays(d, x)'
    BY <2>1, <2>2, <2>3, <2>4, <2>6 DEF SpotInv, JobSays, On
  <2>8. TornByJob(d, x)'
    BY <2>1, <2>2, <2>3, <2>4 DEF SpotInv, TornByJob, On
  <2>. QED
    BY <2>1, <2>5, <2>7, <2>8 DEF SpotInv
<1>. QED
  BY <1>4, <1>5 DEF RegistryInv

-----------------------------------------------------------------------------
(* The steps on the file *)

\* open() empties a file whose bytes the process holds.
LEMMA OpenKeeps ==
  ASSUME NEW p \in Procs, RegistryInv, Open(p)
  PROVE  RegistryInv'
<1> DEFINE k == job[p].kit
<1>1. /\ job[p].pc = "open" /\ k \in Kits
      /\ file' = [file EXCEPT ![Home[p]][k] = Torn]
      /\ job' = [job EXCEPT ![p].pc = "dump"]
      /\ latest' = IF job[p].verb = "group" THEN latest
                   ELSE [latest EXCEPT ![Home[p]][k] = job[p].data]
      /\ UNCHANGED <<captured, last, calls, origin, raced, cut, regrouped>>
  BY DEF Open, SetFile, RegistryInv, RegistryTypeOK
<1>2. \A d \in Dirs, x \in Kits :
        file'[d][x] = IF d = Home[p] /\ x = k THEN Torn ELSE file[d][x]
  BY <1>1, RegistryAssumption DEF RegistryInv, RegistryTypeOK
<1>7. \A d \in Dirs, x \in Kits :
        latest'[d][x] = IF d = Home[p] /\ x = k /\ job[p].verb # "group" THEN job[p].data
                        ELSE latest[d][x]
  BY <1>1, RegistryAssumption DEF RegistryInv, RegistryTypeOK
<1>3. \A q \in Procs : /\ job'[q].kit = job[q].kit /\ job'[q].data = job[q].data
                       /\ job'[q].pc = IF q = p THEN "dump" ELSE job[q].pc
  BY <1>1 DEF RegistryInv, RegistryTypeOK
<1>4. RegistryTypeOK'
  <2>1. file' \in [Dirs -> [Kits -> Files]]
    BY <1>1, RegistryAssumption DEF RegistryInv, RegistryTypeOK, Files
  <2>2. job' \in [Procs -> Jobs]
    <3>1. job \in [Procs -> Jobs]
      BY DEF RegistryInv, RegistryTypeOK, Jobs
    <3>2. [job[p] EXCEPT !.pc = "dump"] \in Jobs
      BY <3>1 DEF Jobs
    <3>. QED
      BY <1>1, <3>1, <3>2
  <2>3. latest' \in [Dirs -> [Kits -> Files]]
    <3>1. job[p].data \in Files
      BY DEF RegistryInv, RegistryTypeOK
    <3>. QED
      BY <1>1, <3>1, RegistryAssumption DEF RegistryInv, RegistryTypeOK
  <2>. QED
    BY <1>1, <1>3, <2>1, <2>2, <2>3 DEF RegistryInv, RegistryTypeOK, Jobs
<1>5. IdleInv'
  BY <1>3 DEF RegistryInv, IdleInv
<1>6. ASSUME NEW d \in Dirs, NEW x \in Kits, Clean(d, x)' PROVE SpotInv(d, x)'
  <2>1. Clean(d, x) /\ SpotInv(d, x)
    BY <1>1, <1>6 DEF Clean, RegistryInv, histories
  <2>2. Alone(d, x)'
    BY <2>1, <1>3 DEF SpotInv, Alone, On
  <2>6. d = Home[p] /\ x = k => Readable(job[p].data) /\ job[p].data = latest'[d][x]
    BY <2>1, <1>1, <1>7 DEF SpotInv, JobSays, On
  <2>3. FileSays(d, x)' /\ AbsentCaptured(d, x)'
    BY <2>1, <2>6, <1>1, <1>2, <1>7, RegistryAssumption DEF SpotInv, FileSays, AbsentCaptured
  <2>4. JobSays(d, x)'
    BY <2>1, <2>6, <1>1, <1>2, <1>3, <1>7 DEF SpotInv, JobSays, Alone, On
  <2>5. TornByJob(d, x)'
    BY <2>1, <1>1, <1>2, <1>3 DEF SpotInv, TornByJob, On
  <2>. QED
    BY <2>2, <2>3, <2>4, <2>5 DEF SpotInv
<1>. QED
  BY <1>4, <1>5, <1>6 DEF RegistryInv

\* A job that ends leaves every file it worked on to the others.
LEMMA EndsKeepsType ==
  ASSUME NEW p \in Procs, RegistryInv, job' = Ends(p),
         file' \in [Dirs -> [Kits -> Files]], captured' \in [Procs -> [Kits -> Files]],
         last' = last \/ (job[p].pc # "idle" /\ Applied(p)) \/ last' = [last EXCEPT ![p] = None],
         cut' \subseteq Dirs \X Kits, UNCHANGED <<calls, origin, latest, raced, regrouped>>
  PROVE  RegistryTypeOK' /\ IdleInv'
<1>1. job' \in [Procs -> Jobs]
  BY RegistryAssumption DEF RegistryInv, RegistryTypeOK, Jobs, Ends, Idle, Files, Verbs
<1>2. \A q \in Procs : job'[q] = IF q = p THEN Idle ELSE job[q]
  BY DEF RegistryInv, RegistryTypeOK, Ends
<1>3. (\A q \in Procs : job'[q].pc # "idle" => job'[q].kit # None) /\ IdleInv'
  <2>1. \A q \in Procs : job[q].pc = "idle" <=> job[q].kit = None
    BY DEF RegistryInv, RegistryTypeOK, IdleInv
  <2>2. Idle.pc = "idle" /\ Idle.kit = None
    BY DEF Idle
  <2>. QED
    BY <1>2, <2>1, <2>2 DEF IdleInv
<1>4. last' \in [Procs -> {None} \cup [kit : Kits, verb : {"group", "ungroup"}]]
  <2>1. last \in [Procs -> {None} \cup [kit : Kits, verb : {"group", "ungroup"}]]
    BY DEF RegistryInv, RegistryTypeOK
  <2>2. ASSUME job[p].pc # "idle", Applied(p)
        PROVE  last' \in [Procs -> {None} \cup [kit : Kits, verb : {"group", "ungroup"}]]
    <3>1. job[p].kit \in Kits
      BY <2>2 DEF RegistryInv, RegistryTypeOK
    <3>. QED
      BY <2>1, <2>2, <3>1 DEF Applied
  <2>3. [last EXCEPT ![p] = None]
          \in [Procs -> {None} \cup [kit : Kits, verb : {"group", "ungroup"}]]
    BY <2>1
  <2>. QED
    BY <2>1, <2>2, <2>3
<1>. QED
  BY <1>1, <1>3, <1>4 DEF RegistryInv, RegistryTypeOK, Jobs

\* What is dumped into the empty file is what the process held.
LEMMA DumpKeeps ==
  ASSUME NEW p \in Procs, RegistryInv, Dump(p)
  PROVE  RegistryInv'
<1> DEFINE k == job[p].kit
           new == Over(file[Home[p]][k], job[p].data)
<1>1. /\ job[p].pc = "dump" /\ k \in Kits
      /\ file' = [file EXCEPT ![Home[p]][k] = new]
      /\ job' = Ends(p) /\ Applied(p)
      /\ UNCHANGED <<captured, calls, histories>>
  BY DEF Dump, SetFile, Its, RegistryInv, RegistryTypeOK
<1>2. new \in Files
  BY <1>1, RegistryAssumption DEF Over, RegistryInv, RegistryTypeOK, Files
<1>. HIDE DEF new
<1>3. \A d \in Dirs, x \in Kits :
        file'[d][x] = IF d = Home[p] /\ x = k THEN new ELSE file[d][x]
  BY <1>1, RegistryAssumption DEF RegistryInv, RegistryTypeOK
<1>4. \A q \in Procs : job'[q] = IF q = p THEN Idle ELSE job[q]
  BY <1>1 DEF RegistryInv, RegistryTypeOK, Ends
<1>5. RegistryTypeOK' /\ IdleInv'
  <2>1. file' \in [Dirs -> [Kits -> Files]]
    BY <1>1, <1>2, RegistryAssumption DEF RegistryInv, RegistryTypeOK
  <2>. QED
    BY <1>1, <2>1, EndsKeepsType DEF RegistryInv, RegistryTypeOK, histories
<1>6. ASSUME NEW d \in Dirs, NEW x \in Kits, Clean(d, x)' PROVE SpotInv(d, x)'
  <2>1. Clean(d, x) /\ SpotInv(d, x)
    BY <1>1, <1>6 DEF Clean, RegistryInv, histories
  <2>2. \A q \in Procs : On(q, d, x)' => q # p /\ On(q, d, x)
    BY <1>4, RegistryAssumption DEF On, Idle
  <2>3. Alone(d, x)'
    BY <2>1, <2>2 DEF SpotInv, Alone
  <2>4. d = Home[p] /\ x = k => new = job[p].data /\ job[p].data = latest[d][x]
    BY <2>1, <1>1 DEF new, Over, SpotInv, FileSays, JobSays, On
  <2>5. FileSays(d, x)' /\ AbsentCaptured(d, x)'
    BY <2>1, <2>4, <1>1, <1>3 DEF SpotInv, FileSays, AbsentCaptured, histories
  <2>6. JobSays(d, x)'
    BY <2>1, <2>2, <1>1, <1>3, <1>4 DEF SpotInv, JobSays, Alone, On, histories
  <2>7. TornByJob(d, x)'
    BY <2>1, <2>4, <1>1, <1>3, <1>4 DEF SpotInv, FileSays, TornByJob, On
  <2>. QED
    BY <2>3, <2>5, <2>6, <2>7 DEF SpotInv
<1>. QED
  BY <1>5, <1>6 DEF RegistryInv

\* Nobody clean of races has its open file removed.
LEMMA DumpUnlinkedKeeps ==
  ASSUME NEW p \in Procs, RegistryInv, DumpUnlinked(p)
  PROVE  RegistryInv'
<1>1. /\ job[p].pc = "unlinked" /\ job' = Ends(p) /\ Applied(p)
      /\ UNCHANGED <<file, captured, calls, histories>>
  BY DEF DumpUnlinked
<1>2. \A q \in Procs : job'[q] = IF q = p THEN Idle ELSE job[q]
  BY <1>1 DEF RegistryInv, RegistryTypeOK, Ends
<1>3. RegistryTypeOK' /\ IdleInv'
  BY <1>1, EndsKeepsType DEF RegistryInv, RegistryTypeOK, histories
<1>4. ASSUME NEW d \in Dirs, NEW x \in Kits, Clean(d, x)' PROVE SpotInv(d, x)'
  <2>1. Clean(d, x) /\ SpotInv(d, x)
    BY <1>1, <1>4 DEF Clean, RegistryInv, histories
  <2>2. \A q \in Procs : On(q, d, x)' => q # p /\ On(q, d, x)
    BY <1>2, RegistryAssumption DEF On, Idle
  <2>. QED
    BY <2>1, <2>2, <1>1, <1>2 DEF SpotInv, Alone, FileSays, JobSays, TornByJob, AbsentCaptured,
       On, histories
<1>. QED
  BY <1>3, <1>4 DEF RegistryInv

\* A write that fails takes its file out of the promise.
LEMMA DumpFailsKeeps ==
  ASSUME NEW p \in Procs, RegistryInv, DumpFails(p)
  PROVE  RegistryInv'
<1>1. /\ job[p].pc \in {"dump", "unlinked"} /\ job' = Ends(p) /\ cut' = cut \cup {Spot(p)}
      /\ UNCHANGED <<file, captured, last, calls, origin, latest, raced, regrouped>>
  BY DEF DumpFails
<1>2. \A q \in Procs : job'[q] = IF q = p THEN Idle ELSE job[q]
  BY <1>1 DEF RegistryInv, RegistryTypeOK, Ends
<1>3. Spot(p) \in Dirs \X Kits
  BY <1>1, RegistryAssumption DEF Spot, RegistryInv, RegistryTypeOK
<1>4. RegistryTypeOK' /\ IdleInv'
  <2>1. cut' \subseteq Dirs \X Kits
    BY <1>1, <1>3 DEF RegistryInv, RegistryTypeOK
  <2>. QED
    BY <1>1, <2>1, EndsKeepsType DEF RegistryInv, RegistryTypeOK
<1>5. ASSUME NEW d \in Dirs, NEW x \in Kits, Clean(d, x)' PROVE SpotInv(d, x)'
  <2>1. Clean(d, x) /\ SpotInv(d, x) /\ ~On(p, d, x)
    BY <1>1, <1>5 DEF Clean, RegistryInv, Spot, On
  <2>2. \A q \in Procs : On(q, d, x)' => q # p /\ On(q, d, x)
    BY <1>2, RegistryAssumption DEF On, Idle
  <2>. QED
    BY <2>1, <2>2, <1>1, <1>2 DEF SpotInv, Alone, FileSays, JobSays, TornByJob, AbsentCaptured, On
<1>. QED
  BY <1>4, <1>5 DEF RegistryInv

\* A file that is removed was captured.
LEMMA RemoveFileKeeps ==
  ASSUME NEW p \in Procs, RegistryInv, RemoveFile(p)
  PROVE  RegistryInv'
<1> DEFINE k == job[p].kit
<1>1. /\ job[p].pc = "remove" /\ k \in Kits
      /\ file' = [file EXCEPT ![Home[p]][k] = Absent]
      /\ Applied(p)
      /\ UNCHANGED <<captured, calls, histories>>
  BY DEF RemoveFile, SetFile, RegistryInv, RegistryTypeOK
<1>2. \A d \in Dirs, x \in Kits :
        file'[d][x] = IF d = Home[p] /\ x = k THEN Absent ELSE file[d][x]
  BY <1>1, RegistryAssumption DEF RegistryInv, RegistryTypeOK
<1>3. \A q \in Procs :
        job'[q] = IF q = p THEN Idle
                  ELSE IF job[q].pc = "dump" /\ Spot(q) = Spot(p)
                       THEN [job[q] EXCEPT !.pc = "unlinked"] ELSE job[q]
  BY DEF RemoveFile
<1>4. RegistryTypeOK' /\ IdleInv'
  <2>1. file' \in [Dirs -> [Kits -> Files]]
    BY <1>1, RegistryAssumption DEF RegistryInv, RegistryTypeOK, Files
  <2>2. job \in [Procs -> Jobs]
    BY DEF RegistryInv, RegistryTypeOK, Jobs
  <2>3. Idle \in Jobs
    BY RegistryAssumption DEF Jobs, Idle, Files, Verbs
  <2>4. \A q \in Procs : [job[q] EXCEPT !.pc = "unlinked"] \in Jobs
    BY <2>2 DEF Jobs
  <2>5. job' \in [Procs -> Jobs]
    BY <2>2, <2>3, <2>4 DEF RemoveFile
  <2>6. \A q \in Procs : job[q].pc = "idle" <=> job[q].kit = None
    BY DEF RegistryInv, RegistryTypeOK, IdleInv
  <2>7. \A q \in Procs : job'[q].pc = "idle" <=> job'[q].kit = None
    <3> SUFFICES ASSUME NEW q \in Procs PROVE job'[q].pc = "idle" <=> job'[q].kit = None
      OBVIOUS
    <3>1. Idle.pc = "idle" /\ Idle.kit = None
      BY DEF Idle
    <3>2. CASE q = p
      BY <1>3, <3>1, <3>2
    <3>3. CASE q # p /\ job'[q] = job[q]
      BY <3>3, <2>6
    <3>4. CASE q # p /\ job'[q] # job[q]
      <4>1. job[q].pc = "dump" /\ job'[q] = [job[q] EXCEPT !.pc = "unlinked"]
        BY <1>3, <3>4
      <4>2. job'[q].pc = "unlinked" /\ job'[q].kit = job[q].kit
        BY <4>1, <2>2 DEF Jobs
      <4>. QED
        BY <4>1, <4>2, <2>6
    <3>. QED
      BY <3>2, <3>3, <3>4
  <2>8. last' \in [Procs -> {None} \cup [kit : Kits, verb : {"group", "ungroup"}]]
    BY <1>1 DEF RegistryInv, RegistryTypeOK, Applied
  <2>. QED
    BY <1>1, <2>1, <2>5, <2>7, <2>8 DEF RegistryInv, RegistryTypeOK, IdleInv, Jobs, histories
<1>5. ASSUME NEW d \in Dirs, NEW x \in Kits, Clean(d, x)' PROVE SpotInv(d, x)'
  <2>1. Clean(d, x) /\ SpotInv(d, x)
    BY <1>1, <1>5 DEF Clean, RegistryInv, histories
  <2>2. \A q \in Procs : On(q, d, x)' => q # p /\ On(q, d, x) /\ job'[q] = job[q]
    <3> SUFFICES ASSUME NEW q \in Procs, On(q, d, x)'
                 PROVE  q # p /\ On(q, d, x) /\ job'[q] = job[q]
      OBVIOUS
    <3>1. q # p
      <4>1. job'[p].kit = None
        <5>1. job'[p] = Idle
          BY <1>3
        <5>. QED
          BY <5>1 DEF Idle
      <4>. QED
        BY <4>1, RegistryAssumption DEF On
    <3>2. job'[q].kit = job[q].kit
      BY <1>3, <3>1 DEF RegistryInv, RegistryTypeOK
    <3>3. On(q, d, x)
      BY <3>2 DEF On
    <3>4. Spot(q) # Spot(p)
      BY <2>1, <3>1, <3>3 DEF SpotInv, Alone, On, Spot
    <3>. QED
      BY <1>3, <3>1, <3>3, <3>4
  <2>3. Alone(d, x)'
    BY <2>1, <2>2 DEF SpotInv, Alone
  <2>4. d = Home[p] /\ x = k => /\ captured[p][x] = latest[d][x]
                                /\ \A q \in Procs : On(q, d, x) => q = p
    BY <2>1, <1>1 DEF SpotInv, JobSays, Alone, On
  <2>5. FileSays(d, x)'
    BY <2>1, <1>1, <1>2 DEF SpotInv, FileSays, histories
  <2>6. AbsentCaptured(d, x)'
    BY <2>1, <2>4, <1>1, <1>2 DEF SpotInv, AbsentCaptured, histories
  <2>7. JobSays(d, x)'
    BY <2>1, <2>2, <2>4, <1>1, <1>2 DEF SpotInv, JobSays, histories
  <2>8. TornByJob(d, x)'
    <3> SUFFICES ASSUME file'[d][x] = Torn
                 PROVE  \E q \in Procs : On(q, d, x)' /\ job'[q].pc = "dump"
      BY DEF TornByJob
    <3>1. file[d][x] = Torn /\ ~(d = Home[p] /\ x = k)
      BY <1>2, RegistryAssumption
    <3>2. PICK q \in Procs : On(q, d, x) /\ job[q].pc = "dump"
      BY <2>1, <3>1 DEF SpotInv, TornByJob
    <3>3. q # p /\ Spot(q) # Spot(p)
      BY <3>1, <3>2, <1>1 DEF On, Spot
    <3>4. job'[q] = job[q]
      BY <3>3, <1>3
    <3>. QED
      BY <3>2, <3>4 DEF On
  <2>. QED
    BY <2>3, <2>5, <2>6, <2>7, <2>8 DEF SpotInv
<1>. QED
  BY <1>4, <1>5 DEF RegistryInv

LEMMA CallFailsKeeps ==
  ASSUME NEW p \in Procs, RegistryInv, CallFails(p)
  PROVE  RegistryInv'
<1>1. /\ job[p].pc \in {"open", "remove"} /\ job' = Ends(p)
      /\ UNCHANGED <<file, captured, last, calls, histories>>
  BY DEF CallFails
<1>2. \A q \in Procs : job'[q] = IF q = p THEN Idle ELSE job[q]
  BY <1>1 DEF RegistryInv, RegistryTypeOK, Ends
<1>3. RegistryTypeOK' /\ IdleInv'
  BY <1>1, EndsKeepsType DEF RegistryInv, RegistryTypeOK, histories
<1>4. ASSUME NEW d \in Dirs, NEW x \in Kits, Clean(d, x)' PROVE SpotInv(d, x)'
  <2>1. Clean(d, x) /\ SpotInv(d, x)
    BY <1>1, <1>4 DEF Clean, RegistryInv, histories
  <2>2. \A q \in Procs : On(q, d, x)' => q # p /\ On(q, d, x)
    BY <1>2, RegistryAssumption DEF On, Idle
  <2>. QED
    BY <2>1, <2>2, <1>1, <1>2 DEF SpotInv, Alone, FileSays, JobSays, TornByJob, AbsentCaptured,
       On, histories
<1>. QED
  BY <1>3, <1>4 DEF RegistryInv

\* A process that is killed takes its files out of the promise.
LEMMA KilledKeeps ==
  ASSUME NEW p \in Procs, RegistryInv, Killed(p)
  PROVE  RegistryInv'
<1> DEFINE lost == {<<Home[p], k>> : k \in {j \in Kits : j = job[p].kit \/ captured[p][j] # Absent}}
<1>1. /\ cut' = cut \cup lost
      /\ job' = Ends(p) /\ last' = [last EXCEPT ![p] = None]
      /\ captured' = [captured EXCEPT ![p] = [k \in Kits |-> Absent]]
      /\ UNCHANGED <<file, calls, origin, latest, raced, regrouped>>
  BY DEF Killed
<1>2. \A q \in Procs : job'[q] = IF q = p THEN Idle ELSE job[q]
  BY <1>1 DEF RegistryInv, RegistryTypeOK, Ends
<1>3. \A q \in Procs, y \in Kits : captured'[q][y] = IF q = p THEN Absent ELSE captured[q][y]
  BY <1>1 DEF RegistryInv, RegistryTypeOK
<1>4. RegistryTypeOK' /\ IdleInv'
  <2>1. cut' \subseteq Dirs \X Kits
    <3>1. Home[p] \in Dirs
      BY RegistryAssumption
    <3>2. lost \subseteq Dirs \X Kits
      BY <3>1
    <3>. HIDE DEF lost
    <3>. QED
      BY <1>1, <3>2 DEF RegistryInv, RegistryTypeOK
  <2>2. captured' \in [Procs -> [Kits -> Files]]
    BY <1>1 DEF RegistryInv, RegistryTypeOK, Files
  <2>. QED
    BY <1>1, <2>1, <2>2, EndsKeepsType DEF RegistryInv, RegistryTypeOK
<1>5. ASSUME NEW d \in Dirs, NEW x \in Kits, Clean(d, x)' PROVE SpotInv(d, x)'
  <2>1. Clean(d, x) /\ SpotInv(d, x) /\ <<d, x>> \notin lost
    BY <1>1, <1>5 DEF Clean, RegistryInv
  <2>2. d = Home[p] => x # job[p].kit /\ captured[p][x] = Absent
    BY <2>1
  <2>3. \A q \in Procs : On(q, d, x)' <=> q # p /\ On(q, d, x)
    BY <1>2, <2>2, RegistryAssumption DEF On, Idle
  <2>4. ~On(p, d, x)
    BY <2>2 DEF On
  <2>. HIDE DEF lost
  <2>5. Alone(d, x)' /\ FileSays(d, x)'
    BY <2>1, <2>3, <1>1 DEF SpotInv, Alone, FileSays
  <2>6. JobSays(d, x)'
    BY <2>1, <2>3, <1>1, <1>2, <1>3 DEF SpotInv, JobSays
  <2>7. TornByJob(d, x)'
    BY <2>1, <2>3, <2>4, <1>1, <1>2 DEF SpotInv, TornByJob
  <2>8. AbsentCaptured(d, x)'
    BY <2>1, <2>2, <1>1, <1>3 DEF SpotInv, FileSays, AbsentCaptured
  <2>. QED
    BY <2>5, <2>6, <2>7, <2>8 DEF SpotInv
<1>. QED
  BY <1>4, <1>5 DEF RegistryInv

-----------------------------------------------------------------------------

\* undo() is an ungroup or a group.
LEMMA RegistryKeeps == ASSUME RegistryInv, RegistryNext PROVE RegistryInv'
<1> SUFFICES ASSUME NEW p \in Procs,
                    (\E k \in Kits : Call(p, k)) \/ UndoMove(p) \/ Step(p) \/ Killed(p)
             PROVE  RegistryInv'
  BY DEF RegistryNext
<1>1. ASSUME NEW k \in Kits, Call(p, k) PROVE RegistryInv'
  <2>1. CASE Detach(p, k)
    BY <2>1, ModifyKeeps DEF Detach
  <2>2. CASE Attach(p, k)
    BY <2>2, ModifyKeeps DEF Attach
  <2>3. CASE Ungroup(p, k)
    BY <2>3, UngroupKeeps
  <2>4. CASE Group(p, k)
    BY <2>4, GroupKeeps
  <2>. QED
    BY <1>1, <2>1, <2>2, <2>3, <2>4 DEF Call
<1>2. CASE UndoMove(p)
  <2>1. last[p].kit \in Kits
    BY <1>2 DEF UndoMove, RegistryInv, RegistryTypeOK
  <2>. QED
    BY <1>2, <2>1, UngroupKeeps, GroupKeeps DEF UndoMove
<1>3. CASE Step(p)
  BY <1>3, OpenKeeps, DumpKeeps, DumpUnlinkedKeeps, DumpFailsKeeps, RemoveFileKeeps, CallFailsKeeps
     DEF Step
<1>4. CASE Killed(p)
  BY <1>4, KilledKeeps
<1>. QED
  BY <1>1, <1>2, <1>3, <1>4

LEMMA RegistryStutters == ASSUME RegistryInv, UNCHANGED registryVars PROVE RegistryInv'
BY DEF registryVars, histories, RegistryInv, RegistryTypeOK, IdleInv, Clean, SpotInv, Alone,
   FileSays, JobSays, TornByJob, AbsentCaptured, On

\* The walk reads registrations and writes none.
LEMMA WalkReads == Begin \/ Walk => UNCHANGED registryVars
BY DEF Begin, Walk, ReadKit, ReadFails, Partition, Descend, Cycle, Return, Finish

\* What the registrations and the processes on them are keeps its type; each file that
\* no two processes met on, and none left torn, says what it was last changed to or is
\* held by the one process that is working on it.
THEOREM RegistryInvariant == Spec => []RegistryInv
<1>1. Init => RegistryInv
  BY RegistryInitInv
<1>2. RegistryInv /\ [Next]_vars => RegistryInv'
  BY RegistryKeeps, RegistryStutters, WalkReads DEF Next, Other, vars
<1>. QED
  BY <1>1, <1>2, PTL DEF Spec

\* KitMembershipContext: no order of detach, attach, group, ungroup and undo loses what a
\* registration was last changed to, unless two processes met on its file, one was killed or
\* failed to write while it had it, or a group() put back bytes that were not the last.
THEOREM RegistrationsKept == Spec => []RegistrationKept
<1>1. RegistryInv => RegistrationKept
  <2> SUFFICES ASSUME RegistryInv, NEW d \in Dirs, NEW k \in Kits, Clean(d, k)
               PROVE  Held(d, k)
    BY DEF RegistrationKept, Clean
  <2>1. SpotInv(d, k)
    BY DEF RegistryInv
  <2>2. CASE Readable(file[d][k])
    BY <2>1, <2>2 DEF SpotInv, FileSays, Held
  <2>3. CASE file[d][k] = Absent
    BY <2>1, <2>3 DEF SpotInv, AbsentCaptured, Held
  <2>4. CASE file[d][k] = Torn
    <3>1. PICK p \in Procs : On(p, d, k) /\ job[p].pc = "dump"
      BY <2>1, <2>4 DEF SpotInv, TornByJob
    <3>2. job[p].data = latest[d][k]
      BY <2>1, <3>1 DEF SpotInv, JobSays
    <3>. QED
      BY <3>1, <3>2 DEF Held, On
  <2>. QED
    BY <2>2, <2>3, <2>4
<1>. QED
  BY <1>1, RegistryInvariant, PTL

-----------------------------------------------------------------------------
(* The walk. *)

\* A set of numbers has a least member.
LEMMA Least ==
    ASSUME NEW T, T \subseteq Nat, T # {}
    PROVE  \E x \in T : \A y \in T : x <= y
<1> DEFINE R == OpToRel(<, Nat)
<1>1. IsWellFoundedOn(R, Nat)
  BY NatLessThanWellFounded
<1>2. PICK x \in T : \A y \in T : ~(<<y, x>> \in R)
  <2> HIDE DEF R
  <2> QED
    BY <1>1, WFMin
<1>3. \A y \in T : y < x => <<y, x>> \in R
  BY DEF OpToRel
<1>4. \A y \in T : x <= y
  <2> HIDE DEF R
  <2>1. x \in Nat /\ \A y \in T : y \in Nat /\ ~(y < x)
    BY <1>2, <1>3
  <2> QED
    BY <2>1
<1> QED
  BY <1>4

\* The first of some kits is one of them.
LEMMA FirstOf == ASSUME NEW kits \in SUBSET Kits, kits # {} PROVE First(kits) \in kits
<1> DEFINE T == {i \in DOMAIN Order : Order[i] \in kits}
<1>1. T \subseteq Nat /\ T # {}
  BY DiscoveryAssumption
<1>2. \E x \in T : \A y \in T : x <= y
  <2> HIDE DEF T
  <2> QED
    BY <1>1, Least
<1>3. Min(T) \in T
  <2> HIDE DEF T
  <2> QED
    BY <1>2 DEF Min
<1>4. First(kits) = Order[Min(T)]
  BY DEF First
<1> QED
  BY <1>3, <1>4

KitType == [kit : Kits, virtual : BOOLEAN, pointer : BOOLEAN, tools : SUBSET Refs,
            base : Bases \cup {None}, override : Bases \cup {None}]

\* A frame looks for tools in a directory of its aggregator, and the kits it still has
\* to descend into are aggregators it read.
FrameOK(f) ==
    /\ f \in FrameType
    /\ \A k \in f.todo : child[f.dir][k] # None /\ \E x \in f.kits : x.kit = k
StackOK ==
    /\ stack \in Seq(FrameType)
    /\ \A i \in DOMAIN stack : FrameOK(stack[i])
    /\ \A i, j \in DOMAIN stack : stack[i].dir = stack[j].dir => i = j
WalkInv ==
    /\ own \in [Dirs -> [Kits -> {None, Broken} \cup Manifests]]
    /\ child \in [Dirs -> [Kits -> Dirs \cup {None}]]
    /\ settings \in Settings
    /\ StackOK
    /\ status \in {"none", "walking", "done", "cycle", "failed"}
    /\ (status = "walking") <=> (stack # <<>>)
    /\ touched \subseteq Dirs \X Kits

\* What a registration that can be read says, if it is not broken.
LEMMA SaysType ==
    ASSUME RegistryTypeOK, NEW d \in Dirs, NEW k \in Kits, Readable(file[d][k])
    PROVE  /\ file[d][k].pointer \in BOOLEAN
           /\ ~IsBroken(file[d][k]) =>
                /\ file[d][k].says.virtual \in BOOLEAN
                /\ file[d][k].says.tools \in SUBSET Refs
                /\ file[d][k].says.base \in Bases \cup {None}
                /\ file[d][k].says.override \in Bases \cup {None}
<1>1. file[d][k] \in Registrations
  BY DEF RegistryTypeOK, Files
<1>2. file[d][k].pointer \in BOOLEAN /\ file[d][k].says \in Contents
  BY <1>1 DEF Registrations
<1>3. ASSUME ~IsBroken(file[d][k])
      PROVE  file[d][k].says \in
               [virtual : BOOLEAN, tools : SUBSET Refs, base : Bases \cup {None},
                override : Bases \cup {None}, named : BOOLEAN]
  BY <1>2, <1>3, DiscoveryAssumption DEF IsBroken
<1> QED
  BY <1>2, <1>3

LEMMA KitRecord ==
    ASSUME NEW k \in Kits, NEW v \in BOOLEAN, NEW q \in BOOLEAN, NEW ts \in SUBSET Refs,
           NEW b \in Bases \cup {None}, NEW o \in Bases \cup {None}, NEW kit,
           kit = [kit |-> k, virtual |-> v, pointer |-> q, tools |-> ts, base |-> b,
                  override |-> o]
    PROVE  kit \in KitType /\ kit.kit = k
BY Zenon DEF KitType

\* One registration alone that bears the kit's name is read before anything
\* could stop the look, so it is not broken where that does not raise.
LEMMA OwnOnlySound ==
    ASSUME NEW c \in Dirs, NEW k \in Kits, OwnOnly(c, k), ~LookRaises(c)
    PROVE  ~IsBroken(file[c][k])
<1> SUFFICES ASSUME IsBroken(file[c][k]) PROVE FALSE
  OBVIOUS
<1>1. PICK i \in DOMAIN Order : Order[i] = k
  BY DiscoveryAssumption
<1>2. \A x \in Kits : ~HasBase(c, x)
  <2> TAKE x \in Kits
  <2>1. CASE x = k
    BY <2>1 DEF HasBase, Physical
  <2>2. CASE x # k
    <3>1. file[c][x] = Absent
      BY <2>2 DEF OwnOnly
    <3> QED
      BY <3>1 DEF HasBase, Physical, Readable
  <2> QED
    BY <2>1, <2>2
<1>3. \A j \in 1..(i - 1) : ~HasBase(c, Order[j])
  <2> TAKE j \in 1..(i - 1)
  <2>1. Order[j] \in Kits
    BY DiscoveryAssumption
  <2> QED
    BY <1>2, <2>1
<1> QED
  BY <1>1, <1>3 DEF LookRaises

\* What is known of the directory of tools from inside is one.
LEMMA BaseInsideType ==
    ASSUME RegistryTypeOK, NEW c \in Dirs
    PROVE  BaseInside(c) \in Bases \cup {None}
<1> DEFINE having == {x \in Kits : HasBase(c, x)}
<1>1. CASE having = {}
  BY <1>1 DEF BaseInside
<1>2. CASE having # {}
  <2>1. First(having) \in having
    BY <1>2, FirstOf
  <2>2. First(having) \in Kits /\ HasBase(c, First(having))
    BY <2>1
  <2>3. BaseInside(c) = file[c][First(having)].says.base
    BY <1>2 DEF BaseInside
  <2> HIDE DEF having
  <2> QED
    BY <2>2, <2>3, SaysType DEF HasBase, Physical
<1> QED
  BY <1>1, <1>2

\* What is merged from a registration that does not raise is a kit.
LEMMA MergedType ==
    ASSUME RegistryTypeOK, WalkInv, NEW d \in Dirs, NEW k \in Kits, NEW base,
           Readable(file[d][k]), ~Raises(d, k, base)
    PROVE  Merged(d, k, base) \in KitType /\ Merged(d, k, base).kit = k
<1> DEFINE reg == file[d][k]
           c == Inside(d, k, base)
           mine == Manifest(d, k, base)
           over(other) == IF reg.says.override # None THEN reg.says.override ELSE other
<1>1. /\ reg.pointer \in BOOLEAN /\ reg.says.virtual \in BOOLEAN
      /\ reg.says.tools \in SUBSET Refs /\ reg.says.base \in Bases \cup {None}
      /\ reg.says.override \in Bases \cup {None}
  BY SaysType DEF Raises
<1>2. c \in Dirs \cup {None} /\ mine \in {None, Broken} \cup Manifests
  BY DEF WalkInv, Inside, Manifest
<1>3. ~reg.says.virtual => mine # Broken
  BY DEF Raises
<1> DEFINE no == FALSE
<1>4. no \in BOOLEAN
  OBVIOUS
<1>5. CASE mine # None /\ ~reg.says.virtual
  <2>1. Merged(d, k, base) = [kit |-> k, virtual |-> no, pointer |-> reg.pointer,
                              tools |-> mine.tools, base |-> mine.base,
                              override |-> over(mine.override)]
    BY <1>5 DEF Merged
  <2>2. /\ mine.tools \in SUBSET Refs /\ mine.base \in Bases \cup {None}
        /\ mine.override \in Bases \cup {None}
    BY <1>2, <1>3, <1>5 DEF Manifests
  <2> DEFINE o == over(mine.override)
  <2>3. o \in Bases \cup {None}
    BY <1>1, <2>2
  <2>4. Merged(d, k, base) = [kit |-> k, virtual |-> no, pointer |-> reg.pointer,
                              tools |-> mine.tools, base |-> mine.base, override |-> o]
    BY <2>1
  <2> HIDE DEF reg, mine, no, o
  <2> QED
    BY <1>1, <1>4, <2>2, <2>3, <2>4, KitRecord
<1>6. CASE ~(mine # None /\ ~reg.says.virtual) /\ c # None /\ ~reg.says.virtual /\ OwnOnly(c, k)
  <2>1. c \in Dirs /\ Readable(file[c][k])
    BY <1>2, <1>6 DEF OwnOnly
  <2>2. ~LookRaises(c)
    BY <1>6 DEF Raises
  <2>3. ~IsBroken(file[c][k])
    BY <1>6, <2>1, <2>2, OwnOnlySound
  <2> DEFINE its == file[c][k]
  <2>4. /\ its.pointer \in BOOLEAN /\ its.says.virtual \in BOOLEAN
        /\ its.says.tools \in SUBSET Refs /\ its.says.base \in Bases \cup {None}
        /\ its.says.override \in Bases \cup {None}
    BY <2>1, <2>3, SaysType
  <2>5. Merged(d, k, base) = [kit |-> k, virtual |-> its.says.virtual,
                              pointer |-> reg.pointer \/ its.pointer,
                              tools |-> its.says.tools, base |-> its.says.base,
                              override |-> over(its.says.override)]
    BY <1>6 DEF Merged
  <2> DEFINE q == reg.pointer \/ its.pointer
             o == over(its.says.override)
  <2>6. q \in BOOLEAN /\ o \in Bases \cup {None}
    BY <1>1, <2>4
  <2>7. Merged(d, k, base) = [kit |-> k, virtual |-> its.says.virtual, pointer |-> q,
                              tools |-> its.says.tools, base |-> its.says.base, override |-> o]
    BY <2>5
  <2> HIDE DEF reg, c, q, o, its
  <2> QED
    BY <2>4, <2>6, <2>7, KitRecord
<1>7. CASE /\ ~(mine # None /\ ~reg.says.virtual)
           /\ ~(c # None /\ ~reg.says.virtual /\ OwnOnly(c, k))
           /\ c # None /\ ~reg.says.virtual /\ Hinted(c)
  <2> DEFINE inner == BaseInside(c)
             nothing == {}
  <2>1. Merged(d, k, base) =
          [kit |-> k, virtual |-> no, pointer |-> reg.pointer, tools |-> nothing,
           base |-> inner, override |-> reg.says.override]
    BY <1>7 DEF Merged
  <2>2. inner \in Bases \cup {None} /\ nothing \in SUBSET Refs
    BY <1>2, <1>7, BaseInsideType
  <2> HIDE DEF reg, c, no, inner, nothing
  <2> QED
    BY <1>1, <1>4, <2>1, <2>2, KitRecord
<1>8. CASE /\ ~(mine # None /\ ~reg.says.virtual)
           /\ ~(c # None /\ ~reg.says.virtual /\ OwnOnly(c, k))
           /\ ~(c # None /\ ~reg.says.virtual /\ Hinted(c))
  <2>1. Merged(d, k, base) = [kit |-> k, virtual |-> reg.says.virtual, pointer |-> reg.pointer,
                              tools |-> reg.says.tools, base |-> reg.says.base,
                              override |-> reg.says.override]
    <3> HIDE DEF over
    <3> QED
      BY <1>8, Zenon DEF Merged, over
  <2> HIDE DEF reg
  <2> QED
    BY <1>1, <2>1, KitRecord
<1> QED
  <2> HIDE DEF reg, c, mine
  <2> QED
    BY <1>5, <1>6, <1>7, <1>8

-----------------------------------------------------------------------------
(* Frames and the stack of them. *)

ProjectType == [name : Seq(Kits \cup Tools), active : BOOLEAN]
VirtualType == [name : Seq(Kits), active : BOOLEAN]

LEMMA NewFrame ==
    ASSUME NEW d \in Dirs, NEW name \in Seq(Kits), NEW base \in Bases
    PROVE  LET f == Frame(d, name, base) IN f \in FrameType /\ f.dir = d /\ f.todo = {}
BY DiscoveryAssumption DEF FrameType, Frame

LEMMA FrameFields ==
    ASSUME NEW f \in FrameType
    PROVE  /\ f.dir \in Dirs /\ f.base \in Bases /\ f.name \in Seq(Kits)
           /\ f.unread \in Seq(Kits) /\ f.kits \in SUBSET KitType /\ f.todo \in SUBSET Kits
           /\ f.projects \in SUBSET ProjectType /\ f.virtuals \in SUBSET VirtualType
BY DEF FrameType, KitType, ProjectType, VirtualType

\* The updates of a frame.
LEMMA FrameReads ==
    ASSUME NEW f \in FrameType, NEW unread \in Seq(Kits), NEW kits \in SUBSET KitType
    PROVE  LET g == [f EXCEPT !.unread = unread, !.kits = kits] IN
           g \in FrameType /\ g.dir = f.dir /\ g.todo = f.todo /\ g.kits = kits
BY DEF FrameType, KitType
LEMMA FrameGoesOn ==
    ASSUME NEW f \in FrameType, NEW todo \in SUBSET Kits
    PROVE  LET g == [f EXCEPT !.todo = todo] IN
           g \in FrameType /\ g.dir = f.dir /\ g.todo = todo /\ g.kits = f.kits
BY DEF FrameType
LEMMA FrameTakesOver ==
    ASSUME NEW f \in FrameType, NEW ps \in SUBSET ProjectType, NEW vs \in SUBSET VirtualType
    PROVE  LET g == [f EXCEPT !.projects = ps, !.virtuals = vs] IN
           g \in FrameType /\ g.dir = f.dir /\ g.todo = f.todo /\ g.kits = f.kits
BY DEF FrameType, ProjectType, VirtualType

\* The top frame of a walk is a frame.
LEMMA TopFrame ==
    ASSUME WalkInv, Walking
    PROVE  /\ Len(stack) \in Nat /\ Len(stack) > 0 /\ DOMAIN stack = 1..Len(stack)
           /\ Top = stack[Len(stack)] /\ Top \in FrameType /\ FrameOK(Top)
<1>1. stack \in Seq(FrameType) /\ stack # <<>> /\ \A i \in DOMAIN stack : FrameOK(stack[i])
  BY DEF WalkInv, StackOK, Walking
<1>2. Len(stack) \in Nat /\ Len(stack) > 0 /\ DOMAIN stack = 1..Len(stack)
  BY <1>1
<1> QED
  BY <1>1, <1>2 DEF Top

\* A frame may take another's place that is of the same aggregator, ...
LEMMA StackReplaced ==
    ASSUME WalkInv, NEW i \in 1..Len(stack), NEW f, f \in FrameType, f.dir = stack[i].dir,
           FrameOK(f), child' = child, stack' = [stack EXCEPT ![i] = f]
    PROVE  StackOK' /\ stack' # <<>> /\ Len(stack') = Len(stack)
<1>1. /\ stack \in Seq(FrameType) /\ \A j \in DOMAIN stack : FrameOK(stack[j])
      /\ \A j, k \in DOMAIN stack : stack[j].dir = stack[k].dir => j = k
  BY DEF WalkInv, StackOK
<1>2. /\ stack' \in Seq(FrameType) /\ Len(stack') = Len(stack)
      /\ \A j \in 1..Len(stack) : stack'[j] = IF j = i THEN f ELSE stack[j]
  BY <1>1, ExceptSeq
<1>3. DOMAIN stack' = 1..Len(stack) /\ DOMAIN stack = 1..Len(stack) /\ Len(stack) \in Nat
  BY <1>1, <1>2
<1>4. \A j \in DOMAIN stack' : FrameOK(stack[j])'
  BY <1>1, <1>2, <1>3 DEF FrameOK
<1>5. \A j, k \in DOMAIN stack' : stack'[j].dir = stack'[k].dir => j = k
  <2>1. \A j \in 1..Len(stack) : stack'[j].dir = stack[j].dir
    BY <1>2
  <2> QED
    BY <1>1, <1>3, <2>1
<1>6. stack' # <<>>
  BY <1>2, <1>3
<1> QED
  BY <1>2, <1>4, <1>5, <1>6 DEF StackOK

\* ... one may be put on top whose aggregator is not on the stack, ...
LEMMA StackPushed ==
    ASSUME WalkInv, NEW f, f \in FrameType, f.todo = {},
           ~OnStack(f.dir), child' = child, stack' = Append(stack, f)
    PROVE  StackOK' /\ stack' # <<>>
<1>1. /\ stack \in Seq(FrameType) /\ \A j \in DOMAIN stack : FrameOK(stack[j])
      /\ \A j, k \in DOMAIN stack : stack[j].dir = stack[k].dir => j = k
  BY DEF WalkInv, StackOK
<1>2. /\ stack' \in Seq(FrameType) /\ Len(stack') = Len(stack) + 1
      /\ stack'[Len(stack) + 1] = f
      /\ \A j \in 1..Len(stack) : stack'[j] = stack[j]
  BY <1>1, AppendProperties
<1>3. /\ DOMAIN stack' = 1..(Len(stack) + 1) /\ DOMAIN stack = 1..Len(stack)
      /\ Len(stack) \in Nat
  BY <1>1, <1>2
<1>4. \A j \in DOMAIN stack' : FrameOK(stack[j])'
  BY <1>1, <1>2, <1>3 DEF FrameOK
<1>5. \A j, k \in DOMAIN stack' : stack'[j].dir = stack'[k].dir => j = k
  BY <1>1, <1>2, <1>3 DEF OnStack
<1>6. stack' # <<>>
  BY <1>2, <1>3
<1> QED
  BY <1>2, <1>4, <1>5, <1>6 DEF StackOK

\* ... and the top one may go.
LEMMA StackPopped ==
    ASSUME WalkInv, Walking, child' = child, stack' = Front(stack)
    PROVE  StackOK' /\ (stack' # <<>> <=> Len(stack) > 1) /\ Len(stack') = Len(stack) - 1
           /\ \A i \in 1..Len(stack') : stack'[i] = stack[i]
<1>1. /\ stack \in Seq(FrameType) /\ \A j \in DOMAIN stack : FrameOK(stack[j])
      /\ \A j, k \in DOMAIN stack : stack[j].dir = stack[k].dir => j = k
  BY DEF WalkInv, StackOK
<1>2. Len(stack) \in Nat /\ Len(stack) > 0 /\ DOMAIN stack = 1..Len(stack)
  BY TopFrame
<1>3. /\ stack' \in Seq(FrameType) /\ Len(stack') = Len(stack) - 1
      /\ \A j \in 1..(Len(stack) - 1) : stack'[j] = stack[j]
  BY <1>1, <1>2, SubSeqProperties DEF Front
<1>4. DOMAIN stack' = 1..(Len(stack) - 1)
  BY <1>2, <1>3
<1>5. \A j \in DOMAIN stack' : FrameOK(stack[j])'
  BY <1>1, <1>2, <1>3, <1>4 DEF FrameOK
<1>6. \A j, k \in DOMAIN stack' : stack'[j].dir = stack'[k].dir => j = k
  BY <1>1, <1>2, <1>3, <1>4
<1>7. stack' # <<>> <=> Len(stack) > 1
  BY <1>2, <1>3
<1> QED
  BY <1>3, <1>5, <1>6, <1>7 DEF StackOK

-----------------------------------------------------------------------------
(* The steps of the walk. *)

LEMMA BeginKeeps == ASSUME WalkInv, Begin PROVE WalkInv'
<1> DEFINE f == Frame(Root, <<>>, RealBase[Root])
<1>1. f \in FrameType /\ f.dir = Root /\ f.todo = {}
  <2>1. Root \in Dirs /\ <<>> \in Seq(Kits) /\ RealBase[Root] \in Bases
    BY DiscoveryAssumption
  <2> QED
    BY <2>1, NewFrame
<1>2. stack' = <<f>> /\ child' = child
  BY DEF Begin
<1> HIDE DEF f
<1>3. stack' \in Seq(FrameType) /\ DOMAIN stack' = {1} /\ stack'[1] = f /\ stack' # <<>>
  BY <1>1, <1>2
<1>4. StackOK'
  BY <1>1, <1>3 DEF StackOK, FrameOK
<1> QED
  BY <1>3, <1>4 DEF WalkInv, Begin

LEMMA ReadKitKeeps == ASSUME RegistryTypeOK, WalkInv, ReadKit PROVE WalkInv'
<1> DEFINE k == Head(Top.unread)
           kits == IF Readable(file[Top.dir][k])
                   THEN Top.kits \cup {Merged(Top.dir, k, Top.base)} ELSE Top.kits
           f == [Top EXCEPT !.unread = Tail(Top.unread), !.kits = kits]
<1>1. /\ Len(stack) \in 1..Len(stack) /\ Top = stack[Len(stack)]
      /\ Top \in FrameType /\ FrameOK(Top)
  BY TopFrame DEF ReadKit
<1>2. /\ Top.dir \in Dirs /\ Top.unread \in Seq(Kits) /\ Top.unread # <<>>
      /\ Top.kits \in SUBSET KitType /\ ~Raises(Top.dir, k, Top.base)
  BY <1>1, FrameFields DEF ReadKit
<1>3. k \in Kits /\ Tail(Top.unread) \in Seq(Kits)
  BY <1>2, HeadTailProperties
<1>4. kits \in SUBSET KitType /\ Top.kits \subseteq kits
  BY <1>2, <1>3, MergedType
<1>5. stack' = [stack EXCEPT ![Len(stack)] = f]
  BY DEF ReadKit, SetTop
<1> HIDE DEF k, kits
<1>6. f \in FrameType /\ f.dir = Top.dir /\ f.todo = Top.todo /\ f.kits = kits
  BY <1>1, <1>3, <1>4, FrameReads, ZenonT(40)
<1> HIDE DEF f
<1>7. FrameOK(f)
  BY <1>1, <1>4, <1>6 DEF FrameOK
<1>8. StackOK' /\ stack' # <<>>
  BY <1>1, <1>5, <1>6, <1>7, StackReplaced DEF ReadKit
<1> QED
  BY <1>8 DEF WalkInv, ReadKit, Walking

LEMMA ReadFailsKeeps == ASSUME WalkInv, ReadFails PROVE WalkInv'
<1>1. CASE Depth = 0
  <2>1. stack' = <<>> /\ status' = "failed"
    BY <1>1 DEF ReadFails
  <2>2. StackOK'
    BY <2>1 DEF StackOK
  <2> QED
    BY <2>1, <2>2 DEF WalkInv, ReadFails
<1>2. CASE Depth # 0
  <2>1. stack' = Front(stack) /\ status' = status
    BY <1>2 DEF ReadFails
  <2>2. Len(stack) > 1
    BY <1>2, TopFrame DEF ReadFails, Depth
  <2>3. StackOK' /\ stack' # <<>>
    BY <2>1, <2>2, StackPopped DEF ReadFails
  <2> QED
    BY <2>1, <2>3 DEF WalkInv, ReadFails, Walking
<1> QED
  BY <1>1, <1>2

\* What a frame makes of the tools and overlays it found.
LEMMA ProjectTyped ==
    ASSUME NEW f \in FrameType, NEW ref \in Refs, NEW active
    PROVE  Project(f, ref, active) \in ProjectType
<1>1. f.name \in Seq(Kits)
  BY FrameFields
<1>2. f.name \in Seq(Kits \cup Tools)
  BY <1>1
<1>3. ref \in Seq(Kits \cup Tools)
  <2>1. PICK k \in Kits, t \in Tools : ref = <<k, t>>
    BY DEF Refs
  <2> QED
    BY <2>1
<1>4. f.name \o ref \in Seq(Kits \cup Tools)
  BY <1>2, <1>3, ConcatProperties
<1> DEFINE name == f.name \o ref
           a == (IF f.name = <<>> THEN ref[1] ELSE f.name[1]) \in active
<1>5. a \in BOOLEAN
  OBVIOUS
<1>6. Project(f, ref, active) = [name |-> name, active |-> a]
  BY DEF Project
<1> HIDE DEF name, a
<1>7. name \in Seq(Kits \cup Tools)
  BY <1>4 DEF name
<1> QED
  BY <1>5, <1>6, <1>7 DEF ProjectType
LEMMA VirtualTyped ==
    ASSUME NEW f \in FrameType, NEW k \in Kits, NEW active
    PROVE  VirtualKit(f, k, active) \in VirtualType
<1>1. f.name \in Seq(Kits)
  BY FrameFields
<1> DEFINE name == Append(f.name, k)
           a == k \in active
<1>2. name \in Seq(Kits) /\ a \in BOOLEAN
  BY <1>1
<1>3. VirtualKit(f, k, active) = [name |-> name, active |-> a]
  BY DEF VirtualKit
<1> HIDE DEF name, a
<1> QED
  BY <1>2, <1>3 DEF VirtualType

LEMMA PartitionKeeps == ASSUME WalkInv, Partition PROVE WalkInv'
<1> DEFINE loaded == {kit \in Top.kits : ~kit.virtual /\ ~kit.pointer}
           nested == {kit.kit : kit \in {x \in loaded : Inside(Top.dir, x.kit, Top.base) # None}}
           flat == {kit \in loaded : kit.kit \notin nested}
           active == Active(Top, Depth)
           ps == {Project(Top, ref, active) :
                    ref \in Discovered(Top.dir, Top.base, flat)}
           vs == {VirtualKit(Top, kit.kit, active) : kit \in {x \in Top.kits : x.virtual}}
           f == [Top EXCEPT !.parted = TRUE, !.todo = nested, !.projects = ps, !.virtuals = vs]
<1>1. /\ Len(stack) \in 1..Len(stack) /\ Top = stack[Len(stack)]
      /\ Top \in FrameType /\ FrameOK(Top)
  BY TopFrame DEF Partition
<1>2. Top.dir \in Dirs /\ Top.kits \in SUBSET KitType
  BY <1>1, FrameFields
<1>3. \A kit \in Top.kits : kit.kit \in Kits /\ kit.tools \in SUBSET Refs
  BY <1>2 DEF KitType
<1>4. nested \in SUBSET Kits
  BY <1>3
<1>5. \A k \in nested : child[Top.dir][k] # None /\ \E x \in Top.kits : x.kit = k
  BY DEF Inside
<1>6. ps \in SUBSET ProjectType
  <2>1. Discovered(Top.dir, Top.base, flat) \subseteq Refs
    BY <1>3 DEF Listed, Discovered
  <2> HIDE DEF active, flat
  <2> QED
    BY <1>1, <2>1, ProjectTyped
<1>7. vs \in SUBSET VirtualType
  <2> HIDE DEF active
  <2> QED
    BY <1>1, <1>3, VirtualTyped
<1>8. stack' = [stack EXCEPT ![Len(stack)] = f]
  BY DEF Partition, SetTop
<1> HIDE DEF nested, ps, vs
<1>9. f \in FrameType /\ f.dir = Top.dir /\ f.todo = nested /\ f.kits = Top.kits
  BY <1>1, <1>4, <1>6, <1>7 DEF FrameType, ProjectType, VirtualType
<1> HIDE DEF f
<1>10. FrameOK(f)
  BY <1>5, <1>9 DEF FrameOK
<1>11. StackOK' /\ stack' # <<>>
  BY <1>1, <1>8, <1>9, <1>10, StackReplaced DEF Partition
<1> QED
  BY <1>11 DEF WalkInv, Partition, Walking

LEMMA DescendKeeps == ASSUME WalkInv, Descend PROVE WalkInv'
<1> DEFINE k == First(Top.todo)
           g == [Top EXCEPT !.todo = Top.todo \ {k}]
           mid == [stack EXCEPT ![Len(stack)] = g]
           f == Frame(Embedded, Append(Top.name, k), EmbeddedBase)
<1>1. /\ Len(stack) \in 1..Len(stack) /\ Top = stack[Len(stack)]
      /\ Top \in FrameType /\ FrameOK(Top)
  BY TopFrame DEF Descend
<1>2. /\ Top.dir \in Dirs /\ Top.kits \in SUBSET KitType /\ Top.todo \in SUBSET Kits
      /\ Top.todo # {} /\ Top.name \in Seq(Kits)
  BY <1>1, FrameFields DEF Descend
<1>3. k \in Top.todo
  BY <1>2, FirstOf
<1>4. Embedded \in Dirs
  BY <1>1, <1>2, <1>3 DEF WalkInv, FrameOK, Embedded
<1>5. EmbeddedBase \in Bases
  <2> DEFINE kit == CHOOSE x \in Top.kits : x.kit = k
  <2>1. \E x \in Top.kits : x.kit = k
    BY <1>1, <1>3 DEF FrameOK
  <2>2. kit \in Top.kits
    BY <2>1
  <2>3. kit.base \in Bases \cup {None} /\ kit.override \in Bases \cup {None}
    BY <1>2, <2>2 DEF KitType
  <2>4. EmbeddedBase = BaseOf(kit)
    BY DEF EmbeddedBase
  <2> HIDE DEF kit
  <2> QED
    BY <2>3, <2>4, DiscoveryAssumption DEF BaseOf
<1>6. f \in FrameType /\ f.dir = Embedded /\ f.todo = {}
  <2>1. Append(Top.name, k) \in Seq(Kits)
    BY <1>2, <1>3
  <2> HIDE DEF k
  <2> QED
    BY <1>4, <1>5, <2>1, NewFrame
<1>7. g \in FrameType /\ g.dir = Top.dir /\ g.todo = Top.todo \ {k} /\ g.kits = Top.kits
  <2> DEFINE todo == Top.todo \ {k}
  <2>1. todo \in SUBSET Kits
    BY <1>2
  <2> HIDE DEF k, todo
  <2>2. LET x == [Top EXCEPT !.todo = todo] IN
        x \in FrameType /\ x.dir = Top.dir /\ x.todo = todo /\ x.kits = Top.kits
    BY <1>1, <2>1, FrameGoesOn, ZenonT(40)
  <2> QED
    BY <2>2 DEF todo
<1>8. /\ stack \in Seq(FrameType) /\ \A j \in DOMAIN stack : FrameOK(stack[j])
      /\ \A i, j \in DOMAIN stack : stack[i].dir = stack[j].dir => i = j
      /\ Len(stack) \in Nat /\ DOMAIN stack = 1..Len(stack)
  BY TopFrame DEF WalkInv, StackOK, Descend
<1>9. stack' = Append(mid, f) /\ child' = child /\ ~OnStack(Embedded)
  <2>1. stack' = Append([stack EXCEPT ![Len(stack)].todo = @ \ {First(@)}], f)
    BY DEF Descend
  <2>2. [stack EXCEPT ![Len(stack)].todo = @ \ {First(@)}] = mid
    BY <1>1, Zenon DEF Top
  <2> QED
    BY <2>1, <2>2 DEF Descend
<1> HIDE DEF f, g, k
<1>10. /\ mid \in Seq(FrameType) /\ Len(mid) = Len(stack)
       /\ \A j \in 1..Len(stack) : mid[j] = IF j = Len(stack) THEN g ELSE stack[j]
  BY <1>1, <1>7, <1>8, ExceptSeq
<1> HIDE DEF mid
<1>11. /\ stack' \in Seq(FrameType) /\ Len(stack') = Len(stack) + 1
       /\ stack'[Len(stack) + 1] = f
       /\ \A j \in 1..Len(stack) : stack'[j] = mid[j]
  BY <1>6, <1>9, <1>10, AppendProperties
<1>12. DOMAIN stack' = 1..(Len(stack) + 1) /\ stack' # <<>>
  BY <1>8, <1>11
<1>13. \A j \in 1..Len(stack) : /\ stack'[j].dir = stack[j].dir
                                /\ stack'[j].todo \subseteq stack[j].todo
                                /\ stack'[j].kits = stack[j].kits
                                /\ stack'[j] \in FrameType
  <2> SUFFICES ASSUME NEW j \in 1..Len(stack)
               PROVE  /\ stack'[j].dir = stack[j].dir
                      /\ stack'[j].todo \subseteq stack[j].todo
                      /\ stack'[j].kits = stack[j].kits
                      /\ stack'[j] \in FrameType
    OBVIOUS
  <2>1. stack'[j] = mid[j] /\ mid[j] = IF j = Len(stack) THEN g ELSE stack[j]
    BY <1>10, <1>11
  <2>2. CASE j = Len(stack)
    BY <1>7, <2>1, <2>2, Zenon DEF Top
  <2>3. CASE j # Len(stack)
    <3>1. stack[j] \in FrameType
      BY <1>8
    <3> QED
      BY <2>1, <2>3, <3>1, Zenon
  <2> QED
    BY <2>2, <2>3
<1>14. \A j \in DOMAIN stack' : FrameOK(stack[j])'
  <2> SUFFICES ASSUME NEW j \in 1..(Len(stack) + 1) PROVE FrameOK(stack[j])'
    BY <1>12
  <2>1. CASE j \in 1..Len(stack)
    <3>1. FrameOK(stack[j])
      BY <1>8, <2>1
    <3>2. /\ stack'[j].dir = stack[j].dir /\ stack'[j].todo \subseteq stack[j].todo
          /\ stack'[j].kits = stack[j].kits /\ stack'[j] \in FrameType
      BY <1>13, <2>1
    <3>3. \A x \in stack'[j].todo : /\ child'[stack'[j].dir][x] # None
                                    /\ \E kit \in stack'[j].kits : kit.kit = x
      BY <1>9, <3>1, <3>2 DEF FrameOK
    <3> QED
      BY <3>2, <3>3 DEF FrameOK
  <2>2. CASE j = Len(stack) + 1
    BY <1>6, <1>11, <2>2 DEF FrameOK
  <2> QED
    BY <1>8, <2>1, <2>2
<1>15. \A i, j \in DOMAIN stack' : stack'[i].dir = stack'[j].dir => i = j
  BY <1>6, <1>8, <1>9, <1>11, <1>12, <1>13 DEF OnStack
<1>16. StackOK'
  BY <1>11, <1>14, <1>15 DEF StackOK
<1> QED
  BY <1>12, <1>16 DEF WalkInv, Descend, Walking

LEMMA ReturnKeeps == ASSUME WalkInv, Return PROVE WalkInv'
<1> DEFINE n == Len(stack) - 1
           below == stack[n]
           active == Top.name[Len(Top.name)] \in Active(below, Depth - 1)
           ps == below.projects \cup {[p EXCEPT !.active = active] : p \in Top.projects}
           vs == below.virtuals
                   \cup {[v EXCEPT !.active = active /\ v.active] : v \in Top.virtuals}
           f == [below EXCEPT !.projects = ps, !.virtuals = vs]
           rest == Front(stack)
<1>1. /\ Len(stack) \in Nat /\ Len(stack) > 1 /\ DOMAIN stack = 1..Len(stack)
      /\ Top \in FrameType /\ stack \in Seq(FrameType)
      /\ \A j \in DOMAIN stack : FrameOK(stack[j])
      /\ \A i, j \in DOMAIN stack : stack[i].dir = stack[j].dir => i = j
  BY TopFrame DEF Return, Done, Depth, WalkInv, StackOK
<1>2. n \in 1..n /\ n \in 1..Len(stack) /\ below \in FrameType /\ FrameOK(below)
  BY <1>1
<1>3. active \in BOOLEAN
  OBVIOUS
<1> HIDE DEF active
<1>4. ps \in SUBSET ProjectType
  <2>1. \A p \in ProjectType : [p EXCEPT !.active = active] \in ProjectType
    BY <1>3 DEF ProjectType
  <2>2. below.projects \in SUBSET ProjectType /\ Top.projects \in SUBSET ProjectType
    BY <1>1, <1>2, FrameFields
  <2> HIDE DEF below
  <2> QED
    BY <2>1, <2>2
<1>5. vs \in SUBSET VirtualType
  <2>1. \A v \in VirtualType : [v EXCEPT !.active = active /\ v.active] \in VirtualType
    <3> TAKE v \in VirtualType
    <3> DEFINE a == active /\ v.active
    <3>1. a \in BOOLEAN
      OBVIOUS
    <3> HIDE DEF a
    <3>2. [v EXCEPT !.active = a] \in VirtualType
      BY <3>1 DEF VirtualType
    <3> QED
      BY <3>2 DEF a
  <2>2. below.virtuals \in SUBSET VirtualType /\ Top.virtuals \in SUBSET VirtualType
    BY <1>1, <1>2, FrameFields
  <2> HIDE DEF below
  <2> QED
    BY <2>1, <2>2
<1>6. stack' = [rest EXCEPT ![n] = f] /\ child' = child
  BY DEF Return, active
<1> HIDE DEF ps, vs, below
<1>7. f \in FrameType /\ f.dir = below.dir /\ f.todo = below.todo /\ f.kits = below.kits
  BY <1>2, <1>4, <1>5, FrameTakesOver
<1> HIDE DEF f
<1>8. /\ rest \in Seq(FrameType) /\ Len(rest) = n
      /\ \A j \in 1..n : rest[j] = stack[j]
  BY <1>1, SubSeqProperties DEF Front
<1> HIDE DEF rest
<1>9. /\ stack' \in Seq(FrameType) /\ Len(stack') = n
      /\ \A j \in 1..n : stack'[j] = IF j = n THEN f ELSE stack[j]
  BY <1>2, <1>6, <1>7, <1>8, ExceptSeq
<1>10. DOMAIN stack' = 1..n /\ stack' # <<>>
  <2>1. n \in Nat /\ n > 0
    BY <1>1
  <2> HIDE DEF n
  <2> QED
    BY <1>9, <2>1
<1>11. FrameOK(f)
  BY <1>2, <1>7 DEF FrameOK
<1>12. \A j \in DOMAIN stack' : FrameOK(stack[j])'
  <2> SUFFICES ASSUME NEW j \in 1..n PROVE FrameOK(stack[j])'
    BY <1>10
  <2>1. FrameOK(stack[j])
    BY <1>1
  <2>2. stack'[j] = f \/ stack'[j] = stack[j]
    BY <1>9
  <2> QED
    BY <1>6, <1>11, <2>1, <2>2 DEF FrameOK
<1>13. \A i, j \in DOMAIN stack' : stack'[i].dir = stack'[j].dir => i = j
  <2>1. \A j \in 1..n : stack'[j].dir = stack[j].dir
    BY <1>7, <1>9 DEF below
  <2> QED
    BY <1>1, <1>10, <2>1
<1>14. StackOK'
  BY <1>9, <1>12, <1>13 DEF StackOK
<1> QED
  BY <1>10, <1>14 DEF WalkInv, Return, Done, Walking

LEMMA WalkEndsKeeps == ASSUME WalkInv, Cycle \/ Finish PROVE WalkInv'
<1>1. stack' = <<>> /\ status' \in {"cycle", "done"}
  BY DEF Cycle, Finish
<1>2. StackOK'
  BY <1>1 DEF StackOK
<1> QED
  BY <1>1, <1>2 DEF WalkInv, Cycle, Finish

LEMMA WalkInvStutters ==
    ASSUME WalkInv, UNCHANGED <<own, child, settings, stack, status>>,
           touched' \subseteq Dirs \X Kits
    PROVE  WalkInv'
<1>1. StackOK'
  BY DEF WalkInv, StackOK, FrameOK
<1> QED
  BY <1>1 DEF WalkInv

LEMMA WalkInitInv == Init => WalkInv
<1> SUFFICES ASSUME Init PROVE WalkInv
  OBVIOUS
<1>1. PICK l \in Layouts : own = l.own /\ child = l.child /\ settings = l.settings
  BY DEF Init
<1>2. /\ own \in [Dirs -> [Kits -> {None, Broken} \cup Manifests]]
      /\ child \in [Dirs -> [Kits -> Dirs \cup {None}]] /\ settings \in Settings
  BY <1>1, DiscoveryAssumption
<1>3. StackOK
  BY DEF Init, StackOK
<1> QED
  BY <1>2, <1>3 DEF Init, WalkInv

LEMMA WalkNextInv == ASSUME RegistryTypeOK, WalkInv, [Next]_vars PROVE WalkInv'
<1>1. CASE Begin
  BY <1>1, BeginKeeps
<1>2. CASE Walk
  BY <1>2, ReadKitKeeps, ReadFailsKeeps, PartitionKeeps, DescendKeeps, ReturnKeeps,
     WalkEndsKeeps DEF Walk
<1>3. CASE Other
  <2>1. touched' \subseteq Dirs \X Kits
    BY <1>3 DEF Other, WalkInv
  <2> QED
    BY <1>3, <2>1, WalkInvStutters DEF Other
<1>4. CASE UNCHANGED vars
  BY <1>4, WalkInvStutters DEF vars, walkVars, WalkInv
<1> QED
  BY <1>1, <1>2, <1>3, <1>4 DEF Next

\* discover(): the walk keeps its types, and no aggregator is on the stack twice, so the
\* recursion is never deeper than there are aggregators, however they embed each other and
\* whatever other processes register while it runs.
THEOREM TypeCorrect == Spec => []TypeOK
<1>1. Init => WalkInv
  BY WalkInitInv
<1>2. RegistryInv /\ WalkInv /\ [Next]_vars => WalkInv'
  BY WalkNextInv DEF RegistryInv
<1>3. RegistryInv /\ WalkInv => TypeOK
  BY DEF RegistryInv, WalkInv, StackOK, TypeOK
<1> QED
  BY <1>1, <1>2, <1>3, RegistryInvariant, PTL DEF Spec

-----------------------------------------------------------------------------
(* Chains *)

\* The levels of Chains: the n-th has the chains of at most n steps.
NextLevel(U, loads, found, sound) ==
    U \cup UNION {Longer(c, loads, found) : c \in {c \in U : Grows(c, sound)}}
\* ... as a function up to the m-th level.
IsLevels(u, m, loads, found, sound) ==
    u = [n \in 0..m |-> IF n = 0 THEN {Start} ELSE NextLevel(u[n - 1], loads, found, sound)]

\* There are levels up to every number.
LEMMA LevelsExist ==
    ASSUME NEW P, NEW Q, NEW S, NEW N \in Nat
    PROVE  \E u : IsLevels(u, N, P, Q, S)
<1> DEFINE Bad == {m \in Nat : ~\E u : IsLevels(u, m, P, Q, S)}
<1> SUFFICES ASSUME Bad # {} PROVE FALSE
  OBVIOUS
<1>1. PICK m \in Bad : \A y \in Bad : m <= y
  <2>1. Bad \subseteq Nat
    OBVIOUS
  <2> HIDE DEF Bad
  <2> QED
    BY <2>1, Least
<1>2. CASE m = 0
  <2>1. PICK u : u = [n \in 0..0 |-> {Start}]
    OBVIOUS
  <2>2. IsLevels(u, 0, P, Q, S)
    BY <2>1 DEF IsLevels
  <2> QED
    BY <1>1, <1>2, <2>2
<1>3. CASE m # 0
  <2>1. m - 1 \in Nat /\ m - 1 \notin Bad
    BY <1>1, <1>3
  <2>2. PICK u : IsLevels(u, m - 1, P, Q, S)
    BY <2>1
  <2>3. PICK w : w = [n \in 0..m |-> IF n = m THEN NextLevel(u[m - 1], P, Q, S) ELSE u[n]]
    OBVIOUS
  <2>4. \A n \in 0..m - 1 :
           u[n] = IF n = 0 THEN {Start} ELSE NextLevel(u[n - 1], P, Q, S)
    BY <2>2 DEF IsLevels
  <2>5. /\ w[m] = NextLevel(w[m - 1], P, Q, S)
        /\ \A n \in 0..m - 1 : w[n] = u[n]
    BY <1>1, <1>3, <2>1, <2>3
  <2>6. ASSUME NEW n \in 0..m
        PROVE  w[n] = IF n = 0 THEN {Start} ELSE NextLevel(w[n - 1], P, Q, S)
    <3>1. CASE n = m
      BY <1>3, <2>5, <3>1
    <3>2. CASE n # m
      <4>1. n \in 0..m - 1 /\ (n # 0 => n - 1 \in 0..m - 1)
        BY <1>1, <3>2
      <4> QED
        BY <2>4, <2>5, <4>1
    <3> QED
      BY <3>1, <3>2
  <2>7. IsLevels(w, m, P, Q, S)
    BY <2>3, <2>6, Zenon DEF IsLevels
  <2> QED
    BY <1>1, <2>7
<1> QED
  BY <1>2, <1>3

\* The chains are the last level.
LEMMA ChainsAre ==
    ASSUME NEW P, NEW Q, NEW S
    PROVE  \E u : /\ Chains(P, Q, S) = u[Cardinality(Dirs)] /\ u[0] = {Start}
                  /\ \A n \in 1..Cardinality(Dirs) : u[n] = NextLevel(u[n - 1], P, Q, S)
<1>1. Cardinality(Dirs) \in Nat
  BY DiscoveryAssumption, FS_CardinalityType
<1>2. \E u : IsLevels(u, Cardinality(Dirs), P, Q, S)
  BY <1>1, LevelsExist
<1>3. PICK u : IsLevels(u, Cardinality(Dirs), P, Q, S) /\ Chains(P, Q, S) = u[Cardinality(Dirs)]
  BY <1>2, Zenon DEF Chains, IsLevels, NextLevel
<1>4. u[0] = {Start}
  BY <1>1, <1>3 DEF IsLevels
<1>5. ASSUME NEW n \in 1..Cardinality(Dirs) PROVE u[n] = NextLevel(u[n - 1], P, Q, S)
  <2>1. n \in 0..Cardinality(Dirs) /\ n # 0
    BY <1>1
  <2> QED
    BY <1>3, <2>1, Zenon DEF IsLevels
<1> QED
  BY <1>3, <1>4, <1>5

\* A way from the root down that a walk can go: registrations that load, aggregators that
\* are found where they are looked for and that can be read, none of them twice.
Trail(ks, ds, loads, found, sound) ==
    /\ ks \in Seq(Kits) /\ ds \in Seq(Dirs) /\ Len(ds) = Len(ks) + 1 /\ ds[1] = Root
    /\ \A j \in 1..Len(ks) : /\ <<ds[j], ks[j]>> \in loads /\ <<ds[j], ks[j]>> \in found
                             /\ child[ds[j]][ks[j]] = ds[j + 1]
    /\ \A j \in 1..Len(ds) : ds[j] \in sound
    /\ \A i, j \in 1..Len(ds) : ds[i] = ds[j] => i = j

\* No trail is longer than there are aggregators.
LEMMA TrailShort ==
    ASSUME NEW P, NEW Q, NEW S, NEW ks, NEW ds, Trail(ks, ds, P, Q, S)
    PROVE  Len(ks) \in Nat /\ Cardinality(Dirs) \in Nat /\ Len(ks) + 1 <= Cardinality(Dirs)
<1>1. Len(ks) \in Nat /\ Len(ds) = Len(ks) + 1 /\ ds \in [1..Len(ds) -> Dirs]
  BY DEF Trail
<1>2. ds \in Injection(1..Len(ds), Dirs)
  BY <1>1 DEF Trail, Injection, IsInjective
<1>3. Cardinality(1..Len(ds)) = Len(ds)
  BY <1>1, FS_Interval
<1>4. Cardinality(1..Len(ds)) <= Cardinality(Dirs)
  BY <1>2, DiscoveryAssumption, FS_Injection, Zenon
<1>5. Cardinality(Dirs) \in Nat
  BY DiscoveryAssumption, FS_CardinalityType
<1> QED
  BY <1>1, <1>3, <1>4, <1>5

\* A chain that goes on is followed by its longer ones.
LEMMA ChainGoesOn ==
    ASSUME NEW U, NEW P, NEW Q, NEW S, NEW c \in U, Grows(c, S), NEW k \in Kits,
           <<Here(c), k>> \in P, child[Here(c)][k] # None
    PROVE  [kits |-> Append(c.kits, k), dirs |-> Append(c.dirs, child[Here(c)][k]),
            found |-> <<Here(c), k>> \in Q] \in NextLevel(U, P, Q, S)
<1>1. [kits |-> Append(c.kits, k), dirs |-> Append(c.dirs, child[Here(c)][k]),
       found |-> <<Here(c), k>> \in Q] \in Longer(c, P, Q)
  BY Zenon DEF Longer
<1> QED
  BY <1>1 DEF NextLevel

\* The first n steps of a trail.
Way(ks, ds, n) == [kits |-> SubSeq(ks, 1, n), dirs |-> SubSeq(ds, 1, n + 1), found |-> TRUE]

\* What a chain of the first steps of a trail is like.
LEMMA WayIs ==
    ASSUME NEW P, NEW Q, NEW S, NEW ks, NEW ds, Trail(ks, ds, P, Q, S), NEW n \in 0..Len(ks)
    PROVE  LET c == Way(ks, ds, n) IN
           /\ c.kits \in Seq(Kits) /\ c.dirs \in Seq(Dirs)
           /\ Len(c.kits) = n /\ Len(c.dirs) = n + 1
           /\ \A j \in 1..n : c.kits[j] = ks[j]
           /\ \A j \in 1..n + 1 : c.dirs[j] = ds[j]
           /\ c.found = TRUE /\ Here(c) = ds[n + 1] /\ Grows(c, S)
<1> DEFINE c == Way(ks, ds, n)
<1>1. /\ ks \in Seq(Kits) /\ ds \in Seq(Dirs) /\ Len(ks) \in Nat /\ Len(ds) = Len(ks) + 1
      /\ n \in Nat /\ n + 1 \in 1..Len(ds)
  BY DEF Trail
<1>2. /\ SubSeq(ks, 1, n) \in Seq(Kits) /\ Len(SubSeq(ks, 1, n)) = n
      /\ \A j \in 1..n : SubSeq(ks, 1, n)[j] = ks[j]
  BY <1>1, SubSeqProperties
<1>3. /\ SubSeq(ds, 1, n + 1) \in Seq(Dirs) /\ Len(SubSeq(ds, 1, n + 1)) = n + 1
      /\ \A j \in 1..n + 1 : SubSeq(ds, 1, n + 1)[j] = ds[j]
  BY <1>1, SubSeqProperties
<1>4. c.kits = SubSeq(ks, 1, n) /\ c.dirs = SubSeq(ds, 1, n + 1) /\ c.found = TRUE
  BY DEF Way
<1> HIDE DEF c
<1>5. Here(c) = ds[n + 1]
  BY <1>1, <1>3, <1>4 DEF Here
<1>6. Grows(c, S)
  <2>1. Here(c) \in S
    BY <1>1, <1>5 DEF Trail
  <2>2. ~Repeats(c)
    <3> SUFFICES ASSUME NEW i \in 1..n, c.dirs[i] = Here(c) PROVE FALSE
      BY <1>1, <1>3, <1>4 DEF Repeats
    <3>1. ds[i] = ds[n + 1] /\ i \in 1..Len(ds)
      BY <1>1, <1>3, <1>4, <1>5
    <3>2. i = n + 1
      BY <1>1, <3>1 DEF Trail
    <3> QED
      BY <1>1, <3>2
  <2> QED
    BY <1>4, <2>1, <2>2 DEF Grows
<1> QED
  BY <1>2, <1>3, <1>4, <1>5, <1>6 DEF c

\* The first n elements of a sequence are the first n - 1 and the next.
LEMMA HeadGrows ==
    ASSUME NEW T, NEW s \in Seq(T), NEW n \in 1..Len(s)
    PROVE  Append(SubSeq(s, 1, n - 1), s[n]) = SubSeq(s, 1, n)
<1> DEFINE a == SubSeq(s, 1, n - 1)
           b == SubSeq(s, 1, n)
           c == Append(a, s[n])
<1>1. Len(s) \in Nat /\ n \in Int /\ n - 1 \in Int /\ s[n] \in T
      /\ \A i \in 1..n : s[i] \in T
  OBVIOUS
<1>2. /\ a \in Seq(T) /\ Len(a) = n - 1 /\ \A i \in 1..n - 1 : a[i] = s[i]
  BY <1>1, SubSeqProperties
<1>3. /\ b \in Seq(T) /\ Len(b) = n /\ \A i \in 1..n : b[i] = s[i]
  BY <1>1, SubSeqProperties
<1> HIDE DEF a, b
<1>4. /\ c \in Seq(T) /\ Len(c) = n /\ c[n] = s[n] /\ \A i \in 1..n - 1 : c[i] = a[i]
  <2>1. /\ c \in Seq(T) /\ Len(c) = Len(a) + 1 /\ c[Len(a) + 1] = s[n]
        /\ \A i \in 1..Len(a) : c[i] = a[i]
    BY <1>1, <1>2, AppendProperties
  <2>2. (n - 1) + 1 = n
    BY <1>1
  <2> HIDE DEF c
  <2> QED
    BY <1>2, <2>1, <2>2
<1> HIDE DEF c
<1>5. \A i \in 1..n : c[i] = b[i]
  <2> SUFFICES ASSUME NEW i \in 1..n PROVE c[i] = b[i]
    OBVIOUS
  <2>1. i = n \/ i \in 1..n - 1
    BY <1>1
  <2> QED
    BY <1>2, <1>3, <1>4, <2>1
<1>6. c = b
  BY <1>3, <1>4, <1>5, SeqEqual
<1> QED
  BY <1>6 DEF a, b, c

\* One step more.
LEMMA WayGoesOn ==
    ASSUME NEW P, NEW Q, NEW S, NEW ks, NEW ds, Trail(ks, ds, P, Q, S), NEW n \in 1..Len(ks),
           NEW U, Way(ks, ds, n - 1) \in U
    PROVE  Way(ks, ds, n) \in NextLevel(U, P, Q, S)
<1>1. /\ ks \in Seq(Kits) /\ ds \in Seq(Dirs) /\ Len(ks) \in Nat /\ Len(ds) = Len(ks) + 1
      /\ n - 1 \in 0..Len(ks) /\ n \in 1..Len(ds) /\ n + 1 \in 1..Len(ds)
  BY DEF Trail
<1>2. PICK c : c = Way(ks, ds, n - 1)
  OBVIOUS
<1>3. Here(c) = ds[n] /\ Grows(c, S) /\ c.kits = SubSeq(ks, 1, n - 1) /\ c.dirs = SubSeq(ds, 1, n)
  <2>1. /\ Here(Way(ks, ds, n - 1)) = ds[(n - 1) + 1]
        /\ Grows(Way(ks, ds, n - 1), S)
    <3>1. PICK m \in 0..Len(ks) : m = n - 1
      BY <1>1
    <3>2. Here(Way(ks, ds, m)) = ds[m + 1]
      <4>1. /\ Len(SubSeq(ds, 1, m + 1)) = m + 1
            /\ \A j \in 1..m + 1 : SubSeq(ds, 1, m + 1)[j] = ds[j]
        BY <1>1, <3>1, SubSeqProperties
      <4>2. Way(ks, ds, m).dirs = SubSeq(ds, 1, m + 1) /\ m + 1 \in 1..m + 1
        BY <1>1, <3>1 DEF Way
      <4> QED
        BY <4>1, <4>2 DEF Here
    <3>3. Grows(Way(ks, ds, m), S)
      BY WayIs
    <3> QED
      BY <3>1, <3>2, <3>3
  <2>2. (n - 1) + 1 = n
    BY <1>1
  <2> QED
    BY <1>2, <2>1, <2>2 DEF Way
<1>4. /\ ks[n] \in Kits /\ <<ds[n], ks[n]>> \in P /\ <<ds[n], ks[n]>> \in Q
      /\ child[ds[n]][ks[n]] = ds[n + 1] /\ ds[n + 1] # None
  BY <1>1, DiscoveryAssumption DEF Trail
<1>5. Append(SubSeq(ks, 1, n - 1), ks[n]) = SubSeq(ks, 1, n)
  BY <1>1, HeadGrows
<1>6. Append(SubSeq(ds, 1, n), ds[n + 1]) = SubSeq(ds, 1, n + 1)
  <2>1. PICK m \in 1..Len(ds) : m = n + 1 /\ m - 1 = n
    BY <1>1
  <2>2. Append(SubSeq(ds, 1, m - 1), ds[m]) = SubSeq(ds, 1, m)
    BY <1>1, HeadGrows
  <2> QED
    BY <2>1, <2>2
<1>7. [kits |-> Append(c.kits, ks[n]), dirs |-> Append(c.dirs, child[Here(c)][ks[n]]),
       found |-> <<Here(c), ks[n]>> \in Q] \in NextLevel(U, P, Q, S)
  BY <1>2, <1>3, <1>4, ChainGoesOn
<1>8. Way(ks, ds, n) =
        [kits |-> Append(c.kits, ks[n]), dirs |-> Append(c.dirs, child[Here(c)][ks[n]]),
         found |-> <<Here(c), ks[n]>> \in Q]
  <2>1. (<<Here(c), ks[n]>> \in Q) = TRUE
    BY <1>3, <1>4
  <2>2. Append(c.kits, ks[n]) = SubSeq(ks, 1, n)
    BY <1>3, <1>5
  <2>3. Append(c.dirs, child[Here(c)][ks[n]]) = SubSeq(ds, 1, n + 1)
    BY <1>3, <1>4, <1>6
  <2> QED
    BY <2>1, <2>2, <2>3, Zenon DEF Way
<1> QED
  BY <1>7, <1>8

\* A trail is a chain, and so is one with a step more.
LEMMA TrailIsChain ==
    ASSUME NEW P, NEW Q, NEW S, NEW ks, NEW ds, Trail(ks, ds, P, Q, S)
    PROVE  LET c == Way(ks, ds, Len(ks)) IN
           /\ c \in Chains(P, Q, S)
           /\ \A k \in Kits : <<Here(c), k>> \in P /\ child[Here(c)][k] # None =>
                 [kits |-> Append(c.kits, k), dirs |-> Append(c.dirs, child[Here(c)][k]),
                  found |-> <<Here(c), k>> \in Q] \in Chains(P, Q, S)
<1> DEFINE N == Cardinality(Dirs)
           c == Way(ks, ds, Len(ks))
<1>1. PICK u : /\ Chains(P, Q, S) = u[N] /\ u[0] = {Start}
               /\ \A n \in 1..N : u[n] = NextLevel(u[n - 1], P, Q, S)
  BY ChainsAre
<1>2. N \in Nat /\ Len(ks) \in Nat /\ Len(ks) + 1 <= N
  BY TrailShort
<1> HIDE DEF N
<1>3. \A m \in 0..N : \A n \in 0..Len(ks) : n <= m => Way(ks, ds, n) \in u[m]
  <2> DEFINE Bad == {m \in 0..N : \E n \in 0..Len(ks) : n <= m /\ Way(ks, ds, n) \notin u[m]}
  <2> SUFFICES ASSUME Bad # {} PROVE FALSE
    OBVIOUS
  <2>1. PICK m \in Bad : \A y \in Bad : m <= y
    <3>1. Bad \subseteq Nat
      BY <1>2
    <3> HIDE DEF Bad
    <3> QED
      BY <3>1, Least
  <2>2. PICK n \in 0..Len(ks) : n <= m /\ Way(ks, ds, n) \notin u[m]
    BY <2>1
  <2>3. CASE m = 0
    <3>1. n = 0
      BY <1>2, <2>2, <2>3
    <3>2. ks \in Seq(Kits) /\ ds \in Seq(Dirs) /\ Len(ds) >= 1 /\ ds[1] = Root
      BY <1>2 DEF Trail
    <3>3. SubSeq(ks, 1, 0) = <<>>
      BY <1>2, <3>2, SubSeqProperties
    <3>4. SubSeq(ds, 1, 1) = <<Root>>
      <4>1. /\ SubSeq(ds, 1, 1) \in Seq(Dirs) /\ Len(SubSeq(ds, 1, 1)) = 1
            /\ \A i \in 1..1 : SubSeq(ds, 1, 1)[i] = ds[i]
        <5>1. 1 \in 1..Len(ds) + 1 /\ 1 \in 0..Len(ds)
          BY <1>2, <3>2
        <5>2. \A i \in 1..1 : ds[i] \in Dirs
          BY <1>2, <3>2
        <5> QED
          BY <3>2, <5>1, <5>2, SubSeqProperties
      <4>2. <<Root>> \in Seq(Dirs) /\ Len(<<Root>>) = 1 /\ <<Root>>[1] = Root
        BY DiscoveryAssumption
      <4>3. \A i \in 1..1 : i = 1
        OBVIOUS
      <4>4. \A i \in 1..1 : SubSeq(ds, 1, 1)[i] = <<Root>>[i]
        BY <3>2, <4>1, <4>2, <4>3
      <4> QED
        BY <4>1, <4>2, <4>4, SeqEqual
    <3>5. 0 + 1 = 1
      OBVIOUS
    <3>6. Way(ks, ds, 0) = Start
      BY <3>3, <3>4, <3>5, Zenon DEF Way, Start
    <3> QED
      BY <1>1, <2>2, <2>3, <3>1, <3>6
  <2>4. CASE m # 0
    <3>1. m \in 1..N /\ m - 1 \in 0..N /\ m - 1 \notin Bad
      BY <1>2, <2>1, <2>4
    <3>2. u[m] = NextLevel(u[m - 1], P, Q, S)
      BY <1>1, <3>1
    <3>3. \A l \in 0..Len(ks) : l <= m - 1 => Way(ks, ds, l) \in u[m - 1]
      BY <3>1
    <3>4. CASE n <= m - 1
      BY <2>2, <3>2, <3>3, <3>4 DEF NextLevel
    <3>5. CASE ~(n <= m - 1)
      <4>1. n = m /\ n \in 1..Len(ks) /\ n - 1 \in 0..Len(ks)
        BY <1>2, <2>2, <2>4, <3>1, <3>5
      <4>2. Way(ks, ds, n - 1) \in u[m - 1]
        BY <1>2, <3>1, <3>3, <4>1
      <4> QED
        BY <2>2, <3>2, <4>1, <4>2, WayGoesOn
    <3> QED
      BY <3>4, <3>5
  <2> QED
    BY <2>3, <2>4
<1>4. N \in 1..N /\ N - 1 \in 0..N /\ Len(ks) \in 0..Len(ks) /\ Len(ks) <= N - 1
  BY <1>2
<1>5. c \in u[N - 1] /\ Grows(c, S)
  BY <1>3, <1>4, WayIs
<1> HIDE DEF c
<1>6. u[N] = NextLevel(u[N - 1], P, Q, S)
  BY <1>1, <1>4
<1>7. c \in u[N]
  BY <1>5, <1>6 DEF NextLevel
<1>8. ASSUME NEW k \in Kits, <<Here(c), k>> \in P, child[Here(c)][k] # None
      PROVE  [kits |-> Append(c.kits, k), dirs |-> Append(c.dirs, child[Here(c)][k]),
              found |-> <<Here(c), k>> \in Q] \in u[N]
  BY <1>5, <1>6, <1>8, ChainGoesOn
<1> QED
  BY <1>1, <1>7, <1>8 DEF c

-----------------------------------------------------------------------------
(* What is written *)

\* Whatever a file, a context or a call holds for a registration says what the
\* registration said at the start.
Tells(content, d, k) == Readable(origin[d][k]) /\ content.says = origin[d][k].says
\* ... of the files, of what a context has captured, and of what a call has read.
FilesTell == \A d \in Dirs, k \in Kits : Readable(file[d][k]) => Tells(file[d][k], d, k)
CapturedTell == \A p \in Procs, k \in Kits :
    Readable(captured[p][k]) => Tells(captured[p][k], Home[p], k)
JobsTell == \A p \in Procs : job[p].pc # "idle" /\ Readable(job[p].data) =>
                                Tells(job[p].data, Home[p], job[p].kit)
SaysInv == FilesTell /\ CapturedTell /\ JobsTell

\* At the start the files say what they say.
LEMMA SaysInitInv == Init => SaysInv
BY DEF Init, RegistryInit, SaysInv, FilesTell, CapturedTell, JobsTell, Tells, Idle

\* A call that begins holds what it takes from a file or from the context.
LEMMA BeginsTells ==
    ASSUME RegistryTypeOK, SaysInv, NEW p \in Procs, NEW k \in Kits, NEW pc, NEW verb, NEW data,
           Begins(p, k, pc, verb, data), Readable(data) => Tells(data, Home[p], k)
    PROVE  FilesTell' /\ JobsTell'
<1>1. \A q \in Procs : job'[q] = IF q = p THEN [pc |-> pc, kit |-> k, verb |-> verb, data |-> data]
                                 ELSE job[q]
  BY DEF Begins, RegistryTypeOK
<1>2. UNCHANGED <<file, origin>>
  BY DEF Begins
<1>3. FilesTell'
  BY <1>2 DEF SaysInv, FilesTell, Tells
<1>4. JobsTell'
  BY <1>1, <1>2 DEF SaysInv, JobsTell, Tells
<1> QED
  BY <1>3, <1>4

\* Calls of modify() and of the context manager read files and say no more than they read.
LEMMA CallTells ==
    ASSUME RegistryTypeOK, SaysInv, NEW p \in Procs, NEW k \in Kits, Call(p, k)
    PROVE  SaysInv'
<1>1. ASSUME NEW verb, Modify(p, k, verb) PROVE SaysInv'
  <2> DEFINE old == file[Home[p]][k]
             data == [old EXCEPT !.pointer = (verb = "detach")]
  <2>1. Begins(p, k, "open", verb, data) /\ UNCHANGED <<captured, origin>>
    BY <1>1 DEF Modify, Begins
  <2>2. Home[p] \in Dirs /\ Tells(old, Home[p], k) /\ old \in Registrations
    BY <1>1, RegistryAssumption DEF Modify, SaysInv, FilesTell, RegistryTypeOK, Files
  <2>3. data.says = old.says
    BY <2>2 DEF Registrations
  <2>4. Tells(data, Home[p], k)
    BY <2>2, <2>3, Zenon DEF Tells
  <2> HIDE DEF data
  <2>5. FilesTell' /\ JobsTell'
    BY <2>1, <2>4, BeginsTells
  <2> QED
    BY <2>1, <2>5 DEF SaysInv, CapturedTell, Tells
<1>2. ASSUME Ungroup(p, k) PROVE SaysInv'
  <2>1. /\ Begins(p, k, "remove", "ungroup", Torn) /\ UNCHANGED origin
        /\ captured' = [captured EXCEPT ![p][k] = file[Home[p]][k]]
    BY <1>2 DEF Ungroup, Begins
  <2>2. FilesTell' /\ JobsTell'
    BY <2>1, BeginsTells
  <2>3. CapturedTell'
    <3>1. \A q \in Procs, x \in Kits :
            captured'[q][x] = IF q = p /\ x = k THEN file[Home[p]][k] ELSE captured[q][x]
      BY <2>1 DEF RegistryTypeOK
    <3>2. Home[p] \in Dirs
      BY RegistryAssumption
    <3> QED
      BY <2>1, <3>1, <3>2 DEF SaysInv, FilesTell, CapturedTell, Tells
  <2> QED
    BY <2>2, <2>3 DEF SaysInv
<1>3. ASSUME Group(p, k) PROVE SaysInv'
  <2>1. Begins(p, k, "open", "group", Bytes(p, k)) /\ UNCHANGED <<captured, origin>>
    BY <1>3 DEF Group, Begins
  <2>2. Readable(Bytes(p, k)) => Tells(Bytes(p, k), Home[p], k)
    BY DEF Bytes, SaysInv, CapturedTell, Tells
  <2>3. FilesTell' /\ JobsTell'
    BY <2>1, <2>2, BeginsTells
  <2> QED
    BY <2>1, <2>3 DEF SaysInv, CapturedTell, Tells
<1> QED
  BY <1>1, <1>2, <1>3 DEF Call, Detach, Attach

\* A call that goes on writes what it holds, or nothing.
LEMMA StepTells ==
    ASSUME RegistryTypeOK, SaysInv, NEW p \in Procs, Step(p)
    PROVE  SaysInv'
<1>1. /\ Home[p] \in Dirs /\ job[p].pc # "idle" /\ job[p].kit \in Kits
      /\ UNCHANGED <<captured, origin>>
  BY RegistryAssumption
     DEF Step, Open, Dump, DumpUnlinked, DumpFails, RemoveFile, CallFails, histories,
         RegistryTypeOK
<1>2. CapturedTell'
  BY <1>1 DEF SaysInv, CapturedTell, Tells
<1>3. FilesTell'
  <2>1. ASSUME NEW new, SetFile(p, new),
               Readable(new) => Tells(new, Home[p], job[p].kit)
        PROVE  FilesTell'
    <3>1. \A d \in Dirs, k \in Kits :
            file'[d][k] = IF d = Home[p] /\ k = job[p].kit THEN new ELSE file[d][k]
      BY <1>1, <2>1 DEF SetFile, RegistryTypeOK
    <3> QED
      BY <1>1, <2>1, <3>1 DEF SaysInv, FilesTell, Tells
  <2>2. CASE file' = file
    BY <1>1, <2>2 DEF SaysInv, FilesTell, Tells
  <2>3. CASE SetFile(p, Torn) \/ SetFile(p, Absent)
    BY <2>1, <2>3
  <2>4. CASE SetFile(p, Over(Its(p), job[p].data))
    <3>1. Readable(job[p].data) => Tells(job[p].data, Home[p], job[p].kit)
      BY <1>1 DEF SaysInv, JobsTell
    <3>2. Readable(Its(p)) => Tells(Its(p), Home[p], job[p].kit)
      BY <1>1 DEF SaysInv, FilesTell, Its
    <3>3. Over(Its(p), job[p].data) \in {Torn, Its(p), job[p].data}
      BY DEF Over
    <3>4. Readable(Over(Its(p), job[p].data)) =>
             Tells(Over(Its(p), job[p].data), Home[p], job[p].kit)
      BY <3>1, <3>2, <3>3
    <3> QED
      BY <2>1, <2>4, <3>4
  <2> QED
    BY <2>2, <2>3, <2>4
       DEF Step, Open, Dump, DumpUnlinked, DumpFails, RemoveFile, CallFails
<1>4. JobsTell'
  <2>1. \A q \in Procs : \/ job'[q] = Idle
                         \/ /\ job[q].pc # "idle" /\ job'[q].data = job[q].data
                            /\ job'[q].kit = job[q].kit
                         \/ job'[q] = job[q]
    <3>1. CASE Open(p)
      BY <1>1, <3>1 DEF Open, RegistryTypeOK
    <3>2. CASE Dump(p) \/ DumpUnlinked(p) \/ DumpFails(p) \/ CallFails(p)
      BY <3>2 DEF Dump, DumpUnlinked, DumpFails, CallFails, Ends, RegistryTypeOK
    <3>3. CASE RemoveFile(p)
      BY <3>3 DEF RemoveFile, RegistryTypeOK
    <3> QED
      BY <3>1, <3>2, <3>3 DEF Step
  <2> QED
    BY <1>1, <2>1 DEF SaysInv, JobsTell, Tells, Idle
<1> QED
  BY <1>2, <1>3, <1>4 DEF SaysInv

\* A killed call holds nothing.
LEMMA KilledTells ==
    ASSUME RegistryTypeOK, SaysInv, NEW p \in Procs, Killed(p)
    PROVE  SaysInv'
<1>1. UNCHANGED <<file, origin>>
  BY DEF Killed
<1>2. FilesTell'
  BY <1>1 DEF SaysInv, FilesTell, Tells
<1>3. CapturedTell'
  <2>1. \A q \in Procs, k \in Kits : captured'[q][k] = Absent \/ captured'[q][k] = captured[q][k]
    BY DEF Killed, RegistryTypeOK
  <2> QED
    BY <1>1, <2>1 DEF SaysInv, CapturedTell, Tells
<1>4. JobsTell'
  <2>1. \A q \in Procs : job'[q] = Idle \/ job'[q] = job[q]
    BY DEF Killed, Ends, RegistryTypeOK
  <2> QED
    BY <1>1, <2>1 DEF SaysInv, JobsTell, Tells, Idle
<1> QED
  BY <1>2, <1>3, <1>4 DEF SaysInv

\* Every step keeps it.
LEMMA SaysNextInv == ASSUME RegistryTypeOK, SaysInv, [Next]_vars PROVE SaysInv'
<1>1. CASE Other
  <2>1. PICK p \in Procs : (\E k \in Kits : Call(p, k)) \/ UndoMove(p) \/ Step(p) \/ Killed(p)
    BY <1>1 DEF Other, RegistryNext
  <2>2. ASSUME UndoMove(p) PROVE \E k \in Kits : Call(p, k)
    <3>1. last[p].kit \in Kits /\ (Ungroup(p, last[p].kit) \/ Group(p, last[p].kit))
      BY <2>2 DEF UndoMove, RegistryTypeOK
    <3> QED
      BY <3>1 DEF Call
  <2> QED
    BY <2>1, <2>2, CallTells, StepTells, KilledTells
<1>2. CASE UNCHANGED registryVars
  BY <1>2 DEF registryVars, histories, SaysInv, FilesTell, CapturedTell, JobsTell, Tells
<1> QED
  BY <1>1, <1>2, WalkReads DEF Next, vars

\* No file, context or call holds for a registration anything but what it said at the start.
LEMMA SaysInvariant == Spec => []SaysInv
<1>1. Init => SaysInv
  BY SaysInitInv
<1>2. RegistryInv /\ SaysInv /\ [Next]_vars => SaysInv'
  BY SaysNextInv DEF RegistryInv
<1> QED
  BY <1>1, <1>2, RegistryInvariant, PTL DEF Spec

-----------------------------------------------------------------------------
(* What a registration comes to while others write *)

\* The tools of a frame are looked for where they are.
RightBase(f) == f.base = RealBase[f.dir]
\* The tools of a registration: those its own manifest lists, or else its own.
ToolsOf(d, k) == IF own[d][k] = None THEN origin[d][k].says.tools ELSE own[d][k].tools
\* What is known of a kit that is no aggregator.
IsOf(kit, d, k) == /\ kit.tools = ToolsOf(d, k)
                   /\ own[d][k] # None => kit.base = own[d][k].base
\* What may have led to tools.
Possible == LoadingNow \cup {s \in Moving : CanLoad(s)}

\* The directories, what is in them and the configuration stay as they are.
LEMMA Fixed == ASSUME [Next]_vars PROVE UNCHANGED <<own, child, settings, origin>>
<1>1. Other => UNCHANGED origin
  <2> SUFFICES ASSUME NEW p \in Procs,
                      (\E k \in Kits : Call(p, k)) \/ UndoMove(p) \/ Step(p) \/ Killed(p)
               PROVE  UNCHANGED origin
    BY DEF Other, RegistryNext
  <2>1. ASSUME NEW k, Call(p, k) PROVE UNCHANGED origin
    BY <2>1 DEF Call, Detach, Attach, Modify, Ungroup, Group, Begins
  <2>2. UndoMove(p) => UNCHANGED origin
    BY DEF UndoMove, Ungroup, Group, Begins
  <2>3. Step(p) \/ Killed(p) => UNCHANGED origin
    BY DEF Step, Open, Dump, DumpUnlinked, DumpFails, RemoveFile, CallFails, Killed, histories
  <2> QED
    BY <2>1, <2>2, <2>3
<1> QED
  BY <1>1 DEF Next, vars, walkVars, registryVars, histories, Begin, Walk, ReadKit, ReadFails, Partition,
     Descend, Cycle, Return, Finish, Other

\* What a kit is that was read tells of its registration.
LEMMA MergedTells ==
    ASSUME RegistryTypeOK, WalkInv, SaysInv, NEW d \in Dirs, NEW k \in Kits,
           Readable(file[d][k]), ~Raises(d, k, RealBase[d])
    PROVE  LET kit == Merged(d, k, RealBase[d]) IN
           /\ ~kit.pointer => ~file[d][k].pointer
           /\ ~kit.virtual => CanLoad(<<d, k>>)
           /\ ~kit.virtual /\ child[d][k] = None => IsOf(kit, d, k)
<1> DEFINE reg == file[d][k]
           c == child[d][k]
           mine == own[d][k]
           kit == Merged(d, k, RealBase[d])
           over(other) == IF reg.says.override # None THEN reg.says.override ELSE other
<1>1. Inside(d, k, RealBase[d]) = c /\ Manifest(d, k, RealBase[d]) = mine
  BY DEF Inside, Manifest
<1>2. reg.says # Broken /\ origin[d][k] # Absent /\ origin[d][k].says = reg.says
  BY DEF Raises, IsBroken, SaysInv, FilesTell, Tells
<1>3. ~reg.says.virtual => CanLoad(<<d, k>>)
  BY <1>2 DEF CanLoad
<1>4. CASE ~reg.says.virtual /\ mine # None
  <2>1. kit = [kit |-> k, virtual |-> FALSE, pointer |-> reg.pointer, tools |-> mine.tools,
               base |-> mine.base, override |-> over(mine.override)]
    BY <1>1, <1>4 DEF Merged
  <2>2. kit.pointer = reg.pointer /\ kit.tools = mine.tools /\ kit.base = mine.base
    <3> HIDE DEF over
    <3> QED
      BY <2>1
  <2> QED
    BY <1>3, <1>4, <2>2 DEF ToolsOf, IsOf
<1>5. CASE ~reg.says.virtual /\ mine = None /\ c # None /\ OwnOnly(c, k)
  <2>1. kit = [kit |-> k, virtual |-> file[c][k].says.virtual,
               pointer |-> reg.pointer \/ file[c][k].pointer,
               tools |-> file[c][k].says.tools, base |-> file[c][k].says.base,
               override |-> over(file[c][k].says.override)]
    BY <1>1, <1>5 DEF Merged
  <2> DEFINE q == reg.pointer \/ file[c][k].pointer
  <2>2. kit = [kit |-> k, virtual |-> file[c][k].says.virtual, pointer |-> q,
               tools |-> file[c][k].says.tools, base |-> file[c][k].says.base,
               override |-> over(file[c][k].says.override)]
    BY <2>1
  <2>3. q = (reg.pointer \/ file[c][k].pointer)
    OBVIOUS
  <2>4. kit.pointer = q
    <3> HIDE DEF kit, q, over
    <3> QED
      BY <2>2
  <2>5. ~kit.pointer => ~reg.pointer
    <3> HIDE DEF kit, q
    <3> QED
      BY <2>3, <2>4, Zenon
  <2> QED
    BY <1>3, <1>5, <2>5
<1>6. CASE ~reg.says.virtual /\ mine = None /\ c # None /\ ~OwnOnly(c, k)
  <2>1. kit.pointer = reg.pointer
    BY <1>1, <1>6 DEF Merged
  <2> QED
    BY <1>3, <1>6, <2>1
<1>7. CASE reg.says.virtual \/ (mine = None /\ c = None)
  <2>1. kit = [kit |-> k, virtual |-> reg.says.virtual, pointer |-> reg.pointer,
               tools |-> reg.says.tools, base |-> reg.says.base, override |-> reg.says.override]
    <3> HIDE DEF over
    <3> QED
      BY <1>1, <1>7, Zenon DEF Merged, over
  <2>2. /\ kit.virtual = reg.says.virtual /\ kit.pointer = reg.pointer
        /\ kit.tools = reg.says.tools
    BY <2>1
  <2> QED
    BY <1>2, <1>3, <1>7, <2>2 DEF ToolsOf, IsOf
<1> QED
  BY <1>4, <1>5, <1>6, <1>7

\* What a registration comes to depends on the files that others may write only where it
\* counts as moving.
LEMMA UnmovedSame ==
    ASSUME RegistryTypeOK, RegistryTypeOK', WalkInv, Other, NEW d \in Dirs, NEW k \in Kits,
           <<d, k>> \notin Moving'
    PROVE  /\ <<d, k>> \notin Moving /\ file'[d][k] = file[d][k]
           /\ child[d][k] # None => file'[child[d][k]] = file[child[d][k]]
<1>1. /\ touched' = touched \cup {s \in Dirs \X Kits : file'[s[1]][s[2]] # file[s[1]][s[2]]}
      /\ child' = child
  BY DEF Other
<1>2. ASSUME NEW e \in Dirs, NEW x \in Kits, <<e, x>> \notin touched'
      PROVE  file'[e][x] = file[e][x]
  <2>1. <<e, x>> \in Dirs \X Kits /\ <<e, x>>[1] = e /\ <<e, x>>[2] = x
    OBVIOUS
  <2> QED
    BY <1>1, <1>2, <2>1
<1>3. <<d, k>> \in Dirs \X Kits /\ <<d, k>>[1] = d /\ <<d, k>>[2] = k
  OBVIOUS
<1>4. /\ <<d, k>> \notin touched'
      /\ child[d][k] # None => \A x \in Kits : <<child[d][k], x>> \notin touched'
  BY <1>1, <1>3 DEF Moving
<1>5. <<d, k>> \notin Moving
  BY <1>1, <1>3, <1>4 DEF Moving
<1>6. child[d][k] # None => file'[child[d][k]] = file[child[d][k]]
  <2> SUFFICES ASSUME child[d][k] # None PROVE file'[child[d][k]] = file[child[d][k]]
    OBVIOUS
  <2>1. child[d][k] \in Dirs
    BY DEF WalkInv
  <2>2. \A x \in Kits : file'[child[d][k]][x] = file[child[d][k]][x]
    BY <1>2, <1>4, <2>1
  <2>3. file'[child[d][k]] \in [Kits -> Files] /\ file[child[d][k]] \in [Kits -> Files]
    BY <2>1 DEF RegistryTypeOK
  <2> QED
    BY <2>2, <2>3
<1> QED
  BY <1>2, <1>4, <1>5, <1>6

\* A registration as the walk reads it where it looks in the right place.
RaisesAt(d, k) == Raises(d, k, RealBase[d])
\* ... and the kit it is then.
KitAt(d, k) == Merged(d, k, RealBase[d])

\* ... so it raises as before, and is the same kit.
LEMMA UnmovedReads ==
    ASSUME RegistryTypeOK, RegistryTypeOK', WalkInv, Other, NEW d \in Dirs, NEW k \in Kits,
           <<d, k>> \notin Moving'
    PROVE  (RaisesAt(d, k)' <=> RaisesAt(d, k)) /\ KitAt(d, k)' = KitAt(d, k)
<1> DEFINE c == child[d][k]
<1>1. /\ file'[d][k] = file[d][k] /\ UNCHANGED <<own, child>>
      /\ c # None => file'[c] = file[c]
  BY UnmovedSame DEF Other
<1>2. /\ Inside(d, k, RealBase[d]) = c /\ Inside(d, k, RealBase[d])' = c
      /\ Manifest(d, k, RealBase[d]) = own[d][k] /\ Manifest(d, k, RealBase[d])' = own[d][k]
  BY <1>1 DEF Inside, Manifest
<1>3. ASSUME c # None
      PROVE  /\ LookRaises(c)' <=> LookRaises(c)
             /\ OwnOnly(c, k)' <=> OwnOnly(c, k)
             /\ BaseInside(c)' = BaseInside(c)
             /\ Hinted(c)' <=> Hinted(c)
  <2>1. file'[c] = file[c]
    BY <1>1, <1>3
  <2>2. \A x : HasBase(c, x)' <=> HasBase(c, x)
    BY <1>1, <2>1 DEF HasBase, Physical, IsBroken
  <2>6. \A x : HasName(c, x)' <=> HasName(c, x)
    BY <1>1, <2>1 DEF HasName, Physical, IsBroken
  <2>3. LookRaises(c)' <=> LookRaises(c)
    BY <1>1, <2>1, <2>2, <2>6 DEF LookRaises, IsBroken
  <2>4. OwnOnly(c, k)' <=> OwnOnly(c, k)
    BY <1>1, <2>1 DEF OwnOnly
  <2>5. BaseInside(c)' = BaseInside(c)
    BY <1>1, <2>1, <2>2 DEF BaseInside
  <2>7. Hinted(c)' <=> Hinted(c)
    BY <1>1, <2>2, <2>6 DEF Hinted
  <2> QED
    BY <2>3, <2>4, <2>5, <2>7
<1>4. RaisesAt(d, k)' <=> RaisesAt(d, k)
  BY <1>1, <1>2, <1>3 DEF RaisesAt, Raises, IsBroken
<1>5. KitAt(d, k)' = KitAt(d, k)
  BY <1>1, <1>2, <1>3 DEF KitAt, Merged
<1> QED
  BY <1>4, <1>5

\* What counts as loading, told by RaisesAt and KitAt.
LEMMA LoadingIs ==
    ASSUME NEW d \in Dirs, NEW k \in Kits
    PROVE  /\ <<d, k>> \in LoadingNow <=>
                /\ Readable(file[d][k]) /\ ~RaisesAt(d, k) /\ ~file[d][k].pointer
                /\ ~KitAt(d, k).pointer /\ ~KitAt(d, k).virtual
           /\ <<d, k>> \in FoundNow <=>
                /\ <<d, k>> \in LoadingNow
                /\ child[d][k] # None => RealBase[child[d][k]] = BaseOf(KitAt(d, k))
<1>1. <<d, k>> \in Dirs \X Kits /\ <<d, k>>[1] = d /\ <<d, k>>[2] = k
  OBVIOUS
<1>2. <<d, k>> \in LoadingNow <=>
                /\ Readable(file[d][k]) /\ ~RaisesAt(d, k) /\ ~file[d][k].pointer
                /\ ~KitAt(d, k).pointer /\ ~KitAt(d, k).virtual
  BY <1>1 DEF LoadingNow, RaisesAt, KitAt
<1>3. <<d, k>> \in FoundNow <=>
                /\ <<d, k>> \in LoadingNow
                /\ child[d][k] # None => RealBase[child[d][k]] = BaseOf(KitAt(d, k))
  BY <1>1 DEF FoundNow, KitAt, BaseOf
<1> QED
  BY <1>2, <1>3

\* They are registrations; those that are found are loaded.
LEMMA LoadingPairs == LoadingNow \subseteq Dirs \X Kits /\ FoundNow \subseteq LoadingNow
                      /\ Moving \subseteq Dirs \X Kits
BY DEF LoadingNow, FoundNow, Moving

\* What loads could load from the start.
LEMMA LoadingTells ==
    ASSUME RegistryTypeOK, WalkInv, SaysInv, NEW d \in Dirs, NEW k \in Kits,
           <<d, k>> \in LoadingNow
    PROVE  CanLoad(<<d, k>>)
BY LoadingIs, MergedTells DEF RaisesAt, KitAt

\* While others write, what loads and was not touched only becomes less, ...
LEMMA LoadingShrinks ==
    ASSUME RegistryTypeOK, RegistryTypeOK', WalkInv, Other
    PROVE  /\ LoadingNow' \ Moving' \subseteq LoadingNow \ Moving
           /\ FoundNow' \ Moving' \subseteq FoundNow \ Moving
<1> SUFFICES ASSUME NEW s, s \in LoadingNow' \ Moving'
             PROVE  s \in LoadingNow \ Moving /\ (s \in FoundNow' => s \in FoundNow)
  BY DEF FoundNow
<1>1. PICK d \in Dirs, k \in Kits : s = <<d, k>>
  BY DEF LoadingNow
<1>2. /\ <<d, k>> \notin Moving /\ file'[d][k] = file[d][k] /\ child' = child
      /\ RaisesAt(d, k)' <=> RaisesAt(d, k)
      /\ KitAt(d, k)' = KitAt(d, k)
  BY <1>1, UnmovedSame, UnmovedReads DEF Other
<1>3. /\ Readable(file'[d][k]) /\ ~RaisesAt(d, k)' /\ ~file'[d][k].pointer
      /\ ~KitAt(d, k)'.pointer /\ ~KitAt(d, k)'.virtual
  BY <1>1 DEF LoadingNow, RaisesAt, KitAt
<1>4. <<d, k>> \in LoadingNow
  BY <1>2, <1>3, LoadingIs
<1>5. ASSUME s \in FoundNow'
      PROVE  child[d][k] # None => RealBase[child[d][k]] = BaseOf(KitAt(d, k))
  BY <1>1, <1>2, <1>5 DEF FoundNow, KitAt, BaseOf
<1> QED
  BY <1>1, <1>2, <1>4, <1>5, LoadingIs

\* ... and what may have led to tools only becomes more.
LEMMA PossibleGrows ==
    ASSUME RegistryTypeOK, RegistryTypeOK', WalkInv, SaysInv, Other
    PROVE  Possible \subseteq Possible'
<1> SUFFICES ASSUME NEW s \in Possible PROVE s \in Possible'
  OBVIOUS
<1>1. s \in Dirs \X Kits /\ (s \in LoadingNow \/ (s \in Moving /\ CanLoad(s)))
  BY LoadingPairs DEF Possible
<1>2. PICK d \in Dirs, k \in Kits : s = <<d, k>>
  BY <1>1
<1>3. CanLoad(s) /\ (CanLoad(s)' <=> CanLoad(s))
  BY <1>1, <1>2, LoadingTells, Fixed DEF CanLoad, Next
<1>4. CASE s \in Moving'
  BY <1>3, <1>4 DEF Possible
<1>5. CASE s \notin Moving'
  <2>1. /\ <<d, k>> \notin Moving /\ file'[d][k] = file[d][k]
        /\ RaisesAt(d, k)' <=> RaisesAt(d, k)
        /\ KitAt(d, k)' = KitAt(d, k)
    BY <1>2, <1>5, UnmovedSame, UnmovedReads
  <2>2. <<d, k>> \in LoadingNow
    BY <1>1, <1>2, <2>1
  <2>3. /\ Readable(file'[d][k]) /\ ~RaisesAt(d, k)' /\ ~file'[d][k].pointer
        /\ ~KitAt(d, k)'.pointer /\ ~KitAt(d, k)'.virtual
    BY <2>1, <2>2, LoadingIs
  <2>4. <<d, k>> \in LoadingNow'
    <3>1. <<d, k>> \in Dirs \X Kits /\ <<d, k>>[1] = d /\ <<d, k>>[2] = k
      OBVIOUS
    <3> QED
      BY <2>3, <3>1 DEF LoadingNow, RaisesAt, KitAt
  <2> QED
    BY <1>2, <2>4 DEF Possible
<1> QED
  BY <1>4, <1>5

\* An aggregator whose registrations, and those of the aggregators in it, are as they should
\* be from the start never raises.
LEMMA NeverRaisesAt ==
    ASSUME RegistryTypeOK, WalkInv, SaysInv, NEW d \in Dirs, NeverRaises(d), NEW k \in Kits
    PROVE  ~RaisesAt(d, k)
<1>1. ASSUME NEW e \in Dirs, NEW x \in Kits, IsBroken(file[e][x]) PROVE IsBroken(origin[e][x])
  BY <1>1 DEF IsBroken, SaysInv, FilesTell, Tells
<1>2. ~IsBroken(file[d][k]) /\ own[d][k] # Broken
  BY <1>1 DEF NeverRaises
<1>3. ASSUME child[d][k] # None PROVE ~LookRaises(child[d][k])
  <2>1. child[d][k] \in Dirs /\ \A x \in Kits : ~IsBroken(file[child[d][k]][x])
    BY <1>1, <1>3 DEF NeverRaises, WalkInv
  <2>2. \A i \in DOMAIN Order : Order[i] \in Kits
    BY DiscoveryAssumption
  <2> QED
    BY <2>1, <2>2 DEF LookRaises
<1> QED
  BY <1>2, <1>3 DEF RaisesAt, Raises, Inside, Manifest

-----------------------------------------------------------------------------
(* What the steps of the walk do to the stack *)

\* What the updates of a frame leave as it was.
LEMMA ReadsFields ==
    ASSUME NEW f \in FrameType, NEW unread, NEW kits
    PROVE  LET g == [f EXCEPT !.unread = unread, !.kits = kits] IN
           /\ g.unread = unread /\ g.kits = kits
           /\ g.dir = f.dir /\ g.base = f.base /\ g.name = f.name /\ g.todo = f.todo
           /\ g.parted = f.parted /\ g.projects = f.projects /\ g.virtuals = f.virtuals
BY DEF FrameType
\* ... when it is parted,
LEMMA PartsFields ==
    ASSUME NEW f \in FrameType, NEW todo, NEW ps, NEW vs
    PROVE  LET g == [f EXCEPT !.parted = TRUE, !.todo = todo, !.projects = ps, !.virtuals = vs] IN
           /\ g.unread = f.unread /\ g.kits = f.kits
           /\ g.dir = f.dir /\ g.base = f.base /\ g.name = f.name /\ g.todo = todo
           /\ g.parted = TRUE /\ g.projects = ps /\ g.virtuals = vs
BY DEF FrameType
\* ... when it goes on with its aggregators,
LEMMA GoesOnFields ==
    ASSUME NEW f \in FrameType, NEW todo
    PROVE  LET g == [f EXCEPT !.todo = todo] IN
           /\ g.unread = f.unread /\ g.kits = f.kits
           /\ g.dir = f.dir /\ g.base = f.base /\ g.name = f.name /\ g.todo = todo
           /\ g.parted = f.parted /\ g.projects = f.projects /\ g.virtuals = f.virtuals
BY DEF FrameType
\* ... and when it takes over what one of them has found.
LEMMA TakesOverFields ==
    ASSUME NEW f \in FrameType, NEW ps, NEW vs
    PROVE  LET g == [f EXCEPT !.projects = ps, !.virtuals = vs] IN
           /\ g.unread = f.unread /\ g.kits = f.kits
           /\ g.dir = f.dir /\ g.base = f.base /\ g.name = f.name /\ g.todo = f.todo
           /\ g.parted = f.parted /\ g.projects = ps /\ g.virtuals = vs
BY DEF FrameType

\* The walk writes nothing, and only its stack, its status and its result change.
LEMMA WalkFixed == ASSUME Walk
                   PROVE  UNCHANGED <<file, own, child, settings, origin, touched>>
BY DEF Walk, ReadKit, ReadFails, Partition, Descend, Cycle, Return, Finish, registryVars,
       histories

\* The frames are of one aggregator, under one name.
SamePlace(f, g) == f.dir = g.dir /\ f.base = g.base /\ f.name = g.name
\* The stack is as high as it was, and all frames below the top one stay.
TopChanges == /\ Len(stack) \in Nat \ {0} /\ Len(stack') = Len(stack)
              /\ DOMAIN stack = 1..Len(stack) /\ DOMAIN stack' = 1..Len(stack)
              /\ \A i \in 1..Len(stack) - 1 : stack'[i] = stack[i]
              /\ Top = stack[Len(stack)] /\ Top \in FrameType /\ FrameOK(Top)

\* A step that sets the top frame changes nothing below it.
LEMMA TopReplaced ==
    ASSUME WalkInv, Walking, NEW f \in FrameType, SetTop(f), stack' \in Seq(FrameType)
    PROVE  TopChanges /\ stack'[Len(stack)] = f
<1>1. /\ stack \in Seq(FrameType) /\ Len(stack) \in Nat /\ Len(stack) > 0
      /\ DOMAIN stack = 1..Len(stack)
      /\ Top = stack[Len(stack)] /\ Top \in FrameType /\ FrameOK(Top)
  BY TopFrame DEF WalkInv, StackOK
<1>2. Len(stack) \in 1..Len(stack)
  BY <1>1
<1>7. Len(stack) \in Nat \ {0}
  BY <1>1
<1>3. /\ Len(stack') = Len(stack)
      /\ \A j \in 1..Len(stack) : stack'[j] = IF j = Len(stack) THEN f ELSE stack[j]
  BY <1>1, <1>2, ExceptSeq DEF SetTop
<1>4. DOMAIN stack' = 1..Len(stack')
  OBVIOUS
<1>5. ASSUME NEW i \in 1..Len(stack) - 1 PROVE stack'[i] = stack[i]
  <2>1. i \in 1..Len(stack) /\ i # Len(stack)
    BY <1>7
  <2> QED
    BY <1>3, <2>1
<1>6. stack'[Len(stack)] = f
  BY <1>2, <1>3
<1> QED
  BY <1>1, <1>3, <1>4, <1>5, <1>6, <1>7 DEF TopChanges

\* What ReadKit does to the top frame.
LEMMA ReadKitDoes ==
    ASSUME RegistryTypeOK, WalkInv, ReadKit
    PROVE  LET k == Head(Top.unread)
               f == stack'[Len(stack)]
           IN /\ TopChanges
              /\ k \in Kits /\ ~Raises(Top.dir, k, Top.base)
              /\ f.unread = Tail(Top.unread)
              /\ f.kits = IF Readable(file[Top.dir][k])
                          THEN Top.kits \cup {Merged(Top.dir, k, Top.base)} ELSE Top.kits
              /\ SamePlace(f, Top) /\ f.todo = Top.todo /\ f.parted = Top.parted
              /\ f.projects = Top.projects /\ f.virtuals = Top.virtuals
<1> DEFINE k == Head(Top.unread)
           kits == IF Readable(file[Top.dir][k])
                   THEN Top.kits \cup {Merged(Top.dir, k, Top.base)} ELSE Top.kits
           f == [Top EXCEPT !.unread = Tail(Top.unread), !.kits = kits]
<1>1. WalkInv' /\ Walking /\ Top \in FrameType /\ Top.unread # <<>> /\ ~Raises(Top.dir, k, Top.base)
  BY ReadKitKeeps, TopFrame DEF ReadKit
<1>2. k \in Kits
  BY <1>1, FrameFields, HeadTailProperties
<1>3. SetTop(f)
  BY DEF ReadKit
<1> HIDE DEF kits
<1>4. /\ f.unread = Tail(Top.unread) /\ f.kits = kits
      /\ f.dir = Top.dir /\ f.base = Top.base /\ f.name = Top.name /\ f.todo = Top.todo
      /\ f.parted = Top.parted /\ f.projects = Top.projects /\ f.virtuals = Top.virtuals
  BY <1>1, ReadsFields
<1>5. stack' \in Seq(FrameType)
  BY <1>1 DEF WalkInv, StackOK
<1>6. f \in FrameType
  <2>1. Tail(Top.unread) \in Seq(Kits)
    BY <1>1, FrameFields, HeadTailProperties
  <2>2. kits \in SUBSET KitType
    BY <1>1, <1>2, MergedType, FrameFields DEF kits
  <2> QED
    BY <1>1, <2>1, <2>2, FrameReads
<1> HIDE DEF f
<1>7. TopChanges /\ stack'[Len(stack)] = f
  BY <1>1, <1>3, <1>5, <1>6, TopReplaced
<1> QED
  BY <1>1, <1>2, <1>4, <1>7 DEF kits, SamePlace

\* The kits of a frame that are loaded, those of them that are aggregators, and the flat ones.
LoadedOf(f) == {kit \in f.kits : ~kit.virtual /\ ~kit.pointer}
NestedOf(f) == {kit.kit : kit \in {x \in LoadedOf(f) : Inside(f.dir, x.kit, f.base) # None}}
FlatOf(f) == {kit \in LoadedOf(f) : kit.kit \notin NestedOf(f)}
\* What it finds itself: its projects, and its virtual kits.
PartsOf(f, depth) == {Project(f, ref, Active(f, depth)) :
                        ref \in Discovered(f.dir, f.base, FlatOf(f))}
VirtualsOf(f, depth) == {VirtualKit(f, kit.kit, Active(f, depth)) :
                           kit \in {x \in f.kits : x.virtual}}

\* What Partition does to the top frame.
LEMMA PartitionDoes ==
    ASSUME WalkInv, Partition
    PROVE  LET f == stack'[Len(stack)] IN
           /\ TopChanges /\ ~Top.parted /\ Top.unread = <<>>
           /\ SamePlace(f, Top) /\ f.kits = Top.kits /\ f.unread = Top.unread /\ f.parted = TRUE
           /\ f.todo = NestedOf(Top)
           /\ f.projects = PartsOf(Top, Depth) /\ f.virtuals = VirtualsOf(Top, Depth)
<1> DEFINE todo == NestedOf(Top)
           ps == PartsOf(Top, Depth)
           vs == VirtualsOf(Top, Depth)
           f == [Top EXCEPT !.parted = TRUE, !.todo = todo, !.projects = ps, !.virtuals = vs]
<1>1. WalkInv' /\ Walking /\ Top \in FrameType /\ ~Top.parted /\ Top.unread = <<>>
  BY PartitionKeeps, TopFrame DEF Partition
<1>2. SetTop(f)
  BY Zenon DEF Partition, NestedOf, LoadedOf, FlatOf, PartsOf, VirtualsOf
<1> HIDE DEF todo, ps, vs
<1>3. /\ f.unread = Top.unread /\ f.kits = Top.kits
      /\ f.dir = Top.dir /\ f.base = Top.base /\ f.name = Top.name /\ f.todo = todo
      /\ f.parted = TRUE /\ f.projects = ps /\ f.virtuals = vs
  BY <1>1, PartsFields
<1> HIDE DEF f
<1>4. stack \in Seq(FrameType) /\ stack' \in Seq(FrameType)
  BY <1>1 DEF WalkInv, StackOK
<1>5. /\ Len(stack) \in Nat /\ Len(stack) > 0 /\ DOMAIN stack = 1..Len(stack)
      /\ DOMAIN stack' = 1..Len(stack') /\ Top = stack[Len(stack)]
  BY <1>1, <1>4, TopFrame
<1>6. Len(stack) \in 1..Len(stack) /\ Len(stack) \in DOMAIN stack
  BY <1>5
<1>7. stack' = [stack EXCEPT ![Len(stack)] = f]
  BY <1>2 DEF SetTop
<1>8. stack'[Len(stack)] = f
  BY <1>4, <1>6, <1>7
<1>9. f \in FrameType
  <2>1. DOMAIN stack' = DOMAIN stack
    BY <1>7
  <2>2. stack'[Len(stack)] \in FrameType
    BY <1>4, <1>6, <2>1
  <2> QED
    BY <1>8, <2>2
<1>10. TopChanges
  BY <1>1, <1>2, <1>4, <1>9, TopReplaced
<1> QED
  BY <1>1, <1>3, <1>8, <1>10 DEF SamePlace, todo, ps, vs

\* A frame is put on top.
LEMMA DescendDoes ==
    ASSUME WalkInv, Descend
    PROVE  LET n == Len(stack)
               k == First(Top.todo)
               f == stack'[n]
               g == stack'[n + 1]
           IN /\ n \in Nat \ {0} /\ Len(stack') = n + 1
              /\ DOMAIN stack = 1..n /\ DOMAIN stack' = 1..n + 1
              /\ \A i \in 1..n - 1 : stack'[i] = stack[i]
              /\ Top = stack[n] /\ Top \in FrameType /\ FrameOK(Top)
              /\ Top.parted /\ k \in Top.todo /\ ~OnStack(Embedded)
              /\ SamePlace(f, Top) /\ f.kits = Top.kits /\ f.unread = Top.unread
              /\ f.parted = Top.parted /\ f.todo = Top.todo \ {k}
              /\ f.projects = Top.projects /\ f.virtuals = Top.virtuals
              /\ g = Frame(Embedded, Append(Top.name, k), EmbeddedBase)
<1> DEFINE n == Len(stack)
           k == First(Top.todo)
           todo == Top.todo \ {k}
           f == [Top EXCEPT !.todo = todo]
           mid == [stack EXCEPT ![n] = f]
           g == Frame(Embedded, Append(Top.name, k), EmbeddedBase)
<1>1. /\ WalkInv' /\ Walking /\ Top \in FrameType /\ Top.parted /\ Top.todo # {}
      /\ ~OnStack(Embedded) /\ FrameOK(Top)
  BY DescendKeeps, TopFrame DEF Descend
<1>2. k \in Top.todo
  BY <1>1, FirstOf, FrameFields
<1>3. stack \in Seq(FrameType) /\ stack' \in Seq(FrameType)
  BY <1>1 DEF WalkInv, StackOK
<1>4. n \in Nat /\ n > 0 /\ DOMAIN stack = 1..n /\ DOMAIN stack' = 1..Len(stack')
      /\ Top = stack[n]
  BY <1>1, <1>3, TopFrame
<1>5. n \in 1..n /\ n \in Nat \ {0}
  BY <1>4
<1>6. stack' = Append(mid, g)
  <2>1. stack' = Append([stack EXCEPT ![n].todo = @ \ {First(@)}], g)
    BY DEF Descend
  <2>2. [stack EXCEPT ![n].todo = @ \ {First(@)}] = mid
    BY <1>5, <1>4, Zenon DEF Top
  <2> QED
    BY <2>1, <2>2
<1>7. /\ f.unread = Top.unread /\ f.kits = Top.kits
      /\ f.dir = Top.dir /\ f.base = Top.base /\ f.name = Top.name /\ f.todo = todo
      /\ f.parted = Top.parted /\ f.projects = Top.projects /\ f.virtuals = Top.virtuals
  <2> HIDE DEF todo
  <2> QED
    BY <1>1, GoesOnFields
<1>8. f \in FrameType
  <2>1. todo \in SUBSET Kits
    BY <1>1, FrameFields
  <2> HIDE DEF todo
  <2> QED
    BY <1>1, <2>1, FrameGoesOn
<1> HIDE DEF f, g, k, todo
<1>9. /\ mid \in Seq(FrameType) /\ Len(mid) = n
      /\ \A j \in 1..n : mid[j] = IF j = n THEN f ELSE stack[j]
  BY <1>3, <1>5, <1>8, ExceptSeq
<1> HIDE DEF mid
<1>10. /\ Len(stack') = n + 1 /\ stack'[n + 1] = g
       /\ \A j \in 1..n : stack'[j] = mid[j]
  <2> DEFINE T == FrameType \cup {g}
  <2>1. g \in T /\ mid \in Seq(T)
    BY <1>9
  <2> HIDE DEF T
  <2>2. /\ Len(Append(mid, g)) = Len(mid) + 1 /\ Append(mid, g)[Len(mid) + 1] = g
        /\ \A j \in 1..Len(mid) : Append(mid, g)[j] = mid[j]
    BY <2>1, AppendProperties
  <2> QED
    BY <1>6, <1>9, <2>2
<1>11. ASSUME NEW i \in 1..n - 1 PROVE stack'[i] = stack[i]
  <2>1. i \in 1..n /\ i # n
    BY <1>5
  <2> QED
    BY <1>9, <1>10, <2>1
<1>12. stack'[n] = f
  BY <1>5, <1>9, <1>10
<1> HIDE DEF n
<1>13. DOMAIN stack' = 1..n + 1
  BY <1>4, <1>10
<1> QED
  BY <1>1, <1>2, <1>4, <1>5, <1>7, <1>10, <1>11, <1>12, <1>13 DEF SamePlace, todo, f, g, k, n

\* The top frame goes.
LEMMA PopDoes ==
    ASSUME WalkInv, ReadFails, Depth # 0
    PROVE  /\ Len(stack) \in Nat /\ Len(stack) > 1 /\ Len(stack') = Len(stack) - 1
           /\ DOMAIN stack = 1..Len(stack) /\ DOMAIN stack' = 1..Len(stack) - 1
           /\ \A i \in 1..Len(stack) - 1 : stack'[i] = stack[i]
           /\ status' = status
<1>1. stack' = Front(stack) /\ status' = status /\ Walking /\ child' = child
  BY DEF ReadFails
<1>2. Len(stack) \in Nat /\ Len(stack) > 0 /\ DOMAIN stack = 1..Len(stack)
  BY <1>1, TopFrame
<1>3. Len(stack) > 1
  BY <1>2 DEF Depth
<1>4. Len(stack') = Len(stack) - 1 /\ \A i \in 1..Len(stack') : stack'[i] = stack[i]
  BY <1>1, StackPopped
<1>5. DOMAIN stack' = 1..Len(stack')
  BY ReadFailsKeeps DEF WalkInv, StackOK
<1> QED
  BY <1>1, <1>2, <1>3, <1>4, <1>5

\* ... and what it found goes to the one below.
LEMMA ReturnDoes ==
    ASSUME WalkInv, Return
    PROVE  LET n == Len(stack) - 1
               below == stack[n]
               active == Top.name[Len(Top.name)] \in Active(below, Depth - 1)
               f == stack'[n]
           IN /\ n \in Nat \ {0} /\ Len(stack') = n /\ Len(stack) = n + 1
              /\ DOMAIN stack = 1..n + 1 /\ DOMAIN stack' = 1..n
              /\ \A i \in 1..n - 1 : stack'[i] = stack[i]
              /\ Top = stack[n + 1] /\ Top \in FrameType /\ below \in FrameType
              /\ Top.parted /\ Top.todo = {}
              /\ SamePlace(f, below) /\ f.kits = below.kits /\ f.unread = below.unread
              /\ f.parted = below.parted /\ f.todo = below.todo
              /\ f.projects = below.projects
                                \cup {[p EXCEPT !.active = active] : p \in Top.projects}
              /\ f.virtuals = below.virtuals
                                \cup {[v EXCEPT !.active = active /\ v.active] : v \in Top.virtuals}
<1> DEFINE n == Len(stack) - 1
           below == stack[n]
           active == Top.name[Len(Top.name)] \in Active(below, Depth - 1)
           ps == below.projects \cup {[p EXCEPT !.active = active] : p \in Top.projects}
           vs == below.virtuals
                   \cup {[v EXCEPT !.active = active /\ v.active] : v \in Top.virtuals}
           f == [below EXCEPT !.projects = ps, !.virtuals = vs]
           rest == Front(stack)
<1>1. WalkInv' /\ Walking /\ Top.parted /\ Top.todo = {} /\ Depth > 0
  BY ReturnKeeps DEF Return, Done
<1>2. stack \in Seq(FrameType) /\ stack' \in Seq(FrameType)
  BY <1>1 DEF WalkInv, StackOK
<1>3. /\ Len(stack) \in Nat /\ Len(stack) > 0 /\ DOMAIN stack = 1..Len(stack)
      /\ Top = stack[Len(stack)] /\ Top \in FrameType
  BY <1>1, TopFrame
<1>4. n \in Nat \ {0} /\ n \in 1..n /\ n \in 1..Len(stack) /\ Len(stack) = n + 1
  BY <1>1, <1>3 DEF Depth
<1>5. below \in FrameType
  BY <1>2, <1>4
<1>6. stack' = [rest EXCEPT ![n] = f]
  BY DEF Return
<1> HIDE DEF ps, vs, below
<1>7. /\ f.unread = below.unread /\ f.kits = below.kits
      /\ f.dir = below.dir /\ f.base = below.base /\ f.name = below.name /\ f.todo = below.todo
      /\ f.parted = below.parted /\ f.projects = ps /\ f.virtuals = vs
  BY <1>5, TakesOverFields
<1> HIDE DEF f
<1>8. /\ rest \in Seq(FrameType) /\ Len(rest) = n /\ \A j \in 1..n : rest[j] = stack[j]
  BY <1>2, <1>3, <1>4, SubSeqProperties DEF Front
<1> HIDE DEF rest, n
<1>9. DOMAIN rest = 1..n
  BY <1>8
<1>10. /\ DOMAIN stack' = 1..n /\ stack'[n] = f
       /\ \A i \in 1..n : i # n => stack'[i] = rest[i]
  BY <1>4, <1>6, <1>9
<1>11. Len(stack') = n
  BY <1>2, <1>4, <1>10
<1>12. ASSUME NEW i \in 1..n - 1 PROVE stack'[i] = stack[i]
  <2>1. i \in 1..n /\ i # n
    BY <1>4
  <2> QED
    BY <1>8, <1>10, <2>1
<1> QED
  BY <1>1, <1>3, <1>4, <1>5, <1>7, <1>10, <1>11, <1>12 DEF SamePlace, ps, vs, below, n, active

-----------------------------------------------------------------------------
(* How the frames of the stack hang together *)

\* The frame loads the kit k.
Loads(f, k) == \E kit \in f.kits : kit.kit = k /\ ~kit.virtual /\ ~kit.pointer
\* A frame is parted after its registrations are read, and finds nothing before it is, nor
\* where the tools are looked for in a directory that is not there.
ShapeOf(f) ==
    /\ ~f.parted => f.projects = {} /\ f.virtuals = {} /\ f.todo = {}
    /\ f.parted => f.unread = <<>>
    /\ ~RightBase(f) => f.todo = {} /\ f.projects = {}
    /\ \A k \in f.todo : Loads(f, k)
\* The frame g was entered from f through its kit k.
LinkOf(f, k, g) ==
    /\ f.parted /\ RightBase(f) /\ Loads(f, k) /\ child[f.dir][k] = g.dir
    /\ \E kit \in f.kits : kit.kit = k /\ g.base = BaseOf(kit)
\* The name of a frame is the way to it, kit by kit.
NameOf(i) == /\ Len(stack[i].name) = i - 1
             /\ \A j \in 1..i - 1 : stack[i].name[j] = stack[j + 1].name[j]
\* The frames are in shape, the first is the root, and each was entered from the one below.
ShapeInv ==
    /\ \A i \in DOMAIN stack : ShapeOf(stack[i])
    /\ \A i \in DOMAIN stack : NameOf(i)
    /\ stack # <<>> => stack[1].dir = Root /\ RightBase(stack[1])
    /\ \A i \in DOMAIN stack : i + 1 \in DOMAIN stack =>
          LinkOf(stack[i], stack[i + 1].name[i], stack[i + 1])

\* It only takes a frame to be in shape where nothing but the top one changes, ...
LEMMA ShapeOfTop ==
    ASSUME ShapeInv, TopChanges, child' = child, NEW f, f = stack'[Len(stack)],
           SamePlace(f, Top), ShapeOf(f)
    PROVE  ShapeInv'
<1> DEFINE n == Len(stack)
<1>1. /\ n \in Nat \ {0} /\ DOMAIN stack = 1..n /\ DOMAIN stack' = 1..n
      /\ \A i \in 1..n - 1 : stack'[i] = stack[i]
      /\ stack'[n] = f /\ f.dir = stack[n].dir /\ f.base = stack[n].base
      /\ f.name = stack[n].name
  BY DEF TopChanges, SamePlace
<1> HIDE DEF n
<1>2. \A i \in 1..n : i = n \/ i \in 1..n - 1
  BY <1>1
<1>3. \A i \in 1..n : /\ stack'[i].name = stack[i].name /\ stack'[i].dir = stack[i].dir
                      /\ stack'[i].base = stack[i].base
  BY <1>1, <1>2
<1>4. ASSUME NEW i \in 1..n PROVE ShapeOf(stack'[i]) /\ ShapeOf(stack[i])'
  <2>1. ShapeOf(stack'[i])
    BY <1>1, <1>2 DEF ShapeInv
  <2> QED
    BY <2>1 DEF ShapeOf, RightBase, Loads
<1>5. ASSUME NEW i \in 1..n PROVE NameOf(i)'
  <2>1. NameOf(i) /\ \A j \in 1..i - 1 : j + 1 \in 1..n
    BY <1>1 DEF ShapeInv
  <2> QED
    BY <1>3, <2>1 DEF NameOf
<1>6. stack' # <<>> => stack'[1].dir = Root /\ RightBase(stack'[1])
  <2>1. 1 \in 1..n /\ stack # <<>>
    BY <1>1
  <2> QED
    BY <1>3, <2>1 DEF ShapeInv, RightBase
<1>7. ASSUME NEW i \in 1..n, i + 1 \in 1..n
      PROVE  LinkOf(stack[i], stack[i + 1].name[i], stack[i + 1])'
  <2>1. i \in 1..n - 1
    BY <1>1, <1>7
  <2>2. stack'[i] = stack[i]
    BY <1>1, <2>1
  <2>3. LinkOf(stack[i], stack[i + 1].name[i], stack[i + 1])
    BY <1>1, <1>7 DEF ShapeInv
  <2> QED
    BY <1>3, <1>7, <2>2, <2>3 DEF LinkOf, RightBase, Loads
<1> QED
  BY <1>1, <1>4, <1>5, <1>6, <1>7 DEF ShapeInv, RightBase

\* ... or where the top one goes and the one below it becomes f.
LEMMA ShapeOfBelow ==
    ASSUME ShapeInv, child' = child, NEW n \in Nat \ {0}, DOMAIN stack = 1..n + 1,
           DOMAIN stack' = 1..n, \A i \in 1..n - 1 : stack'[i] = stack[i],
           NEW f, f = stack'[n], SamePlace(f, stack[n]), ShapeOf(f)
    PROVE  ShapeInv'
<1>1. /\ stack'[n] = f /\ f.dir = stack[n].dir /\ f.base = stack[n].base
      /\ f.name = stack[n].name
  BY DEF SamePlace
<1>2. \A i \in 1..n : (i = n \/ i \in 1..n - 1) /\ i \in 1..n + 1
  OBVIOUS
<1>3. \A i \in 1..n : /\ stack'[i].name = stack[i].name /\ stack'[i].dir = stack[i].dir
                      /\ stack'[i].base = stack[i].base
  BY <1>1, <1>2
<1>4. ASSUME NEW i \in 1..n PROVE ShapeOf(stack'[i]) /\ ShapeOf(stack[i])'
  <2>1. ShapeOf(stack'[i])
    BY <1>1, <1>2 DEF ShapeInv
  <2> QED
    BY <2>1 DEF ShapeOf, RightBase, Loads
<1>5. ASSUME NEW i \in 1..n PROVE NameOf(i)'
  <2>1. NameOf(i) /\ \A j \in 1..i - 1 : j + 1 \in 1..n
    BY <1>2 DEF ShapeInv
  <2> QED
    BY <1>3, <2>1 DEF NameOf
<1>6. stack' # <<>> => stack'[1].dir = Root /\ RightBase(stack'[1])
  <2>1. 1 \in 1..n /\ stack # <<>>
    OBVIOUS
  <2> QED
    BY <1>3, <2>1 DEF ShapeInv, RightBase
<1>7. ASSUME NEW i \in 1..n, i + 1 \in 1..n
      PROVE  LinkOf(stack[i], stack[i + 1].name[i], stack[i + 1])'
  <2>1. i \in 1..n - 1 /\ i \in 1..n + 1 /\ i + 1 \in 1..n + 1
    BY <1>7
  <2>2. stack'[i] = stack[i]
    BY <2>1
  <2>3. LinkOf(stack[i], stack[i + 1].name[i], stack[i + 1])
    BY <2>1 DEF ShapeInv
  <2> QED
    BY <1>3, <1>7, <2>2, <2>3 DEF LinkOf, RightBase, Loads
<1> QED
  BY <1>4, <1>5, <1>6, <1>7 DEF ShapeInv, RightBase

\* An empty stack is in shape, ...
LEMMA ShapeEmpty == stack' = <<>> => ShapeInv'
BY DEF ShapeInv

\* ... a walk that begins, ...
LEMMA ShapeBegin == ASSUME Begin PROVE ShapeInv'
<1> DEFINE f == Frame(Root, <<>>, RealBase[Root])
<1>1. stack' = <<f>>
  BY DEF Begin
<1>2. /\ f.dir = Root /\ f.base = RealBase[Root] /\ f.name = <<>> /\ f.todo = {} /\ f.parted = FALSE
      /\ f.projects = {} /\ f.virtuals = {}
  BY DEF Frame
<1> HIDE DEF f
<1>3. DOMAIN stack' = {1} /\ stack'[1] = f
  BY <1>1
<1> QED
  BY <1>2, <1>3 DEF ShapeInv, ShapeOf, NameOf, RightBase, Loads

\* ... that reads a registration, ...
LEMMA ShapeReadKit == ASSUME RegistryTypeOK, WalkInv, ShapeInv, ReadKit PROVE ShapeInv'
<1> DEFINE f == stack'[Len(stack)]
<1>1. /\ TopChanges /\ SamePlace(f, Top) /\ f.todo = Top.todo /\ f.parted = Top.parted
      /\ f.projects = Top.projects /\ f.virtuals = Top.virtuals /\ Top.kits \subseteq f.kits
  BY ReadKitDoes
<1>2. ~Top.parted
  <2>1. ShapeOf(Top)
    BY <1>1 DEF ShapeInv, TopChanges
  <2> QED
    BY <2>1 DEF ShapeOf, ReadKit
<1>3. ShapeOf(Top)
  BY <1>1 DEF ShapeInv, TopChanges
<1>4. ShapeOf(f)
  BY <1>1, <1>2, <1>3 DEF ShapeOf, RightBase, SamePlace
<1>5. child' = child
  BY DEF ReadKit
<1> QED
  BY <1>1, <1>4, <1>5, ShapeOfTop

\* ... that parts its kits, ...
LEMMA ShapePartition == ASSUME WalkInv, ShapeInv, Partition PROVE ShapeInv'
<1> DEFINE f == stack'[Len(stack)]
<1>1. /\ TopChanges /\ SamePlace(f, Top) /\ f.kits = Top.kits /\ f.unread = <<>>
      /\ f.parted = TRUE /\ f.todo = NestedOf(Top) /\ f.projects = PartsOf(Top, Depth)
  BY PartitionDoes
<1> HIDE DEF f
<1>2. \A k \in f.todo : Loads(f, k)
  BY <1>1 DEF NestedOf, LoadedOf, Loads
<1>3. ~RightBase(f) => f.todo = {} /\ f.projects = {}
  BY <1>1 DEF SamePlace, RightBase, NestedOf, PartsOf, Inside, Discovered
<1>4. ShapeOf(f)
  BY <1>1, <1>2, <1>3 DEF ShapeOf
<1>5. child' = child
  BY DEF Partition
<1> QED
  BY <1>1, <1>4, <1>5, ShapeOfTop DEF f

\* ... that returns from an aggregator, ...
LEMMA ShapeReturn == ASSUME WalkInv, ShapeInv, Return PROVE ShapeInv'
<1> DEFINE n == Len(stack) - 1
           f == stack'[n]
<1>1. /\ n \in Nat \ {0} /\ DOMAIN stack = 1..n + 1 /\ DOMAIN stack' = 1..n
      /\ \A i \in 1..n - 1 : stack'[i] = stack[i]
      /\ SamePlace(f, stack[n]) /\ f.kits = stack[n].kits /\ f.unread = stack[n].unread
      /\ f.parted = stack[n].parted /\ f.todo = stack[n].todo
  BY ReturnDoes
<1>2. child' = child
  BY DEF Return
<1> HIDE DEF n, f
<1>3. ShapeOf(stack[n]) /\ stack[n].parted /\ RightBase(stack[n])
  <2>1. n \in 1..n + 1 /\ n + 1 \in 1..n + 1
    BY <1>1
  <2>2. ShapeOf(stack[n])
    BY <1>1, <2>1 DEF ShapeInv
  <2>3. LinkOf(stack[n], stack[n + 1].name[n], stack[n + 1])
    BY <1>1, <2>1 DEF ShapeInv
  <2> QED
    BY <2>2, <2>3 DEF LinkOf
<1>4. ShapeOf(f)
  BY <1>1, <1>3 DEF ShapeOf, RightBase, Loads, SamePlace
<1> QED
  BY <1>1, <1>2, <1>4, ShapeOfBelow DEF f

\* ... that gives one up, ...
LEMMA ShapePop == ASSUME WalkInv, ShapeInv, ReadFails, Depth # 0 PROVE ShapeInv'
<1> DEFINE n == Len(stack) - 1
           f == stack'[n]
<1>1. /\ Len(stack) \in Nat /\ Len(stack) > 1
      /\ DOMAIN stack = 1..Len(stack) /\ DOMAIN stack' = 1..n
      /\ \A i \in 1..n : stack'[i] = stack[i]
  BY PopDoes
<1>2. child' = child
  BY DEF ReadFails
<1>3. n \in Nat \ {0} /\ DOMAIN stack = 1..n + 1 /\ n \in 1..n
  BY <1>1
<1>4. f = stack[n] /\ n \in DOMAIN stack /\ \A i \in 1..n - 1 : stack'[i] = stack[i]
  BY <1>1, <1>3
<1>5. ShapeOf(f) /\ SamePlace(f, stack[n])
  BY <1>4 DEF ShapeInv, SamePlace
<1> HIDE DEF n, f
<1> QED
  BY <1>1, <1>2, <1>3, <1>4, <1>5, ShapeOfBelow DEF f

\* ... and that enters one.
LEMMA ShapeDescend == ASSUME WalkInv, ShapeInv, Descend PROVE ShapeInv'
<1> DEFINE n == Len(stack)
           k == First(Top.todo)
           f == stack'[n]
           g == stack'[n + 1]
<1>1. /\ n \in Nat \ {0} /\ DOMAIN stack = 1..n /\ DOMAIN stack' = 1..n + 1
      /\ \A i \in 1..n - 1 : stack'[i] = stack[i]
      /\ Top = stack[n] /\ Top \in FrameType /\ FrameOK(Top) /\ Top.parted /\ k \in Top.todo
      /\ SamePlace(f, Top) /\ f.kits = Top.kits /\ f.unread = Top.unread
      /\ f.parted = Top.parted /\ f.todo = Top.todo \ {k}
      /\ f.projects = Top.projects /\ f.virtuals = Top.virtuals
      /\ g = Frame(Embedded, Append(Top.name, k), EmbeddedBase)
  BY DescendDoes
<1>2. child' = child
  BY DEF Descend
<1>3. ShapeOf(Top) /\ NameOf(n)
  BY <1>1 DEF ShapeInv
<1>4. Top.name \in Seq(Kits) /\ k \in Kits
  BY <1>1, FrameFields
<1>5. /\ g.dir = Embedded /\ g.base = EmbeddedBase /\ g.name = Append(Top.name, k)
      /\ g.todo = {} /\ g.parted = FALSE /\ g.projects = {} /\ g.virtuals = {}
  BY <1>1 DEF Frame
<1>6. /\ Len(g.name) = n /\ g.name[n] = k /\ \A j \in 1..n - 1 : g.name[j] = Top.name[j]
  <2>1. Len(Top.name) = n - 1
    BY <1>1, <1>3 DEF NameOf
  <2>2. /\ Len(Append(Top.name, k)) = Len(Top.name) + 1
        /\ Append(Top.name, k)[Len(Top.name) + 1] = k
        /\ \A j \in 1..Len(Top.name) : Append(Top.name, k)[j] = Top.name[j]
    BY <1>4, AppendProperties
  <2>3. (n - 1) + 1 = n
    BY <1>1
  <2> HIDE DEF n, g, k
  <2> QED
    BY <1>5, <2>1, <2>2, <2>3
<1>7. LinkOf(f, k, g)
  <2>1. Loads(Top, k) /\ RightBase(Top)
    BY <1>1, <1>3 DEF ShapeOf
  <2>2. child[Top.dir][k] = Embedded
    BY DEF Embedded
  <2>3. \E kit \in Top.kits : kit.kit = k /\ EmbeddedBase = BaseOf(kit)
    <3>1. \E x \in Top.kits : x.kit = k
      BY <1>1 DEF FrameOK
    <3> DEFINE kit == CHOOSE x \in Top.kits : x.kit = k
    <3>2. kit \in Top.kits /\ kit.kit = k
      BY <3>1
    <3>3. EmbeddedBase = BaseOf(kit)
      BY DEF EmbeddedBase, BaseOf
    <3> QED
      BY <3>2, <3>3
  <2> HIDE DEF f, g, k
  <2> QED
    BY <1>1, <1>5, <2>1, <2>2, <2>3 DEF LinkOf, Loads, RightBase, SamePlace
<1>8. ShapeOf(f) /\ ShapeOf(g)
  <2> HIDE DEF f, g, k
  <2> QED
    BY <1>1, <1>3, <1>5 DEF ShapeOf, Loads, RightBase, SamePlace
<1>9. /\ f.name = stack[n].name /\ f.dir = stack[n].dir /\ f.base = stack[n].base
      /\ stack'[n] = f /\ stack'[n + 1] = g
  BY <1>1 DEF SamePlace
<1> HIDE DEF n, f, g, k
<1>10. \A i \in 1..n + 1 : i \in 1..n - 1 \/ i = n \/ i = n + 1
  BY <1>1
<1>11. \A i \in 1..n : /\ stack'[i].name = stack[i].name /\ stack'[i].dir = stack[i].dir
                       /\ stack'[i].base = stack[i].base
  <2>1. \A i \in 1..n : i \in 1..n - 1 \/ i = n
    BY <1>1
  <2> QED
    BY <1>1, <1>9, <2>1
<1>12. ASSUME NEW i \in 1..n + 1 PROVE ShapeOf(stack[i])'
  <2>1. i \in 1..n - 1 => i \in 1..n
    BY <1>1
  <2>2. ShapeOf(stack'[i])
    BY <1>1, <1>8, <1>9, <1>10, <2>1 DEF ShapeInv
  <2> QED
    BY <2>2 DEF ShapeOf, RightBase, Loads
<1>13. ASSUME NEW i \in 1..n + 1 PROVE NameOf(i)'
  <2>1. CASE i \in 1..n
    <3>1. NameOf(i) /\ \A j \in 1..i - 1 : j + 1 \in 1..n
      BY <1>1, <2>1 DEF ShapeInv
    <3> QED
      BY <1>11, <2>1, <3>1 DEF NameOf
  <2>2. CASE i = n + 1
    <3>1. Len(stack'[i].name) = i - 1
      BY <1>1, <1>6, <1>9, <2>2
    <3>2. ASSUME NEW j \in 1..i - 1 PROVE stack'[i].name[j] = stack'[j + 1].name[j]
      <4>1. CASE j = n
        BY <1>9, <2>2, <4>1
      <4>2. CASE j # n
        <5>1. j \in 1..n - 1 /\ j + 1 \in 1..n /\ j \in 1..n
          BY <1>1, <2>2, <4>2
        <5>2. stack'[i].name[j] = stack[n].name[j]
          BY <1>1, <1>6, <1>9, <2>2, <5>1
        <5>3. stack[n].name[j] = stack[j + 1].name[j]
          BY <1>3, <5>1 DEF NameOf
        <5> QED
          BY <1>11, <5>1, <5>2, <5>3
      <4> QED
        BY <4>1, <4>2
    <3> QED
      BY <3>1, <3>2 DEF NameOf
  <2> QED
    BY <1>1, <2>1, <2>2
<1>14. stack'[1].dir = Root /\ RightBase(stack'[1])
  <2>1. 1 \in 1..n /\ stack # <<>>
    BY <1>1
  <2> QED
    BY <1>11, <2>1 DEF ShapeInv, RightBase
<1>15. ASSUME NEW i \in 1..n + 1, i + 1 \in 1..n + 1
       PROVE  LinkOf(stack[i], stack[i + 1].name[i], stack[i + 1])'
  <2>1. CASE i = n
    <3>1. stack'[i] = f /\ stack'[i + 1] = g /\ stack'[i + 1].name[i] = k
      BY <1>6, <1>9, <2>1
    <3> QED
      BY <1>2, <1>7, <3>1 DEF LinkOf, RightBase, Loads
  <2>2. CASE i # n
    <3>1. i \in 1..n - 1 /\ i + 1 \in 1..n /\ i \in 1..n
      BY <1>1, <1>15, <2>2
    <3>2. stack'[i] = stack[i]
      BY <1>1, <3>1
    <3>3. LinkOf(stack[i], stack[i + 1].name[i], stack[i + 1])
      BY <1>1, <3>1 DEF ShapeInv
    <3> QED
      BY <1>2, <1>11, <3>1, <3>2, <3>3 DEF LinkOf, RightBase, Loads
  <2> QED
    BY <2>1, <2>2
<1> QED
  BY <1>1, <1>12, <1>13, <1>14, <1>15 DEF ShapeInv, RightBase

\* So every step keeps the stack in shape.
LEMMA ShapeNextInv == ASSUME RegistryTypeOK, WalkInv, ShapeInv, [Next]_vars PROVE ShapeInv'
<1>1. CASE Begin
  BY <1>1, ShapeBegin
<1>2. CASE ReadFails
  BY <1>2, ShapePop, ShapeEmpty DEF ReadFails
<1>3. CASE Cycle \/ Finish
  BY <1>3, ShapeEmpty DEF Cycle, Finish
<1>4. CASE UNCHANGED <<stack, child>>
  BY <1>4 DEF ShapeInv, ShapeOf, NameOf, LinkOf, RightBase, Loads
<1> QED
  BY <1>1, <1>2, <1>3, <1>4, ShapeReadKit, ShapePartition, ShapeDescend, ShapeReturn
     DEF Next, Walk, Other, vars, walkVars

-----------------------------------------------------------------------------
(* What a frame has read *)

\* A kit that was read is what its registration comes to unless others wrote it since;
\* if it is loaded it could be from the start, with the same tools.
KitOK(d, kit) ==
    /\ <<d, kit.kit>> \notin Moving =>
          /\ Readable(file[d][kit.kit]) /\ ~RaisesAt(d, kit.kit) /\ kit = KitAt(d, kit.kit)
    /\ ~kit.virtual /\ ~kit.pointer =>
          /\ CanLoad(<<d, kit.kit>>)
          /\ child[d][kit.kit] = None => IsOf(kit, d, kit.kit)
\* A kit whose registration the frame has passed and nobody wrote was read if it could be.
PassedOK(f, k) ==
    <<f.dir, k>> \notin Moving => ~RaisesAt(f.dir, k)
                                  /\ (Readable(file[f.dir][k]) => KitAt(f.dir, k) \in f.kits)
\* A frame that looks in the right place holds what is written there.
ReadOK(f) ==
    /\ \A kit \in f.kits : KitOK(f.dir, kit)
    /\ \A k \in Kits : (\A i \in DOMAIN f.unread : f.unread[i] # k) => PassedOK(f, k)
ReadInv == \A f \in Range(stack) : RightBase(f) => ReadOK(f)

\* What a frame holds stays right where the files stay as they are.
LEMMA ReadSame ==
    ASSUME UNCHANGED <<file, own, child, origin, touched>>, NEW f, NEW g, g.dir = f.dir,
           g.base = f.base, g.kits = f.kits, g.unread = f.unread, RightBase(f) => ReadOK(f)
    PROVE  (RightBase(g) => ReadOK(g))'
<1>1. \A d, k : /\ RaisesAt(d, k)' = RaisesAt(d, k) /\ KitAt(d, k)' = KitAt(d, k)
                /\ CanLoad(<<d, k>>)' = CanLoad(<<d, k>>)
                /\ \A kit : IsOf(kit, d, k)' = IsOf(kit, d, k)
  BY DEF RaisesAt, KitAt, CanLoad, ToolsOf, IsOf, Raises, Merged, IsBroken, LookRaises, Physical,
     HasBase, HasName, BaseInside, Hinted, OwnOnly, Inside, Manifest
<1>2. Moving' = Moving
  BY DEF Moving
<1> QED
  BY <1>1, <1>2 DEF ReadOK, KitOK, PassedOK, RightBase

\* What the frames of the next state are.
LEMMA RangeIs == ASSUME NEW s PROVE Range(s) = {s[i] : i \in DOMAIN s}
BY DEF Range

\* The first frame has read nothing, ...
LEMMA ReadBegin == ASSUME Begin PROVE ReadInv'
<1> SUFFICES ASSUME NEW f \in Range(stack)', RightBase(f) PROVE ReadOK(f)'
  BY DEF ReadInv, RightBase
<1>1. f = Frame(Root, <<>>, RealBase[Root])
  BY DEF Begin, Range
<1>2. f.kits = {} /\ f.unread = Order
  BY <1>1 DEF Frame
<1> QED
  BY <1>2, DiscoveryAssumption DEF ReadOK

\* ... a registration is read as it is, ...
LEMMA ReadReadKit ==
    ASSUME RegistryTypeOK, WalkInv, SaysInv, ReadInv, ReadKit
    PROVE  ReadInv'
<1> DEFINE n == Len(stack)
           k == Head(Top.unread)
<1>1. /\ TopChanges
      /\ k \in Kits /\ ~Raises(Top.dir, k, Top.base)
      /\ stack'[n].unread = Tail(Top.unread)
      /\ stack'[n].kits = IF Readable(file[Top.dir][k])
                          THEN Top.kits \cup {Merged(Top.dir, k, Top.base)} ELSE Top.kits
      /\ SamePlace(stack'[n], Top)
  BY ReadKitDoes
<1>2. UNCHANGED <<file, own, child, origin, touched>>
  BY WalkFixed DEF Walk
<1>3. ReadInv => \A i \in DOMAIN stack : RightBase(stack[i]) => ReadOK(stack[i])
  BY DEF ReadInv, Range
<1>4. ASSUME RightBase(Top) PROVE ReadOK(stack'[n])
  <2> SUFFICES ASSUME NEW f, f = stack'[n] PROVE ReadOK(f)
    OBVIOUS
  <2> DEFINE d == Top.dir
  <2>1. /\ f.dir = d /\ ReadOK(Top) /\ Top.base = RealBase[d] /\ d \in Dirs
        /\ Top.unread \in Seq(Kits) /\ Top.unread # <<>>
    BY <1>1, <1>3, <1>4, FrameFields DEF TopChanges, SamePlace, RightBase, ReadKit
  <2>2. ~RaisesAt(d, k) /\ KitAt(d, k) = Merged(d, k, Top.base)
    BY <1>1, <2>1 DEF RaisesAt, KitAt
  <2>3. ASSUME Readable(file[d][k]) PROVE KitAt(d, k).kit = k /\ KitOK(d, KitAt(d, k))
    <3>1. KitAt(d, k).kit = k
      BY <1>1, <2>1, <2>2, <2>3, MergedType
    <3>2. /\ ~KitAt(d, k).virtual => CanLoad(<<d, k>>)
          /\ ~KitAt(d, k).virtual /\ child[d][k] = None => IsOf(KitAt(d, k), d, k)
      BY <1>1, <2>1, <2>2, <2>3, MergedTells DEF RaisesAt, KitAt
    <3> QED
      BY <2>2, <2>3, <3>1, <3>2 DEF KitOK
  <2>4. f.kits = IF Readable(file[d][k]) THEN Top.kits \cup {KitAt(d, k)} ELSE Top.kits
    BY <1>1, <2>2
  <2>5. \A kit \in f.kits : KitOK(d, kit)
    BY <2>1, <2>3, <2>4 DEF ReadOK
  <2>6. ASSUME NEW x \in Kits, \A i \in DOMAIN f.unread : f.unread[i] # x PROVE PassedOK(f, x)
    <3>1. CASE x = k
      BY <2>1, <2>2, <2>4, <3>1 DEF PassedOK
    <3>2. CASE x # k
      <4>1. \A i \in DOMAIN Top.unread : Top.unread[i] # x
        <5> SUFFICES ASSUME NEW i \in 1..Len(Top.unread), Top.unread[i] = x PROVE FALSE
          BY <2>1
        <5>1. i # 1
          BY <2>1, <3>2
        <5>2. i - 1 \in 1..Len(Tail(Top.unread)) /\ Tail(Top.unread)[i - 1] = Top.unread[i]
          BY <2>1, <5>1, HeadTailProperties
        <5>3. DOMAIN f.unread = 1..Len(f.unread)
          BY <1>1, <2>1, HeadTailProperties
        <5> QED
          BY <1>1, <2>6, <5>2, <5>3
      <4>2. PassedOK(Top, x)
        BY <2>1, <4>1 DEF ReadOK
      <4> QED
        BY <2>1, <2>4, <4>2 DEF PassedOK
    <3> QED
      BY <3>1, <3>2
  <2> QED
    BY <2>1, <2>5, <2>6 DEF ReadOK
<1>5. ASSUME NEW i \in 1..n, RightBase(stack'[i]) PROVE ReadOK(stack'[i])
  <2>1. CASE i = n
    BY <1>1, <1>4, <1>5, <2>1 DEF SamePlace, RightBase
  <2>2. CASE i # n
    <3>0. n \in Nat
      BY <1>1 DEF TopChanges
    <3>1. DOMAIN stack = 1..n
      BY <1>1 DEF TopChanges
    <3>2. i \in 1..n - 1
      BY <2>2, <3>0
    <3>3. i \in DOMAIN stack /\ stack'[i] = stack[i]
      BY <1>1, <3>1, <3>2 DEF TopChanges
    <3> QED
      BY <1>3, <1>5, <3>3
  <2> QED
    BY <2>1, <2>2
<1> SUFFICES ASSUME NEW f \in Range(stack)', RightBase(f) PROVE ReadOK(f)'
  BY DEF ReadInv, RightBase
<1>6. PICK i \in 1..n : f = stack'[i]
  BY <1>1 DEF TopChanges, Range
<1>7. ReadOK(f)
  BY <1>5, <1>6
<1> QED
  BY <1>2, <1>7, ReadSame DEF RightBase

\* Steps that leave what the frames have read.
LEMMA ReadKept ==
    ASSUME ReadInv, UNCHANGED <<file, own, child, origin, touched>>,
           \A i \in DOMAIN stack' : /\ i \in DOMAIN stack
                                     /\ SamePlace(stack'[i], stack[i])
                                     /\ stack'[i].kits = stack[i].kits
                                     /\ stack'[i].unread = stack[i].unread
    PROVE  ReadInv'
<1> SUFFICES ASSUME NEW f \in Range(stack)', RightBase(f) PROVE ReadOK(f)'
  BY DEF ReadInv, RightBase
<1>1. PICK i \in DOMAIN stack' : f = stack'[i]
  BY DEF Range
<1>2. PICK g : g = stack[i]
  OBVIOUS
<1>3. RightBase(g) => ReadOK(g)
  BY <1>1, <1>2 DEF ReadInv, Range
<1>4. f.dir = g.dir /\ f.base = g.base /\ f.kits = g.kits /\ f.unread = g.unread
  BY <1>1, <1>2 DEF SamePlace
<1> QED
  BY <1>3, <1>4, ReadSame DEF RightBase

\* ... parting the kits reads nothing, ...
LEMMA ReadPartition == ASSUME WalkInv, ReadInv, Partition PROVE ReadInv'
<1>1. /\ TopChanges /\ SamePlace(stack'[Len(stack)], Top)
      /\ stack'[Len(stack)].kits = Top.kits /\ stack'[Len(stack)].unread = Top.unread
  BY PartitionDoes
<1>2. UNCHANGED <<file, own, child, origin, touched>>
  BY WalkFixed DEF Walk
<1>3. \A i \in 1..Len(stack) : i \in 1..Len(stack) - 1 \/ i = Len(stack)
  <2>1. Len(stack) \in Nat
    BY <1>1 DEF TopChanges
  <2> QED
    BY <2>1
<1> QED
  BY <1>1, <1>2, <1>3, ReadKept DEF TopChanges, SamePlace

\* ... nor does returning, ...
LEMMA ReadReturn == ASSUME WalkInv, ReadInv, Return PROVE ReadInv'
<1> DEFINE n == Len(stack) - 1
<1>1. /\ n \in Nat \ {0} /\ DOMAIN stack = 1..n + 1 /\ DOMAIN stack' = 1..n
      /\ \A i \in 1..n - 1 : stack'[i] = stack[i]
      /\ SamePlace(stack'[n], stack[n]) /\ stack'[n].kits = stack[n].kits
      /\ stack'[n].unread = stack[n].unread
  BY ReturnDoes
<1>2. UNCHANGED <<file, own, child, origin, touched>>
  BY WalkFixed DEF Walk
<1> HIDE DEF n
<1>3. \A i \in 1..n : (i \in 1..n - 1 \/ i = n) /\ i \in 1..n + 1
  BY <1>1
<1> QED
  BY <1>1, <1>2, <1>3, ReadKept DEF SamePlace

\* ... nor giving up, ...
LEMMA ReadPop == ASSUME WalkInv, ReadInv, ReadFails, Depth # 0 PROVE ReadInv'
<1>1. /\ Len(stack) \in Nat /\ Len(stack) > 1
      /\ DOMAIN stack = 1..Len(stack) /\ DOMAIN stack' = 1..Len(stack) - 1
      /\ \A i \in 1..Len(stack) - 1 : stack'[i] = stack[i]
  BY PopDoes
<1>2. UNCHANGED <<file, own, child, origin, touched>>
  BY WalkFixed DEF Walk
<1>3. \A i \in 1..Len(stack) - 1 : i \in 1..Len(stack)
  BY <1>1
<1> QED
  BY <1>1, <1>2, <1>3, ReadKept DEF SamePlace

\* ... an aggregator that is entered has read nothing, ...
LEMMA ReadDescend == ASSUME WalkInv, ReadInv, Descend PROVE ReadInv'
<1> DEFINE n == Len(stack)
<1>1. /\ n \in Nat \ {0} /\ DOMAIN stack = 1..n /\ DOMAIN stack' = 1..n + 1
      /\ \A i \in 1..n - 1 : stack'[i] = stack[i]
      /\ Top = stack[n]
      /\ SamePlace(stack'[n], Top) /\ stack'[n].kits = Top.kits /\ stack'[n].unread = Top.unread
      /\ stack'[n + 1] = Frame(Embedded, Append(Top.name, First(Top.todo)), EmbeddedBase)
  BY DescendDoes
<1>2. UNCHANGED <<file, own, child, origin, touched>>
  BY WalkFixed DEF Walk
<1> HIDE DEF n
<1>3. \A i \in 1..n + 1 : i \in 1..n - 1 \/ i = n \/ i = n + 1
  BY <1>1
<1> SUFFICES ASSUME NEW f \in Range(stack)', RightBase(f) PROVE ReadOK(f)'
  BY DEF ReadInv, RightBase
<1>4. PICK i \in 1..n + 1 : f = stack'[i]
  BY <1>1 DEF Range
<1>5. CASE i = n + 1
  <2>1. f.kits = {} /\ f.unread = Order
    BY <1>1, <1>4, <1>5 DEF Frame
  <2> QED
    BY <2>1, DiscoveryAssumption DEF ReadOK
<1>6. CASE i # n + 1
  <2>1. PICK g : g = stack[i]
    OBVIOUS
  <2>2. i \in 1..n
    BY <1>1, <1>6
  <2>3. RightBase(g) => ReadOK(g)
    BY <1>1, <2>1, <2>2 DEF ReadInv, Range
  <2>4. f.dir = g.dir /\ f.base = g.base /\ f.kits = g.kits /\ f.unread = g.unread
    BY <1>1, <1>3, <1>4, <1>6, <2>1 DEF SamePlace
  <2> QED
    BY <1>2, <2>3, <2>4, ReadSame DEF RightBase
<1> QED
  BY <1>5, <1>6

\* What others write now counts as moving.
LEMMA ReadOther ==
    ASSUME RegistryTypeOK, RegistryTypeOK', WalkInv, ReadInv, Other
    PROVE  ReadInv'
<1> SUFFICES ASSUME NEW f \in Range(stack)', RightBase(f) PROVE ReadOK(f)'
  BY DEF ReadInv, RightBase
<1>1. f \in Range(stack) /\ ReadOK(f) /\ f \in FrameType
  BY DEF Other, ReadInv, Range, WalkInv, StackOK
<1>2. /\ f.dir \in Dirs /\ \A kit \in f.kits : kit.kit \in Kits
      /\ UNCHANGED <<own, child, origin>>
  BY <1>1, FrameFields, Fixed DEF KitType, Next
<1>3. ASSUME NEW k \in Kits, <<f.dir, k>> \notin Moving'
      PROVE  /\ <<f.dir, k>> \notin Moving /\ file'[f.dir][k] = file[f.dir][k]
             /\ RaisesAt(f.dir, k)' <=> RaisesAt(f.dir, k)
             /\ KitAt(f.dir, k)' = KitAt(f.dir, k)
  BY <1>2, <1>3, UnmovedSame, UnmovedReads
<1>4. ASSUME NEW kit \in f.kits PROVE KitOK(f.dir, kit)'
  <2>1. KitOK(f.dir, kit) /\ kit.kit \in Kits
    BY <1>1, <1>2 DEF ReadOK
  <2>2. CanLoad(<<f.dir, kit.kit>>)' <=> CanLoad(<<f.dir, kit.kit>>)
    BY <1>2 DEF CanLoad
  <2>3. IsOf(kit, f.dir, kit.kit)' <=> IsOf(kit, f.dir, kit.kit)
    BY <1>2 DEF IsOf, ToolsOf
  <2> QED
    BY <1>2, <1>3, <2>1, <2>2, <2>3 DEF KitOK
<1>5. ASSUME NEW k \in Kits, \A i \in DOMAIN f.unread : f.unread[i] # k PROVE PassedOK(f, k)'
  <2>1. PassedOK(f, k)
    BY <1>1, <1>5 DEF ReadOK
  <2> QED
    BY <1>3, <2>1 DEF PassedOK
<1> QED
  BY <1>4, <1>5 DEF ReadOK

\* ... nor has an empty stack.
LEMMA ReadEmpty == stack' = <<>> => ReadInv'
BY DEF ReadInv, Range

\* So every step keeps it, those of other processes included.
LEMMA ReadNextInv ==
    ASSUME RegistryTypeOK, RegistryTypeOK', WalkInv, SaysInv, ReadInv, [Next]_vars
    PROVE  ReadInv'
<1>1. CASE Begin
  BY <1>1, ReadBegin
<1>2. CASE ReadFails
  BY <1>2, ReadPop, ReadEmpty DEF ReadFails
<1>3. CASE Cycle \/ Finish
  BY <1>3, ReadEmpty DEF Cycle, Finish
<1>4. CASE UNCHANGED vars
  BY <1>4, ReadKept DEF vars, walkVars, registryVars, histories, SamePlace
<1> QED
  BY <1>1, <1>2, <1>3, <1>4, ReadReadKit, ReadPartition, ReadDescend, ReadReturn, ReadOther
     DEF Next, Walk

-----------------------------------------------------------------------------
(* What is found was led to *)

\* What loads in an aggregator and is none: its tools are those that one lists, and that
\* are on the disk, or in the directory of one that names a directory of its own.
Flat(d, P, k) == <<d, k>> \in P /\ child[d][k] = None
Based(d, k) == own[d][k] # None /\ own[d][k].base # None
LEMMA FlatToolsAre ==
    ASSUME NEW d, NEW P, NEW ref
    PROVE  ref \in FlatTools(d, P) <=>
             /\ \E k \in Kits : Flat(d, P, k) /\ ref \in ToolsOf(d, k)
             /\ \/ ref \in OnDisk[d]
                \/ \E k \in Kits : Flat(d, P, k) /\ Based(d, k) /\ ref \in InKit[d][k]
<1> DEFINE flat == {k \in Kits : <<d, k>> \in P /\ child[d][k] = None}
           based == {k \in flat : own[d][k] # None /\ own[d][k].base # None}
           listed == UNION {IF own[d][k] = None THEN origin[d][k].says.tools
                            ELSE own[d][k].tools : k \in flat}
           inside == UNION {InKit[d][k] : k \in based}
<1>1. FlatTools(d, P) = listed \cap (OnDisk[d] \cup inside)
  BY DEF FlatTools
<1>2. ref \in listed <=> \E k \in Kits : Flat(d, P, k) /\ ref \in ToolsOf(d, k)
  BY DEF Flat, ToolsOf
<1>3. ref \in inside <=> \E k \in Kits : Flat(d, P, k) /\ Based(d, k) /\ ref \in InKit[d][k]
  BY DEF Flat, Based
<1> HIDE DEF listed, inside
<1> QED
  BY <1>1, <1>2, <1>3

\* A frame that looks in the right place finds nothing else.
LEMMA DiscoveredAre ==
    ASSUME NEW f \in FrameType, RightBase(f), NEW ref,
           \A kit \in FlatOf(f) : child[f.dir][kit.kit] = None => IsOf(kit, f.dir, kit.kit)
    PROVE  ref \in Discovered(f.dir, f.base, FlatOf(f)) <=>
             /\ \E kit \in FlatOf(f) : ref \in ToolsOf(f.dir, kit.kit)
             /\ \/ ref \in OnDisk[f.dir]
                \/ \E kit \in FlatOf(f) : Based(f.dir, kit.kit) /\ ref \in InKit[f.dir][kit.kit]
<1> DEFINE d == f.dir
<1>1. \A kit \in FlatOf(f) : IsOf(kit, d, kit.kit)
  BY DEF FlatOf, NestedOf, Inside, RightBase
<1>2. ref \in Listed(FlatOf(f)) <=> \E kit \in FlatOf(f) : ref \in ToolsOf(d, kit.kit)
  BY <1>1 DEF Listed, IsOf
<1>3. ASSUME NEW kit \in FlatOf(f)
      PROVE  /\ Based(d, kit.kit) => Extra(d, kit) = InKit[d][kit.kit]
             /\ ~Based(d, kit.kit) => Extra(d, kit) \subseteq OnDisk[d]
  BY <1>1 DEF Based, Extra, IsOf, Scanned
<1>4. ref \in Scanned(d, f.base) \cup UNION {Extra(d, kit) : kit \in FlatOf(f)} <=>
        \/ ref \in OnDisk[d]
        \/ \E kit \in FlatOf(f) : Based(d, kit.kit) /\ ref \in InKit[d][kit.kit]
  BY <1>3 DEF RightBase, Scanned
<1> QED
  BY <1>2, <1>4 DEF Discovered, RightBase

\* A tool's name is the way to its aggregator and a tool that is loaded there.
FoundBy(n, P, Q, S) ==
    \E ks \in Seq(Kits), ds \in Seq(Dirs) :
       /\ Trail(ks, ds, P, Q, S)
       /\ \E ref \in FlatTools(ds[Len(ds)], P) : n = ks \o ref
\* The names found so far, and in the end.
ProjectsOf == {p.name : p \in UNION {f.projects : f \in Range(stack)}}
Results == IF status = "done" THEN {p.name : p \in result.projects} ELSE {}
\* Each of them is found by registrations P that lead to tools, Q that are found, through S.
AllFoundBy(P, Q, S) == \A n \in ProjectsOf \cup Results : FoundBy(n, P, Q, S)

\* ... and one of the names of the registrations that lead to tools.
LEMMA FoundIsName ==
    ASSUME NEW P, NEW Q, NEW S, NEW n, FoundBy(n, P, Q, S)
    PROVE  n \in NamesOver(P, Q, S)
<1>1. PICK ks \in Seq(Kits), ds \in Seq(Dirs) :
         /\ Trail(ks, ds, P, Q, S)
         /\ \E ref \in FlatTools(ds[Len(ds)], P) : n = ks \o ref
  BY DEF FoundBy
<1>2. PICK ref \in FlatTools(ds[Len(ds)], P) : n = ks \o ref
  BY <1>1
<1>3. PICK c : c = Way(ks, ds, Len(ks))
  OBVIOUS
<1>4. Len(ks) \in Nat /\ Len(ks) \in 0..Len(ks) /\ Len(ds) = Len(ks) + 1
  BY <1>1 DEF Trail
<1>5. c \in Chains(P, Q, S)
  BY <1>1, <1>3, TrailIsChain
<1>6. PICK m \in 0..Len(ks) : m = Len(ks)
  BY <1>4
<1>7. Grows(Way(ks, ds, m), S)
  BY <1>1, WayIs
<1>8. /\ SubSeq(ks, 1, m) \in Seq(Kits) /\ Len(SubSeq(ks, 1, m)) = m
      /\ \A j \in 1..m : SubSeq(ks, 1, m)[j] = ks[j]
  BY <1>4, <1>6, SubSeqProperties
<1>9. c.kits = ks
  <2>1. SubSeq(ks, 1, m) = ks
    BY <1>4, <1>6, <1>8, SeqEqual
  <2> QED
    BY <1>3, <1>6, <2>1 DEF Way
<1>10. Here(c) = ds[Len(ds)]
  <2>1. /\ Len(SubSeq(ds, 1, m + 1)) = m + 1
        /\ \A j \in 1..m + 1 : SubSeq(ds, 1, m + 1)[j] = ds[j]
    BY <1>4, <1>6, SubSeqProperties
  <2>2. c.dirs = SubSeq(ds, 1, m + 1) /\ m + 1 \in 1..m + 1 /\ m + 1 = Len(ds)
    BY <1>3, <1>4, <1>6 DEF Way
  <2> QED
    BY <2>1, <2>2 DEF Here
<1>11. c \in {x \in Chains(P, Q, S) : Grows(x, S)}
  BY <1>3, <1>5, <1>6, <1>7
<1>12. n \in {c.kits \o r : r \in FlatTools(Here(c), P)}
  BY <1>2, <1>9, <1>10
<1> QED
  BY <1>11, <1>12 DEF NamesOver

\* Where more loads more is found.
LEMMA FoundMore ==
    ASSUME NEW P, NEW Q, NEW S, NEW P2, NEW Q2, NEW S2, NEW n,
           P \subseteq P2, Q \subseteq Q2, S \subseteq S2, FoundBy(n, P, Q, S)
    PROVE  FoundBy(n, P2, Q2, S2)
<1>1. PICK ks \in Seq(Kits), ds \in Seq(Dirs) :
         /\ Trail(ks, ds, P, Q, S)
         /\ \E ref \in FlatTools(ds[Len(ds)], P) : n = ks \o ref
  BY DEF FoundBy
<1>2. Trail(ks, ds, P2, Q2, S2)
  BY <1>1 DEF Trail
<1>3. FlatTools(ds[Len(ds)], P) \subseteq FlatTools(ds[Len(ds)], P2)
  BY DEF FlatTools
<1> QED
  BY <1>1, <1>2, <1>3, Zenon DEF FoundBy

\* Directories and origins that stay find the same.
LEMMA FoundSame ==
    ASSUME UNCHANGED <<child, own, origin>>, NEW P, NEW Q, NEW S, NEW n, FoundBy(n, P, Q, S)
    PROVE  FoundBy(n, P, Q, S)'
<1>1. PICK ks \in Seq(Kits), ds \in Seq(Dirs) :
         /\ Trail(ks, ds, P, Q, S)
         /\ \E ref \in FlatTools(ds[Len(ds)], P) : n = ks \o ref
  BY DEF FoundBy
<1>2. Trail(ks, ds, P, Q, S)'
  BY <1>1 DEF Trail
<1>3. \A d : FlatTools(d, P)' = FlatTools(d, P)
  BY DEF FlatTools
<1>4. \E ref \in FlatTools(ds[Len(ds)], P)' : n = ks \o ref
  BY <1>1, <1>3
<1> QED
  BY <1>2, <1>4, Zenon DEF FoundBy

\* Steps that find nothing new.
LEMMA NothingNew ==
    ASSUME UNCHANGED <<child, own, origin>>, NEW P, NEW Q, NEW S, AllFoundBy(P, Q, S),
           ProjectsOf' \cup Results' \subseteq ProjectsOf \cup Results
    PROVE  AllFoundBy(P, Q, S)'
BY FoundSame DEF AllFoundBy

\* Returning finds nothing new, ...
LEMMA ReturnFinds == ASSUME WalkInv, Return PROVE ProjectsOf' \cup Results' \subseteq ProjectsOf
<1> DEFINE n == Len(stack) - 1
           active == Top.name[Len(Top.name)] \in Active(stack[n], Depth - 1)
<1>1. /\ n \in Nat \ {0} /\ DOMAIN stack = 1..n + 1 /\ DOMAIN stack' = 1..n
      /\ \A i \in 1..n - 1 : stack'[i] = stack[i]
      /\ Top = stack[n + 1] /\ Top \in FrameType
      /\ stack'[n].projects = stack[n].projects
                                \cup {[p EXCEPT !.active = active] : p \in Top.projects}
  BY ReturnDoes
<1>2. Results' = {}
  BY DEF Return, Done, Walking, Results
<1>3. \A p \in Top.projects : [p EXCEPT !.active = active].name = p.name
  BY <1>1, FrameFields DEF ProjectType
<1> HIDE DEF n, active
<1>4. \A i \in 1..n : (i \in 1..n - 1 \/ i = n) /\ i \in 1..n + 1
  BY <1>1
<1>5. n + 1 \in 1..n + 1
  BY <1>1
<1> SUFFICES ASSUME NEW x \in ProjectsOf' PROVE x \in ProjectsOf
  BY <1>2
<1>6. PICK i \in 1..n : \E p \in stack'[i].projects : x = p.name
  BY <1>1 DEF ProjectsOf, Range
<1>7. \E j \in 1..n + 1 : \E p \in stack[j].projects : x = p.name
  <2>1. CASE i \in 1..n - 1
    BY <1>1, <1>4, <1>6, <2>1
  <2>2. CASE i = n
    <3>1. PICK p \in stack'[n].projects : x = p.name
      BY <1>6, <2>2
    <3>2. CASE p \in stack[n].projects
      BY <1>4, <1>6, <2>2, <3>1, <3>2
    <3>3. CASE p \notin stack[n].projects
      <4>1. PICK q \in Top.projects : p = [q EXCEPT !.active = active]
        BY <1>1, <3>1, <3>3
      <4>2. x = q.name
        BY <1>3, <3>1, <4>1
      <4> QED
        BY <1>1, <1>5, <4>1, <4>2
    <3> QED
      BY <3>2, <3>3
  <2> QED
    BY <1>4, <2>1, <2>2
<1> QED
  BY <1>1, <1>7 DEF ProjectsOf, Range

\* ... nor does finishing.
LEMMA FinishFinds == ASSUME WalkInv, Finish PROVE ProjectsOf' \cup Results' \subseteq ProjectsOf
<1>1. stack' = <<>> /\ result'.projects \subseteq Top.projects /\ Walking
  BY DEF Finish, Done
<1>2. ProjectsOf' = {}
  BY <1>1 DEF ProjectsOf, Range
<1>3. Top \in Range(stack)
  BY <1>1, TopFrame DEF Range
<1> QED
  BY <1>1, <1>2, <1>3 DEF ProjectsOf, Results

\* Steps but Partition that keep every frame's projects or lose them.
LEMMA OthersFind ==
    ASSUME RegistryTypeOK, WalkInv, Begin \/ ReadKit \/ ReadFails \/ Descend \/ Cycle \/ Other
    PROVE  ProjectsOf' \cup Results' \subseteq ProjectsOf \cup Results
<1>1. ASSUME Results' \subseteq Results,
             \A i \in DOMAIN stack' : \/ stack'[i].projects = {}
                                      \/ /\ i \in DOMAIN stack
                                         /\ stack'[i].projects = stack[i].projects
      PROVE  ProjectsOf' \cup Results' \subseteq ProjectsOf \cup Results
  BY <1>1 DEF ProjectsOf, Range
<1>2. CASE Begin
  <2>1. stack' = <<Frame(Root, <<>>, RealBase[Root])>> /\ status' = "walking"
    BY <1>2 DEF Begin
  <2> QED
    BY <1>1, <2>1 DEF Frame, Results
<1>3. CASE ReadKit
  <2>1. TopChanges /\ stack'[Len(stack)].projects = Top.projects
    BY <1>3, ReadKitDoes
  <2>2. Len(stack) \in Nat
    BY <2>1 DEF TopChanges
  <2>3. \A i \in 1..Len(stack) : i \in 1..Len(stack) - 1 \/ i = Len(stack)
    BY <2>2
  <2>4. Results' = Results
    BY <1>3 DEF ReadKit, Results
  <2> QED
    BY <1>1, <2>1, <2>3, <2>4 DEF TopChanges
<1>4. CASE ReadFails
  <2>1. Results' = {}
    BY <1>4 DEF ReadFails, Walking, Results
  <2>2. CASE Depth = 0
    BY <1>1, <1>4, <2>1, <2>2 DEF ReadFails
  <2>3. CASE Depth # 0
    <3>1. /\ Len(stack) \in Nat
          /\ DOMAIN stack = 1..Len(stack) /\ DOMAIN stack' = 1..Len(stack) - 1
          /\ \A i \in 1..Len(stack) - 1 : stack'[i] = stack[i]
      BY <1>4, <2>3, PopDoes
    <3>2. \A i \in 1..Len(stack) - 1 : i \in 1..Len(stack)
      BY <3>1
    <3> QED
      BY <1>1, <2>1, <3>1, <3>2
  <2> QED
    BY <2>2, <2>3
<1>5. CASE Descend
  <2> DEFINE n == Len(stack)
  <2>1. /\ n \in Nat \ {0} /\ DOMAIN stack = 1..n /\ DOMAIN stack' = 1..n + 1
        /\ \A i \in 1..n - 1 : stack'[i] = stack[i]
        /\ Top = stack[n] /\ stack'[n].projects = Top.projects
        /\ stack'[n + 1] = Frame(Embedded, Append(Top.name, First(Top.todo)), EmbeddedBase)
    BY <1>5, DescendDoes
  <2> HIDE DEF n
  <2>2. \A i \in 1..n + 1 : (i \in 1..n - 1 /\ i \in 1..n) \/ (i = n /\ i \in 1..n) \/ i = n + 1
    BY <2>1
  <2>3. stack'[n + 1].projects = {}
    BY <2>1 DEF Frame
  <2>4. Results' = Results
    BY <1>5 DEF Descend, Results
  <2> QED
    BY <1>1, <2>1, <2>2, <2>3, <2>4
<1>6. CASE Cycle
  BY <1>1, <1>6 DEF Cycle, Results
<1>7. CASE Other
  BY <1>1, <1>7 DEF Other, Results
<1> QED
  BY <1>2, <1>3, <1>4, <1>5, <1>6, <1>7

\* The way down the stack goes through registrations that load and lead to the right place,
\* and through sound aggregators.
StackIn(P, Q, S) ==
    /\ \A i \in 1..Len(stack) - 1 : /\ <<stack[i].dir, stack[i + 1].name[i]>> \in P
                                    /\ <<stack[i].dir, stack[i + 1].name[i]>> \in Q
    /\ \A i \in 1..Len(stack) : stack[i].dir \in S

\* The directories of the frames.
StackDirs == [j \in 1..Len(stack) |-> stack[j].dir]

\* It is a trail.
LEMMA StackTrail ==
    ASSUME WalkInv, ShapeInv, Walking, NEW P, NEW Q, NEW S, StackIn(P, Q, S)
    PROVE  /\ Trail(Top.name, StackDirs, P, Q, S)
           /\ Top.name \in Seq(Kits) /\ StackDirs \in Seq(Dirs)
           /\ StackDirs[Len(StackDirs)] = Top.dir
<1> DEFINE n == Len(stack)
           ks == Top.name
           ds == StackDirs
<1>1. /\ n \in Nat /\ n > 0 /\ DOMAIN stack = 1..n
      /\ Top = stack[n] /\ Top \in FrameType
  BY TopFrame
<1>2. /\ stack \in Seq(FrameType) /\ child \in [Dirs -> [Kits -> Dirs \cup {None}]]
      /\ \A i, j \in 1..n : stack[i].dir = stack[j].dir => i = j
  BY <1>1 DEF WalkInv, StackOK
<1>3. ds = [j \in 1..n |-> stack[j].dir]
  BY DEF StackDirs
<1>4. \A i \in 1..n : stack[i].dir \in Dirs /\ stack[i].name \in Seq(Kits)
  BY <1>1, <1>2, FrameFields
<1> HIDE DEF n, ds
<1>5. n \in 1..n /\ 1 \in 1..n /\ \A j \in 1..n - 1 : j \in 1..n /\ j + 1 \in 1..n
  BY <1>1
<1>6. ds \in Seq(Dirs) /\ Len(ds) = n /\ \A j \in 1..n : ds[j] = stack[j].dir
  BY <1>1, <1>3, <1>4
<1>7. ks \in Seq(Kits) /\ Len(ks) = n - 1 /\ \A j \in 1..n - 1 : ks[j] = stack[j + 1].name[j]
  BY <1>1, <1>4, <1>5 DEF ShapeInv, NameOf
<1>8. ds[1] = Root
  BY <1>1, <1>5, <1>6 DEF ShapeInv
<1>9. ASSUME NEW j \in 1..n - 1
      PROVE  /\ <<ds[j], ks[j]>> \in P /\ <<ds[j], ks[j]>> \in Q
             /\ child[ds[j]][ks[j]] = ds[j + 1]
  <2>1. LinkOf(stack[j], stack[j + 1].name[j], stack[j + 1])
    BY <1>1, <1>5 DEF ShapeInv
  <2>2. /\ <<stack[j].dir, stack[j + 1].name[j]>> \in P
        /\ <<stack[j].dir, stack[j + 1].name[j]>> \in Q
    BY DEF StackIn, n
  <2> QED
    BY <1>5, <1>6, <1>7, <2>1, <2>2 DEF LinkOf
<1>10. \A j \in 1..n : ds[j] \in S
  BY <1>6 DEF StackIn, n
<1>11. \A i, j \in 1..n : ds[i] = ds[j] => i = j
  BY <1>2, <1>6
<1>12. (n - 1) + 1 = n
  BY <1>1
<1>13. Trail(ks, ds, P, Q, S)
  <2> HIDE DEF ks
  <2> QED
    BY <1>6, <1>7, <1>8, <1>9, <1>10, <1>11, <1>12 DEF Trail
<1> QED
  BY <1>1, <1>5, <1>6, <1>7, <1>13 DEF ds, ks

\* What the top frame finds when it is parted was led to.
LEMMA PartitionFinds ==
    ASSUME WalkInv, ShapeInv, ReadInv, Partition, NEW P, NEW Q, NEW S, AllFoundBy(P, Q, S),
           RightBase(Top) => StackIn(P, Q, S),
           RightBase(Top) => \A kit \in LoadedOf(Top) : <<Top.dir, kit.kit>> \in P
    PROVE  AllFoundBy(P, Q, S)'
<1> DEFINE n == Len(stack)
<1>1. /\ TopChanges /\ stack'[n].projects = PartsOf(Top, Depth) /\ Walking
  BY PartitionDoes DEF Partition
<1>2. UNCHANGED <<child, own, origin>>
  BY WalkFixed DEF Walk
<1>3. /\ n \in Nat /\ DOMAIN stack = 1..n /\ DOMAIN stack' = 1..n
      /\ \A i \in 1..n - 1 : stack'[i] = stack[i]
      /\ Top \in FrameType /\ Top \in Range(stack)
  BY <1>1 DEF TopChanges, Range
<1>4. ASSUME NEW x \in {p.name : p \in PartsOf(Top, Depth)} PROVE FoundBy(x, P, Q, S)
  <2>1. PICK ref \in Discovered(Top.dir, Top.base, FlatOf(Top)) : x = Top.name \o ref
    <3>1. PICK p \in PartsOf(Top, Depth) : x = p.name
      BY <1>4
    <3>2. PICK ref \in Discovered(Top.dir, Top.base, FlatOf(Top)) :
             p = Project(Top, ref, Active(Top, Depth))
      BY <3>1, Zenon DEF PartsOf
    <3>3. p.name = Top.name \o ref
      BY <3>2 DEF Project
    <3> QED
      BY <3>1, <3>2, <3>3
  <2>2. RightBase(Top)
    BY <2>1 DEF Discovered, RightBase
  <2>3. ReadOK(Top)
    BY <1>3, <2>2 DEF ReadInv
  <2>4. ASSUME NEW kit \in FlatOf(Top)
        PROVE  kit.kit \in Kits /\ Flat(Top.dir, P, kit.kit) /\ IsOf(kit, Top.dir, kit.kit)
    <3>1. kit \in LoadedOf(Top) /\ kit \in Top.kits /\ ~kit.virtual /\ ~kit.pointer
      BY <2>4 DEF FlatOf, LoadedOf
    <3>2. kit.kit \in Kits
      BY <1>3, <3>1, FrameFields DEF KitType
    <3>3. child[Top.dir][kit.kit] = None
      BY <2>2, <2>4, <3>1 DEF FlatOf, NestedOf, Inside, RightBase
    <3>4. IsOf(kit, Top.dir, kit.kit)
      BY <2>3, <3>1, <3>3 DEF ReadOK, KitOK
    <3>5. <<Top.dir, kit.kit>> \in P
      BY <2>2, <3>1
    <3> QED
      BY <3>2, <3>3, <3>4, <3>5 DEF Flat
  <2>5. /\ \E kit \in FlatOf(Top) : ref \in ToolsOf(Top.dir, kit.kit)
        /\ \/ ref \in OnDisk[Top.dir]
           \/ \E kit \in FlatOf(Top) : /\ Based(Top.dir, kit.kit)
                                       /\ ref \in InKit[Top.dir][kit.kit]
    BY <1>3, <2>1, <2>2, <2>4, DiscoveredAre
  <2>10. ref \in FlatTools(Top.dir, P)
    BY <2>4, <2>5, FlatToolsAre
  <2>11. /\ Trail(Top.name, StackDirs, P, Q, S)
         /\ Top.name \in Seq(Kits) /\ StackDirs \in Seq(Dirs)
         /\ StackDirs[Len(StackDirs)] = Top.dir
    BY <1>1, <2>2, StackTrail
  <2> QED
    BY <2>1, <2>10, <2>11, Zenon DEF FoundBy
<1>5. Results' = {}
  BY <1>1 DEF Results, Partition, Walking
<1>6. ASSUME NEW x \in ProjectsOf'
      PROVE  x \in ProjectsOf \/ x \in {p.name : p \in PartsOf(Top, Depth)}
  <2>1. PICK i \in 1..n : \E p \in stack'[i].projects : x = p.name
    BY <1>3 DEF ProjectsOf, Range
  <2>2. CASE i = n
    BY <1>1, <2>1, <2>2
  <2>3. CASE i # n
    <3> HIDE DEF n
    <3>1. n \in Nat
      BY <1>3
    <3>2. i \in 1..n - 1 /\ i \in 1..n
      BY <2>3, <3>1
    <3>3. \E p \in stack[i].projects : x = p.name
      BY <1>3, <2>1, <3>2
    <3> QED
      BY <1>3, <3>2, <3>3 DEF ProjectsOf, Range
  <2> QED
    BY <2>2, <2>3
<1>7. \A x \in ProjectsOf' \cup Results' : FoundBy(x, P, Q, S)
  BY <1>4, <1>5, <1>6 DEF AllFoundBy
<1> QED
  BY <1>2, <1>7, FoundSame DEF AllFoundBy

\* What the walk sees it sees until another process writes.
LEMMA WalkSees ==
    ASSUME UNCHANGED <<file, own, child, origin, touched>>
    PROVE  /\ Moving' = Moving /\ LoadingNow' = LoadingNow /\ FoundNow' = FoundNow
           /\ SoundNow' = SoundNow /\ Possible' = Possible
<1>1. /\ \A d, k, b : Raises(d, k, b)' = Raises(d, k, b) /\ Merged(d, k, b)' = Merged(d, k, b)
      /\ \A s : CanLoad(s)' = CanLoad(s)
  BY DEF CanLoad, Raises, Merged, IsBroken, LookRaises, Physical, HasBase, HasName,
     BaseInside, Hinted, OwnOnly, Inside, Manifest
<1>2. Moving' = Moving
  BY DEF Moving
<1>3. LoadingNow' = LoadingNow
  BY <1>1 DEF LoadingNow
<1>4. FoundNow' = FoundNow
  BY <1>1, <1>3 DEF FoundNow
<1>5. SoundNow' = SoundNow
  BY <1>1 DEF SoundNow
<1> QED
  BY <1>1, <1>2, <1>3, <1>4, <1>5 DEF Possible

\* A kit that is loaded may have led to tools, ...
LEMMA LoadedPossible ==
    ASSUME RegistryTypeOK, WalkInv, SaysInv, ReadInv, NEW f \in Range(stack), RightBase(f),
           NEW kit \in LoadedOf(f)
    PROVE  /\ f.dir \in Dirs /\ kit.kit \in Kits /\ <<f.dir, kit.kit>> \in Possible
           /\ <<f.dir, kit.kit>> \notin Moving =>
                 <<f.dir, kit.kit>> \in LoadingNow /\ kit = KitAt(f.dir, kit.kit)
<1>1. f \in FrameType /\ ReadOK(f)
  BY DEF Range, WalkInv, StackOK, ReadInv
<1>2. /\ f.dir \in Dirs /\ kit.kit \in Kits /\ KitOK(f.dir, kit)
      /\ ~kit.virtual /\ ~kit.pointer
  BY <1>1, FrameFields DEF KitType, LoadedOf, ReadOK
<1>3. CanLoad(<<f.dir, kit.kit>>)
  BY <1>2 DEF KitOK
<1>4. ASSUME <<f.dir, kit.kit>> \notin Moving
      PROVE  <<f.dir, kit.kit>> \in LoadingNow /\ kit = KitAt(f.dir, kit.kit)
  <2>1. /\ Readable(file[f.dir][kit.kit]) /\ ~RaisesAt(f.dir, kit.kit)
        /\ kit = KitAt(f.dir, kit.kit)
    BY <1>2, <1>4 DEF KitOK
  <2>2. ~file[f.dir][kit.kit].pointer
    BY <1>2, <2>1, MergedTells DEF RaisesAt, KitAt
  <2>3. ~KitAt(f.dir, kit.kit).virtual /\ ~KitAt(f.dir, kit.kit).pointer
    BY <1>2, <2>1
  <2> QED
    BY <1>2, <2>1, <2>2, <2>3, LoadingIs
<1> QED
  BY <1>2, <1>3, <1>4 DEF Possible

\* ... and so may the way down the stack.
LEMMA StackPossible ==
    ASSUME RegistryTypeOK, WalkInv, SaysInv, ShapeInv, ReadInv, Walking
    PROVE  StackIn(Possible, Possible, Dirs)
<1>1. /\ Len(stack) \in Nat /\ DOMAIN stack = 1..Len(stack)
      /\ stack \in Seq(FrameType)
  BY TopFrame DEF WalkInv, StackOK
<1>2. ASSUME NEW i \in 1..Len(stack) - 1
      PROVE  <<stack[i].dir, stack[i + 1].name[i]>> \in Possible
  <2>0. Len(stack) \in Nat
    BY <1>1
  <2>1. i \in 1..Len(stack) /\ i + 1 \in 1..Len(stack)
    BY <2>0
  <2>2. LinkOf(stack[i], stack[i + 1].name[i], stack[i + 1]) /\ stack[i] \in Range(stack)
    BY <1>1, <2>1 DEF ShapeInv, Range
  <2>3. PICK kit \in LoadedOf(stack[i]) : kit.kit = stack[i + 1].name[i]
    BY <2>2 DEF LinkOf, Loads, LoadedOf
  <2> QED
    BY <2>2, <2>3, LoadedPossible DEF LinkOf
<1>3. \A i \in 1..Len(stack) : stack[i].dir \in Dirs
  BY <1>1, FrameFields
<1> QED
  BY <1>2, <1>3 DEF StackIn

\* An aggregator that was read whole while nobody wrote is sound.
LEMMA ReadSound ==
    ASSUME WalkInv, ReadInv, touched = {}, NEW f \in Range(stack), RightBase(f), f.unread = <<>>
    PROVE  f.dir \in SoundNow
<1>1. ReadOK(f) /\ f.dir \in Dirs
  BY FrameFields DEF Range, WalkInv, StackOK, ReadInv
<1>2. Moving = {}
  BY DEF Moving
<1>3. \A k \in Kits : ~RaisesAt(f.dir, k)
  BY <1>1, <1>2 DEF ReadOK, PassedOK
<1> QED
  BY <1>1, <1>3 DEF SoundNow, RaisesAt

\* The way down the stack while nobody writes, to a frame that has read all.
LEMMA StackHere ==
    ASSUME RegistryTypeOK, WalkInv, SaysInv, ShapeInv, ReadInv, Walking, touched = {},
           RightBase(Top), Top.unread = <<>>
    PROVE  StackIn(LoadingNow, FoundNow, SoundNow)
<1>1. /\ Len(stack) \in Nat /\ DOMAIN stack = 1..Len(stack)
      /\ stack \in Seq(FrameType) /\ Top = stack[Len(stack)]
  BY TopFrame DEF WalkInv, StackOK
<1>0. Len(stack) \in Nat
  BY <1>1
<1>2. Moving = {}
  BY DEF Moving
<1>3. \A i \in 1..Len(stack) : \/ i = Len(stack)
                               \/ i \in 1..Len(stack) - 1 /\ i + 1 \in 1..Len(stack)
  BY <1>0
<1>4. \A i \in 1..Len(stack) - 1 : i \in 1..Len(stack) /\ i + 1 \in 1..Len(stack)
  BY <1>0
<1>5. ASSUME NEW i \in 1..Len(stack)
      PROVE  RightBase(stack[i]) /\ stack[i].unread = <<>> /\ stack[i] \in Range(stack)
  <2>1. CASE i = Len(stack)
    BY <1>1, <1>5, <2>1 DEF Range
  <2>2. CASE i \in 1..Len(stack) - 1 /\ i + 1 \in 1..Len(stack)
    BY <1>1, <1>5, <2>2 DEF ShapeInv, LinkOf, ShapeOf, Range
  <2> QED
    BY <1>3, <2>1, <2>2
<1>6. ASSUME NEW i \in 1..Len(stack) - 1
      PROVE  /\ <<stack[i].dir, stack[i + 1].name[i]>> \in LoadingNow
             /\ <<stack[i].dir, stack[i + 1].name[i]>> \in FoundNow
  <2> DEFINE k == stack[i + 1].name[i]
             d == stack[i].dir
  <2>1. LinkOf(stack[i], k, stack[i + 1]) /\ stack[i] \in Range(stack) /\ RightBase(stack[i])
    BY <1>1, <1>4, <1>5 DEF ShapeInv
  <2>2. PICK kit \in LoadedOf(stack[i]) : kit.kit = k
    BY <2>1 DEF LinkOf, Loads, LoadedOf
  <2>3. d \in Dirs /\ k \in Kits /\ <<d, k>> \in LoadingNow /\ kit = KitAt(d, k)
    BY <1>2, <2>1, <2>2, LoadedPossible
  <2>4. PICK other \in stack[i].kits : other.kit = k /\ stack[i + 1].base = BaseOf(other)
    BY <2>1 DEF LinkOf
  <2>5. other = KitAt(d, k)
    BY <1>2, <2>1, <2>4 DEF ReadInv, ReadOK, KitOK
  <2>6. RealBase[child[d][k]] = BaseOf(KitAt(d, k))
    BY <1>4, <1>5, <2>1, <2>4, <2>5 DEF LinkOf, RightBase
  <2> HIDE DEF d, k
  <2> QED
    BY <2>3, <2>6, LoadingIs DEF d, k
<1>7. \A i \in 1..Len(stack) : stack[i].dir \in SoundNow
  BY <1>5, ReadSound
<1> QED
  BY <1>6, <1>7 DEF StackIn

-----------------------------------------------------------------------------
(* What is found is there *)

\* No name was found that no registration ever led to, and none that none leads to now
\* while nobody writes.
FoundPossible == \A P : P = Possible => AllFoundBy(P, P, Dirs)
FoundHere == touched = {} => \A P, Q, S :
    P = LoadingNow /\ Q = FoundNow /\ S = SoundNow => AllFoundBy(P, Q, S)

\* At the start nothing was found.
LEMMA FoundInit == Init => FoundPossible /\ FoundHere
BY DEF Init, FoundPossible, FoundHere, AllFoundBy, ProjectsOf, Results, Range

\* What few find more find.
LEMMA FoundMoreAll ==
    ASSUME NEW P, NEW Q, NEW S, NEW P2, NEW Q2, NEW S2,
           P \subseteq P2, Q \subseteq Q2, S \subseteq S2, AllFoundBy(P, Q, S)
    PROVE  AllFoundBy(P2, Q2, S2)
BY FoundMore DEF AllFoundBy

\* Every step keeps what was possible, ...
LEMMA FoundPossibleNext ==
    ASSUME RegistryTypeOK, RegistryTypeOK', WalkInv, SaysInv, ShapeInv, ReadInv,
           FoundPossible, [Next]_vars
    PROVE  FoundPossible'
<1>0. UNCHANGED <<child, own, origin>>
  BY Fixed
<1>1. CASE Begin
  <2>1. stack' = <<Frame(Root, <<>>, RealBase[Root])>> /\ status' = "walking"
    BY <1>1 DEF Begin
  <2>2. ProjectsOf' = {} /\ Results' = {}
    BY <2>1 DEF ProjectsOf, Results, Range, Frame
  <2> QED
    BY <2>2 DEF FoundPossible, AllFoundBy
<1>2. CASE Partition
  <2> SUFFICES ASSUME NEW P, P = Possible' PROVE AllFoundBy(P, P, Dirs)'
    BY DEF FoundPossible
  <2>1. P = Possible
    BY <1>2, WalkFixed, WalkSees DEF Walk
  <2>2. AllFoundBy(P, P, Dirs) /\ Walking
    BY <1>2, <2>1 DEF FoundPossible, Partition
  <2>3. StackIn(P, P, Dirs)
    BY <2>1, <2>2, StackPossible
  <2>4. Top \in Range(stack)
    BY <2>2, TopFrame DEF Range
  <2>5. RightBase(Top) => \A kit \in LoadedOf(Top) : <<Top.dir, kit.kit>> \in P
    BY <2>1, <2>4, LoadedPossible
  <2> QED
    BY <1>2, <2>2, <2>3, <2>5, PartitionFinds
<1>3. ASSUME ProjectsOf' \cup Results' \subseteq ProjectsOf \cup Results,
             Possible \subseteq Possible'
      PROVE  FoundPossible'
  <2> SUFFICES ASSUME NEW P, P = Possible' PROVE AllFoundBy(P, P, Dirs)'
    BY DEF FoundPossible
  <2>1. PICK P0 : P0 = Possible
    OBVIOUS
  <2>2. AllFoundBy(P0, P0, Dirs) /\ P0 \subseteq P
    BY <1>3, <2>1 DEF FoundPossible
  <2>3. AllFoundBy(P, P, Dirs)
    BY <2>2, FoundMoreAll
  <2> QED
    BY <1>0, <1>3, <2>3, NothingNew
<1>4. CASE ReadKit \/ ReadFails \/ Descend \/ Cycle \/ Return \/ Finish
  <2>1. Possible' = Possible
    BY <1>4, WalkFixed, WalkSees DEF Walk
  <2>2. ProjectsOf' \cup Results' \subseteq ProjectsOf \cup Results
    BY <1>4, OthersFind, ReturnFinds, FinishFinds
  <2> QED
    BY <1>3, <2>1, <2>2
<1>5. CASE Other
  BY <1>3, <1>5, OthersFind, PossibleGrows
<1>6. CASE UNCHANGED vars
  <2>1. Possible' = Possible
    BY <1>6, WalkSees DEF vars, walkVars, registryVars, histories
  <2>2. ProjectsOf' = ProjectsOf /\ Results' = Results
    BY <1>6 DEF vars, walkVars, ProjectsOf, Results
  <2> QED
    BY <1>3, <2>1, <2>2
<1> QED
  BY <1>1, <1>2, <1>4, <1>5, <1>6 DEF Next, Walk

\* A step of another process while nobody has written anything yet and nobody does.
LEMMA QuietOther ==
    ASSUME RegistryTypeOK, RegistryTypeOK', Other, touched' = {}
    PROVE  touched = {} /\ file' = file /\ UNCHANGED <<own, child, origin>>
<1>1. touched = {} /\ \A s \in Dirs \X Kits : file'[s[1]][s[2]] = file[s[1]][s[2]]
  BY DEF Other
<1>2. ASSUME NEW d \in Dirs PROVE file'[d] = file[d]
  <2>1. \A k \in Kits : <<d, k>> \in Dirs \X Kits /\ <<d, k>>[1] = d /\ <<d, k>>[2] = k
    OBVIOUS
  <2>2. \A k \in Kits : file'[d][k] = file[d][k]
    BY <1>1, <2>1
  <2>3. file'[d] \in [Kits -> Files] /\ file[d] \in [Kits -> Files]
    BY DEF RegistryTypeOK
  <2> QED
    BY <2>2, <2>3
<1>3. file' = file
  BY <1>2 DEF RegistryTypeOK
<1> QED
  BY <1>1, <1>3, Fixed DEF Next

\* ... and what is here while nobody writes.
LEMMA FoundHereNext ==
    ASSUME RegistryTypeOK, RegistryTypeOK', WalkInv, SaysInv, ShapeInv, ReadInv,
           FoundHere, [Next]_vars
    PROVE  FoundHere'
<1>0. UNCHANGED <<child, own, origin>>
  BY Fixed
<1>1. CASE Begin
  <2>1. stack' = <<Frame(Root, <<>>, RealBase[Root])>> /\ status' = "walking"
    BY <1>1 DEF Begin
  <2>2. ProjectsOf' = {} /\ Results' = {}
    BY <2>1 DEF ProjectsOf, Results, Range, Frame
  <2> QED
    BY <2>2 DEF FoundHere, AllFoundBy
<1>2. CASE Partition
  <2> SUFFICES ASSUME touched' = {}, NEW P, NEW Q, NEW S,
                      P = LoadingNow', Q = FoundNow', S = SoundNow'
               PROVE  AllFoundBy(P, Q, S)'
    BY DEF FoundHere
  <2>1. P = LoadingNow /\ Q = FoundNow /\ S = SoundNow /\ touched = {}
    BY <1>2, WalkFixed, WalkSees DEF Walk
  <2>2. AllFoundBy(P, Q, S) /\ Walking /\ Top.unread = <<>>
    BY <1>2, <2>1 DEF FoundHere, Partition
  <2>3. RightBase(Top) => StackIn(P, Q, S)
    BY <2>1, <2>2, StackHere
  <2>4. Top \in Range(stack) /\ Moving = {}
    BY <2>1, <2>2, TopFrame DEF Range, Moving
  <2>5. RightBase(Top) => \A kit \in LoadedOf(Top) : <<Top.dir, kit.kit>> \in P
    BY <2>1, <2>4, LoadedPossible
  <2> QED
    BY <1>2, <2>2, <2>3, <2>5, PartitionFinds
<1>3. ASSUME ProjectsOf' \cup Results' \subseteq ProjectsOf \cup Results,
             touched' = {} => touched = {} /\ LoadingNow' = LoadingNow /\ FoundNow' = FoundNow
                              /\ SoundNow' = SoundNow
      PROVE  FoundHere'
  <2> SUFFICES ASSUME touched' = {}, NEW P, NEW Q, NEW S,
                      P = LoadingNow', Q = FoundNow', S = SoundNow'
               PROVE  AllFoundBy(P, Q, S)'
    BY DEF FoundHere
  <2>1. AllFoundBy(P, Q, S)
    BY <1>3 DEF FoundHere
  <2> QED
    BY <1>0, <1>3, <2>1, NothingNew
<1>4. CASE ReadKit \/ ReadFails \/ Descend \/ Cycle \/ Return \/ Finish
  <2>1. LoadingNow' = LoadingNow /\ FoundNow' = FoundNow /\ SoundNow' = SoundNow
        /\ touched' = touched
    BY <1>4, WalkFixed, WalkSees DEF Walk
  <2>2. ProjectsOf' \cup Results' \subseteq ProjectsOf \cup Results
    BY <1>4, OthersFind, ReturnFinds, FinishFinds
  <2> QED
    BY <1>3, <2>1, <2>2
<1>5. CASE Other
  <2>1. ASSUME touched' = {}
        PROVE  /\ touched = {} /\ LoadingNow' = LoadingNow /\ FoundNow' = FoundNow
               /\ SoundNow' = SoundNow
    <3>1. touched = {} /\ UNCHANGED <<file, own, child, origin, touched>>
      BY <1>5, <2>1, QuietOther
    <3> QED
      BY <3>1, WalkSees
  <2> QED
    BY <1>3, <1>5, <2>1, OthersFind
<1>6. CASE UNCHANGED vars
  <2>1. /\ LoadingNow' = LoadingNow /\ FoundNow' = FoundNow /\ SoundNow' = SoundNow
        /\ touched' = touched
    BY <1>6, WalkSees DEF vars, walkVars, registryVars, histories
  <2>2. ProjectsOf' = ProjectsOf /\ Results' = Results
    BY <1>6 DEF vars, walkVars, ProjectsOf, Results
  <2> QED
    BY <1>3, <2>1, <2>2
<1> QED
  BY <1>1, <1>2, <1>4, <1>5, <1>6 DEF Next, Walk

-----------------------------------------------------------------------------
(* All that is there is found *)

\* A way that a chain takes: it need not be found where it ends, nor be sound there, and
\* may be back where it was before.
Road(ks, ds, P, Q, S) ==
    /\ ks \in Seq(Kits) /\ ds \in Seq(Dirs) /\ Len(ds) = Len(ks) + 1 /\ ds[1] = Root
    /\ \A j \in 1..Len(ks) : /\ <<ds[j], ks[j]>> \in P /\ child[ds[j]][ks[j]] = ds[j + 1]
                             /\ ds[j] \in S
    /\ \A j \in 1..Len(ks) : j # Len(ks) => <<ds[j], ks[j]>> \in Q
\* Its last step is found.
FoundAt(ks, ds, Q) == Len(ks) > 0 => <<ds[Len(ks)], ks[Len(ks)]>> \in Q

\* A chain that goes on with a step.
LEMMA RoadGoesOn ==
    ASSUME NEW P, NEW Q, NEW S, NEW ks, NEW ds, Road(ks, ds, P, Q, S), FoundAt(ks, ds, Q),
           ds[Len(ds)] \in S, NEW k \in Kits, <<ds[Len(ds)], k>> \in P,
           child[ds[Len(ds)]][k] \in Dirs
    PROVE  LET e == ds[Len(ds)]
               ks2 == Append(ks, k)
               ds2 == Append(ds, child[e][k])
           IN /\ Road(ks2, ds2, P, Q, S)
              /\ FoundAt(ks2, ds2, Q) <=> <<e, k>> \in Q
<1> DEFINE n == Len(ks)
           e == ds[Len(ds)]
           ks2 == Append(ks, k)
           ds2 == Append(ds, child[e][k])
<1>1. /\ ks \in Seq(Kits) /\ ds \in Seq(Dirs) /\ n \in Nat /\ Len(ds) = n + 1 /\ ds[1] = Root
      /\ \A j \in 1..n : /\ <<ds[j], ks[j]>> \in P /\ child[ds[j]][ks[j]] = ds[j + 1]
                         /\ ds[j] \in S
      /\ \A j \in 1..n : j # n => <<ds[j], ks[j]>> \in Q
      /\ n > 0 => <<ds[n], ks[n]>> \in Q
  BY DEF Road, FoundAt
<1>2. /\ ks2 \in Seq(Kits) /\ Len(ks2) = n + 1 /\ ks2[n + 1] = k
      /\ \A j \in 1..n : ks2[j] = ks[j]
  BY <1>1, AppendProperties
<1>3. /\ ds2 \in Seq(Dirs) /\ Len(ds2) = (n + 1) + 1 /\ ds2[(n + 1) + 1] = child[e][k]
      /\ \A j \in 1..n + 1 : ds2[j] = ds[j]
  BY <1>1, AppendProperties
<1>4. e = ds[n + 1]
  BY <1>1
<1> HIDE DEF n, ks2, ds2, e
<1>5. \A j \in 1..n + 1 : j = n + 1 \/ (j \in 1..n /\ j + 1 \in 1..n + 1)
  BY <1>1
<1>6. \A j \in 1..n : j # n \/ n > 0
  BY <1>1
<1>7. n + 1 \in 1..n + 1 /\ 1 \in 1..n + 1 /\ n + 1 > 0
  BY <1>1
<1>8. \A j \in 1..n : <<ds[j], ks[j]>> \in Q
  BY <1>1, <1>6
<1>9. ASSUME NEW j \in 1..n + 1
      PROVE  /\ <<ds2[j], ks2[j]>> \in P /\ child[ds2[j]][ks2[j]] = ds2[j + 1]
             /\ ds2[j] \in S /\ (j # n + 1 => <<ds2[j], ks2[j]>> \in Q)
  <2>1. CASE j = n + 1
    BY <1>2, <1>3, <1>4, <1>7, <2>1 DEF e
  <2>2. CASE j \in 1..n /\ j + 1 \in 1..n + 1
    BY <1>1, <1>2, <1>3, <1>8, <2>2
  <2> QED
    BY <1>5, <2>1, <2>2
<1>10. Road(ks2, ds2, P, Q, S)
  BY <1>1, <1>2, <1>3, <1>7, <1>9 DEF Road
<1>11. FoundAt(ks2, ds2, Q) <=> <<e, k>> \in Q
  BY <1>2, <1>3, <1>4, <1>7 DEF FoundAt
<1> QED
  BY <1>10, <1>11 DEF e, ks2, ds2

\* What the chains of a level are.
IsRoad(c, P, Q, S) == Road(c.kits, c.dirs, P, Q, S) /\ (c.found <=> FoundAt(c.kits, c.dirs, Q))

\* The next level has roads if this one has.
LEMMA LevelRoads ==
    ASSUME WalkInv, NEW P, NEW Q, NEW S, NEW U,
           \A c \in U : IsRoad(c, P, Q, S), NEW x \in NextLevel(U, P, Q, S)
    PROVE  IsRoad(x, P, Q, S)
<1>1. CASE x \in U
  BY <1>1
<1>2. CASE x \notin U
  <2>1. PICK c \in U : Grows(c, S) /\ x \in Longer(c, P, Q)
    BY <1>2 DEF NextLevel
  <2>2. PICK k \in Kits :
          /\ <<Here(c), k>> \in P /\ child[Here(c)][k] # None
          /\ x = [kits |-> Append(c.kits, k), dirs |-> Append(c.dirs, child[Here(c)][k]),
                  found |-> <<Here(c), k>> \in Q]
    BY <2>1, Zenon DEF Longer
  <2>3. /\ Road(c.kits, c.dirs, P, Q, S) /\ FoundAt(c.kits, c.dirs, Q) /\ Here(c) \in S
    BY <2>1 DEF Grows, IsRoad
  <2>4. Here(c) \in Dirs
    BY <2>3 DEF Here, Road
  <2>5. child[Here(c)][k] \in Dirs
    BY <2>2, <2>4 DEF WalkInv
  <2>6. /\ Road(Append(c.kits, k), Append(c.dirs, child[Here(c)][k]), P, Q, S)
        /\ FoundAt(Append(c.kits, k), Append(c.dirs, child[Here(c)][k]), Q)
             <=> <<Here(c), k>> \in Q
    BY <2>2, <2>3, <2>5, RoadGoesOn DEF Here
  <2>7. /\ x.kits = Append(c.kits, k) /\ x.dirs = Append(c.dirs, child[Here(c)][k])
        /\ x.found = (<<Here(c), k>> \in Q)
    BY <2>2
  <2> QED
    BY <2>6, <2>7 DEF IsRoad
<1> QED
  BY <1>1, <1>2

\* Chains are roads.
LEMMA ChainIsRoad ==
    ASSUME WalkInv, NEW P, NEW Q, NEW S
    PROVE  \A x \in Chains(P, Q, S) : IsRoad(x, P, Q, S)
<1>0. PICK u : /\ Chains(P, Q, S) = u[Cardinality(Dirs)] /\ u[0] = {Start}
               /\ \A n \in 1..Cardinality(Dirs) : u[n] = NextLevel(u[n - 1], P, Q, S)
  BY ChainsAre
<1>2. PICK N \in Nat : N = Cardinality(Dirs)
  BY DiscoveryAssumption, FS_CardinalityType
<1>1. /\ Chains(P, Q, S) = u[N] /\ u[0] = {Start}
      /\ \A n \in 1..N : u[n] = NextLevel(u[n - 1], P, Q, S)
  BY <1>0, <1>2
<1> DEFINE Bad == {n \in 0..N : \E c \in u[n] : ~IsRoad(c, P, Q, S)}
<1>3. CASE Bad = {}
  <2>1. N \in 0..N
    BY <1>2
  <2> QED
    BY <1>1, <1>3, <2>1
<1>4. CASE Bad # {}
  <2>1. \E y \in Bad : \A z \in Bad : y <= z
    <3>1. Bad \subseteq Nat
      BY <1>2
    <3> HIDE DEF Bad
    <3> QED
      BY <1>4, <3>1, Least
  <2>2. PICK y \in Bad : \A z \in Bad : y <= z
    BY <2>1
  <2>3. y \in 0..N /\ \E c \in u[y] : ~IsRoad(c, P, Q, S)
    BY <2>2
  <2>4. y # 0
    <3>1. Start.kits = <<>> /\ Start.dirs = <<Root>> /\ Start.found = TRUE
      BY DEF Start
    <3>2. <<Root>> \in Seq(Dirs) /\ Len(<<Root>>) = 1 /\ <<Root>>[1] = Root
      BY DiscoveryAssumption
    <3>3. <<>> \in Seq(Kits) /\ Len(<<>>) = 0 /\ 1..0 = {}
      OBVIOUS
    <3>4. IsRoad(Start, P, Q, S)
      BY <3>1, <3>2, <3>3 DEF IsRoad, Road, FoundAt
    <3> QED
      BY <1>1, <2>3, <3>4
  <2>5. y \in 1..N /\ y - 1 \in 0..N /\ ~(y <= y - 1)
    <3> HIDE DEF Bad
    <3> QED
      BY <2>3, <2>4
  <2>6. \A c \in u[y - 1] : IsRoad(c, P, Q, S)
    BY <2>2, <2>5
  <2>7. u[y] = NextLevel(u[y - 1], P, Q, S)
    BY <1>1, <2>5
  <2> QED
    BY <2>3, <2>6, <2>7, LevelRoads
<1> QED
  BY <1>3, <1>4

\* The names that are reported: found so far, or shadowed in the end.
Reported == ProjectsOf \cup Results \cup (IF status = "done" THEN settings.shadowed ELSE {})
\* The tools at the end of a road are reported where it is found and sound, ...
Told(ks, ds, P, Q, S) ==
    FoundAt(ks, ds, Q) /\ ds[Len(ds)] \in S =>
       \A ref \in FlatTools(ds[Len(ds)], P) : ks \o ref \in Reported
\* ... and it ends nowhere it was before.
Tended(ks, ds, P, Q, S) ==
    (\A j \in 1..Len(ks) : ds[j] # ds[Len(ds)]) /\ Told(ks, ds, P, Q, S)
\* The road comes through a frame, where it was tended to, is being, or will be.
Through(ks, ds, i) ==
    /\ Len(ks) >= i - 1 /\ \A j \in 1..i : ds[j] = stack[j].dir
    /\ \A j \in 1..i - 1 : ks[j] = stack[j + 1].name[j]
\* Where it goes on through a kit that the frame has not entered yet, has entered, or is
\* done with.
AtFrame(ks, ds, i, P, Q, S) ==
    stack[i].parted /\ Through(ks, ds, i) =>
       /\ Len(ks) = i - 1 => Told(ks, ds, P, Q, S)
       /\ Len(ks) >= i => \/ ks[i] \in stack[i].todo
                          \/ i + 1 \in DOMAIN stack /\ ks[i] = stack[i + 1].name[i]
                          \/ Tended(ks, ds, P, Q, S)
\* Every road is tended to when the walk is done, and accounted for at every frame till
\* then.
Complete(P, Q, S) ==
    \A ks, ds : Road(ks, ds, P, Q, S) =>
       /\ status = "done" => Tended(ks, ds, P, Q, S)
       /\ \A i \in DOMAIN stack : AtFrame(ks, ds, i, P, Q, S)

\* The registrations and aggregators that discovery answers for: those nobody touched, of
\* aggregators that never raise, or do not while nobody writes at all.
Answers(P, Q, S) ==
    /\ P \subseteq LoadingNow \ Moving /\ Q \subseteq FoundNow \ Moving /\ S \subseteq Dirs
    /\ \/ \A d \in S : NeverRaises(d)
       \/ touched = {} /\ S \subseteq SoundNow
\* Discovery is complete for all it answers for.
CompleteInv == \A P, Q, S : Answers(P, Q, S) => Complete(P, Q, S)

\* None of the aggregators raises.
LEMMA AnswersSound ==
    ASSUME RegistryTypeOK, WalkInv, SaysInv, NEW P, NEW Q, NEW S, Answers(P, Q, S),
           NEW d \in S, NEW k \in Kits
    PROVE  d \in Dirs /\ ~RaisesAt(d, k)
BY NeverRaisesAt DEF Answers, SoundNow, RaisesAt

\* A road that comes through a frame and goes on, or is found there, was entered where its
\* tools are looked for.
LEMMA RoadBase ==
    ASSUME RegistryTypeOK, WalkInv, ShapeInv, ReadInv, NEW P, NEW Q, NEW S, Answers(P, Q, S),
           NEW ks, NEW ds, Road(ks, ds, P, Q, S), NEW i \in DOMAIN stack, Through(ks, ds, i),
           Len(ks) >= i \/ FoundAt(ks, ds, Q)
    PROVE  RightBase(stack[i])
<1>1. CASE i = 1
  BY <1>1 DEF ShapeInv
<1>2. CASE i # 1
  <2>1. PICK m \in Nat : m = Len(stack) /\ DOMAIN stack = 1..m
    BY DEF WalkInv, StackOK
  <2>2. i \in 1..m
    BY <2>1
  <2>3. i - 1 \in 1..m /\ i - 1 \in Nat /\ (i - 1) + 1 = i /\ i - 1 > 0
    BY <1>2, <2>2
  <2>4. PICK h \in 1..m : h = i - 1
    BY <2>3
  <2>5. LinkOf(stack[h], stack[i].name[h], stack[i])
    BY <2>1, <2>2, <2>3, <2>4 DEF ShapeInv
  <2>6. Len(ks) \in Nat /\ Len(ks) >= h
    BY <2>4 DEF Through, Road
  <2>7. h \in 1..Len(ks) /\ h \in 1..i /\ (Len(ks) # h => Len(ks) >= i)
    BY <2>2, <2>4, <2>6
  <2>8. ds[h] = stack[h].dir /\ ks[h] = stack[i].name[h]
    BY <2>3, <2>4, <2>7 DEF Through
  <2>9. <<ds[h], ks[h]>> \in Q
    <3>1. CASE h = Len(ks)
      <4>1. ~(Len(ks) >= i) /\ Len(ks) > 0
        BY <2>2, <2>3, <2>4, <3>1
      <4> QED
        BY <3>1, <4>1 DEF FoundAt
    <3>2. CASE h # Len(ks)
      BY <2>7, <3>2 DEF Road
    <3> QED
      BY <3>1, <3>2
  <2> DEFINE d == stack[h].dir
             k == ks[h]
  <2>10. stack[h] \in Range(stack) /\ RightBase(stack[h]) /\ child[d][k] = stack[i].dir
    BY <2>1, <2>4, <2>5, <2>8 DEF Range, LinkOf
  <2>11. PICK kit \in stack[h].kits : kit.kit = k /\ stack[i].base = BaseOf(kit)
    BY <2>5, <2>8 DEF LinkOf
  <2>12. d \in Dirs /\ k \in Kits /\ stack[i].dir \in Dirs
    BY <2>1, <2>2, <2>4, <2>7, FrameFields DEF WalkInv, StackOK, Road
  <2>13. <<d, k>> \in FoundNow /\ <<d, k>> \notin Moving
    BY <2>8, <2>9 DEF Answers
  <2>14. kit = KitAt(d, k)
    BY <2>10, <2>11, <2>13 DEF ReadInv, ReadOK, KitOK
  <2>15. RealBase[stack[i].dir] = BaseOf(KitAt(d, k))
    <3>1. child[d][k] # None
      BY <2>10, <2>12, DiscoveryAssumption
    <3> HIDE DEF d, k
    <3>2. RealBase[child[d][k]] = BaseOf(KitAt(d, k))
      BY <2>12, <2>13, <3>1, LoadingIs
    <3> QED
      BY <2>10, <3>2
  <2> QED
    BY <2>11, <2>14, <2>15 DEF RightBase
<1> QED
  BY <1>1, <1>2

\* A road that goes on as the stack does comes through the next frame.
LEMMA ThroughNext ==
    ASSUME WalkInv, ShapeInv, NEW P, NEW Q, NEW S, NEW ks, NEW ds, Road(ks, ds, P, Q, S),
           NEW i \in DOMAIN stack, i + 1 \in DOMAIN stack, Through(ks, ds, i), Len(ks) >= i,
           ks[i] = stack[i + 1].name[i]
    PROVE  Through(ks, ds, i + 1)
<1>1. PICK m \in Nat : m = Len(stack) /\ DOMAIN stack = 1..m
  BY DEF WalkInv, StackOK
<1>2. i \in 1..m /\ i + 1 \in 1..m /\ Len(ks) \in Nat
  BY <1>1 DEF Road
<1>3. i \in 1..i /\ i \in 1..Len(ks) /\ (i + 1) - 1 = i
  BY <1>2
<1>4. LinkOf(stack[i], stack[i + 1].name[i], stack[i + 1])
  BY <1>1 DEF ShapeInv
<1>5. ds[i + 1] = stack[i + 1].dir
  <2>1. ds[i] = stack[i].dir /\ child[ds[i]][ks[i]] = ds[i + 1]
    BY <1>3 DEF Through, Road
  <2> QED
    BY <1>4, <2>1 DEF LinkOf
<1>6. \A j \in 1..i + 1 : j \in 1..i \/ j = i + 1
  BY <1>2
<1>7. \A j \in 1..i : j \in 1..i - 1 \/ j = i
  BY <1>2
<1>8. \A j \in 1..i + 1 : ds[j] = stack[j].dir
  BY <1>5, <1>6 DEF Through
<1>9. \A j \in 1..i : ks[j] = stack[j + 1].name[j]
  BY <1>7 DEF Through
<1> QED
  BY <1>3, <1>8, <1>9 DEF Through

\* A road that ends at a frame was nowhere twice.
LEMMA EndsHere ==
    ASSUME WalkInv, NEW P, NEW Q, NEW S, NEW ks, NEW ds, Road(ks, ds, P, Q, S),
           NEW i \in DOMAIN stack, Through(ks, ds, i), Len(ks) = i - 1
    PROVE  /\ \A j \in 1..Len(ks) : ds[j] # ds[Len(ds)]
           /\ ds[Len(ds)] = stack[i].dir
<1>1. PICK m \in Nat : m = Len(stack) /\ DOMAIN stack = 1..m
  BY DEF WalkInv, StackOK
<1>2. i \in 1..m /\ Len(ds) = Len(ks) + 1
  BY <1>1 DEF Road
<1>3. Len(ds) = i
  BY <1>2
<1>4. i \in 1..i /\ \A j \in 1..i - 1 : j \in 1..i /\ j \in 1..m /\ j # i
  BY <1>2
<1>5. \A j \in 1..i : ds[j] = stack[j].dir
  BY DEF Through
<1>6. \A j \in 1..i - 1 : stack[j].dir # stack[i].dir
  BY <1>1, <1>2, <1>4 DEF WalkInv, StackOK
<1> QED
  BY <1>3, <1>4, <1>5, <1>6

\* What was tended to stays so.
LEMMA TendedStays ==
    ASSUME UNCHANGED <<own, child, origin>>, Reported \subseteq Reported',
           NEW P, NEW Q, NEW S, NEW ks, NEW ds
    PROVE  /\ Told(ks, ds, P, Q, S) => Told(ks, ds, P, Q, S)'
           /\ Tended(ks, ds, P, Q, S) => Tended(ks, ds, P, Q, S)'
           /\ Road(ks, ds, P, Q, S)' <=> Road(ks, ds, P, Q, S)
<1>1. \A d : FlatTools(d, P)' = FlatTools(d, P)
  BY DEF FlatTools
<1>2. Told(ks, ds, P, Q, S) => Told(ks, ds, P, Q, S)'
  BY <1>1 DEF Told
<1>3. Tended(ks, ds, P, Q, S) => Tended(ks, ds, P, Q, S)'
  BY <1>2 DEF Tended
<1>4. Road(ks, ds, P, Q, S)' <=> Road(ks, ds, P, Q, S)
  BY DEF Road
<1> QED
  BY <1>2, <1>3, <1>4

\* A frame that stays where it is, and goes on as it did.
FrameStays(i) ==
    /\ i \in DOMAIN stack
    /\ \A j \in 1..i : stack'[j].dir = stack[j].dir /\ stack'[j].name = stack[j].name
    /\ stack'[i].parted = stack[i].parted /\ stack'[i].todo = stack[i].todo
    /\ i + 1 \in DOMAIN stack =>
          i + 1 \in DOMAIN stack' /\ stack'[i + 1].name = stack[i + 1].name
\* A frame that stays is come through as before, ...
LEMMA ThroughStays ==
    ASSUME NEW i \in Nat, NEW ks, NEW ds,
           \A j \in 1..i : stack'[j].dir = stack[j].dir /\ stack'[j].name = stack[j].name
    PROVE  Through(ks, ds, i)' <=> Through(ks, ds, i)
<1>1. \A j \in 1..i - 1 : j + 1 \in 1..i
  OBVIOUS
<1> QED
  BY <1>1 DEF Through
\* ... and accounts for the same.
LEMMA AtFrameStays ==
    ASSUME UNCHANGED <<own, child, origin>>, Reported \subseteq Reported',
           NEW P, NEW Q, NEW S, NEW ks, NEW ds, NEW i \in Nat, FrameStays(i),
           AtFrame(ks, ds, i, P, Q, S)
    PROVE  AtFrame(ks, ds, i, P, Q, S)'
<1>1. Through(ks, ds, i)' <=> Through(ks, ds, i)
  BY ThroughStays DEF FrameStays
<1>2. /\ Told(ks, ds, P, Q, S) => Told(ks, ds, P, Q, S)'
      /\ Tended(ks, ds, P, Q, S) => Tended(ks, ds, P, Q, S)'
  BY TendedStays
<1> QED
  BY <1>1, <1>2 DEF AtFrame, FrameStays

\* What the frames have found stays reported where no frame loses what it found.
LEMMA ReportedGrows ==
    ASSUME settings' = settings, status = "done" => status' = "done" /\ result' = result,
           \A i \in DOMAIN stack : \A p \in stack[i].projects :
              \E j \in DOMAIN stack' : \E q \in stack'[j].projects : q.name = p.name
    PROVE  Reported \subseteq Reported'
<1>1. ProjectsOf \subseteq ProjectsOf'
  BY DEF ProjectsOf, Range
<1>2. Results \subseteq Results'
  BY DEF Results
<1> QED
  BY <1>1, <1>2 DEF Reported

\* It takes the frames that do not stay as they were.
LEMMA CompleteStays ==
    ASSUME UNCHANGED <<own, child, origin>>, Reported \subseteq Reported',
           NEW P, NEW Q, NEW S, Complete(P, Q, S), status' = "done" => status = "done",
           DOMAIN stack' \subseteq Nat,
           \A i \in DOMAIN stack' : FrameStays(i) \/
              \A ks, ds : Road(ks, ds, P, Q, S) => AtFrame(ks, ds, i, P, Q, S)'
    PROVE  Complete(P, Q, S)'
<1> SUFFICES ASSUME NEW ks, NEW ds, Road(ks, ds, P, Q, S)'
             PROVE  /\ status' = "done" => Tended(ks, ds, P, Q, S)'
                    /\ \A i \in DOMAIN stack' : AtFrame(ks, ds, i, P, Q, S)'
  BY DEF Complete
<1>1. Road(ks, ds, P, Q, S)
  BY TendedStays
<1>2. status' = "done" => Tended(ks, ds, P, Q, S)'
  BY <1>1, TendedStays DEF Complete
<1>3. ASSUME NEW i \in DOMAIN stack' PROVE AtFrame(ks, ds, i, P, Q, S)'
  <2>1. CASE FrameStays(i)
    <3>1. i \in DOMAIN stack /\ i \in Nat
      BY <2>1 DEF FrameStays
    <3>2. AtFrame(ks, ds, i, P, Q, S)
      BY <1>1, <3>1 DEF Complete
    <3> QED
      BY <2>1, <3>1, <3>2, AtFrameStays
  <2>2. CASE ~FrameStays(i)
    BY <1>1, <2>2
  <2> QED
    BY <2>1, <2>2
<1> QED
  BY <1>2, <1>3

\* A frame that is not parted has tended to nothing yet.
LEMMA NotParted ==
    ASSUME NEW i, ~stack'[i].parted
    PROVE  \A P, Q, S, ks, ds : AtFrame(ks, ds, i, P, Q, S)'
BY DEF AtFrame

\* Reading a registration tends to nothing.
LEMMA CompleteReadKit ==
    ASSUME RegistryTypeOK, WalkInv, ShapeInv, ReadKit, NEW P, NEW Q, NEW S, Complete(P, Q, S)
    PROVE  Complete(P, Q, S)'
<1>1. /\ TopChanges /\ SamePlace(stack'[Len(stack)], Top)
      /\ stack'[Len(stack)].parted = Top.parted /\ stack'[Len(stack)].todo = Top.todo
      /\ stack'[Len(stack)].projects = Top.projects
  BY ReadKitDoes
<1>2. UNCHANGED <<own, child, origin, settings, status, result>>
  BY WalkFixed DEF Walk, ReadKit
<1>3. PICK n \in Nat : n = Len(stack)
  BY <1>1 DEF TopChanges
<1>4. /\ DOMAIN stack = 1..n /\ DOMAIN stack' = 1..n
      /\ \A i \in 1..n - 1 : stack'[i] = stack[i]
      /\ stack'[n].dir = stack[n].dir /\ stack'[n].name = stack[n].name
      /\ stack'[n].parted = stack[n].parted /\ stack'[n].todo = stack[n].todo
      /\ stack'[n].projects = stack[n].projects
  BY <1>1, <1>3 DEF TopChanges, SamePlace
<1>5. \A i \in 1..n : i = n \/ i \in 1..n - 1
  BY <1>3
<1>6. \A i \in 1..n : /\ stack'[i].dir = stack[i].dir /\ stack'[i].name = stack[i].name
                      /\ stack'[i].parted = stack[i].parted /\ stack'[i].todo = stack[i].todo
                      /\ stack'[i].projects = stack[i].projects
  BY <1>4, <1>5
<1>7. Reported \subseteq Reported'
  BY <1>2, <1>4, <1>6, ReportedGrows
<1>8. \A i \in 1..n : \A j \in 1..i : j \in 1..n
  BY <1>3
<1>9. \A i \in 1..n : FrameStays(i)
  BY <1>4, <1>6, <1>8 DEF FrameStays
<1> QED
  BY <1>2, <1>4, <1>7, <1>9, CompleteStays

\* An aggregator that raises is none that discovery answers for.
LEMMA CompletePop ==
    ASSUME RegistryTypeOK, WalkInv, SaysInv, ShapeInv, ReadInv, ReadFails, Depth # 0,
           NEW P, NEW Q, NEW S, Answers(P, Q, S), Complete(P, Q, S)
    PROVE  Complete(P, Q, S)'
<1>1. PICK m \in Nat : m = Len(stack)
  BY PopDoes
<1>2. m > 1 /\ m - 1 \in Nat
  BY <1>1, PopDoes
<1>3. PICK n \in Nat : n = m - 1
  BY <1>2
<1>4. /\ DOMAIN stack = 1..m /\ DOMAIN stack' = 1..n
      /\ \A i \in 1..n : stack'[i] = stack[i]
      /\ Top = stack[m] /\ Top \in FrameType /\ Walking
      /\ status' = status
  BY <1>1, <1>3, PopDoes, TopFrame DEF ReadFails
<1>5. UNCHANGED <<own, child, origin, settings, result>>
  BY WalkFixed DEF Walk, ReadFails
<1>6. /\ n \in 1..n /\ n + 1 = m /\ n \in 1..m /\ m \in 1..m
      /\ \A i \in 1..n : i \in 1..m /\ (i # n => i + 1 \in 1..n)
      /\ \A i \in 1..n : \A j \in 1..i : j \in 1..n
      /\ \A i \in 1..m : i = m \/ i \in 1..n
  BY <1>2, <1>3
<1>7. Top.unread # <<>> /\ Raises(Top.dir, Head(Top.unread), Top.base)
  BY DEF ReadFails
<1>8. Head(Top.unread) \in Kits
  BY <1>4, <1>7, FrameFields, HeadTailProperties
<1>9. ~Top.parted /\ Top.projects = {}
  BY <1>4, <1>6, <1>7 DEF ShapeInv, ShapeOf
<1>10. Reported \subseteq Reported'
  <2>1. \A i \in 1..m : \A p \in stack[i].projects : i \in 1..n
    BY <1>4, <1>6, <1>9
  <2> QED
    BY <1>4, <1>5, <2>1, ReportedGrows DEF Walking
<1>11. \A i \in 1..n : i # n => FrameStays(i)
  BY <1>4, <1>6 DEF FrameStays
<1>12. ASSUME NEW ks, NEW ds, Road(ks, ds, P, Q, S) PROVE AtFrame(ks, ds, n, P, Q, S)'
  <2>1. AtFrame(ks, ds, n, P, Q, S)
    BY <1>4, <1>6, <1>12 DEF Complete
  <2>2. /\ Told(ks, ds, P, Q, S) => Told(ks, ds, P, Q, S)'
        /\ Tended(ks, ds, P, Q, S) => Tended(ks, ds, P, Q, S)'
    BY <1>5, <1>10, TendedStays
  <2>3. Through(ks, ds, n)' <=> Through(ks, ds, n)
    BY <1>4, <1>6, ThroughStays
  <2>4. ASSUME Through(ks, ds, n), Len(ks) >= n, ks[n] = stack[m].name[n]
        PROVE  Tended(ks, ds, P, Q, S)
    <3>1. Through(ks, ds, m)
      BY <1>4, <1>6, <1>12, <2>4, ThroughNext
    <3>2. Len(ks) \in Nat /\ Len(ds) = Len(ks) + 1
      BY <1>12 DEF Road
    <3>3. RightBase(Top) => Top.dir \notin S
      <4>1. RightBase(Top) => RaisesAt(Top.dir, Head(Top.unread))
        BY <1>7 DEF RaisesAt, RightBase
      <4> QED
        BY <1>8, <4>1, AnswersSound
    <3>4. CASE Len(ks) = m - 1
      <4>1. /\ \A j \in 1..Len(ks) : ds[j] # ds[Len(ds)]
            /\ ds[Len(ds)] = Top.dir
        BY <1>4, <1>6, <1>12, <3>1, <3>4, EndsHere
      <4>2. FoundAt(ks, ds, Q) => RightBase(Top)
        BY <1>4, <1>6, <1>12, <3>1, RoadBase
      <4> QED
        BY <3>3, <4>1, <4>2 DEF Tended, Told
    <3>5. CASE Len(ks) # m - 1
      <4>1. Len(ks) >= m /\ m \in 1..Len(ks)
        BY <1>2, <1>3, <2>4, <3>2, <3>5
      <4>2. RightBase(Top)
        BY <1>4, <1>6, <1>12, <3>1, <4>1, RoadBase
      <4>3. ds[m] = Top.dir
        BY <1>4, <1>6, <3>1 DEF Through
      <4>4. ds[m] \in S
        BY <1>12, <4>1 DEF Road
      <4> QED
        BY <3>3, <4>2, <4>3, <4>4
    <3> QED
      BY <3>4, <3>5
  <2> QED
    BY <1>4, <1>6, <2>1, <2>2, <2>3, <2>4 DEF AtFrame
<1> QED
  BY <1>4, <1>5, <1>10, <1>11, <1>12, CompleteStays

\* A kit that discovery answers for was loaded by the frame that has read all.
LEMMA AnswersLoaded ==
    ASSUME RegistryTypeOK, WalkInv, SaysInv, ReadInv, NEW P, NEW Q, NEW S, Answers(P, Q, S),
           NEW f \in Range(stack), RightBase(f), f.unread = <<>>,
           NEW k \in Kits, <<f.dir, k>> \in P
    PROVE  /\ KitAt(f.dir, k) \in LoadedOf(f) /\ KitAt(f.dir, k).kit = k
           /\ child[f.dir][k] # None => k \in NestedOf(f)
           /\ child[f.dir][k] = None =>
                 KitAt(f.dir, k) \in FlatOf(f) /\ IsOf(KitAt(f.dir, k), f.dir, k)
<1> DEFINE d == f.dir
           kit == KitAt(d, k)
<1>1. d \in Dirs /\ ReadOK(f)
  BY FrameFields DEF Range, WalkInv, StackOK, ReadInv
<1>2. <<d, k>> \in LoadingNow /\ <<d, k>> \notin Moving
  BY DEF Answers
<1>3. /\ Readable(file[d][k]) /\ ~RaisesAt(d, k) /\ ~kit.pointer /\ ~kit.virtual
  BY <1>1, <1>2, LoadingIs
<1>4. kit \in f.kits
  BY <1>1, <1>2, <1>3 DEF ReadOK, PassedOK
<1>5. kit.kit = k
  BY DEF KitAt, Merged
<1>6. ~kit.virtual /\ child[d][k] = None => IsOf(kit, d, k)
  BY <1>1, <1>3, MergedTells DEF RaisesAt, KitAt
<1> HIDE DEF kit
<1>7. kit \in LoadedOf(f)
  BY <1>3, <1>4 DEF LoadedOf
<1>8. \A x : Inside(d, x, f.base) = child[d][x]
  BY DEF Inside, RightBase
<1>9. child[d][k] # None => k \in NestedOf(f)
  BY <1>5, <1>7, <1>8 DEF NestedOf
<1>10. child[d][k] = None => k \notin NestedOf(f)
  BY <1>8 DEF NestedOf
<1>11. child[d][k] = None => kit \in FlatOf(f)
  BY <1>5, <1>7, <1>10 DEF FlatOf
<1> QED
  BY <1>3, <1>5, <1>6, <1>7, <1>9, <1>11 DEF kit

\* Parting the kits finds the flat tools and has the aggregators to do.
LEMMA CompletePartition ==
    ASSUME RegistryTypeOK, WalkInv, SaysInv, ShapeInv, ReadInv, Partition,
           NEW P, NEW Q, NEW S, Answers(P, Q, S), Complete(P, Q, S)
    PROVE  Complete(P, Q, S)'
<1>1. /\ TopChanges /\ ~Top.parted /\ Top.unread = <<>>
      /\ SamePlace(stack'[Len(stack)], Top)
      /\ stack'[Len(stack)].parted = TRUE /\ stack'[Len(stack)].todo = NestedOf(Top)
      /\ stack'[Len(stack)].projects = PartsOf(Top, Depth)
  BY PartitionDoes
<1>2. UNCHANGED <<own, child, origin, settings, status>> /\ Walking
  BY WalkFixed DEF Walk, Partition
<1>3. PICK n \in Nat \ {0} : n = Len(stack)
  BY <1>1 DEF TopChanges
<1>4. /\ DOMAIN stack = 1..n /\ DOMAIN stack' = 1..n
      /\ \A i \in 1..n - 1 : stack'[i] = stack[i]
      /\ Top = stack[n] /\ Top \in FrameType /\ Top \in Range(stack)
      /\ stack'[n].dir = stack[n].dir /\ stack'[n].name = stack[n].name
      /\ stack'[n].parted = TRUE /\ stack'[n].todo = NestedOf(Top)
      /\ stack'[n].projects = PartsOf(Top, Depth)
  BY <1>1, <1>3 DEF TopChanges, SamePlace, Range
<1>5. /\ \A i \in 1..n : i = n \/ (i \in 1..n - 1 /\ i + 1 \in 1..n)
      /\ \A i \in 1..n : \A j \in 1..i : j \in 1..n
      /\ n \in 1..n /\ n + 1 \notin 1..n
  BY <1>3
<1>6. \A i \in 1..n : stack'[i].dir = stack[i].dir /\ stack'[i].name = stack[i].name
  BY <1>4, <1>5
<1>7. Top.projects = {}
  BY <1>1, <1>4 DEF ShapeInv, ShapeOf, Range
<1>8. Reported \subseteq Reported'
  <2>1. \A i \in 1..n : \A p \in stack[i].projects : i \in 1..n - 1
    BY <1>4, <1>5, <1>7
  <2>2. \A i \in 1..n : \A p \in stack[i].projects :
          \E j \in 1..n : \E q \in stack'[j].projects : q.name = p.name
    BY <1>4, <2>1
  <2> QED
    BY <1>2, <1>4, <2>2, ReportedGrows DEF Walking
<1>9. \A i \in 1..n : i # n => FrameStays(i)
  BY <1>4, <1>5, <1>6 DEF FrameStays
<1>10. ASSUME NEW ks, NEW ds, Road(ks, ds, P, Q, S), Through(ks, ds, n)
       PROVE  /\ Len(ks) = n - 1 => Told(ks, ds, P, Q, S)'
              /\ Len(ks) >= n => ks[n] \in NestedOf(Top)
  <2>0. /\ ks \in Seq(Kits) /\ ds \in Seq(Dirs) /\ Len(ks) \in Nat /\ Len(ds) = Len(ks) + 1
    BY <1>10 DEF Road
  <2>1. Len(ks) >= n \/ FoundAt(ks, ds, Q) => RightBase(Top)
    BY <1>4, <1>5, <1>10, RoadBase
  <2>2. ds[n] = Top.dir
    BY <1>4, <1>5, <1>10 DEF Through
  <2>3. ASSUME Len(ks) >= n PROVE ks[n] \in NestedOf(Top)
    <3>1. n \in 1..Len(ks) /\ n + 1 \in 1..Len(ds)
      BY <2>0, <2>3
    <3>2. <<ds[n], ks[n]>> \in P /\ child[ds[n]][ks[n]] = ds[n + 1]
      BY <1>10, <3>1 DEF Road
    <3>3. ks[n] \in Kits /\ ds[n + 1] \in Dirs
      BY <2>0, <3>1
    <3> QED
      BY <1>1, <1>4, <2>1, <2>2, <2>3, <3>2, <3>3, AnswersLoaded, DiscoveryAssumption
  <2>4. ASSUME Len(ks) = n - 1, FoundAt(ks, ds, Q), NEW ref \in FlatTools(Top.dir, P)
        PROVE  ks \o ref \in Reported'
    <3>1. RightBase(Top)
      BY <2>1, <2>4
    <3>2. ASSUME NEW k \in Kits, Flat(Top.dir, P, k)
          PROVE  \E kit \in FlatOf(Top) : kit.kit = k
      BY <1>1, <1>4, <3>1, <3>2, AnswersLoaded DEF Flat
    <3>3. \A kit \in FlatOf(Top) : child[Top.dir][kit.kit] = None => IsOf(kit, Top.dir, kit.kit)
      <4>1. ReadOK(Top)
        BY <1>4, <3>1 DEF ReadInv
      <4>2. \A kit \in FlatOf(Top) : kit \in Top.kits /\ ~kit.virtual /\ ~kit.pointer
        BY DEF FlatOf, LoadedOf
      <4> QED
        BY <4>1, <4>2 DEF ReadOK, KitOK
    <3>4. ref \in Discovered(Top.dir, Top.base, FlatOf(Top))
      <4>1. /\ \E k \in Kits : Flat(Top.dir, P, k) /\ ref \in ToolsOf(Top.dir, k)
            /\ \/ ref \in OnDisk[Top.dir]
               \/ \E k \in Kits : /\ Flat(Top.dir, P, k) /\ Based(Top.dir, k)
                                  /\ ref \in InKit[Top.dir][k]
        BY <2>4, FlatToolsAre
      <4>2. \E kit \in FlatOf(Top) : ref \in ToolsOf(Top.dir, kit.kit)
        BY <3>2, <4>1
      <4>3. \/ ref \in OnDisk[Top.dir]
            \/ \E kit \in FlatOf(Top) : /\ Based(Top.dir, kit.kit)
                                        /\ ref \in InKit[Top.dir][kit.kit]
        BY <3>2, <4>1
      <4> QED
        BY <1>4, <3>1, <3>3, <4>2, <4>3, DiscoveredAre
    <3>5. Project(Top, ref, Active(Top, Depth)) \in PartsOf(Top, Depth)
      BY <3>4, Zenon DEF PartsOf
    <3>6. Project(Top, ref, Active(Top, Depth)).name = Top.name \o ref
      BY DEF Project
    <3>7. Top.name \in Seq(Kits) /\ Len(Top.name) = n - 1
      BY <1>4, <1>5, FrameFields DEF ShapeInv, NameOf
    <3>8. \A j \in 1..n - 1 : ks[j] = Top.name[j]
      BY <1>4, <1>5, <1>10 DEF ShapeInv, NameOf, Through
    <3>9. ks = Top.name
      BY <2>0, <2>4, <3>7, <3>8, SeqEqual
    <3>10. Top.name \o ref \in ProjectsOf'
      <4>1. PICK p : p \in PartsOf(Top, Depth) /\ p.name = Top.name \o ref
        BY <3>5, <3>6
      <4>2. stack'[n] \in Range(stack)' /\ p \in stack'[n].projects
        BY <1>4, <1>5, <4>1 DEF Range
      <4> QED
        BY <4>1, <4>2 DEF ProjectsOf
    <3> QED
      BY <3>9, <3>10 DEF Reported
  <2>5. ASSUME Len(ks) = n - 1 PROVE Told(ks, ds, P, Q, S)'
    <3>1. Len(ds) = n
      BY <1>3, <2>0, <2>5
    <3>2. \A d : FlatTools(d, P)' = FlatTools(d, P)
      BY <1>2 DEF FlatTools
    <3> QED
      BY <2>2, <2>4, <2>5, <3>1, <3>2 DEF Told
  <2> QED
    BY <2>3, <2>5
<1>11. ASSUME NEW ks, NEW ds, Road(ks, ds, P, Q, S) PROVE AtFrame(ks, ds, n, P, Q, S)'
  <2>1. Through(ks, ds, n)' <=> Through(ks, ds, n)
    BY <1>5, <1>6, ThroughStays
  <2> QED
    BY <1>4, <1>10, <1>11, <2>1 DEF AtFrame
<1>12. \A i \in 1..n : FrameStays(i) \/
          \A ks, ds : Road(ks, ds, P, Q, S) => AtFrame(ks, ds, i, P, Q, S)'
  BY <1>9, <1>11
<1> QED
  BY <1>2, <1>4, <1>8, <1>12, CompleteStays

\* Entering an aggregator moves it from what is to do to the frame above.
LEMMA CompleteDescend ==
    ASSUME RegistryTypeOK, WalkInv, ShapeInv, Descend, NEW P, NEW Q, NEW S, Complete(P, Q, S)
    PROVE  Complete(P, Q, S)'
<1>1. PICK n \in Nat \ {0} : n = Len(stack)
  BY DescendDoes
<1>2. PICK k : k = First(Top.todo)
  OBVIOUS
<1>3. /\ DOMAIN stack = 1..n /\ DOMAIN stack' = 1..n + 1
      /\ \A i \in 1..n - 1 : stack'[i] = stack[i]
      /\ Top = stack[n] /\ Top \in FrameType /\ Top.parted /\ k \in Top.todo
      /\ SamePlace(stack'[n], Top) /\ stack'[n].parted = Top.parted
      /\ stack'[n].todo = Top.todo \ {k} /\ stack'[n].projects = Top.projects
      /\ stack'[n + 1] = Frame(Embedded, Append(Top.name, k), EmbeddedBase)
  BY <1>1, <1>2, DescendDoes
<1>4. UNCHANGED <<own, child, origin, settings, status, result>>
  BY WalkFixed DEF Walk, Descend
<1>5. stack'[n].dir = stack[n].dir /\ stack'[n].name = stack[n].name
  BY <1>3 DEF SamePlace
<1>6. /\ \A i \in 1..n : i = n \/ (i \in 1..n - 1 /\ i + 1 \in 1..n)
      /\ \A i \in 1..n : \A j \in 1..i : j \in 1..n
      /\ n \in 1..n /\ n + 1 \in 1..n + 1 /\ n + 1 \notin 1..n
      /\ \A i \in 1..n + 1 : i \in 1..n \/ i = n + 1
      /\ \A i \in 1..n : i \in 1..n + 1
  BY <1>1
<1>7. \A i \in 1..n : /\ stack'[i].dir = stack[i].dir /\ stack'[i].name = stack[i].name
                      /\ stack'[i].projects = stack[i].projects
  BY <1>3, <1>5, <1>6
<1>8. Reported \subseteq Reported'
  BY <1>3, <1>4, <1>6, <1>7, ReportedGrows
<1>9. \A i \in 1..n : i # n => FrameStays(i)
  BY <1>3, <1>6, <1>7 DEF FrameStays
<1>10. ~stack'[n + 1].parted
  BY <1>3 DEF Frame
<1>11. stack'[n + 1].name[n] = k
  <2>1. Top.name \in Seq(Kits) /\ k \in Kits /\ Len(Top.name) = n - 1
    BY <1>3, <1>6, FrameFields DEF ShapeInv, NameOf
  <2>2. Append(Top.name, k)[Len(Top.name) + 1] = k
    BY <2>1, AppendProperties
  <2>3. (n - 1) + 1 = n
    BY <1>1
  <2>4. stack'[n + 1].name = Append(Top.name, k)
    BY <1>3 DEF Frame
  <2> QED
    BY <2>1, <2>2, <2>3, <2>4
<1>12. ASSUME NEW ks, NEW ds, Road(ks, ds, P, Q, S) PROVE AtFrame(ks, ds, n, P, Q, S)'
  <2>1. AtFrame(ks, ds, n, P, Q, S)
    BY <1>3, <1>6, <1>12 DEF Complete
  <2>2. /\ Told(ks, ds, P, Q, S) => Told(ks, ds, P, Q, S)'
        /\ Tended(ks, ds, P, Q, S) => Tended(ks, ds, P, Q, S)'
    BY <1>4, <1>8, TendedStays
  <2>3. Through(ks, ds, n)' <=> Through(ks, ds, n)
    BY <1>6, <1>7, ThroughStays
  <2> QED
    BY <1>3, <1>6, <1>11, <2>1, <2>2, <2>3 DEF AtFrame
<1>13. \A i \in 1..n + 1 : FrameStays(i) \/
          \A ks, ds : Road(ks, ds, P, Q, S) => AtFrame(ks, ds, i, P, Q, S)'
  BY <1>6, <1>9, <1>10, <1>12, NotParted
<1> QED
  BY <1>3, <1>4, <1>8, <1>13, CompleteStays

\* Returning takes over all that the aggregator's roads were owed.
LEMMA CompleteReturn ==
    ASSUME RegistryTypeOK, WalkInv, ShapeInv, Return, NEW P, NEW Q, NEW S, Complete(P, Q, S)
    PROVE  Complete(P, Q, S)'
<1> DEFINE active == Top.name[Len(Top.name)] \in Active(stack[Len(stack) - 1], Depth - 1)
<1>1. PICK n \in Nat \ {0} : n = Len(stack) - 1
  BY ReturnDoes
<1>2. /\ DOMAIN stack = 1..n + 1 /\ DOMAIN stack' = 1..n
      /\ \A i \in 1..n - 1 : stack'[i] = stack[i]
      /\ Top = stack[n + 1] /\ Top \in FrameType /\ Top.parted /\ Top.todo = {}
      /\ SamePlace(stack'[n], stack[n]) /\ stack'[n].parted = stack[n].parted
      /\ stack'[n].todo = stack[n].todo
      /\ stack'[n].projects = stack[n].projects
                                \cup {[p EXCEPT !.active = active] : p \in Top.projects}
  BY <1>1, ReturnDoes
<1> HIDE DEF active
<1>3. UNCHANGED <<own, child, origin, settings, status>> /\ Walking
  BY WalkFixed DEF Walk, Return, Done
<1>4. stack'[n].dir = stack[n].dir /\ stack'[n].name = stack[n].name
  BY <1>2 DEF SamePlace
<1>5. /\ \A i \in 1..n : i = n \/ (i \in 1..n - 1 /\ i + 1 \in 1..n)
      /\ \A i \in 1..n : \A j \in 1..i : j \in 1..n
      /\ n \in 1..n /\ n \in 1..n + 1 /\ n + 1 \in 1..n + 1 /\ n + 1 \notin 1..n
      /\ (n + 1) + 1 \notin 1..n + 1
      /\ \A i \in 1..n + 1 : i \in 1..n - 1 \/ i = n \/ i = n + 1
      /\ \A i \in 1..n - 1 : i \in 1..n
      /\ \A i \in 1..n : i \in 1..n + 1
  BY <1>1
<1>6. \A i \in 1..n : stack'[i].dir = stack[i].dir /\ stack'[i].name = stack[i].name
  BY <1>2, <1>4, <1>5
<1>7. \A p \in Top.projects : [p EXCEPT !.active = active].name = p.name
  BY <1>2, FrameFields DEF ProjectType
<1>8. Reported \subseteq Reported'
  <2>1. ASSUME NEW i \in 1..n + 1, NEW p \in stack[i].projects
        PROVE  \E j \in 1..n : \E q \in stack'[j].projects : q.name = p.name
    <3>1. CASE i \in 1..n - 1
      BY <1>2, <1>5, <2>1, <3>1
    <3>2. CASE i = n
      BY <1>2, <1>5, <2>1, <3>2
    <3>3. CASE i = n + 1
      <4>1. [p EXCEPT !.active = active] \in stack'[n].projects
        <5>1. \A q \in Top.projects : [q EXCEPT !.active = active] \in stack'[n].projects
          BY <1>2, Zenon
        <5> QED
          BY <1>2, <2>1, <3>3, <5>1
      <4> QED
        BY <1>2, <1>5, <1>7, <2>1, <3>3, <4>1
    <3> QED
      BY <1>5, <3>1, <3>2, <3>3
  <2> QED
    BY <1>2, <1>3, <2>1, ReportedGrows DEF Walking
<1>9. \A i \in 1..n : i # n => FrameStays(i)
  BY <1>2, <1>5, <1>6 DEF FrameStays
<1>10. ASSUME NEW ks, NEW ds, Road(ks, ds, P, Q, S) PROVE AtFrame(ks, ds, n, P, Q, S)'
  <2>1. AtFrame(ks, ds, n, P, Q, S) /\ AtFrame(ks, ds, n + 1, P, Q, S)
    BY <1>2, <1>5, <1>10 DEF Complete
  <2>2. /\ Told(ks, ds, P, Q, S) => Told(ks, ds, P, Q, S)'
        /\ Tended(ks, ds, P, Q, S) => Tended(ks, ds, P, Q, S)'
    BY <1>3, <1>8, TendedStays
  <2>3. Through(ks, ds, n)' <=> Through(ks, ds, n)
    BY <1>5, <1>6, ThroughStays
  <2>4. ASSUME Through(ks, ds, n), Len(ks) >= n, ks[n] = stack[n + 1].name[n]
        PROVE  Tended(ks, ds, P, Q, S)
    <3>1. Through(ks, ds, n + 1)
      BY <1>2, <1>5, <1>10, <2>4, ThroughNext
    <3>2. Len(ks) \in Nat
      BY <1>10 DEF Road
    <3>3. CASE Len(ks) = (n + 1) - 1
      <4>1. \A j \in 1..Len(ks) : ds[j] # ds[Len(ds)]
        BY <1>2, <1>5, <1>10, <3>1, <3>3, EndsHere
      <4> QED
        BY <1>2, <2>1, <3>1, <3>3, <4>1 DEF Tended, AtFrame
    <3>4. CASE Len(ks) # (n + 1) - 1
      <4>1. Len(ks) >= n + 1
        BY <1>1, <2>4, <3>2, <3>4
      <4> QED
        BY <1>2, <1>5, <2>1, <3>1, <4>1 DEF AtFrame
    <3> QED
      BY <3>3, <3>4
  <2> QED
    BY <1>2, <1>5, <2>1, <2>2, <2>3, <2>4 DEF AtFrame
<1>11. \A i \in 1..n : FrameStays(i) \/
          \A ks, ds : Road(ks, ds, P, Q, S) => AtFrame(ks, ds, i, P, Q, S)'
  BY <1>9, <1>10
<1> QED
  BY <1>2, <1>3, <1>8, <1>11, CompleteStays

\* When the root is done every road was tended to.
LEMMA CompleteFinish ==
    ASSUME RegistryTypeOK, WalkInv, ShapeInv, Finish, NEW P, NEW Q, NEW S, Complete(P, Q, S)
    PROVE  Complete(P, Q, S)'
<1>1. /\ Walking /\ Top.parted /\ Top.todo = {} /\ Len(stack) - 1 = 0
      /\ stack' = <<>> /\ status' = "done" /\ settings' = settings
      /\ result'.projects = {p \in Top.projects : p.name \notin settings.shadowed}
  BY DEF Finish, Done, Depth
<1>2. UNCHANGED <<own, child, origin>>
  BY <1>1, WalkFixed DEF Walk
<1>3. Len(stack) = 1 /\ DOMAIN stack = 1..1 /\ Top = stack[1]
  BY <1>1, TopFrame
<1>4. 1 \in 1..1 /\ \A i \in 1..1 : i = 1
  OBVIOUS
<1>5. Reported \subseteq Reported'
  <2>1. ASSUME NEW x \in ProjectsOf PROVE x \in Reported'
    <3>1. PICK p \in Top.projects : x = p.name
      BY <1>3, <1>4 DEF ProjectsOf, Range
    <3> QED
      BY <1>1, <3>1 DEF Reported, Results
  <2>2. Results = {} /\ status # "done"
    BY <1>1 DEF Results, Walking
  <2> QED
    BY <2>1, <2>2 DEF Reported
<1> SUFFICES ASSUME NEW ks, NEW ds, Road(ks, ds, P, Q, S) PROVE Tended(ks, ds, P, Q, S)
  BY <1>1, <1>2, <1>5, TendedStays DEF Complete
<1>6. AtFrame(ks, ds, 1, P, Q, S)
  BY <1>3, <1>4 DEF Complete
<1>7. Len(ks) \in Nat /\ ds[1] = Root
  BY DEF Road
<1>8. Through(ks, ds, 1)
  <2>1. stack[1].dir = Root /\ 1..(1 - 1) = {} /\ Len(ks) >= 1 - 1
    BY <1>3, <1>4, <1>7 DEF ShapeInv
  <2> QED
    BY <1>4, <1>7, <2>1 DEF Through
<1>9. CASE Len(ks) = 1 - 1
  BY <1>1, <1>3, <1>4, <1>6, <1>8, <1>9, EndsHere DEF Tended, AtFrame
<1>10. CASE Len(ks) # 1 - 1
  <2>1. Len(ks) >= 1 /\ 1 + 1 \notin 1..1
    BY <1>7, <1>10
  <2> QED
    BY <1>1, <1>3, <1>6, <1>8, <2>1 DEF AtFrame
<1> QED
  BY <1>9, <1>10

\* Discovery answers for less while others write.
LEMMA AnswersBefore ==
    ASSUME RegistryTypeOK, RegistryTypeOK', WalkInv, Other, NEW P, NEW Q, NEW S,
           Answers(P, Q, S)'
    PROVE  Answers(P, Q, S)
<1>1. P \subseteq LoadingNow \ Moving /\ Q \subseteq FoundNow \ Moving /\ S \subseteq Dirs
  BY LoadingShrinks DEF Answers
<1>2. UNCHANGED <<own, child, origin>>
  BY Fixed DEF Next
<1>3. \A d : NeverRaises(d)' <=> NeverRaises(d)
  BY <1>2 DEF NeverRaises, IsBroken
<1>4. ASSUME touched' = {} PROVE touched = {} /\ SoundNow' = SoundNow
  <2>1. UNCHANGED <<file, own, child, origin, touched>> /\ touched = {}
    BY <1>4, QuietOther
  <2> QED
    BY <2>1, WalkSees
<1> QED
  BY <1>1, <1>3, <1>4 DEF Answers

\* Discovery answers for the same.
LEMMA AnswersSame ==
    ASSUME UNCHANGED <<file, own, child, origin, touched>>, NEW P, NEW Q, NEW S
    PROVE  Answers(P, Q, S)' <=> Answers(P, Q, S)
<1>1. \A d : NeverRaises(d)' <=> NeverRaises(d)
  BY DEF NeverRaises, IsBroken
<1> QED
  BY <1>1, WalkSees DEF Answers

\* Nothing changes for a road while neither the stack nor what is reported does.
LEMMA CompleteSame ==
    ASSUME UNCHANGED <<own, child, origin, settings, stack, status, result>>,
           NEW P, NEW Q, NEW S, Complete(P, Q, S)
    PROVE  Complete(P, Q, S)'
<1>1. Reported' = Reported
  BY DEF Reported, ProjectsOf, Results
<1>2. \A d : FlatTools(d, P)' = FlatTools(d, P)
  BY DEF FlatTools
<1>3. \A ks, ds : /\ Road(ks, ds, P, Q, S)' <=> Road(ks, ds, P, Q, S)
                  /\ Told(ks, ds, P, Q, S)' <=> Told(ks, ds, P, Q, S)
                  /\ \A i : Through(ks, ds, i)' <=> Through(ks, ds, i)
  BY <1>1, <1>2 DEF Road, Told, Through
<1> QED
  BY <1>3 DEF Complete, AtFrame, Tended

\* At the start nothing is walked.
LEMMA CompleteInit == Init => CompleteInv
BY DEF Init, CompleteInv, Complete

\* So every step keeps discovery complete.
LEMMA CompleteNextInv ==
    ASSUME RegistryTypeOK, RegistryTypeOK', WalkInv, SaysInv, ShapeInv, ReadInv,
           CompleteInv, [Next]_vars
    PROVE  CompleteInv'
<1> SUFFICES ASSUME NEW P, NEW Q, NEW S, Answers(P, Q, S)' PROVE Complete(P, Q, S)'
  BY DEF CompleteInv
<1>1. CASE Begin
  <2>1. stack' = <<Frame(Root, <<>>, RealBase[Root])>> /\ status' = "walking"
    BY <1>1 DEF Begin
  <2>2. \A i \in DOMAIN stack' : ~stack'[i].parted
    BY <2>1 DEF Frame
  <2> QED
    BY <2>1, <2>2, NotParted DEF Complete
<1>2. CASE Walk
  <2>1. Answers(P, Q, S) /\ Complete(P, Q, S)
    BY <1>2, WalkFixed, AnswersSame DEF CompleteInv
  <2>2. CASE Cycle \/ (ReadFails /\ Depth = 0)
    BY <2>2 DEF Cycle, ReadFails, Complete
  <2> QED
    BY <1>2, <2>1, <2>2, CompleteReadKit, CompletePop, CompletePartition, CompleteDescend,
       CompleteReturn, CompleteFinish DEF Walk
<1>3. CASE Other
  <2>1. Complete(P, Q, S)
    BY <1>3, AnswersBefore DEF CompleteInv
  <2> QED
    BY <1>3, <2>1, Fixed, CompleteSame DEF Other
<1>4. CASE UNCHANGED vars
  <2>1. UNCHANGED <<file, own, child, origin, touched, settings, stack, status, result>>
    BY <1>4 DEF vars, walkVars, registryVars, histories
  <2>2. Complete(P, Q, S)
    BY <2>1, AnswersSame DEF CompleteInv
  <2> QED
    BY <2>1, <2>2, CompleteSame
<1> QED
  BY <1>1, <1>2, <1>3, <1>4 DEF Next

-----------------------------------------------------------------------------
(* What discovery finds *)

\* All that the walk keeps.
FindInv == /\ RegistryTypeOK /\ WalkInv /\ SaysInv /\ ShapeInv /\ ReadInv
           /\ FoundPossible /\ FoundHere /\ CompleteInv

\* The invariant of the walk, from which the theorems about its result follow.
LEMMA FindInvariant == Spec => []FindInv
<1>1. Init => ShapeInv /\ ReadInv /\ FoundPossible /\ FoundHere /\ CompleteInv
  BY FoundInit, CompleteInit DEF Init, ShapeInv, ReadInv, Range
<1>2. /\ RegistryTypeOK /\ RegistryTypeOK' /\ WalkInv /\ SaysInv /\ ShapeInv /\ ReadInv
      /\ FoundPossible /\ FoundHere /\ CompleteInv /\ [Next]_vars
      => (ShapeInv /\ ReadInv /\ FoundPossible /\ FoundHere /\ CompleteInv)'
  BY ShapeNextInv, ReadNextInv, FoundPossibleNext, FoundHereNext, CompleteNextInv
<1>3. Spec => [](RegistryTypeOK /\ WalkInv /\ SaysInv)
  <2>1. Init => WalkInv
    BY WalkInitInv
  <2>2. RegistryInv /\ WalkInv /\ [Next]_vars => WalkInv'
    BY WalkNextInv DEF RegistryInv
  <2>3. RegistryInv => RegistryTypeOK
    BY DEF RegistryInv
  <2> QED
    BY <2>1, <2>2, <2>3, RegistryInvariant, SaysInvariant, PTL DEF Spec
<1> QED
  BY <1>1, <1>2, <1>3, PTL DEF Spec, FindInv

\* When discovery is done every name it answers for is in its result, or shadowed, ...
LEMMA NamesFound ==
    ASSUME WalkInv, CompleteInv, status = "done", NEW P, NEW Q, NEW S, Answers(P, Q, S),
           NEW n \in NamesOver(P, Q, S), n \notin settings.shadowed
    PROVE  n \in {p.name : p \in result.projects}
<1>1. PICK c \in Chains(P, Q, S) : Grows(c, S) /\ \E ref \in FlatTools(Here(c), P) :
                                                     n = c.kits \o ref
  BY Zenon DEF NamesOver
<1>2. Road(c.kits, c.dirs, P, Q, S) /\ FoundAt(c.kits, c.dirs, Q)
  BY <1>1, ChainIsRoad DEF IsRoad, Grows
<1>3. Told(c.kits, c.dirs, P, Q, S)
  BY <1>2 DEF CompleteInv, Complete, Tended
<1>4. n \in Reported
  BY <1>1, <1>2, <1>3 DEF Told, Here, Grows
<1>5. ProjectsOf = {}
  BY DEF WalkInv, ProjectsOf, Range
<1> QED
  BY <1>4, <1>5 DEF Reported, Results

\* ... and no chain that it answers for leads back to where it was.
LEMMA NoneRepeats ==
    ASSUME WalkInv, CompleteInv, status = "done", NEW P, NEW Q, NEW S, Answers(P, Q, S),
           NEW c \in Chains(P, Q, S)
    PROVE  ~Repeats(c)
<1>1. Road(c.kits, c.dirs, P, Q, S)
  BY ChainIsRoad DEF IsRoad
<1>2. \A j \in 1..Len(c.kits) : c.dirs[j] # c.dirs[Len(c.dirs)]
  BY <1>1 DEF CompleteInv, Complete, Tended
<1>3. Len(c.dirs) - 1 = Len(c.kits)
  BY <1>1 DEF Road
<1> QED
  BY <1>2, <1>3 DEF Repeats, Here

\* discover(), whatever the other processes do to the registrations while it runs: all tools
\* whose registrations nobody touched are found, and none that no registration ever led to.
THEOREM FindsUntouchedHolds == Spec => []FindsUntouched
<1>1. FindInv => FindsUntouched
  <2> SUFFICES ASSUME FindInv, status = "done"
               PROVE  /\ NamesOver(LoadingNow \ Moving, FoundNow \ Moving,
                                   {d \in Dirs : NeverRaises(d)}) \ settings.shadowed
                           \subseteq {p.name : p \in result.projects}
                      /\ {p.name : p \in result.projects}
                           \subseteq NamesOver(Possible, Possible, Dirs)
    BY Zenon DEF FindsUntouched, Possible
  <2>1. PICK P, Q, S : /\ P = LoadingNow \ Moving /\ Q = FoundNow \ Moving
                       /\ S = {d \in Dirs : NeverRaises(d)}
    OBVIOUS
  <2>2. Answers(P, Q, S)
    BY <2>1 DEF Answers
  <2>3. NamesOver(P, Q, S) \ settings.shadowed \subseteq {p.name : p \in result.projects}
    BY <2>2, NamesFound DEF FindInv
  <2>4. PICK R : R = Possible
    OBVIOUS
  <2>5. ASSUME NEW n \in {p.name : p \in result.projects} PROVE n \in NamesOver(R, R, Dirs)
    <3>1. n \in Results
      BY <2>5 DEF Results
    <3>2. FoundBy(n, R, R, Dirs)
      BY <2>4, <3>1 DEF FindInv, FoundPossible, AllFoundBy
    <3> QED
      BY <3>2, FoundIsName
  <2> QED
    BY <2>1, <2>3, <2>4, <2>5
<1> QED
  BY <1>1, FindInvariant, PTL

-----------------------------------------------------------------------------
(* How discovery ends while nobody writes *)

\* Some chain is back where it was.
CyclicOver(P, Q, S) == \E c \in Chains(P, Q, S) : Repeats(c)
\* How a walk that nobody disturbs ends.
EndsInv == touched = {} =>
    /\ status = "failed" => Root \notin SoundNow
    /\ status = "cycle" => \A P, Q, S : P = LoadingNow /\ Q = FoundNow /\ S = SoundNow
                                           => CyclicOver(P, Q, S)
    /\ status = "done" => Root \in SoundNow

\* It fails where the root raises, ...
LEMMA FailsEnd ==
    ASSUME WalkInv, ShapeInv, ReadFails, Depth = 0
    PROVE  Root \notin SoundNow
<1>1. /\ Len(stack) \in Nat /\ Len(stack) > 0 /\ DOMAIN stack = 1..Len(stack)
      /\ Top = stack[Len(stack)] /\ Top \in FrameType
  BY TopFrame DEF ReadFails
<1>2. Len(stack) = 1
  BY <1>1 DEF Depth
<1>3. Top = stack[1] /\ stack # <<>>
  BY <1>1, <1>2
<1>4. Top.dir = Root /\ RightBase(Top)
  BY <1>3 DEF ShapeInv
<1>5. Top.unread # <<>> /\ Raises(Top.dir, Head(Top.unread), Top.base)
  BY DEF ReadFails
<1>6. Head(Top.unread) \in Kits
  BY <1>1, <1>5, FrameFields, HeadTailProperties
<1> QED
  BY <1>4, <1>5, <1>6 DEF RightBase, SoundNow

\* ... and is done where it does not.
LEMMA FinishEnd ==
    ASSUME WalkInv, ShapeInv, ReadInv, Finish, touched = {}
    PROVE  Root \in SoundNow
<1>1. /\ Len(stack) \in Nat /\ Len(stack) > 0 /\ DOMAIN stack = 1..Len(stack)
      /\ Top = stack[Len(stack)] /\ Top \in FrameType /\ Top.parted
  BY TopFrame DEF Finish, Done
<1>2. Len(stack) = 1
  BY <1>1 DEF Finish, Depth
<1>3. Top = stack[1] /\ stack # <<>> /\ Top \in Range(stack)
  BY <1>1, <1>2 DEF Range
<1>4. Top.dir = Root /\ RightBase(Top) /\ Top.unread = <<>>
  BY <1>1, <1>2, <1>3 DEF ShapeInv, ShapeOf
<1> QED
  BY <1>3, <1>4, ReadSound

\* A cycle is a chain that leads back to an aggregator it is in.
LEMMA CycleEnd ==
    ASSUME RegistryTypeOK, WalkInv, SaysInv, ShapeInv, ReadInv, Cycle, touched = {},
           NEW P, NEW Q, NEW S, P = LoadingNow, Q = FoundNow, S = SoundNow
    PROVE  CyclicOver(P, Q, S)
<1>1. /\ Len(stack) \in Nat /\ Len(stack) > 0 /\ DOMAIN stack = 1..Len(stack)
      /\ Top = stack[Len(stack)] /\ Top \in FrameType /\ FrameOK(Top) /\ Walking
  BY TopFrame DEF Cycle
<1>2. PICK n \in Nat : n = Len(stack)
  BY <1>1
<1>3. Top.parted /\ Top.todo # {} /\ Top \in Range(stack)
  BY <1>1 DEF Cycle, Range
<1>4. PICK i \in 1..n : stack[i].dir = Embedded
  BY <1>1, <1>2 DEF Cycle, OnStack
<1>5. RightBase(Top) /\ Top.unread = <<>> /\ \A k \in Top.todo : Loads(Top, k)
  BY <1>1, <1>3 DEF ShapeInv, ShapeOf
<1>6. Trail(Top.name, StackDirs, P, Q, S)
  BY <1>1, <1>5, StackHere, StackTrail
<1>7. PICK k : k = First(Top.todo)
  OBVIOUS
<1>8. k \in Top.todo /\ k \in Kits /\ Top.dir \in Dirs
  BY <1>1, <1>3, <1>7, FirstOf, FrameFields
<1>9. child[Top.dir][k] = Embedded /\ child[Top.dir][k] # None
  BY <1>1, <1>7, <1>8 DEF Embedded, FrameOK
<1>10. <<Top.dir, k>> \in P
  <2>1. PICK kit \in LoadedOf(Top) : kit.kit = k
    BY <1>5, <1>8 DEF Loads, LoadedOf
  <2>2. <<Top.dir, k>> \notin Moving
    BY DEF Moving
  <2> QED
    BY <1>3, <1>5, <2>1, <2>2, LoadedPossible
<1>11. PICK c : c = Way(Top.name, StackDirs, Len(Top.name))
  OBVIOUS
<1>12. PICK m \in Nat : m = Len(Top.name) /\ m \in 0..Len(Top.name)
  BY <1>6 DEF Trail
<1>13. Len(StackDirs) = n /\ \A j \in 1..n : StackDirs[j] = stack[j].dir
  BY <1>2 DEF StackDirs
<1>14. m + 1 = n
  BY <1>6, <1>12, <1>13 DEF Trail
<1>15. /\ c.kits \in Seq(Kits) /\ c.dirs \in Seq(Dirs) /\ Len(c.dirs) = n
       /\ \A j \in 1..n : c.dirs[j] = stack[j].dir
       /\ Here(c) = stack[n].dir
  <2>1. c = Way(Top.name, StackDirs, m)
    BY <1>11, <1>12
  <2>2. Top.name \in Seq(Kits) /\ StackDirs \in Seq(Dirs)
    BY <1>6 DEF Trail
  <2>3. /\ SubSeq(Top.name, 1, m) \in Seq(Kits)
        /\ SubSeq(StackDirs, 1, n) \in Seq(Dirs) /\ Len(SubSeq(StackDirs, 1, n)) = n
        /\ \A j \in 1..n : SubSeq(StackDirs, 1, n)[j] = StackDirs[j]
    BY <1>12, <1>13, <2>2, SubSeqProperties
  <2>4. c.kits = SubSeq(Top.name, 1, m) /\ c.dirs = SubSeq(StackDirs, 1, n)
    BY <1>14, <2>1 DEF Way
  <2>5. n \in 1..n
    BY <1>1, <1>2
  <2> QED
    BY <1>13, <2>3, <2>4, <2>5 DEF Here
<1>16. [kits |-> Append(c.kits, k), dirs |-> Append(c.dirs, Embedded),
        found |-> <<Top.dir, k>> \in Q] \in Chains(P, Q, S)
  <2>1. Here(c) = Top.dir
    BY <1>1, <1>2, <1>15
  <2>2. \A x \in Kits : <<Here(c), x>> \in P /\ child[Here(c)][x] # None =>
           [kits |-> Append(c.kits, x), dirs |-> Append(c.dirs, child[Here(c)][x]),
            found |-> <<Here(c), x>> \in Q] \in Chains(P, Q, S)
    BY <1>6, <1>11, TrailIsChain
  <2> QED
    BY <1>8, <1>9, <1>10, <2>1, <2>2
<1>17. PICK w \in Chains(P, Q, S) : w.dirs = Append(c.dirs, Embedded)
  BY <1>16
<1>18. /\ Len(w.dirs) = n + 1 /\ w.dirs[n + 1] = Embedded
       /\ \A j \in 1..n : w.dirs[j] = stack[j].dir
  <2>1. Embedded \in Dirs
    BY <1>8, <1>9 DEF WalkInv
  <2>2. /\ Len(Append(c.dirs, Embedded)) = Len(c.dirs) + 1
        /\ Append(c.dirs, Embedded)[Len(c.dirs) + 1] = Embedded
        /\ \A j \in 1..Len(c.dirs) : Append(c.dirs, Embedded)[j] = c.dirs[j]
    BY <1>15, <2>1, AppendProperties
  <2> QED
    BY <1>15, <1>17, <2>2
<1>19. i \in 1..(Len(w.dirs) - 1)
  BY <1>4, <1>18
<1>20. Repeats(w)
  BY <1>4, <1>18, <1>19 DEF Repeats, Here
<1> QED
  BY <1>17, <1>20 DEF CyclicOver

\* Every step keeps it.
LEMMA EndsNextInv ==
    ASSUME RegistryTypeOK, RegistryTypeOK', WalkInv, SaysInv, ShapeInv, ReadInv, EndsInv,
           [Next]_vars
    PROVE  EndsInv'
<1> SUFFICES ASSUME touched' = {}
             PROVE  /\ status' = "failed" => Root \notin SoundNow'
                    /\ status' = "cycle" => \A P, Q, S :
                          P = LoadingNow' /\ Q = FoundNow' /\ S = SoundNow'
                             => CyclicOver(P, Q, S)'
                    /\ status' = "done" => Root \in SoundNow'
  BY DEF EndsInv
<1>1. CASE Begin
  BY <1>1 DEF Begin
<1>2. child' = child
  BY Fixed
<1>3. \A P, Q, S : CyclicOver(P, Q, S)' <=> CyclicOver(P, Q, S)
  <2>1. \A P, Q, S : Chains(P, Q, S)' = Chains(P, Q, S)
    BY <1>2 DEF Chains, Longer
  <2> QED
    BY <2>1 DEF CyclicOver
<1>4. CASE Walk
  <2>1. /\ LoadingNow' = LoadingNow /\ FoundNow' = FoundNow /\ SoundNow' = SoundNow
        /\ touched = {} /\ status = "walking"
    BY <1>4, WalkFixed, WalkSees DEF Walk, ReadKit, ReadFails, Partition, Descend, Cycle,
       Return, Finish, Done, Walking
  <2>2. CASE ReadFails
    BY <2>1, <2>2, FailsEnd DEF ReadFails
  <2>3. CASE Cycle
    BY <1>3, <2>1, <2>3, CycleEnd DEF Cycle
  <2>4. CASE Finish
    BY <2>1, <2>4, FinishEnd DEF Finish
  <2>5. CASE ReadKit \/ Partition \/ Descend \/ Return
    BY <2>1, <2>5 DEF ReadKit, Partition, Descend, Return
  <2> QED
    BY <1>4, <2>2, <2>3, <2>4, <2>5 DEF Walk
<1>5. CASE UNCHANGED <<file, own, child, origin, touched, status>>
  <2>1. /\ LoadingNow' = LoadingNow /\ FoundNow' = FoundNow /\ SoundNow' = SoundNow
        /\ touched = {} /\ status' = status
    BY <1>5, WalkSees
  <2> QED
    BY <1>3, <2>1 DEF EndsInv
<1>6. CASE Other
  BY <1>5, <1>6, QuietOther DEF Other
<1>7. CASE UNCHANGED vars
  BY <1>5, <1>7 DEF vars, walkVars, registryVars, histories
<1> QED
  BY <1>1, <1>4, <1>6, <1>7 DEF Next

-----------------------------------------------------------------------------
(* What is active while nobody writes *)

\* What the root has found is active as the kit that its name begins with; what another
\* frame has found begins with the kit of the root that leads to it.
ActiveAt(i, p) ==
    IF i = 1 THEN p.active <=> RootActive(p.name[1]) ELSE p.name[1] = stack[i].name[1]
\* A virtual kit of the root is active only if the root's configuration says so.
VirtualAt(i, v) ==
    IF i = 1 THEN v.active => RootActive(v.name[1]) ELSE v.name[1] = stack[i].name[1]
\* What was found is active as the root says.
ActiveInv ==
    touched = {} =>
      /\ \A i \in DOMAIN stack : /\ \A p \in stack[i].projects : ActiveAt(i, p)
                                 /\ \A v \in stack[i].virtuals : VirtualAt(i, v)
      /\ status = "done" =>
           /\ \A p \in result.projects : p.active <=> RootActive(p.name[1])
           /\ \A v \in result.virtuals : v.active => RootActive(v.name[1])
\* What discovery leaves is not shadowed.
ResultOK == status = "done" =>
    \A p \in result.projects : p \in ProjectType /\ p.name \notin settings.shadowed

\* The root says the same while its file and the configuration stay.
LEMMA RootActiveSame ==
    ASSUME UNCHANGED <<file, settings>>
    PROVE  \A k : RootActive(k)' <=> RootActive(k)
BY DEF RootActive

\* The root's active kits, when it has read its registrations.
LEMMA RootKits ==
    ASSUME RegistryTypeOK, WalkInv, ShapeInv, ReadInv, touched = {}, stack # <<>>,
           stack[1].unread = <<>>, NEW k \in Kits
    PROVE  k \in Active(stack[1], 0) <=> RootActive(k)
<1>1. 1 \in DOMAIN stack /\ stack[1] \in Range(stack) /\ stack[1] \in FrameType
  BY DEF WalkInv, StackOK, Range
<1>2. PICK f : f = stack[1]
  OBVIOUS
<1>3. f.dir = Root /\ RightBase(f) /\ Moving = {} /\ f.unread = <<>>
  BY <1>2 DEF ShapeInv, Moving
<1>4. ReadOK(f)
  BY <1>1, <1>2, <1>3 DEF ReadInv
<1>5. k \in {kit.kit : kit \in f.kits} <=> Readable(file[Root][k])
  <2>1. ASSUME NEW kit \in f.kits, kit.kit = k PROVE Readable(file[Root][k])
    BY <1>3, <1>4, <2>1 DEF ReadOK, KitOK
  <2>2. Readable(file[Root][k]) => KitAt(Root, k) \in f.kits
    BY <1>3, <1>4 DEF ReadOK, PassedOK
  <2>3. KitAt(Root, k).kit = k
    BY DEF KitAt, Merged
  <2> QED
    BY <2>1, <2>2, <2>3
<1> QED
  BY <1>2, <1>3, <1>5 DEF Active, ActiveNames, RootActive

\* What a frame finds itself, ...
LEMMA ActivePartition ==
    ASSUME RegistryTypeOK, WalkInv, ShapeInv, ReadInv, ActiveInv, Partition, touched = {}
    PROVE  ActiveInv'
<1>1. /\ TopChanges /\ Top.unread = <<>>
      /\ SamePlace(stack'[Len(stack)], Top)
      /\ stack'[Len(stack)].projects = PartsOf(Top, Depth)
      /\ stack'[Len(stack)].virtuals = VirtualsOf(Top, Depth)
  BY PartitionDoes
<1>2. UNCHANGED <<file, settings, status, touched>> /\ Walking
  BY WalkFixed DEF Walk, Partition
<1>3. PICK n \in Nat \ {0} : n = Len(stack)
  BY <1>1 DEF TopChanges
<1>4. /\ DOMAIN stack = 1..n /\ DOMAIN stack' = 1..n
      /\ \A i \in 1..n - 1 : stack'[i] = stack[i]
      /\ Top = stack[n] /\ Top \in FrameType
      /\ stack'[n].name = stack[n].name
      /\ stack'[n].projects = PartsOf(Top, Depth) /\ stack'[n].virtuals = VirtualsOf(Top, Depth)
  BY <1>1, <1>3 DEF TopChanges, SamePlace
<1>5. (\A i \in 1..n : i = n \/ i \in 1..n - 1) /\ n \in 1..n
  BY <1>3
<1>6. Top.name \in Seq(Kits) /\ Len(Top.name) = n - 1
  BY <1>4, <1>5, FrameFields DEF ShapeInv, NameOf
<1>7. n = 1 => /\ Top.name = <<>> /\ Depth = 0
               /\ \A k \in Kits : k \in Active(Top, Depth) <=> RootActive(k)
  <2>1. ASSUME n = 1 PROVE Top.name = <<>> /\ Depth = 0 /\ stack # <<>> /\ stack[1].unread = <<>>
    <3>1. Len(stack) - 1 = 0 /\ Len(Top.name) = 0
      BY <1>3, <1>6, <2>1
    <3>2. stack # <<>> /\ Top = stack[1]
      BY <1>4, <1>5, <2>1
    <3> QED
      BY <1>1, <1>6, <3>1, <3>2 DEF Depth
  <2> QED
    BY <1>2, <1>4, <2>1, RootKits
<1>8. ASSUME NEW p \in PartsOf(Top, Depth) PROVE ActiveAt(n, p)
  <2>1. PICK ref \in Discovered(Top.dir, Top.base, FlatOf(Top)) :
           p = Project(Top, ref, Active(Top, Depth))
    BY Zenon DEF PartsOf
  <2>2. p.name = Top.name \o ref
    BY <2>1 DEF Project
  <2>3. ref \in Kits \X Tools
    <3>1. \A kit \in Top.kits : kit.tools \in SUBSET Refs
      BY <1>4, FrameFields DEF KitType
    <3> QED
      BY <2>1, <3>1 DEF Discovered, Listed, FlatOf, LoadedOf, Refs
  <2>4. CASE n = 1
    <3>1. p.name = ref
      <4>1. ref \in Seq(Kits \cup Tools)
        <5>1. PICK k \in Kits, t \in Tools : ref = <<k, t>>
          BY <2>3
        <5> QED
          BY <5>1
      <4> QED
        BY <1>7, <2>2, <2>4, <4>1, ConcatEmptySeq
    <3>2. p.active <=> ref[1] \in Active(Top, Depth)
      BY <1>7, <2>1, <2>4 DEF Project
    <3>3. ref[1] \in Kits
      BY <2>3
    <3> QED
      BY <1>7, <2>4, <3>1, <3>2, <3>3 DEF ActiveAt
  <2>5. CASE n # 1
    <3>1. 1 \in 1..Len(Top.name)
      BY <1>3, <1>6, <2>5
    <3>2. p.name[1] = Top.name[1]
      BY <1>6, <2>2, <2>3, <3>1
    <3> QED
      BY <1>4, <2>5, <3>2 DEF ActiveAt
  <2> QED
    BY <2>4, <2>5
<1>9. ASSUME NEW v \in VirtualsOf(Top, Depth) PROVE VirtualAt(n, v)
  <2>1. PICK kit \in Top.kits : v = VirtualKit(Top, kit.kit, Active(Top, Depth))
    BY Zenon DEF VirtualsOf
  <2>2. kit.kit \in Kits
    BY <1>4, FrameFields DEF KitType
  <2>3. PICK k \in Kits : k = kit.kit
    BY <2>2
  <2>4. v.name = Append(Top.name, k) /\ (v.active <=> k \in Active(Top, Depth))
    BY <2>1, <2>3 DEF VirtualKit
  <2>5. CASE n = 1
    <3>1. v.name[1] = k
      BY <1>7, <2>4, <2>5
    <3> QED
      BY <1>7, <2>4, <2>5, <3>1 DEF VirtualAt
  <2>6. CASE n # 1
    <3>1. 1 \in 1..Len(Top.name)
      BY <1>3, <1>6, <2>6
    <3>2. v.name[1] = Top.name[1]
      BY <1>6, <2>4, <3>1, AppendProperties
    <3> QED
      BY <1>4, <2>6, <3>2 DEF VirtualAt
  <2> QED
    BY <2>5, <2>6
<1>10. \A i \in 1..n : /\ \A p \in stack'[i].projects : ActiveAt(i, p)
                       /\ \A v \in stack'[i].virtuals : VirtualAt(i, v)
  BY <1>2, <1>4, <1>5, <1>8, <1>9 DEF ActiveInv
<1>11. \A i \in 1..n : stack'[i].name = stack[i].name
  BY <1>4, <1>5
<1>12. \A i \in 1..n : \A p : /\ ActiveAt(i, p)' <=> ActiveAt(i, p)
                              /\ VirtualAt(i, p)' <=> VirtualAt(i, p)
  <2>1. \A k : RootActive(k)' <=> RootActive(k)
    BY <1>2, RootActiveSame
  <2> QED
    BY <1>11, <2>1 DEF ActiveAt, VirtualAt
<1> QED
  BY <1>2, <1>4, <1>10, <1>12 DEF ActiveInv, Walking

\* ... what it takes over, ...
LEMMA ActiveReturn ==
    ASSUME RegistryTypeOK, WalkInv, ShapeInv, ReadInv, ActiveInv, Return, touched = {}
    PROVE  ActiveInv'
<1> DEFINE active == Top.name[Len(Top.name)] \in Active(stack[Len(stack) - 1], Depth - 1)
<1>1. PICK n \in Nat \ {0} : n = Len(stack) - 1 /\ Len(stack) = n + 1
  BY ReturnDoes
<1>2. /\ DOMAIN stack = 1..n + 1 /\ DOMAIN stack' = 1..n
      /\ \A i \in 1..n - 1 : stack'[i] = stack[i]
      /\ Top = stack[n + 1] /\ Top \in FrameType
      /\ stack'[n].name = stack[n].name
      /\ stack'[n].projects = stack[n].projects
                                \cup {[p EXCEPT !.active = active] : p \in Top.projects}
      /\ stack'[n].virtuals = stack[n].virtuals
                                \cup {[v EXCEPT !.active = active /\ v.active] : v \in Top.virtuals}
  BY <1>1, ReturnDoes DEF SamePlace
<1> HIDE DEF active
<1>3. UNCHANGED <<file, settings, status, touched>> /\ Walking
  BY WalkFixed DEF Walk, Return, Done
<1>4. /\ \A i \in 1..n : (i = n \/ i \in 1..n - 1) /\ i \in 1..n + 1
      /\ n \in 1..n /\ n + 1 \in 1..n + 1 /\ n + 1 # 1 /\ 1 \in 1..n /\ 1 \in 1..n + 1
      /\ (n # 1 => 1 \in 1..n - 1)
  BY <1>1
<1>5. Top.name \in Seq(Kits) /\ Len(Top.name) = n
  <2>1. Len(stack[n + 1].name) = (n + 1) - 1
    BY <1>2, <1>4 DEF ShapeInv, NameOf
  <2> QED
    BY <1>1, <1>2, <2>1, FrameFields
<1>6. n # 1 => Top.name[1] = stack[n].name[1]
  <2>1. ASSUME n # 1 PROVE 1 \in 1..(n + 1) - 1
    BY <1>1
  <2>2. NameOf(n) /\ NameOf(n + 1)
    BY <1>2, <1>4 DEF ShapeInv
  <2> QED
    BY <1>2, <1>4, <2>1, <2>2 DEF NameOf
<1>7. n = 1 => (active <=> RootActive(Top.name[1]))
  <2> SUFFICES ASSUME n = 1 PROVE active <=> RootActive(Top.name[1])
    OBVIOUS
  <2>1. Len(stack) - 1 = 1 /\ Depth - 1 = 0 /\ Len(Top.name) = 1
    BY <1>1, <1>5 DEF Depth
  <2>2. active <=> Top.name[1] \in Active(stack[1], 0)
    BY <1>1, <2>1 DEF active
  <2>3. Top.name[1] \in Kits
    BY <1>5, <2>1
  <2>4. stack # <<>> /\ stack[1].unread = <<>>
    <3>1. LinkOf(stack[1], stack[1 + 1].name[1], stack[1 + 1])
      BY <1>2, <1>4 DEF ShapeInv
    <3> QED
      BY <1>2, <1>4, <3>1 DEF LinkOf, ShapeInv, ShapeOf
  <2> QED
    BY <2>2, <2>3, <2>4, RootKits
<1>8. ASSUME NEW p \in Top.projects PROVE ActiveAt(n, [p EXCEPT !.active = active])
  <2>1. [p EXCEPT !.active = active].name = p.name /\ [p EXCEPT !.active = active].active = active
    BY <1>2, FrameFields DEF ProjectType
  <2>2. ActiveAt(n + 1, p)
    BY <1>2, <1>4 DEF ActiveInv
  <2> QED
    BY <1>2, <1>4, <1>6, <1>7, <2>1, <2>2 DEF ActiveAt
<1>9. ASSUME NEW v \in Top.virtuals PROVE VirtualAt(n, [v EXCEPT !.active = active /\ v.active])
  <2>1. PICK a : a = (active /\ v.active)
    OBVIOUS
  <2>2. [v EXCEPT !.active = a].name = v.name /\ [v EXCEPT !.active = a].active = a
    BY <1>2, FrameFields DEF VirtualType
  <2>3. VirtualAt(n + 1, v)
    BY <1>2, <1>4 DEF ActiveInv
  <2>4. VirtualAt(n, [v EXCEPT !.active = a])
    BY <1>2, <1>4, <1>6, <1>7, <2>1, <2>2, <2>3 DEF VirtualAt
  <2> QED
    BY <2>1, <2>4
<1>10. /\ \A p \in stack'[n].projects : ActiveAt(n, p)
       /\ \A v \in stack'[n].virtuals : VirtualAt(n, v)
  <2>1. /\ \A p \in stack[n].projects : ActiveAt(n, p)
        /\ \A v \in stack[n].virtuals : VirtualAt(n, v)
    BY <1>2, <1>4 DEF ActiveInv
  <2> QED
    BY <1>2, <1>8, <1>9, <2>1
<1>11. \A i \in 1..n : /\ \A p \in stack'[i].projects : ActiveAt(i, p)
                       /\ \A v \in stack'[i].virtuals : VirtualAt(i, v)
  BY <1>2, <1>4, <1>10 DEF ActiveInv
<1>12. \A i \in 1..n : stack'[i].name = stack[i].name
  BY <1>2, <1>4
<1>13. \A i \in 1..n : \A p : /\ ActiveAt(i, p)' <=> ActiveAt(i, p)
                              /\ VirtualAt(i, p)' <=> VirtualAt(i, p)
  <2>1. \A k : RootActive(k)' <=> RootActive(k)
    BY <1>3, RootActiveSame
  <2> QED
    BY <1>12, <2>1 DEF ActiveAt, VirtualAt
<1> QED
  BY <1>2, <1>3, <1>11, <1>13 DEF ActiveInv, Walking

\* Steps that keep what every frame has found, or lose it.
LEMMA ActiveKept ==
    ASSUME ActiveInv, UNCHANGED <<file, settings>>, touched = {},
           status' = "done" => status = "done" /\ result' = result,
           \A i \in DOMAIN stack' :
              \/ stack'[i].projects = {} /\ stack'[i].virtuals = {}
              \/ /\ i \in DOMAIN stack /\ stack'[i].name = stack[i].name
                 /\ stack'[i].projects = stack[i].projects
                 /\ stack'[i].virtuals = stack[i].virtuals
    PROVE  ActiveInv'
<1>1. \A k : RootActive(k)' <=> RootActive(k)
  BY RootActiveSame
<1> QED
  BY <1>1 DEF ActiveInv, ActiveAt, VirtualAt

\* ... what it has found when it reads on, ...
LEMMA ActiveReadKit ==
    ASSUME RegistryTypeOK, WalkInv, ActiveInv, ReadKit, touched = {}
    PROVE  ActiveInv'
<1>1. /\ TopChanges /\ SamePlace(stack'[Len(stack)], Top)
      /\ stack'[Len(stack)].projects = Top.projects
      /\ stack'[Len(stack)].virtuals = Top.virtuals
  BY ReadKitDoes
<1>2. PICK n \in Nat : n = Len(stack)
  BY <1>1 DEF TopChanges
<1>3. \A i \in 1..n : i = n \/ i \in 1..n - 1
  BY <1>2
<1>4. \A i \in 1..n : /\ stack'[i].name = stack[i].name
                      /\ stack'[i].projects = stack[i].projects
                      /\ stack'[i].virtuals = stack[i].virtuals
  BY <1>1, <1>2, <1>3 DEF TopChanges, SamePlace
<1>5. UNCHANGED <<file, settings, status>> /\ Walking
  BY WalkFixed DEF Walk, ReadKit
<1> QED
  BY <1>1, <1>2, <1>4, <1>5, ActiveKept DEF TopChanges, Walking

\* ... when it enters an aggregator, ...
LEMMA ActiveDescend ==
    ASSUME WalkInv, ActiveInv, Descend, touched = {}
    PROVE  ActiveInv'
<1>1. PICK n \in Nat \ {0} : n = Len(stack)
  BY DescendDoes
<1>2. /\ DOMAIN stack = 1..n /\ DOMAIN stack' = 1..n + 1
      /\ \A i \in 1..n - 1 : stack'[i] = stack[i]
      /\ Top = stack[n] /\ SamePlace(stack'[n], Top)
      /\ stack'[n].projects = Top.projects /\ stack'[n].virtuals = Top.virtuals
      /\ stack'[n + 1] = Frame(Embedded, Append(Top.name, First(Top.todo)), EmbeddedBase)
  BY <1>1, DescendDoes
<1>3. \A i \in 1..n + 1 : i = n + 1 \/ (i \in 1..n /\ (i = n \/ i \in 1..n - 1))
  BY <1>1
<1>4. \A i \in 1..n : /\ stack'[i].name = stack[i].name
                      /\ stack'[i].projects = stack[i].projects
                      /\ stack'[i].virtuals = stack[i].virtuals
  <2>1. \A i \in 1..n : i = n \/ i \in 1..n - 1
    BY <1>1
  <2> QED
    BY <1>2, <2>1 DEF SamePlace
<1>5. stack'[n + 1].projects = {} /\ stack'[n + 1].virtuals = {}
  BY <1>2 DEF Frame
<1>6. UNCHANGED <<file, settings, status>> /\ Walking
  BY WalkFixed DEF Walk, Descend
<1> QED
  BY <1>2, <1>3, <1>4, <1>5, <1>6, ActiveKept DEF Walking

\* ... when one is given up, ...
LEMMA ActivePop ==
    ASSUME WalkInv, ActiveInv, ReadFails, touched = {}
    PROVE  ActiveInv'
<1>1. UNCHANGED <<file, settings>> /\ status' # "done"
  BY WalkFixed DEF Walk, ReadFails, Walking
<1>2. CASE Depth = 0
  BY <1>1, <1>2, ActiveKept DEF ReadFails
<1>3. CASE Depth # 0
  <2>1. PICK m \in Nat : m = Len(stack)
    BY <1>3, PopDoes
  <2>2. /\ DOMAIN stack = 1..m /\ DOMAIN stack' = 1..m - 1
        /\ \A i \in 1..m - 1 : stack'[i] = stack[i]
    BY <1>3, <2>1, PopDoes
  <2>3. \A i \in 1..m - 1 : i \in 1..m
    BY <2>1
  <2> QED
    BY <1>1, <2>2, <2>3, ActiveKept
<1> QED
  BY <1>2, <1>3

\* ... and what is left in the end is active as the root says.
LEMMA ActiveFinish ==
    ASSUME WalkInv, ActiveInv, Finish, touched = {}
    PROVE  ActiveInv'
<1>1. /\ Len(stack) \in Nat /\ Len(stack) > 0 /\ DOMAIN stack = 1..Len(stack)
      /\ Top = stack[Len(stack)]
  BY TopFrame DEF Finish, Done
<1>2. Len(stack) = 1
  BY <1>1 DEF Finish, Depth
<1>3. 1 \in DOMAIN stack /\ Top = stack[1]
  BY <1>1, <1>2
<1>4. /\ stack' = <<>> /\ UNCHANGED <<file, settings>>
      /\ result'.projects \subseteq Top.projects /\ result'.virtuals = Top.virtuals
  BY WalkFixed DEF Walk, Finish
<1>5. \A k : RootActive(k)' <=> RootActive(k)
  BY <1>4, RootActiveSame
<1> QED
  BY <1>3, <1>4, <1>5 DEF ActiveInv, ActiveAt, VirtualAt

\* So every step keeps it.
LEMMA ActiveNextInv ==
    ASSUME RegistryTypeOK, RegistryTypeOK', WalkInv, ShapeInv, ReadInv, ActiveInv, [Next]_vars
    PROVE  ActiveInv'
<1> SUFFICES ASSUME touched' = {} PROVE ActiveInv'
  BY DEF ActiveInv
<1>1. CASE Begin
  <2>1. stack' = <<Frame(Root, <<>>, RealBase[Root])>> /\ status' = "walking"
    BY <1>1 DEF Begin
  <2>2. \A i \in DOMAIN stack' : stack'[i].projects = {} /\ stack'[i].virtuals = {}
    BY <2>1 DEF Frame
  <2> QED
    BY <2>1, <2>2 DEF ActiveInv
<1>2. CASE Walk
  <2>1. touched = {} /\ UNCHANGED <<file, settings>>
    BY <1>2, WalkFixed
  <2>2. CASE Cycle
    BY <2>1, <2>2, ActiveKept DEF Cycle
  <2> QED
    BY <1>2, <2>1, <2>2, ActiveReadKit, ActivePop, ActivePartition, ActiveDescend,
       ActiveReturn, ActiveFinish DEF Walk
<1>3. CASE UNCHANGED <<file, settings, stack, status, result>> /\ touched = {}
  BY <1>3, ActiveKept
<1>4. CASE Other
  BY <1>3, <1>4, QuietOther DEF Other
<1>5. CASE UNCHANGED vars
  BY <1>3, <1>5 DEF vars, walkVars, registryVars, histories
<1> QED
  BY <1>1, <1>2, <1>4, <1>5 DEF Next

\* Finish leaves out what is shadowed.
LEMMA ResultNext == ASSUME WalkInv, ResultOK, [Next]_vars PROVE ResultOK'
<1>1. CASE Finish
  <2>1. Top \in FrameType /\ settings' = settings
    BY <1>1, TopFrame DEF Finish, Done
  <2>2. result'.projects = {p \in Top.projects : p.name \notin settings.shadowed}
    BY <1>1 DEF Finish
  <2> QED
    BY <2>1, <2>2, FrameFields DEF ResultOK
<1>2. CASE status' # "done"
  BY <1>2 DEF ResultOK
<1>3. CASE UNCHANGED <<status, result, settings>>
  BY <1>3 DEF ResultOK
<1> QED
  BY <1>1, <1>2, <1>3 DEF Next, Walk, Begin, ReadKit, ReadFails, Partition, Descend, Cycle,
     Return, Other, vars, walkVars, Walking

\* What the result needs besides FindInv.
ReachInv == EndsInv /\ ActiveInv /\ ResultOK

\* It holds at every state.
LEMMA ReachInvariant == Spec => []ReachInv
<1>1. Init => ReachInv
  BY DEF Init, ReachInv, EndsInv, ActiveInv, ResultOK
<1>2. FindInv /\ RegistryTypeOK' /\ ReachInv /\ [Next]_vars => ReachInv'
  BY EndsNextInv, ActiveNextInv, ResultNext DEF FindInv, ReachInv
<1>3. FindInv => RegistryTypeOK
  BY DEF FindInv
<1> QED
  BY <1>1, <1>2, <1>3, FindInvariant, PTL DEF Spec

\* What the result says while nobody writes.
LEMMA ReachResult ==
    ASSUME FindInv, ReachInv, touched = {}, status = "done",
           NEW P, NEW Q, NEW S, P = LoadingNow, Q = FoundNow, S = SoundNow
    PROVE  /\ ~CyclicOver(P, Q, S)
           /\ result.projects = {[name |-> n, active |-> RootActive(n[1])] :
                                   n \in NamesOver(P, Q, S) \ settings.shadowed}
<1>1. Answers(P, Q, S)
  <2>1. Moving = {} /\ SoundNow \subseteq Dirs
    BY DEF Moving, SoundNow
  <2> QED
    BY <2>1 DEF Answers
<1>2. ~CyclicOver(P, Q, S)
  BY <1>1, NoneRepeats DEF FindInv, CyclicOver
<1>3. ASSUME NEW p \in result.projects
      PROVE  /\ p = [name |-> p.name, active |-> RootActive(p.name[1])]
             /\ p.name \in NamesOver(P, Q, S) \ settings.shadowed
  <2>1. p \in ProjectType /\ p.name \notin settings.shadowed
    BY DEF ReachInv, ResultOK
  <2>2. p.name \in Results
    BY DEF Results
  <2>3. FoundBy(p.name, P, Q, S)
    BY <2>2 DEF FindInv, FoundHere, AllFoundBy
  <2>4. p.name \in NamesOver(P, Q, S)
    BY <2>3, FoundIsName
  <2>5. p.active <=> RootActive(p.name[1])
    BY DEF ReachInv, ActiveInv
  <2>6. p.active = RootActive(p.name[1])
    <3>1. p.active \in BOOLEAN /\ RootActive(p.name[1]) \in BOOLEAN
      BY <2>1 DEF ProjectType, RootActive
    <3> QED
      BY <2>5, <3>1
  <2>7. p = [name |-> p.name, active |-> p.active]
    BY <2>1 DEF ProjectType
  <2> QED
    BY <2>1, <2>4, <2>6, <2>7
<1>4. ASSUME NEW n \in NamesOver(P, Q, S) \ settings.shadowed
      PROVE  \E p \in result.projects : p.name = n
  BY <1>1, NamesFound DEF FindInv
<1>5. ASSUME NEW n \in NamesOver(P, Q, S) \ settings.shadowed
      PROVE  [name |-> n, active |-> RootActive(n[1])] \in result.projects
  <2>1. PICK p \in result.projects : p.name = n
    BY <1>4
  <2>2. p = [name |-> p.name, active |-> RootActive(p.name[1])]
    BY <1>3
  <2> QED
    BY <2>1, <2>2
<1>6. result.projects = {[name |-> n, active |-> RootActive(n[1])] :
                           n \in NamesOver(P, Q, S) \ settings.shadowed}
  BY <1>3, <1>5, Zenon
<1> QED
  BY <1>2, <1>6

\* discover(), while nobody changes a registration: it fails only if the root itself cannot
\* be read, ends with CircularDependencyError exactly if an embedded aggregator leads back to
\* one it is in, and else with the tools of every chain of embedded aggregators and no others.
THEOREM FindsReachableHolds == Spec => []FindsReachable
<1>1. FindInv /\ ReachInv => FindsReachable
  <2> SUFFICES ASSUME FindInv, ReachInv, touched = {}
               PROVE  /\ status = "failed" => Root \notin SoundNow
                      /\ status = "cycle" => Cyclic
                      /\ status = "done" =>
                           /\ Root \in SoundNow /\ ~Cyclic
                           /\ result.projects = {[name |-> n, active |-> RootActive(n[1])] :
                                                   n \in NamesNow \ settings.shadowed}
                           /\ \A v \in result.virtuals : v.active => RootActive(v.name[1])
    BY Zenon DEF FindsReachable
  <2>1. PICK P, Q, S : P = LoadingNow /\ Q = FoundNow /\ S = SoundNow
    OBVIOUS
  <2>2. (Cyclic <=> CyclicOver(P, Q, S)) /\ NamesNow = NamesOver(P, Q, S)
    BY <2>1 DEF Cyclic, CyclicOver, NamesNow
  <2>3. status = "failed" => Root \notin SoundNow
    BY DEF ReachInv, EndsInv
  <2>4. status = "cycle" => Cyclic
    BY <2>1, <2>2 DEF ReachInv, EndsInv
  <2>5. ASSUME status = "done"
        PROVE  /\ Root \in SoundNow /\ ~Cyclic
               /\ result.projects = {[name |-> n, active |-> RootActive(n[1])] :
                                       n \in NamesNow \ settings.shadowed}
               /\ \A v \in result.virtuals : v.active => RootActive(v.name[1])
    <3>1. Root \in SoundNow /\ \A v \in result.virtuals : v.active => RootActive(v.name[1])
      BY <2>5 DEF ReachInv, EndsInv, ActiveInv
    <3>2. /\ ~CyclicOver(P, Q, S)
          /\ result.projects = {[name |-> n, active |-> RootActive(n[1])] :
                                  n \in NamesOver(P, Q, S) \ settings.shadowed}
      BY <2>1, <2>5, ReachResult
    <3> QED
      BY <2>2, <3>1, <3>2
  <2> QED
    BY <2>3, <2>4, <2>5
<1> QED
  BY <1>1, FindInvariant, ReachInvariant, PTL
=============================================================================
