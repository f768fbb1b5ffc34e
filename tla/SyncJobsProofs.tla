---------------------------- MODULE SyncJobsProofs ----------------------------
(***************************************************************************)
(* Proofs about synchronisation, for any number of runs, any source and    *)
(* destination: the types; that a file of the source is not deleted; that  *)
(* a transfer resumed between its parts makes the file of the source; that *)
(* a completed run leaves the destination that it promises.                *)
(***************************************************************************)
EXTENDS SyncJobsProps, FunctionTheorems, WellFoundedInduction, TLAPS

\* The conditions: runs into one destination follow each other; for what is in the
\* files also that the cleaner leaves rows alone that an attempt would resume
\* from, and that the runs have the same part size and encryption, since the
\* upload id of a transfer depends on neither.
OneAfterTheOther == "overlap" \notin Liberty
SameParts ==
  /\ Liberty = {}
  /\ \A q, r \in Run : PartSize[q] = PartSize[r] /\ Encrypted[q] = Encrypted[r]
  /\ \A b \in Before, p \in Source : b[p].kind = "file" /\ b[p].current => Whole(p, b[p])

-----------------------------------------------------------------------------
(* The invariant.                                                          *)

RunState  == {"waiting", "listing", "deleting", "summary", "completed", "discarded"}
TaskState == Active \cup {"none", "waiting", "completed", "discarded", "cancelled"}
UploadRow == [no : Nat \ {0}, from : Int, len : Int, enc : {Encrypted[r] : r \in Run}]

Tries(j)    == j.tries \in 0..MaxAttempts /\ (j.st # "discarded" => j.tries < MaxAttempts)
IsEntry(v)  == v \in {Nothing, Folder} \/ (v.kind = "file" /\ v.current \in BOOLEAN)
IsRun(j)    == /\ DOMAIN j = {"st", "tries", "todo", "all"}
               /\ j.st \in RunState /\ Tries(j) /\ j.todo \subseteq Path /\ j.all \in BOOLEAN
IsTask(j)   == /\ DOMAIN j = {"st", "tries", "next", "got"}
               /\ j.st \in TaskState /\ Tries(j) /\ j.next \in Nat
               /\ j.st = "staging" => j.next # 0

Types ==
  /\ DOMAIN dest = Path /\ \A p \in Path : IsEntry(dest[p])
  /\ rows \in [Source -> Seq(UploadRow)]
  /\ DOMAIN run = Run /\ \A r \in Run : IsRun(run[r])
  /\ DOMAIN task = Run
  /\ \A r \in Run : DOMAIN task[r] = Source /\ \A p \in Source : IsTask(task[r][p])

\* When a run has begun, those before it have ended with all their tasks.
Begun(r) == ~Untouched(r)
Turns ==
  /\ \A q, r \in Run : q < r /\ Begun(r) => RunEnded(q) /\ \A p \in Source : Ended(q, p)
  /\ \A r \in Run : run[r].st \in {"listing", "deleting"} => Tasks(r) = {}

\* What is to be deleted was extra and has not changed since; it is all that is
\* extra when the listing showed every entry.
Doomed ==
  \A r \in Run : /\ run[r].st # "deleting" => run[r].todo = {}
                /\ \A p \in run[r].todo : /\ dest[p].kind = "file" => p \notin Source
                                          /\ dest[p] = Folder => p \notin SourceDirs
AllExtra == {p \in Path : /\ Reached(p)
                          /\ \/ dest[p].kind = "file" /\ p \notin Source
                             \/ dest[p] = Folder /\ p \notin SourceDirs}
Clears(r) == Mirror[r] /\ run[r].all
AllDoomed == \A r \in Run : run[r].st = "deleting" /\ Clears(r) => AllExtra \subseteq run[r].todo

\* Above an entry there is always one, and no file of the source.
Tree ==
  \A x \in Path : dest[x] # Nothing =>
    \A q \in Above(x) : dest[q] # Nothing /\ (q \in Source => dest[q] = Folder)
Opened ==
  \A r \in Run, p \in Source : task[r][p].st \in {"resuming", "staging", "creating"} =>
    /\ Size[p] > 0
    /\ \A q \in Above(p) : dest[q] # Nothing

\* From the moment its tasks are inserted the last run that began has, where no task
\* is under way, what it promises in the end, and nothing extra if it saw all.
Inserted(r) == run[r].st \in {"summary", "completed"} \/ Tasks(r) # {}
NoTask(r, p) == task[r][p].st \in {"none", "recording", "completed"}
Promised(r, p) == dest[p] # Nothing /\ (Mirror[r] /\ dest[p].kind = "file" => dest[p].current)
NothingExtra == \A x \in Path : /\ dest[x].kind = "file" => x \in Source
                                /\ dest[x] = Folder => x \in SourceDirs
Settled ==
  /\ \A r \in Run : Inserted(r) /\ (\A q \in Run : q > r => Untouched(q)) =>
       /\ \A p \in Source : NoTask(r, p) => Promised(r, p)
       /\ Clears(r) => NothingExtra
  /\ \A r \in Run, p \in Source : run[r].st = "completed" => task[r][p].st \in {"none", "completed"}

\* The rows of a transfer are its first parts, one each.
PartAt(r, p, i)   == [no |-> i, from |-> Start(r, i), len |-> Expected(r, p, i), enc |-> Encrypted[r]]
FirstOf(r, p, n)  == [i \in 1..n |-> PartAt(r, p, i)]
StagedSo(r, p) ==
  \E n \in 0..TotalParts(r, p) :
    /\ rows[p] = FirstOf(r, p, n)
    /\ task[r][p].st = "staging" => task[r][p].next = n + 1
Staged ==
  \A r \in Run, p \in Source :
    /\ StagedSo(r, p)
    /\ task[r][p].st = "creating" => task[r][p].got = FirstOf(r, p, TotalParts(r, p))

Orderly == Types /\ Turns /\ Doomed /\ AllDoomed /\ Tree /\ Opened /\ Settled

-----------------------------------------------------------------------------
(* The numbers of parts.                                                   *)

LEMMA Parts ==
  ASSUME NEW S \in Nat \ {0}, NEW P \in Nat \ {0}
  PROVE  LET T == (S + P - 1) \div P IN T \in Nat \ {0} /\ (T - 1) * P < S /\ S <= T * P
  OBVIOUS

LEMMA NoParts == ASSUME NEW P \in Nat \ {0} PROVE (0 + P - 1) \div P = 0
  OBVIOUS

LEMMA Growing ==
  ASSUME NEW i \in Nat, NEW j \in Nat, NEW P \in Nat, i <= j PROVE i * P <= j * P
  OBVIOUS

LEMMA LeastNatural ==
  ASSUME NEW T, T \subseteq Nat, T # {}
  PROVE  \E x \in T : \A y \in T : x <= y
<1>1. PICK x \in T : \A y \in T : ~ (<<y, x>> \in OpToRel(<, Nat))
  BY NatLessThanWellFounded, WFMin
<1>2. \A y \in T : ~ (y < x)
  BY <1>1 DEF OpToRel
<1> QED  BY <1>2

LEMMA TotalIsNatural ==
  ASSUME NEW r \in Run, NEW p \in Source
  PROVE  TotalParts(r, p) \in Nat
<1>1. Size[p] \in Nat /\ PartSize[r] \in Nat \ {0}
  BY SyncAssumption DEF Source
<1>2. CASE Size[p] = 0
  BY <1>1, <1>2, NoParts DEF TotalParts
<1>3. CASE Size[p] # 0
  <2>1. Size[p] \in Nat \ {0}
    BY <1>1, <1>3
  <2> QED  BY <1>1, <2>1, Parts DEF TotalParts
<1> QED  BY <1>2, <1>3

\* A transfer goes on with a part that there is, or after the last one.
LEMMA NextIsAPart ==
  ASSUME NEW r \in Run, NEW p \in Source
  PROVE  /\ NextPart(r, p) \in 1..(TotalParts(r, p) + 1)
         /\ \A k \in 1..(NextPart(r, p) - 1) : FitsPart(r, p, k)
         /\ NextPart(r, p) <= TotalParts(r, p) => ~FitsPart(r, p, NextPart(r, p))
<1> DEFINE T == TotalParts(r, p)
           Missing == {no \in 1..(T + 1) : no <= T => ~FitsPart(r, p, no)}
<1>1. T \in Nat
  BY TotalIsNatural
<1>2. T + 1 \in Missing /\ Missing \subseteq Nat
  BY <1>1
<1>3. PICK no \in Missing : \A k \in Missing : no <= k
  BY <1>2, LeastNatural
<1>4. \A k \in 1..(no - 1) : FitsPart(r, p, k)
  BY <1>1, <1>3
<1>5. \E n \in 1..(T + 1) : /\ \A k \in 1..(n - 1) : FitsPart(r, p, k)
                            /\ n <= T => ~FitsPart(r, p, n)
  BY <1>3, <1>4
<1> QED  BY <1>5 DEF NextPart

\* Parts that are in order stay so.
LEMMA InPlace ==
  ASSUME NEW n \in Nat, NEW s, DOMAIN s = 1..n, \A i \in 1..n : s[i].no = i,
         NEW f \in Bijection(1..n, 1..n), InOrder(s, f)
  PROVE  \A i \in 1..n : f[i] = i
<1> DEFINE Odd == {i \in 1..n : f[i] # i}
<1> SUFFICES ASSUME Odd # {} PROVE FALSE
  OBVIOUS
<1>1. /\ f \in [1..n -> 1..n]
      /\ \A i, j \in 1..n : f[i] = f[j] => i = j
      /\ \A k \in 1..n : \E i \in 1..n : f[i] = k
  BY DEF Bijection, Injection, Surjection, IsInjective
<1>2. PICK i \in Odd : \A j \in Odd : i <= j
  <2>1. Odd \subseteq Nat
    OBVIOUS
  <2> QED  BY <2>1, LeastNatural
<1>3. i \in 1..n /\ f[i] # i /\ \A k \in 1..(i - 1) : f[k] = k
  BY <1>2
<1>4. f[i] > i
  <2>1. f[i] \in 1..n
    BY <1>1, <1>3
  <2>2. f[i] < i => f[f[i]] = f[i]
    BY <1>3, <2>1
  <2>3. f[i] # i
    BY <1>3
  <2>4. ~(f[i] < i)
    BY <1>1, <1>3, <2>1, <2>2, <2>3
  <2> QED  BY <2>1, <2>3, <2>4
<1>5. PICK v \in 1..n : f[v] = i
  BY <1>1, <1>3
<1>6. v > i
  BY <1>3, <1>5
<1>7. s[f[i]].no <= s[f[v]].no
  BY <1>3, <1>5, <1>6 DEF InOrder
<1>8. f[i] <= f[v]
  BY <1>1, <1>3, <1>5, <1>7
<1> QED  BY <1>1, <1>3, <1>4, <1>5, <1>8

LEMMA AlreadySorted ==
  ASSUME NEW n \in Nat, NEW s, s = [i \in 1..n |-> s[i]], \A i \in 1..n : s[i].no = i
  PROVE  ByPartNo(s) = s
<1> DEFINE same == [i \in 1..n |-> i]
           g == CHOOSE f \in Bijection(1..n, 1..n) : InOrder(s, f)
<1>0. DOMAIN s = 1..n
  OBVIOUS
<1>1. same \in Bijection(1..n, 1..n)
  BY DEF Bijection, Injection, Surjection, IsInjective
<1>2. InOrder(s, same)
  BY <1>0 DEF InOrder
<1>3. g \in Bijection(1..n, 1..n) /\ InOrder(s, g)
  BY <1>1, <1>2
<1> HIDE DEF g
<1>4. \A i \in 1..n : g[i] = i
  BY <1>0, <1>3, InPlace
<1>5. ByPartNo(s) = [i \in 1..n |-> s[g[i]]]
  BY <1>0 DEF ByPartNo, g
<1> QED  BY <1>4, <1>5

-----------------------------------------------------------------------------
(* Steps of a transfer and of a run.                                       *)

LEMMA TaskMoves ==
  ASSUME Types, NEW r \in Run, NEW p \in Source, NEW f, Step(r, p, f)
  PROVE  /\ task'[r][p] = f
         /\ \A q \in Run, x \in Source : q # r \/ x # p => task'[q][x] = task[q][x]
         /\ DOMAIN task' = Run /\ \A q \in Run : DOMAIN task'[q] = Source
  BY DEF Types, Step

LEMMA RunMoves ==
  ASSUME Types, NEW r \in Run, NEW f, RunStep(r, f)
  PROVE  /\ run'[r] = f
         /\ \A q \in Run : q # r => run'[q] = run[q]
         /\ DOMAIN run' = Run
  BY DEF Types, RunStep

LEMMA TaskFields ==
  ASSUME NEW t, DOMAIN t = {"st", "tries", "next", "got"}, NEW x, NEW y, NEW z
  PROVE  /\ LET u == [t EXCEPT !.st = x] IN
            /\ u.st = x /\ u.tries = t.tries /\ u.next = t.next /\ u.got = t.got
            /\ DOMAIN u = {"st", "tries", "next", "got"}
         /\ LET u == [t EXCEPT !.next = x] IN
            /\ u.st = t.st /\ u.tries = t.tries /\ u.next = x /\ u.got = t.got
            /\ DOMAIN u = {"st", "tries", "next", "got"}
         /\ LET u == [t EXCEPT !.st = x, !.next = y] IN
            /\ u.st = x /\ u.tries = t.tries /\ u.next = y /\ u.got = t.got
            /\ DOMAIN u = {"st", "tries", "next", "got"}
         /\ LET u == [t EXCEPT !.st = x, !.got = y] IN
            /\ u.st = x /\ u.tries = t.tries /\ u.next = t.next /\ u.got = y
            /\ DOMAIN u = {"st", "tries", "next", "got"}
         /\ LET u == [t EXCEPT !.st = x, !.next = y, !.got = z] IN
            /\ u.st = x /\ u.tries = t.tries /\ u.next = y /\ u.got = z
            /\ DOMAIN u = {"st", "tries", "next", "got"}
  OBVIOUS

LEMMA RunFields ==
  ASSUME NEW j, DOMAIN j = {"st", "tries", "todo", "all"}, NEW x, NEW y, NEW z
  PROVE  /\ LET u == [j EXCEPT !.st = x] IN
            /\ u.st = x /\ u.tries = j.tries /\ u.todo = j.todo /\ u.all = j.all
            /\ DOMAIN u = {"st", "tries", "todo", "all"}
         /\ LET u == [j EXCEPT !.todo = x] IN
            /\ u.st = j.st /\ u.tries = j.tries /\ u.todo = x /\ u.all = j.all
            /\ DOMAIN u = {"st", "tries", "todo", "all"}
         /\ LET u == [j EXCEPT !.st = x, !.todo = y, !.all = z] IN
            /\ u.st = x /\ u.tries = j.tries /\ u.todo = y /\ u.all = z
            /\ DOMAIN u = {"st", "tries", "todo", "all"}
  OBVIOUS

\* What a listing writes.
SeesAll == \A f \in Parents : FitsPage(f)
LEMMA Lists ==
  ASSUME Types, NEW r \in Run, ListExtra(r)
  PROVE  /\ run[r].st = "listing" /\ UNCHANGED <<dest, rows, task>>
         /\ \E S \in Views : run'[r].todo = IF Mirror[r] THEN Extra(S) ELSE {}
         /\ run'[r].st = "deleting" /\ run'[r].tries = run[r].tries /\ run'[r].all = SeesAll
         /\ DOMAIN run'[r] = {"st", "tries", "todo", "all"}
         /\ DOMAIN run' = Run /\ \A q \in Run : q # r => run'[q] = run[q]
<1>1. PICK S \in Views :
        RunStep(r, [run[r] EXCEPT !.st = "deleting", !.todo = IF Mirror[r] THEN Extra(S) ELSE {},
                                  !.all = SeesAll])
  BY DEF ListExtra, SeesAll
<1>2. PICK T, z : T = (IF Mirror[r] THEN Extra(S) ELSE {}) /\ z = SeesAll
  OBVIOUS
<1>3. PICK f : f = [run[r] EXCEPT !.st = "deleting", !.todo = T, !.all = z]
  OBVIOUS
<1>4. RunStep(r, f)
  BY <1>1, <1>2, <1>3
<1>5. /\ f.st = "deleting" /\ f.tries = run[r].tries /\ f.todo = T /\ f.all = z
      /\ DOMAIN f = {"st", "tries", "todo", "all"}
  BY <1>3, RunFields DEF Types, IsRun
<1>6. run'[r] = f /\ DOMAIN run' = Run /\ \A q \in Run : q # r => run'[q] = run[q]
  BY <1>4, RunMoves
<1>7. run[r].st = "listing" /\ UNCHANGED <<dest, rows, task>>
  BY DEF ListExtra
<1> QED  BY <1>2, <1>5, <1>6, <1>7

-----------------------------------------------------------------------------
(* Types.                                                                  *)

TaskTypes ==
  /\ DOMAIN task = Run
  /\ \A r \in Run : DOMAIN task[r] = Source /\ \A p \in Source : IsTask(task[r][p])
RunTypes  == DOMAIN run = Run /\ \A r \in Run : IsRun(run[r])
DestTypes == DOMAIN dest = Path /\ \A p \in Path : IsEntry(dest[p])
RowTypes  == rows \in [Source -> Seq(UploadRow)]

LEMMA TaskTyped ==
  ASSUME Types, NEW r \in Run, NEW p \in Source, NEW f, Step(r, p, f), IsTask(f)
  PROVE  TaskTypes'
<1>1. /\ task'[r][p] = f /\ DOMAIN task' = Run /\ \A q \in Run : DOMAIN task'[q] = Source
      /\ \A q \in Run, x \in Source : q # r \/ x # p => task'[q][x] = task[q][x]
  BY TaskMoves
<1>2. \A q \in Run, x \in Source : IsTask(task'[q][x])
  <2> SUFFICES ASSUME NEW q \in Run, NEW x \in Source PROVE IsTask(task'[q][x])
    OBVIOUS
  <2>1. CASE q = r /\ x = p
    BY <1>1, <2>1
  <2>2. CASE ~(q = r /\ x = p)
    BY <1>1, <2>2 DEF Types
  <2> QED  BY <2>1, <2>2
<1> QED  BY <1>1, <1>2 DEF TaskTypes

LEMMA RunTyped ==
  ASSUME Types, NEW r \in Run, NEW f, RunStep(r, f), IsRun(f)
  PROVE  RunTypes'
<1>1. run'[r] = f /\ DOMAIN run' = Run /\ \A q \in Run : q # r => run'[q] = run[q]
  BY RunMoves
<1>2. \A q \in Run : IsRun(run'[q])
  <2> SUFFICES ASSUME NEW q \in Run PROVE IsRun(run'[q])
    OBVIOUS
  <2> QED  BY <1>1 DEF Types
<1> QED  BY <1>1, <1>2 DEF RunTypes

\* A transfer that goes on stays a task with its attempts.
LEMMA GoesOn ==
  ASSUME Types, NEW r \in Run, NEW p \in Source, NEW f, Step(r, p, f),
         task[r][p].st # "discarded",
         DOMAIN f = {"st", "tries", "next", "got"}, f.st \in TaskState,
         f.tries = task[r][p].tries, f.next \in Nat, f.st = "staging" => f.next # 0
  PROVE  TaskTypes'
<1>1. IsTask(f)
  BY DEF IsTask, Tries, Types
<1> QED  BY <1>1, TaskTyped

\* A source opens, or is refused, which fails the attempt.
Opens(r, p) ==
  /\ TypeOfTask(r, p, "opening") /\ Size[p] > 0
  /\ dest' = [q \in Path |-> IF q \in Above(p) /\ dest[q] = Nothing THEN Folder ELSE dest[q]]
  /\ Step(r, p, [task[r][p] EXCEPT !.st = "resuming"])
  /\ UNCHANGED <<rows, run>>
LEMMA Opening ==
  ASSUME NEW r \in Run, NEW p \in Source, OpenSource(r, p)
  PROVE  Opens(r, p) \/ FailTransfer(r, p)
BY DEF OpenSource, Opens, FailTransfer, TypeOfTask, Active

LEMMA TypesTransfer ==
  ASSUME Types, NEW r \in Run, NEW p \in Source,
         Transfer(r, p) \/ FailTransfer(r, p) \/ CancelTransfer(r, p)
  PROVE  Types'
<1> DEFINE t == task[r][p]
<1>0. /\ IsTask(t) /\ DOMAIN t = {"st", "tries", "next", "got"} /\ t.next \in Nat
      /\ DestTypes /\ RowTypes /\ RunTypes
  BY DEF Types, IsTask, DestTypes, RowTypes, RunTypes
<1>1. ASSUME UNCHANGED run, TaskTypes', DestTypes', RowTypes' PROVE Types'
  BY <1>0, <1>1 DEF Types, TaskTypes, DestTypes, RowTypes, RunTypes
<1>2. ASSUME UNCHANGED dest PROVE DestTypes'
  BY <1>0, <1>2 DEF DestTypes
<1>3. ASSUME UNCHANGED rows PROVE RowTypes'
  BY <1>0, <1>3 DEF RowTypes
<1>4. ASSUME NEW st \in TaskState, t.st # "discarded", st = "staging" => t.next # 0,
             Step(r, p, [t EXCEPT !.st = st])
      PROVE  TaskTypes'
  <2>1. PICK f : f = [t EXCEPT !.st = st]
    OBVIOUS
  <2>2. f.st = st /\ f.tries = t.tries /\ f.next = t.next /\ DOMAIN f = {"st", "tries", "next", "got"}
    BY <1>0, <2>1, TaskFields
  <2> QED  BY <1>0, <1>4, <2>1, <2>2, GoesOn
<1>5. CASE Begin(r, p)
  BY <1>1, <1>2, <1>3, <1>4, <1>5 DEF Begin, TypeOfTask, TaskState, Active
<1>6. CASE Opens(r, p)
  <2>1. DestTypes'
    BY <1>0, <1>6 DEF Opens, DestTypes, IsEntry
  <2> QED  BY <1>1, <1>3, <1>4, <1>6, <2>1 DEF Opens, TypeOfTask, TaskState, Active
<1>7. CASE Resume(r, p)
  <2>1. PICK f : f = [t EXCEPT !.st = "staging", !.next = NextPart(r, p)]
    OBVIOUS
  <2>2. f.st = "staging" /\ f.tries = t.tries /\ f.next = NextPart(r, p)
        /\ DOMAIN f = {"st", "tries", "next", "got"}
    BY <1>0, <2>1, TaskFields
  <2>3. NextPart(r, p) \in Nat /\ NextPart(r, p) # 0
    BY NextIsAPart, TotalIsNatural
  <2>4. t.st # "discarded" /\ "staging" \in TaskState
    BY <1>7 DEF Resume, TypeOfTask, TaskState, Active
  <2>5. TaskTypes'
    BY <1>7, <2>1, <2>2, <2>3, <2>4, GoesOn DEF Resume
  <2> QED  BY <1>1, <1>2, <1>3, <1>7, <2>5 DEF Resume
<1>8. CASE StagePart(r, p)
  <2>1. PICK f : f = [t EXCEPT !.next = t.next + 1]
    OBVIOUS
  <2>2. f.st = t.st /\ f.tries = t.tries /\ f.next = t.next + 1
        /\ DOMAIN f = {"st", "tries", "next", "got"}
    BY <1>0, <2>1, TaskFields
  <2>3. t.st = "staging" /\ t.next \in Nat \ {0} /\ "staging" \in TaskState
    BY <1>0, <1>8 DEF StagePart, TypeOfTask, IsTask, TaskState, Active
  <2>4. TaskTypes'
    <3>1. Step(r, p, f)
      BY <1>8, <2>1 DEF StagePart
    <3> QED  BY <1>0, <2>2, <2>3, <3>1, GoesOn
  <2>5. [no |-> t.next, from |-> Start(r, t.next), len |-> Expected(r, p, t.next), enc |-> Encrypted[r]]
          \in UploadRow
    <3>1. PartSize[r] \in Nat /\ Size[p] \in Nat
      BY SyncAssumption DEF Source
    <3>2. Start(r, t.next) \in Int /\ Expected(r, p, t.next) \in Int
      BY <2>3, <3>1 DEF Start, Expected, Least
    <3> QED  BY <2>3, <3>2 DEF UploadRow
  <2>6. RowTypes'
    BY <1>0, <1>8, <2>5 DEF StagePart, RowTypes
  <2> QED  BY <1>1, <1>2, <1>8, <2>4, <2>6 DEF StagePart
<1>9. CASE CreateFile(r, p)
  <2>1. PICK f : f = [t EXCEPT !.st = "creating", !.got = ByPartNo(rows[p])]
    OBVIOUS
  <2>2. f.st = "creating" /\ f.tries = t.tries /\ f.next = t.next
        /\ DOMAIN f = {"st", "tries", "next", "got"}
    BY <1>0, <2>1, TaskFields
  <2>3. t.st # "discarded" /\ "creating" \in TaskState
    BY <1>9 DEF CreateFile, TypeOfTask, TaskState, Active
  <2>4. TaskTypes'
    BY <1>0, <1>9, <2>1, <2>2, <2>3, GoesOn DEF CreateFile
  <2> QED  BY <1>1, <1>2, <1>3, <1>9, <2>4 DEF CreateFile
<1>10. CASE CommitFile(r, p)
  <2>1. PICK f : f = [t EXCEPT !.st = "recording", !.got = <<>>]
    OBVIOUS
  <2>2. f.st = "recording" /\ f.tries = t.tries /\ f.next = t.next
        /\ DOMAIN f = {"st", "tries", "next", "got"}
    BY <1>0, <2>1, TaskFields
  <2>3. t.st # "discarded" /\ "recording" \in TaskState
    BY <1>10 DEF CommitFile, TypeOfTask, TaskState, Active
  <2>4. TaskTypes'
    BY <1>0, <1>10, <2>1, <2>2, <2>3, GoesOn DEF CommitFile
  <2>5. RowTypes'
    <3>1. <<>> \in Seq(UploadRow)
      OBVIOUS
    <3> QED  BY <1>0, <1>10, <3>1 DEF CommitFile, RowTypes
  <2>6. DestTypes'
    <3>1. PICK v : v = IF dest[p] = Folder THEN Folder ELSE Stored(t.got, Encrypted[r], TRUE)
      OBVIOUS
    <3>2. IsEntry(v)
      BY <3>1 DEF IsEntry, Stored
    <3>3. dest' = [dest EXCEPT ![p] = v]
      BY <1>10, <3>1 DEF CommitFile
    <3> QED  BY <1>0, <3>2, <3>3 DEF DestTypes
  <2> QED  BY <1>1, <1>10, <2>4, <2>5, <2>6 DEF CommitFile
<1>11. CASE EndTransfer(r, p)
  <2>1. PICK f : f = [t EXCEPT !.st = "completed", !.next = 0]
    OBVIOUS
  <2>2. f.st = "completed" /\ f.tries = t.tries /\ f.next = 0
        /\ DOMAIN f = {"st", "tries", "next", "got"}
    BY <1>0, <2>1, TaskFields
  <2>3. t.st # "discarded" /\ "completed" \in TaskState
    BY <1>11 DEF EndTransfer, TypeOfTask, TaskState
  <2>4. TaskTypes'
    BY <1>0, <1>11, <2>1, <2>2, <2>3, GoesOn DEF EndTransfer
  <2> QED  BY <1>1, <1>2, <1>3, <1>11, <2>4 DEF EndTransfer
<1>12. CASE FailTransfer(r, p)
  <2>1. PICK f : f = [st |-> Retried("waiting", t.tries), tries |-> t.tries + 1, next |-> 0, got |-> <<>>]
    OBVIOUS
  <2>2. DOMAIN f = {"st", "tries", "next", "got"} /\ f.st = Retried("waiting", t.tries)
        /\ f.tries = t.tries + 1 /\ f.next = 0
    BY <2>1
  <2>3. t.tries \in 0..MaxAttempts /\ t.tries < MaxAttempts
    BY <1>0, <1>12 DEF FailTransfer, Retry, Active, IsTask, Tries
  <2>4. IsTask(f)
    BY <2>2, <2>3, SyncAssumption DEF IsTask, Tries, Retry, Retried, TaskState
  <2>5. TaskTypes'
    BY <1>12, <2>1, <2>4, TaskTyped DEF FailTransfer, Retry
  <2> QED  BY <1>1, <1>2, <1>3, <1>12, <2>5 DEF FailTransfer, Retry
<1>13. CASE CancelTransfer(r, p)
  <2>1. PICK f : f = [t EXCEPT !.st = "cancelled", !.next = 0, !.got = <<>>]
    OBVIOUS
  <2>2. f.st = "cancelled" /\ f.tries = t.tries /\ f.next = 0
        /\ DOMAIN f = {"st", "tries", "next", "got"}
    BY <1>0, <2>1, TaskFields
  <2>3. t.st # "discarded" /\ "cancelled" \in TaskState
    BY <1>13 DEF CancelTransfer, TaskState, Active
  <2>4. TaskTypes'
    BY <1>0, <1>13, <2>1, <2>2, <2>3, GoesOn DEF CancelTransfer
  <2> QED  BY <1>1, <1>2, <1>3, <1>13, <2>4 DEF CancelTransfer
<1> QED  BY <1>5, <1>6, <1>7, <1>8, <1>9, <1>10, <1>11, <1>12, <1>13, Opening DEF Transfer

LEMMA Retrying ==
  ASSUME Types, NEW r \in Run, RetryRun(r), run[r].st # "discarded"
  PROVE  RunTypes'
<1>1. PICK f : f = [st |-> Retried("waiting", run[r].tries), tries |-> run[r].tries + 1, todo |-> {},
                  all |-> run[r].all]
  OBVIOUS
<1>2. /\ DOMAIN f = {"st", "tries", "todo", "all"} /\ f.st = Retried("waiting", run[r].tries)
      /\ f.tries = run[r].tries + 1 /\ f.todo = {} /\ f.all = run[r].all
  BY <1>1
<1>3. run[r].tries \in 0..MaxAttempts /\ run[r].tries < MaxAttempts /\ run[r].all \in BOOLEAN
  BY DEF Types, IsRun, Tries
<1>4. IsRun(f)
  BY <1>2, <1>3, SyncAssumption DEF IsRun, Tries, Retried, RunState
<1> QED  BY <1>1, <1>4, RunTyped DEF RetryRun

LEMMA TypesRun ==
  ASSUME Types, NEW r \in Run, Work(r) \/ FailRun(r)
  PROVE  Types'
<1> DEFINE j == run[r]
<1>0. IsRun(j) /\ DOMAIN j = {"st", "tries", "todo", "all"} /\ DestTypes /\ RowTypes /\ TaskTypes
  BY DEF Types, IsRun, DestTypes, RowTypes, TaskTypes
<1>1. ASSUME UNCHANGED rows, TaskTypes', DestTypes', RunTypes' PROVE Types'
  BY <1>0, <1>1 DEF Types, TaskTypes, DestTypes, RowTypes, RunTypes
<1>2. ASSUME UNCHANGED dest PROVE DestTypes'
  BY <1>0, <1>2 DEF DestTypes
<1>3. ASSUME UNCHANGED task PROVE TaskTypes'
  BY <1>0, <1>3 DEF TaskTypes
<1>4. ASSUME NEW st \in RunState, j.st \notin {"discarded"}, RunStep(r, [j EXCEPT !.st = st])
      PROVE  RunTypes'
  <2>1. PICK f : f = [j EXCEPT !.st = st]
    OBVIOUS
  <2>2. f.st = st /\ f.tries = j.tries /\ f.todo = j.todo /\ f.all = j.all
        /\ DOMAIN f = {"st", "tries", "todo", "all"}
    BY <1>0, <2>1, RunFields
  <2>3. IsRun(f)
    BY <1>0, <1>4, <2>2 DEF IsRun, Tries
  <2> QED  BY <1>4, <2>1, <2>3, RunTyped
<1>5. CASE BeginRun(r)
  <2>1. \E st \in {"summary", "listing"} : RunStep(r, [j EXCEPT !.st = st])
    BY <1>5 DEF BeginRun
  <2>2. RunTypes'
    BY <1>4, <1>5, <2>1 DEF BeginRun, RunState
  <2> QED  BY <1>1, <1>2, <1>3, <1>5, <2>2 DEF BeginRun
<1>6. CASE ListExtra(r)
  <2>1. \A S \in Views : Extra(S) \subseteq Path
    BY DEF Views, Present, Extra
  <2>2. SeesAll \in BOOLEAN
    BY DEF SeesAll
  <2>3. IsRun(run'[r])
    BY <1>0, <1>6, <2>1, <2>2, Lists DEF IsRun, Tries, RunState
  <2>4. RunTypes'
    BY <1>6, <2>3, Lists DEF RunTypes, Types
  <2> QED  BY <1>1, <1>2, <1>3, <1>6, <2>4 DEF ListExtra
<1>7. CASE DeleteExtra(r)
  <2>1. PICK p \in DeleteNext(j.todo) :
          dest' = Deleted(p) /\ RunStep(r, [j EXCEPT !.todo = j.todo \ {p}])
    BY <1>7 DEF DeleteExtra
  <2>2. PICK f : f = [j EXCEPT !.todo = j.todo \ {p}]
    OBVIOUS
  <2>3. f.st = j.st /\ f.tries = j.tries /\ f.todo = j.todo \ {p} /\ f.all = j.all
        /\ DOMAIN f = {"st", "tries", "todo", "all"}
    BY <1>0, <2>2, RunFields
  <2>4. IsRun(f)
    BY <1>0, <2>3 DEF IsRun, Tries
  <2>5. RunTypes'
    BY <2>1, <2>2, <2>4, RunTyped
  <2>6. DestTypes'
    BY <1>0, <2>1 DEF Deleted, DestTypes, IsEntry
  <2> QED  BY <1>1, <1>3, <1>7, <2>5, <2>6 DEF DeleteExtra
<1>8. CASE InsertTasks(r)
  <2>1. RunTypes'
    BY <1>4, <1>8 DEF InsertTasks, RunState
  <2>2. PICK T : T = [p \in Source |-> IF Skipped(r, p) THEN NewTask
                                     ELSE [NewTask EXCEPT !.st = "waiting"]]
    OBVIOUS
  <2>3. \A p \in Source : IsTask(T[p])
    BY <2>2, SyncAssumption DEF NewTask, IsTask, Tries, TaskState
  <2>4. task' = [task EXCEPT ![r] = T] /\ DOMAIN T = Source
    BY <1>8, <2>2 DEF InsertTasks
  <2>5. TaskTypes'
    BY <1>0, <2>3, <2>4 DEF TaskTypes
  <2> QED  BY <1>1, <1>2, <1>8, <2>1, <2>5 DEF InsertTasks
<1>9. CASE Snooze(r)
  BY <1>1, <1>2, <1>3, <1>4, <1>9 DEF Snooze, RunState
<1>10. CASE CompleteRun(r)
  BY <1>1, <1>2, <1>3, <1>4, <1>10 DEF CompleteRun, RunState
<1>11. CASE ReportFailure(r) \/ FailRun(r)
  <2>1. RetryRun(r) /\ j.st # "discarded" /\ UNCHANGED <<dest, rows, task>>
    BY <1>11 DEF ReportFailure, FailRun
  <2> QED  BY <1>1, <1>2, <1>3, <2>1, Retrying
<1> QED  BY <1>5, <1>6, <1>7, <1>8, <1>9, <1>10, <1>11 DEF Work

LEMMA TypesClean ==
  ASSUME Types, NEW p \in Source, CleanStale(p)
  PROVE  Types'
<1>1. PICK k \in 1..Len(rows[p]) : rows' = [rows EXCEPT ![p] = SubSeq(rows[p], k + 1, Len(rows[p]))]
  BY DEF CleanStale
<1>2. rows[p] \in Seq(UploadRow)
  BY DEF Types
<1>3. SubSeq(rows[p], k + 1, Len(rows[p])) \in Seq(UploadRow)
  BY <1>2
<1> QED  BY <1>1, <1>3 DEF Types, CleanStale

LEMMA TypesInit == Init => Types
<1> SUFFICES ASSUME Init PROVE Types
  OBVIOUS
<1>1. DOMAIN dest = Path /\ \A p \in Path : IsEntry(dest[p])
  BY PathAssumption DEF Init, IsEntry
<1>2. rows \in [Source -> Seq(UploadRow)]
  BY DEF Init
<1>3. DOMAIN run = Run /\ \A r \in Run : IsRun(run[r])
  <2>1. IsRun(NewRun)
    <3>1. NewRun.st = "waiting" /\ NewRun.tries = 0 /\ NewRun.todo = {}
      BY DEF NewRun
    <3>2. NewRun.all \in BOOLEAN
      BY DEF NewRun
    <3>3. DOMAIN NewRun = {"st", "tries", "todo", "all"}
      BY DEF NewRun
    <3> QED  BY <3>1, <3>2, <3>3, SyncAssumption DEF IsRun, Tries, RunState
  <2> QED  BY <2>1 DEF Init
<1>4. DOMAIN task = Run /\ \A r \in Run : DOMAIN task[r] = Source /\ \A p \in Source : IsTask(task[r][p])
  BY SyncAssumption DEF Init, NewTask, IsTask, Tries, TaskState
<1> QED  BY <1>1, <1>2, <1>3, <1>4 DEF Types

LEMMA TypesStep == Types /\ [Next]_vars => Types'
<1> SUFFICES ASSUME Types, [Next]_vars PROVE Types'
  OBVIOUS
<1>1. CASE UNCHANGED vars
  BY <1>1 DEF vars, Types
<1> QED  BY <1>1, TypesTransfer, TypesRun, TypesClean DEF Next

-----------------------------------------------------------------------------
(* One run at a time.                                                      *)

\* What transfers and runs do to the jobs.
Unended == Active \cup {"waiting"}
Transfers(r, p) ==
  /\ task[r][p].st \in Unended
  /\ task'[r][p].st # "none"
  /\ \A q \in Run, x \in Source : q # r \/ x # p => task'[q][x] = task[q][x]
  /\ UNCHANGED run
Runs(r) ==
  /\ ~RunEnded(r)
  /\ \A q \in Run : q # r => run'[q] = run[q]
  /\ \A q \in Run, x \in Source : q # r => task'[q][x] = task[q][x]

LEMMA TransferMoves ==
  ASSUME Types, NEW r \in Run, NEW p \in Source,
         Transfer(r, p) \/ FailTransfer(r, p) \/ CancelTransfer(r, p)
  PROVE  Transfers(r, p)
<1> DEFINE t == task[r][p]
<1>0. DOMAIN t = {"st", "tries", "next", "got"}
  BY DEF Types, IsTask
<1>1. ASSUME NEW f, Step(r, p, f), f.st # "none", t.st \in Unended, UNCHANGED run
      PROVE  Transfers(r, p)
  BY <1>1, TaskMoves DEF Transfers
<1>2. ASSUME NEW st, Step(r, p, [t EXCEPT !.st = st]), st # "none", t.st \in Unended, UNCHANGED run
      PROVE  Transfers(r, p)
  <2>1. [t EXCEPT !.st = st].st = st
    BY <1>0
  <2> QED  BY <1>1, <1>2, <2>1
<1>3. CASE Begin(r, p)
  BY <1>2, <1>3 DEF Begin, TypeOfTask, Unended
<1>4. CASE Opens(r, p)
  BY <1>2, <1>4 DEF Opens, TypeOfTask, Unended, Active
<1>5. CASE Resume(r, p)
  <2>1. [t EXCEPT !.st = "staging", !.next = NextPart(r, p)].st = "staging"
    BY <1>0
  <2> QED  BY <1>1, <1>5, <2>1 DEF Resume, TypeOfTask, Unended, Active
<1>6. CASE StagePart(r, p)
  <2>1. [t EXCEPT !.next = t.next + 1].st = t.st
    BY <1>0
  <2> QED  BY <1>1, <1>6, <2>1 DEF StagePart, TypeOfTask, Unended, Active
<1>7. CASE CreateFile(r, p)
  <2>1. [t EXCEPT !.st = "creating", !.got = ByPartNo(rows[p])].st = "creating"
    BY <1>0
  <2> QED  BY <1>1, <1>7, <2>1 DEF CreateFile, TypeOfTask, Unended, Active
<1>8. CASE CommitFile(r, p)
  <2>1. [t EXCEPT !.st = "recording", !.got = <<>>].st = "recording"
    BY <1>0
  <2> QED  BY <1>1, <1>8, <2>1 DEF CommitFile, TypeOfTask, Unended, Active
<1>9. CASE EndTransfer(r, p)
  <2>1. [t EXCEPT !.st = "completed", !.next = 0].st = "completed"
    BY <1>0
  <2> QED  BY <1>1, <1>9, <2>1 DEF EndTransfer, TypeOfTask, Unended, Active
<1>10. CASE FailTransfer(r, p)
  <2>1. Retried("waiting", t.tries) # "none"
    BY DEF Retried
  <2> QED  BY <1>1, <1>10, <2>1 DEF FailTransfer, Retry, Unended
<1>11. CASE CancelTransfer(r, p)
  <2>1. [t EXCEPT !.st = "cancelled", !.next = 0, !.got = <<>>].st = "cancelled"
    BY <1>0
  <2> QED  BY <1>1, <1>11, <2>1 DEF CancelTransfer, Unended
<1> QED  BY <1>3, <1>4, <1>5, <1>6, <1>7, <1>8, <1>9, <1>10, <1>11, Opening DEF Transfer

LEMMA RunsMove ==
  ASSUME Types, NEW r \in Run, Work(r) \/ FailRun(r)
  PROVE  Runs(r)
<1>1. \E f : RunStep(r, f)
  BY DEF Work, BeginRun, ListExtra, DeleteExtra, InsertTasks, Snooze, CompleteRun, ReportFailure,
         FailRun, RetryRun
<1>2. \A q \in Run : q # r => run'[q] = run[q]
  BY <1>1, RunMoves
<1>3. ~RunEnded(r)
  BY DEF RunEnded, Work, BeginRun, ListExtra, DeleteExtra, InsertTasks, Snooze, CompleteRun,
         ReportFailure, FailRun
<1>4. \/ UNCHANGED task
      \/ InsertTasks(r)
  BY DEF Work, BeginRun, ListExtra, DeleteExtra, Snooze, CompleteRun, ReportFailure, FailRun
<1>5. \A q \in Run, x \in Source : q # r => task'[q][x] = task[q][x]
  BY <1>4 DEF InsertTasks, Types
<1> QED  BY <1>2, <1>3, <1>5 DEF Runs

\* While a run, or a task of it, is at work no other is.
LEMMA Alone ==
  ASSUME Types, Turns, NEW r \in Run, Begun(r),
         ~RunEnded(r) \/ \E p \in Source : task[r][p].st \in Unended,
         NEW q \in Run, q # r
  PROVE  /\ \A p \in Source : task[q][p].st \notin Unended
         /\ run[q].st \notin {"listing", "deleting", "summary"}
<1>1. CASE q < r
  BY <1>1 DEF Turns, Ended, RunEnded, Unended, Active
<1>2. CASE r < q
  <2>1. ~Begun(q)
    BY <1>2 DEF Turns, Ended, RunEnded, Unended, Active
  <2>2. run[q].st = "waiting" /\ \A p \in Source : task[q][p].st = "none"
    BY <2>1 DEF Begun, Untouched, NewRun, Tasks
  <2> QED  BY <2>2 DEF Unended, Active
<1> QED  BY <1>1, <1>2, SyncAssumption

LEMMA AtWorkHasBegun ==
  ASSUME NEW r \in Run
  PROVE  /\ run[r].st # "waiting" => Begun(r)
         /\ \A p \in Source : task[r][p].st # "none" => Begun(r)
BY DEF Begun, Untouched, NewRun, Tasks

LEMMA TurnsTransfer ==
  ASSUME Types, Turns, NEW r \in Run, NEW p \in Source, Transfers(r, p)
  PROVE  /\ Turns'
         /\ \A q \in Run : Tasks(q)' = Tasks(q) /\ (Untouched(q)' <=> Untouched(q))
<1>1. \A q \in Run, x \in Source : task'[q][x].st = "none" <=> task[q][x].st = "none"
  BY DEF Transfers, Unended, Active
<1>2. \A q \in Run : Tasks(q)' = Tasks(q)
  BY <1>1 DEF Tasks
<1>3. \A q \in Run : Untouched(q)' <=> Untouched(q)
  BY <1>2 DEF Untouched, Transfers
<1>4. \A q \in Run, x \in Source : Ended(q, x) => Ended(q, x)'
  BY DEF Ended, Transfers, Unended, Active
<1>5. \A q \in Run : RunEnded(q)' <=> RunEnded(q)
  BY DEF RunEnded, Transfers
<1> QED  BY <1>2, <1>3, <1>4, <1>5 DEF Turns, Begun, Transfers

LEMMA TurnsRun ==
  ASSUME OneAfterTheOther, Types, Turns, NEW r \in Run, Work(r) \/ FailRun(r)
  PROVE  Turns'
<1>1. Runs(r)
  BY RunsMove
<1>2. \A q \in Run : q # r => /\ RunEnded(q)' <=> RunEnded(q)
                              /\ \A x \in Source : Ended(q, x)' <=> Ended(q, x)
                              /\ Tasks(q)' = Tasks(q)
                              /\ Begun(q)' <=> Begun(q)
  BY <1>1 DEF Runs, RunEnded, Ended, Tasks, Begun, Untouched
<1>3. \A q \in Run : q < r => RunEnded(q) /\ \A p \in Source : Ended(q, p)
  <2>1. CASE BeginRun(r)
    BY <2>1 DEF BeginRun, OneAfterTheOther
  <2>2. CASE ~BeginRun(r)
    <3>1. run[r].st # "waiting"
      BY <2>2 DEF Work, ListExtra, DeleteExtra, InsertTasks, Snooze, CompleteRun, ReportFailure, FailRun
    <3> QED  BY <3>1, AtWorkHasBegun DEF Turns
  <2> QED  BY <2>1, <2>2
<1>4. \A q, s \in Run : q < s /\ Begun(s)' => RunEnded(q)' /\ \A p \in Source : Ended(q, p)'
  <2> SUFFICES ASSUME NEW q \in Run, NEW s \in Run, q < s, Begun(s)'
               PROVE  RunEnded(q)' /\ \A p \in Source : Ended(q, p)'
    OBVIOUS
  <2>1. CASE s = r
    <3>1. q # r /\ q < r
      BY <2>1, SyncAssumption
    <3> QED  BY <1>2, <1>3, <3>1
  <2>2. CASE s # r
    <3>1. RunEnded(q) /\ \A p \in Source : Ended(q, p)
      BY <1>2, <2>2 DEF Turns
    <3>2. q # r
      BY <1>1, <3>1 DEF Runs
    <3> QED  BY <1>2, <3>1, <3>2
  <2> QED  BY <2>1, <2>2
<1>5. run'[r].st \in {"listing", "deleting"} => Tasks(r)' = {}
  <2>1. IsRun(run[r]) /\ DOMAIN run[r] = {"st", "tries", "todo", "all"}
    BY DEF Types, IsRun
  <2>2. \A f : RunStep(r, f) => run'[r] = f
    BY RunMoves
  <2>3. CASE BeginRun(r)
    <3>1. \E st : st = (IF Tasks(r) # {} THEN "summary" ELSE "listing")
                  /\ RunStep(r, [run[r] EXCEPT !.st = st])
      BY <2>3 DEF BeginRun
    <3>2. run'[r].st = IF Tasks(r) # {} THEN "summary" ELSE "listing"
      BY <2>1, <2>2, <3>1, RunFields
    <3> QED  BY <2>3, <3>2 DEF BeginRun, Tasks
  <2>4. CASE ListExtra(r)
    BY <2>4 DEF ListExtra, Tasks, Turns
  <2>5. CASE DeleteExtra(r)
    BY <2>5 DEF DeleteExtra, Tasks, Turns
  <2>6. CASE InsertTasks(r) \/ Snooze(r) \/ CompleteRun(r)
    <3>1. \E st \in {"summary", "waiting", "completed"} : RunStep(r, [run[r] EXCEPT !.st = st])
      BY <2>6 DEF InsertTasks, Snooze, CompleteRun
    <3> QED  BY <2>1, <2>2, <3>1, RunFields
  <2>7. CASE ReportFailure(r) \/ FailRun(r)
    <3>1. RetryRun(r)
      BY <2>7 DEF ReportFailure, FailRun
    <3> QED  BY <2>2, <3>1 DEF RetryRun, Retried
  <2> QED  BY <2>3, <2>4, <2>5, <2>6, <2>7 DEF Work
<1> QED  BY <1>1, <1>2, <1>4, <1>5 DEF Turns, Runs

-----------------------------------------------------------------------------
(* The tree of the destination.                                            *)

LEMMA SubOfSub ==
  ASSUME NEW S, NEW p \in Seq(S), NEW i \in 1..Len(p), NEW j \in 1..i
  PROVE  Len(SubSeq(p, 1, i)) = i /\ SubSeq(SubSeq(p, 1, i), 1, j) = SubSeq(p, 1, j)
<1>1. /\ SubSeq(p, 1, i) \in Seq(S) /\ Len(SubSeq(p, 1, i)) = i
      /\ \A k \in 1..i : SubSeq(p, 1, i)[k] = p[k]
  OBVIOUS
<1> QED  BY <1>1

LEMMA AboveAbove ==
  ASSUME NEW p \in Path, NEW q \in Above(p)
  PROVE  Above(q) \subseteq Above(p) /\ q \in Path /\ q \notin Above(q)
<1>1. PICK S : p \in Seq(S)
  BY PathAssumption
<1>2. PICK i \in 1..(Len(p) - 1) : q = SubSeq(p, 1, i)
  BY DEF Above
<1>3. Len(p) \in Nat /\ i \in 1..Len(p)
  BY <1>1, <1>2
<1>4. Len(q) = i
  BY <1>1, <1>2, <1>3, SubOfSub
<1>5. ASSUME NEW z \in Above(q) PROVE z \in Above(p) /\ z # q
  <2>1. PICK j \in 1..(i - 1) : z = SubSeq(q, 1, j)
    BY <1>4 DEF Above
  <2>2. z = SubSeq(p, 1, j) /\ Len(z) = j
    BY <1>1, <1>2, <1>3, <2>1, SubOfSub
  <2>3. j \in 1..(Len(p) - 1) /\ j # i
    BY <1>2, <1>3, <2>1
  <2> QED  BY <1>4, <2>2, <2>3 DEF Above
<1>6. q \in Path
  BY PathAssumption
<1> QED  BY <1>5, <1>6

LEMMA AboveSource ==
  ASSUME NEW p \in Source
  PROVE  /\ p \in Path /\ Above(p) \subseteq Path /\ Above(p) \subseteq SourceDirs
         /\ p \notin SourceDirs /\ \A q \in Above(p) : q \notin Source
BY PathAssumption DEF SourceDirs

\* What is there and not reached lies below a file that is: walk up from it.
LEMMA TopMost ==
  ASSUME Types, Tree, NEW x \in Path, dest[x] # Nothing, ~Reached(x)
  PROVE  \E q \in Above(x) : Reached(q) /\ dest[q].kind = "file" /\ q \notin Source
<1>1. PICK S : x \in Seq(S)
  BY PathAssumption
<1> DEFINE Bad == {i \in 1..(Len(x) - 1) : dest[SubSeq(x, 1, i)] # Folder}
<1>2. Bad # {} /\ Bad \subseteq Nat
  <2>1. PICK q \in Above(x) : dest[q] # Folder
    BY DEF Reached
  <2>2. PICK i \in 1..(Len(x) - 1) : q = SubSeq(x, 1, i)
    BY <2>1 DEF Above
  <2>3. i \in Bad
    BY <2>1, <2>2
  <2> QED  BY <2>3
<1>3. PICK i \in Bad : \A j \in Bad : i <= j
  BY <1>2, LeastNatural
<1>4. PICK q : q = SubSeq(x, 1, i)
  OBVIOUS
<1>5. i \in 1..(Len(x) - 1) /\ q \in Above(x) /\ dest[q] # Folder
  BY <1>3, <1>4 DEF Above
<1>6. Len(x) \in Nat /\ i \in 1..Len(x)
  BY <1>1, <1>5
<1>7. Len(q) = i /\ \A j \in 1..i : SubSeq(q, 1, j) = SubSeq(x, 1, j)
  BY <1>1, <1>4, <1>6, SubOfSub
<1>8. Reached(q)
  <2> SUFFICES ASSUME NEW z \in Above(q) PROVE dest[z] = Folder
    BY DEF Reached
  <2>1. PICK j \in 1..(i - 1) : z = SubSeq(q, 1, j)
    BY <1>7 DEF Above
  <2>2. z = SubSeq(x, 1, j) /\ j \in 1..(Len(x) - 1) /\ j \in Nat /\ ~(i <= j)
    BY <1>5, <1>6, <1>7, <2>1
  <2> QED  BY <1>3, <2>2
<1>9. dest[q] # Nothing /\ q \notin Source
  BY <1>5 DEF Tree
<1>10. dest[q].kind = "file"
  BY <1>5, <1>9, AboveAbove DEF Types, IsEntry
<1> QED  BY <1>5, <1>8, <1>9, <1>10

LEMMA NoExtraIsNothingExtra ==
  ASSUME Types, Tree, AllExtra = {}
  PROVE  NothingExtra
<1> SUFFICES ASSUME NEW x \in Path, dest[x] # Nothing
             PROVE  /\ dest[x].kind = "file" => x \in Source
                    /\ dest[x] = Folder => x \in SourceDirs
  BY DEF NothingExtra, Folder, Nothing
<1>1. Reached(x)
  <2> SUFFICES ASSUME ~Reached(x) PROVE FALSE
    OBVIOUS
  <2>1. PICK q \in Above(x) : Reached(q) /\ dest[q].kind = "file" /\ q \notin Source
    BY TopMost
  <2> QED  BY <2>1, AboveAbove DEF AllExtra
<1> QED  BY <1>1 DEF AllExtra

-----------------------------------------------------------------------------
(* Each step keeps order.                                                  *)

LEMMA NobodyDeletes ==
  ASSUME Types, Turns, NEW r \in Run, NEW p \in Source, task[r][p].st \in Unended, NEW q \in Run
  PROVE  run[q].st \notin {"listing", "deleting"}
<1>1. Begun(r) /\ Tasks(r) # {}
  BY AtWorkHasBegun DEF Unended, Active, Tasks
<1> QED  BY <1>1, Alone DEF Turns

\* A transfer makes folders above its file and puts a file in its place.
Grows(r, p) ==
  \A z \in Path :
    \/ dest'[z] = dest[z]
    \/ dest[z] = Nothing /\ z \in Above(p) /\ dest'[z] = Folder /\ Opens(r, p)
    \/ dest[z] # Folder /\ z = p /\ dest'[z].kind = "file" /\ dest'[z].current /\ CommitFile(r, p)

LEMMA TransferGrows ==
  ASSUME Types, NEW r \in Run, NEW p \in Source,
         Transfer(r, p) \/ FailTransfer(r, p) \/ CancelTransfer(r, p)
  PROVE  Grows(r, p)
<1>1. CASE UNCHANGED dest
  BY <1>1 DEF Grows
<1>2. CASE Opens(r, p)
  BY <1>2 DEF Grows, Opens
<1>3. CASE CommitFile(r, p)
  <2>1. PICK v : v = IF dest[p] = Folder THEN Folder ELSE Stored(task[r][p].got, Encrypted[r], TRUE)
    OBVIOUS
  <2>2. dest' = [dest EXCEPT ![p] = v] /\ DOMAIN dest = Path
    BY <1>3, <2>1 DEF CommitFile, Types
  <2>3. dest[p] # Folder => v.kind = "file" /\ v.current
    BY <2>1 DEF Stored
  <2>4. dest[p] = Folder => v = Folder
    BY <2>1
  <2> QED  BY <1>3, <2>2, <2>3, <2>4 DEF Grows
<1> QED  BY <1>1, <1>2, <1>3, Opening DEF Transfer, Begin, Resume, StagePart, CreateFile, EndTransfer,
                                 FailTransfer, CancelTransfer

LEMMA Kinds ==
  /\ Nothing # Folder /\ Nothing.kind # "file" /\ Folder.kind # "file"
  /\ \A v : v.kind = "file" => v # Nothing /\ v # Folder
BY DEF Nothing, Folder

\* What a walk meets is extra; it meets all that is when no folder is too long.
LEMMA Walked ==
  ASSUME Types, Tree, NEW S \in Views
  PROVE  Extra(S) \subseteq AllExtra /\ (SeesAll => AllExtra \subseteq Extra(S))
<1>1. S \subseteq Path
  BY DEF Views, Present
<1>2. ASSUME SeesAll, NEW p \in Path, dest[p] # Nothing PROVE p \in S
  <2>1. Front(p) \in Parents /\ p \in In(Front(p))
    BY <1>2 DEF Parents, In, Present
  <2>2. FitsPage(Front(p))
    BY <1>2, <2>1 DEF SeesAll
  <2> QED  BY <2>1, <2>2 DEF Views
<1>3. ASSUME SeesAll, NEW p \in AllExtra PROVE p \in Extra(S)
  <2>1. p \in Path /\ Reached(p) /\ dest[p] # Nothing
    BY <1>3, Kinds DEF AllExtra
  <2>2. \A q \in Above(p) : q \in S
    BY <1>2, <1>3, <2>1, AboveAbove, Kinds DEF Reached
  <2> QED  BY <1>2, <1>3, <2>1, <2>2 DEF AllExtra, Extra
<1> QED  BY <1>1, <1>3 DEF Extra, AllExtra

\* A file is committed when the folders above it are there.
LEMMA TreeGrows ==
  ASSUME Types, Tree, Opened, NEW r \in Run, NEW p \in Source, Grows(r, p)
  PROVE  Tree'
<1> SUFFICES ASSUME NEW x \in Path, dest'[x] # Nothing, NEW q \in Above(x)
             PROVE  dest'[q] # Nothing /\ (q \in Source => dest'[q] = Folder)
  BY DEF Tree
<1>1. q \in Path /\ x \in Path
  BY AboveAbove
<1>2. \A z \in Path : dest[z] # Nothing => dest'[z] # Nothing
  BY Kinds DEF Grows
<1>3. \A z \in Path : dest[z] = Folder => dest'[z] = Folder
  BY Kinds DEF Grows
<1>4. CASE dest[x] # Nothing
  BY <1>1, <1>2, <1>3, <1>4 DEF Tree
<1>5. CASE dest[x] = Nothing /\ x = p
  <2>1. CommitFile(r, p)
    BY <1>1, <1>5, AboveSource, AboveAbove DEF Grows
  <2>2. dest[q] # Nothing
    BY <1>5, <2>1 DEF CommitFile, TypeOfTask, Opened
  <2> QED  BY <1>1, <1>2, <1>5, <2>2, AboveSource
<1>6. CASE dest[x] = Nothing /\ x # p
  <2>1. x \in Above(p) /\ Opens(r, p)
    BY <1>6 DEF Grows
  <2>2. p \in Path /\ q \in Above(p)
    BY <2>1, AboveSource, AboveAbove
  <2>3. dest'[q] # Nothing
    BY <1>1, <2>1, <2>2, Kinds DEF Opens
  <2> QED  BY <2>2, <2>3, AboveSource
<1> QED  BY <1>4, <1>5, <1>6

LEMMA OrderlyTransfer ==
  ASSUME Orderly, NEW r \in Run, NEW p \in Source,
         Transfer(r, p) \/ FailTransfer(r, p) \/ CancelTransfer(r, p)
  PROVE  Orderly'
<1> DEFINE t == task[r][p]
<1>1. /\ Types /\ Turns /\ Doomed /\ AllDoomed /\ Tree /\ Opened /\ Settled
      /\ Transfers(r, p) /\ Grows(r, p) /\ DOMAIN t = {"st", "tries", "next", "got"}
  BY TransferMoves, TransferGrows DEF Orderly, Types, IsTask
<1>2. Types' /\ Turns' /\ Tree'
  BY <1>1, TypesTransfer, TurnsTransfer, TreeGrows
<1>3. \A q \in Run : Tasks(q)' = Tasks(q) /\ (Untouched(q)' <=> Untouched(q)) /\ run'[q] = run[q]
  BY <1>1, TurnsTransfer DEF Transfers
<1>4. Doomed' /\ AllDoomed'
  <2>1. \A q \in Run : run[q].st \notin {"listing", "deleting"}
    BY <1>1, NobodyDeletes DEF Transfers
  <2>2. \A q \in Run : run'[q].st # "deleting" /\ run'[q].todo = {}
    BY <1>1, <1>3, <2>1 DEF Doomed
  <2> QED  BY <2>2 DEF Doomed, AllDoomed
<1>5. \A z \in Path : dest[z] # Nothing => dest'[z] # Nothing
  BY <1>1, Kinds DEF Grows
<1>6. task'[r][p].st \in {"resuming", "staging", "creating"} =>
        \/ Opens(r, p)
        \/ t.st \in {"resuming", "staging", "creating"}
  <2>1. \A f : Step(r, p, f) => task'[r][p] = f
    BY <1>1, TaskMoves
  <2>2. CASE Begin(r, p)
    BY <1>1, <2>1, <2>2 DEF Begin
  <2>3. CASE CommitFile(r, p)
    BY <1>1, <2>1, <2>3 DEF CommitFile
  <2>4. CASE EndTransfer(r, p)
    BY <1>1, <2>1, <2>4 DEF EndTransfer
  <2>5. CASE FailTransfer(r, p)
    BY <2>1, <2>5 DEF FailTransfer, Retry, Retried
  <2>6. CASE CancelTransfer(r, p)
    BY <1>1, <2>1, <2>6 DEF CancelTransfer
  <2>7. CASE Opens(r, p) \/ Resume(r, p) \/ StagePart(r, p) \/ CreateFile(r, p)
    BY <2>7 DEF Resume, StagePart, CreateFile, TypeOfTask
  <2> QED  BY <2>2, <2>3, <2>4, <2>5, <2>6, <2>7, Opening DEF Transfer
<1>7. Opened'
  <2> SUFFICES ASSUME NEW q \in Run, NEW x \in Source,
                      task'[q][x].st \in {"resuming", "staging", "creating"}
               PROVE  Size[x] > 0 /\ \A z \in Above(x) : dest'[z] # Nothing
    BY DEF Opened
  <2>1. CASE task[q][x].st \in {"resuming", "staging", "creating"}
    BY <1>1, <1>5, <2>1, AboveSource DEF Opened
  <2>2. CASE task[q][x].st \notin {"resuming", "staging", "creating"}
    <3>1. q = r /\ x = p /\ Opens(r, p)
      BY <1>1, <1>6, <2>2 DEF Transfers
    <3> QED  BY <3>1, AboveSource, Kinds DEF Opens
  <2> QED  BY <2>1, <2>2
<1>8. NoTask(r, p)' => \/ CommitFile(r, p)
                       \/ EndTransfer(r, p) /\ t.st = "recording"
  <2>1. \A f : Step(r, p, f) => task'[r][p] = f
    BY <1>1, TaskMoves
  <2>2. CASE Begin(r, p)
    BY <1>1, <2>1, <2>2 DEF Begin, NoTask
  <2>3. CASE Opens(r, p)
    BY <1>1, <2>1, <2>3 DEF Opens, NoTask
  <2>4. CASE Resume(r, p)
    BY <1>1, <2>1, <2>4 DEF Resume, NoTask
  <2>5. CASE StagePart(r, p)
    <3>1. task'[r][p] = [t EXCEPT !.next = t.next + 1]
      BY <2>1, <2>5 DEF StagePart
    <3>2. task'[r][p].st = "staging"
      BY <1>1, <2>5, <3>1 DEF StagePart, TypeOfTask
    <3> QED  BY <3>2 DEF NoTask
  <2>6. CASE CreateFile(r, p)
    BY <1>1, <2>1, <2>6 DEF CreateFile, NoTask
  <2>7. CASE FailTransfer(r, p)
    BY <2>1, <2>7 DEF FailTransfer, Retry, Retried, NoTask
  <2>8. CASE CancelTransfer(r, p)
    BY <1>1, <2>1, <2>8 DEF CancelTransfer, NoTask
  <2>9. CASE CommitFile(r, p) \/ EndTransfer(r, p)
    BY <2>9 DEF EndTransfer, TypeOfTask
  <2> QED  BY <2>2, <2>3, <2>4, <2>5, <2>6, <2>7, <2>8, <2>9, Opening DEF Transfer
<1>9. \A q \in Run : Inserted(q)' /\ (\A s \in Run : s > q => Untouched(s)') =>
        Inserted(q) /\ (\A s \in Run : s > q => Untouched(s)) /\ q = r
  <2> SUFFICES ASSUME NEW q \in Run, Inserted(q)', \A s \in Run : s > q => Untouched(s)'
               PROVE  Inserted(q) /\ (\A s \in Run : s > q => Untouched(s)) /\ q = r
    OBVIOUS
  <2>1. Inserted(q) /\ \A s \in Run : s > q => Untouched(s)
    BY <1>3 DEF Inserted
  <2>2. Begun(q) /\ Begun(r)
    BY <1>1, <2>1, AtWorkHasBegun DEF Inserted, Tasks, Transfers, Unended, Active
  <2>3. ~(r > q)
    BY <2>1, <2>2 DEF Begun
  <2>4. ~(r < q)
    BY <1>1, <2>2 DEF Turns, Transfers, Ended, Unended, Active
  <2> QED  BY <2>1, <2>3, <2>4, SyncAssumption
<1>10. ASSUME Inserted(r), \A s \in Run : s > r => Untouched(s)
       PROVE  /\ \A x \in Source : NoTask(r, x)' => Promised(r, x)'
              /\ Clears(r)' => NothingExtra'
  <2>1. /\ \A x \in Source : NoTask(r, x) => Promised(r, x)
        /\ Clears(r) => NothingExtra
    BY <1>1, <1>10 DEF Settled
  <2>2. Clears(r)' => NothingExtra'
    BY <1>1, <1>3, <2>1, AboveSource, Kinds DEF NothingExtra, Grows, Clears
  <2>3. \A x \in Source : Promised(r, x) => Promised(r, x)'
    BY <1>1, <1>5, AboveSource, Kinds DEF Promised, Grows
  <2>4. CommitFile(r, p) => Promised(r, p)'
    <3> SUFFICES ASSUME CommitFile(r, p) PROVE Promised(r, p)'
      OBVIOUS
    <3>1. PICK v : v = IF dest[p] = Folder THEN Folder ELSE Stored(t.got, Encrypted[r], TRUE)
      OBVIOUS
    <3>2. dest' = [dest EXCEPT ![p] = v] /\ DOMAIN dest = Path /\ p \in Path
      BY <1>1, <3>1, AboveSource DEF CommitFile, Types
    <3>3. dest'[p] = v
      BY <3>2
    <3>4. dest[p] # Folder => v.kind = "file" /\ v.current
      BY <3>1 DEF Stored
    <3>5. v # Nothing /\ (v.kind = "file" => v.current)
      BY <3>1, <3>4, Kinds
    <3> QED  BY <3>3, <3>5 DEF Promised
  <2>5. NoTask(r, p)' => Promised(r, p)'
    BY <1>8, <2>1, <2>3, <2>4 DEF NoTask
  <2>6. \A x \in Source : x # p => task'[r][x] = task[r][x]
    BY <1>1 DEF Transfers
  <2>7. \A x \in Source : x # p => (NoTask(r, x)' <=> NoTask(r, x))
    BY <2>6 DEF NoTask
  <2> QED  BY <2>1, <2>2, <2>3, <2>5, <2>7
<1>11. \A q \in Run, x \in Source : run'[q].st = "completed" => task'[q][x].st \in {"none", "completed"}
  <2> SUFFICES ASSUME NEW q \in Run, NEW x \in Source, run'[q].st = "completed"
               PROVE  task'[q][x].st \in {"none", "completed"}
    OBVIOUS
  <2>1. task[q][x].st \in {"none", "completed"}
    BY <1>1, <1>3 DEF Settled
  <2> QED  BY <1>1, <2>1 DEF Transfers, Unended, Active
<1>12. Settled'
  BY <1>9, <1>10, <1>11 DEF Settled
<1> QED  BY <1>2, <1>4, <1>7, <1>12 DEF Orderly

LEMMA RunField ==
  ASSUME Types, NEW r \in Run, NEW st, RunStep(r, [run[r] EXCEPT !.st = st])
  PROVE  run'[r].st = st /\ run'[r].todo = run[r].todo /\ run'[r].all = run[r].all
<1>1. DOMAIN run[r] = {"st", "tries", "todo", "all"}
  BY DEF Types, IsRun
<1> QED  BY <1>1, RunMoves, RunFields

LEMMA RunFieldTodo ==
  ASSUME Types, NEW r \in Run, NEW S, RunStep(r, [run[r] EXCEPT !.todo = S])
  PROVE  run'[r].st = run[r].st /\ run'[r].todo = S /\ run'[r].all = run[r].all
<1>1. DOMAIN run[r] = {"st", "tries", "todo", "all"}
  BY DEF Types, IsRun
<1>2. PICK f : f = [run[r] EXCEPT !.todo = S]
  OBVIOUS
<1>3. run'[r] = f
  BY <1>2, RunMoves
<1> QED  BY <1>1, <1>2, <1>3, RunFields

\* What a run writes about itself.
LEMMA RunWrites ==
  ASSUME Types, NEW r \in Run, Work(r) \/ FailRun(r)
  PROVE  /\ run'[r].st = "listing" => BeginRun(r) /\ Tasks(r) = {}
         /\ run'[r].st = "deleting" => ListExtra(r) \/ DeleteExtra(r)
         /\ run'[r].st = "summary" => InsertTasks(r) \/ (BeginRun(r) /\ Tasks(r) # {})
         /\ run'[r].st = "completed" => CompleteRun(r)
         /\ run'[r] # NewRun \/ (Snooze(r) /\ Tasks(r) # {})
         /\ ~ListExtra(r) /\ ~DeleteExtra(r) => run'[r].todo = {} \/ run'[r].todo = run[r].todo
         /\ ~ListExtra(r) => run'[r].all = run[r].all
<1>1. IsRun(run[r]) /\ DOMAIN run[r] = {"st", "tries", "todo", "all"}
  BY DEF Types, IsRun
<1>2. NewRun.st = "waiting" /\ NewRun.tries = 0
  BY DEF NewRun
<1>3. CASE BeginRun(r)
  <2>1. PICK st : st = (IF Tasks(r) # {} THEN "summary" ELSE "listing")
                  /\ RunStep(r, [run[r] EXCEPT !.st = st])
    BY <1>3 DEF BeginRun
  <2>2. run'[r].st = st /\ run'[r].todo = run[r].todo /\ run'[r].all = run[r].all
    BY <2>1, RunField
  <2> QED  BY <1>2, <1>3, <2>1, <2>2
<1>4. CASE ListExtra(r)
  <2>1. run'[r].st = "deleting"
    BY <1>4, Lists
  <2> QED  BY <1>2, <1>4, <2>1
<1>5. CASE DeleteExtra(r)
  <2>1. PICK S : RunStep(r, [run[r] EXCEPT !.todo = S]) /\ run[r].st = "deleting"
    BY <1>5 DEF DeleteExtra
  <2>2. run'[r].st = "deleting" /\ run'[r].all = run[r].all
    BY <2>1, RunFieldTodo
  <2> QED  BY <1>2, <1>5, <2>2
<1>6. CASE InsertTasks(r)
  <2>1. run'[r].st = "summary" /\ run'[r].todo = run[r].todo /\ run'[r].all = run[r].all
    BY <1>6, RunField DEF InsertTasks
  <2> QED  BY <1>2, <1>6, <2>1
<1>7. CASE Snooze(r)
  <2>1. run'[r].st = "waiting" /\ run'[r].todo = run[r].todo /\ run'[r].all = run[r].all
    BY <1>7, RunField DEF Snooze
  <2>2. Tasks(r) # {}
    BY <1>7 DEF Snooze, Transferred
  <2> QED  BY <1>7, <2>1, <2>2
<1>8. CASE CompleteRun(r)
  <2>1. run'[r].st = "completed" /\ run'[r].todo = run[r].todo /\ run'[r].all = run[r].all
    BY <1>8, RunField DEF CompleteRun
  <2> QED  BY <1>2, <1>8, <2>1
<1>9. CASE ReportFailure(r) \/ FailRun(r)
  <2>1. RetryRun(r)
    BY <1>9 DEF ReportFailure, FailRun
  <2>2. PICK f : f = [st |-> Retried("waiting", run[r].tries), tries |-> run[r].tries + 1, todo |-> {},
                  all |-> run[r].all]
    OBVIOUS
  <2>3. run'[r] = f
    BY <2>1, <2>2, RunMoves DEF RetryRun
  <2>4. f.tries = run[r].tries + 1 /\ f.tries # 0
    BY <1>1, <2>2, SyncAssumption DEF IsRun, Tries
  <2>5. f.st \in {"waiting", "discarded"} /\ f.todo = {} /\ f.all = run[r].all
    BY <2>2 DEF Retried
  <2> QED  BY <1>2, <2>3, <2>4, <2>5
<1> QED  BY <1>3, <1>4, <1>5, <1>6, <1>7, <1>8, <1>9 DEF Work

LEMMA DeletesOnly ==
  ASSUME Types, NEW r \in Run, Work(r) \/ FailRun(r)
  PROVE  \/ UNCHANGED dest
         \/ \E p \in run[r].todo :
              /\ p \in Path /\ run[r].st = "deleting" /\ dest' = Deleted(p) /\ UNCHANGED <<rows, task>>
              /\ run'[r].st = "deleting" /\ run'[r].todo = run[r].todo \ {p}
<1>1. IsRun(run[r]) /\ DOMAIN run[r] = {"st", "tries", "todo", "all"}
  BY DEF Types, IsRun
<1>2. CASE DeleteExtra(r)
  <2>1. PICK p \in DeleteNext(run[r].todo) :
          dest' = Deleted(p) /\ RunStep(r, [run[r] EXCEPT !.todo = run[r].todo \ {p}])
    BY <1>2 DEF DeleteExtra
  <2>2. run'[r].st = run[r].st /\ run'[r].todo = run[r].todo \ {p}
    <3>1. PICK S : S = run[r].todo \ {p}
      OBVIOUS
    <3>2. PICK f : f = [run[r] EXCEPT !.todo = S]
      OBVIOUS
    <3>3. f.st = run[r].st /\ f.todo = S
      BY <1>1, <3>2, RunFields
    <3>4. run'[r] = f
      BY <2>1, <3>1, <3>2, RunMoves
    <3> QED  BY <3>1, <3>3, <3>4
  <2>3. p \in run[r].todo /\ p \in Path
    BY <1>1, <2>1 DEF DeleteNext, IsRun
  <2> QED  BY <1>2, <2>1, <2>2, <2>3 DEF DeleteExtra
<1> QED  BY <1>2 DEF Work, BeginRun, ListExtra, InsertTasks, Snooze, CompleteRun, ReportFailure, FailRun

LEMMA TreeShrinks ==
  ASSUME Types, Tree, NEW p \in Path, dest' = Deleted(p)
  PROVE  Tree' /\ AllExtra' \subseteq AllExtra \ {p}
<1>1. \A x \in Path : dest'[x] # Nothing => dest'[x] = dest[x] /\ x # p /\ p \notin Above(x)
  BY DEF Deleted
<1>2. \A x \in Path : x # p /\ p \notin Above(x) => dest'[x] = dest[x]
  BY DEF Deleted
<1>3. \A x \in Path : dest'[x] # Nothing => \A q \in Above(x) : dest'[q] = dest[q]
  <2> SUFFICES ASSUME NEW x \in Path, dest'[x] # Nothing, NEW q \in Above(x)
               PROVE  dest'[q] = dest[q]
    OBVIOUS
  <2>1. p # q /\ p \notin Above(q) /\ q \in Path
    BY <1>1, AboveAbove
  <2> QED  BY <1>2, <2>1
<1>4. Tree'
  BY <1>1, <1>3 DEF Tree
<1>5. ASSUME NEW x \in AllExtra' PROVE x \in AllExtra \ {p}
  <2>1. x \in Path /\ Reached(x)'
    BY <1>5 DEF AllExtra
  <2>2. dest'[x] # Nothing
    BY <1>5, Kinds DEF AllExtra
  <2>3. dest'[x] = dest[x] /\ x # p
    BY <1>1, <2>1, <2>2
  <2>4. Reached(x)
    BY <1>3, <2>1, <2>2 DEF Reached
  <2> QED  BY <1>5, <2>1, <2>3, <2>4 DEF AllExtra
<1> QED  BY <1>4, <1>5

LEMMA OrderlyRun ==
  ASSUME OneAfterTheOther, Orderly, NEW r \in Run, Work(r) \/ FailRun(r)
  PROVE  Orderly'
<1>1. /\ Types /\ Turns /\ Doomed /\ AllDoomed /\ Tree /\ Opened /\ Settled /\ Runs(r)
  BY RunsMove DEF Orderly
<1>2. Types' /\ Turns'
  BY <1>1, TypesRun, TurnsRun
<1>4. ASSUME ~UNCHANGED dest
      PROVE  /\ run[r].st = "deleting" /\ run'[r].st = "deleting" /\ UNCHANGED task
             /\ \E p \in run[r].todo : p \in Path /\ dest' = Deleted(p)
                                       /\ run'[r].todo = run[r].todo \ {p}
  BY <1>1, <1>4, DeletesOnly
<1>5. Tree' /\ (\A x \in Path : dest'[x] # Nothing => dest'[x] = dest[x])
  <2>1. CASE UNCHANGED dest
    BY <1>1, <2>1 DEF Tree
  <2>2. CASE ~UNCHANGED dest
    <3>1. PICK p \in Path : dest' = Deleted(p)
      BY <1>4, <2>2
    <3> QED  BY <1>1, <3>1, TreeShrinks DEF Deleted
  <2> QED  BY <2>1, <2>2
<1>6. \A q \in Run, x \in Source : run[r].st = "deleting" => task[q][x].st \notin Unended
  <2> SUFFICES ASSUME NEW q \in Run, NEW x \in Source, run[r].st = "deleting"
               PROVE  task[q][x].st \notin Unended
    OBVIOUS
  <2>1. CASE q = r
    BY <1>1, <2>1 DEF Turns, Tasks, Unended, Active
  <2>2. CASE q # r
    <3>1. Begun(r) /\ ~RunEnded(r)
      BY <1>1, AtWorkHasBegun DEF Runs
    <3> QED  BY <1>1, <2>2, <3>1, Alone
  <2> QED  BY <2>1, <2>2
<1>7. \A q \in Run : q # r => /\ run'[q] = run[q] /\ Tasks(q)' = Tasks(q)
                              /\ \A x \in Source : task'[q][x] = task[q][x]
  BY <1>1 DEF Runs, Tasks
<1>8. \A q \in Run, x \in Source : task'[q][x] # task[q][x] => q = r /\ InsertTasks(r)
  <2>1. UNCHANGED task \/ InsertTasks(r)
    BY DEF Work, BeginRun, ListExtra, DeleteExtra, Snooze, CompleteRun, ReportFailure, FailRun
  <2> QED  BY <1>7, <2>1
<1>9. InsertTasks(r) =>
        \A x \in Source : task'[r][x].st = IF Skipped(r, x) THEN "none" ELSE "waiting"
  <2> SUFFICES ASSUME InsertTasks(r)
               PROVE  \A x \in Source : task'[r][x].st = IF Skipped(r, x) THEN "none" ELSE "waiting"
    OBVIOUS
  <2>1. PICK T : T = [x \in Source |-> IF Skipped(r, x) THEN NewTask
                                     ELSE [NewTask EXCEPT !.st = "waiting"]]
    OBVIOUS
  <2>2. task' = [task EXCEPT ![r] = T] /\ DOMAIN task = Run
    BY <1>1, <2>1 DEF InsertTasks, Types
  <2>3. \A x \in Source : T[x].st = IF Skipped(r, x) THEN "none" ELSE "waiting"
    BY <2>1 DEF NewTask
  <2> QED  BY <2>2, <2>3
<1>10. Opened'
  <2> SUFFICES ASSUME NEW q \in Run, NEW x \in Source,
                      task'[q][x].st \in {"resuming", "staging", "creating"}
               PROVE  Size[x] > 0 /\ \A z \in Above(x) : dest'[z] # Nothing
    BY DEF Opened
  <2>1. task'[q][x] = task[q][x]
    BY <1>8, <1>9
  <2>2. UNCHANGED dest
    BY <1>4, <1>6, <2>1 DEF Unended, Active
  <2> QED  BY <1>1, <2>1, <2>2 DEF Opened
<1>11. run[r].st # "deleting" => UNCHANGED dest
  BY <1>4
<1>12. Doomed'
  <2> SUFFICES ASSUME NEW q \in Run
               PROVE  /\ run'[q].st # "deleting" => run'[q].todo = {}
                      /\ \A p \in run'[q].todo : /\ dest'[p].kind = "file" => p \notin Source
                                                 /\ dest'[p] = Folder => p \notin SourceDirs
    BY DEF Doomed
  <2>1. \A p \in Path : p \in run[q].todo => /\ dest'[p].kind = "file" => p \notin Source
                                             /\ dest'[p] = Folder => p \notin SourceDirs
    BY <1>1, <1>5, Kinds DEF Doomed
  <2>2. run[q].todo \subseteq Path /\ run'[q].todo \subseteq Path
    BY <1>1, <1>2 DEF Types, IsRun
  <2>3. CASE q # r
    BY <1>1, <1>7, <2>1, <2>2, <2>3 DEF Doomed
  <2>4. CASE q = r /\ ListExtra(r)
    <3>1. PICK S \in Views : run'[r].todo = IF Mirror[r] THEN Extra(S) ELSE {}
      BY <1>1, <2>4, Lists
    <3>2. run'[r].st = "deleting" /\ UNCHANGED dest
      BY <1>1, <2>4, Lists
    <3> QED  BY <2>4, <3>1, <3>2, Kinds DEF Extra
  <2>5. CASE q = r /\ DeleteExtra(r)
    <3>1. run[r].st = "deleting" /\ run'[r].st = "deleting" /\ run'[r].todo \subseteq run[r].todo
      <4>1. PICK p \in DeleteNext(run[r].todo) :
              RunStep(r, [run[r] EXCEPT !.todo = run[r].todo \ {p}]) /\ run[r].st = "deleting"
        BY <2>5 DEF DeleteExtra
      <4>2. PICK S : S = run[r].todo \ {p}
        OBVIOUS
      <4>3. run'[r].st = run[r].st /\ run'[r].todo = S
        BY <1>1, <4>1, <4>2, RunFieldTodo
      <4> QED  BY <4>1, <4>2, <4>3
    <3> QED  BY <2>1, <2>2, <2>5, <3>1
  <2>6. CASE q = r /\ ~ListExtra(r) /\ ~DeleteExtra(r)
    <3>1. run'[r].st # "deleting"
      BY <1>1, <2>6, RunWrites
    <3>2. run'[r].todo = {}
      <4>1. CASE run[r].st # "deleting"
        BY <1>1, <2>6, <4>1, RunWrites DEF Doomed
      <4>2. CASE run[r].st = "deleting"
        <5>1. InsertTasks(r) \/ FailRun(r)
          BY <2>6, <4>2 DEF Work, BeginRun, Snooze, CompleteRun, ReportFailure
        <5>2. CASE InsertTasks(r)
          BY <1>1, <5>2, RunField DEF InsertTasks
        <5>3. CASE FailRun(r)
          BY <1>1, <5>3, RunMoves DEF FailRun, RetryRun
        <5> QED  BY <5>1, <5>2, <5>3
      <4> QED  BY <4>1, <4>2
    <3> QED  BY <2>6, <3>1, <3>2
  <2> QED  BY <2>3, <2>4, <2>5, <2>6
<1>13. ~Untouched(r)'
  <2>1. CASE run'[r] # NewRun
    BY <2>1 DEF Untouched
  <2>2. CASE Snooze(r) /\ Tasks(r) # {}
    <3>1. Tasks(r)' = Tasks(r)
      BY <2>2 DEF Snooze, Tasks
    <3> QED  BY <2>2, <3>1 DEF Untouched
  <2> QED  BY <1>1, <2>1, <2>2, RunWrites
<1>14. AllDoomed'
  <2> SUFFICES ASSUME NEW q \in Run, run'[q].st = "deleting", Clears(q)'
               PROVE  AllExtra' \subseteq run'[q].todo
    BY DEF AllDoomed
  <2>1. CASE q # r
    <3>1. run[q].st = "deleting"
      BY <1>7, <2>1
    <3>2. Begun(q) /\ ~RunEnded(q)
      BY <3>1, AtWorkHasBegun DEF RunEnded
    <3>3. Begun(r)' /\ (BeginRun(r) \/ Begun(r))
      <4>1. BeginRun(r) \/ run[r].st # "waiting"
        BY DEF Work, ListExtra, DeleteExtra, InsertTasks, Snooze, CompleteRun, ReportFailure, FailRun
      <4> QED  BY <1>13, <4>1, AtWorkHasBegun DEF Begun
    <3>4. ~(q < r) /\ ~(r < q)
      <4>1. r < q => FALSE
        BY <1>1, <3>2 DEF Turns, Runs
      <4>2. q < r => FALSE
        BY <1>1, <3>2, <3>3 DEF Turns, BeginRun
      <4> QED  BY <4>1, <4>2
    <3> QED  BY <2>1, <3>4, SyncAssumption
  <2>2. CASE q = r /\ ListExtra(r)
    <3>1. Mirror[r] /\ run'[r].all
      BY <2>2 DEF Clears
    <3>2. PICK S \in Views : run'[r].todo = Extra(S)
      BY <1>1, <2>2, <3>1, Lists
    <3>3. SeesAll /\ UNCHANGED dest
      BY <1>1, <2>2, <3>1, Lists
    <3>4. AllExtra' = AllExtra
      BY <3>3 DEF AllExtra, Reached
    <3> QED  BY <1>1, <2>2, <3>2, <3>3, <3>4, Walked
  <2>3. CASE q = r /\ DeleteExtra(r)
    <3>1. PICK p \in DeleteNext(run[r].todo) :
            /\ dest' = Deleted(p) /\ RunStep(r, [run[r] EXCEPT !.todo = run[r].todo \ {p}])
            /\ run[r].st = "deleting"
      BY <2>3 DEF DeleteExtra
    <3>2. run'[r].todo = run[r].todo \ {p}
      <4>1. PICK S : S = run[r].todo \ {p}
        OBVIOUS
      <4>2. run'[r].todo = S
        BY <1>1, <3>1, <4>1, RunFieldTodo
      <4> QED  BY <4>1, <4>2
    <3>3. p \in Path
      BY <1>1, <3>1 DEF DeleteNext, Types, IsRun
    <3>4. AllExtra' \subseteq AllExtra \ {p}
      BY <1>1, <3>1, <3>3, TreeShrinks
    <3>5. AllExtra \subseteq run[r].todo
      <4>1. run'[r].all = run[r].all
        <5>1. \E S : RunStep(r, [run[r] EXCEPT !.todo = S])
          BY <3>1
        <5> QED  BY <1>1, <5>1, RunFieldTodo
      <4> QED  BY <1>1, <2>3, <3>1, <4>1 DEF AllDoomed, Clears
    <3> QED  BY <2>3, <3>2, <3>4, <3>5
  <2> QED  BY <1>1, <2>1, <2>2, <2>3, RunWrites
<1>15. \A s \in Run : Untouched(s)' => Untouched(s)
  BY <1>7, <1>13 DEF Untouched
<1>16. ASSUME NEW q \in Run, Inserted(q)', \A s \in Run : s > q => Untouched(s)'
       PROVE  /\ \A p \in Source : NoTask(q, p)' => Promised(q, p)'
              /\ Clears(q)' => NothingExtra'
  <2>1. ~(r > q) /\ \A s \in Run : s > q => Untouched(s)
    BY <1>13, <1>15, <1>16
  <2>2. CASE InsertTasks(r) /\ q = r
    <3>1. UNCHANGED dest /\ run[r].st = "deleting" /\ run[r].todo = {}
      BY <2>2 DEF InsertTasks
    <3>2. Clears(r)' => NothingExtra'
      <4>0. Clears(r)' <=> Clears(r)
        BY <1>1, <2>2, RunField DEF InsertTasks, Clears
      <4>1. Clears(r) => AllExtra = {}
        BY <1>1, <3>1 DEF AllDoomed
      <4>2. Clears(r) => NothingExtra
        BY <1>1, <4>1, NoExtraIsNothingExtra
      <4> QED  BY <3>1, <4>0, <4>2 DEF NothingExtra
    <3>3. ASSUME NEW p \in Source, NoTask(r, p)' PROVE Promised(r, p)'
      <4>1. Skipped(r, p)
        BY <1>9, <2>2, <3>3 DEF NoTask
      <4>2. Promised(r, p)
        BY <4>1, Kinds DEF Skipped, SameFingerprint, Exists, Promised
      <4> QED  BY <3>1, <4>2 DEF Promised
    <3> QED  BY <2>2, <3>2, <3>3
  <2>3. CASE ~(InsertTasks(r) /\ q = r)
    <3>1. \A p \in Source : task'[q][p] = task[q][p]
      BY <1>8, <2>3
    <3>2. Inserted(q)
      <4>1. CASE q # r
        BY <1>7, <1>16, <4>1 DEF Inserted
      <4>2. CASE q = r
        <5>1. Tasks(r)' = Tasks(r)
          BY <3>1, <4>2 DEF Tasks
        <5>2. run'[r].st = "summary" => Tasks(r) # {}
          BY <1>1, <2>3, <4>2, RunWrites
        <5>3. run'[r].st = "completed" => run[r].st = "summary"
          BY <1>1, RunWrites DEF CompleteRun
        <5> QED  BY <1>16, <4>2, <5>1, <5>2, <5>3 DEF Inserted
      <4> QED  BY <4>1, <4>2
    <3>3. UNCHANGED dest
      <4> SUFFICES ASSUME ~UNCHANGED dest PROVE FALSE
        OBVIOUS
      <4>1. run[r].st = "deleting" /\ Tasks(r) = {}
        BY <1>1, <1>4 DEF Turns
      <4>2. q # r
        BY <3>2, <4>1 DEF Inserted
      <4>3. Begun(q)
        BY <3>2, AtWorkHasBegun DEF Inserted, Tasks
      <4>4. ~(r < q)
        BY <1>1, <4>1, <4>3 DEF Turns, RunEnded
      <4> QED  BY <2>1, <4>2, <4>4, SyncAssumption
    <3>4. (\A p \in Source : NoTask(q, p) => Promised(q, p)) /\ (Clears(q) => NothingExtra)
      BY <1>1, <2>1, <3>2 DEF Settled
    <3>5. Clears(q)' <=> Clears(q)
      <4>1. CASE q # r
        BY <1>7, <4>1 DEF Clears
      <4>2. CASE q = r
        <5>1. ~ListExtra(r)
          BY <1>1, <3>2, <4>2, Lists DEF Inserted, Turns
        <5> QED  BY <1>1, <4>2, <5>1, RunWrites DEF Clears
      <4> QED  BY <4>1, <4>2
    <3> QED  BY <3>1, <3>3, <3>4, <3>5 DEF NoTask, Promised, NothingExtra
  <2> QED  BY <2>2, <2>3
<1>17. \A q \in Run, x \in Source : run'[q].st = "completed" => task'[q][x].st \in {"none", "completed"}
  <2> SUFFICES ASSUME NEW q \in Run, NEW x \in Source, run'[q].st = "completed"
               PROVE  task'[q][x].st \in {"none", "completed"}
    OBVIOUS
  <2>1. CASE q # r
    BY <1>1, <1>7, <2>1 DEF Settled
  <2>2. CASE q = r
    <3>1. CompleteRun(r)
      BY <1>1, <2>2, RunWrites
    <3> QED  BY <2>2, <3>1 DEF CompleteRun, Transferred, Tasks
  <2> QED  BY <2>1, <2>2
<1>18. Settled'
  BY <1>16, <1>17 DEF Settled
<1> QED  BY <1>2, <1>5, <1>10, <1>12, <1>14, <1>18 DEF Orderly

LEMMA OrderlyClean ==
  ASSUME Orderly, NEW p \in Source, CleanStale(p)
  PROVE  Orderly'
<1>1. Types' /\ UNCHANGED <<dest, run, task>>
  BY TypesClean DEF Orderly, CleanStale
<1> QED  BY <1>1 DEF Orderly, Turns, Begun, Untouched, RunEnded, Ended, Tasks, Doomed, AllDoomed, AllExtra,
                     Clears, Reached, Tree, Opened, Settled, Inserted, NoTask, Promised, NothingExtra

LEMMA OrderlyInit == Init => Orderly
<1> SUFFICES ASSUME Init PROVE Orderly
  OBVIOUS
<1>1. Types
  BY TypesInit
<1>2. /\ dest \in Before
      /\ \A r \in Run : run[r] = NewRun /\ \A p \in Source : task[r][p] = NewTask
  BY DEF Init
<1>3. /\ NewRun.st = "waiting" /\ NewRun.todo = {}
      /\ NewTask.st = "none"
  BY DEF NewRun, NewTask
<1>4. \A r \in Run : Tasks(r) = {} /\ Untouched(r)
  BY <1>2, <1>3 DEF Tasks, Untouched
<1>5. Turns /\ Doomed /\ AllDoomed /\ Opened /\ Settled
  BY <1>2, <1>3, <1>4 DEF Turns, Begun, Doomed, AllDoomed, Opened, Settled, Inserted
<1>6. Tree
  BY <1>2, PathAssumption, AboveSource, Kinds DEF Tree
<1> QED  BY <1>1, <1>5, <1>6 DEF Orderly

LEMMA OrderlyStep == OneAfterTheOther /\ Orderly /\ [Next]_vars => Orderly'
<1> SUFFICES ASSUME OneAfterTheOther, Orderly, [Next]_vars PROVE Orderly'
  OBVIOUS
<1>1. CASE UNCHANGED vars
  BY <1>1 DEF vars, Orderly, Types, Turns, Begun, Untouched, RunEnded, Ended, Tasks, Doomed, AllDoomed,
              AllExtra, Clears, Reached, Tree, Opened, Settled, Inserted, NoTask, Promised, NothingExtra
<1> QED  BY <1>1, OrderlyTransfer, OrderlyRun, OrderlyClean DEF Next

-----------------------------------------------------------------------------
(* What a run does to the destination.                                     *)

\* Every state has its type, whatever the liberties and the options of the runs.
THEOREM TypeCorrect == Spec => []TypeOK
<1>1. Types => TypeOK
  <2> SUFFICES ASSUME Types PROVE TypeOK
    OBVIOUS
  <2>1. \A p \in Source : \A i \in DOMAIN rows[p] : rows[p][i].no \in Nat \ {0}
    <3> SUFFICES ASSUME NEW p \in Source, NEW i \in DOMAIN rows[p] PROVE rows[p][i].no \in Nat \ {0}
      OBVIOUS
    <3>1. rows[p] \in Seq(UploadRow)
      BY DEF Types
    <3>2. rows[p][i] \in UploadRow
      BY <3>1
    <3> QED  BY <3>2 DEF UploadRow
  <2> QED  BY <2>1 DEF Types, TypeOK, IsEntry, IsRun, IsTask, Tries, RunState, TaskState
<1> QED  BY <1>1, TypesInit, TypesStep, PTL DEF Spec

THEOREM OrderlyRuns == ASSUME OneAfterTheOther PROVE Spec => []Orderly
BY OrderlyInit, OrderlyStep, PTL DEF Spec

\* A file of the source is replaced but never missing, not even while a run
\* deletes what is extra: what it deletes was extra when it was listed, and no
\* transfer came between (extraDestinationEntries).
THEOREM SourceIsKept == ASSUME OneAfterTheOther PROVE Spec => SourceKept
<1> DEFINE Kept == \A p \in Source : dest[p].kind = "file" /\ Reached(p) => dest'[p].kind = "file"
<1>1. Orderly /\ [Next]_vars => [Kept]_vars
  <2> SUFFICES ASSUME Orderly, Next, NEW p \in Source, dest[p].kind = "file", Reached(p)
               PROVE  dest'[p].kind = "file"
    OBVIOUS
  <2>0. p \in Path /\ Types
    BY AboveSource DEF Orderly
  <2>1. CASE \E r \in Run, x \in Source : Transfer(r, x) \/ FailTransfer(r, x) \/ CancelTransfer(r, x)
    BY <2>0, <2>1, TransferGrows, Kinds DEF Grows
  <2>2. ASSUME NEW r \in Run, Work(r) \/ FailRun(r) PROVE dest'[p].kind = "file"
    <3>1. CASE UNCHANGED dest
      BY <3>1
    <3>2. CASE ~UNCHANGED dest
      <4>1. PICK x \in run[r].todo : x \in Path /\ dest' = Deleted(x)
        BY <2>0, <2>2, <3>2, DeletesOnly
      <4>2. x # p
        BY <4>1 DEF Orderly, Doomed
      <4>3. x \notin Above(p)
        BY <4>1, AboveSource DEF Orderly, Doomed, Reached
      <4> QED  BY <2>0, <4>1, <4>2, <4>3 DEF Deleted
    <3> QED  BY <3>1, <3>2
  <2>3. CASE \E x \in Source : CleanStale(x)
    BY <2>3 DEF CleanStale
  <2> QED  BY <2>1, <2>2, <2>3 DEF Next
<1>2. Spec => []Orderly
  BY OrderlyRuns
<1> QED  BY <1>1, <1>2, PTL DEF Spec, SourceKept

\* A completed run, after which no other began, left something at every path of
\* the source, and a mirroring one no older version; a mirroring run whose listing
\* showed every entry left what the source has and nothing else.  Of a folder with
\* more entries than FilesList shows (PageCap) it promises only the first part
\* (extraDestinationEntries, initializeSyncWorkflow, summarizeSyncWorkflow).
THEOREM MirroredHolds == ASSUME OneAfterTheOther PROVE Spec => []Mirrored
<1>1. Orderly => Mirrored
  <2> SUFFICES ASSUME Orderly, NEW r \in Run, run[r].st = "completed", \A q \in Run : q > r => Untouched(q)
               PROVE  /\ \A p \in Source : Promised(r, p)
                      /\ Clears(r) => /\ {p \in Path : dest[p].kind = "file"} = Source
                                      /\ {p \in Path : dest[p] = Folder} = SourceDirs
    BY DEF Mirrored, Promised, Clears
  <2>1. \A p \in Source : NoTask(r, p)
    BY DEF Orderly, Settled, NoTask
  <2>2. (\A p \in Source : Promised(r, p)) /\ (Clears(r) => NothingExtra)
    BY <2>1 DEF Orderly, Settled, Inserted
  <2>3. CASE Clears(r)
    <3>1. ASSUME NEW p \in Source PROVE p \in Path /\ dest[p].kind = "file"
      <4>1. p \in Path /\ dest[p] # Nothing /\ dest[p] # Folder
        BY <2>2, <2>3, AboveSource DEF Promised, NothingExtra
      <4> QED  BY <4>1 DEF Orderly, Types, IsEntry
    <3>2. {p \in Path : dest[p].kind = "file"} = Source
      BY <2>2, <2>3, <3>1 DEF NothingExtra
    <3>3. ASSUME NEW q \in SourceDirs PROVE q \in Path /\ dest[q] = Folder
      <4>1. PICK p \in Source : q \in Above(p)
        BY DEF SourceDirs
      <4>2. q \in Path /\ q \notin Source /\ p \in Path
        BY <4>1, AboveSource
      <4>3. dest[q] # Nothing
        BY <3>1, <4>1, <4>2, Kinds DEF Orderly, Tree
      <4>4. dest[q].kind # "file"
        BY <3>2, <4>2
      <4> QED  BY <4>2, <4>3, <4>4 DEF Orderly, Types, IsEntry
    <3>4. {p \in Path : dest[p] = Folder} = SourceDirs
      BY <2>2, <2>3, <3>3 DEF NothingExtra
    <3> QED  BY <2>2, <3>2, <3>4
  <2> QED  BY <2>2, <2>3
<1> QED  BY <1>1, OrderlyRuns, PTL

-----------------------------------------------------------------------------
(* What is in the files.                                                   *)

LEMMA SameForAll ==
  ASSUME SameParts, NEW q \in Run, NEW r \in Run, NEW p
  PROVE  TotalParts(q, p) = TotalParts(r, p) /\ \A n : FirstOf(q, p, n) = FirstOf(r, p, n)
<1>1. PartSize[q] = PartSize[r] /\ Encrypted[q] = Encrypted[r]
  BY DEF SameParts
<1>2. \A i : PartAt(q, p, i) = PartAt(r, p, i)
  BY <1>1 DEF PartAt, Start, Expected
<1> QED  BY <1>1, <1>2 DEF TotalParts, FirstOf

LEMMA FirstIs ==
  ASSUME NEW r \in Run, NEW p \in Source, NEW n \in 0..TotalParts(r, p)
  PROVE  /\ n \in Nat /\ TotalParts(r, p) \in Nat
         /\ DOMAIN FirstOf(r, p, n) = 1..n /\ Len(FirstOf(r, p, n)) = n
         /\ FirstOf(r, p, n) = [i \in 1..n |-> FirstOf(r, p, n)[i]]
         /\ \A i \in 1..n : FirstOf(r, p, n)[i] = PartAt(r, p, i) /\ FirstOf(r, p, n)[i].no = i
<1>1. n \in Nat /\ TotalParts(r, p) \in Nat
  BY TotalIsNatural
<1>2. DOMAIN FirstOf(r, p, n) = 1..n /\ Len(FirstOf(r, p, n)) = n
  BY <1>1 DEF FirstOf
<1> QED  BY <1>1, <1>2 DEF FirstOf, PartAt

\* Where the first n rows are, the transfer goes on with the next one.
LEMMA ResumesThere ==
  ASSUME NEW r \in Run, NEW p \in Source, NEW n \in 0..TotalParts(r, p), rows[p] = FirstOf(r, p, n)
  PROVE  NextPart(r, p) = n + 1
<1> DEFINE T == TotalParts(r, p)
<1>1. /\ n \in Nat /\ T \in Nat /\ DOMAIN rows[p] = 1..n
      /\ \A i \in 1..n : rows[p][i] = PartAt(r, p, i) /\ rows[p][i].no = i
  BY FirstIs
<1>2. \A k \in 1..n : FitsPart(r, p, k)
  <2> SUFFICES ASSUME NEW k \in 1..n PROVE FitsPart(r, p, k)
    OBVIOUS
  <2>1. \E i \in DOMAIN rows[p] : /\ rows[p][i].no = k
                                  /\ \A j \in DOMAIN rows[p] : rows[p][j].no = k => j <= i
    BY <1>1
  <2>2. Latest(p, k) \in 1..n /\ rows[p][Latest(p, k)].no = k
    BY <1>1, <2>1 DEF Latest
  <2>3. Latest(p, k) = k
    BY <1>1, <2>2
  <2>4. rows[p][k].len = Expected(r, p, k) /\ rows[p][k].enc = Encrypted[r]
    BY <1>1 DEF PartAt
  <2> QED  BY <1>1, <2>3, <2>4 DEF FitsPart
<1>3. ~FitsPart(r, p, n + 1)
  BY <1>1 DEF FitsPart
<1>4. PICK x : x = NextPart(r, p)
  OBVIOUS
<1>5. /\ x \in 1..(T + 1) /\ \A k \in 1..(x - 1) : FitsPart(r, p, k)
      /\ x <= T => ~FitsPart(r, p, x)
  BY <1>4, NextIsAPart
<1>6. ~(x < n + 1)
  <2> SUFFICES ASSUME x < n + 1 PROVE FALSE
    OBVIOUS
  <2>1. x \in 1..n /\ x <= T
    BY <1>1, <1>5
  <2> QED  BY <1>2, <1>5, <2>1
<1>7. ~(n + 1 < x)
  <2> SUFFICES ASSUME n + 1 < x PROVE FALSE
    OBVIOUS
  <2>1. n + 1 \in 1..(x - 1)
    BY <1>1, <1>5
  <2> QED  BY <1>3, <1>5, <2>1
<1> QED  BY <1>1, <1>4, <1>5, <1>6, <1>7

LEMMA OneMore ==
  ASSUME NEW r \in Run, NEW p \in Source, NEW n \in 0..TotalParts(r, p)
  PROVE  Append(FirstOf(r, p, n), PartAt(r, p, n + 1)) = FirstOf(r, p, n + 1)
<1>1. n \in Nat
  BY FirstIs
<1>2. Len([i \in 1..n |-> PartAt(r, p, i)]) = n
  BY <1>1
<1> QED  BY <1>1, <1>2 DEF FirstOf, Append

\* All parts of a file are the file.
LEMMA AllPartsAreWhole ==
  ASSUME NEW r \in Run, NEW p \in Source, Size[p] > 0
  PROVE  Whole(p, Stored(FirstOf(r, p, TotalParts(r, p)), Encrypted[r], TRUE))
<1> DEFINE T == TotalParts(r, p)
           s == FirstOf(r, p, T)
           P == PartSize[r]
<1>1. Size[p] \in Nat \ {0} /\ P \in Nat \ {0}
  BY SyncAssumption DEF Source
<1>2. T \in Nat \ {0} /\ (T - 1) * P < Size[p] /\ Size[p] <= T * P
  BY <1>1, Parts DEF TotalParts
<1>3. T \in 0..T
  BY <1>2
<1>4. Len(s) = T /\ \A i \in 1..T : s[i] = PartAt(r, p, i)
  BY <1>3, FirstIs
<1> HIDE DEF s, T
<1>5. \A i \in 1..T : s[i].from = (i - 1) * P /\ s[i].enc = Encrypted[r]
                      /\ s[i].len = Least(P, Size[p] - (i - 1) * P)
  BY <1>4 DEF PartAt, Start, Expected
<1>6. s[1].from = 0
  BY <1>1, <1>2, <1>5
<1>7. ASSUME NEW i \in 1..(T - 1) PROVE s[i + 1].from = s[i].from + s[i].len
  <2>1. i \in Nat /\ T - 1 \in Nat /\ i <= T - 1 /\ i \in 1..T /\ i + 1 \in 1..T
    BY <1>2
  <2>2. i * P <= (T - 1) * P
    BY <1>1, <2>1, Growing
  <2>3. PICK a \in Int, b \in Int : a = (i - 1) * P /\ b = i * P
    BY <1>1, <2>1
  <2>4. b = a + P
    BY <1>1, <2>1, <2>3
  <2>5. PICK c \in Int : c = (T - 1) * P
    BY <1>1, <2>1
  <2>6. P <= Size[p] - a
    BY <1>1, <1>2, <2>2, <2>3, <2>4, <2>5
  <2>7. s[i].len = P
    BY <1>1, <1>5, <2>1, <2>3, <2>6 DEF Least
  <2>8. s[i].from = a /\ s[i + 1].from = b
    <3>1. (i + 1) - 1 = i
      BY <2>1
    <3> QED  BY <1>5, <2>1, <2>3, <3>1
  <2> QED  BY <2>4, <2>7, <2>8
<1>8. s[T].from + s[T].len = Size[p]
  <2>1. T \in 1..T
    BY <1>2
  <2>2. PICK a \in Int, b \in Int : a = (T - 1) * P /\ b = T * P
    BY <1>1, <1>2
  <2>3. b = a + P
    BY <1>1, <1>2, <2>2
  <2>4. s[T].from = a /\ s[T].len = Least(P, Size[p] - a)
    BY <1>5, <2>1, <2>2
  <2> QED  BY <1>1, <1>2, <2>2, <2>3, <2>4 DEF Least
<1>9. Stored(s, Encrypted[r], TRUE).parts = s /\ Stored(s, Encrypted[r], TRUE).enc = Encrypted[r]
  BY DEF Stored
<1>10. T > 0
  BY <1>2
<1>11. Whole(p, Stored(s, Encrypted[r], TRUE))
  BY <1>1, <1>4, <1>5, <1>6, <1>7, <1>8, <1>9, <1>10 DEF Whole
<1> QED  BY <1>11 DEF s, T

LEMMA StagedMove ==
  ASSUME SameParts, Types, Turns, Staged, NEW r \in Run, NEW p \in Source, Transfers(r, p),
         NEW m \in 0..TotalParts(r, p), rows'[p] = FirstOf(r, p, m),
         \A x \in Source : x # p => rows'[x] = rows[x],
         task'[r][p].st = "staging" => task'[r][p].next = m + 1,
         task'[r][p].st = "creating" => task'[r][p].got = FirstOf(r, p, TotalParts(r, p))
  PROVE  Staged'
<1> SUFFICES ASSUME NEW q \in Run, NEW x \in Source
             PROVE  /\ StagedSo(q, x)'
                    /\ task'[q][x].st = "creating" => task'[q][x].got = FirstOf(q, x, TotalParts(q, x))
  BY DEF Staged
<1>1. StagedSo(q, x) /\ (task[q][x].st = "creating" => task[q][x].got = FirstOf(q, x, TotalParts(q, x)))
  BY DEF Staged
<1>2. CASE x # p
  <2>1. task'[q][x] = task[q][x] /\ rows'[x] = rows[x]
    BY <1>2 DEF Transfers
  <2> QED  BY <1>1, <2>1 DEF StagedSo
<1>3. CASE x = p /\ q = r
  BY <1>3 DEF StagedSo
<1>4. CASE x = p /\ q # r
  <2>1. task[q][p].st \notin Unended
    BY <1>4, Alone, AtWorkHasBegun DEF Transfers, Unended, Active
  <2>2. task'[q][p].st \notin {"staging", "creating"}
    BY <1>4, <2>1 DEF Transfers, Unended, Active
  <2>3. rows'[p] = FirstOf(q, p, m) /\ m \in 0..TotalParts(q, p)
    BY SameForAll
  <2> QED  BY <1>4, <2>2, <2>3 DEF StagedSo
<1> QED  BY <1>2, <1>3, <1>4

LEMMA StagedTransfer ==
  ASSUME SameParts, Orderly, Staged, NEW r \in Run, NEW p \in Source,
         Transfer(r, p) \/ FailTransfer(r, p) \/ CancelTransfer(r, p)
  PROVE  Staged'
<1> DEFINE t == task[r][p]
           T == TotalParts(r, p)
<1>1. Types /\ Turns /\ Transfers(r, p) /\ DOMAIN t = {"st", "tries", "next", "got"} /\ p \in Source
  BY TransferMoves DEF Orderly, Types, IsTask
<1>2. PICK n \in 0..T : rows[p] = FirstOf(r, p, n) /\ (t.st = "staging" => t.next = n + 1)
  BY DEF Staged, StagedSo
<1>3. t.st = "creating" => t.got = FirstOf(r, p, T)
  BY DEF Staged
<1>4. n \in Nat /\ T \in Nat
  BY TotalIsNatural
<1>5. \A f : Step(r, p, f) => task'[r][p] = f
  BY <1>1, TaskMoves
<1>6. ASSUME UNCHANGED rows, task'[r][p].st \notin {"staging", "creating"} PROVE Staged'
  BY <1>1, <1>2, <1>6, StagedMove
<1>7. CASE Begin(r, p) \/ Opens(r, p)
  <2>1. \/ task'[r][p] = [t EXCEPT !.st = "opening"]
        \/ task'[r][p] = [t EXCEPT !.st = "resuming"]
    BY <1>5, <1>7 DEF Begin, Opens
  <2>2. task'[r][p].st \in {"opening", "resuming"}
    BY <1>1, <2>1, TaskFields
  <2> QED  BY <1>6, <1>7, <2>2 DEF Begin, Opens
<1>14. CASE EndTransfer(r, p)
  <2>1. task'[r][p] = [t EXCEPT !.st = "completed", !.next = 0]
    BY <1>5, <1>14 DEF EndTransfer
  <2>2. task'[r][p].st = "completed"
    BY <1>1, <2>1, TaskFields
  <2> QED  BY <1>6, <1>14, <2>2 DEF EndTransfer
<1>8. CASE Resume(r, p)
  <2>1. NextPart(r, p) = n + 1
    BY <1>2, ResumesThere
  <2>2. PICK nx : nx = NextPart(r, p)
    OBVIOUS
  <2>3. task'[r][p] = [t EXCEPT !.st = "staging", !.next = nx]
    BY <1>5, <1>8, <2>2 DEF Resume
  <2>4. task'[r][p].st = "staging" /\ task'[r][p].next = n + 1
    BY <1>1, <2>1, <2>2, <2>3, TaskFields
  <2>5. UNCHANGED rows
    BY <1>8 DEF Resume
  <2> QED  BY <1>1, <1>2, <2>4, <2>5, StagedMove
<1>9. CASE StagePart(r, p)
  <2>1. t.st = "staging" /\ t.next = n + 1 /\ n + 1 <= T
    BY <1>2, <1>9 DEF StagePart, TypeOfTask
  <2>2. PICK nx : nx = t.next + 1
    OBVIOUS
  <2>3. task'[r][p] = [t EXCEPT !.next = nx]
    BY <1>5, <1>9, <2>2 DEF StagePart
  <2>4. task'[r][p].st = "staging" /\ task'[r][p].next = n + 2
    BY <1>1, <1>4, <2>1, <2>2, <2>3, TaskFields
  <2>5. rows' = [rows EXCEPT ![p] = Append(rows[p], PartAt(r, p, n + 1))]
    BY <1>9, <2>1 DEF StagePart, PartAt
  <2>6. rows'[p] = FirstOf(r, p, n + 1) /\ \A x \in Source : x # p => rows'[x] = rows[x]
    BY <1>1, <1>2, <2>5, OneMore DEF Types
  <2>7. n + 1 \in 0..T /\ n + 2 = (n + 1) + 1
    BY <1>4, <2>1
  <2>8. PICK m \in 0..T : m = n + 1
    BY <2>7
  <2> QED  BY <1>1, <2>4, <2>6, <2>7, <2>8, StagedMove
<1>10. CASE CreateFile(r, p)
  <2>1. t.st = "staging" /\ t.next = n + 1 /\ n + 1 > T
    BY <1>2, <1>10 DEF CreateFile, TypeOfTask
  <2>2. n = T
    BY <1>2, <1>4, <2>1
  <2>3. ByPartNo(rows[p]) = rows[p]
    <3>1. rows[p] = [i \in 1..n |-> rows[p][i]] /\ \A i \in 1..n : rows[p][i].no = i
      BY <1>2, FirstIs
    <3> QED  BY <1>4, <3>1, AlreadySorted
  <2>4. PICK s : s = ByPartNo(rows[p])
    OBVIOUS
  <2>5. task'[r][p] = [t EXCEPT !.st = "creating", !.got = s]
    BY <1>5, <1>10, <2>4 DEF CreateFile
  <2>6. task'[r][p].st = "creating" /\ task'[r][p].got = FirstOf(r, p, T)
    BY <1>1, <1>2, <2>2, <2>3, <2>4, <2>5, TaskFields
  <2>7. UNCHANGED rows
    BY <1>10 DEF CreateFile
  <2> QED  BY <1>1, <1>2, <2>6, <2>7, StagedMove
<1>11. CASE CommitFile(r, p)
  <2>1. task'[r][p].st = "recording"
    <3>1. PICK g : g = <<>>
      OBVIOUS
    <3>2. task'[r][p] = [t EXCEPT !.st = "recording", !.got = g]
      BY <1>5, <1>11, <3>1 DEF CommitFile
    <3> QED  BY <1>1, <3>2, TaskFields
  <2>2. rows'[p] = <<>> /\ \A x \in Source : x # p => rows'[x] = rows[x]
    BY <1>1, <1>11 DEF CommitFile, Types
  <2>3. FirstOf(r, p, 0) = <<>> /\ 0 \in 0..T
    BY <1>4 DEF FirstOf
  <2> QED  BY <1>1, <2>1, <2>2, <2>3, StagedMove
<1>12. CASE FailTransfer(r, p)
  <2>1. task'[r][p].st \notin {"staging", "creating"}
    BY <1>5, <1>12 DEF FailTransfer, Retry, Retried
  <2> QED  BY <1>6, <1>12, <2>1 DEF FailTransfer, Retry
<1>13. CASE CancelTransfer(r, p)
  <2>1. task'[r][p].st = "cancelled"
    <3>1. PICK g : g = <<>>
      OBVIOUS
    <3>2. task'[r][p] = [t EXCEPT !.st = "cancelled", !.next = 0, !.got = g]
      BY <1>5, <1>13, <3>1 DEF CancelTransfer
    <3> QED  BY <1>1, <3>2, TaskFields
  <2> QED  BY <1>6, <1>13, <2>1 DEF CancelTransfer
<1> QED  BY <1>7, <1>8, <1>9, <1>10, <1>11, <1>12, <1>13, <1>14, Opening DEF Transfer

LEMMA StagedRun ==
  ASSUME Orderly, Staged, NEW r \in Run, Work(r) \/ FailRun(r)
  PROVE  Staged'
<1>1. UNCHANGED rows
  BY DEF Work, BeginRun, ListExtra, DeleteExtra, InsertTasks, Snooze, CompleteRun, ReportFailure, FailRun
<1>2. CASE UNCHANGED task
  BY <1>1, <1>2 DEF Staged, StagedSo
<1>3. CASE InsertTasks(r)
  <2>1. PICK T : T = [x \in Source |-> IF Skipped(r, x) THEN NewTask ELSE [NewTask EXCEPT !.st = "waiting"]]
    OBVIOUS
  <2>0. task' = [task EXCEPT ![r] = T]
    BY <1>3, <2>1 DEF InsertTasks
  <2>2. \A x \in Source : task'[r][x].st \in {"none", "waiting"}
    <3>1. task'[r] = T
      BY <2>0 DEF Orderly, Types
    <3> QED  BY <2>1, <3>1 DEF NewTask
  <2>3. \A q \in Run, x \in Source : q # r => task'[q][x] = task[q][x]
    BY <2>0 DEF Orderly, Types
  <2>4. \A q \in Run, x \in Source :
          \/ task'[q][x] = task[q][x]
          \/ task'[q][x].st \notin {"staging", "creating"}
    BY <2>2, <2>3
  <2> QED  BY <1>1, <2>4 DEF Staged, StagedSo
<1> QED  BY <1>2, <1>3 DEF Work, BeginRun, ListExtra, DeleteExtra, Snooze, CompleteRun, ReportFailure,
                       FailRun

LEMMA StagedClean ==
  ASSUME SameParts, Orderly, Staged, NEW p \in Source, CleanStale(p)
  PROVE  Staged'
<1>1. UNCHANGED task /\ \A r \in Run : task[r][p].st \notin {"staging", "creating"}
  BY DEF CleanStale, Active
<1>2. rows' = [rows EXCEPT ![p] = SubSeq(rows[p], Len(rows[p]) + 1, Len(rows[p]))]
  BY DEF CleanStale, SameParts
<1>3. rows[p] \in Seq(UploadRow)
  BY DEF Orderly, Types
<1>4. rows'[p] = <<>> /\ \A x \in Source : x # p => rows'[x] = rows[x]
  BY <1>2, <1>3 DEF Orderly, Types
<1>5. \A r \in Run : FirstOf(r, p, 0) = <<>> /\ 0 \in 0..TotalParts(r, p)
  BY TotalIsNatural DEF FirstOf
<1> SUFFICES ASSUME NEW r \in Run, NEW x \in Source
             PROVE  /\ StagedSo(r, x)'
                    /\ task'[r][x].st = "creating" => task'[r][x].got = FirstOf(r, x, TotalParts(r, x))
  BY DEF Staged
<1>6. CASE x = p
  BY <1>1, <1>4, <1>5, <1>6 DEF StagedSo
<1>7. CASE x # p
  BY <1>1, <1>4, <1>7 DEF Staged, StagedSo
<1> QED  BY <1>6, <1>7

\* The file that a transfer makes is the file of the source, however often the
\* transfer failed, was run again and went on between its parts (SyncTransfer,
\* syncTransferResumeState, FilesCreate from the rows of an upload).
THEOREM TransferredIsWhole == ASSUME SameParts PROVE Spec => []TransferredWhole
<1>0. OneAfterTheOther
  BY DEF SameParts, OneAfterTheOther
<1>1. Init => Orderly /\ Staged /\ TransferredWhole
  <2> SUFFICES ASSUME Init PROVE Staged /\ TransferredWhole
    BY OrderlyInit
  <2>1. \A r \in Run, p \in Source : FirstOf(r, p, 0) = <<>> /\ 0 \in 0..TotalParts(r, p)
    BY TotalIsNatural DEF FirstOf
  <2>2. \A r \in Run, p \in Source : rows[p] = <<>> /\ task[r][p].st = "none"
    BY DEF Init, NewTask
  <2>3. Staged
    BY <2>1, <2>2 DEF Staged, StagedSo
  <2>4. TransferredWhole
    BY DEF TransferredWhole, Init, SameParts
  <2> QED  BY <2>3, <2>4
<1>2. Orderly /\ Staged /\ TransferredWhole /\ [Next]_vars => (Orderly /\ Staged /\ TransferredWhole)'
  <2> SUFFICES ASSUME Orderly, Staged, TransferredWhole, [Next]_vars
               PROVE  Orderly' /\ Staged' /\ TransferredWhole'
    OBVIOUS
  <2>1. Orderly'
    BY <1>0, OrderlyStep
  <2>2. ASSUME NEW r \in Run, NEW p \in Source,
               Transfer(r, p) \/ FailTransfer(r, p) \/ CancelTransfer(r, p)
        PROVE  TransferredWhole'
    <3>1. Grows(r, p)
      BY <2>2, TransferGrows DEF Orderly
    <3>2. CommitFile(r, p) /\ dest'[p].kind = "file" => Whole(p, dest'[p])
      <4> SUFFICES ASSUME CommitFile(r, p), dest'[p].kind = "file" PROVE Whole(p, dest'[p])
        OBVIOUS
      <4>1. task[r][p].st = "creating"
        BY DEF CommitFile, TypeOfTask
      <4>2. task[r][p].got = FirstOf(r, p, TotalParts(r, p)) /\ Size[p] > 0
        BY <4>1 DEF Staged, Orderly, Opened
      <4>3. PICK v : v = IF dest[p] = Folder THEN Folder ELSE Stored(task[r][p].got, Encrypted[r], TRUE)
        OBVIOUS
      <4>4. dest' = [dest EXCEPT ![p] = v] /\ DOMAIN dest = Path /\ p \in Path
        BY <4>3, AboveSource DEF CommitFile, Orderly, Types
      <4>5. dest'[p] = v /\ v # Folder
        BY <4>4, Kinds
      <4> QED  BY <4>2, <4>3, <4>5, AllPartsAreWhole
    <3> QED  BY <3>1, <3>2, AboveSource, Kinds DEF TransferredWhole, Grows
  <2>3. ASSUME NEW r \in Run, Work(r) \/ FailRun(r) PROVE TransferredWhole'
    <3>1. \A x \in Path : dest'[x] = dest[x] \/ dest'[x] = Nothing
      BY <2>3, DeletesOnly DEF Deleted, Orderly
    <3> QED  BY <3>1, AboveSource, Kinds DEF TransferredWhole
  <2>4. UNCHANGED dest => TransferredWhole'
    BY DEF TransferredWhole
  <2>5. UNCHANGED vars => Staged' /\ TransferredWhole'
    BY <2>4 DEF vars, Staged, StagedSo
  <2> QED  BY <2>1, <2>2, <2>3, <2>4, <2>5, StagedTransfer, StagedRun, StagedClean DEF Next, CleanStale
<1> QED  BY <1>1, <1>2, PTL DEF Spec
=============================================================================
