------------------------ MODULE ContentStoreContent -------------------------
(***************************************************************************)
(* What is in the messages that ContentStore refers to: the parts of an    *)
(* active file are the parts 1, 2, ... of one upload, check finds no such  *)
(* file incomplete, and what the cleaners were told is deleted is gone.    *)
(* The last section is about clients that keep to no protocol.             *)
(*                                                                         *)
(* One lemma says who changes which variable, another what a step does to  *)
(* the messages; each conjunct of Content then needs only the few actions  *)
(* that touch it.                                                          *)
(***************************************************************************)
EXTENDS ContentStoreRefinement

-----------------------------------------------------------------------------
(* Who changes what.                                                       *)

LEMMA WhoChangesRows ==
  ASSUME [Next]_vars
  PROVE  \/ uploads' \subseteq uploads
         \/ \E s \in staging : StageInsert(s)
         \/ \E row \in uploads : Age(row)
<1> USE DEF store, env, reqs, jobs
<1>1. CASE Requests
  BY <1>1 DEF Requests, StageUpload, StageFail,
       UploadsDelete, WithoutRows, CreateRead, CreateCommit, CreateFail, UpdateRead, UpdateCommit,
       UpdateFail, CopyRead, CopyFetch, CopyPart, CopySkip, CopyCommit, CopyFail, DeleteFile, MoveFile
<1>2. CASE Environment
  BY <1>2 DEF Environment, Abandon, SelectChannel, LogInOut
<1>3. CASE StaleJob \/ PendJob \/ Check
  BY <1>3 DEF StaleJob, StaleList, StaleDelete, StaleRows, WithoutParts, StaleCrash,
       PendJob, PendList, PendDelete, PendSweep, PendCrash,
       Check, CheckFiles, CheckMessages, CheckUploads, CheckMark, CheckPurge, CheckCrash
<1> QED  BY <1>1, <1>2, <1>3 DEF Next, vars

LEMMA WhoChangesFiles ==
  ASSUME [Next]_vars
  PROVE  \/ files' = files
         \/ \E k \in creates : CreateCommit(k)
         \/ \E k \in updates : UpdateCommit(k)
         \/ \E k \in copies : CopyCommit(k)
         \/ \E f \in files : DeleteFile(f)
         \/ \E f \in files, n \in Name : MoveFile(f, n)
         \/ PendSweep \/ CheckMark
<1> USE DEF store, env, reqs, jobs
<1>1. CASE Requests
  BY <1>1 DEF Requests, StageUpload, StageInsert, StageFail, UploadsDelete, CreateRead, CreateFail,
       UpdateRead, UpdateFail, CopyRead, CopyFetch, CopyPart, CopySkip, CopyFail
<1>2. CASE Environment
  BY <1>2 DEF Environment, Age, Abandon, SelectChannel, LogInOut
<1>3. CASE StaleJob \/ PendJob \/ Check
  BY <1>3 DEF StaleJob, StaleList, StaleDelete, StaleRows, StaleCrash,
       PendJob, PendList, PendDelete, PendCrash,
       Check, CheckFiles, CheckMessages, CheckUploads, CheckPurge, CheckCrash
<1> QED  BY <1>1, <1>2, <1>3 DEF Next, vars

LEMMA WhoChangesRequests ==
  ASSUME [Next]_vars
  PROVE  /\ \/ staging' \subseteq staging
            \/ \E r \in Req, u \in Upload, n \in PartNo : StageUpload(r, u, n)
         /\ \/ creates' \subseteq creates /\ updates' \subseteq updates
            \/ \E r \in Req, u \in Upload, via \in {"rows", "parts"} : CreateRead(r, u, via)
            \/ \E r \in Req, u \in Upload : UpdateRead(r, u)
         /\ \/ copies' \subseteq copies
            \/ \E r \in Req, f \in files, n \in Name : CopyRead(r, f, n)
            \/ \E k \in copies : CopyFetch(k) \/ CopyPart(k) \/ CopySkip(k)
<1> USE DEF store, env, reqs, jobs
<1>1. CASE Requests
  BY <1>1 DEF Requests, StageUpload, StageInsert, StageFail, UploadsDelete, CreateRead,
       CreateCommit, CreateFail, UpdateRead, UpdateCommit, UpdateFail, CopyRead, CopyFetch,
       CopyPart, CopySkip, CopyCommit, CopyFail, DeleteFile, MoveFile
<1>2. CASE Environment
  BY <1>2 DEF Environment, Age, Abandon, SelectChannel, LogInOut
<1>3. CASE StaleJob \/ PendJob \/ Check
  BY <1>3 DEF StaleJob, StaleList, StaleDelete, StaleRows, StaleCrash,
       PendJob, PendList, PendDelete, PendSweep, PendCrash,
       Check, CheckFiles, CheckMessages, CheckUploads, CheckMark, CheckPurge, CheckCrash
<1> QED  BY <1>1, <1>2, <1>3 DEF Next, vars

\* An upload that was abandoned stays so.
LEMMA AbandonedForGood ==
  ASSUME Disciplined, IInv, [Next]_vars
  PROVE  \A u \in Upload : phase[u] = "abandoned" => phase'[u] = "abandoned"
<1> USE DEF store, env, reqs, jobs
<1>1. phase \in [Upload -> {"open", "final", "done", "abandoned"}]
  BY DEF IInv, TypeOK
<1>2. \A k \in creates \cup updates : phase[k.up] = "final"
  BY DEF IInv, InFlight
<1>3. CASE Requests
  <2>1. ASSUME NEW r \in Req, NEW u \in Upload, NEW via \in {"rows", "parts"},
               CreateRead(r, u, via) \/ UpdateRead(r, u)
        PROVE  \A v \in Upload : phase[v] = "abandoned" => phase'[v] = "abandoned"
    BY <1>1, <2>1 DEF CreateRead, UpdateRead, MayFinalise, Disciplined
  <2>2. ASSUME NEW k \in creates, CreateCommit(k) \/ CreateFail(k)
        PROVE  \A v \in Upload : phase[v] = "abandoned" => phase'[v] = "abandoned"
    BY <1>1, <1>2, <2>2 DEF CreateCommit, CreateFail, Reopened
  <2>3. ASSUME NEW k \in updates, UpdateCommit(k) \/ UpdateFail(k)
        PROVE  \A v \in Upload : phase[v] = "abandoned" => phase'[v] = "abandoned"
    BY <1>1, <1>2, <2>3 DEF UpdateCommit, UpdateFail, Reopened
  <2>4. \/ phase' = phase
        \/ \E r \in Req, u \in Upload, via \in {"rows", "parts"} :
             CreateRead(r, u, via) \/ UpdateRead(r, u)
        \/ \E k \in creates : CreateCommit(k) \/ CreateFail(k)
        \/ \E k \in updates : UpdateCommit(k) \/ UpdateFail(k)
    BY <1>3 DEF Requests, StageUpload, StageInsert, StageFail, UploadsDelete, CopyRead, CopyFetch,
         CopyPart, CopySkip, CopyCommit, CopyFail, DeleteFile, MoveFile
  <2> QED  BY <2>1, <2>2, <2>3, <2>4
<1>4. CASE Environment
  BY <1>1, <1>4 DEF Environment, Age, Abandon, SelectChannel, LogInOut
<1>5. CASE StaleJob \/ PendJob \/ Check \/ UNCHANGED vars
  BY <1>5 DEF StaleJob, StaleList, StaleDelete, StaleRows, StaleCrash,
       PendJob, PendList, PendDelete, PendSweep, PendCrash,
       Check, CheckFiles, CheckMessages, CheckUploads, CheckMark, CheckPurge, CheckCrash, vars
<1> QED  BY <1>3, <1>4, <1>5 DEF Next

-----------------------------------------------------------------------------
(* What a step does to the messages.                                       *)

\* No step takes a message from a live holder; one message at a time is sent,
\* with an id that was never used.
Stays == \A m \in tg : KeyOf(m) \in LiveKeys => m \in tg'
Sends ==
  /\ \A c \in Channel : lastId[c] <= lastId'[c]
  /\ \A m \in tg' \ tg : m \in Message /\ m.id > lastId[m.chan]
  /\ \A m, x \in tg' \ tg : m = x

LEMMA OneSent ==
  ASSUME IInv, NEW m \in Message, tg' = tg \cup {m}, m.id = lastId[m.chan] + 1,
         lastId' = [lastId EXCEPT ![m.chan] = m.id]
  PROVE  Stays /\ Sends
BY DEF Stays, Sends, IInv, TypeOK, Message

LEMMA SomeDeleted ==
  ASSUME IInv, NEW gone, gone \subseteq DoomedKeys, tg' = Surviving(gone), lastId' = lastId
  PROVE  Stays /\ Sends
BY DEF Stays, Sends, Surviving, IInv, TypeOK, DoomedNotLive

LEMMA NoneSent ==
  ASSUME IInv, tg' = tg, lastId' = lastId
  PROVE  Stays /\ Sends
BY DEF Stays, Sends, IInv, TypeOK

LEMMA StepMessages ==
  ASSUME Disciplined, IInv, [Next]_vars
  PROVE  Stays /\ Sends
<1> USE DEF store, env, reqs, jobs
<1>1. ASSUME NEW r \in Req, NEW u \in Upload, NEW n \in PartNo, StageUpload(r, u, n)
      PROVE  Stays /\ Sends
  <2>1. PICK m : m = [chan |-> Resolved(u), id |-> lastId[Resolved(u)] + 1, up |-> u, no |-> n]
    OBVIOUS
  <2>2. Resolved(u) \in Channel
    BY HomeAssumption DEF Resolved, IInv, TypeOK
  <2>3. m \in Message /\ m.id = lastId[m.chan] + 1
    BY <2>1, <2>2 DEF Message, IInv, TypeOK
  <2>4. tg' = tg \cup {m} /\ lastId' = [lastId EXCEPT ![m.chan] = m.id]
    BY <1>1, <2>1 DEF StageUpload
  <2> QED  BY <2>3, <2>4, OneSent
<1>2. ASSUME NEW k \in copies, CopyPart(k) PROVE Stays /\ Sends
  <2>1. k \in Copy
    BY DEF IInv, TypeOK
  <2>2. PICK d \in Head(k.docs) : tg' = tg \cup {[d EXCEPT !.chan = k.chan, !.id = lastId[k.chan] + 1]}
    BY <1>2 DEF CopyPart
  <2>3. PICK m : m = [d EXCEPT !.chan = k.chan, !.id = lastId[k.chan] + 1]
    OBVIOUS
  <2>4. d \in Message /\ k.chan \in Channel
    BY <1>2, <2>1, <2>2 DEF CopyPart, Copy
  <2>5. m \in Message /\ m.id = lastId[m.chan] + 1 /\ m.chan = k.chan
    <3>1. lastId[k.chan] + 1 \in Nat
      BY <2>4 DEF IInv, TypeOK
    <3>2. m.chan = k.chan /\ m.id = lastId[k.chan] + 1
      BY <2>3, <2>4 DEF Message
    <3>3. m \in Message
      BY <2>3, <2>4, <3>1 DEF Message
    <3> QED  BY <3>2, <3>3
  <2>6. tg' = tg \cup {m} /\ lastId' = [lastId EXCEPT ![m.chan] = m.id]
    BY <1>2, <2>2, <2>3, <2>5 DEF CopyPart
  <2> QED  BY <2>5, <2>6, OneSent
<1>3. ASSUME NEW c \in Channel, StaleDelete(c) PROVE Stays /\ Sends
  <2>1. PICK o \in DeleteOutcomes(Group(stale.todo, c)) : tg' = Surviving(o.gone)
    BY <1>3 DEF StaleDelete
  <2>2. o.gone \subseteq DoomedKeys
    BY <2>1 DEF DeleteOutcomes, Group, DoomedKeys
  <2> QED  BY <1>3, <2>1, <2>2, SomeDeleted DEF StaleDelete
<1>4. ASSUME NEW c \in Channel, PendDelete(c) PROVE Stays /\ Sends
  <2>1. PICK o \in DeleteOutcomes(Group(pend.todo, c)) : tg' = Surviving(o.gone)
    BY <1>4 DEF PendDelete
  <2>2. o.gone \subseteq DoomedKeys
    BY <2>1 DEF DeleteOutcomes, Group, DoomedKeys
  <2> QED  BY <1>4, <2>1, <2>2, SomeDeleted DEF PendDelete
<1>5. CASE CheckPurge
  <2>1. PICK o \in DeleteOutcomes(chk.orphans) : tg' = Surviving(o.gone)
    BY <1>5 DEF CheckPurge
  <2>2. o.gone \subseteq DoomedKeys
    BY <2>1 DEF DeleteOutcomes, DoomedKeys
  <2> QED  BY <1>5, <2>1, <2>2, SomeDeleted DEF CheckPurge
<1>6. \/ tg' = tg /\ lastId' = lastId
      \/ \E r \in Req, u \in Upload, n \in PartNo : StageUpload(r, u, n)
      \/ \E k \in copies : CopyPart(k)
      \/ \E c \in Channel : StaleDelete(c) \/ PendDelete(c)
      \/ CheckPurge
  <2>1. CASE Requests
    BY <2>1 DEF Requests, StageInsert, StageFail, UploadsDelete, CreateRead, CreateCommit,
         CreateFail, UpdateRead, UpdateCommit, UpdateFail, CopyRead, CopyFetch, CopySkip,
         CopyCommit, CopyFail, DeleteFile, MoveFile
  <2>2. CASE Environment \/ UNCHANGED vars
    BY <2>2 DEF Environment, Age, Abandon, SelectChannel, LogInOut, vars
  <2>3. CASE StaleJob \/ PendJob \/ Check
    BY <2>3 DEF StaleJob, StaleList, StaleRows, StaleCrash, PendJob, PendList, PendSweep, PendCrash,
         Check, CheckFiles, CheckMessages, CheckUploads, CheckMark, CheckCrash
  <2> QED  BY <2>1, <2>2, <2>3 DEF Next
<1> QED  BY <1>1, <1>2, <1>3, <1>4, <1>5, <1>6, NoneSent

\* What a live message holds does not change.
LEMMA HoldsKept ==
  ASSUME Stays
  PROVE  \A key \in LiveKeys : \A u, n : Holds(key, u, n) => Holds(key, u, n)'
BY DEF Stays, Holds

-----------------------------------------------------------------------------
(* The order of the rows (ORDER BY part_no).                               *)

\* When the part numbers of the rows are 1..n, each once, the i-th row in the
\* order of part numbers is part i.
LEMMA NumberedInOrder ==
  ASSUME NEW R, IsFiniteSet(R), NEW n \in Nat, {row.no : row \in R} = 1..n,
         \A x, y \in R : x.no = y.no => x = y, NEW s \in PartOrders(R)
  PROVE  Cardinality(R) = n /\ \A i \in 1..n : s[i].no = i
<1>1. Cardinality(R) = n
  <2> DEFINE f == [row \in R |-> row.no]
  <2>1. f \in Bijection(R, 1..n)
    BY DEF Bijection, Injection, Surjection, IsInjective
  <2>2. Cardinality(1..n) = Cardinality(R)
    BY <2>1, FS_Bijection DEF ExistsBijection
  <2> QED  BY <2>2, FS_Interval
<1> DEFINE g(i) == s[i].no
<1>2. s \in [1..n -> R]
  BY <1>1 DEF PartOrders
<1>3. \A i \in 1..n : g(i) \in 1..n
  BY <1>2
<1>4. \A i, j \in 1..n : i < j => g(i) < g(j)
  <2>1. \A i, j \in 1..n : i < j => s[i] # s[j] /\ g(i) <= g(j)
    BY <1>1 DEF PartOrders
  <2>2. \A i, j \in 1..n : s[i] # s[j] => g(i) # g(j)
    BY <1>2
  <2> QED  BY <1>3, <2>1, <2>2
<1> HIDE DEF g
<1>5. ASSUME NEW i \in 1..n PROVE i <= g(i)
  <2> DEFINE f == [j \in 1..i |-> g(j)]
  <2>1. f \in Injection(1..i, 1..g(i))
    <3>1. \A j \in 1..i : g(j) \in 1..g(i)
      BY <1>3, <1>4
    <3>2. \A j, h \in 1..i : g(j) = g(h) => j = h
      BY <1>3, <1>4
    <3> QED  BY <3>1, <3>2 DEF Injection, IsInjective
  <2>2. IsFiniteSet(1..g(i)) /\ Cardinality(1..g(i)) = g(i) /\ Cardinality(1..i) = i
    BY <1>3, FS_Interval
  <2>3. Cardinality(1..i) <= Cardinality(1..g(i))
    BY <2>1, <2>2, FS_Injection
  <2> QED  BY <2>2, <2>3
<1>6. ASSUME NEW i \in 1..n PROVE g(i) <= i
  <2> DEFINE f == [j \in i..n |-> g(j)]
  <2>1. f \in Injection(i..n, g(i)..n)
    <3>1. \A j \in i..n : g(j) \in g(i)..n
      BY <1>3, <1>4
    <3>2. \A j, h \in i..n : g(j) = g(h) => j = h
      BY <1>3, <1>4
    <3> QED  BY <3>1, <3>2 DEF Injection, IsInjective
  <2>2. IsFiniteSet(g(i)..n) /\ Cardinality(g(i)..n) = n - g(i) + 1 /\ Cardinality(i..n) = n - i + 1
    BY <1>3, FS_Interval
  <2>3. Cardinality(i..n) <= Cardinality(g(i)..n)
    BY <2>1, <2>2, FS_Injection
  <2> QED  BY <1>3, <2>2, <2>3
<1>7. \A i \in 1..n : g(i) = i
  BY <1>3, <1>5, <1>6
<1> QED  BY <1>1, <1>7 DEF g

-----------------------------------------------------------------------------
(* Content is inductive, given IInv: one lemma per conjunct.               *)

LEMMA NumberingStep ==
  ASSUME Disciplined, IInv, Numbering, [Next]_vars PROVE Numbering'
<1>1. \A m, x \in tg' : KeyOf(m) = KeyOf(x) => m = x
  <2>1. \A m \in tg : m.chan \in Channel /\ m.id <= lastId[m.chan] /\ m.id \in Nat
    <3>1. \A m \in tg : KeyOf(m) \in KnownKeys
      BY DEF KnownKeys, TgKeys
    <3>2. \A m \in tg : m.chan \in Channel /\ m.id \in Nat
      BY DEF IInv, TypeOK, Message
    <3> QED  BY <3>1, <3>2 DEF IInv, Fresh, KeyOf
  <2>2. ASSUME NEW m \in tg', NEW x \in tg', KeyOf(m) = KeyOf(x), m \notin tg, x \in tg
        PROVE  FALSE
    <3>1. m.id > lastId[m.chan] /\ m.chan = x.chan /\ m.id = x.id
      BY <2>2, StepMessages DEF Sends, KeyOf
    <3> QED  BY <2>1, <2>2, <3>1 DEF IInv, TypeOK
  <2> QED  BY <2>2, StepMessages DEF Sends, Numbering
<1> DEFINE PartsApart == /\ \A x, y \in uploads' : x.up = y.up /\ x.no = y.no => x = y
                         /\ \A x \in uploads', s \in staging' : x.up = s.up => x.no # s.no
                         /\ \A s, t \in staging' : s.up = t.up /\ s.no = t.no => s = t
<1>2. PartsApart
  <2>1. CASE uploads' \subseteq uploads /\ staging' \subseteq staging
    BY <2>1 DEF Numbering
  <2>2. ASSUME NEW s \in staging, StageInsert(s) PROVE PartsApart
    <3> DEFINE new == [chan |-> s.chan, id |-> s.id, up |-> s.up, no |-> s.no, stale |-> FALSE]
    <3>1. uploads' = uploads \cup {new} /\ staging' = staging \ {s} /\ new.up = s.up /\ new.no = s.no
      BY <2>2 DEF StageInsert
    <3> HIDE DEF new
    <3> QED  BY <3>1 DEF Numbering
  <2>3. ASSUME NEW row \in uploads, Age(row) PROVE PartsApart
    <3> DEFINE old == [row EXCEPT !.stale = TRUE]
    <3>1. /\ uploads' = (uploads \ {row}) \cup {old} /\ staging' = staging
          /\ old.up = row.up /\ old.no = row.no
      BY <2>3 DEF Age, reqs, IInv, TypeOK, Row
    <3> HIDE DEF old
    <3> QED  BY <3>1 DEF Numbering
  <2>4. ASSUME NEW r \in Req, NEW u \in Upload, NEW n \in PartNo, StageUpload(r, u, n) PROVE PartsApart
    <3>1. PICK s : /\ s = [r |-> r, chan |-> Resolved(u), id |-> lastId[Resolved(u)] + 1,
                           up |-> u, no |-> n]
      OBVIOUS
    <3>2. staging' = staging \cup {s} /\ uploads' = uploads /\ s.up = u /\ s.no = n
      BY <2>4, <3>1 DEF StageUpload
    <3>3. \A x \in RowsOf(u) \cup {t \in staging : t.up = u} : x.no # n
      BY <2>4 DEF StageUpload, MayStage, Disciplined
    <3> QED  BY <3>2, <3>3 DEF Numbering, RowsOf
  <2>5. \/ uploads' \subseteq uploads /\ staging' \subseteq staging
        \/ \E s \in staging : StageInsert(s)
        \/ \E row \in uploads : Age(row)
        \/ \E r \in Req, u \in Upload, n \in PartNo : StageUpload(r, u, n)
    BY WhoChangesRows, WhoChangesRequests
  <2> QED  BY <2>1, <2>2, <2>3, <2>4, <2>5
<1> QED  BY <1>1, <1>2 DEF Numbering

LEMMA StagedStep ==
  ASSUME Disciplined, IInv, StagedHold, [Next]_vars PROVE StagedHold'
<1>1. \A s \in staging : Holds(KeyOf(s), s.up, s.no)'
  <2>1. \A s \in staging : KeyOf(s) \in LiveKeys
    BY DEF LiveKeys, LiveIn, KeysOf
  <2> QED  BY <2>1, StepMessages, HoldsKept DEF StagedHold
<1>2. CASE staging' \subseteq staging
  BY <1>1, <1>2 DEF StagedHold
<1>3. ASSUME NEW r \in Req, NEW u \in Upload, NEW n \in PartNo, StageUpload(r, u, n)
      PROVE  StagedHold'
  <2>1. PICK c, i : c = Resolved(u) /\ i = lastId[Resolved(u)] + 1
    OBVIOUS
  <2>2. PICK s : s = [r |-> r, chan |-> c, id |-> i, up |-> u, no |-> n]
    OBVIOUS
  <2>3. PICK m : m = [chan |-> c, id |-> i, up |-> u, no |-> n]
    OBVIOUS
  <2>4. staging' = staging \cup {s} /\ tg' = tg \cup {m}
    BY <1>3, <2>1, <2>2, <2>3 DEF StageUpload
  <2>5. KeyOf(m) = KeyOf(s) /\ m.up = s.up /\ m.no = s.no
    BY <2>2, <2>3 DEF KeyOf
  <2>6. Holds(KeyOf(s), s.up, s.no)'
    BY <2>4, <2>5 DEF Holds
  <2> QED  BY <1>1, <2>4, <2>6 DEF StagedHold
<1> QED  BY <1>2, <1>3, WhoChangesRequests

LEMMA RowsStep ==
  ASSUME Disciplined, IInv, StagedHold, RowsHold, [Next]_vars PROVE RowsHold'
<1>1. \A row \in uploads : phase'[row.up] # "abandoned" => Holds(KeyOf(row), row.up, row.no)'
  <2>1. ASSUME NEW row \in uploads, phase'[row.up] # "abandoned"
        PROVE  Holds(KeyOf(row), row.up, row.no)'
    <3>1. phase[row.up] # "abandoned"
      BY <2>1, AbandonedForGood DEF IInv, TypeOK, Row
    <3>2. KeyOf(row) \in LiveKeys
      BY <3>1 DEF LiveKeys, LiveIn, KeysOf
    <3> QED  BY <3>1, <3>2, StepMessages, HoldsKept DEF RowsHold
  <2> QED  BY <2>1
<1>2. CASE uploads' \subseteq uploads
  BY <1>1, <1>2 DEF RowsHold
<1>3. ASSUME NEW s \in staging, StageInsert(s) PROVE RowsHold'
  <2> DEFINE new == [chan |-> s.chan, id |-> s.id, up |-> s.up, no |-> s.no, stale |-> FALSE]
  <2>1. uploads' = uploads \cup {new} /\ KeyOf(new) = KeyOf(s) /\ new.up = s.up /\ new.no = s.no
    BY <1>3 DEF StageInsert, KeyOf
  <2>2. Holds(KeyOf(s), s.up, s.no)' /\ tg' = tg
    BY <1>3 DEF StagedHold, Holds, StageInsert
  <2> HIDE DEF new
  <2>3. \A row \in uploads' : phase'[row.up] # "abandoned" => Holds(KeyOf(row), row.up, row.no)'
    BY <1>1, <2>1, <2>2
  <2> QED  BY <2>3 DEF RowsHold
<1>4. ASSUME NEW row \in uploads, Age(row) PROVE RowsHold'
  <2> DEFINE old == [row EXCEPT !.stale = TRUE]
  <2>1. /\ uploads' = (uploads \ {row}) \cup {old} /\ KeyOf(old) = KeyOf(row)
        /\ old.up = row.up /\ old.no = row.no
    BY <1>4 DEF Age, IInv, TypeOK, Row, KeyOf
  <2> HIDE DEF old
  <2>2. \A x \in uploads' : phase'[x.up] # "abandoned" => Holds(KeyOf(x), x.up, x.no)'
    BY <1>1, <2>1
  <2> QED  BY <2>2 DEF RowsHold
<1> QED  BY <1>2, <1>3, <1>4, WhoChangesRows

\* What CreateRead and UpdateRead take from the rows of a complete upload: the
\* i-th id is the message of part i.
LEMMA ReadInOrder ==
  ASSUME Disciplined, IInv, Numbering, RowsHold, NEW u \in Upload, MayFinalise(u),
         NEW s \in PartOrders(RowsOf(u))
  PROVE  \A i \in DOMAIN Ids(s) : Holds(<<Home[u], Ids(s)[i]>>, u, i)
<1> DEFINE R == RowsOf(u)
<1>1. phase[u] = "open" /\ Complete(u)
  BY DEF MayFinalise, Disciplined
<1>2. PICK n \in PartNo : {row.no : row \in R} = 1..n
  BY <1>1 DEF Complete
<1>3. n \in Nat
  BY <1>2 DEF PartNo
<1>4. IsFiniteSet(R)
  BY FS_Subset DEF IInv, RowsOf
<1>5. \A x, y \in R : x.no = y.no => x = y
  BY DEF Numbering, RowsOf
<1>6. s \in PartOrders(R)
  OBVIOUS
<1>7. Cardinality(R) = n /\ \A i \in 1..n : s[i].no = i
  <2> HIDE DEF R
  <2> QED  BY <1>2, <1>3, <1>4, <1>5, <1>6, NumberedInOrder
<1>8. s \in [1..n -> R]
  BY <1>7 DEF PartOrders
<1>9. ASSUME NEW i \in 1..n PROVE Holds(<<Home[u], s[i].id>>, u, i)
  <2>1. s[i] \in uploads /\ s[i].up = u /\ s[i].no = i /\ s[i].chan = Home[u]
    BY <1>7, <1>8 DEF RowsOf, IInv, Phases
  <2> QED  BY <1>1, <2>1 DEF RowsHold, KeyOf
<1> QED  BY <1>8, <1>9 DEF Ids

LEMMA ReadStep ==
  ASSUME Disciplined, IInv, Numbering, RowsHold, ReadHold, [Next]_vars PROVE ReadHold'
<1>1. \A k \in creates \cup updates : \A i \in DOMAIN k.parts :
        Holds(<<k.chan, k.parts[i]>>, k.up, i)'
  <2>1. ASSUME NEW k \in creates \cup updates, NEW i \in DOMAIN k.parts
        PROVE  <<k.chan, k.parts[i]>> \in LiveKeys
    <3>1. <<k.chan, k.parts[i]>> \in KeysOf(RowsOf(k.up)) /\ phase[k.up] = "final"
      BY DEF IInv, InFlight, Refs
    <3> QED  BY <3>1 DEF LiveKeys, LiveIn, KeysOf, RowsOf
  <2> QED  BY <2>1, StepMessages, HoldsKept DEF ReadHold
<1>2. CASE creates' \subseteq creates /\ updates' \subseteq updates
  BY <1>1, <1>2 DEF ReadHold
<1>3. ASSUME NEW r \in Req, NEW u \in Upload, NEW via \in {"rows", "parts"},
             CreateRead(r, u, via)
      PROVE  ReadHold'
  <2>1. PICK s \in PartOrders(RowsOf(u)) :
          creates' = creates \cup {[r |-> r, up |-> u, name |-> Title[u], chan |-> Resolved(u),
                                    parts |-> Ids(s), via |-> via]}
    BY <1>3 DEF CreateRead
  <2>2. PICK k : k = [r |-> r, up |-> u, name |-> Title[u], chan |-> Resolved(u),
                      parts |-> Ids(s), via |-> via]
    OBVIOUS
  <2>3. k.up = u /\ k.chan = Home[u] /\ k.parts = Ids(s)
    BY <2>2 DEF Disciplined, Resolved
  <2>4. \A i \in DOMAIN Ids(s) : Holds(<<Home[u], Ids(s)[i]>>, u, i)
    BY <1>3, ReadInOrder DEF CreateRead
  <2>5. tg' = tg /\ updates' = updates /\ creates' = creates \cup {k}
    BY <1>3, <2>1, <2>2 DEF CreateRead, store
  <2>6. \A i \in DOMAIN k.parts : Holds(<<k.chan, k.parts[i]>>, k.up, i)'
    BY <2>3, <2>4, <2>5 DEF Holds
  <2> QED  BY <1>1, <2>5, <2>6 DEF ReadHold
<1>4. ASSUME NEW r \in Req, NEW u \in Upload, UpdateRead(r, u) PROVE ReadHold'
  <2>1. PICK s \in PartOrders(RowsOf(u)) :
          updates' = updates \cup {[r |-> r, up |-> u, fid |-> Target[u], parts |-> Ids(s),
                        chan |-> IF "default" \in Liberty THEN NoChan ELSE Home[u]]}
    BY <1>4 DEF UpdateRead
  <2>2. PICK k : k = [r |-> r, up |-> u, fid |-> Target[u], parts |-> Ids(s),
                      chan |-> IF "default" \in Liberty THEN NoChan ELSE Home[u]]
    OBVIOUS
  <2>3. k.up = u /\ k.chan = Home[u] /\ k.parts = Ids(s)
    BY <2>2 DEF Disciplined
  <2>4. \A i \in DOMAIN Ids(s) : Holds(<<Home[u], Ids(s)[i]>>, u, i)
    BY <1>4, ReadInOrder DEF UpdateRead
  <2>5. tg' = tg /\ creates' = creates /\ updates' = updates \cup {k}
    BY <1>4, <2>1, <2>2 DEF UpdateRead, store
  <2>6. \A i \in DOMAIN k.parts : Holds(<<k.chan, k.parts[i]>>, k.up, i)'
    BY <2>3, <2>4, <2>5 DEF Holds
  <2> QED  BY <1>1, <2>5, <2>6 DEF ReadHold
<1> QED  BY <1>2, <1>3, <1>4, WhoChangesRequests

LEMMA WholeIs ==
  \A f : Whole(f) <=> \A i \in DOMAIN f.parts : Holds(<<f.chan, f.parts[i]>>, f.src, i)
BY DEF Whole, Holds

LEMMA WholeWas ==
  \A f : Whole(f)' <=> \A i \in DOMAIN f.parts : Holds(<<f.chan, f.parts[i]>>, f.src, i)'
BY DEF Whole, Holds

LEMMA FilesStep ==
  ASSUME Disciplined, IInv, ReadHold, CopiesHold, FilesHold, [Next]_vars PROVE FilesHold'
<1>1. \A f \in Active : f.parts # <<>> /\ Whole(f)'
  <2>1. \A f \in Active : \A i \in DOMAIN f.parts : <<f.chan, f.parts[i]>> \in LiveKeys
    BY DEF LiveKeys, LiveIn, RefsOf, Refs, Active
  <2>2. \A f \in Active : \A i \in DOMAIN f.parts : Holds(<<f.chan, f.parts[i]>>, f.src, i)'
    BY <2>1, StepMessages, HoldsKept, WholeIs DEF FilesHold
  <2> QED  BY <2>2, WholeWas DEF FilesHold
<1>2. ASSUME NEW k \in creates \cup updates, tg' = tg
      PROVE  /\ k.parts # <<>>
             /\ \A i \in DOMAIN k.parts : Holds(<<k.chan, k.parts[i]>>, k.up, i)'
  BY <1>2 DEF IInv, InFlight, ReadHold, Holds
\* An active file is as it was, or the new one g.
<1>3. ASSUME NEW g, g.parts # <<>>,
             \A i \in DOMAIN g.parts : Holds(<<g.chan, g.parts[i]>>, g.src, i)',
             files' \subseteq files \cup {g}
      PROVE  FilesHold'
  <2>1. Whole(g)'
    BY <1>3, WholeWas
  <2> QED  BY <1>1, <1>3, <2>1 DEF FilesHold, Active
<1>4. CASE files' = files
  BY <1>1, <1>4 DEF FilesHold, Active
<1>5. ASSUME NEW k \in creates, CreateCommit(k) PROVE FilesHold'
  <2>1. CASE files' = files \cup {[fid |-> lastFid + 1, name |-> k.name, status |-> "active",
                                   chan |-> k.chan, parts |-> k.parts,
                                   src |-> k.up, via |-> k.via]}
    <3>1. PICK g : g = [fid |-> lastFid + 1, name |-> k.name, status |-> "active", chan |-> k.chan,
                        parts |-> k.parts, src |-> k.up, via |-> k.via]
      OBVIOUS
    <3>2. g.chan = k.chan /\ g.parts = k.parts /\ g.src = k.up /\ files' \subseteq files \cup {g}
      BY <2>1, <3>1
    <3> QED  BY <1>2, <1>3, <1>5, <3>2 DEF CreateCommit
  <2>2. ASSUME NEW f \in Active,
               files' = (files \ {f}) \cup {Filled(f, k.chan, k.parts, k.up, k.via)}
        PROVE  FilesHold'
    <3>1. PICK g : g = Filled(f, k.chan, k.parts, k.up, k.via)
      OBVIOUS
    <3>2. g.chan = k.chan /\ g.parts = k.parts /\ g.src = k.up /\ files' \subseteq files \cup {g}
      BY <2>2, <3>1 DEF Filled
    <3> QED  BY <1>2, <1>3, <1>5, <3>2 DEF CreateCommit
  <2> QED  BY <1>5, <2>1, <2>2 DEF CreateCommit
<1>6. ASSUME NEW k \in updates, UpdateCommit(k) PROVE FilesHold'
  <2>1. k.chan # NoChan /\ k.parts # <<>>
    BY HomeAssumption DEF IInv, InFlight, TypeOK, Update
  <2>2. PICK f \in files : files' = (files \ {f}) \cup {Filled(f, k.chan, k.parts, k.up, "rows")}
    BY <1>6, <2>1 DEF UpdateCommit, ChannelOf
  <2>3. PICK g : g = Filled(f, k.chan, k.parts, k.up, "rows")
    OBVIOUS
  <2>4. g.chan = k.chan /\ g.parts = k.parts /\ g.src = k.up /\ files' \subseteq files \cup {g}
    BY <2>2, <2>3 DEF Filled
  <2> QED  BY <1>2, <1>3, <1>6, <2>4 DEF UpdateCommit
<1>7. ASSUME NEW k \in copies, CopyCommit(k) PROVE FilesHold'
  <2>1. PICK g : g = [fid |-> lastFid + 1, name |-> k.name, status |-> "active", chan |-> k.chan,
                      parts |-> k.parts, src |-> k.src, via |-> "copy"]
    OBVIOUS
  <2>2. g.chan = k.chan /\ g.parts = k.parts /\ g.src = k.src /\ files' = files \cup {g} /\ tg' = tg
    BY <1>7, <2>1 DEF CopyCommit
  <2>3. k.pc = "send" /\ Len(k.docs) = 0 /\ Len(k.parts) = Len(k.ids) /\ CopyHolds(k)
    BY <1>7 DEF CopyCommit, CopiesHold
  <2>4. k.parts \in Seq(Nat) /\ k.ids \in Seq(Nat) /\ k.ids # <<>>
    BY <2>3 DEF IInv, TypeOK, Copy, CopyHolds
  <2>5. k.parts # <<>> /\ Len(k.parts) + Len(k.docs) = Len(k.ids)
    BY <2>3, <2>4
  <2>6. \A i \in DOMAIN k.parts : Holds(<<k.chan, k.parts[i]>>, k.src, i)
    BY <2>3, <2>5 DEF CopyHolds
  <2>7. \A i \in DOMAIN g.parts : Holds(<<g.chan, g.parts[i]>>, g.src, i)'
    BY <2>2, <2>6 DEF Holds
  <2> QED  BY <1>3, <2>2, <2>5, <2>7
<1>8. ASSUME NEW f \in files, NEW n \in Name, MoveFile(f, n) PROVE FilesHold'
  <2>1. PICK g : g = [f EXCEPT !.name = n]
    OBVIOUS
  <2>2. g.chan = f.chan /\ g.parts = f.parts /\ g.src = f.src /\ f \in Active
    BY <1>8, <2>1 DEF MoveFile, Active, IInv, TypeOK, File
  <2>3. files' \subseteq files \cup {g}
    BY <1>8, <2>1 DEF MoveFile
  <2> QED  BY <1>1, <1>3, <2>2, <2>3, WholeWas
<1>9. CASE Active' \subseteq Active
  BY <1>1, <1>9 DEF FilesHold
<1>10. ASSUME NEW f \in files, DeleteFile(f) PROVE Active' \subseteq Active
  <2>1. [f EXCEPT !.status = "pending_deletion"].status = "pending_deletion"
    BY DEF IInv, TypeOK, File
  <2> QED  BY <1>10, <2>1 DEF DeleteFile, Active
<1>11. CASE PendSweep
  BY <1>9, <1>11 DEF PendSweep, Swept, Active
<1>12. CASE CheckMark
  <2>1. \A f \in files : [f EXCEPT !.status = "pending_deletion"].status = "pending_deletion"
    BY DEF IInv, TypeOK, File
  <2>2. Active' \subseteq Active
    BY <1>12, <2>1 DEF CheckMark, Active
  <2> QED  BY <1>9, <2>2
<1> QED  BY <1>4, <1>5, <1>6, <1>7, <1>8, <1>9, <1>10, <1>11, <1>12, WhoChangesFiles

\* A copy that the step leaves alone.
LEMMA CopyKept ==
  ASSUME IInv, IInv', Stays, Sends, NEW k \in copies, CopyHolds(k)
  PROVE  CopyHolds(k)'
<1>1. k.from \in Channel /\ k.ids \in Seq(Nat) /\ k.parts \in Seq(Nat)
  BY DEF IInv, TypeOK, Copy
<1>2. lastId \in [Channel -> Nat] /\ lastId' \in [Channel -> Nat] /\ tg \in SUBSET Message
  BY DEF IInv, TypeOK
<1>3. \A i \in DOMAIN k.parts : \A u, n :
        Holds(<<k.chan, k.parts[i]>>, u, n) => Holds(<<k.chan, k.parts[i]>>, u, n)'
  <2>1. \A i \in DOMAIN k.parts : <<k.chan, k.parts[i]>> \in LiveKeys
    BY DEF LiveKeys, LiveIn, RefsOf, Refs
  <2> QED  BY <2>1, HoldsKept
<1>4. ASSUME k.pc = "fetch", NEW i \in DOMAIN k.ids
      PROVE  /\ k.ids[i] <= lastId'[k.from]
             /\ \A m \in tg' : KeyOf(m) = <<k.from, k.ids[i]>> => m.up = k.src /\ m.no = i
  <2>1. k.ids[i] \in Nat /\ k.ids[i] <= lastId[k.from]
    BY <1>1, <1>4 DEF CopyHolds
  <2>2. k.ids[i] <= lastId'[k.from]
    BY <1>1, <1>2, <2>1 DEF Sends
  <2>3. ASSUME NEW m \in tg', KeyOf(m) = <<k.from, k.ids[i]>> PROVE m.up = k.src /\ m.no = i
    <3>1. m \in tg
      BY <1>1, <1>2, <2>1, <2>3 DEF Sends, KeyOf
    <3> QED  BY <1>4, <2>3, <3>1 DEF CopyHolds
  <2> QED  BY <2>2, <2>3
<1>5. k.ids # <<>> /\ (k.pc = "fetch" => k.docs = <<>> /\ k.parts = <<>>)
  BY DEF CopyHolds
<1>6. k.pc = "send" =>
        /\ Len(k.parts) + Len(k.docs) <= Len(k.ids)
        /\ \A i \in DOMAIN k.docs : \A m \in k.docs[i] :
             m.up = k.src /\ m.no = Len(k.ids) - Len(k.docs) + i
        /\ Len(k.parts) + Len(k.docs) = Len(k.ids) =>
             \A i \in DOMAIN k.parts : Holds(<<k.chan, k.parts[i]>>, k.src, i)'
  BY <1>3 DEF CopyHolds
<1> QED  BY <1>4, <1>5, <1>6 DEF CopyHolds

\* What CopyHolds says of a copy that is sending, by the lengths of its sequences.
Sending(k, parts, docs, ids) ==
  /\ parts + docs <= ids
  /\ \A i \in DOMAIN k.docs : \A m \in k.docs[i] : m.up = k.src /\ m.no = ids - docs + i
  /\ parts + docs = ids => \A i \in DOMAIN k.parts : Holds(<<k.chan, k.parts[i]>>, k.src, i)

LEMMA SendingIs ==
  ASSUME NEW k, k.pc = "send", k.ids # <<>>, NEW p, NEW d, NEW n,
         p = Len(k.parts), d = Len(k.docs), n = Len(k.ids)
  PROVE  (CopyHolds(k) <=> Sending(k, p, d, n)) /\ (CopyHolds(k)' <=> Sending(k, p, d, n)')
BY DEF CopyHolds, Sending

LEMMA CopiesStep ==
  ASSUME Disciplined, IInv, Numbering, FilesHold, CopiesHold, [Next]_vars PROVE CopiesHold'
<1>1. \A k \in copies : CopyHolds(k)'
  BY SafeStep, StepMessages, CopyKept DEF CopiesHold
<1>2. CASE copies' \subseteq copies
  BY <1>1, <1>2 DEF CopiesHold
<1>3. ASSUME NEW r \in Req, NEW f \in files, NEW n \in Name, CopyRead(r, f, n)
      PROVE  CopiesHold'
  <2>1. PICK k : k = [r |-> r, pc |-> "fetch", name |-> n, from |-> f.chan, chan |-> selected,
                      ids |-> f.parts, docs |-> <<>>, parts |-> <<>>, src |-> f.src]
    OBVIOUS
  <2>2. copies' = copies \cup {k} /\ tg' = tg /\ lastId' = lastId /\ f \in Active
    BY <1>3, <2>1 DEF CopyRead, store, Active
  <2>3. /\ k.pc = "fetch" /\ k.ids = f.parts /\ k.from = f.chan /\ k.src = f.src
        /\ k.docs = <<>> /\ k.parts = <<>>
    BY <2>1
  <2>4. f.parts # <<>> /\ Whole(f)
    BY <2>2 DEF FilesHold
  <2>5. ASSUME NEW i \in DOMAIN f.parts
        PROVE  /\ f.parts[i] <= lastId[f.chan]
               /\ \A m \in tg : KeyOf(m) = <<f.chan, f.parts[i]>> => m.up = f.src /\ m.no = i
    <3>1. <<f.chan, f.parts[i]>> \in KnownKeys
      BY DEF KnownKeys, RefsOf, Refs
    <3>2. f.parts[i] <= lastId[f.chan]
      BY <3>1 DEF IInv, Fresh
    <3> QED  BY <2>4, <3>2 DEF Whole, Numbering
  <2>6. CopyHolds(k)'
    BY <2>2, <2>3, <2>4, <2>5 DEF CopyHolds
  <2> QED  BY <1>1, <2>2, <2>6 DEF CopiesHold
\* What the three steps of a copy in progress have in common.
<1> DEFINE Advanced(k, j) == copies' = (copies \ {k}) \cup {j}
<1>4. ASSUME NEW k \in copies, NEW j, Advanced(k, j), CopyHolds(j)' PROVE CopiesHold'
  BY <1>1, <1>4 DEF CopiesHold
<1> HIDE DEF Advanced
<1>5. ASSUME NEW k \in copies, CopyFetch(k) PROVE CopiesHold'
  <2>1. k \in Copy /\ k.pc = "fetch" /\ k.parts = <<>> /\ k.ids # <<>> /\ k.ids \in Seq(Nat)
    BY <1>5 DEF CopyFetch, CopiesHold, CopyHolds, IInv, TypeOK, Copy
  <2>2. PICK docs : docs = [i \in DOMAIN k.ids |-> {m \in tg : KeyOf(m) = <<k.from, k.ids[i]>>}]
    OBVIOUS
  <2>3. PICK j : j = [k EXCEPT !.pc = "send", !.docs = docs]
    OBVIOUS
  <2>4. /\ j.pc = "send" /\ j.docs = docs /\ j.parts = <<>> /\ j.ids = k.ids /\ j.src = k.src
    BY <2>1, <2>3 DEF Copy
  <2>5. Advanced(k, j)
    BY <1>5, <2>2, <2>3 DEF CopyFetch, Advanced
  <2>6. Len(docs) = Len(k.ids) /\ DOMAIN docs = DOMAIN k.ids /\ Len(k.ids) \in Nat
    BY <2>1, <2>2
  <2>7. \A i \in DOMAIN docs : \A m \in docs[i] : m.up = k.src /\ m.no = i
    BY <2>1, <2>2 DEF CopiesHold, CopyHolds
  <2>8. \A i \in DOMAIN docs : i \in Nat /\ Len(k.ids) - Len(docs) + i = i
    BY <2>1, <2>6
  <2>9. Len(j.parts) = 0 /\ Len(j.parts) + Len(j.docs) <= Len(j.ids) /\ DOMAIN j.parts = {}
    BY <2>4, <2>6
  <2>10. CopyHolds(j)'
    BY <2>1, <2>4, <2>7, <2>8, <2>9 DEF CopyHolds
  <2> QED  BY <1>4, <2>5, <2>10
<1>6. ASSUME NEW k \in copies, k.docs # <<>>
      PROVE  /\ k \in Copy /\ k.pc = "send" /\ k.docs \in Seq(SUBSET Message) /\ k.parts \in Seq(Nat)
             /\ k.ids # <<>> /\ Head(k.docs) = k.docs[1] /\ 1 \in DOMAIN k.docs
             /\ \A i \in DOMAIN Tail(k.docs) : /\ i + 1 \in DOMAIN k.docs /\ i \in Nat
                                               /\ Tail(k.docs)[i] = k.docs[i + 1]
             /\ \E p, d, n \in Nat :
                  /\ p = Len(k.parts) /\ d = Len(k.docs) /\ n = Len(k.ids)
                  /\ Len(Tail(k.docs)) = d - 1 /\ d - 1 \in Nat /\ Sending(k, p, d, n)
  <2>1. k \in Copy /\ CopyHolds(k)
    BY DEF IInv, TypeOK, CopiesHold
  <2>2. k.docs \in Seq(SUBSET Message) /\ k.parts \in Seq(Nat) /\ k.ids \in Seq(Nat) /\ k.ids # <<>>
    BY <2>1 DEF Copy, CopyHolds
  <2>3. k.pc = "send"
    BY <1>6, <2>1 DEF Copy, CopyHolds
  <2>4. PICK p, d, n \in Nat : p = Len(k.parts) /\ d = Len(k.docs) /\ n = Len(k.ids)
    BY <2>2
  <2>5. Len(Tail(k.docs)) = d - 1 /\ d - 1 \in Nat
    BY <1>6, <2>2, <2>4
  <2>6. Sending(k, p, d, n)
    BY <2>1, <2>2, <2>3, <2>4, SendingIs
  <2>7. Head(k.docs) = k.docs[1] /\ 1 \in DOMAIN k.docs
    BY <1>6, <2>2
  <2>8. ASSUME NEW i \in DOMAIN Tail(k.docs)
        PROVE  i + 1 \in DOMAIN k.docs /\ i \in Nat /\ Tail(k.docs)[i] = k.docs[i + 1]
    BY <1>6, <2>2, <2>8
  <2>9. \E x, y, z \in Nat :
          /\ x = Len(k.parts) /\ y = Len(k.docs) /\ z = Len(k.ids)
          /\ Len(Tail(k.docs)) = y - 1 /\ y - 1 \in Nat /\ Sending(k, x, y, z)
    BY <2>4, <2>5, <2>6
  <2> QED  BY <2>1, <2>2, <2>3, <2>7, <2>8, <2>9
<1>7. ASSUME NEW k \in copies, CopySkip(k) PROVE CopiesHold'
  <2>1. PICK j : j = [k EXCEPT !.docs = Tail(k.docs)]
    OBVIOUS
  <2>2. k.docs # <<>> /\ Advanced(k, j)
    BY <1>7, <2>1 DEF CopySkip, Advanced
  <2>3. PICK p, d, n \in Nat :
          /\ p = Len(k.parts) /\ d = Len(k.docs) /\ n = Len(k.ids)
          /\ Len(Tail(k.docs)) = d - 1 /\ d - 1 \in Nat /\ Sending(k, p, d, n)
    BY <1>6, <2>2
  <2>4. /\ j.pc = "send" /\ j.docs = Tail(k.docs) /\ j.parts = k.parts /\ j.ids = k.ids
        /\ j.src = k.src /\ j.ids # <<>>
    BY <1>6, <2>1, <2>2 DEF Copy
  <2>5. \A i \in DOMAIN j.docs : \A m \in j.docs[i] : m.up = j.src /\ m.no = n - (d - 1) + i
    <3>1. ASSUME NEW i \in DOMAIN j.docs, NEW m \in j.docs[i]
          PROVE  m.up = j.src /\ m.no = n - (d - 1) + i
      <4>1. m \in k.docs[i + 1] /\ i + 1 \in DOMAIN k.docs /\ i \in Nat
        BY <1>6, <2>2, <2>4, <3>1
      <4>2. m.up = k.src /\ m.no = n - d + (i + 1)
        BY <2>3, <4>1 DEF Sending
      <4> QED  BY <2>4, <4>1, <4>2
    <3> QED  BY <3>1
  <2>6. Sending(j, p, d - 1, n)'
    <3>1. p + d <= n
      BY <2>3 DEF Sending
    <3>2. p + (d - 1) <= n /\ p + (d - 1) # n
      BY <3>1
    <3> QED  BY <2>5, <3>2 DEF Sending
  <2>7. CopyHolds(j)'
    BY <2>3, <2>4, <2>6, SendingIs
  <2> QED  BY <1>4, <2>2, <2>7
<1>8. ASSUME NEW k \in copies, CopyPart(k) PROVE CopiesHold'
  <2>1. PICK i : i = lastId[k.chan] + 1
    OBVIOUS
  <2>2. PICK m \in Head(k.docs) : tg' = tg \cup {[m EXCEPT !.chan = k.chan, !.id = i]}
    BY <1>8, <2>1 DEF CopyPart
  <2>3. PICK j : j = [k EXCEPT !.docs = Tail(k.docs), !.parts = Append(k.parts, i)]
    OBVIOUS
  <2>4. k.docs # <<>> /\ Advanced(k, j)
    BY <1>8, <2>1, <2>3 DEF CopyPart, Advanced
  <2>5. PICK p, d, n \in Nat :
          /\ p = Len(k.parts) /\ d = Len(k.docs) /\ n = Len(k.ids)
          /\ Len(Tail(k.docs)) = d - 1 /\ d - 1 \in Nat /\ Sending(k, p, d, n)
    BY <1>6, <2>4
  <2>6. /\ j.pc = "send" /\ j.docs = Tail(k.docs) /\ j.parts = Append(k.parts, i) /\ j.ids = k.ids
        /\ j.src = k.src /\ j.chan = k.chan /\ j.ids # <<>>
    BY <1>6, <2>3, <2>4 DEF Copy
  <2>7. m \in k.docs[1] /\ m \in Message /\ i \in Nat
    <3>1. k.chan \in Channel
      BY DEF IInv, TypeOK, Copy
    <3>2. i \in Nat
      BY <2>1, <3>1 DEF IInv, TypeOK
    <3>3. m \in k.docs[1] /\ k.docs[1] \in SUBSET Message
      BY <1>6, <2>2, <2>4
    <3> QED  BY <3>2, <3>3
  <2>8. m.up = k.src /\ m.no = n - d + 1
    BY <1>6, <2>4, <2>5, <2>7 DEF Sending
  <2>9. \A h \in DOMAIN j.docs : \A x \in j.docs[h] : x.up = j.src /\ x.no = n - (d - 1) + h
    <3>1. ASSUME NEW h \in DOMAIN j.docs, NEW x \in j.docs[h]
          PROVE  x.up = j.src /\ x.no = n - (d - 1) + h
      <4>1. x \in k.docs[h + 1] /\ h + 1 \in DOMAIN k.docs /\ h \in Nat
        BY <1>6, <2>4, <2>6, <3>1
      <4>2. x.up = k.src /\ x.no = n - d + (h + 1)
        BY <2>5, <4>1 DEF Sending
      <4> QED  BY <2>6, <4>1, <4>2
    <3> QED  BY <3>1
  <2>10. /\ Len(j.parts) = p + 1 /\ j.parts[p + 1] = i
         /\ \A h \in DOMAIN k.parts : j.parts[h] = k.parts[h]
         /\ \A h \in DOMAIN j.parts : h \in DOMAIN k.parts \/ h = p + 1
    BY SMTT(30), <1>6, <2>4, <2>5, <2>6, <2>7
  <2>11. ASSUME (p + 1) + (d - 1) = n, NEW h \in DOMAIN j.parts
         PROVE  Holds(<<j.chan, j.parts[h]>>, j.src, h)'
    <3>0. p + d = n
      BY <2>11
    <3>1. CASE h \in DOMAIN k.parts
      <4>1. Holds(<<k.chan, k.parts[h]>>, k.src, h)
        BY <2>5, <3>0, <3>1 DEF Sending
      <4>2. Holds(<<k.chan, k.parts[h]>>, k.src, h)'
        BY <2>2, <4>1 DEF Holds
      <4> QED  BY <2>6, <2>10, <3>1, <4>2
    <3>2. CASE h = p + 1
      <4>1. PICK new : new = [m EXCEPT !.chan = k.chan, !.id = i]
        OBVIOUS
      <4>2. KeyOf(new) = <<k.chan, i>> /\ new.up = m.up /\ new.no = m.no
        BY <2>7, <4>1 DEF Message, KeyOf
      <4>3. m.no = h
        BY <2>8, <3>0, <3>2
      <4>4. new \in tg'
        BY <2>2, <4>1
      <4>5. Holds(<<k.chan, i>>, k.src, h)'
        BY <2>8, <4>2, <4>3, <4>4 DEF Holds
      <4> QED  BY <2>6, <2>10, <3>2, <4>5
    <3> QED  BY <2>10, <3>1, <3>2
  <2>12. Sending(j, p + 1, d - 1, n)'
    <3>1. p + d <= n
      BY <2>5 DEF Sending
    <3>2. (p + 1) + (d - 1) <= n
      BY <3>1
    <3> QED  BY <2>9, <2>11, <3>2 DEF Sending
  <2>13. CopyHolds(j)'
    BY <2>5, <2>6, <2>10, <2>12, SendingIs
  <2> QED  BY <1>4, <2>4, <2>13
<1> QED  BY <1>2, <1>3, <1>5, <1>7, <1>8, WhoChangesRequests

LEMMA WhoChangesCheck ==
  ASSUME Disciplined, IInv, [Next]_vars
  PROVE  \/ chk' = chk \/ chk'.pc # "mark"
         \/ CheckUploads /\ UNCHANGED <<tg, uploads, files>>
<1>1. CASE Requests \/ StaleJob \/ PendJob
  BY <1>1, NotChecking DEF IInv
<1>2. Environment => UNCHANGED jobs
  BY DEF Environment, Age, Abandon, SelectChannel, LogInOut
<1>3. CASE UNCHANGED vars
  BY <1>3 DEF jobs, vars
<1>4. \A c : CheckIdle(c).pc = "idle" /\ [CheckIdle(c) EXCEPT !.pc = "messages"].pc = "messages"
  BY DEF CheckIdle
<1>5. ASSUME NEW c \in Channel, CheckFiles(c) PROVE chk'.pc # "mark"
  BY <1>5 DEF CheckFiles, CheckIdle
<1>6. chk \in [pc : {"idle", "messages", "uploads", "mark", "purge"}, chan : Channel,
               files : SUBSET File, msgs : SUBSET Nat, missing : SUBSET Nat,
               orphans : SUBSET Key]
  BY DEF IInv, TypeOK
<1>7. CASE CheckMessages
  BY <1>4, <1>6, <1>7 DEF CheckMessages
<1>8. CASE CheckMark
  BY <1>6, <1>8 DEF CheckMark
<1>9. CASE CheckPurge \/ CheckCrash
  BY <1>4, <1>9 DEF CheckPurge, CheckCrash
<1>10. CheckUploads => UNCHANGED <<tg, uploads, files>>
  BY DEF CheckUploads, store
<1> QED  BY <1>1, <1>2, <1>3, <1>5, <1>7, <1>8, <1>9, <1>10 DEF Next, Check, jobs

LEMMA MissingStep ==
  ASSUME Disciplined, IInv, FilesHold, NoneMissing, [Next]_vars PROVE NoneMissing'
<1>1. CASE chk' = chk \/ chk'.pc # "mark"
  BY <1>1 DEF NoneMissing
<1>2. CASE CheckUploads
  <2>1. PICK ids : ids = chk.msgs \ StagedIds(chk.chan)
    OBVIOUS
  <2>2. PICK odd \in SUBSET {f \in chk.files : ~Whole(f)} :
          chk'.missing = {f.fid : f \in {g \in chk.files : \/ ~PresentIn(g, ids)
                                                          \/ g.parts = <<>> \/ g \in odd}}
    <3>1. chk \in [pc : {"idle", "messages", "uploads", "mark", "purge"}, chan : Channel,
                   files : SUBSET File, msgs : SUBSET Nat, missing : SUBSET Nat,
                   orphans : SUBSET Key]
      BY DEF IInv, TypeOK
    <3> QED  BY <1>2, <2>1, <3>1 DEF CheckUploads
  <2>3. /\ chk.files = {f \in Active : f.chan = chk.chan}
        /\ chk.msgs = {m.id : m \in {x \in tg : x.chan = chk.chan}}
    BY <1>2 DEF CheckUploads, IInv, Checking
  <2>4. ASSUME NEW f \in chk.files PROVE Whole(f) /\ f.parts # <<>> /\ PresentIn(f, ids)
    <3>1. f \in Active /\ f.chan = chk.chan
      BY <2>3
    <3>2. Whole(f) /\ f.parts # <<>>
      BY <3>1 DEF FilesHold
    <3>3. \A row \in uploads : KeyOf(row) \notin Refs(f)
      BY <3>1 DEF IInv, Exclusive, ExclusiveIn, Off, Active
    <3>4. ASSUME NEW i \in DOMAIN f.parts PROVE f.parts[i] \in ids
      <4>1. PICK m \in tg : KeyOf(m) = <<f.chan, f.parts[i]>>
        BY <3>2 DEF Whole
      <4>2. m.chan = chk.chan /\ m.id = f.parts[i]
        BY <3>1, <4>1 DEF KeyOf
      <4>3. f.parts[i] \in chk.msgs
        BY <2>3, <4>2
      <4>4. <<chk.chan, f.parts[i]>> \in Refs(f)
        BY <3>1 DEF Refs
      <4>5. f.parts[i] \notin StagedIds(chk.chan)
        BY <3>3, <4>4 DEF StagedIds, KeyOf
      <4> QED  BY <2>1, <4>3, <4>5
    <3> QED  BY <3>2, <3>4 DEF PresentIn
  <2> QED  BY <2>2, <2>4 DEF NoneMissing
<1> QED  BY <1>1, <1>2, WhoChangesCheck

LEMMA ContentInvariant == ASSUME Disciplined PROVE Spec => [](IInv /\ Content)
<1>1. Init => IInv /\ Content
  BY SafeInit DEF Init, Content, Numbering, StagedHold, RowsHold, ReadHold, FilesHold, CopiesHold,
       NoneMissing, CheckIdle, Active
<1>2. IInv /\ Content /\ [Next]_vars => (IInv /\ Content)'
  BY SafeStep, NumberingStep, StagedStep, RowsStep, ReadStep, FilesStep, CopiesStep, MissingStep
     DEF Content
<1> QED  BY <1>1, <1>2, PTL DEF Spec

\* With clients and operators that keep to the protocol the parts of an active
\* file, in order, are the parts 1, 2, ... of one upload: through staging,
\* FilesCreate, FilesUpdate, FilesCopy, renaming, both cleaners and check
\* (upload_staging.go, file.go, queue_executor.go, cmd/check.go).
THEOREM FilesReassemble == ASSUME Disciplined PROVE Spec => []Reassembles
<1>1. IInv /\ Content => Reassembles
  BY DEF Content, FilesHold, Reassembles
<1> QED  BY <1>1, ContentInvariant, PTL

\* On an idle server "teldrive check" marks no file as incomplete, so that it
\* deletes none: it never takes a part for missing that is there (cmd/check.go).
THEOREM CheckMarksNoFile == ASSUME Disciplined PROVE Spec => []NoFalseMissing
<1>1. IInv /\ Content => NoFalseMissing
  BY DEF Content, NoneMissing, NoFalseMissing
<1> QED  BY <1>1, ContentInvariant, PTL

-----------------------------------------------------------------------------
(* What one request is enough to delete.  Beyond it nothing like Purged is *)
(* true: with several batches a success can hide the failure of another.   *)

\* The messages of every group fit one ChannelsDeleteMessages call.
OneRequest ==
  \A c \in Channel : /\ Cardinality(Group(stale.todo, c)) <= BatchSize
                     /\ Cardinality(Group(pend.todo, c)) <= BatchSize

LEMMA NotCleaning ==
  ASSUME Requests \/ Environment \/ Check
  PROVE  stale' = stale /\ pend' = pend
<1>1. CASE Requests
  BY <1>1 DEF Requests, StageUpload, StageInsert, StageFail, UploadsDelete, CreateRead,
       CreateCommit, CreateFail, UpdateRead, UpdateCommit, UpdateFail, CopyRead, CopyFetch,
       CopyPart, CopySkip, CopyCommit, CopyFail, DeleteFile, MoveFile, jobs
<1>2. CASE Environment
  BY <1>2 DEF Environment, Age, Abandon, SelectChannel, LogInOut, jobs
<1>3. CASE Check
  BY <1>3 DEF Check, CheckFiles, CheckMessages, CheckUploads, CheckMark, CheckPurge, CheckCrash
<1> QED  BY <1>1, <1>2, <1>3

LEMMA OneCleaner ==
  /\ StaleJob => pend' = pend
  /\ PendJob => stale' = stale
<1>1. StaleJob => pend' = pend
  BY DEF StaleJob, StaleList, StaleDelete, StaleRows, StaleCrash
<1>2. PendJob => stale' = stale
  BY DEF PendJob, PendList, PendDelete, PendSweep, PendCrash
<1> QED  BY <1>1, <1>2

LEMMA WhoChangesCleaners ==
  ASSUME [Next]_vars
  PROVE  /\ \/ stale'.group \subseteq stale.group
            \/ \E c \in Channel : StaleDelete(c)
         /\ \/ pend' = pend \/ pend'.listed = {} \/ PendList
            \/ \E c \in Channel : PendDelete(c)
<1>1. CASE Requests \/ Environment \/ Check
  BY <1>1, NotCleaning
<1>2. CASE StaleJob
  <2>1. CASE StaleList
    BY <1>2, <2>1, OneCleaner DEF StaleList
  <2>2. CASE StaleRows
    BY <1>2, <2>2, OneCleaner DEF StaleRows, StaleIdle
  <2>3. CASE StaleCrash
    BY <1>2, <2>3, OneCleaner DEF StaleCrash, StaleIdle
  <2> QED  BY <1>2, <2>1, <2>2, <2>3, OneCleaner DEF StaleJob
<1>3. CASE PendJob
  <2>1. CASE PendSweep \/ PendCrash
    BY <1>3, <2>1, OneCleaner DEF PendSweep, PendCrash, PendIdle
  <2> QED  BY <1>3, <2>1, OneCleaner DEF PendJob
<1>4. CASE UNCHANGED vars
  BY <1>4 DEF vars, jobs
<1> QED  BY <1>1, <1>2, <1>3, <1>4 DEF Next

LEMMA PurgedStep ==
  ASSUME Disciplined, IInv, Purged, OneRequest, [Next]_vars PROVE Purged'
<1>1. /\ \A c \in Channel : lastId[c] <= lastId'[c]
      /\ \A m \in tg' : m \in tg \/ (m \in Message /\ m.id > lastId[m.chan])
  BY StepMessages DEF Sends
<1>2. lastId \in [Channel -> Nat] /\ lastId' \in [Channel -> Nat]
  BY SafeStep DEF IInv, TypeOK
<1>3. /\ stale \in [pc : {"idle", "delete", "rows"}, todo : SUBSET Key, group : SUBSET Key]
      /\ pend \in [pc : {"idle", "delete"}, todo : SUBSET Key, listed : SUBSET Key]
  BY DEF IInv, TypeOK
\* A key known before is that of a message sent before.
<1>4. ASSUME NEW K \in SUBSET Key, \A key \in K : key[2] <= lastId[key[1]]
      PROVE  K \cap TgKeys' \subseteq TgKeys
  <2>1. ASSUME NEW m \in tg', KeyOf(m) \in K PROVE m \in tg
    <3>1. m.chan \in Channel /\ m.id \in Nat /\ m.id <= lastId[m.chan]
      BY <1>4, <2>1 DEF KeyOf, Key
    <3> QED  BY <1>1, <1>2, <3>1
  <2> QED  BY <2>1 DEF TgKeys
<1>5. (stale.group \cap TgKeys = {})'
  <2>1. \A key \in stale.group : key[2] <= lastId[key[1]]
    BY DEF IInv, Fresh, KnownKeys, DoomedKeys, DoomedNotLive
  <2>2. stale.group \cap TgKeys' = {}
    BY <1>3, <1>4, <2>1 DEF Purged
  <2>3. ASSUME NEW c \in Channel, StaleDelete(c) PROVE stale'.group \cap TgKeys' = {}
    <3>1. PICK o \in DeleteOutcomes(Group(stale.todo, c)) :
            /\ tg' = Surviving(o.gone)
            /\ stale' = IF o.ok THEN [stale EXCEPT !.pc = "rows", !.group = Group(stale.todo, c)]
                                ELSE StaleIdle
      BY <2>3 DEF StaleDelete
    <3>2. CASE o.ok
      <4>1. o.gone = Group(stale.todo, c)
        BY <3>1, <3>2 DEF DeleteOutcomes, OneRequest
      <4>2. stale'.group = Group(stale.todo, c)
        BY <1>3, <3>1, <3>2
      <4> QED  BY <3>1, <4>1, <4>2 DEF Surviving, TgKeys
    <3>3. CASE ~o.ok
      BY <3>1, <3>3 DEF StaleIdle
    <3> QED  BY <3>2, <3>3
  <2> QED  BY <2>2, <2>3, WhoChangesCleaners
<1>6. (pend.listed \cap TgKeys \subseteq pend.todo)' /\ (\A key \in pend.listed : key[2] <= lastId[key[1]])'
  <2>1. \A key \in pend.listed : key[2] <= lastId'[key[1]]
    <3>1. ASSUME NEW key \in pend.listed PROVE key[2] <= lastId'[key[1]]
      <4>1. key[1] \in Channel /\ key[2] \in Nat /\ key[2] <= lastId[key[1]]
        BY <1>3 DEF Purged, Key
      <4> QED  BY <1>1, <1>2, <4>1
    <3> QED  BY <3>1
  <2>2. pend.listed \cap TgKeys' \subseteq pend.todo
    BY <1>3, <1>4 DEF Purged
  <2>3. CASE pend' = pend
    BY <2>1, <2>2, <2>3
  <2>4. CASE pend'.listed = {}
    BY <2>4
  <2>5. CASE PendList
    <3>1. pend'.listed = pend'.todo /\ pend'.listed \subseteq RefsOf(files) /\ lastId' = lastId
      BY <2>5 DEF PendList, Pending, RefsOf, store
    <3>2. \A key \in pend'.listed : key[2] <= lastId[key[1]]
      BY <3>1 DEF IInv, Fresh, KnownKeys
    <3> QED  BY <3>1, <3>2
  <2>6. ASSUME NEW c \in Channel, PendDelete(c)
        PROVE  /\ pend'.listed \cap TgKeys' \subseteq pend'.todo
               /\ pend'.listed \subseteq pend.listed
    <3>1. PICK o \in DeleteOutcomes(Group(pend.todo, c)) :
            /\ tg' = Surviving(o.gone)
            /\ pend' = IF o.ok THEN [pend EXCEPT !.todo = @ \ Group(pend.todo, c)] ELSE PendIdle
      BY <2>6 DEF PendDelete
    <3>2. CASE o.ok
      <4>1. o.gone = Group(pend.todo, c)
        BY <3>1, <3>2 DEF DeleteOutcomes, OneRequest
      <4>2. pend'.listed = pend.listed /\ pend'.todo = pend.todo \ Group(pend.todo, c)
        BY <1>3, <3>1, <3>2
      <4> QED  BY <2>2, <3>1, <4>1, <4>2 DEF Surviving, TgKeys
    <3>3. CASE ~o.ok
      BY <3>1, <3>3 DEF PendIdle
    <3> QED  BY <3>2, <3>3
  <2> QED  BY <2>1, <2>3, <2>4, <2>5, <2>6, WhoChangesCleaners
<1> QED  BY <1>5, <1>6 DEF Purged

LEMMA PurgedInvariant == ASSUME Disciplined PROVE Spec /\ []OneRequest => []Purged
<1>1. Init => Purged
  BY DEF Init, Purged, StaleIdle, PendIdle
<1>2. IInv /\ Purged /\ OneRequest /\ [Next]_vars => Purged'
  BY PurgedStep
<1> QED  BY <1>1, <1>2, SafetyInvariant, PTL DEF Spec

\* The invariant that run "requests" checks, for every instance and every number
\* of channels, uploads, files and requests in flight.
THEOREM StoreInvariant == ASSUME Disciplined PROVE Spec /\ []OneRequest => []StoreInv
BY RecordedInvariant, ContentInvariant, PurgedInvariant, PTL DEF StoreInv

\* As long as the messages of a group fit one request: when the stale cleaner
\* removes the rows it listed, their messages are gone (queue_executor.go,
\* CleanStaleUploadsForUser), whatever the requests did in between.
THEOREM StaleRowsLeaveNoMessage ==
  ASSUME Disciplined PROVE Spec /\ []OneRequest => StaleCleanerNoLeak
<1>1. Purged => [\A row \in uploads \ uploads' :
                   KeyOf(row) \in stale.group => KeyOf(row) \notin TgKeys]_vars
  BY DEF Purged
<1> QED  BY <1>1, PurgedInvariant, PTL DEF StaleCleanerNoLeak

\* The messages that the job which removes deleted files listed, with a session,
\* are gone once it comes to the sweep (CleanPendingFilesForUser).  Nothing is said
\* of other rows, which the sweep deletes as well, with their messages left: those
\* marked after the listing, and all of them when there is no session.
THEOREM SweptFilesLeaveNoMessage ==
  ASSUME Disciplined PROVE Spec /\ []OneRequest => []SweepAfterPurge
<1>1. Purged => SweepAfterPurge
  BY DEF Purged, SweepAfterPurge
<1> QED  BY <1>1, PurgedInvariant, PTL

-----------------------------------------------------------------------------
(* Clients that repeat themselves: what is left of OneHolder when requests *)
(* are retried, late or duplicated, uploads outlive the retention and      *)
(* check runs beside the server.  It takes one channel: an update whose    *)
(* rows are gone moves a file's ids to the channel that it names, where    *)
(* they are the ids of other messages.                                     *)

UsesOne(main) ==
  /\ \A u \in Upload : Home[u] = main
  /\ "default" \in Liberty => Channel = {main}

PartIds(k) == {k.parts[i] : i \in DOMAIN k.parts}
RowFiles   == {f \in files : f.via = "rows"}

\* The ids that handlers and files took from rows are older than what is staged,
\* and only rows of the same upload can have them.
Separate(main) ==
  /\ \A x \in uploads \cup staging : x.chan = main /\ x.id <= lastId[main]
  /\ \A x, y \in uploads : x.id = y.id => x.up = y.up
  /\ \A x \in uploads, s \in staging : x.id # s.id
  /\ \A s, t \in staging : s.id = t.id => s = t
  /\ \A k \in creates : k.chan = main
  /\ \A k \in updates : k.chan = main \/ Channel = {main}
  /\ \A k \in creates \cup updates :
       /\ \A id \in PartIds(k) : id <= lastId[main]
       /\ \A x \in uploads : x.id \in PartIds(k) => x.up = k.up
       /\ \A s \in staging : s.id \notin PartIds(k)
  /\ \A f \in RowFiles :
       /\ f.chan = main /\ \A id \in PartIds(f) : id <= lastId[main]
       /\ \A x \in uploads \cup staging : x.id \notin PartIds(f)

LEMMA SeparateKept ==
  ASSUME NEW main \in Channel, TypeInv, TypeInv', Separate(main), lastId[main] <= lastId'[main],
         uploads' \subseteq uploads, staging' \subseteq staging,
         creates' \subseteq creates, updates' \subseteq updates,
         \A g \in RowFiles' : \E f \in RowFiles : g.chan = f.chan /\ g.parts = f.parts
  PROVE  Separate(main)'
<1>1. lastId[main] \in Nat /\ lastId'[main] \in Nat
  BY DEF TypeInv, TypeOK
<1>2. \A x \in uploads \cup staging : x.id \in Nat
  BY DEF TypeInv, TypeOK, Row, Staging
<1>3. \A k \in creates \cup updates \cup files : PartIds(k) \subseteq Nat
  BY DEF TypeInv, TypeOK, Create, Update, File, PartIds
<1>4. \A x \in uploads' \cup staging' : x.chan = main /\ x.id <= lastId'[main]
  BY <1>1, <1>2 DEF Separate
<1>5. \A k \in creates \cup updates : \A id \in PartIds(k) : id <= lastId'[main]
  BY <1>1, <1>3 DEF Separate
<1>6. \A f \in RowFiles : \A id \in PartIds(f) : id <= lastId'[main]
  BY <1>1, <1>3 DEF Separate, RowFiles
<1>7. ASSUME NEW g \in RowFiles'
      PROVE  /\ g.chan = main /\ \A id \in PartIds(g) : id <= lastId'[main]
             /\ \A x \in uploads \cup staging : x.id \notin PartIds(g)
  <2>1. PICK f \in RowFiles : g.chan = f.chan /\ PartIds(g) = PartIds(f)
    BY <1>7 DEF PartIds
  <2> QED  BY <1>6, <2>1 DEF Separate
<1>8. \A k \in creates' \cup updates' :
        /\ \A id \in PartIds(k) : id <= lastId'[main]
        /\ \A x \in uploads' : x.id \in PartIds(k) => x.up = k.up
        /\ \A s \in staging' : s.id \notin PartIds(k)
  BY <1>5 DEF Separate
<1>9. /\ \A k \in creates' : k.chan = main
      /\ \A k \in updates' : k.chan = main \/ Channel = {main}
      /\ \A x, y \in uploads' : x.id = y.id => x.up = y.up
      /\ \A x \in uploads', s \in staging' : x.id # s.id
      /\ \A s, t \in staging' : s.id = t.id => s = t
  BY DEF Separate
<1> QED  BY <1>4, <1>7, <1>8, <1>9 DEF Separate

LEMMA SeparateStaging ==
  ASSUME NEW main \in Channel, UsesOne(main), TypeInv, TypeInv', Separate(main),
         \/ \E r \in Req, u \in Upload, n \in PartNo : StageUpload(r, u, n)
         \/ \E s \in staging : StageInsert(s)
         \/ \E row \in uploads : Age(row)
  PROVE  Separate(main)'
<1> USE DEF store, env, reqs, jobs
<1>0. lastId \in [Channel -> Nat]
  BY DEF TypeInv, TypeOK
<1>1. ASSUME NEW r \in Req, NEW u \in Upload, NEW n \in PartNo, StageUpload(r, u, n)
      PROVE  Separate(main)'
  <2>1. Resolved(u) = main
    BY DEF UsesOne, Resolved, TypeInv, TypeOK
  <2>2. PICK i : i = lastId[main] + 1
    OBVIOUS
  <2>3. PICK s : s = [r |-> r, chan |-> main, id |-> i, up |-> u, no |-> n]
    OBVIOUS
  <2>4. /\ staging' = staging \cup {s} /\ lastId' = [lastId EXCEPT ![main] = i]
        /\ UNCHANGED <<uploads, files, creates, updates>>
    BY <1>1, <2>1, <2>2, <2>3 DEF StageUpload
  <2>5a. \A x \in uploads \cup staging : x.id \in Nat
    BY DEF TypeInv, TypeOK, Row, Staging
  <2>5b. \A k \in creates \cup updates \cup files : PartIds(k) \subseteq Nat
    BY DEF TypeInv, TypeOK, Create, Update, File, PartIds
  <2>6. lastId'[main] = i /\ lastId[main] \in Nat
    BY <1>0, <2>4
  <2>7. s.chan = main /\ s.id = i
    BY <2>3
  <2>8. \A id \in Nat : id <= lastId[main] => id <= i /\ id # i
    BY <2>2, <2>6
  <2>9. /\ \A x \in uploads \cup staging : x.chan = main /\ x.id <= i /\ x.id # i
        /\ \A k \in creates \cup updates \cup RowFiles : \A id \in PartIds(k) : id <= i /\ id # i
    BY <2>5a, <2>5b, <2>8 DEF Separate, RowFiles
  <2>10. i <= i
    BY <2>2, <2>6
  <2>11. RowFiles' = RowFiles
    BY <2>4 DEF RowFiles
  <2>12. \A k \in creates \cup updates \cup RowFiles : \A t \in staging' : t.id \notin PartIds(k)
    BY <2>4, <2>7, <2>9 DEF Separate
  <2>13. \A x \in uploads \cup staging' : x.chan = main /\ x.id <= i
    BY <2>4, <2>7, <2>9, <2>10
  <2>14. /\ \A x \in uploads, t \in staging' : x.id # t.id
         /\ \A t, v \in staging' : t.id = v.id => t = v
    BY <2>4, <2>7, <2>9 DEF Separate
  <2> QED  BY <2>4, <2>6, <2>9, <2>11, <2>12, <2>13, <2>14 DEF Separate
<1>2. ASSUME NEW s \in staging, StageInsert(s) PROVE Separate(main)'
  <2>1. PICK x : x = [chan |-> s.chan, id |-> s.id, up |-> s.up, no |-> s.no, stale |-> FALSE]
    OBVIOUS
  <2>2. /\ uploads' = uploads \cup {x} /\ staging' = staging \ {s}
        /\ UNCHANGED <<lastId, files, creates, updates>>
    BY <1>2, <2>1 DEF StageInsert
  <2>3. x.chan = s.chan /\ x.id = s.id
    BY <2>1
  <2>4. RowFiles' = RowFiles
    BY <2>2 DEF RowFiles
  <2> QED  BY <2>2, <2>3, <2>4 DEF Separate
<1>3. ASSUME NEW row \in uploads, Age(row) PROVE Separate(main)'
  <2>1. PICK x : x = [row EXCEPT !.stale = TRUE]
    OBVIOUS
  <2>2. /\ uploads' = (uploads \ {row}) \cup {x}
        /\ UNCHANGED <<lastId, staging, files, creates, updates>>
    BY <1>3, <2>1 DEF Age
  <2>3. x.chan = row.chan /\ x.id = row.id /\ x.up = row.up
    BY <2>1 DEF TypeInv, TypeOK, Row
  <2>4. RowFiles' = RowFiles
    BY <2>2 DEF RowFiles
  <2> QED  BY <2>2, <2>3, <2>4 DEF Separate
<1> QED  BY <1>1, <1>2, <1>3

LEMMA SeparateReads ==
  ASSUME NEW main \in Channel, UsesOne(main), TypeInv, Separate(main),
         \/ \E r \in Req, u \in Upload, via \in {"rows", "parts"} : CreateRead(r, u, via)
         \/ \E r \in Req, u \in Upload : UpdateRead(r, u)
  PROVE  Separate(main)'
<1> USE DEF store
<1>1. ASSUME NEW u \in Upload, NEW s \in PartOrders(RowsOf(u)), NEW k, k.up = u, k.parts = Ids(s)
      PROVE  /\ \A id \in PartIds(k) : id <= lastId[main]
             /\ \A x \in uploads : x.id \in PartIds(k) => x.up = k.up
             /\ \A t \in staging : t.id \notin PartIds(k)
  <2>1. \A id \in PartIds(k) : \E row \in uploads : row.up = u /\ row.id = id
    BY <1>1, PartsOfUpload DEF PartIds, RowsOf
  <2> QED  BY <1>1, <2>1 DEF Separate
<1>2. ASSUME NEW r \in Req, NEW u \in Upload, NEW via \in {"rows", "parts"}, CreateRead(r, u, via)
      PROVE  Separate(main)'
  <2>1. Resolved(u) = main
    BY DEF UsesOne, Resolved, TypeInv, TypeOK
  <2>2. PICK s \in PartOrders(RowsOf(u)) :
          creates' = creates \cup {[r |-> r, up |-> u, name |-> Title[u], chan |-> main,
                                    parts |-> Ids(s), via |-> via]}
    BY <1>2, <2>1 DEF CreateRead
  <2>3. PICK k : k = [r |-> r, up |-> u, name |-> Title[u], chan |-> main,
                      parts |-> Ids(s), via |-> via]
    OBVIOUS
  <2>4. creates' = creates \cup {k} /\ k.up = u /\ k.chan = main /\ k.parts = Ids(s)
    BY <2>2, <2>3
  <2>5. UNCHANGED <<lastId, uploads, files, staging, updates>>
    BY <1>2 DEF CreateRead
  <2>6. RowFiles' = RowFiles
    BY <2>5 DEF RowFiles
  <2> QED  BY <1>1, <2>4, <2>5, <2>6 DEF Separate
<1>3. ASSUME NEW r \in Req, NEW u \in Upload, UpdateRead(r, u) PROVE Separate(main)'
  <2>1. PICK c : c = IF "default" \in Liberty THEN NoChan ELSE Home[u]
    OBVIOUS
  <2>2. c = main \/ Channel = {main}
    BY <2>1 DEF UsesOne
  <2>3. PICK s \in PartOrders(RowsOf(u)) :
          updates' = updates \cup {[r |-> r, up |-> u, fid |-> Target[u], parts |-> Ids(s), chan |-> c]}
    BY <1>3, <2>1 DEF UpdateRead
  <2>4. PICK k : k = [r |-> r, up |-> u, fid |-> Target[u], parts |-> Ids(s), chan |-> c]
    OBVIOUS
  <2>5. updates' = updates \cup {k} /\ k.up = u /\ k.chan = c /\ k.parts = Ids(s)
    BY <2>3, <2>4
  <2>6. UNCHANGED <<lastId, uploads, files, staging, creates>>
    BY <1>3 DEF UpdateRead
  <2>7. RowFiles' = RowFiles
    BY <2>6 DEF RowFiles
  <2> QED  BY <1>1, <2>2, <2>5, <2>6, <2>7 DEF Separate
<1> QED  BY <1>2, <1>3

\* A file gets new content, or a new file is made, from the rows that were read.
LEMMA SeparateCommits ==
  ASSUME NEW main \in Channel, UsesOne(main), TypeInv, TypeInv', Separate(main),
         \/ \E k \in creates : CreateCommit(k)
         \/ \E k \in updates : UpdateCommit(k)
  PROVE  Separate(main)'
<1> DEFINE FilesApart == \A f \in RowFiles' :
                           /\ f.chan = main /\ \A id \in PartIds(f) : id <= lastId[main]
                           /\ \A x \in uploads' \cup staging : x.id \notin PartIds(f)
<1>1. ASSUME NEW k \in creates \cup updates, uploads' = WithoutRows(k.up),
             NEW g, g.chan = main, g.parts = k.parts
      PROVE  /\ g.chan = main /\ \A id \in PartIds(g) : id <= lastId[main]
             /\ \A x \in uploads' \cup staging : x.id \notin PartIds(g)
  <2>1. PartIds(g) = PartIds(k)
    BY <1>1 DEF PartIds
  <2>2. \A x \in uploads' : x \in uploads /\ x.up # k.up
    BY <1>1 DEF WithoutRows, RowsOf
  <2> QED  BY <1>1, <2>1, <2>2 DEF Separate
<1>2. ASSUME uploads' \subseteq uploads, NEW f \in RowFiles,
             NEW g, g.chan = main, g.parts = f.parts
      PROVE  /\ g.chan = main /\ \A id \in PartIds(g) : id <= lastId[main]
             /\ \A x \in uploads' \cup staging : x.id \notin PartIds(g)
  <2>1. PartIds(g) = PartIds(f)
    BY <1>2 DEF PartIds
  <2> QED  BY <1>2, <2>1 DEF Separate
<1>3. ASSUME FilesApart, uploads' \subseteq uploads, lastId' = lastId, staging' = staging,
             creates' \subseteq creates, updates' \subseteq updates
      PROVE  Separate(main)'
  BY <1>3 DEF Separate
<1>4. ASSUME NEW k \in creates, CreateCommit(k) PROVE Separate(main)'
  <2>1. /\ k.chan = main /\ uploads' \subseteq uploads /\ lastId' = lastId /\ staging' = staging
        /\ creates' \subseteq creates /\ updates' = updates
    BY <1>4 DEF CreateCommit, WithoutRows, Separate
  <2>2. PICK g : /\ files' \subseteq files \cup {g}
                 /\ g.chan = k.chan /\ g.parts = k.parts /\ g.via = k.via
    <3>1. ASSUME NEW g, g = [fid |-> lastFid + 1, name |-> k.name, status |-> "active", chan |-> k.chan,
                             parts |-> k.parts, src |-> k.up, via |-> k.via]
          PROVE  g.chan = k.chan /\ g.parts = k.parts /\ g.via = k.via
      BY <3>1
    <3>2. ASSUME NEW f, NEW g, g = Filled(f, k.chan, k.parts, k.up, k.via)
          PROVE  g.chan = k.chan /\ g.parts = k.parts /\ g.via = k.via
      BY <3>2 DEF Filled
    <3>3. \/ files' = files \cup {[fid |-> lastFid + 1, name |-> k.name, status |-> "active",
                                   chan |-> k.chan, parts |-> k.parts, src |-> k.up, via |-> k.via]}
          \/ \E f \in files : files' \subseteq files \cup {Filled(f, k.chan, k.parts, k.up, k.via)}
      BY <1>4 DEF CreateCommit, Active
    <3> QED  BY <3>1, <3>2, <3>3
  <2>3. g.via = "rows" => uploads' = WithoutRows(k.up)
    BY <1>4, <2>2 DEF CreateCommit
  <2>4. FilesApart
    BY <1>1, <1>2, <2>1, <2>2, <2>3 DEF RowFiles, Separate
  <2> QED  BY <1>3, <2>1, <2>4
<1>5. ASSUME NEW k \in updates, UpdateCommit(k) PROVE Separate(main)'
  <2>1. /\ uploads' = WithoutRows(k.up) /\ uploads' \subseteq uploads /\ lastId' = lastId
        /\ staging' = staging /\ creates' = creates /\ updates' \subseteq updates
    BY <1>5 DEF UpdateCommit, WithoutRows
  <2>2. PICK f \in files :
          files' = (files \ {f}) \cup
            {IF k.parts = <<>> THEN Filled(f, ChannelOf(k, f), f.parts, f.src, f.via)
                               ELSE Filled(f, ChannelOf(k, f), k.parts, k.up, "rows")}
    BY <1>5 DEF UpdateCommit
  <2>3. PICK g : /\ g = IF k.parts = <<>> THEN Filled(f, ChannelOf(k, f), f.parts, f.src, f.via)
                                          ELSE Filled(f, ChannelOf(k, f), k.parts, k.up, "rows")
    OBVIOUS
  <2>4. files' \subseteq files \cup {g} /\ g \in files'
    BY <2>2, <2>3
  <2>5. g.chan = main
    <3>1. g.chan = ChannelOf(k, f) /\ g.chan \in Channel
      BY <2>3, <2>4 DEF Filled, TypeInv, TypeOK, File
    <3>2. f.chan \in Channel /\ (k.chan = main \/ Channel = {main})
      BY DEF Separate, TypeInv, TypeOK, File
    <3>3. CASE k.chan = main
      BY <3>1, <3>3, HomeAssumption DEF ChannelOf
    <3> QED  BY <3>1, <3>2, <3>3
  <2>6. \/ g.parts = k.parts
        \/ g.parts = f.parts /\ g.via = f.via
    BY <2>3 DEF Filled
  <2>7. FilesApart
    BY <1>1, <1>2, <2>1, <2>4, <2>5, <2>6 DEF RowFiles, Separate
  <2> QED  BY <1>3, <2>1, <2>7
<1> QED  BY <1>4, <1>5

LEMMA IdsGrow ==
  ASSUME TypeInv, [Next]_vars
  PROVE  \A c \in Channel : lastId[c] <= lastId'[c]
<1> USE DEF store, env, reqs, jobs
<1>1. lastId \in [Channel -> Nat]
  BY DEF TypeInv, TypeOK
<1>2. ASSUME NEW d, lastId' = [lastId EXCEPT ![d] = lastId[d] + 1]
      PROVE  \A c \in Channel : lastId[c] <= lastId'[c]
  BY <1>1, <1>2
<1>3. \/ lastId' = lastId
      \/ \E d : lastId' = [lastId EXCEPT ![d] = lastId[d] + 1]
  <2>1. CASE Requests
    BY <2>1 DEF Requests, StageUpload, StageInsert, StageFail, UploadsDelete, CreateRead,
         CreateCommit, CreateFail, UpdateRead, UpdateCommit, UpdateFail, CopyRead, CopyFetch,
         CopyPart, CopySkip, CopyCommit, CopyFail, DeleteFile, MoveFile
  <2>2. CASE Environment \/ UNCHANGED vars
    BY <2>2 DEF Environment, Age, Abandon, SelectChannel, LogInOut, vars
  <2>3. CASE StaleJob \/ PendJob \/ Check
    BY <2>3 DEF StaleJob, StaleList, StaleDelete, StaleRows, StaleCrash,
         PendJob, PendList, PendDelete, PendSweep, PendCrash,
         Check, CheckFiles, CheckMessages, CheckUploads, CheckMark, CheckPurge, CheckCrash
  <2> QED  BY <2>1, <2>2, <2>3 DEF Next
<1> QED  BY <1>1, <1>2, <1>3

LEMMA SeparateStep ==
  ASSUME NEW main \in Channel, UsesOne(main), TypeInv, Separate(main), [Next]_vars
  PROVE  Separate(main)'
<1>1. TypeInv'
  BY TypeStep
<1> DEFINE SameContent == \A g \in RowFiles' : \E f \in RowFiles : g.chan = f.chan /\ g.parts = f.parts
<1>2. \/ SameContent
      \/ \E k \in creates : CreateCommit(k)
      \/ \E k \in updates : UpdateCommit(k)
  <2>1. CASE files' = files
    BY <2>1 DEF RowFiles
  <2>2. ASSUME NEW k \in copies, CopyCommit(k) PROVE SameContent
    <3>1. PICK g : g = [fid |-> lastFid + 1, name |-> k.name, status |-> "active", chan |-> k.chan,
                        parts |-> k.parts, src |-> k.src, via |-> "copy"]
      OBVIOUS
    <3>2. files' = files \cup {g} /\ g.via = "copy"
      BY <2>2, <3>1 DEF CopyCommit
    <3> QED  BY <3>2 DEF RowFiles
  <2>3. ASSUME NEW f \in files, NEW g, files' \subseteq files \cup {g},
               g.chan = f.chan, g.parts = f.parts, g.via = f.via
        PROVE  SameContent
    BY <2>3 DEF RowFiles
  <2>4. ASSUME NEW f \in files, DeleteFile(f) PROVE SameContent
    <3>1. PICK g : g = [f EXCEPT !.status = "pending_deletion"]
      OBVIOUS
    <3>2. g.chan = f.chan /\ g.parts = f.parts /\ g.via = f.via
      BY <3>1 DEF TypeInv, TypeOK, File
    <3>3. files' \subseteq files \cup {g}
      BY <2>4, <3>1 DEF DeleteFile
    <3> QED  BY <2>3, <3>2, <3>3
  <2>5. ASSUME NEW f \in files, NEW n \in Name, MoveFile(f, n) PROVE SameContent
    <3>1. PICK g : g = [f EXCEPT !.name = n]
      OBVIOUS
    <3>2. g.chan = f.chan /\ g.parts = f.parts /\ g.via = f.via
      BY <3>1 DEF TypeInv, TypeOK, File
    <3>3. files' \subseteq files \cup {g}
      BY <2>5, <3>1 DEF MoveFile
    <3> QED  BY <2>3, <3>2, <3>3
  <2>6. CASE PendSweep
    BY <2>6 DEF PendSweep, Swept, RowFiles
  <2>7. CASE CheckMark
    <3>1. \A f \in files : /\ [f EXCEPT !.status = "pending_deletion"].chan = f.chan
                           /\ [f EXCEPT !.status = "pending_deletion"].parts = f.parts
                           /\ [f EXCEPT !.status = "pending_deletion"].via = f.via
      BY DEF TypeInv, TypeOK, File
    <3>2. \A g \in files' : \E f \in files : g.chan = f.chan /\ g.parts = f.parts /\ g.via = f.via
      BY <2>7, <3>1 DEF CheckMark
    <3> QED  BY <3>2 DEF RowFiles
  <2> HIDE DEF SameContent
  <2> QED  BY <2>1, <2>2, <2>4, <2>5, <2>6, <2>7, WhoChangesFiles
<1> HIDE DEF SameContent
<1>3. CASE /\ SameContent /\ uploads' \subseteq uploads /\ staging' \subseteq staging
           /\ creates' \subseteq creates /\ updates' \subseteq updates
  BY <1>1, <1>3, IdsGrow, SeparateKept DEF SameContent
<1>4. CASE \/ \E r \in Req, u \in Upload, n \in PartNo : StageUpload(r, u, n)
           \/ \E s \in staging : StageInsert(s)
           \/ \E row \in uploads : Age(row)
  BY <1>1, <1>4, SeparateStaging
<1>5. CASE \/ \E r \in Req, u \in Upload, via \in {"rows", "parts"} : CreateRead(r, u, via)
           \/ \E r \in Req, u \in Upload : UpdateRead(r, u)
  BY <1>5, SeparateReads
<1>6. CASE \/ \E k \in creates : CreateCommit(k)
           \/ \E k \in updates : UpdateCommit(k)
  BY <1>1, <1>6, SeparateCommits
<1> QED  BY <1>2, <1>3, <1>4, <1>5, <1>6, WhoChangesRows, WhoChangesRequests

\* Whatever liberties clients and operators take, as long as all parts go to one
\* channel: requests sent again, twice or late, uploads older than the retention
\* and check beside the server leave no uploads row of a message that a file
\* built from rows owns (services/file.go, Create and Update).
THEOREM NoRowOfAFile ==
  ASSUME NEW main \in Channel, UsesOne(main) PROVE Spec => []RowXorFile
<1>1. Init => TypeInv /\ Separate(main)
  BY TypeInit DEF Init, Separate, RowFiles
<1>2. TypeInv /\ Separate(main) /\ [Next]_vars => (TypeInv /\ Separate(main))'
  BY TypeStep, SeparateStep
<1>3. TypeInv /\ Separate(main) => RowXorFile
  <2> SUFFICES ASSUME Separate(main), NEW f \in files, NEW row \in uploads, f.via = "rows",
                      KeyOf(row) \in Refs(f)
               PROVE  FALSE
    BY DEF RowXorFile
  <2>1. row.id \in PartIds(f) /\ f \in RowFiles
    BY DEF PartIds, RowFiles, Refs, KeyOf
  <2> QED  BY <2>1 DEF Separate
<1> QED  BY <1>1, <1>2, <1>3, PTL DEF Spec
=============================================================================
