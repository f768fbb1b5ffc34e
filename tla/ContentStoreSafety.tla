------------------------- MODULE ContentStoreSafety --------------------------
(***************************************************************************)
(* Proofs about ContentStore, for every set of channels, uploads, names,   *)
(* request slots and every bound: that every state has its type, and that  *)
(* disciplined clients never lose a part. IInv is inductive, and implies   *)
(* PartsPresent and OneHolder.                                             *)
(***************************************************************************)
EXTENDS ContentStoreInv, FiniteSetTheorems, TLAPS

(* The type invariant needs the uploads table to be finite: the parts of a *)
(* file are its rows in an order, a sequence of length Cardinality.        *)
TypeInv == TypeOK /\ IsFiniteSet(uploads)

\* The parts read from the rows of an upload are a sequence of message ids, as
\* long as there are rows (GetByUploadID, buildPartsFromUploads).
LEMMA PartsOfUpload ==
  ASSUME TypeInv, NEW u \in Upload, NEW s \in PartOrders(RowsOf(u))
  PROVE  /\ Ids(s) \in Seq(Nat)
         /\ RowsOf(u) # {} => Ids(s) # <<>>
         /\ \A i \in DOMAIN Ids(s) : \E row \in RowsOf(u) : row.id = Ids(s)[i]
<1> DEFINE R == RowsOf(u)
           n == Cardinality(R)
<1>1. IsFiniteSet(R)
  BY FS_Subset DEF TypeInv, RowsOf
<1>2. n \in Nat /\ (R # {} => n # 0)
  BY <1>1, FS_CardinalityType, FS_EmptySet
<1>3. s \in [1..n -> R]
  BY DEF PartOrders
<1>4. \A i \in 1..n : s[i].id \in Nat
  BY <1>3 DEF TypeInv, TypeOK, Row, RowsOf
<1>5. Ids(s) = [i \in 1..n |-> s[i].id]
  BY <1>3 DEF Ids
<1>6. Ids(s) \in Seq(Nat)
  <2>1. Ids(s) \in [1..n -> Nat]
    BY <1>4, <1>5
  <2> QED  BY <2>1, <1>2
<1>7. R # {} => Ids(s) # <<>>
  <2>1. SUFFICES ASSUME R # {} PROVE 1 \in DOMAIN Ids(s)
    OBVIOUS
  <2>2. 1 \in 1..n
    BY <1>2, <2>1
  <2> QED  BY <1>5, <2>2
<1>8. \A i \in DOMAIN Ids(s) : \E row \in R : row.id = Ids(s)[i]
  BY <1>3, <1>5
<1> QED  BY <1>6, <1>7, <1>8

-----------------------------------------------------------------------------
(* TypeInv holds initially and every action keeps it.                      *)

LEMMA TypeInit == Init => TypeInv
<1> SUFFICES ASSUME Init PROVE TypeInv
  OBVIOUS
<1>1. IsFiniteSet(uploads)
  BY FS_EmptySet DEF Init
<1>2. TypeOK
  BY DEF Init, TypeOK, StaleIdle, PendIdle, CheckIdle
<1> QED  BY <1>1, <1>2 DEF TypeInv

LEMMA TypeRequests == TypeInv /\ Requests => TypeInv'
<1> SUFFICES ASSUME TypeInv, Requests PROVE TypeInv'
  OBVIOUS
<1> USE BoundAssumption, HomeAssumption, ClientAssumption
<1>1. ASSUME NEW r \in Req, NEW u \in Upload, NEW n \in PartNo, StageUpload(r, u, n)
      PROVE  TypeInv'
  <2>1. Resolved(u) \in Channel
    BY DEF Resolved, TypeInv, TypeOK
  <2> QED  BY <1>1, <2>1 DEF StageUpload, TypeInv, TypeOK, Message, Staging, env, jobs
<1>2. ASSUME NEW s \in staging, StageInsert(s) PROVE TypeInv'
  <2>1. IsFiniteSet(uploads')
    BY <1>2, FS_AddElement DEF StageInsert, TypeInv
  <2>2. [chan |-> s.chan, id |-> s.id, up |-> s.up, no |-> s.no, stale |-> FALSE] \in Row
    BY DEF TypeInv, TypeOK, Row, Staging
  <2>3. uploads' \in SUBSET Row
    BY <1>2, <2>2 DEF StageInsert, TypeInv, TypeOK
  <2> QED  BY <1>2, <2>1, <2>3 DEF StageInsert, TypeInv, TypeOK, env, jobs
<1>3. ASSUME NEW s \in staging, StageFail(s) PROVE TypeInv'
  BY <1>3 DEF StageFail, TypeInv, TypeOK, store, env, jobs
<1>4. ASSUME NEW u \in Upload, UploadsDelete(u) PROVE TypeInv'
  <2>1. IsFiniteSet(uploads')
    BY <1>4, FS_Subset DEF UploadsDelete, WithoutRows, TypeInv
  <2> QED  BY <1>4, <2>1 DEF UploadsDelete, WithoutRows, TypeInv, TypeOK, env, reqs, jobs
<1>5. ASSUME NEW r \in Req, NEW u \in Upload, NEW via \in {"rows", "parts"},
             CreateRead(r, u, via)
      PROVE  TypeInv'
  <2>1. Resolved(u) \in Channel
    BY DEF Resolved, TypeInv, TypeOK
  <2>2. PICK s \in PartOrders(RowsOf(u)) :
          creates' = creates \cup {[r |-> r, up |-> u, name |-> Title[u], chan |-> Resolved(u),
                                    parts |-> Ids(s), via |-> via]}
    BY <1>5 DEF CreateRead
  <2>3. Ids(s) \in Seq(Nat)
    BY PartsOfUpload
  <2>4. creates' \in SUBSET Create
    BY <2>1, <2>2, <2>3 DEF TypeInv, TypeOK, Create
  <2>5. phase' \in [Upload -> {"open", "final", "done", "abandoned"}]
    BY <1>5 DEF CreateRead, TypeInv, TypeOK
  <2> QED  BY <1>5, <2>4, <2>5 DEF CreateRead, TypeInv, TypeOK, store, jobs
<1>6. ASSUME NEW k \in creates, CreateCommit(k) PROVE TypeInv'
  <2>1. k \in Create
    BY DEF TypeInv, TypeOK
  <2>2. files' \in SUBSET File /\ lastFid' \in Nat
    BY <1>6, <2>1 DEF CreateCommit, Filled, TypeInv, TypeOK, Create, File, Active
  <2>3. uploads' \in SUBSET uploads
    BY <1>6 DEF CreateCommit, WithoutRows
  <2>4. IsFiniteSet(uploads')
    BY <2>3, FS_Subset DEF TypeInv
  <2> QED  BY <1>6, <2>2, <2>3, <2>4 DEF CreateCommit, TypeInv, TypeOK, jobs
<1>7. ASSUME NEW k \in creates, CreateFail(k) PROVE TypeInv'
  BY <1>7 DEF CreateFail, Reopened, TypeInv, TypeOK, store, jobs
<1>8. ASSUME NEW r \in Req, NEW u \in Upload, UpdateRead(r, u) PROVE TypeInv'
  <2>1. PICK s \in PartOrders(RowsOf(u)) :
          updates' = updates \cup {[r |-> r, up |-> u, fid |-> Target[u], parts |-> Ids(s),
                        chan |-> IF "default" \in Liberty THEN NoChan ELSE Home[u]]}
    BY <1>8 DEF UpdateRead
  <2>2. Ids(s) \in Seq(Nat)
    BY PartsOfUpload
  <2>3. updates' \in SUBSET Update
    BY <2>1, <2>2 DEF TypeInv, TypeOK, Update
  <2>4. phase' \in [Upload -> {"open", "final", "done", "abandoned"}]
    BY <1>8 DEF UpdateRead, TypeInv, TypeOK
  <2> QED  BY <1>8, <2>3, <2>4 DEF UpdateRead, TypeInv, TypeOK, store, jobs
<1>9. ASSUME NEW k \in updates, UpdateCommit(k) PROVE TypeInv'
  <2>1. k \in Update
    BY DEF TypeInv, TypeOK
  <2>2. files' \in SUBSET File
    BY <1>9, <2>1 DEF UpdateCommit, ChannelOf, Filled, TypeInv, TypeOK, Update, File
  <2>3. uploads' \in SUBSET uploads
    BY <1>9 DEF UpdateCommit, WithoutRows
  <2>4. IsFiniteSet(uploads')
    BY <2>3, FS_Subset DEF TypeInv
  <2> QED  BY <1>9, <2>2, <2>3, <2>4 DEF UpdateCommit, TypeInv, TypeOK, jobs
<1>10. ASSUME NEW k \in updates, UpdateFail(k) PROVE TypeInv'
  BY <1>10 DEF UpdateFail, Reopened, TypeInv, TypeOK, store, jobs
<1>11. ASSUME NEW r \in Req, NEW f \in files, NEW n \in Name, CopyRead(r, f, n)
       PROVE  TypeInv'
  <2>1. [r |-> r, pc |-> "fetch", name |-> n, from |-> f.chan, chan |-> selected,
         ids |-> f.parts, docs |-> <<>>, parts |-> <<>>, src |-> f.src] \in Copy
    <3>1. f \in File /\ selected \in Channel /\ <<>> \in Seq(Nat)
            /\ <<>> \in Seq(SUBSET Message)
      BY DEF TypeInv, TypeOK
    <3> QED  BY <3>1 DEF File, Copy
  <2>2. copies' \in SUBSET Copy
    BY <1>11, <2>1 DEF CopyRead, TypeInv, TypeOK
  <2> QED  BY <1>11, <2>2 DEF CopyRead, TypeInv, TypeOK, store, env, jobs
<1>12. ASSUME NEW k \in copies, CopyPart(k) PROVE TypeInv'
  <2> DEFINE i == lastId[k.chan] + 1
  <2>1. k \in Copy /\ i \in Nat
    BY DEF TypeInv, TypeOK, Copy
  <2>2. k.docs \in Seq(SUBSET Message) /\ k.docs # <<>> /\ k.parts \in Seq(Nat)
    BY <1>12, <2>1 DEF CopyPart, Copy
  <2>3. Head(k.docs) \in SUBSET Message /\ Tail(k.docs) \in Seq(SUBSET Message)
    BY <2>2
  <2>4. PICK m \in Head(k.docs) : tg' = tg \cup {[m EXCEPT !.chan = k.chan, !.id = i]}
    BY <1>12 DEF CopyPart
  <2>5. tg' \in SUBSET Message
    <3>1. m \in Message /\ k.chan \in Channel
      BY <2>1, <2>3, <2>4 DEF Copy
    <3>2. [m EXCEPT !.chan = k.chan, !.id = i] \in Message
      BY <2>1, <3>1 DEF Message
    <3> QED  BY <2>4, <3>2 DEF TypeInv, TypeOK
  <2>6. Append(k.parts, i) \in Seq(Nat)
    BY <2>1, <2>2
  <2>7. [k EXCEPT !.docs = Tail(k.docs), !.parts = Append(k.parts, i)] \in Copy
    BY <2>1, <2>3, <2>6 DEF Copy
  <2>8. copies' \in SUBSET Copy
    BY <1>12, <2>7 DEF CopyPart, TypeInv, TypeOK
  <2> QED  BY <1>12, <2>1, <2>5, <2>8 DEF CopyPart, TypeInv, TypeOK, env, jobs
<1>13. ASSUME NEW k \in copies, CopyCommit(k) PROVE TypeInv'
  BY <1>13 DEF CopyCommit, TypeInv, TypeOK, Copy, File, env, jobs
<1>14. ASSUME NEW k \in copies, CopyFail(k) PROVE TypeInv'
  BY <1>14 DEF CopyFail, TypeInv, TypeOK, store, env, jobs
<1>15. ASSUME NEW k \in copies, CopyFetch(k) PROVE TypeInv'
  <2> DEFINE D == [i \in DOMAIN k.ids |-> {m \in tg : KeyOf(m) = <<k.from, k.ids[i]>>}]
  <2>1. k \in Copy /\ k.ids \in Seq(Nat)
    BY DEF TypeInv, TypeOK, Copy
  <2>2. D \in Seq(SUBSET Message)
    <3>1. DOMAIN k.ids = 1..Len(k.ids) /\ Len(k.ids) \in Nat
      BY <2>1
    <3>2. D \in [1..Len(k.ids) -> SUBSET Message]
      BY <3>1 DEF TypeInv, TypeOK
    <3> QED  BY <3>1, <3>2
  <2>3. [k EXCEPT !.pc = "send", !.docs = D] \in Copy
    BY <2>1, <2>2 DEF Copy
  <2>4. copies' \in SUBSET Copy
    BY <1>15, <2>3 DEF CopyFetch, TypeInv, TypeOK
  <2> QED  BY <1>15, <2>4 DEF CopyFetch, TypeInv, TypeOK, store, env, jobs
<1>16. ASSUME NEW k \in copies, CopySkip(k) PROVE TypeInv'
  <2>1. k \in Copy /\ k.docs \in Seq(SUBSET Message) /\ k.docs # <<>>
    BY <1>16 DEF CopySkip, TypeInv, TypeOK, Copy
  <2>2. [k EXCEPT !.docs = Tail(k.docs)] \in Copy
    <3>1. Tail(k.docs) \in Seq(SUBSET Message)
      BY <2>1
    <3> QED  BY <2>1, <3>1 DEF Copy
  <2>3. copies' \in SUBSET Copy
    BY <1>16, <2>2 DEF CopySkip, TypeInv, TypeOK
  <2> QED  BY <1>16, <2>3 DEF CopySkip, TypeInv, TypeOK, store, env, jobs
<1>17. ASSUME NEW f \in files, DeleteFile(f) PROVE TypeInv'
  BY <1>17 DEF DeleteFile, TypeInv, TypeOK, File, env, reqs, jobs
<1>18. ASSUME NEW f \in files, NEW n \in Name, MoveFile(f, n) PROVE TypeInv'
  BY <1>18 DEF MoveFile, TypeInv, TypeOK, File, env, reqs, jobs
<1> QED  BY <1>1, <1>2, <1>3, <1>4, <1>5, <1>6, <1>7, <1>8, <1>9, <1>10, <1>11, <1>12,
            <1>13, <1>14, <1>15, <1>16, <1>17, <1>18 DEF Requests

LEMMA TypeEnvironment == TypeInv /\ Environment => TypeInv'
<1> SUFFICES ASSUME TypeInv, Environment PROVE TypeInv'
  OBVIOUS
<1>1. ASSUME NEW row \in uploads, Age(row) PROVE TypeInv'
  <2>1. [row EXCEPT !.stale = TRUE] \in Row
    BY DEF TypeInv, TypeOK, Row
  <2>2. IsFiniteSet(uploads')
    BY <1>1, FS_AddElement, FS_RemoveElement DEF Age, TypeInv
  <2> QED  BY <1>1, <2>1, <2>2 DEF Age, TypeInv, TypeOK, env, reqs, jobs
<1>2. ASSUME NEW u \in Upload, Abandon(u) PROVE TypeInv'
  BY <1>2 DEF Abandon, TypeInv, TypeOK, store, reqs, jobs
<1>3. ASSUME NEW c \in Channel, SelectChannel(c) PROVE TypeInv'
  BY <1>3 DEF SelectChannel, TypeInv, TypeOK, store, reqs, jobs
<1>4. CASE LogInOut
  BY <1>4 DEF LogInOut, TypeInv, TypeOK, store, reqs, jobs
<1> QED  BY <1>1, <1>2, <1>3, <1>4 DEF Environment

LEMMA TypeJobs == TypeInv /\ (StaleJob \/ PendJob) => TypeInv'
<1> SUFFICES ASSUME TypeInv, StaleJob \/ PendJob PROVE TypeInv'
  OBVIOUS
<1>1. CASE StaleList
  <2>1. {KeyOf(row) : row \in {x \in uploads : x.stale}} \in SUBSET Key
    BY DEF TypeInv, TypeOK, Row, Key, KeyOf
  <2> QED  BY <1>1, <2>1 DEF StaleList, TypeInv, TypeOK, store, env, reqs
<1>2. ASSUME NEW c \in Channel, StaleDelete(c) PROVE TypeInv'
  <2>1. Group(stale.todo, c) \in SUBSET Key
    BY DEF Group, TypeInv, TypeOK
  <2>2. tg' \in SUBSET tg
    BY <1>2 DEF StaleDelete, Surviving
  <2>3. stale' \in [pc : {"idle", "delete", "rows"}, todo : SUBSET Key, group : SUBSET Key]
    <3>1. stale' = [stale EXCEPT !.pc = "rows", !.group = Group(stale.todo, c)]
            \/ stale' = StaleIdle
      BY <1>2 DEF StaleDelete
    <3>2. StaleIdle \in [pc : {"idle", "delete", "rows"}, todo : SUBSET Key, group : SUBSET Key]
      BY DEF StaleIdle
    <3>3. ASSUME NEW g \in SUBSET Key
          PROVE  [stale EXCEPT !.pc = "rows", !.group = g]
                   \in [pc : {"idle", "delete", "rows"}, todo : SUBSET Key, group : SUBSET Key]
      BY DEF TypeInv, TypeOK
    <3> QED  BY <2>1, <3>1, <3>2, <3>3
  <2> QED  BY <1>2, <2>2, <2>3 DEF StaleDelete, TypeInv, TypeOK, env, reqs
<1>3. CASE StaleRows
  <2>1. uploads' \in SUBSET uploads
    BY <1>3 DEF StaleRows, WithoutParts
  <2>2. IsFiniteSet(uploads')
    BY <2>1, FS_Subset DEF TypeInv
  <2> QED  BY <1>3, <2>1, <2>2 DEF StaleRows, StaleIdle, TypeInv, TypeOK, env, reqs
<1>4. CASE StaleCrash
  BY <1>4 DEF StaleCrash, StaleIdle, TypeInv, TypeOK, store, env, reqs
<1>5. CASE PendList
  <2>1. RefsOf(Pending) \in SUBSET Key
    BY DEF RefsOf, Refs, Pending, Key, TypeInv, TypeOK, File
  <2> QED  BY <1>5, <2>1 DEF PendList, TypeInv, TypeOK, store, env, reqs
<1>6. ASSUME NEW c \in Channel, PendDelete(c) PROVE TypeInv'
  <2>1. tg' \in SUBSET tg
    BY <1>6 DEF PendDelete, Surviving
  <2>2. pend' \in [pc : {"idle", "delete"}, todo : SUBSET Key, listed : SUBSET Key]
    BY <1>6 DEF PendDelete, PendIdle, TypeInv, TypeOK
  <2> QED  BY <1>6, <2>1, <2>2 DEF PendDelete, TypeInv, TypeOK, env, reqs
<1>7. CASE PendSweep
  BY <1>7 DEF PendSweep, PendIdle, Swept, TypeInv, TypeOK, env, reqs
<1>8. CASE PendCrash
  BY <1>8 DEF PendCrash, PendIdle, TypeInv, TypeOK, store, env, reqs
<1> QED  BY <1>1, <1>2, <1>3, <1>4, <1>5, <1>6, <1>7, <1>8 DEF StaleJob, PendJob

LEMMA TypeCheck == TypeInv /\ Check => TypeInv'
<1> SUFFICES ASSUME TypeInv, Check PROVE TypeInv'
  OBVIOUS
<1> DEFINE Chk == [pc : {"idle", "messages", "uploads", "mark", "purge"}, chan : Channel,
                   files : SUBSET File, msgs : SUBSET Nat, missing : SUBSET Nat,
                   orphans : SUBSET Key]
<1>1. ASSUME NEW c \in Channel, CheckFiles(c) PROVE TypeInv'
  <2>1. {f \in Active : f.chan = c} \in SUBSET File
    BY DEF Active, TypeInv, TypeOK
  <2>2. chk' \in Chk
    BY <1>1, <2>1 DEF CheckFiles, FilesOf, CheckIdle
  <2> QED  BY <1>1, <2>2 DEF CheckFiles, TypeInv, TypeOK, store, env, reqs
<1>2. CASE CheckMessages
  <2>1. {m.id : m \in {x \in tg : x.chan = chk.chan}} \in SUBSET Nat
    BY DEF TypeInv, TypeOK, Message
  <2>2. chk' \in Chk
    <3>1. CASE chk' = CheckIdle(chk.chan)
      BY <3>1 DEF CheckIdle, TypeInv, TypeOK
    <3>2. CASE chk' = [chk EXCEPT !.pc = "uploads", !.msgs = {m.id : m \in {x \in tg : x.chan = chk.chan}}]
      BY <2>1, <3>2 DEF TypeInv, TypeOK
    <3> QED  BY <1>2, <3>1, <3>2 DEF CheckMessages
  <2> QED  BY <1>2, <2>2 DEF CheckMessages, TypeInv, TypeOK, store, env, reqs
<1>3. CASE CheckUploads
  <2> DEFINE ids == chk.msgs \ StagedIds(chk.chan)
             missing(odd) == {f.fid : f \in {g \in chk.files : \/ ~PresentIn(g, ids)
                                                             \/ g.parts = <<>> \/ g \in odd}}
             orphans == {<<chk.chan, id>> : id \in ids \ UNION {PartsSeen(f, ids) : f \in chk.files}}
  <2>1. ids \in SUBSET Nat /\ chk.chan \in Channel /\ chk.files \in SUBSET File
    BY DEF TypeInv, TypeOK
  <2>2. \A odd : missing(odd) \in SUBSET Nat
    BY <2>1 DEF File
  <2>3. orphans \in SUBSET Key
    BY <2>1 DEF Key
  <2>4. PICK odd : chk' = [chk EXCEPT !.pc = "mark", !.missing = missing(odd), !.orphans = orphans]
    BY <1>3 DEF CheckUploads
  <2>5. chk' \in Chk
    <3>1. missing(odd) \in SUBSET Nat
      BY <2>2
    <3> HIDE DEF missing, orphans
    <3> QED  BY <2>3, <2>4, <3>1 DEF TypeInv, TypeOK
  <2> QED  BY <1>3, <2>5 DEF CheckUploads, TypeInv, TypeOK, store, env, reqs
<1>4. CASE CheckMark
  <2>1. files' \in SUBSET File
    <3>1. \A f \in files : f \in File /\ [f EXCEPT !.status = "pending_deletion"] \in File
      BY SMTT(30) DEF TypeInv, TypeOK, File
    <3> QED  BY <1>4, <3>1 DEF CheckMark
  <2>2. chk' \in Chk
    BY <1>4 DEF CheckMark, TypeInv, TypeOK
  <2> QED  BY <1>4, <2>1, <2>2 DEF CheckMark, TypeInv, TypeOK, env, reqs
<1>5. CASE CheckPurge
  <2>1. tg' \in SUBSET tg
    BY <1>5 DEF CheckPurge, Surviving
  <2>2. chk' \in Chk
    BY <1>5 DEF CheckPurge, CheckIdle, TypeInv, TypeOK
  <2> QED  BY <1>5, <2>1, <2>2 DEF CheckPurge, TypeInv, TypeOK, env, reqs
<1>6. CASE CheckCrash
  BY <1>6 DEF CheckCrash, CheckIdle, TypeInv, TypeOK, store, env, reqs
<1> QED  BY <1>1, <1>2, <1>3, <1>4, <1>5, <1>6 DEF Check

LEMMA TypeStep == TypeInv /\ [Next]_vars => TypeInv'
<1>1. TypeInv /\ UNCHANGED vars => TypeInv'
  BY DEF vars, store, env, reqs, jobs, TypeInv, TypeOK
<1> QED  BY <1>1, TypeRequests, TypeEnvironment, TypeJobs, TypeCheck DEF Next

\* Whatever the clients, the cleaners and check do, every table, handler and
\* job of the model keeps its shape (uploads, files, queue_executor.go, check.go).
THEOREM TypeCorrect == Spec => []TypeOK
<1>1. TypeInv => TypeOK
  BY DEF TypeInv
<1> QED  BY <1>1, TypeInit, TypeStep, PTL DEF Spec

-----------------------------------------------------------------------------

(* Exclusive ownership is kept when holders shrink, when a part gets a     *)
(* fresh message, and when one holder hands its messages to another.       *)

\* Files that only change name or status, rows that only age, fewer of each,
\* and copies that hold nothing yet.
LEMMA ExclusiveShrink ==
  ASSUME NEW F, NEW U, NEW S, NEW C, ExclusiveIn(F, U, S, C),
         NEW F2, NEW U2, NEW S2 \in SUBSET S, NEW C2,
         \A g \in F2 : \E f \in F : f.fid = g.fid /\ Refs(f) = Refs(g),
         \A f, g \in F2 : f.fid = g.fid => f = g,
         \A y \in U2 : \E x \in U : KeyOf(x) = KeyOf(y) /\ x.up = y.up,
         \A k \in C2 : k \in C \/ Refs(k) = {}
  PROVE  ExclusiveIn(F2, U2, S2, C2)
<1>1. \A f, g \in F2 : f # g => Refs(f) \cap Refs(g) = {}
  BY DEF ExclusiveIn
<1>2. Off(F2, U2) /\ Off(F2, S2) /\ Apart(F2, C2)
  BY DEF ExclusiveIn, Off, Apart
<1>3. \A x, y \in U2 : KeyOf(x) = KeyOf(y) => x.up = y.up
  BY DEF ExclusiveIn
<1>4. \A x \in U2, s \in S2 : KeyOf(x) # KeyOf(s)
  BY DEF ExclusiveIn
<1>5. \A s, t \in S2 : KeyOf(s) = KeyOf(t) => s = t
  BY DEF ExclusiveIn
<1>6. Off(C2, U2) /\ Off(C2, S2)
  BY DEF ExclusiveIn, Off
<1>7. \A k, j \in C2 : k # j => Refs(k) \cap Refs(j) = {}
  BY DEF ExclusiveIn
<1> QED  BY <1>1, <1>2, <1>3, <1>4, <1>5, <1>6, <1>7 DEF ExclusiveIn

\* UploadsUpload: a message that nothing knows yet.
LEMMA ExclusiveStage ==
  ASSUME NEW F, NEW U, NEW S, NEW C, ExclusiveIn(F, U, S, C), NEW s,
         KeyOf(s) \notin RefsOf(F) \cup KeysOf(U) \cup KeysOf(S) \cup RefsOf(C)
  PROVE  ExclusiveIn(F, U, S \cup {s}, C)
BY DEF ExclusiveIn, Off, RefsOf, KeysOf

\* The message of a part being staged becomes that of its row.
LEMMA ExclusiveInsert ==
  ASSUME NEW F, NEW U, NEW S, NEW C, ExclusiveIn(F, U, S, C),
         NEW s \in S, NEW row, KeyOf(row) = KeyOf(s)
  PROVE  ExclusiveIn(F, U \cup {row}, S \ {s}, C)
<1>1. Off(F, U \cup {row}) /\ Off(F, S \ {s}) /\ Off(C, U \cup {row}) /\ Off(C, S \ {s})
  BY DEF ExclusiveIn, Off
<1>2. \A x, y \in U \cup {row} : KeyOf(x) = KeyOf(y) => x.up = y.up
  BY DEF ExclusiveIn
<1>3. \A x \in U \cup {row}, t \in S \ {s} : KeyOf(x) # KeyOf(t)
  BY DEF ExclusiveIn
<1> QED  BY <1>1, <1>2, <1>3 DEF ExclusiveIn

\* FilesCreate and FilesUpdate: a file takes messages of rows that go away.
LEMMA ExclusiveCommit ==
  ASSUME NEW F, NEW U, NEW S, NEW C, ExclusiveIn(F, U, S, C),
         NEW R, R \subseteq U, NEW U2, U2 \subseteq U, \A x \in U2, y \in R : x.up # y.up,
         NEW g, Refs(g) \subseteq KeysOf(R),
         NEW K, K \subseteq F, \A f \in K : f.fid # g.fid
  PROVE  ExclusiveIn(K \cup {g}, U2, S, C)
<1>0. \A key \in Refs(g) : \E y \in R : y \in U /\ key = KeyOf(y)
  BY DEF KeysOf
<1>1. \A f \in F : Refs(f) \cap Refs(g) = {}
  BY <1>0 DEF ExclusiveIn, Off
<1>2. \A row \in U2 : KeyOf(row) \notin Refs(g)
  BY <1>0 DEF ExclusiveIn
<1>3. \A s \in S : KeyOf(s) \notin Refs(g)
  BY <1>0 DEF ExclusiveIn
<1>4. \A k \in C : Refs(g) \cap Refs(k) = {}
  BY <1>0 DEF ExclusiveIn, Off
<1>5. Off(K \cup {g}, U2) /\ Off(K \cup {g}, S) /\ Apart(K \cup {g}, C) /\ Off(C, U2)
  BY <1>2, <1>3, <1>4 DEF ExclusiveIn, Off, Apart
<1> QED  BY <1>1, <1>5 DEF ExclusiveIn

\* FilesCopy: a copy gets a fresh message, and later hands all to a new file.
LEMMA ExclusiveCopyPart ==
  ASSUME NEW F, NEW U, NEW S, NEW C, ExclusiveIn(F, U, S, C),
         NEW k \in C, NEW j, NEW key, Refs(j) = Refs(k) \cup {key},
         key \notin RefsOf(F) \cup KeysOf(U) \cup KeysOf(S) \cup RefsOf(C)
  PROVE  ExclusiveIn(F, U, S, (C \ {k}) \cup {j})
<1> DEFINE C2 == (C \ {k}) \cup {j}
<1>1. Apart(F, C2)
  BY DEF ExclusiveIn, Apart, RefsOf
<1>2. Off(C2, U) /\ Off(C2, S)
  BY DEF ExclusiveIn, Off, KeysOf
<1>3. \A a, b \in C2 : a # b => Refs(a) \cap Refs(b) = {}
  BY DEF ExclusiveIn, RefsOf
<1> QED  BY <1>1, <1>2, <1>3 DEF ExclusiveIn

LEMMA ExclusiveCopyCommit ==
  ASSUME NEW F, NEW U, NEW S, NEW C, ExclusiveIn(F, U, S, C),
         NEW k \in C, NEW g, Refs(g) = Refs(k), \A f \in F : f.fid # g.fid
  PROVE  ExclusiveIn(F \cup {g}, U, S, C \ {k})
<1>1. \A f \in F : Refs(f) \cap Refs(g) = {}
  BY DEF ExclusiveIn, Apart
<1>2. Off(F \cup {g}, U) /\ Off(F \cup {g}, S) /\ Apart(F \cup {g}, C \ {k})
  BY DEF ExclusiveIn, Off, Apart
<1>3. Off(C \ {k}, U) /\ Off(C \ {k}, S)
  BY DEF ExclusiveIn, Off
<1> QED  BY <1>1, <1>2, <1>3 DEF ExclusiveIn

-----------------------------------------------------------------------------
(* What most steps have in common.                                         *)

\* A step that frees keys keeps Fresh, Present and DoomedNotLive.
LEMMA KeepKeys ==
  ASSUME Fresh, Present, DoomedNotLive,
         LiveKeys' \subseteq LiveKeys, DoomedKeys' \subseteq DoomedKeys,
         LiveKeys \cap TgKeys \subseteq TgKeys', KnownKeys' \subseteq KnownKeys,
         lastId' = lastId, \A f \in files' : f.fid <= lastFid',
         (stale.group \subseteq stale.todo)'
  PROVE  Fresh' /\ Present' /\ DoomedNotLive'
BY DEF Fresh, Present, DoomedNotLive

\* A step that takes a new message for a live holder keeps them, too.
LEMMA KeepKeysNew ==
  ASSUME TypeOK, Fresh, Present, DoomedNotLive, NEW c \in Channel,
         lastId' = [lastId EXCEPT ![c] = lastId[c] + 1],
         TgKeys' = TgKeys \cup {<<c, lastId[c] + 1>>},
         LiveKeys' \subseteq LiveKeys \cup {<<c, lastId[c] + 1>>},
         KnownKeys' \subseteq KnownKeys \cup {<<c, lastId[c] + 1>>},
         KnownKeys \subseteq Key,
         DoomedKeys' = DoomedKeys, files' = files, lastFid' = lastFid, stale' = stale
  PROVE  Fresh' /\ Present' /\ DoomedNotLive'
<1>1. <<c, lastId[c] + 1>> \notin KnownKeys
  BY DEF Fresh, TypeOK
<1>2. Fresh'
  <2>1. ASSUME NEW key \in KnownKeys' PROVE key[2] <= lastId'[key[1]]
    <3>1. CASE key = <<c, lastId[c] + 1>>
      BY <3>1 DEF TypeOK
    <3>2. CASE key \in KnownKeys
      <4>1. key[1] \in Channel /\ key[2] \in Nat /\ key[2] <= lastId[key[1]]
        BY <3>2 DEF Fresh, Key
      <4> QED  BY <4>1 DEF TypeOK
    <3> QED  BY <3>1, <3>2
  <2> QED  BY <2>1 DEF Fresh
<1>3. Present'
  BY DEF Present
<1>4. DoomedNotLive'
  <2>1. <<c, lastId[c] + 1>> \notin DoomedKeys
    BY <1>1 DEF KnownKeys
  <2> QED  BY <2>1 DEF DoomedNotLive
<1> QED  BY <1>2, <1>3, <1>4

LEMMA KnownAreKeys == TypeOK => KnownKeys \subseteq Key
<1> SUFFICES ASSUME TypeOK PROVE KnownKeys \subseteq Key
  OBVIOUS
<1>1. TgKeys \cup KeysOf(uploads) \cup KeysOf(staging) \subseteq Key
  BY DEF TypeOK, TgKeys, KeysOf, KeyOf, Key, Message, Row, Staging
<1>2. RefsOf(files) \subseteq Key
  BY DEF TypeOK, RefsOf, Refs, File, Key
<1>3. RefsOf(copies) \subseteq Key
  BY DEF TypeOK, RefsOf, Refs, Copy, Key
<1>4. DoomedKeys \subseteq Key
  BY DEF DoomedKeys, TypeOK
<1> QED  BY <1>1, <1>2, <1>3, <1>4 DEF KnownKeys

\* No request or job runs while check does.
LEMMA NotChecking ==
  ASSUME Disciplined, Checking, Requests \/ StaleJob \/ PendJob
  PROVE  chk.pc = "idle" /\ chk' = chk
<1>1. CASE Requests
  BY <1>1 DEF Requests, Disciplined, Checking, Idle, Serving, StageUpload, StageInsert, StageFail,
       UploadsDelete, CreateRead, CreateCommit, CreateFail, UpdateRead, UpdateCommit, UpdateFail,
       CopyRead, CopyFetch, CopyPart, CopySkip, CopyCommit, CopyFail, DeleteFile, MoveFile, jobs
<1>2. CASE StaleJob
  BY <1>2 DEF StaleJob, Disciplined, Checking, Idle, Serving, StaleList, StaleDelete, StaleRows,
       StaleCrash
<1>3. CASE PendJob
  BY <1>3 DEF PendJob, Disciplined, Checking, Idle, Serving, PendList, PendDelete, PendSweep,
       PendCrash
<1> QED  BY <1>1, <1>2, <1>3

LEMMA CheckingKept ==
  ASSUME Checking, chk.pc = "idle", chk' = chk
  PROVE  Checking'
BY DEF Checking

-----------------------------------------------------------------------------
(* The steps of UploadsUpload and UploadsDelete.                           *)

Safe == Fresh /\ Present /\ Exclusive /\ InFlight /\ Phases /\ DoomedNotLive

LEMMA InFlightSame ==
  ASSUME InFlight, uploads' = uploads, phase' = phase,
         creates' \subseteq creates, updates' \subseteq updates
  PROVE  InFlight'
BY DEF InFlight, RowsOf

LEMMA SafeUpload ==
  ASSUME Disciplined, IInv,
         \/ \E r \in Req, u \in Upload, n \in PartNo : StageUpload(r, u, n)
         \/ \E s \in staging : StageInsert(s) \/ StageFail(s)
         \/ \E u \in Upload : UploadsDelete(u)
  PROVE  Safe'
<1> USE DEF IInv
<1>1. ASSUME NEW r \in Req, NEW u \in Upload, NEW n \in PartNo, StageUpload(r, u, n)
      PROVE  Safe'
  <2> DEFINE c == Home[u]
             i == lastId[c] + 1
             s == [r |-> r, chan |-> c, id |-> i, up |-> u, no |-> n]
  <2>1. Resolved(u) = c /\ c \in Channel /\ phase[u] = "open"
    BY <1>1, HomeAssumption DEF Resolved, Disciplined, StageUpload, MayStage
  <2>2. /\ tg' = tg \cup {[chan |-> c, id |-> i, up |-> u, no |-> n]}
        /\ staging' = staging \cup {s} /\ lastId' = [lastId EXCEPT ![c] = i]
        /\ UNCHANGED <<uploads, files, lastFid, phase, creates, updates, copies, stale, pend, chk>>
    BY <1>1, <2>1 DEF StageUpload, env, jobs
  <2>3. KeyOf(s) = <<c, i>>
    BY DEF KeyOf
  <2>4. TgKeys' = TgKeys \cup {<<c, i>>}
    <3>1. KeyOf([chan |-> c, id |-> i, up |-> u, no |-> n]) = <<c, i>>
      BY DEF KeyOf
    <3> QED  BY <2>2, <3>1 DEF TgKeys
  <2>5. KeysOf(staging)' = KeysOf(staging) \cup {<<c, i>>}
    BY <2>2, <2>3 DEF KeysOf
  <2>6. LiveKeys' = LiveKeys \cup {<<c, i>>}
    BY <2>2, <2>5 DEF LiveKeys, LiveIn, KeysOf
  <2>7. KnownKeys' = KnownKeys \cup {<<c, i>>} /\ DoomedKeys' = DoomedKeys
    BY <2>2, <2>4, <2>5 DEF KnownKeys, KeysOf, DoomedKeys
  <2>8. Fresh' /\ Present' /\ DoomedNotLive'
    BY <2>1, <2>2, <2>4, <2>6, <2>7, KeepKeysNew, KnownAreKeys
  <2>9. <<c, i>> \notin KnownKeys
    BY <2>1 DEF Fresh, TypeOK
  <2>10. Exclusive'
    BY <2>2, <2>3, <2>9, ExclusiveStage DEF Exclusive, KnownKeys
  <2>11. Phases'
    BY <2>1, <2>2 DEF Phases
  <2> QED  BY <2>2, <2>8, <2>10, <2>11, InFlightSame DEF Safe
<1>2. ASSUME NEW s \in staging, StageInsert(s) PROVE Safe'
  <2> DEFINE row == [chan |-> s.chan, id |-> s.id, up |-> s.up, no |-> s.no, stale |-> FALSE]
  <2>1. /\ uploads' = uploads \cup {row} /\ staging' = staging \ {s}
        /\ UNCHANGED <<tg, lastId, files, lastFid, phase, creates, updates, copies, stale, pend, chk>>
    BY <1>2 DEF StageInsert, env, jobs
  <2>2. KeyOf(row) = KeyOf(s)
    BY DEF KeyOf
  <2>3. KeysOf(uploads)' = KeysOf(uploads) \cup {KeyOf(s)} /\ KeysOf(staging)' \subseteq KeysOf(staging)
    BY <2>1, <2>2 DEF KeysOf
  <2>4. LiveKeys' \subseteq LiveKeys /\ KnownKeys' \subseteq KnownKeys
    <3>1. KeyOf(s) \in KeysOf(staging)
      BY DEF KeysOf
    <3>2. KeysOf({x \in uploads' : phase'[x.up] # "abandoned"})
            \subseteq KeysOf({x \in uploads : phase[x.up] # "abandoned"}) \cup {KeyOf(s)}
      BY <2>1, <2>2 DEF KeysOf
    <3>3. LiveKeys' \subseteq LiveKeys
      <4>1. LiveKeys' = RefsOf({f \in files : f.status = "active"}) \cup RefsOf(copies)
                          \cup KeysOf({x \in uploads' : phase'[x.up] # "abandoned"})
                          \cup KeysOf(staging')
        BY <2>1 DEF LiveKeys, LiveIn
      <4> QED  BY <2>3, <3>1, <3>2, <4>1 DEF LiveKeys, LiveIn
    <3>4. TgKeys' = TgKeys /\ DoomedKeys' = DoomedKeys
      BY <2>1 DEF TgKeys, DoomedKeys
    <3> QED  BY SMTT(30), <2>1, <2>3, <3>1, <3>3, <3>4 DEF KnownKeys
  <2>5. Fresh' /\ Present' /\ DoomedNotLive'
    BY <2>1, <2>4, KeepKeys DEF Fresh, DoomedNotLive, DoomedKeys, TgKeys
  <2>6. Exclusive'
    BY <2>1, <2>2, ExclusiveInsert DEF Exclusive
  <2>7. Phases'
    BY <2>1 DEF Phases
  <2>8. InFlight'
    BY <2>1 DEF InFlight, RowsOf, KeysOf
  <2> QED  BY <2>5, <2>6, <2>7, <2>8 DEF Safe
<1>3. ASSUME NEW s \in staging, StageFail(s) PROVE Safe'
  <2>1. /\ staging' = staging \ {s}
        /\ UNCHANGED <<tg, lastId, uploads, files, lastFid, phase, creates, updates, copies,
                       stale, pend, chk>>
    BY <1>3 DEF StageFail, store, env, jobs
  <2>2. LiveKeys' \subseteq LiveKeys /\ KnownKeys' \subseteq KnownKeys
    BY <2>1 DEF LiveKeys, LiveIn, KnownKeys, TgKeys, DoomedKeys, KeysOf
  <2>3. Fresh' /\ Present' /\ DoomedNotLive'
    BY <2>1, <2>2, KeepKeys DEF Fresh, DoomedNotLive, DoomedKeys, TgKeys
  <2>4. Exclusive'
    BY <2>1, ExclusiveShrink DEF Exclusive, ExclusiveIn
  <2>5. Phases'
    BY <2>1 DEF Phases
  <2> QED  BY <2>1, <2>3, <2>4, <2>5, InFlightSame DEF Safe
<1>4. ASSUME NEW u \in Upload, UploadsDelete(u) PROVE Safe'
  <2>1. /\ uploads' = uploads \ RowsOf(u) /\ phase[u] = "open"
        /\ UNCHANGED <<tg, lastId, files, lastFid, phase, staging, creates, updates, copies,
                       stale, pend, chk>>
    BY <1>4 DEF UploadsDelete, WithoutRows, env, reqs, jobs
  <2>2. LiveKeys' \subseteq LiveKeys /\ KnownKeys' \subseteq KnownKeys
    BY <2>1 DEF LiveKeys, LiveIn, KnownKeys, TgKeys, DoomedKeys, KeysOf
  <2>3. Fresh' /\ Present' /\ DoomedNotLive'
    BY <2>1, <2>2, KeepKeys DEF Fresh, DoomedNotLive, DoomedKeys, TgKeys
  <2>4. Exclusive'
    BY <2>1, ExclusiveShrink DEF Exclusive, ExclusiveIn
  <2>5. Phases'
    BY <2>1 DEF Phases
  <2>6. InFlight'
    BY <2>1 DEF InFlight, RowsOf
  <2> QED  BY <2>3, <2>4, <2>5, <2>6 DEF Safe
<1> QED  BY <1>1, <1>2, <1>3, <1>4

-----------------------------------------------------------------------------
(* FilesCreate and FilesUpdate.                                            *)

\* A disciplined client finalises when the upload is complete, once.
LEMMA Finalising ==
  ASSUME Disciplined, IInv, NEW u \in Upload, MayFinalise(u), NEW s \in PartOrders(RowsOf(u))
  PROVE  /\ phase[u] = "open" /\ \A t \in staging : t.up # u
         /\ Ids(s) # <<>>
         /\ \A i \in DOMAIN Ids(s) : <<Home[u], Ids(s)[i]>> \in KeysOf(RowsOf(u))
<1>1. phase[u] = "open" /\ Complete(u) /\ \A t \in staging : t.up # u
  BY DEF MayFinalise, Complete, Disciplined
<1>2. RowsOf(u) # {}
  <2>1. PICK n \in PartNo : {row.no : row \in RowsOf(u)} = 1..n
    BY <1>1 DEF Complete
  <2>2. 1 \in 1..n
    BY <2>1 DEF PartNo
  <2> QED  BY <2>1, <2>2
<1>3. \A row \in RowsOf(u) : row.chan = Home[u]
  BY DEF IInv, Phases, RowsOf
<1>4. /\ Ids(s) # <<>>
      /\ \A i \in DOMAIN Ids(s) : \E row \in RowsOf(u) : row.id = Ids(s)[i]
  BY <1>2, PartsOfUpload DEF IInv, TypeInv
<1>5. \A i \in DOMAIN Ids(s) : <<Home[u], Ids(s)[i]>> \in KeysOf(RowsOf(u))
  BY <1>3, <1>4 DEF KeysOf, KeyOf
<1> QED  BY <1>1, <1>4, <1>5

\* The parts of the upload become those of an active or deleted file g, which
\* replaces the file with its id, if there is one.
LEMMA SafeCommit ==
  ASSUME IInv, NEW k \in creates \cup updates, NEW g, Refs(g) = Refs(k),
         NEW K, K \subseteq files, \A f \in K : f.fid # g.fid,
         files' = K \cup {g}, g.fid <= lastFid', \A f \in K : f.fid <= lastFid',
         uploads' = uploads \ RowsOf(k.up), k.up \in Upload,
         phase' = [phase EXCEPT ![k.up] = "done"],
         creates' \cup updates' \subseteq (creates \cup updates) \ {k},
         creates' \subseteq creates, updates' \subseteq updates,
         UNCHANGED <<tg, lastId, staging, copies, stale, pend, chk>>
  PROVE  Safe'
<1>1. /\ phase[k.up] = "final" /\ Refs(k) \subseteq KeysOf(RowsOf(k.up))
      /\ \A j \in (creates \cup updates) \ {k} : j.up # k.up
  BY DEF IInv, InFlight
<1>2. \A u \in Upload \ {k.up} : phase'[u] = phase[u]
  BY DEF IInv, TypeOK
<1>3. \A row \in uploads' : row \in uploads /\ row.up # k.up /\ phase'[row.up] = phase[row.up]
  BY <1>2 DEF RowsOf, IInv, TypeOK, Row
<1>4. KeysOf(RowsOf(k.up)) \subseteq KeysOf({row \in uploads : phase[row.up] # "abandoned"})
  BY <1>1 DEF KeysOf, RowsOf
<1>5. RefsOf({f \in files' : f.status = "active"})
        \subseteq RefsOf({f \in files : f.status = "active"}) \cup Refs(k)
  BY DEF RefsOf
<1>6. KeysOf({row \in uploads' : phase'[row.up] # "abandoned"})
        \subseteq KeysOf({row \in uploads : phase[row.up] # "abandoned"})
  BY <1>3 DEF KeysOf
<1>7. LiveKeys' \subseteq LiveKeys
  <2>1. LiveKeys' = RefsOf({f \in files' : f.status = "active"}) \cup RefsOf(copies)
                      \cup KeysOf({row \in uploads' : phase'[row.up] # "abandoned"})
                      \cup KeysOf(staging)
    BY DEF LiveKeys, LiveIn
  <2> QED  BY <1>1, <1>4, <1>5, <1>6, <2>1 DEF LiveKeys, LiveIn
<1>8. KnownKeys' \subseteq KnownKeys
  <2>1. RefsOf(files') \subseteq RefsOf(files) \cup Refs(k)
    BY DEF RefsOf
  <2>2. KeysOf(uploads') \subseteq KeysOf(uploads) /\ KeysOf(RowsOf(k.up)) \subseteq KeysOf(uploads)
    BY DEF KeysOf, RowsOf
  <2>3. TgKeys' = TgKeys /\ DoomedKeys' = DoomedKeys
    BY DEF TgKeys, DoomedKeys
  <2> QED  BY <1>1, <2>1, <2>2, <2>3 DEF KnownKeys
<1>9. Fresh' /\ Present' /\ DoomedNotLive'
  BY <1>7, <1>8, KeepKeys DEF DoomedNotLive, DoomedKeys, TgKeys, IInv
<1>10. Exclusive'
  <2>1. RowsOf(k.up) \subseteq uploads /\ \A x \in uploads', y \in RowsOf(k.up) : x.up # y.up
    BY DEF RowsOf
  <2>2. ExclusiveIn(files, uploads, staging, copies) /\ Refs(g) \subseteq KeysOf(RowsOf(k.up))
    BY <1>1 DEF IInv, Exclusive
  <2>3. uploads' \subseteq uploads
    OBVIOUS
  <2>4. ExclusiveIn(K \cup {g}, uploads', staging, copies)
    BY <2>1, <2>2, <2>3, ExclusiveCommit
  <2> QED  BY <2>4 DEF Exclusive
<1>11. InFlight'
  <2>1. \A j \in creates' \cup updates' : j \in creates \cup updates /\ j.up # k.up
    BY <1>1
  <2>2. \A j \in creates' \cup updates' :
          /\ phase'[j.up] = "final" /\ j.chan = Home[j.up] /\ j.parts # <<>>
          /\ Refs(j) \subseteq KeysOf(RowsOf(j.up)')
    <3>1. \A j \in creates' \cup updates' : j.up \in Upload /\ RowsOf(j.up)' = RowsOf(j.up)
      BY <2>1 DEF RowsOf, IInv, TypeOK, Create, Update
    <3> QED  BY <2>1, <1>2, <3>1 DEF IInv, InFlight
  <2> QED  BY <2>1, <2>2 DEF IInv, InFlight, RowsOf, KeysOf
<1>12. Phases'
  <2>1. \A s \in staging : s.up \in Upload \ {k.up}
    BY <1>1 DEF IInv, Phases, TypeOK, Staging
  <2> QED  BY <1>2, <1>3, <2>1 DEF IInv, Phases
<1> QED  BY <1>9, <1>10, <1>11, <1>12 DEF Safe

\* The handler has read the rows and will commit them.
LEMMA SafeRead ==
  ASSUME IInv, NEW u \in Upload, phase[u] = "open", \A t \in staging : t.up # u,
         phase' = [phase EXCEPT ![u] = "final"],
         \/ /\ updates' = updates
            /\ \E k : /\ creates' = creates \cup {k} /\ k.up = u /\ k.chan = Home[u]
                     /\ k.parts # <<>> /\ k.via = "rows" /\ Refs(k) \subseteq KeysOf(RowsOf(u))
         \/ /\ creates' = creates
            /\ \E k : /\ updates' = updates \cup {k} /\ k.up = u /\ k.chan = Home[u]
                     /\ k.parts # <<>> /\ Refs(k) \subseteq KeysOf(RowsOf(u)),
         UNCHANGED <<tg, lastId, uploads, files, lastFid, staging, copies, stale, pend, chk>>
  PROVE  Safe'
<1>1. \A v \in Upload \ {u} : phase'[v] = phase[v]
  BY DEF IInv, TypeOK
<1>2. phase'[u] = "final"
  BY DEF IInv, TypeOK
<1>3. \A row \in uploads : row.up \in Upload
  BY DEF IInv, TypeOK, Row
<1>4. \A k \in creates \cup updates : k.up \in Upload \ {u}
  BY DEF IInv, InFlight, TypeOK, Create, Update
<1>5. LiveKeys' = LiveKeys /\ KnownKeys' = KnownKeys
  <2>1. {row \in uploads : phase'[row.up] # "abandoned"} = {row \in uploads : phase[row.up] # "abandoned"}
    BY <1>1, <1>2, <1>3
  <2> QED  BY <2>1 DEF LiveKeys, LiveIn, KnownKeys, TgKeys, DoomedKeys
<1>6. Fresh' /\ Present' /\ DoomedNotLive'
  BY <1>5, KeepKeys DEF IInv, Fresh, DoomedNotLive, DoomedKeys, TgKeys
<1>7. Exclusive'
  BY DEF IInv, Exclusive
<1>8. InFlight'
  BY <1>1, <1>2, <1>4 DEF IInv, InFlight, RowsOf
<1>9. Phases'
  BY <1>1, <1>2, <1>3 DEF IInv, Phases, TypeOK, Staging
<1> QED  BY <1>6, <1>7, <1>8, <1>9 DEF Safe

\* The handler failed: its upload is open again.
LEMMA SafeReopen ==
  ASSUME IInv, NEW u \in Upload, phase[u] = "final", phase' = [phase EXCEPT ![u] = "open"],
         creates' \subseteq creates, updates' \subseteq updates,
         \A j \in creates' \cup updates' : j.up # u,
         UNCHANGED <<tg, lastId, uploads, files, lastFid, staging, copies, stale, pend, chk>>
  PROVE  Safe'
<1>1. phase'[u] = "open" /\ \A v \in Upload \ {u} : phase'[v] = phase[v]
  BY DEF IInv, TypeOK
<1>2. \A row \in uploads : row.up \in Upload
  BY DEF IInv, TypeOK, Row
<1>3. LiveKeys' = LiveKeys /\ KnownKeys' = KnownKeys
  <2>1. {row \in uploads : phase'[row.up] # "abandoned"} = {row \in uploads : phase[row.up] # "abandoned"}
    BY <1>1, <1>2
  <2> QED  BY <2>1 DEF LiveKeys, LiveIn, KnownKeys, TgKeys, DoomedKeys
<1>4. Fresh' /\ Present' /\ DoomedNotLive'
  BY <1>3, KeepKeys DEF IInv, Fresh, DoomedNotLive, DoomedKeys, TgKeys
<1>5. Exclusive'
  BY DEF IInv, Exclusive
<1>6. InFlight'
  <2>1. \A j \in creates' \cup updates' : j.up \in Upload \ {u}
    BY DEF IInv, TypeOK, Create, Update
  <2> QED  BY <1>1, <2>1 DEF IInv, InFlight, RowsOf
<1>7. Phases'
  BY <1>1, <1>2 DEF IInv, Phases, TypeOK, Staging
<1> QED  BY <1>4, <1>5, <1>6, <1>7 DEF Safe

LEMMA SafeCreate ==
  ASSUME Disciplined, IInv,
         \/ \E r \in Req, u \in Upload, via \in {"rows", "parts"} : CreateRead(r, u, via)
         \/ \E k \in creates : CreateCommit(k) \/ CreateFail(k)
  PROVE  Safe'
<1>1. ASSUME NEW r \in Req, NEW u \in Upload, NEW via \in {"rows", "parts"},
             CreateRead(r, u, via)
      PROVE  Safe'
  <2>1. PICK s \in PartOrders(RowsOf(u)) :
          creates' = creates \cup {[r |-> r, up |-> u, name |-> Title[u], chan |-> Resolved(u),
                                    parts |-> Ids(s), via |-> via]}
    BY <1>1 DEF CreateRead
  <2> DEFINE k == [r |-> r, up |-> u, name |-> Title[u], chan |-> Resolved(u),
                   parts |-> Ids(s), via |-> via]
  <2>2. via = "rows" /\ Resolved(u) = Home[u]
    BY <1>1 DEF CreateRead, Disciplined, Resolved
  <2>3. /\ phase[u] = "open" /\ \A t \in staging : t.up # u
        /\ Ids(s) # <<>>
        /\ \A i \in DOMAIN Ids(s) : <<Home[u], Ids(s)[i]>> \in KeysOf(RowsOf(u))
    BY <1>1, Finalising DEF CreateRead
  <2>4. /\ creates' = creates \cup {k} /\ k.up = u /\ k.chan = Home[u] /\ k.parts # <<>>
        /\ k.via = "rows"
    BY <2>1, <2>2, <2>3
  <2>5. Refs(k) \subseteq KeysOf(RowsOf(u))
    BY <2>2, <2>3 DEF Refs
  <2>6. /\ phase' = [phase EXCEPT ![u] = "final"]
        /\ UNCHANGED <<tg, lastId, uploads, files, lastFid, staging, updates, copies, stale, pend, chk>>
    BY <1>1, <2>3 DEF CreateRead, store, jobs, IInv, TypeOK
  <2> QED  BY <2>3, <2>4, <2>5, <2>6, SafeRead
<1>2. ASSUME NEW k \in creates, CreateCommit(k) PROVE Safe'
  <2>1. /\ k \in Create /\ k.via = "rows" /\ k.up \in Upload
        /\ \A j \in updates : j.up # k.up
    BY DEF IInv, InFlight, TypeOK, Create
  <2>2. /\ uploads' = uploads \ RowsOf(k.up)
        /\ phase' = [phase EXCEPT ![k.up] = "done"]
        /\ creates' = creates \ {k} /\ updates' = updates /\ k \notin updates
        /\ UNCHANGED <<tg, lastId, staging, copies, stale, pend, chk>>
    BY <1>2, <2>1 DEF CreateCommit, WithoutRows, jobs
  <2> DEFINE same == {f \in Active : f.name = k.name}
             row == [fid |-> lastFid + 1, name |-> k.name, status |-> "active", chan |-> k.chan,
                     parts |-> k.parts, src |-> k.up, via |-> k.via]
  <2>3. CASE /\ same = {} /\ lastFid' = lastFid + 1 /\ files' = files \cup {row}
    <3>1. PICK g : g = row
      OBVIOUS
    <3>2. Refs(g) = Refs(k) /\ g.fid = lastFid + 1
      BY <3>1 DEF Refs
    <3>3. \A f \in files : f.fid <= lastFid /\ f.fid \in Nat
      BY DEF IInv, Fresh, TypeOK, File
    <3>4. lastFid \in Nat
      BY DEF IInv, TypeOK
    <3>5. g.fid <= lastFid' /\ (\A f \in files : f.fid # g.fid) /\ \A f \in files : f.fid <= lastFid'
      BY <2>3, <3>2, <3>3, <3>4
    <3>6. files \subseteq files /\ files' = files \cup {g} /\ k \in creates \cup updates
      BY <2>3, <3>1
    <3> QED  BY <2>1, <2>2, <3>2, <3>5, <3>6, SafeCommit
  <2>4. ASSUME NEW f \in same, lastFid' = lastFid,
               files' = (files \ {f}) \cup {Filled(f, k.chan, k.parts, k.up, k.via)}
        PROVE  Safe'
    <3>1. PICK g : g = Filled(f, k.chan, k.parts, k.up, k.via)
      OBVIOUS
    <3>2. Refs(g) = Refs(k) /\ g.fid = f.fid
      BY <3>1 DEF Refs, Filled
    <3>3. PICK K : K = files \ {f}
      OBVIOUS
    <3>4. (\A h \in K : h.fid # g.fid) /\ K \subseteq files
      BY <3>2, <3>3 DEF IInv, Exclusive, ExclusiveIn, Active
    <3>5. g.fid <= lastFid' /\ \A h \in K : h.fid <= lastFid'
      BY <2>4, <3>2, <3>4 DEF IInv, Fresh, Active
    <3>6. files' = K \cup {g} /\ k \in creates \cup updates
      BY <2>4, <3>1, <3>3
    <3> QED  BY <2>1, <2>2, <3>2, <3>4, <3>5, <3>6, SafeCommit
  <2> QED  BY <1>2, <2>3, <2>4 DEF CreateCommit
<1>3. ASSUME NEW k \in creates, CreateFail(k) PROVE Safe'
  <2>1. /\ creates' = creates \ {k} /\ updates' = updates /\ phase' = [phase EXCEPT ![k.up] = "open"]
        /\ UNCHANGED <<tg, lastId, uploads, files, lastFid, staging, copies, stale, pend, chk>>
    BY <1>3 DEF CreateFail, Reopened, store, jobs, IInv, InFlight, TypeOK
  <2>2. k.up \in Upload /\ phase[k.up] = "final" /\ \A j \in creates' \cup updates' : j.up # k.up
    BY <2>1 DEF IInv, InFlight, TypeOK, Create
  <2> QED  BY <2>1, <2>2, SafeReopen
<1> QED  BY <1>1, <1>2, <1>3

LEMMA SafeUpdate ==
  ASSUME Disciplined, IInv,
         \/ \E r \in Req, u \in Upload : UpdateRead(r, u)
         \/ \E k \in updates : UpdateCommit(k) \/ UpdateFail(k)
  PROVE  Safe'
<1>1. ASSUME NEW r \in Req, NEW u \in Upload, UpdateRead(r, u) PROVE Safe'
  <2> DEFINE c == IF "default" \in Liberty THEN NoChan ELSE Home[u]
  <2>1. PICK s \in PartOrders(RowsOf(u)) :
          updates' = updates \cup {[r |-> r, up |-> u, fid |-> Target[u], parts |-> Ids(s),
                                    chan |-> c]}
    BY <1>1 DEF UpdateRead
  <2> DEFINE k == [r |-> r, up |-> u, fid |-> Target[u], parts |-> Ids(s), chan |-> c]
  <2>2. c = Home[u]
    BY DEF Disciplined
  <2>3. /\ phase[u] = "open" /\ \A t \in staging : t.up # u
        /\ Ids(s) # <<>>
        /\ \A i \in DOMAIN Ids(s) : <<Home[u], Ids(s)[i]>> \in KeysOf(RowsOf(u))
    BY <1>1, Finalising DEF UpdateRead
  <2>4. updates' = updates \cup {k} /\ k.up = u /\ k.chan = Home[u] /\ k.parts # <<>>
    BY <2>1, <2>2, <2>3
  <2>5. Refs(k) \subseteq KeysOf(RowsOf(u))
    BY <2>2, <2>3 DEF Refs
  <2>6. /\ phase' = [phase EXCEPT ![u] = "final"]
        /\ UNCHANGED <<tg, lastId, uploads, files, lastFid, staging, creates, copies, stale, pend, chk>>
    BY <1>1, <2>3 DEF UpdateRead, store, jobs, IInv, TypeOK
  <2> QED  BY <2>3, <2>4, <2>5, <2>6, SafeRead
<1>2. ASSUME NEW k \in updates, UpdateCommit(k) PROVE Safe'
  <2>1. /\ k \in Update /\ k.up \in Upload /\ k.chan = Home[k.up] /\ k.parts # <<>>
        /\ \A j \in creates : j.up # k.up
    BY DEF IInv, InFlight, TypeOK, Update
  <2>2. k.chan # NoChan
    BY <2>1, HomeAssumption
  <2>3. /\ uploads' = uploads \ RowsOf(k.up)
        /\ phase' = [phase EXCEPT ![k.up] = "done"]
        /\ updates' = updates \ {k} /\ creates' = creates /\ k \notin creates
        /\ lastFid' = lastFid
        /\ UNCHANGED <<tg, lastId, staging, copies, stale, pend, chk>>
    BY <1>2, <2>1 DEF UpdateCommit, WithoutRows, jobs
  <2>4. PICK f \in files : /\ f.fid = k.fid
                           /\ files' = (files \ {f}) \cup {Filled(f, k.chan, k.parts, k.up, "rows")}
    BY <1>2, <2>1, <2>2 DEF UpdateCommit, ChannelOf
  <2>5. PICK g : g = Filled(f, k.chan, k.parts, k.up, "rows")
    OBVIOUS
  <2>6. Refs(g) = Refs(k) /\ g.fid = f.fid
    BY <2>5 DEF Refs, Filled
  <2>7. PICK K : K = files \ {f}
    OBVIOUS
  <2>8. (\A h \in K : h.fid # g.fid) /\ K \subseteq files
    BY <2>6, <2>7 DEF IInv, Exclusive, ExclusiveIn
  <2>9. g.fid <= lastFid' /\ \A h \in K : h.fid <= lastFid'
    BY <2>3, <2>6, <2>8 DEF IInv, Fresh
  <2>10. files' = K \cup {g} /\ k \in creates \cup updates
    BY <2>4, <2>5, <2>7
  <2> QED  BY <2>1, <2>3, <2>6, <2>8, <2>9, <2>10, SafeCommit
<1>3. ASSUME NEW k \in updates, UpdateFail(k) PROVE Safe'
  <2>1. /\ updates' = updates \ {k} /\ creates' = creates /\ phase' = [phase EXCEPT ![k.up] = "open"]
        /\ UNCHANGED <<tg, lastId, uploads, files, lastFid, staging, copies, stale, pend, chk>>
    BY <1>3 DEF UpdateFail, Reopened, store, jobs, IInv, InFlight, TypeOK
  <2>2. k.up \in Upload /\ phase[k.up] = "final" /\ \A j \in creates' \cup updates' : j.up # k.up
    BY <2>1 DEF IInv, InFlight, TypeOK, Update
  <2> QED  BY <2>1, <2>2, SafeReopen
<1> QED  BY <1>1, <1>2, <1>3

-----------------------------------------------------------------------------
(* FilesCopy, FilesDelete and FilesMove.                                   *)

\* A step of a copy that sends nothing.
LEMMA SafeCopyAdvance ==
  ASSUME IInv, NEW k \in copies, NEW j, j.chan = k.chan, j.parts = k.parts,
         copies' = (copies \ {k}) \cup {j},
         UNCHANGED <<tg, lastId, uploads, files, lastFid, phase, staging, creates, updates,
                     stale, pend, chk>>
  PROVE  Safe'
<1>1. Refs(j) = Refs(k)
  BY DEF Refs
<1>2. RefsOf(copies') \subseteq RefsOf(copies)
  BY <1>1 DEF RefsOf
<1>3. LiveKeys' \subseteq LiveKeys
  <2>1. LiveKeys' = RefsOf({g \in files : g.status = "active"}) \cup RefsOf(copies')
                      \cup KeysOf({row \in uploads : phase[row.up] # "abandoned"}) \cup KeysOf(staging)
    BY DEF LiveKeys, LiveIn
  <2> QED  BY <1>2, <2>1 DEF LiveKeys, LiveIn
<1>4. TgKeys' = TgKeys /\ DoomedKeys' = DoomedKeys
  BY DEF TgKeys, DoomedKeys
<1>5. KnownKeys' \subseteq KnownKeys
  BY <1>2, <1>4 DEF KnownKeys
<1>6. Fresh' /\ Present' /\ DoomedNotLive'
  BY <1>3, <1>4, <1>5, KeepKeys DEF IInv, Fresh, DoomedNotLive
<1>7. Exclusive'
  <2>1. ExclusiveIn(files, uploads, staging, copies)
    BY DEF IInv, Exclusive
  <2>2. Apart(files, copies') /\ Off(copies', uploads) /\ Off(copies', staging)
    BY <1>1, <2>1 DEF ExclusiveIn, Apart, Off
  <2>3. \A x, y \in copies' : x # y => Refs(x) \cap Refs(y) = {}
    BY <1>1, <2>1 DEF ExclusiveIn
  <2> QED  BY <2>1, <2>2, <2>3 DEF Exclusive, ExclusiveIn
<1>8. InFlight' /\ Phases'
  BY InFlightSame DEF IInv, Phases
<1> QED  BY <1>6, <1>7, <1>8 DEF Safe

LEMMA SafeCopy ==
  ASSUME IInv,
         \/ \E r \in Req, f \in files, n \in Name : CopyRead(r, f, n)
         \/ \E k \in copies : CopyFetch(k) \/ CopyPart(k) \/ CopySkip(k) \/ CopyCommit(k) \/ CopyFail(k)
  PROVE  Safe'
<1>1. ASSUME NEW r \in Req, NEW f \in files, NEW n \in Name, CopyRead(r, f, n) PROVE Safe'
  <2>1. PICK k : k = [r |-> r, pc |-> "fetch", name |-> n, from |-> f.chan, chan |-> selected,
                      ids |-> f.parts, docs |-> <<>>, parts |-> <<>>, src |-> f.src]
    OBVIOUS
  <2>2. /\ copies' = copies \cup {k}
        /\ UNCHANGED <<tg, lastId, uploads, files, lastFid, phase, staging, creates, updates,
                       stale, pend, chk>>
    BY <1>1, <2>1 DEF CopyRead, store, env, jobs
  <2>3. Refs(k) = {}
    BY <2>1 DEF Refs
  <2>4. RefsOf(copies') = RefsOf(copies)
    BY <2>2, <2>3 DEF RefsOf
  <2>5. LiveKeys' = LiveKeys /\ KnownKeys' = KnownKeys
    <3>1. LiveKeys' = RefsOf({g \in files : g.status = "active"}) \cup RefsOf(copies')
                        \cup KeysOf({row \in uploads : phase[row.up] # "abandoned"}) \cup KeysOf(staging)
      BY <2>2 DEF LiveKeys, LiveIn
    <3>2. LiveKeys' = LiveKeys
      BY <2>4, <3>1 DEF LiveKeys, LiveIn
    <3>3. TgKeys' = TgKeys /\ DoomedKeys' = DoomedKeys
      BY <2>2 DEF TgKeys, DoomedKeys
    <3> QED  BY <2>2, <2>4, <3>2, <3>3 DEF KnownKeys
  <2>6. Fresh' /\ Present' /\ DoomedNotLive'
    BY <2>2, <2>5, KeepKeys DEF IInv, Fresh, DoomedNotLive, DoomedKeys, TgKeys
  <2>7. Exclusive'
    <3>1. \A j \in copies' : j \in copies \/ Refs(j) = {}
      BY <2>2, <2>3
    <3>2. ExclusiveIn(files, uploads, staging, copies)
      BY DEF IInv, Exclusive
    <3>3. \A g, h \in files : g.fid = h.fid => g = h
      BY <3>2 DEF ExclusiveIn
    <3>4. /\ \A g \in files : \E h \in files : h.fid = g.fid /\ Refs(h) = Refs(g)
          /\ \A y \in uploads : \E x \in uploads : KeyOf(x) = KeyOf(y) /\ x.up = y.up
          /\ staging \in SUBSET staging
      OBVIOUS
    <3>5. ExclusiveIn(files, uploads, staging, copies')
      BY <3>1, <3>2, <3>3, <3>4, ExclusiveShrink
    <3> QED  BY <2>2, <3>5 DEF Exclusive
  <2>8. InFlight' /\ Phases'
    BY <2>2, InFlightSame DEF IInv, Phases
  <2> QED  BY <2>6, <2>7, <2>8 DEF Safe
<1>2. ASSUME NEW k \in copies, CopyPart(k) PROVE Safe'
  <2>1. PICK c, i : c = k.chan /\ i = lastId[c] + 1
    OBVIOUS
  <2>2. c \in Channel /\ k \in Copy
    BY <2>1 DEF IInv, TypeOK, Copy
  <2>3. PICK j : j = [k EXCEPT !.docs = Tail(k.docs), !.parts = Append(k.parts, i)]
    OBVIOUS
  <2>4. /\ lastId' = [lastId EXCEPT ![c] = i]
        /\ copies' = (copies \ {k}) \cup {j}
        /\ UNCHANGED <<uploads, files, lastFid, phase, staging, creates, updates, stale, pend, chk>>
    BY <1>2, <2>1, <2>3 DEF CopyPart, env, jobs
  <2>5. TgKeys' = TgKeys \cup {<<c, i>>}
    <3>1. PICK m \in Head(k.docs) : tg' = tg \cup {[m EXCEPT !.chan = c, !.id = i]}
      BY <1>2, <2>1 DEF CopyPart
    <3>2. m \in Message
      <4>1. k.docs \in Seq(SUBSET Message) /\ k.docs # <<>>
        BY <1>2, <2>2 DEF CopyPart, Copy
      <4>2. Head(k.docs) \in SUBSET Message
        BY <4>1
      <4> QED  BY <3>1, <4>2
    <3>3. KeyOf([m EXCEPT !.chan = c, !.id = i]) = <<c, i>>
      BY <3>2 DEF KeyOf, Message
    <3> QED  BY <3>1, <3>3 DEF TgKeys
  <2>6. Refs(j) = Refs(k) \cup {<<c, i>>}
    <3>1. j.chan = c /\ j.parts = Append(k.parts, i) /\ k.parts \in Seq(Nat)
      BY <2>1, <2>2, <2>3 DEF Copy
    <3>2. /\ Len(j.parts) = Len(k.parts) + 1 /\ Len(k.parts) \in Nat
          /\ DOMAIN j.parts = 1..(Len(k.parts) + 1) /\ DOMAIN k.parts = 1..Len(k.parts)
          /\ j.parts[Len(k.parts) + 1] = i
          /\ \A n \in 1..Len(k.parts) : j.parts[n] = k.parts[n]
      <4>1. i \in Nat
        BY <2>1, <2>2 DEF IInv, TypeOK
      <4> QED  BY <3>1, <4>1
    <3>3. Refs(j) = {<<c, j.parts[n]>> : n \in DOMAIN j.parts}
      BY <3>1 DEF Refs
    <3>4. Refs(k) = {<<c, k.parts[n]>> : n \in DOMAIN k.parts}
      BY <2>1 DEF Refs
    <3>5. Refs(j) \subseteq Refs(k) \cup {<<c, i>>}
      BY <3>2, <3>3, <3>4
    <3>6. Refs(k) \subseteq Refs(j) /\ <<c, i>> \in Refs(j)
      BY <3>2, <3>3, <3>4
    <3> QED  BY <3>5, <3>6
  <2>7. RefsOf(copies') \subseteq RefsOf(copies) \cup {<<c, i>>}
    BY <2>4, <2>6 DEF RefsOf
  <2>8. LiveKeys' \subseteq LiveKeys \cup {<<c, i>>}
    <3>1. LiveKeys' = RefsOf({g \in files : g.status = "active"}) \cup RefsOf(copies')
                        \cup KeysOf({row \in uploads : phase[row.up] # "abandoned"}) \cup KeysOf(staging)
      BY <2>4 DEF LiveKeys, LiveIn
    <3> QED  BY <2>7, <3>1 DEF LiveKeys, LiveIn
  <2>9. DoomedKeys' = DoomedKeys
    BY <2>4 DEF DoomedKeys
  <2>10. KnownKeys' \subseteq KnownKeys \cup {<<c, i>>}
    BY <2>4, <2>5, <2>7, <2>9 DEF KnownKeys
  <2>11. Fresh' /\ Present' /\ DoomedNotLive'
    BY <2>1, <2>2, <2>4, <2>5, <2>8, <2>9, <2>10, KeepKeysNew, KnownAreKeys DEF IInv
  <2>12. <<c, i>> \notin KnownKeys
    BY <2>1, <2>2 DEF IInv, Fresh, TypeOK
  <2>13. Exclusive'
    <3>1. <<c, i>> \notin RefsOf(files) \cup KeysOf(uploads) \cup KeysOf(staging) \cup RefsOf(copies)
      BY <2>12 DEF KnownKeys
    <3>2. ExclusiveIn(files, uploads, staging, copies)
      BY DEF IInv, Exclusive
    <3>3. ExclusiveIn(files, uploads, staging, (copies \ {k}) \cup {j})
      BY <2>6, <3>1, <3>2, ExclusiveCopyPart
    <3> QED  BY <2>4, <3>3 DEF Exclusive
  <2>14. InFlight' /\ Phases'
    BY <2>4, InFlightSame DEF IInv, Phases
  <2> QED  BY <2>11, <2>13, <2>14 DEF Safe
<1>3. ASSUME NEW k \in copies, CopyCommit(k) PROVE Safe'
  <2>1. PICK g : g = [fid |-> lastFid + 1, name |-> k.name, status |-> "active",
                      chan |-> k.chan, parts |-> k.parts, src |-> k.src, via |-> "copy"]
    OBVIOUS
  <2>2. /\ files' = files \cup {g} /\ lastFid' = lastFid + 1 /\ copies' = copies \ {k}
        /\ UNCHANGED <<tg, lastId, uploads, phase, staging, creates, updates, stale, pend, chk>>
    BY <1>3, <2>1 DEF CopyCommit, env, jobs
  <2>3. Refs(g) = Refs(k) /\ g.fid = lastFid + 1 /\ g.status = "active"
    BY <2>1 DEF Refs
  <2>4. Refs(k) \subseteq RefsOf(copies) /\ RefsOf(copies') \subseteq RefsOf(copies)
    BY <2>2 DEF RefsOf
  <2>5. RefsOf({f \in files' : f.status = "active"})
          \subseteq RefsOf({f \in files : f.status = "active"}) \cup Refs(k)
    BY <2>2, <2>3 DEF RefsOf
  <2>6. RefsOf(files') \subseteq RefsOf(files) \cup Refs(k)
    BY <2>2, <2>3 DEF RefsOf
  <2>7. LiveKeys' \subseteq LiveKeys
    <3>1. LiveKeys' = RefsOf({f \in files' : f.status = "active"}) \cup RefsOf(copies')
                        \cup KeysOf({row \in uploads : phase[row.up] # "abandoned"}) \cup KeysOf(staging)
      BY <2>2 DEF LiveKeys, LiveIn
    <3> QED  BY <2>4, <2>5, <3>1 DEF LiveKeys, LiveIn
  <2>8. KnownKeys' \subseteq KnownKeys /\ DoomedKeys' = DoomedKeys /\ TgKeys' = TgKeys
    <3>1. DoomedKeys' = DoomedKeys /\ TgKeys' = TgKeys
      BY <2>2 DEF DoomedKeys, TgKeys
    <3> QED  BY <2>2, <2>4, <2>6, <3>1 DEF KnownKeys
  <2>9. lastFid \in Nat /\ \A f \in files : f.fid \in Nat /\ f.fid <= lastFid
    BY DEF IInv, Fresh, TypeOK, File
  <2>10. (\A f \in files' : f.fid <= lastFid') /\ \A f \in files : f.fid # g.fid
    BY <2>2, <2>3, <2>9
  <2>11. Fresh' /\ Present' /\ DoomedNotLive'
    BY <2>2, <2>7, <2>8, <2>10, KeepKeys DEF IInv, DoomedNotLive
  <2>12. Exclusive'
    <3>1. ExclusiveIn(files, uploads, staging, copies)
      BY DEF IInv, Exclusive
    <3>2. ExclusiveIn(files \cup {g}, uploads, staging, copies \ {k})
      BY <2>3, <2>10, <3>1, ExclusiveCopyCommit
    <3> QED  BY <2>2, <3>2 DEF Exclusive
  <2>13. InFlight' /\ Phases'
    BY <2>2, InFlightSame DEF IInv, Phases
  <2> QED  BY <2>11, <2>12, <2>13 DEF Safe
<1>4. ASSUME NEW k \in copies, CopyFail(k) PROVE Safe'
  <2>1. /\ copies' = copies \ {k}
        /\ UNCHANGED <<tg, lastId, uploads, files, lastFid, phase, staging, creates, updates,
                       stale, pend, chk>>
    BY <1>4 DEF CopyFail, store, env, jobs
  <2>2. RefsOf(copies') \subseteq RefsOf(copies)
    BY <2>1 DEF RefsOf
  <2>3. LiveKeys' \subseteq LiveKeys /\ KnownKeys' \subseteq KnownKeys
    <3>1. LiveKeys' = RefsOf({g \in files : g.status = "active"}) \cup RefsOf(copies')
                        \cup KeysOf({row \in uploads : phase[row.up] # "abandoned"}) \cup KeysOf(staging)
      BY <2>1 DEF LiveKeys, LiveIn
    <3>2. LiveKeys' \subseteq LiveKeys
      BY <2>2, <3>1 DEF LiveKeys, LiveIn
    <3>3. TgKeys' = TgKeys /\ DoomedKeys' = DoomedKeys
      BY <2>1 DEF TgKeys, DoomedKeys
    <3> QED  BY <2>1, <2>2, <3>2, <3>3 DEF KnownKeys
  <2>4. Fresh' /\ Present' /\ DoomedNotLive'
    BY <2>1, <2>3, KeepKeys DEF IInv, Fresh, DoomedNotLive, DoomedKeys, TgKeys
  <2>5. Exclusive'
    BY <2>1 DEF IInv, Exclusive, ExclusiveIn, Off, Apart
  <2>6. InFlight' /\ Phases'
    BY <2>1, InFlightSame DEF IInv, Phases
  <2> QED  BY <2>4, <2>5, <2>6 DEF Safe
<1>5. ASSUME NEW k \in copies, CopyFetch(k) \/ CopySkip(k) PROVE Safe'
  <2>1. k \in Copy
    BY DEF IInv, TypeOK
  <2>2. \E j : copies' = (copies \ {k}) \cup {j} /\ j.chan = k.chan /\ j.parts = k.parts
    <3>1. CASE CopyFetch(k)
      <4>1. PICK D : D = [i \in DOMAIN k.ids |-> {m \in tg : KeyOf(m) = <<k.from, k.ids[i]>>}]
        OBVIOUS
      <4>2. copies' = (copies \ {k}) \cup {[k EXCEPT !.pc = "send", !.docs = D]}
        BY <3>1, <4>1 DEF CopyFetch
      <4>3. /\ [k EXCEPT !.pc = "send", !.docs = D].chan = k.chan
            /\ [k EXCEPT !.pc = "send", !.docs = D].parts = k.parts
        BY <2>1 DEF Copy
      <4> QED  BY <4>2, <4>3
    <3>2. CASE CopySkip(k)
      <4>1. copies' = (copies \ {k}) \cup {[k EXCEPT !.docs = Tail(k.docs)]}
        BY <3>2 DEF CopySkip
      <4>2. /\ [k EXCEPT !.docs = Tail(k.docs)].chan = k.chan
            /\ [k EXCEPT !.docs = Tail(k.docs)].parts = k.parts
        BY <2>1 DEF Copy
      <4> QED  BY <4>1, <4>2
    <3> QED  BY <1>5, <3>1, <3>2
  <2>3. UNCHANGED <<tg, lastId, uploads, files, lastFid, phase, staging, creates, updates,
                    stale, pend, chk>>
    BY <1>5 DEF CopyFetch, CopySkip, store, env, jobs
  <2> QED  BY <2>2, <2>3, SafeCopyAdvance
<1> QED  BY <1>1, <1>2, <1>3, <1>4, <1>5

\* Files that are renamed, deleted or removed.
LEMMA SafeFilesShrink ==
  ASSUME IInv,
         \A g \in files' : \E f \in files :
           f.fid = g.fid /\ Refs(f) = Refs(g) /\ (g.status = "active" => f.status = "active"),
         \A f, g \in files' : f.fid = g.fid => f = g,
         DoomedKeys' \subseteq DoomedKeys, (stale.group \subseteq stale.todo)',
         UNCHANGED <<tg, lastId, uploads, lastFid, phase, staging, creates, updates, copies>>
  PROVE  Safe'
<1>1. RefsOf({f \in files' : f.status = "active"}) \subseteq RefsOf({f \in files : f.status = "active"})
  BY DEF RefsOf
<1>2. RefsOf(files') \subseteq RefsOf(files)
  BY DEF RefsOf
<1>3. LiveKeys' \subseteq LiveKeys
  <2>1. LiveKeys' = RefsOf({f \in files' : f.status = "active"}) \cup RefsOf(copies)
                      \cup KeysOf({row \in uploads : phase[row.up] # "abandoned"}) \cup KeysOf(staging)
    BY DEF LiveKeys, LiveIn
  <2> QED  BY <1>1, <2>1 DEF LiveKeys, LiveIn
<1>4. TgKeys' = TgKeys
  BY DEF TgKeys
<1>5. KnownKeys' \subseteq KnownKeys
  BY <1>2, <1>4 DEF KnownKeys
<1>6. \A f \in files' : f.fid <= lastFid'
  BY DEF IInv, Fresh
<1>7. Fresh' /\ Present' /\ DoomedNotLive'
  BY <1>3, <1>4, <1>5, <1>6, KeepKeys DEF IInv
<1>8. Exclusive'
  <2>1. ExclusiveIn(files, uploads, staging, copies)
    BY DEF IInv, Exclusive
  <2>2. /\ \A g \in files' : \E f \in files : f.fid = g.fid /\ Refs(f) = Refs(g)
        /\ \A y \in uploads : \E x \in uploads : KeyOf(x) = KeyOf(y) /\ x.up = y.up
        /\ staging \in SUBSET staging
        /\ \A k \in copies : k \in copies \/ Refs(k) = {}
    OBVIOUS
  <2>3. ExclusiveIn(files', uploads, staging, copies)
    BY <2>1, <2>2, ExclusiveShrink
  <2> QED  BY <2>3 DEF Exclusive
<1>9. InFlight' /\ Phases'
  BY InFlightSame DEF IInv, Phases
<1> QED  BY <1>7, <1>8, <1>9 DEF Safe

LEMMA SafeFiles ==
  ASSUME IInv,
         \/ \E f \in files : DeleteFile(f)
         \/ \E f \in files, n \in Name : MoveFile(f, n)
  PROVE  Safe'
<1>1. \A f, g \in files : f.fid = g.fid => f = g
  BY DEF IInv, Exclusive, ExclusiveIn
<1>2. ASSUME NEW f \in files, NEW g, NEW K, K \subseteq files \ {f}, files' = K \cup {g},
             g.fid = f.fid, Refs(g) = Refs(f), f.status = "active",
             UNCHANGED <<tg, lastId, uploads, lastFid, phase, staging, creates, updates, copies,
                         stale, pend, chk>>
      PROVE  Safe'
  <2>1. \A h \in files' : \E e \in files :
          e.fid = h.fid /\ Refs(e) = Refs(h) /\ (h.status = "active" => e.status = "active")
    BY <1>2
  <2>2. \A h, e \in files' : h.fid = e.fid => h = e
    BY <1>1, <1>2
  <2>3. DoomedKeys' \subseteq DoomedKeys /\ (stale.group \subseteq stale.todo)'
    BY <1>2 DEF DoomedKeys, IInv, DoomedNotLive
  <2> QED  BY <1>2, <2>1, <2>2, <2>3, SafeFilesShrink
<1>3. ASSUME NEW f \in files, DeleteFile(f) PROVE Safe'
  <2>1. PICK g : g = [f EXCEPT !.status = "pending_deletion"]
    OBVIOUS
  <2>2. f \in File
    BY DEF IInv, TypeOK
  <2>3. g.fid = f.fid /\ Refs(g) = Refs(f)
    BY <2>1, <2>2 DEF File, Refs
  <2>4. PICK K : K = files \ {f}
    OBVIOUS
  <2>5. K \subseteq files \ {f} /\ files' = K \cup {g} /\ f.status = "active"
    BY <1>3, <2>1, <2>4 DEF DeleteFile
  <2>6. UNCHANGED <<tg, lastId, uploads, lastFid, phase, staging, creates, updates, copies,
                    stale, pend, chk>>
    BY <1>3 DEF DeleteFile, env, reqs, jobs
  <2> QED  BY <1>2, <2>3, <2>5, <2>6
<1>4. ASSUME NEW f \in files, NEW n \in Name, MoveFile(f, n) PROVE Safe'
  <2>1. PICK g : g = [f EXCEPT !.name = n]
    OBVIOUS
  <2>2. f \in File
    BY DEF IInv, TypeOK
  <2>3. g.fid = f.fid /\ Refs(g) = Refs(f)
    BY <2>1, <2>2 DEF File, Refs
  <2>4. PICK K : K = files \ ({f} \cup {h \in Active : h.name = n})
    OBVIOUS
  <2>5. K \subseteq files \ {f} /\ files' = K \cup {g} /\ f.status = "active"
    BY <1>4, <2>1, <2>4 DEF MoveFile
  <2>6. UNCHANGED <<tg, lastId, uploads, lastFid, phase, staging, creates, updates, copies,
                    stale, pend, chk>>
    BY <1>4 DEF MoveFile, env, reqs, jobs
  <2> QED  BY <1>2, <2>3, <2>5, <2>6
<1> QED  BY <1>3, <1>4

-----------------------------------------------------------------------------
(* Time, clients that give up, the selected channel and sessions.          *)

\* A step of a cleaner or of check that only decides what it will delete.
LEMMA SafeDoom ==
  ASSUME IInv, DoomedKeys' \subseteq KnownKeys, DoomedKeys' \cap LiveKeys = {},
         (stale.group \subseteq stale.todo)',
         UNCHANGED <<tg, lastId, uploads, files, lastFid, phase, staging, creates, updates, copies>>
  PROVE  Safe'
<1>1. LiveKeys' = LiveKeys /\ TgKeys' = TgKeys
  BY DEF LiveKeys, LiveIn, TgKeys
<1>2. KnownKeys' \subseteq KnownKeys
  BY <1>1 DEF KnownKeys
<1>3. Fresh' /\ Present' /\ DoomedNotLive'
  BY <1>1, <1>2 DEF IInv, Fresh, Present, DoomedNotLive
<1>4. Exclusive' /\ InFlight' /\ Phases'
  BY InFlightSame DEF IInv, Exclusive, Phases
<1> QED  BY <1>3, <1>4 DEF Safe

LEMMA SafeEnvironment == ASSUME Disciplined, IInv, Environment PROVE Safe'
<1>1. ASSUME NEW row \in uploads, Age(row) PROVE Safe'
  <2>1. PICK new : new = [row EXCEPT !.stale = TRUE]
    OBVIOUS
  <2>2. /\ uploads' = (uploads \ {row}) \cup {new} /\ phase[row.up] \in {"abandoned", "done"}
        /\ UNCHANGED <<tg, lastId, files, lastFid, phase, staging, creates, updates, copies,
                       stale, pend, chk>>
    BY <1>1, <2>1 DEF Age, Disciplined, env, reqs, jobs
  <2>3. row \in Row
    BY DEF IInv, TypeOK
  <2>4. KeyOf(new) = KeyOf(row) /\ new.up = row.up /\ new.chan = row.chan
    BY <2>1, <2>3 DEF Row, KeyOf
  <2>5. phase[row.up] = "abandoned" /\ row.chan = Home[row.up]
    BY <2>2 DEF IInv, Phases
  <2>6. \A y \in uploads' : \E x \in uploads : KeyOf(x) = KeyOf(y) /\ x.up = y.up
    BY <2>2, <2>4
  <2>7. KeysOf(uploads') \subseteq KeysOf(uploads)
    BY <2>6 DEF KeysOf
  <2>8. KeysOf({x \in uploads' : phase'[x.up] # "abandoned"})
          \subseteq KeysOf({x \in uploads : phase[x.up] # "abandoned"})
    BY <2>2, <2>6 DEF KeysOf
  <2>9. LiveKeys' \subseteq LiveKeys
    <3>1. LiveKeys' = RefsOf({f \in files : f.status = "active"}) \cup RefsOf(copies)
                        \cup KeysOf({x \in uploads' : phase'[x.up] # "abandoned"}) \cup KeysOf(staging)
      BY <2>2 DEF LiveKeys, LiveIn
    <3> QED  BY <2>8, <3>1 DEF LiveKeys, LiveIn
  <2>10. TgKeys' = TgKeys /\ DoomedKeys' = DoomedKeys
    BY <2>2 DEF TgKeys, DoomedKeys
  <2>11. KnownKeys' \subseteq KnownKeys
    BY <2>2, <2>7, <2>10 DEF KnownKeys
  <2>12. Fresh' /\ Present' /\ DoomedNotLive'
    BY <2>2, <2>9, <2>10, <2>11, KeepKeys DEF IInv, Fresh, DoomedNotLive
  <2>13. Exclusive'
    <3>1. ExclusiveIn(files, uploads, staging, copies)
      BY DEF IInv, Exclusive
    <3>2. /\ \A g \in files : \E f \in files : f.fid = g.fid /\ Refs(f) = Refs(g)
          /\ \A f, g \in files : f.fid = g.fid => f = g
          /\ staging \in SUBSET staging
          /\ \A k \in copies : k \in copies \/ Refs(k) = {}
      BY <3>1 DEF ExclusiveIn
    <3>3. ExclusiveIn(files, uploads', staging, copies)
      BY <2>6, <3>1, <3>2, ExclusiveShrink
    <3> QED  BY <2>2, <3>3 DEF Exclusive
  <2>14. InFlight'
    <3>1. \A k \in creates \cup updates : k.up # row.up
      BY <2>5 DEF IInv, InFlight
    <3>2. \A k \in creates \cup updates : RowsOf(k.up)' = RowsOf(k.up)
      BY <2>2, <2>4, <3>1 DEF RowsOf
    <3> QED  BY <2>2, <3>2 DEF IInv, InFlight
  <2>15. Phases'
    BY <2>2, <2>4, <2>5 DEF IInv, Phases
  <2> QED  BY <2>12, <2>13, <2>14, <2>15 DEF Safe
<1>2. ASSUME NEW u \in Upload, Abandon(u) PROVE Safe'
  <2>1. /\ phase[u] = "open" /\ \A s \in staging : s.up # u
        /\ phase' = [phase EXCEPT ![u] = "abandoned"]
        /\ UNCHANGED <<tg, lastId, uploads, files, lastFid, staging, creates, updates, copies,
                       stale, pend, chk>>
    BY <1>2 DEF Abandon, store, reqs, jobs
  <2>2. phase'[u] = "abandoned" /\ \A v \in Upload \ {u} : phase'[v] = phase[v]
    BY <2>1 DEF IInv, TypeOK
  <2>3. \A row \in uploads : row.up \in Upload
    BY DEF IInv, TypeOK, Row
  <2>4. KeysOf({x \in uploads' : phase'[x.up] # "abandoned"})
          \subseteq KeysOf({x \in uploads : phase[x.up] # "abandoned"})
    BY <2>1, <2>2, <2>3 DEF KeysOf
  <2>5. LiveKeys' \subseteq LiveKeys
    <3>1. LiveKeys' = RefsOf({f \in files : f.status = "active"}) \cup RefsOf(copies)
                        \cup KeysOf({x \in uploads' : phase'[x.up] # "abandoned"}) \cup KeysOf(staging)
      BY <2>1 DEF LiveKeys, LiveIn
    <3> QED  BY <2>4, <3>1 DEF LiveKeys, LiveIn
  <2>6. TgKeys' = TgKeys /\ DoomedKeys' = DoomedKeys
    BY <2>1 DEF TgKeys, DoomedKeys
  <2>7. KnownKeys' \subseteq KnownKeys
    BY <2>1, <2>6 DEF KnownKeys
  <2>8. Fresh' /\ Present' /\ DoomedNotLive'
    BY <2>1, <2>5, <2>6, <2>7, KeepKeys DEF IInv, Fresh, DoomedNotLive
  <2>9. Exclusive'
    BY <2>1 DEF IInv, Exclusive
  <2>10. InFlight'
    <3>1. \A k \in creates \cup updates : k.up \in Upload \ {u}
      BY <2>1 DEF IInv, InFlight, TypeOK, Create, Update
    <3> QED  BY <2>1, <2>2, <3>1 DEF IInv, InFlight, RowsOf
  <2>11. Phases'
    BY <2>1, <2>2, <2>3 DEF IInv, Phases, TypeOK, Staging
  <2> QED  BY <2>8, <2>9, <2>10, <2>11 DEF Safe
<1>3. ASSUME (\E c \in Channel : SelectChannel(c)) \/ LogInOut PROVE Safe'
  <2>1. UNCHANGED <<tg, lastId, uploads, files, lastFid, phase, staging, creates, updates, copies,
                    stale, pend, chk>>
    BY <1>3 DEF SelectChannel, LogInOut, store, reqs, jobs
  <2>2. DoomedKeys' = DoomedKeys
    BY <2>1 DEF DoomedKeys
  <2>3. /\ DoomedKeys' \subseteq KnownKeys /\ DoomedKeys' \cap LiveKeys = {}
        /\ (stale.group \subseteq stale.todo)'
    BY <2>1, <2>2 DEF IInv, DoomedNotLive, KnownKeys
  <2> QED  BY <2>1, <2>3, SafeDoom
<1> QED  BY <1>1, <1>2, <1>3 DEF Environment

-----------------------------------------------------------------------------
(* The two cleaners.                                                       *)

\* A step that deletes messages which it had decided to delete.
LEMMA SafePurge ==
  ASSUME IInv, NEW gone, gone \subseteq DoomedKeys, tg' = Surviving(gone),
         DoomedKeys' \subseteq DoomedKeys, (stale.group \subseteq stale.todo)',
         UNCHANGED <<lastId, uploads, files, lastFid, phase, staging, creates, updates, copies>>
  PROVE  Safe'
<1>1. LiveKeys' = LiveKeys
  BY DEF LiveKeys, LiveIn
<1>2. TgKeys' \subseteq TgKeys /\ TgKeys \subseteq TgKeys' \cup gone
  BY DEF TgKeys, Surviving
<1>3. KnownKeys' \subseteq KnownKeys
  BY <1>2 DEF KnownKeys
<1>4. LiveKeys \cap TgKeys \subseteq TgKeys'
  BY <1>2 DEF IInv, DoomedNotLive
<1>5. Fresh' /\ Present' /\ DoomedNotLive'
  BY <1>1, <1>3, <1>4, KeepKeys DEF IInv, Fresh
<1>6. Exclusive' /\ InFlight' /\ Phases'
  BY InFlightSame DEF IInv, Exclusive, Phases
<1> QED  BY <1>5, <1>6 DEF Safe

LEMMA DoomedCrash ==
  ASSUME IInv, DoomedKeys' \subseteq DoomedKeys, (stale.group \subseteq stale.todo)',
         UNCHANGED <<tg, lastId, uploads, files, lastFid, phase, staging, creates, updates, copies>>
  PROVE  Safe'
<1>1. DoomedKeys' \subseteq KnownKeys /\ DoomedKeys' \cap LiveKeys = {}
  BY DEF IInv, DoomedNotLive, KnownKeys
<1> QED  BY <1>1, SafeDoom

LEMMA SafeStale == ASSUME Disciplined, IInv, StaleJob PROVE Safe'
<1>1. CASE StaleList
  <2> DEFINE old  == {x \in uploads : x.stale}
             todo == {KeyOf(row) : row \in old}
  <2>1. /\ stale'.todo = todo /\ stale'.group = {}
        /\ UNCHANGED <<tg, lastId, uploads, files, lastFid, phase, staging, creates, updates, copies,
                       pend, chk>>
    BY <1>1 DEF StaleList, store, env, reqs
  <2>2. ExclusiveIn(files, uploads, staging, copies)
    BY DEF IInv, Exclusive
  <2>3. ASSUME NEW row \in old PROVE KeyOf(row) \notin LiveKeys
    <3>1. KeyOf(row) \notin RefsOf({f \in files : f.status = "active"}) \cup RefsOf(copies)
      BY <2>2 DEF ExclusiveIn, Off, RefsOf
    <3>2. KeyOf(row) \notin KeysOf(staging)
      BY <2>2 DEF ExclusiveIn, KeysOf
    <3>3. phase[row.up] = "abandoned"
      BY DEF IInv, Phases
    <3>4. KeyOf(row) \notin KeysOf({x \in uploads : phase[x.up] # "abandoned"})
      BY <2>2, <3>3 DEF ExclusiveIn, KeysOf
    <3> QED  BY <3>1, <3>2, <3>4 DEF LiveKeys, LiveIn
  <2>4. todo \subseteq KeysOf(uploads) /\ todo \cap LiveKeys = {}
    BY <2>3 DEF KeysOf
  <2>5. DoomedKeys' \subseteq DoomedKeys \cup todo
    BY <2>1 DEF DoomedKeys
  <2>6. DoomedKeys' \subseteq KnownKeys /\ DoomedKeys' \cap LiveKeys = {}
    BY <2>4, <2>5 DEF IInv, DoomedNotLive, KnownKeys
  <2> QED  BY <2>1, <2>6, SafeDoom
<1>2. ASSUME NEW c \in Channel, StaleDelete(c) PROVE Safe'
  <2>1. PICK group : group = Group(stale.todo, c)
    OBVIOUS
  <2>2. PICK o \in DeleteOutcomes(group) :
          /\ tg' = Surviving(o.gone)
          /\ stale' = IF o.ok THEN [stale EXCEPT !.pc = "rows", !.group = group] ELSE StaleIdle
    BY <1>2, <2>1 DEF StaleDelete
  <2>3. o.gone \subseteq group /\ group \subseteq stale.todo
    BY <2>1, <2>2 DEF DeleteOutcomes, Group
  <2>4. /\ stale'.todo \subseteq stale.todo /\ stale'.group \subseteq stale'.todo
    BY <2>2, <2>3 DEF StaleIdle, IInv, TypeOK
  <2>5. UNCHANGED <<lastId, uploads, files, lastFid, phase, staging, creates, updates, copies, pend, chk>>
    BY <1>2 DEF StaleDelete, env, reqs
  <2>6. o.gone \subseteq DoomedKeys /\ DoomedKeys' \subseteq DoomedKeys
    BY <2>3, <2>4, <2>5 DEF DoomedKeys
  <2> QED  BY <2>2, <2>4, <2>5, <2>6, SafePurge
<1>3. CASE StaleRows
  <2>1. /\ uploads' = {row \in uploads : KeyOf(row) \notin stale.group}
        /\ stale'.todo \subseteq stale.todo /\ stale'.group = {}
        /\ UNCHANGED <<tg, lastId, files, lastFid, phase, staging, creates, updates, copies, pend, chk>>
    BY <1>3 DEF StaleRows, WithoutParts, StaleIdle, env, reqs
  <2>2. KeysOf(uploads') \subseteq KeysOf(uploads)
    BY <2>1 DEF KeysOf
  <2>3. KeysOf({x \in uploads' : phase'[x.up] # "abandoned"})
          \subseteq KeysOf({x \in uploads : phase[x.up] # "abandoned"})
    BY <2>1 DEF KeysOf
  <2>4. LiveKeys' \subseteq LiveKeys
    <3>1. LiveKeys' = RefsOf({f \in files : f.status = "active"}) \cup RefsOf(copies)
                        \cup KeysOf({x \in uploads' : phase'[x.up] # "abandoned"}) \cup KeysOf(staging)
      BY <2>1 DEF LiveKeys, LiveIn
    <3> QED  BY <2>3, <3>1 DEF LiveKeys, LiveIn
  <2>5. TgKeys' = TgKeys /\ DoomedKeys' \subseteq DoomedKeys
    BY <2>1 DEF TgKeys, DoomedKeys
  <2>6. KnownKeys' \subseteq KnownKeys
    BY <2>1, <2>2, <2>5 DEF KnownKeys
  <2>7. Fresh' /\ Present' /\ DoomedNotLive'
    BY <2>1, <2>4, <2>5, <2>6, KeepKeys DEF IInv, Fresh
  <2>8. Exclusive'
    BY <2>1 DEF IInv, Exclusive, ExclusiveIn, Off
  <2>9. InFlight'
    <3>1. stale.group \cap KeysOf({x \in uploads : phase[x.up] # "abandoned"}) = {}
      BY DEF IInv, DoomedNotLive, DoomedKeys, LiveKeys, LiveIn
    <3>2. \A k \in creates \cup updates : \A row \in RowsOf(k.up) : row \in RowsOf(k.up)'
      <4>1. \A k \in creates \cup updates : phase[k.up] = "final"
        BY DEF IInv, InFlight
      <4> QED  BY <2>1, <3>1, <4>1 DEF RowsOf, KeysOf
    <3>3. \A k \in creates \cup updates : KeysOf(RowsOf(k.up)) \subseteq KeysOf(RowsOf(k.up)')
      BY <3>2 DEF KeysOf
    <3>4. \A k \in creates \cup updates : Refs(k) \subseteq KeysOf(RowsOf(k.up)')
      BY <3>3 DEF IInv, InFlight
    <3> QED  BY <2>1, <3>4 DEF IInv, InFlight, KeysOf, RowsOf
  <2>10. Phases'
    BY <2>1 DEF IInv, Phases
  <2> QED  BY <2>7, <2>8, <2>9, <2>10 DEF Safe
<1>4. CASE StaleCrash
  <2>1. /\ stale'.todo = {} /\ stale'.group = {}
        /\ UNCHANGED <<tg, lastId, uploads, files, lastFid, phase, staging, creates, updates, copies,
                       pend, chk>>
    BY <1>4 DEF StaleCrash, StaleIdle, store, env, reqs
  <2>2. DoomedKeys' \subseteq DoomedKeys
    BY <2>1 DEF DoomedKeys
  <2> QED  BY <2>1, <2>2, DoomedCrash
<1> QED  BY <1>1, <1>2, <1>3, <1>4 DEF StaleJob

LEMMA SafePend == ASSUME Disciplined, IInv, PendJob PROVE Safe'
<1>0. stale.group \subseteq stale.todo /\ ExclusiveIn(files, uploads, staging, copies)
  BY DEF IInv, DoomedNotLive, Exclusive
<1>1. CASE PendList
  <2>1. /\ pend'.todo \subseteq RefsOf(Pending)
        /\ UNCHANGED <<tg, lastId, uploads, files, lastFid, phase, staging, creates, updates, copies,
                       stale, chk>>
    BY <1>1 DEF PendList, store, env, reqs
  <2>2. ASSUME NEW f \in Pending PROVE Refs(f) \cap LiveKeys = {}
    <3>1. f \in files /\ f.status # "active"
      BY DEF Pending
    <3>2. Refs(f) \cap RefsOf({g \in files : g.status = "active"}) = {}
      BY <1>0, <3>1 DEF ExclusiveIn, RefsOf
    <3>3. Refs(f) \cap RefsOf(copies) = {}
      BY <1>0, <3>1 DEF ExclusiveIn, Apart, RefsOf
    <3>4. Refs(f) \cap KeysOf({x \in uploads : phase[x.up] # "abandoned"}) = {}
      BY <1>0, <3>1 DEF ExclusiveIn, Off, KeysOf
    <3>5. Refs(f) \cap KeysOf(staging) = {}
      BY <1>0, <3>1 DEF ExclusiveIn, Off, KeysOf
    <3> QED  BY <3>2, <3>3, <3>4, <3>5 DEF LiveKeys, LiveIn
  <2>3. RefsOf(Pending) \cap LiveKeys = {} /\ RefsOf(Pending) \subseteq RefsOf(files)
    BY <2>2 DEF RefsOf, Pending
  <2>4. DoomedKeys' \subseteq DoomedKeys \cup RefsOf(Pending)
    BY <2>1 DEF DoomedKeys
  <2>5. DoomedKeys' \subseteq KnownKeys /\ DoomedKeys' \cap LiveKeys = {}
    BY <2>3, <2>4 DEF IInv, DoomedNotLive, KnownKeys
  <2> QED  BY <1>0, <2>1, <2>5, SafeDoom
<1>2. ASSUME NEW c \in Channel, PendDelete(c) PROVE Safe'
  <2>1. PICK group : group = Group(pend.todo, c)
    OBVIOUS
  <2>2. PICK o \in DeleteOutcomes(group) :
          /\ tg' = Surviving(o.gone)
          /\ pend' = IF o.ok THEN [pend EXCEPT !.todo = pend.todo \ group] ELSE PendIdle
    BY <1>2, <2>1 DEF PendDelete
  <2>3. o.gone \subseteq group /\ group \subseteq pend.todo
    BY <2>1, <2>2 DEF DeleteOutcomes, Group
  <2>4. pend'.todo \subseteq pend.todo
    BY <2>2 DEF PendIdle, IInv, TypeOK
  <2>5. UNCHANGED <<lastId, uploads, files, lastFid, phase, staging, creates, updates, copies, stale, chk>>
    BY <1>2 DEF PendDelete, env, reqs
  <2>6. o.gone \subseteq DoomedKeys /\ DoomedKeys' \subseteq DoomedKeys
    BY <2>3, <2>4, <2>5 DEF DoomedKeys
  <2> QED  BY <1>0, <2>2, <2>5, <2>6, SafePurge
<1>3. CASE PendSweep
  <2>1. /\ files' \subseteq files /\ pend'.todo = {}
        /\ UNCHANGED <<tg, lastId, uploads, lastFid, phase, staging, creates, updates, copies, stale, chk>>
    BY <1>3 DEF PendSweep, Swept, PendIdle, env, reqs
  <2>2. DoomedKeys' \subseteq DoomedKeys
    BY <2>1 DEF DoomedKeys
  <2>3. /\ \A g \in files' : \E f \in files :
             f.fid = g.fid /\ Refs(f) = Refs(g) /\ (g.status = "active" => f.status = "active")
        /\ \A f, g \in files' : f.fid = g.fid => f = g
    BY <1>0, <2>1 DEF ExclusiveIn
  <2> QED  BY <1>0, <2>1, <2>2, <2>3, SafeFilesShrink
<1>4. CASE PendCrash
  <2>1. /\ pend'.todo = {}
        /\ UNCHANGED <<tg, lastId, uploads, files, lastFid, phase, staging, creates, updates, copies,
                       stale, chk>>
    BY <1>4 DEF PendCrash, PendIdle, store, env, reqs
  <2>2. DoomedKeys' \subseteq DoomedKeys
    BY <2>1 DEF DoomedKeys
  <2> QED  BY <1>0, <2>1, <2>2, DoomedCrash
<1> QED  BY <1>1, <1>2, <1>3, <1>4 DEF PendJob

-----------------------------------------------------------------------------
(* teldrive check, on an idle server.                                      *)

\* What it found to be an orphan is no part of a live holder.
LEMMA OrphansNotLive ==
  ASSUME IInv, chk.pc = "uploads", NEW ids, ids = chk.msgs \ StagedIds(chk.chan),
         NEW id \in ids, \A f \in chk.files : id \notin PartsSeen(f, ids)
  PROVE  <<chk.chan, id>> \notin LiveKeys /\ <<chk.chan, id>> \in KnownKeys
<1> DEFINE key == <<chk.chan, id>>
<1>1. /\ staging = {} /\ copies = {}
      /\ chk.files = {f \in Active : f.chan = chk.chan}
      /\ chk.msgs = {m.id : m \in {x \in tg : x.chan = chk.chan}}
  BY DEF IInv, Checking, Idle
<1>2. ExclusiveIn(files, uploads, staging, copies)
  BY DEF IInv, Exclusive
<1>3. key \notin KeysOf(uploads)
  <2>1. \A row \in uploads : row.chan = chk.chan => row.id \in StagedIds(chk.chan)
    BY DEF StagedIds
  <2> QED  BY <2>1 DEF KeysOf, KeyOf
<1>4. ASSUME NEW f \in Active PROVE key \notin Refs(f)
  <2>1. SUFFICES ASSUME key \in Refs(f) PROVE FALSE
    OBVIOUS
  <2>2. PICK i \in DOMAIN f.parts : key = <<f.chan, f.parts[i]>>
    BY <2>1 DEF Refs
  <2>3. f \in chk.files /\ f.chan = chk.chan /\ f.parts[i] = id
    BY <1>1, <2>2
  <2>4. \A j \in DOMAIN f.parts : <<chk.chan, f.parts[j]>> \in Refs(f)
    BY <2>3 DEF Refs
  <2>5. Refs(f) \subseteq TgKeys
    BY DEF IInv, Present, LiveKeys, LiveIn, RefsOf, Active
  <2>6. \A j \in DOMAIN f.parts : f.parts[j] \in chk.msgs
    <3>1. ASSUME NEW j \in DOMAIN f.parts PROVE f.parts[j] \in chk.msgs
      <4>1. PICK m \in tg : KeyOf(m) = <<chk.chan, f.parts[j]>>
        BY <2>4, <2>5 DEF TgKeys
      <4>2. m.chan = chk.chan /\ m.id = f.parts[j]
        BY <4>1 DEF KeyOf
      <4> QED  BY <1>1, <4>2
    <3> QED  BY <3>1
  <2>7. \A row \in uploads : KeyOf(row) \notin Refs(f)
    BY <1>2 DEF ExclusiveIn, Off, Active
  <2>8. \A j \in DOMAIN f.parts : f.parts[j] \notin StagedIds(chk.chan)
    BY <2>4, <2>7 DEF StagedIds, KeyOf
  <2>9. \A j \in DOMAIN f.parts : f.parts[j] \in ids
    BY <2>6, <2>8
  <2>10. f.parts \in Seq(Nat)
    BY DEF IInv, TypeOK, File, Active
  <2>11. DOMAIN f.parts = 1..Len(f.parts) /\ Len(f.parts) \in Nat
    BY <2>10
  <2>12. \A h \in 1..(i - 1) : f.parts[h] \in ids
    BY <2>9, <2>11
  <2>13. f.parts[i] \in PartsSeen(f, ids)
    BY <2>12 DEF PartsSeen
  <2> QED  BY <2>3, <2>13
<1>5. key \notin RefsOf({f \in files : f.status = "active"})
  BY <1>4 DEF RefsOf, Active
<1>6. key \notin RefsOf(copies) \cup KeysOf(staging)
  BY <1>1 DEF RefsOf, KeysOf
<1>7. key \notin KeysOf({row \in uploads : phase[row.up] # "abandoned"})
  BY <1>3 DEF KeysOf
<1>8. key \notin LiveKeys
  BY <1>5, <1>6, <1>7 DEF LiveKeys, LiveIn
<1>9. key \in TgKeys
  BY <1>1 DEF TgKeys, KeyOf
<1> QED  BY <1>8, <1>9 DEF KnownKeys

LEMMA SafeCheck == ASSUME Disciplined, IInv, Check PROVE Safe' /\ Checking'
<1>0. /\ stale.group \subseteq stale.todo /\ ExclusiveIn(files, uploads, staging, copies)
      /\ chk \in [pc : {"idle", "messages", "uploads", "mark", "purge"}, chan : Channel,
                  files : SUBSET File, msgs : SUBSET Nat, missing : SUBSET Nat,
                  orphans : SUBSET Key]
  BY DEF IInv, DoomedNotLive, Exclusive, TypeOK
<1>1. ASSUME chk'.orphans \subseteq chk.orphans,
             UNCHANGED <<tg, lastId, uploads, files, lastFid, phase, staging, creates, updates, copies,
                         stale, pend>>
      PROVE  Safe'
  <2>1. DoomedKeys' \subseteq DoomedKeys /\ (stale.group \subseteq stale.todo)'
    BY <1>0, <1>1 DEF DoomedKeys
  <2> QED  BY <1>1, <2>1, DoomedCrash
<1>2. ASSUME NEW c \in Channel, CheckFiles(c) PROVE Safe' /\ Checking'
  <2>1. UNCHANGED <<tg, lastId, uploads, files, lastFid, phase, staging, creates, updates, copies,
                    stale, pend>>
    BY <1>2 DEF CheckFiles, store, env, reqs
  <2>2. /\ chk'.pc = "messages" /\ chk'.chan = c /\ chk'.orphans = {} /\ Idle
        /\ chk'.files = {f \in Active : f.chan = c}
    BY <1>2 DEF CheckFiles, FilesOf, CheckIdle, Disciplined
  <2>3. Checking'
    BY <2>1, <2>2 DEF Checking, Idle, Active
  <2> QED  BY <1>1, <2>1, <2>2, <2>3
<1>3. CASE CheckMessages
  <2>1. UNCHANGED <<tg, lastId, uploads, files, lastFid, phase, staging, creates, updates, copies,
                    stale, pend>>
    BY <1>3 DEF CheckMessages, store, env, reqs
  <2>2. Idle /\ chk.orphans = {} /\ chk.files = {f \in Active : f.chan = chk.chan}
    BY <1>3 DEF CheckMessages, IInv, Checking
  <2>3. \/ chk'.pc = "idle" /\ chk'.orphans = {}
        \/ /\ chk'.pc = "uploads" /\ chk'.chan = chk.chan /\ chk'.orphans = {}
           /\ chk'.files = chk.files /\ chk'.msgs = {m.id : m \in {x \in tg : x.chan = chk.chan}}
    <3>1. CASE chk' = CheckIdle(chk.chan)
      BY <3>1 DEF CheckIdle
    <3>2. PICK ids : ids = {m.id : m \in {x \in tg : x.chan = chk.chan}}
      OBVIOUS
    <3>3. CASE chk' = [chk EXCEPT !.pc = "uploads", !.msgs = ids]
      BY <1>0, <2>2, <3>2, <3>3
    <3> QED  BY <1>3, <3>1, <3>2, <3>3 DEF CheckMessages
  <2>4. Checking'
    BY <2>1, <2>2, <2>3 DEF Checking, Idle, Active
  <2> QED  BY <1>1, <2>1, <2>3, <2>4
<1>4. CASE CheckUploads
  <2> DEFINE ids == chk.msgs \ StagedIds(chk.chan)
             orphans == {<<chk.chan, id>> : id \in ids \ UNION {PartsSeen(f, ids) : f \in chk.files}}
  <2>1. /\ chk.pc = "uploads" /\ chk'.pc = "mark" /\ chk'.orphans = orphans
        /\ UNCHANGED <<tg, lastId, uploads, files, lastFid, phase, staging, creates, updates, copies,
                       stale, pend>>
    BY <1>0, <1>4 DEF CheckUploads, store, env, reqs
  <2>2. \A key \in orphans : key \notin LiveKeys /\ key \in KnownKeys
    <3> HIDE DEF ids
    <3>1. ids = chk.msgs \ StagedIds(chk.chan)
      BY DEF ids
    <3>2. ASSUME NEW id \in ids \ UNION {PartsSeen(f, ids) : f \in chk.files}
          PROVE  <<chk.chan, id>> \notin LiveKeys /\ <<chk.chan, id>> \in KnownKeys
      <4>1. \A f \in chk.files : id \notin PartsSeen(f, ids)
        BY <3>2
      <4> QED  BY <2>1, <3>1, <4>1, OrphansNotLive
    <3> QED  BY <3>2
  <2>3. DoomedKeys' \subseteq DoomedKeys \cup orphans
    BY <2>1 DEF DoomedKeys
  <2>4. /\ DoomedKeys' \subseteq KnownKeys /\ DoomedKeys' \cap LiveKeys = {}
        /\ (stale.group \subseteq stale.todo)'
    <3> HIDE DEF orphans
    <3> QED  BY <1>0, <2>1, <2>2, <2>3 DEF IInv, DoomedNotLive, KnownKeys
  <2>5. Idle' /\ chk'.pc = "mark"
    BY <2>1 DEF IInv, Checking, Idle
  <2>6. Safe'
    BY <2>1, <2>4, SafeDoom
  <2> QED  BY <2>5, <2>6 DEF Checking
<1>5. CASE CheckMark
  <2>1. /\ chk.pc = "mark" /\ chk'.pc = "purge" /\ chk'.orphans = chk.orphans
        /\ UNCHANGED <<tg, lastId, uploads, lastFid, phase, staging, creates, updates, copies,
                       stale, pend>>
    BY <1>0, <1>5 DEF CheckMark, env, reqs
  <2>2. \A g \in files' : \E f \in files :
          f.fid = g.fid /\ Refs(f) = Refs(g) /\ (g.status = "active" => f.status = "active")
    <3>1. ASSUME NEW f \in files, NEW g, g = [f EXCEPT !.status = "pending_deletion"]
          PROVE  f.fid = g.fid /\ Refs(f) = Refs(g) /\ g.status = "pending_deletion"
      BY <3>1 DEF IInv, TypeOK, File, Refs
    <3>2. \A g \in files' : \E f \in files : g = f \/ g = [f EXCEPT !.status = "pending_deletion"]
      BY <1>5 DEF CheckMark
    <3> QED  BY <3>1, <3>2
  <2>3. \A f, g \in files' : f.fid = g.fid => f = g
    <3>1. \A f \in files : [f EXCEPT !.status = "pending_deletion"].fid = f.fid
      BY DEF IInv, TypeOK, File
    <3> DEFINE Marked(f) == IF f.fid \in chk.missing THEN [f EXCEPT !.status = "pending_deletion"]
                                                     ELSE f
    <3>2. files' = {Marked(f) : f \in files}
      BY <1>5 DEF CheckMark
    <3>3. \A f \in files : Marked(f).fid = f.fid
      BY <3>1
    <3>4. \A f, g \in files : f.fid = g.fid => f = g
      BY <1>0 DEF ExclusiveIn
    <3> HIDE DEF Marked
    <3> QED  BY <3>2, <3>3, <3>4
  <2>4. DoomedKeys' \subseteq DoomedKeys /\ (stale.group \subseteq stale.todo)'
    BY <1>0, <2>1 DEF DoomedKeys
  <2>5. Idle'
    BY <2>1 DEF IInv, Checking, Idle
  <2>6. Safe'
    BY <2>1, <2>2, <2>3, <2>4, SafeFilesShrink
  <2> QED  BY <2>1, <2>5, <2>6 DEF Checking
<1>6. CASE CheckPurge
  <2>1. PICK o \in DeleteOutcomes(chk.orphans) : tg' = Surviving(o.gone)
    BY <1>6 DEF CheckPurge
  <2>2. /\ chk'.pc = "idle" /\ chk'.orphans = {}
        /\ UNCHANGED <<lastId, uploads, files, lastFid, phase, staging, creates, updates, copies,
                       stale, pend>>
    BY <1>6 DEF CheckPurge, CheckIdle, env, reqs
  <2>3. o.gone \subseteq DoomedKeys
    BY DEF DeleteOutcomes, DoomedKeys
  <2>4. DoomedKeys' \subseteq DoomedKeys /\ (stale.group \subseteq stale.todo)'
    BY <1>0, <2>2 DEF DoomedKeys
  <2>5. Safe'
    BY <2>1, <2>2, <2>3, <2>4, SafePurge
  <2> QED  BY <2>2, <2>5 DEF Checking
<1>7. CASE CheckCrash
  <2>1. /\ chk'.pc = "idle" /\ chk'.orphans = {}
        /\ UNCHANGED <<tg, lastId, uploads, files, lastFid, phase, staging, creates, updates, copies,
                       stale, pend>>
    BY <1>7 DEF CheckCrash, CheckIdle, store, env, reqs
  <2> QED  BY <1>1, <2>1 DEF Checking
<1> QED  BY <1>2, <1>3, <1>4, <1>5, <1>6, <1>7 DEF Check

-----------------------------------------------------------------------------
(* The invariant, and what follows.                                        *)

LEMMA SafeInit == Init => IInv
<1> SUFFICES ASSUME Init PROVE IInv
  OBVIOUS
<1>1. TypeInv
  BY TypeInit
<1>2. /\ tg = {} /\ uploads = {} /\ files = {} /\ staging = {} /\ creates = {} /\ updates = {}
      /\ copies = {} /\ stale = StaleIdle /\ pend = PendIdle
      /\ chk.pc = "idle" /\ chk.orphans = {}
  BY DEF Init, CheckIdle
<1>3. DoomedKeys = {} /\ LiveKeys = {} /\ KnownKeys = {}
  BY <1>2 DEF DoomedKeys, LiveKeys, LiveIn, KnownKeys, TgKeys, KeysOf, RefsOf, StaleIdle, PendIdle
<1>4. Fresh /\ Present /\ DoomedNotLive
  BY <1>2, <1>3 DEF Fresh, Present, DoomedNotLive, StaleIdle
<1>5. Exclusive /\ InFlight /\ Phases /\ Checking
  BY <1>2 DEF Exclusive, ExclusiveIn, Off, Apart, InFlight, Phases, Checking
<1> QED  BY <1>1, <1>4, <1>5 DEF IInv, TypeInv

LEMMA SafeStep == ASSUME Disciplined, IInv, [Next]_vars PROVE IInv'
<1>1. TypeOK' /\ IsFiniteSet(uploads')
  BY TypeStep DEF IInv, TypeInv
<1>2. CASE Requests \/ StaleJob \/ PendJob
  <2>1. Safe'
    <3>1. CASE Requests
      BY <3>1, SafeUpload, SafeCreate, SafeUpdate, SafeCopy, SafeFiles DEF Requests
    <3> QED  BY <1>2, <3>1, SafeStale, SafePend
  <2>2. Checking'
    BY <1>2, NotChecking, CheckingKept DEF IInv
  <2> QED  BY <1>1, <2>1, <2>2 DEF IInv, Safe
<1>3. CASE Environment
  <2>1. /\ chk' = chk /\ UNCHANGED <<tg, files, staging, creates, updates, copies, stale, pend>>
    BY <1>3 DEF Environment, Age, Abandon, SelectChannel, LogInOut, store, reqs, jobs
  <2>2. Checking'
    BY <2>1 DEF IInv, Checking, Idle, Active
  <2> QED  BY <1>1, <1>3, <2>2, SafeEnvironment DEF IInv, Safe
<1>4. CASE Check
  BY <1>1, <1>4, SafeCheck DEF IInv, Safe
<1>5. CASE UNCHANGED vars
  <2>1. UNCHANGED <<tg, lastId, uploads, files, lastFid, phase, staging, creates, updates, copies,
                    stale, pend, chk>>
    BY <1>5 DEF vars, store, env, reqs, jobs
  <2>2. DoomedKeys' \subseteq DoomedKeys /\ (stale.group \subseteq stale.todo)'
    BY <2>1 DEF DoomedKeys, IInv, DoomedNotLive
  <2>3. Safe'
    BY <2>1, <2>2, DoomedCrash
  <2>4. Checking'
    BY <2>1 DEF IInv, Checking, Idle, Active
  <2> QED  BY <1>1, <2>3, <2>4 DEF IInv, Safe
<1> QED  BY <1>2, <1>3, <1>4, <1>5 DEF Next

THEOREM SafetyInvariant == ASSUME Disciplined PROVE Spec => []IInv
<1>1. Init => IInv
  BY SafeInit
<1>2. IInv /\ [Next]_vars => IInv'
  BY SafeStep
<1> QED  BY <1>1, <1>2, PTL DEF Spec

\* With clients and operators that keep to the protocol, no cleaner, no check
\* and no interleaving of requests deletes a part of an active file
\* (queue_executor.go, cmd/check.go against services/file.go).
THEOREM PartsArePresent == ASSUME Disciplined PROVE Spec => []PartsPresent
<1>1. IInv => PartsPresent
  BY DEF IInv, Present, LiveKeys, LiveIn, PartsPresent, Active
<1> QED  BY <1>1, SafetyInvariant, PTL

\* Nor do two rows of the two tables ever share a message.
THEOREM MessagesHaveOneHolder == ASSUME Disciplined PROVE Spec => []OneHolder
<1>1. IInv => OneHolder
  BY DEF IInv, Exclusive, ExclusiveIn, Off, OneHolder
<1> QED  BY <1>1, SafetyInvariant, PTL
=============================================================================
