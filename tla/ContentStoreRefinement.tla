----------------------- MODULE ContentStoreRefinement -----------------------
(***************************************************************************)
(* ContentStore implements PartLife: for every number of channels, uploads *)
(* and requests, and every bound, each step of the store leaves the state  *)
(* of every message alone or takes it along an arrow of PartLife.          *)
(*                                                                         *)
(* A lemma per kind of step says which keys enter and leave Owned, Doomed, *)
(* Expired, Staged and TgKeys; the move of a message follows from that,    *)
(* because these sets are apart (HoldersApart).                            *)
(***************************************************************************)
EXTENDS ContentStoreSafety

\* Every part that changes its state makes a move of M.
Moves(M) == \A p \in Parts : StateOf(p)' = StateOf(p) \/ <<StateOf(p), StateOf(p)'>> \in M

\* A key is held in one way only, and never before its message was sent.
LEMMA HoldersApart ==
  ASSUME IInv, Recorded
  PROVE  /\ Owned \subseteq TgKeys
         /\ Owned \cap Doomed = {} /\ Staged \cap Expired = {}
         /\ (Owned \cup Doomed) \cap (Staged \cup Expired) = {}
         /\ Owned \cup Doomed \cup Staged \cup Expired \cup TgKeys \subseteq KnownKeys
         /\ KeysOf(uploads) = Staged \cup Expired
<1>1. Owned \subseteq TgKeys
  BY DEF IInv, Present, LiveKeys, LiveIn, Owned, Active
<1>2. Owned \cap Doomed = {}
  BY DEF IInv, Exclusive, ExclusiveIn, Owned, Doomed, RefsOf, Active, Pending
<1>3. Staged \cap Expired = {}
  BY DEF Recorded, Staged, Expired
<1>4. KeysOf(uploads) = Staged \cup Expired
  BY DEF KeysOf, Staged, Expired
<1>5. RefsOf(files) \cap KeysOf(uploads) = {}
  BY DEF IInv, Exclusive, ExclusiveIn, Off, RefsOf, KeysOf
<1>6. Owned \cup Doomed \subseteq RefsOf(files)
  BY DEF Owned, Doomed, RefsOf, Active, Pending
<1> QED  BY <1>1, <1>2, <1>3, <1>4, <1>5, <1>6 DEF KnownKeys

\* The states of a part are those of PartLife: no part is lost.
LifeTypeOK == Life \in [Parts -> Promise!States]
LEMMA LifeType == IInv => LifeTypeOK
<1> SUFFICES ASSUME IInv PROVE LifeTypeOK
  OBVIOUS
<1>1. Owned \subseteq TgKeys
  BY DEF IInv, Present, LiveKeys, LiveIn, Owned, Active
<1>2. \A p \in Parts : StateOf(p) \in Promise!States
  BY <1>1 DEF StateOf, Promise!States
<1> QED  BY <1>2 DEF Life, LifeTypeOK

LEMMA LifeIs == \A p \in Parts : Life[p] = StateOf(p) /\ Life'[p] = StateOf(p)'
BY DEF Life

\* Any number of parts may make the same kind of move at once.
LEMMA MovesTogether ==
  ASSUME LifeTypeOK',
         NEW M \in {Promise!Forget, Promise!Adopt, Promise!Bury, Promise!Doom, Promise!Reap},
         Moves(M)
  PROVE  Promise!Next
<1>1. {<<Life[p], Life'[p]>> : p \in {p \in Parts : Life'[p] # Life[p]}} \subseteq M
  BY LifeIs DEF Moves
<1> QED  BY <1>1 DEF Promise!Next, LifeTypeOK

\* Only the part q makes a move.
LEMMA MovesAlone ==
  ASSUME LifeTypeOK', NEW M \in {Promise!Send, Promise!Stage, Promise!Expire}, Moves(M),
         NEW q, \A p \in Parts \ {q} : StateOf(p)' = StateOf(p)
  PROVE  Promise!Next \/ UNCHANGED Life
<1> DEFINE changed == {p \in Parts : Life'[p] # Life[p]}
<1>1. {<<Life[p], Life'[p]>> : p \in changed} \subseteq M
  BY LifeIs DEF Moves
<1>2. changed \subseteq Parts \cap {q}
  BY LifeIs
<1>3. CASE changed = {q}
  BY <1>1, <1>2, <1>3 DEF Promise!Next, LifeTypeOK
<1>4. CASE changed = {}
  <2>1. \A p \in Parts : StateOf(p)' = StateOf(p)
    BY <1>4, LifeIs
  <2> QED  BY <2>1 DEF Life
<1> QED  BY <1>2, <1>3, <1>4

\* A step that leaves the messages, the rows and the files alone.
LEMMA NoMove ==
  ASSUME tg' = tg, lastId' = lastId, uploads' = uploads, files' = files
  PROVE  UNCHANGED Life
<1>1. \A p \in Parts : StateOf(p)' = StateOf(p)
  BY DEF StateOf, TgKeys, Owned, Doomed, Expired, Staged, Active, Pending
<1> QED  BY <1>1 DEF Life

-----------------------------------------------------------------------------
(* Messages are sent and deleted.                                          *)

LEMMA SendKey == \A m : tg' = tg \cup {m} => TgKeys' = TgKeys \cup {KeyOf(m)}
BY DEF TgKeys

LEMMA SendMoves ==
  ASSUME IInv, Recorded, LifeTypeOK', NEW c \in Channel, NEW i, i = lastId[c] + 1,
         lastId' = [lastId EXCEPT ![c] = i], TgKeys' = TgKeys \cup {<<c, i>>},
         uploads' = uploads, files' = files
  PROVE  Promise!Next \/ UNCHANGED Life
<1> DEFINE q == <<c, i>>
<1>1. lastId \in [Channel -> Nat] /\ MaxMsg \in Nat
  BY BoundAssumption DEF IInv, TypeOK
<1>2. \A p \in Parts \ {q} : (p[2] > lastId'[p[1]]) <=> (p[2] > lastId[p[1]])
  BY <1>1 DEF Parts
<1>3. q \notin Owned \cup Doomed \cup Staged \cup Expired
  <2>1. q \notin KnownKeys
    BY <1>1 DEF IInv, Fresh
  <2> QED  BY <2>1, HoldersApart
<1>4. Owned' = Owned /\ Doomed' = Doomed /\ Staged' = Staged /\ Expired' = Expired
  BY DEF Owned, Doomed, Staged, Expired, Active, Pending
<1>5. \A p \in Parts \ {q} : StateOf(p)' = StateOf(p)
  BY <1>2, <1>4 DEF StateOf
<1>6. StateOf(q) = "none" /\ StateOf(q)' = "loose"
  <2>1. q[2] > lastId[q[1]] /\ ~(q[2] > lastId'[q[1]]) /\ q \in TgKeys'
    BY <1>1
  <2> HIDE DEF q
  <2> QED  BY <1>3, <1>4, <2>1 DEF StateOf
<1>7. Moves(Promise!Send)
  <2> HIDE DEF q
  <2> QED  BY <1>5, <1>6 DEF Moves, Promise!Send
<1> QED  BY <1>5, <1>7, MovesAlone

LEMMA ReapMoves ==
  ASSUME IInv, Recorded, LifeTypeOK', NEW gone, gone \subseteq DoomedKeys, tg' = Surviving(gone),
         lastId' = lastId, uploads' = uploads, files' = files
  PROVE  Promise!Next
<1>1. TgKeys' = TgKeys \ gone
  BY DEF TgKeys, Surviving
<1>2. Owned' = Owned /\ Doomed' = Doomed /\ Staged' = Staged /\ Expired' = Expired
  BY DEF Owned, Doomed, Staged, Expired, Active, Pending
<1>3. gone \cap Owned = {}
  BY DEF IInv, DoomedNotLive, LiveKeys, LiveIn, Owned, Active
<1>4. gone \cap Staged = {}
  BY DEF Recorded, Staged, DoomedKeys
<1>5. Moves(Promise!Reap)
  <2>1. ASSUME NEW p \in Parts
        PROVE  StateOf(p)' = StateOf(p) \/ <<StateOf(p), StateOf(p)'>> \in Promise!Reap
    BY <1>1, <1>2, <1>3, <1>4 DEF StateOf, Promise!Reap
  <2> QED  BY <2>1 DEF Moves
<1> QED  BY <1>5, MovesTogether

-----------------------------------------------------------------------------
(* Rows of uploads are inserted, aged and deleted.                         *)

\* Only the rows change: the other sets of keys are what they were.
LEMMA RowsOnly ==
  ASSUME tg' = tg, lastId' = lastId, files' = files
  PROVE  TgKeys' = TgKeys /\ Owned' = Owned /\ Doomed' = Doomed
BY DEF TgKeys, Owned, Doomed, Active, Pending

LEMMA InsertMoves ==
  ASSUME IInv, Recorded, LifeTypeOK', NEW s \in staging, StageInsert(s)
  PROVE  Promise!Next \/ UNCHANGED Life
<1> DEFINE q == KeyOf(s)
<1>1. TgKeys' = TgKeys /\ Owned' = Owned /\ Doomed' = Doomed
  BY RowsOnly DEF StageInsert
<1>2. Staged' = Staged \cup {q} /\ Expired' = Expired
  <2> DEFINE row == [chan |-> s.chan, id |-> s.id, up |-> s.up, no |-> s.no, stale |-> FALSE]
  <2>1. KeyOf(row) = q /\ ~row.stale /\ uploads' = uploads \cup {row}
    BY DEF StageInsert, KeyOf
  <2> HIDE DEF row, q
  <2> QED  BY <2>1 DEF Staged, Expired
<1>3. q \in TgKeys /\ q \notin Owned \cup Doomed
  <2>1. q \in LiveKeys
    BY DEF LiveKeys, LiveIn, KeysOf
  <2>2. \A f \in files : q \notin Refs(f)
    BY DEF IInv, Exclusive, ExclusiveIn, Off
  <2> QED  BY <2>1, <2>2 DEF IInv, Present, Owned, Doomed, RefsOf, Active, Pending
<1>4. q \notin Expired \cup Staged
  BY DEF IInv, Exclusive, ExclusiveIn, Expired, Staged
<1> HIDE DEF q
<1>5. lastId' = lastId
  BY DEF StageInsert
<1>6. \A p \in Parts \ {q} : StateOf(p)' = StateOf(p)
  BY <1>1, <1>2, <1>5 DEF StateOf
<1>7. StateOf(q)' = StateOf(q) \/ <<StateOf(q), StateOf(q)'>> = <<"loose", "staged">>
  BY <1>1, <1>2, <1>3, <1>4, <1>5 DEF StateOf
<1>8. Moves(Promise!Stage)
  BY <1>6, <1>7 DEF Moves, Promise!Stage
<1> QED  BY <1>6, <1>8, MovesAlone

LEMMA AgeMoves ==
  ASSUME IInv, Recorded, LifeTypeOK', NEW row \in uploads, Age(row)
  PROVE  Promise!Next \/ UNCHANGED Life
<1> DEFINE q == KeyOf(row)
           old == [row EXCEPT !.stale = TRUE]
<1>1. TgKeys' = TgKeys /\ Owned' = Owned /\ Doomed' = Doomed /\ lastId' = lastId
  BY RowsOnly DEF Age
<1>2. KeyOf(old) = q /\ old.stale /\ ~row.stale /\ uploads' = (uploads \ {row}) \cup {old}
  BY DEF IInv, TypeOK, Row, Age, KeyOf
<1>3. \A x \in uploads \ {row} : KeyOf(x) # q
  BY DEF Recorded
<1> HIDE DEF q, old
<1>4. Staged' = Staged \ {q} /\ Expired' = Expired \cup {q} /\ q \in Staged /\ q \notin Expired
  <2>1. KeyOf(row) = q
    BY DEF q
  <2> QED  BY <1>2, <1>3, <2>1 DEF Staged, Expired
<1>5. \A p \in Parts \ {q} : StateOf(p)' = StateOf(p)
  BY <1>1, <1>4 DEF StateOf
<1>6. StateOf(q)' = StateOf(q) \/ <<StateOf(q), StateOf(q)'>> = <<"staged", "expired">>
  BY <1>1, <1>4 DEF StateOf
<1>7. Moves(Promise!Expire)
  BY <1>5, <1>6 DEF Moves, Promise!Expire
<1> QED  BY <1>5, <1>7, MovesAlone

\* Rows of an upload, or of messages that a job deleted, go.
LEMMA ForgetRowsMoves ==
  ASSUME IInv, Recorded, LifeTypeOK', uploads' \subseteq uploads,
         tg' = tg, lastId' = lastId, files' = files
  PROVE  Promise!Next
<1>1. TgKeys' = TgKeys /\ Owned' = Owned /\ Doomed' = Doomed
  BY RowsOnly
<1>2. Staged' \subseteq Staged /\ Expired' \subseteq Expired
  BY DEF Staged, Expired
<1>3. Staged \cap Expired = {}
  BY HoldersApart
<1>4. Moves(Promise!Forget)
  <2>1. ASSUME NEW p \in Parts
        PROVE  StateOf(p)' = StateOf(p) \/ <<StateOf(p), StateOf(p)'>> \in Promise!Forget
    BY <1>1, <1>2, <1>3 DEF StateOf, Promise!Forget
  <2> QED  BY <2>1 DEF Moves
<1> QED  BY <1>4, MovesTogether

-----------------------------------------------------------------------------
(* Files are created, filled, deleted and replaced.                        *)

\* The parts of the upload of k become those of g, which replaces the files D
\* (none, or the one with its id) and has their status.
LEMMA CommitMoves ==
  ASSUME IInv, Recorded, LifeTypeOK', NEW k \in creates \cup updates,
         NEW g, Refs(g) = Refs(k), g.status \in {"active", "pending_deletion"},
         NEW D, D \subseteq files, \A f \in D : f.status = g.status,
         D = {} => g.status = "active",
         files' = (files \ D) \cup {g},
         uploads' = uploads \ RowsOf(k.up), UNCHANGED <<tg, lastId>>
  PROVE  Promise!Next
<1> DEFINE K == Refs(k)
<1>1. TgKeys' = TgKeys /\ lastId' = lastId
  BY DEF TgKeys
<1>2. K = KeysOf(RowsOf(k.up))
  BY DEF IInv, InFlight, Recorded
<1>3. \A row \in RowsOf(k.up) : ~row.stale
  BY DEF IInv, InFlight, Phases, RowsOf
<1>4. K \subseteq TgKeys
  <2>1. K \subseteq LiveKeys
    BY <1>2 DEF IInv, InFlight, LiveKeys, LiveIn, RowsOf, KeysOf
  <2> QED  BY <2>1 DEF IInv, Present
<1>5. K \subseteq Staged /\ Staged' = Staged \ K /\ Expired' = Expired
  <2>1. \A x \in uploads : KeyOf(x) \in K <=> x \in RowsOf(k.up)
    BY <1>2 DEF Recorded, RowsOf, KeysOf
  <2>2. \A row \in RowsOf(k.up) : row \in uploads /\ ~row.stale
    BY <1>3 DEF RowsOf
  <2> HIDE DEF K
  <2>3. K = {KeyOf(row) : row \in RowsOf(k.up)}
    BY <1>2 DEF KeysOf
  <2> QED  BY <2>1, <2>2, <2>3 DEF Staged, Expired
<1> DEFINE O == RefsOf(D)
<1>6. /\ g.status = "active" => /\ Owned' = (Owned \ O) \cup K /\ O \subseteq Owned
                               /\ Doomed' = Doomed
      /\ g.status # "active" => /\ Doomed' = (Doomed \ O) \cup K /\ O \subseteq Doomed
                               /\ Owned' = Owned
  <2>1. \A f, h \in files : f # h => Refs(f) \cap Refs(h) = {}
    BY DEF IInv, Exclusive, ExclusiveIn
  <2>2. RefsOf(Active \ D) = Owned \ RefsOf(D \cap Active)
    BY <2>1 DEF Owned, RefsOf, Active
  <2>3. RefsOf(Pending \ D) = Doomed \ RefsOf(D \cap Pending)
    BY <2>1 DEF Doomed, RefsOf, Pending
  <2>4. CASE g.status = "active"
    <3>1. Active' = (Active \ D) \cup {g} /\ Pending' = Pending /\ D \cap Active = D
      BY <2>4 DEF Active, Pending
    <3>2. RefsOf((Active \ D) \cup {g}) = RefsOf(Active \ D) \cup K
      BY DEF RefsOf
    <3>3. O \subseteq Owned
      BY <3>1 DEF RefsOf, Owned
    <3> QED  BY <2>4, <2>2, <3>1, <3>2, <3>3 DEF Owned, Doomed
  <2>5. CASE g.status = "pending_deletion"
    <3>1. Pending' = (Pending \ D) \cup {g} /\ Active' = Active /\ D \cap Pending = D
      BY <2>5 DEF Active, Pending
    <3>2. RefsOf((Pending \ D) \cup {g}) = RefsOf(Pending \ D) \cup K
      BY DEF RefsOf
    <3>3. O \subseteq Doomed
      BY <3>1 DEF RefsOf, Doomed
    <3> QED  BY <2>5, <2>3, <3>1, <3>2, <3>3 DEF Owned, Doomed
  <2> QED  BY <2>4, <2>5
<1>7. /\ Owned \subseteq TgKeys /\ Owned \cap Doomed = {} /\ Staged \cap Expired = {}
      /\ (Owned \cup Doomed) \cap (Staged \cup Expired) = {}
  BY HoldersApart
<1> HIDE DEF K, O
<1>8. CASE g.status = "active"
  <2>1. ASSUME NEW p \in Parts
        PROVE  StateOf(p)' = StateOf(p) \/ <<StateOf(p), StateOf(p)'>> \in Promise!Adopt
    BY <1>1, <1>4, <1>5, <1>6, <1>7, <1>8 DEF StateOf, Promise!Adopt
  <2> QED  BY <2>1, MovesTogether DEF Moves
<1>9. CASE g.status # "active"
  <2>1. ASSUME NEW p \in Parts
        PROVE  StateOf(p)' = StateOf(p) \/ <<StateOf(p), StateOf(p)'>> \in Promise!Bury
    BY <1>1, <1>4, <1>5, <1>6, <1>7, <1>9 DEF StateOf, Promise!Bury
  <2> QED  BY <2>1, MovesTogether DEF Moves
<1> QED  BY <1>8, <1>9

\* Only the files change.
LEMMA FilesOnly ==
  ASSUME tg' = tg, lastId' = lastId, uploads' = uploads
  PROVE  TgKeys' = TgKeys /\ Staged' = Staged /\ Expired' = Expired
BY DEF TgKeys, Staged, Expired

\* Deleted: by the user, or by check because a part is missing.
LEMMA DoomMoves ==
  ASSUME IInv, Recorded, LifeTypeOK', tg' = tg, lastId' = lastId, uploads' = uploads,
         Owned' \subseteq Owned, Doomed' = Doomed \cup (Owned \ Owned')
  PROVE  Promise!Next
<1>1. TgKeys' = TgKeys /\ Staged' = Staged /\ Expired' = Expired
  BY FilesOnly
<1>2. Owned \subseteq TgKeys
  BY HoldersApart
<1>3. ASSUME NEW p \in Parts
      PROVE  StateOf(p)' = StateOf(p) \/ <<StateOf(p), StateOf(p)'>> \in Promise!Doom
  BY <1>1, <1>2 DEF StateOf, Promise!Doom
<1> QED  BY <1>3, MovesTogether DEF Moves

\* Replaced by a file of the same name, or swept with the deleted files.
LEMMA ForgetFilesMoves ==
  ASSUME IInv, Recorded, LifeTypeOK', tg' = tg, lastId' = lastId, uploads' = uploads,
         Owned' \subseteq Owned, Doomed' \subseteq Doomed
  PROVE  Promise!Next
<1>1. TgKeys' = TgKeys /\ Staged' = Staged /\ Expired' = Expired
  BY FilesOnly
<1>2. /\ Owned \subseteq TgKeys /\ Owned \cap Doomed = {}
      /\ (Owned \cup Doomed) \cap (Staged \cup Expired) = {}
  BY HoldersApart
<1>3. ASSUME NEW p \in Parts
      PROVE  StateOf(p)' = StateOf(p) \/ <<StateOf(p), StateOf(p)'>> \in Promise!Forget
  BY <1>1, <1>2 DEF StateOf, Promise!Forget
<1> QED  BY <1>3, MovesTogether DEF Moves

LEMMA CopyCommitMoves ==
  ASSUME IInv, Recorded, LifeTypeOK', NEW k \in copies, CopyCommit(k)
  PROVE  Promise!Next
<1> DEFINE K == Refs(k)
           g == [fid |-> lastFid + 1, name |-> k.name, status |-> "active", chan |-> k.chan,
                 parts |-> k.parts, src |-> k.src, via |-> "copy"]
<1>1. TgKeys' = TgKeys /\ Staged' = Staged /\ Expired' = Expired /\ lastId' = lastId
  BY FilesOnly DEF CopyCommit
<1>2. g.status = "active" /\ Refs(g) = K
  BY DEF Refs
<1>3. files' = files \cup {g}
  BY DEF CopyCommit
<1>4. K \subseteq TgKeys
  BY DEF IInv, Present, LiveKeys, LiveIn, RefsOf
<1>5. K \cap (Owned \cup Doomed) = {}
  BY DEF IInv, Exclusive, ExclusiveIn, Apart, Owned, Doomed, RefsOf, Active, Pending
<1>6. K \cap (Staged \cup Expired) = {}
  BY DEF IInv, Exclusive, ExclusiveIn, Off, Staged, Expired
<1> HIDE DEF K, g
<1>7. Owned' = Owned \cup K /\ Doomed' = Doomed
  BY <1>2, <1>3 DEF Owned, Doomed, RefsOf, Active, Pending
<1>8. ASSUME NEW p \in Parts
      PROVE  StateOf(p)' = StateOf(p) \/ <<StateOf(p), StateOf(p)'>> \in Promise!Adopt
  BY <1>1, <1>4, <1>5, <1>6, <1>7 DEF StateOf, Promise!Adopt
<1> QED  BY <1>8, MovesTogether DEF Moves

LEMMA FilesMoves ==
  ASSUME IInv, Recorded, LifeTypeOK',
         \/ \E f \in files : DeleteFile(f)
         \/ \E f \in files, n \in Name : MoveFile(f, n)
         \/ PendSweep \/ CheckMark
  PROVE  Promise!Next
<1>1. \A f, h \in files : f # h => Refs(f) \cap Refs(h) = {}
  BY DEF IInv, Exclusive, ExclusiveIn
<1>2. ASSUME NEW f \in files, DeleteFile(f) PROVE Promise!Next
  <2> DEFINE g == [f EXCEPT !.status = "pending_deletion"]
  <2>1. g.status = "pending_deletion" /\ Refs(g) = Refs(f) /\ f.status = "active"
    BY <1>2 DEF DeleteFile, IInv, TypeOK, File, Refs
  <2>2. files' = (files \ {f}) \cup {g}
    BY <1>2 DEF DeleteFile
  <2> HIDE DEF g
  <2>3. Owned' = Owned \ Refs(f)
    BY <1>1, <2>1, <2>2 DEF Owned, RefsOf, Active
  <2>4. Doomed' = Doomed \cup Refs(f)
    BY <2>1, <2>2 DEF Doomed, RefsOf, Pending
  <2>5. Refs(f) \subseteq Owned
    BY <2>1 DEF Owned, RefsOf, Active
  <2> QED  BY <1>2, <2>3, <2>4, <2>5, DoomMoves DEF DeleteFile
<1>3. ASSUME NEW f \in files, NEW n \in Name, MoveFile(f, n) PROVE Promise!Next
  <2> DEFINE g == [f EXCEPT !.name = n]
  <2>1. g.status = f.status /\ Refs(g) = Refs(f) /\ f.status = "active"
    BY <1>3 DEF MoveFile, IInv, TypeOK, File, Refs
  <2>2. files' \subseteq files \cup {g}
    BY <1>3 DEF MoveFile
  <2> HIDE DEF g
  <2>3. Owned' \subseteq Owned /\ Doomed' \subseteq Doomed
    BY <2>1, <2>2 DEF Owned, Doomed, RefsOf, Active, Pending
  <2> QED  BY <1>3, <2>3, ForgetFilesMoves DEF MoveFile
<1>4. CASE PendSweep
  <2>1. Owned' \subseteq Owned /\ Doomed' \subseteq Doomed
    BY <1>4 DEF PendSweep, Swept, Owned, Doomed, RefsOf, Active, Pending
  <2> QED  BY <1>4, <2>1, ForgetFilesMoves DEF PendSweep
<1>5. CASE CheckMark
  <2> DEFINE Marked(f) == IF f.fid \in chk.missing THEN [f EXCEPT !.status = "pending_deletion"]
                                                   ELSE f
  <2>1. files' = {Marked(f) : f \in files}
    BY <1>5 DEF CheckMark
  <2>2. \A f \in files :
          /\ Refs(Marked(f)) = Refs(f)
          /\ f.status = "pending_deletion" => Marked(f).status = "pending_deletion"
          /\ Marked(f).status \in {f.status, "pending_deletion"}
          /\ f.status \in {"active", "pending_deletion"}
    BY DEF IInv, TypeOK, File, Refs
  <2> HIDE DEF Marked
  <2>3. Owned' \subseteq Owned
    BY <2>1, <2>2 DEF Owned, RefsOf, Active
  <2>4. Doomed \subseteq Doomed' /\ Owned \subseteq Owned' \cup Doomed'
    BY <2>1, <2>2 DEF Owned, Doomed, RefsOf, Active, Pending
  <2>5. Doomed' \subseteq Doomed \cup Owned
    BY <2>1, <2>2 DEF Owned, Doomed, RefsOf, Active, Pending
  <2>6. Doomed' \cap Owned' = {}
    BY <1>1, <2>1, <2>2 DEF Owned, Doomed, RefsOf, Active, Pending
  <2> QED  BY <1>5, <2>3, <2>4, <2>5, <2>6, DoomMoves DEF CheckMark
<1> QED  BY <1>2, <1>3, <1>4, <1>5

-----------------------------------------------------------------------------
(* Every step of the store is a step of PartLife.                          *)

LEMMA RequestMoves ==
  ASSUME Disciplined, IInv, Recorded, LifeTypeOK', Requests
  PROVE  Promise!Next \/ UNCHANGED Life
<1>1. ASSUME NEW r \in Req, NEW u \in Upload, NEW n \in PartNo, StageUpload(r, u, n)
      PROVE  Promise!Next \/ UNCHANGED Life
  <2>1. PICK c \in Channel : c = Resolved(u)
    BY HomeAssumption DEF Resolved, IInv, TypeOK
  <2>2. PICK i : i = lastId[c] + 1
    OBVIOUS
  <2>3. /\ tg' = tg \cup {[chan |-> c, id |-> i, up |-> u, no |-> n]}
        /\ lastId' = [lastId EXCEPT ![c] = i] /\ uploads' = uploads /\ files' = files
    BY <1>1, <2>1, <2>2 DEF StageUpload
  <2>4. TgKeys' = TgKeys \cup {<<c, i>>}
    <3>1. PICK m : m = [chan |-> c, id |-> i, up |-> u, no |-> n]
      OBVIOUS
    <3>2. KeyOf(m) = <<c, i>> /\ tg' = tg \cup {m}
      BY <2>3, <3>1 DEF KeyOf
    <3> QED  BY <3>2, SendKey
  <2> QED  BY <2>2, <2>3, <2>4, SendMoves
<1>2. ASSUME NEW s \in staging, StageInsert(s) PROVE Promise!Next \/ UNCHANGED Life
  BY <1>2, InsertMoves
<1>3. ASSUME NEW s \in staging, StageFail(s) PROVE Promise!Next \/ UNCHANGED Life
  BY <1>3, NoMove DEF StageFail, store
<1>4. ASSUME NEW u \in Upload, UploadsDelete(u) PROVE Promise!Next \/ UNCHANGED Life
  BY <1>4, ForgetRowsMoves DEF UploadsDelete, WithoutRows
<1>5. ASSUME NEW r \in Req, NEW u \in Upload, NEW via \in {"rows", "parts"},
             CreateRead(r, u, via)
      PROVE  Promise!Next \/ UNCHANGED Life
  BY <1>5, NoMove DEF CreateRead, store
<1>6. ASSUME NEW k \in creates, CreateCommit(k) PROVE Promise!Next \/ UNCHANGED Life
  <2>1. uploads' = uploads \ RowsOf(k.up) /\ UNCHANGED <<tg, lastId>>
    BY <1>6 DEF CreateCommit, WithoutRows, IInv, InFlight
  <2> DEFINE Replaces == \E D, g : /\ Refs(g) = Refs(k) /\ g.status = "active"
                                   /\ D \subseteq files /\ \A f \in D : f.status = g.status
                                   /\ files' = (files \ D) \cup {g}
  <2>2. Replaces
    <3>1. CASE files' = files \cup {[fid |-> lastFid + 1, name |-> k.name, status |-> "active",
                                     chan |-> k.chan, parts |-> k.parts,
                                     src |-> k.up, via |-> k.via]}
      <4>1. PICK g : g = [fid |-> lastFid + 1, name |-> k.name, status |-> "active",
                          chan |-> k.chan, parts |-> k.parts, src |-> k.up, via |-> k.via]
        OBVIOUS
      <4>2. Refs(g) = Refs(k) /\ g.status = "active"
        BY <4>1 DEF Refs
      <4>3. files' = (files \ {}) \cup {g}
        BY <3>1, <4>1
      <4> QED  BY <4>2, <4>3
    <3>2. ASSUME NEW f \in Active,
                 files' = (files \ {f}) \cup {Filled(f, k.chan, k.parts, k.up, k.via)}
          PROVE  Replaces
      <4>1. PICK g : g = Filled(f, k.chan, k.parts, k.up, k.via)
        OBVIOUS
      <4>2. Refs(g) = Refs(k) /\ g.status = "active" /\ f.status = "active" /\ {f} \subseteq files
        BY <4>1 DEF Refs, Filled, Active
      <4>3. files' = (files \ {f}) \cup {g}
        BY <3>2, <4>1
      <4> QED  BY <4>2, <4>3
    <3> QED  BY <1>6, <3>1, <3>2 DEF CreateCommit
  <2>3. PICK D, g : /\ Refs(g) = Refs(k) /\ g.status = "active"
                    /\ D \subseteq files /\ \A f \in D : f.status = g.status
                    /\ files' = (files \ D) \cup {g}
    BY <2>2
  <2>4. k \in creates \cup updates /\ g.status \in {"active", "pending_deletion"}
    BY <2>3
  <2> HIDE <2>2
  <2> QED  BY <2>1, <2>3, <2>4, CommitMoves
<1>7. ASSUME NEW k \in creates, CreateFail(k) PROVE Promise!Next \/ UNCHANGED Life
  BY <1>7, NoMove DEF CreateFail, store
<1>8. ASSUME NEW r \in Req, NEW u \in Upload, UpdateRead(r, u)
      PROVE  Promise!Next \/ UNCHANGED Life
  BY <1>8, NoMove DEF UpdateRead, store
<1>9. ASSUME NEW k \in updates, UpdateCommit(k) PROVE Promise!Next \/ UNCHANGED Life
  <2>1. uploads' = uploads \ RowsOf(k.up) /\ UNCHANGED <<tg, lastId>>
    BY <1>9 DEF UpdateCommit, WithoutRows
  <2>2. k.chan # NoChan /\ k.parts # <<>>
    BY HomeAssumption DEF IInv, InFlight, TypeOK, Update
  <2>3. PICK f \in files : files' = (files \ {f}) \cup {Filled(f, k.chan, k.parts, k.up, "rows")}
    BY <1>9, <2>2 DEF UpdateCommit, ChannelOf
  <2>4. PICK g : g = Filled(f, k.chan, k.parts, k.up, "rows")
    OBVIOUS
  <2>5. Refs(g) = Refs(k) /\ g.status = f.status /\ f.status \in {"active", "pending_deletion"}
    BY <2>4 DEF Refs, Filled, IInv, TypeOK, File
  <2>6. PICK D : D = {f}
    OBVIOUS
  <2>7. files' = (files \ D) \cup {g} /\ D \subseteq files /\ D # {}
    BY <2>3, <2>4, <2>6
  <2>8. (\A h \in D : h.status = g.status) /\ k \in creates \cup updates
    BY <2>5, <2>6
  <2> QED  BY <2>1, <2>5, <2>7, <2>8, CommitMoves
<1>10. ASSUME NEW k \in updates, UpdateFail(k) PROVE Promise!Next \/ UNCHANGED Life
  BY <1>10, NoMove DEF UpdateFail, store
<1>11. ASSUME NEW r \in Req, NEW f \in files, NEW n \in Name, CopyRead(r, f, n)
       PROVE  Promise!Next \/ UNCHANGED Life
  BY <1>11, NoMove DEF CopyRead, store
<1>12. ASSUME NEW k \in copies, CopyFetch(k) \/ CopySkip(k) \/ CopyFail(k)
       PROVE  Promise!Next \/ UNCHANGED Life
  BY <1>12, NoMove DEF CopyFetch, CopySkip, CopyFail, store
<1>13. ASSUME NEW k \in copies, CopyPart(k) PROVE Promise!Next \/ UNCHANGED Life
  <2>1. k \in Copy
    BY DEF IInv, TypeOK
  <2>2. PICK c \in Channel : c = k.chan
    BY <2>1 DEF Copy
  <2>3. PICK i : i = lastId[c] + 1
    OBVIOUS
  <2>4. lastId' = [lastId EXCEPT ![c] = i] /\ uploads' = uploads /\ files' = files
    BY <1>13, <2>2, <2>3 DEF CopyPart
  <2>5. PICK m \in Head(k.docs) : tg' = tg \cup {[m EXCEPT !.chan = c, !.id = i]}
    BY <1>13, <2>2, <2>3 DEF CopyPart
  <2>6. m \in Message
    BY <1>13, <2>1, <2>5 DEF CopyPart, Copy
  <2>7. TgKeys' = TgKeys \cup {<<c, i>>}
    <3>1. KeyOf([m EXCEPT !.chan = c, !.id = i]) = <<c, i>>
      BY <2>6 DEF KeyOf, Message
    <3> QED  BY <2>5, <3>1, SendKey
  <2> QED  BY <2>3, <2>4, <2>7, SendMoves
<1>14. ASSUME NEW k \in copies, CopyCommit(k) PROVE Promise!Next \/ UNCHANGED Life
  BY <1>14, CopyCommitMoves
<1>15. ASSUME NEW f \in files, DeleteFile(f) PROVE Promise!Next \/ UNCHANGED Life
  BY <1>15, FilesMoves
<1>16. ASSUME NEW f \in files, NEW n \in Name, MoveFile(f, n) PROVE Promise!Next \/ UNCHANGED Life
  BY <1>16, FilesMoves
<1> QED  BY <1>1, <1>2, <1>3, <1>4, <1>5, <1>6, <1>7, <1>8, <1>9, <1>10, <1>11, <1>12, <1>13,
            <1>14, <1>15, <1>16 DEF Requests

LEMMA JobMoves ==
  ASSUME IInv, Recorded, LifeTypeOK', StaleJob \/ PendJob \/ Check
  PROVE  Promise!Next \/ UNCHANGED Life
<1>1. ASSUME NEW c \in Channel, StaleDelete(c) PROVE Promise!Next
  <2>1. PICK o \in DeleteOutcomes(Group(stale.todo, c)) : tg' = Surviving(o.gone)
    BY <1>1 DEF StaleDelete
  <2>2. o.gone \subseteq DoomedKeys
    BY <2>1 DEF DeleteOutcomes, Group, DoomedKeys
  <2> QED  BY <1>1, <2>1, <2>2, ReapMoves DEF StaleDelete
<1>2. ASSUME NEW c \in Channel, PendDelete(c) PROVE Promise!Next
  <2>1. PICK o \in DeleteOutcomes(Group(pend.todo, c)) : tg' = Surviving(o.gone)
    BY <1>2 DEF PendDelete
  <2>2. o.gone \subseteq DoomedKeys
    BY <2>1 DEF DeleteOutcomes, Group, DoomedKeys
  <2> QED  BY <1>2, <2>1, <2>2, ReapMoves DEF PendDelete
<1>3. CASE CheckPurge
  <2>1. PICK o \in DeleteOutcomes(chk.orphans) : tg' = Surviving(o.gone)
    BY <1>3 DEF CheckPurge
  <2>2. o.gone \subseteq DoomedKeys
    BY <2>1 DEF DeleteOutcomes, DoomedKeys
  <2> QED  BY <1>3, <2>1, <2>2, ReapMoves DEF CheckPurge
<1>4. CASE StaleRows
  BY <1>4, ForgetRowsMoves DEF StaleRows, WithoutParts
<1>5. CASE PendSweep \/ CheckMark
  BY <1>5, FilesMoves
<1>6. CASE StaleList \/ StaleCrash
  BY <1>6, NoMove DEF StaleList, StaleCrash, store
<1>7. CASE PendList \/ PendCrash
  BY <1>7, NoMove DEF PendList, PendCrash, store
<1>8. CASE (\E c \in Channel : CheckFiles(c)) \/ CheckMessages \/ CheckUploads \/ CheckCrash
  BY <1>8, NoMove DEF CheckFiles, CheckMessages, CheckUploads, CheckCrash, store
<1> QED  BY <1>1, <1>2, <1>3, <1>4, <1>5, <1>6, <1>7, <1>8 DEF StaleJob, PendJob, Check

LEMMA StepMoves ==
  ASSUME Disciplined, IInv, Recorded, LifeTypeOK', [Next]_vars
  PROVE  Promise!Next \/ UNCHANGED Life
<1>1. CASE Environment
  <2>1. ASSUME NEW row \in uploads, Age(row) PROVE Promise!Next \/ UNCHANGED Life
    BY <2>1, AgeMoves
  <2>2. CASE (\E u \in Upload : Abandon(u)) \/ (\E c \in Channel : SelectChannel(c)) \/ LogInOut
    BY <2>2, NoMove DEF Abandon, SelectChannel, LogInOut, store
  <2> QED  BY <1>1, <2>1, <2>2 DEF Environment
<1>2. CASE UNCHANGED vars
  BY <1>2, NoMove DEF vars, store
<1> QED  BY <1>1, <1>2, RequestMoves, JobMoves DEF Next

-----------------------------------------------------------------------------
(* Recorded is inductive, given IInv.                                      *)

\* The handlers read every row of an upload, once (GetByUploadID): an ordering
\* of the rows, as long as there are rows, leaves none out.
LEMMA AllRowsRead ==
  ASSUME TypeInv, NEW u \in Upload, NEW s \in PartOrders(RowsOf(u))
  PROVE  \A row \in RowsOf(u) : \E i \in DOMAIN Ids(s) : Ids(s)[i] = row.id
<1> DEFINE R == RowsOf(u)
           n == Cardinality(R)
<1>1. IsFiniteSet(R)
  BY FS_Subset DEF TypeInv, RowsOf
<1>2. n \in Nat
  BY <1>1, FS_CardinalityType
<1>3. s \in [1..n -> R] /\ \A i, j \in 1..n : i < j => s[i] # s[j]
  BY DEF PartOrders
<1>4. s \in Injection(1..n, R)
  <2>1. \A i, j \in 1..n : s[i] = s[j] => i = j
    BY <1>2, <1>3
  <2> QED  BY <1>3, <2>1 DEF Injection, IsInjective
<1>5. Cardinality(1..n) = n
  BY <1>2, FS_Interval
<1>6. s \in Surjection(1..n, R)
  <2> HIDE DEF R
  <2>1. Cardinality(1..n) = Cardinality(R)
    BY <1>5
  <2> QED  BY <1>1, <1>4, <2>1, FS_Injection
<1>7. \A row \in R : \E i \in 1..n : s[i] = row
  BY <1>6 DEF Surjection
<1> QED  BY <1>3, <1>7 DEF Ids

\* Steps that remove rows, end requests and drop what a job is to delete.
LEMMA RecordedKept ==
  ASSUME Recorded, uploads' \subseteq uploads,
         creates' \subseteq creates, updates' \subseteq updates,
         stale'.todo \subseteq stale.todo, pend'.todo \subseteq pend.todo,
         chk'.orphans \subseteq chk.orphans
  PROVE  Recorded'
BY DEF Recorded, KeysOf, RowsOf

LEMMA RecordedRequests == ASSUME Disciplined, IInv, Recorded, Requests PROVE Recorded'
<1>1. ASSUME NEW s \in staging, StageInsert(s) PROVE Recorded'
  <2> DEFINE new == [chan |-> s.chan, id |-> s.id, up |-> s.up, no |-> s.no, stale |-> FALSE]
  <2>1. /\ uploads' = uploads \cup {new} /\ KeyOf(new) = KeyOf(s) /\ new.up = s.up
        /\ UNCHANGED <<creates, updates, stale, pend, chk>>
    BY <1>1 DEF StageInsert, KeyOf, jobs
  <2>2. \A x \in uploads : KeyOf(x) # KeyOf(s)
    BY DEF IInv, Exclusive, ExclusiveIn
  <2>3. KeyOf(s) \notin DoomedKeys
    BY DEF IInv, DoomedNotLive, LiveKeys, LiveIn, KeysOf
  <2>4. \A k \in creates \cup updates : k.up # s.up
    BY DEF IInv, InFlight, Phases
  <2> HIDE DEF new
  <2>5. \A k \in creates \cup updates : RowsOf(k.up)' = RowsOf(k.up)
    BY <2>1, <2>4 DEF RowsOf
  <2> QED  BY <2>1, <2>2, <2>3, <2>5 DEF Recorded, DoomedKeys
<1>2. ASSUME NEW r \in Req, NEW u \in Upload, NEW via \in {"rows", "parts"},
             CreateRead(r, u, via)
      PROVE  Recorded'
  <2>1. PICK s \in PartOrders(RowsOf(u)) :
          creates' = creates \cup {[r |-> r, up |-> u, name |-> Title[u], chan |-> Resolved(u),
                                    parts |-> Ids(s), via |-> via]}
    BY <1>2 DEF CreateRead
  <2>2. PICK k : k = [r |-> r, up |-> u, name |-> Title[u], chan |-> Resolved(u),
                      parts |-> Ids(s), via |-> via]
    OBVIOUS
  <2>3. k.up = u /\ Refs(k) = {<<Home[u], Ids(s)[i]>> : i \in DOMAIN Ids(s)}
    BY <2>2 DEF Refs, Disciplined, Resolved
  <2>4. KeysOf(RowsOf(k.up)) \subseteq Refs(k)
    <3>1. \A row \in RowsOf(u) : KeyOf(row) = <<Home[u], row.id>>
      BY DEF IInv, Phases, RowsOf, KeyOf
    <3> QED  BY <2>3, <3>1, AllRowsRead DEF KeysOf, IInv, TypeInv
  <2>5. creates' = creates \cup {k} /\ UNCHANGED <<uploads, updates, stale, pend, chk>>
    BY <1>2, <2>1, <2>2 DEF CreateRead, store, jobs
  <2> QED  BY <2>4, <2>5 DEF Recorded, RowsOf
<1>3. ASSUME NEW r \in Req, NEW u \in Upload, UpdateRead(r, u) PROVE Recorded'
  <2>1. PICK s \in PartOrders(RowsOf(u)) :
          updates' = updates \cup {[r |-> r, up |-> u, fid |-> Target[u], parts |-> Ids(s),
                        chan |-> IF "default" \in Liberty THEN NoChan ELSE Home[u]]}
    BY <1>3 DEF UpdateRead
  <2>2. PICK k : k = [r |-> r, up |-> u, fid |-> Target[u], parts |-> Ids(s),
                      chan |-> IF "default" \in Liberty THEN NoChan ELSE Home[u]]
    OBVIOUS
  <2>3. k.up = u /\ Refs(k) = {<<Home[u], Ids(s)[i]>> : i \in DOMAIN Ids(s)}
    BY <2>2 DEF Refs, Disciplined
  <2>4. KeysOf(RowsOf(k.up)) \subseteq Refs(k)
    <3>1. \A row \in RowsOf(u) : KeyOf(row) = <<Home[u], row.id>>
      BY DEF IInv, Phases, RowsOf, KeyOf
    <3> QED  BY <2>3, <3>1, AllRowsRead DEF KeysOf, IInv, TypeInv
  <2>5. updates' = updates \cup {k} /\ UNCHANGED <<uploads, creates, stale, pend, chk>>
    BY <1>3, <2>1, <2>2 DEF UpdateRead, store, jobs
  <2> QED  BY <2>4, <2>5 DEF Recorded, RowsOf
<1>4. CASE \/ \E r \in Req, u \in Upload, n \in PartNo : StageUpload(r, u, n)
           \/ \E s \in staging : StageFail(s)
           \/ \E u \in Upload : UploadsDelete(u)
  BY <1>4, RecordedKept DEF StageUpload, StageFail, UploadsDelete, WithoutRows, store, reqs, jobs
<1>5. CASE \/ \E k \in creates : CreateCommit(k) \/ CreateFail(k)
           \/ \E k \in updates : UpdateCommit(k) \/ UpdateFail(k)
  <2>1. /\ uploads' \subseteq uploads /\ creates' \subseteq creates /\ updates' \subseteq updates
        /\ UNCHANGED <<stale, pend, chk>>
    BY <1>5 DEF CreateCommit, CreateFail, UpdateCommit, UpdateFail, WithoutRows, store, jobs
  <2> QED  BY <2>1, RecordedKept
<1>6. CASE \/ \E r \in Req, f \in files, n \in Name : CopyRead(r, f, n)
           \/ \E k \in copies : \/ CopyFetch(k) \/ CopyPart(k) \/ CopySkip(k)
                                \/ CopyCommit(k) \/ CopyFail(k)
           \/ \E f \in files : DeleteFile(f)
           \/ \E f \in files, n \in Name : MoveFile(f, n)
  <2>1. UNCHANGED <<uploads, creates, updates, stale, pend, chk>>
    BY <1>6 DEF CopyRead, CopyFetch, CopyPart, CopySkip, CopyCommit, CopyFail, DeleteFile,
         MoveFile, store, reqs, jobs
  <2> QED  BY <2>1, RecordedKept
<1> QED  BY <1>1, <1>2, <1>3, <1>4, <1>5, <1>6 DEF Requests

LEMMA RecordedJobs ==
  ASSUME IInv, Recorded, StaleJob \/ PendJob \/ Check PROVE Recorded'
<1> USE DEF env, reqs, store
<1>1. CASE StaleList
  <2>1. /\ stale'.todo = {KeyOf(row) : row \in {x \in uploads : x.stale}}
        /\ UNCHANGED <<uploads, creates, updates, pend, chk>>
    BY <1>1 DEF StaleList
  <2> QED  BY <2>1 DEF Recorded, RowsOf
<1>2. ASSUME NEW c \in Channel, StaleDelete(c) PROVE Recorded'
  <2>1. PICK o : stale' = IF o.ok THEN [stale EXCEPT !.pc = "rows", !.group = Group(stale.todo, c)]
                                  ELSE StaleIdle
    BY <1>2 DEF StaleDelete
  <2>2. stale'.todo \subseteq stale.todo /\ UNCHANGED <<uploads, creates, updates, pend, chk>>
    BY <1>2, <2>1 DEF StaleDelete, StaleIdle, IInv, TypeOK
  <2> QED  BY <2>2, RecordedKept
<1>3. CASE StaleRows \/ StaleCrash
  <2>1. /\ uploads' \subseteq uploads /\ stale'.todo \subseteq stale.todo
        /\ UNCHANGED <<creates, updates, pend, chk>>
    BY <1>3 DEF StaleRows, StaleCrash, WithoutParts, StaleIdle
  <2> QED  BY <2>1, RecordedKept
<1>4. CASE PendList
  <2>1. /\ pend'.todo \subseteq RefsOf(Pending)
        /\ UNCHANGED <<uploads, creates, updates, stale, chk>>
    BY <1>4 DEF PendList
  <2>2. \A row \in uploads : KeyOf(row) \notin RefsOf(Pending)
    BY DEF IInv, Exclusive, ExclusiveIn, Off, RefsOf, Pending
  <2> QED  BY <2>1, <2>2 DEF Recorded, RowsOf
<1>5. ASSUME NEW c \in Channel, PendDelete(c) PROVE Recorded'
  <2>1. PICK o : pend' = IF o.ok THEN [pend EXCEPT !.todo = @ \ Group(pend.todo, c)] ELSE PendIdle
    BY <1>5 DEF PendDelete
  <2>2. pend'.todo \subseteq pend.todo /\ UNCHANGED <<uploads, creates, updates, stale, chk>>
    BY <1>5, <2>1 DEF PendDelete, PendIdle, IInv, TypeOK
  <2> QED  BY <2>2, RecordedKept
<1>6. CASE PendSweep \/ PendCrash
  <2>1. pend'.todo = {} /\ UNCHANGED <<uploads, creates, updates, stale, chk>>
    BY <1>6 DEF PendSweep, PendCrash, PendIdle
  <2> QED  BY <2>1, RecordedKept
<1>7. CASE \/ (\E c \in Channel : CheckFiles(c)) \/ CheckMessages \/ CheckMark
           \/ CheckPurge \/ CheckCrash
  <2>1. UNCHANGED <<uploads, creates, updates, stale, pend>>
    BY <1>7 DEF CheckFiles, CheckMessages, CheckMark, CheckPurge, CheckCrash
  <2>2. chk'.orphans \in {{}, chk.orphans}
    <3>1. chk \in [pc : {"idle", "messages", "uploads", "mark", "purge"}, chan : Channel,
                   files : SUBSET File, msgs : SUBSET Nat, missing : SUBSET Nat,
                   orphans : SUBSET Key]
      BY DEF IInv, TypeOK
    <3>2. ASSUME NEW c \in Channel, CheckFiles(c) PROVE chk'.orphans = {}
      BY <3>2 DEF CheckFiles, CheckIdle
    <3>3. CASE CheckPurge \/ CheckCrash
      BY <3>3 DEF CheckPurge, CheckCrash, CheckIdle
    <3>4. CASE CheckMessages
      <4>1. \/ \E x : chk' = [chk EXCEPT !.pc = "uploads", !.msgs = x]
            \/ chk' = CheckIdle(chk.chan)
        BY <3>4 DEF CheckMessages
      <4>2. ASSUME NEW x, chk' = [chk EXCEPT !.pc = "uploads", !.msgs = x]
            PROVE  chk'.orphans = chk.orphans
        BY <3>1, <4>2
      <4>3. CASE chk' = CheckIdle(chk.chan)
        BY <4>3 DEF CheckIdle
      <4> QED  BY <4>1, <4>2, <4>3
    <3>5. CASE CheckMark
      BY <3>1, <3>5 DEF CheckMark
    <3> QED  BY <1>7, <3>2, <3>3, <3>4, <3>5
  <2> QED  BY <2>1, <2>2, RecordedKept
<1>8. CASE CheckUploads
  <2>1. chk'.orphans \subseteq {<<chk.chan, id>> : id \in chk.msgs \ StagedIds(chk.chan)}
    BY <1>8 DEF CheckUploads, IInv, TypeOK
  <2>2. UNCHANGED <<uploads, creates, updates, stale, pend>>
    BY <1>8 DEF CheckUploads
  <2>3. \A row \in uploads : KeyOf(row) \notin chk'.orphans
    <3>1. \A row \in uploads : row.chan = chk.chan => row.id \in StagedIds(chk.chan)
      BY DEF StagedIds
    <3> QED  BY <2>1, <3>1 DEF KeyOf
  <2> QED  BY <2>2, <2>3 DEF Recorded, RowsOf
<1> QED  BY <1>1, <1>2, <1>3, <1>4, <1>5, <1>6, <1>7, <1>8 DEF StaleJob, PendJob, Check

LEMMA RecordedStep == ASSUME Disciplined, IInv, Recorded, [Next]_vars PROVE Recorded'
<1>1. ASSUME NEW row \in uploads, Age(row) PROVE Recorded'
  <2> DEFINE old == [row EXCEPT !.stale = TRUE]
  <2>1. /\ KeyOf(old) = KeyOf(row) /\ old.stale /\ old.up = row.up
        /\ uploads' = (uploads \ {row}) \cup {old}
        /\ UNCHANGED <<creates, updates, stale, pend, chk>>
    BY <1>1 DEF IInv, TypeOK, Row, Age, KeyOf, reqs, jobs
  <2> HIDE DEF old
  <2>2. \A k \in creates \cup updates : KeysOf(RowsOf(k.up)') \subseteq KeysOf(RowsOf(k.up))
    BY <2>1 DEF RowsOf, KeysOf
  <2>3. \A x, y \in uploads' : KeyOf(x) = KeyOf(y) => x = y
    BY <2>1 DEF Recorded
  <2>4. \A x \in uploads' : /\ KeyOf(x) \in stale.todo => x.stale
                            /\ KeyOf(x) \notin pend.todo \cup chk.orphans
    BY <2>1 DEF Recorded
  <2>5. \A k \in creates \cup updates : KeysOf(RowsOf(k.up)') \subseteq Refs(k)
    BY <2>2 DEF Recorded
  <2> QED  BY <2>1, <2>3, <2>4, <2>5 DEF Recorded, KeysOf
<1>2. CASE \/ (\E u \in Upload : Abandon(u)) \/ (\E c \in Channel : SelectChannel(c))
           \/ LogInOut \/ UNCHANGED vars
  <2>1. UNCHANGED <<uploads, creates, updates, stale, pend, chk>>
    BY <1>2 DEF Abandon, SelectChannel, LogInOut, vars, store, reqs, jobs
  <2> QED  BY <2>1, RecordedKept
<1> QED  BY <1>1, <1>2, RecordedRequests, RecordedJobs DEF Next, Environment

LEMMA RecordedInvariant == ASSUME Disciplined PROVE Spec => [](IInv /\ Recorded)
<1>1. Init => IInv /\ Recorded
  BY SafeInit DEF Init, Recorded
<1>2. IInv /\ Recorded /\ [Next]_vars => (IInv /\ Recorded)'
  BY SafeStep, RecordedStep
<1> QED  BY <1>1, <1>2, PTL DEF Spec

-----------------------------------------------------------------------------
\* With clients and operators that keep to the protocol the requests, the two
\* cleaners, check and every interleaving of them keep the promise of PartLife:
\* a part that a file owns is taken out of the channel only after the file gave
\* it up, one that an upload in progress counts on only after that upload was
\* given up, and a message that is gone never comes back (services/file.go,
\* services/upload_staging.go, services/queue_executor.go and cmd/check.go).
THEOREM StoreImplementsPartLife == ASSUME Disciplined PROVE Spec => KeepsPromise
<1>1. Init => Promise!Init
  <2> SUFFICES ASSUME Init PROVE Promise!Init
    OBVIOUS
  <2>1. \A p \in Parts : StateOf(p) = "none"
    BY BoundAssumption DEF Init, StateOf, Parts
  <2> QED  BY <2>1 DEF Promise!Init, Life
<1>2. IInv => LifeTypeOK
  BY LifeType
<1>3. IInv /\ Recorded /\ LifeTypeOK' /\ [Next]_vars => [Promise!Next]_Life
  BY StepMoves
<1> QED  BY <1>1, <1>2, <1>3, RecordedInvariant, PTL DEF Spec, KeepsPromise, Promise!Spec
=============================================================================
