-------------------------- MODULE ContentStoreInv ---------------------------
(***************************************************************************)
(* The inductive invariant behind PartsPresent and OneHolder.  A message   *)
(* is "live" while an active file, a copy in progress, an upload that was  *)
(* not abandoned or a part on its way to the uploads table needs it.  Live *)
(* messages are present (Present), everything has at most one holder       *)
(* (Exclusive), ids are fresh (Fresh), and what a cleaner or check is      *)
(* about to delete is not live (DoomedNotLive).  The rest says what a      *)
(* request in flight still knows to be true of the rows that it read, and  *)
(* what a running check still knows of the files and messages it loaded.   *)
(* Recorded, which the life of every part needs, says the same of the rows.*)
(*                                                                         *)
(* Exclusive and LiveKeys are instances of operators on sets of files F,   *)
(* uploads rows U, parts being staged S and copies C, about which lemmas   *)
(* can be stated without actions.                                          *)
(***************************************************************************)
EXTENDS ContentStoreProps

KeysOf(M) == {KeyOf(m) : m \in M}

LiveIn(F, U, S, C, ph) ==
  RefsOf({f \in F : f.status = "active"}) \cup RefsOf(C)
    \cup KeysOf({row \in U : ph[row.up] # "abandoned"}) \cup KeysOf(S)
LiveKeys   == LiveIn(files, uploads, staging, copies, phase)
DoomedKeys == stale.todo \cup pend.todo \cup chk.orphans
KnownKeys  == TgKeys \cup KeysOf(uploads) \cup KeysOf(staging)
                \cup RefsOf(files) \cup RefsOf(copies) \cup DoomedKeys

Fresh ==
  /\ \A key \in KnownKeys : key[2] <= lastId[key[1]]
  /\ \A f \in files : f.fid <= lastFid

Present == LiveKeys \subseteq TgKeys

Apart(X, Y) == \A x \in X, y \in Y : Refs(x) \cap Refs(y) = {}
Off(X, M)   == \A x \in X, m \in M : KeyOf(m) \notin Refs(x)

ExclusiveIn(F, U, S, C) ==
  /\ \A f, g \in F : f.fid = g.fid => f = g
  /\ \A f, g \in F : f # g => Refs(f) \cap Refs(g) = {}
  /\ Off(F, U) /\ Off(F, S) /\ Apart(F, C)
  /\ \A x, y \in U : KeyOf(x) = KeyOf(y) => x.up = y.up
  /\ \A x \in U, s \in S : KeyOf(x) # KeyOf(s)
  /\ \A s, t \in S : KeyOf(s) = KeyOf(t) => s = t
  /\ Off(C, U) /\ Off(C, S)
  /\ \A k, j \in C : k # j => Refs(k) \cap Refs(j) = {}
Exclusive == ExclusiveIn(files, uploads, staging, copies)

\* Between its read and its commit a request is the only one of its upload,
\* and the rows it read are still there.
InFlight ==
  /\ \A k \in creates \cup updates :
       /\ phase[k.up] = "final" /\ k.chan = Home[k.up] /\ k.parts # <<>>
       /\ Refs(k) \subseteq KeysOf(RowsOf(k.up))
  /\ \A k \in creates : k.via = "rows"
  /\ \A k, j \in creates : k.up = j.up => k = j
  /\ \A k, j \in updates : k.up = j.up => k = j
  /\ \A k \in creates, j \in updates : k.up # j.up

Phases ==
  /\ \A s \in staging : phase[s.up] = "open" /\ s.chan = Home[s.up]
  /\ \A row \in uploads : /\ phase[row.up] # "done" /\ row.chan = Home[row.up]
                          /\ row.stale => phase[row.up] = "abandoned"

DoomedNotLive ==
  /\ DoomedKeys \cap LiveKeys = {}
  /\ stale.group \subseteq stale.todo

Checking ==
  /\ chk.pc # "idle" => Idle
  /\ chk.pc \in {"messages", "uploads"} => chk.files = {f \in Active : f.chan = chk.chan}
  /\ chk.pc = "uploads" => chk.msgs = {m.id : m \in {x \in tg : x.chan = chk.chan}}
  /\ chk.pc \in {"idle", "messages", "uploads"} => chk.orphans = {}

IInv ==
  /\ TypeOK /\ IsFiniteSet(uploads)
  /\ Fresh /\ Present /\ Exclusive /\ InFlight /\ Phases /\ DoomedNotLive /\ Checking

-----------------------------------------------------------------------------
\* A message has one row; a job that is about to delete it has found that row
\* to be stale, or none; a handler in flight has read all rows of its upload.
Recorded ==
  /\ \A x, y \in uploads : KeyOf(x) = KeyOf(y) => x = y
  /\ \A row \in uploads : /\ KeyOf(row) \in stale.todo => row.stale
                          /\ KeyOf(row) \notin pend.todo \cup chk.orphans
  /\ \A k \in creates \cup updates : KeysOf(RowsOf(k.up)) \subseteq Refs(k)

-----------------------------------------------------------------------------
(* What is in the messages: behind Reassembles and NoFalseMissing.  A live *)
(* message is the part of the upload that its holder takes it for.         *)

Holds(key, u, n) == \E m \in tg : KeyOf(m) = key /\ m.up = u /\ m.no = n

\* One message per key; one row, or message on its way, per part of an upload.
Numbering ==
  /\ \A m, x \in tg : KeyOf(m) = KeyOf(x) => m = x
  /\ \A x, y \in uploads : x.up = y.up /\ x.no = y.no => x = y
  /\ \A x \in uploads, s \in staging : x.up = s.up => x.no # s.no
  /\ \A s, t \in staging : s.up = t.up /\ s.no = t.no => s = t

\* The part numbers of the staged messages, the rows and the parts read from them.
StagedHold == \A s \in staging : Holds(KeyOf(s), s.up, s.no)
RowsHold == \A row \in uploads : phase[row.up] # "abandoned" => Holds(KeyOf(row), row.up, row.no)
ReadHold == \A k \in creates \cup updates : \A i \in DOMAIN k.parts :
              Holds(<<k.chan, k.parts[i]>>, k.up, i)
FilesHold == \A f \in Active : f.parts # <<>> /\ Whole(f)

\* A copy knows the messages of its file as long as they are there; the documents
\* still to send are the last ones, and as long as none was passed over the parts
\* sent are the first ones.
CopyHolds(k) ==
  /\ k.ids # <<>>
  /\ k.pc = "fetch" =>
       /\ k.docs = <<>> /\ k.parts = <<>>
       /\ \A i \in DOMAIN k.ids :
            /\ k.ids[i] <= lastId[k.from]
            /\ \A m \in tg : KeyOf(m) = <<k.from, k.ids[i]>> => m.up = k.src /\ m.no = i
  /\ k.pc = "send" =>
       /\ Len(k.parts) + Len(k.docs) <= Len(k.ids)
       /\ \A i \in DOMAIN k.docs : \A m \in k.docs[i] :
            m.up = k.src /\ m.no = Len(k.ids) - Len(k.docs) + i
       /\ Len(k.parts) + Len(k.docs) = Len(k.ids) =>
            \A i \in DOMAIN k.parts : Holds(<<k.chan, k.parts[i]>>, k.src, i)
CopiesHold == \A k \in copies : CopyHolds(k)

\* On an idle server check finds no file incomplete.
NoneMissing == chk.pc = "mark" => chk.missing = {}

Content ==
  Numbering /\ StagedHold /\ RowsHold /\ ReadHold /\ FilesHold /\ CopiesHold /\ NoneMissing

\* What one request is enough to delete is gone once Telegram said so.
Purged ==
  /\ stale.group \cap TgKeys = {}
  /\ pend.listed \cap TgKeys \subseteq pend.todo
  /\ \A key \in pend.listed : key[2] <= lastId[key[1]]

\* All of it: the invariant that is checked and proved.
StoreInv == IInv /\ Recorded /\ Content /\ Purged
=============================================================================
