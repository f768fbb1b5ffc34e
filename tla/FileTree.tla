------------------------------ MODULE FileTree -------------------------------
(***************************************************************************)
(* The folder tree of one user: the files table, with the unique index on  *)
(* (name, parent) among active entries, and the requests that walk and     *)
(* change it.  A request resolves its path name by name, one query each,   *)
(* and only then changes the tree, so others come in between.              *)
(*                                                                         *)
(* Ids are numbers given in order; the root has id 0 and no parent.  Paths *)
(* are sequences of names below the root; no name begins with "root".      *)
(***************************************************************************)
EXTENDS Naturals, Sequences, FiniteSets, FiniteSetsExt

CONSTANTS
  Name,     \* names of entries
  NoName,   \* a move that keeps the name
  Request,  \* requests in progress at a time
  MaxId,    \* bound: entries ever created
  Depth,    \* bound: length of a path in a request
  Before,   \* the drives at the start: sequences of [parent, name, type]
  Changes   \* bound: requests, deletions and purges

ASSUME TreeAssumption ==
  /\ MaxId \in Nat /\ Depth \in Nat /\ Changes \in Nat /\ NoName \notin Name
  /\ \A drive \in Before :
       /\ Len(drive) \in 0..MaxId
       /\ drive \in Seq([parent : 0..Len(drive), name : Name, type : {"folder", "file"}])
       /\ \A i, j \in 1..Len(drive) :
            i # j => drive[i].name # drive[j].name \/ drive[i].parent # drive[j].parent

VARIABLES
  files,    \* files[i]: row of the entry i
  made,     \* entries created so far
  request,  \* request[r]: [op, path, rest, at, name, id, st]
  calm,     \* history: nothing was moved or deleted so far
  left      \* requests, deletions and purges still to come

treeVars == <<files, made, request, calm, left>>

Root   == 0
Nil    == MaxId + 1     \* no parent
NoSize == MaxId + 2     \* NULL
TreeId == 0..MaxId

NoRow == [status |-> "none", type |-> "none", parent |-> Nil, name |-> NoName, size |-> NoSize]
Row(parent, name, type, size) ==
  [status |-> "active", type |-> type, parent |-> parent, name |-> name, size |-> size]
NoRequest == [op |-> "none", path |-> <<>>, rest |-> <<>>, at |-> Root, name |-> NoName,
              id |-> Root, st |-> "free"]

-----------------------------------------------------------------------------
(* Lookups.  AnyStatus, Ignoring, MovedToTop and AnyDirect are faulty     *)
(* variants of the definition after them; no action uses them.             *)

\* GetActiveByNameAndParent.
AnyStatus(n, p) == {i \in 1..made : files[i].status # "none" /\ files[i].name = n /\ files[i].parent = p}
Named(n, p)     == {i \in 1..made : files[i].status = "active" /\ files[i].name = n /\ files[i].parent = p}
Found(n, p)     == CHOOSE i \in Named(n, p) : TRUE

\* The entry and those above it, as GetFullPath climbs, whatever their status.
Parent(i) == IF i = Root \/ files[i].parent = Nil THEN i ELSE files[i].parent
Above(i) == LET up[k \in Nat] == IF k = 0 THEN i ELSE Parent(up[k - 1]) IN up
Climb(i) == {Above(i)[k] : k \in 0..made}
Below(i) == {j \in 1..made : files[j].status # "none" /\ i \in Climb(j)}

Visible(i) == Root \in Climb(i) /\ \A j \in Climb(i) \ {Root} : files[j].status = "active"
InFolders(i) == \A j \in Climb(i) \ {Root, i} : files[j].type = "folder"

\* GetFullPath: the names from the root down to i.
FullPath(i) ==
  LET depth == CHOOSE k \in 0..made : Above(i)[k] = Root /\ \A l \in 0..(k - 1) : Above(i)[l] # Root
  IN  [n \in 1..depth |-> files[Above(i)[depth - n]].name]

\* ResolvePathID: Nil when a name is not found.
ResolvePathID(path) ==
  LET f[k \in 0..Len(path)] ==
        IF k = 0 THEN Root
        ELSE LET ids == Named(path[k], f[k - 1])
             IN  IF ids = {} THEN Nil ELSE CHOOSE i \in ids : TRUE
  IN  f[Len(path)]

\* The unique index on name and parent among the active entries.
Unique(rows) ==
  \A i, j \in 1..MaxId :
    i # j /\ rows[i].status = "active" /\ rows[j].status = "active"
      => rows[i].name # rows[j].name \/ rows[i].parent # rows[j].parent

-----------------------------------------------------------------------------
(* A request walks along its path.                                         *)

PathsUpTo == UNION {[1..n -> Name] : n \in 0..Depth}

\* A free slot takes any request; the id of a move is an entry the client saw, and
\* what it names as destination is not below that entry then.  Two moves beside
\* each other may still put two folders below each other, out of sight.
Begin(r) ==
  /\ request[r].st = "free" /\ left > 0 /\ left' = left - 1
  /\ \/ \E path \in PathsUpTo :
          request' = [request EXCEPT ![r] = [NoRequest EXCEPT !.op = "mkdir", !.path = path,
                                              !.rest = path, !.st = "walking"]]
     \/ \E path \in PathsUpTo, n \in Name :
          request' = [request EXCEPT ![r] = [NoRequest EXCEPT !.op = "create", !.rest = path,
                                              !.name = n, !.st = "walking"]]
     \/ \E path \in PathsUpTo, i \in 1..made, n \in Name \cup {NoName} :
          /\ Visible(i) /\ ResolvePathID(path) \in TreeId \ Below(i)
          /\ request' = [request EXCEPT ![r] = [NoRequest EXCEPT !.op = "move", !.rest = path,
                                                 !.name = n, !.id = i,
                                                 !.st = "walking"]]
  /\ UNCHANGED <<files, made, calm>>

Advance(r, i) == request' = [request EXCEPT ![r].at = i, ![r].rest = Tail(@), ![r].st = "walking"]
Answer(r)     == request' = [request EXCEPT ![r] = NoRequest]

\* One name of the path is there ...
WalkFound(r) ==
  LET q == request[r] IN
  /\ q.st = "walking" /\ q.rest # <<>> /\ Named(Head(q.rest), q.at) # {}
  /\ Advance(r, Found(Head(q.rest), q.at))
  /\ UNCHANGED <<files, made, calm, left>>

\* ... or not: CreateDirectories goes on to insert a folder, others fail.
WalkMissing(r) ==
  LET q == request[r] IN
  /\ q.st = "walking" /\ q.rest # <<>> /\ Named(Head(q.rest), q.at) = {}
  /\ \/ q.op = "mkdir" /\ request' = [request EXCEPT ![r].st = "inserting"]
     \/ q.op # "mkdir" /\ Answer(r)
  /\ UNCHANGED <<files, made, calm, left>>

Inserted(row) == [files EXCEPT ![made + 1] = row]

\* CreateDirectories: a conflict means that another request made the folder.
Ignoring(n, p) == {p}
OnConflict(n, p) == Named(n, p)
InsertFolder(r) ==
  LET q == request[r]
      n == Head(q.rest) IN
  /\ q.st = "inserting"
  /\ \/ /\ Named(n, q.at) = {} /\ made < MaxId
        /\ files' = Inserted(Row(q.at, n, "folder", NoSize))
        /\ made' = made + 1
        /\ Advance(r, made + 1)
     \/ /\ Named(n, q.at) # {}
        /\ \E i \in OnConflict(n, q.at) : Advance(r, i)
        /\ UNCHANGED <<files, made>>
  /\ UNCHANGED <<calm, left>>

EndMkdir(r) ==
  /\ request[r].op = "mkdir" /\ request[r].st = "walking" /\ request[r].rest = <<>>
  /\ request' = [request EXCEPT ![r].st = "done"]
  /\ UNCHANGED <<files, made, calm, left>>

AnswerMkdir(r) ==
  /\ request[r].st = "done" /\ Answer(r)
  /\ UNCHANGED <<files, made, calm, left>>

\* FilesCreate with UpsertActive: an active entry of that name and parent gets
\* the content and keeps its type, or a file is inserted.
CreateFile(r) ==
  LET q == request[r]
      old == Named(q.name, q.at) IN
  /\ q.op = "create" /\ q.st = "walking" /\ q.rest = <<>>
  /\ \/ /\ old # {}
        /\ files' = [files EXCEPT ![Found(q.name, q.at)].size = 1]
        /\ made' = made
     \/ /\ old = {} /\ made < MaxId
        /\ files' = Inserted(Row(q.at, q.name, "file", 1))
        /\ made' = made + 1
  /\ Answer(r)
  /\ UNCHANGED <<calm, left>>

\* FilesMove, one transaction.  With a new name the row of another active entry
\* of that name is deleted first; without one, the index may refuse the move.
Cleared(q) == IF q.name = NoName THEN {} ELSE Named(q.name, q.at) \ {q.id}
MovedToTop(q) ==
  [files EXCEPT ![q.id].parent = IF q.at = Root THEN Nil ELSE q.at]
Moved(q) ==
  [i \in TreeId |->
     IF i \in Cleared(q) THEN NoRow
     ELSE IF i = q.id
     THEN [files[i] EXCEPT !.parent = q.at, !.name = IF q.name = NoName THEN @ ELSE q.name]
     ELSE files[i]]
MoveFile(r) ==
  LET q == request[r] IN
  /\ q.op = "move" /\ q.st = "walking" /\ q.rest = <<>>
  /\ \/ /\ files[q.id].status = "active" /\ Unique(Moved(q))
        /\ files' = Moved(q) /\ calm' = FALSE
     \/ /\ files[q.id].status # "active" \/ ~Unique(Moved(q))
        /\ UNCHANGED <<files, calm>>
  /\ Answer(r)
  /\ UNCHANGED <<made, left>>

-----------------------------------------------------------------------------
(* Requests and jobs that are one statement.                               *)

\* DeleteBulkReturning: the entry and all below it, whatever their status.
Delete(i) ==
  /\ left > 0 /\ left' = left - 1
  /\ Visible(i)
  /\ files' = [j \in TreeId |-> IF j \in Below(i) THEN [files[j] EXCEPT !.status = "pending"]
                                ELSE files[j]]
  /\ calm' = FALSE
  /\ UNCHANGED <<made, request>>

\* DeletePendingForDeletionByUser.
Purge ==
  /\ left > 0 /\ left' = left - 1
  /\ files' = [i \in TreeId |-> IF files[i].status = "pending" THEN NoRow ELSE files[i]]
  /\ UNCHANGED <<made, request, calm>>

\* RefreshFolderSizesByUser: the active folders reached from the root through
\* active folders, what lies directly in each, and the sums below each.
Hierarchy == {i \in 0..made : Visible(i) /\ InFolders(i) /\ files[i].type = "folder"}
AnyDirect(i) == Cardinality({j \in 1..made : files[j].parent = i /\ files[j].type # "folder"})
Direct(i) == Cardinality({j \in 1..made : /\ files[j].parent = i /\ files[j].type # "folder"
                                          /\ files[j].status = "active"})
Containing(i) == {j \in Hierarchy : i \in Climb(j)}
Cumulative(i) == MapThenSumSet(Direct, Containing(i))
Refreshed(i)  == IF i \in Hierarchy THEN [files[i] EXCEPT !.size = Cumulative(i)]
                 ELSE files[i]
RefreshFolderSizes ==
  /\ files' = [i \in TreeId |-> Refreshed(i)]
  /\ UNCHANGED <<made, request, calm, left>>

-----------------------------------------------------------------------------
TreeInit ==
  /\ \E drive \in Before :
       /\ files = [i \in TreeId |->
                     IF i = Root THEN Row(Nil, NoName, "folder", NoSize)
                     ELSE IF i > Len(drive) THEN NoRow
                     ELSE Row(drive[i].parent, drive[i].name, drive[i].type,
                              IF drive[i].type = "file" THEN 1 ELSE NoSize)]
       /\ made = Len(drive)
  /\ request = [r \in Request |-> NoRequest]
  /\ calm = TRUE /\ left = Changes

TreeNext ==
  \/ \E r \in Request : \/ Begin(r) \/ WalkFound(r) \/ WalkMissing(r) \/ InsertFolder(r)
                        \/ EndMkdir(r) \/ AnswerMkdir(r) \/ CreateFile(r) \/ MoveFile(r)
  \/ \E i \in 1..made : Delete(i)
  \/ Purge
  \/ RefreshFolderSizes

TreeSpec == TreeInit /\ [][TreeNext]_treeVars
=============================================================================
