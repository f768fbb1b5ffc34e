---------------------------- MODULE FileTreeProps ----------------------------
(* What the folder tree promises.                                          *)
EXTENDS FileTree

\* The ranges of the variables; the root alone has no parent.
TreeTypeOK ==
  /\ made \in 0..MaxId /\ left \in 0..Changes /\ calm \in BOOLEAN
  /\ \A i \in TreeId : /\ files[i].status \in {"none", "active", "pending"}
                       /\ files[i].parent \in TreeId \cup {Nil}
                       /\ files[i].parent = Nil <=> i = Root \/ files[i].status = "none"
                       /\ files[i].size \in 0..MaxId \cup {NoSize}
  /\ \A r \in Request : request[r].at \in TreeId /\ request[r].id \in TreeId

\* The path shown for an entry leads back to it, whatever was created, moved,
\* overwritten and deleted meanwhile (GetFullPath and ResolvePathID).
RoundTrip == \A i \in 1..made : Visible(i) => ResolvePathID(FullPath(i)) = i

\* Without moves and deletions, CreateDirectories returns the folder its path
\* leads to, so requests for one path agree although none of them locks
\* anything (the conflict on insert).
SameFolder ==
  \A r \in Request : calm /\ request[r].op = "mkdir" /\ request[r].st = "done"
                     => ResolvePathID(request[r].path) = request[r].at

\* The job that refreshes sizes would give every folder in sight the number of
\* bytes in the files below it, each file once, at any depth
\* (RefreshFolderSizesByUser).
FilesBelow(i) == {j \in 1..made : /\ files[j].type = "file" /\ i \in Climb(j) \ {j}
                                  /\ Visible(j) /\ InFolders(j)}
SizesAddUp ==
  \A i \in 1..made : files[i].type = "folder" /\ Visible(i) /\ InFolders(i)
                      => Refreshed(i).size = Cardinality(FilesBelow(i))
=============================================================================
