--------------------------- MODULE FileTreeProofs ---------------------------
(***************************************************************************)
(* Proofs about FileTree, for any names, drives, requests and number of    *)
(* entries.                                                                *)
(***************************************************************************)
EXTENDS FileTreeProps, FiniteSetTheorems, SequenceTheorems, WellFoundedInduction, TLAPS

-----------------------------------------------------------------------------
(* Rows and requests.                                                      *)

RowType == [status : {"none", "active", "pending"}, type : {"none", "folder", "file"},
            parent : TreeId \cup {Nil}, name : Name \cup {NoName}, size : 0..MaxId \cup {NoSize}]
RequestType ==
  [op : {"none", "mkdir", "create", "move"}, path : Seq(Name), rest : Seq(Name), at : TreeId,
   name : Name \cup {NoName}, id : TreeId, st : {"free", "walking", "inserting", "done"}]

\* Rows are made in the order of their ids, and the index keeps the active ones apart.
Rows ==
  /\ made \in 0..MaxId /\ files \in [TreeId -> RowType]
  /\ \A i \in TreeId : files[i].parent = Nil <=> i = Root \/ files[i].status = "none"
  /\ \A i \in TreeId : i > made => files[i].status = "none"
  /\ files[Root].status = "active" /\ files[Root].type = "folder"
  /\ \A i \in 1..MaxId : files[i].status = "active" => files[i].name \in Name /\ files[i].type # "none"
  /\ Unique(files)

LEMMA LeastNatural ==
  ASSUME NEW T, T \subseteq Nat, T # {}
  PROVE  \E x \in T : \A y \in T : x <= y
<1>1. PICK x \in T : \A y \in T : ~ (<<y, x>> \in OpToRel(<, Nat))
  BY NatLessThanWellFounded, WFMin
<1>2. \A y \in T : ~ (y < x)
  BY <1>1 DEF OpToRel
<1> QED  BY <1>2

-----------------------------------------------------------------------------
(* Climbing.                                                               *)

Climbs(i, g, n) ==
  g \in [0..n -> TreeId] /\ g[0] = i /\ \A k \in 0..n : k > 0 => g[k] = Parent(g[k - 1])

LEMMA ParentIn == ASSUME Rows, NEW i \in TreeId PROVE Parent(i) \in TreeId
BY DEF Rows, RowType, Parent

LEMMA ClimbsExist == ASSUME Rows, NEW i \in TreeId, NEW n \in Nat PROVE \E g : Climbs(i, g, n)
<1> DEFINE T == {m \in Nat : ~ \E g : Climbs(i, g, m)}
<1> SUFFICES ASSUME T # {} PROVE FALSE
  OBVIOUS
<1>1. PICK m \in T : \A y \in T : m <= y
  BY LeastNatural
<1>2. CASE m = 0
  <2> DEFINE g == [k \in 0..0 |-> i]
  <2>1. Climbs(i, g, 0)
    BY DEF Climbs
  <2> QED  BY <1>1, <1>2, <2>1
<1>3. CASE m # 0
  <2>1. m - 1 \in Nat /\ m - 1 \notin T /\ m \in Nat
    BY <1>1, <1>3
  <2>2. PICK g : Climbs(i, g, m - 1)
    BY <2>1
  <2> DEFINE h == [k \in 0..m |-> IF k = m THEN Parent(g[m - 1]) ELSE g[k]]
  <2>3. g[m - 1] \in TreeId /\ Parent(g[m - 1]) \in TreeId /\ \A k \in 0..m : k # m => g[k] \in TreeId
    BY <2>1, <2>2, ParentIn DEF Climbs
  <2>4. h \in [0..m -> TreeId]
    BY <2>3
  <2>5. h[0] = i /\ h[m] = Parent(g[m - 1]) /\ \A k \in 0..(m - 1) : h[k] = g[k]
    BY <2>1, <2>2, <1>3 DEF Climbs
  <2> HIDE DEF h
  <2>6. ASSUME NEW k \in 0..m, k > 0 PROVE h[k] = Parent(h[k - 1])
    <3>1. k - 1 \in 0..(m - 1) /\ h[k - 1] = g[k - 1]
      BY <2>1, <2>5, <2>6
    <3>2. CASE k = m
      BY <2>5, <3>1, <3>2
    <3>3. CASE k # m
      <4>1. k \in 0..(m - 1)
        BY <2>1, <2>6, <3>3
      <4>2. h[k] = g[k] /\ g[k] = Parent(g[k - 1])
        BY <2>2, <2>5, <2>6, <4>1 DEF Climbs
      <4> QED  BY <3>1, <4>2
    <3> QED  BY <3>2, <3>3
  <2>7. Climbs(i, h, m)
    BY <2>4, <2>5, <2>6 DEF Climbs
  <2> QED  BY <1>1, <2>7
<1> QED  BY <1>2, <1>3

LEMMA ClimbsAgree ==
  ASSUME NEW i, NEW n \in Nat, NEW m \in Nat, NEW g, NEW h, Climbs(i, g, n), Climbs(i, h, m),
         NEW k \in Nat, k <= n, k <= m
  PROVE  g[k] = h[k]
<1> DEFINE T == {l \in Nat : l <= n /\ l <= m /\ g[l] # h[l]}
<1> SUFFICES ASSUME T # {} PROVE FALSE
  OBVIOUS
<1>1. PICK l \in T : \A y \in T : l <= y
  BY LeastNatural
<1>2. CASE l = 0
  BY <1>1, <1>2 DEF Climbs
<1>3. CASE l # 0
  <2>1. l \in Nat /\ l - 1 \in Nat /\ l <= n /\ l <= m /\ l - 1 \notin T
    BY <1>1, <1>3
  <2>2. g[l - 1] = h[l - 1]
    BY <2>1
  <2>3. l \in 0..n /\ l \in 0..m /\ l > 0
    BY <2>1, <1>3
  <2> QED  BY <1>1, <2>2, <2>3 DEF Climbs
<1> QED  BY <1>2, <1>3

\* What Above is: the recursion defines a function.
LEMMA AboveIs ==
  ASSUME Rows, NEW i \in TreeId
  PROVE  /\ Above(i)[0] = i
         /\ \A k \in Nat : Above(i)[k] \in TreeId /\ Above(i)[k + 1] = Parent(Above(i)[k])
<1> DEFINE G == [n \in Nat |-> (CHOOSE g : Climbs(i, g, n))[n]]
           up == CHOOSE f : f = [k \in Nat |-> IF k = 0 THEN i ELSE Parent(f[k - 1])]
<1>1. ASSUME NEW n \in Nat PROVE Climbs(i, CHOOSE g : Climbs(i, g, n), n)
  BY <1>1, ClimbsExist
<1>2. G[0] = i
  BY <1>1 DEF Climbs
<1>3. ASSUME NEW n \in Nat PROVE G[n] \in TreeId /\ G[n + 1] = Parent(G[n])
  <2>1. PICK g : g = CHOOSE f : Climbs(i, f, n + 1)
    OBVIOUS
  <2>2. PICK h : h = CHOOSE f : Climbs(i, f, n)
    OBVIOUS
  <2>3. Climbs(i, g, n + 1) /\ Climbs(i, h, n) /\ n + 1 \in Nat
    BY <1>1, <2>1, <2>2
  <2>4. G[n + 1] = g[n + 1] /\ G[n] = h[n]
    BY <2>1, <2>2
  <2>5. g[n] = h[n]
    BY <2>3, ClimbsAgree
  <2>6. g[n + 1] = Parent(g[n]) /\ g[n] \in TreeId
    BY <2>3 DEF Climbs
  <2> QED  BY <2>4, <2>5, <2>6
<1>4. G = [k \in Nat |-> G[k]]
  OBVIOUS
<1> HIDE DEF G
<1>5. \A k \in Nat : G[k] = IF k = 0 THEN i ELSE Parent(G[k - 1])
  <2> TAKE k \in Nat
  <2>1. CASE k # 0
    <3>1. k - 1 \in Nat /\ k = (k - 1) + 1
      BY <2>1
    <3> QED  BY <1>3, <2>1, <3>1
  <2> QED  BY <1>2, <2>1
<1>6. G = [k \in Nat |-> IF k = 0 THEN i ELSE Parent(G[k - 1])]
  BY <1>4, <1>5
<1>7. up = [k \in Nat |-> IF k = 0 THEN i ELSE Parent(up[k - 1])]
  BY <1>6
<1>8. Above(i) = up
  BY DEF Above
<1> HIDE DEF up
<1>9. \A k \in Nat : up[k] = IF k = 0 THEN i ELSE Parent(up[k - 1])
  BY <1>7
<1>10. \A k \in Nat : up[k] \in TreeId
  <2> DEFINE T == {k \in Nat : up[k] \notin TreeId}
  <2> SUFFICES ASSUME T # {} PROVE FALSE
    OBVIOUS
  <2>1. PICK k \in T : \A y \in T : k <= y
    BY LeastNatural
  <2>2. k # 0
    BY <1>9, <2>1
  <2>3. k - 1 \in Nat /\ k - 1 \notin T
    BY <2>1, <2>2
  <2> QED  BY <1>9, <2>1, <2>2, <2>3, ParentIn
<1>11. ASSUME NEW k \in Nat PROVE up[k + 1] = Parent(up[k])
  BY <1>9
<1> QED  BY <1>8, <1>9, <1>10, <1>11

-----------------------------------------------------------------------------
(* Paths.                                                                  *)

LEMMA NamedOne ==
  ASSUME Rows, NEW n, NEW p, NEW i \in Named(n, p)
  PROVE  Named(n, p) = {i} /\ i \in 1..made /\ i \in TreeId
BY TreeAssumption DEF Rows, Unique, Named, TreeId

\* w leads from the root along the first n names of the path.
Leads(path, w, n) ==
  w \in [0..n -> TreeId] /\ w[0] = Root /\ \A k \in 0..n : k > 0 => w[k] \in Named(path[k], w[k - 1])

LEMMA ResolveIs ==
  ASSUME Rows, NEW path \in Seq(Name), NEW w, Leads(path, w, Len(path))
  PROVE  ResolvePathID(path) = w[Len(path)]
<1> DEFINE Next1(k, i) == IF Named(path[k], i) = {} THEN Nil ELSE CHOOSE j \in Named(path[k], i) : TRUE
           walk == CHOOSE f : f = [k \in 0..Len(path) |-> IF k = 0 THEN Root ELSE Next1(k, f[k - 1])]
<1>1. \A k \in 0..Len(path) : w[k] = IF k = 0 THEN Root ELSE Next1(k, w[k - 1])
  <2> TAKE k \in 0..Len(path)
  <2>1. CASE k # 0
    <3>1. Named(path[k], w[k - 1]) = {w[k]}
      BY <2>1, NamedOne DEF Leads
    <3> QED  BY <2>1, <3>1
  <2> QED  BY <2>1 DEF Leads
<1> HIDE DEF Next1
<1>2. w = [k \in 0..Len(path) |-> w[k]]
  BY DEF Leads
<1>3. w = [k \in 0..Len(path) |-> IF k = 0 THEN Root ELSE Next1(k, w[k - 1])]
  BY <1>1, <1>2
<1>4. walk = [k \in 0..Len(path) |-> IF k = 0 THEN Root ELSE Next1(k, walk[k - 1])]
  BY <1>3
<1>5. ResolvePathID(path) = walk[Len(path)]
  BY DEF ResolvePathID, Next1
<1> HIDE DEF walk
<1>6. \A k \in 0..Len(path) : walk[k] = IF k = 0 THEN Root ELSE Next1(k, walk[k - 1])
  BY <1>4
<1>7. Len(path) \in Nat
  OBVIOUS
<1> DEFINE T == {k \in 0..Len(path) : walk[k] # w[k]}
<1>8. T = {}
  <2> SUFFICES ASSUME T # {} PROVE FALSE
    OBVIOUS
  <2>0. T \subseteq Nat
    BY <1>7
  <2>1. PICK k \in T : \A y \in T : k <= y
    BY <2>0, LeastNatural
  <2>2. k # 0
    BY <1>1, <1>6, <2>1
  <2>3. k - 1 \in 0..Len(path) /\ k - 1 \notin T
    BY <1>7, <2>1, <2>2
  <2> QED  BY <1>1, <1>6, <2>1, <2>2, <2>3
<1> QED  BY <1>5, <1>7, <1>8

\* From an entry in sight the climb meets the root, and what it passes is active.
LEMMA UpToRoot ==
  ASSUME Rows, NEW i \in TreeId, Root \in Climb(i)
  PROVE  \E d \in 0..made : Above(i)[d] = Root /\ \A l \in 0..(d - 1) : Above(i)[l] # Root
<1> DEFINE T == {k \in 0..made : Above(i)[k] = Root}
<1>1. T # {} /\ T \subseteq Nat
  BY TreeAssumption DEF Climb, Rows
<1>2. PICK d \in T : \A y \in T : d <= y
  BY <1>1, LeastNatural
<1>3. made \in Nat
  BY TreeAssumption DEF Rows
<1>4. d \in 0..made /\ Above(i)[d] = Root
  BY <1>2
<1>5. \A l \in 0..(d - 1) : l \in 0..made /\ ~(d <= l)
  BY <1>3, <1>4
<1> QED  BY <1>2, <1>4, <1>5

LEMMA PathLeadsBack ==
  ASSUME Rows, NEW i \in 1..made, Visible(i) PROVE ResolvePathID(FullPath(i)) = i
<1>1. i \in TreeId /\ made \in 0..MaxId
  BY TreeAssumption DEF Rows, TreeId
<1> DEFINE Meets(k) == Above(i)[k] = Root /\ \A l \in 0..(k - 1) : Above(i)[l] # Root
<1>2. PICK d : d = CHOOSE k \in 0..made : Meets(k)
  OBVIOUS
<1>3. d \in 0..made /\ Meets(d)
  BY <1>1, <1>2, UpToRoot DEF Visible
<1>4. PICK path : path = [n \in 1..d |-> files[Above(i)[d - n]].name]
  OBVIOUS
<1>5. FullPath(i) = path
  BY <1>2, <1>4 DEF FullPath
<1>6. ASSUME NEW l \in 0..(d - 1)
      PROVE  /\ Above(i)[l] \in 1..made /\ files[Above(i)[l]].status = "active"
             /\ files[Above(i)[l]].parent = Above(i)[l + 1] /\ files[Above(i)[l]].name \in Name
  <2>1. PICK x : x = Above(i)[l]
    OBVIOUS
  <2>2. l \in Nat /\ l \in 0..made /\ x # Root /\ x \in TreeId /\ Above(i)[l + 1] = Parent(x)
    BY <1>1, <1>3, <2>1, AboveIs, TreeAssumption
  <2>3. x \in Climb(i) \ {Root}
    BY <2>1, <2>2 DEF Climb
  <2>4. files[x].status = "active"
    BY <2>3 DEF Visible
  <2>5. x \in 1..MaxId
    BY <2>2, TreeAssumption DEF TreeId, Root
  <2>6. x <= made
    BY <1>1, <2>2, <2>4, <2>5, TreeAssumption DEF Rows
  <2>7. files[x].name \in Name
    BY <2>4, <2>5 DEF Rows
  <2>8. files[x].parent # Nil
    <3>1. files[x].parent = Nil <=> x = Root \/ files[x].status = "none"
      BY <2>2 DEF Rows
    <3> QED  BY <2>2, <2>4, <3>1
  <2> QED  BY <1>1, <2>1, <2>2, <2>4, <2>5, <2>6, <2>7, <2>8 DEF Parent
<1>7. d \in Nat
  BY <1>1, <1>3, TreeAssumption
<1>8. path \in Seq(Name) /\ Len(path) = d
  <2>1. \A n \in 1..d : files[Above(i)[d - n]].name \in Name
    BY <1>6, <1>7
  <2>2. path \in [1..d -> Name]
    BY <1>4, <2>1
  <2> QED  BY <1>7, <2>2, SeqDef
<1> DEFINE w == [k \in 0..d |-> Above(i)[d - k]]
<1>9. Leads(path, w, d)
  <2>1. \A k \in 0..d : Above(i)[d - k] \in TreeId
    BY <1>1, <1>7, AboveIs
  <2>2. w[0] = Root
    BY <1>3, <1>7
  <2>3. ASSUME NEW k \in 0..d, k > 0 PROVE w[k] \in Named(path[k], w[k - 1])
    <3>1. d - k \in 0..(d - 1) /\ k \in 1..d /\ d - (k - 1) = (d - k) + 1 /\ k - 1 \in 0..d
      BY <1>7, <2>3
    <3>2. path[k] = files[Above(i)[d - k]].name
      BY <1>4, <3>1
    <3>3. w[k] = Above(i)[d - k] /\ w[k - 1] = Above(i)[(d - k) + 1]
      BY <3>1
    <3> QED  BY <1>6, <3>1, <3>2, <3>3 DEF Named
  <2> QED  BY <2>1, <2>2, <2>3 DEF Leads
<1>10. w[d] = i
  BY <1>1, <1>7, AboveIs
<1> QED  BY <1>5, <1>8, <1>9, <1>10, ResolveIs

-----------------------------------------------------------------------------
(* Sizes.                                                                  *)

\* The files that lie directly in one of the folders of s.
In(s) == {j \in 1..made : /\ files[j].parent \in s /\ files[j].type # "folder"
                          /\ files[j].status = "active"}

LEMMA InFinite == ASSUME Rows, NEW s PROVE IsFiniteSet(In(s)) /\ Cardinality(In(s)) \in 0..made
<1>1. made \in Nat
  BY TreeAssumption DEF Rows
<1>2. IsFiniteSet(1..made) /\ Cardinality(1..made) = made
  BY <1>1, FS_Interval
<1>3. In(s) \in SUBSET (1..made)
  BY DEF In
<1> HIDE DEF In
<1>4. IsFiniteSet(In(s)) /\ Cardinality(In(s)) <= made
  BY <1>2, <1>3, FS_Subset
<1> QED  BY <1>1, <1>4, FS_CardinalityType

LEMMA OneMore ==
  ASSUME Rows, NEW s, NEW x \in s
  PROVE  Cardinality(In(s)) = Direct(x) + Cardinality(In(s \ {x}))
<1>1. Direct(x) = Cardinality(In({x}))
  <2>1. In({x}) = {j \in 1..made : /\ files[j].parent = x /\ files[j].type # "folder"
                                   /\ files[j].status = "active"}
    BY DEF In
  <2> QED  BY <2>1 DEF Direct
<1>2. In(s) = In({x}) \cup In(s \ {x}) /\ In({x}) \cap In(s \ {x}) = {}
  BY DEF In
<1>3. made \in Nat
  BY TreeAssumption DEF Rows
<1>4. Cardinality(In({x}) \cup In(s \ {x}))
        = Cardinality(In({x})) + Cardinality(In(s \ {x})) - Cardinality(In({x}) \cap In(s \ {x}))
  BY InFinite, FS_Union
<1>5. Cardinality(In({x})) \in Nat /\ Cardinality(In(s \ {x})) \in Nat
  BY InFinite, <1>3
<1>6. Cardinality(In(s)) = Cardinality(In({x})) + Cardinality(In(s \ {x})) - Cardinality({})
  BY <1>2, <1>4
<1>7. Cardinality({}) = 0
  BY FS_EmptySet
<1> QED  BY <1>1, <1>5, <1>6, <1>7

\* The sum over folders counts each file in one of them once.
LEMMA SumIs ==
  ASSUME Rows, NEW S, IsFiniteSet(S)
  PROVE  MapThenSumSet(Direct, S) = Cardinality(In(S))
<1> DEFINE Some(s) == CHOOSE x \in s : TRUE
           iter == CHOOSE f : f = [s \in SUBSET S |-> IF s = {} THEN 0
                                                      ELSE Direct(Some(s)) + f[s \ {Some(s)}]]
           h == [s \in SUBSET S |-> Cardinality(In(s))]
<1>1. MapThenSumSet(Direct, S) = iter[S]
  BY DEF MapThenSumSet, MapThenFoldSet
<1>2. \A s \in SUBSET S : s # {} => Some(s) \in s
  OBVIOUS
<1> HIDE DEF Some
<1>3. \A s \in SUBSET S : h[s] = IF s = {} THEN 0 ELSE Direct(Some(s)) + h[s \ {Some(s)}]
  <2> TAKE s \in SUBSET S
  <2>1. CASE s = {}
    <3>1. In({}) = {}
      BY DEF In
    <3> QED  BY <2>1, <3>1, FS_EmptySet
  <2>2. CASE s # {}
    <3>1. s \ {Some(s)} \in SUBSET S
      OBVIOUS
    <3>2. Cardinality(In(s)) = Direct(Some(s)) + Cardinality(In(s \ {Some(s)}))
      BY <1>2, <2>2, OneMore
    <3> QED  BY <2>2, <3>1, <3>2
  <2> QED  BY <2>1, <2>2
<1>4. h = [s \in SUBSET S |-> h[s]]
  OBVIOUS
<1>5. h[S] = Cardinality(In(S))
  OBVIOUS
<1> HIDE DEF h
<1>6. h = [s \in SUBSET S |-> IF s = {} THEN 0 ELSE Direct(Some(s)) + h[s \ {Some(s)}]]
  BY <1>3, <1>4
<1>7. iter = [s \in SUBSET S |-> IF s = {} THEN 0 ELSE Direct(Some(s)) + iter[s \ {Some(s)}]]
  BY <1>6
<1> HIDE DEF iter
<1>8. \A s \in SUBSET S : iter[s] = IF s = {} THEN 0 ELSE Direct(Some(s)) + iter[s \ {Some(s)}]
  BY <1>7
<1>9. \A s \in SUBSET S : IsFiniteSet(s) /\ Cardinality(s) \in Nat
  BY FS_Subset, FS_CardinalityType
<1> DEFINE T == {n \in Nat : \E s \in SUBSET S : Cardinality(s) = n /\ iter[s] # h[s]}
<1>10. T = {}
  <2> SUFFICES ASSUME T # {} PROVE FALSE
    OBVIOUS
  <2>1. T \subseteq Nat
    OBVIOUS
  <2>2. PICK n \in T : \A y \in T : n <= y
    BY <2>1, LeastNatural
  <2>3. PICK s \in SUBSET S : Cardinality(s) = n /\ iter[s] # h[s]
    BY <2>2
  <2>4. s # {}
    BY <1>3, <1>8, <2>3
  <2>5. Some(s) \in s /\ s \ {Some(s)} \in SUBSET S
    BY <1>2, <2>4
  <2>6. Cardinality(s \ {Some(s)}) = n - 1
    BY <1>9, <2>3, <2>5, FS_RemoveElement
  <2>7. n - 1 \in Nat /\ n \in Nat
    BY <1>9, <2>2, <2>5, <2>6
  <2>8. n - 1 \notin T
    BY <2>2, <2>7
  <2>9. iter[s \ {Some(s)}] = h[s \ {Some(s)}]
    BY <2>5, <2>6, <2>7, <2>8
  <2> QED  BY <1>3, <1>8, <2>3, <2>4, <2>9
<1>11. S \in SUBSET S
  OBVIOUS
<1> QED  BY <1>1, <1>5, <1>9, <1>10, <1>11

-----------------------------------------------------------------------------
(* The invariant: rows, requests and, as long as nothing was moved or      *)
(* deleted, how far the requests that make folders have come.              *)

Legal(q) ==
  /\ q \in RequestType
  /\ q.op = "move" => q.id # Root
  /\ q.op = "create" => q.name \in Name
  /\ q.st = "inserting" => q.op = "mkdir" /\ q.rest # <<>>
  /\ q.st = "done" => q.op = "mkdir" /\ q.rest = <<>>
Requests == request \in [Request -> RequestType] /\ \A r \in Request : Legal(request[r])

\* The names that are left are the last of the path, and the others lead to at.
Walked(q) ==
  q.op = "mkdir" =>
    /\ Len(q.rest) <= Len(q.path)
    /\ \A k \in 1..Len(q.rest) : q.rest[k] = q.path[Len(q.path) - Len(q.rest) + k]
    /\ \E w : /\ Leads(q.path, w, Len(q.path) - Len(q.rest))
              /\ w[Len(q.path) - Len(q.rest)] = q.at
Undisturbed ==
  calm => /\ \A i \in TreeId : files[i].status # "pending"
          /\ \A r \in Request : Walked(request[r])

TreeInv == Rows /\ Requests /\ Undisturbed /\ left \in 0..Changes /\ calm \in BOOLEAN

\* Nothing that had a name is without it after the step.
NamesStay == \A n, p : Named(n, p) \subseteq Named(n, p)'

LEMMA LeadsOn ==
  ASSUME NamesStay, NEW path, NEW w, NEW n, Leads(path, w, n) PROVE Leads(path, w, n)'
<1>1. \A k \in 0..n : k > 0 => w[k] \in Named(path[k], w[k - 1])'
  BY DEF Leads, NamesStay
<1> QED  BY <1>1 DEF Leads

LEMMA WalkedOn == ASSUME NamesStay, NEW q, Walked(q) PROVE Walked(q)'
<1> SUFFICES ASSUME q.op = "mkdir" PROVE Walked(q)'
  BY DEF Walked
<1>1. PICK w : /\ Leads(q.path, w, Len(q.path) - Len(q.rest))
               /\ w[Len(q.path) - Len(q.rest)] = q.at
  BY DEF Walked
<1>2. Leads(q.path, w, Len(q.path) - Len(q.rest))'
  BY <1>1, LeadsOn
<1> QED  BY <1>1, <1>2 DEF Walked

LEMMA RootIs == Root \in TreeId /\ Root \notin 1..MaxId /\ Nil \notin TreeId /\ TreeId = {Root} \cup 1..MaxId
BY TreeAssumption DEF Root, TreeId, Nil

-----------------------------------------------------------------------------
(* What the statements do to the rows.                                     *)

LEMMA RowsInsert ==
  ASSUME Rows, NEW p \in TreeId, NEW n \in Name, NEW t \in {"folder", "file"},
         NEW s \in 0..MaxId \cup {NoSize}, Named(n, p) = {}, made < MaxId,
         files' = Inserted(Row(p, n, t, s)), made' = made + 1
  PROVE  /\ Rows' /\ NamesStay /\ made + 1 \in Named(n, p)' /\ made + 1 \in TreeId
         /\ \A i \in TreeId : files'[i].status \in {files[i].status, "active"}
<1>1. made \in Nat /\ made + 1 \in 1..MaxId /\ made + 1 \in TreeId
  BY TreeAssumption DEF Rows, TreeId
<1>2. PICK row : row = Row(p, n, t, s)
  OBVIOUS
<1>3. /\ row \in RowType /\ row.status = "active" /\ row.name = n /\ row.parent = p /\ row.type # "none"
  BY <1>2 DEF Row, RowType
<1>4. files' = [files EXCEPT ![made + 1] = row] /\ files' \in [TreeId -> RowType]
  BY <1>2, <1>3 DEF Rows, Inserted
<1>5. files'[made + 1] = row /\ \A i \in TreeId : i # made + 1 => files'[i] = files[i]
  BY <1>1, <1>4 DEF Rows
<1>6. files[made + 1].status = "none"
  BY <1>1 DEF Rows
<1>7. NamesStay
  <2> SUFFICES ASSUME NEW m, NEW x, NEW i \in Named(m, x) PROVE i \in Named(m, x)'
    BY DEF NamesStay
  <2>1. i \in 1..made /\ i \in TreeId /\ i # made + 1
    BY <1>1, TreeAssumption DEF Named, TreeId, Rows
  <2> QED  BY <1>1, <1>5, <2>1 DEF Named
<1>8. made + 1 \in Named(n, p)'
  BY <1>1, <1>3, <1>5 DEF Named
<1>9. Unique(files')
  <2> SUFFICES ASSUME NEW i \in 1..MaxId, NEW j \in 1..MaxId, i # j,
                      files'[i].status = "active", files'[j].status = "active",
                      files'[i].name = files'[j].name, files'[i].parent = files'[j].parent
               PROVE  FALSE
    BY DEF Unique
  <2>1. i \in TreeId /\ j \in TreeId
    BY RootIs
  <2>2. ASSUME NEW k \in 1..MaxId, files[k].status = "active" PROVE k \in 1..made
    BY <1>1, <2>2, RootIs DEF Rows
  <2>3. CASE i = made + 1
    <3>1. j \in Named(n, p)
      BY <1>3, <1>5, <2>1, <2>2, <2>3 DEF Named
    <3> QED  BY <3>1
  <2>4. CASE j = made + 1
    <3>1. i \in Named(n, p)
      BY <1>3, <1>5, <2>1, <2>2, <2>4 DEF Named
    <3> QED  BY <3>1
  <2> QED  BY <1>5, <2>1, <2>3, <2>4 DEF Rows, Unique
<1>10. ASSUME NEW i \in TreeId
       PROVE  /\ files'[i].parent = Nil <=> i = Root \/ files'[i].status = "none"
              /\ i > made' => files'[i].status = "none"
              /\ i \in 1..MaxId /\ files'[i].status = "active" => files'[i].name \in Name /\ files'[i].type # "none"
              /\ files'[i].status \in {files[i].status, "active"}
  <2>1. CASE i = made + 1
    <3>1. files'[i] = row /\ i # Root /\ p # Nil
      BY <1>1, <1>5, <2>1, RootIs
    <3> QED  BY <1>3, <2>1, <3>1
  <2>2. CASE i # made + 1
    <3>1. files'[i] = files[i]
      BY <1>5, <2>2
    <3>2. i > made' => i > made
      BY <1>1, RootIs, TreeAssumption DEF TreeId
    <3>3. /\ files[i].parent = Nil <=> i = Root \/ files[i].status = "none"
          /\ i > made => files[i].status = "none"
          /\ i \in 1..MaxId /\ files[i].status = "active" => files[i].name \in Name /\ files[i].type # "none"
      BY DEF Rows
    <3> QED  BY <3>1, <3>2, <3>3
  <2> QED  BY <2>1, <2>2
<1>11. made' \in 0..MaxId
  BY <1>1
<1>12. \A i \in 1..MaxId : i \in TreeId
  BY RootIs
<1>13. files'[Root].status = "active" /\ files'[Root].type = "folder"
  BY <1>1, <1>5, RootIs DEF Rows
<1> QED  BY <1>1, <1>4, <1>7, <1>8, <1>9, <1>10, <1>11, <1>12, <1>13 DEF Rows

\* Only sizes change.
LEMMA RowsSized ==
  ASSUME Rows, made' = made, files' \in [TreeId -> RowType],
         \A i \in TreeId : /\ files'[i].status = files[i].status /\ files'[i].parent = files[i].parent
                           /\ files'[i].name = files[i].name /\ files'[i].type = files[i].type
  PROVE  Rows' /\ NamesStay
<1>1. \A i \in 1..MaxId : i \in TreeId
  BY RootIs
<1>2. \A i \in 1..made : i \in TreeId
  BY TreeAssumption DEF Rows, TreeId
<1>3. NamesStay
  BY <1>2 DEF NamesStay, Named
<1>4. Unique(files')
  BY <1>1 DEF Rows, Unique
<1> QED  BY <1>1, <1>3, <1>4, RootIs DEF Rows

\* Rows are marked or removed.
LEMMA RowsEnd ==
  ASSUME Rows, made' = made, files' \in [TreeId -> RowType],
         \A i \in TreeId : \/ files'[i] = files[i]
                           \/ /\ i # Root /\ files[i].status # "none"
                              /\ files'[i] = [files[i] EXCEPT !.status = "pending"]
                           \/ i # Root /\ files'[i] = NoRow
  PROVE  Rows'
<1>1. \A i \in 1..MaxId : i \in TreeId
  BY RootIs
<1>2. NoRow.status = "none" /\ NoRow.parent = Nil
  BY DEF NoRow
<1>3. \A i \in TreeId : files[i] \in RowType
  BY DEF Rows
<1>4. ASSUME NEW i \in TreeId, files'[i].status = "active"
      PROVE  files'[i] = files[i]
  <2>1. CASE files'[i] = [files[i] EXCEPT !.status = "pending"]
    BY <1>3, <1>4, <2>1 DEF RowType
  <2> QED  BY <1>2, <1>4, <2>1
<1>5. Unique(files')
  BY <1>1, <1>4 DEF Rows, Unique
<1>6. ASSUME NEW i \in TreeId
      PROVE  /\ files'[i].parent = Nil <=> i = Root \/ files'[i].status = "none"
             /\ i > made => files'[i].status = "none"
  <2>1. /\ files[i].parent = Nil <=> i = Root \/ files[i].status = "none"
        /\ i > made => files[i].status = "none"
    BY DEF Rows
  <2>2. CASE i # Root /\ files[i].status # "none" /\ files'[i] = [files[i] EXCEPT !.status = "pending"]
    <3>1. files'[i].status = "pending" /\ files'[i].parent = files[i].parent
      BY <1>3, <2>2 DEF RowType
    <3> QED  BY <2>1, <2>2, <3>1
  <2> QED  BY <1>2, <2>1, <2>2
<1>7. \A i \in 1..MaxId : files'[i].status = "active" => files'[i].name \in Name /\ files'[i].type # "none"
  BY <1>1, <1>4 DEF Rows
<1>8. files'[Root].status = "active" /\ files'[Root].type = "folder"
  BY RootIs DEF Rows
<1> QED  BY <1>5, <1>6, <1>7, <1>8 DEF Rows

-----------------------------------------------------------------------------
(* Steps.                                                                  *)

LEMMA NoRequestIs == NoRequest \in RequestType /\ Legal(NoRequest) /\ Walked(NoRequest)
<1>1. <<>> \in Seq(Name) /\ Root \in TreeId
  BY RootIs
<1>2. NoRequest \in RequestType
  BY <1>1 DEF NoRequest, RequestType
<1> QED  BY <1>2 DEF NoRequest, Legal, Walked

LEMMA TreeStart == TreeInit => TreeInv
<1> SUFFICES ASSUME TreeInit PROVE TreeInv
  OBVIOUS
<1>1. PICK drive \in Before :
        /\ files = [i \in TreeId |->
                     IF i = Root THEN Row(Nil, NoName, "folder", NoSize)
                     ELSE IF i > Len(drive) THEN NoRow
                     ELSE Row(drive[i].parent, drive[i].name, drive[i].type,
                              IF drive[i].type = "file" THEN 1 ELSE NoSize)]
        /\ made = Len(drive)
  BY DEF TreeInit
<1>2. /\ Len(drive) \in 0..MaxId
      /\ drive \in Seq([parent : 0..Len(drive), name : Name, type : {"folder", "file"}])
      /\ \A i, j \in 1..Len(drive) :
           i # j => drive[i].name # drive[j].name \/ drive[i].parent # drive[j].parent
  BY TreeAssumption
<1>3. made \in Nat /\ made \in 0..MaxId
  BY <1>1, <1>2, TreeAssumption
<1>4. files[Root] = Row(Nil, NoName, "folder", NoSize)
  BY <1>1, RootIs
<1>5. ASSUME NEW i \in TreeId, i # Root, i > made PROVE files[i] = NoRow
  BY <1>1, <1>5
<1>6. ASSUME NEW i \in 1..made
      PROVE  /\ i \in TreeId /\ i # Root /\ drive[i].parent \in TreeId /\ drive[i].name \in Name
             /\ drive[i].type \in {"folder", "file"}
             /\ files[i] = Row(drive[i].parent, drive[i].name, drive[i].type,
                              IF drive[i].type = "file" THEN 1 ELSE NoSize)
  <2>1. i \in 1..MaxId /\ i \in 1..Len(drive) /\ ~(i > Len(drive))
    BY <1>1, <1>2, <1>3, TreeAssumption
  <2>2. i \in TreeId /\ i # Root
    BY <2>1, RootIs
  <2>3. drive[i] \in [parent : 0..Len(drive), name : Name, type : {"folder", "file"}]
    <3>1. PICK S : S = [parent : 0..Len(drive), name : Name, type : {"folder", "file"}]
      OBVIOUS
    <3>2. drive \in Seq(S)
      BY <1>2, <3>1
    <3>3. drive[i] \in S
      BY <2>1, <3>2
    <3> QED  BY <3>1, <3>3
  <2>4. 0..Len(drive) \subseteq TreeId
    BY <1>2, TreeAssumption DEF TreeId
  <2> QED  BY <1>1, <2>1, <2>2, <2>3, <2>4
<1>7. \A i \in TreeId : i = Root \/ (i # Root /\ i > made) \/ i \in 1..made
  BY <1>3, TreeAssumption DEF TreeId, Root
<1>8. \A i \in TreeId : files[i] \in RowType
  <2>1. Row(Nil, NoName, "folder", NoSize) \in RowType /\ NoRow \in RowType
    BY DEF Row, NoRow, RowType
  <2>2. ASSUME NEW i \in 1..made PROVE files[i] \in RowType
    <3>1. PICK p, n, t, z : /\ p = drive[i].parent /\ n = drive[i].name /\ t = drive[i].type
                            /\ z = IF drive[i].type = "file" THEN 1 ELSE NoSize
      OBVIOUS
    <3>2. 1 \in 0..MaxId
      BY <1>3, TreeAssumption
    <3>3. z \in 0..MaxId \cup {NoSize}
      BY <3>1, <3>2
    <3>4. files[i] = Row(p, n, t, z) /\ p \in TreeId /\ n \in Name /\ t \in {"folder", "file"}
      BY <1>6, <3>1
    <3> QED  BY <3>3, <3>4 DEF Row, RowType
  <2> QED  BY <1>4, <1>5, <1>7, <2>1, <2>2
<1>9. files \in [TreeId -> RowType]
  BY <1>1, <1>8
<1>10. \A i \in 1..made : /\ files[i].status = "active" /\ files[i].name = drive[i].name
                          /\ files[i].parent = drive[i].parent /\ files[i].type = drive[i].type
  <2> TAKE i \in 1..made
  <2>1. PICK z : files[i] = Row(drive[i].parent, drive[i].name, drive[i].type, z)
    BY <1>6
  <2> QED  BY <2>1 DEF Row
<1>11. NoRow.status = "none" /\ NoRow.parent = Nil
  BY DEF NoRow
<1>12. ASSUME NEW i \in TreeId
       PROVE  /\ files[i].parent = Nil <=> i = Root \/ files[i].status = "none"
              /\ i > made => files[i].status = "none"
              /\ files[i].status # "pending"
  <2>1. CASE i = Root
    <3>1. files[i].parent = Nil /\ files[i].status = "active"
      BY <1>4, <2>1 DEF Row
    <3>2. ~(i > made)
      BY <1>3, <2>1 DEF Root
    <3> QED  BY <2>1, <3>1, <3>2
  <2>2. CASE i # Root /\ i > made
    BY <1>5, <1>11, <2>2
  <2>3. CASE i \in 1..made
    <3>1. ~(i > made) /\ drive[i].parent # Nil /\ i # Root
      BY <1>3, <1>6, <2>3, RootIs
    <3> QED  BY <1>10, <2>3, <3>1
  <2> QED  BY <1>7, <2>1, <2>2, <2>3
<1>13. \A i \in 1..MaxId : files[i].status = "active" => i \in 1..made
  <2> SUFFICES ASSUME NEW i \in 1..MaxId, files[i].status = "active" PROVE i \in 1..made
    OBVIOUS
  <2>1. i \in TreeId /\ i # Root
    BY RootIs
  <2> QED  BY <1>5, <1>7, <1>11, <2>1
<1>14. Unique(files)
  <2> SUFFICES ASSUME NEW i \in 1..MaxId, NEW j \in 1..MaxId, i # j,
                      files[i].status = "active", files[j].status = "active"
               PROVE  files[i].name # files[j].name \/ files[i].parent # files[j].parent
    BY DEF Unique
  <2>1. i \in 1..made /\ j \in 1..made /\ made = Len(drive)
    BY <1>1, <1>13
  <2>2. drive[i].name # drive[j].name \/ drive[i].parent # drive[j].parent
    BY <1>2, <2>1
  <2> QED  BY <1>10, <2>1, <2>2
<1>15. Rows
  <2>1. files[Root].status = "active" /\ files[Root].type = "folder"
    BY <1>4 DEF Row
  <2> QED  BY <2>1, <1>3, <1>6, <1>9, <1>10, <1>12, <1>13, <1>14 DEF Rows
<1>16. request = [r \in Request |-> NoRequest] /\ calm = TRUE /\ left = Changes
  BY DEF TreeInit
<1>17. Requests
  BY <1>16, NoRequestIs DEF Requests
<1>18. Undisturbed
  BY <1>12, <1>16, NoRequestIs DEF Undisturbed
<1> QED  BY <1>15, <1>16, <1>17, <1>18, TreeAssumption DEF TreeInv

\* One request goes on, the rows stay or grow.
LEMMA GoesOn ==
  ASSUME TreeInv, Rows', NamesStay, NEW r \in Request, NEW q, Legal(q),
         request' = [request EXCEPT ![r] = q], left' \in 0..Changes, calm' = calm,
         calm => /\ \A i \in TreeId : files'[i].status # "pending"
                 /\ Walked(q)'
  PROVE  TreeInv'
<1>1. request' \in [Request -> RequestType] /\ \A s \in Request : request'[s] = IF s = r THEN q ELSE request[s]
  BY DEF TreeInv, Requests, Legal
<1>2. Requests'
  BY <1>1 DEF TreeInv, Requests, Legal
<1>3. Undisturbed'
  <2> SUFFICES ASSUME calm PROVE Undisturbed'
    BY DEF Undisturbed
  <2>1. ASSUME NEW s \in Request PROVE Walked(request[s])'
    <3>1. CASE s = r
      <4>1. request'[s] = q
        BY <1>1, <3>1
      <4> QED  BY <4>1 DEF Walked
    <3>2. CASE s # r
      <4>1. PICK d : d = request[s]
        OBVIOUS
      <4>2. Walked(d)
        BY <4>1 DEF TreeInv, Undisturbed
      <4>3. Walked(d)'
        BY <4>2, WalkedOn
      <4>4. request'[s] = d
        BY <1>1, <3>2, <4>1
      <4> QED  BY <4>3, <4>4 DEF Walked
    <3> QED  BY <3>1, <3>2
  <2> QED  BY <2>1 DEF Undisturbed
<1> QED  BY <1>2, <1>3 DEF TreeInv

LEMMA RowsRest == ASSUME Rows, UNCHANGED <<files, made>> PROVE Rows' /\ NamesStay
BY DEF Rows, NamesStay, Named

LEMMA WalkedFurther ==
  ASSUME NEW d \in RequestType, Walked(d), d.rest # <<>>, NamesStay, NEW i \in TreeId,
         i \in Named(Head(d.rest), d.at)',
         NEW q, q = [d EXCEPT !.at = i, !.rest = Tail(d.rest), !.st = "walking"]
  PROVE  Walked(q)'
<1> SUFFICES ASSUME d.op = "mkdir" PROVE Walked(q)'
  BY DEF Walked, RequestType
<1>1. PICK path, rest, more : path = d.path /\ rest = d.rest /\ more = Tail(d.rest)
  OBVIOUS
<1>2. /\ path \in Seq(Name) /\ rest \in Seq(Name) /\ rest # <<>> /\ more = Tail(rest)
      /\ q.op = "mkdir" /\ q.path = path /\ q.rest = more /\ q.at = i
  BY <1>1 DEF RequestType
<1>3. /\ Len(rest) <= Len(path)
      /\ \A k \in 1..Len(rest) : rest[k] = path[Len(path) - Len(rest) + k]
      /\ \E w : Leads(path, w, Len(path) - Len(rest)) /\ w[Len(path) - Len(rest)] = d.at
  BY <1>1 DEF Walked
<1>4. /\ more \in Seq(Name) /\ Len(more) = Len(rest) - 1 /\ Head(rest) = rest[1]
      /\ \A k \in 1..Len(more) : more[k] = rest[k + 1]
  BY <1>2
<1>5. PICK n : n = Len(path) - Len(rest)
  OBVIOUS
<1>6. /\ n \in Nat /\ Len(rest) \in Nat /\ Len(rest) > 0 /\ Len(path) \in Nat /\ n + 1 = Len(path) - Len(more)
      /\ Len(more) <= Len(path)
  <2>1. Len(rest) \in Nat /\ Len(path) \in Nat /\ Len(rest) # 0
    BY <1>2
  <2> QED  BY <1>3, <1>4, <1>5, <2>1
<1>7. PICK w : Leads(path, w, n) /\ w[n] = d.at
  BY <1>3, <1>5
<1>8. Leads(path, w, n)'
  BY <1>7, LeadsOn
<1>9. Head(rest) = path[n + 1] /\ i \in Named(path[n + 1], d.at)'
  <2>1. Head(rest) = path[n + 1]
    BY <1>3, <1>4, <1>5, <1>6
  <2> QED  BY <1>1, <2>1 DEF Named
<1> DEFINE v == [k \in 0..(n + 1) |-> IF k = n + 1 THEN i ELSE w[k]]
<1>10. Leads(path, v, n + 1)'
  <2>0. w \in [0..n -> TreeId] /\ w[0] = Root
    BY <1>7 DEF Leads
  <2>1. v \in [0..(n + 1) -> TreeId]
    BY <1>6, <2>0
  <2>2. v[0] = Root
    BY <1>6, <2>0
  <2>3. ASSUME NEW k \in 0..(n + 1), k > 0 PROVE v[k] \in Named(path[k], v[k - 1])'
    <3>1. k - 1 \in 0..n /\ v[k - 1] = w[k - 1]
      BY <1>6, <2>3
    <3>2. CASE k = n + 1
      <4>1. v[k] = i /\ w[k - 1] = d.at
        BY <1>6, <1>7, <3>2
      <4> QED  BY <1>9, <3>1, <3>2, <4>1 DEF Named
    <3>3. CASE k # n + 1
      <4>1. k \in 0..n /\ v[k] = w[k]
        BY <1>6, <2>3, <3>3
      <4>2. w[k] \in Named(path[k], w[k - 1])'
        BY <1>8, <2>3, <4>1 DEF Leads
      <4> QED  BY <3>1, <4>1, <4>2 DEF Named
    <3> QED  BY <3>2, <3>3
  <2> QED  BY <2>1, <2>2, <2>3 DEF Leads
<1>11. v[n + 1] = i
  BY <1>6
<1>12. \A k \in 1..Len(more) : more[k] = path[Len(path) - Len(more) + k]
  <2> TAKE k \in 1..Len(more)
  <2>1. k + 1 \in 1..Len(rest) /\ Len(path) - Len(rest) + (k + 1) = Len(path) - Len(more) + k
    <3>1. PICK a, b, c : a = Len(rest) /\ b = Len(more) /\ c = Len(path)
      OBVIOUS
    <3>2. a \in Nat /\ b = a - 1 /\ c \in Nat /\ k \in 1..b
      BY <1>4, <1>6, <3>1
    <3>3. k + 1 \in 1..a /\ c - a + (k + 1) = c - b + k
      BY <3>2
    <3> QED  BY <3>1, <3>3
  <2> QED  BY <1>3, <1>4, <2>1
<1> HIDE DEF v
<1> QED  BY <1>2, <1>6, <1>10, <1>11, <1>12 DEF Walked

LEMMA Advances ==
  ASSUME TreeInv, Rows', NamesStay, NEW r \in Request, NEW i \in TreeId, Advance(r, i),
         NEW d, d = request[r], d.rest # <<>>, i \in Named(Head(d.rest), d.at)',
         left' \in 0..Changes, calm' = calm,
         calm => \A j \in TreeId : files'[j].status # "pending"
  PROVE  TreeInv'
<1>2. PICK q : q = [d EXCEPT !.at = i, !.rest = Tail(d.rest), !.st = "walking"]
  OBVIOUS
<1>3. d \in RequestType /\ Legal(d) /\ (calm => Walked(d))
  BY DEF TreeInv, Requests, Undisturbed
<1>4. Tail(d.rest) \in Seq(Name)
  BY <1>3 DEF RequestType
<1>5. Legal(q)
  BY <1>2, <1>3, <1>4 DEF Legal, RequestType
<1>6. request' = [request EXCEPT ![r] = q]
  BY <1>2, <1>3 DEF Advance, TreeInv, Requests, RequestType
<1>8. calm => Walked(q)'
  BY <1>2, <1>3, WalkedFurther
<1> QED  BY <1>5, <1>6, <1>8, GoesOn

LEMMA Answers ==
  ASSUME TreeInv, Rows', NamesStay, NEW r \in Request, Answer(r),
         left' \in 0..Changes, calm' = calm,
         calm => \A i \in TreeId : files'[i].status # "pending"
  PROVE  TreeInv'
<1>1. Walked(NoRequest)'
  BY NoRequestIs, WalkedOn
<1> QED  BY <1>1, NoRequestIs, GoesOn DEF Answer

LEMMA Walks ==
  ASSUME TreeInv, NEW r \in Request,
         \/ WalkFound(r) \/ WalkMissing(r) \/ EndMkdir(r) \/ AnswerMkdir(r)
  PROVE  TreeInv'
<1>1. UNCHANGED <<files, made, calm, left>>
  BY DEF WalkFound, WalkMissing, EndMkdir, AnswerMkdir
<1>2. Rows' /\ NamesStay /\ left' \in 0..Changes /\ calm' = calm
  BY <1>1, RowsRest DEF TreeInv
<1>3. calm => \A i \in TreeId : files'[i].status # "pending"
  BY <1>1 DEF TreeInv, Undisturbed
<1>4. PICK d : d = request[r]
  OBVIOUS
<1>5. d \in RequestType /\ Legal(d) /\ (calm => Walked(d))
  BY <1>4 DEF TreeInv, Requests, Undisturbed
<1>6. CASE WalkFound(r)
  <2>1. d.rest # <<>> /\ Named(Head(d.rest), d.at) # {} /\ Advance(r, Found(Head(d.rest), d.at))
    BY <1>4, <1>6 DEF WalkFound
  <2>2. PICK i : i = Found(Head(d.rest), d.at)
    OBVIOUS
  <2>3. i \in Named(Head(d.rest), d.at) /\ i \in TreeId
    BY <2>1, <2>2, NamedOne DEF Found, TreeInv
  <2>4. i \in Named(Head(d.rest), d.at)'
    BY <1>2, <2>3 DEF NamesStay
  <2>5. Advance(r, i)
    BY <2>1, <2>2
  <2> QED  BY <1>2, <1>3, <1>4, <2>1, <2>3, <2>4, <2>5, Advances
<1>7. CASE WalkMissing(r) /\ d.op = "mkdir"
  <2>1. PICK q : q = [d EXCEPT !.st = "inserting"]
    OBVIOUS
  <2>2. request' = [request EXCEPT ![r] = q] /\ d.rest # <<>>
    BY <1>4, <1>7, <2>1 DEF WalkMissing, TreeInv, Requests, RequestType
  <2>3. Legal(q)
    BY <1>5, <1>7, <2>1, <2>2 DEF Legal, RequestType
  <2>4. calm => Walked(q)
    BY <1>5, <2>1 DEF Walked, RequestType
  <2>5. calm => Walked(q)'
    BY <1>2, <2>4, WalkedOn
  <2> QED  BY <1>2, <1>3, <2>2, <2>3, <2>5, GoesOn
<1>8. CASE WalkMissing(r) /\ d.op # "mkdir"
  <2>1. Answer(r)
    BY <1>4, <1>8 DEF WalkMissing
  <2> QED  BY <1>2, <1>3, <2>1, Answers
<1>9. CASE EndMkdir(r)
  <2>1. PICK q : q = [d EXCEPT !.st = "done"]
    OBVIOUS
  <2>2. request' = [request EXCEPT ![r] = q] /\ d.rest = <<>> /\ d.op = "mkdir"
    BY <1>4, <1>9, <2>1 DEF EndMkdir, TreeInv, Requests, RequestType
  <2>3. Legal(q)
    BY <1>5, <2>1, <2>2 DEF Legal, RequestType
  <2>4. calm => Walked(q)
    BY <1>5, <2>1 DEF Walked, RequestType
  <2>5. calm => Walked(q)'
    BY <1>2, <2>4, WalkedOn
  <2> QED  BY <1>2, <1>3, <2>2, <2>3, <2>5, GoesOn
<1>10. CASE AnswerMkdir(r)
  BY <1>2, <1>3, <1>10, Answers DEF AnswerMkdir
<1> QED  BY <1>6, <1>7, <1>8, <1>9, <1>10

LEMMA Begins == ASSUME TreeInv, NEW r \in Request, Begin(r) PROVE TreeInv'
<1>1. UNCHANGED <<files, made, calm>> /\ left' \in 0..Changes
  <2>1. UNCHANGED <<files, made, calm>> /\ left > 0 /\ left' = left - 1
    BY DEF Begin
  <2> QED  BY <2>1, TreeAssumption DEF TreeInv
<1>2. Rows' /\ NamesStay /\ calm' = calm
  BY <1>1, RowsRest DEF TreeInv
<1>3. calm => \A i \in TreeId : files'[i].status # "pending"
  BY <1>1 DEF TreeInv, Undisturbed
<1>4. PathsUpTo \subseteq Seq(Name)
  BY TreeAssumption, SeqDef DEF PathsUpTo
<1>5. NoRequest \in RequestType /\ NoRequest.op = "none" /\ NoRequest.path = <<>> /\ NoRequest.at = Root
  BY NoRequestIs DEF NoRequest
<1>6. ASSUME NEW path \in PathsUpTo,
             request' = [request EXCEPT ![r] = [NoRequest EXCEPT !.op = "mkdir", !.path = path,
                                                 !.rest = path, !.st = "walking"]]
      PROVE  TreeInv'
  <2>1. PICK q : q = [NoRequest EXCEPT !.op = "mkdir", !.path = path, !.rest = path, !.st = "walking"]
    OBVIOUS
  <2>2. path \in Seq(Name)
    BY <1>4
  <2>3. q.op = "mkdir" /\ q.path = path /\ q.rest = path /\ q.at = Root /\ q.st = "walking" /\ q \in RequestType
    BY <1>5, <2>1, <2>2 DEF RequestType
  <2>4. Legal(q)
    BY <2>3 DEF Legal
  <2> DEFINE w == [k \in 0..0 |-> Root]
  <2>5. Leads(path, w, 0)' /\ w[0] = Root
    BY RootIs DEF Leads
  <2> HIDE DEF w
  <2>6. Len(path) - Len(path) = 0 /\ \A k \in 1..Len(path) : Len(path) - Len(path) + k = k
    BY <2>2
  <2>7. Walked(q)'
    BY <2>3, <2>5, <2>6 DEF Walked
  <2> QED  BY <1>1, <1>2, <1>3, <1>6, <2>1, <2>4, <2>7, GoesOn
<1>7. ASSUME NEW path \in PathsUpTo, NEW n \in Name,
             request' = [request EXCEPT ![r] = [NoRequest EXCEPT !.op = "create", !.rest = path,
                                                 !.name = n, !.st = "walking"]]
      PROVE  TreeInv'
  <2>1. PICK q : q = [NoRequest EXCEPT !.op = "create", !.rest = path, !.name = n, !.st = "walking"]
    OBVIOUS
  <2>2. q.op = "create" /\ q.st = "walking" /\ q.name = n /\ q \in RequestType
    BY <1>4, <1>5, <2>1 DEF RequestType
  <2>3. Legal(q) /\ Walked(q)'
    BY <2>2 DEF Legal, Walked
  <2> QED  BY <1>1, <1>2, <1>3, <1>7, <2>1, <2>3, GoesOn
<1>8. ASSUME NEW path \in PathsUpTo, NEW i \in 1..made, NEW n \in Name \cup {NoName},
             request' = [request EXCEPT ![r] = [NoRequest EXCEPT !.op = "move", !.rest = path,
                                                 !.name = n, !.id = i, !.st = "walking"]]
      PROVE  TreeInv'
  <2>1. PICK q : q = [NoRequest EXCEPT !.op = "move", !.rest = path, !.name = n, !.id = i, !.st = "walking"]
    OBVIOUS
  <2>2. i \in TreeId /\ i # Root
    BY TreeAssumption DEF TreeInv, Rows, TreeId, Root
  <2>3. q.op = "move" /\ q.st = "walking" /\ q.id = i /\ q \in RequestType
    BY <1>4, <1>5, <2>1, <2>2 DEF RequestType
  <2>4. Legal(q) /\ Walked(q)'
    BY <2>2, <2>3 DEF Legal, Walked
  <2> QED  BY <1>1, <1>2, <1>3, <1>8, <2>1, <2>4, GoesOn
<1> QED  BY <1>6, <1>7, <1>8 DEF Begin

LEMMA NoneWaits ==
  ASSUME TreeInv, Rows', request' = request, left' \in 0..Changes, calm' \in BOOLEAN,
         calm' => calm /\ NamesStay /\ \A i \in TreeId : files'[i].status # "pending"
  PROVE  TreeInv'
<1>1. Requests'
  BY DEF TreeInv, Requests
<1>2. Undisturbed'
  <2> SUFFICES ASSUME calm' PROVE Undisturbed'
    BY DEF Undisturbed
  <2>1. ASSUME NEW s \in Request PROVE Walked(request[s])'
    <3>1. PICK d : d = request[s]
      OBVIOUS
    <3>2. Walked(d)
      BY <3>1 DEF TreeInv, Undisturbed
    <3>3. Walked(d)'
      BY <3>2, WalkedOn
    <3> QED  BY <3>1, <3>3 DEF Walked
  <2> QED  BY <2>1 DEF Undisturbed
<1> QED  BY <1>1, <1>2 DEF TreeInv

LEMMA Inserts == ASSUME TreeInv, NEW r \in Request, InsertFolder(r) PROVE TreeInv'
<1>1. PICK d : d = request[r]
  OBVIOUS
<1>2. d \in RequestType /\ Legal(d) /\ d.st = "inserting" /\ calm' = calm /\ left' \in 0..Changes
  BY <1>1 DEF TreeInv, Requests, InsertFolder
<1>3. PICK n, p : n = Head(d.rest) /\ p = d.at
  OBVIOUS
<1>4. d.rest # <<>> /\ n \in Name /\ p \in TreeId
  BY <1>2, <1>3 DEF Legal, RequestType
<1>5. calm => \A j \in TreeId : files[j].status # "pending"
  BY DEF TreeInv, Undisturbed
<1>6. CASE /\ Named(n, p) = {} /\ made < MaxId
           /\ files' = Inserted(Row(p, n, "folder", NoSize))
           /\ made' = made + 1
           /\ Advance(r, made + 1)
  <2>1. /\ Rows' /\ NamesStay /\ made + 1 \in Named(n, p)' /\ made + 1 \in TreeId
        /\ \A i \in TreeId : files'[i].status \in {files[i].status, "active"}
    BY <1>4, <1>6, RowsInsert DEF TreeInv
  <2>2. PICK i : i = made + 1
    OBVIOUS
  <2>3. i \in Named(Head(d.rest), d.at)' /\ Advance(r, i) /\ i \in TreeId
    BY <1>3, <1>6, <2>1, <2>2 DEF Named
  <2>4. calm => \A j \in TreeId : files'[j].status # "pending"
    BY <1>5, <2>1
  <2> QED  BY <1>1, <1>2, <1>4, <2>1, <2>3, <2>4, Advances
<1>7. CASE /\ Named(n, p) # {}
           /\ \E i \in OnConflict(n, p) : Advance(r, i)
           /\ UNCHANGED <<files, made>>
  <2>1. PICK i \in Named(n, p) : Advance(r, i)
    BY <1>7 DEF OnConflict
  <2>2. Rows' /\ NamesStay
    BY <1>7, RowsRest DEF TreeInv
  <2>3. i \in TreeId
    BY NamedOne DEF TreeInv
  <2>4. i \in Named(Head(d.rest), d.at)
    BY <1>3, <2>1
  <2>5. i \in Named(Head(d.rest), d.at)'
    BY <2>2, <2>4 DEF NamesStay
  <2>6. calm => \A j \in TreeId : files'[j].status # "pending"
    BY <1>5, <1>7
  <2> QED  BY <1>1, <1>2, <1>4, <2>1, <2>2, <2>3, <2>5, <2>6, Advances
<1> QED  BY <1>1, <1>3, <1>6, <1>7 DEF InsertFolder

LEMMA Creates == ASSUME TreeInv, NEW r \in Request, CreateFile(r) PROVE TreeInv'
<1>1. PICK d : d = request[r]
  OBVIOUS
<1>2. /\ d \in RequestType /\ Legal(d) /\ d.op = "create" /\ calm' = calm /\ left' \in 0..Changes
      /\ Answer(r)
  BY <1>1 DEF TreeInv, Requests, CreateFile
<1>3. PICK n, p : n = d.name /\ p = d.at
  OBVIOUS
<1>4. n \in Name /\ p \in TreeId
  BY <1>2, <1>3 DEF Legal, RequestType
<1>5. calm => \A j \in TreeId : files[j].status # "pending"
  BY DEF TreeInv, Undisturbed
<1>6. Rows
  BY DEF TreeInv
<1>7. CASE Named(n, p) # {} /\ files' = [files EXCEPT ![Found(n, p)].size = 1] /\ made' = made
  <2>1. PICK i : i = Found(n, p)
    OBVIOUS
  <2>2. i \in 1..made /\ i \in TreeId
    BY <1>6, <1>7, <2>1, NamedOne DEF Found
  <2>3. 1 \in 0..MaxId
    BY <1>6, <2>2, TreeAssumption DEF Rows
  <2>4. files \in [TreeId -> RowType] /\ files' = [files EXCEPT ![i] = [files[i] EXCEPT !.size = 1]]
    BY <1>6, <1>7, <2>1 DEF Rows
  <2>5. \A j \in TreeId : files'[j] = IF j = i THEN [files[j] EXCEPT !.size = 1] ELSE files[j]
    BY <2>4
  <2>6. \A j \in TreeId : files[j] \in RowType
    BY <2>4
  <2>7. [files[i] EXCEPT !.size = 1] \in RowType
    BY <2>2, <2>3, <2>6 DEF RowType
  <2>8. files' \in [TreeId -> RowType]
    BY <2>2, <2>4, <2>7
  <2>9. \A j \in TreeId : /\ files'[j].status = files[j].status /\ files'[j].parent = files[j].parent
                          /\ files'[j].name = files[j].name /\ files'[j].type = files[j].type
    BY <2>5, <2>6 DEF RowType
  <2>10. Rows' /\ NamesStay
    BY <1>6, <1>7, <2>8, <2>9, RowsSized
  <2>11. calm => \A j \in TreeId : files'[j].status # "pending"
    BY <1>5, <2>9
  <2> QED  BY <1>2, <2>10, <2>11, Answers
<1>8. CASE /\ Named(n, p) = {} /\ made < MaxId
           /\ files' = Inserted(Row(p, n, "file", 1)) /\ made' = made + 1
  <2>1. 1 \in 0..MaxId
    BY <1>6, <1>8, TreeAssumption DEF Rows
  <2>2. Rows' /\ NamesStay /\ \A i \in TreeId : files'[i].status \in {files[i].status, "active"}
    BY <1>4, <1>6, <1>8, <2>1, RowsInsert
  <2>3. calm => \A j \in TreeId : files'[j].status # "pending"
    BY <1>5, <2>2
  <2> QED  BY <1>2, <2>2, <2>3, Answers
<1> QED  BY <1>1, <1>3, <1>7, <1>8 DEF CreateFile

LEMMA Moves == ASSUME TreeInv, NEW r \in Request, MoveFile(r) PROVE TreeInv'
<1>1. PICK d : d = request[r]
  OBVIOUS
<1>2. d \in RequestType /\ Legal(d) /\ d.op = "move" /\ Answer(r) /\ made' = made /\ left' \in 0..Changes
  BY <1>1 DEF TreeInv, Requests, MoveFile
<1>3. PICK m, p, n : m = d.id /\ p = d.at /\ n = d.name
  OBVIOUS
<1>4. m \in TreeId /\ m # Root /\ p \in TreeId /\ n \in Name \cup {NoName}
  BY <1>2, <1>3 DEF Legal, RequestType
<1>5. Rows
  BY DEF TreeInv
<1>6. CASE UNCHANGED <<files, calm>>
  <2>1. Rows' /\ NamesStay
    BY <1>2, <1>5, <1>6, RowsRest
  <2>2. calm => \A j \in TreeId : files'[j].status # "pending"
    BY <1>6 DEF TreeInv, Undisturbed
  <2> QED  BY <1>2, <1>6, <2>1, <2>2, Answers
<1>7. CASE files[m].status = "active" /\ Unique(Moved(d)) /\ files' = Moved(d) /\ calm' = FALSE
  <2>1. PICK gone : gone = Cleared(d)
    OBVIOUS
  <2>2. \A i \in gone : i \in 1..made /\ i \in TreeId /\ i # m
    BY <1>3, <1>5, <2>1, NamedOne DEF Cleared
  <2>3. PICK new : new = [files[m] EXCEPT !.parent = p, !.name = IF n = NoName THEN files[m].name ELSE n]
    OBVIOUS
  <2>4. \A i \in TreeId : files'[i] = IF i \in gone THEN NoRow ELSE IF i = m THEN new ELSE files[i]
    BY <1>3, <1>7, <2>1, <2>3 DEF Moved
  <2>5. \A i \in TreeId : files[i] \in RowType
    BY <1>5 DEF Rows
  <2>6. m \in 1..MaxId /\ m \in 1..made /\ files[m].name \in Name /\ files[m].type # "none"
    BY <1>4, <1>5, <1>7, RootIs, TreeAssumption DEF Rows
  <2>7. /\ new \in RowType /\ new.status = "active" /\ new.parent = p /\ new.name \in Name /\ new.type # "none"
    BY <1>4, <1>7, <2>3, <2>5, <2>6 DEF RowType
  <2>8. NoRow \in RowType /\ NoRow.status = "none" /\ NoRow.parent = Nil
    BY DEF NoRow, RowType
  <2>9. files' \in [TreeId -> RowType]
    <3>1. \A i \in TreeId : files'[i] \in RowType
      BY <2>4, <2>5, <2>7, <2>8
    <3>2. files' = [i \in TreeId |-> files'[i]]
      BY <1>7 DEF Moved
    <3> QED  BY <3>1, <3>2
  <2>10. ASSUME NEW i \in TreeId
         PROVE  /\ files'[i].parent = Nil <=> i = Root \/ files'[i].status = "none"
                /\ i > made => files'[i].status = "none"
                /\ i \in 1..MaxId /\ files'[i].status = "active" => files'[i].name \in Name /\ files'[i].type # "none"
    <3>1. CASE i \in gone
      <4>1. files'[i] = NoRow
        BY <2>4, <3>1
      <4> QED  BY <2>8, <4>1
    <3>2. CASE i = m /\ i \notin gone
      <4>1. files'[i] = new /\ ~(i > made) /\ p # Nil
        BY <1>4, <1>5, <2>4, <2>6, <3>2, RootIs, TreeAssumption DEF Rows
      <4> QED  BY <1>4, <2>7, <3>2, <4>1
    <3>3. CASE i # m /\ i \notin gone
      <4>1. files'[i] = files[i]
        BY <2>4, <3>3
      <4>2. /\ files[i].parent = Nil <=> i = Root \/ files[i].status = "none"
            /\ i > made => files[i].status = "none"
            /\ i \in 1..MaxId /\ files[i].status = "active" => files[i].name \in Name /\ files[i].type # "none"
        BY <1>5 DEF Rows
      <4> QED  BY <4>1, <4>2
    <3> QED  BY <3>1, <3>2, <3>3
  <2>11. files'[Root] = files[Root]
    <3>1. Root \notin gone
      BY <1>5, <2>2, TreeAssumption DEF Rows, Root
    <3> QED  BY <1>4, <2>4, <3>1, RootIs
  <2>12. Unique(files')
    BY <1>7
  <2>13. Rows'
    BY <1>2, <1>5, <2>9, <2>10, <2>11, <2>12, RootIs DEF Rows
  <2>14. /\ NoRequest \in RequestType /\ Legal(NoRequest)
         /\ request' = [request EXCEPT ![r] = NoRequest]
    BY <1>2, NoRequestIs DEF Answer
  <2>15. Requests'
    BY <2>14 DEF TreeInv, Requests
  <2>16. Undisturbed'
    BY <1>7 DEF Undisturbed
  <2> QED  BY <1>2, <1>7, <2>13, <2>15, <2>16 DEF TreeInv
<1> QED  BY <1>1, <1>3, <1>6, <1>7 DEF MoveFile

LEMMA Ends == ASSUME TreeInv, Purge \/ \E i \in 1..made : Delete(i) PROVE TreeInv'
<1>1. Rows /\ left \in 0..Changes
  BY DEF TreeInv
<1>2. \A i \in TreeId : files[i] \in RowType
  BY <1>1 DEF Rows
<1>3. ASSUME NEW i \in 1..made, Delete(i) PROVE TreeInv'
  <2>1. PICK S : S = Below(i)
    OBVIOUS
  <2>2. \A j \in TreeId : files'[j] = IF j \in S THEN [files[j] EXCEPT !.status = "pending"] ELSE files[j]
    BY <1>3, <2>1 DEF Delete
  <2>3. \A j \in S : j \in 1..made /\ files[j].status # "none"
    BY <2>1 DEF Below
  <2>4. Root \notin S
    BY <1>1, <2>3, TreeAssumption DEF Rows, Root
  <2>5. files' \in [TreeId -> RowType]
    <3>1. \A j \in TreeId : files'[j] \in RowType
      <4>1. \A x \in RowType : [x EXCEPT !.status = "pending"] \in RowType
        BY DEF RowType
      <4> QED  BY <1>2, <2>2, <4>1
    <3>2. files' = [j \in TreeId |-> files'[j]]
      BY <1>3 DEF Delete
    <3> QED  BY <3>1, <3>2
  <2>6. made' = made /\ request' = request /\ calm' = FALSE /\ left' \in 0..Changes
    BY <1>1, <1>3, TreeAssumption DEF Delete
  <2>7. Rows'
    BY <1>1, <2>2, <2>3, <2>4, <2>5, <2>6, RowsEnd
  <2> QED  BY <2>6, <2>7, NoneWaits
<1>4. CASE Purge
  <2>1. \A j \in TreeId : files'[j] = IF files[j].status = "pending" THEN NoRow ELSE files[j]
    BY <1>4 DEF Purge
  <2>2. NoRow \in RowType
    BY DEF NoRow, RowType
  <2>3. files' \in [TreeId -> RowType]
    <3>1. \A j \in TreeId : files'[j] \in RowType
      BY <1>2, <2>1, <2>2
    <3>2. files' = [j \in TreeId |-> files'[j]]
      BY <1>4 DEF Purge
    <3> QED  BY <3>1, <3>2
  <2>4. made' = made /\ request' = request /\ calm' = calm /\ left' \in 0..Changes /\ calm \in BOOLEAN
    BY <1>1, <1>4, TreeAssumption DEF Purge, TreeInv
  <2>5. \A j \in TreeId : files[j].status = "pending" => j # Root
    BY <1>1 DEF Rows
  <2>6. Rows'
    BY <1>1, <2>1, <2>3, <2>4, <2>5, RowsEnd
  <2>7. ASSUME calm PROVE NamesStay /\ \A j \in TreeId : files'[j].status # "pending"
    <3>1. \A j \in TreeId : files[j].status # "pending"
      BY <2>7 DEF TreeInv, Undisturbed
    <3>2. \A j \in TreeId : files'[j] = files[j]
      BY <2>1, <3>1
    <3>3. \A j \in 1..made : j \in TreeId
      BY <1>1, TreeAssumption DEF Rows, TreeId
    <3> QED  BY <2>4, <3>1, <3>2, <3>3 DEF NamesStay, Named
  <2> QED  BY <2>4, <2>6, <2>7, NoneWaits
<1> QED  BY <1>3, <1>4

LEMMA CumulativeIs ==
  ASSUME Rows, NEW i
  PROVE  Cumulative(i) = Cardinality(In(Containing(i))) /\ Cumulative(i) \in 0..MaxId
<1>1. made \in Nat /\ made <= MaxId
  BY TreeAssumption DEF Rows
<1>2. PICK S : S = Containing(i)
  OBVIOUS
<1>3. S \in SUBSET (0..made)
  BY <1>2 DEF Containing, Hierarchy
<1>4. IsFiniteSet(S)
  <2>1. IsFiniteSet(0..made)
    BY <1>1, FS_Interval
  <2> QED  BY <1>3, <2>1, FS_Subset
<1>5. Cumulative(i) = Cardinality(In(S))
  BY <1>2, <1>4, SumIs DEF Cumulative
<1>6. Cardinality(In(S)) \in 0..made
  BY InFinite
<1> QED  BY <1>1, <1>2, <1>5, <1>6, TreeAssumption

LEMMA Refreshes == ASSUME TreeInv, RefreshFolderSizes PROVE TreeInv'
<1>1. Rows
  BY DEF TreeInv
<1>2. \A i \in TreeId : files[i] \in RowType
  BY <1>1 DEF Rows
<1>3. \A i \in TreeId : files'[i] = Refreshed(i)
  BY DEF RefreshFolderSizes
<1>4. ASSUME NEW i \in TreeId
      PROVE  /\ files'[i] \in RowType
             /\ files'[i].status = files[i].status /\ files'[i].parent = files[i].parent
             /\ files'[i].name = files[i].name /\ files'[i].type = files[i].type
  <2>1. CASE i \in Hierarchy
    <3>1. PICK c : c = Cumulative(i)
      OBVIOUS
    <3>2. files'[i] = [files[i] EXCEPT !.size = c] /\ c \in 0..MaxId
      BY <1>1, <1>3, <2>1, <3>1, CumulativeIs DEF Refreshed
    <3> QED  BY <1>2, <3>2 DEF RowType
  <2>2. CASE i \notin Hierarchy
    BY <1>2, <1>3, <2>2 DEF Refreshed
  <2> QED  BY <2>1, <2>2
<1>5. files' \in [TreeId -> RowType]
  <2>1. files' = [j \in TreeId |-> files'[j]]
    BY DEF RefreshFolderSizes
  <2> QED  BY <1>4, <2>1
<1>6. made' = made /\ request' = request /\ calm' = calm /\ left' = left
  BY DEF RefreshFolderSizes
<1>7. Rows' /\ NamesStay
  BY <1>1, <1>4, <1>5, <1>6, RowsSized
<1>8. calm => \A j \in TreeId : files'[j].status # "pending"
  BY <1>4 DEF TreeInv, Undisturbed
<1> QED  BY <1>6, <1>7, <1>8, NoneWaits DEF TreeInv

LEMMA TreeStep == TreeInv /\ [TreeNext]_treeVars => TreeInv'
<1> SUFFICES ASSUME TreeInv, [TreeNext]_treeVars PROVE TreeInv'
  OBVIOUS
<1>1. CASE UNCHANGED treeVars
  <2>1. UNCHANGED <<files, made>> /\ request' = request /\ calm' = calm /\ left' = left
    BY <1>1 DEF treeVars
  <2>2. Rows' /\ NamesStay
    BY <2>1, RowsRest DEF TreeInv
  <2>3. calm => \A j \in TreeId : files'[j].status # "pending"
    BY <2>1 DEF TreeInv, Undisturbed
  <2> QED  BY <2>1, <2>2, <2>3, NoneWaits DEF TreeInv
<1> QED  BY <1>1, Begins, Walks, Inserts, Creates, Moves, Ends, Refreshes DEF TreeNext

-----------------------------------------------------------------------------
(* What a climb that meets the root passes: at most all entries, and none  *)
(* of them twice.                                                          *)

LEMMA ClimbOn ==
  ASSUME Rows, NEW i \in TreeId, NEW k \in Nat, NEW m \in Nat
  PROVE  Above(i)[k + m] = Above(Above(i)[k])[m]
<1> DEFINE T == {n \in Nat : Above(i)[k + n] # Above(Above(i)[k])[n]}
<1> SUFFICES ASSUME T # {} PROVE FALSE
  OBVIOUS
<1>1. PICK n \in T : \A y \in T : n <= y
  BY LeastNatural
<1>2. PICK x : x = Above(i)[k]
  OBVIOUS
<1>3. x \in TreeId
  BY <1>2, AboveIs
<1>4. CASE n = 0
  BY <1>1, <1>2, <1>3, <1>4, AboveIs
<1>5. CASE n # 0
  <2>1. n - 1 \in Nat /\ n - 1 \notin T /\ k + (n - 1) \in Nat /\ k + n = (k + (n - 1)) + 1 /\ n = (n - 1) + 1
    BY <1>1, <1>5
  <2>2. Above(i)[k + (n - 1)] = Above(x)[n - 1]
    BY <1>2, <2>1
  <2>3. Above(i)[(k + (n - 1)) + 1] = Parent(Above(i)[k + (n - 1)])
    BY <2>1, AboveIs
  <2>4. Above(x)[(n - 1) + 1] = Parent(Above(x)[n - 1])
    BY <1>3, <2>1, AboveIs
  <2> QED  BY <1>1, <1>2, <2>1, <2>2, <2>3, <2>4
<1> QED  BY <1>4, <1>5

LEMMA AtRoot ==
  ASSUME Rows, NEW i \in TreeId, NEW d \in Nat, Above(i)[d] = Root, NEW k \in Nat, d <= k
  PROVE  Above(i)[k] = Root
<1> DEFINE T == {n \in Nat : Above(Root)[n] # Root}
<1>1. T = {}
  <2> SUFFICES ASSUME T # {} PROVE FALSE
    OBVIOUS
  <2>1. PICK n \in T : \A y \in T : n <= y
    BY LeastNatural
  <2>2. n # 0
    BY <2>1, RootIs, AboveIs
  <2>3. n - 1 \in Nat /\ n - 1 \notin T /\ n = (n - 1) + 1
    BY <2>1, <2>2
  <2>4. Above(Root)[(n - 1) + 1] = Parent(Above(Root)[n - 1])
    BY <2>3, RootIs, AboveIs
  <2> QED  BY <2>1, <2>3, <2>4 DEF Parent
<1>2. k - d \in Nat /\ d + (k - d) = k
  OBVIOUS
<1>3. Above(i)[d + (k - d)] = Above(Root)[k - d]
  BY <1>2, ClimbOn
<1> QED  BY <1>1, <1>2, <1>3

LEMMA Distinct ==
  ASSUME Rows, NEW i \in TreeId, NEW d \in Nat, Above(i)[d] = Root,
         \A l \in 0..(d - 1) : Above(i)[l] # Root,
         NEW k \in 0..(d - 1), NEW l \in 0..(d - 1), k < l
  PROVE  Above(i)[k] # Above(i)[l]
<1> SUFFICES ASSUME Above(i)[k] = Above(i)[l] PROVE FALSE
  OBVIOUS
<1>1. PICK m : m = d - l
  OBVIOUS
<1>2. m \in Nat /\ l + m = d /\ k + m \in 0..(d - 1) /\ k \in Nat /\ l \in Nat
  BY <1>1
<1>3. Above(i)[l + m] = Above(Above(i)[l])[m] /\ Above(i)[k + m] = Above(Above(i)[k])[m]
  BY <1>2, ClimbOn
<1> QED  BY <1>2, <1>3

\* An entry outside the folders above j leaves room for a climb that begins there.
LEMMA Room ==
  ASSUME Rows, NEW j \in TreeId, NEW d \in 0..made, Above(j)[d] = Root,
         \A l \in 0..(d - 1) : Above(j)[l] # Root,
         \A x \in Climb(j) \ {Root} : files[x].status = "active" /\ files[x].type = "folder",
         NEW f \in 1..made, files[f].type # "folder"
  PROVE  d < made
<1>1. made \in Nat /\ d \in Nat /\ made <= MaxId
  BY TreeAssumption DEF Rows
<1>2. ASSUME NEW l \in 0..(d - 1) PROVE Above(j)[l] \in 1..made /\ Above(j)[l] # f
  <2>1. PICK x : x = Above(j)[l]
    OBVIOUS
  <2>2. x \in TreeId /\ x # Root /\ x \in Climb(j)
    BY <1>1, <2>1, AboveIs DEF Climb
  <2>3. files[x].status = "active" /\ files[x].type = "folder"
    BY <2>2
  <2>4. x \in 1..MaxId
    BY <2>2, RootIs
  <2>5. x <= made
    BY <1>1, <2>2, <2>3, <2>4, TreeAssumption DEF Rows
  <2> QED  BY <1>1, <2>1, <2>3, <2>4, <2>5, TreeAssumption
<1> DEFINE g == [l \in 0..d |-> IF l = d THEN f ELSE Above(j)[l]]
<1>3. g \in [0..d -> 1..made]
  BY <1>1, <1>2
<1>4. ASSUME NEW k \in 0..d, NEW l \in 0..d, k < l PROVE g[k] # g[l]
  <2>1. k \in 0..(d - 1) /\ g[k] = Above(j)[k]
    BY <1>1, <1>4
  <2>2. CASE l = d
    BY <1>2, <2>1, <2>2
  <2>3. CASE l # d
    <3>1. l \in 0..(d - 1) /\ g[l] = Above(j)[l]
      BY <1>1, <2>3
    <3> QED  BY <1>1, <1>4, <2>1, <3>1, Distinct
  <2> QED  BY <2>2, <2>3
<1> HIDE DEF g
<1>5. \A k, l \in 0..d : g[k] = g[l] => k = l
  <2> SUFFICES ASSUME NEW k \in 0..d, NEW l \in 0..d, g[k] = g[l], k # l PROVE FALSE
    OBVIOUS
  <2>1. k < l \/ l < k
    BY <1>1
  <2> QED  BY <1>4, <2>1
<1>6. g \in Injection(0..d, 1..made)
  BY <1>3, <1>5 DEF Injection, IsInjective
<1>7. IsFiniteSet(1..made) /\ Cardinality(1..made) = made /\ Cardinality(0..d) = d + 1
  BY <1>1, FS_Interval
<1>8. Cardinality(0..d) <= Cardinality(1..made)
  BY <1>6, <1>7, FS_Injection
<1> QED  BY <1>1, <1>7, <1>8

\* The folder of a file, seen from the file and from the root.
LEMMA FolderOf ==
  ASSUME Rows, NEW f \in 1..made, NEW j \in TreeId, files[f].parent = j
  PROVE  f \in TreeId /\ f # Root /\ Above(f)[0] = f /\ \A k \in Nat : Above(f)[k + 1] = Above(j)[k]
<1>1. f \in TreeId /\ f # Root
  BY TreeAssumption DEF Rows, TreeId, Root
<1>2. Above(f)[0] = f /\ Above(f)[0 + 1] = Parent(f)
  BY <1>1, AboveIs
<1>3. Parent(f) = j
  BY <1>1, RootIs DEF Parent
<1>4. ASSUME NEW k \in Nat PROVE Above(f)[k + 1] = Above(j)[k]
  <2>1. Above(f)[1 + k] = Above(Above(f)[1])[k]
    BY <1>1, ClimbOn
  <2>2. 1 + k = k + 1 /\ 0 + 1 = 1
    OBVIOUS
  <2> QED  BY <1>2, <1>3, <2>1, <2>2
<1> QED  BY <1>1, <1>2, <1>4

LEMMA Downwards ==
  ASSUME Rows, NEW f \in 1..made, NEW j \in Hierarchy, files[f].parent = j,
         files[f].type # "folder", files[f].status = "active"
  PROVE  Climb(j) \subseteq Climb(f) \ {f} /\ Visible(f) /\ InFolders(f)
<1>1. made \in Nat /\ made <= MaxId /\ j \in TreeId
  BY TreeAssumption DEF Rows, Hierarchy, TreeId
<1>2. f \in TreeId /\ f # Root /\ Above(f)[0] = f /\ \A k \in Nat : Above(f)[k + 1] = Above(j)[k]
  BY <1>1, FolderOf
<1>3. \A x \in Climb(j) \ {Root} : files[x].status = "active" /\ files[x].type = "folder"
  BY DEF Hierarchy, Visible, InFolders
<1>4. PICK d \in 0..made : Above(j)[d] = Root /\ \A l \in 0..(d - 1) : Above(j)[l] # Root
  BY <1>1, UpToRoot DEF Hierarchy, Visible
<1>5. d < made /\ d \in Nat
  BY <1>1, <1>3, <1>4, Room
<1>6. ASSUME NEW x \in Climb(j) PROVE x \in Climb(f) \ {f}
  <2>1. PICK k \in 0..made : x = Above(j)[k]
    BY DEF Climb
  <2>2. x # f
    BY <1>2, <1>3, <1>6
  <2>3. CASE k < made
    <3>1. k + 1 \in 0..made /\ k \in Nat
      BY <1>1, <2>3
    <3> QED  BY <1>2, <2>1, <2>2, <3>1 DEF Climb
  <2>4. CASE ~(k < made)
    <3>1. k \in Nat /\ d <= k
      BY <1>1, <1>5, <2>4
    <3>2. x = Root
      BY <1>1, <1>4, <1>5, <2>1, <3>1, AtRoot
    <3>3. d + 1 \in 0..made /\ Above(f)[d + 1] = Root
      BY <1>1, <1>2, <1>4, <1>5
    <3> QED  BY <2>2, <3>2, <3>3 DEF Climb
  <2> QED  BY <2>3, <2>4
<1>7. ASSUME NEW x \in Climb(f), x # f PROVE x \in Climb(j)
  <2>1. PICK k \in 0..made : x = Above(f)[k]
    BY DEF Climb
  <2>2. k # 0
    BY <1>2, <1>7, <2>1
  <2>3. k - 1 \in 0..made /\ k - 1 \in Nat /\ (k - 1) + 1 = k
    BY <1>1, <2>2
  <2>4. Above(f)[(k - 1) + 1] = Above(j)[k - 1]
    BY <1>2, <2>3
  <2> QED  BY <2>1, <2>3, <2>4 DEF Climb
<1>8. Root \in Climb(f)
  BY <1>6 DEF Hierarchy, Visible
<1> QED  BY <1>3, <1>6, <1>7, <1>8 DEF Visible, InFolders

LEMMA Upwards ==
  ASSUME Rows, NEW f \in 1..made, files[f].type # "folder", Visible(f), InFolders(f)
  PROVE  /\ files[f].status = "active" /\ files[f].parent \in Hierarchy
         /\ Climb(f) \ {f} \subseteq Climb(files[f].parent)
<1>1. made \in Nat /\ made <= MaxId /\ f \in TreeId /\ f # Root
  BY TreeAssumption DEF Rows, TreeId, Root
<1>2. Above(f)[0] = f
  BY <1>1, AboveIs
<1>3. f \in Climb(f)
  BY <1>1, <1>2 DEF Climb
<1>4. files[f].status = "active"
  BY <1>1, <1>3 DEF Visible
<1>5. PICK j : j = files[f].parent
  OBVIOUS
<1>6. j \in TreeId
  <2>1. files[f] \in RowType
    BY <1>1 DEF Rows
  <2>2. files[f].parent # Nil
    <3>1. files[f].parent = Nil <=> f = Root \/ files[f].status = "none"
      BY <1>1 DEF Rows
    <3> QED  BY <1>1, <1>4, <3>1
  <2> QED  BY <1>5, <2>1, <2>2 DEF RowType
<1>7. \A k \in Nat : Above(f)[k + 1] = Above(j)[k]
  BY <1>5, <1>6, FolderOf
<1>8. PICK d \in 0..made : Above(f)[d] = Root /\ \A l \in 0..(d - 1) : Above(f)[l] # Root
  BY <1>1, UpToRoot DEF Visible
<1>9. d \in Nat /\ d # 0
  BY <1>1, <1>2, <1>8
<1>10. ASSUME NEW x \in Climb(f), x # f PROVE x \in Climb(j)
  <2>1. PICK k \in 0..made : x = Above(f)[k]
    BY DEF Climb
  <2>2. k # 0
    BY <1>2, <1>10, <2>1
  <2>3. k - 1 \in 0..made /\ k - 1 \in Nat /\ (k - 1) + 1 = k
    BY <1>1, <2>2
  <2>4. Above(f)[(k - 1) + 1] = Above(j)[k - 1]
    BY <1>7, <2>3
  <2> QED  BY <2>1, <2>3, <2>4 DEF Climb
<1>11. ASSUME NEW x \in Climb(j) PROVE x \in Climb(f) \ {f}
  <2>1. PICK k \in 0..made : x = Above(j)[k]
    BY DEF Climb
  <2>2. k \in Nat /\ x = Above(f)[k + 1] /\ k + 1 \in Nat
    BY <1>1, <1>7, <2>1
  <2>3. CASE d <= k + 1
    <3>1. x = Root
      BY <1>1, <1>8, <1>9, <2>2, <2>3, AtRoot
    <3> QED  BY <1>1, <3>1 DEF Visible
  <2>4. CASE ~(d <= k + 1)
    <3>1. k + 1 \in 0..made /\ k + 1 \in 0..(d - 1) /\ 0 \in 0..(d - 1) /\ 0 < k + 1
      BY <1>1, <1>9, <2>2, <2>4
    <3>2. Above(f)[0] # Above(f)[k + 1]
      BY <1>1, <1>8, <1>9, <3>1, Distinct
    <3> QED  BY <1>2, <2>2, <3>1, <3>2 DEF Climb
  <2> QED  BY <2>3, <2>4
<1>12. Root \in Climb(j)
  BY <1>1, <1>10 DEF Visible
<1>13. \A x \in Climb(j) \ {Root} : files[x].status = "active" /\ files[x].type = "folder"
  BY <1>11 DEF Visible, InFolders
<1>14. j \in Climb(j)
  <2>1. Above(j)[0] = j /\ 0 \in 0..made
    BY <1>1, <1>6, AboveIs
  <2> QED  BY <2>1 DEF Climb
<1>15. files[j].type = "folder" /\ j \in 0..made
  <2>1. CASE j = Root
    BY <1>1, <2>1 DEF Rows, Root
  <2>2. CASE j # Root
    <3>1. files[j].status = "active" /\ files[j].type = "folder"
      BY <1>13, <1>14, <2>2
    <3>2. j \in 1..MaxId
      BY <1>6, <2>2, RootIs
    <3>3. j <= made
      BY <1>1, <1>6, <3>1, <3>2, TreeAssumption DEF Rows
    <3> QED  BY <1>1, <3>1, <3>2, <3>3, TreeAssumption
  <2> QED  BY <2>1, <2>2
<1>16. j \in Hierarchy
  BY <1>12, <1>13, <1>15 DEF Hierarchy, Visible, InFolders
<1> QED  BY <1>4, <1>5, <1>10, <1>16

LEMMA SizesAre == Rows => SizesAddUp
<1> SUFFICES ASSUME Rows, NEW i \in 1..made, files[i].type = "folder", Visible(i), InFolders(i)
             PROVE  Refreshed(i).size = Cardinality(FilesBelow(i))
  BY DEF SizesAddUp
<1>1. i \in TreeId /\ files[i] \in RowType /\ i \in 0..made
  BY TreeAssumption DEF Rows, TreeId
<1>2. i \in Hierarchy
  BY <1>1 DEF Hierarchy
<1>3. Refreshed(i).size = Cumulative(i)
  BY <1>1, <1>2 DEF Refreshed, RowType
<1>4. ASSUME NEW f \in In(Containing(i)) PROVE f \in FilesBelow(i)
  <2>1. PICK j : j = files[f].parent
    OBVIOUS
  <2>2. /\ f \in 1..made /\ files[f].type # "folder" /\ files[f].status = "active"
        /\ j \in Hierarchy /\ i \in Climb(j)
    BY <2>1 DEF In, Containing
  <2>3. i \in Climb(f) \ {f} /\ Visible(f) /\ InFolders(f)
    BY <2>1, <2>2, Downwards
  <2>4. files[f].type = "file"
    <3>1. f \in TreeId /\ f \in 1..MaxId
      BY <2>2, TreeAssumption DEF Rows, TreeId
    <3>2. files[f] \in RowType /\ files[f].type # "none"
      BY <2>2, <3>1 DEF Rows
    <3> QED  BY <2>2, <3>2 DEF RowType
  <2> QED  BY <2>2, <2>3, <2>4 DEF FilesBelow
<1>5. ASSUME NEW f \in FilesBelow(i) PROVE f \in In(Containing(i))
  <2>1. /\ f \in 1..made /\ files[f].type # "folder" /\ Visible(f) /\ InFolders(f)
        /\ i \in Climb(f) \ {f}
    BY DEF FilesBelow
  <2>2. /\ files[f].status = "active" /\ files[f].parent \in Hierarchy
        /\ i \in Climb(files[f].parent)
    BY <2>1, Upwards
  <2> QED  BY <2>1, <2>2 DEF In, Containing
<1>6. In(Containing(i)) = FilesBelow(i)
  BY <1>4, <1>5
<1> QED  BY <1>3, <1>6, CumulativeIs

-----------------------------------------------------------------------------
(* What follows.                                                           *)

LEMMA TreeInvariant == TreeSpec => []TreeInv
BY TreeStart, TreeStep, PTL DEF TreeSpec

\* Every reachable state of the tree has its type, and no entry but the root is
\* without a parent, for any drive, names, requests and number of entries.
THEOREM TreeTypeCorrect == TreeSpec => []TreeTypeOK
<1>1. TreeInv => TreeTypeOK
  <2> SUFFICES ASSUME TreeInv PROVE TreeTypeOK
    OBVIOUS
  <2>1. \A i \in TreeId : files[i] \in RowType
    BY DEF TreeInv, Rows
  <2>2. \A r \in Request : request[r] \in RequestType
    BY DEF TreeInv, Requests
  <2>3. \A i \in TreeId : /\ files[i].status \in {"none", "active", "pending"}
                          /\ files[i].parent \in TreeId \cup {Nil}
                          /\ files[i].size \in 0..MaxId \cup {NoSize}
    BY <2>1 DEF RowType
  <2>4. \A r \in Request : request[r].at \in TreeId /\ request[r].id \in TreeId
    BY <2>2 DEF RequestType
  <2> QED  BY <2>3, <2>4 DEF TreeTypeOK, TreeInv, Rows
<1> QED  BY <1>1, TreeInvariant, PTL

\* The path that GetFullPath shows for an entry in sight is the one by which
\* ResolvePathID finds it, whatever was created, moved, overwritten, deleted and
\* purged before, as the index keeps names apart.
THEOREM PathsRoundTrip == TreeSpec => []RoundTrip
<1>1. TreeInv => RoundTrip
  BY PathLeadsBack DEF TreeInv, RoundTrip
<1> QED  BY <1>1, TreeInvariant, PTL

\* Any number of requests that make the folders of one path at once, each a name
\* at a time and with no lock, end at the folder the path leads to, as long as
\* nothing is moved or deleted (CreateDirectories).
THEOREM FoldersAgree == TreeSpec => []SameFolder
<1>1. TreeInv => SameFolder
  <2> SUFFICES ASSUME TreeInv, NEW r \in Request, calm, request[r].op = "mkdir", request[r].st = "done"
               PROVE  ResolvePathID(request[r].path) = request[r].at
    BY DEF SameFolder
  <2>1. PICK d : d = request[r]
    OBVIOUS
  <2>2. PICK path : path = d.path
    OBVIOUS
  <2>3. d \in RequestType /\ d.rest = <<>> /\ path \in Seq(Name) /\ Walked(d) /\ d.op = "mkdir"
    BY <2>1, <2>2 DEF TreeInv, Requests, Legal, Undisturbed, RequestType
  <2>4. Len(path) \in Nat /\ Len(<<>>) = 0 /\ Len(path) - 0 = Len(path)
    BY <2>3
  <2>5. PICK w : Leads(path, w, Len(path)) /\ w[Len(path)] = d.at
    BY <2>2, <2>3, <2>4 DEF Walked
  <2> QED  BY <2>1, <2>2, <2>3, <2>5, ResolveIs DEF TreeInv
<1> QED  BY <1>1, TreeInvariant, PTL

\* The refresh of sizes gives every folder in sight the number of files below it,
\* at any depth and each once, in every state (RefreshFolderSizesByUser): the
\* hierarchy that it builds has no cycle in sight of the root.
THEOREM SizesAlwaysAddUp == TreeSpec => []SizesAddUp
<1>1. TreeInv => SizesAddUp
  BY SizesAre DEF TreeInv
<1> QED  BY <1>1, TreeInvariant, PTL
=============================================================================
