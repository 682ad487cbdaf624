------------------------- MODULE SnapshotCopyProofs -------------------------
(***************************************************************************)
(* Proofs about SnapshotCopy: for every checkout, every limit and any      *)
(* number of changes beside the copy, the limits hold at each step, nothing *)
(* under a mount point is in a snapshot that is used, a file enters the    *)
(* digest as it is at that moment, the digest says what the copy holds in  *)
(* one order, and a complete copy holds every entry that stood still.      *)
(***************************************************************************)
EXTENDS SnapshotCopy, InductionProofs, FiniteSetTheorems, SequenceTheorems, TLAPS

---------------------------------------------------------------------------
(* Names and paths *)

\* The entries of a directory, which differ in their names, can be listed by rank.
LEMMA SortedIsList ==
  ASSUME NEW S, IsFiniteSet(S),
         \A e \in S : Last(e.path) \in Nat,
         \A e, f \in S : e # f => Last(e.path) # Last(f.path)
  PROVE  /\ Sorted(S) \in Seq(S)
         /\ \A e \in S : \E k \in DOMAIN Sorted(S) : Sorted(S)[k] = e
         /\ \A j, k \in DOMAIN Sorted(S) :
              j < k => Last(Sorted(S)[j].path) < Last(Sorted(S)[k].path)
<1> DEFINE n == Cardinality(S)
           Lower(e) == {f \in S : ByName(f, e)}
           below == [e \in S |-> Cardinality(Lower(e))]
           rank == [e \in S |-> below[e] + 1]
<1>1. n \in Nat
  BY FS_CardinalityType
<1>2. \A e \in S : IsFiniteSet(Lower(e))
  <2> TAKE e \in S
  <2>1. Lower(e) \in SUBSET S
    OBVIOUS
  <2>2. QED
    BY <2>1, FS_Subset
<1>3. \A e \in S : below[e] = Cardinality(Lower(e)) /\ below[e] \in Nat
  <2> TAKE e \in S
  <2>1. Cardinality(Lower(e)) \in Nat
    BY <1>2, FS_CardinalityType
  <2>2. QED
    BY <2>1
<1>4. \A e \in S : below[e] < n
  <2> TAKE e \in S
  <2>1. Lower(e) \in SUBSET S /\ e \notin Lower(e)
    BY DEF ByName
  <2>2. Cardinality(Lower(e)) <= n /\ Cardinality(Lower(e)) # n
    BY <2>1, FS_Subset
  <2> HIDE DEF Lower, n, below
  <2>3. QED
    BY <1>1, <1>3, <2>2
<1>5. \A e, f \in S : ByName(e, f) => below[e] # below[f]
  <2> SUFFICES ASSUME NEW e \in S, NEW f \in S, ByName(e, f)
               PROVE  below[e] # below[f]
    OBVIOUS
  <2>1. \A g \in S : ByName(g, e) => ByName(g, f)
    BY DEF ByName
  <2>2. Lower(e) \in SUBSET Lower(f) /\ e \in Lower(f) /\ e \notin Lower(e)
    BY <2>1 DEF ByName
  <2>3. Cardinality(Lower(f)) = Cardinality(Lower(e)) => Lower(f) = Lower(e)
    BY <1>2, <2>2, FS_Subset
  <2> HIDE DEF Lower, below
  <2>4. QED
    BY <1>3, <2>2, <2>3
<1>6. \A e, f \in S : e # f => ByName(e, f) \/ ByName(f, e)
  BY DEF ByName
<1>19. \A e, f \in S : ByName(e, f) => below[e] <= below[f]
  <2> SUFFICES ASSUME NEW e \in S, NEW f \in S, ByName(e, f)
               PROVE  Cardinality(Lower(e)) <= Cardinality(Lower(f))
    BY <1>3
  <2>1. \A g \in S : ByName(g, e) => ByName(g, f)
    BY DEF ByName
  <2>2. Lower(e) \in SUBSET Lower(f)
    BY <2>1
  <2>3. QED
    BY <1>2, <2>2, FS_Subset
<1> HIDE DEF Lower, below, n
<1>7. rank \in [S -> 1 .. n]
  BY <1>1, <1>3, <1>4
<1>8. \A e, f \in S : rank[e] = rank[f] => e = f
  BY <1>3, <1>5, <1>6
<1> HIDE DEF rank
<1>9. rank \in Injection(S, 1 .. n)
  BY <1>7, <1>8 DEF Injection, IsInjective
<1>10. IsFiniteSet(1 .. n) /\ Cardinality(1 .. n) = n
  <2>1. 1 \in Int /\ n \in Int
    BY <1>1
  <2>2. /\ IsFiniteSet(1 .. n)
        /\ Cardinality(1 .. n) = IF 1 > n THEN 0 ELSE n - 1 + 1
    BY <2>1, FS_Interval
  <2>3. QED
    BY <1>1, <2>2
<1>11. rank \in Surjection(S, 1 .. n)
  BY <1>9, <1>10, FS_Injection DEF n
<1>12. \A k \in 1 .. n : \E e \in S : below[e] = k - 1
  <2> TAKE k \in 1 .. n
  <2>1. PICK e \in S : rank[e] = k
    BY <1>11 DEF Surjection
  <2>2. QED
    BY <1>1, <1>3, <2>1 DEF rank
<1>13. \A k \in 1 .. n : (CHOOSE e \in S : Cardinality(Lower(e)) = k - 1) \in S
  <2> TAKE k \in 1 .. n
  <2>1. \E e \in S : Cardinality(Lower(e)) = k - 1
    BY <1>3, <1>12
  <2>2. QED
    BY <2>1
<1>14. Sorted(S) = [k \in 1 .. n |-> CHOOSE e \in S : Cardinality(Lower(e)) = k - 1]
  BY DEF Sorted, Lower, n
<1> DEFINE list == [k \in 1 .. n |-> CHOOSE e \in S : Cardinality(Lower(e)) = k - 1]
<1>15. /\ list \in [1 .. n -> S] /\ list = Sorted(S)
       /\ \A k \in 1 .. n : below[list[k]] = k - 1
  <2>1. list \in [1 .. n -> S]
    BY <1>13
  <2>2. Sorted(S) = list
    BY <1>14
  <2>3. \A k \in 1 .. n : below[list[k]] = k - 1
    <3> TAKE k \in 1 .. n
    <3>1. \E e \in S : Cardinality(Lower(e)) = k - 1
      BY <1>3, <1>12
    <3>2. list[k] \in S /\ Cardinality(Lower(list[k])) = k - 1
      BY <3>1
    <3> HIDE DEF list
    <3>3. QED
      BY <1>3, <3>2
  <2>4. QED
    BY <2>1, <2>2, <2>3
<1> HIDE DEF list
<1>16. Sorted(S) \in Seq(S) /\ DOMAIN Sorted(S) = 1 .. n
  BY <1>1, <1>15, SeqDef
<1>17. \A e \in S : \E k \in 1 .. n : list[k] = e
  <2> TAKE e \in S
  <2>1. rank[e] \in 1 .. n /\ below[list[rank[e]]] = rank[e] - 1 /\ list[rank[e]] \in S
    BY <1>7, <1>15
  <2>2. rank[list[rank[e]]] = rank[e]
    BY <1>1, <1>3, <2>1 DEF rank
  <2>3. QED
    BY <1>8, <2>1, <2>2
<1>18. \A j, k \in 1 .. n : j < k => Last(list[j].path) < Last(list[k].path)
  <2> SUFFICES ASSUME NEW j \in 1 .. n, NEW k \in 1 .. n, j < k
               PROVE  ByName(list[j], list[k])
    BY DEF ByName
  <2>1. /\ list[j] \in S /\ list[k] \in S
        /\ below[list[j]] = j - 1 /\ below[list[k]] = k - 1
    BY <1>15
  <2>2. below[list[j]] < below[list[k]]
    BY <1>1, <2>1
  <2>3. CASE ByName(list[k], list[j])
    <3>1. below[list[k]] <= below[list[j]]
      BY <1>19, <2>1, <2>3
    <3>2. QED
      BY <1>3, <2>1, <2>2, <3>1
  <2>4. QED
    BY <1>3, <1>6, <2>1, <2>2, <2>3
<1>20. QED
  BY <1>15, <1>16, <1>17, <1>18

\* What is above a path is the path itself or above its directory.
LEMMA PrefixOfFront ==
  ASSUME NEW p \in Seq(Nat), p # <<>>, NEW m \in Seq(Nat), IsPrefix(m, p)
  PROVE  m = p \/ IsPrefix(m, Front(p))
<1>1. Len(p) \in Nat /\ Len(m) \in Nat /\ Len(p) > 0 /\ Len(m) <= Len(p)
  BY EmptySeq, LenProperties DEF IsPrefix
<1>2. CASE Len(m) = Len(p)
  BY <1>1, <1>2, SubSeqFull DEF IsPrefix
<1>3. CASE Len(m) < Len(p)
  <2>1. Front(p) \in Seq(Nat) /\ Len(Front(p)) = Len(p) - 1
    <3> DEFINE k == Len(p) - 1
    <3>1. k \in Nat /\ 1 \in Int /\ k \in Int /\ \A i \in 1 .. k : p[i] \in Nat
      BY <1>1, ElementOfSeq
    <3> HIDE DEF k
    <3>2. /\ SubSeq(p, 1, k) \in Seq(Nat)
          /\ Len(SubSeq(p, 1, k)) = IF 1 <= k THEN k - 1 + 1 ELSE 0
      BY <3>1, SubSeqProperties
    <3>3. (IF 1 <= k THEN k - 1 + 1 ELSE 0) = k
      BY <3>1
    <3>4. Front(p) = SubSeq(p, 1, k)
      BY DEF Front, k
    <3>5. Len(Front(p)) = k
      BY <3>2, <3>3, <3>4
    <3>6. QED
      BY <3>2, <3>4, <3>5 DEF k
  <2>2. SubSeq(Front(p), 1, Len(m)) = SubSeq(p, 1, Len(m))
    BY <1>1, <1>3 DEF Front
  <2>3. QED
    BY <1>1, <1>3, <2>1, <2>2 DEF IsPrefix
<1>4. QED
  BY <1>1, <1>2, <1>3

---------------------------------------------------------------------------
(* The invariant *)

NodeType == [kind : Kinds, blocks : Seq(Int), mtime : Nat, links : Int]
RecordType == [tag : {"O", "D", "F"}, path : Paths, content : Seq(Int)]
EntriesOf(d) == {e \in [path : Paths \ {<<>>}, dir : BOOLEAN] : Front(e.path) = d}
Reading == {"open", "fstat", "stat", "read", "final"}
Copying == Reading \union {"discard"}

\* Every path names an inode that was made by a change of the past, and was
\* modified in the past.
CheckoutInv ==
  /\ clock \in Nat /\ changes \in Int
  /\ DOMAIN tree \subseteq Paths
  /\ \A p \in DOMAIN tree : tree[p] \in DOMAIN node
  /\ \A i \in DOMAIN node : /\ node[i] \in NodeType /\ node[i].mtime <= clock
                            /\ i.born \in Int /\ i.born <= changes

\* What is to be visited was made, and what is to be inspected is in the
\* directory that is visited.
WalkInv ==
  /\ pc \in {"pop", "scan", "entry", "ready", "failed"} \union Copying
  /\ made \subseteq Paths /\ cwd \in made
  /\ stack \in Seq(made) /\ children \in Seq(made)
  /\ todo \in Seq(EntriesOf(cwd))
  /\ pc \in {"pop", "scan", "ready", "failed"} => todo = <<>>
  /\ pc \in Copying => todo # <<>>

\* Nothing was made or copied under a mount point of the first look, and the
\* second found no other.
MountInv ==
  /\ nested \subseteq Paths \ {<<>>}
  /\ \A m \in nested : Below(m) \intersect (DOMAIN disk \union made) = {}
  /\ pc \in Copying => Path \notin nested
  /\ pc = "ready" => mounts = nested

\* The limits, with the room that is left for the file being copied.
LimitInv ==
  /\ files \in Nat /\ directories \in Nat /\ totalBytes \in Nat /\ entriesSeen \in Nat
  /\ records \in Seq(RecordType)
  /\ \A p \in DOMAIN disk : disk[p] \in Seq(Int)
  /\ pc \in Reading => files < MaxFiles
  /\ pc \in {"read", "final"} => Path \in DOMAIN disk
  /\ BudgetsHold

\* The copy so far is the beginning of the source, unless a change of the source
\* shows in its time, or fell within the tick of the time first seen.
ReadSoFar ==
  /\ Len(disk[Path]) <= Len(node[fd].blocks)
  /\ \A n \in 1 .. Len(disk[Path]) : disk[Path][n] = node[fd].blocks[n]
Noticed == racy \/ actual.mtime < node[fd].mtime
CopyInv ==
  /\ pc \in {"fstat", "stat", "read", "final"} => fd \in DOMAIN node
  /\ pc \in {"stat", "read", "final"} =>
       actual.mtime \in Nat /\ actual.mtime <= node[fd].mtime
  /\ pc = "read" => Noticed \/ ReadSoFar
  /\ pc = "final" => Noticed \/ disk[Path] = node[fd].blocks

SnapshotInv == CheckoutInv /\ WalkInv /\ MountInv /\ LimitInv /\ CopyInv

---------------------------------------------------------------------------
(* Who changes what *)

LEMMA EnvironmentKeeps ==
  Environment => Open /\ UNCHANGED <<pc, walkVars, expected, fd, actual, outVars>>
  BY DEF Environment, Tick, Write, Link, Place, Delete, Mount, Change, walkVars, outVars,
         fileVars

LEMMA CopyKeeps == Advance \/ CopyFails => UNCHANGED checkoutVars
  BY DEF Advance, Pop, Scan, ScanFails, Skip, Stop, MakeDirectory, BeginCopy, Descend, Seal,
         OpenSource, StatSource, CompareSource, ReadChunk, ReadEnds, CheckSource, CopyFails,
         Discard, checkoutVars

LEMMA PathTypes ==
  /\ \A p \in Paths : p \in Seq(Nat)
  /\ IsFiniteSet(Paths) /\ Volatile \subseteq Paths
  BY PathsAssumption

\* An entry that is there has a type and an inode.
LEMMA KindFacts ==
  ASSUME CheckoutInv, NEW p, Kind(p) # "absent"
  PROVE  p \in DOMAIN tree /\ p \in Paths /\ tree[p] \in DOMAIN node
  BY DEF CheckoutInv, Kind

---------------------------------------------------------------------------
(* The checkout *)

\* An edit of a file's blocks leaves blocks.
LEMMA EditsAreBlocks ==
  ASSUME NEW b \in Seq(Int), changes \in Int
  PROVE  Edits(b) \subseteq Seq(Int)
<1>1. \A n \in DOMAIN b : [b EXCEPT ![n] = changes + 1] \in Seq(Int)
  BY ExceptSeq, LenProperties
<1>2. Append(b, changes + 1) \in Seq(Int)
  BY AppendProperties
<1>3. b # <<>> => Front(b) \in Seq(Int)
  <2> SUFFICES ASSUME b # <<>> PROVE Front(b) \in Seq(Int)
    OBVIOUS
  <2> DEFINE k == Len(b) - 1
  <2>1. 1 \in Int /\ k \in Int /\ \A i \in 1 .. k : b[i] \in Int
    BY ElementOfSeq, LenProperties
  <2> HIDE DEF k
  <2>2. SubSeq(b, 1, k) \in Seq(Int)
    BY <2>1, SubSeqProperties
  <2>3. QED
    BY <2>2 DEF Front, k
<1>4. QED
  BY <1>1, <1>2, <1>3 DEF Edits

\* An inode that is written or linked stays one.
LEMMA NodeFields ==
  \A r \in NodeType : r.links \in Int /\ r.mtime \in Nat /\ r.blocks \in Seq(Int)
  BY DEF NodeType

Written(r, b, t) == [r EXCEPT !.blocks = b, !.mtime = t]
Linked(r, l) == [r EXCEPT !.links = l]

LEMMA WrittenNode ==
  ASSUME NEW r \in NodeType, NEW b \in Seq(Int), NEW t \in Nat
  PROVE  /\ Written(r, b, t) \in NodeType
         /\ Written(r, b, t).mtime = t /\ Written(r, b, t).blocks = b
  BY DEF NodeType, Written

LEMMA LinkedNode ==
  ASSUME NEW r \in NodeType, NEW l \in Int
  PROVE  /\ Linked(r, l) \in NodeType
         /\ Linked(r, l).mtime = r.mtime /\ Linked(r, l).blocks = r.blocks
  BY DEF NodeType, Linked

\* Fewer or more links, counted from those there are.
LEMMA LinkedByOne ==
  ASSUME NEW r \in NodeType, NEW n \in Int
  PROVE  /\ Linked(r, r.links - n) \in NodeType /\ Linked(r, n - r.links) \in NodeType
         /\ Linked(r, r.links - n).mtime = r.mtime /\ Linked(r, n - r.links).mtime = r.mtime
         /\ Linked(r, r.links - n).blocks = r.blocks
<1>1. r.links - n \in Int /\ n - r.links \in Int
  BY NodeFields
<1>2. QED
  BY <1>1, LinkedNode

\* Every step keeps the account of the checkout.
LEMMA CheckoutStep == CheckoutInv /\ [Next]_vars => CheckoutInv'
<1> SUFFICES ASSUME CheckoutInv, [Next]_vars PROVE CheckoutInv'
  OBVIOUS
<1> USE DEF CheckoutInv
<1>1. CASE Tick
  BY <1>1, NodeFields DEF Tick
<1>2. ASSUME NEW p \in Volatile, Write(p) PROVE CheckoutInv'
  <2>1. p \in DOMAIN tree /\ tree[p] \in DOMAIN node
    BY <1>2, KindFacts DEF Write
  <2>2. PICK b \in Edits(node[tree[p]].blocks) :
          node' = [node EXCEPT ![tree[p]].blocks = b, ![tree[p]].mtime = clock]
    BY <1>2 DEF Write
  <2>3. b \in Seq(Int)
    BY <2>1, EditsAreBlocks, NodeFields
  <2>4. UNCHANGED <<tree, clock>> /\ changes' = changes + 1
    BY <1>2 DEF Write, Change
  <2> DEFINE s == Written(node[tree[p]], b, clock)
  <2>a. s \in NodeType /\ s.mtime = clock
    BY <2>1, <2>3, WrittenNode
  <2>b. node' = [node EXCEPT ![tree[p]] = s]
    BY <2>2 DEF Written
  <2> HIDE DEF s
  <2>5. \A i \in DOMAIN node : node'[i] \in NodeType /\ node'[i].mtime <= clock
    BY <2>a, <2>b
  <2>6. QED
    BY <2>b, <2>4, <2>5
<1>3. ASSUME NEW p \in Volatile, Link(p) PROVE CheckoutInv'
  <2>1. p \in DOMAIN tree /\ tree[p] \in DOMAIN node
    BY <1>3, KindFacts DEF Link
  <2>2. /\ node' = [node EXCEPT ![tree[p]].links = 3 - @]
        /\ UNCHANGED <<tree, clock>> /\ changes' = changes + 1
    BY <1>3 DEF Link, Change
  <2> DEFINE s == Linked(node[tree[p]], 3 - node[tree[p]].links)
  <2>3. s \in NodeType /\ s.mtime = node[tree[p]].mtime
    <3>1. node[tree[p]] \in NodeType /\ 3 \in Int
      BY <2>1
    <3>2. QED
      BY <3>1, LinkedByOne
  <2>4. node' = [node EXCEPT ![tree[p]] = s]
    BY <2>2 DEF Linked
  <2> HIDE DEF s
  <2>5. \A i \in DOMAIN node : node'[i] \in NodeType /\ node'[i].mtime <= clock
    BY <2>3, <2>4
  <2>6. QED
    BY <2>2, <2>4, <2>5
<1>4. ASSUME NEW p \in Volatile, Delete(p) PROVE CheckoutInv'
  <2>1. PICK gone \in {0, 1} : node' = [node EXCEPT ![tree[p]].links = @ - gone]
    BY <1>4 DEF Delete
  <2>2. /\ tree' = [q \in DOMAIN tree \ Below(p) |-> tree[q]]
        /\ clock' = clock /\ changes' = changes + 1 /\ p \in DOMAIN tree
    BY <1>4 DEF Delete, Change
  <2> DEFINE s == Linked(node[tree[p]], node[tree[p]].links - gone)
  <2>3. tree[p] \in DOMAIN node /\ s \in NodeType /\ s.mtime = node[tree[p]].mtime
    <3>1. tree[p] \in DOMAIN node /\ node[tree[p]] \in NodeType /\ gone \in Int
      BY <2>2
    <3>2. QED
      BY <3>1, LinkedByOne
  <2>4. node' = [node EXCEPT ![tree[p]] = s]
    BY <2>1 DEF Linked
  <2> HIDE DEF s
  <2>5. \A i \in DOMAIN node : node'[i] \in NodeType /\ node'[i].mtime <= clock
    BY <2>3, <2>4
  <2>6. QED
    BY <2>2, <2>4, <2>5
<1>5. ASSUME NEW p \in Volatile, Mount(p) PROVE CheckoutInv'
  BY <1>5 DEF Mount, Change
<1>6. ASSUME NEW p \in Volatile, NEW kind \in {"file", "dir", "link"}, Place(p, kind)
      PROVE  CheckoutInv'
  <2> DEFINE i == Inode(p, changes + 1)
             new == [kind |-> kind, mtime |-> clock, links |-> 1,
                     blocks |-> IF kind = "file" THEN <<changes + 1>> ELSE <<>>]
             cut == [j \in DOMAIN node |-> Linked(node[j], node[j].links - 1)]
  <2>1. /\ tree' = [q \in {p} \union (DOMAIN tree \ Below(p)) |-> IF q = p THEN i ELSE tree[q]]
        /\ node' = [j \in {i} \union DOMAIN node |->
                      IF j = i THEN new
                      ELSE IF p \in DOMAIN tree /\ j = tree[p] THEN cut[j] ELSE node[j]]
        /\ clock' = clock /\ changes' = changes + 1
    BY <1>6 DEF Place, Change, Linked
  <2>2. new \in NodeType /\ new.mtime <= clock
    <3>1. <<>> \in Seq(Int) /\ <<changes + 1>> \in Seq(Int)
      BY EmptySeq
    <3>2. QED
      BY <3>1 DEF NodeType, Kinds
  <2>3. \A j \in DOMAIN node : cut[j] \in NodeType /\ cut[j].mtime <= clock
    <3> TAKE j \in DOMAIN node
    <3>1. node[j] \in NodeType /\ node[j].mtime <= clock /\ 1 \in Int
      OBVIOUS
    <3>2. QED
      BY <3>1, LinkedByOne
  <2>4. i.born = changes + 1 /\ p \in Paths
    BY PathTypes DEF Inode
  <2> HIDE DEF i, new, cut
  <2>5. \A j \in DOMAIN node' : node'[j] \in NodeType /\ node'[j].mtime <= clock
    <3> TAKE j \in DOMAIN node'
    <3>1. CASE j = i
      BY <2>1, <2>2, <3>1
    <3>2. CASE j # i
      <4>1. j \in DOMAIN node /\ (node'[j] = cut[j] \/ node'[j] = node[j])
        BY <2>1, <3>2
      <4>2. QED
        BY <2>3, <4>1
    <3>3. QED
      BY <3>1, <3>2
  <2>6. DOMAIN node' = {i} \union DOMAIN node
    BY <2>1
  <2>7. \A j \in DOMAIN node' : j.born \in Int /\ j.born <= changes'
    BY <2>1, <2>4, <2>6
  <2>8. DOMAIN tree' = {p} \union (DOMAIN tree \ Below(p))
    BY <2>1
  <2>9. \A q \in DOMAIN tree' : q \in Paths /\ tree'[q] \in DOMAIN node'
    BY <2>1, <2>4, <2>6, <2>8
  <2>10. clock' = clock /\ changes' \in Int
    BY <2>1
  <2>11. QED
    BY <2>5, <2>7, <2>9, <2>10
<1>7. CASE Advance \/ CopyFails \/ UNCHANGED vars
  BY <1>7, CopyKeeps DEF vars, checkoutVars
<1>8. QED
  BY <1>1, <1>2, <1>3, <1>4, <1>5, <1>6, <1>7 DEF Next, Environment

---------------------------------------------------------------------------
(* The walk *)

LEMMA EntriesAreEntries ==
  ASSUME CheckoutInv
  PROVE  /\ Entries(cwd) \subseteq EntriesOf(cwd)
         /\ \A S \in SUBSET Entries(cwd) :
              /\ Sorted(S) \in Seq(S) /\ Cardinality(S) \in Nat
              /\ \A e \in S : \E k \in DOMAIN Sorted(S) : Sorted(S)[k] = e
              /\ \A j, k \in DOMAIN Sorted(S) :
                   j < k => Last(Sorted(S)[j].path) < Last(Sorted(S)[k].path)
<1>1. Entries(cwd) \subseteq EntriesOf(cwd)
  <2> SUFFICES ASSUME NEW p \in DOMAIN tree, p # <<>>, Front(p) = cwd
               PROVE  [path |-> p, dir |-> Kind(p) = "dir"] \in EntriesOf(cwd)
    BY DEF Entries
  <2>1. p \in Paths \ {<<>>} /\ (Kind(p) = "dir") \in BOOLEAN
    BY DEF CheckoutInv
  <2>2. QED
    BY <2>1 DEF EntriesOf
<1>2. \A e \in Entries(cwd) : /\ e.path \in Seq(Nat) /\ e.path # <<>> /\ Front(e.path) = cwd
                              /\ e = [path |-> e.path, dir |-> Kind(e.path) = "dir"]
  BY PathTypes DEF Entries, CheckoutInv
<1>3. \A e \in Entries(cwd) : Last(e.path) \in Nat /\ Len(e.path) \in Nat \ {0}
  <2> TAKE e \in Entries(cwd)
  <2>1. Len(e.path) \in Nat /\ Len(e.path) # 0
    BY <1>2, EmptySeq
  <2>2. QED
    BY <1>2, <2>1, ElementOfSeq DEF Last
<1>4. \A e, f \in Entries(cwd) : Last(e.path) = Last(f.path) => e = f
  <2> SUFFICES ASSUME NEW e \in Entries(cwd), NEW f \in Entries(cwd),
                      Last(e.path) = Last(f.path)
               PROVE  e.path = f.path
    BY <1>2
  <2> DEFINE p == e.path
             q == f.path
  <2>1. p \in Seq(Nat) /\ q \in Seq(Nat) /\ Front(p) = Front(q) /\ Last(p) = Last(q)
        /\ Len(p) \in Nat \ {0} /\ Len(q) \in Nat \ {0}
    BY <1>2, <1>3
  <2> HIDE DEF p, q
  <2>2. SubSeq(p, 1, Len(p) - 1) = SubSeq(q, 1, Len(q) - 1) /\ p[Len(p)] = q[Len(q)]
    BY <2>1 DEF Front, Last
  <2>3. Len(p) = Len(q)
    BY <2>1, <2>2
  <2>4. \A n \in 1 .. Len(p) : p[n] = q[n]
    BY <2>1, <2>2, <2>3
  <2>5. p = q
    BY <2>1, <2>3, <2>4, SeqEqual
  <2>6. QED
    BY <2>5 DEF p, q
<1>5. IsFiniteSet(Entries(cwd))
  <2> DEFINE paths == {q \in DOMAIN tree : q # <<>> /\ Front(q) = cwd}
             Op(p) == [path |-> p, dir |-> Kind(p) = "dir"]
             f == [p \in paths |-> Op(p)]
  <2>1. paths \in SUBSET Paths
    BY DEF CheckoutInv
  <2>2. IsFiniteSet(paths)
    BY <2>1, PathTypes, FS_Subset
  <2>3. f \in Surjection(paths, Entries(cwd))
    BY DEF Surjection, Entries
  <2> HIDE DEF paths, f
  <2>4. QED
    BY <2>2, <2>3, FS_Surjection
<1>6. ASSUME NEW S \in SUBSET Entries(cwd)
      PROVE  /\ Sorted(S) \in Seq(S) /\ Cardinality(S) \in Nat
             /\ \A e \in S : \E k \in DOMAIN Sorted(S) : Sorted(S)[k] = e
             /\ \A j, k \in DOMAIN Sorted(S) :
                  j < k => Last(Sorted(S)[j].path) < Last(Sorted(S)[k].path)
  <2>1. IsFiniteSet(S)
    BY <1>5, FS_Subset
  <2>2. \A e \in S : Last(e.path) \in Nat
    BY <1>3
  <2>3. \A e, f \in S : e # f => Last(e.path) # Last(f.path)
    BY <1>4
  <2>4. QED
    BY <2>1, <2>2, <2>3, SortedIsList, FS_CardinalityType
<1>7. QED
  BY <1>1, <1>6

\* The entry that is inspected.
LEMMA EntryFacts ==
  ASSUME WalkInv, todo # <<>>
  PROVE  /\ Path \in Paths /\ Path # <<>> /\ Front(Path) = cwd /\ Entry.dir \in BOOLEAN
         /\ Tail(todo) \in Seq(EntriesOf(cwd))
<1>1. Entry \in EntriesOf(cwd) /\ Tail(todo) \in Seq(EntriesOf(cwd))
  BY HeadTailProperties DEF WalkInv, Entry
<1>2. QED
  BY <1>1 DEF EntriesOf, Path

\* Every step keeps the account of the walk.
LEMMA WalkStep == CheckoutInv /\ WalkInv /\ [Next]_vars => WalkInv'
<1> SUFFICES ASSUME CheckoutInv, WalkInv, [Next]_vars PROVE WalkInv'
  OBVIOUS
<1>e. \A d : <<>> \in Seq(EntriesOf(d)) /\ \A S : <<>> \in Seq(S)
  BY EmptySeq
<1>f. todo # <<>> => /\ Path \in Paths /\ Path # <<>> /\ Front(Path) = cwd
                     /\ Tail(todo) \in Seq(EntriesOf(cwd))
  BY EntryFacts
<1> USE DEF WalkInv, Copying, Reading
<1>1. CASE Pop
  <2>1. stack # <<>> /\ stack \in Seq(made) /\ Len(stack) \in Nat \ {0}
    BY <1>1, EmptySeq DEF Pop
  <2>2. Last(stack) \in made
    BY <2>1, ElementOfSeq DEF Last
  <2>3. Front(stack) \in Seq(made)
    <3> DEFINE k == Len(stack) - 1
    <3>1. 1 \in Int /\ k \in Int /\ \A i \in 1 .. k : stack[i] \in made
      BY <2>1, ElementOfSeq
    <3> HIDE DEF k
    <3>2. SubSeq(stack, 1, k) \in Seq(made)
      BY <3>1, SubSeqProperties
    <3>3. QED
      BY <3>2 DEF Front, k
  <2>4. cwd' \in made /\ stack' \in Seq(made) /\ pc' \in {"scan", "pop"}
        /\ UNCHANGED <<made, children, todo>> /\ todo = <<>>
    BY <1>1, <2>2, <2>3 DEF Pop, walkVars
  <2>5. QED
    BY <1>e, <2>4
<1>2. CASE Scan
  <2>1. PICK seen \in SUBSET Entries(cwd) : todo' = Sorted(seen)
    BY <1>2 DEF Scan
  <2>2. Sorted(seen) \in Seq(seen) /\ seen \subseteq EntriesOf(cwd)
    BY EntriesAreEntries
  <2>3. Sorted(seen) \in Seq(EntriesOf(cwd))
    BY <2>2, SeqMonotonic
  <2>4. pc' = "entry" /\ children' = <<>> /\ UNCHANGED <<stack, cwd, made>>
    BY <1>2 DEF Scan
  <2>5. QED
    BY <1>e, <2>1, <2>3, <2>4
<1>3. CASE ScanFails
  BY <1>3 DEF ScanFails
<1>4. CASE Skip
  BY <1>4, <1>f DEF Skip, Inspecting
<1>5. CASE Stop
  BY <1>5, <1>e DEF Stop, Inspecting
<1>6. CASE MakeDirectory
  <2>1. pc = "entry" /\ pc' = pc /\ todo # <<>> /\ todo' = Tail(todo) /\ UNCHANGED <<cwd, stack>>
    BY <1>6 DEF MakeDirectory, Inspecting
  <2>2. \/ made' = made \union {Path} /\ children' = Append(children, Path)
        \/ UNCHANGED <<made, children>>
    BY <1>6 DEF MakeDirectory
  <2>3. CASE made' = made \union {Path} /\ children' = Append(children, Path)
    <3>1. stack \in Seq(made') /\ children \in Seq(made') /\ Path \in made'
      BY <2>3, SeqMonotonic
    <3>2. children' \in Seq(made')
      BY <2>3, <3>1, AppendProperties
    <3>3. made' \subseteq Paths /\ cwd' \in made'
      BY <1>f, <2>1, <2>3
    <3>4. QED
      BY <1>f, <2>1, <3>1, <3>2, <3>3
  <2>4. CASE UNCHANGED <<made, children>>
    BY <1>f, <2>1, <2>4
  <2>5. QED
    BY <2>2, <2>3, <2>4
<1>7. CASE BeginCopy
  BY <1>7 DEF BeginCopy, Inspecting, walkVars, outVars
<1>8. CASE Descend
  <2>1. Reverse(children) \in Seq(made)
    <3>1. Len(children) \in Nat
      BY LenProperties
    <3>2. \A i \in 1 .. Len(children) : children[(Len(children) - i) + 1] \in made
      <4> TAKE i \in 1 .. Len(children)
      <4>1. (Len(children) - i) + 1 \in 1 .. Len(children)
        BY <3>1
      <4>2. QED
        BY <4>1, ElementOfSeq
    <3> DEFINE back == [i \in 1 .. Len(children) |-> children[(Len(children) - i) + 1]]
    <3>3. back \in [1 .. Len(children) -> made]
      BY <3>2
    <3>4. Reverse(children) = back
      BY DEF Reverse
    <3> HIDE DEF back
    <3>5. QED
      BY <3>1, <3>3, <3>4, SeqDef
  <2>2. stack \o Reverse(children) \in Seq(made)
    BY <2>1, ConcatProperties
  <2>3. /\ pc' = "pop" /\ stack' = stack \o Reverse(children) /\ children' = <<>>
        /\ todo = <<>> /\ UNCHANGED <<cwd, todo, made>>
    BY <1>8 DEF Descend, outVars
  <2>4. QED
    BY <1>e, <2>2, <2>3
<1>9. CASE Seal
  BY <1>9 DEF Seal, walkVars, outVars
<1>10. CASE OpenSource
  BY <1>10 DEF OpenSource, walkVars, outVars
<1>11. CASE StatSource
  BY <1>11 DEF StatSource, walkVars, outVars
<1>12. CASE CompareSource
  BY <1>12 DEF CompareSource, Abandon, walkVars
<1>13. CASE ReadChunk
  BY <1>13 DEF ReadChunk, Abandon, walkVars
<1>14. CASE ReadEnds
  BY <1>14 DEF ReadEnds, walkVars, outVars
<1>15. CASE CheckSource
  BY <1>15, <1>f DEF CheckSource
<1>16. CASE Discard
  BY <1>16, <1>f DEF Discard
<1>17. CASE CopyFails
  BY <1>17 DEF CopyFails, walkVars, outVars
<1>18. CASE Environment \/ UNCHANGED vars
  BY <1>18, EnvironmentKeeps DEF vars, walkVars, outVars
<1>19. QED
  BY <1>1, <1>2, <1>3, <1>4, <1>5, <1>6, <1>7, <1>8, <1>9, <1>10, <1>11, <1>12, <1>13,
     <1>14, <1>15, <1>16, <1>17, <1>18 DEF Next, Advance

---------------------------------------------------------------------------
(* Mounts *)

\* An entry that is no mount point of the first look is under none.
LEMMA NotBelow ==
  ASSUME WalkInv, MountInv, todo # <<>>, Path \notin nested
  PROVE  \A m \in nested : Path \notin Below(m)
<1> SUFFICES ASSUME NEW m \in nested, Path \in Below(m) PROVE FALSE
  OBVIOUS
<1>1. /\ Path \in Seq(Nat) /\ Path # <<>> /\ m \in Seq(Nat) /\ IsPrefix(m, Path)
      /\ Front(Path) = cwd
  BY EntryFacts, PathTypes DEF MountInv, Below
<1>2. IsPrefix(m, cwd)
  BY <1>1, PrefixOfFront
<1>3. cwd \in Below(m) \intersect made
  BY <1>2 DEF Below, WalkInv
<1>4. QED
  BY <1>3 DEF MountInv

\* Every step keeps the account of the mounts.
LEMMA MountStep == WalkInv /\ MountInv /\ [Next]_vars => MountInv'
<1> SUFFICES ASSUME WalkInv, MountInv, [Next]_vars PROVE MountInv'
  OBVIOUS
<1>p. UNCHANGED todo => UNCHANGED Path
  BY DEF Path, Entry
<1>n. todo # <<>> /\ Path \notin nested => \A m \in nested : Path \notin Below(m)
  BY NotBelow
<1>m. /\ nested \subseteq Paths \ {<<>>}
      /\ \A m \in nested : Below(m) \intersect (DOMAIN disk \union made) = {}
      /\ pc \in Copying => Path \notin nested /\ todo # <<>>
  BY DEF MountInv, WalkInv
<1>b. UNCHANGED <<nested, disk, made>>
        => \A m \in nested' : Below(m) \intersect (DOMAIN disk' \union made') = {}
  BY <1>m
<1> USE <1>m, <1>b DEF MountInv, Copying, Reading
<1>1. CASE Pop
  BY <1>1 DEF Pop, Omit
<1>2. CASE Scan
  BY <1>2 DEF Scan
<1>3. CASE ScanFails
  BY <1>3 DEF ScanFails
<1>4. CASE Skip
  BY <1>4 DEF Skip, Inspecting
<1>5. CASE Stop
  BY <1>5 DEF Stop, Inspecting
<1>6. CASE MakeDirectory
  <2>1. todo # <<>> /\ Path \notin nested
    <3>1. todo # <<>> /\ ~Boundary(Path)
      BY <1>6 DEF MakeDirectory, Inspecting, Refused
    <3>2. QED
      BY <3>1, EntryFacts DEF Boundary
  <2>2. /\ pc' = "entry" /\ UNCHANGED <<nested, disk>>
        /\ made' = made \union {Path} \/ made' = made
    BY <1>6 DEF MakeDirectory, Inspecting
  <2>3. QED
    BY <1>n, <2>1, <2>2
<1>7. CASE BeginCopy
  <2>1. todo # <<>> /\ ~Boundary(Path) /\ UNCHANGED <<walkVars, outVars>> /\ pc' = "open"
    BY <1>7 DEF BeginCopy, Plain, Inspecting, Refused
  <2>2. QED
    BY <1>p, <2>1, EntryFacts DEF walkVars, outVars, Boundary
<1>8. CASE Descend
  BY <1>8 DEF Descend, outVars
<1>9. CASE Seal
  BY <1>9 DEF Seal, walkVars, outVars, checkoutVars
<1>10. CASE OpenSource
  BY <1>10, <1>p DEF OpenSource, walkVars, outVars
<1>11. CASE StatSource
  BY <1>11, <1>p DEF StatSource, walkVars, outVars
<1>12. CASE CompareSource
  <2>1. pc \in Copying /\ pc' \in Copying /\ UNCHANGED <<todo, nested, made>>
        /\ (disk' = Created(Path) \/ UNCHANGED disk)
    BY <1>12 DEF CompareSource, Abandon, walkVars
  <2>2. DOMAIN disk' \subseteq {Path} \union DOMAIN disk
    BY <2>1 DEF Created
  <2>3. QED
    BY <1>n, <1>p, <2>1, <2>2
<1>13. CASE ReadChunk
  <2>1. pc \in Copying /\ pc' \in Copying /\ UNCHANGED <<todo, nested, made>>
        /\ DOMAIN disk' = DOMAIN disk
    BY <1>13 DEF ReadChunk, Abandon, walkVars
  <2>2. QED
    BY <1>p, <2>1
<1>14. CASE ReadEnds
  BY <1>14, <1>p DEF ReadEnds, walkVars, outVars
<1>15. CASE CheckSource
  BY <1>15, <1>p DEF CheckSource
<1>16. CASE Discard
  <2>1. pc' = "entry" /\ UNCHANGED <<nested, made>> /\ DOMAIN disk' \subseteq DOMAIN disk
    BY <1>16 DEF Discard
  <2>2. QED
    BY <2>1
<1>17. CASE CopyFails
  BY <1>17, <1>p DEF CopyFails, walkVars, outVars
<1>18. CASE Environment
  <2>1. pc # "ready" /\ UNCHANGED <<pc, walkVars, outVars>>
    BY <1>18, EnvironmentKeeps DEF Open
  <2>2. QED
    BY <1>p, <2>1 DEF walkVars, outVars
<1>19. CASE UNCHANGED vars
  BY <1>19, <1>p DEF vars, walkVars, outVars, checkoutVars
<1>20. QED
  BY <1>1, <1>2, <1>3, <1>4, <1>5, <1>6, <1>7, <1>8, <1>9, <1>10, <1>11, <1>12, <1>13,
     <1>14, <1>15, <1>16, <1>17, <1>18, <1>19 DEF Next, Advance

---------------------------------------------------------------------------
(* The limits *)

LEMMA Limits ==
  /\ MaxFiles \in Nat /\ MaxDirectories \in Nat /\ MaxTotalBytes \in Nat
  /\ MaxFiles > 0 /\ MaxDirectories > 0 /\ MaxTotalBytes > 0
  /\ MaxDepth \in Nat /\ MaxFileBytes \in Nat
  BY LimitsAssumption

\* The digest takes a record of an entry, of a directory and of a file.
LEMMA RecordsTake ==
  ASSUME records \in Seq(RecordType), NEW p \in Paths,
         NEW tag \in {"O", "D", "F"}, NEW c \in Seq(Int)
  PROVE  Append(records, Record(tag, p, c)) \in Seq(RecordType)
<1>1. Record(tag, p, c) \in RecordType
  BY DEF Record, RecordType
<1>2. QED
  BY <1>1, AppendProperties

\* The parts of LimitInv that depend on the counters and the tree that is made only.
Counted ==
  /\ files \in Nat /\ directories \in Nat /\ totalBytes \in Nat /\ entriesSeen \in Nat
  /\ entriesSeen <= MaxFiles + MaxDirectories
  /\ files <= MaxFiles /\ directories <= MaxDirectories
  /\ \A p \in made : Len(p) <= MaxDepth
  /\ totalBytes <= MaxTotalBytes
Copied ==
  /\ \A p \in DOMAIN disk : disk[p] \in Seq(Int) /\ Len(disk[p]) <= MaxFileBytes
  /\ pc \in Reading => files < MaxFiles
  /\ pc \in {"read", "final"} =>
       Path \in DOMAIN disk /\ totalBytes + Len(disk[Path]) <= MaxTotalBytes

LEMMA LimitParts == LimitInv <=> Counted /\ Copied /\ records \in Seq(RecordType)
  BY DEF LimitInv, Counted, Copied, BudgetsHold

\* Every step keeps the account of the limits.
LEMMA LimitStep ==
  CheckoutInv /\ WalkInv /\ LimitInv /\ CopyInv /\ [Next]_vars => LimitInv'
<1> SUFFICES ASSUME CheckoutInv, WalkInv, LimitInv, CopyInv, [Next]_vars PROVE LimitInv'
  OBVIOUS
<1>p. UNCHANGED todo => UNCHANGED Path
  BY DEF Path, Entry
<1>f. Counted /\ Copied /\ records \in Seq(RecordType)
  BY LimitParts
<1>e. todo # <<>> => Path \in Paths
  BY EntryFacts
<1>o. \A p \in Paths, i \in BOOLEAN : Omit(p, i) => records' \in Seq(RecordType)
  <2>1. <<>> \in Seq(Int)
    BY EmptySeq
  <2>2. QED
    BY <1>f, <2>1, RecordsTake DEF Omit
<1>c. cwd \in Paths /\ (pc \in Copying => todo # <<>>)
  BY DEF WalkInv
<1> SUFFICES Counted' /\ Copied' /\ records' \in Seq(RecordType)
  BY DEF LimitInv, Counted, Copied, BudgetsHold
<1>k. UNCHANGED <<countVars, entriesSeen, made>> => Counted'
  BY <1>f DEF Counted, countVars
<1>d. UNCHANGED disk /\ pc' \notin Reading => Copied'
  BY <1>f DEF Copied, Reading
<1>1. CASE Pop
  <2>1. cwd' \in Paths
    <3>1. stack \in Seq(made) /\ stack # <<>> /\ Len(stack) \in Nat \ {0} /\ cwd' = Last(stack)
      BY <1>1, EmptySeq DEF Pop, WalkInv
    <3>2. Last(stack) \in made
      BY <3>1, ElementOfSeq DEF Last
    <3>3. QED
      BY <3>1, <3>2 DEF WalkInv
  <2>2. UNCHANGED records \/ Omit(cwd', TRUE)
    BY <1>1 DEF Pop
  <2>3. records' \in Seq(RecordType)
    BY <1>f, <1>o, <2>1, <2>2
  <2>4. UNCHANGED <<countVars, entriesSeen, made, disk>> /\ pc' \notin Reading
    BY <1>1 DEF Pop, Reading
  <2>5. QED
    BY <1>k, <1>d, <2>3, <2>4
<1>2. CASE Scan
  <2>1. PICK seen \in SUBSET Entries(cwd) :
          /\ \/ Cardinality(seen) <= Room /\ UNCHANGED records
             \/ Cardinality(seen) <= Room /\ Omit(cwd, TRUE)
          /\ entriesSeen' = entriesSeen + Cardinality(seen)
    <3>1. PICK seen \in SUBSET Entries(cwd) :
            /\ IF Cardinality(Entries(cwd)) <= Room
                 THEN /\ seen = Entries(cwd)
                      /\ UNCHANGED <<stop, records, complete>>
                 ELSE /\ Cardinality(seen) = Room
                      /\ stop' = TRUE /\ Omit(cwd, TRUE)
            /\ entriesSeen' = entriesSeen + Cardinality(seen)
      BY <1>2 DEF Scan
    <3>2. Cardinality(seen) \in Nat
      BY EntriesAreEntries
    <3>3. Cardinality(seen) = Room => Cardinality(seen) <= Room
      BY <3>2
    <3>4. QED
      BY <3>1, <3>3, Zenon
  <2>2. Cardinality(seen) \in Nat
    BY EntriesAreEntries
  <2>3. entriesSeen' \in Nat /\ entriesSeen' <= MaxFiles + MaxDirectories
    <3>1. Room \in Int /\ Room <= MaxFiles + MaxDirectories - entriesSeen
      BY <1>f, Limits DEF Counted, Room, Least
    <3> DEFINE c == Cardinality(seen)
    <3>2. c \in Nat /\ c <= Room /\ entriesSeen' = entriesSeen + c
      BY <2>1, <2>2
    <3> HIDE DEF c
    <3>3. QED
      BY <1>f, <3>1, <3>2, Limits DEF Counted
  <2>4. records' \in Seq(RecordType)
    BY <1>f, <1>c, <1>o, <2>1
  <2>5. UNCHANGED <<countVars, made, disk>> /\ pc' \notin Reading
    BY <1>2 DEF Scan, Reading
  <2>6. QED
    BY <1>f, <1>d, <2>3, <2>4, <2>5 DEF Counted, countVars
<1>3. CASE ScanFails
  <2>1. PICK n \in 0 .. Least(Room, Cardinality(Entries(cwd))) : entriesSeen' = entriesSeen + n
    BY <1>3 DEF ScanFails
  <2>2. entriesSeen' \in Nat /\ entriesSeen' <= MaxFiles + MaxDirectories
    <3>1. Cardinality(Entries(cwd)) \in Nat
      BY EntriesAreEntries
    <3>2. QED
      BY <1>f, <2>1, <3>1, Limits DEF Counted, Room, Least
  <2>3. Omit(cwd, TRUE) /\ UNCHANGED <<countVars, made, disk>> /\ pc' \notin Reading
    BY <1>3 DEF ScanFails, Reading
  <2>4. QED
    BY <1>f, <1>c, <1>d, <1>o, <2>2, <2>3 DEF Counted, countVars
<1>4. CASE Skip
  <2>1. /\ Omit(Path, ~Withheld) /\ todo # <<>>
        /\ UNCHANGED <<countVars, entriesSeen, made, disk>> /\ pc' \notin Reading
    BY <1>4 DEF Skip, Inspecting, Reading
  <2>2. (~Withheld) \in BOOLEAN
    BY DEF Withheld, Hidden
  <2>3. QED
    BY <1>d, <1>e, <1>k, <1>o, <2>1, <2>2
<1>5. CASE Stop
  <2>1. /\ Omit(Path, TRUE) /\ todo # <<>>
        /\ UNCHANGED <<countVars, entriesSeen, made, disk>> /\ pc' \notin Reading
    BY <1>5 DEF Stop, Inspecting, Reading
  <2>2. QED
    BY <1>d, <1>e, <1>k, <1>o, <2>1
<1>6. CASE MakeDirectory
  <2>1. /\ Path \in Paths /\ Kind(Path) = "dir" /\ ~Refused
        /\ UNCHANGED <<disk, files, totalBytes, entriesSeen>> /\ pc' \notin Reading
    BY <1>6, <1>e DEF MakeDirectory, Inspecting, Reading
  <2>2. Len(Path) <= MaxDepth /\ directories < MaxDirectories
    <3>1. Len(Path) \in Nat
      BY <2>1, PathTypes
    <3>2. QED
      BY <1>f, <2>1, <3>1, Limits DEF Refused, Counted
  <2>3. \/ /\ made' = made \union {Path} /\ directories' = directories + 1
           /\ records' = Append(records, Record("D", Path, <<>>))
        \/ Omit(Path, TRUE) /\ UNCHANGED <<made, directories>>
    BY <1>6 DEF MakeDirectory
  <2>4. Counted'
    <3>1. \/ made' = made \union {Path} /\ directories' = directories + 1
          \/ UNCHANGED <<made, directories>>
      BY <2>3
    <3>2. \A p \in made' : Len(p) <= MaxDepth
      BY <1>f, <2>2, <3>1 DEF Counted
    <3>3. directories' \in Nat /\ directories' <= MaxDirectories
      BY <1>f, <2>2, <3>1, Limits DEF Counted
    <3>4. QED
      BY <1>f, <2>1, <3>2, <3>3 DEF Counted
  <2>5. records' \in Seq(RecordType)
    <3>1. <<>> \in Seq(Int)
      BY EmptySeq
    <3>2. QED
      BY <1>f, <1>o, <2>1, <2>3, <3>1, RecordsTake
  <2>6. QED
    BY <1>d, <2>1, <2>4, <2>5
<1>7. CASE BeginCopy
  <2>1. ~Exhausted /\ pc' = "open" /\ UNCHANGED <<walkVars, outVars>>
    BY <1>7 DEF BeginCopy
  <2>2. files < MaxFiles
    BY <1>f, <2>1, Limits DEF Exhausted, Counted
  <2>3. Copied'
    BY <1>f, <2>1, <2>2 DEF Copied, outVars, countVars
  <2>4. QED
    BY <1>f, <1>k, <2>1, <2>3 DEF walkVars, outVars
<1>8. CASE Descend
  <2>1. pc' \notin Reading /\ UNCHANGED <<entriesSeen, outVars>>
    BY <1>8 DEF Descend, Reading
  <2>2. QED
    BY <1>f, <1>k, <1>d, <2>1 DEF outVars
<1>9. CASE Seal
  <2>1. pc' \notin Reading /\ UNCHANGED <<walkVars, outVars>>
    BY <1>9 DEF Seal, Reading
  <2>2. QED
    BY <1>f, <1>k, <1>d, <2>1 DEF outVars, walkVars
<1>10. CASE OpenSource \/ StatSource \/ ReadEnds \/ CopyFails
  <2>1. /\ pc \in Reading /\ UNCHANGED <<walkVars, outVars>>
        /\ pc' \in {"read", "final"} => pc \in {"read", "final"}
    BY <1>10 DEF OpenSource, StatSource, ReadEnds, CopyFails, Reading
  <2>2. Copied'
    BY <1>f, <1>p, <2>1 DEF Copied, outVars, countVars, walkVars
  <2>3. QED
    BY <1>f, <1>k, <2>1, <2>2 DEF walkVars, outVars
<1>11. CASE CompareSource
  <2>1. /\ pc \in Reading /\ UNCHANGED <<walkVars, made, records, countVars>>
        /\ \/ pc' = "read" /\ disk' = Created(Path)
           \/ pc' = "discard" /\ UNCHANGED disk
    BY <1>11 DEF CompareSource, Abandon, Reading
  <2>2. Copied'
    <3>1. CASE pc' = "read" /\ disk' = Created(Path)
      <4>1. <<>> \in Seq(Int) /\ Len(<<>>) = 0
        BY EmptySeq
      <4>2. DOMAIN disk' = {Path} \union DOMAIN disk /\ disk'[Path] = <<>>
            /\ \A q \in DOMAIN disk' : disk'[q] = <<>> \/ (q \in DOMAIN disk /\ disk'[q] = disk[q])
        BY <3>1 DEF Created
      <4>3. \A q \in DOMAIN disk' : disk'[q] \in Seq(Int) /\ Len(disk'[q]) <= MaxFileBytes
        <5> TAKE q \in DOMAIN disk'
        <5>1. CASE disk'[q] = <<>>
          <6>1. disk'[q] \in Seq(Int) /\ Len(disk'[q]) = 0
            BY <4>1, <5>1, Zenon
          <6>2. QED
            BY <6>1, Limits
        <5>2. CASE q \in DOMAIN disk /\ disk'[q] = disk[q]
          BY <1>f, <5>2 DEF Copied
        <5>3. QED
          BY <4>2, <5>1, <5>2
      <4>4. Path' = Path /\ UNCHANGED <<files, totalBytes>> /\ files < MaxFiles
        BY <1>f, <1>p, <2>1 DEF Copied, countVars, walkVars
      <4>5. totalBytes + Len(disk'[Path]) <= MaxTotalBytes
        BY <1>f, <4>1, <4>2, Limits DEF Counted
      <4>6. QED
        BY <4>2, <4>3, <4>4, <4>5 DEF Copied
    <3>2. CASE pc' = "discard" /\ UNCHANGED disk
      BY <1>d, <3>2 DEF Reading
    <3>3. QED
      BY <2>1, <3>1, <3>2
  <2>3. QED
    BY <1>f, <1>k, <2>1, <2>2 DEF walkVars
<1>12. CASE ReadChunk
  <2>1. pc = "read" /\ UNCHANGED <<walkVars, made, records, countVars>>
    BY <1>12 DEF ReadChunk
  <2>2. Copied'
    <3>1. CASE pc' = "discard" /\ UNCHANGED disk
      BY <1>d, <3>1 DEF Reading
    <3> DEFINE n == Len(disk[Path]) + 1
               b == node[fd].blocks[n]
    <3>2. CASE n <= Len(node[fd].blocks) /\ ~(n > MaxBytes) /\ pc' = pc
               /\ disk' = [disk EXCEPT ![Path] = Append(@, b)]
      <4>1. Path \in DOMAIN disk /\ disk[Path] \in Seq(Int) /\ n \in Nat \ {0}
        BY <1>f, <2>1 DEF Copied
      <4>2. node[fd].blocks \in Seq(Int)
        BY <2>1, NodeFields DEF CopyInv, CheckoutInv
      <4>3. b \in Int
        <5>1. n \in 1 .. Len(node[fd].blocks)
          BY <3>2, <4>1, <4>2
        <5>2. QED
          BY <4>2, <5>1, ElementOfSeq
      <4> HIDE DEF b
      <4>4. Append(disk[Path], b) \in Seq(Int) /\ Len(Append(disk[Path], b)) = n
        BY <4>1, <4>3, AppendProperties
      <4>5. n <= MaxFileBytes /\ totalBytes + n <= MaxTotalBytes
        BY <1>f, <3>2, <4>1, Limits DEF MaxBytes, Least, Counted
      <4> HIDE DEF n
      <4>6. /\ DOMAIN disk' = DOMAIN disk /\ disk'[Path] = Append(disk[Path], b)
            /\ \A q \in DOMAIN disk \ {Path} : disk'[q] = disk[q]
        BY <3>2, <4>1
      <4>7. \A q \in DOMAIN disk' : disk'[q] \in Seq(Int) /\ Len(disk'[q]) <= MaxFileBytes
        BY <1>f, <4>4, <4>5, <4>6 DEF Copied
      <4>8. pc' = "read" /\ UNCHANGED <<Path, files, totalBytes>> /\ files < MaxFiles
        BY <1>f, <1>p, <2>1, <3>2 DEF Copied, Reading, walkVars, countVars
      <4>9. QED
        BY <4>1, <4>4, <4>5, <4>6, <4>7, <4>8 DEF Copied
    <3>3. QED
      BY <1>12, <3>1, <3>2 DEF ReadChunk, Abandon
  <2>3. QED
    BY <1>f, <1>k, <2>1, <2>2 DEF walkVars
<1>13. CASE CheckSource
  <2>1. pc = "final" /\ UNCHANGED <<entriesSeen, disk, made, directories>> /\ pc' \notin Reading
    BY <1>13 DEF CheckSource, Reading
  <2>2. /\ Path \in DOMAIN disk /\ disk[Path] \in Seq(Int) /\ Path \in Paths
        /\ totalBytes + Len(disk[Path]) <= MaxTotalBytes /\ files < MaxFiles
    BY <1>c, <1>e, <1>f, <2>1 DEF Copied, Copying, Reading
  <2>3. \/ /\ files' = files + 1 /\ totalBytes' = totalBytes + Len(disk[Path])
           /\ records' = Append(records, Record("F", Path, disk[Path]))
        \/ UNCHANGED <<files, totalBytes, records>>
    BY <1>13 DEF CheckSource
  <2>4. records' \in Seq(RecordType)
    BY <1>f, <2>2, <2>3, RecordsTake
  <2>5. Len(disk[Path]) \in Nat
    BY <2>2, LenProperties
  <2>6. Counted'
    BY <1>f, <2>1, <2>2, <2>3, <2>5, Limits DEF Counted
  <2>7. QED
    BY <1>d, <2>1, <2>4, <2>6
<1>14. CASE Discard
  <2>1. /\ pc = "discard" /\ pc' = "entry" /\ Omit(Path, TRUE)
        /\ UNCHANGED <<entriesSeen, made, countVars>>
        /\ disk' = [p \in DOMAIN disk \ {Path} |-> disk[p]] \/ UNCHANGED disk
    BY <1>14 DEF Discard
  <2>2. records' \in Seq(RecordType)
    BY <1>c, <1>e, <1>o, <2>1 DEF Copying
  <2>3. \A p \in DOMAIN disk' : p \in DOMAIN disk /\ disk'[p] = disk[p]
    BY <2>1
  <2>4. Copied'
    BY <1>f, <2>1, <2>3 DEF Copied, Reading
  <2>5. QED
    BY <1>k, <2>1, <2>2, <2>4
<1>15. CASE Environment \/ UNCHANGED vars
  <2>1. UNCHANGED <<pc, walkVars, outVars>>
    BY <1>15, EnvironmentKeeps DEF vars
  <2>2. Copied'
    BY <1>f, <1>p, <2>1 DEF Copied, outVars, countVars, walkVars
  <2>3. QED
    BY <1>f, <1>k, <2>1, <2>2 DEF walkVars, outVars
<1>16. QED
  BY <1>1, <1>2, <1>3, <1>4, <1>5, <1>6, <1>7, <1>8, <1>9, <1>10, <1>11, <1>12, <1>13,
     <1>14, <1>15 DEF Next, Advance

---------------------------------------------------------------------------
(* The file being copied *)

\* An event that leaves the blocks and the time of the source, and what was read of
\* it, leaves the account of the copy.
LEMMA CopyIsKept ==
  ASSUME CopyInv, UNCHANGED <<pc, todo, disk, fd, actual>>, racy => racy',
         fd \in DOMAIN node => /\ fd \in DOMAIN node' /\ node'[fd].blocks = node[fd].blocks
                               /\ node'[fd].mtime = node[fd].mtime
  PROVE  CopyInv'
<1>1. Path' = Path /\ disk'[Path'] = disk[Path]
  BY DEF Path, Entry
<1>2. CASE pc \notin {"fstat", "stat", "read", "final"}
  BY <1>2 DEF CopyInv
<1>3. CASE pc \in {"fstat", "stat", "read", "final"}
  <2>1. /\ fd' \in DOMAIN node' /\ node'[fd'].blocks = node[fd].blocks
        /\ node'[fd'].mtime = node[fd].mtime
    BY <1>3 DEF CopyInv
  <2>2. Noticed => Noticed'
    BY <2>1 DEF Noticed
  <2>3. ReadSoFar => ReadSoFar'
    BY <1>1, <2>1 DEF ReadSoFar
  <2>4. QED
    BY <1>1, <2>1, <2>2, <2>3 DEF CopyInv
<1>4. QED
  BY <1>2, <1>3

\* The other programs keep it.
LEMMA CopyBesideOthers == CheckoutInv /\ CopyInv /\ Environment => CopyInv'
<1> SUFFICES ASSUME CheckoutInv, CopyInv, Environment PROVE CopyInv'
  OBVIOUS
<1>k. UNCHANGED <<pc, todo, disk, fd, actual>>
  BY EnvironmentKeeps DEF walkVars, outVars
<1>1. CASE Tick
  BY <1>1, <1>k, CopyIsKept DEF Tick, fileVars
<1>2. ASSUME NEW p \in Volatile, Write(p) PROVE CopyInv'
  <2>1. p \in DOMAIN tree /\ tree[p] \in DOMAIN node /\ node[tree[p]] \in NodeType
    BY <1>2, KindFacts DEF Write, CheckoutInv
  <2>2. PICK b \in Edits(node[tree[p]].blocks) :
          node' = [node EXCEPT ![tree[p]].blocks = b, ![tree[p]].mtime = clock]
    BY <1>2 DEF Write
  <2>3. b \in Seq(Int)
    BY <2>1, EditsAreBlocks, NodeFields DEF CheckoutInv
  <2> DEFINE s == Written(node[tree[p]], b, clock)
  <2>4. s.mtime = clock
    BY <2>1, <2>3, WrittenNode DEF CheckoutInv
  <2>5. node' = [node EXCEPT ![tree[p]] = s]
    BY <2>2 DEF Written
  <2> HIDE DEF s
  <2>6. /\ racy => racy'
        /\ pc \in {"read", "final"} /\ tree[p] = fd /\ clock = actual.mtime => racy'
    BY <1>2 DEF Write
  <2>7. CASE tree[p] # fd \/ pc \notin {"fstat", "stat", "read", "final"}
    <3>1. CASE tree[p] # fd
      BY <1>k, <2>5, <2>6, <3>1, CopyIsKept
    <3>2. CASE pc \notin {"fstat", "stat", "read", "final"}
      BY <1>k, <3>2 DEF CopyInv
    <3>3. QED
      BY <2>7, <3>1, <3>2
  <2>8. CASE tree[p] = fd /\ pc \in {"fstat", "stat", "read", "final"}
    <3>1. fd' \in DOMAIN node' /\ node'[fd'].mtime = clock
      BY <1>k, <2>1, <2>4, <2>5, <2>8
    <3>2. CASE pc = "fstat"
      BY <1>k, <3>1, <3>2 DEF CopyInv
    <3>3. CASE pc \in {"stat", "read", "final"}
      <4>1. actual.mtime \in Nat /\ actual.mtime <= clock /\ clock \in Nat
        <5>1. /\ actual.mtime \in Nat /\ actual.mtime <= node[fd].mtime
              /\ node[fd].mtime <= clock /\ node[fd].mtime \in Nat /\ clock \in Nat
          BY <2>1, <2>8, <3>3, NodeFields DEF CopyInv, CheckoutInv
        <5>2. QED
          BY <5>1
      <4>2. pc \in {"read", "final"} => Noticed'
        BY <1>k, <2>6, <2>8, <3>1, <4>1 DEF Noticed
      <4>3. QED
        BY <1>k, <3>1, <3>3, <4>1, <4>2 DEF CopyInv
    <3>4. QED
      BY <2>8, <3>2, <3>3
  <2>9. QED
    BY <2>7, <2>8
<1>3. ASSUME NEW i \in DOMAIN node, NEW l \in Int, UNCHANGED racy,
             node' = [node EXCEPT ![i] = Linked(node[i], l)]
      PROVE  CopyInv'
  <2> DEFINE s == Linked(node[i], l)
  <2>1. s.mtime = node[i].mtime /\ s.blocks = node[i].blocks
    BY LinkedNode DEF CheckoutInv
  <2>2. node' = [node EXCEPT ![i] = s]
    BY <1>3
  <2> HIDE DEF s
  <2>3. QED
    BY <1>3, <1>k, <2>1, <2>2, CopyIsKept
<1>4. ASSUME NEW p \in Volatile, Link(p) PROVE CopyInv'
  <2> DEFINE l == 3 - node[tree[p]].links
  <2>1. p \in DOMAIN tree /\ tree[p] \in DOMAIN node /\ node[tree[p]] \in NodeType
    BY <1>4, KindFacts DEF Link, CheckoutInv
  <2>2. l \in Int /\ UNCHANGED racy
    BY <1>4, <2>1, NodeFields DEF Link, fileVars
  <2>3. node' = [node EXCEPT ![tree[p]] = Linked(node[tree[p]], l)]
    BY <1>4 DEF Link, Linked
  <2> HIDE DEF l
  <2>4. QED
    BY <1>3, <2>1, <2>2, <2>3
<1>5. ASSUME NEW p \in Volatile, Delete(p) PROVE CopyInv'
  <2>1. PICK gone \in {0, 1} : node' = [node EXCEPT ![tree[p]].links = @ - gone]
    BY <1>5 DEF Delete
  <2> DEFINE l == node[tree[p]].links - gone
  <2>2. p \in DOMAIN tree /\ tree[p] \in DOMAIN node /\ node[tree[p]] \in NodeType
    BY <1>5 DEF Delete, CheckoutInv
  <2>3. l \in Int /\ UNCHANGED racy
    BY <1>5, <2>2, NodeFields DEF Delete, fileVars
  <2>4. node' = [node EXCEPT ![tree[p]] = Linked(node[tree[p]], l)]
    BY <2>1 DEF Linked
  <2> HIDE DEF l
  <2>5. QED
    BY <1>3, <2>2, <2>3, <2>4
<1>6. ASSUME NEW p \in Volatile, Mount(p) PROVE CopyInv'
  BY <1>6, <1>k, CopyIsKept DEF Mount, fileVars
<1>7. ASSUME NEW p \in Volatile, NEW kind \in {"file", "dir", "link"}, Place(p, kind)
      PROVE  CopyInv'
  <2> DEFINE i == Inode(p, changes + 1)
             new == [kind |-> kind, mtime |-> clock, links |-> 1,
                     blocks |-> IF kind = "file" THEN <<changes + 1>> ELSE <<>>]
             cut == [j \in DOMAIN node |-> Linked(node[j], node[j].links - 1)]
  <2>1. /\ node' = [j \in {i} \union DOMAIN node |->
                      IF j = i THEN new
                      ELSE IF p \in DOMAIN tree /\ j = tree[p] THEN cut[j] ELSE node[j]]
        /\ UNCHANGED racy
    BY <1>7 DEF Place, Linked, fileVars
  <2>2. i \notin DOMAIN node
    BY DEF Inode, CheckoutInv
  <2>3. \A j \in DOMAIN node : cut[j].blocks = node[j].blocks /\ cut[j].mtime = node[j].mtime
    <3> TAKE j \in DOMAIN node
    <3>1. node[j] \in NodeType /\ 1 \in Int
      BY DEF CheckoutInv
    <3>2. QED
      BY <3>1, LinkedByOne
  <2> HIDE DEF i, new, cut
  <2>4. fd \in DOMAIN node => /\ fd \in DOMAIN node' /\ node'[fd].blocks = node[fd].blocks
                              /\ node'[fd].mtime = node[fd].mtime
    <3> SUFFICES ASSUME fd \in DOMAIN node
                 PROVE  /\ fd \in DOMAIN node' /\ node'[fd].blocks = node[fd].blocks
                        /\ node'[fd].mtime = node[fd].mtime
      OBVIOUS
    <3>1. fd \in DOMAIN node' /\ (node'[fd] = cut[fd] \/ node'[fd] = node[fd])
      BY <2>1, <2>2
    <3>2. QED
      BY <2>3, <3>1
  <2>5. QED
    BY <1>k, <2>1, <2>4, CopyIsKept
<1>8. QED
  BY <1>1, <1>2, <1>4, <1>5, <1>6, <1>7 DEF Environment

\* Every step keeps the account of the file being copied.
LEMMA CopyStep ==
  CheckoutInv /\ WalkInv /\ LimitInv /\ CopyInv /\ [Next]_vars => CopyInv'
<1> SUFFICES ASSUME CheckoutInv, WalkInv, LimitInv, CopyInv, [Next]_vars PROVE CopyInv'
  OBVIOUS
<1>k. Advance \/ CopyFails => UNCHANGED node
  BY CopyKeeps DEF checkoutVars
<1>i. pc' \notin {"fstat", "stat", "read", "final"} => CopyInv'
  BY DEF CopyInv
<1>1. CASE Pop \/ Scan \/ ScanFails \/ Skip \/ Stop \/ MakeDirectory \/ BeginCopy \/ Descend
             \/ Seal \/ CheckSource \/ Discard \/ CopyFails
  <2>1. pc' \notin {"fstat", "stat", "read", "final"}
    BY <1>1 DEF Pop, Scan, ScanFails, Skip, Stop, MakeDirectory, BeginCopy, Descend, Seal,
                CheckSource, Discard, CopyFails, Inspecting
  <2>2. QED
    BY <1>i, <2>1
<1>2. CASE OpenSource
  <2>1. CASE pc' = "fstat" /\ fd' = tree[Path] /\ Contained(Path)
    BY <1>2, <1>k, <2>1, KindFacts DEF Advance, Contained, CopyInv
  <2>2. CASE pc' = "discard"
    BY <1>i, <2>2
  <2>3. QED
    BY <1>2, <2>1, <2>2 DEF OpenSource
<1>3. CASE StatSource
  <2>1. /\ pc = "fstat" /\ pc' = "stat" /\ actual' = Stat(fd) /\ UNCHANGED <<fd, node>>
    BY <1>3, <1>k DEF StatSource, Advance
  <2>2. fd \in DOMAIN node /\ node[fd].mtime \in Nat
    BY <2>1, NodeFields DEF CopyInv, CheckoutInv
  <2>3. actual'.mtime = node[fd].mtime
    BY <2>1 DEF Stat
  <2>4. QED
    BY <2>1, <2>2, <2>3 DEF CopyInv
<1>p. UNCHANGED todo => UNCHANGED Path
  BY DEF Path, Entry
<1>4. CASE CompareSource
  <2>1. CASE pc' = "discard"
    BY <1>i, <2>1
  <2>2. CASE pc' = "read" /\ disk' = Created(Path)
    <3>1. pc = "stat" /\ UNCHANGED <<fd, actual, node>> /\ Path' = Path
      BY <1>4, <1>k, <1>p DEF CompareSource, Advance, walkVars, fileVars
    <3>2. disk'[Path'] = <<>>
      BY <2>2, <3>1 DEF Created
    <3>3. node[fd].blocks \in Seq(Int)
      BY <3>1, NodeFields DEF CopyInv, CheckoutInv
    <3>4. Len(disk'[Path']) = 0
      BY <3>2, EmptySeq, Zenon
    <3>5. ReadSoFar'
      BY <3>1, <3>3, <3>4, LenProperties DEF ReadSoFar
    <3>6. QED
      BY <2>2, <3>1, <3>5 DEF CopyInv
  <2>3. QED
    BY <1>4, <2>1, <2>2 DEF CompareSource, Abandon
<1>5. CASE ReadChunk
  <2>1. CASE pc' = "discard"
    BY <1>i, <2>1
  <2> DEFINE n == Len(disk[Path]) + 1
             b == node[fd].blocks[n]
  <2>2. CASE pc' = pc /\ disk' = [disk EXCEPT ![Path] = Append(@, b)]
    <3>1. /\ pc = "read" /\ UNCHANGED <<fd, actual, node, racy>> /\ Path' = Path
          /\ n <= Len(node[fd].blocks)
      BY <1>5, <1>k, <1>p DEF ReadChunk, Advance, walkVars, fileVars
    <3>2. Path \in DOMAIN disk /\ disk[Path] \in Seq(Int) /\ node[fd].blocks \in Seq(Int)
      BY <3>1, NodeFields DEF CopyInv, CheckoutInv, LimitInv
    <3>3. n \in 1 .. Len(node[fd].blocks)
      BY <3>1, <3>2
    <3>4. b \in Int
      BY <3>2, <3>3, ElementOfSeq
    <3>5. disk'[Path'] = Append(disk[Path], b)
      BY <2>2, <3>1, <3>2
    <3> HIDE DEF b
    <3>6. /\ Len(disk'[Path']) = n /\ disk'[Path'][n] = b
          /\ \A k \in 1 .. Len(disk[Path]) : disk'[Path'][k] = disk[Path][k]
      BY <3>2, <3>4, <3>5, AppendProperties
    <3>7. ReadSoFar => ReadSoFar'
      <4> SUFFICES ASSUME ReadSoFar,
                          NEW k \in 1 .. n
                   PROVE  disk'[Path'][k] = node[fd].blocks[k]
        BY <3>1, <3>6 DEF ReadSoFar
      <4>1. CASE k = n
        BY <3>6, <4>1 DEF b
      <4>2. CASE k # n
        <5>1. k \in 1 .. Len(disk[Path])
          BY <3>2, <4>2
        <5>2. QED
          BY <3>6, <5>1 DEF ReadSoFar
      <4>3. QED
        BY <4>1, <4>2
    <3>8. Noticed => Noticed'
      BY <3>1 DEF Noticed
    <3>9. QED
      BY <2>2, <3>1, <3>7, <3>8 DEF CopyInv
  <2>3. QED
    BY <1>5, <2>1, <2>2 DEF ReadChunk, Abandon
<1>6. CASE ReadEnds
  <2>1. /\ pc = "read" /\ pc' = "final" /\ Len(disk[Path]) >= Len(node[fd].blocks)
        /\ UNCHANGED <<fd, actual, node, racy, disk>> /\ Path' = Path
    BY <1>6, <1>k, <1>p DEF ReadEnds, Advance, walkVars, fileVars, outVars
  <2>2. disk[Path] \in Seq(Int) /\ node[fd].blocks \in Seq(Int)
    BY <2>1, NodeFields DEF CopyInv, CheckoutInv, LimitInv
  <2>3. ReadSoFar => disk[Path] = node[fd].blocks
    <3> SUFFICES ASSUME ReadSoFar PROVE disk[Path] = node[fd].blocks
      OBVIOUS
    <3>1. Len(disk[Path]) = Len(node[fd].blocks)
      BY <2>1, <2>2 DEF ReadSoFar
    <3>2. QED
      BY <2>2, <3>1, SeqEqual DEF ReadSoFar
  <2>4. Noticed => Noticed'
    BY <2>1 DEF Noticed
  <2>5. QED
    BY <2>1, <2>3, <2>4 DEF CopyInv
<1>7. CASE UNCHANGED vars
  BY <1>7, CopyIsKept DEF vars, walkVars, outVars, fileVars, checkoutVars
<1>8. QED
  BY <1>1, <1>2, <1>3, <1>4, <1>5, <1>6, <1>7, CopyBesideOthers DEF Next, Advance

---------------------------------------------------------------------------
(* The theorems *)

\* No copy has begun, in any of the checkouts.
LEMMA InitSnapshot == Init => SnapshotInv
<1> SUFFICES ASSUME NEW t \in Trees,
               /\ tree = [p \in DOMAIN t.kind |-> Inode(p, 0)]
               /\ node = [i \in {Inode(p, 0) : p \in DOMAIN t.kind} |->
                            [kind |-> t.kind[i.path], blocks |-> [n \in 1 .. t.size[i.path] |-> 0],
                             mtime |-> 0, links |-> IF i.path \in t.linked THEN 2 ELSE 1]]
               /\ mounts = t.mounts /\ nested = t.mounts
               /\ clock = 0 /\ changes = MaxChanges - t.changes
               /\ pc = "pop" /\ stack = <<(<<>>)>> /\ cwd = <<>>
               /\ todo = <<>> /\ children = <<>> /\ entriesSeen = 0
               /\ disk = <<>> /\ made = {<<>>} /\ records = <<>>
               /\ files = 0 /\ directories = 1 /\ totalBytes = 0
             PROVE  SnapshotInv
  BY DEF Init
<1>t. /\ t.kind \in [DOMAIN t.kind -> Kinds] /\ DOMAIN t.kind \subseteq Paths
      /\ <<>> \in DOMAIN t.kind /\ <<>> \notin t.mounts
      /\ t.size \in [DOMAIN t.kind -> Nat] /\ t.mounts \subseteq DOMAIN t.kind
      /\ t.changes \in 0 .. MaxChanges
  BY TreesAssumption
<1>e. /\ \A S : <<>> \in Seq(S)
      /\ Len(<<>>) = 0 /\ DOMAIN <<>> = {}
  BY EmptySeq
<1>1. CheckoutInv
  <2>1. clock \in Nat /\ changes \in Int /\ changes >= 0
    BY <1>t, BoundsAssumption
  <2>2. DOMAIN tree \subseteq Paths /\ \A p \in DOMAIN tree : tree[p] \in DOMAIN node
    BY <1>t
  <2>3. ASSUME NEW i \in DOMAIN node
        PROVE  node[i] \in NodeType /\ node[i].mtime <= clock /\ i.born \in Int /\ i.born <= changes
    <3>1. i.path \in DOMAIN t.kind /\ i.born = 0
      BY DEF Inode
    <3> DEFINE b == [n \in 1 .. t.size[i.path] |-> 0]
               l == IF i.path \in t.linked THEN 2 ELSE 1
    <3>2. b \in Seq(Int)
      <4>1. t.size[i.path] \in Nat /\ b \in [1 .. t.size[i.path] -> Int]
        BY <1>t, <3>1
      <4> HIDE DEF b
      <4>2. QED
        BY <4>1, SeqDef
    <3>3. node[i] = [kind |-> t.kind[i.path], blocks |-> b, mtime |-> 0, links |-> l]
      OBVIOUS
    <3>4. t.kind[i.path] \in Kinds /\ l \in Int
      BY <1>t, <3>1
    <3> HIDE DEF b, l
    <3>5. node[i] \in NodeType /\ node[i].mtime = 0
      BY <3>2, <3>3, <3>4 DEF NodeType
    <3>6. QED
      BY <2>1, <3>1, <3>5
  <2>4. QED
    BY <2>1, <2>2, <2>3 DEF CheckoutInv
<1>2. WalkInv
  <2>1. stack \in Seq(made)
    OBVIOUS
  <2>2. made \subseteq Paths /\ cwd \in made
    BY <1>t
  <2>3. QED
    BY <1>e, <2>1, <2>2 DEF WalkInv, Copying, Reading
<1>3. MountInv
  <2>1. ASSUME NEW m \in nested, <<>> \in Below(m) PROVE FALSE
    <3>1. m \in Seq(Nat) /\ m # <<>> /\ Len(m) <= Len(<<>>)
      BY <1>t, <2>1, PathTypes DEF Below, IsPrefix
    <3>2. QED
      BY <1>e, <3>1, EmptySeq
  <2>2. nested \subseteq Paths \ {<<>>}
    BY <1>t
  <2>3. QED
    BY <1>e, <2>1, <2>2 DEF MountInv, Copying, Reading
<1>4. LimitInv
  <2>1. \A p \in made : Len(p) <= MaxDepth
    BY <1>e, Limits
  <2>2. DOMAIN disk = {} /\ records \in Seq(RecordType)
    BY <1>e
  <2>3. QED
    BY <2>1, <2>2, Limits DEF LimitInv, BudgetsHold, Reading
<1>5. CopyInv
  BY DEF CopyInv
<1>6. QED
  BY <1>1, <1>2, <1>3, <1>4, <1>5 DEF SnapshotInv

\* The invariant holds at every step.
THEOREM SnapshotInvariance == Spec => []SnapshotInv
<1>1. SnapshotInv /\ [Next]_vars => SnapshotInv'
  BY CheckoutStep, WalkStep, MountStep, LimitStep, CopyStep DEF SnapshotInv
<1>2. QED
  BY <1>1, InitSnapshot, PTL DEF Spec

\* The limits of files, entries, bytes and depth hold at every step, whatever the
\* files become after they were measured.
THEOREM LimitsHold == Spec => []BudgetsHold
<1>1. SnapshotInv => BudgetsHold
  BY DEF SnapshotInv, LimitInv
<1>2. QED
  BY <1>1, SnapshotInvariance, PTL

\* A snapshot that is used holds nothing from under a mount point.
THEOREM MountsAreLeftOut == Spec => []MountsStayClosed
<1>1. SnapshotInv => MountsStayClosed
  BY DEF SnapshotInv, MountInv, MountsStayClosed
<1>2. QED
  BY <1>1, SnapshotInvariance, PTL

FileIsWhole ==
  \A n \in DOMAIN records' \ DOMAIN records :
    records'[n].tag = "F" => racy \/ records'[n].content = node[fd].blocks

\* A file enters the digest as it is at that moment, unless it was written in place
\* within the tick of its modification time, however often the checkout changes.
THEOREM FilesAreWhole == Spec => WholeFilesOnly
<1>1. SnapshotInv /\ [Next]_vars => [FileIsWhole]_vars
  <2> SUFFICES ASSUME SnapshotInv, Next, NEW n \in DOMAIN records' \ DOMAIN records,
                      records'[n].tag = "F"
               PROVE  racy \/ records'[n].content = node[fd].blocks
    BY DEF FileIsWhole
  <2>1. records \in Seq(RecordType)
    BY DEF SnapshotInv, LimitInv
  <2>a. ASSUME NEW r, records' = Append(records, r) PROVE records'[n] = r
    <3>1. DOMAIN records = 1 .. Len(records) /\ Len(records) \in Nat
      BY <2>1, LenProperties
    <3>2. n = Len(records) + 1
      BY <2>a, <3>1
    <3>3. QED
      BY <2>1, <2>a, <3>2
  <2>2. ~UNCHANGED records
    OBVIOUS
  <2>3. \A p, i : ~Omit(p, i)
    <3> SUFFICES ASSUME NEW p, NEW i, Omit(p, i) PROVE FALSE
      OBVIOUS
    <3>1. records'[n] = Record("O", p, <<>>)
      BY <2>a DEF Omit
    <3>2. QED
      BY <3>1 DEF Record
  <2>4. records' # Append(records, Record("D", Path, <<>>))
    <3> SUFFICES ASSUME records' = Append(records, Record("D", Path, <<>>)) PROVE FALSE
      OBVIOUS
    <3>1. records'[n] = Record("D", Path, <<>>)
      BY <2>a
    <3>2. QED
      BY <3>1 DEF Record
  <2>5. CheckSource
    BY <2>2, <2>3, <2>4, EnvironmentKeeps
    DEF Next, Advance, Pop, Scan, ScanFails, Skip, Stop, MakeDirectory, BeginCopy, Descend,
        Seal, OpenSource, StatSource, CompareSource, ReadChunk, ReadEnds, Discard, CopyFails,
        outVars
  <2>6. /\ pc = "final" /\ Unchanged
        /\ records' = Append(records, Record("F", Path, disk[Path]))
    BY <2>2, <2>5 DEF CheckSource
  <2>7. records'[n].content = disk[Path]
    BY <2>6, <2>a DEF Record
  <2>8. ~(actual.mtime < node[fd].mtime)
    <3>1. node[fd].mtime = actual.mtime /\ actual.mtime \in Nat
      BY <2>6 DEF Unchanged, Stat, SnapshotInv, CopyInv
    <3>2. QED
      BY <3>1
  <2>9. QED
    BY <2>6, <2>7, <2>8 DEF SnapshotInv, CopyInv, Noticed
<1>2. QED
  BY <1>1, SnapshotInvariance, PTL DEF Spec, WholeFilesOnly, FileIsWhole

---------------------------------------------------------------------------
(* The order of the paths *)

\* The front and the last element of a sequence.
LEMMA FrontLast ==
  ASSUME NEW S, NEW s \in Seq(S), s # <<>>
  PROVE  /\ Len(s) \in Nat \ {0} /\ DOMAIN s = 1 .. Len(s)
         /\ Front(s) \in Seq(S) /\ Len(Front(s)) = Len(s) - 1
         /\ \A k \in 1 .. Len(s) - 1 : Front(s)[k] = s[k]
         /\ Last(s) = s[Len(s)] /\ Last(s) \in S
<1> DEFINE k == Len(s) - 1
<1>1. Len(s) \in Nat \ {0} /\ DOMAIN s = 1 .. Len(s)
  BY EmptySeq, LenProperties
<1>2. k \in Nat /\ 1 \in Int /\ k \in Int /\ \A i \in 1 .. k : s[i] \in S
  BY <1>1, ElementOfSeq
<1>3. Last(s) = s[Len(s)] /\ Last(s) \in S
  BY <1>1, ElementOfSeq DEF Last
<1>4. Front(s) = SubSeq(s, 1, k)
  BY DEF Front
<1> HIDE DEF k
<1>5. /\ SubSeq(s, 1, k) \in Seq(S)
      /\ Len(SubSeq(s, 1, k)) = IF 1 <= k THEN k - 1 + 1 ELSE 0
      /\ \A i \in 1 .. k - 1 + 1 : SubSeq(s, 1, k)[i] = s[1 + i - 1]
  BY <1>2, SubSeqProperties
<1>6. Len(SubSeq(s, 1, k)) = k /\ \A i \in 1 .. k : SubSeq(s, 1, k)[i] = s[i]
  <2>1. (IF 1 <= k THEN k - 1 + 1 ELSE 0) = k /\ k - 1 + 1 = k
    BY <1>2
  <2>2. \A i \in 1 .. k : 1 + i - 1 = i
    BY <1>2
  <2>3. QED
    BY <1>5, <2>1, <2>2
<1>7. QED
  BY <1>1, <1>3, <1>4, <1>5, <1>6 DEF k

\* p and q part at some name, and there p is the lesser; p is above q.
Diverges(p, q) ==
  \E n \in 1 .. Len(p) :
    n <= Len(q) /\ (\A k \in 1 .. n - 1 : p[k] = q[k]) /\ p[n] < q[n]
Above(p, q) == Len(p) < Len(q) /\ \A k \in 1 .. Len(p) : p[k] = q[k]

\* The beginnings of two paths are the same when their names are.
LEMMA SameBeginning ==
  ASSUME NEW p \in Seq(Nat), NEW q \in Seq(Nat), NEW n \in Nat, n <= Len(p), n <= Len(q)
  PROVE  SubSeq(p, 1, n) = SubSeq(q, 1, n) <=> \A k \in 1 .. n : p[k] = q[k]
<1>1. 1 \in Int /\ n \in Int /\ \A i \in 1 .. n : p[i] \in Nat /\ q[i] \in Nat
  BY LenProperties, ElementOfSeq
<1>2. /\ SubSeq(p, 1, n) \in Seq(Nat) /\ Len(SubSeq(p, 1, n)) = n
      /\ \A k \in 1 .. n : SubSeq(p, 1, n)[k] = p[k]
  BY <1>1
<1>3. /\ SubSeq(q, 1, n) \in Seq(Nat) /\ Len(SubSeq(q, 1, n)) = n
      /\ \A k \in 1 .. n : SubSeq(q, 1, n)[k] = q[k]
  BY <1>1
<1>4. QED
  BY <1>2, <1>3, SeqEqual

LEMMA PrecedesIs ==
  ASSUME NEW p \in Seq(Nat), NEW q \in Seq(Nat)
  PROVE  Precedes(p, q) <=> Above(p, q) \/ Diverges(p, q)
<1>0. Len(p) \in Nat /\ Len(q) \in Nat
  BY LenProperties
<1>1. IsStrictPrefix(p, q) <=> Above(p, q)
  <2>1. ASSUME IsPrefix(p, q), p # q PROVE Above(p, q)
    <3>1. /\ Len(p) <= Len(q) /\ SubSeq(p, 1, Len(p)) = SubSeq(q, 1, Len(p))
      BY <2>1 DEF IsPrefix
    <3>2. \A k \in 1 .. Len(p) : p[k] = q[k]
      BY <1>0, <3>1, SameBeginning
    <3>3. Len(p) # Len(q)
      BY <2>1, <3>2, SeqEqual
    <3>4. QED
      BY <1>0, <3>1, <3>2, <3>3 DEF Above
  <2>2. ASSUME Above(p, q) PROVE IsPrefix(p, q) /\ p # q
    <3>1. Len(p) < Len(q) /\ \A k \in 1 .. Len(p) : p[k] = q[k]
      BY <2>2 DEF Above
    <3>2. SubSeq(p, 1, Len(p)) = SubSeq(q, 1, Len(p))
      BY <1>0, <3>1, SameBeginning
    <3>3. QED
      BY <1>0, <3>1, <3>2 DEF IsPrefix
  <2>3. QED
    BY <2>1, <2>2 DEF IsStrictPrefix
<1>2. ASSUME NEW n \in 1 .. Len(p), n <= Len(q)
      PROVE  SubSeq(p, 1, n - 1) = SubSeq(q, 1, n - 1) <=> \A k \in 1 .. n - 1 : p[k] = q[k]
  <2>1. n - 1 \in Nat /\ n - 1 <= Len(p) /\ n - 1 <= Len(q)
    BY <1>0, <1>2
  <2>2. QED
    BY <2>1, SameBeginning
<1>3. \A n : n \in 1 .. Least(Len(p), Len(q)) <=> n \in 1 .. Len(p) /\ n <= Len(q)
  BY <1>0 DEF Least
<1>4. (\E n \in 1 .. Least(Len(p), Len(q)) :
         SubSeq(p, 1, n - 1) = SubSeq(q, 1, n - 1) /\ p[n] < q[n]) <=> Diverges(p, q)
  BY <1>2, <1>3 DEF Diverges
<1>5. QED
  BY <1>1, <1>4 DEF Precedes

\* A path does not precede itself.
LEMMA NotBeforeItself == \A p \in Seq(Nat) : ~Precedes(p, p)
<1> SUFFICES ASSUME NEW p \in Seq(Nat), Above(p, p) \/ Diverges(p, p) PROVE FALSE
  BY PrecedesIs
<1>1. Len(p) \in Nat /\ \A n \in 1 .. Len(p) : p[n] \in Nat
  BY LenProperties, ElementOfSeq
<1>2. QED
  BY <1>1 DEF Above, Diverges

\* What holds of a directory and a path, of what is in the directory and the path.
LEMMA EntryOrder ==
  ASSUME NEW c \in Seq(Nat), c # <<>>, NEW q \in Seq(Nat)
  PROVE  /\ Diverges(Front(c), q) => Diverges(c, q)
         /\ Precedes(q, Front(c)) => Precedes(q, c)
         /\ Precedes(Front(c), c)
<1> DEFINE d == Front(c)
<1>1. /\ d \in Seq(Nat) /\ Len(c) \in Nat \ {0} /\ Len(d) = Len(c) - 1
      /\ \A k \in 1 .. Len(d) : d[k] = c[k]
  BY FrontLast
<1>0. Len(q) \in Nat
  BY LenProperties
<1> HIDE DEF d
<1>2. ASSUME Diverges(d, q) PROVE Diverges(c, q)
  <2>1. PICK n \in 1 .. Len(d) :
          n <= Len(q) /\ (\A k \in 1 .. n - 1 : d[k] = q[k]) /\ d[n] < q[n]
    BY <1>2 DEF Diverges
  <2>2. n \in 1 .. Len(c) /\ c[n] < q[n] /\ \A k \in 1 .. n - 1 : c[k] = q[k]
    BY <1>1, <2>1
  <2>3. QED
    BY <2>1, <2>2 DEF Diverges
<1>3. ASSUME Diverges(q, d) PROVE Diverges(q, c)
  <2>1. PICK n \in 1 .. Len(q) :
          n <= Len(d) /\ (\A k \in 1 .. n - 1 : q[k] = d[k]) /\ q[n] < d[n]
    BY <1>3 DEF Diverges
  <2>2. n <= Len(c) /\ q[n] < c[n] /\ \A k \in 1 .. n - 1 : q[k] = c[k]
    BY <1>0, <1>1, <2>1
  <2>3. QED
    BY <2>1, <2>2 DEF Diverges
<1>4. Above(q, d) => Above(q, c)
  BY <1>0, <1>1 DEF Above
<1>5. Above(d, c)
  BY <1>1 DEF Above
<1>6. QED
  BY <1>1, <1>2, <1>3, <1>4, <1>5, PrecedesIs DEF d

\* Of two entries of a directory the lesser name comes first.
LEMMA EntriesDiverge ==
  ASSUME NEW b \in Seq(Nat), b # <<>>, NEW c \in Seq(Nat), c # <<>>,
         Front(b) = Front(c), Last(b) < Last(c)
  PROVE  Diverges(b, c)
<1>1. /\ Len(b) \in Nat \ {0} /\ Len(Front(b)) = Len(b) - 1 /\ Last(b) = b[Len(b)]
      /\ \A k \in 1 .. Len(b) - 1 : Front(b)[k] = b[k]
  BY FrontLast
<1>2. /\ Len(c) \in Nat \ {0} /\ Len(Front(c)) = Len(c) - 1 /\ Last(c) = c[Len(c)]
      /\ \A k \in 1 .. Len(c) - 1 : Front(c)[k] = c[k]
  BY FrontLast
<1>3. Len(b) = Len(c)
  BY <1>1, <1>2
<1>4. \A k \in 1 .. Len(b) - 1 : b[k] = c[k]
  BY <1>1, <1>2, <1>3
<1>5. QED
  BY <1>1, <1>2, <1>3, <1>4 DEF Diverges

\* A path is known by its directory and its name.
LEMMA SameEntry ==
  ASSUME NEW b \in Seq(Nat), b # <<>>, NEW c \in Seq(Nat), c # <<>>,
         Front(b) = Front(c), Last(b) = Last(c)
  PROVE  b = c
<1>1. /\ Len(b) \in Nat \ {0} /\ Len(Front(b)) = Len(b) - 1 /\ Last(b) = b[Len(b)]
      /\ \A k \in 1 .. Len(b) - 1 : Front(b)[k] = b[k]
  BY FrontLast
<1>2. /\ Len(c) \in Nat \ {0} /\ Len(Front(c)) = Len(c) - 1 /\ Last(c) = c[Len(c)]
      /\ \A k \in 1 .. Len(c) - 1 : Front(c)[k] = c[k]
  BY FrontLast
<1>3. Len(b) = Len(c)
  BY <1>1, <1>2
<1>4. \A k \in 1 .. Len(b) - 1 : b[k] = c[k]
  BY <1>1, <1>2, <1>3
<1>5. \A k \in 1 .. Len(b) : b[k] = c[k]
  <2> TAKE k \in 1 .. Len(b)
  <2>1. k = Len(b) \/ k \in 1 .. Len(b) - 1
    BY <1>1
  <2>2. QED
    BY <1>1, <1>2, <1>3, <1>4, <2>1
<1>6. QED
  BY <1>3, <1>5, SeqEqual

---------------------------------------------------------------------------
(* The digest *)

LEMMA RecordsDomain ==
  ASSUME NEW r \in Seq(RecordType)
  PROVE  /\ Len(r) \in Nat /\ DOMAIN r = 1 .. Len(r) /\ IsFiniteSet(DOMAIN r)
         /\ Len(r) + 1 \notin DOMAIN r
         /\ \A n \in DOMAIN r : r[n] \in RecordType
<1>1. Len(r) \in Nat /\ DOMAIN r = 1 .. Len(r) /\ \A n \in 1 .. Len(r) : r[n] \in RecordType
  BY LenProperties, ElementOfSeq
<1>2. 1 \in Int /\ Len(r) \in Int
  BY <1>1
<1>3. IsFiniteSet(1 .. Len(r))
  BY <1>2, FS_Interval
<1>4. QED
  BY <1>1, <1>3

\* The digest with one record more.
LEMMA Added ==
  ASSUME NEW r \in Seq(RecordType), NEW x \in RecordType
  PROVE  /\ Append(r, x) \in Seq(RecordType)
         /\ Len(Append(r, x)) = Len(r) + 1
         /\ DOMAIN Append(r, x) = DOMAIN r \union {Len(r) + 1}
         /\ \A n \in DOMAIN r : Append(r, x)[n] = r[n]
         /\ Append(r, x)[Len(r) + 1] = x
<1>1. Len(r) \in Nat /\ DOMAIN r = 1 .. Len(r)
  BY RecordsDomain
<1>2. /\ Append(r, x) \in Seq(RecordType) /\ Len(Append(r, x)) = Len(r) + 1
      /\ \A n \in 1 .. Len(r) : Append(r, x)[n] = r[n]
      /\ Append(r, x)[Len(r) + 1] = x
  BY AppendProperties
<1>3. DOMAIN Append(r, x) = 1 .. Len(r) + 1
  BY <1>2, LenProperties
<1>4. QED
  BY <1>1, <1>2, <1>3

\* The bytes of the records of N, as a sum.
Lengths(r) == [n \in DOMAIN r |-> Len(r[n].content)]
Total(r, N) == FoldSet(LAMBDA n, sum : sum + Len(r[n].content), 0, N)

LEMMA TotalIs ==
  ASSUME NEW r \in Seq(RecordType), NEW N \in SUBSET DOMAIN r, NEW g, Adds(g, Lengths(r), N)
  PROVE  Total(r, N) = g[N]
<1> DEFINE iter[U \in SUBSET N] ==
             IF U = {} THEN 0 ELSE iter[U \ {Pick(U)}] + Len(r[Pick(U)].content)
           h == [U \in SUBSET N |-> g[U]]
<1>0. IsFiniteSet(N)
  BY RecordsDomain, FS_Subset
<1>1. Total(r, N) = iter[N]
  BY DEF Total, FoldSet, MapThenFoldSet, Pick
<1>2. ASSUME NEW U \in SUBSET N, U # {}
      PROVE  Pick(U) \in U /\ U \ {Pick(U)} \in SUBSET N
             /\ Lengths(r)[Pick(U)] = Len(r[Pick(U)].content)
  BY <1>2, Picked DEF Lengths
<1>3. h = [U \in SUBSET N |->
             IF U = {} THEN 0 ELSE h[U \ {Pick(U)}] + Len(r[Pick(U)].content)]
  BY <1>2 DEF Adds
<1>4. iter = [U \in SUBSET N |->
                IF U = {} THEN 0 ELSE iter[U \ {Pick(U)}] + Len(r[Pick(U)].content)]
  BY <1>3
<1> HIDE DEF iter
<1>5. Adds(iter, Lengths(r), N)
  BY <1>2, <1>4 DEF Adds
<1>6. iter[N] = g[N]
  BY <1>0, <1>5, SumUnique
<1>7. QED
  BY <1>1, <1>6

LEMMA TotalAdded ==
  ASSUME NEW r \in Seq(RecordType), NEW x \in RecordType, NEW N \in SUBSET DOMAIN r
  PROVE  /\ Total(Append(r, x), N) = Total(r, N)
         /\ Total(Append(r, x), N \union {Len(r) + 1}) = Total(r, N) + Len(x.content)
<1> DEFINE s == Append(r, x)
           S == DOMAIN s
           f == Lengths(s)
           M == N \union {Len(r) + 1}
<1>1. /\ s \in Seq(RecordType) /\ S = DOMAIN r \union {Len(r) + 1}
      /\ \A n \in DOMAIN r : s[n] = r[n]
      /\ s[Len(r) + 1] = x /\ Len(r) + 1 \notin DOMAIN r
  BY Added, RecordsDomain
<1> HIDE DEF s
<1>2. IsFiniteSet(S) /\ Counts(f, S)
  <2>1. \A n \in S : s[n] \in RecordType
    BY <1>1, RecordsDomain
  <2>2. \A n \in S : Len(s[n].content) \in Nat
    BY <2>1, LenProperties DEF RecordType
  <2>3. QED
    BY <1>1, <2>2, RecordsDomain DEF Counts, Lengths
<1> HIDE DEF S, f
<1>3. PICK g : Sums(g, f, S)
  BY <1>2, SumsExist
<1>4. TakesOut(g, f, S)
  BY <1>2, <1>3, SumWithout
<1>5. N \in SUBSET S /\ M \in SUBSET S /\ Len(r) + 1 \in M /\ M \ {Len(r) + 1} = N
  BY <1>1
<1>6. Adds(g, f, N) /\ Adds(g, f, M)
  BY <1>3, <1>5 DEF Sums, Adds
<1>7. Adds(g, Lengths(r), N)
  <2>1. \A n \in N : f[n] = Lengths(r)[n]
    BY <1>1, <1>5 DEF f, S, Lengths
  <2>2. \A U \in SUBSET N : U # {} => Pick(U) \in N
    BY Picked
  <2>3. QED
    BY <1>6, <2>1, <2>2 DEF Adds
<1>8. Total(s, N) = g[N] /\ Total(s, M) = g[M] /\ Total(r, N) = g[N]
  BY <1>1, <1>5, <1>6, <1>7, TotalIs DEF S, f
<1>9. g[M] = g[N] + f[Len(r) + 1]
  BY <1>4, <1>5 DEF TakesOut
<1>10. f[Len(r) + 1] = Len(x.content)
  BY <1>1 DEF f, S, Lengths
<1>11. QED
  BY <1>8, <1>9, <1>10 DEF s

\* What a record adds to the sets of records and of paths, and to the bytes.
LEMMA Extended ==
  ASSUME records \in Seq(RecordType), NEW tag \in {"O", "D", "F"}, NEW p \in Paths,
         NEW c \in Seq(Int), records' = Append(records, Record(tag, p, c))
  PROVE  /\ records' \in Seq(RecordType)
         /\ DOMAIN records' = DOMAIN records \union {Len(records) + 1}
         /\ Len(records) \in Nat /\ DOMAIN records = 1 .. Len(records)
         /\ \A n \in DOMAIN records : records'[n] = records[n]
         /\ records'[Len(records) + 1] = Record(tag, p, c)
         /\ \A t : t # tag => Recorded(t)' = Recorded(t) /\ PathsOf(t)' = PathsOf(t)
         /\ Recorded(tag)' = Recorded(tag) \union {Len(records) + 1}
         /\ PathsOf(tag)' = PathsOf(tag) \union {p}
<1> DEFINE x == Record(tag, p, c)
           k == Len(records) + 1
<1>1. x \in RecordType /\ x.tag = tag /\ x.path = p
  BY DEF Record, RecordType
<1> HIDE DEF x
<1>2. /\ records' \in Seq(RecordType) /\ DOMAIN records' = DOMAIN records \union {k}
      /\ \A n \in DOMAIN records : records'[n] = records[n]
      /\ records'[k] = x
  BY <1>1, Added DEF x
<1>3. Len(records) \in Nat /\ DOMAIN records = 1 .. Len(records) /\ k \notin DOMAIN records
  BY RecordsDomain
<1> HIDE DEF k
<1>4. \A t : Recorded(t)' = {n \in DOMAIN records' : records'[n].tag = t}
  BY DEF Recorded
<1>5. \A t : PathsOf(t)' = {records'[n].path : n \in Recorded(t)'}
  BY DEF PathsOf
<1>6. ASSUME NEW t, t # tag PROVE Recorded(t)' = Recorded(t) /\ PathsOf(t)' = PathsOf(t)
  <2>1. Recorded(t)' = Recorded(t)
    BY <1>1, <1>2, <1>4, <1>6 DEF Recorded
  <2>2. \A n \in Recorded(t) : records'[n] = records[n]
    BY <1>2 DEF Recorded
  <2>3. QED
    BY <1>5, <2>1, <2>2 DEF PathsOf
<1>7. Recorded(tag)' = Recorded(tag) \union {k}
  BY <1>1, <1>2, <1>4 DEF Recorded
<1>8. PathsOf(tag)' = PathsOf(tag) \union {p}
  <2>1. \A n \in Recorded(tag) : records'[n] = records[n]
    BY <1>2 DEF Recorded
  <2>2. PathsOf(tag)' = {records'[n].path : n \in Recorded(tag) \union {k}}
    BY <1>5, <1>7
  <2>3. {records'[n].path : n \in Recorded(tag)} = {records[n].path : n \in Recorded(tag)}
    BY <2>1
  <2>4. {records'[n].path : n \in Recorded(tag) \union {k}}
          = {records'[n].path : n \in Recorded(tag)} \union {records'[k].path}
    OBVIOUS
  <2>5. QED
    BY <1>1, <1>2, <2>2, <2>3, <2>4 DEF PathsOf
<1>9. QED
  BY <1>2, <1>3, <1>6, <1>7, <1>8 DEF x, k

\* The bytes of the files after it.
LEMMA BytesAdded ==
  ASSUME records \in Seq(RecordType), NEW tag \in {"O", "D", "F"}, NEW p \in Paths,
         NEW c \in Seq(Int), records' = Append(records, Record(tag, p, c))
  PROVE  /\ tag # "F" => Bytes(Recorded("F"))' = Bytes(Recorded("F"))
         /\ tag = "F" => Bytes(Recorded("F"))' = Bytes(Recorded("F")) + Len(c)
<1> DEFINE N == Recorded("F")
<1>1. Record(tag, p, c) \in RecordType /\ Record(tag, p, c).content = c
  BY DEF Record, RecordType
<1>2. N \in SUBSET DOMAIN records
  BY DEF Recorded
<1>3. /\ Total(records', N) = Total(records, N)
      /\ Total(records', N \union {Len(records) + 1}) = Total(records, N) + Len(c)
  BY <1>1, <1>2, TotalAdded
<1>4. /\ tag # "F" => N' = N
      /\ tag = "F" => N' = N \union {Len(records) + 1}
  BY Extended
<1> HIDE DEF N
<1>5. Bytes(N) = Total(records, N) /\ Bytes(N)' = Total(records', N')
  <2>1. Bytes(N) = Total(records, N)
    BY DEF Bytes, Total
  <2>2. Bytes(N)' = Total(records', N')
    BY DEF Bytes, Total, FoldSet, MapThenFoldSet
  <2>3. QED
    BY <2>1, <2>2
<1>6. /\ tag # "F" => Bytes(N)' = Bytes(N)
      /\ tag = "F" => Bytes(N)' = Bytes(N) + Len(c)
  BY <1>3, <1>4, <1>5
<1>7. QED
  BY <1>6 DEF N

---------------------------------------------------------------------------
(* The order of the walk *)

Taken == Recorded("F") \union Recorded("D")
Upper(n) == Front(records[n].path)
Visiting == pc \in {"entry"} \union Copying

\* The directories to visit come in the reverse of the order of the names, and
\* after the one being visited.
StackInv ==
  /\ \A i, j \in DOMAIN stack : i < j => Diverges(stack[j], stack[i])
  /\ pc = "scan" \/ Visiting => \A i \in DOMAIN stack : Diverges(cwd, stack[i])
  /\ ~Visiting => children = <<>>
  /\ pc \in {"ready", "failed"} => stack = <<>> \/ stop

\* The entries of the directory being visited come in the order of the names, those
\* made into directories before those still to inspect.
TodoInv ==
  /\ \A i, j \in DOMAIN todo : i < j => Last(todo[i].path) < Last(todo[j].path)
  /\ \A i, j \in DOMAIN children : i < j => Last(children[i]) < Last(children[j])
  /\ \A i \in DOMAIN children :
       /\ children[i] # <<>> /\ Front(children[i]) = cwd
       /\ \A j \in DOMAIN todo : Last(children[i]) < Last(todo[j].path)

\* What was taken comes before what is still to be.
TakenInv ==
  /\ \A n \in Taken : records[n].path # <<>>
  /\ \A n \in Taken, i \in DOMAIN stack : Precedes(Upper(n), stack[i])
  /\ pc = "scan" => \A n \in Taken : Precedes(Upper(n), cwd)
  /\ Visiting => \A n \in Taken :
       \/ Precedes(Upper(n), cwd)
       \/ /\ Upper(n) = cwd
          /\ \A i \in DOMAIN todo : Last(records[n].path) < Last(todo[i].path)

OrderInv == StackInv /\ TodoInv /\ TakenInv /\ OrderIsStable

LEMMA WalkTypes ==
  ASSUME WalkInv
  PROVE  /\ made \subseteq Paths /\ cwd \in Seq(Nat) /\ cwd \in Paths
         /\ stack \in Seq(made) /\ Len(stack) \in Nat /\ DOMAIN stack = 1 .. Len(stack)
         /\ \A i \in DOMAIN stack : stack[i] \in Paths /\ stack[i] \in Seq(Nat)
         /\ children \in Seq(made) /\ Len(children) \in Nat
         /\ DOMAIN children = 1 .. Len(children)
         /\ \A i \in DOMAIN children : children[i] \in Paths /\ children[i] \in Seq(Nat)
         /\ Len(todo) \in Nat /\ DOMAIN todo = 1 .. Len(todo)
         /\ \A i \in DOMAIN todo :
              /\ todo[i].path \in Paths /\ todo[i].path \in Seq(Nat) /\ todo[i].path # <<>>
              /\ Front(todo[i].path) = cwd /\ Last(todo[i].path) \in Nat
<1>1. /\ made \subseteq Paths /\ cwd \in made /\ stack \in Seq(made)
      /\ children \in Seq(made) /\ todo \in Seq(EntriesOf(cwd))
  BY DEF WalkInv
<1>2. /\ Len(stack) \in Nat /\ DOMAIN stack = 1 .. Len(stack)
      /\ \A i \in DOMAIN stack : stack[i] \in made
  BY <1>1, LenProperties, ElementOfSeq
<1>3. /\ Len(children) \in Nat /\ DOMAIN children = 1 .. Len(children)
      /\ \A i \in DOMAIN children : children[i] \in made
  BY <1>1, LenProperties, ElementOfSeq
<1>4. /\ Len(todo) \in Nat /\ DOMAIN todo = 1 .. Len(todo)
      /\ \A i \in DOMAIN todo : todo[i] \in EntriesOf(cwd)
  BY <1>1, LenProperties, ElementOfSeq
<1>5. ASSUME NEW i \in DOMAIN todo
      PROVE  /\ todo[i].path \in Paths /\ todo[i].path \in Seq(Nat) /\ todo[i].path # <<>>
             /\ Front(todo[i].path) = cwd /\ Last(todo[i].path) \in Nat
  <2>1. /\ todo[i].path \in Paths /\ todo[i].path \in Seq(Nat) /\ todo[i].path # <<>>
        /\ Front(todo[i].path) = cwd
    BY <1>4, PathTypes DEF EntriesOf
  <2>2. QED
    BY <2>1, FrontLast
<1>6. QED
  BY <1>1, <1>2, <1>3, <1>4, <1>5, PathTypes

\* The entry that is inspected and the ones after it.
LEMMA TailTypes ==
  ASSUME WalkInv, todo # <<>>
  PROVE  /\ 1 \in DOMAIN todo /\ Path = todo[1].path
         /\ DOMAIN Tail(todo) = 1 .. Len(todo) - 1 /\ Len(todo) \in Nat \ {0}
         /\ \A i \in DOMAIN Tail(todo) : i + 1 \in DOMAIN todo /\ Tail(todo)[i] = todo[i + 1]
<1>1. todo \in Seq(EntriesOf(cwd))
  BY DEF WalkInv
<1>2. Len(todo) \in Nat \ {0} /\ DOMAIN todo = 1 .. Len(todo)
  BY <1>1, EmptySeq, LenProperties
<1>3. /\ Head(todo) = todo[1] /\ Len(Tail(todo)) = Len(todo) - 1
      /\ Tail(todo) \in Seq(EntriesOf(cwd))
      /\ \A i \in 1 .. Len(Tail(todo)) : Tail(todo)[i] = todo[i + 1]
  BY <1>1, HeadTailProperties
<1>4. DOMAIN Tail(todo) = 1 .. Len(todo) - 1
  BY <1>3, LenProperties
<1>5. QED
  BY <1>2, <1>3, <1>4 DEF Path, Entry

LEMMA TakenTypes ==
  ASSUME records \in Seq(RecordType)
  PROVE  \A n \in Taken : /\ n \in DOMAIN records /\ records[n] \in RecordType
                          /\ records[n].path \in Paths /\ records[n].path \in Seq(Nat)
<1>1. \A n \in Taken : n \in DOMAIN records
  BY DEF Taken, Recorded
<1>2. \A n \in Taken : records[n] \in RecordType
  BY <1>1, RecordsDomain
<1>3. QED
  BY <1>1, <1>2, PathTypes DEF RecordType

---------------------------------------------------------------------------
(* What is taken *)

\* What was taken is as it was.
TakenKept == Taken' = Taken /\ \A n \in Taken : records'[n] = records[n]

LEMMA NothingTaken ==
  ASSUME records \in Seq(RecordType)
  PROVE  /\ UNCHANGED records => TakenKept /\ \A t : PathsOf(t)' = PathsOf(t)
         /\ \A p \in Paths, i \in BOOLEAN : Omit(p, i) =>
              /\ TakenKept /\ records' \in Seq(RecordType)
              /\ PathsOf("F")' = PathsOf("F") /\ PathsOf("D")' = PathsOf("D")
              /\ PathsOf("O")' = PathsOf("O") \union {p}
              /\ Recorded("F")' = Recorded("F")
              /\ Bytes(Recorded("F"))' = Bytes(Recorded("F"))
<1>1. ASSUME UNCHANGED records PROVE TakenKept /\ \A t : PathsOf(t)' = PathsOf(t)
  BY <1>1 DEF TakenKept, Taken, Recorded, PathsOf
<1>2. ASSUME NEW p \in Paths, NEW i \in BOOLEAN, Omit(p, i)
      PROVE  /\ TakenKept /\ records' \in Seq(RecordType)
             /\ PathsOf("F")' = PathsOf("F") /\ PathsOf("D")' = PathsOf("D")
             /\ PathsOf("O")' = PathsOf("O") \union {p}
             /\ Recorded("F")' = Recorded("F")
             /\ Bytes(Recorded("F"))' = Bytes(Recorded("F"))
  <2>1. <<>> \in Seq(Int) /\ records' = Append(records, Record("O", p, <<>>))
    BY <1>2, EmptySeq DEF Omit
  <2>2. /\ records' \in Seq(RecordType)
        /\ \A n \in DOMAIN records : records'[n] = records[n]
        /\ \A t : t # "O" => Recorded(t)' = Recorded(t) /\ PathsOf(t)' = PathsOf(t)
        /\ PathsOf("O")' = PathsOf("O") \union {p}
    BY <2>1, Extended
  <2>3. Bytes(Recorded("F"))' = Bytes(Recorded("F"))
    BY <2>1, BytesAdded
  <2>4. TakenKept
    BY <2>2, TakenTypes DEF TakenKept, Taken
  <2>5. QED
    BY <2>2, <2>3, <2>4
<1>3. QED
  BY <1>1, <1>2

\* An entry is taken.
Takes(p) ==
  /\ Taken' = Taken \union {Len(records) + 1}
  /\ records'[Len(records) + 1].path = p
  /\ \A n \in Taken : n < Len(records) + 1 /\ records'[n] = records[n]

LEMMA SomethingTaken ==
  ASSUME records \in Seq(RecordType), NEW tag \in {"D", "F"}, NEW p \in Paths,
         NEW c \in Seq(Int), records' = Append(records, Record(tag, p, c))
  PROVE  Takes(p)
<1>1. /\ DOMAIN records = 1 .. Len(records) /\ Len(records) \in Nat
      /\ \A n \in DOMAIN records : records'[n] = records[n]
      /\ records'[Len(records) + 1] = Record(tag, p, c)
      /\ \A t : t # tag => Recorded(t)' = Recorded(t)
      /\ Recorded(tag)' = Recorded(tag) \union {Len(records) + 1}
  BY Extended
<1>2. Taken' = Taken \union {Len(records) + 1}
  <2>1. CASE tag = "D"
    BY <1>1, <2>1 DEF Taken
  <2>2. CASE tag = "F"
    BY <1>1, <2>2 DEF Taken
  <2>3. QED
    BY <2>1, <2>2
<1>3. \A n \in Taken : n \in 1 .. Len(records)
  BY <1>1, TakenTypes
<1>4. \A n \in Taken : n < Len(records) + 1 /\ records'[n] = records[n]
  BY <1>1, <1>3
<1>5. records'[Len(records) + 1].path = p
  BY <1>1 DEF Record
<1>6. QED
  BY <1>2, <1>4, <1>5 DEF Takes

\* The order of what was taken holds when nothing is, and when the entry that is
\* inspected is.
LEMMA OrderKept == OrderIsStable /\ TakenKept => OrderIsStable'
  BY DEF OrderIsStable, TakenKept, Taken

LEMMA EntryIsLater ==
  ASSUME WalkInv, OrderInv, records \in Seq(RecordType), Visiting, todo # <<>>,
         NEW n \in Taken
  PROVE  IF Upper(n) = cwd THEN Last(records[n].path) < Last(Path) ELSE Precedes(Upper(n), cwd)
<1>1. 1 \in DOMAIN todo /\ Path = todo[1].path
  BY TailTypes
<1>2. \/ Precedes(Upper(n), cwd)
      \/ Upper(n) = cwd /\ Last(records[n].path) < Last(Path)
  BY <1>1 DEF OrderInv, TakenInv
<1>3. ~Precedes(cwd, cwd)
  BY NotBeforeItself, WalkTypes
<1>4. QED
  BY <1>2, <1>3

\* The entry that is inspected was not taken before.
LEMMA EntryIsNew ==
  ASSUME WalkInv, OrderInv, records \in Seq(RecordType), Visiting, todo # <<>>
  PROVE  Path \notin PathsOf("F") \union PathsOf("D")
<1> SUFFICES ASSUME NEW n \in Taken, records[n].path = Path PROVE FALSE
  BY DEF PathsOf, Taken
<1>1. Upper(n) = cwd /\ Last(Path) \in Nat
  BY EntryFacts, TailTypes, WalkTypes DEF Upper
<1>2. Last(Path) < Last(Path)
  BY <1>1, EntryIsLater
<1>3. QED
  BY <1>1, <1>2

LEMMA OrderTaken ==
  ASSUME WalkInv, OrderInv, records \in Seq(RecordType), Visiting, todo # <<>>, Takes(Path)
  PROVE  OrderIsStable'
<1> DEFINE k == Len(records) + 1
           Later(p, q) == IF Front(p) = Front(q) THEN Last(p) < Last(q)
                                                 ELSE Precedes(Front(p), Front(q))
<1>1. Front(Path) = cwd /\ Len(records) \in Nat
  BY EntryFacts, LenProperties
<1>2. \A m, n \in Taken : m < n => Later(records[m].path, records[n].path)
  BY DEF OrderInv, OrderIsStable, Taken
<1>3. \A n \in Taken : Later(records[n].path, Path)
  BY <1>1, EntryIsLater DEF Upper
<1>4. /\ Taken' = Taken \union {k} /\ records'[k].path = Path
      /\ \A n \in Taken : n < k /\ records'[n] = records[n] /\ n \in DOMAIN records
  BY TakenTypes DEF Takes
<1>5. DOMAIN records = 1 .. Len(records)
  BY LenProperties
<1>6. \A m, n \in Taken' : m < n => Later(records'[m].path, records'[n].path)
  <2> SUFFICES ASSUME NEW m \in Taken', NEW n \in Taken', m < n
               PROVE  Later(records'[m].path, records'[n].path)
    OBVIOUS
  <2>1. m \in Taken
    BY <1>1, <1>4, <1>5
  <2> HIDE DEF Later, k
  <2>2. QED
    BY <1>2, <1>3, <1>4, <2>1
<1>7. \A m, n \in (Recorded("F") \union Recorded("D"))' :
        m < n => Later(records'[m].path, records'[n].path)
  BY <1>6 DEF Taken
<1>8. QED
  BY <1>7 DEF OrderIsStable

---------------------------------------------------------------------------
(* The order is kept *)

\* The stack after the entries of a directory: its children, the last at the bottom.
ChildAt(i) == Len(stack) + Len(children) + 1 - i

LEMMA Pushed ==
  ASSUME WalkInv
  PROVE  /\ DOMAIN (stack \o Reverse(children)) = 1 .. Len(stack) + Len(children)
         /\ \A i \in DOMAIN (stack \o Reverse(children)) :
              \/ i \in DOMAIN stack /\ (stack \o Reverse(children))[i] = stack[i]
              \/ /\ i > Len(stack) /\ ChildAt(i) \in DOMAIN children
                 /\ (stack \o Reverse(children))[i] = children[ChildAt(i)]
<1> DEFINE back == [i \in 1 .. Len(children) |-> children[(Len(children) - i) + 1]]
<1>1. /\ stack \in Seq(made) /\ children \in Seq(made)
      /\ Len(stack) \in Nat /\ DOMAIN stack = 1 .. Len(stack)
      /\ Len(children) \in Nat /\ DOMAIN children = 1 .. Len(children)
      /\ \A i \in DOMAIN children : children[i] \in made
  BY WalkTypes, ElementOfSeq
<1>2. \A i \in 1 .. Len(children) : (Len(children) - i) + 1 \in DOMAIN children
  BY <1>1
<1>3. back \in [1 .. Len(children) -> made]
  BY <1>1, <1>2
<1>4. Reverse(children) = back
  BY DEF Reverse
<1>5. \A i \in 1 .. Len(children) : back[i] = children[(Len(children) - i) + 1]
  OBVIOUS
<1> HIDE DEF back
<1>6. back \in Seq(made) /\ Len(back) = Len(children)
  BY <1>1, <1>3, SeqDef, LenProperties
<1> DEFINE s == stack \o back
<1>7. /\ s \in Seq(made) /\ Len(s) = Len(stack) + Len(back)
      /\ \A i \in 1 .. Len(stack) + Len(back) :
           s[i] = IF i <= Len(stack) THEN stack[i] ELSE back[i - Len(stack)]
  BY <1>1, <1>6, ConcatProperties
<1>8. DOMAIN s = 1 .. Len(stack) + Len(children)
  BY <1>6, <1>7, LenProperties
<1> HIDE DEF s
<1>9. ASSUME NEW i \in DOMAIN s
      PROVE  \/ i \in DOMAIN stack /\ s[i] = stack[i]
             \/ i > Len(stack) /\ ChildAt(i) \in DOMAIN children /\ s[i] = children[ChildAt(i)]
  <2>1. i \in 1 .. Len(stack) + Len(children)
    BY <1>8
  <2>2. CASE i <= Len(stack)
    BY <1>1, <1>6, <1>7, <2>1, <2>2
  <2>3. CASE i > Len(stack)
    <3>1. s[i] = back[i - Len(stack)] /\ i - Len(stack) \in 1 .. Len(children)
      BY <1>1, <1>6, <1>7, <2>1, <2>3
    <3>2. (Len(children) - (i - Len(stack))) + 1 = ChildAt(i)
      BY <1>1, <2>1 DEF ChildAt
    <3>3. QED
      BY <1>2, <1>5, <2>3, <3>1, <3>2
  <2>4. QED
    BY <1>1, <2>1, <2>2, <2>3
<1>10. QED
  BY <1>4, <1>8, <1>9 DEF s

\* The directory that is visited next, and those that are left.
LEMMA Popped ==
  ASSUME WalkInv, stack # <<>>
  PROVE  /\ Len(stack) \in DOMAIN stack /\ Last(stack) = stack[Len(stack)]
         /\ Last(stack) \in Seq(Nat) /\ Last(stack) \in made /\ Last(stack) \in Paths
         /\ DOMAIN Front(stack) = 1 .. Len(stack) - 1
         /\ \A i \in DOMAIN Front(stack) : /\ i \in DOMAIN stack /\ i < Len(stack)
                                           /\ Front(stack)[i] = stack[i]
<1>1. stack \in Seq(made)
  BY DEF WalkInv
<1>2. /\ Len(stack) \in Nat \ {0} /\ DOMAIN stack = 1 .. Len(stack)
      /\ Front(stack) \in Seq(made) /\ Len(Front(stack)) = Len(stack) - 1
      /\ \A k \in 1 .. Len(stack) - 1 : Front(stack)[k] = stack[k]
      /\ Last(stack) = stack[Len(stack)] /\ Last(stack) \in made
  BY <1>1, FrontLast
<1>3. DOMAIN Front(stack) = 1 .. Len(stack) - 1
  BY <1>2, LenProperties
<1>4. Last(stack) \in Paths /\ Last(stack) \in Seq(Nat)
  BY <1>2, WalkTypes, PathTypes
<1>5. QED
  BY <1>2, <1>3, <1>4

\* The copy's own steps but those that change the stack.
LEMMA StackStep == WalkInv /\ OrderInv /\ [Next]_vars => StackInv'
<1> SUFFICES ASSUME WalkInv, OrderInv, [Next]_vars PROVE StackInv'
  OBVIOUS
<1>k. ASSUME UNCHANGED <<stack, cwd>>, stop => stop',
             pc' = "scan" \/ Visiting' => pc = "scan" \/ Visiting,
             ~Visiting' => children' = <<>>,
             pc' \in {"ready", "failed"} => pc \in {"ready", "failed"}
      PROVE  StackInv'
  BY <1>k DEF OrderInv, StackInv
<1>c. ~Visiting => children = <<>>
  BY DEF OrderInv, StackInv
<1> USE DEF Visiting, Copying, Reading
<1>1. CASE Pop
  <2>1. /\ pc = "pop" /\ stack # <<>> /\ cwd' = Last(stack) /\ stack' = Front(stack)
        /\ pc' \in {"scan", "pop"} /\ UNCHANGED children
    BY <1>1 DEF Pop
  <2>2. \A i, j \in DOMAIN stack : i < j => Diverges(stack[j], stack[i])
    BY DEF OrderInv, StackInv
  <2>3. \A i \in DOMAIN stack' : Diverges(cwd', stack'[i])
    BY <2>1, <2>2, Popped
  <2>4. \A i, j \in DOMAIN stack' : i < j => Diverges(stack'[j], stack'[i])
    BY <2>1, <2>2, Popped
  <2>5. QED
    BY <1>c, <2>1, <2>3, <2>4 DEF StackInv
<1>2. CASE Descend
  <2> DEFINE s == stack \o Reverse(children)
  <2>1. pc = "entry" /\ pc' = "pop" /\ stack' = s /\ children' = <<>>
    BY <1>2 DEF Descend
  <2>2. \A i, j \in DOMAIN s : i < j => Diverges(s[j], s[i])
    <3> SUFFICES ASSUME NEW i \in DOMAIN s, NEW j \in DOMAIN s, i < j
                 PROVE  Diverges(s[j], s[i])
      OBVIOUS
    <3>0. /\ Len(stack) \in Nat /\ Len(children) \in Nat
          /\ DOMAIN s = 1 .. Len(stack) + Len(children) /\ DOMAIN stack = 1 .. Len(stack)
          /\ \A k \in DOMAIN s :
               \/ k \in DOMAIN stack /\ s[k] = stack[k]
               \/ /\ k > Len(stack) /\ ChildAt(k) \in DOMAIN children
                  /\ s[k] = children[ChildAt(k)]
      BY WalkTypes, Pushed
    <3>f. \A k \in DOMAIN children : /\ children[k] \in Seq(Nat) /\ children[k] # <<>>
                                     /\ Front(children[k]) = cwd
      BY WalkTypes DEF OrderInv, TodoInv
    <3> HIDE DEF s
    <3>1. CASE j \in DOMAIN stack /\ s[j] = stack[j]
      <4>1. i \in DOMAIN stack /\ s[i] = stack[i]
        BY <3>0, <3>1
      <4>2. QED
        BY <3>1, <4>1 DEF OrderInv, StackInv
    <3>2. CASE ChildAt(j) \in DOMAIN children /\ s[j] = children[ChildAt(j)]
      <4>1. CASE i \in DOMAIN stack /\ s[i] = stack[i]
        <5>1. Diverges(cwd, stack[i]) /\ stack[i] \in Seq(Nat)
          BY <2>1, <4>1, WalkTypes DEF OrderInv, StackInv
        <5>2. QED
          BY <3>2, <3>f, <4>1, <5>1, EntryOrder
      <4>2. CASE ChildAt(i) \in DOMAIN children /\ s[i] = children[ChildAt(i)]
        <5>1. ChildAt(j) < ChildAt(i)
          BY <3>0 DEF ChildAt
        <5>2. Last(s[j]) < Last(s[i])
          BY <3>2, <4>2, <5>1 DEF OrderInv, TodoInv
        <5>3. QED
          BY <3>2, <3>f, <4>2, <5>2, EntriesDiverge
      <4>3. QED
        BY <3>0, <4>1, <4>2
    <3>3. QED
      BY <3>0, <3>1, <3>2
  <2>3. QED
    BY <2>1, <2>2 DEF StackInv
<1>3. CASE Scan
  BY <1>3, <1>k DEF Scan, Omit
<1>4. CASE ScanFails
  BY <1>4, <1>c, <1>k DEF ScanFails
<1>5. CASE Skip \/ MakeDirectory
  <2>1. pc = "entry" /\ UNCHANGED <<pc, stack, cwd, stop>>
    BY <1>5 DEF Skip, MakeDirectory, Inspecting
  <2>2. QED
    BY <1>k, <2>1
<1>6. CASE Stop
  BY <1>6, <1>k DEF Stop, Inspecting
<1>7. CASE BeginCopy
  BY <1>7, <1>k DEF BeginCopy, Inspecting, walkVars
<1>8. CASE Seal
  BY <1>8 DEF Seal, walkVars, OrderInv, StackInv
<1>9. CASE OpenSource \/ StatSource \/ ReadEnds \/ CopyFails
  BY <1>9, <1>k DEF OpenSource, StatSource, ReadEnds, CopyFails, walkVars
<1>10. CASE CompareSource \/ ReadChunk
  BY <1>10, <1>k DEF CompareSource, ReadChunk, Abandon, walkVars
<1>11. CASE CheckSource \/ Discard
  <2>1. pc \in Copying /\ pc' \in {"entry", "discard"} /\ UNCHANGED <<stack, cwd, stop>>
    BY <1>11 DEF CheckSource, Discard
  <2>2. QED
    BY <1>k, <2>1
<1>12. CASE Environment \/ UNCHANGED vars
  <2>1. UNCHANGED <<pc, walkVars>>
    BY <1>12, EnvironmentKeeps DEF vars
  <2>2. QED
    BY <1>c, <1>k, <2>1 DEF walkVars
<1>13. QED
  BY <1>1, <1>2, <1>3, <1>4, <1>5, <1>6, <1>7, <1>8, <1>9, <1>10, <1>11, <1>12
  DEF Next, Advance

LEMMA TodoStep == CheckoutInv /\ WalkInv /\ OrderInv /\ [Next]_vars => TodoInv'
<1> SUFFICES ASSUME CheckoutInv, WalkInv, OrderInv, [Next]_vars PROVE TodoInv'
  OBVIOUS
<1>t. TodoInv
  BY DEF OrderInv
<1>k. UNCHANGED <<cwd, todo, children>> => TodoInv'
  BY <1>t DEF TodoInv
<1>c. ~Visiting => children = <<>> /\ DOMAIN children = {}
  BY EmptySeq DEF OrderInv, StackInv
<1>e. DOMAIN <<>> = {}
  BY EmptySeq
<1>n. UNCHANGED <<cwd, children>> /\ todo # <<>> /\ todo' = Tail(todo) => TodoInv'
  BY <1>t, TailTypes DEF TodoInv
<1> USE DEF Visiting, Copying, Reading
<1>1. CASE Pop
  <2>1. todo = <<>> /\ children = <<>> /\ UNCHANGED <<todo, children>>
    BY <1>1, <1>c DEF Pop, WalkInv
  <2>2. DOMAIN todo' = {} /\ DOMAIN children' = {}
    BY <1>e, <2>1
  <2>3. QED
    BY <2>2 DEF TodoInv
<1>2. CASE Scan
  <2>1. PICK seen \in SUBSET Entries(cwd) : todo' = Sorted(seen)
    BY <1>2 DEF Scan
  <2>2. DOMAIN children' = {}
    BY <1>2, <1>e DEF Scan
  <2>3. \A i, j \in DOMAIN todo' : i < j => Last(todo'[i].path) < Last(todo'[j].path)
    BY <2>1, EntriesAreEntries
  <2>4. QED
    BY <2>2, <2>3 DEF TodoInv
<1>3. CASE ScanFails
  BY <1>3, <1>k DEF ScanFails
<1>4. CASE Skip
  BY <1>4, <1>n DEF Skip, Inspecting
<1>5. CASE Stop
  BY <1>5, <1>e, <1>t DEF Stop, TodoInv
<1>6. CASE MakeDirectory
  <2>1. todo # <<>> /\ todo' = Tail(todo) /\ UNCHANGED cwd
    BY <1>6 DEF MakeDirectory, Inspecting
  <2>2. CASE children' = Append(children, Path)
    <3>1. /\ children \in Seq(made) /\ Len(children) \in Nat
          /\ DOMAIN children = 1 .. Len(children)
          /\ \A i \in DOMAIN children : children[i] \in Paths
      BY WalkTypes
    <3>2. Path \in Paths /\ Path # <<>> /\ Front(Path) = cwd
      BY <2>1, EntryFacts
    <3>3. children \in Seq(Paths)
      BY WalkTypes, SeqMonotonic
    <3>4. /\ Len(children') = Len(children) + 1 /\ children' \in Seq(Paths)
          /\ \A i \in 1 .. Len(children) : children'[i] = children[i]
          /\ children'[Len(children) + 1] = Path
      BY <2>2, <3>2, <3>3, AppendProperties
    <3>5. /\ DOMAIN children' = DOMAIN children \union {Len(children) + 1}
          /\ \A i \in DOMAIN children : i < Len(children) + 1 /\ i \in Nat
      BY <3>1, <3>4, LenProperties
    <3>6. /\ 1 \in DOMAIN todo /\ Path = todo[1].path
          /\ \A i \in DOMAIN todo' : /\ i + 1 \in DOMAIN todo /\ todo'[i] = todo[i + 1]
                                     /\ 1 < i + 1 /\ i \in Nat
      BY <2>1, TailTypes
    <3>7. \A i, j \in DOMAIN todo' : i < j => Last(todo'[i].path) < Last(todo'[j].path)
      BY <1>t, <3>6 DEF TodoInv
    <3>8. \A i \in DOMAIN children : Last(children'[i]) < Last(Path)
      BY <1>t, <3>1, <3>4, <3>6 DEF TodoInv
    <3>9. \A j \in DOMAIN todo' : Last(Path) < Last(todo'[j].path)
      BY <1>t, <3>6 DEF TodoInv
    <3>10. \A i, j \in DOMAIN children : i < j => Last(children'[i]) < Last(children'[j])
      BY <1>t, <3>1, <3>4 DEF TodoInv
    <3>11. \A i, j \in DOMAIN children' : i < j => Last(children'[i]) < Last(children'[j])
      <4> SUFFICES ASSUME NEW i \in DOMAIN children', NEW j \in DOMAIN children', i < j
                   PROVE  Last(children'[i]) < Last(children'[j])
        OBVIOUS
      <4>1. i \in DOMAIN children /\ (j \in DOMAIN children \/ j = Len(children) + 1)
        BY <3>1, <3>5
      <4>2. QED
        BY <3>4, <3>8, <3>10, <4>1
    <3>12. \A i \in DOMAIN children : /\ children'[i] # <<>> /\ Front(children'[i]) = cwd
                                      /\ \A j \in DOMAIN todo' : Last(children'[i]) < Last(todo'[j].path)
      BY <1>t, <3>1, <3>4, <3>6 DEF TodoInv
    <3>13. QED
      BY <2>1, <3>2, <3>4, <3>5, <3>7, <3>9, <3>11, <3>12 DEF TodoInv
  <2>3. CASE UNCHANGED children
    BY <1>n, <2>1, <2>3
  <2>4. QED
    BY <1>6, <2>2, <2>3 DEF MakeDirectory
<1>7. CASE BeginCopy
  BY <1>7, <1>k DEF BeginCopy, walkVars
<1>8. CASE Descend
  <2>1. DOMAIN todo' = {} /\ DOMAIN children' = {}
    BY <1>8, <1>e DEF Descend
  <2>2. QED
    BY <2>1 DEF TodoInv
<1>9. CASE Seal
  BY <1>9, <1>k DEF Seal, walkVars
<1>10. CASE OpenSource \/ StatSource \/ ReadEnds \/ CopyFails
  BY <1>10, <1>k DEF OpenSource, StatSource, ReadEnds, CopyFails, walkVars
<1>11. CASE CompareSource \/ ReadChunk
  BY <1>11, <1>k DEF CompareSource, ReadChunk, walkVars
<1>12. CASE CheckSource
  <2>1. todo # <<>>
    BY <1>12 DEF CheckSource, WalkInv
  <2>2. QED
    BY <1>12, <1>k, <1>n, <2>1 DEF CheckSource
<1>13. CASE Discard
  <2>1. todo # <<>>
    BY <1>13 DEF Discard, WalkInv
  <2>2. QED
    BY <1>13, <1>n, <2>1 DEF Discard
<1>14. CASE Environment \/ UNCHANGED vars
  BY <1>14, <1>k, EnvironmentKeeps DEF vars, walkVars
<1>15. QED
  BY <1>1, <1>2, <1>3, <1>4, <1>5, <1>6, <1>7, <1>8, <1>9, <1>10, <1>11, <1>12, <1>13, <1>14
  DEF Next, Advance

\* What was taken still comes before what is left, when nothing is taken.
LEMMA LaterKept ==
  ASSUME TakenInv, TakenKept
  PROVE  /\ \A n \in Taken' : records'[n].path # <<>>
         /\ \A n \in Taken', i \in DOMAIN stack : Precedes(Upper(n)', stack[i])
         /\ pc = "scan" => \A n \in Taken' : Precedes(Upper(n)', cwd)
         /\ Visiting => \A n \in Taken' :
              \/ Precedes(Upper(n)', cwd)
              \/ /\ Upper(n)' = cwd
                 /\ \A i \in DOMAIN todo : Last(records'[n].path) < Last(todo[i].path)
<1>1. Taken' = Taken /\ \A n \in Taken : records'[n] = records[n] /\ Upper(n)' = Upper(n)
  BY DEF TakenKept, Upper
<1>2. QED
  BY <1>1 DEF TakenInv

LEMMA TakenStep ==
  CheckoutInv /\ WalkInv /\ LimitInv /\ CopyInv /\ OrderInv /\ [Next]_vars
    => TakenInv' /\ OrderIsStable'
<1> SUFFICES ASSUME CheckoutInv, WalkInv, LimitInv, CopyInv, OrderInv, [Next]_vars
             PROVE  TakenInv' /\ OrderIsStable'
  OBVIOUS
<1>r. records \in Seq(RecordType)
  BY DEF LimitInv
<1>t. TakenInv /\ OrderIsStable
  BY DEF OrderInv
<1>e. DOMAIN <<>> = {}
  BY EmptySeq
<1>d. cwd \in Paths /\ (todo # <<>> => Path \in Paths) /\ <<>> \in Seq(Int)
  BY EntryFacts, EmptySeq DEF WalkInv
<1>o. TakenKept => OrderIsStable'
  BY <1>t, OrderKept
<1>k. ASSUME TakenKept, UNCHANGED <<stack, cwd>>,
             pc' = "scan" => pc = "scan", Visiting' => Visiting /\ UNCHANGED todo
      PROVE  TakenInv' /\ OrderIsStable'
  BY <1>k, <1>o, <1>t, LaterKept DEF TakenInv
<1>n. ASSUME TakenKept, UNCHANGED <<stack, cwd>>, pc' = "entry", Visiting,
             todo # <<>>, todo' = Tail(todo)
      PROVE  TakenInv' /\ OrderIsStable'
  BY <1>n, <1>o, <1>t, LaterKept, TailTypes DEF TakenInv
<1>s. ASSUME NEW tag \in {"D", "F"}, NEW c \in Seq(Int), Visiting, todo # <<>>,
             records' = Append(records, Record(tag, Path, c)),
             UNCHANGED <<stack, cwd>>, pc' = "entry", todo' = Tail(todo)
      PROVE  TakenInv' /\ OrderIsStable'
  <2>1. Takes(Path)
    BY <1>d, <1>r, <1>s, SomethingTaken
  <2>2. OrderIsStable'
    BY <1>r, <1>s, <2>1, OrderTaken
  <2>k. PICK k \in Nat : k = Len(records) + 1
    BY <1>r, LenProperties
  <2>3. /\ Taken' = Taken \union {k} /\ records'[k].path = Path /\ Upper(k)' = Front(Path)
        /\ \A n \in Taken : records'[n] = records[n] /\ Upper(n)' = Upper(n)
    BY <2>1, <2>k DEF Takes, Upper
  <2>4. Path # <<>> /\ Front(Path) = cwd
    BY <1>s, EntryFacts
  <2>5. \A i \in DOMAIN stack : Precedes(cwd, stack[i])
    <3>1. \A i \in DOMAIN stack : Diverges(cwd, stack[i])
      BY <1>s DEF OrderInv, StackInv
    <3>2. QED
      BY <3>1, WalkTypes, PrecedesIs
  <2>6. /\ \A i \in DOMAIN todo' : Last(Path) < Last(todo'[i].path)
        /\ \A i \in DOMAIN todo' : i + 1 \in DOMAIN todo /\ todo'[i] = todo[i + 1]
    <3>1. /\ 1 \in DOMAIN todo /\ Path = todo[1].path
          /\ \A i \in DOMAIN todo' : /\ i + 1 \in DOMAIN todo /\ todo'[i] = todo[i + 1]
                                     /\ 1 < i + 1
      BY <1>s, TailTypes
    <3>2. QED
      BY <3>1 DEF OrderInv, TodoInv
  <2>7. \A n \in Taken' : records'[n].path # <<>>
    BY <1>t, <2>3, <2>4 DEF TakenInv
  <2>8. \A n \in Taken', i \in DOMAIN stack' : Precedes(Upper(n)', stack'[i])
    BY <1>s, <1>t, <2>3, <2>4, <2>5 DEF TakenInv
  <2>9. \A n \in Taken' :
          \/ Precedes(Upper(n)', cwd')
          \/ /\ Upper(n)' = cwd'
             /\ \A i \in DOMAIN todo' : Last(records'[n].path) < Last(todo'[i].path)
    BY <1>s, <1>t, <2>3, <2>4, <2>6 DEF TakenInv
  <2>10. QED
    BY <1>s, <2>2, <2>7, <2>8, <2>9 DEF TakenInv
<1>u. /\ UNCHANGED records => TakenKept
      /\ \A p \in Paths, i \in BOOLEAN : Omit(p, i) => TakenKept
  BY <1>r, NothingTaken
<1> USE DEF Visiting, Copying, Reading
<1>1. CASE Pop
  <2>1. /\ stack # <<>> /\ cwd' = Last(stack) /\ stack' = Front(stack)
        /\ pc' \in {"scan", "pop"} /\ (UNCHANGED records \/ Omit(cwd', TRUE))
    BY <1>1 DEF Pop
  <2>2. TakenKept
    BY <1>u, <2>1, Popped
  <2>3. \A n \in Taken', i \in DOMAIN stack : Precedes(Upper(n)', stack[i])
    BY <1>t, <2>2, LaterKept
  <2>4. \A n \in Taken' : records'[n].path # <<>>
    BY <1>t, <2>2, LaterKept
  <2>5. \A n \in Taken' : Precedes(Upper(n)', cwd')
    BY <2>1, <2>3, Popped
  <2>6. \A n \in Taken', i \in DOMAIN stack' : Precedes(Upper(n)', stack'[i])
    BY <2>1, <2>3, Popped
  <2>7. QED
    BY <1>o, <2>1, <2>2, <2>4, <2>5, <2>6 DEF TakenInv
<1>2. CASE Scan
  <2>1. /\ pc = "scan" /\ pc' = "entry" /\ UNCHANGED <<stack, cwd>>
        /\ UNCHANGED records \/ Omit(cwd, TRUE)
    BY <1>2 DEF Scan
  <2>2. TakenKept
    BY <1>d, <1>u, <2>1
  <2>3. QED
    BY <1>o, <1>t, <2>1, <2>2, LaterKept DEF TakenInv
<1>3. CASE ScanFails
  BY <1>3, <1>d, <1>k, <1>u DEF ScanFails
<1>4. CASE Skip
  <2>1. /\ Omit(Path, ~Withheld) /\ todo # <<>> /\ todo' = Tail(todo)
        /\ pc = "entry" /\ pc' = pc /\ UNCHANGED <<stack, cwd>>
    BY <1>4 DEF Skip, Inspecting
  <2>2. (~Withheld) \in BOOLEAN
    BY DEF Withheld, Hidden
  <2>3. QED
    BY <1>d, <1>n, <1>u, <2>1, <2>2
<1>5. CASE Stop
  <2>1. /\ Omit(Path, TRUE) /\ todo # <<>> /\ DOMAIN todo' = {}
        /\ pc = "entry" /\ pc' = pc /\ UNCHANGED <<stack, cwd>>
    BY <1>5, <1>e DEF Stop, Inspecting
  <2>2. TakenKept
    BY <1>d, <1>u, <2>1
  <2>3. QED
    BY <1>o, <1>t, <2>1, <2>2, LaterKept DEF TakenInv
<1>6. CASE MakeDirectory
  <2>1. /\ todo # <<>> /\ todo' = Tail(todo) /\ pc = "entry" /\ pc' = "entry"
        /\ UNCHANGED <<stack, cwd>>
        /\ records' = Append(records, Record("D", Path, <<>>)) \/ Omit(Path, TRUE)
    BY <1>6 DEF MakeDirectory, Inspecting
  <2>2. CASE records' = Append(records, Record("D", Path, <<>>))
    BY <1>d, <1>s, <2>1, <2>2
  <2>3. CASE Omit(Path, TRUE)
    BY <1>d, <1>n, <1>u, <2>1, <2>3
  <2>4. QED
    BY <2>1, <2>2, <2>3
<1>7. CASE BeginCopy
  BY <1>7, <1>k, <1>u DEF BeginCopy, Inspecting, walkVars, outVars
<1>8. CASE Descend
  <2> DEFINE s == stack \o Reverse(children)
  <2>1. pc = "entry" /\ pc' = "pop" /\ stack' = s /\ UNCHANGED records
    BY <1>8 DEF Descend, outVars
  <2>2. TakenKept
    BY <1>u, <2>1
  <2>3. /\ \A n \in Taken' : records'[n].path # <<>>
        /\ \A n \in Taken', i \in DOMAIN stack : Precedes(Upper(n)', stack[i])
        /\ \A n \in Taken' : Precedes(Upper(n)', cwd) \/ Upper(n)' = cwd
    BY <1>t, <2>1, <2>2, LaterKept
  <2>4. \A n \in Taken' : Upper(n)' \in Seq(Nat)
    <3> SUFFICES ASSUME NEW n \in Taken PROVE Upper(n) \in Seq(Nat)
      BY <2>2 DEF TakenKept, Upper
    <3>1. records[n].path \in Seq(Nat) /\ records[n].path # <<>>
      BY <1>r, <1>t, TakenTypes DEF TakenInv
    <3>2. QED
      BY <3>1, FrontLast DEF Upper
  <2>5. \A n \in Taken', i \in DOMAIN children : Precedes(Upper(n)', children[i])
    <3> TAKE n \in Taken', i \in DOMAIN children
    <3> DEFINE u == Upper(n)'
               c == children[i]
    <3>1. c \in Seq(Nat) /\ c # <<>> /\ Front(c) = cwd
      BY WalkTypes DEF OrderInv, TodoInv
    <3>2. u \in Seq(Nat) /\ (Precedes(u, cwd) \/ u = cwd)
      BY <2>3, <2>4
    <3> HIDE DEF u, c
    <3>3. Precedes(u, c)
      BY <3>1, <3>2, EntryOrder
    <3>4. QED
      BY <3>3 DEF u, c
  <2>6. \A i \in DOMAIN s : \/ \E j \in DOMAIN stack : s[i] = stack[j]
                            \/ \E j \in DOMAIN children : s[i] = children[j]
    BY Pushed
  <2> HIDE DEF s
  <2>7. \A n \in Taken', i \in DOMAIN s : Precedes(Upper(n)', s[i])
    BY <2>3, <2>5, <2>6
  <2>8. QED
    BY <1>o, <2>1, <2>2, <2>3, <2>7 DEF TakenInv
<1>9. CASE Seal
  BY <1>9, <1>k, <1>u DEF Seal, walkVars, outVars
<1>10. CASE OpenSource \/ StatSource \/ ReadEnds \/ CopyFails
  BY <1>10, <1>k, <1>u DEF OpenSource, StatSource, ReadEnds, CopyFails, walkVars, outVars
<1>11. CASE CompareSource \/ ReadChunk
  BY <1>11, <1>k, <1>u DEF CompareSource, ReadChunk, Abandon, walkVars
<1>12. CASE CheckSource
  <2>1. pc = "final" /\ todo # <<>> /\ UNCHANGED <<stack, cwd>>
    BY <1>12 DEF CheckSource, WalkInv
  <2>2. CASE pc' = "discard" /\ UNCHANGED <<todo, records>>
    BY <1>k, <1>u, <2>1, <2>2
  <2>3. CASE pc' = "entry" /\ todo' = Tail(todo)
             /\ records' = Append(records, Record("F", Path, disk[Path]))
    <3>1. disk[Path] \in Seq(Int)
      BY <2>1 DEF LimitInv
    <3>2. QED
      BY <1>s, <2>1, <2>3, <3>1
  <2>4. QED
    BY <1>12, <2>2, <2>3 DEF CheckSource
<1>13. CASE Discard
  <2>1. /\ pc = "discard" /\ todo # <<>> /\ UNCHANGED <<stack, cwd>>
        /\ pc' = "entry" /\ todo' = Tail(todo) /\ Omit(Path, TRUE)
    BY <1>13 DEF Discard, WalkInv
  <2>2. QED
    BY <1>d, <1>n, <1>u, <2>1
<1>14. CASE Environment \/ UNCHANGED vars
  <2>1. UNCHANGED <<pc, walkVars, records>>
    BY <1>14, EnvironmentKeeps DEF vars, outVars
  <2>2. QED
    BY <1>k, <1>u, <2>1 DEF walkVars
<1>15. QED
  BY <1>1, <1>2, <1>3, <1>4, <1>5, <1>6, <1>7, <1>8, <1>9, <1>10, <1>11, <1>12, <1>13, <1>14
  DEF Next, Advance

LEMMA OrderStep ==
  CheckoutInv /\ WalkInv /\ LimitInv /\ CopyInv /\ OrderInv /\ [Next]_vars => OrderInv'
  BY StackStep, TodoStep, TakenStep DEF OrderInv

---------------------------------------------------------------------------
(* The account of the records *)

\* The counters count the records, and the records are of what is on the disk: all
\* but the file being copied, and failed copies of an incomplete snapshot.
Counters ==
  /\ made = PathsOf("D") \union {<<>>}
  /\ directories = Cardinality(made) /\ files = Cardinality(Recorded("F"))
  /\ totalBytes = Bytes(Recorded("F"))
OnDisk ==
  \A n \in Recorded("F") :
    records[n].path \in DOMAIN disk /\ disk[records[n].path] = records[n].content
Leftovers ==
  \A p \in DOMAIN disk \ PathsOf("F") :
    (pc \in Copying /\ p = Path) \/ (p \in PathsOf("O") /\ ~complete)
AccountInv == Counters /\ OnDisk /\ Leftovers /\ DOMAIN disk \subseteq Paths

LEMMA BytesKept == UNCHANGED records => Bytes(Recorded("F"))' = Bytes(Recorded("F"))
<1> DEFINE N == Recorded("F")
<1> SUFFICES ASSUME UNCHANGED records PROVE Bytes(N)' = Bytes(N)
  OBVIOUS
<1>1. N' = N
  BY DEF Recorded
<1> HIDE DEF N
<1>2. Bytes(N) = Total(records, N)
  BY DEF Bytes, Total
<1>3. Bytes(N)' = Total(records', N')
  BY DEF Bytes, Total, FoldSet, MapThenFoldSet
<1>4. QED
  BY <1>1, <1>2, <1>3

\* Where nothing is taken, the counters stay.
LEMMA CountersKept ==
  ASSUME Counters, UNCHANGED <<made, countVars>>, PathsOf("D")' = PathsOf("D"),
         Recorded("F")' = Recorded("F"), Bytes(Recorded("F"))' = Bytes(Recorded("F"))
  PROVE  Counters'
  BY DEF Counters, countVars

\* A directory is counted, and a file.
LEMMA DirectoryCounted ==
  ASSUME Counters, made \subseteq Paths, records \in Seq(RecordType), NEW p \in Paths,
         p \notin made, records' = Append(records, Record("D", p, <<>>)),
         made' = made \union {p}, directories' = directories + 1,
         UNCHANGED <<files, totalBytes>>
  PROVE  Counters'
<1>1. /\ Recorded("F")' = Recorded("F") /\ PathsOf("D")' = PathsOf("D") \union {p}
      /\ Bytes(Recorded("F"))' = Bytes(Recorded("F"))
  <2>1. <<>> \in Seq(Int)
    BY EmptySeq
  <2>2. QED
    BY <2>1, Extended, BytesAdded
<1>2. Cardinality(made') = Cardinality(made) + 1
  <2>1. IsFiniteSet(made)
    BY PathTypes, FS_Subset
  <2>2. QED
    BY <2>1, FS_AddElement
<1>3. QED
  BY <1>1, <1>2 DEF Counters

LEMMA FileCounted ==
  ASSUME Counters, records \in Seq(RecordType), NEW p \in Paths, NEW c \in Seq(Int),
         records' = Append(records, Record("F", p, c)), files' = files + 1,
         totalBytes' = totalBytes + Len(c), UNCHANGED <<made, directories>>
  PROVE  Counters'
<1>1. /\ Recorded("F")' = Recorded("F") \union {Len(records) + 1}
      /\ PathsOf("D")' = PathsOf("D")
      /\ Bytes(Recorded("F"))' = Bytes(Recorded("F")) + Len(c)
  BY Extended, BytesAdded
<1>2. Cardinality(Recorded("F")') = Cardinality(Recorded("F")) + 1
  <2>1. Recorded("F") \in SUBSET DOMAIN records
    BY DEF Recorded
  <2>2. IsFiniteSet(Recorded("F")) /\ Len(records) + 1 \notin Recorded("F")
    BY <2>1, RecordsDomain, FS_Subset
  <2>3. QED
    BY <1>1, <2>2, FS_AddElement
<1>3. QED
  BY <1>1, <1>2 DEF Counters

\* Every step keeps the account.
LEMMA AccountStep ==
  WalkInv /\ LimitInv /\ CopyInv /\ OrderInv /\ AccountInv /\ [Next]_vars => AccountInv'
<1> SUFFICES ASSUME WalkInv, LimitInv, CopyInv, OrderInv, AccountInv, [Next]_vars
             PROVE  AccountInv'
  OBVIOUS
<1>r. records \in Seq(RecordType)
  BY DEF LimitInv
<1>a. Counters /\ OnDisk /\ Leftovers /\ DOMAIN disk \subseteq Paths
  BY DEF AccountInv
<1>d. cwd \in Paths /\ (todo # <<>> => Path \in Paths) /\ <<>> \in Seq(Int)
  BY EntryFacts, EmptySeq DEF WalkInv
<1>p. UNCHANGED todo => UNCHANGED Path
  BY DEF Path, Entry
<1>k. ASSUME UNCHANGED outVars, pc \in Copying => pc' \in Copying /\ UNCHANGED todo
      PROVE  AccountInv'
  <2>1. UNCHANGED <<disk, made, records, countVars, complete>>
    BY <1>k DEF outVars
  <2>2. Recorded("F")' = Recorded("F") /\ \A t : PathsOf(t)' = PathsOf(t)
    BY <2>1 DEF Recorded, PathsOf
  <2>3. Counters'
    BY <1>a, <2>1, <2>2, BytesKept, CountersKept
  <2>4. OnDisk'
    BY <1>a, <2>1, <2>2 DEF OnDisk
  <2>5. Leftovers'
    BY <1>a, <1>k, <1>p, <2>1, <2>2 DEF Leftovers
  <2>6. QED
    BY <1>a, <2>1, <2>3, <2>4, <2>5 DEF AccountInv
<1>o. ASSUME NEW p \in Paths, NEW i \in BOOLEAN, Omit(p, i),
             UNCHANGED <<disk, made, countVars>>, pc \notin Copying
      PROVE  AccountInv'
  <2>1. /\ PathsOf("F")' = PathsOf("F") /\ PathsOf("D")' = PathsOf("D")
        /\ PathsOf("O")' = PathsOf("O") \union {p}
        /\ Recorded("F")' = Recorded("F")
        /\ Bytes(Recorded("F"))' = Bytes(Recorded("F"))
        /\ TakenKept
    BY <1>o, <1>r, NothingTaken
  <2>2. complete' => complete
    BY <1>o DEF Omit
  <2>3. Counters'
    BY <1>a, <1>o, <2>1, CountersKept
  <2>4. OnDisk'
    BY <1>a, <1>o, <2>1 DEF OnDisk, TakenKept, Taken
  <2>5. Leftovers'
    BY <1>a, <1>o, <2>1, <2>2 DEF Leftovers
  <2>6. QED
    BY <1>a, <1>o, <2>3, <2>4, <2>5 DEF AccountInv
<1>n. pc \in {"entry"} \union Copying /\ todo # <<>> => Path \notin PathsOf("F") \union PathsOf("D")
  BY <1>r, EntryIsNew DEF Visiting
<1>c. pc \in Copying => todo # <<>>
  BY DEF WalkInv
<1>w. \A n \in Recorded("F") : records[n].path \in PathsOf("F")
  BY DEF PathsOf
<1> USE DEF Copying, Reading
<1>1. CASE Pop
  <2>1. /\ pc = "pop" /\ pc' \in {"scan", "pop"} /\ UNCHANGED <<disk, made, countVars>>
        /\ UNCHANGED <<records, complete>> \/ Omit(cwd', TRUE)
        /\ cwd' = Last(stack) /\ stack # <<>>
    BY <1>1 DEF Pop
  <2>2. CASE UNCHANGED <<records, complete>>
    BY <1>k, <2>1, <2>2 DEF outVars
  <2>3. CASE Omit(cwd', TRUE)
    BY <1>o, <2>1, <2>3, Popped
  <2>4. QED
    BY <2>1, <2>2, <2>3
<1>2. CASE Scan
  <2>1. /\ pc = "scan" /\ pc' = "entry" /\ UNCHANGED <<disk, made, countVars>>
        /\ UNCHANGED <<records, complete>> \/ Omit(cwd, TRUE)
    BY <1>2 DEF Scan
  <2>2. CASE UNCHANGED <<records, complete>>
    BY <1>k, <2>1, <2>2 DEF outVars
  <2>3. CASE Omit(cwd, TRUE)
    BY <1>d, <1>o, <2>1, <2>3
  <2>4. QED
    BY <2>1, <2>2, <2>3
<1>3. CASE ScanFails
  BY <1>3, <1>d, <1>o DEF ScanFails
<1>4. CASE Skip
  <2>1. /\ Omit(Path, ~Withheld) /\ todo # <<>>
        /\ pc = "entry" /\ UNCHANGED <<disk, made, countVars>>
    BY <1>4 DEF Skip, Inspecting
  <2>2. (~Withheld) \in BOOLEAN
    BY DEF Withheld, Hidden
  <2>3. QED
    BY <1>d, <1>o, <2>1, <2>2
<1>5. CASE Stop
  BY <1>5, <1>d, <1>o DEF Stop, Inspecting
<1>6. CASE MakeDirectory
  <2>1. /\ todo # <<>> /\ pc = "entry" /\ UNCHANGED <<disk, files, totalBytes>>
        /\ \/ /\ made' = made \union {Path} /\ directories' = directories + 1
              /\ records' = Append(records, Record("D", Path, <<>>))
              /\ UNCHANGED complete
           \/ Omit(Path, TRUE) /\ UNCHANGED <<made, directories>>
    BY <1>6 DEF MakeDirectory, Inspecting
  <2>2. CASE Omit(Path, TRUE) /\ UNCHANGED <<made, directories>>
    BY <1>d, <1>o, <2>1, <2>2 DEF countVars
  <2>3. CASE /\ made' = made \union {Path} /\ directories' = directories + 1
             /\ records' = Append(records, Record("D", Path, <<>>))
             /\ UNCHANGED complete
    <3>1. Path \notin made
      BY <1>a, <1>n, <2>1, EntryFacts DEF Counters
    <3>2. Counters'
      BY <1>a, <1>d, <1>r, <2>1, <2>3, <3>1, DirectoryCounted DEF WalkInv
    <3>3. /\ Recorded("F")' = Recorded("F") /\ PathsOf("F")' = PathsOf("F")
          /\ PathsOf("O")' = PathsOf("O")
          /\ \A n \in DOMAIN records : records'[n] = records[n]
      BY <1>d, <1>r, <2>1, <2>3, Extended
    <3>4. OnDisk'
      BY <1>a, <2>1, <3>3 DEF OnDisk, Recorded
    <3>5. Leftovers'
      BY <1>a, <2>1, <2>3, <3>3 DEF Leftovers
    <3>6. QED
      BY <1>a, <2>1, <3>2, <3>4, <3>5 DEF AccountInv
  <2>4. QED
    BY <2>1, <2>2, <2>3
<1>7. CASE BeginCopy
  BY <1>7, <1>k DEF BeginCopy, Inspecting
<1>8. CASE Descend
  BY <1>8, <1>k DEF Descend
<1>9. CASE Seal
  BY <1>9, <1>k DEF Seal
<1>10. CASE OpenSource \/ StatSource \/ ReadEnds \/ CopyFails
  BY <1>10, <1>k DEF OpenSource, StatSource, ReadEnds, CopyFails, walkVars
<1>11. CASE CompareSource \/ ReadChunk
  <2>1. /\ pc \in Copying /\ pc' \in Copying /\ UNCHANGED Path /\ Path \in Paths
        /\ UNCHANGED <<made, records, countVars, complete>>
        /\ pc = "read" => Path \in DOMAIN disk
    BY <1>11, <1>c, <1>d, <1>p DEF CompareSource, ReadChunk, Abandon, walkVars, LimitInv
  <2>2. /\ DOMAIN disk \subseteq DOMAIN disk' /\ DOMAIN disk' \subseteq DOMAIN disk \union {Path}
        /\ \A q \in DOMAIN disk \ {Path} : disk'[q] = disk[q]
    <3>1. CASE CompareSource
      BY <3>1 DEF CompareSource, Abandon, Created
    <3>2. CASE ReadChunk
      BY <3>2 DEF ReadChunk, Abandon
    <3>3. QED
      BY <1>11, <3>1, <3>2
  <2>3. Recorded("F")' = Recorded("F") /\ \A t : PathsOf(t)' = PathsOf(t)
    BY <2>1 DEF Recorded, PathsOf
  <2>4. Counters'
    BY <1>a, <2>1, <2>3, BytesKept, CountersKept
  <2>5. OnDisk'
    BY <1>a, <1>c, <1>n, <1>w, <2>1, <2>2, <2>3 DEF OnDisk
  <2>6. Leftovers'
    BY <1>a, <2>1, <2>2, <2>3 DEF Leftovers
  <2>7. QED
    BY <1>a, <2>1, <2>2, <2>4, <2>5, <2>6 DEF AccountInv
<1>12. CASE CheckSource
  <2>1. /\ pc = "final" /\ todo # <<>> /\ UNCHANGED <<disk, made, directories, complete>>
        /\ Path \in DOMAIN disk /\ disk[Path] \in Seq(Int) /\ Path \in Paths
    BY <1>12, <1>c, <1>d DEF CheckSource, LimitInv
  <2>2. CASE pc' = "discard" /\ UNCHANGED <<todo, files, totalBytes, records>>
    BY <1>k, <2>1, <2>2 DEF outVars, countVars
  <2>3. CASE /\ files' = files + 1 /\ totalBytes' = totalBytes + Len(disk[Path])
             /\ records' = Append(records, Record("F", Path, disk[Path]))
    <3>1. Counters'
      BY <1>a, <1>r, <2>1, <2>3, FileCounted
    <3>2. /\ Recorded("F")' = Recorded("F") \union {Len(records) + 1}
          /\ PathsOf("F")' = PathsOf("F") \union {Path}
          /\ PathsOf("O")' = PathsOf("O")
          /\ \A n \in DOMAIN records : records'[n] = records[n]
          /\ records'[Len(records) + 1] = Record("F", Path, disk[Path])
      BY <1>r, <2>1, <2>3, Extended
    <3>3. OnDisk'
      BY <1>a, <2>1, <3>2 DEF OnDisk, Recorded, Record
    <3>4. Leftovers'
      BY <1>a, <2>1, <3>2 DEF Leftovers
    <3>5. QED
      BY <1>a, <2>1, <3>1, <3>3, <3>4 DEF AccountInv
  <2>4. QED
    BY <1>12, <2>2, <2>3 DEF CheckSource
<1>13. CASE Discard
  <2>1. /\ pc = "discard" /\ todo # <<>> /\ Path \in Paths /\ Omit(Path, TRUE)
        /\ UNCHANGED <<made, countVars>>
        /\ disk' = [p \in DOMAIN disk \ {Path} |-> disk[p]] \/ UNCHANGED disk
    BY <1>13, <1>c, <1>d DEF Discard
  <2>2. /\ PathsOf("F")' = PathsOf("F") /\ PathsOf("D")' = PathsOf("D")
        /\ PathsOf("O")' = PathsOf("O") \union {Path}
        /\ Recorded("F")' = Recorded("F")
        /\ Bytes(Recorded("F"))' = Bytes(Recorded("F"))
        /\ TakenKept
    BY <1>r, <2>1, NothingTaken
  <2>3. ~complete'
    BY <2>1 DEF Omit
  <2>4. Counters'
    BY <1>a, <2>1, <2>2, CountersKept
  <2>5. /\ DOMAIN disk' \subseteq DOMAIN disk
        /\ \A q \in DOMAIN disk \ {Path} : q \in DOMAIN disk' /\ disk'[q] = disk[q]
    BY <2>1
  <2>6. OnDisk'
    <3>1. \A n \in Recorded("F") : records'[n] = records[n]
      BY <2>2 DEF TakenKept, Taken
    <3>2. \A n \in Recorded("F") : records[n].path # Path
      BY <1>n, <1>w, <2>1
    <3>3. QED
      BY <1>a, <2>2, <2>5, <3>1, <3>2 DEF OnDisk
  <2>7. Leftovers'
    BY <1>a, <2>2, <2>3, <2>5 DEF Leftovers
  <2>8. QED
    BY <1>a, <2>4, <2>5, <2>6, <2>7 DEF AccountInv
<1>14. CASE Environment \/ UNCHANGED vars
  <2>1. UNCHANGED <<pc, walkVars, outVars>>
    BY <1>14, EnvironmentKeeps DEF vars
  <2>2. QED
    BY <1>k, <2>1 DEF walkVars
<1>15. QED
  BY <1>1, <1>2, <1>3, <1>4, <1>5, <1>6, <1>7, <1>8, <1>9, <1>10, <1>11, <1>12, <1>13, <1>14
  DEF Next, Advance

---------------------------------------------------------------------------
(* The tree of the checkout *)

\* A tree of directories; what is in a directory that a change concerned was
\* concerned too.
TreeInv ==
  /\ clock <= MaxClock
  /\ <<>> \in DOMAIN tree /\ Kind(<<>>) = "dir"
  /\ \A p \in DOMAIN tree : tree[p].path = p
  /\ \A p \in DOMAIN tree \ {<<>>} :
       /\ Front(p) \in DOMAIN tree /\ Kind(Front(p)) = "dir"
       /\ Front(p) \in touched => p \in touched

LEMMA PrefixIs ==
  ASSUME NEW p \in Seq(Nat), NEW q \in Seq(Nat)
  PROVE  IsPrefix(p, q) <=> Len(p) <= Len(q) /\ \A k \in 1 .. Len(p) : p[k] = q[k]
<1>1. Len(p) \in Nat /\ Len(q) \in Nat
  BY LenProperties
<1>2. CASE Len(p) <= Len(q)
  BY <1>1, <1>2, SameBeginning DEF IsPrefix
<1>3. CASE ~(Len(p) <= Len(q))
  BY <1>3 DEF IsPrefix
<1>4. QED
  BY <1>2, <1>3

LEMMA BelowFacts ==
  ASSUME NEW p \in Paths, p # <<>>
  PROVE  /\ p \in Below(p) /\ <<>> \notin Below(p) /\ Front(p) \notin Below(p)
         /\ \A q \in Paths \ {<<>>} : Front(q) \in Below(p) => q \in Below(p)
<1>1. /\ p \in Seq(Nat) /\ Len(p) \in Nat \ {0} /\ Front(p) \in Seq(Nat)
      /\ Len(Front(p)) = Len(p) - 1 /\ <<>> \in Seq(Nat) /\ Len(<<>>) = 0
  BY PathTypes, FrontLast, EmptySeq
<1>2. p \in Below(p)
  BY <1>1, PrefixIs DEF Below
<1>3. <<>> \notin Below(p) /\ Front(p) \notin Below(p)
  <2>1. ~(Len(p) <= Len(<<>>)) /\ ~(Len(p) <= Len(Front(p)))
    BY <1>1
  <2>2. QED
    BY <2>1 DEF Below, IsPrefix
<1>4. ASSUME NEW q \in Paths \ {<<>>}, Front(q) \in Below(p) PROVE q \in Below(p)
  <2>1. /\ q \in Seq(Nat) /\ Len(q) \in Nat \ {0} /\ Front(q) \in Seq(Nat)
        /\ Len(Front(q)) = Len(q) - 1
        /\ \A k \in 1 .. Len(q) - 1 : Front(q)[k] = q[k]
    BY PathTypes, FrontLast
  <2>2. Len(p) <= Len(Front(q)) /\ \A k \in 1 .. Len(p) : p[k] = Front(q)[k]
    BY <1>1, <1>4, <2>1, PrefixIs DEF Below
  <2>3. Len(p) <= Len(q) /\ \A k \in 1 .. Len(p) : p[k] = q[k]
    BY <1>1, <2>1, <2>2
  <2>4. QED
    BY <1>1, <2>1, <2>3, PrefixIs DEF Below
<1>5. QED
  BY <1>2, <1>3, <1>4

\* What a change does not concern stands still: its inode, and the blocks of it.  No
\* inode goes or changes its kind.
Stands ==
  /\ touched \subseteq touched'
  /\ \A j \in DOMAIN node : j \in DOMAIN node' /\ node'[j].kind = node[j].kind
  /\ \A q : q \notin touched' =>
       /\ q \in DOMAIN tree' <=> q \in DOMAIN tree
       /\ q \in DOMAIN tree => /\ tree'[q] = tree[q]
                               /\ node'[tree[q]].blocks = node[tree[q]].blocks

\* What a change does to the paths: the paths below p go, but p itself may come or
\* stay, in a directory.
Regrows(p) ==
  /\ p \in Paths \ {<<>>} /\ clock' = clock
  /\ touched' = touched \union Below(p)
  /\ \A q \in DOMAIN tree' : \/ q \in DOMAIN tree \ Below(p) /\ tree'[q] = tree[q]
                             \/ q = p /\ tree'[p].path = p
                                /\ Front(p) \in DOMAIN tree /\ Kind(Front(p)) = "dir"
  /\ DOMAIN tree \ Below(p) \subseteq DOMAIN tree'
  /\ \A j \in DOMAIN node : /\ j \in DOMAIN node' /\ node'[j].kind = node[j].kind
                            /\ node'[j].blocks = node[j].blocks
\* The inode of a file is written.
Rewrites(p) ==
  /\ Kind(p) = "file" /\ clock' = clock /\ tree' = tree
  /\ touched' = touched \union {p}
  /\ DOMAIN node' = DOMAIN node
  /\ \A j \in DOMAIN node : node'[j].kind = node[j].kind
  /\ \A j \in DOMAIN node \ {tree[p]} : node'[j].blocks = node[j].blocks

LEMMA Changes ==
  ASSUME CheckoutInv, TreeInv, Environment
  PROVE  \/ Tick
         \/ \E p \in Paths : Regrows(p) \/ Rewrites(p)
<1>v. Volatile \subseteq Paths
  BY PathTypes
<1>1. ASSUME NEW p \in Volatile, Write(p) PROVE Rewrites(p)
  <2>1. PICK b \in Edits(node[tree[p]].blocks) :
          node' = [node EXCEPT ![tree[p]].blocks = b, ![tree[p]].mtime = clock]
    BY <1>1 DEF Write
  <2>2. /\ p \in DOMAIN tree /\ tree[p] \in DOMAIN node /\ node[tree[p]] \in NodeType
        /\ Kind(p) = "file" /\ UNCHANGED <<tree, clock>> /\ touched' = touched \union {p}
    BY <1>1, KindFacts DEF Write, Change, CheckoutInv
  <2> DEFINE s == Written(node[tree[p]], b, clock)
  <2>3. s.kind = node[tree[p]].kind
    BY <2>2 DEF Written, NodeType
  <2>4. node' = [node EXCEPT ![tree[p]] = s]
    BY <2>1 DEF Written
  <2> HIDE DEF s
  <2>5. QED
    BY <2>2, <2>3, <2>4 DEF Rewrites
<1>l. ASSUME NEW i \in DOMAIN node, NEW l, node' = [node EXCEPT ![i] = Linked(node[i], l)]
      PROVE  /\ DOMAIN node' = DOMAIN node
             /\ \A j \in DOMAIN node : node'[j].kind = node[j].kind /\ node'[j].blocks = node[j].blocks
  <2>1. node[i] \in NodeType
    BY DEF CheckoutInv
  <2> DEFINE s == Linked(node[i], l)
  <2>2. s.kind = node[i].kind /\ s.blocks = node[i].blocks
    BY <2>1 DEF Linked, NodeType
  <2>3. node' = [node EXCEPT ![i] = s]
    BY <1>l
  <2> HIDE DEF s
  <2>4. QED
    BY <2>2, <2>3
<1>2. ASSUME NEW p \in Volatile, Link(p) PROVE Rewrites(p)
  <2>1. /\ p \in DOMAIN tree /\ tree[p] \in DOMAIN node
        /\ Kind(p) = "file" /\ UNCHANGED <<tree, clock>> /\ touched' = touched \union {p}
    BY <1>2, KindFacts DEF Link, Change
  <2>2. node' = [node EXCEPT ![tree[p]] = Linked(node[tree[p]], 3 - node[tree[p]].links)]
    BY <1>2 DEF Link, Linked
  <2>3. QED
    BY <1>l, <2>1, <2>2 DEF Rewrites
<1>3. ASSUME NEW p \in Volatile, Delete(p) PROVE Regrows(p)
  <2>1. PICK gone \in {0, 1} : node' = [node EXCEPT ![tree[p]].links = @ - gone]
    BY <1>3 DEF Delete
  <2>2. /\ p \in DOMAIN tree /\ p # <<>> /\ tree[p] \in DOMAIN node
        /\ tree' = [q \in DOMAIN tree \ Below(p) |-> tree[q]]
        /\ UNCHANGED clock /\ touched' = touched \union Below(p)
    BY <1>3 DEF Delete, Change, CheckoutInv
  <2>3. node' = [node EXCEPT ![tree[p]] = Linked(node[tree[p]], node[tree[p]].links - gone)]
    BY <2>1 DEF Linked
  <2>4. QED
    BY <1>l, <1>v, <2>2, <2>3 DEF Regrows
<1>4. ASSUME NEW p \in Volatile, Mount(p) PROVE Regrows(p)
  <2>1. /\ p # <<>> /\ p \in DOMAIN tree /\ UNCHANGED <<node, clock>>
        /\ tree' = [q \in DOMAIN tree \ (Below(p) \ {p}) |-> tree[q]]
        /\ touched' = touched \union Below(p)
    BY <1>4, KindFacts DEF Mount, Change
  <2>2. tree'[p].path = p /\ Front(p) \in DOMAIN tree /\ Kind(Front(p)) = "dir"
    BY <2>1 DEF TreeInv
  <2>3. QED
    BY <1>v, <2>1, <2>2 DEF Regrows
<1>5. ASSUME NEW p \in Volatile, NEW kind \in {"file", "dir", "link"}, Place(p, kind)
      PROVE  Regrows(p)
  <2> DEFINE i == Inode(p, changes + 1)
             new == [kind |-> kind, mtime |-> clock, links |-> 1,
                     blocks |-> IF kind = "file" THEN <<changes + 1>> ELSE <<>>]
             cut == [j \in DOMAIN node |-> Linked(node[j], node[j].links - 1)]
  <2>1. /\ tree' = [q \in {p} \union (DOMAIN tree \ Below(p)) |-> IF q = p THEN i ELSE tree[q]]
        /\ node' = [j \in {i} \union DOMAIN node |->
                      IF j = i THEN new
                      ELSE IF p \in DOMAIN tree /\ j = tree[p] THEN cut[j] ELSE node[j]]
        /\ UNCHANGED clock /\ touched' = touched \union Below(p)
        /\ p # <<>> /\ Kind(Front(p)) = "dir"
    BY <1>5 DEF Place, Change, Linked
  <2>2. i \notin DOMAIN node /\ i.path = p
    BY DEF Inode, CheckoutInv
  <2>3. \A j \in DOMAIN node : cut[j].kind = node[j].kind /\ cut[j].blocks = node[j].blocks
    <3> TAKE j \in DOMAIN node
    <3>1. node[j] \in NodeType
      BY DEF CheckoutInv
    <3>2. QED
      BY <3>1 DEF Linked, NodeType
  <2> HIDE DEF i, new, cut
  <2>4. \A j \in DOMAIN node : /\ j \in DOMAIN node' /\ node'[j].kind = node[j].kind
                               /\ node'[j].blocks = node[j].blocks
    <3> TAKE j \in DOMAIN node
    <3>1. j \in DOMAIN node' /\ (node'[j] = cut[j] \/ node'[j] = node[j])
      BY <2>1, <2>2
    <3>2. QED
      BY <2>3, <3>1
  <2>5. Front(p) \in DOMAIN tree
    BY <2>1, KindFacts
  <2>6. \A q \in DOMAIN tree' : \/ q \in DOMAIN tree \ Below(p) /\ tree'[q] = tree[q]
                                \/ q = p /\ tree'[p].path = p
    BY <2>1, <2>2
  <2>7. DOMAIN tree \ Below(p) \subseteq DOMAIN tree'
    BY <2>1
  <2>8. p \in Paths \ {<<>>}
    BY <1>v, <2>1
  <2>9. QED
    BY <2>1, <2>4, <2>5, <2>6, <2>7, <2>8 DEF Regrows
<1>6. QED
  BY <1>v, <1>1, <1>2, <1>3, <1>4, <1>5 DEF Environment

\* Every step lets stand still what it does not concern.
LEMMA StandsStill == CheckoutInv /\ TreeInv /\ [Next]_vars => Stands
<1> SUFFICES ASSUME CheckoutInv, TreeInv, [Next]_vars PROVE Stands
  OBVIOUS
<1>1. CASE UNCHANGED checkoutVars
  BY <1>1 DEF Stands, checkoutVars
<1>2. ASSUME NEW p \in Paths, Regrows(p) PROVE Stands
  <2>1. p \in Below(p)
    BY <1>2, BelowFacts DEF Regrows
  <2>2. ASSUME NEW q, q \notin touched'
        PROVE  /\ q \in DOMAIN tree' <=> q \in DOMAIN tree
               /\ q \in DOMAIN tree => /\ tree'[q] = tree[q]
                                       /\ node'[tree[q]].blocks = node[tree[q]].blocks
    <3>1. q \notin Below(p) /\ q # p
      BY <1>2, <2>1, <2>2 DEF Regrows
    <3>2. q \in DOMAIN tree' <=> q \in DOMAIN tree
      BY <1>2, <3>1 DEF Regrows
    <3>3. ASSUME q \in DOMAIN tree
          PROVE  tree'[q] = tree[q] /\ node'[tree[q]].blocks = node[tree[q]].blocks
      BY <1>2, <3>1, <3>2, <3>3 DEF Regrows, CheckoutInv
    <3>4. QED
      BY <3>2, <3>3
  <2>3. QED
    BY <1>2, <2>2 DEF Stands, Regrows
<1>3. ASSUME NEW p \in Paths, Rewrites(p) PROVE Stands
  <2>0. p \in DOMAIN tree
    BY <1>3, KindFacts DEF Rewrites
  <2>1. ASSUME NEW q \in DOMAIN tree, q \notin touched'
        PROVE  node'[tree[q]].blocks = node[tree[q]].blocks
    <3>1. q # p /\ tree[q] \in DOMAIN node
      BY <1>3, <2>1 DEF Rewrites, CheckoutInv
    <3>2. tree[q] # tree[p]
      BY <2>0, <3>1 DEF TreeInv
    <3>3. QED
      BY <1>3, <3>1, <3>2 DEF Rewrites
  <2>2. QED
    BY <1>3, <2>1 DEF Stands, Rewrites
<1>4. CASE Tick
  BY <1>4 DEF Tick, Stands
<1>5. QED
  BY <1>1, <1>2, <1>3, <1>4, Changes, CopyKeeps DEF Next, vars, checkoutVars

\* An entry is there as it was, when its inode is.
LEMMA KindStands ==
  ASSUME CheckoutInv, Stands, NEW q \in DOMAIN tree, q \in DOMAIN tree', tree'[q] = tree[q]
  PROVE  Kind(q)' = Kind(q)
<1>1. Kind(q)' = node'[tree'[q]].kind /\ Kind(q) = node[tree[q]].kind
  BY DEF Kind
<1>2. tree[q] \in DOMAIN node
  BY DEF CheckoutInv
<1>3. QED
  BY <1>1, <1>2 DEF Stands

\* Every step keeps the tree.
LEMMA TreeStep == CheckoutInv /\ TreeInv /\ [Next]_vars => TreeInv'
<1> SUFFICES ASSUME CheckoutInv, TreeInv, [Next]_vars PROVE TreeInv'
  OBVIOUS
<1>s. Stands
  BY StandsStill
<1>1. CASE UNCHANGED checkoutVars
  BY <1>1 DEF TreeInv, checkoutVars, Kind
<1>2. CASE Tick
  <2>1. clock' <= MaxClock /\ UNCHANGED <<tree, node, touched>>
    BY <1>2, BoundsAssumption DEF Tick, CheckoutInv
  <2>2. QED
    BY <2>1 DEF TreeInv, Kind
<1>3. ASSUME NEW p \in Paths, Rewrites(p) PROVE TreeInv'
  <2>1. UNCHANGED <<tree, clock>> /\ touched' = touched \union {p} /\ Kind(p) = "file"
    BY <1>3 DEF Rewrites
  <2>2. \A q \in DOMAIN tree : Kind(q)' = Kind(q)
    BY <1>s, <2>1, KindStands
  <2>3. QED
    BY <2>1, <2>2 DEF TreeInv
<1>4. ASSUME NEW p \in Paths, Regrows(p) PROVE TreeInv'
  <2>1. /\ p \in Paths /\ p # <<>> /\ clock' = clock /\ touched' = touched \union Below(p)
        /\ DOMAIN tree \ Below(p) \subseteq DOMAIN tree'
        /\ \A q \in DOMAIN tree' : \/ q \in DOMAIN tree \ Below(p) /\ tree'[q] = tree[q]
                                   \/ q = p /\ tree'[p].path = p
                                      /\ Front(p) \in DOMAIN tree /\ Kind(Front(p)) = "dir"
    BY <1>4 DEF Regrows
  <2>2. /\ p \in Below(p) /\ <<>> \notin Below(p) /\ Front(p) \notin Below(p)
        /\ \A q \in Paths \ {<<>>} : Front(q) \in Below(p) => q \in Below(p)
    BY <2>1, BelowFacts
  <2>3. \A q \in DOMAIN tree \ Below(p) : /\ q \in DOMAIN tree' /\ tree'[q] = tree[q]
                                          /\ Kind(q)' = Kind(q)
    <3> TAKE q \in DOMAIN tree \ Below(p)
    <3>1. q \in DOMAIN tree' /\ tree'[q] = tree[q]
      BY <2>1, <2>2
    <3>2. QED
      BY <1>s, <3>1, KindStands
  <2>4. <<>> \in DOMAIN tree' /\ Kind(<<>>)' = "dir"
    BY <2>2, <2>3 DEF TreeInv
  <2>5. \A q \in DOMAIN tree' : tree'[q].path = q
    BY <2>1 DEF TreeInv
  <2>6. ASSUME NEW q \in DOMAIN tree' \ {<<>>}
        PROVE  /\ Front(q) \in DOMAIN tree' /\ Kind(Front(q))' = "dir"
               /\ Front(q) \in touched' => q \in touched'
    <3>1. CASE q = p
      <4>1. Front(p) \in DOMAIN tree \ Below(p) /\ Kind(Front(p)) = "dir"
        BY <2>1, <2>2, <2>6, <3>1
      <4>2. Front(p) \in DOMAIN tree' /\ Kind(Front(p))' = "dir"
        BY <2>3, <4>1
      <4>3. QED
        BY <2>1, <2>2, <3>1, <4>2
    <3>2. CASE q \in DOMAIN tree \ Below(p)
      <4>1. q \in Paths \ {<<>>}
        BY <2>6, <3>2 DEF CheckoutInv
      <4>2. /\ Front(q) \in DOMAIN tree /\ Kind(Front(q)) = "dir"
            /\ Front(q) \in touched => q \in touched
        BY <3>2, <4>1 DEF TreeInv
      <4>3. Front(q) \notin Below(p)
        BY <2>2, <3>2, <4>1
      <4>4. QED
        BY <2>1, <2>3, <4>2, <4>3
    <3>3. QED
      BY <2>1, <2>6, <3>1, <3>2
  <2>7. clock' <= MaxClock
    BY <2>1 DEF TreeInv
  <2>8. QED
    BY <2>4, <2>5, <2>6, <2>7 DEF TreeInv
<1>5. QED
  BY <1>1, <1>2, <1>3, <1>4, Changes, CopyKeeps DEF Next, vars, checkoutVars

---------------------------------------------------------------------------
(* What is still to be inspected *)

\* The path's directory is on the stack or among the children, or about to be read,
\* or the path is among the entries read.
Ahead(p) ==
  \/ \E i \in DOMAIN stack : stack[i] = Front(p)
  \/ \E i \in DOMAIN children : children[i] = Front(p)
  \/ pc = "scan" /\ cwd = Front(p)
  \/ Visiting /\ \E i \in DOMAIN todo : todo[i].path = p

\* The file being copied: it stands still from the comparison on, when no change
\* concerns its path.
SourceInv ==
  /\ racy => fd.path \in touched /\ pc \in {"read", "final", "discard"}
  /\ pc \in {"fstat", "stat", "read", "final"} => fd.path = Path
  /\ pc \in {"stat", "read", "final"} => actual.ino = fd
  /\ pc \in {"read", "final"} /\ Path \notin touched =>
       Path \in DOMAIN tree /\ tree[Path] = fd /\ Kind(Path) = "file"

\* What a path that stands still is in the snapshot.
Held(p) ==
  \/ Kind(p) = "dir" /\ p \in made
  \/ Kind(p) = "file" /\ p \in PathsOf("F") /\ disk[p] = node[tree[p]].blocks

\* Each entry that stands still is recorded or still to be inspected, unless its
\* directory was left out.
BoundInv ==
  ~stop => \A p \in DOMAIN tree \ (touched \union {<<>>}) :
    Front(p) \in made \ PathsOf("O") =>
      p \in PathsOf("F") \union PathsOf("D") \union PathsOf("O") \/ Ahead(p)

\* While the snapshot is complete, each such entry is held, or still to be inspected.
CoverInv ==
  /\ stop => ~complete
  /\ complete => \A p \in DOMAIN tree \ (touched \union {<<>>}) :
       Front(p) \in made /\ p \notin Sensitive => Held(p) \/ Ahead(p)

---------------------------------------------------------------------------
(* The file being copied *)

LEMMA RacyIsTouched ==
  ASSUME CheckoutInv, TreeInv, Environment, racy', ~racy
  PROVE  fd.path \in touched' /\ pc \in {"read", "final"}
<1>1. PICK p \in Volatile : Write(p)
  BY DEF Environment, Tick, Link, Place, Delete, Mount, fileVars
<1>2. /\ pc \in {"read", "final"} /\ tree[p] = fd /\ p \in touched'
      /\ p \in DOMAIN tree
  BY <1>1, KindFacts DEF Write, Change
<1>3. tree[p].path = p
  BY <1>2 DEF TreeInv
<1>4. QED
  BY <1>2, <1>3

\* Every step keeps the account of the source.
LEMMA SourceStep ==
  CheckoutInv /\ TreeInv /\ WalkInv /\ SourceInv /\ [Next]_vars => SourceInv'
<1> SUFFICES ASSUME CheckoutInv, TreeInv, WalkInv, SourceInv, [Next]_vars PROVE SourceInv'
  OBVIOUS
<1>p. UNCHANGED todo => UNCHANGED Path
  BY DEF Path, Entry
<1>k. Advance \/ CopyFails => UNCHANGED <<tree, node, touched>> /\ \A q : UNCHANGED Kind(q)
  BY CopyKeeps DEF checkoutVars, Kind
<1>q. ASSUME pc' \notin {"fstat", "stat", "read", "final"}, UNCHANGED racy,
             pc \notin {"read", "final", "discard"}
      PROVE  SourceInv'
  BY <1>q DEF SourceInv
<1>1. CASE Pop \/ Scan \/ ScanFails \/ Skip \/ Stop \/ MakeDirectory \/ BeginCopy \/ Descend
             \/ Seal
  <2>1. /\ pc' \notin {"fstat", "stat", "read", "final"} /\ UNCHANGED racy
        /\ pc \notin {"read", "final", "discard"}
    BY <1>1 DEF Pop, Scan, ScanFails, Skip, Stop, MakeDirectory, BeginCopy, Descend, Seal,
                Inspecting, fileVars
  <2>2. QED
    BY <1>q, <2>1
<1>2. CASE OpenSource
  <2>1. pc = "open" /\ UNCHANGED <<racy, todo>>
    BY <1>2 DEF OpenSource, walkVars
  <2>2. CASE pc' = "discard"
    BY <1>q, <2>1, <2>2
  <2>3. CASE pc' = "fstat" /\ fd' = tree[Path] /\ Contained(Path)
    <3>1. Path \in DOMAIN tree /\ fd'.path = Path /\ Path' = Path
      BY <1>p, <2>1, <2>3, KindFacts DEF Contained, TreeInv
    <3>2. QED
      BY <2>1, <2>3, <3>1 DEF SourceInv
  <2>4. QED
    BY <1>2, <2>2, <2>3 DEF OpenSource
<1>3. CASE StatSource
  <2>1. pc = "fstat" /\ pc' = "stat" /\ actual' = Stat(fd) /\ UNCHANGED <<fd, racy, Path>>
    BY <1>3, <1>p DEF StatSource, walkVars
  <2>2. actual'.ino = fd
    BY <2>1 DEF Stat
  <2>3. QED
    BY <2>1, <2>2 DEF SourceInv
<1>4. CASE CompareSource
  <2>1. pc = "stat" /\ UNCHANGED <<fd, racy, actual, Path>>
    BY <1>4, <1>p DEF CompareSource, walkVars, fileVars
  <2>2. CASE pc' = "read" /\ Same
    <3>1. tree[Path] = fd /\ Kind(Path) = "file" /\ Path \in DOMAIN tree
      BY <2>1, <2>2, KindFacts DEF Same, SourceInv
    <3>2. Path' \in DOMAIN tree' /\ tree'[Path'] = fd' /\ Kind(Path)' = "file"
      BY <1>4, <1>k, <2>1, <3>1 DEF Advance, Kind
    <3>3. QED
      BY <2>1, <2>2, <3>2 DEF SourceInv
  <2>3. CASE pc' = "discard"
    BY <1>q, <2>1, <2>3
  <2>4. QED
    BY <1>4, <2>2, <2>3 DEF CompareSource, Abandon
<1>5. CASE ReadChunk \/ ReadEnds \/ CopyFails
  <2>1. /\ pc \in {"open", "fstat", "stat", "read", "final"}
        /\ UNCHANGED <<fd, racy, actual, Path, touched, tree, node>>
        /\ pc' = "discard" \/ (pc = "read" /\ pc' \in {"read", "final"})
    BY <1>5, <1>k, <1>p DEF Advance, ReadChunk, ReadEnds, CopyFails, Abandon, walkVars, fileVars
  <2>2. UNCHANGED Kind(Path)
    BY <2>1 DEF Kind
  <2>3. QED
    BY <2>1, <2>2 DEF SourceInv
<1>6. CASE CheckSource
  <2>1. pc = "final" /\ UNCHANGED touched
    BY <1>6, <1>k DEF CheckSource, Advance
  <2>2. CASE pc' = "entry" /\ racy' = FALSE
    BY <2>2 DEF SourceInv
  <2>3. CASE pc' = "discard" /\ UNCHANGED <<fd, racy>>
    BY <2>1, <2>3 DEF SourceInv
  <2>4. QED
    BY <1>6, <2>2, <2>3 DEF CheckSource, CloseFile, fileVars
<1>7. CASE Discard
  BY <1>7 DEF Discard, CloseFile, SourceInv
<1>8. CASE Environment
  <2>1. UNCHANGED <<pc, fd, actual, Path>>
    BY <1>8, <1>p, EnvironmentKeeps DEF walkVars
  <2>2. racy' => racy \/ (fd.path \in touched' /\ pc \in {"read", "final"})
    BY <1>8, RacyIsTouched
  <2>3. Stands
    BY StandsStill
  <2>4. ASSUME pc \in {"read", "final"}, Path \notin touched'
        PROVE  Path \in DOMAIN tree' /\ tree'[Path] = fd /\ Kind(Path)' = "file"
    <3>1. Path \in DOMAIN tree /\ tree[Path] = fd /\ Kind(Path) = "file"
      BY <2>3, <2>4 DEF SourceInv, Stands
    <3>2. Path \in DOMAIN tree' /\ tree'[Path] = tree[Path]
      BY <2>3, <2>4, <3>1 DEF Stands
    <3>3. tree'[Path] \in DOMAIN node /\ node'[tree[Path]].kind = node[tree[Path]].kind
      BY <2>3, <3>1, <3>2 DEF CheckoutInv, Stands
    <3>4. QED
      BY <2>1, <3>1, <3>2, <3>3 DEF Kind
  <2>5. touched \subseteq touched'
    BY <2>3 DEF Stands
  <2>6. QED
    BY <2>1, <2>2, <2>4, <2>5 DEF SourceInv
<1>9. CASE UNCHANGED vars
  <2>1. UNCHANGED <<pc, fd, actual, Path, racy, touched, tree, node>>
    BY <1>9, <1>p DEF vars, walkVars, fileVars, checkoutVars
  <2>2. UNCHANGED Kind(Path)
    BY <2>1 DEF Kind
  <2>3. QED
    BY <2>1, <2>2 DEF SourceInv
<1>10. QED
  BY <1>1, <1>2, <1>3, <1>4, <1>5, <1>6, <1>7, <1>8, <1>9 DEF Next, Advance

---------------------------------------------------------------------------
(* The entries that stand still *)

\* The snapshot only grows: what is recorded, made or stopped stays so, and a
\* snapshot that stops is not complete.
RecordsGrow == \A t : PathsOf(t) \subseteq PathsOf(t)'
Grows ==
  /\ (stop => stop') /\ (stop' => stop \/ ~complete') /\ (complete' => complete)
  /\ RecordsGrow
  /\ made \subseteq made'
  /\ \A p \in PathsOf("F") : disk'[p] = disk[p]

LEMMA CopyGrows ==
  WalkInv /\ OrderInv /\ LimitInv /\ CopyInv /\ AccountInv /\ (Advance \/ CopyFails) => Grows
<1> SUFFICES ASSUME WalkInv, OrderInv, LimitInv, CopyInv, AccountInv, Advance \/ CopyFails
             PROVE  Grows
  OBVIOUS
<1>r. records \in Seq(RecordType)
  BY DEF LimitInv
<1>d. cwd \in Paths /\ (todo # <<>> => Path \in Paths) /\ <<>> \in Seq(Int)
  BY EntryFacts, EmptySeq DEF WalkInv
<1>u. UNCHANGED records => RecordsGrow
  BY DEF PathsOf, Recorded, RecordsGrow
<1>a. ASSUME NEW tag \in {"O", "D", "F"}, NEW p \in Paths, NEW c \in Seq(Int),
             records' = Append(records, Record(tag, p, c))
      PROVE  RecordsGrow
  <2>1. /\ \A t : t # tag => PathsOf(t)' = PathsOf(t)
        /\ PathsOf(tag)' = PathsOf(tag) \union {p}
    BY <1>a, <1>r, Extended
  <2>2. QED
    BY <2>1 DEF RecordsGrow
<1>o. \A p \in Paths, i \in BOOLEAN : Omit(p, i) =>
        RecordsGrow /\ (complete' => complete /\ ~i)
  BY <1>a, <1>d DEF Omit
<1>n. pc \in Copying => Path \notin PathsOf("F") /\ todo # <<>>
  BY <1>r, EntryIsNew DEF Visiting, WalkInv
<1>f. \A q \in PathsOf("F") : q \in DOMAIN disk
  BY DEF PathsOf, AccountInv, OnDisk
<1>1. CASE Pop
  <2>1. /\ UNCHANGED <<stop, made, disk>> /\ stack # <<>> /\ cwd' = Last(stack)
        /\ UNCHANGED <<records, complete>> \/ Omit(cwd', TRUE)
    BY <1>1 DEF Pop
  <2>2. RecordsGrow /\ (complete' => complete)
    <3>1. CASE UNCHANGED <<records, complete>>
      BY <1>u, <3>1
    <3>2. CASE Omit(cwd', TRUE)
      BY <1>o, <2>1, <3>2, Popped
    <3>3. QED
      BY <2>1, <3>1, <3>2
  <2>3. QED
    BY <2>1, <2>2 DEF Grows
<1>2. CASE Scan
  <2>1. /\ UNCHANGED <<made, disk>>
        /\ \/ UNCHANGED <<stop, records, complete>>
           \/ stop' = TRUE /\ Omit(cwd, TRUE)
    BY <1>2 DEF Scan
  <2>2. RecordsGrow /\ (complete' => complete) /\ (UNCHANGED stop \/ ~complete')
    <3>1. CASE UNCHANGED <<stop, records, complete>>
      BY <1>u, <3>1
    <3>2. CASE Omit(cwd, TRUE)
      BY <1>d, <1>o, <2>1, <3>2
    <3>3. QED
      BY <2>1, <3>1, <3>2
  <2>3. stop => stop'
    BY <2>1
  <2>4. QED
    BY <2>1, <2>2, <2>3 DEF Grows
<1>3. CASE ScanFails
  BY <1>3, <1>d, <1>o DEF ScanFails, Grows
<1>4. CASE Skip
  <2>1. (~Withheld) \in BOOLEAN
    BY DEF Withheld, Hidden
  <2>2. QED
    BY <1>4, <1>d, <1>o, <2>1 DEF Skip, Inspecting, Grows
<1>5. CASE Stop
  BY <1>5, <1>d, <1>o DEF Stop, Inspecting, Grows
<1>6. CASE MakeDirectory
  <2>1. /\ todo # <<>> /\ UNCHANGED <<stop, disk>>
        /\ \/ /\ made' = made \union {Path} /\ UNCHANGED complete
              /\ records' = Append(records, Record("D", Path, <<>>))
           \/ Omit(Path, TRUE) /\ UNCHANGED made
    BY <1>6 DEF MakeDirectory, Inspecting
  <2>2. RecordsGrow /\ (complete' => complete)
    <3>1. CASE records' = Append(records, Record("D", Path, <<>>)) /\ UNCHANGED complete
      BY <1>a, <1>d, <2>1, <3>1
    <3>2. CASE Omit(Path, TRUE)
      BY <1>d, <1>o, <2>1, <3>2
    <3>3. QED
      BY <2>1, <3>1, <3>2
  <2>3. made \subseteq made'
    BY <2>1
  <2>4. QED
    BY <2>1, <2>2, <2>3 DEF Grows
<1>7. CASE BeginCopy \/ Descend \/ Seal \/ OpenSource \/ StatSource \/ ReadEnds \/ CopyFails
  <2>1. UNCHANGED <<stop, records, complete, made, disk>>
    BY <1>7 DEF BeginCopy, Descend, Seal, OpenSource, StatSource, ReadEnds, CopyFails, walkVars,
                outVars
  <2>2. QED
    BY <1>u, <2>1 DEF Grows
<1>8. CASE CompareSource \/ ReadChunk
  <2>1. UNCHANGED <<stop, records, complete, made>> /\ pc \in Copying
    BY <1>8 DEF CompareSource, ReadChunk, walkVars, Copying, Reading
  <2>2. \A q : q \in DOMAIN disk \ {Path} => disk'[q] = disk[q]
    BY <1>8 DEF CompareSource, ReadChunk, Abandon, Created
  <2>3. \A q \in PathsOf("F") : disk'[q] = disk[q]
    BY <1>f, <1>n, <2>1, <2>2
  <2>4. QED
    BY <1>u, <2>1, <2>3 DEF Grows
<1>9. CASE CheckSource
  <2>1. /\ UNCHANGED <<stop, complete, made, disk>> /\ pc = "final"
        /\ \/ records' = Append(records, Record("F", Path, disk[Path]))
           \/ UNCHANGED records
    BY <1>9 DEF CheckSource
  <2>2. Path \in Paths /\ disk[Path] \in Seq(Int)
    BY <1>d, <1>n, <2>1 DEF LimitInv, Copying, Reading
  <2>3. QED
    BY <1>a, <1>u, <2>1, <2>2 DEF Grows
<1>10. CASE Discard
  <2>1. /\ UNCHANGED <<stop, made>> /\ Omit(Path, TRUE) /\ pc = "discard"
        /\ disk' = [p \in DOMAIN disk \ {Path} |-> disk[p]] \/ UNCHANGED disk
    BY <1>10 DEF Discard
  <2>2. RecordsGrow /\ (complete' => complete)
    BY <1>d, <1>n, <1>o, <2>1 DEF Copying
  <2>3. \A q \in PathsOf("F") : disk'[q] = disk[q]
    BY <1>f, <1>n, <2>1 DEF Copying
  <2>4. QED
    BY <2>1, <2>2, <2>3 DEF Grows
<1>11. QED
  BY <1>1, <1>2, <1>3, <1>4, <1>5, <1>6, <1>7, <1>8, <1>9, <1>10 DEF Advance

\* What inspecting an entry does: it becomes a directory, a file as it is in the
\* checkout, or an omission, which only a withheld one does not count against.
Settled(p) ==
  \/ p \in PathsOf("D")' /\ p \in made' /\ Kind(p) = "dir"
  \/ p \in PathsOf("O")' /\ (complete' => p \in Sensitive)
  \/ /\ p \in PathsOf("F")'
     /\ p \notin touched => Kind(p) = "file" /\ disk'[p] = node[tree[p]].blocks

\* The stack and the entries that are left, after a step of the walk.
LEMMA PushedHolds ==
  ASSUME WalkInv
  PROVE  /\ \A i \in DOMAIN stack : \E j \in DOMAIN (stack \o Reverse(children)) :
              (stack \o Reverse(children))[j] = stack[i]
         /\ \A i \in DOMAIN children : \E j \in DOMAIN (stack \o Reverse(children)) :
              (stack \o Reverse(children))[j] = children[i]
<1> DEFINE s == stack \o Reverse(children)
<1>1. /\ Len(stack) \in Nat /\ DOMAIN stack = 1 .. Len(stack)
      /\ Len(children) \in Nat /\ DOMAIN children = 1 .. Len(children)
  BY WalkTypes
<1>2. /\ DOMAIN s = 1 .. Len(stack) + Len(children)
      /\ \A i \in DOMAIN s :
           \/ i \in DOMAIN stack /\ s[i] = stack[i]
           \/ i > Len(stack) /\ ChildAt(i) \in DOMAIN children /\ s[i] = children[ChildAt(i)]
  BY Pushed
<1> HIDE DEF s
<1>3. ASSUME NEW i \in DOMAIN stack PROVE \E j \in DOMAIN s : s[j] = stack[i]
  <2>1. i \in DOMAIN s /\ ~(i > Len(stack))
    BY <1>1, <1>2
  <2>2. QED
    BY <1>2, <2>1
<1>4. ASSUME NEW i \in DOMAIN children PROVE \E j \in DOMAIN s : s[j] = children[i]
  <2> DEFINE j == ChildAt(i)
  <2>1. j \in DOMAIN s /\ j \notin DOMAIN stack /\ ChildAt(j) = i
    BY <1>1, <1>2 DEF ChildAt
  <2>2. QED
    BY <1>2, <2>1
<1>5. QED
  BY <1>3, <1>4 DEF s

LEMMA TailHolds ==
  ASSUME WalkInv, todo # <<>>, NEW i \in DOMAIN todo
  PROVE  todo[i].path = Path \/ \E j \in DOMAIN Tail(todo) : Tail(todo)[j] = todo[i]
<1>1. /\ Path = todo[1].path /\ Len(todo) \in Nat /\ DOMAIN todo = 1 .. Len(todo)
      /\ DOMAIN Tail(todo) = 1 .. Len(todo) - 1
      /\ \A j \in DOMAIN Tail(todo) : Tail(todo)[j] = todo[j + 1]
  BY TailTypes, WalkTypes
<1>2. CASE i = 1
  BY <1>1, <1>2
<1>3. CASE i # 1
  <2>1. i - 1 \in DOMAIN Tail(todo) /\ (i - 1) + 1 = i
    BY <1>1, <1>3
  <2>2. QED
    BY <1>1, <2>1
<1>4. QED
  BY <1>2, <1>3

\* A file enters the snapshot as it is in the checkout, if it stands still.
LEMMA FileIsHeld ==
  ASSUME CopyInv, SourceInv, pc = "final", Unchanged, Path \notin touched
  PROVE  Kind(Path) = "file" /\ disk[Path] = node[tree[Path]].blocks
<1>1. fd.path = Path /\ ~racy /\ tree[Path] = fd /\ Kind(Path) = "file"
  BY DEF SourceInv
<1>2. node[fd].mtime = actual.mtime /\ actual.mtime \in Nat
  BY DEF Unchanged, Stat, CopyInv
<1>3. ~Noticed
  BY <1>1, <1>2 DEF Noticed
<1>4. QED
  BY <1>1, <1>3 DEF CopyInv

\* A step of the copy leaves an entry ahead, settles it, leaves out its directory or
\* stops the walk; and the latter two make the snapshot incomplete.
LEMMA AheadStep ==
  ASSUME CheckoutInv, WalkInv, LimitInv, CopyInv, OrderInv, SourceInv, Advance \/ CopyFails,
         NEW p \in DOMAIN tree \ {<<>>}, Front(p) \in made', Front(p) \in made => Ahead(p)
  PROVE  \/ Ahead(p)' \/ Settled(p) \/ (stop' /\ ~complete')
         \/ (Front(p) \in PathsOf("O")' /\ ~complete')
<1> DEFINE Goal == \/ Ahead(p)' \/ Settled(p) \/ (stop' /\ ~complete')
                   \/ (Front(p) \in PathsOf("O")' /\ ~complete')
<1> SUFFICES Goal
  OBVIOUS
<1>r. records \in Seq(RecordType)
  BY DEF LimitInv
<1>d. cwd \in Paths /\ (todo # <<>> => Path \in Paths) /\ <<>> \in Seq(Int)
  BY EntryFacts, EmptySeq DEF WalkInv
<1>o. \A q \in Paths, i \in BOOLEAN : Omit(q, i) => q \in PathsOf("O")' /\ (complete' => ~i)
  BY <1>r, NothingTaken DEF Omit
<1>h. UNCHANGED made => Ahead(p)
  OBVIOUS
<1>c. ~Visiting => DOMAIN children = {}
  BY EmptySeq DEF OrderInv, StackInv
<1>k. ASSUME UNCHANGED <<made, stack, children, cwd>>, pc # "scan",
             Visiting => Visiting' /\ UNCHANGED todo
      PROVE  Goal
  BY <1>h, <1>k DEF Ahead
<1>n. ASSUME UNCHANGED <<made, stack, children, cwd>>, pc # "scan", Visiting',
             todo # <<>>, todo' = Tail(todo), p = Path => Settled(p)
      PROVE  Goal
  <2>1. CASE \E i \in DOMAIN todo : todo[i].path = p
    BY <1>n, <2>1, TailHolds DEF Ahead
  <2>2. CASE ~ \E i \in DOMAIN todo : todo[i].path = p
    BY <1>h, <1>n, <2>2 DEF Ahead
  <2>3. QED
    BY <2>1, <2>2
<1> USE DEF Visiting, Copying, Reading
<1>1. CASE Pop
  <2>1. /\ stack # <<>> /\ cwd' = Last(stack) /\ stack' = Front(stack) /\ pc = "pop"
        /\ pc' = "scan" \/ Omit(cwd', TRUE)
        /\ UNCHANGED made
    BY <1>1 DEF Pop
  <2>2. PICK i \in DOMAIN stack : stack[i] = Front(p)
    BY <1>c, <1>h, <2>1 DEF Ahead
  <2>3. CASE i = Len(stack)
    <3>1. cwd' = Front(p) /\ cwd' \in Paths
      BY <2>1, <2>2, <2>3, Popped
    <3>2. CASE pc' = "scan"
      BY <3>1, <3>2 DEF Ahead
    <3>3. CASE Omit(cwd', TRUE)
      BY <1>o, <3>1, <3>3
    <3>4. QED
      BY <2>1, <3>2, <3>3
  <2>4. CASE i # Len(stack)
    <3>1. i \in 1 .. Len(stack) - 1
      BY <2>4, WalkTypes
    <3>2. i \in DOMAIN stack' /\ stack'[i] = Front(p)
      BY <2>1, <2>2, <3>1, Popped
    <3>3. QED
      BY <3>2 DEF Ahead
  <2>5. QED
    BY <2>3, <2>4
<1>2. CASE Scan
  <2>1. PICK seen \in SUBSET Entries(cwd) :
          /\ seen = Entries(cwd) \/ (stop' = TRUE /\ Omit(cwd, TRUE))
          /\ todo' = Sorted(seen)
    BY <1>2 DEF Scan
  <2>2. pc = "scan" /\ pc' = "entry" /\ UNCHANGED <<made, stack>>
    BY <1>2 DEF Scan
  <2>3. CASE stop' = TRUE /\ Omit(cwd, TRUE)
    BY <1>d, <1>o, <2>3
  <2>4. CASE seen = Entries(cwd)
    <3>1. CASE cwd = Front(p)
      <4> DEFINE e == [path |-> p, dir |-> Kind(p) = "dir"]
      <4>1. e \in Entries(cwd) /\ e.path = p
        BY <3>1 DEF Entries
      <4> HIDE DEF e
      <4>2. \E j \in DOMAIN todo' : todo'[j].path = p
        BY <2>1, <2>4, <4>1, EntriesAreEntries
      <4>3. QED
        BY <2>2, <4>2 DEF Ahead
    <3>2. CASE cwd # Front(p)
      <4>1. \E i \in DOMAIN stack : stack[i] = Front(p)
        BY <1>c, <1>h, <2>2, <3>2 DEF Ahead
      <4>2. QED
        BY <2>2, <4>1 DEF Ahead
    <3>3. QED
      BY <3>1, <3>2
  <2>5. QED
    BY <2>1, <2>3, <2>4
<1>3. CASE ScanFails
  <2>1. /\ pc = "scan" /\ Omit(cwd, TRUE) /\ UNCHANGED <<made, stack>>
    BY <1>3 DEF ScanFails
  <2>2. CASE cwd = Front(p)
    BY <1>d, <1>o, <2>1, <2>2
  <2>3. CASE cwd # Front(p)
    <3>1. \E i \in DOMAIN stack : stack[i] = Front(p)
      BY <1>c, <1>h, <2>1, <2>3 DEF Ahead
    <3>2. QED
      BY <2>1, <3>1 DEF Ahead
  <2>4. QED
    BY <2>2, <2>3
<1>4. CASE Skip
  <2>1. /\ Omit(Path, ~Withheld) /\ todo # <<>> /\ todo' = Tail(todo)
        /\ pc = "entry" /\ pc' = pc /\ UNCHANGED <<made, stack, children, cwd>>
    BY <1>4 DEF Skip, Inspecting
  <2>2. (~Withheld) \in BOOLEAN
    BY DEF Withheld, Hidden
  <2>3. p = Path => Settled(p)
    <3>1. Path \in PathsOf("O")' /\ (complete' => Withheld)
      BY <1>d, <1>o, <2>1, <2>2
    <3>2. QED
      BY <3>1 DEF Settled, Withheld
  <2>4. QED
    BY <1>n, <2>1, <2>3
<1>5. CASE Stop
  <2>1. Omit(Path, TRUE) /\ todo # <<>> /\ stop' = TRUE
    BY <1>5 DEF Stop, Inspecting
  <2>2. QED
    BY <1>d, <1>o, <2>1
<1>6. CASE MakeDirectory
  <2>1. /\ todo # <<>> /\ todo' = Tail(todo) /\ pc = "entry" /\ pc' = "entry"
        /\ UNCHANGED <<stack, cwd>> /\ Kind(Path) = "dir"
        /\ \/ /\ made' = made \union {Path} /\ children' = Append(children, Path)
              /\ records' = Append(records, Record("D", Path, <<>>))
           \/ Omit(Path, TRUE) /\ UNCHANGED <<made, children>>
    BY <1>6 DEF MakeDirectory, Inspecting
  <2>2. CASE Omit(Path, TRUE) /\ UNCHANGED <<made, children>>
    <3>1. p = Path => Settled(p)
      BY <1>d, <1>o, <2>1, <2>2 DEF Settled
    <3>2. QED
      BY <1>n, <2>1, <2>2, <3>1
  <2>3. CASE /\ made' = made \union {Path} /\ children' = Append(children, Path)
             /\ records' = Append(records, Record("D", Path, <<>>))
    <3>1. Path \in PathsOf("D")'
      <4>1. PathsOf("D")' = PathsOf("D") \union {Path}
        BY <1>d, <1>r, <2>1, <2>3, Extended
      <4>2. QED
        BY <4>1
    <3>2. CASE p = Path
      BY <2>1, <2>3, <3>1, <3>2 DEF Settled
    <3>3. /\ children \in Seq(Paths) /\ Len(children) \in Nat
          /\ DOMAIN children = 1 .. Len(children)
      BY WalkTypes, SeqMonotonic
    <3>4. /\ Len(children') = Len(children) + 1 /\ children' \in Seq(Paths)
          /\ \A i \in 1 .. Len(children) : children'[i] = children[i]
          /\ children'[Len(children) + 1] = Path
      BY <1>d, <2>1, <2>3, <3>3, AppendProperties
    <3>5. /\ DOMAIN children' = 1 .. Len(children) + 1
          /\ Len(children) + 1 \in DOMAIN children'
      BY <3>3, <3>4, LenProperties
    <3>6. CASE Front(p) \notin made
      <4>1. Front(p) = Path
        BY <2>3, <3>6
      <4>2. QED
        BY <3>4, <3>5, <4>1 DEF Ahead
    <3>7. CASE p # Path /\ Front(p) \in made
      <4>1. Ahead(p)
        BY <3>7
      <4>2. CASE \E i \in DOMAIN todo : todo[i].path = p
        BY <2>1, <3>7, <4>2, TailHolds DEF Ahead
      <4>3. CASE \E i \in DOMAIN children : children[i] = Front(p)
        <5>1. PICK i \in 1 .. Len(children) : children[i] = Front(p)
          BY <3>3, <4>3
        <5>2. i \in DOMAIN children' /\ children'[i] = Front(p)
          BY <3>3, <3>4, <3>5, <5>1
        <5>3. QED
          BY <5>2 DEF Ahead
      <4>4. CASE \E i \in DOMAIN stack : stack[i] = Front(p)
        BY <2>1, <4>4 DEF Ahead
      <4>5. QED
        BY <2>1, <4>1, <4>2, <4>3, <4>4 DEF Ahead
    <3>8. QED
      BY <3>2, <3>6, <3>7
  <2>4. QED
    BY <2>1, <2>2, <2>3
<1>7. CASE BeginCopy
  BY <1>7, <1>k DEF BeginCopy, Inspecting, walkVars, outVars
<1>8. CASE Descend
  <2> DEFINE s == stack \o Reverse(children)
  <2>1. pc = "entry" /\ stack' = s /\ todo = <<>> /\ UNCHANGED made
    BY <1>8 DEF Descend, outVars
  <2>2. DOMAIN todo = {}
    BY <2>1, EmptySeq
  <2>3. \/ \E i \in DOMAIN stack : stack[i] = Front(p)
        \/ \E i \in DOMAIN children : children[i] = Front(p)
    BY <1>h, <2>1, <2>2 DEF Ahead
  <2>4. \E j \in DOMAIN s : s[j] = Front(p)
    BY <2>3, PushedHolds
  <2> HIDE DEF s
  <2>5. QED
    BY <2>1, <2>4 DEF Ahead
<1>9. CASE Seal
  BY <1>9, <1>k DEF Seal, walkVars, outVars
<1>10. CASE OpenSource \/ StatSource \/ ReadEnds \/ CopyFails
  BY <1>10, <1>k DEF OpenSource, StatSource, ReadEnds, CopyFails, walkVars, outVars
<1>11. CASE CompareSource \/ ReadChunk
  BY <1>11, <1>k DEF CompareSource, ReadChunk, Abandon, walkVars
<1>12. CASE CheckSource
  <2>1. pc = "final" /\ todo # <<>> /\ UNCHANGED <<made, stack, children, cwd, disk>>
    BY <1>12 DEF CheckSource, WalkInv
  <2>2. CASE pc' = "discard" /\ UNCHANGED todo
    BY <1>k, <2>1, <2>2
  <2>3. CASE /\ pc' = "entry" /\ todo' = Tail(todo) /\ Unchanged
             /\ records' = Append(records, Record("F", Path, disk[Path]))
    <3>1. disk[Path] \in Seq(Int)
      BY <2>1 DEF LimitInv
    <3>2. Path \in PathsOf("F")'
      BY <1>d, <1>r, <2>1, <2>3, <3>1, Extended
    <3>3. p = Path => Settled(p)
      BY <2>1, <2>3, <3>2, FileIsHeld DEF Settled
    <3>4. QED
      BY <1>n, <2>1, <2>3, <3>3
  <2>4. QED
    BY <1>12, <2>2, <2>3 DEF CheckSource
<1>13. CASE Discard
  <2>1. /\ pc = "discard" /\ todo # <<>> /\ UNCHANGED <<made, stack, children, cwd>>
        /\ pc' = "entry" /\ todo' = Tail(todo) /\ Omit(Path, TRUE)
    BY <1>13 DEF Discard, WalkInv
  <2>2. p = Path => Settled(p)
    BY <1>d, <1>o, <2>1 DEF Settled
  <2>3. QED
    BY <1>n, <2>1, <2>2
<1>14. QED
  BY <1>1, <1>2, <1>3, <1>4, <1>5, <1>6, <1>7, <1>8, <1>9, <1>10, <1>11, <1>12, <1>13
  DEF Advance

\* Every step keeps the account of the entries that stand still.
LEMMA BoundStep ==
  ( CheckoutInv /\ WalkInv /\ LimitInv /\ CopyInv /\ OrderInv /\ AccountInv
      /\ TreeInv /\ SourceInv /\ BoundInv /\ [Next]_vars )
    => BoundInv'
<1> SUFFICES ASSUME CheckoutInv, WalkInv, LimitInv, CopyInv, OrderInv, AccountInv,
                    TreeInv, SourceInv, BoundInv, [Next]_vars
             PROVE  BoundInv'
  OBVIOUS
<1> SUFFICES ASSUME ~stop', NEW p \in DOMAIN tree' \ (touched' \union {<<>>}),
                    Front(p) \in made', Front(p) \notin PathsOf("O")'
             PROVE  p \in PathsOf("F")' \union PathsOf("D")' \union PathsOf("O")' \/ Ahead(p)'
  BY DEF BoundInv
<1>1. CASE Advance \/ CopyFails
  <2>1. Grows
    BY <1>1, CopyGrows
  <2>2. p \in DOMAIN tree \ (touched \union {<<>>}) /\ ~stop /\ Front(p) \notin PathsOf("O")
    BY <1>1, <2>1, CopyKeeps DEF checkoutVars, Grows, RecordsGrow
  <2>3. Front(p) \in made =>
          p \in PathsOf("F") \union PathsOf("D") \union PathsOf("O") \/ Ahead(p)
    BY <2>2 DEF BoundInv
  <2>4. CASE p \in PathsOf("F") \union PathsOf("D") \union PathsOf("O")
    BY <2>1, <2>4 DEF Grows, RecordsGrow
  <2>5. CASE Front(p) \in made => Ahead(p)
    <3>1. Ahead(p)' \/ Settled(p)
      BY <1>1, <2>2, <2>5, AheadStep
    <3>2. QED
      BY <3>1 DEF Settled
  <2>6. QED
    BY <2>3, <2>4, <2>5
<1>2. CASE Environment \/ UNCHANGED vars
  <2>1. UNCHANGED <<pc, walkVars, made, records>> /\ Stands
    BY <1>2, EnvironmentKeeps, StandsStill DEF vars, outVars
  <2>2. p \in DOMAIN tree \ (touched \union {<<>>})
    BY <2>1 DEF Stands
  <2>3. \A t : PathsOf(t)' = PathsOf(t)
    BY <2>1 DEF PathsOf, Recorded
  <2>4. p \in PathsOf("F") \union PathsOf("D") \union PathsOf("O") \/ Ahead(p)
    BY <2>1, <2>2, <2>3 DEF BoundInv, walkVars
  <2>5. Ahead(p) => Ahead(p)'
    BY <2>1 DEF Ahead, Visiting, walkVars
  <2>6. QED
    BY <2>3, <2>4, <2>5
<1>3. QED
  BY <1>1, <1>2 DEF Next

LEMMA CoverStep ==
  ( CheckoutInv /\ WalkInv /\ LimitInv /\ CopyInv /\ OrderInv /\ AccountInv
      /\ TreeInv /\ SourceInv /\ CoverInv /\ [Next]_vars )
    => CoverInv'
<1> SUFFICES ASSUME CheckoutInv, WalkInv, LimitInv, CopyInv, OrderInv, AccountInv,
                    TreeInv, SourceInv, CoverInv, [Next]_vars
             PROVE  CoverInv'
  OBVIOUS
<1>1. CASE Advance \/ CopyFails
  <2>1. Grows /\ UNCHANGED <<tree, node, touched>>
    BY <1>1, CopyGrows, CopyKeeps DEF checkoutVars
  <2>2. stop' => ~complete'
    BY <2>1 DEF Grows, CoverInv
  <2>3. ASSUME complete', NEW p \in DOMAIN tree \ (touched \union {<<>>}),
               Front(p) \in made', p \notin Sensitive
        PROVE  Held(p)' \/ Ahead(p)'
    <3>k. UNCHANGED Kind(p)
      BY <2>1 DEF Kind
    <3>1. complete
      BY <2>1, <2>3 DEF Grows
    <3>2. Front(p) \in made => Held(p) \/ Ahead(p)
      BY <2>3, <3>1 DEF CoverInv
    <3>3. CASE Held(p)
      BY <2>1, <3>3, <3>k DEF Held, Grows, RecordsGrow
    <3>4. CASE Front(p) \in made => Ahead(p)
      <4>1. Ahead(p)' \/ Settled(p)
        BY <1>1, <2>3, <3>4, AheadStep
      <4>2. Settled(p) => Held(p)'
        BY <2>1, <2>3, <3>k DEF Settled, Held
      <4>3. QED
        BY <4>1, <4>2
    <3>5. QED
      BY <3>2, <3>3, <3>4
  <2>4. QED
    BY <2>1, <2>2, <2>3 DEF CoverInv
<1>2. CASE Environment \/ UNCHANGED vars
  <2>1. UNCHANGED <<pc, walkVars, made, records, complete, disk>> /\ Stands
    BY <1>2, EnvironmentKeeps, StandsStill DEF vars, outVars
  <2>2. \A t : PathsOf(t)' = PathsOf(t)
    BY <2>1 DEF PathsOf, Recorded
  <2>3. ASSUME complete', NEW p \in DOMAIN tree' \ (touched' \union {<<>>}),
               Front(p) \in made', p \notin Sensitive
        PROVE  Held(p)' \/ Ahead(p)'
    <3>1. /\ p \in DOMAIN tree \ (touched \union {<<>>})
          /\ tree'[p] = tree[p] /\ node'[tree[p]].blocks = node[tree[p]].blocks
      BY <2>1, <2>3 DEF Stands
    <3>2. Kind(p)' = Kind(p)
      BY <2>1, <2>3, <3>1, KindStands
    <3>3. Held(p) \/ Ahead(p)
      BY <2>1, <2>3, <3>1 DEF CoverInv
    <3>4. Ahead(p) => Ahead(p)'
      BY <2>1 DEF Ahead, Visiting, walkVars
    <3>5. Held(p) => Held(p)'
      BY <2>1, <2>2, <3>1, <3>2 DEF Held
    <3>6. QED
      BY <3>3, <3>4, <3>5
  <2>4. stop' => ~complete'
    BY <2>1 DEF CoverInv, walkVars
  <2>5. QED
    BY <2>3, <2>4 DEF CoverInv
<1>3. QED
  BY <1>1, <1>2 DEF Next

---------------------------------------------------------------------------
(* What the digest says *)

FaithInv == OrderInv /\ AccountInv /\ TreeInv /\ SourceInv /\ BoundInv /\ CoverInv

LEMMA InitFaith == Init => FaithInv
<1> SUFFICES ASSUME NEW t \in Trees,
               /\ tree = [p \in DOMAIN t.kind |-> Inode(p, 0)]
               /\ node = [i \in {Inode(p, 0) : p \in DOMAIN t.kind} |->
                            [kind |-> t.kind[i.path], blocks |-> [n \in 1 .. t.size[i.path] |-> 0],
                             mtime |-> 0, links |-> IF i.path \in t.linked THEN 2 ELSE 1]]
               /\ clock = 0 /\ touched = {}
               /\ pc = "pop" /\ stack = <<(<<>>)>> /\ cwd = <<>>
               /\ todo = <<>> /\ children = <<>> /\ stop = FALSE
               /\ racy = FALSE
               /\ disk = <<>> /\ made = {<<>>} /\ records = <<>>
               /\ files = 0 /\ directories = 1 /\ totalBytes = 0 /\ complete = TRUE
             PROVE  FaithInv
  BY DEF Init
<1>t. /\ <<>> \in DOMAIN t.kind /\ t.kind[<<>>] = "dir"
      /\ \A p \in DOMAIN t.kind \ {<<>>} :
           Front(p) \in DOMAIN t.kind /\ t.kind[Front(p)] = "dir"
  BY TreesAssumption
<1>e. DOMAIN <<>> = {} /\ DOMAIN stack = {1} /\ stack[1] = <<>>
  BY EmptySeq
<1>r. Recorded("F") = {} /\ \A x : Recorded(x) = {} /\ PathsOf(x) = {}
  BY <1>e DEF Recorded, PathsOf
<1>1. OrderInv
  <2>1. StackInv
    BY <1>e DEF StackInv, Visiting, Copying, Reading
  <2>2. TodoInv
    BY <1>e DEF TodoInv
  <2>3. TakenInv /\ OrderIsStable
    BY <1>r DEF TakenInv, OrderIsStable, Taken
  <2>4. QED
    BY <2>1, <2>2, <2>3 DEF OrderInv
<1>2. AccountInv
  <2>1. Cardinality({}) = 0 /\ Cardinality({<<>>}) = 1
    BY FS_EmptySet, FS_Singleton
  <2>2. Bytes({}) = 0
    BY DEF Bytes, FoldSet, MapThenFoldSet
  <2>3. Counters
    BY <1>r, <2>1, <2>2 DEF Counters
  <2>4. OnDisk /\ Leftovers /\ DOMAIN disk \subseteq Paths
    BY <1>e, <1>r DEF OnDisk, Leftovers
  <2>5. QED
    BY <2>3, <2>4 DEF AccountInv
<1>3. TreeInv
  <2>1. \A p \in DOMAIN tree : tree[p].path = p /\ Kind(p) = t.kind[p]
    <3> TAKE p \in DOMAIN tree
    <3>1. tree[p] = Inode(p, 0) /\ tree[p].path = p /\ tree[p] \in DOMAIN node
      BY DEF Inode
    <3>2. QED
      BY <3>1 DEF Kind
  <2>2. clock <= MaxClock
    BY BoundsAssumption
  <2>3. DOMAIN tree = DOMAIN t.kind
    OBVIOUS
  <2>4. ASSUME NEW p \in DOMAIN tree \ {<<>>}
        PROVE  Front(p) \in DOMAIN tree /\ Kind(Front(p)) = "dir"
    <3>1. p \in DOMAIN t.kind \ {<<>>}
      BY <2>3
    <3>2. Front(p) \in DOMAIN t.kind /\ t.kind[Front(p)] = "dir"
      BY <1>t, <3>1
    <3>3. Front(p) \in DOMAIN tree
      BY <2>3, <3>2
    <3>4. QED
      BY <2>1, <3>2, <3>3
  <2>5. QED
    BY <1>t, <2>1, <2>2, <2>3, <2>4 DEF TreeInv
<1>4. SourceInv
  BY DEF SourceInv
<1>5. \A p : Front(p) \in made => Ahead(p)
  BY <1>e DEF Ahead
<1>6. BoundInv /\ CoverInv
  BY <1>5 DEF BoundInv, CoverInv
<1>7. QED
  BY <1>1, <1>2, <1>3, <1>4, <1>6 DEF FaithInv

LEMMA FaithInvariance == Spec => []FaithInv
<1>1. SnapshotInv /\ FaithInv /\ [Next]_vars => FaithInv'
  BY OrderStep, AccountStep, TreeStep, SourceStep, BoundStep, CoverStep
  DEF FaithInv, SnapshotInv
<1>2. QED
  BY <1>1, InitFaith, SnapshotInvariance, PTL DEF Spec

\* The variables have their types, and the counters count what they are about: the
\* files and directories recorded and the bytes copied.
THEOREM SnapshotTypesCorrect == Spec => []TypeOK
<1>1. SnapshotInv /\ FaithInv => TypeOK
  <2> SUFFICES ASSUME SnapshotInv, FaithInv PROVE TypeOK
    OBVIOUS
  <2>1. /\ DOMAIN tree \subseteq Paths /\ <<>> \in DOMAIN tree
        /\ \A p \in DOMAIN tree : tree[p] \in DOMAIN node
    BY DEF SnapshotInv, CheckoutInv, FaithInv, TreeInv
  <2>2. ASSUME NEW i \in DOMAIN node
        PROVE  node[i].kind \in Kinds /\ node[i].mtime \in 0 .. MaxClock
    <3>1. /\ node[i] \in NodeType /\ node[i].mtime <= clock /\ clock \in Nat
          /\ clock <= MaxClock /\ MaxClock \in Nat
      BY BoundsAssumption DEF SnapshotInv, CheckoutInv, FaithInv, TreeInv
    <3>2. node[i].kind \in Kinds /\ node[i].mtime \in Nat
      BY <3>1 DEF NodeType
    <3>3. QED
      BY <3>1, <3>2
  <2>3. /\ pc \in {"pop", "scan", "entry", "open", "fstat", "stat", "read", "final",
                   "discard", "ready", "failed"}
    BY DEF SnapshotInv, WalkInv, Copying, Reading
  <2>4. /\ \A n \in DOMAIN stack : stack[n] \in made
        /\ \A n \in DOMAIN todo : todo[n].path \in Paths /\ Front(todo[n].path) = cwd
        /\ made \subseteq Paths
    <3>1. WalkInv
      BY DEF SnapshotInv
    <3>2. \A n \in DOMAIN stack : stack[n] \in made
      BY <3>1, WalkTypes, ElementOfSeq
    <3>3. QED
      BY <3>1, <3>2, WalkTypes
  <2>5. /\ DOMAIN disk \subseteq Paths
        /\ files = Cardinality(Recorded("F")) /\ totalBytes = Bytes(Recorded("F"))
        /\ directories = Cardinality(made)
    BY DEF FaithInv, AccountInv, Counters
  <2>6. QED
    BY <2>1, <2>2, <2>3, <2>4, <2>5 DEF TypeOK
<1>2. QED
  BY <1>1, SnapshotInvariance, FaithInvariance, PTL

\* When the copy is ready and was not stopped, nothing is ahead.
LEMMA NothingAhead ==
  ASSUME OrderInv, pc = "ready", ~stop
  PROVE  \A p : ~Ahead(p)
<1>1. stack = <<>> /\ children = <<>>
  BY DEF OrderInv, StackInv, Visiting, Copying, Reading
<1>2. DOMAIN stack = {} /\ DOMAIN children = {}
  BY <1>1, EmptySeq
<1>3. QED
  BY <1>2 DEF Ahead, Visiting, Copying, Reading

\* The records of one kind name each path once.
LEMMA NamedOnce ==
  ASSUME records \in Seq(RecordType), OrderInv, NEW tag \in {"F", "D"}
  PROVE  Cardinality(Recorded(tag)) = Cardinality(PathsOf(tag))
<1> DEFINE f == [n \in Recorded(tag) |-> records[n].path]
           R == Recorded(tag)
<1>1. IsFiniteSet(R)
  <2>1. R \in SUBSET DOMAIN records
    BY DEF Recorded
  <2>2. QED
    BY <2>1, RecordsDomain, FS_Subset
<1>2. f \in Surjection(R, PathsOf(tag))
  BY DEF Surjection, PathsOf
<1>3. ASSUME NEW m \in R, NEW n \in R, m < n PROVE f[m] # f[n]
  <2> SUFFICES ASSUME records[m].path = records[n].path PROVE FALSE
    OBVIOUS
  <2>1. m \in Taken /\ n \in Taken
    BY DEF Taken
  <2>2. Last(records[m].path) < Last(records[n].path)
    BY <1>3, <2>1 DEF OrderInv, OrderIsStable, Taken
  <2>3. records[m].path \in Seq(Nat) /\ records[m].path # <<>>
    BY <2>1, TakenTypes DEF OrderInv, TakenInv
  <2>4. Last(records[m].path) \in Nat
    BY <2>3, FrontLast
  <2>5. QED
    BY <2>2, <2>4
<1>4. \A n \in R : n \in Nat
  BY RecordsDomain DEF Recorded
<1>5. \A m, n \in R : f[m] = f[n] => m = n
  <2> HIDE DEF R, f
  <2>1. \A m, n \in R : m = n \/ m < n \/ n < m
    BY <1>4
  <2>2. QED
    BY <1>3, <2>1
<1>6. f \in Injection(R, PathsOf(tag))
  <2>1. f \in [R -> PathsOf(tag)]
    BY <1>2 DEF Surjection
  <2> HIDE DEF R, f
  <2>2. QED
    BY <1>5, <2>1 DEF Injection, IsInjective
<1> HIDE DEF R, f
<1>7. f \in Bijection(R, PathsOf(tag))
  BY <1>2, <1>6 DEF Bijection
<1>8. ExistsBijection(R, PathsOf(tag))
  BY <1>7 DEF ExistsBijection
<1>9. QED
  BY <1>1, <1>8, FS_Bijection DEF R

\* The digest is a faithful name of the copy: each entry that stood still is bound
\* into it, what it says of a directory or a file is on the disk, once, and the
\* order is that of the names, however scandir answers and the checkout changes.
THEOREM DigestFaithful == Spec => []DigestIsFaithful
<1>1. SnapshotInv /\ FaithInv => DigestIsFaithful
  <2> SUFFICES ASSUME SnapshotInv, FaithInv PROVE DigestIsFaithful
    OBVIOUS
  <2>1. EveryEntryIsBound
    <3>1. pc = "ready" /\ ~stop => \A p : ~Ahead(p)
      BY NothingAhead DEF FaithInv
    <3>2. BoundInv
      BY DEF FaithInv
    <3>3. QED
      BY <3>1, <3>2 DEF EveryEntryIsBound, BoundInv
  <2>2. RecordsMatchDisk
    <3> SUFFICES ASSUME pc \in {"pop", "entry", "ready"}
                 PROVE  /\ Cardinality(Recorded("F")) = Cardinality(PathsOf("F"))
                        /\ Cardinality(Recorded("D")) = Cardinality(PathsOf("D"))
                        /\ made = PathsOf("D") \union {<<>>}
                        /\ OnDisk
                        /\ \A p \in DOMAIN disk \ PathsOf("F") : p \in PathsOf("O") /\ ~complete
      BY DEF RecordsMatchDisk, OnDisk
    <3>1. /\ Cardinality(Recorded("F")) = Cardinality(PathsOf("F"))
          /\ Cardinality(Recorded("D")) = Cardinality(PathsOf("D"))
      BY NamedOnce DEF FaithInv, SnapshotInv, LimitInv
    <3>2. made = PathsOf("D") \union {<<>>} /\ OnDisk /\ Leftovers
      BY DEF FaithInv, AccountInv, Counters
    <3>3. pc \notin Copying
      BY DEF Copying, Reading
    <3>4. QED
      BY <3>1, <3>2, <3>3 DEF Leftovers
  <2>3. OrderIsStable
    BY DEF FaithInv, OrderInv
  <2>4. QED
    BY <2>1, <2>2, <2>3 DEF DigestIsFaithful
<1>2. QED
  BY <1>1, SnapshotInvariance, FaithInvariance, PTL

\* A snapshot that calls itself complete holds every path no change concerned, but
\* what is withheld: by induction on the depth of the path, from its directory.
THEOREM CompleteIsAll == Spec => []CompleteMeansAll
<1>1. SnapshotInv /\ FaithInv => CompleteMeansAll
  <2> SUFFICES ASSUME SnapshotInv, FaithInv, pc = "ready", complete
               PROVE  \A p \in DOMAIN tree \ touched :
                        (\A k \in 1 .. Len(p) : SubSeq(p, 1, k) \notin Sensitive) =>
                          \/ Kind(p) = "dir" /\ p \in made
                          \/ /\ Kind(p) = "file" /\ p \in DOMAIN disk
                             /\ disk[p] = node[tree[p]].blocks
    BY DEF CompleteMeansAll
  <2> DEFINE Unwithheld(p) == \A k \in 1 .. Len(p) : SubSeq(p, 1, k) \notin Sensitive
             T == {n \in Nat : \A p \in DOMAIN tree \ touched :
                                 Len(p) <= n /\ Unwithheld(p) => Held(p)}
  <2>1. /\ \A p : ~Ahead(p)
        /\ DOMAIN tree \subseteq Paths /\ TreeInv /\ CoverInv /\ <<>> \in made
    <3>1. ~stop
      BY DEF FaithInv, CoverInv
    <3>2. \A p : ~Ahead(p)
      BY <3>1, NothingAhead DEF FaithInv
    <3>3. QED
      BY <3>2 DEF FaithInv, SnapshotInv, CheckoutInv, AccountInv, Counters
  <2>2. ASSUME NEW p \in DOMAIN tree \ touched, p = <<>> PROVE Held(p)
    BY <2>1, <2>2 DEF Held, TreeInv
  <2>3. ASSUME NEW p \in DOMAIN tree \ touched, p # <<>>, Unwithheld(p)
        PROVE  /\ Len(p) \in Nat \ {0} /\ Len(Front(p)) = Len(p) - 1
               /\ Front(p) \in DOMAIN tree \ touched /\ Unwithheld(Front(p))
               /\ Held(Front(p)) => Held(p)
    <3>1. p \in Seq(Nat)
      BY <2>1, PathTypes
    <3>2. /\ Len(p) \in Nat \ {0} /\ Front(p) \in Seq(Nat) /\ Len(Front(p)) = Len(p) - 1
          /\ \A k \in 1 .. Len(p) - 1 : Front(p)[k] = p[k]
      BY <2>3, <3>1, FrontLast
    <3>3. Front(p) \in DOMAIN tree \ touched /\ Kind(Front(p)) = "dir"
      BY <2>1, <2>3 DEF TreeInv
    <3>4. Unwithheld(Front(p))
      <4> SUFFICES ASSUME NEW k \in 1 .. Len(p) - 1
                   PROVE  SubSeq(Front(p), 1, k) \notin Sensitive
        BY <3>2
      <4>1. SubSeq(Front(p), 1, k) = SubSeq(p, 1, k)
        <5>1. k \in Nat /\ k <= Len(p) /\ k <= Len(Front(p))
          BY <3>2
        <5>2. \A j \in 1 .. k : Front(p)[j] = p[j]
          BY <3>2
        <5>3. QED
          BY <3>1, <3>2, <5>1, <5>2, SameBeginning
      <4>2. k \in 1 .. Len(p)
        BY <3>2
      <4>3. QED
        BY <2>3, <4>1, <4>2
    <3>5. p \notin Sensitive
      <4>1. Len(p) \in 1 .. Len(p) /\ SubSeq(p, 1, Len(p)) = p
        BY <3>1, <3>2, SubSeqFull
      <4>2. QED
        BY <2>3, <4>1
    <3>6. Held(Front(p)) => Held(p)
      BY <2>1, <2>3, <3>3, <3>5 DEF CoverInv, Held
    <3>7. QED
      BY <3>2, <3>3, <3>4, <3>6
  <2> HIDE DEF Unwithheld
  <2>4. 0 \in T
    <3>1. ASSUME NEW p \in DOMAIN tree \ touched, Len(p) <= 0, Unwithheld(p) PROVE Held(p)
      BY <2>2, <2>3, <3>1
    <3>2. QED
      BY <3>1
  <2>5. ASSUME NEW n \in Nat, n \in T PROVE n + 1 \in T
    <3>1. ASSUME NEW p \in DOMAIN tree \ touched, Len(p) <= n + 1, Unwithheld(p) PROVE Held(p)
      <4>1. CASE p = <<>>
        BY <2>2, <4>1
      <4>2. CASE p # <<>>
        <5>1. /\ Len(p) \in Nat \ {0} /\ Len(Front(p)) = Len(p) - 1
              /\ Front(p) \in DOMAIN tree \ touched /\ Unwithheld(Front(p))
              /\ Held(Front(p)) => Held(p)
          BY <2>3, <3>1, <4>2
        <5>2. Len(Front(p)) <= n
          BY <3>1, <5>1
        <5>3. QED
          BY <2>5, <5>1, <5>2
      <4>3. QED
        BY <4>1, <4>2
    <3>2. QED
      BY <3>1
  <2> HIDE DEF T
  <2>6. Nat \subseteq T
    BY <2>4, <2>5, Induction
  <2>7. \A p \in DOMAIN tree \ touched : Unwithheld(p) => Held(p)
    <3> TAKE p \in DOMAIN tree \ touched
    <3>1. Len(p) \in T /\ Len(p) <= Len(p)
      BY <2>1, <2>6, PathTypes, LenProperties
    <3>2. QED
      BY <3>1 DEF T
  <2>8. \A p \in PathsOf("F") : p \in DOMAIN disk
    BY DEF FaithInv, AccountInv, OnDisk, PathsOf
  <2>9. QED
    BY <2>7, <2>8 DEF Held, Unwithheld
<1>2. QED
  BY <1>1, SnapshotInvariance, FaithInvariance, PTL
=============================================================================
