---------------------------- MODULE SnapshotCopy ----------------------------
(***************************************************************************)
(* RepositorySnapshotter: the copy of a checkout that is analysed and      *)
(* executed in its place, taken while other programs go on changing the    *)
(* checkout.  The source is                                                *)
(* src/src/r_sandbox/tools/repository_snapshot/snapshot.py.                *)
(*                                                                         *)
(* A path is the sequence of its names below the root, and a name is a     *)
(* natural number, its rank in the order of sorted().  A file is a         *)
(* sequence of blocks, one block per read; a block is the number of the    *)
(* change that wrote it.  Every system call on the checkout is a step, and *)
(* the checkout may change between any two.  The digest is the sequence of *)
(* records hashed into it.  Left out: the texts of the warnings and their  *)
(* limit, modes, Windows reparse points and what a link leads to.          *)
(***************************************************************************)
EXTENDS Integers, FiniteSets, SequencesExt

CONSTANTS
  Paths,           \* the paths that may come to exist, <<>> among them
  Trees,           \* the checkouts the copy may start from
  Volatile,        \* bound: the paths other programs change
  Unportable,      \* names that are not control-free UTF-8
  Metadata,        \* _METADATA_OR_CACHE_IGNORES
  Ignored,         \* _IGNORED_DIRECTORIES
  Sensitive,       \* the credential-like paths
  MaxFiles, MaxDirectories, MaxDepth, MaxTotalBytes, MaxFileBytes,
                   \* SnapshotLimits; bytes are counted in blocks
  MaxChanges,      \* bound on the changes made beside the copy; each checkout
                   \* of Trees allows so many or fewer
  MaxClock         \* bound on the ticks of the clock of the file system

Kinds == {"dir", "file", "link", "special"}

ASSUME PathsAssumption ==
  /\ Paths \subseteq Seq(Nat) /\ IsFiniteSet(Paths)
  /\ \A p \in Paths : p # <<>> => Front(p) \in Paths
  /\ Volatile \subseteq Paths
ASSUME TreesAssumption ==
  \A t \in Trees :
    /\ t.kind \in [DOMAIN t.kind -> Kinds] /\ DOMAIN t.kind \subseteq Paths
    /\ <<>> \in DOMAIN t.kind
    /\ \A p \in DOMAIN t.kind \ {<<>>} :
         Front(p) \in DOMAIN t.kind /\ t.kind[Front(p)] = "dir"
    /\ t.kind[<<>>] = "dir" /\ <<>> \notin t.mounts
    /\ t.size \in [DOMAIN t.kind -> Nat]
    /\ t.mounts \subseteq DOMAIN t.kind /\ t.linked \subseteq DOMAIN t.kind
    /\ t.changes \in 0 .. MaxChanges
ASSUME LimitsAssumption ==
  {MaxFiles, MaxDirectories, MaxDepth, MaxTotalBytes, MaxFileBytes}
    \subseteq Nat \ {0}
ASSUME BoundsAssumption == MaxChanges \in Nat /\ MaxClock \in Nat

VARIABLES
  tree,            \* the inode each existing path names
  node,            \* kind, blocks, mtime and links of each inode
  mounts,          \* the mount points of the kernel
  clock, changes,  \* the coarse clock; the changes that count so far
  touched,         \* history: the paths a change has concerned
  pc,              \* the statement the copy is at
  nested,          \* nested_mounts, read before the walk
  stack, cwd,      \* directories to visit; the one being visited
  todo, children,  \* its entries still to inspect; child_directories
  entriesSeen, stop,
  expected, fd, actual,  \* locals of _copy_regular_file
  racy,            \* history: fd was written within the tick of its mtime
  disk, made,      \* files and directories of the snapshot
  records,         \* what the digest has been fed
  files, directories, totalBytes, complete

checkoutVars == <<tree, node, mounts, clock, changes, touched>>
walkVars     == <<nested, stack, cwd, todo, children, entriesSeen, stop>>
fileVars     == <<expected, fd, actual, racy>>
countVars    == <<files, directories, totalBytes>>
outVars      == <<disk, made, records, countVars, complete>>
vars == <<checkoutVars, pc, walkVars, fileVars, outVars>>

Below(p) == {q \in Paths : IsPrefix(p, q)}
Least(a, b) == IF a <= b THEN a ELSE b

\* An inode is named by the path and the change that created it.
Inode(p, born) == [path |-> p, born |-> born]
NoFile == Inode(<<>>, 0)

Kind(p) == IF p \in DOMAIN tree THEN node[tree[p]].kind ELSE "absent"

\* What lstat and fstat tell of an inode.
Stat(i) ==
  [ino |-> i, kind |-> node[i].kind, links |-> node[i].links,
   size |-> Len(node[i].blocks), mtime |-> node[i].mtime]
NoStat == Stat(NoFile)

Init ==
  \E t \in Trees :
    /\ tree = [p \in DOMAIN t.kind |-> Inode(p, 0)]
    /\ node = [i \in {Inode(p, 0) : p \in DOMAIN t.kind} |->
                 [kind |-> t.kind[i.path], blocks |-> [n \in 1 .. t.size[i.path] |-> 0],
                  mtime |-> 0, links |-> IF i.path \in t.linked THEN 2 ELSE 1]]
    /\ mounts = t.mounts /\ nested = t.mounts
    /\ clock = 0 /\ changes = MaxChanges - t.changes /\ touched = {}
    /\ pc = "pop" /\ stack = <<(<<>>)>> /\ cwd = <<>>
    /\ todo = <<>> /\ children = <<>> /\ entriesSeen = 0 /\ stop = FALSE
    /\ fd = NoFile /\ racy = FALSE
    /\ expected = NoStat /\ actual = NoStat
    /\ disk = <<>> /\ made = {<<>>} /\ records = <<>>
    /\ files = 0 /\ directories = 1 /\ totalBytes = 0 /\ complete = TRUE

---------------------------------------------------------------------------
(* Other programs, the editor or the build that uses the checkout: external *)

Open == pc \notin {"ready", "failed"}

Change(concerned) ==
  /\ Open
  /\ changes < MaxChanges
  /\ changes' = changes + 1
  /\ touched' = touched \cup concerned

Edits(b) ==
  {[b EXCEPT ![n] = changes + 1] : n \in DOMAIN b}
    \cup {Append(b, changes + 1)}
    \cup (IF b = <<>> THEN {} ELSE {Front(b)})

\* A file is overwritten, extended or cut in place.
Write(p) ==
  /\ Kind(p) = "file"
  /\ Change({p})
  /\ \E b \in Edits(node[tree[p]].blocks) :
       node' = [node EXCEPT ![tree[p]].blocks = b, ![tree[p]].mtime = clock]
  /\ racy' = (racy \/ (/\ pc \in {"read", "final"}
                       /\ tree[p] = fd
                       /\ clock = actual.mtime))
  /\ UNCHANGED <<tree, mounts, clock, pc, walkVars, expected, fd, actual, outVars>>

\* The file gets or loses a second name somewhere outside.
Link(p) ==
  /\ Kind(p) = "file"
  /\ Change({p})
  /\ node' = [node EXCEPT ![tree[p]].links = 3 - @]
  /\ UNCHANGED <<tree, mounts, clock, pc, walkVars, fileVars, outVars>>

\* A path is created, or what was there is replaced by a rename over it.
Place(p, kind) ==
  LET i == Inode(p, changes + 1) IN
  /\ p # <<>> /\ Kind(Front(p)) = "dir"
  /\ {p, Front(p)} \cap mounts = {}
  /\ Change(Below(p))
  /\ tree' = [q \in {p} \cup (DOMAIN tree \ Below(p)) |-> IF q = p THEN i ELSE tree[q]]
  /\ node' = [j \in {i} \cup DOMAIN node |->
                IF j = i
                  THEN [kind |-> kind, mtime |-> clock, links |-> 1,
                        blocks |-> IF kind = "file" THEN <<changes + 1>> ELSE <<>>]
                  ELSE IF p \in DOMAIN tree /\ j = tree[p]
                    THEN [node[j] EXCEPT !.links = @ - 1] ELSE node[j]]
  /\ UNCHANGED <<mounts, clock, pc, walkVars, fileVars, outVars>>

\* A path is deleted, or moved out of the checkout with its links.
Delete(p) ==
  /\ p \in DOMAIN tree \ {<<>>} /\ Below(p) \cap mounts = {}
  /\ Change(Below(p))
  /\ tree' = [q \in DOMAIN tree \ Below(p) |-> tree[q]]
  /\ \E gone \in {0, 1} : node' = [node EXCEPT ![tree[p]].links = @ - gone]
  /\ UNCHANGED <<mounts, clock, pc, walkVars, fileVars, outVars>>

\* A file system, empty, is mounted on a directory.
Mount(p) ==
  /\ p # <<>> /\ Kind(p) = "dir" /\ p \notin mounts
  /\ Change(Below(p))
  /\ mounts' = mounts \cup {p}
  /\ tree' = [q \in DOMAIN tree \ (Below(p) \ {p}) |-> tree[q]]
  /\ UNCHANGED <<node, clock, pc, walkVars, fileVars, outVars>>

Tick ==
  /\ Open
  /\ clock < MaxClock
  /\ clock' = clock + 1
  /\ UNCHANGED <<tree, node, mounts, changes, touched, pc, walkVars, fileVars, outVars>>

Environment ==
  \/ Tick
  \/ \E p \in Volatile :
       \/ Write(p) \/ Link(p) \/ Delete(p) \/ Mount(p)
       \/ \E kind \in {"file", "dir", "link"} : Place(p, kind)

---------------------------------------------------------------------------
(* The walk: _copy *)

Record(tag, p, content) == [tag |-> tag, path |-> p, content |-> content]

\* Mutant: the last exclusion alone decides.
OmitLast(p, incomplete) ==
  /\ records' = Append(records, Record("O", p, <<>>))
  /\ complete' = ~incomplete

\* omit(): an exclusion is hashed, and may make the snapshot incomplete.
Omit(p, incomplete) ==
  /\ records' = Append(records, Record("O", p, <<>>))
  /\ complete' = (complete /\ ~incomplete)

\* _mount_boundary_error
Boundary(p) == p # <<>> /\ p \in nested \cup mounts

\* _contained: a link leads out of the checkout or nowhere.
Contained(p) == Kind(p) \notin {"absent", "link"}

\* Line 199: a directory is taken from the stack and looked at again.
Pop ==
  /\ pc = "pop" /\ stack # <<>> /\ ~stop
  /\ cwd' = Last(stack) /\ stack' = Front(stack)
  /\ IF Contained(cwd') /\ ~Boundary(cwd')
       THEN pc' = "scan" /\ UNCHANGED <<records, complete>>
       ELSE pc' = "pop" /\ Omit(cwd', TRUE)
  /\ UNCHANGED <<checkoutVars, nested, todo, children, entriesSeen, stop, fileVars,
                 disk, made, countVars>>

\* The names scandir finds, with the type it keeps for is_dir().
Entries(d) ==
  {[path |-> p, dir |-> Kind(p) = "dir"] :
     p \in {q \in DOMAIN tree : q # <<>> /\ Front(q) = d}}

ByName(e, f) == Last(e.path) < Last(f.path)
Sorted(S) ==
  [n \in 1 .. Cardinality(S) |->
     CHOOSE e \in S : Cardinality({f \in S : ByName(f, e)}) = n - 1]

\* The entries the budget leaves room for.
Room ==
  Least(MaxFiles + MaxDirectories - files - directories,
        MaxFiles + MaxDirectories - entriesSeen)

Scan ==
  /\ pc = "scan" /\ Kind(cwd) = "dir"
  /\ \E seen \in SUBSET Entries(cwd) :
       /\ IF Cardinality(Entries(cwd)) <= Room
            THEN /\ seen = Entries(cwd)
                 /\ UNCHANGED <<stop, records, complete>>
            ELSE /\ Cardinality(seen) = Room
                 /\ stop' = TRUE /\ Omit(cwd, TRUE)
       /\ todo' = Sorted(seen)
       /\ entriesSeen' = entriesSeen + Cardinality(seen)
  /\ pc' = "entry" /\ children' = <<>>
  /\ UNCHANGED <<checkoutVars, nested, stack, cwd, fileVars, disk, made, countVars>>

\* The directory cannot be read, or not to its end.
ScanFails ==
  /\ pc = "scan"
  /\ \E n \in 0 .. Least(Room, Cardinality(Entries(cwd))) :
       entriesSeen' = entriesSeen + n
  /\ pc' = "pop" /\ Omit(cwd, TRUE)
  /\ UNCHANGED <<checkoutVars, nested, stack, cwd, todo, children, stop, fileVars,
                 disk, made, countVars>>

Entry == Head(todo)
Path == Entry.path

\* Excluded by name, before the entry itself is looked at.
Hidden ==
  \/ ToSet(Path) \cap Unportable # {}
  \/ Last(Path) \in Metadata
  \/ Entry.dir /\ ToSet(Path) \cap Ignored # {}
Withheld == ~Hidden /\ Path \in Sensitive

\* What lstat says of the entry is refused, in this order.
Refused ==
  \/ Kind(Path) \in {"absent", "link", "special"} \/ Boundary(Path)
  \/ Kind(Path) = "dir" /\ (Len(Path) > MaxDepth \/ directories >= MaxDirectories)
  \/ Kind(Path) = "file" /\ Stat(tree[Path]).links # 1

OverFileBytes == Stat(tree[Path]).size > MaxFileBytes
OverTotalBytes == totalBytes + Stat(tree[Path]).size > MaxTotalBytes
Plain == ~Hidden /\ ~Withheld /\ ~Refused /\ Kind(Path) = "file"
Exhausted == files >= MaxFiles \/ (~OverFileBytes /\ OverTotalBytes)

Inspecting == pc = "entry" /\ todo # <<>>

Skip ==
  /\ Inspecting
  /\ Hidden \/ Withheld \/ Refused \/ (Plain /\ ~Exhausted /\ OverFileBytes)
  /\ Omit(Path, ~Withheld)
  /\ todo' = Tail(todo)
  /\ UNCHANGED <<checkoutVars, pc, nested, stack, cwd, children, entriesSeen, stop,
                 fileVars, disk, made, countVars>>

\* A budget is spent: the rest of this directory is not looked at.
Stop ==
  /\ Inspecting /\ Plain /\ Exhausted
  /\ Omit(Path, TRUE)
  /\ stop' = TRUE /\ todo' = <<>>
  /\ UNCHANGED <<checkoutVars, pc, nested, stack, cwd, children, entriesSeen,
                 fileVars, disk, made, countVars>>

MakeDirectory ==
  /\ Inspecting /\ ~Hidden /\ ~Withheld /\ ~Refused /\ Kind(Path) = "dir"
  /\ todo' = Tail(todo)
  /\ \/ /\ made' = made \cup {Path}
        /\ directories' = directories + 1
        /\ records' = Append(records, Record("D", Path, <<>>))
        /\ children' = Append(children, Path)
        /\ UNCHANGED complete
     \/ Omit(Path, TRUE) /\ UNCHANGED <<made, directories, children>>  \* mkdir failed
  /\ UNCHANGED <<checkoutVars, pc, nested, stack, cwd, entriesSeen, stop, fileVars,
                 disk, files, totalBytes>>

BeginCopy ==
  /\ Inspecting /\ Plain /\ ~Exhausted /\ ~OverFileBytes
  /\ pc' = "open" /\ expected' = Stat(tree[Path])
  /\ UNCHANGED <<checkoutVars, walkVars, fd, actual, racy, outVars>>

\* Mutant: the stack is extended in the order of the names.
DescendLastFirst ==
  /\ pc = "entry" /\ todo = <<>>
  /\ pc' = "pop" /\ stack' = stack \o children /\ children' = <<>>
  /\ UNCHANGED <<checkoutVars, nested, cwd, todo, entriesSeen, stop, fileVars, outVars>>

Descend ==
  /\ pc = "entry" /\ todo = <<>>
  /\ pc' = "pop" /\ stack' = stack \o Reverse(children) /\ children' = <<>>
  /\ UNCHANGED <<checkoutVars, nested, cwd, todo, entriesSeen, stop, fileVars, outVars>>

\* Mutant: the mount table is read once.
SealUnchecked ==
  /\ pc = "pop" /\ (stack = <<>> \/ stop)
  /\ pc' = "ready"
  /\ UNCHANGED <<checkoutVars, walkVars, fileVars, outVars>>

\* create(), line 145: the mount table is read again before the snapshot is used.
Seal ==
  /\ pc = "pop" /\ (stack = <<>> \/ stop)
  /\ pc' = IF mounts = nested THEN "ready" ELSE "failed"
  /\ UNCHANGED <<checkoutVars, walkVars, fileVars, outVars>>

---------------------------------------------------------------------------
(* One file: _copy_regular_file *)

\* Mutant: a file that grows is held to its own limit only.
MaxBytesOfOne == MaxFileBytes

MaxBytes == Least(MaxFileBytes, MaxTotalBytes - totalBytes)

Abandon == pc' = "discard" /\ UNCHANGED disk

\* A link is refused by O_NOFOLLOW; a directory can be opened.
OpenSource ==
  /\ pc = "open"
  /\ IF Contained(Path) THEN pc' = "fstat" /\ fd' = tree[Path]
                        ELSE pc' = "discard" /\ UNCHANGED fd
  /\ UNCHANGED <<checkoutVars, walkVars, expected, actual, racy, outVars>>

StatSource ==
  /\ pc = "fstat"
  /\ pc' = "stat" /\ actual' = Stat(fd)
  /\ UNCHANGED <<checkoutVars, walkVars, expected, fd, racy, outVars>>

\* The three descriptions of the file must agree before a byte is read.
Same ==
  /\ actual.kind = "file" /\ Kind(Path) = "file"
  /\ {expected.links, actual.links, Stat(tree[Path]).links} = {1}
  /\ expected.ino = actual.ino /\ actual.ino = tree[Path]
  /\ expected.size = actual.size

\* The copy is created, by O_EXCL; nothing has its name.
Created(p) == [q \in {p} \cup DOMAIN disk |-> IF q = p THEN <<>> ELSE disk[q]]

CompareSource ==
  /\ pc = "stat"
  /\ IF Same THEN pc' = "read" /\ disk' = Created(Path) ELSE Abandon
  /\ UNCHANGED <<checkoutVars, walkVars, fileVars, made, records, countVars, complete>>

ReadChunk ==
  LET n == Len(disk[Path]) + 1 IN
  /\ pc = "read" /\ n <= Len(node[fd].blocks)
  /\ IF n > MaxBytes THEN Abandon
     ELSE /\ disk' = [disk EXCEPT ![Path] = Append(@, node[fd].blocks[n])]
          /\ UNCHANGED pc
  /\ UNCHANGED <<checkoutVars, walkVars, fileVars, made, records, countVars, complete>>

\* Mutant: the loop reads until it has the size first seen.
ReadEndsAtSize ==
  /\ pc = "read" /\ Len(disk[Path]) >= actual.size
  /\ pc' = "final"
  /\ UNCHANGED <<checkoutVars, walkVars, fileVars, outVars>>

ReadEnds ==
  /\ pc = "read" /\ Len(disk[Path]) >= Len(node[fd].blocks)
  /\ pc' = "final"
  /\ UNCHANGED <<checkoutVars, walkVars, fileVars, outVars>>

\* Mutant: the modification time is not compared.
UnchangedInSize ==
  /\ Stat(fd).links = actual.links
  /\ Stat(fd).size = actual.size

\* Whatever a write to the file must have changed is as it was.
Unchanged ==
  LET final == Stat(fd) IN
  /\ final.links = actual.links
  /\ final.size = actual.size /\ final.mtime = actual.mtime

CloseFile == fd' = NoFile /\ racy' = FALSE /\ expected' = NoStat /\ actual' = NoStat

\* Mutant: the size first seen is counted, not the bytes copied.
CheckSourceBySize ==
  /\ pc = "final"
  /\ IF Unchanged /\ Contained(Path)
       THEN /\ pc' = "entry" /\ todo' = Tail(todo) /\ CloseFile
            /\ files' = files + 1 /\ totalBytes' = totalBytes + expected.size
            /\ records' = Append(records, Record("F", Path, disk[Path]))
       ELSE pc' = "discard" /\ UNCHANGED <<todo, fileVars, files, totalBytes, records>>
  /\ UNCHANGED <<checkoutVars, nested, stack, cwd, children, entriesSeen, stop,
                 disk, made, directories, complete>>

CheckSource ==
  /\ pc = "final"
  /\ IF Unchanged /\ Contained(Path)
       THEN /\ pc' = "entry" /\ todo' = Tail(todo) /\ CloseFile
            /\ files' = files + 1 /\ totalBytes' = totalBytes + Len(disk[Path])
            /\ records' = Append(records, Record("F", Path, disk[Path]))
       ELSE pc' = "discard" /\ UNCHANGED <<todo, fileVars, files, totalBytes, records>>
  /\ UNCHANGED <<checkoutVars, nested, stack, cwd, children, entriesSeen, stop,
                 disk, made, directories, complete>>

\* A system call on the source or the copy fails.
CopyFails ==
  /\ pc \in {"open", "fstat", "stat", "read", "final"}
  /\ pc' = "discard"
  /\ UNCHANGED <<checkoutVars, walkVars, fileVars, outVars>>

\* The finally block: the copy is unlinked, if that succeeds; then omit().
Discard ==
  /\ pc = "discard"
  /\ pc' = "entry" /\ todo' = Tail(todo) /\ CloseFile
  /\ Omit(Path, TRUE)
  /\ \/ disk' = [p \in DOMAIN disk \ {Path} |-> disk[p]]
     \/ UNCHANGED disk
  /\ UNCHANGED <<checkoutVars, nested, stack, cwd, children, entriesSeen, stop,
                 made, countVars>>

Advance ==
  \/ Pop \/ Scan \/ ScanFails \/ Skip \/ Stop \/ MakeDirectory \/ BeginCopy
  \/ Descend \/ Seal
  \/ OpenSource \/ StatSource \/ CompareSource \/ ReadChunk \/ ReadEnds
  \/ CheckSource \/ Discard

Next == Advance \/ CopyFails \/ Environment

Spec == Init /\ [][Next]_vars

\* The thread of the copy is scheduled.  No call on the files of a copy is bound
\* to fail, and the other programs owe nothing.
FairSpec == Spec /\ WF_vars(Advance)

---------------------------------------------------------------------------
(* What must hold *)

Recorded(tag) == {n \in DOMAIN records : records[n].tag = tag}
PathsOf(tag) == {records[n].path : n \in Recorded(tag)}
Bytes(N) == FoldSet(LAMBDA n, sum : sum + Len(records[n].content), 0, N)

\* The values the variables take, and the counters against what they count.
TypeOK ==
  /\ DOMAIN tree \subseteq Paths /\ <<>> \in DOMAIN tree
  /\ \A p \in DOMAIN tree : tree[p] \in DOMAIN node
  /\ \A i \in DOMAIN node : node[i].kind \in Kinds /\ node[i].mtime \in 0 .. MaxClock
  /\ pc \in {"pop", "scan", "entry", "open", "fstat", "stat", "read", "final",
              "discard", "ready", "failed"}
  /\ \A n \in DOMAIN stack : stack[n] \in made
  /\ \A n \in DOMAIN todo : todo[n].path \in Paths /\ Front(todo[n].path) = cwd
  /\ DOMAIN disk \subseteq Paths /\ made \subseteq Paths
  /\ files = Cardinality(Recorded("F")) /\ totalBytes = Bytes(Recorded("F"))
  /\ directories = Cardinality(made)

\* A snapshot that calls itself complete holds everything that stood still: each
\* path no change concerned, outside what is withheld as credential-like, is a
\* directory of the snapshot or a file of it with the same blocks (complete).
CompleteMeansAll ==
  pc = "ready" /\ complete =>
    \A p \in DOMAIN tree \ touched :
      (\A k \in 1 .. Len(p) : SubSeq(p, 1, k) \notin Sensitive) =>
        \/ Kind(p) = "dir" /\ p \in made
        \/ /\ Kind(p) = "file" /\ p \in DOMAIN disk
           /\ disk[p] = node[tree[p]].blocks

\* "Bind every exclusion into the snapshot identity", line 304: unless a budget
\* stopped the walk, the digest has a record of each entry that stood still in a
\* directory that was walked, whether it was copied or not.
EveryEntryIsBound ==
  pc = "ready" /\ ~stop =>
    \A p \in DOMAIN tree \ (touched \cup {<<>>}) :
      Front(p) \in made \ PathsOf("O") =>
        p \in PathsOf("F") \cup PathsOf("D") \cup PathsOf("O")

\* The digest describes the tree that is mounted: between two copies the records
\* name each directory and each file of the snapshot once, with its blocks.  The
\* one exception is a failed copy that could not be removed, of a path recorded
\* as omitted in a snapshot that is not complete.
RecordsMatchDisk ==
  pc \in {"pop", "entry", "ready"} =>
    /\ Cardinality(Recorded("F")) = Cardinality(PathsOf("F"))
    /\ Cardinality(Recorded("D")) = Cardinality(PathsOf("D"))
    /\ made = PathsOf("D") \cup {<<>>}
    /\ \A n \in Recorded("F") :
         records[n].path \in DOMAIN disk /\ disk[records[n].path] = records[n].content
    /\ \A p \in DOMAIN disk \ PathsOf("F") : p \in PathsOf("O") /\ ~complete

\* A file enters the digest with the blocks it has at that moment, never a
\* mixture of two contents, unless it was written in place while it was read and
\* within the clock tick of the modification time first seen (line 472).
WholeFilesOnly ==
  [][ \A n \in DOMAIN records' \ DOMAIN records :
        records'[n].tag = "F" => racy \/ records'[n].content = node[fd].blocks ]_vars

\* The limits hold at every step, for what is being written too, however the
\* files grow after they were measured.
BudgetsHold ==
  /\ entriesSeen <= MaxFiles + MaxDirectories
  /\ files <= MaxFiles /\ directories <= MaxDirectories
  /\ \A p \in made : Len(p) <= MaxDepth
  /\ \A p \in DOMAIN disk : Len(disk[p]) <= MaxFileBytes
  /\ totalBytes <= MaxTotalBytes
  /\ pc \in {"read", "final"} => totalBytes + Len(disk[Path]) <= MaxTotalBytes

\* p comes before q in the order of the names from the root down.
Precedes(p, q) ==
  \/ IsStrictPrefix(p, q)
  \/ \E n \in 1 .. Least(Len(p), Len(q)) :
       SubSeq(p, 1, n - 1) = SubSeq(q, 1, n - 1) /\ p[n] < q[n]

\* The digest of a tree does not depend on the order scandir answers in: what is
\* copied is recorded directory by directory, in the order of the names.
OrderIsStable ==
  \A m, n \in Recorded("F") \cup Recorded("D") :
    m < n =>
      LET p == records[m].path
          q == records[n].path
      IN  IF Front(p) = Front(q) THEN Last(p) < Last(q) ELSE Precedes(Front(p), Front(q))

\* The digest is a faithful name of the copy: complete about the checkout, true
\* of the disk and independent of the order of the directories.
DigestIsFaithful == EveryEntryIsBound /\ RecordsMatchDisk /\ OrderIsStable

\* Nothing under a mount point is in a snapshot that is used, whenever during the
\* walk it was mounted (lines 135, 145).
MountsStayClosed ==
  pc = "ready" =>
    \A m \in mounts : Below(m) \cap (DOMAIN disk \cup made) = {}

\* The copy ends however the checkout changes: a file that shrinks, grows or goes
\* while it is read does not hold it.
Finishes == <>(pc \in {"ready", "failed"})
=============================================================================
