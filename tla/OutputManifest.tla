--------------------------- MODULE OutputManifest ---------------------------
(***************************************************************************)
(* The inventory of an output child before and after a run, taken name by  *)
(* name while a container that could not be removed may go on writing, and *)
(* the difference of the two.  The source is                               *)
(* src/src/r_sandbox/tools/runtime_observer/manifest.py, called by         *)
(* _run_snapshot in src/src/r_sandbox/agent/orchestrator.py and, for the   *)
(* second scan alone, by the output monitor.                               *)
(*                                                                         *)
(* A path is the sequence of its names below the root.  The metadata of a  *)
(* file is its size and the number of the change that wrote it, in place   *)
(* of its mtime: a writer that restores size and mtime is not seen.  Every *)
(* system call is a step.  What a link leads to is not modelled: a call    *)
(* that goes through one may find anything, or nothing.  A directory with  *)
(* something in it is renamed by renaming its files, one after the other.  *)
(* Left out: hashing, which no caller asks for, the root's own kind, and a *)
(* directory that is removed and made again while it is listed, which is   *)
(* taken for the same.                                                     *)
(***************************************************************************)
EXTENDS Integers, FiniteSets, FiniteSetsExt, SequencesExt

CONSTANTS
  Paths,         \* the paths an output may come to have, <<>> among them
  Sizes,         \* the sizes of files
  Trees,         \* the outputs a run may start from
  MaxFiles, MaxDirectories, MaxTotalBytes, MaxDepth,
  MaxChanges     \* bound on the changes by the run and after it

ASSUME PathsAssumption ==
  /\ Paths \subseteq Seq(Nat) /\ <<>> \in Paths
  /\ \A p \in Paths : p # <<>> => Front(p) \in Paths
ASSUME LimitsAssumption ==
  /\ Sizes \subseteq Nat
  /\ \E largest \in Sizes : \A size \in Sizes : size <= largest
  /\ {MaxFiles, MaxDirectories, MaxTotalBytes, MaxDepth, MaxChanges} \subseteq Nat

Kinds == {"dir", "file", "link", "special"}
NodeType == [kind : Kinds, size : Sizes, mtime : 0 .. MaxChanges]

ASSUME TreesAssumption ==
  \A t \in Trees :
    /\ DOMAIN t \subseteq Paths /\ t \in [DOMAIN t -> NodeType]
    /\ <<>> \in DOMAIN t /\ t[<<>>].kind = "dir"
    /\ \A p \in DOMAIN t : \A n \in 0 .. Len(p) - 1 :
         SubSeq(p, 1, n) \in DOMAIN t /\ t[SubSeq(p, 1, n)].kind = "dir"

ASSUME TreesAreFinite == \A t \in Trees : IsFiniteSet(DOMAIN t)

VARIABLES
  tree, start,   \* the output, a node for each path that exists: now, and
                 \* before the run
  changes,       \* how many changes were made
  phase,         \* "before", "run", "after" or "done"
  pc,            \* the statement of the scan
  stack,         \* the directories _scan_directory is in, innermost last
  budget,        \* _ManifestBudget
  entries,       \* the entries of the scan
  manifest,      \* the inventory taken before the run
  outcome,       \* how the scan that ended last ended
  touched, seen  \* history of the scan: the paths changed beside it, and every
                 \* node as it was at some time of it

vars == <<tree, start, changes, phase, pc, stack, budget, entries, manifest, outcome,
          touched, seen>>

Files(t) == {p \in DOMAIN t : t[p].kind = "file"}
FilesOf(t) == [p \in Files(t) |-> t[p]]
AsPairs(f) == {<<p, f[p]>> : p \in DOMAIN f}
NamesAmong(paths, d) == {Last(p) : p \in {q \in paths : q # <<>> /\ Front(q) = d}}
Names(t, d) == NamesAmong(DOMAIN t, d)
Empty == [p \in {} |-> 0]
\* f with the value x at p.
With(f, p, x) == [q \in DOMAIN f \cup {p} |-> IF q = p THEN x ELSE f[q]]

\* dir: the path; names: those in it when it was opened; stable: those of them
\* that stayed, and must be returned; listed: those the iterator returned.
FrameType ==
  {f \in [dir : Paths, names : SUBSET Nat, stable : SUBSET Nat, listed : SUBSET Nat] :
     \A n \in f.names : Append(f.dir, n) \in Paths}
ListingOf(f) == DOMAIN f \subseteq Paths /\ f \in [DOMAIN f -> NodeType]

\* The variables have their types, and neither the recursion of _scan_directory
\* nor its counters get further than one step past their limits, whatever is
\* built beside it (enter_directory, add_entry).
TypeOK ==
  /\ ListingOf(tree) /\ start \in Trees
  /\ ListingOf(entries) /\ ListingOf(manifest)
  /\ changes \in 0 .. MaxChanges
  /\ phase \in {"before", "run", "after", "done"}
  /\ pc \in {"enter", "open", "iterate", "idle"}
  /\ stack \in Seq(FrameType) /\ Len(stack) <= MaxDepth + 2
  /\ budget \in [files : 0 .. MaxFiles + 1, directories : 0 .. MaxDirectories + 1,
                 bytes : 0 .. MaxTotalBytes + Max(Sizes)]
  /\ outcome \in {"none", "ok", "limit", "unsafe"}
  /\ touched \subseteq Paths

Fresh(d) == [dir |-> d, names |-> {}, stable |-> {}, listed |-> {}]
NoBudget == [files |-> 0, directories |-> 0, bytes |-> 0]

Init ==
  /\ tree \in Trees /\ start = tree /\ changes = 0 /\ phase = "before"
  /\ pc = "enter" /\ stack = <<Fresh(<<>>)>>
  /\ budget = NoBudget /\ entries = Empty /\ manifest = Empty
  /\ outcome = "none" /\ touched = {} /\ seen = AsPairs(tree)

-----------------------------------------------------------------------------
(* The scan.                                                               *)

Cwd == stack[Len(stack)].dir

\* A system call on the path follows the links above its last name; scandir and
\* resolve follow the last one, too.
IsLink(p) == p \in DOMAIN tree /\ tree[p].kind = "link"
Behind(p) == \E n \in 1 .. Len(p) - 1 : IsLink(SubSeq(p, 1, n))
Followed(p) == IsLink(p) \/ Behind(p)

Ends(how) ==
  /\ pc' = "idle" /\ outcome' = how /\ stack' = <<>>
  /\ phase' = IF phase = "before" /\ how = "ok" THEN "run" ELSE "done"
  /\ manifest' = IF phase = "before" THEN entries ELSE manifest

\* Mutant: the depth is not bounded.
NeverTooDeep == FALSE
TooDeep == Len(stack) - 1 > MaxDepth

\* budget.enter_directory, and _contained, which resolves the path: it is gone, or
\* it is there; a link leads out of the root, or nowhere, or to a place inside.
Enter ==
  LET directories == budget.directories + 1 IN
  /\ pc = "enter"
  /\ IF TooDeep THEN Ends("limit") /\ UNCHANGED budget
     ELSE /\ budget' = [budget EXCEPT !.directories = directories]
          /\ IF directories > MaxDirectories THEN Ends("limit")
             ELSE \/ /\ Cwd \in DOMAIN tree \/ Followed(Cwd)
                     /\ pc' = "open" /\ UNCHANGED <<stack, phase, manifest, outcome>>
                  \/ /\ Cwd \notin DOMAIN tree \/ Followed(Cwd)
                     /\ Ends("unsafe")
  /\ UNCHANGED <<tree, start, changes, entries, touched, seen>>

Iterates(names, stable) ==
  /\ pc' = "iterate"
  /\ stack' = [stack EXCEPT ![Len(stack)].names = names, ![Len(stack)].stable = stable]
  /\ UNCHANGED <<phase, manifest, outcome>>
IsDirectory(p) == p \in DOMAIN tree /\ tree[p].kind = "dir"

\* os.scandir: it raises if the directory is gone or no longer one, unless a link
\* in its place, or above it, leads to another directory.
Open ==
  /\ pc = "open"
  /\ \/ IsDirectory(Cwd) /\ Iterates(Names(tree, Cwd), Names(tree, Cwd))
     \/ Followed(Cwd) /\ Iterates(NamesAmong(Paths, Cwd), {})
     \/ ~IsDirectory(Cwd) /\ Ends("unsafe")
  /\ UNCHANGED <<tree, start, changes, budget, entries, touched, seen>>

\* Mutant: the first file's bytes are not counted.
CountedLate(size) ==
  [budget EXCEPT !.files = @ + 1, !.bytes = @ + (IF budget.files = 0 THEN 0 ELSE size)]
\* What add_entry counts.
Counted(size) ==
  [budget EXCEPT !.files = @ + 1, !.bytes = @ + size]
OverBudget(b) == b.files > MaxFiles \/ b.bytes > MaxTotalBytes

\* Mutant: a link at the path itself is followed, too.
FoundByStat(p) == IF Followed(p) THEN NodeType ELSE {tree[q] : q \in {p} \cap DOMAIN tree}
\* What lstat may find at the path, if anything.
Found(p) == IF Behind(p) THEN NodeType ELSE {tree[q] : q \in {p} \cap DOMAIN tree}

\* The iterator returns every name that was there all the time, and perhaps
\* names that came or went since; lstat then says what the name is, or raises.
Entry ==
  LET frame == stack[Len(stack)] IN
  /\ pc = "iterate"
  /\ \E n \in (frame.names \cup Names(tree, frame.dir)) \ frame.listed :
       LET p == Append(frame.dir, n)
           iterated == [stack EXCEPT ![Len(stack)].listed = @ \cup {n}] IN
       \/ /\ Found(p) = {} \/ \E x \in Found(p) : x.kind \in {"link", "special"}
          /\ Ends("unsafe") /\ UNCHANGED <<budget, entries>>
       \/ /\ \E x \in Found(p) : x.kind = "dir"
          /\ pc' = "enter" /\ stack' = Append(iterated, Fresh(p))
          /\ UNCHANGED <<phase, manifest, outcome, budget, entries>>
       \/ \E x \in Found(p) :
            /\ x.kind = "file" /\ budget' = Counted(x.size)
            /\ IF OverBudget(budget')
               THEN Ends("limit") /\ UNCHANGED entries
               ELSE /\ entries' = With(entries, p, x) /\ stack' = iterated
                    /\ UNCHANGED <<pc, phase, manifest, outcome>>
  /\ UNCHANGED <<tree, start, changes, touched, seen>>

\* The directory is exhausted.
Return ==
  /\ pc = "iterate"
  /\ stack[Len(stack)].stable \subseteq stack[Len(stack)].listed
  /\ IF Len(stack) = 1 THEN Ends("ok")
     ELSE stack' = Front(stack) /\ UNCHANGED <<pc, phase, manifest, outcome>>
  /\ UNCHANGED <<tree, start, changes, budget, entries, touched, seen>>

\* The run is over, as far as its supervisor can tell: the second scan starts.
Rescan ==
  /\ phase = "run" /\ phase' = "after"
  /\ pc' = "enter" /\ stack' = <<Fresh(<<>>)>>
  /\ budget' = NoBudget /\ entries' = Empty /\ outcome' = "none"
  /\ touched' = {} /\ seen' = AsPairs(tree)
  /\ UNCHANGED <<tree, start, changes, manifest>>

Scan == Enter \/ Open \/ Entry \/ Return \/ Rescan

-----------------------------------------------------------------------------
(* The target, and what is left of it.                                     *)

Writable(p) == p # <<>> /\ p \in Paths /\ Front(p) \in DOMAIN tree /\ tree[Front(p)].kind = "dir"
Without(p) == [q \in DOMAIN tree \ {p} |-> tree[q]]
Node(kind, size) == [kind |-> kind, size |-> size, mtime |-> changes + 1]

\* A name that was removed may be returned or not, even if it is made again.
Unstable(gone) ==
  [i \in DOMAIN stack |->
     [stack[i] EXCEPT !.stable = @ \ {Last(p) : p \in {q \in gone : Front(q) = stack[i].dir}}]]
Change(t, which, gone) ==
  /\ phase \in {"run", "after"} /\ changes < MaxChanges
  /\ changes' = changes + 1 /\ tree' = t
  /\ touched' = touched \cup which
  /\ seen' = seen \cup AsPairs(t)
  /\ stack' = Unstable(gone)
  /\ UNCHANGED <<start, phase, pc, budget, entries, manifest, outcome>>

Create(p) ==
  /\ Writable(p) /\ p \notin DOMAIN tree
  /\ \E kind \in Kinds, size \in Sizes :
       /\ kind # "file" => size = Min(Sizes)
       /\ Change(With(tree, p, Node(kind, size)), {p}, {})
Rewrite(p) ==
  /\ p \in Files(tree)
  /\ \E size \in Sizes : Change([tree EXCEPT ![p] = Node("file", size)], {p}, {})
Delete(p) ==
  /\ p \in DOMAIN tree \ {<<>>} /\ Names(tree, p) = {}
  /\ Change(Without(p), {p}, {p})
\* rename keeps the metadata of the file.
Rename(p, q) ==
  /\ p \in Files(tree) /\ Writable(q) /\ q # p
  /\ q \in DOMAIN tree => tree[q].kind # "dir"
  /\ Change(With(Without(p), q, tree[p]), {p, q}, {p, q})

Writer ==
  \/ \E p \in Paths : Create(p) \/ Rewrite(p) \/ Delete(p)
  \/ \E p, q \in Paths : Rename(p, q)

Next == Scan \/ Writer

Spec == Init /\ [][Next]_vars

-----------------------------------------------------------------------------
(* What the inventories are good for.                                      *)

\* diff_output_manifests of the two inventories.
Created(before, after) == DOMAIN after \ DOMAIN before
Deleted(before, after) == DOMAIN before \ DOMAIN after
\* Mutant: only the sizes are compared.
ModifiedBySize(before, after) ==
  {p \in DOMAIN before \cap DOMAIN after : before[p].size # after[p].size}
Modified(before, after) ==
  {p \in DOMAIN before \cap DOMAIN after : before[p] # after[p]}

Bytes(f) == MapThenSumSet(LAMBDA p : f[p].size, DOMAIN f)
Directories(t) == {p \in DOMAIN t : t[p].kind = "dir"}
Acceptable(t) ==
  /\ \A p \in DOMAIN t : t[p].kind \in {"file", "dir"}
  /\ \A p \in Directories(t) : Len(p) <= MaxDepth
  /\ Cardinality(Directories(t)) <= MaxDirectories
  /\ Cardinality(Files(t)) <= MaxFiles /\ Bytes(FilesOf(t)) <= MaxTotalBytes

\* The part of the output that nobody touched since the scan began.
Quiet(p) == \A n \in 0 .. Len(p) : SubSeq(p, 1, n) \notin touched
Untouched == {p \in DOMAIN tree : Quiet(p)}

\* The path was below a link at some time of the scan.
WasBehind(p) ==
  \E n \in 1 .. Len(p) - 1 : \E x \in NodeType : x.kind = "link" /\ <<SubSeq(p, 1, n), x>> \in seen

\* Whatever a container that outlived its run does beside the scan, a scan
\* that succeeds lists every file that was left alone, as it is; it lists
\* nothing that was not there at some time of the scan, but for paths that a
\* link stood above at some time of it, since a directory that becomes a link
\* after its lstat is followed; the untouched part of the output holds no link
\* or special file and is not too deep; and what is listed keeps the limits.
\* With nobody beside it, the scan succeeds exactly if the output is acceptable
\* (capture_output_manifest and _scan_directory).
ListingIsFaithful ==
  pc = "idle" =>
    /\ outcome = "ok" =>
         /\ \A p \in Untouched : CASE tree[p].kind = "file" -> p \in DOMAIN entries /\ entries[p] = tree[p]
                                 [] tree[p].kind = "dir" -> Len(p) <= MaxDepth
                                 [] OTHER -> FALSE
         /\ \A p \in DOMAIN entries : <<p, entries[p]>> \in seen \/ WasBehind(p)
         /\ Cardinality(DOMAIN entries) <= MaxFiles /\ Bytes(entries) <= MaxTotalBytes
    /\ touched = {} => (outcome = "ok" <=> Acceptable(tree))

\* What the report says of a path that nothing touched during the second scan
\* is what became of it: created, deleted and modified files are told apart,
\* and a file that only kept its size does not pass for the same
\* (diff_output_manifests on the two inventories).
DiffIsExact ==
  (phase = "done" /\ outcome = "ok") =>
    \A p \in Paths : Quiet(p) =>
      /\ p \in Created(manifest, entries) <=> p \in Files(tree) \ Files(start)
      /\ p \in Deleted(manifest, entries) <=> p \in Files(start) \ Files(tree)
      /\ p \in Modified(manifest, entries) <=>
           p \in Files(start) \cap Files(tree) /\ start[p] # tree[p]
=============================================================================
