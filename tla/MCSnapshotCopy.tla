--------------------------- MODULE MCSnapshotCopy ---------------------------
(***************************************************************************)
(* Instances of SnapshotCopy for TLC.                                      *)
(***************************************************************************)
EXTENDS SnapshotCopy

\* Directories 1 and 2 with entries below; a file may stand in their place, or
\* be 7.  Name 3 is not portable, 4 is metadata, 5 an ignored directory, and 6 a
\* credential.
MCPaths ==
  {<<>>, <<1>>, <<2>>, <<3>>, <<4>>, <<5>>, <<6>>, <<7>>, <<1, 1>>, <<1, 2>>, <<2, 1>>}
MCVolatile == {<<1>>, <<1, 1>>, <<2>>}
MCUnportable == {3}
MCMetadata == {4}
MCIgnored == {4, 5}
MCSensitive == {<<6>>}

Dirs(P) == [p \in P |-> "dir"]
Files(P) == [p \in P |-> "file"]
Checkout(kinds, sizes, mounted, twice, most) ==
  [kind |-> (<<>> :> "dir") @@ kinds,
   size |-> [p \in {<<>>} \cup DOMAIN kinds |->
               IF p \in DOMAIN sizes THEN sizes[p] ELSE 0],
   mounts |-> mounted, linked |-> twice, changes |-> most]

MCTrees ==
  { \* one that changes most: its bytes are just within the limits
    Checkout(Dirs({<<1>>}) @@ Files({<<1, 1>>, <<2>>}),
             (<<1, 1>> :> 2) @@ (<<2>> :> 1), {}, {}, 2),
    \* what is excluded by name, by kind, by its links or by a mount
    Checkout(Dirs({<<5>>}) @@ Files({<<3>>, <<4>>, <<6>>}), <<>>, {}, {}, 0),
    Checkout(Dirs({<<1>>}) @@ Files({<<2>>}) @@ (<<1, 1>> :> "link")
               @@ (<<1, 2>> :> "special"), <<2>> :> 1, {}, {<<2>>}, 1),
    Checkout(Dirs({<<1>>}) @@ Files({<<1, 1>>, <<2>>}), <<2>> :> 1, {<<1>>}, {}, 1),
    \* too deep, too many directories, more than one with files
    Checkout(Dirs({<<1>>, <<2>>, <<7>>, <<1, 1>>}) @@ Files({<<1, 2>>, <<2, 1>>}),
             <<1, 2>> :> 1, {}, {}, 1),
    \* too many entries, in the root and below it
    Checkout(Files({<<1>>, <<2>>, <<3>>, <<6>>, <<7>>}), <<>>, {}, {}, 0),
    Checkout(Dirs({<<1>>}) @@ Files({<<1, 1>>, <<1, 2>>, <<2>>, <<7>>}), <<>>, {}, {}, 0),
    \* too many files, too many bytes, a file too long
    Checkout(Files({<<1>>, <<2>>, <<7>>}), <<1>> :> 1, {}, {}, 1),
    Checkout(Files({<<1>>, <<2>>}), (<<1>> :> 2) @@ (<<2>> :> 2), {}, {}, 1),
    Checkout(Files({<<1>>, <<2>>}), <<1>> :> 4, {}, {}, 1) }
=============================================================================
