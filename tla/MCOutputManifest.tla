-------------------------- MODULE MCOutputManifest --------------------------
(* A root, two names in it and a name below the first; an empty output and  *)
(* one that already holds a file and a directory.                           *)
EXTENDS OutputManifest

MCPaths == {<<>>, <<1>>, <<2>>, <<1, 1>>, <<1, 1, 1>>}
Dir == [kind |-> "dir", size |-> 1, mtime |-> 0]
File(size) == [kind |-> "file", size |-> size, mtime |-> 0]
Special(kind) == [kind |-> kind, size |-> 1, mtime |-> 0]
MCTrees ==
  {<<>> :> Dir,
   (<<>> :> Dir) @@ (<<1>> :> Dir) @@ (<<1, 1>> :> File(1)) @@ (<<2>> :> File(2)),
   (<<>> :> Dir) @@ (<<1>> :> Special("link")),
   (<<>> :> Dir) @@ (<<1>> :> Dir) @@ (<<1, 1>> :> Dir) @@ (<<2>> :> File(1))}
=============================================================================
