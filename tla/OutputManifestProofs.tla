------------------------ MODULE OutputManifestProofs ------------------------
(***************************************************************************)
(* Proofs about OutputManifest: whatever writes to the output beside the   *)
(* scans and between them, the difference of the two inventories is exact  *)
(* about every path that nothing touched during the second scan, and a     *)
(* scan that ends well has listed what was left alone, no more than there  *)
(* was but for what was below a link, within the limits.                   *)
(***************************************************************************)
EXTENDS OutputManifest, InductionProofs, FiniteSetTheorems, SequenceTheorems, TLAPS

\* What is left of the limits at each statement of the scan.
LimitInv ==
  /\ pc # "idle" => budget.files <= MaxFiles /\ budget.bytes <= MaxTotalBytes
  /\ pc \in {"enter", "open", "iterate"} => budget.directories <= MaxDirectories
  /\ pc \in {"open", "iterate"} => Len(stack) <= MaxDepth + 1

\* The output is a tree of directories with a root.
IsTree(t) ==
  /\ ListingOf(t) /\ <<>> \in DOMAIN t /\ t[<<>>].kind = "dir"
  /\ \A p \in DOMAIN t : \A n \in 0 .. Len(p) - 1 :
       SubSeq(p, 1, n) \in DOMAIN t /\ t[SubSeq(p, 1, n)].kind = "dir"
TreeInv == IsTree(tree)

\* Which scan runs, and what is known when it is over.
PhaseInv ==
  /\ pc = "idle" => phase \in {"run", "done"} /\ stack = <<>>
  /\ pc # "idle" => phase \in {"before", "after"} /\ outcome = "none" /\ stack # <<>>
  /\ phase = "run" => outcome = "ok"
  /\ phase = "before" => tree = start /\ touched = {}

\* A directory that was not opened has returned nothing; one that was has to return
\* each quiet name that is in it.  One that is quiet is a directory, and no link.
Opened(i) == i < Len(stack) \/ pc = "iterate"
StackInv ==
  \A i \in DOMAIN stack :
    /\ Quiet(stack[i].dir) => IsDirectory(stack[i].dir)
    /\ ~Opened(i) => stack[i].listed = {}
    /\ Opened(i) => \A n \in Nat :
         LET p == Append(stack[i].dir, n) IN
         p \in DOMAIN tree /\ Quiet(p) => n \in stack[i].stable

\* The frame will come to the path.
Ahead(p, frame) ==
  /\ Len(frame.dir) < Len(p) /\ SubSeq(p, 1, Len(frame.dir)) = frame.dir
  /\ p[Len(frame.dir) + 1] \notin frame.listed

\* Each quiet file was listed or is ahead, and what was listed and is quiet is a file.
CoverInv ==
  /\ pc # "idle" \/ outcome = "ok" =>
       \A p \in Files(tree) :
         Quiet(p) => p \in DOMAIN entries \/ \E i \in DOMAIN stack : Ahead(p, stack[i])
  /\ \A p \in DOMAIN entries :
       Quiet(p) => p \in Files(tree) /\ entries[p] = tree[p]

\* The first inventory is that of the output before the run.
ManifestInv ==
  phase \in {"run", "after"} \/ outcome = "ok" =>
    /\ DOMAIN manifest = Files(start)
    /\ \A p \in Files(start) : manifest[p] = start[p]

ScanInv == TypeOK /\ LimitInv /\ TreeInv /\ PhaseInv /\ StackInv /\ CoverInv /\ ManifestInv

-----------------------------------------------------------------------------
(* Paths *)

LEMMA Limits ==
  /\ MaxFiles \in Nat /\ MaxDirectories \in Nat /\ MaxTotalBytes \in Nat
  /\ MaxDepth \in Nat /\ MaxChanges \in Nat /\ Sizes \subseteq Nat
  /\ Max(Sizes) \in Nat /\ \A size \in Sizes : size <= Max(Sizes)
<1>1. /\ {MaxFiles, MaxDirectories, MaxTotalBytes, MaxDepth, MaxChanges} \subseteq Nat
      /\ Sizes \subseteq Nat /\ \E largest \in Sizes : \A size \in Sizes : size <= largest
  BY LimitsAssumption
<1>2. Max(Sizes) \in Sizes /\ \A size \in Sizes : size <= Max(Sizes)
  <2>1. Max(Sizes) = CHOOSE x \in Sizes : \A y \in Sizes : x >= y
    BY DEF Max
  <2>2. \E x \in Sizes : \A y \in Sizes : x >= y
    BY <1>1
  <2>3. Max(Sizes) \in Sizes /\ \A y \in Sizes : Max(Sizes) >= y
    BY <2>1, <2>2
  <2>4. QED
    BY <1>1, <2>3
<1>3. QED
  BY <1>1, <1>2

LEMMA PathsAreSeqs == \A p \in Paths : p \in Seq(Nat) /\ Len(p) \in Nat
  BY PathsAssumption, LenProperties

LEMMA PrefixFacts ==
  ASSUME NEW p \in Seq(Nat), NEW n \in 0 .. Len(p)
  PROVE  /\ SubSeq(p, 1, n) \in Seq(Nat) /\ Len(SubSeq(p, 1, n)) = n
         /\ \A i \in 1 .. n : SubSeq(p, 1, n)[i] = p[i]
<1> DEFINE q == SubSeq(p, 1, n)
<1>1. n \in Int /\ 1 \in Int /\ \A i \in 1 .. n : p[i] \in Nat
  BY ElementOfSeq, LenProperties
<1>2. /\ q \in Seq(Nat) /\ Len(q) = IF 1 <= n THEN n - 1 + 1 ELSE 0
      /\ \A i \in 1 .. n - 1 + 1 : q[i] = p[1 + i - 1]
  BY <1>1, SubSeqProperties
<1> HIDE DEF q
<1>3. Len(q) = n
  BY <1>1, <1>2
<1>4. \A i \in 1 .. n : q[i] = p[i]
  <2> TAKE i \in 1 .. n
  <2>1. 1 + i - 1 = i /\ i \in 1 .. n - 1 + 1
    BY <1>1
  <2>2. QED
    BY <1>2, <2>1
<1>5. QED
  BY <1>2, <1>3, <1>4 DEF q

LEMMA PrefixOfPrefix ==
  ASSUME NEW p \in Seq(Nat), NEW n \in 0 .. Len(p), NEW i \in 0 .. n
  PROVE  SubSeq(SubSeq(p, 1, n), 1, i) = SubSeq(p, 1, i)
<1>1. Len(p) \in Nat /\ i \in 0 .. Len(p)
  BY LenProperties
<1> DEFINE q == SubSeq(p, 1, n)
<1>2. q \in Seq(Nat) /\ Len(q) = n /\ \A k \in 1 .. n : q[k] = p[k]
  BY PrefixFacts
<1> HIDE DEF q
<1>3. SubSeq(q, 1, i) \in Seq(Nat) /\ Len(SubSeq(q, 1, i)) = i
      /\ \A k \in 1 .. i : SubSeq(q, 1, i)[k] = q[k]
  BY <1>2, PrefixFacts
<1>4. SubSeq(p, 1, i) \in Seq(Nat) /\ Len(SubSeq(p, 1, i)) = i
      /\ \A k \in 1 .. i : SubSeq(p, 1, i)[k] = p[k]
  BY <1>1, PrefixFacts
<1>5. SubSeq(q, 1, i) = SubSeq(p, 1, i)
  BY <1>2, <1>3, <1>4, SeqEqual
<1>6. QED
  BY <1>5 DEF q

\* The prefix that is longer by one name.
LEMMA NextPrefix ==
  ASSUME NEW p \in Seq(Nat), NEW n \in 0 .. Len(p) - 1
  PROVE  /\ p[n + 1] \in Nat
         /\ Append(SubSeq(p, 1, n), p[n + 1]) = SubSeq(p, 1, n + 1)
<1>1. Len(p) \in Nat /\ n \in 0 .. Len(p) /\ n + 1 \in 0 .. Len(p) /\ n + 1 \in 1 .. Len(p)
  BY LenProperties
<1>2. p[n + 1] \in Nat
  BY <1>1, ElementOfSeq
<1> DEFINE q == SubSeq(p, 1, n)
           r == SubSeq(p, 1, n + 1)
<1>3. q \in Seq(Nat) /\ Len(q) = n /\ \A i \in 1 .. n : q[i] = p[i]
  BY <1>1, PrefixFacts
<1>4. r \in Seq(Nat) /\ Len(r) = n + 1 /\ \A i \in 1 .. n + 1 : r[i] = p[i]
  BY <1>1, PrefixFacts
<1> HIDE DEF q, r
<1>5. /\ Append(q, p[n + 1]) \in Seq(Nat) /\ Len(Append(q, p[n + 1])) = n + 1
      /\ \A i \in 1 .. n : Append(q, p[n + 1])[i] = q[i]
      /\ Append(q, p[n + 1])[n + 1] = p[n + 1]
  BY <1>2, <1>3, AppendProperties
<1>6. \A i \in 1 .. n + 1 : Append(q, p[n + 1])[i] = r[i]
  <2> TAKE i \in 1 .. n + 1
  <2>1. CASE i = n + 1
    BY <1>4, <1>5, <2>1
  <2>2. CASE i # n + 1
    <3>1. i \in 1 .. n
      BY <1>1, <2>2
    <3>2. QED
      BY <1>3, <1>4, <1>5, <3>1
  <2>3. QED
    BY <2>1, <2>2
<1>7. Append(q, p[n + 1]) = r
  BY <1>4, <1>5, <1>6, SeqEqual
<1>8. QED
  BY <1>2, <1>7 DEF q, r

\* A name in a directory.
LEMMA ChildFacts ==
  ASSUME NEW d \in Seq(Nat), NEW n \in Nat
  PROVE  /\ Append(d, n) \in Seq(Nat) /\ Len(Append(d, n)) = Len(d) + 1 /\ Append(d, n) # <<>>
         /\ Front(Append(d, n)) = d /\ Last(Append(d, n)) = n
         /\ SubSeq(Append(d, n), 1, Len(d)) = d
<1> DEFINE p == Append(d, n)
<1>1. /\ p \in Seq(Nat) /\ Len(p) = Len(d) + 1 /\ p # <<>> /\ p[Len(d) + 1] = n
      /\ \A i \in 1 .. Len(d) : p[i] = d[i]
  BY AppendProperties
<1>2. Len(d) \in Nat
  BY LenProperties
<1> HIDE DEF p
<1>3. SubSeq(p, 1, Len(d)) = d
  <2>1. Len(d) \in 0 .. Len(p)
    BY <1>1, <1>2
  <2>2. /\ SubSeq(p, 1, Len(d)) \in Seq(Nat) /\ Len(SubSeq(p, 1, Len(d))) = Len(d)
        /\ \A i \in 1 .. Len(d) : SubSeq(p, 1, Len(d))[i] = p[i]
    BY <1>1, <2>1, PrefixFacts
  <2>3. QED
    BY <1>1, <2>2, SeqEqual
<1>4. Front(p) = SubSeq(p, 1, Len(p) - 1) /\ Last(p) = p[Len(p)] /\ Len(p) - 1 = Len(d)
  BY <1>1, <1>2 DEF Front, Last
<1>5. QED
  BY <1>1, <1>3, <1>4 DEF p

\* A path that is not the root is a name in its directory.
LEMMA FrontFacts ==
  ASSUME NEW p \in Seq(Nat), p # <<>>
  PROVE  /\ Front(p) \in Seq(Nat) /\ Last(p) \in Nat /\ Append(Front(p), Last(p)) = p
         /\ Len(Front(p)) = Len(p) - 1 /\ Len(p) - 1 \in Nat
         /\ \A n \in 0 .. Len(p) - 1 : SubSeq(p, 1, n) = SubSeq(Front(p), 1, n)
<1>1. Len(p) \in Nat \ {0}
  BY EmptySeq
<1> DEFINE k == Len(p) - 1
<1>2. k \in Nat /\ k \in 0 .. Len(p) - 1 /\ k \in 0 .. Len(p) /\ k + 1 = Len(p)
  BY <1>1
<1>3. Front(p) = SubSeq(p, 1, k) /\ Last(p) = p[k + 1]
  BY <1>2 DEF Front, Last
<1> HIDE DEF k
<1>4. Append(SubSeq(p, 1, k), p[k + 1]) = p /\ p[k + 1] \in Nat
  BY <1>2, NextPrefix, SubSeqFull
<1>5. SubSeq(p, 1, k) \in Seq(Nat) /\ Len(SubSeq(p, 1, k)) = k
  BY <1>2, PrefixFacts
<1>6. \A n \in 0 .. k : SubSeq(p, 1, n) = SubSeq(SubSeq(p, 1, k), 1, n)
  BY <1>2, PrefixOfPrefix
<1>7. QED
  BY <1>2, <1>3, <1>4, <1>5, <1>6 DEF k

\* What is above a quiet path is quiet.
LEMMA QuietAbove ==
  ASSUME NEW p \in Seq(Nat), Quiet(p), NEW n \in 0 .. Len(p)
  PROVE  Quiet(SubSeq(p, 1, n))
<1>1. Len(SubSeq(p, 1, n)) = n /\ Len(p) \in Nat
  BY PrefixFacts, LenProperties
<1>2. \A i \in 0 .. n : SubSeq(SubSeq(p, 1, n), 1, i) = SubSeq(p, 1, i) /\ i \in 0 .. Len(p)
  BY <1>1, PrefixOfPrefix
<1>3. QED
  BY <1>1, <1>2 DEF Quiet

LEMMA QuietIsUntouched == ASSUME NEW p \in Seq(Nat), Quiet(p) PROVE p \notin touched
<1>1. Len(p) \in 0 .. Len(p) /\ SubSeq(p, 1, Len(p)) = p
  BY LenProperties, SubSeqFull
<1>2. QED
  BY <1>1 DEF Quiet

LEMMA NamesFacts ==
  ASSUME NEW paths \in SUBSET Paths, NEW d \in Paths
  PROVE  /\ NamesAmong(paths, d) \subseteq Nat
         /\ \A n \in Nat : n \in NamesAmong(paths, d) <=> Append(d, n) \in paths
<1>1. \A q \in paths : q \in Seq(Nat)
  BY PathsAreSeqs
<1>2. \A q \in paths : q # <<>> => Last(q) \in Nat /\ Append(Front(q), Last(q)) = q
  BY <1>1, FrontFacts
<1>3. \A n \in Nat : Append(d, n) # <<>> /\ Front(Append(d, n)) = d /\ Last(Append(d, n)) = n
  BY PathsAreSeqs, ChildFacts
<1>4. QED
  BY <1>2, <1>3 DEF NamesAmong

LEMMA TreeNames ==
  ASSUME ListingOf(tree), NEW d \in Paths
  PROVE  /\ Names(tree, d) \subseteq Nat
         /\ \A n \in Nat : n \in Names(tree, d) <=> Append(d, n) \in DOMAIN tree
<1>1. DOMAIN tree \in SUBSET Paths
  BY DEF ListingOf
<1>2. QED
  BY <1>1, NamesFacts DEF Names

\* What is in the tree is behind no link, and neither is what is in its directories.
LEMMA Physical ==
  ASSUME TreeInv, NEW p \in DOMAIN tree
  PROVE  /\ ~Behind(p) /\ Found(p) = {tree[p]}
         /\ tree[p].kind = "dir" => ~Followed(p) /\ \A n \in Nat : ~Behind(Append(p, n))
<1>1. p \in Seq(Nat) /\ Len(p) \in Nat
  BY PathsAreSeqs DEF TreeInv, IsTree, ListingOf
<1>2. ASSUME NEW i \in 1 .. Len(p) - 1 PROVE ~IsLink(SubSeq(p, 1, i))
  <2>1. i \in 0 .. Len(p) - 1
    BY <1>1
  <2>2. tree[SubSeq(p, 1, i)].kind = "dir"
    BY <2>1 DEF TreeInv, IsTree
  <2>3. QED
    BY <2>2 DEF IsLink
<1>3. ~Behind(p)
  BY <1>2 DEF Behind
<1>4. Found(p) = {tree[p]}
  BY <1>3 DEF Found
<1>5. ASSUME tree[p].kind = "dir", NEW n \in Nat PROVE ~Behind(Append(p, n))
  <2> DEFINE c == Append(p, n)
  <2>1. c \in Seq(Nat) /\ Len(c) = Len(p) + 1 /\ SubSeq(c, 1, Len(p)) = p
    BY <1>1, ChildFacts
  <2> HIDE DEF c
  <2>2. ASSUME NEW i \in 1 .. Len(c) - 1 PROVE ~IsLink(SubSeq(c, 1, i))
    <3>1. CASE i = Len(p)
      BY <1>5, <2>1, <3>1 DEF IsLink
    <3>2. CASE i # Len(p)
      <4>1. i \in 1 .. Len(p) - 1 /\ i \in 0 .. Len(p) /\ Len(p) \in 0 .. Len(c)
        <5>1. Len(p) \in Nat /\ Len(c) = Len(p) + 1
          BY <1>1, <2>1
        <5>2. QED
          BY <3>2, <5>1
      <4>2. SubSeq(c, 1, i) = SubSeq(p, 1, i)
        BY <2>1, <4>1, PrefixOfPrefix
      <4>3. QED
        BY <1>2, <4>1, <4>2
    <3>3. QED
      BY <3>1, <3>2
  <2>3. ~Behind(c)
    BY <2>2 DEF Behind
  <2>4. QED
    BY <2>3 DEF c
<1>6. tree[p].kind = "dir" => ~Followed(p)
  BY <1>3 DEF Followed, IsLink
<1>7. QED
  BY <1>3, <1>4, <1>5, <1>6

LEMMA FoundFacts ==
  ASSUME ListingOf(tree), NEW p, NEW x \in Found(p)
  PROVE  x \in NodeType /\ (Behind(p) \/ (p \in DOMAIN tree /\ x = tree[p]))
<1>1. CASE Behind(p)
  BY <1>1 DEF Found
<1>2. CASE ~Behind(p)
  BY <1>2 DEF Found, ListingOf
<1>3. QED
  BY <1>1, <1>2

LEMMA WithFacts ==
  ASSUME NEW f, ListingOf(f), NEW p \in Paths, NEW x \in NodeType
  PROVE  /\ ListingOf(With(f, p, x)) /\ DOMAIN With(f, p, x) = DOMAIN f \union {p}
         /\ With(f, p, x)[p] = x /\ \A q \in DOMAIN f : q # p => With(f, p, x)[q] = f[q]
  BY DEF ListingOf, With

LEMMA WithoutFacts ==
  ASSUME ListingOf(tree), NEW p
  PROVE  /\ ListingOf(Without(p)) /\ DOMAIN Without(p) = DOMAIN tree \ {p}
         /\ \A q \in DOMAIN tree : q # p => Without(p)[q] = tree[q]
  BY DEF ListingOf, Without

-----------------------------------------------------------------------------
(* Frames *)

LEMMA FrameFields ==
  \A f \in FrameType : /\ f.dir \in Paths /\ f.names \subseteq Nat
                       /\ f.stable \subseteq Nat /\ f.listed \subseteq Nat
                       /\ \A n \in f.names : Append(f.dir, n) \in Paths
  BY DEF FrameType

LEMMA FreshFacts ==
  \A d \in Paths : Fresh(d) \in FrameType /\ Fresh(d).dir = d /\ Fresh(d).listed = {}
                    /\ Fresh(d).names = {}
  BY DEF Fresh, FrameType

\* A directory is opened.
Opening(f, names, stable) == [f EXCEPT !.names = names, !.stable = stable]
LEMMA OpenedFrame ==
  ASSUME NEW f \in FrameType, NEW names \in SUBSET Nat, NEW stable \in SUBSET Nat,
         \A n \in names : Append(f.dir, n) \in Paths
  PROVE  /\ Opening(f, names, stable) \in FrameType /\ Opening(f, names, stable).dir = f.dir
         /\ Opening(f, names, stable).names = names /\ Opening(f, names, stable).stable = stable
         /\ Opening(f, names, stable).listed = f.listed
  BY DEF Opening, FrameType

\* A name is returned.
Listing(f, n) == [f EXCEPT !.listed = @ \union {n}]
LEMMA ListedFrame ==
  ASSUME NEW f \in FrameType, NEW n \in Nat
  PROVE  /\ Listing(f, n) \in FrameType /\ Listing(f, n).dir = f.dir
         /\ Listing(f, n).stable = f.stable /\ Listing(f, n).listed = f.listed \union {n}
         /\ Listing(f, n).names = f.names
  BY DEF Listing, FrameType

\* Names are removed.
Losing(f, names) == [f EXCEPT !.stable = @ \ names]
LEMMA LostFrame ==
  ASSUME NEW f \in FrameType, NEW names
  PROVE  /\ Losing(f, names) \in FrameType /\ Losing(f, names).dir = f.dir
         /\ Losing(f, names).stable = f.stable \ names /\ Losing(f, names).listed = f.listed
  BY DEF Losing, FrameType

\* The innermost frame.
LEMMA TopFrame ==
  ASSUME TypeOK, stack # <<>>
  PROVE  /\ Len(stack) \in Nat \ {0} /\ Len(stack) \in 1 .. Len(stack) /\ DOMAIN stack = 1 .. Len(stack)
         /\ stack[Len(stack)] \in FrameType /\ \A i \in 1 .. Len(stack) : stack[i] \in FrameType
         /\ stack \in Seq(FrameType) /\ Cwd \in Paths
<1>1. stack \in Seq(FrameType)
  BY DEF TypeOK
<1>2. Len(stack) \in Nat \ {0} /\ DOMAIN stack = 1 .. Len(stack)
  BY <1>1, EmptySeq, LenProperties
<1>3. \A i \in 1 .. Len(stack) : stack[i] \in FrameType
  BY <1>1, ElementOfSeq
<1>4. QED
  BY <1>1, <1>2, <1>3, FrameFields DEF Cwd

-----------------------------------------------------------------------------
(* Types and limits *)

BudgetType == [files : 0 .. MaxFiles + 1, directories : 0 .. MaxDirectories + 1,
               bytes : 0 .. MaxTotalBytes + Max(Sizes)]
Types == TypeOK /\ LimitInv /\ (pc # "idle" => stack # <<>>)

\* A scan that ends leaves a state of the right types.
LEMMA TypesAtEnd ==
  ASSUME Types, NEW how \in {"ok", "limit", "unsafe"}, Ends(how), pc # "idle",
         UNCHANGED <<tree, start, changes, touched>>,
         ListingOf(entries'),
         budget' \in [files : 0 .. MaxFiles + 1, directories : 0 .. MaxDirectories + 1,
                      bytes : 0 .. MaxTotalBytes + Max(Sizes)]
  PROVE  Types'
<1>1. stack' \in Seq(FrameType) /\ Len(stack') <= MaxDepth + 2
  BY EmptySeq, Limits DEF Ends
<1>2. phase' \in {"before", "run", "after", "done"} /\ ListingOf(manifest')
  BY DEF Ends, Types, TypeOK
<1>3. TypeOK'
  BY <1>1, <1>2 DEF Ends, Types, TypeOK
<1>4. QED
  BY <1>3 DEF Types, LimitInv, Ends

LEMMA EnterTypes == ASSUME Types, Enter PROVE Types'
<1>1. /\ pc = "enter" /\ stack # <<>> /\ UNCHANGED <<tree, start, changes, entries, touched>>
      /\ budget \in BudgetType /\ ListingOf(entries) /\ budget.directories <= MaxDirectories
      /\ budget.files <= MaxFiles /\ budget.bytes <= MaxTotalBytes
  BY DEF Types, TypeOK, LimitInv, Enter, BudgetType
<1>2. CASE TooDeep
  <2>1. Ends("limit") /\ UNCHANGED budget
    BY <1>2 DEF Enter
  <2>2. QED
    BY <1>1, <2>1, TypesAtEnd DEF BudgetType
<1>3. CASE ~TooDeep
  <2>1. budget' = [budget EXCEPT !.directories = budget.directories + 1]
    BY <1>3 DEF Enter
  <2>2. budget' \in BudgetType /\ budget'.directories = budget.directories + 1
        /\ budget'.files = budget.files /\ budget'.bytes = budget.bytes
    BY <1>1, <2>1, Limits DEF BudgetType
  <2>3. CASE \E how \in {"limit", "unsafe"} : Ends(how)
    BY <1>1, <2>2, <2>3, TypesAtEnd DEF BudgetType
  <2>4. CASE ~\E how \in {"limit", "unsafe"} : Ends(how)
    <3>1. /\ pc' = "open" /\ UNCHANGED <<stack, phase, manifest, outcome>>
          /\ budget.directories + 1 <= MaxDirectories
      BY <1>1, <1>3, <2>4, Limits DEF Enter, BudgetType
    <3>2. TypeOK'
      BY <1>1, <2>2, <3>1 DEF Types, TypeOK, BudgetType
    <3>3. Len(stack) \in Nat /\ Len(stack) <= MaxDepth + 1
      BY <1>1, <1>3, TopFrame, Limits DEF TooDeep, Types
    <3>4. QED
      BY <1>1, <2>2, <3>1, <3>2, <3>3 DEF Types, LimitInv
  <2>5. QED
    BY <2>3, <2>4
<1>4. QED
  BY <1>2, <1>3

\* What the opened frame is given: the names in the directory, or what a link may lead to.
Read(frame) ==
  \/ IsDirectory(Cwd) /\ frame.names = Names(tree, Cwd) /\ frame.stable = Names(tree, Cwd)
  \/ Followed(Cwd) /\ frame.names = NamesAmong(Paths, Cwd) /\ frame.stable = {}

\* What opening a directory does to the frames.
LEMMA OpenFrames ==
  ASSUME Types, Open, ~Ends("unsafe")
  PROVE  /\ pc = "open" /\ pc' = "iterate" /\ stack # <<>>
         /\ UNCHANGED <<phase, manifest, outcome>>
         /\ stack' \in Seq(FrameType) /\ Len(stack') = Len(stack) /\ DOMAIN stack' = DOMAIN stack
         /\ \A i \in 1 .. Len(stack) :
              /\ stack'[i].dir = stack[i].dir /\ stack'[i].listed = stack[i].listed
              /\ i # Len(stack) => /\ stack'[i].stable = stack[i].stable
                                    /\ stack'[i].names = stack[i].names
              /\ i = Len(stack) => Read(stack'[i])
<1>1. pc = "open" /\ stack # <<>> /\ TypeOK /\ ListingOf(tree)
  BY DEF Types, TypeOK, Open
<1> DEFINE k == Len(stack)
<1>2. k \in 1 .. k /\ stack \in Seq(FrameType) /\ stack[k] \in FrameType
      /\ DOMAIN stack = 1 .. k /\ Cwd \in Paths /\ stack[k].dir = Cwd
  BY <1>1, TopFrame DEF Cwd
<1>3. PICK names, stable :
        /\ Iterates(names, stable)
        /\ \/ IsDirectory(Cwd) /\ names = Names(tree, Cwd) /\ stable = Names(tree, Cwd)
           \/ Followed(Cwd) /\ names = NamesAmong(Paths, Cwd) /\ stable = {}
  BY DEF Open
<1>4. /\ names \in SUBSET Nat /\ stable \in SUBSET Nat
      /\ \A n \in names : Append(stack[k].dir, n) \in Paths
  <2>1. /\ Names(tree, Cwd) \subseteq Nat
        /\ \A n \in Names(tree, Cwd) : Append(Cwd, n) \in DOMAIN tree
    BY <1>1, <1>2, TreeNames
  <2>2. /\ NamesAmong(Paths, Cwd) \subseteq Nat
        /\ \A n \in NamesAmong(Paths, Cwd) : Append(Cwd, n) \in Paths
    BY <1>2, NamesFacts
  <2>3. DOMAIN tree \subseteq Paths
    BY <1>1 DEF ListingOf
  <2> HIDE DEF k
  <2>4. QED
    BY <1>2, <1>3, <2>1, <2>2, <2>3
<1> DEFINE frame == Opening(stack[k], names, stable)
<1>5. /\ pc' = "iterate" /\ UNCHANGED <<phase, manifest, outcome>>
      /\ stack' = [stack EXCEPT ![k] = frame]
  BY <1>3 DEF Iterates, Opening
<1>6. /\ frame \in FrameType /\ frame.dir = stack[k].dir /\ frame.listed = stack[k].listed
      /\ frame.names = names /\ frame.stable = stable
  BY <1>2, <1>4, OpenedFrame
<1> HIDE DEF frame
<1>7. /\ stack' \in Seq(FrameType) /\ Len(stack') = k
      /\ \A i \in 1 .. k : stack'[i] = IF i = k THEN frame ELSE stack[i]
  BY <1>2, <1>5, <1>6, ExceptSeq
<1>8. DOMAIN stack' = DOMAIN stack
  BY <1>5
<1>9. Read(frame)
  BY <1>3, <1>6 DEF Read
<1> HIDE DEF k
<1>10. \A i \in 1 .. k : /\ stack'[i].dir = stack[i].dir /\ stack'[i].listed = stack[i].listed
                         /\ i # k => /\ stack'[i].stable = stack[i].stable
                                     /\ stack'[i].names = stack[i].names
                         /\ i = k => Read(stack'[i])
  BY <1>6, <1>7, <1>9
<1>11. QED
  BY <1>1, <1>5, <1>7, <1>8, <1>10 DEF k

LEMMA OpenTypes == ASSUME Types, Open PROVE Types'
<1>1. /\ pc = "open" /\ UNCHANGED <<tree, start, changes, budget, entries, touched>>
      /\ budget \in BudgetType /\ ListingOf(entries)
  BY DEF Types, TypeOK, Open, BudgetType
<1>2. CASE Ends("unsafe")
  BY <1>1, <1>2, TypesAtEnd DEF BudgetType
<1>3. CASE ~Ends("unsafe")
  <2>1. /\ pc' = "iterate" /\ UNCHANGED <<phase, manifest, outcome>>
        /\ stack' \in Seq(FrameType) /\ Len(stack') = Len(stack) /\ stack # <<>>
    BY <1>3, OpenFrames
  <2>2. stack' # <<>>
    BY <2>1, TopFrame DEF Types
  <2>3. TypeOK'
    BY <1>1, <2>1 DEF Types, TypeOK
  <2>4. QED
    BY <1>1, <2>1, <2>2, <2>3 DEF Types, LimitInv
<1>4. QED
  BY <1>2, <1>3

\* The frames when the iterator has returned a name of the innermost directory.
Listed(n) == [stack EXCEPT ![Len(stack)] = Listing(@, n)]
LEMMA ListedFrames ==
  ASSUME Types, stack # <<>>, NEW n \in Nat
  PROVE  /\ Listed(n) \in Seq(FrameType) /\ Len(Listed(n)) = Len(stack)
         /\ DOMAIN Listed(n) = 1 .. Len(stack)
         /\ \A i \in 1 .. Len(stack) :
              /\ Listed(n)[i].dir = stack[i].dir /\ Listed(n)[i].stable = stack[i].stable
              /\ Listed(n)[i].names = stack[i].names
              /\ i # Len(stack) => Listed(n)[i].listed = stack[i].listed
              /\ i = Len(stack) => Listed(n)[i].listed = stack[i].listed \union {n}
<1> DEFINE k == Len(stack)
           frame == Listing(stack[k], n)
<1>1. k \in 1 .. k /\ stack \in Seq(FrameType) /\ stack[k] \in FrameType /\ DOMAIN stack = 1 .. k
  BY TopFrame DEF Types
<1>2. /\ frame \in FrameType /\ frame.dir = stack[k].dir
      /\ frame.stable = stack[k].stable /\ frame.listed = stack[k].listed \union {n}
      /\ frame.names = stack[k].names
  BY <1>1, ListedFrame
<1>3. Listed(n) = [stack EXCEPT ![k] = frame]
  BY DEF Listed
<1> HIDE DEF frame
<1>4. /\ Listed(n) \in Seq(FrameType) /\ Len(Listed(n)) = k
      /\ \A i \in 1 .. k : Listed(n)[i] = IF i = k THEN frame ELSE stack[i]
  BY <1>1, <1>2, <1>3, ExceptSeq
<1>5. DOMAIN Listed(n) = 1 .. k
  BY <1>1, <1>3
<1> HIDE DEF k
<1>6. \A i \in 1 .. k : /\ Listed(n)[i].dir = stack[i].dir /\ Listed(n)[i].stable = stack[i].stable
                        /\ Listed(n)[i].names = stack[i].names
                        /\ i # k => Listed(n)[i].listed = stack[i].listed
                        /\ i = k => Listed(n)[i].listed = stack[i].listed \union {n}
  BY <1>2, <1>4
<1>7. QED
  BY <1>4, <1>5, <1>6 DEF k

CountedAs(b, files, bytes) == [b EXCEPT !.files = files, !.bytes = bytes]
LEMMA CountedBudget ==
  ASSUME budget \in BudgetType, NEW size \in Sizes,
         budget.files <= MaxFiles, budget.bytes <= MaxTotalBytes
  PROVE  Counted(size) \in BudgetType /\ Counted(size).directories = budget.directories
<1> DEFINE f == budget.files + 1
           n == budget.bytes + size
<1>1. f \in 0 .. MaxFiles + 1 /\ n \in 0 .. MaxTotalBytes + Max(Sizes)
  <2>1. budget.files \in Nat /\ budget.bytes \in Nat
    BY Limits DEF BudgetType
  <2>2. size \in Nat /\ size <= Max(Sizes)
    BY Limits
  <2>3. QED
    BY <2>1, <2>2, Limits
<1>2. Counted(size) = CountedAs(budget, f, n)
  BY DEF Counted, CountedAs
<1> HIDE DEF f, n
<1>3. CountedAs(budget, f, n) \in BudgetType
      /\ CountedAs(budget, f, n).directories = budget.directories
  BY <1>1 DEF CountedAs, BudgetType
<1>4. QED
  BY <1>2, <1>3

\* The four outcomes of an entry.
EntryRefuses(n) ==
  LET c == Append(Cwd, n) IN
  /\ Found(c) = {} \/ \E x \in Found(c) : x.kind \in {"link", "special"}
  /\ Ends("unsafe") /\ UNCHANGED <<budget, entries>>
EntryOverflows(n) ==
  \E x \in Found(Append(Cwd, n)) :
    /\ x.kind = "file" /\ budget' = Counted(x.size) /\ OverBudget(Counted(x.size))
    /\ Ends("limit") /\ UNCHANGED entries
EntryEnters(n) ==
  LET c == Append(Cwd, n) IN
  /\ \E x \in Found(c) : x.kind = "dir"
  /\ pc' = "enter" /\ stack' = Append(Listed(n), Fresh(c))
  /\ UNCHANGED <<phase, manifest, outcome, budget, entries>>
EntryLists(n) ==
  LET c == Append(Cwd, n) IN
  /\ \E x \in Found(c) : /\ x.kind = "file" /\ budget' = Counted(x.size)
                         /\ entries' = With(entries, c, x)
  /\ ~OverBudget(budget') /\ stack' = Listed(n) /\ UNCHANGED <<pc, phase, manifest, outcome>>

LEMMA EntryParts ==
  ASSUME Types, Entry
  PROVE  /\ pc = "iterate" /\ stack # <<>> /\ Cwd \in Paths
         /\ UNCHANGED <<tree, start, changes, touched, seen>>
         /\ \E n \in Nat :
              /\ n \notin stack[Len(stack)].listed /\ Append(Cwd, n) \in Paths
              /\ n \in stack[Len(stack)].names \/ Append(Cwd, n) \in DOMAIN tree
              /\ EntryRefuses(n) \/ EntryOverflows(n) \/ EntryEnters(n) \/ EntryLists(n)
<1>1. /\ pc = "iterate" /\ stack # <<>> /\ TypeOK /\ ListingOf(tree)
      /\ UNCHANGED <<tree, start, changes, touched, seen>>
  BY DEF Types, TypeOK, Entry
<1>2. stack[Len(stack)] \in FrameType /\ Cwd \in Paths /\ Cwd = stack[Len(stack)].dir
  BY <1>1, TopFrame DEF Cwd
<1>3. /\ stack[Len(stack)].names \subseteq Nat /\ Names(tree, Cwd) \subseteq Nat
      /\ \A n \in Names(tree, Cwd) : Append(Cwd, n) \in DOMAIN tree
      /\ \A n \in stack[Len(stack)].names : Append(Cwd, n) \in Paths
  BY <1>1, <1>2, FrameFields, TreeNames
<1>4. PICK n \in (stack[Len(stack)].names \union Names(tree, stack[Len(stack)].dir))
                   \ stack[Len(stack)].listed :
        LET p == Append(stack[Len(stack)].dir, n)
            iterated == [stack EXCEPT ![Len(stack)].listed = @ \cup {n}] IN
        \/ /\ Found(p) = {} \/ \E x \in Found(p) : x.kind \in {"link", "special"}
           /\ Ends("unsafe") /\ UNCHANGED <<budget, entries>>
        \/ /\ \E x \in Found(p) : x.kind = "dir"
           /\ pc' = "enter" /\ stack' = Append(iterated, Fresh(p))
           /\ UNCHANGED <<phase, manifest, outcome, budget, entries>>
        \/ \E x \in Found(p) :
             /\ x.kind = "file" /\ budget' = Counted(x.size)
             /\ IF OverBudget(budget')
                THEN Ends("limit") /\ UNCHANGED entries
                ELSE /\ entries' = With(entries, p, x) /\ stack' = iterated
                     /\ UNCHANGED <<pc, phase, manifest, outcome>>
  BY DEF Entry
<1> DEFINE p == Append(Cwd, n)
<1>5. /\ n \in Nat /\ p = Append(stack[Len(stack)].dir, n) /\ n \notin stack[Len(stack)].listed
      /\ n \in stack[Len(stack)].names \/ p \in DOMAIN tree
  BY <1>2, <1>3, <1>4
<1>6. p \in Paths
  BY <1>1, <1>3, <1>5 DEF ListingOf
<1>7. Listed(n) = [stack EXCEPT ![Len(stack)].listed = @ \cup {n}]
  BY DEF Listed, Listing
<1> HIDE DEF p
<1>8. CASE /\ Found(p) = {} \/ \E x \in Found(p) : x.kind \in {"link", "special"}
           /\ Ends("unsafe") /\ UNCHANGED <<budget, entries>>
  <2>1. EntryRefuses(n)
    BY <1>8 DEF EntryRefuses, p
  <2>2. QED
    BY <1>1, <1>2, <1>5, <1>6, <2>1 DEF p
<1>9. CASE /\ \E x \in Found(p) : x.kind = "dir"
           /\ pc' = "enter" /\ stack' = Append(Listed(n), Fresh(p))
           /\ UNCHANGED <<phase, manifest, outcome, budget, entries>>
  <2>1. EntryEnters(n)
    BY <1>9 DEF EntryEnters, p
  <2>2. QED
    BY <1>1, <1>2, <1>5, <1>6, <2>1 DEF p
<1>10. ASSUME NEW x \in Found(p), x.kind = "file", budget' = Counted(x.size),
              IF OverBudget(budget')
              THEN Ends("limit") /\ UNCHANGED entries
              ELSE /\ entries' = With(entries, p, x) /\ stack' = Listed(n)
                   /\ UNCHANGED <<pc, phase, manifest, outcome>>
       PROVE  EntryOverflows(n) \/ EntryLists(n)
  <2>1. CASE OverBudget(budget')
    <3>1. OverBudget(Counted(x.size)) /\ Ends("limit") /\ UNCHANGED entries
      BY <1>10, <2>1
    <3>2. QED
      BY <1>10, <3>1 DEF EntryOverflows, p
  <2>2. CASE ~OverBudget(budget')
    BY <1>10, <2>2 DEF EntryLists, p
  <2>3. QED
    BY <2>1, <2>2
<1>11. QED
  <2>1. \/ EntryOverflows(n) \/ EntryLists(n)
        \/ /\ Found(p) = {} \/ \E x \in Found(p) : x.kind \in {"link", "special"}
           /\ Ends("unsafe") /\ UNCHANGED <<budget, entries>>
        \/ /\ \E x \in Found(p) : x.kind = "dir"
           /\ pc' = "enter" /\ stack' = Append(Listed(n), Fresh(p))
           /\ UNCHANGED <<phase, manifest, outcome, budget, entries>>
    BY <1>4, <1>5, <1>7, <1>10
  <2>2. QED
    BY <1>1, <1>2, <1>5, <1>6, <1>8, <1>9, <2>1 DEF p

\* The scan ends, a directory is entered or a file listed.
EntryEnds == \E how \in {"unsafe", "limit"} : Ends(how) /\ UNCHANGED entries

LEMMA EntryCases ==
  ASSUME Types, Entry
  PROVE  /\ pc = "iterate" /\ stack # <<>> /\ Cwd \in Paths
         /\ UNCHANGED <<tree, start, changes, touched>>
         /\ budget' \in BudgetType /\ budget'.directories = budget.directories
         /\ \/ EntryEnds
            \/ \E n \in Nat : Append(Cwd, n) \in Paths /\ EntryEnters(n)
            \/ \E n \in Nat : Append(Cwd, n) \in Paths /\ EntryLists(n)
<1>1. /\ pc = "iterate" /\ stack # <<>> /\ Cwd \in Paths
      /\ UNCHANGED <<tree, start, changes, touched>>
  BY EntryParts
<1>2. /\ budget \in BudgetType /\ budget.files <= MaxFiles /\ budget.bytes <= MaxTotalBytes
      /\ ListingOf(tree)
  BY <1>1 DEF Types, TypeOK, LimitInv, BudgetType
<1>3. PICK n \in Nat :
        /\ Append(Cwd, n) \in Paths
        /\ EntryRefuses(n) \/ EntryOverflows(n) \/ EntryEnters(n) \/ EntryLists(n)
  BY EntryParts
<1>4. CASE EntryRefuses(n)
  BY <1>1, <1>2, <1>4 DEF EntryRefuses, EntryEnds
<1>5. CASE EntryEnters(n)
  <2>1. UNCHANGED budget
    BY <1>5 DEF EntryEnters
  <2>2. QED
    BY <1>1, <1>2, <1>3, <1>5, <2>1
<1>6. ASSUME NEW x \in Found(Append(Cwd, n)), budget' = Counted(x.size)
      PROVE  budget' \in BudgetType /\ budget'.directories = budget.directories
  <2>1. x.size \in Sizes
    BY <1>2, FoundFacts DEF NodeType
  <2>2. QED
    BY <1>2, <1>6, <2>1, CountedBudget
<1>7. CASE EntryOverflows(n)
  <2>1. budget' \in BudgetType /\ budget'.directories = budget.directories
    BY <1>6, <1>7 DEF EntryOverflows
  <2>2. EntryEnds
    BY <1>7 DEF EntryOverflows, EntryEnds
  <2>3. QED
    BY <1>1, <2>1, <2>2
<1>8. CASE EntryLists(n)
  <2>1. budget' \in BudgetType /\ budget'.directories = budget.directories
    BY <1>6, <1>8 DEF EntryLists
  <2>2. QED
    BY <1>1, <1>3, <1>8, <2>1
<1>9. QED
  BY <1>3, <1>4, <1>5, <1>7, <1>8

LEMMA EntryTypes == ASSUME Types, Entry PROVE Types'
<1>1. /\ pc = "iterate" /\ stack # <<>> /\ Cwd \in Paths
      /\ UNCHANGED <<tree, start, changes, touched>> /\ budget' \in BudgetType
  BY EntryCases
<1>2. /\ ListingOf(tree) /\ ListingOf(entries) /\ Len(stack) <= MaxDepth + 1
      /\ budget.files <= MaxFiles /\ budget.bytes <= MaxTotalBytes
      /\ budget.directories <= MaxDirectories
      /\ Len(stack) \in Nat
  BY <1>1, TopFrame DEF Types, TypeOK, LimitInv
<1>3. CASE EntryEnds
  BY <1>1, <1>2, <1>3, TypesAtEnd DEF EntryEnds, BudgetType
<1>4. ASSUME NEW n \in Nat, Append(Cwd, n) \in Paths, EntryEnters(n) PROVE Types'
  <2> DEFINE p == Append(Cwd, n)
  <2>1. /\ pc' = "enter" /\ stack' = Append(Listed(n), Fresh(p))
        /\ UNCHANGED <<phase, manifest, outcome, budget, entries>>
    BY <1>4 DEF EntryEnters
  <2>2. Listed(n) \in Seq(FrameType) /\ Len(Listed(n)) = Len(stack) /\ Fresh(p) \in FrameType
    BY <1>1, <1>4, ListedFrames, FreshFacts
  <2>3. stack' \in Seq(FrameType) /\ Len(stack') = Len(stack) + 1 /\ stack' # <<>>
    BY <2>1, <2>2, AppendProperties
  <2>4. Len(stack') <= MaxDepth + 2
    BY <1>2, <2>3, Limits
  <2>5. TypeOK'
    BY <1>1, <2>1, <2>3, <2>4 DEF Types, TypeOK
  <2>6. QED
    BY <1>2, <2>1, <2>3, <2>5 DEF Types, LimitInv
<1>5. ASSUME NEW n \in Nat, Append(Cwd, n) \in Paths, EntryLists(n) PROVE Types'
  <2> DEFINE p == Append(Cwd, n)
  <2>1. /\ stack' = Listed(n) /\ UNCHANGED <<pc, phase, manifest, outcome>>
        /\ ~OverBudget(budget')
    BY <1>5 DEF EntryLists
  <2>x. PICK x \in Found(p) : entries' = With(entries, p, x)
    BY <1>5 DEF EntryLists
  <2>2. stack' \in Seq(FrameType) /\ Len(stack') = Len(stack) /\ stack' # <<>>
    BY <1>1, <2>1, ListedFrames, TopFrame DEF Types
  <2>3. ListingOf(entries')
    <3>1. x \in NodeType
      BY <1>2, FoundFacts
    <3>2. QED
      BY <1>2, <1>5, <2>x, <3>1, WithFacts
  <2>4. TypeOK'
    BY <1>1, <1>2, <2>1, <2>2, <2>3 DEF Types, TypeOK, BudgetType
  <2>5. budget'.files <= MaxFiles /\ budget'.bytes <= MaxTotalBytes
    BY <1>1, <2>1, Limits DEF OverBudget, BudgetType
  <2>6. budget'.directories = budget.directories
    BY EntryCases
  <2>7. QED
    BY <1>1, <1>2, <2>1, <2>2, <2>4, <2>5, <2>6 DEF Types, LimitInv
<1>6. QED
  BY <1>3, <1>4, <1>5, EntryCases

\* The frames when the innermost directory is exhausted.
LEMMA PoppedFrames ==
  ASSUME TypeOK, stack # <<>>, Len(stack) # 1
  PROVE  /\ Front(stack) \in Seq(FrameType) /\ Len(Front(stack)) = Len(stack) - 1
         /\ Front(stack) # <<>> /\ DOMAIN Front(stack) = 1 .. Len(stack) - 1
         /\ \A i \in 1 .. Len(stack) - 1 : Front(stack)[i] = stack[i]
<1> DEFINE k == Len(stack) - 1
           s == SubSeq(stack, 1, k)
<1>1. k \in Nat \ {0} /\ 1 \in Int /\ k \in Int /\ stack \in Seq(FrameType)
      /\ \A i \in 1 .. k : stack[i] \in FrameType
  BY TopFrame
<1>2. /\ s \in Seq(FrameType) /\ Len(s) = IF 1 <= k THEN k - 1 + 1 ELSE 0
      /\ \A i \in 1 .. k - 1 + 1 : s[i] = stack[1 + i - 1]
  BY <1>1, SubSeqProperties
<1>3. Front(stack) = s
  BY DEF Front
<1> HIDE DEF k, s
<1>4. Len(s) = k
  BY <1>1, <1>2
<1>5. \A i \in 1 .. k : s[i] = stack[i]
  <2> TAKE i \in 1 .. k
  <2>1. i \in 1 .. k - 1 + 1 /\ 1 + i - 1 = i
    BY <1>1
  <2>2. QED
    BY <1>2, <2>1
<1>6. s # <<>> /\ DOMAIN s = 1 .. k
  BY <1>1, <1>2, <1>4, EmptySeq, LenProperties
<1>7. QED
  BY <1>2, <1>3, <1>4, <1>5, <1>6 DEF k

LEMMA ReturnTypes == ASSUME Types, Return PROVE Types'
<1>1. /\ pc = "iterate" /\ stack # <<>> /\ UNCHANGED <<tree, start, changes, budget, entries, touched>>
      /\ budget \in BudgetType /\ ListingOf(entries) /\ TypeOK
  BY DEF Types, TypeOK, Return, BudgetType
<1>2. CASE Len(stack) = 1
  <2>1. Ends("ok")
    BY <1>2 DEF Return
  <2>2. QED
    BY <1>1, <2>1, TypesAtEnd DEF BudgetType
<1>3. CASE Len(stack) # 1
  <2>1. stack' = Front(stack) /\ UNCHANGED <<pc, phase, manifest, outcome>>
    BY <1>3 DEF Return
  <2>2. /\ stack' \in Seq(FrameType) /\ Len(stack') = Len(stack) - 1 /\ stack' # <<>>
        /\ Len(stack) \in Nat
    BY <1>1, <1>3, <2>1, PoppedFrames, TopFrame
  <2>3. Len(stack) <= MaxDepth + 1
    BY <1>1 DEF Types, LimitInv
  <2>4. TypeOK'
    BY <1>1, <2>1, <2>2, <2>3, Limits DEF TypeOK
  <2>5. QED
    BY <1>1, <2>1, <2>2, <2>3, <2>4, Limits DEF Types, LimitInv
<1>4. QED
  BY <1>2, <1>3

LEMMA OneFrame ==
  /\ <<Fresh(<<>>)>> \in Seq(FrameType) /\ Len(<<Fresh(<<>>)>>) = 1
  /\ DOMAIN <<Fresh(<<>>)>> = {1} /\ <<Fresh(<<>>)>>[1].dir = <<>>
  /\ <<Fresh(<<>>)>>[1].listed = {} /\ <<Fresh(<<>>)>>[1].names = {} /\ <<Fresh(<<>>)>> # <<>>
<1>1. /\ Fresh(<<>>) \in FrameType /\ Fresh(<<>>).dir = <<>> /\ Fresh(<<>>).listed = {}
      /\ Fresh(<<>>).names = {}
  BY PathsAssumption, FreshFacts
<1>2. QED
  BY <1>1

LEMMA RescanTypes == ASSUME Types, Rescan PROVE Types'
<1>1. /\ pc' = "enter" /\ stack' = <<Fresh(<<>>)>> /\ budget' = NoBudget /\ entries' = Empty
      /\ outcome' = "none" /\ touched' = {} /\ UNCHANGED <<tree, start, changes, manifest>>
      /\ phase' = "after"
  BY DEF Rescan
<1>2. /\ budget' \in BudgetType /\ budget'.files = 0 /\ budget'.bytes = 0
      /\ budget'.directories = 0
  BY <1>1, Limits DEF NoBudget, BudgetType
<1>3. ListingOf(entries')
  BY <1>1 DEF ListingOf, Empty
<1>4. stack' \in Seq(FrameType) /\ Len(stack') = 1 /\ stack' # <<>>
  BY <1>1, OneFrame
<1>5. TypeOK'
  BY <1>1, <1>2, <1>3, <1>4, Limits DEF Types, TypeOK, BudgetType
<1>6. QED
  BY <1>1, <1>2, <1>4, <1>5, Limits DEF Types, LimitInv

-----------------------------------------------------------------------------
(* The writer *)

\* What a change may do to the tree.
Replaces(t, which) ==
  /\ IsTree(t) /\ which \subseteq Paths
  /\ \A p : p \notin which => /\ p \in DOMAIN t <=> p \in DOMAIN tree
                              /\ p \in DOMAIN tree => t[p] = tree[p]

\* A path in the tree that is not a directory, or an empty one, has nothing below it.
LEMMA Leaves ==
  ASSUME TreeInv, NEW p \in DOMAIN tree, tree[p].kind # "dir" \/ Names(tree, p) = {}
  PROVE  \A q \in DOMAIN tree : \A n \in 0 .. Len(q) - 1 : SubSeq(q, 1, n) # p
<1> SUFFICES ASSUME NEW q \in DOMAIN tree, NEW n \in 0 .. Len(q) - 1, SubSeq(q, 1, n) = p
             PROVE  FALSE
  OBVIOUS
<1>1. tree[p].kind = "dir" /\ ListingOf(tree) /\ p \in Paths /\ q \in Seq(Nat)
  BY PathsAreSeqs DEF TreeInv, IsTree, ListingOf
<1>2. Len(q) \in Nat /\ n \in 0 .. Len(q) - 1
  BY <1>1, LenProperties
<1>3. q[n + 1] \in Nat /\ Append(p, q[n + 1]) = SubSeq(q, 1, n + 1)
  BY <1>1, <1>2, NextPrefix
<1>4. SubSeq(q, 1, n + 1) \in DOMAIN tree
  <2>1. CASE n + 1 = Len(q)
    BY <1>1, <2>1, SubSeqFull
  <2>2. CASE n + 1 # Len(q)
    <3>1. n + 1 \in 0 .. Len(q) - 1
      BY <1>2, <2>2
    <3>2. QED
      BY <3>1 DEF TreeInv, IsTree
  <2>3. QED
    BY <2>1, <2>2
<1>5. q[n + 1] \in Names(tree, p)
  BY <1>1, <1>3, <1>4, TreeNames
<1>6. QED
  BY <1>1, <1>5

\* A tree with a name more, in one of its directories.
LEMMA Planted ==
  ASSUME NEW t, IsTree(t), NEW p \in Paths, p # <<>>, NEW x \in NodeType,
         Front(p) \in DOMAIN t, t[Front(p)].kind = "dir",
         p \in DOMAIN t => \A q \in DOMAIN t : \A n \in 0 .. Len(q) - 1 : SubSeq(q, 1, n) # p
  PROVE  IsTree(With(t, p, x))
<1>0. ListingOf(t)
  BY DEF IsTree
<1> DEFINE u == With(t, p, x)
<1>1. /\ ListingOf(u) /\ DOMAIN u = DOMAIN t \union {p} /\ u[p] = x
      /\ \A q \in DOMAIN t : q # p => u[q] = t[q]
  <2>1. u[p] = x /\ \A q \in DOMAIN t : q # p => u[q] = t[q]
    BY DEF With
  <2>2. ListingOf(u) /\ DOMAIN u = DOMAIN t \union {p}
    BY <1>0 DEF ListingOf, With
  <2>3. QED
    BY <2>1, <2>2
<1> HIDE DEF u
<1>2. p \in Seq(Nat) /\ Len(p) \in Nat
  BY PathsAreSeqs
<1>3. \A n \in 0 .. Len(p) - 1 :
        SubSeq(p, 1, n) \in DOMAIN t /\ t[SubSeq(p, 1, n)].kind = "dir" /\ SubSeq(p, 1, n) # p
  <2> TAKE n \in 0 .. Len(p) - 1
  <2>1. /\ Front(p) \in Seq(Nat) /\ Len(Front(p)) = Len(p) - 1
        /\ SubSeq(p, 1, n) = SubSeq(Front(p), 1, n)
    BY <1>2, FrontFacts
  <2>2. n \in 0 .. Len(p) /\ n # Len(p)
    BY <1>2
  <2>3. SubSeq(p, 1, n) # p
    BY <1>2, <2>2, PrefixFacts
  <2>4. CASE n = Len(p) - 1
    BY <2>1, <2>3, <2>4, SubSeqFull
  <2>5. CASE n # Len(p) - 1
    <3>1. n \in 0 .. Len(Front(p)) - 1
      BY <1>2, <2>1, <2>5
    <3>2. QED
      BY <2>1, <2>3, <3>1 DEF IsTree
  <2>6. QED
    BY <2>4, <2>5
<1>4. ASSUME NEW q \in DOMAIN u, NEW n \in 0 .. Len(q) - 1
      PROVE  SubSeq(q, 1, n) \in DOMAIN u /\ u[SubSeq(q, 1, n)].kind = "dir"
  <2>1. CASE q = p
    BY <1>1, <1>3, <2>1
  <2>2. CASE q # p
    <3>1. q \in DOMAIN t
      BY <1>1, <2>2
    <3>2. SubSeq(q, 1, n) \in DOMAIN t /\ t[SubSeq(q, 1, n)].kind = "dir"
      BY <3>1 DEF IsTree
    <3>3. SubSeq(q, 1, n) # p
      BY <3>1, <3>2
    <3>4. QED
      BY <1>1, <3>2, <3>3
  <2>3. QED
    BY <2>1, <2>2
<1>5. <<>> \in DOMAIN u /\ u[<<>>].kind = "dir"
  BY <1>1 DEF IsTree
<1>6. IsTree(u)
  BY <1>1, <1>4, <1>5 DEF IsTree
<1>7. QED
  BY <1>6 DEF u

\* A tree without one of its leaves.
LEMMA Pruned ==
  ASSUME TreeInv, NEW p \in DOMAIN tree \ {<<>>},
         \A q \in DOMAIN tree : \A n \in 0 .. Len(q) - 1 : SubSeq(q, 1, n) # p
  PROVE  IsTree(Without(p))
<1> DEFINE u == Without(p)
<1>1. /\ ListingOf(u) /\ DOMAIN u = DOMAIN tree \ {p}
      /\ \A q \in DOMAIN tree : q # p => u[q] = tree[q]
  BY WithoutFacts DEF TreeInv, IsTree
<1> HIDE DEF u
<1>2. \A q \in DOMAIN u : \A n \in 0 .. Len(q) - 1 :
        SubSeq(q, 1, n) \in DOMAIN u /\ u[SubSeq(q, 1, n)].kind = "dir"
  BY <1>1 DEF TreeInv, IsTree
<1>3. IsTree(u)
  BY <1>1, <1>2 DEF TreeInv, IsTree
<1>4. QED
  BY <1>3 DEF u

LEMMA WriterCases ==
  ASSUME TypeOK, TreeInv, Writer
  PROVE  \E t, which, gone : Change(t, which, gone) /\ gone \subseteq which /\ Replaces(t, which)
<1>0. /\ ListingOf(tree) /\ \A q \in DOMAIN tree : q \in Paths /\ tree[q] \in NodeType
      /\ changes \in 0 .. MaxChanges
  BY DEF TypeOK, ListingOf
<1>1. \A kind \in Kinds, size \in Sizes :
        phase \in {"run", "after"} /\ changes < MaxChanges => Node(kind, size) \in NodeType
  BY <1>0, Limits DEF Node, NodeType
<1>2. ASSUME NEW p \in Paths, Create(p)
      PROVE  \E t, which, gone : Change(t, which, gone) /\ gone \subseteq which /\ Replaces(t, which)
  <2>1. PICK kind \in Kinds, size \in Sizes : Change(With(tree, p, Node(kind, size)), {p}, {})
    BY <1>2 DEF Create
  <2>2. Node(kind, size) \in NodeType
    BY <1>1, <2>1 DEF Change
  <2> DEFINE t == With(tree, p, Node(kind, size))
  <2>3. IsTree(t)
    BY <1>2, <2>2, Planted DEF Create, Writable, TreeInv
  <2>4. \A q : q \notin {p} => /\ q \in DOMAIN t <=> q \in DOMAIN tree
                               /\ q \in DOMAIN tree => t[q] = tree[q]
    BY DEF With
  <2> HIDE DEF t
  <2>5. Replaces(t, {p})
    BY <2>3, <2>4 DEF Replaces
  <2>6. QED
    BY <2>1, <2>5 DEF t
<1>3. ASSUME NEW p \in Paths, Rewrite(p)
      PROVE  \E t, which, gone : Change(t, which, gone) /\ gone \subseteq which /\ Replaces(t, which)
  <2>1. PICK size \in Sizes : Change([tree EXCEPT ![p] = Node("file", size)], {p}, {})
    BY <1>3 DEF Rewrite
  <2>2. Node("file", size) \in NodeType
    BY <1>1, <2>1 DEF Change, Kinds
  <2> DEFINE t == With(tree, p, Node("file", size))
  <2>3. p \in DOMAIN tree /\ tree[p].kind # "dir" /\ p # <<>> /\ p \in Seq(Nat)
    BY <1>3, PathsAreSeqs DEF Rewrite, Files, TreeInv, IsTree
  <2>4. Front(p) \in DOMAIN tree /\ tree[Front(p)].kind = "dir"
    <3> DEFINE k == Len(p) - 1
    <3>1. Front(p) = SubSeq(p, 1, k) /\ k \in 0 .. Len(p) - 1
      BY <2>3, FrontFacts DEF Front
    <3> HIDE DEF k
    <3>2. QED
      BY <2>3, <3>1 DEF TreeInv, IsTree
  <2>5. IsTree(t)
    BY <2>2, <2>3, <2>4, Leaves, Planted DEF TreeInv
  <2>6. t = [tree EXCEPT ![p] = Node("file", size)]
    <3>1. DOMAIN tree \union {p} = DOMAIN tree
      BY <2>3
    <3>2. tree = [q \in DOMAIN tree |-> tree[q]]
      BY <1>0 DEF ListingOf
    <3>3. QED
      BY <3>1, <3>2 DEF With
  <2>7. \A q : q \notin {p} => /\ q \in DOMAIN t <=> q \in DOMAIN tree
                               /\ q \in DOMAIN tree => t[q] = tree[q]
    BY DEF With
  <2> HIDE DEF t
  <2>8. Replaces(t, {p})
    BY <2>5, <2>7 DEF Replaces
  <2>9. QED
    BY <2>1, <2>6, <2>8
<1>4. ASSUME NEW p \in Paths, Delete(p)
      PROVE  \E t, which, gone : Change(t, which, gone) /\ gone \subseteq which /\ Replaces(t, which)
  <2>1. p \in DOMAIN tree \ {<<>>} /\ Names(tree, p) = {} /\ Change(Without(p), {p}, {p})
    BY <1>4 DEF Delete
  <2>2. IsTree(Without(p))
    BY <2>1, Leaves, Pruned
  <2>3. \A q : q \notin {p} => /\ q \in DOMAIN Without(p) <=> q \in DOMAIN tree
                               /\ q \in DOMAIN tree => Without(p)[q] = tree[q]
    BY DEF Without
  <2>4. Replaces(Without(p), {p})
    BY <2>2, <2>3 DEF Replaces
  <2>5. QED
    BY <2>1, <2>4
<1>5. ASSUME NEW p \in Paths, NEW q \in Paths, Rename(p, q)
      PROVE  \E t, which, gone : Change(t, which, gone) /\ gone \subseteq which /\ Replaces(t, which)
  <2> DEFINE s == Without(p)
             t == With(s, q, tree[p])
  <2>1. /\ p \in DOMAIN tree \ {<<>>} /\ tree[p].kind # "dir" /\ q # p /\ q # <<>>
        /\ Front(q) \in DOMAIN tree /\ tree[Front(q)].kind = "dir"
        /\ q \in DOMAIN tree => tree[q].kind # "dir"
        /\ Change(t, {p, q}, {p, q})
    BY <1>5 DEF Rename, Files, Writable, TreeInv, IsTree
  <2>2. IsTree(s)
    BY <2>1, Leaves, Pruned
  <2>3. DOMAIN s = DOMAIN tree \ {p} /\ \A r \in DOMAIN tree : r # p => s[r] = tree[r]
    BY <1>0, WithoutFacts
  <2>4. q \in DOMAIN s => \A r \in DOMAIN s : \A n \in 0 .. Len(r) - 1 : SubSeq(r, 1, n) # q
    BY <2>1, <2>3, Leaves
  <2>5. Front(q) \in DOMAIN s /\ s[Front(q)].kind = "dir"
    BY <2>1, <2>3
  <2> HIDE DEF s
  <2>6. IsTree(t)
    BY <1>0, <2>1, <2>2, <2>4, <2>5, Planted
  <2>7. \A r : r \notin {p, q} => /\ r \in DOMAIN t <=> r \in DOMAIN tree
                                  /\ r \in DOMAIN tree => t[r] = tree[r]
    BY <2>3 DEF With
  <2> HIDE DEF t
  <2>8. Replaces(t, {p, q})
    BY <2>6, <2>7 DEF Replaces
  <2>9. QED
    BY <2>1, <2>8
<1>6. QED
  BY <1>2, <1>3, <1>4, <1>5 DEF Writer

\* What a change does to the frames.
LEMMA UnstableFrames ==
  ASSUME TypeOK, NEW gone
  PROVE  /\ Unstable(gone) \in Seq(FrameType) /\ Len(Unstable(gone)) = Len(stack)
         /\ DOMAIN Unstable(gone) = DOMAIN stack
         /\ \A i \in DOMAIN stack :
              /\ Unstable(gone)[i].dir = stack[i].dir
              /\ Unstable(gone)[i].listed = stack[i].listed
              /\ Unstable(gone)[i].stable =
                   stack[i].stable \ {Last(p) : p \in {q \in gone : Front(q) = stack[i].dir}}
<1> DEFINE lost(i) == {Last(p) : p \in {q \in gone : Front(q) = stack[i].dir}}
<1>1. stack \in Seq(FrameType) /\ Len(stack) \in Nat /\ DOMAIN stack = 1 .. Len(stack)
      /\ \A i \in 1 .. Len(stack) : stack[i] \in FrameType
  BY LenProperties, ElementOfSeq DEF TypeOK
<1>2. Unstable(gone) = [i \in DOMAIN stack |-> Losing(stack[i], lost(i))]
  BY DEF Unstable, Losing
<1> HIDE DEF lost
<1>3. Unstable(gone) \in [1 .. Len(stack) -> FrameType]
  BY <1>1, <1>2, LostFrame
<1>4. Unstable(gone) \in Seq(FrameType) /\ Len(Unstable(gone)) = Len(stack)
  BY <1>1, <1>3, SeqDef, LenProperties
<1>5. \A i \in DOMAIN stack : /\ Unstable(gone)[i].dir = stack[i].dir
                              /\ Unstable(gone)[i].listed = stack[i].listed
                              /\ Unstable(gone)[i].stable = stack[i].stable \ lost(i)
  BY <1>1, <1>2, LostFrame
<1>6. QED
  BY <1>1, <1>3, <1>4, <1>5 DEF lost

LEMMA WriterTypes == ASSUME Types, TreeInv, Writer PROVE Types' /\ TreeInv'
<1>1. PICK t, which, gone : Change(t, which, gone) /\ gone \subseteq which /\ Replaces(t, which)
  BY WriterCases DEF Types
<1>2. /\ changes' = changes + 1 /\ changes < MaxChanges /\ tree' = t
      /\ touched' = touched \union which /\ stack' = Unstable(gone)
      /\ UNCHANGED <<start, phase, pc, budget, entries, manifest, outcome>>
  BY <1>1 DEF Change
<1>3. TreeInv' /\ ListingOf(tree') /\ which \subseteq Paths
  BY <1>1, <1>2 DEF Replaces, TreeInv, IsTree
<1>4. stack' \in Seq(FrameType) /\ Len(stack') = Len(stack) /\ DOMAIN stack' = DOMAIN stack
  BY <1>2, UnstableFrames DEF Types
<1>5. TypeOK'
  BY <1>2, <1>3, <1>4, Limits DEF Types, TypeOK
<1>6. stack # <<>> => stack' # <<>>
  BY <1>4, EmptySeq DEF Types, TypeOK
<1>7. QED
  BY <1>2, <1>3, <1>4, <1>5, <1>6 DEF Types, LimitInv

LEMMA TypeStep == ASSUME Types, TreeInv, [Next]_vars PROVE Types' /\ TreeInv'
<1>1. CASE Scan
  <2>1. UNCHANGED tree
    BY <1>1 DEF Scan, Enter, Open, Entry, Return, Rescan
  <2>2. TreeInv'
    BY <2>1 DEF TreeInv, IsTree, ListingOf
  <2>3. QED
    BY <1>1, <2>2, EnterTypes, OpenTypes, EntryTypes, ReturnTypes, RescanTypes DEF Scan
<1>2. CASE UNCHANGED vars
  BY <1>2 DEF vars, Types, TypeOK, LimitInv, TreeInv, IsTree, ListingOf
<1>3. QED
  BY <1>1, <1>2, WriterTypes DEF Next

-----------------------------------------------------------------------------
(* Phases *)

LEMMA PhaseStep == ASSUME Types, PhaseInv, [Next]_vars PROVE PhaseInv'
<1>e. ASSUME NEW how \in {"ok", "limit", "unsafe"}, Ends(how), pc # "idle"
      PROVE  PhaseInv'
  BY <1>e DEF Ends, PhaseInv
<1>k. ASSUME UNCHANGED <<phase, outcome, tree, start, touched>>, pc # "idle", pc' # "idle",
             stack' # <<>>
      PROVE  PhaseInv'
  BY <1>k DEF PhaseInv
<1>0. pc # "idle" => stack # <<>> /\ Len(stack) \in Nat \ {0}
  BY TopFrame DEF Types
<1>1. CASE Enter
  <2>1. CASE \E how \in {"limit", "unsafe"} : Ends(how)
    BY <1>1, <1>e, <2>1 DEF Enter
  <2>2. CASE pc' = "open" /\ UNCHANGED <<stack, phase, manifest, outcome>>
    BY <1>0, <1>1, <1>k, <2>2 DEF Enter
  <2>3. QED
    BY <1>1, <2>1, <2>2 DEF Enter
<1>2. CASE Open
  <2>1. CASE Ends("unsafe")
    BY <1>2, <1>e, <2>1 DEF Open
  <2>2. CASE ~Ends("unsafe")
    <3>1. /\ pc = "open" /\ pc' = "iterate" /\ stack # <<>> /\ UNCHANGED <<phase, outcome>>
          /\ Len(stack') = Len(stack) /\ stack' \in Seq(FrameType)
      BY <1>2, <2>2, OpenFrames
    <3>2. stack' # <<>>
      BY <1>0, <3>1
    <3>3. QED
      BY <1>2, <1>k, <3>1, <3>2 DEF Open
  <2>3. QED
    BY <2>1, <2>2
<1>3. CASE Entry
  <2>1. /\ pc = "iterate" /\ stack # <<>> /\ Cwd \in Paths
        /\ UNCHANGED <<tree, start, changes, touched>>
    BY <1>3, EntryCases
  <2>2. CASE EntryEnds
    BY <1>e, <2>1, <2>2 DEF EntryEnds
  <2>3. ASSUME NEW n \in Nat, Append(Cwd, n) \in Paths, EntryEnters(n) \/ EntryLists(n)
        PROVE  PhaseInv'
    <3>1. Listed(n) \in Seq(FrameType) /\ Len(Listed(n)) = Len(stack) /\ Listed(n) # <<>>
      BY <1>0, <2>1, ListedFrames
    <3>2. Fresh(Append(Cwd, n)) \in FrameType
      BY <2>3, FreshFacts
    <3>3. Append(Listed(n), Fresh(Append(Cwd, n))) # <<>>
      BY <3>1, <3>2, AppendProperties
    <3>4. QED
      BY <1>k, <2>1, <2>3, <3>1, <3>3 DEF EntryEnters, EntryLists
  <2>4. QED
    BY <1>3, <2>2, <2>3, EntryCases
<1>4. CASE Return
  <2>1. CASE Len(stack) = 1
    BY <1>4, <1>e, <2>1 DEF Return
  <2>2. CASE Len(stack) # 1
    <3>1. pc = "iterate" /\ Front(stack) # <<>>
      BY <1>0, <1>4, <2>2, PoppedFrames DEF Return, Types
    <3>2. QED
      BY <1>4, <1>k, <2>2, <3>1 DEF Return
  <2>3. QED
    BY <2>1, <2>2
<1>5. CASE Rescan
  BY <1>5, OneFrame DEF Rescan, PhaseInv
<1>6. CASE Writer
  <2>1. PICK t, which, gone : Change(t, which, gone)
    BY <1>6 DEF Writer, Create, Rewrite, Delete, Rename
  <2>2. /\ phase \in {"run", "after"} /\ stack' = Unstable(gone)
        /\ UNCHANGED <<start, phase, pc, outcome>>
    BY <2>1 DEF Change
  <2>3. Len(stack') = Len(stack) /\ stack' \in Seq(FrameType) /\ stack \in Seq(FrameType)
    BY <2>2, UnstableFrames DEF Types, TypeOK
  <2>4. stack # <<>> => stack' # <<>>
    BY <2>3, EmptySeq
  <2>5. stack = <<>> => stack' = <<>>
    BY <2>3, EmptySeq
  <2>6. QED
    BY <2>2, <2>4, <2>5 DEF PhaseInv
<1>7. CASE UNCHANGED vars
  BY <1>7 DEF vars, PhaseInv
<1>8. QED
  BY <1>1, <1>2, <1>3, <1>4, <1>5, <1>6, <1>7 DEF Next, Scan

-----------------------------------------------------------------------------
(* What the frames have returned *)

\* A step that leaves the tree and what was touched alone.
LEMMA SameChildren ==
  ASSUME UNCHANGED <<tree, touched>>
  PROVE  /\ \A p : (p \in DOMAIN tree /\ Quiet(p))' <=> p \in DOMAIN tree /\ Quiet(p)
         /\ \A p : (Quiet(p) => IsDirectory(p))' <=> (Quiet(p) => IsDirectory(p))
  BY DEF Quiet, IsDirectory

\* A quiet path in the innermost directory is behind no link.
LEMMA QuietChild ==
  ASSUME TypeOK, TreeInv, StackInv, stack # <<>>, NEW n \in Nat, Quiet(Append(Cwd, n))
  PROVE  LET c == Append(Cwd, n) IN
         /\ ~Behind(c)
         /\ \A x \in Found(c) : c \in DOMAIN tree /\ x = tree[c]
<1> DEFINE c == Append(Cwd, n)
<1>1. Len(stack) \in DOMAIN stack /\ Cwd = stack[Len(stack)].dir /\ Cwd \in Seq(Nat)
  BY TopFrame, PathsAreSeqs DEF Cwd
<1>2. c \in Seq(Nat) /\ SubSeq(c, 1, Len(Cwd)) = Cwd /\ Len(Cwd) \in 0 .. Len(c)
  BY <1>1, ChildFacts, LenProperties
<1>3. Quiet(Cwd)
  <2> HIDE DEF c
  <2>1. Quiet(c)
    BY DEF c
  <2>2. QED
    BY <1>2, <2>1, QuietAbove
<1>4. Cwd \in DOMAIN tree /\ tree[Cwd].kind = "dir"
  BY <1>1, <1>3 DEF StackInv, IsDirectory
<1>5. ~Behind(c)
  BY <1>4, Physical
<1>6. \A x \in Found(c) : c \in DOMAIN tree /\ x = tree[c]
  BY <1>5, FoundFacts DEF TypeOK
<1>7. QED
  BY <1>5, <1>6

LEMMA StackStep == ASSUME Types, TreeInv, StackInv, [Next]_vars PROVE StackInv'
<1>e. ASSUME NEW how, Ends(how)
      PROVE  StackInv'
  BY <1>e DEF Ends, StackInv
<1>0. pc # "idle" => /\ stack # <<>> /\ Len(stack) \in Nat \ {0} /\ Len(stack) \in 1 .. Len(stack)
                     /\ DOMAIN stack = 1 .. Len(stack)
                     /\ \A i \in 1 .. Len(stack) : stack[i] \in FrameType
                     /\ Cwd = stack[Len(stack)].dir /\ Cwd \in Paths
  BY TopFrame DEF Types, Cwd
<1>1. CASE Enter
  <2>1. CASE \E how \in {"limit", "unsafe"} : Ends(how)
    BY <1>e, <2>1
  <2>2. CASE pc' = "open" /\ UNCHANGED <<stack, phase, manifest, outcome>>
    <3>1. pc = "enter" /\ UNCHANGED <<tree, touched>>
      BY <1>1 DEF Enter
    <3>2. \A i : Opened(i)' <=> Opened(i)
      BY <2>2, <3>1 DEF Opened
    <3>3. QED
      BY <2>2, <3>1, <3>2, SameChildren DEF StackInv
  <2>3. QED
    BY <1>1, <2>1, <2>2 DEF Enter
<1>2. CASE Open
  <2>1. CASE Ends("unsafe")
    BY <1>e, <2>1
  <2>2. CASE ~Ends("unsafe")
    <3>1. /\ pc = "open" /\ pc' = "iterate"
          /\ Len(stack') = Len(stack) /\ DOMAIN stack' = DOMAIN stack
          /\ \A i \in 1 .. Len(stack) :
               /\ stack'[i].dir = stack[i].dir /\ stack'[i].listed = stack[i].listed
               /\ i # Len(stack) => stack'[i].stable = stack[i].stable
               /\ i = Len(stack) => Read(stack'[i])
      BY <1>2, <2>2, OpenFrames
    <3>2. UNCHANGED <<tree, touched>> /\ ListingOf(tree)
      BY <1>2 DEF Open, Types, TypeOK
    <3>3. ASSUME NEW i \in 1 .. Len(stack), NEW n \in Nat,
                 Append(stack[i].dir, n) \in DOMAIN tree, Quiet(Append(stack[i].dir, n))
          PROVE  n \in stack'[i].stable
      <4>1. CASE i = Len(stack)
        <5>1. Append(Cwd, n) \in DOMAIN tree /\ Cwd \in Paths /\ Read(stack'[i])
          BY <1>0, <3>1, <3>3, <4>1
        <5>2. n \in Names(tree, Cwd)
          BY <3>2, <5>1, TreeNames
        <5>3. Cwd \in DOMAIN tree /\ tree[Cwd].kind = "dir"
          <6>1. /\ SubSeq(Append(Cwd, n), 1, Len(Cwd)) = Cwd
                /\ Len(Cwd) \in 0 .. Len(Append(Cwd, n)) - 1
            BY <5>1, PathsAreSeqs, ChildFacts
          <6>2. QED
            BY <5>1, <6>1 DEF TreeInv, IsTree
        <5>4. ~Followed(Cwd)
          BY <5>3, Physical
        <5>5. QED
          BY <5>1, <5>2, <5>4 DEF Read
      <4>2. CASE i # Len(stack)
        <5>1. i < Len(stack)
          <6>1. Len(stack) \in Nat
            BY <1>0, <3>1
          <6>2. QED
            BY <4>2, <6>1
        <5>2. QED
          BY <1>0, <3>1, <3>3, <4>2, <5>1 DEF StackInv, Opened
      <4>3. QED
        BY <4>1, <4>2
    <3>4. \A i : Opened(i)'
      BY <3>1 DEF Opened
    <3>5. QED
      BY <1>0, <3>1, <3>2, <3>3, <3>4, SameChildren DEF StackInv
  <2>3. QED
    BY <2>1, <2>2
<1>3. CASE Entry
  <2>1. /\ pc = "iterate" /\ stack # <<>> /\ UNCHANGED <<tree, touched>>
    BY <1>3, EntryCases
  <2>2. CASE EntryEnds
    BY <1>e, <2>2 DEF EntryEnds
  <2>k. \A i \in 1 .. Len(stack) : \A n \in Nat :
          Append(stack[i].dir, n) \in DOMAIN tree /\ Quiet(Append(stack[i].dir, n)) =>
            n \in stack[i].stable
    BY <1>0, <2>1 DEF StackInv, Opened
  <2>q. \A i \in 1 .. Len(stack) : Quiet(stack[i].dir) => IsDirectory(stack[i].dir)
    BY <1>0, <2>1 DEF StackInv
  <2>3. ASSUME NEW n \in Nat, Append(Cwd, n) \in Paths, EntryEnters(n) PROVE StackInv'
    <3> DEFINE f == Fresh(Append(Cwd, n))
    <3>1. /\ Listed(n) \in Seq(FrameType) /\ Len(Listed(n)) = Len(stack)
          /\ \A i \in 1 .. Len(stack) : /\ Listed(n)[i].dir = stack[i].dir
                                        /\ Listed(n)[i].stable = stack[i].stable
      BY <2>1, ListedFrames
    <3>2. f \in FrameType /\ f.listed = {}
      BY <2>3, FreshFacts
    <3>3. pc' = "enter" /\ stack' = Append(Listed(n), f)
      BY <2>3 DEF EntryEnters
    <3> HIDE DEF f
    <3>4. /\ stack' \in Seq(FrameType) /\ Len(stack') = Len(stack) + 1
          /\ \A i \in 1 .. Len(stack) : stack'[i] = Listed(n)[i]
          /\ stack'[Len(stack) + 1] = f
      BY <3>1, <3>2, <3>3, AppendProperties
    <3>5. DOMAIN stack' = 1 .. Len(stack) + 1
      BY <3>4, LenProperties
    <3>6. \A i \in 1 .. Len(stack) + 1 : i \in 1 .. Len(stack) \/ i = Len(stack) + 1
      BY <1>0, <2>1
    <3>7. \A i \in 1 .. Len(stack) + 1 : Opened(i)' <=> i \in 1 .. Len(stack)
      BY <1>0, <2>1, <3>3, <3>4 DEF Opened
    <3>8. f.dir = Append(Cwd, n) /\ (Quiet(f.dir) => IsDirectory(f.dir))
      <4>1. f.dir = Append(Cwd, n)
        BY <2>3, FreshFacts DEF f
      <4>2. \E x \in Found(Append(Cwd, n)) : x.kind = "dir"
        BY <2>3 DEF EntryEnters
      <4>3. QED
        BY <2>1, <4>1, <4>2, QuietChild DEF Types, IsDirectory
    <3>9. QED
      BY <2>1, <2>k, <2>q, <3>1, <3>2, <3>4, <3>5, <3>6, <3>7, <3>8, SameChildren DEF StackInv
  <2>4. ASSUME NEW n \in Nat, Append(Cwd, n) \in Paths, EntryLists(n) PROVE StackInv'
    <3>1. /\ DOMAIN Listed(n) = 1 .. Len(stack)
          /\ \A i \in 1 .. Len(stack) : /\ Listed(n)[i].dir = stack[i].dir
                                        /\ Listed(n)[i].stable = stack[i].stable
      BY <2>1, ListedFrames
    <3>2. stack' = Listed(n) /\ pc' = "iterate"
      BY <2>1, <2>4 DEF EntryLists
    <3>3. \A i : Opened(i)'
      BY <3>2 DEF Opened
    <3>4. QED
      BY <2>1, <2>k, <2>q, <3>1, <3>2, <3>3, SameChildren DEF StackInv
  <2>5. QED
    BY <1>3, <2>2, <2>3, <2>4, EntryCases
<1>4. CASE Return
  <2>1. CASE Len(stack) = 1
    BY <1>4, <1>e, <2>1 DEF Return
  <2>2. CASE Len(stack) # 1
    <3>1. pc = "iterate" /\ pc' = pc /\ stack' = Front(stack) /\ UNCHANGED <<tree, touched>>
      BY <1>4, <2>2 DEF Return
    <3>2. /\ DOMAIN stack' = 1 .. Len(stack) - 1
          /\ \A i \in 1 .. Len(stack) - 1 : stack'[i] = stack[i] /\ i \in DOMAIN stack
      BY <1>0, <2>2, <3>1, PoppedFrames DEF Types
    <3>3. \A i : Opened(i)' /\ Opened(i)
      BY <3>1 DEF Opened
    <3>4. QED
      BY <3>1, <3>2, <3>3, SameChildren DEF StackInv
  <2>3. QED
    BY <2>1, <2>2
<1>5. CASE Rescan
  <2>1. stack' = <<Fresh(<<>>)>> /\ pc' = "enter"
    BY <1>5 DEF Rescan
  <2>2. /\ DOMAIN stack' = {1} /\ stack'[1].listed = {} /\ Len(stack') = 1
        /\ stack'[1].dir = <<>>
    BY <2>1, OneFrame
  <2>3. ~Opened(1)'
    BY <2>1, <2>2 DEF Opened
  <2>4. IsDirectory(<<>>)'
    BY <1>5 DEF Rescan, TreeInv, IsTree, IsDirectory
  <2>5. QED
    BY <2>2, <2>3, <2>4 DEF StackInv
<1>6. CASE Writer
  <2>1. PICK t, which, gone : Change(t, which, gone) /\ gone \subseteq which /\ Replaces(t, which)
    BY <1>6, WriterCases DEF Types
  <2>2. /\ tree' = t /\ touched' = touched \union which /\ stack' = Unstable(gone) /\ pc' = pc
    BY <2>1 DEF Change
  <2>3. /\ Len(stack') = Len(stack) /\ DOMAIN stack' = DOMAIN stack
        /\ \A i \in DOMAIN stack :
             /\ stack'[i].dir = stack[i].dir /\ stack'[i].listed = stack[i].listed
             /\ stack'[i].stable =
                  stack[i].stable \ {Last(p) : p \in {q \in gone : Front(q) = stack[i].dir}}
    BY <2>2, UnstableFrames DEF Types
  <2>4. \A i : Opened(i)' <=> Opened(i)
    BY <2>2, <2>3 DEF Opened
  <2>5. ASSUME NEW i \in DOMAIN stack, Opened(i), NEW n \in Nat,
               NEW p, p = Append(stack[i].dir, n), p \in DOMAIN t, Quiet(p)'
        PROVE  n \in stack'[i].stable
    <3>1. stack[i].dir \in Seq(Nat) /\ stack[i] \in FrameType
      BY FrameFields, PathsAreSeqs, ElementOfSeq, LenProperties DEF Types, TypeOK
    <3>2. p \in Seq(Nat)
      BY <2>5, <3>1, ChildFacts
    <3>3. Quiet(p) /\ p \notin which
      <4>1. \A k \in 0 .. Len(p) : SubSeq(p, 1, k) \notin touched /\ SubSeq(p, 1, k) \notin which
        BY <2>2, <2>5 DEF Quiet
      <4>2. Len(p) \in 0 .. Len(p) /\ SubSeq(p, 1, Len(p)) = p
        BY <3>2, LenProperties, SubSeqFull
      <4>3. QED
        BY <4>1, <4>2 DEF Quiet
    <3>4. p \in DOMAIN tree
      BY <2>1, <2>5, <3>3 DEF Replaces
    <3>5. n \in stack[i].stable
      BY <2>5, <3>3, <3>4 DEF StackInv
    <3>6. \A q \in gone : Front(q) = stack[i].dir => Last(q) # n
      <4> SUFFICES ASSUME NEW q \in gone, Front(q) = stack[i].dir, Last(q) = n PROVE FALSE
        OBVIOUS
      <4>1. q \in Seq(Nat)
        BY <2>1, PathsAreSeqs DEF Replaces
      <4>2. CASE q # <<>>
        <5>1. q = p
          BY <2>5, <4>1, <4>2, FrontFacts
        <5>2. QED
          BY <2>1, <3>3, <5>1
      <4>3. CASE q = <<>>
        <5>1. <<>> \in which
          BY <2>1, <4>3
        <5>2. 0 \in 0 .. Len(p) /\ SubSeq(p, 1, 0) = <<>>
          <6>1. 0 \in 0 .. Len(p)
            BY <3>2, LenProperties
          <6>2. SubSeq(p, 1, 0) \in Seq(Nat) /\ Len(SubSeq(p, 1, 0)) = 0
            BY <3>2, <6>1, PrefixFacts
          <6>3. QED
            BY <6>1, <6>2, EmptySeq
        <5>3. SubSeq(p, 1, 0) \notin touched'
          BY <2>5, <5>2 DEF Quiet
        <5>4. QED
          BY <2>2, <5>1, <5>2, <5>3
      <4>4. QED
        BY <4>2, <4>3
    <3>7. QED
      BY <2>3, <3>5, <3>6
  <2>6. ASSUME NEW i \in DOMAIN stack, NEW d, d = stack[i].dir, Quiet(d)' PROVE IsDirectory(d)'
    <3>1. d \in Seq(Nat)
      BY <2>6, FrameFields, PathsAreSeqs, ElementOfSeq, LenProperties DEF Types, TypeOK
    <3>2. \A k \in 0 .. Len(d) : SubSeq(d, 1, k) \notin touched /\ SubSeq(d, 1, k) \notin which
      BY <2>2, <2>6 DEF Quiet
    <3>3. Len(d) \in 0 .. Len(d) /\ SubSeq(d, 1, Len(d)) = d
      BY <3>1, LenProperties, SubSeqFull
    <3>4. Quiet(d) /\ d \notin which
      BY <3>2, <3>3 DEF Quiet
    <3>5. IsDirectory(d)
      BY <2>6, <3>4 DEF StackInv
    <3>6. QED
      BY <2>1, <2>2, <3>4, <3>5 DEF IsDirectory, Replaces
  <2>7. QED
    BY <2>2, <2>3, <2>4, <2>5, <2>6 DEF StackInv
<1>7. CASE UNCHANGED vars
  <2>1. UNCHANGED <<tree, touched, stack, pc>>
    BY <1>7 DEF vars
  <2>2. QED
    BY <2>1, SameChildren DEF StackInv, Opened
<1>8. QED
  BY <1>1, <1>2, <1>3, <1>4, <1>5, <1>6, <1>7 DEF Next, Scan

-----------------------------------------------------------------------------
(* What is listed and what is ahead *)

LEMMA FilesFacts ==
  ASSUME TreeInv, NEW p \in Files(tree)
  PROVE  /\ p \in DOMAIN tree /\ p \in Paths /\ p \in Seq(Nat) /\ p # <<>>
         /\ tree[p].kind = "file" /\ Len(p) \in Nat \ {0}
<1>1. p \in DOMAIN tree /\ tree[p].kind = "file" /\ p \in Paths /\ p # <<>>
  BY DEF Files, TreeInv, IsTree, ListingOf
<1>2. QED
  BY <1>1, PathsAreSeqs, EmptySeq

\* The name in which a path goes on below a frame's directory.
LEMMA AheadFacts ==
  ASSUME TreeInv, NEW p \in DOMAIN tree, NEW f \in FrameType, Ahead(p, f)
  PROVE  LET n == p[Len(f.dir) + 1]
             c == Append(f.dir, n)
         IN /\ n \in Nat /\ n \notin f.listed /\ c \in DOMAIN tree
            /\ Len(c) = Len(f.dir) + 1 /\ Len(c) <= Len(p) /\ SubSeq(p, 1, Len(c)) = c
            /\ Quiet(p) => Quiet(c)
            /\ Len(c) # Len(p) => tree[c].kind = "dir"
            /\ Len(c) = Len(p) => c = p
<1> DEFINE k == Len(f.dir)
           n == p[k + 1]
           c == Append(f.dir, n)
<1>1. p \in DOMAIN tree /\ p \in Seq(Nat) /\ Len(p) \in Nat
  BY PathsAreSeqs DEF TreeInv, IsTree, ListingOf
<1>2. f.dir \in Seq(Nat) /\ k \in Nat
  BY FrameFields, PathsAreSeqs
<1>3. k < Len(p) /\ SubSeq(p, 1, k) = f.dir /\ n \notin f.listed
  BY DEF Ahead
<1> HIDE DEF k
<1>4. k \in 0 .. Len(p) - 1 /\ k + 1 \in 0 .. Len(p)
  BY <1>1, <1>2, <1>3
<1>5. n \in Nat /\ c = SubSeq(p, 1, k + 1)
  BY <1>1, <1>3, <1>4, NextPrefix
<1> HIDE DEF n, c
<1>6. Len(c) = k + 1
  BY <1>1, <1>4, <1>5, PrefixFacts
<1>7. Quiet(p) => Quiet(c)
  BY <1>1, <1>4, <1>5, QuietAbove
<1>8. k + 1 = Len(p) => c = p
  BY <1>1, <1>5, SubSeqFull
<1>9. k + 1 # Len(p) => c \in DOMAIN tree /\ tree[c].kind = "dir"
  <2>1. k + 1 # Len(p) => k + 1 \in 0 .. Len(p) - 1
    BY <1>1, <1>4
  <2>2. QED
    BY <1>1, <1>5, <2>1 DEF TreeInv, IsTree
<1>10. k + 1 <= Len(p) /\ SubSeq(p, 1, k + 1) = c
  BY <1>4, <1>5
<1>11. QED
  BY <1>1, <1>3, <1>5, <1>6, <1>7, <1>8, <1>9, <1>10 DEF k, n, c

\* An entry leaves ahead of some frame what was ahead of another, but for the file
\* that it lists.
LEMMA CoverKept ==
  ASSUME CoverInv, UNCHANGED <<tree, touched, entries>>, pc # "idle",
         \A p \in Files(tree) : \A i \in DOMAIN stack :
           Quiet(p) /\ Ahead(p, stack[i]) => \E j \in DOMAIN stack' : Ahead(p, stack'[j])
  PROVE  CoverInv'
  BY DEF CoverInv, Quiet, Files

LEMMA CoverStep ==
  ASSUME Types, TreeInv, PhaseInv, StackInv, CoverInv, [Next]_vars
  PROVE  CoverInv'
<1>e. ASSUME NEW how \in {"limit", "unsafe"}, Ends(how), UNCHANGED <<tree, touched, entries>>
      PROVE  CoverInv'
  BY <1>e DEF Ends, CoverInv, Quiet, Files
<1>0. pc # "idle" => /\ stack # <<>> /\ Len(stack) \in Nat \ {0} /\ Len(stack) \in 1 .. Len(stack)
                     /\ DOMAIN stack = 1 .. Len(stack)
                     /\ \A i \in 1 .. Len(stack) : stack[i] \in FrameType
                     /\ Cwd = stack[Len(stack)].dir /\ Cwd \in Paths /\ Cwd \in Seq(Nat)
  BY TopFrame, PathsAreSeqs DEF Types, Cwd
<1>1. CASE Enter
  <2>1. pc = "enter" /\ UNCHANGED <<tree, touched, entries>>
    BY <1>1 DEF Enter
  <2>2. CASE \E how \in {"limit", "unsafe"} : Ends(how)
    BY <1>e, <2>1, <2>2
  <2>3. CASE UNCHANGED stack
    BY <2>1, <2>3, CoverKept
  <2>4. QED
    BY <1>1, <2>2, <2>3 DEF Enter
<1>2. CASE Open
  <2>1. pc = "open" /\ UNCHANGED <<tree, touched, entries>>
    BY <1>2 DEF Open
  <2>2. CASE Ends("unsafe")
    BY <1>e, <2>1, <2>2
  <2>3. CASE ~Ends("unsafe")
    <3>1. /\ DOMAIN stack' = DOMAIN stack
          /\ \A i \in DOMAIN stack : stack'[i].dir = stack[i].dir /\ stack'[i].listed = stack[i].listed
      BY <1>0, <1>2, <2>1, <2>3, OpenFrames
    <3>2. \A p : \A i \in DOMAIN stack : Ahead(p, stack[i]) => Ahead(p, stack'[i])
      BY <3>1 DEF Ahead
    <3>3. QED
      BY <2>1, <3>1, <3>2, CoverKept
  <2>4. QED
    BY <2>2, <2>3
<1>3. CASE Entry
  <2>1. pc = "iterate" /\ stack # <<>> /\ UNCHANGED <<tree, touched>>
    BY <1>3, EntryCases
  <2>2. CASE EntryEnds
    BY <1>e, <2>1, <2>2 DEF EntryEnds
  <2> DEFINE k == Len(stack)
  <2>3. /\ k \in Nat \ {0} /\ k \in 1 .. k /\ DOMAIN stack = 1 .. k
        /\ \A i \in 1 .. k : stack[i] \in FrameType
        /\ Cwd = stack[k].dir /\ Cwd \in Seq(Nat)
    BY <1>0, <2>1
  <2>4. ASSUME NEW n \in Nat
        PROVE  /\ Listed(n) \in Seq(FrameType) /\ Len(Listed(n)) = k /\ DOMAIN Listed(n) = 1 .. k
               /\ \A p : \A i \in 1 .. k :
                    Ahead(p, stack[i]) =>
                      \/ Ahead(p, Listed(n)[i])
                      \/ i = k /\ p[Len(Cwd) + 1] = n
    <3>1. /\ Listed(n) \in Seq(FrameType) /\ Len(Listed(n)) = k /\ DOMAIN Listed(n) = 1 .. k
          /\ \A i \in 1 .. k :
               /\ Listed(n)[i].dir = stack[i].dir
               /\ i # k => Listed(n)[i].listed = stack[i].listed
               /\ i = k => Listed(n)[i].listed = stack[i].listed \union {n}
      BY <2>1, ListedFrames
    <3>2. QED
      BY <2>3, <3>1 DEF Ahead
  <2> HIDE DEF k
  <2>5. ASSUME NEW n \in Nat, Append(Cwd, n) \in Paths, EntryEnters(n) PROVE CoverInv'
    <3> DEFINE c == Append(Cwd, n)
               f == Fresh(c)
    <3>1. /\ f \in FrameType /\ f.listed = {} /\ f.dir = c
          /\ stack' = Append(Listed(n), f) /\ UNCHANGED entries
          /\ \E x \in Found(c) : x.kind = "dir"
      BY <2>5, FreshFacts DEF EntryEnters
    <3> HIDE DEF f
    <3>2. /\ stack' \in Seq(FrameType) /\ Len(stack') = k + 1
          /\ \A i \in 1 .. k : stack'[i] = Listed(n)[i]
          /\ stack'[k + 1] = f
      BY <2>3, <2>4, <3>1, AppendProperties
    <3>3. DOMAIN stack' = 1 .. k + 1
      BY <3>2, LenProperties
    <3>4. ASSUME NEW p \in Files(tree), NEW i \in DOMAIN stack, Ahead(p, stack[i])
          PROVE  \E j \in DOMAIN stack' : Ahead(p, stack'[j])
      <4>1. CASE Ahead(p, Listed(n)[i])
        <5>1. i \in 1 .. k /\ i \in 1 .. k + 1
          BY <2>3
        <5>2. QED
          BY <3>2, <3>3, <4>1, <5>1
      <4>2. CASE i = k /\ p[Len(Cwd) + 1] = n
        <5>1. /\ SubSeq(p, 1, Len(c)) = c /\ Len(c) <= Len(p)
              /\ Len(c) = Len(p) => c = p
          BY <2>3, <3>4, <4>2, AheadFacts DEF Files
        <5>2. Len(c) \in Nat /\ Len(p) \in Nat
          BY <2>5, PathsAreSeqs, FilesFacts
        <5>3. c # p
          BY <3>1, FilesFacts, Physical
        <5>4. Len(c) < Len(p)
          BY <5>1, <5>2, <5>3
        <5>5. Ahead(p, f)
          BY <3>1, <5>1, <5>4 DEF Ahead
        <5>6. k + 1 \in DOMAIN stack'
          BY <2>3, <3>3
        <5>7. QED
          BY <3>2, <5>5, <5>6
      <4>3. QED
        BY <2>3, <2>4, <3>4, <4>1, <4>2
    <3>5. QED
      BY <2>1, <3>1, <3>4, CoverKept
  <2>6. ASSUME NEW n \in Nat, Append(Cwd, n) \in Paths, EntryLists(n) PROVE CoverInv'
    <3> DEFINE c == Append(Cwd, n)
    <3>1. PICK x \in Found(c) : x.kind = "file" /\ entries' = With(entries, c, x)
      BY <2>6 DEF EntryLists
    <3>l. stack' = Listed(n)
      BY <2>6 DEF EntryLists
    <3>2. c \in DOMAIN tree => tree[c].kind = "file"
      BY <3>1, Physical
    <3>3. /\ DOMAIN entries' = DOMAIN entries \union {c} /\ entries'[c] = x
          /\ \A q \in DOMAIN entries : q # c => entries'[q] = entries[q]
      BY <3>1 DEF With
    <3>q. Quiet(c) => c \in Files(tree) /\ x = tree[c]
      BY <2>1, <3>1, QuietChild DEF Types, Files
    <3>4. ASSUME NEW p \in Files(tree), NEW i \in DOMAIN stack, Ahead(p, stack[i])
          PROVE  p \in DOMAIN entries' \/ \E j \in DOMAIN stack' : Ahead(p, stack'[j])
      <4>1. CASE Ahead(p, Listed(n)[i])
        BY <2>3, <2>4, <3>l, <4>1
      <4>2. CASE i = k /\ p[Len(Cwd) + 1] = n
        <5>1. c \in DOMAIN tree /\ (Len(c) # Len(p) => tree[c].kind = "dir")
          BY <2>3, <3>4, <4>2, AheadFacts DEF Files
        <5>2. Len(c) = Len(p) => c = p
          BY <2>3, <3>4, <4>2, AheadFacts DEF Files
        <5>3. c = p
          BY <3>2, <5>1, <5>2
        <5>4. QED
          BY <3>3, <5>3
      <4>3. QED
        BY <2>3, <2>4, <3>4, <4>1, <4>2
    <3> HIDE DEF c
    <3>5. \A p \in Files(tree) : Quiet(p) =>
            p \in DOMAIN entries' \/ \E j \in DOMAIN stack' : Ahead(p, stack'[j])
      BY <2>1, <3>3, <3>4 DEF CoverInv
    <3>6. \A p \in DOMAIN entries' : Quiet(p) => p \in Files(tree) /\ entries'[p] = tree[p]
      BY <3>3, <3>q DEF CoverInv
    <3>7. \A p : Quiet(p)' <=> Quiet(p)
      BY <2>1 DEF Quiet
    <3>8. Files(tree') = Files(tree)
      BY <2>1
    <3>9. QED
      BY <2>1, <3>5, <3>6, <3>7, <3>8 DEF CoverInv
  <2>7. QED
    BY <1>3, <2>2, <2>5, <2>6, EntryCases
<1>4. CASE Return
  <2>1. /\ pc = "iterate" /\ UNCHANGED <<tree, touched, entries>>
        /\ stack[Len(stack)].stable \subseteq stack[Len(stack)].listed
    BY <1>4 DEF Return
  <2>2. \A p \in Files(tree) : Quiet(p) => ~Ahead(p, stack[Len(stack)])
    <3> SUFFICES ASSUME NEW p \in Files(tree), Quiet(p), Ahead(p, stack[Len(stack)]) PROVE FALSE
      OBVIOUS
    <3> DEFINE f == stack[Len(stack)]
               n == p[Len(f.dir) + 1]
    <3>1. f \in FrameType
      BY <1>0, <2>1
    <3>2. n \in Nat /\ n \notin f.listed /\ Append(f.dir, n) \in DOMAIN tree
          /\ Quiet(Append(f.dir, n))
      BY <3>1, AheadFacts DEF Files
    <3>3. n \in f.stable
      BY <1>0, <2>1, <3>2 DEF StackInv, Opened
    <3>4. QED
      BY <2>1, <3>2, <3>3
  <2>3. CASE Len(stack) = 1
    <3>1. Ends("ok")
      BY <1>4, <2>3 DEF Return
    <3>2. \A p \in Files(tree) : Quiet(p) => p \in DOMAIN entries
      BY <1>0, <2>1, <2>2, <2>3 DEF CoverInv
    <3>3. (\A p : Quiet(p)' <=> Quiet(p)) /\ Files(tree') = Files(tree)
      BY <2>1 DEF Quiet
    <3>4. QED
      BY <2>1, <3>2, <3>3 DEF CoverInv
  <2>4. CASE Len(stack) # 1
    <3>1. stack' = Front(stack)
      BY <1>4, <2>4 DEF Return
    <3>2. /\ DOMAIN stack' = 1 .. Len(stack) - 1
          /\ \A i \in 1 .. Len(stack) - 1 : stack'[i] = stack[i]
      BY <1>0, <2>1, <2>4, <3>1, PoppedFrames DEF Types
    <3>3. \A i \in DOMAIN stack : i = Len(stack) \/ i \in 1 .. Len(stack) - 1
      BY <1>0, <2>1
    <3>4. QED
      BY <2>1, <2>2, <3>2, <3>3, CoverKept
  <2>5. QED
    BY <2>3, <2>4
<1>5. CASE Rescan
  <2>1. stack' = <<Fresh(<<>>)>> /\ entries' = Empty /\ UNCHANGED tree
    BY <1>5 DEF Rescan
  <2>2. DOMAIN stack' = {1} /\ stack'[1].dir = <<>> /\ stack'[1].listed = {}
    BY <2>1, OneFrame
  <2>3. ASSUME NEW p \in Files(tree) PROVE Ahead(p, stack'[1])
    <3>1. p \in Seq(Nat) /\ Len(p) \in Nat \ {0}
      BY FilesFacts
    <3>2. Len(<<>>) = 0 /\ 0 \in 0 .. Len(p) /\ 0 < Len(p)
      BY <3>1
    <3>3. SubSeq(p, 1, 0) = <<>>
      BY <3>1, <3>2, PrefixFacts, EmptySeq
    <3>4. QED
      BY <2>2, <3>2, <3>3 DEF Ahead
  <2>4. DOMAIN entries' = {}
    BY <2>1 DEF Empty
  <2>5. QED
    BY <2>1, <2>2, <2>3, <2>4 DEF CoverInv
<1>6. CASE Writer
  <2>1. PICK t, which, gone : Change(t, which, gone) /\ gone \subseteq which /\ Replaces(t, which)
    BY <1>6, WriterCases DEF Types
  <2>2. /\ tree' = t /\ touched' = touched \union which /\ stack' = Unstable(gone)
        /\ UNCHANGED <<pc, entries, outcome>>
    BY <2>1 DEF Change
  <2>3. /\ DOMAIN stack' = DOMAIN stack
        /\ \A i \in DOMAIN stack : stack'[i].dir = stack[i].dir /\ stack'[i].listed = stack[i].listed
    BY <2>2, UnstableFrames DEF Types
  <2>4. \A p : \A i \in DOMAIN stack : Ahead(p, stack[i]) => Ahead(p, stack'[i])
    BY <2>3 DEF Ahead
  <2>5. ASSUME NEW p \in Paths, Quiet(p)'
        PROVE  /\ Quiet(p) /\ (p \in Files(tree') <=> p \in Files(tree))
               /\ p \in Files(tree) => tree'[p] = tree[p]
    <3>1. \A n \in 0 .. Len(p) : SubSeq(p, 1, n) \notin touched /\ SubSeq(p, 1, n) \notin which
      BY <2>2, <2>5 DEF Quiet
    <3>2. Len(p) \in 0 .. Len(p) /\ SubSeq(p, 1, Len(p)) = p
      BY PathsAreSeqs, SubSeqFull
    <3>3. p \notin which /\ Quiet(p)
      BY <3>1, <3>2 DEF Quiet
    <3>4. QED
      BY <2>1, <2>2, <3>3 DEF Replaces, Files
  <2>6. /\ \A p \in Files(tree') : p \in Paths
        /\ \A p \in DOMAIN entries : p \in Paths
    BY <2>1, <2>2 DEF Replaces, IsTree, ListingOf, Files, Types, TypeOK
  <2>7. ASSUME pc' # "idle" \/ outcome' = "ok", NEW p \in Files(tree'), Quiet(p)'
        PROVE  p \in DOMAIN entries' \/ \E i \in DOMAIN stack' : Ahead(p, stack'[i])
    <3>1. p \in Files(tree) /\ Quiet(p)
      BY <2>5, <2>6, <2>7
    <3>2. QED
      BY <2>2, <2>3, <2>4, <2>7, <3>1 DEF CoverInv
  <2>8. ASSUME NEW p \in DOMAIN entries', Quiet(p)'
        PROVE  p \in Files(tree') /\ entries'[p] = tree'[p]
    <3>1. p \in Paths /\ p \in DOMAIN entries
      BY <2>2, <2>6
    <3>2. QED
      BY <2>2, <2>5, <2>8, <3>1 DEF CoverInv
  <2>9. QED
    BY <2>7, <2>8 DEF CoverInv
<1>7. CASE UNCHANGED vars
  BY <1>7 DEF vars, CoverInv, Quiet, Files
<1>8. QED
  BY <1>1, <1>2, <1>3, <1>4, <1>5, <1>6, <1>7 DEF Next, Scan

-----------------------------------------------------------------------------
(* Both inventories *)

LEMMA ManifestStep ==
  ASSUME Types, TreeInv, PhaseInv, StackInv, CoverInv, ManifestInv, [Next]_vars
  PROVE  ManifestInv'
<1>k. ASSUME UNCHANGED <<start, phase, outcome, manifest>> PROVE ManifestInv'
  BY <1>k DEF ManifestInv
<1>e. ASSUME NEW how \in {"limit", "unsafe"}, Ends(how) PROVE ManifestInv'
  BY <1>e DEF Ends, ManifestInv
<1>1. CASE Enter
  BY <1>1, <1>e, <1>k DEF Enter
<1>2. CASE Open
  BY <1>2, <1>e, <1>k DEF Open, Iterates
<1>3. CASE Entry
  <2>1. UNCHANGED start
    BY <1>3 DEF Entry
  <2>2. QED
    BY <1>3, <1>e, <1>k, <2>1, EntryCases DEF EntryEnds, EntryEnters, EntryLists
<1>4. CASE Return
  <2>1. CASE Len(stack) = 1
    <3>1. Ends("ok") /\ pc = "iterate" /\ UNCHANGED <<start, tree, touched, entries>>
      BY <1>4, <2>1 DEF Return
    <3>2. CASE phase = "before"
      <4>1. tree = start /\ touched = {} /\ manifest' = entries
        BY <3>1, <3>2 DEF PhaseInv, Ends
      <4>2. CoverInv'
        BY <1>4, CoverStep DEF Next, Scan
      <4>3. \A p : Quiet(p)
        BY <4>1 DEF Quiet
      <4>4. \A p \in Files(tree) : p \in DOMAIN entries
        <5>1. outcome' = "ok" /\ stack' = <<>> /\ (\A p : Quiet(p)' <=> Quiet(p))
              /\ Files(tree') = Files(tree)
          BY <3>1 DEF Ends, Quiet
        <5>2. DOMAIN stack' = {}
          BY <5>1
        <5>3. QED
          BY <3>1, <4>2, <4>3, <5>1, <5>2 DEF CoverInv
      <4>5. \A p \in DOMAIN entries : p \in Files(tree) /\ entries[p] = tree[p]
        BY <4>3 DEF CoverInv
      <4>6. QED
        BY <3>1, <4>1, <4>4, <4>5 DEF ManifestInv
    <3>3. CASE phase # "before"
      <4>1. phase = "after"
        BY <3>1, <3>3 DEF PhaseInv
      <4>2. QED
        BY <3>1, <4>1 DEF Ends, ManifestInv
    <3>4. QED
      BY <3>2, <3>3
  <2>2. CASE Len(stack) # 1
    BY <1>4, <1>k, <2>2 DEF Return
  <2>3. QED
    BY <2>1, <2>2
<1>5. CASE Rescan
  BY <1>5 DEF Rescan, ManifestInv
<1>6. CASE Writer
  BY <1>6, <1>k DEF Writer, Create, Rewrite, Delete, Rename, Change
<1>7. CASE UNCHANGED vars
  BY <1>7, <1>k DEF vars
<1>8. QED
  BY <1>1, <1>2, <1>3, <1>4, <1>5, <1>6, <1>7 DEF Next, Scan

LEMMA InitScan == Init => ScanInv
<1> SUFFICES ASSUME Init PROVE ScanInv
  OBVIOUS
<1>1. /\ tree \in Trees /\ start = tree /\ changes = 0 /\ phase = "before" /\ pc = "enter"
      /\ stack = <<Fresh(<<>>)>> /\ budget = NoBudget /\ entries = Empty /\ manifest = Empty
      /\ outcome = "none" /\ touched = {}
  BY DEF Init
<1>2. TreeInv
  BY <1>1, TreesAssumption DEF TreeInv, IsTree, ListingOf
<1>3. ListingOf(Empty) /\ DOMAIN Empty = {}
  BY DEF ListingOf, Empty
<1>4. NoBudget \in BudgetType /\ NoBudget.files = 0 /\ NoBudget.bytes = 0
      /\ NoBudget.directories = 0
  BY Limits DEF NoBudget, BudgetType
<1>5. /\ stack \in Seq(FrameType) /\ Len(stack) = 1 /\ stack # <<>> /\ DOMAIN stack = {1}
      /\ stack[1].dir = <<>> /\ stack[1].listed = {}
  BY <1>1, OneFrame
<1>6. TypeOK
  BY <1>1, <1>2, <1>3, <1>4, <1>5, Limits DEF TypeOK, TreeInv, IsTree, BudgetType
<1>7. LimitInv /\ PhaseInv
  BY <1>1, <1>4, <1>5, Limits DEF LimitInv, PhaseInv
<1>8. StackInv
  <2>1. ~Opened(1)
    BY <1>1, <1>5 DEF Opened
  <2>2. IsDirectory(<<>>)
    BY <1>2 DEF TreeInv, IsTree, IsDirectory
  <2>3. QED
    BY <1>5, <2>1, <2>2 DEF StackInv
<1>9. CoverInv
  <2>1. ASSUME NEW p \in Files(tree) PROVE Ahead(p, stack[1])
    <3>1. p \in Seq(Nat) /\ Len(p) \in Nat \ {0}
      BY <1>2, FilesFacts
    <3>2. Len(<<>>) = 0 /\ 0 \in 0 .. Len(p) /\ 0 < Len(p)
      BY <3>1
    <3>3. SubSeq(p, 1, 0) = <<>>
      BY <3>1, <3>2, PrefixFacts, EmptySeq
    <3>4. QED
      BY <1>5, <3>2, <3>3 DEF Ahead
  <2>2. QED
    BY <1>1, <1>3, <1>5, <2>1 DEF CoverInv
<1>10. ManifestInv
  BY <1>1 DEF ManifestInv
<1>11. QED
  BY <1>2, <1>6, <1>7, <1>8, <1>9, <1>10 DEF ScanInv

\* What the scans know, and what they have left to list, whatever is written beside
\* them.  (capture_output_manifest, _scan_directory)
THEOREM ScanInvariance == Spec => []ScanInv
<1>1. ScanInv /\ [Next]_vars => ScanInv'
  <2> SUFFICES ASSUME ScanInv, [Next]_vars PROVE ScanInv'
    OBVIOUS
  <2>1. Types
    BY DEF ScanInv, PhaseInv, Types
  <2>2. Types' /\ TreeInv'
    BY <2>1, TypeStep DEF ScanInv
  <2>3. PhaseInv' /\ StackInv' /\ CoverInv' /\ ManifestInv'
    BY <2>1, PhaseStep, StackStep, CoverStep, ManifestStep DEF ScanInv
  <2>4. QED
    BY <2>2, <2>3 DEF ScanInv, Types
<1>2. QED
  BY <1>1, InitScan, PTL DEF Spec

\* The recursion and the counters stay within one step of their limits, for every
\* output and every change beside the scan.  (enter_directory, add_entry)
THEOREM ManifestTypes == Spec => []TypeOK
<1>1. ScanInv => TypeOK
  BY DEF ScanInv
<1>2. QED
  BY <1>1, ScanInvariance, PTL

\* The difference of the inventories is exact about every path that nothing touched
\* during the second scan.  (diff_output_manifests)
THEOREM DifferenceIsExact == Spec => []DiffIsExact
<1>1. ScanInv => DiffIsExact
  <2> SUFFICES ASSUME ScanInv, phase = "done", outcome = "ok", NEW p \in Paths, Quiet(p)
               PROVE  /\ p \in Created(manifest, entries) <=> p \in Files(tree) \ Files(start)
                      /\ p \in Deleted(manifest, entries) <=> p \in Files(start) \ Files(tree)
                      /\ p \in Modified(manifest, entries) <=>
                           p \in Files(start) \cap Files(tree) /\ start[p] # tree[p]
    BY DEF DiffIsExact
  <2>1. pc = "idle" /\ stack = <<>> /\ DOMAIN stack = {}
    BY DEF ScanInv, PhaseInv
  <2>2. (p \in Files(tree) <=> p \in DOMAIN entries)
        /\ (p \in Files(tree) => entries[p] = tree[p])
    BY <2>1 DEF ScanInv, CoverInv
  <2>3. DOMAIN manifest = Files(start) /\ \A q \in Files(start) : manifest[q] = start[q]
    BY DEF ScanInv, ManifestInv
  <2>4. QED
    BY <2>2, <2>3 DEF Created, Deleted, Modified
<1>2. QED
  BY <1>1, ScanInvariance, PTL

-----------------------------------------------------------------------------
(* The bytes of a listing *)

\* A listing whose bytes can be added.
Finite(f) == IsFiniteSet(DOMAIN f) /\ \A p \in DOMAIN f : f[p].size \in Nat
SizesOf(f) == [p \in DOMAIN f |-> f[p].size]

LEMMA SizesCount == ASSUME NEW f, Finite(f) PROVE Counts(SizesOf(f), DOMAIN f)
  BY DEF Finite, Counts, SizesOf

LEMMA BytesAre ==
  ASSUME NEW f, Finite(f), NEW g, Adds(g, SizesOf(f), DOMAIN f)
  PROVE  Bytes(f) = g[DOMAIN f]
<1> DEFINE N == DOMAIN f
           iter[U \in SUBSET N] ==
             IF U = {} THEN 0 ELSE f[Pick(U)].size + iter[U \ {Pick(U)}]
<1>1. Bytes(f) = iter[N]
  BY DEF Bytes, MapThenSumSet, MapThenFoldSet, Pick
<1>2. ASSUME NEW U \in SUBSET N, U # {}
      PROVE  Pick(U) \in U /\ U \ {Pick(U)} \in SUBSET N
             /\ SizesOf(f)[Pick(U)] = f[Pick(U)].size /\ f[Pick(U)].size \in Nat
  BY <1>2, Picked DEF SizesOf, Finite
<1>3. PICK s : Sums(s, SizesOf(f), N)
  BY SizesCount, SumsExist DEF Finite
<1>4. ASSUME NEW U \in SUBSET N, U # {} PROVE s[U] = f[Pick(U)].size + s[U \ {Pick(U)}]
  <2>1. s[U] = s[U \ {Pick(U)}] + f[Pick(U)].size /\ s[U \ {Pick(U)}] \in Nat
    BY <1>2, <1>3, <1>4 DEF Sums, Adds
  <2>2. QED
    BY <1>2, <1>4, <2>1
<1>5. s = [U \in SUBSET N |-> IF U = {} THEN 0 ELSE f[Pick(U)].size + s[U \ {Pick(U)}]]
  BY <1>3, <1>4 DEF Sums, Adds
<1>6. iter = [U \in SUBSET N |->
                IF U = {} THEN 0 ELSE f[Pick(U)].size + iter[U \ {Pick(U)}]]
  BY <1>5
<1> HIDE DEF iter
<1>7. iter[N] = s[N]
  <2> DEFINE T == {U \in SUBSET N : iter[U] = s[U]}
  <2>1. {} \in T
    BY <1>3, <1>6 DEF Sums, Adds
  <2>2. ASSUME NEW U \in SUBSET N, U # {}, \A V \in SUBSET U : V # U => V \in T
        PROVE  U \in T
    <3>1. U \ {Pick(U)} \in SUBSET U /\ U \ {Pick(U)} # U
      BY <1>2, <2>2
    <3>2. iter[U \ {Pick(U)}] = s[U \ {Pick(U)}]
      BY <2>2, <3>1
    <3>3. QED
      BY <1>4, <1>6, <2>2, <3>2
  <2> HIDE DEF T
  <2>3. N \in T
    BY <2>1, <2>2, FiniteInduction DEF Finite
  <2>4. QED
    BY <2>3 DEF T
<1>8. s[N] = g[N]
  BY <1>3, SumUnique DEF Sums, Finite
<1>9. QED
  BY <1>1, <1>7, <1>8

\* A part of a listing has no more bytes.
LEMMA BytesOfPart ==
  ASSUME NEW f, NEW h, Finite(h), DOMAIN f \subseteq DOMAIN h,
         \A p \in DOMAIN f : f[p] = h[p]
  PROVE  Finite(f) /\ Bytes(f) \in Nat /\ Bytes(h) \in Nat /\ Bytes(f) <= Bytes(h)
<1>1. Finite(f)
  BY FS_Subset DEF Finite
<1>2. PICK g : Sums(g, SizesOf(h), DOMAIN h)
  BY SizesCount, SumsExist DEF Finite
<1>3. Bytes(h) = g[DOMAIN h] /\ g[DOMAIN h] \in Nat
  BY <1>2, BytesAre DEF Sums
<1>4. Adds(g, SizesOf(f), DOMAIN f)
  <2>1. \A p \in DOMAIN f : SizesOf(f)[p] = SizesOf(h)[p]
    BY DEF SizesOf
  <2>2. \A U \in SUBSET DOMAIN f : U \in SUBSET DOMAIN h /\ (U # {} => Pick(U) \in DOMAIN f)
    BY Picked
  <2>3. QED
    BY <1>2, <2>1, <2>2 DEF Sums, Adds
<1>5. Bytes(f) = g[DOMAIN f] /\ g[DOMAIN f] \in Nat
  BY <1>1, <1>2, <1>4, BytesAre DEF Sums
<1>6. g[DOMAIN f] <= g[DOMAIN h]
  BY <1>2, SizesCount, SumOfPart DEF Finite
<1>7. QED
  BY <1>1, <1>3, <1>5, <1>6

\* A file more.
LEMMA BytesAdded ==
  ASSUME NEW f, Finite(f), NEW p, p \notin DOMAIN f, NEW x, x.size \in Nat
  PROVE  /\ Finite(With(f, p, x)) /\ Bytes(With(f, p, x)) = Bytes(f) + x.size
         /\ DOMAIN With(f, p, x) = DOMAIN f \union {p}
         /\ Cardinality(DOMAIN With(f, p, x)) = Cardinality(DOMAIN f) + 1
<1> DEFINE h == With(f, p, x)
<1>1. DOMAIN h = DOMAIN f \union {p} /\ h[p] = x /\ \A q \in DOMAIN f : h[q] = f[q]
  BY DEF With
<1> HIDE DEF h
<1>2. IsFiniteSet(DOMAIN h) /\ Cardinality(DOMAIN h) = Cardinality(DOMAIN f) + 1
  BY <1>1, FS_AddElement DEF Finite
<1>3. Finite(h)
  BY <1>1, <1>2 DEF Finite
<1>4. PICK g : Sums(g, SizesOf(h), DOMAIN h)
  BY <1>3, SizesCount, SumsExist DEF Finite
<1>5. TakesOut(g, SizesOf(h), DOMAIN h)
  BY <1>3, <1>4, SizesCount, SumWithout DEF Finite
<1>6. DOMAIN h \ {p} = DOMAIN f /\ SizesOf(h)[p] = x.size
  BY <1>1 DEF SizesOf
<1>7. g[DOMAIN h] = g[DOMAIN f] + x.size
  BY <1>1, <1>5, <1>6 DEF TakesOut
<1>8. Adds(g, SizesOf(f), DOMAIN f)
  <2>1. \A q \in DOMAIN f : SizesOf(f)[q] = SizesOf(h)[q]
    BY <1>1 DEF SizesOf
  <2>2. \A U \in SUBSET DOMAIN f : U \in SUBSET DOMAIN h /\ (U # {} => Pick(U) \in DOMAIN f)
    BY <1>1, Picked
  <2>3. QED
    BY <1>4, <2>1, <2>2 DEF Sums, Adds
<1>9. Bytes(h) = g[DOMAIN h] /\ Bytes(f) = g[DOMAIN f]
  BY <1>3, <1>4, <1>8, BytesAre DEF Sums
<1>10. QED
  BY <1>1, <1>2, <1>3, <1>7, <1>9 DEF h

\* Nothing.
LEMMA NoBytes == Finite(Empty) /\ Bytes(Empty) = 0 /\ Cardinality(DOMAIN Empty) = 0
<1>1. DOMAIN Empty = {}
  BY DEF Empty
<1>2. Finite(Empty) /\ Cardinality(DOMAIN Empty) = 0
  BY <1>1, FS_EmptySet DEF Finite
<1>3. PICK g : Sums(g, SizesOf(Empty), DOMAIN Empty)
  BY <1>2, SizesCount, SumsExist DEF Finite
<1>4. Bytes(Empty) = g[DOMAIN Empty]
  BY <1>2, <1>3, BytesAre DEF Sums
<1>5. g[DOMAIN Empty] = 0
  BY <1>1, <1>3 DEF Sums, Adds
<1>6. QED
  BY <1>2, <1>4, <1>5

-----------------------------------------------------------------------------
(* What the scan has passed *)

\* No frame will come to the path.
PassedBy(p, frames) == \A i \in DOMAIN frames : ~Ahead(p, frames[i])
Passed(p) == PassedBy(p, stack)

\* The directory that is to be entered.
Pending(p) == pc = "enter" /\ p = Cwd

\* Each frame is of a directory in that of the frame before, which returned its name.
Nested(frames) ==
  \A i \in DOMAIN frames :
    /\ Len(frames[i].dir) = i - 1
    /\ \A j \in DOMAIN frames : i < j =>
         SubSeq(frames[j].dir, 1, i - 1) = frames[i].dir /\ frames[j].dir[i] \in frames[i].listed
PlaceInv == Nested(stack)

LEMMA Top ==
  ASSUME Types, stack # <<>>
  PROVE  /\ Len(stack) \in Nat \ {0} /\ Len(stack) \in 1 .. Len(stack)
         /\ DOMAIN stack = 1 .. Len(stack)
         /\ \A i \in 1 .. Len(stack) : /\ stack[i] \in FrameType /\ stack[i].dir \in Paths
                                       /\ stack[i].dir \in Seq(Nat)
         /\ Cwd = stack[Len(stack)].dir /\ Cwd \in Paths /\ Cwd \in Seq(Nat)
<1>1. /\ Len(stack) \in Nat \ {0} /\ Len(stack) \in 1 .. Len(stack)
      /\ DOMAIN stack = 1 .. Len(stack)
      /\ \A i \in 1 .. Len(stack) : stack[i] \in FrameType
      /\ Cwd = stack[Len(stack)].dir /\ Cwd \in Paths
  BY TopFrame DEF Types, Cwd
<1>2. \A i \in 1 .. Len(stack) : stack[i].dir \in Paths /\ stack[i].dir \in Seq(Nat)
  BY <1>1, FrameFields, PathsAreSeqs
<1>3. QED
  BY <1>1, <1>2, PathsAreSeqs

\* Frames that keep their directories and what they returned.
LEMMA SameFrames ==
  ASSUME DOMAIN stack' = DOMAIN stack,
         \A i \in DOMAIN stack : stack'[i].dir = stack[i].dir /\ stack'[i].listed = stack[i].listed
  PROVE  (\A p : Passed(p)' <=> Passed(p)) /\ (PlaceInv => PlaceInv')
<1>1. \A p : Passed(p)' <=> Passed(p)
  BY DEF Passed, PassedBy, Ahead
<1>2. PlaceInv => PlaceInv'
  BY DEF PlaceInv, Nested
<1>3. QED
  BY <1>1, <1>2

\* A name of the innermost directory, and the frames around it.
LEMMA ChildPlace ==
  ASSUME Types, stack # <<>>, PlaceInv, NEW n \in Nat, NEW i \in 1 .. Len(stack) - 1
  PROVE  LET c == Append(Cwd, n) IN
         /\ SubSeq(c, 1, i - 1) = stack[i].dir /\ c[i] \in stack[i].listed
         /\ SubSeq(Cwd, 1, i - 1) = stack[i].dir /\ Cwd[i] \in stack[i].listed
         /\ Len(stack[i].dir) = i - 1
<1> DEFINE k == Len(stack)
           c == Append(Cwd, n)
<1>1. /\ k \in Nat \ {0} /\ DOMAIN stack = 1 .. k /\ Cwd = stack[k].dir /\ Cwd \in Seq(Nat)
      /\ i \in DOMAIN stack /\ k \in DOMAIN stack /\ i < k /\ i \in Nat
  BY Top
<1>2. /\ Len(Cwd) = k - 1 /\ Len(stack[i].dir) = i - 1
      /\ SubSeq(Cwd, 1, i - 1) = stack[i].dir /\ Cwd[i] \in stack[i].listed
  BY <1>1 DEF PlaceInv, Nested
<1> HIDE DEF k
<1>3. /\ c \in Seq(Nat) /\ Len(c) = k /\ SubSeq(c, 1, k - 1) = Cwd
  BY <1>1, <1>2, ChildFacts
<1>4. k - 1 \in 0 .. Len(c) /\ i - 1 \in 0 .. k - 1 /\ i \in 1 .. Len(Cwd)
  BY <1>1, <1>2, <1>3
<1>5. SubSeq(c, 1, i - 1) = SubSeq(Cwd, 1, i - 1)
  BY <1>3, <1>4, PrefixOfPrefix
<1>6. c[i] = Cwd[i]
  BY <1>1, <1>4, AppendProperties
<1>7. QED
  BY <1>2, <1>5, <1>6

\* The innermost directory was passed.
LEMMA CwdPassed ==
  ASSUME Types, stack # <<>>, PlaceInv
  PROVE  Passed(Cwd) /\ Len(Cwd) = Len(stack) - 1
<1>0. /\ Len(stack) \in Nat \ {0} /\ DOMAIN stack = 1 .. Len(stack) /\ Cwd = stack[Len(stack)].dir
      /\ Cwd \in Seq(Nat) /\ Len(Cwd) \in Nat /\ Len(stack) \in DOMAIN stack
  BY Top, LenProperties
<1>1. ASSUME NEW i \in DOMAIN stack PROVE ~Ahead(Cwd, stack[i])
  <2>1. CASE i = Len(stack)
    BY <1>0, <2>1 DEF Ahead
  <2>2. CASE i # Len(stack)
    <3>1. i \in 1 .. Len(stack) - 1 /\ 0 \in Nat
      BY <1>0, <2>2
    <3>2. Cwd[i] \in stack[i].listed /\ Len(stack[i].dir) = i - 1
      BY <3>1, ChildPlace
    <3>3. Len(stack[i].dir) + 1 = i
      BY <3>1, <3>2
    <3>4. QED
      BY <3>2, <3>3 DEF Ahead
  <2>3. QED
    BY <2>1, <2>2
<1>2. QED
  BY <1>0, <1>1 DEF Passed, PassedBy, PlaceInv, Nested

\* What the iterator's answer changes about what was passed.
LEMMA ListedPasses ==
  ASSUME Types, stack # <<>>, PlaceInv, NEW n \in Nat, n \notin stack[Len(stack)].listed
  PROVE  LET c == Append(Cwd, n) IN
         /\ Nested(Listed(n)) /\ PassedBy(c, Listed(n)) /\ ~Passed(c)
         /\ \A q : Passed(q) => PassedBy(q, Listed(n))
         /\ \A q : PassedBy(q, Listed(n)) =>
              Passed(q) \/ (Ahead(q, stack[Len(stack)]) /\ q[Len(Cwd) + 1] = n)
<1> DEFINE k == Len(stack)
           c == Append(Cwd, n)
           s == Listed(n)
<1>1. /\ k \in Nat \ {0} /\ k \in 1 .. k /\ DOMAIN stack = 1 .. k /\ Cwd = stack[k].dir
      /\ Cwd \in Seq(Nat)
  BY Top
<1>2. /\ DOMAIN s = 1 .. k
      /\ \A i \in 1 .. k : /\ s[i].dir = stack[i].dir
                           /\ i # k => s[i].listed = stack[i].listed
                           /\ i = k => s[i].listed = stack[i].listed \union {n}
  BY ListedFrames
<1>p. \A i \in 1 .. k - 1 : c[i] \in stack[i].listed /\ Len(stack[i].dir) = i - 1
  BY ChildPlace
<1>q. n \notin stack[k].listed
  OBVIOUS
<1> HIDE DEF s, k
<1>3. Nested(s)
  <2>1. /\ \A i \in 1 .. k : Len(s[i].dir) = i - 1
        /\ \A i, j \in 1 .. k : i < j => /\ SubSeq(s[j].dir, 1, i - 1) = s[i].dir
                                        /\ s[j].dir[i] \in stack[i].listed
    BY <1>1, <1>2 DEF PlaceInv, Nested
  <2>2. \A i \in 1 .. k : stack[i].listed \subseteq s[i].listed
    BY <1>1, <1>2
  <2>3. QED
    BY <1>2, <2>1, <2>2 DEF Nested
<1>4. /\ c \in Seq(Nat) /\ Len(c) = Len(Cwd) + 1 /\ SubSeq(c, 1, Len(Cwd)) = Cwd
      /\ c[Len(Cwd) + 1] = n /\ Len(Cwd) \in Nat /\ Len(Cwd) < Len(c)
  BY <1>1, ChildFacts, AppendProperties, LenProperties
<1>5. ASSUME NEW i \in 1 .. k PROVE ~Ahead(c, s[i])
  <2>1. CASE i = k
    BY <1>1, <1>2, <1>4, <2>1 DEF Ahead
  <2>2. CASE i # k
    <3>1. i \in 1 .. k - 1
      BY <1>1, <2>2
    <3>2. c[i] \in stack[i].listed /\ Len(stack[i].dir) = i - 1
      BY <1>p, <3>1
    <3>3. Len(s[i].dir) + 1 = i /\ c[i] \in s[i].listed
      <4>1. s[i].dir = stack[i].dir /\ s[i].listed = stack[i].listed
        BY <1>2, <2>2
      <4> HIDE DEF c
      <4>2. QED
        BY <3>1, <3>2, <4>1
    <3>4. QED
      BY <3>3 DEF Ahead
  <2>3. QED
    BY <2>1, <2>2
<1>6. Ahead(c, stack[k])
  BY <1>1, <1>4, <1>q DEF Ahead
<1>7. PassedBy(c, s) /\ ~Passed(c)
  BY <1>1, <1>2, <1>5, <1>6 DEF Passed, PassedBy
<1> HIDE DEF c
<1>8. \A q : \A i \in 1 .. k :
        /\ Ahead(q, s[i]) => Ahead(q, stack[i])
        /\ Ahead(q, stack[i]) => Ahead(q, s[i]) \/ (i = k /\ q[Len(Cwd) + 1] = n)
  BY <1>1, <1>2 DEF Ahead
<1>9. \A q : Passed(q) => PassedBy(q, s)
  BY <1>1, <1>2, <1>8 DEF Passed, PassedBy
<1>10. \A q : PassedBy(q, s) => Passed(q) \/ (Ahead(q, stack[k]) /\ q[Len(Cwd) + 1] = n)
  BY <1>1, <1>2, <1>8 DEF Passed, PassedBy
<1>11. QED
  BY <1>3, <1>7, <1>9, <1>10 DEF s, c, k

\* An entry passes its name, and no other path that exists.
LEMMA EntryPasses ==
  ASSUME Types, TreeInv, pc = "iterate", stack # <<>>, PlaceInv,
         NEW n \in Nat, n \notin stack[Len(stack)].listed,
         Append(Cwd, n) \in Paths, EntryEnters(n) \/ EntryLists(n)
  PROVE  LET c == Append(Cwd, n) IN
         /\ PlaceInv' /\ PassedBy(c, stack') /\ ~Passed(c)
         /\ \A q \in Seq(Nat) : Passed(q) => Passed(q)'
         /\ \A q \in DOMAIN tree : Passed(q)' => Passed(q) \/ q = c
         /\ EntryEnters(n) => Cwd' = c
<1> DEFINE k == Len(stack)
           c == Append(Cwd, n)
           s == Listed(n)
<1>1. /\ k \in Nat \ {0} /\ k \in 1 .. k /\ DOMAIN stack = 1 .. k /\ Cwd = stack[k].dir
      /\ Cwd \in Seq(Nat) /\ stack[k] \in FrameType
  BY Top
<1>2. /\ Nested(s) /\ PassedBy(c, s) /\ ~Passed(c)
      /\ \A q : Passed(q) => PassedBy(q, s)
      /\ \A q : PassedBy(q, s) => Passed(q) \/ (Ahead(q, stack[k]) /\ q[Len(Cwd) + 1] = n)
  BY ListedPasses
<1>3. /\ s \in Seq(FrameType) /\ Len(s) = k /\ DOMAIN s = 1 .. k
      /\ \A i \in 1 .. k : s[i].dir = stack[i].dir /\ (i # k => s[i].listed = stack[i].listed)
      /\ n \in s[k].listed
  <2>1. /\ s \in Seq(FrameType) /\ Len(s) = k /\ DOMAIN s = 1 .. k
        /\ \A i \in 1 .. k : s[i].dir = stack[i].dir /\ (i # k => s[i].listed = stack[i].listed)
        /\ \A i \in 1 .. k : i = k => s[i].listed = stack[i].listed \union {n}
    BY ListedFrames
  <2> HIDE DEF k, s
  <2>2. QED
    BY <1>1, <2>1
<1>4. /\ c \in Seq(Nat) /\ Len(c) = Len(Cwd) + 1 /\ SubSeq(c, 1, Len(Cwd)) = Cwd
      /\ c[Len(Cwd) + 1] = n /\ Len(Cwd) \in Nat /\ Len(Cwd) = k - 1
  <2>1. Len(Cwd) = k - 1
    BY CwdPassed
  <2>2. /\ c \in Seq(Nat) /\ Len(c) = Len(Cwd) + 1 /\ SubSeq(c, 1, Len(Cwd)) = Cwd
        /\ c[Len(Cwd) + 1] = n /\ Len(Cwd) \in Nat
    BY <1>1, ChildFacts, AppendProperties, LenProperties
  <2>3. QED
    BY <2>1, <2>2
<1>p. \A i \in 1 .. k - 1 : SubSeq(c, 1, i - 1) = stack[i].dir /\ c[i] \in stack[i].listed
  BY ChildPlace
<1>q. n \notin stack[k].listed
  OBVIOUS
<1> HIDE DEF k
<1>5. ASSUME NEW q \in DOMAIN tree, Ahead(q, stack[k]), q[Len(Cwd) + 1] = n
      PROVE  /\ SubSeq(q, 1, Len(c)) = c /\ Len(c) <= Len(q) /\ Len(q) \in Nat
             /\ c \in DOMAIN tree
             /\ Len(c) # Len(q) => tree[c].kind = "dir"
             /\ Len(c) = Len(q) => c = q
  <2>1. q \in Seq(Nat) /\ Len(q) \in Nat
    BY PathsAreSeqs DEF TreeInv, IsTree, ListingOf
  <2>2. QED
    BY <1>1, <1>5, <2>1, AheadFacts
<1>6. CASE EntryLists(n)
  <2>1. stack' = s /\ (c \in DOMAIN tree => tree[c].kind = "file")
    BY <1>6, Physical DEF EntryLists
  <2> HIDE DEF c, s
  <2>2. ASSUME NEW q \in DOMAIN tree, Passed(q)' PROVE Passed(q) \/ q = c
    BY <1>2, <1>5, <2>1, <2>2 DEF Passed
  <2>3. PlaceInv' /\ PassedBy(c, stack') /\ \A q \in Seq(Nat) : Passed(q) => Passed(q)'
    BY <1>2, <2>1 DEF PlaceInv, Passed, PassedBy, Nested
  <2>4. ~EntryEnters(n)
    BY <1>6 DEF EntryEnters, EntryLists
  <2>5. QED
    BY <1>2, <2>2, <2>3, <2>4 DEF c
<1>7. CASE EntryEnters(n)
  <2> DEFINE f == Fresh(c)
  <2>1. stack' = Append(s, f) /\ f \in FrameType /\ f.dir = c /\ f.listed = {}
    BY <1>7, FreshFacts DEF EntryEnters
  <2> HIDE DEF f
  <2>2. /\ stack' \in Seq(FrameType) /\ Len(stack') = k + 1 /\ stack'[k + 1] = f
        /\ \A i \in 1 .. k : stack'[i] = s[i]
    BY <1>3, <2>1, AppendProperties
  <2>3. DOMAIN stack' = 1 .. k + 1 /\ \A i \in 1 .. k + 1 : i \in 1 .. k \/ i = k + 1
    BY <1>1, <2>2, LenProperties
  <2>4. \A q : PassedBy(q, stack') <=> PassedBy(q, s) /\ ~Ahead(q, f)
    <3>1. k + 1 \in 1 .. k + 1 /\ \A i \in 1 .. k : i \in 1 .. k + 1
      BY <1>1
    <3>2. \A q : PassedBy(q, stack') <=> \A i \in 1 .. k + 1 : ~Ahead(q, stack'[i])
      BY <2>3 DEF PassedBy
    <3>3. QED
      BY <1>3, <2>2, <2>3, <3>1, <3>2 DEF PassedBy
  <2>p. \A q : Passed(q)' <=> PassedBy(q, stack')
    BY DEF Passed, PassedBy
  <2>5. PassedBy(c, stack')
    <3> HIDE DEF c
    <3>1. Len(c) \in Nat
      BY <1>4
    <3>2. ~Ahead(c, f)
      BY <2>1, <3>1 DEF Ahead
    <3>3. QED
      BY <1>2, <2>4, <3>2
  <2>6. ASSUME NEW q \in Seq(Nat), Passed(q) PROVE Passed(q)'
    <3>1. SUFFICES ASSUME Ahead(q, f) PROVE FALSE
      BY <1>2, <2>4, <2>6, <2>p
    <3>2. Len(c) < Len(q) /\ SubSeq(q, 1, Len(c)) = c /\ Len(q) \in Nat
      BY <2>1, <3>1, LenProperties DEF Ahead
    <3>3. Len(c) \in 0 .. Len(q) /\ Len(Cwd) \in 0 .. Len(c) /\ Len(c) \in 1 .. Len(c)
      BY <1>4, <3>2
    <3>4. SubSeq(q, 1, Len(Cwd)) = Cwd
      BY <1>4, <3>2, <3>3, PrefixOfPrefix
    <3>5. q[Len(c)] = n
      BY <1>4, <3>2, <3>3, PrefixFacts
    <3>6. Ahead(q, stack[k])
      BY <1>1, <1>4, <1>q, <3>2, <3>4, <3>5 DEF Ahead
    <3>7. QED
      BY <1>1, <2>6, <3>6 DEF Passed, PassedBy
  <2>7. ASSUME NEW q \in DOMAIN tree, Passed(q)' PROVE Passed(q) \/ q = c
    <3> SUFFICES ASSUME ~Passed(q), q # c PROVE FALSE
      OBVIOUS
    <3>1. Ahead(q, stack[k]) /\ q[Len(Cwd) + 1] = n
      BY <1>2, <2>4, <2>7, <2>p
    <3>2. SubSeq(q, 1, Len(c)) = c /\ Len(c) < Len(q)
      BY <1>4, <1>5, <3>1
    <3>3. Ahead(q, f)
      BY <2>1, <3>2 DEF Ahead
    <3>4. QED
      BY <2>4, <2>7, <2>p, <3>3
  <2>8. PlaceInv'
    <3>1. ASSUME NEW i \in 1 .. k + 1 PROVE Len(stack'[i].dir) = i - 1
      <4>1. CASE i = k + 1
        BY <1>1, <1>4, <2>1, <2>2, <4>1
      <4>2. CASE i \in 1 .. k
        BY <1>2, <1>3, <2>2, <4>2 DEF Nested
      <4>3. QED
        BY <2>3, <4>1, <4>2
    <3>2. ASSUME NEW i \in 1 .. k + 1, NEW j \in 1 .. k + 1, i < j
          PROVE  /\ SubSeq(stack'[j].dir, 1, i - 1) = stack'[i].dir
                 /\ stack'[j].dir[i] \in stack'[i].listed
      <4>1. i \in 1 .. k
        BY <1>1, <3>2
      <4>2. CASE j \in 1 .. k
        BY <1>2, <1>3, <2>2, <3>2, <4>1, <4>2 DEF Nested
      <4>3. CASE j = k + 1 /\ i = k
        <5>1. stack'[j].dir = c /\ stack'[i].dir = Cwd /\ stack'[i].listed = s[k].listed
          BY <1>1, <1>3, <2>1, <2>2, <4>3
        <5>2. Len(Cwd) = i - 1 /\ Len(Cwd) + 1 = i
          BY <1>1, <1>4, <4>3
        <5>3. QED
          BY <1>3, <1>4, <5>1, <5>2
      <4>4. CASE j = k + 1 /\ i # k
        <5>1. i \in 1 .. k - 1
          BY <1>1, <4>1, <4>4
        <5>2. stack'[j].dir = c /\ stack'[i].dir = stack[i].dir /\ stack'[i].listed = stack[i].listed
          BY <1>1, <1>3, <2>1, <2>2, <4>1, <4>4
        <5>3. SubSeq(c, 1, i - 1) = stack[i].dir /\ c[i] \in stack[i].listed
          BY <5>1, <1>p
        <5>4. QED
          BY <5>2, <5>3
      <4>5. QED
        BY <2>3, <4>2, <4>3, <4>4
    <3>3. QED
      BY <2>3, <3>1, <3>2 DEF PlaceInv, Nested
  <2>9. Cwd' = c
    BY <2>1, <2>2 DEF Cwd
  <2>10. QED
    BY <1>2, <2>5, <2>6, <2>7, <2>8, <2>9
<1>8. QED
  BY <1>6, <1>7

\* The return from a directory passes what is in it and was left alone.
LEMMA ReturnPasses ==
  ASSUME Types, TreeInv, StackInv, PlaceInv, Return
  PROVE  /\ PlaceInv' /\ pc = "iterate" /\ stack # <<>>
         /\ \A q : Passed(q) => Passed(q)'
         /\ \A q \in DOMAIN tree : Quiet(q) /\ Passed(q)' => Passed(q)
<1> DEFINE k == Len(stack)
<1>1. /\ pc = "iterate" /\ stack # <<>> /\ stack[k].stable \subseteq stack[k].listed
  BY DEF Return, Types
<1>2. /\ k \in Nat \ {0} /\ k \in 1 .. k /\ DOMAIN stack = 1 .. k /\ Cwd = stack[k].dir
      /\ stack[k] \in FrameType
  BY <1>1, Top
<1>3. ASSUME NEW q \in DOMAIN tree, Quiet(q), Ahead(q, stack[k]) PROVE FALSE
  <2> DEFINE f == stack[k]
             n == q[Len(f.dir) + 1]
  <2>1. n \in Nat /\ n \notin f.listed /\ Append(f.dir, n) \in DOMAIN tree
        /\ Quiet(Append(f.dir, n))
    BY <1>2, <1>3, AheadFacts
  <2>2. n \in f.stable
    BY <1>1, <1>2, <2>1 DEF StackInv, Opened
  <2>3. QED
    BY <1>1, <2>1, <2>2
<1>4. CASE k = 1
  <2>1. stack' = <<>> /\ DOMAIN stack' = {}
    BY <1>4, EmptySeq DEF Return, Ends
  <2>2. PlaceInv' /\ \A q : Passed(q)'
    BY <2>1 DEF PlaceInv, Nested, Passed, PassedBy
  <2>3. \A i \in DOMAIN stack : i = k
    BY <1>2, <1>4
  <2>4. \A q \in DOMAIN tree : Quiet(q) => Passed(q)
    BY <1>3, <2>3 DEF Passed, PassedBy
  <2>5. QED
    BY <1>1, <2>2, <2>4
<1>5. CASE k # 1
  <2>1. stack' = Front(stack)
    BY <1>5 DEF Return
  <2>2. DOMAIN stack' = 1 .. k - 1 /\ \A i \in 1 .. k - 1 : stack'[i] = stack[i]
    BY <1>1, <1>5, <2>1, PoppedFrames DEF Types
  <2>3. \A i \in DOMAIN stack : i = k \/ i \in DOMAIN stack'
    BY <1>2, <2>2
  <2>4. \A i \in DOMAIN stack' : i \in DOMAIN stack /\ stack'[i] = stack[i]
    BY <1>2, <2>2
  <2>5. PlaceInv'
    BY <2>4 DEF PlaceInv, Nested
  <2>6. \A q : Passed(q) => Passed(q)'
    BY <2>4 DEF Passed, PassedBy
  <2>7. \A q \in DOMAIN tree : Quiet(q) /\ Passed(q)' => Passed(q)
    BY <1>3, <2>3, <2>4 DEF Passed, PassedBy
  <2>8. QED
    BY <1>1, <2>5, <2>6, <2>7
<1>6. QED
  BY <1>4, <1>5

\* The only path a scan that starts has passed is the root, which it is to enter.
LEMMA StartPasses ==
  /\ Nested(<<Fresh(<<>>)>>)
  /\ \A q \in Seq(Nat) : PassedBy(q, <<Fresh(<<>>)>>) => q = <<>>
<1> DEFINE s == <<Fresh(<<>>)>>
<1>1. DOMAIN s = {1} /\ s[1].dir = <<>> /\ s[1].listed = {} /\ Len(<<>>) = 0
  BY OneFrame
<1> HIDE DEF s
<1>2. Nested(s)
  BY <1>1 DEF Nested
<1>3. ASSUME NEW q \in Seq(Nat), q # <<>> PROVE Ahead(q, s[1])
  <2>1. Len(q) \in Nat \ {0} /\ 0 \in 0 .. Len(q)
    BY <1>3, EmptySeq, LenProperties
  <2>2. SubSeq(q, 1, 0) = <<>>
    BY <2>1, PrefixFacts, EmptySeq
  <2>3. QED
    BY <1>1, <2>1, <2>2 DEF Ahead
<1>4. QED
  BY <1>1, <1>2, <1>3 DEF PassedBy, s

\* What a writer leaves alone, and that it leaves a trace.
LEMMA WriterKeeps ==
  ASSUME Types, TreeInv, Writer
  PROVE  /\ UNCHANGED <<pc, entries, outcome, budget>>
         /\ DOMAIN stack' = DOMAIN stack
         /\ \A i \in DOMAIN stack : stack'[i].dir = stack[i].dir /\ stack'[i].listed = stack[i].listed
         /\ stack # <<>> => Cwd' = Cwd
         /\ \A q \in DOMAIN tree' : Quiet(q)' => q \in DOMAIN tree /\ Quiet(q) /\ tree'[q] = tree[q]
         /\ seen \subseteq seen' /\ AsPairs(tree') \subseteq seen'
<1>1. PICK t, which, gone : Change(t, which, gone) /\ gone \subseteq which /\ Replaces(t, which)
  BY WriterCases DEF Types
<1>2. /\ tree' = t /\ touched' = touched \union which /\ stack' = Unstable(gone)
      /\ seen' = seen \union AsPairs(t)
      /\ UNCHANGED <<pc, entries, outcome, budget>>
  BY <1>1 DEF Change
<1>3. /\ DOMAIN stack' = DOMAIN stack /\ Len(stack') = Len(stack)
      /\ \A i \in DOMAIN stack : stack'[i].dir = stack[i].dir /\ stack'[i].listed = stack[i].listed
  BY <1>2, UnstableFrames DEF Types
<1>4. stack # <<>> => Cwd' = Cwd
  BY <1>3, Top DEF Cwd
<1>5. ASSUME NEW q \in DOMAIN tree', Quiet(q)'
      PROVE  q \in DOMAIN tree /\ Quiet(q) /\ tree'[q] = tree[q]
  <2>0. q \in Paths
    BY <1>1, <1>2 DEF Replaces, IsTree, ListingOf
  <2>1. \A n \in 0 .. Len(q) : SubSeq(q, 1, n) \notin touched /\ SubSeq(q, 1, n) \notin which
    BY <1>2, <1>5 DEF Quiet
  <2>2. Len(q) \in 0 .. Len(q) /\ SubSeq(q, 1, Len(q)) = q
    BY <2>0, PathsAreSeqs, SubSeqFull
  <2>3. q \notin which /\ Quiet(q)
    BY <2>1, <2>2 DEF Quiet
  <2>4. QED
    BY <1>1, <1>2, <2>3 DEF Replaces
<1>6. seen \subseteq seen' /\ AsPairs(tree') \subseteq seen'
  BY <1>2
<1>7. QED
  BY <1>2, <1>3, <1>4, <1>5, <1>6

LEMMA WriterTouches ==
  ASSUME Writer, IsFiniteSet(DOMAIN tree)
  PROVE  touched' # {} /\ IsFiniteSet(DOMAIN tree')
<1>w. ASSUME NEW f, IsFiniteSet(DOMAIN f), NEW p, NEW x PROVE IsFiniteSet(DOMAIN With(f, p, x))
  <2>1. DOMAIN With(f, p, x) = DOMAIN f \union {p}
    BY DEF With
  <2>2. QED
    BY <1>w, <2>1, FS_AddElement
<1>o. ASSUME NEW p PROVE IsFiniteSet(DOMAIN Without(p))
  <2>1. DOMAIN Without(p) \in SUBSET DOMAIN tree
    BY DEF Without
  <2>2. QED
    BY <2>1, FS_Subset
<1>1. CASE \E p \in Paths : Create(p)
  BY <1>1, <1>w DEF Create, Change
<1>2. CASE \E p \in Paths : Rewrite(p)
  <2>1. PICK p \in Paths, size \in Sizes : Change([tree EXCEPT ![p] = Node("file", size)], {p}, {})
    BY <1>2 DEF Rewrite
  <2>2. DOMAIN tree' = DOMAIN tree /\ touched' # {}
    BY <2>1 DEF Change
  <2>3. QED
    BY <2>2
<1>3. CASE \E p \in Paths : Delete(p)
  BY <1>3, <1>o DEF Delete, Change
<1>4. CASE \E p, q \in Paths : Rename(p, q)
  <2>1. PICK p \in Paths, q \in Paths : Change(With(Without(p), q, tree[p]), {p, q}, {p, q})
    BY <1>4 DEF Rename
  <2>2. IsFiniteSet(DOMAIN With(Without(p), q, tree[p]))
    BY <1>w, <1>o
  <2>3. QED
    BY <2>1, <2>2 DEF Change
<1>5. QED
  BY <1>1, <1>2, <1>3, <1>4 DEF Writer

-----------------------------------------------------------------------------
(* What is listed *)

\* The path is listed as it was at some time of the scan, or was behind a link.
Seen(p) == <<p, entries[p]>> \in seen \/ WasBehind(p)

\* The entries are files the scan passed, each as it was at some time of the scan
\* but for those behind a link, and the budget counts them.
ListedInv ==
  /\ Finite(entries) /\ \A p \in DOMAIN entries : Passed(p)
  /\ (\A p \in DOMAIN entries : Seen(p)) /\ AsPairs(tree) \subseteq seen
  /\ pc # "idle" \/ outcome = "ok" =>
       budget.files = Cardinality(DOMAIN entries) /\ budget.bytes = Bytes(entries)
  /\ outcome = "ok" =>
       /\ budget.files <= MaxFiles /\ budget.bytes <= MaxTotalBytes
       /\ budget.directories <= MaxDirectories

\* The end of a scan that fails.
LEMMA ListedAtEnd ==
  ASSUME ListedInv, NEW how \in {"limit", "unsafe"}, Ends(how), UNCHANGED <<tree, entries, seen>>
  PROVE  ListedInv'
<1>1. stack' = <<>> /\ pc' = "idle" /\ outcome' = how
  BY DEF Ends
<1>2. DOMAIN stack' = {}
  BY <1>1, EmptySeq
<1>3. \A p : Passed(p)'
  BY <1>2 DEF Passed, PassedBy
<1>4. \A p \in DOMAIN entries : Seen(p) => Seen(p)'
  BY DEF Seen, WasBehind
<1>5. QED
  BY <1>1, <1>3, <1>4 DEF ListedInv

\* What is behind a link was behind it at some time of the scan.
LEMMA BehindNow == ASSUME TreeInv, AsPairs(tree) \subseteq seen, NEW p, Behind(p) PROVE WasBehind(p)
<1>1. PICK n \in 1 .. Len(p) - 1 : IsLink(SubSeq(p, 1, n))
  BY DEF Behind
<1> DEFINE q == SubSeq(p, 1, n)
<1>2. q \in DOMAIN tree /\ tree[q].kind = "link" /\ tree[q] \in NodeType
  BY <1>1 DEF IsLink, TreeInv, IsTree, ListingOf
<1>3. <<q, tree[q]>> \in seen
  BY <1>2 DEF AsPairs
<1>4. QED
  BY <1>2, <1>3 DEF WasBehind

LEMMA ListedStep ==
  ASSUME Types, TreeInv, PhaseInv, StackInv, PlaceInv, ListedInv, [Next]_vars
  PROVE  ListedInv'
<1>p. \A p \in DOMAIN entries : p \in Seq(Nat)
  BY PathsAreSeqs DEF Types, TypeOK, ListingOf
<1>k. ASSUME UNCHANGED <<tree, entries, seen, outcome>>, UNCHANGED <<budget>>,
             pc # "idle", \A p \in DOMAIN entries : Passed(p) => Passed(p)'
      PROVE  ListedInv'
  BY <1>k DEF ListedInv, Seen, WasBehind
<1>1. CASE Enter
  <2>1. pc = "enter" /\ UNCHANGED <<tree, entries, seen>>
    BY <1>1 DEF Enter
  <2>2. CASE \E how \in {"limit", "unsafe"} : Ends(how)
    BY <2>1, <2>2, ListedAtEnd
  <2>3. CASE ~\E how \in {"limit", "unsafe"} : Ends(how)
    <3>1. /\ UNCHANGED <<stack, outcome>>
          /\ budget' = [budget EXCEPT !.directories = budget.directories + 1]
      BY <1>1, <2>3 DEF Enter
    <3>2. budget'.files = budget.files /\ budget'.bytes = budget.bytes
      BY <3>1 DEF Types, TypeOK
    <3>3. outcome # "ok"
      BY <2>1 DEF PhaseInv
    <3>4. \A p : Passed(p)' <=> Passed(p)
      BY <3>1 DEF Passed, PassedBy
    <3>5. QED
      BY <2>1, <3>1, <3>2, <3>3, <3>4 DEF ListedInv, Seen, WasBehind
  <2>4. QED
    BY <2>2, <2>3
<1>2. CASE Open
  <2>1. pc = "open" /\ UNCHANGED <<tree, entries, seen, budget>>
    BY <1>2 DEF Open
  <2>2. CASE Ends("unsafe")
    BY <2>1, <2>2, ListedAtEnd
  <2>3. CASE ~Ends("unsafe")
    <3>1. /\ stack # <<>> /\ UNCHANGED outcome /\ DOMAIN stack' = DOMAIN stack
          /\ \A i \in 1 .. Len(stack) :
               stack'[i].dir = stack[i].dir /\ stack'[i].listed = stack[i].listed
      BY <1>2, <2>3, OpenFrames
    <3>2. DOMAIN stack = 1 .. Len(stack)
      BY <3>1, Top
    <3>3. \A p : Passed(p)' <=> Passed(p)
      BY <3>1, <3>2, SameFrames
    <3>4. QED
      BY <1>k, <2>1, <3>1, <3>3
  <2>4. QED
    BY <2>2, <2>3
<1>3. CASE Entry
  <2>1. pc = "iterate" /\ stack # <<>> /\ UNCHANGED <<tree, touched, seen>>
    BY <1>3, EntryParts
  <2>2. PICK n \in Nat :
          /\ n \notin stack[Len(stack)].listed
          /\ \/ EntryRefuses(n)
             \/ EntryOverflows(n)
             \/ Append(Cwd, n) \in Paths /\ (EntryEnters(n) \/ EntryLists(n))
    BY <1>3, EntryParts
  <2> DEFINE c == Append(Cwd, n)
  <2>3. CASE EntryRefuses(n) \/ EntryOverflows(n)
    BY <2>1, <2>3, ListedAtEnd DEF EntryRefuses, EntryOverflows
  <2>4. CASE c \in Paths /\ EntryEnters(n)
    <3>1. UNCHANGED <<entries, outcome, budget>>
      BY <2>4 DEF EntryEnters
    <3>2. \A q \in Seq(Nat) : Passed(q) => Passed(q)'
      BY <2>1, <2>2, <2>4, EntryPasses
    <3>3. QED
      BY <1>k, <1>p, <2>1, <3>1, <3>2
  <2>5. CASE c \in Paths /\ EntryLists(n)
    <3>0. UNCHANGED <<pc, outcome>>
      BY <2>5 DEF EntryLists
    <3>1. PICK x \in Found(c) : budget' = Counted(x.size) /\ entries' = With(entries, c, x)
      BY <2>5 DEF EntryLists
    <3>2. /\ PassedBy(c, stack') /\ ~Passed(c)
          /\ \A q \in Seq(Nat) : Passed(q) => Passed(q)'
      BY <2>1, <2>2, <2>5, EntryPasses
    <3> HIDE DEF c
    <3>3. x.size \in Nat /\ (Behind(c) \/ (c \in DOMAIN tree /\ x = tree[c]))
      BY FoundFacts, Limits DEF Types, TypeOK, NodeType
    <3>4. c \notin DOMAIN entries /\ Finite(entries)
      BY <3>2 DEF ListedInv
    <3>5. /\ Finite(entries') /\ Bytes(entries') = Bytes(entries) + x.size
          /\ DOMAIN entries' = DOMAIN entries \union {c}
          /\ Cardinality(DOMAIN entries') = Cardinality(DOMAIN entries) + 1
      <4>1. /\ Finite(With(entries, c, x)) /\ Bytes(With(entries, c, x)) = Bytes(entries) + x.size
            /\ DOMAIN With(entries, c, x) = DOMAIN entries \union {c}
            /\ Cardinality(DOMAIN With(entries, c, x)) = Cardinality(DOMAIN entries) + 1
        BY <3>3, <3>4, BytesAdded
      <4>2. QED
        BY <3>1, <4>1
    <3>6. budget'.files = budget.files + 1 /\ budget'.bytes = budget.bytes + x.size
      BY <3>1 DEF Counted, Types, TypeOK
    <3>7. \A p \in DOMAIN entries' : Passed(p)'
      BY <1>p, <3>2, <3>5 DEF ListedInv, Passed, PassedBy
    <3>8. \A p \in DOMAIN entries' : Seen(p)'
      <4>1. <<c, x>> \in seen \/ WasBehind(c)
        BY <3>3, BehindNow DEF ListedInv, AsPairs
      <4>2. \A p \in DOMAIN entries : <<p, entries[p]>> \in seen \/ WasBehind(p)
        BY DEF ListedInv, Seen
      <4>3. entries'[c] = x /\ \A p \in DOMAIN entries : p # c => entries'[p] = entries[p]
        BY <3>1 DEF With
      <4>4. ASSUME NEW p \in DOMAIN entries' PROVE <<p, entries'[p]>> \in seen \/ WasBehind(p)
        BY <3>5, <4>1, <4>2, <4>3
      <4>5. QED
        BY <2>1, <4>4 DEF Seen, WasBehind
    <3>9. outcome # "ok" /\ pc # "idle"
      BY <2>1 DEF PhaseInv
    <3>10. AsPairs(tree') \subseteq seen'
      BY <2>1 DEF ListedInv
    <3>11. QED
      BY <3>0, <3>5, <3>6, <3>7, <3>8, <3>9, <3>10 DEF ListedInv
  <2>6. QED
    BY <2>2, <2>3, <2>4, <2>5
<1>4. CASE Return
  <2>1. /\ UNCHANGED <<tree, entries, seen, budget>> /\ pc = "iterate" /\ stack # <<>>
        /\ \A q : Passed(q) => Passed(q)'
    BY <1>4, ReturnPasses DEF Return
  <2>2. CASE Len(stack) = 1
    <3>1. budget.files <= MaxFiles /\ budget.bytes <= MaxTotalBytes
          /\ budget.directories <= MaxDirectories
      BY <2>1 DEF Types, LimitInv
    <3>2. QED
      BY <2>1, <3>1 DEF ListedInv, Seen, WasBehind
  <2>3. CASE Len(stack) # 1
    BY <1>4, <1>k, <2>1, <2>3 DEF Return
  <2>4. QED
    BY <2>2, <2>3
<1>5. CASE Rescan
  <2>1. /\ entries' = Empty /\ budget' = NoBudget /\ outcome' = "none" /\ UNCHANGED tree
        /\ seen' = AsPairs(tree)
    BY <1>5 DEF Rescan
  <2>2. DOMAIN entries' = {} /\ budget'.files = 0 /\ budget'.bytes = 0
    BY <2>1 DEF Empty, NoBudget
  <2>3. Finite(entries') /\ Bytes(entries') = 0 /\ Cardinality(DOMAIN entries') = 0
    BY <2>1, NoBytes
  <2>4. QED
    BY <2>1, <2>2, <2>3 DEF ListedInv
<1>6. CASE Writer
  <2>1. /\ UNCHANGED <<pc, entries, outcome, budget>> /\ DOMAIN stack' = DOMAIN stack
        /\ \A i \in DOMAIN stack :
             stack'[i].dir = stack[i].dir /\ stack'[i].listed = stack[i].listed
        /\ seen \subseteq seen' /\ AsPairs(tree') \subseteq seen'
    BY <1>6, WriterKeeps
  <2>2. \A p : Passed(p)' <=> Passed(p)
    BY <2>1, SameFrames
  <2>3. \A p \in DOMAIN entries' : Seen(p)'
    BY <2>1 DEF ListedInv, Seen, WasBehind
  <2>4. QED
    BY <2>1, <2>2, <2>3 DEF ListedInv
<1>7. CASE UNCHANGED vars
  BY <1>7 DEF vars, ListedInv, Passed, Seen, WasBehind
<1>8. QED
  BY <1>1, <1>2, <1>3, <1>4, <1>5, <1>6, <1>7 DEF Next, Scan

-----------------------------------------------------------------------------
(* What was passed *)

\* What the scan passed and nobody touched is a file, or a directory that is not too
\* deep or is still to be entered.
PassedInv ==
  pc # "idle" \/ outcome = "ok" =>
    \A p \in DOMAIN tree : Quiet(p) /\ Passed(p) =>
      \/ tree[p].kind = "file"
      \/ tree[p].kind = "dir" /\ (Pending(p) \/ Len(p) <= MaxDepth)

LEMMA PassedStep ==
  ASSUME Types, TreeInv, PhaseInv, StackInv, PlaceInv, PassedInv, [Next]_vars
  PROVE  PassedInv' /\ PlaceInv'
<1>e. ASSUME NEW how \in {"limit", "unsafe"}, Ends(how) PROVE PassedInv' /\ PlaceInv'
  <2>1. stack' = <<>> /\ pc' = "idle" /\ outcome' = how
    BY <1>e DEF Ends
  <2>2. DOMAIN stack' = {}
    BY <2>1, EmptySeq
  <2>3. QED
    BY <2>1, <2>2 DEF PassedInv, PlaceInv, Nested
<1>t. \A q \in DOMAIN tree : q \in Seq(Nat)
  BY PathsAreSeqs DEF TreeInv, IsTree, ListingOf
<1>q. UNCHANGED touched => \A q : Quiet(q)' <=> Quiet(q)
  BY DEF Quiet
<1>1. CASE Enter
  <2>1. pc = "enter" /\ stack # <<>> /\ UNCHANGED <<tree, touched>>
    BY <1>1 DEF Enter, Types
  <2>2. CASE \E how \in {"limit", "unsafe"} : Ends(how)
    BY <1>e, <2>2
  <2>3. CASE ~\E how \in {"limit", "unsafe"} : Ends(how)
    <3>1. UNCHANGED stack /\ pc' = "open" /\ ~TooDeep
      BY <1>1, <2>3 DEF Enter
    <3>2. Len(Cwd) <= MaxDepth
      <4>1. Len(Cwd) = Len(stack) - 1 /\ Len(stack) \in Nat
        BY <2>1, CwdPassed, Top
      <4>2. QED
        BY <3>1, <4>1, Limits DEF TooDeep
    <3>3. (\A q : Passed(q)' <=> Passed(q)) /\ PlaceInv'
      BY <3>1 DEF Passed, PlaceInv
    <3>4. ASSUME NEW q \in DOMAIN tree, Quiet(q), Passed(q)
          PROVE  tree[q].kind = "file" \/ (tree[q].kind = "dir" /\ Len(q) <= MaxDepth)
      BY <2>1, <3>2, <3>4 DEF PassedInv, Pending
    <3>5. QED
      BY <1>q, <2>1, <3>3, <3>4 DEF PassedInv
  <2>4. QED
    BY <2>2, <2>3
<1>2. CASE Open
  <2>1. pc = "open" /\ UNCHANGED <<tree, touched>>
    BY <1>2 DEF Open
  <2>2. CASE Ends("unsafe")
    BY <1>e, <2>2
  <2>3. CASE ~Ends("unsafe")
    <3>1. /\ stack # <<>> /\ DOMAIN stack' = DOMAIN stack
          /\ \A i \in 1 .. Len(stack) :
               stack'[i].dir = stack[i].dir /\ stack'[i].listed = stack[i].listed
      BY <1>2, <2>3, OpenFrames
    <3>2. DOMAIN stack = 1 .. Len(stack)
      BY <3>1, Top
    <3>3. (\A p : Passed(p)' <=> Passed(p)) /\ PlaceInv'
      BY <3>1, <3>2, SameFrames
    <3>4. \A q : ~Pending(q)
      BY <2>1 DEF Pending
    <3>5. QED
      BY <1>q, <2>1, <3>3, <3>4 DEF PassedInv
  <2>4. QED
    BY <2>2, <2>3
<1>3. CASE Entry
  <2>1. pc = "iterate" /\ stack # <<>> /\ UNCHANGED <<tree, touched>>
    BY <1>3, EntryParts
  <2>2. PICK n \in Nat :
          /\ n \notin stack[Len(stack)].listed
          /\ \/ EntryRefuses(n)
             \/ EntryOverflows(n)
             \/ Append(Cwd, n) \in Paths /\ (EntryEnters(n) \/ EntryLists(n))
    BY <1>3, EntryParts
  <2> DEFINE c == Append(Cwd, n)
  <2>3. CASE EntryRefuses(n) \/ EntryOverflows(n)
    BY <1>e, <2>3 DEF EntryRefuses, EntryOverflows
  <2>4. CASE c \in Paths /\ (EntryEnters(n) \/ EntryLists(n))
    <3>1. /\ PlaceInv'
          /\ \A q \in DOMAIN tree : Passed(q)' => Passed(q) \/ q = c
          /\ EntryEnters(n) => Cwd' = c
      BY <2>1, <2>2, <2>4, EntryPasses
    <3>2. c \in DOMAIN tree =>
            \/ tree[c].kind = "file"
            \/ tree[c].kind = "dir" /\ pc' = "enter" /\ Cwd' = c
      BY <2>4, <3>1, Physical DEF EntryEnters, EntryLists
    <3> HIDE DEF c
    <3>3. ASSUME NEW q \in DOMAIN tree, Quiet(q), Passed(q)'
          PROVE  \/ tree[q].kind = "file"
                 \/ tree[q].kind = "dir" /\ (Pending(q)' \/ Len(q) <= MaxDepth)
      <4>1. CASE q = c
        BY <3>2, <4>1 DEF Pending
      <4>2. CASE Passed(q)
        BY <2>1, <3>3, <4>2 DEF PassedInv, Pending
      <4>3. QED
        BY <3>1, <3>3, <4>1, <4>2
    <3>4. QED
      BY <1>q, <2>1, <3>1, <3>3 DEF PassedInv
  <2>5. QED
    BY <2>2, <2>3, <2>4
<1>4. CASE Return
  <2>1. /\ PlaceInv' /\ pc = "iterate"
        /\ \A q \in DOMAIN tree : Quiet(q) /\ Passed(q)' => Passed(q)
    BY <1>4, ReturnPasses
  <2>2. UNCHANGED <<tree, touched>>
    BY <1>4 DEF Return
  <2>3. \A q : ~Pending(q)
    BY <2>1 DEF Pending
  <2>4. QED
    BY <1>q, <2>1, <2>2, <2>3 DEF PassedInv
<1>5. CASE Rescan
  <2>1. /\ stack' = <<Fresh(<<>>)>> /\ pc' = "enter" /\ UNCHANGED tree
    BY <1>5 DEF Rescan
  <2>2. Cwd' = <<>>
    BY <2>1, OneFrame DEF Cwd
  <2>3. \A q \in DOMAIN tree : Passed(q)' => q = <<>>
    <3>1. \A q : Passed(q)' <=> PassedBy(q, stack')
      BY DEF Passed, PassedBy
    <3>2. QED
      BY <1>t, <2>1, <3>1, StartPasses
  <2>4. tree[<<>>].kind = "dir"
    BY DEF TreeInv, IsTree
  <2>5. PlaceInv'
    BY <2>1, StartPasses DEF PlaceInv, Nested
  <2>6. QED
    BY <2>1, <2>2, <2>3, <2>4, <2>5 DEF PassedInv, Pending
<1>6. CASE Writer
  <2>1. /\ UNCHANGED <<pc, outcome>> /\ DOMAIN stack' = DOMAIN stack
        /\ \A i \in DOMAIN stack :
             stack'[i].dir = stack[i].dir /\ stack'[i].listed = stack[i].listed
        /\ stack # <<>> => Cwd' = Cwd
        /\ \A q \in DOMAIN tree' : Quiet(q)' =>
             q \in DOMAIN tree /\ Quiet(q) /\ tree'[q] = tree[q]
    BY <1>6, WriterKeeps
  <2>2. (\A p : Passed(p)' <=> Passed(p)) /\ PlaceInv'
    BY <2>1, SameFrames
  <2>3. \A p : Pending(p) => Pending(p)'
    BY <2>1 DEF Pending, Types
  <2>4. QED
    BY <2>1, <2>2, <2>3 DEF PassedInv
<1>7. CASE UNCHANGED vars
  <2>1. (\A q : Passed(q)' <=> Passed(q)) /\ PlaceInv' /\ (\A q : Pending(q)' <=> Pending(q))
    BY <1>7 DEF vars, Passed, PlaceInv, Pending, Cwd
  <2>2. QED
    BY <1>7, <1>q, <2>1 DEF vars, PassedInv
<1>8. QED
  BY <1>1, <1>2, <1>3, <1>4, <1>5, <1>6, <1>7 DEF Next, Scan

-----------------------------------------------------------------------------
(* With nobody beside the scan *)

\* The directories the scan has entered.
Entered == {p \in Directories(tree) : Passed(p) /\ ~Pending(p)}

\* The scan counts the directories it enters and is told of nothing that is not there;
\* if it ends otherwise than well, the output is not acceptable.
ExactInv ==
  /\ IsFiniteSet(DOMAIN tree)
  /\ touched = {} =>
       /\ pc # "idle" \/ outcome = "ok" =>
            /\ budget.directories = Cardinality(Entered)
            /\ \A i \in DOMAIN stack :
                 /\ stack[i].dir \in Directories(tree)
                 /\ \A n \in stack[i].names : Append(stack[i].dir, n) \in DOMAIN tree
       /\ pc = "idle" /\ outcome # "ok" => ~Acceptable(tree)

LEMMA Counting ==
  ASSUME IsFiniteSet(DOMAIN tree)
  PROVE  /\ IsFiniteSet(Directories(tree)) /\ IsFiniteSet(Files(tree)) /\ IsFiniteSet(Entered)
         /\ Cardinality(Directories(tree)) \in Nat /\ Cardinality(Files(tree)) \in Nat
         /\ Cardinality(Entered) \in Nat
         /\ \A D \in SUBSET Directories(tree) : Cardinality(D) <= Cardinality(Directories(tree))
         /\ \A F \in SUBSET Files(tree) : IsFiniteSet(F) /\ Cardinality(F) <= Cardinality(Files(tree))
<1>1. /\ Directories(tree) \in SUBSET DOMAIN tree /\ Files(tree) \in SUBSET DOMAIN tree
      /\ Entered \in SUBSET Directories(tree)
  BY DEF Directories, Files, Entered
<1>2. IsFiniteSet(Directories(tree)) /\ IsFiniteSet(Files(tree))
  BY <1>1, FS_Subset
<1>3. IsFiniteSet(Entered)
  BY <1>1, <1>2, FS_Subset
<1>4. QED
  BY <1>2, <1>3, FS_Subset, FS_CardinalityType

\* The listing is that of the files passed.
LEMMA ListedFiles ==
  ASSUME CoverInv, ListedInv, touched = {}, pc # "idle" \/ outcome = "ok"
  PROVE  /\ \A p : p \in DOMAIN entries <=> p \in Files(tree) /\ Passed(p)
         /\ \A p \in DOMAIN entries : entries[p] = tree[p] /\ p \in DOMAIN FilesOf(tree)
                                      /\ FilesOf(tree)[p] = entries[p]
<1>1. \A p : Quiet(p)
  BY DEF Quiet
<1>2. \A p \in DOMAIN entries : p \in Files(tree) /\ entries[p] = tree[p] /\ Passed(p)
  BY <1>1 DEF CoverInv, ListedInv
<1>3. \A p \in Files(tree) : Passed(p) => p \in DOMAIN entries
  BY <1>1 DEF CoverInv, Passed, PassedBy
<1>4. \A p \in Files(tree) : p \in DOMAIN FilesOf(tree) /\ FilesOf(tree)[p] = tree[p]
  BY DEF FilesOf
<1>5. QED
  BY <1>2, <1>3, <1>4

LEMMA FilesFinite ==
  ASSUME TreeInv, IsFiniteSet(DOMAIN tree)
  PROVE  Finite(FilesOf(tree)) /\ Bytes(FilesOf(tree)) \in Nat
<1>1. DOMAIN FilesOf(tree) = Files(tree) /\ \A p \in Files(tree) : FilesOf(tree)[p] = tree[p]
  BY DEF FilesOf
<1>2. \A p \in Files(tree) : tree[p].size \in Nat
  BY Limits DEF Files, TreeInv, IsTree, ListingOf, NodeType
<1>3. Finite(FilesOf(tree))
  BY <1>1, <1>2, Counting DEF Finite
<1>4. QED
  BY <1>3, BytesOfPart

\* A file too many, or too large.
LEMMA Overflowing ==
  ASSUME Types, TreeInv, CoverInv, ListedInv, ExactInv, touched = {}, pc # "idle",
         NEW c \in Files(tree), ~Passed(c), OverBudget(Counted(tree[c].size))
  PROVE  ~Acceptable(tree)
<1> DEFINE x == tree[c]
           f == With(entries, c, x)
           h == FilesOf(tree)
<1>1. IsFiniteSet(DOMAIN tree)
  BY DEF ExactInv
<1>2. /\ \A p \in DOMAIN entries : p \in DOMAIN h /\ h[p] = entries[p] /\ Passed(p)
      /\ DOMAIN h = Files(tree) /\ h[c] = x /\ c \in DOMAIN h
  BY ListedFiles DEF FilesOf
<1>3. Finite(h) /\ x.size \in Nat
  BY <1>1, <1>2, FilesFinite DEF Finite
<1>4. c \notin DOMAIN entries /\ Finite(entries)
  BY <1>2 DEF ListedInv
<1> HIDE DEF x, h
<1>5. /\ Finite(f) /\ Bytes(f) = Bytes(entries) + x.size
      /\ DOMAIN f = DOMAIN entries \union {c}
      /\ Cardinality(DOMAIN f) = Cardinality(DOMAIN entries) + 1
  BY <1>3, <1>4, BytesAdded
<1>6. DOMAIN f \subseteq DOMAIN h /\ \A p \in DOMAIN f : f[p] = h[p]
  BY <1>2, <1>5 DEF With
<1> HIDE DEF f
<1>7. Bytes(f) <= Bytes(h) /\ Bytes(f) \in Nat /\ Bytes(h) \in Nat
  BY <1>3, <1>6, BytesOfPart
<1>8. Cardinality(DOMAIN f) <= Cardinality(Files(tree)) /\ Cardinality(DOMAIN f) \in Nat
      /\ Cardinality(Files(tree)) \in Nat
  <2>1. DOMAIN f \in SUBSET Files(tree)
    BY <1>2, <1>6
  <2>2. QED
    BY <1>1, <2>1, Counting, FS_CardinalityType
<1>9. Cardinality(DOMAIN f) > MaxFiles \/ Bytes(f) > MaxTotalBytes
  <2>1. budget.files = Cardinality(DOMAIN entries) /\ budget.bytes = Bytes(entries)
    BY DEF ListedInv
  <2>2. /\ Counted(x.size).files = budget.files + 1
        /\ Counted(x.size).bytes = budget.bytes + x.size
    BY DEF Counted, Types, TypeOK
  <2>3. Counted(x.size).files > MaxFiles \/ Counted(x.size).bytes > MaxTotalBytes
    BY DEF OverBudget, x
  <2>4. QED
    BY <1>5, <2>1, <2>2, <2>3
<1>10. ~(Cardinality(Files(tree)) <= MaxFiles) \/ ~(Bytes(h) <= MaxTotalBytes)
  BY <1>7, <1>8, <1>9, Limits
<1>11. QED
  BY <1>10 DEF Acceptable, h

LEMMA ExactStep ==
  ASSUME Types, TreeInv, PhaseInv, StackInv, CoverInv, PlaceInv, ListedInv, PassedInv, ExactInv,
         [Next]_vars
  PROVE  ExactInv'
<1>f. IsFiniteSet(DOMAIN tree)
  BY DEF ExactInv
<1>s. ASSUME Scan PROVE UNCHANGED tree
  BY <1>s DEF Scan, Enter, Open, Entry, Return, Rescan
<1>u. ASSUME touched' # {}, IsFiniteSet(DOMAIN tree') PROVE ExactInv'
  BY <1>u DEF ExactInv
<1>e. ASSUME UNCHANGED <<tree, touched>>, NEW how \in {"limit", "unsafe"}, Ends(how),
             touched = {} => ~Acceptable(tree)
      PROVE  ExactInv'
  <2>1. pc' = "idle" /\ outcome' # "ok"
    BY <1>e DEF Ends
  <2>2. Acceptable(tree') <=> Acceptable(tree)
    BY <1>e
  <2>3. QED
    BY <1>f, <1>e, <2>1, <2>2 DEF ExactInv
<1>k. ASSUME UNCHANGED <<tree, touched>>, pc # "idle", pc' # "idle" \/ outcome' = "ok",
             touched = {} =>
               /\ budget'.directories = Cardinality(Entered')
               /\ \A i \in DOMAIN stack' :
                    /\ stack'[i].dir \in Directories(tree)
                    /\ \A n \in stack'[i].names : Append(stack'[i].dir, n) \in DOMAIN tree
      PROVE  ExactInv'
  <2>1. Directories(tree') = Directories(tree)
    BY <1>k
  <2>2. QED
    BY <1>f, <1>k, <2>1 DEF ExactInv
<1>c. stack # <<>> =>
        /\ Len(stack) \in Nat \ {0} /\ DOMAIN stack = 1 .. Len(stack) /\ Len(stack) \in DOMAIN stack
        /\ Cwd = stack[Len(stack)].dir
  BY Top
<1>d. pc # "idle" /\ touched = {} =>
        /\ budget.directories = Cardinality(Entered)
        /\ Cwd \in Directories(tree) /\ Cwd \in DOMAIN tree /\ tree[Cwd].kind = "dir"
        /\ \A i \in DOMAIN stack :
             /\ stack[i].dir \in Directories(tree)
             /\ \A n \in stack[i].names : Append(stack[i].dir, n) \in DOMAIN tree
  BY <1>c DEF ExactInv, Types, Directories
<1>p. ASSUME UNCHANGED <<tree, touched>>,
             \A q \in Directories(tree) :
               touched = {} => (Passed(q)' /\ ~Pending(q)' <=> Passed(q) /\ ~Pending(q))
      PROVE  touched = {} => Entered' = Entered
  BY <1>p DEF Entered
<1>1. CASE Enter
  <2>1. pc = "enter" /\ stack # <<>> /\ UNCHANGED <<tree, touched>>
    BY <1>1 DEF Enter, Types
  <2>2. Passed(Cwd) /\ Len(Cwd) = Len(stack) - 1 /\ Pending(Cwd)
    BY <2>1, CwdPassed DEF Pending
  <2>3. touched = {} =>
          /\ Entered \union {Cwd} \in SUBSET Directories(tree) /\ Cwd \notin Entered
          /\ Cardinality(Entered \union {Cwd}) = budget.directories + 1
          /\ budget.directories + 1 <= Cardinality(Directories(tree))
          /\ Cardinality(Directories(tree)) \in Nat /\ budget.directories \in Nat
    <3> SUFFICES ASSUME touched = {}
                 PROVE  /\ Entered \union {Cwd} \in SUBSET Directories(tree) /\ Cwd \notin Entered
                        /\ Cardinality(Entered \union {Cwd}) = budget.directories + 1
                        /\ budget.directories + 1 <= Cardinality(Directories(tree))
                        /\ Cardinality(Directories(tree)) \in Nat /\ budget.directories \in Nat
      OBVIOUS
    <3>1. Entered \union {Cwd} \in SUBSET Directories(tree) /\ Cwd \notin Entered
      BY <1>d, <2>1, <2>2 DEF Entered
    <3>2. budget.directories = Cardinality(Entered)
      BY <1>d, <2>1
    <3>3. Cardinality(Entered \union {Cwd}) = Cardinality(Entered) + 1
      BY <1>f, <3>1, Counting, FS_AddElement
    <3>4. Cardinality(Entered \union {Cwd}) <= Cardinality(Directories(tree))
      BY <1>f, <3>1, Counting
    <3>5. QED
      BY <1>f, <3>1, <3>2, <3>3, <3>4, Counting
  <2>4. CASE TooDeep
    <3>1. Ends("limit")
      BY <1>1, <2>4 DEF Enter
    <3>2. touched = {} => ~(Len(Cwd) <= MaxDepth)
      BY <1>c, <2>1, <2>2, <2>4, Limits DEF TooDeep
    <3>3. QED
      BY <1>d, <1>e, <2>1, <3>1, <3>2 DEF Acceptable
  <2>5. CASE ~TooDeep /\ budget.directories + 1 > MaxDirectories
    <3>1. Ends("limit")
      BY <1>1, <2>5 DEF Enter
    <3>2. touched = {} => ~(Cardinality(Directories(tree)) <= MaxDirectories)
      BY <2>3, <2>5, Limits
    <3>3. QED
      BY <1>e, <2>1, <3>1, <3>2 DEF Acceptable
  <2>6. CASE ~TooDeep /\ ~(budget.directories + 1 > MaxDirectories) /\ Ends("unsafe")
    <3>1. Cwd \notin DOMAIN tree \/ Followed(Cwd)
      BY <1>1, <2>6 DEF Enter, Ends
    <3>2. touched # {}
      BY <1>d, <2>1, <3>1, Physical
    <3>3. QED
      BY <1>e, <2>1, <2>6, <3>2
  <2>7. CASE ~TooDeep /\ ~(budget.directories + 1 > MaxDirectories) /\ ~Ends("unsafe")
    <3>1. /\ pc' = "open" /\ UNCHANGED stack
          /\ budget' = [budget EXCEPT !.directories = budget.directories + 1]
      BY <1>1, <2>7 DEF Enter
    <3>2. budget'.directories = budget.directories + 1
      BY <3>1 DEF Types, TypeOK
    <3>3. touched = {} => Entered' = Entered \union {Cwd}
      <4>1. \A q : (Passed(q)' <=> Passed(q)) /\ ~Pending(q)' /\ (Pending(q) <=> q = Cwd)
        BY <2>1, <3>1 DEF Passed, Pending
      <4>2. Entered' = {q \in Directories(tree) : Passed(q)}
        BY <2>1, <4>1 DEF Entered
      <4>3. Entered = {q \in Directories(tree) : Passed(q) /\ q # Cwd}
        BY <4>1 DEF Entered
      <4>4. QED
        BY <1>d, <2>1, <2>2, <4>2, <4>3
    <3>4. touched = {} => budget'.directories = Cardinality(Entered')
      BY <2>3, <3>2, <3>3
    <3>5. QED
      BY <1>d, <1>k, <2>1, <3>1, <3>4
  <2>8. QED
    BY <2>4, <2>5, <2>6, <2>7
<1>2. CASE Open
  <2>1. pc = "open" /\ UNCHANGED <<tree, touched, budget>>
    BY <1>2 DEF Open
  <2>2. CASE Ends("unsafe")
    <3>1. pc' # "iterate"
      BY <2>2 DEF Ends
    <3>2. touched # {}
      BY <1>2, <1>d, <2>1, <3>1 DEF Open, Iterates, IsDirectory
    <3>3. QED
      BY <1>e, <2>1, <2>2, <3>2
  <2>3. CASE ~Ends("unsafe")
    <3>1. /\ stack # <<>> /\ pc' = "iterate" /\ DOMAIN stack' = DOMAIN stack
          /\ \A i \in 1 .. Len(stack) :
               /\ stack'[i].dir = stack[i].dir /\ stack'[i].listed = stack[i].listed
               /\ i # Len(stack) => stack'[i].names = stack[i].names
               /\ i = Len(stack) => Read(stack'[i])
      BY <1>2, <2>3, OpenFrames
    <3>2. \A p : Passed(p)' <=> Passed(p)
      BY <1>c, <3>1, SameFrames
    <3>3. \A q : ~Pending(q) /\ ~Pending(q)'
      BY <2>1, <3>1 DEF Pending
    <3>4. touched = {} => Entered' = Entered
      BY <1>p, <2>1, <3>2, <3>3
    <3>5. \A n \in Names(tree, Cwd) : Append(Cwd, n) \in DOMAIN tree
      <4>1. Cwd \in Paths /\ ListingOf(tree)
        BY <3>1, Top DEF TreeInv, IsTree
      <4>2. QED
        BY <4>1, TreeNames
    <3>6. touched = {} => \A i \in DOMAIN stack' :
            /\ stack'[i].dir \in Directories(tree)
            /\ \A n \in stack'[i].names : Append(stack'[i].dir, n) \in DOMAIN tree
      <4> SUFFICES ASSUME touched = {}, NEW i \in DOMAIN stack
                   PROVE  /\ stack'[i].dir \in Directories(tree)
                          /\ \A n \in stack'[i].names : Append(stack'[i].dir, n) \in DOMAIN tree
        BY <3>1
      <4>1. CASE i = Len(stack)
        <5>1. ~Followed(Cwd)
          BY <1>d, <2>1, Physical
        <5>2. stack'[i].names = Names(tree, Cwd) /\ stack'[i].dir = Cwd
          BY <1>c, <3>1, <4>1, <5>1 DEF Read
        <5>3. QED
          BY <1>d, <2>1, <3>5, <5>2
      <4>2. CASE i # Len(stack)
        BY <1>c, <1>d, <2>1, <3>1, <4>2
      <4>3. QED
        BY <4>1, <4>2
    <3>7. QED
      BY <1>d, <1>k, <2>1, <3>1, <3>4, <3>6
  <2>4. QED
    BY <2>2, <2>3
<1>3. CASE Entry
  <2>1. pc = "iterate" /\ stack # <<>> /\ UNCHANGED <<tree, touched>>
    BY <1>3, EntryParts
  <2>2. PICK n \in Nat :
          /\ n \notin stack[Len(stack)].listed
          /\ n \in stack[Len(stack)].names \/ Append(Cwd, n) \in DOMAIN tree
          /\ \/ EntryRefuses(n)
             \/ EntryOverflows(n)
             \/ Append(Cwd, n) \in Paths /\ (EntryEnters(n) \/ EntryLists(n))
    BY <1>3, EntryParts
  <2> DEFINE c == Append(Cwd, n)
  <2>3. touched = {} => c \in DOMAIN tree /\ Found(c) = {tree[c]}
    BY <1>c, <1>d, <2>1, <2>2, Physical
  <2>4. CASE EntryRefuses(n)
    <3>1. Ends("unsafe") /\ (touched = {} => tree[c].kind \in {"link", "special"})
      BY <2>3, <2>4 DEF EntryRefuses
    <3>2. touched = {} => ~Acceptable(tree)
      BY <2>3, <3>1 DEF Acceptable
    <3>3. QED
      BY <1>e, <2>1, <3>1, <3>2
  <2>5. CASE EntryOverflows(n)
    <3>1. Ends("limit")
          /\ (touched = {} => c \in Files(tree) /\ OverBudget(Counted(tree[c].size)))
      BY <2>3, <2>5 DEF EntryOverflows, Files
    <3>2. ~Passed(c)
      BY <2>1, <2>2, ListedPasses
    <3> HIDE DEF c
    <3>3. touched = {} => ~Acceptable(tree)
      BY <2>1, <3>1, <3>2, Overflowing
    <3>4. QED
      BY <1>e, <2>1, <3>1, <3>3
  <2>6. CASE c \in Paths /\ EntryEnters(n)
    <3>1. /\ \A q \in Seq(Nat) : Passed(q) => Passed(q)'
          /\ \A q \in DOMAIN tree : Passed(q)' => Passed(q) \/ q = c
          /\ Cwd' = c /\ ~Passed(c)
      BY <2>1, <2>2, <2>6, EntryPasses
    <3>2. /\ pc' = "enter" /\ stack' = Append(Listed(n), Fresh(c)) /\ UNCHANGED budget
          /\ (touched = {} => c \in Directories(tree))
      BY <2>3, <2>6 DEF EntryEnters, Directories
    <3>3. /\ Listed(n) \in Seq(FrameType) /\ Len(Listed(n)) = Len(stack)
          /\ \A i \in 1 .. Len(stack) :
               Listed(n)[i].dir = stack[i].dir /\ Listed(n)[i].names = stack[i].names
      BY <2>1, ListedFrames
    <3>4. Fresh(c) \in FrameType /\ Fresh(c).dir = c /\ Fresh(c).names = {}
      BY <2>6, FreshFacts
    <3> HIDE DEF c
    <3>5. \A q \in Directories(tree) :
            touched = {} => (Passed(q)' /\ ~Pending(q)' <=> Passed(q) /\ ~Pending(q))
      <4>1. \A q \in Directories(tree) : q \in DOMAIN tree /\ q \in Seq(Nat)
        BY PathsAreSeqs DEF Directories, TreeInv, IsTree, ListingOf
      <4>2. \A q : (Pending(q)' <=> q = c) /\ ~Pending(q)
        BY <2>1, <3>1, <3>2 DEF Pending
      <4>3. QED
        BY <3>1, <4>1, <4>2
    <3>6. touched = {} => Entered' = Entered
      BY <1>p, <2>1, <3>5
    <3>7. touched = {} => \A i \in DOMAIN stack' :
            /\ stack'[i].dir \in Directories(tree)
            /\ \A m \in stack'[i].names : Append(stack'[i].dir, m) \in DOMAIN tree
      <4>1. /\ DOMAIN stack' = 1 .. Len(stack) + 1 /\ stack'[Len(stack) + 1] = Fresh(c)
            /\ \A i \in 1 .. Len(stack) : stack'[i] = Listed(n)[i]
        BY <3>2, <3>3, <3>4, AppendProperties, LenProperties
      <4>2. \A i \in DOMAIN stack' : i \in DOMAIN stack \/ i = Len(stack) + 1
        BY <1>c, <2>1, <4>1
      <4>3. QED
        BY <1>c, <1>d, <2>1, <3>2, <3>3, <3>4, <4>1, <4>2
    <3>8. QED
      BY <1>d, <1>k, <2>1, <3>2, <3>6, <3>7
  <2>7. CASE c \in Paths /\ EntryLists(n)
    <3>1. /\ UNCHANGED pc /\ stack' = Listed(n)
          /\ (touched = {} => c \in Files(tree))
      BY <2>3, <2>7 DEF EntryLists, Files
    <3>2. budget'.directories = budget.directories
      BY <2>7 DEF EntryLists, Counted, Types, TypeOK
    <3>3. /\ \A q \in Seq(Nat) : Passed(q) => Passed(q)'
          /\ \A q \in DOMAIN tree : Passed(q)' => Passed(q) \/ q = c
      BY <2>1, <2>2, <2>7, <3>1, EntryPasses
    <3>4. /\ DOMAIN Listed(n) = 1 .. Len(stack)
          /\ \A i \in 1 .. Len(stack) :
               Listed(n)[i].dir = stack[i].dir /\ Listed(n)[i].names = stack[i].names
      BY <2>1, ListedFrames
    <3> HIDE DEF c
    <3>5. \A q \in Directories(tree) :
            touched = {} => (Passed(q)' /\ ~Pending(q)' <=> Passed(q) /\ ~Pending(q))
      <4>1. \A q \in Directories(tree) : q \in DOMAIN tree /\ q \in Seq(Nat)
                                         /\ (touched = {} => q # c)
        BY <3>1, PathsAreSeqs DEF Directories, Files, TreeInv, IsTree, ListingOf
      <4>2. \A q : ~Pending(q)' /\ ~Pending(q)
        BY <2>1, <3>1 DEF Pending
      <4>3. QED
        BY <3>3, <4>1, <4>2
    <3>6. touched = {} => Entered' = Entered
      BY <1>p, <2>1, <3>5
    <3>7. QED
      BY <1>c, <1>d, <1>k, <2>1, <3>1, <3>2, <3>4, <3>6
  <2>8. QED
    BY <2>2, <2>4, <2>5, <2>6, <2>7
<1>4. CASE Return
  <2>1. /\ pc = "iterate" /\ stack # <<>> /\ \A q : Passed(q) => Passed(q)'
        /\ \A q \in DOMAIN tree : Quiet(q) /\ Passed(q)' => Passed(q)
    BY <1>4, ReturnPasses
  <2>2. UNCHANGED <<tree, touched, budget>> /\ (touched = {} => \A q : Quiet(q))
    BY <1>4 DEF Return, Quiet
  <2>3. pc' # "enter" /\ (pc' # "idle" \/ outcome' = "ok")
    BY <1>4, <2>1 DEF Return, Ends
  <2>4. \A q : ~Pending(q) /\ ~Pending(q)'
    BY <2>1, <2>3 DEF Pending
  <2>5. \A q \in Directories(tree) : q \in DOMAIN tree
    BY DEF Directories
  <2>6. touched = {} => Entered' = Entered
    BY <1>p, <2>1, <2>2, <2>4, <2>5
  <2>7. \A i \in DOMAIN stack' : i \in DOMAIN stack /\ stack'[i] = stack[i]
    <3>1. CASE Len(stack) = 1
      <4>1. stack' = <<>> /\ DOMAIN stack' = {}
        BY <1>4, <3>1, EmptySeq DEF Return, Ends
      <4>2. QED
        BY <4>1
    <3>2. CASE Len(stack) # 1
      <4>1. stack' = Front(stack)
        BY <1>4, <3>2 DEF Return
      <4>2. /\ DOMAIN stack' = 1 .. Len(stack) - 1
            /\ \A i \in 1 .. Len(stack) - 1 : stack'[i] = stack[i]
        BY <2>1, <3>2, <4>1, PoppedFrames DEF Types
      <4>3. QED
        BY <1>c, <2>1, <4>2
    <3>3. QED
      BY <3>1, <3>2
  <2>8. QED
    BY <1>d, <1>k, <2>1, <2>2, <2>3, <2>6, <2>7
<1>5. CASE Rescan
  <2>1. /\ stack' = <<Fresh(<<>>)>> /\ pc' = "enter" /\ UNCHANGED tree
        /\ budget' = NoBudget
    BY <1>5 DEF Rescan
  <2>2. /\ Cwd' = <<>> /\ DOMAIN stack' = {1} /\ stack'[1].dir = <<>> /\ stack'[1].names = {}
        /\ budget'.directories = 0
    BY <2>1, OneFrame DEF Cwd, NoBudget
  <2>3. Entered' = {}
    <3>1. \A q \in DOMAIN tree : q \in Seq(Nat)
      BY PathsAreSeqs DEF TreeInv, IsTree, ListingOf
    <3>2. \A q \in DOMAIN tree : Passed(q)' => Pending(q)'
      BY <2>1, <2>2, <3>1, StartPasses DEF Passed, PassedBy, Pending
    <3>3. \A q \in Directories(tree)' : q \in DOMAIN tree
      BY <2>1 DEF Directories
    <3>4. QED
      BY <3>2, <3>3 DEF Entered
  <2>4. Cardinality(Entered') = 0
    BY <2>3, FS_EmptySet
  <2>5. <<>> \in Directories(tree')
    BY <2>1 DEF Directories, TreeInv, IsTree
  <2>6. QED
    BY <1>f, <2>1, <2>2, <2>4, <2>5 DEF ExactInv
<1>6. CASE Writer
  BY <1>6, <1>f, <1>u, WriterTouches
<1>7. CASE UNCHANGED vars
  <2>1. UNCHANGED <<tree, touched, budget, stack, pc, outcome>>
    BY <1>7 DEF vars
  <2>2. UNCHANGED Entered /\ UNCHANGED Acceptable(tree) /\ UNCHANGED Directories(tree)
    BY <2>1 DEF Entered, Passed, Pending, Cwd
  <2>3. QED
    BY <2>1, <2>2 DEF ExactInv
<1>8. QED
  BY <1>1, <1>2, <1>3, <1>4, <1>5, <1>6, <1>7 DEF Next, Scan

-----------------------------------------------------------------------------
(* The listing *)

ListingInv == ScanInv /\ PlaceInv /\ ListedInv /\ PassedInv /\ ExactInv

LEMMA InitListing == Init => ListingInv
<1> SUFFICES ASSUME Init PROVE ListingInv
  OBVIOUS
<1>0. ScanInv
  BY InitScan
<1>1. /\ tree \in Trees /\ pc = "enter" /\ stack = <<Fresh(<<>>)>> /\ budget = NoBudget
      /\ entries = Empty /\ outcome = "none" /\ touched = {} /\ seen = AsPairs(tree)
  BY DEF Init
<1>2. /\ Len(stack) = 1 /\ DOMAIN stack = {1} /\ stack[1].dir = <<>> /\ stack[1].names = {}
      /\ Cwd = <<>>
  BY <1>1, OneFrame DEF Cwd
<1>3. PlaceInv /\ \A q \in Seq(Nat) : Passed(q) => q = <<>>
  BY <1>1, StartPasses DEF PlaceInv, Passed
<1>4. /\ <<>> \in DOMAIN tree /\ tree[<<>>].kind = "dir" /\ DOMAIN tree \subseteq Seq(Nat)
      /\ IsFiniteSet(DOMAIN tree)
  BY <1>0, <1>1, TreesAreFinite, PathsAreSeqs DEF ScanInv, TreeInv, IsTree, ListingOf
<1>5. ListedInv
  <2>1. DOMAIN entries = {}
    BY <1>1 DEF Empty
  <2>2. budget.files = Cardinality(DOMAIN entries) /\ budget.bytes = Bytes(entries)
    BY <1>1, NoBytes DEF NoBudget
  <2>3. QED
    BY <1>1, <2>1, <2>2, NoBytes DEF ListedInv
<1>6. \A p \in DOMAIN tree : Passed(p) => Pending(p)
  BY <1>1, <1>2, <1>3, <1>4 DEF Pending
<1>7. PassedInv
  BY <1>2, <1>3, <1>4, <1>6 DEF PassedInv
<1>8. ExactInv
  <2>1. Entered = {}
    BY <1>6 DEF Entered, Directories
  <2>2. budget.directories = Cardinality(Entered)
    BY <1>1, <2>1, FS_EmptySet DEF NoBudget
  <2>3. stack[1].dir \in Directories(tree)
    BY <1>2, <1>4 DEF Directories
  <2>4. QED
    BY <1>1, <1>2, <1>4, <2>2, <2>3 DEF ExactInv
<1>9. QED
  BY <1>0, <1>3, <1>5, <1>7, <1>8 DEF ListingInv

\* What a scan has passed, listed and counted, whatever is written beside it.
\* (_scan_directory, _ManifestBudget)
THEOREM ListingInvariance == Spec => []ListingInv
<1>1. ListingInv /\ [Next]_vars /\ ScanInv' => ListingInv'
  <2> SUFFICES ASSUME ListingInv, [Next]_vars, ScanInv' PROVE ListingInv'
    OBVIOUS
  <2>1. Types /\ TreeInv /\ PhaseInv /\ StackInv /\ CoverInv
    BY DEF ListingInv, ScanInv, PhaseInv, Types
  <2>2. PlaceInv /\ ListedInv /\ PassedInv /\ ExactInv
    BY DEF ListingInv
  <2>3. ListedInv'
    BY <2>1, <2>2, ListedStep
  <2>4. PassedInv' /\ PlaceInv'
    BY <2>1, <2>2, PassedStep
  <2>5. ExactInv'
    BY <2>1, <2>2, ExactStep
  <2>6. QED
    BY <2>3, <2>4, <2>5 DEF ListingInv
<1>2. QED
  BY <1>1, InitListing, ScanInvariance, PTL DEF Spec

\* With nobody beside it, a scan that ends well has entered each directory and listed
\* each file, so that what it counted is the output.
LEMMA AllCounted ==
  ASSUME ListingInv, stack = <<>>, pc = "idle", outcome = "ok", touched = {}
  PROVE  Acceptable(tree)
<1>1. DOMAIN stack = {} /\ (\A p : Quiet(p)) /\ \A p : Passed(p)
  BY EmptySeq DEF Quiet, Passed, PassedBy
<1>2. CoverInv /\ ListedInv /\ PassedInv /\ ExactInv /\ TreeInv /\ \A p : ~Pending(p)
  BY DEF ListingInv, ScanInv, Pending
<1>3. \A p \in DOMAIN tree : \/ tree[p].kind = "file"
                             \/ tree[p].kind = "dir" /\ Len(p) <= MaxDepth
  BY <1>1, <1>2 DEF PassedInv
<1>4. Cardinality(Directories(tree)) <= MaxDirectories
  <2>1. Entered = Directories(tree)
    BY <1>1, <1>2 DEF Entered
  <2>2. QED
    BY <1>2, <2>1 DEF ExactInv, ListedInv
<1>5. DOMAIN entries = Files(tree) /\ \A p \in Files(tree) : FilesOf(tree)[p] = entries[p]
  BY <1>1, <1>2, ListedFiles
<1>6. Cardinality(Files(tree)) <= MaxFiles
  BY <1>2, <1>5 DEF ListedInv
<1>7. Bytes(FilesOf(tree)) <= MaxTotalBytes
  <2>1. DOMAIN FilesOf(tree) = Files(tree) /\ Finite(FilesOf(tree)) /\ Finite(entries)
    BY <1>2, FilesFinite DEF FilesOf, ExactInv, ListedInv
  <2>2. Bytes(FilesOf(tree)) <= Bytes(entries)
    BY <1>5, <2>1, BytesOfPart
  <2>3. Bytes(entries) <= MaxTotalBytes /\ Bytes(entries) \in Nat /\ Bytes(FilesOf(tree)) \in Nat
    BY <1>2, <1>5, <2>1, BytesOfPart DEF ListedInv
  <2>4. QED
    BY <2>2, <2>3, Limits
<1>8. QED
  BY <1>3, <1>4, <1>6, <1>7 DEF Acceptable, Directories

\* A scan that succeeds lists every file that was left alone, as it is, and nothing that
\* was not there at some time of it but below what was a link, within the limits; the
\* part of the output left alone holds nothing that is refused; and with nobody beside it, a scan succeeds
\* exactly if the output is acceptable.  (capture_output_manifest, _scan_directory)
THEOREM ListingFaithful == Spec => []ListingIsFaithful
<1>1. ListingInv => ListingIsFaithful
  <2> SUFFICES ASSUME ListingInv, pc = "idle"
               PROVE  /\ outcome = "ok" =>
                          /\ \A p \in Untouched :
                               CASE tree[p].kind = "file" -> p \in DOMAIN entries /\ entries[p] = tree[p]
                                 [] tree[p].kind = "dir" -> Len(p) <= MaxDepth
                                 [] OTHER -> FALSE
                          /\ \A p \in DOMAIN entries : <<p, entries[p]>> \in seen \/ WasBehind(p)
                          /\ Cardinality(DOMAIN entries) <= MaxFiles
                          /\ Bytes(entries) <= MaxTotalBytes
                      /\ touched = {} => (outcome = "ok" <=> Acceptable(tree))
    BY DEF ListingIsFaithful
  <2>1. stack = <<>> /\ DOMAIN stack = {}
    BY EmptySeq DEF ListingInv, ScanInv, PhaseInv
  <2>2. \A p : Passed(p) /\ ~Pending(p)
    BY <2>1 DEF Passed, PassedBy, Pending
  <2>3. CoverInv /\ ListedInv /\ PassedInv /\ ExactInv
    BY DEF ListingInv, ScanInv
  <2>4. ASSUME outcome = "ok", NEW p \in Untouched
        PROVE  CASE tree[p].kind = "file" -> p \in DOMAIN entries /\ entries[p] = tree[p]
                 [] tree[p].kind = "dir" -> Len(p) <= MaxDepth
                 [] OTHER -> FALSE
    <3>1. p \in DOMAIN tree /\ Quiet(p)
      BY <2>4 DEF Untouched
    <3>2. tree[p].kind = "file" \/ (tree[p].kind = "dir" /\ Len(p) <= MaxDepth)
      BY <2>2, <2>3, <2>4, <3>1 DEF PassedInv
    <3>3. CASE tree[p].kind = "file"
      <4>1. p \in DOMAIN entries /\ entries[p] = tree[p]
        BY <2>1, <2>3, <2>4, <3>1, <3>3 DEF CoverInv, Files
      <4>2. QED
        BY <3>3, <4>1
    <3>4. CASE tree[p].kind = "dir" /\ Len(p) <= MaxDepth
      BY <3>4
    <3>5. QED
      BY <3>2, <3>3, <3>4
  <2>5. outcome = "ok" => /\ \A p \in DOMAIN entries : <<p, entries[p]>> \in seen \/ WasBehind(p)
                          /\ Cardinality(DOMAIN entries) <= MaxFiles
                          /\ Bytes(entries) <= MaxTotalBytes
    BY <2>3 DEF ListedInv, Seen
  <2>6. touched = {} => (outcome = "ok" <=> Acceptable(tree))
    BY <2>1, <2>3, AllCounted DEF ExactInv
  <2>7. QED
    BY <2>4, <2>5, <2>6
<1>2. QED
  BY <1>1, ListingInvariance, PTL
=============================================================================
