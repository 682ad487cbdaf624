--------------------------- MODULE DashboardProofs ---------------------------
(***************************************************************************)
(* Proofs about Dashboard: whatever the number of pages and connections,   *)
(* one check runs at a time, a shutdown cuts none off before the third     *)
(* Ctrl+C, a page says what it waits for, and the server implements        *)
(* CheckDesk.                                                              *)
(***************************************************************************)
EXTENDS Dashboard, TLAPS

\* A handler thread past do_POST's question holds the lock.
LockInv == \A c \in Conns : conn[c].thread \in Holding => lock = c

\* The stage of the shutdown counts the Ctrl+C, and a check is cut off by the
\* third one only.
StageInv ==
  /\ server = "serving" => interrupts = 0
  /\ server = "joining" => interrupts = 1
  /\ server = "leaving" => interrupts = 2
  /\ \A c \in Conns : conn[c].thread = "cut" => interrupts = 3 /\ server = "gone"

ServerInv == TypeOK /\ LockInv /\ StageInv

-----------------------------------------------------------------------------
(* The types *)

LEMMA ConnStates ==
  \A r \in ConnType :
    /\ \A s \in Threads : To(r, s) \in ConnType
    /\ \A s \in Threads, a \in Answers : [To(r, s) EXCEPT !.answer = a] \in ConnType
    /\ [r EXCEPT !.waiting = FALSE, !.open = FALSE] \in ConnType
    /\ [r EXCEPT !.sent = "all"] \in ConnType
    /\ [r EXCEPT !.open = FALSE] \in ConnType
    /\ [r EXCEPT !.kind = "stranger", !.open = TRUE, !.thread = "queued"] \in ConnType
    /\ [r EXCEPT !.kind = "run", !.sent = "head"] \in ConnType
    /\ [r EXCEPT !.kind = "other", !.sent = "all"] \in ConnType
<1> SUFFICES ASSUME NEW r \in ConnType
             PROVE  /\ \A s \in Threads : To(r, s) \in ConnType
                    /\ \A s \in Threads, a \in Answers : [To(r, s) EXCEPT !.answer = a] \in ConnType
                    /\ [r EXCEPT !.waiting = FALSE, !.open = FALSE] \in ConnType
                    /\ [r EXCEPT !.sent = "all"] \in ConnType
                    /\ [r EXCEPT !.open = FALSE] \in ConnType
                    /\ [r EXCEPT !.kind = "stranger", !.open = TRUE, !.thread = "queued"] \in ConnType
                    /\ [r EXCEPT !.kind = "run", !.sent = "head"] \in ConnType
                    /\ [r EXCEPT !.kind = "other", !.sent = "all"] \in ConnType
  OBVIOUS
<1>1. \A s \in Threads : To(r, s) \in ConnType
  BY DEF To, ConnType
<1>2. \A s \in Threads, a \in Answers : [To(r, s) EXCEPT !.answer = a] \in ConnType
  BY <1>1 DEF ConnType
<1>3. /\ [r EXCEPT !.waiting = FALSE, !.open = FALSE] \in ConnType
      /\ [r EXCEPT !.sent = "all"] \in ConnType
      /\ [r EXCEPT !.open = FALSE] \in ConnType
  BY DEF ConnType
<1>4. [r EXCEPT !.kind = "stranger", !.open = TRUE, !.thread = "queued"] \in ConnType
  BY DEF ConnType, Kinds, Threads
<1>5. /\ [r EXCEPT !.kind = "run", !.sent = "head"] \in ConnType
      /\ [r EXCEPT !.kind = "other", !.sent = "all"] \in ConnType
  BY DEF ConnType, Kinds
<1>6. QED
  BY <1>1, <1>2, <1>3, <1>4, <1>5

LEMMA PageStates ==
  /\ Blank \in PageType
  /\ [Blank EXCEPT !.loaded = "loading"] \in PageType
  /\ \A r \in PageType, c \in Conns : Busy(r, c) \in PageType /\ Rendered(r, c) \in PageType
<1> DEFINE ids == 0 .. MaxConns
           own == 1 .. MaxConns
<1>0. 0 \in ids /\ (\A c \in own : c \in ids) /\ Conns = own
  BY BoundAssumption DEF Conns
<1>a. PageType = [loaded : {"closed", "loading", "ready", "failed"}, disabled : BOOLEAN,
                  banner : Banners, timerId : ids, ticking : SUBSET own, report : ids]
  BY DEF PageType
<1> HIDE DEF ids, own
<1>1. Blank \in PageType /\ [Blank EXCEPT !.loaded = "loading"] \in PageType
  BY <1>0, <1>a DEF Blank, Banners
<1>2. ASSUME NEW r \in PageType, NEW c \in Conns PROVE Busy(r, c) \in PageType
  <2>1. r.ticking \cup {c} \in SUBSET own /\ c \in ids /\ "running" \in Banners
    BY <1>0, <1>a DEF Banners
  <2>2. QED
    BY <1>a, <2>1 DEF Busy
<1>3. ASSUME NEW r \in PageType, NEW c \in Conns PROVE Rendered(r, c) \in PageType
  <2>1. \A q \in PageType : Free(q) \in PageType
    <3> SUFFICES ASSUME NEW q \in PageType PROVE Free(q) \in PageType
      OBVIOUS
    <3>1. q.ticking \ {q.timerId} \in SUBSET own
      BY <1>a
    <3>2. QED
      BY <1>0, <1>a, <3>1 DEF Free
  <2>2. "verdict" \in Banners /\ "error" \in Banners /\ c \in ids
    BY <1>0 DEF Banners
  <2>3. /\ [r EXCEPT !.banner = "verdict", !.report = c] \in PageType
        /\ [r EXCEPT !.banner = "error"] \in PageType
        /\ [r EXCEPT !.loaded = "ready"] \in PageType
        /\ [r EXCEPT !.loaded = "failed", !.banner = "error", !.disabled = TRUE] \in PageType
    BY <1>a, <2>2
  <2>4. QED
    BY <2>1, <2>3 DEF Rendered
<1>4. QED
  BY <1>1, <1>2, <1>3

\* The part of TypeOK that is about one connection.
ConnOK(r) == r \in ConnType /\ (r.thread \in {"over", "cut"} => ~r.open)

\* A connection that a step of its thread, its client or the main thread changes.
LEMMA ConnChanges ==
  ASSUME TypeOK, NEW c \in Conns
  PROVE  /\ \A s \in Threads \ {"over", "cut"} : ConnOK(To(conn[c], s))
         /\ ConnOK(To(conn[c], "over"))
         /\ \A a \in Answers : ConnOK([To(conn[c], "over") EXCEPT !.answer = a])
         /\ \A a \in Answers : ConnOK([To(conn[c], "freeing") EXCEPT !.answer = a])
         /\ ConnOK([conn[c] EXCEPT !.waiting = FALSE, !.open = FALSE])
         /\ ConnOK([conn[c] EXCEPT !.open = FALSE])
         /\ ConnOK([conn[c] EXCEPT !.kind = "stranger", !.open = TRUE, !.thread = "queued"])
         /\ conn[c].open => /\ ConnOK([conn[c] EXCEPT !.sent = "all"])
                            /\ ConnOK([conn[c] EXCEPT !.kind = "run", !.sent = "head"])
                            /\ ConnOK([conn[c] EXCEPT !.kind = "other", !.sent = "all"])
<1> DEFINE r == conn[c]
<1>1. r \in ConnType /\ (r.thread \in {"over", "cut"} => ~r.open)
  BY DEF TypeOK
<1> HIDE DEF r
<1>2. /\ r.open \in BOOLEAN
      /\ \A s \in Threads : To(r, s).thread = s /\ To(r, s).open = (r.open /\ s # "over")
  BY <1>1 DEF ConnType, To
<1>3. \A s \in Threads : To(r, s) \in ConnType
  BY <1>1, ConnStates
<1>4. \A s \in Threads \ {"over", "cut"} : ConnOK(To(r, s))
  BY <1>2, <1>3 DEF ConnOK
<1>5. ConnOK(To(r, "over"))
  BY <1>2, <1>3 DEF ConnOK, Threads
<1>6. \A a \in Answers : /\ ConnOK([To(r, "over") EXCEPT !.answer = a])
                         /\ ConnOK([To(r, "freeing") EXCEPT !.answer = a])
  <2>1. \A q \in ConnType, a \in Answers :
          [q EXCEPT !.answer = a].thread = q.thread /\ [q EXCEPT !.answer = a].open = q.open
    BY DEF ConnType
  <2>2. "over" \in Threads /\ "freeing" \in Threads
    BY DEF Threads
  <2>3. \A s \in Threads, a \in Answers : [To(r, s) EXCEPT !.answer = a] \in ConnType
    BY <1>1, ConnStates
  <2>4. QED
    BY <1>2, <1>3, <2>1, <2>2, <2>3 DEF ConnOK
<1>7. ConnOK([r EXCEPT !.waiting = FALSE, !.open = FALSE]) /\ ConnOK([r EXCEPT !.open = FALSE])
  BY <1>1, ConnStates DEF ConnOK, ConnType
<1>8. ConnOK([r EXCEPT !.kind = "stranger", !.open = TRUE, !.thread = "queued"])
  BY <1>1, ConnStates DEF ConnOK, ConnType
<1>9. r.open => /\ ConnOK([r EXCEPT !.sent = "all"])
                /\ ConnOK([r EXCEPT !.kind = "run", !.sent = "head"])
                /\ ConnOK([r EXCEPT !.kind = "other", !.sent = "all"])
  BY <1>1, ConnStates DEF ConnOK, ConnType
<1>10. QED
  BY <1>4, <1>5, <1>6, <1>7, <1>8, <1>9 DEF r

-----------------------------------------------------------------------------
(* The server *)

\* A step that changes one connection, and perhaps the lock.
LEMMA OneConn ==
  ASSUME ServerInv, NEW c \in Conns, NEW r, ConnOK(r), conn' = [conn EXCEPT ![c] = r],
         r.thread \in Holding => lock' = c,
         \A d \in Conns \ {c} : conn[d].thread \in Holding => lock' = d,
         lock' \in 0 .. MaxConns, r.thread = "cut" => conn[c].thread = "cut",
         page' \in [Pages -> PageType], UNCHANGED <<server, interrupts>>
  PROVE  ServerInv'
<1>1. TypeOK
  BY DEF ServerInv
<1>2. /\ conn'[c] = r /\ \A d \in Conns \ {c} : conn'[d] = conn[d]
      /\ conn' = [d \in Conns |-> conn'[d]] /\ DOMAIN conn' = Conns
  BY <1>1 DEF TypeOK
<1>3. TypeOK'
  BY <1>1, <1>2 DEF TypeOK, ConnOK
<1>4. LockInv'
  BY <1>2 DEF LockInv
<1>5. StageInv'
  BY <1>2 DEF ServerInv, StageInv
<1>6. QED
  BY <1>3, <1>4, <1>5 DEF ServerInv

\* The same for a step that leaves the lock alone.
LEMMA OneConnOnly ==
  ASSUME ServerInv, NEW c \in Conns, NEW r, ConnOK(r), conn' = [conn EXCEPT ![c] = r],
         r.thread \in Holding => lock = c,
         r.thread = "cut" => conn[c].thread = "cut",
         page' \in [Pages -> PageType], UNCHANGED <<server, interrupts, lock>>
  PROVE  ServerInv'
<1>1. \A d \in Conns \ {c} : conn[d].thread \in Holding => lock' = d
  BY DEF ServerInv, LockInv
<1>2. lock' \in 0 .. MaxConns
  BY DEF ServerInv, TypeOK
<1>3. QED
  BY <1>1, <1>2, OneConn

\* What a thread, and an answer, become.
LEMMA Became ==
  \A r \in ConnType :
    /\ \A s \in Threads : To(r, s).thread = s
    /\ \A s \in Threads, a \in Answers : [To(r, s) EXCEPT !.answer = a].thread = s
<1> SUFFICES ASSUME NEW r \in ConnType, NEW s \in Threads
             PROVE  To(r, s).thread = s /\ \A a \in Answers : [To(r, s) EXCEPT !.answer = a].thread = s
  OBVIOUS
<1>1. To(r, s) \in ConnType
  BY ConnStates
<1>2. To(r, s).thread = s
  BY DEF To, ConnType
<1>3. QED
  BY <1>1, <1>2 DEF ConnType

LEMMA Words ==
  /\ {"over", "cut", "queued", "idle", "reading", "checking", "refusing", "freeing", "answering"} \subseteq Threads
  /\ {"ok", "conflict", "error", "lost"} \subseteq Answers
  /\ \A s \in Holding : s \notin {"over", "cut", "queued", "idle", "answering", "none"}
  /\ {"reading", "checking", "refusing", "freeing"} \subseteq Holding
  BY DEF Threads, Answers, Holding

\* A step that moves one thread, and perhaps the lock.
LEMMA ThreadMoves ==
  ASSUME ServerInv, NEW c \in Conns, NEW s \in Threads \ {"cut"},
         conn' = [conn EXCEPT ![c] = To(conn[c], s)],
         s \in Holding => lock' = c,
         \A d \in Conns \ {c} : conn[d].thread \in Holding => lock' = d,
         lock' \in 0 .. MaxConns, UNCHANGED <<server, interrupts, page>>
  PROVE  ServerInv'
<1> DEFINE r == To(conn[c], s)
<1>1. TypeOK
  BY DEF ServerInv
<1>2. conn[c] \in ConnType /\ page' \in [Pages -> PageType]
  BY <1>1 DEF TypeOK
<1>3. r.thread = s
  BY <1>2, Became
<1>4. ConnOK(r)
  BY <1>1, ConnChanges
<1>5. conn' = [conn EXCEPT ![c] = r]
  OBVIOUS
<1> HIDE DEF r
<1>6. r.thread \in Holding => lock' = c
  BY <1>3
<1>7. r.thread = "cut" => conn[c].thread = "cut"
  BY <1>3
<1>8. QED
  BY <1>2, <1>4, <1>5, <1>6, <1>7, OneConn

\* The same, when the thread also answers.
LEMMA ThreadReplies ==
  ASSUME ServerInv, NEW c \in Conns, NEW s \in {"over", "freeing"}, NEW a \in Answers,
         conn' = [conn EXCEPT ![c] = [To(conn[c], s) EXCEPT !.answer = a]],
         s \in Holding => lock = c, UNCHANGED <<server, interrupts, lock, page>>
  PROVE  ServerInv'
<1> DEFINE r == [To(conn[c], s) EXCEPT !.answer = a]
<1>1. TypeOK
  BY DEF ServerInv
<1>2. conn[c] \in ConnType /\ page' \in [Pages -> PageType] /\ s \in Threads
  BY <1>1, Words DEF TypeOK
<1>3. r.thread = s
  BY <1>2, Became
<1>4. ConnOK(r)
  BY <1>1, ConnChanges
<1>5. conn' = [conn EXCEPT ![c] = r]
  OBVIOUS
<1> HIDE DEF r
<1>6. r.thread \in Holding => lock = c
  BY <1>3
<1>7. r.thread # "cut"
  BY <1>3
<1>8. QED
  BY <1>2, <1>4, <1>5, <1>6, <1>7, OneConnOnly

\* Only the thread that got the lock goes past do_POST's question, and it is the
\* one that gives it back.
LEMMA HandlerStep ==
  ASSUME ServerInv, NEW c \in Conns, Accept(c) \/ Handler(c)
  PROVE  ServerInv'
<1>0. LockInv /\ lock \in 0 .. MaxConns /\ \A d \in Conns : conn[d].thread \in Holding => lock = d
  BY DEF ServerInv, TypeOK, LockInv
<1>a. conn[c].thread \in Holding => \A d \in Conns \ {c} : conn[d].thread \notin Holding
  BY <1>0 DEF Conns
<1>b. 0 \in 0 .. MaxConns /\ c \in 0 .. MaxConns
  BY BoundAssumption DEF Conns
<1>1. CASE Accept(c)
  <2>1. conn' = [conn EXCEPT ![c] = To(conn[c], "idle")] /\ UNCHANGED <<server, interrupts, lock, page>>
    BY <1>1 DEF Accept, Goes
  <2>2. QED
    BY <1>0, <2>1, Words, ThreadMoves
<1>2. CASE NoRequest(c)
  <2>1. conn' = [conn EXCEPT ![c] = To(conn[c], "over")] /\ UNCHANGED <<server, interrupts, lock, page>>
    BY <1>2 DEF NoRequest, Goes
  <2>2. QED
    BY <1>0, <2>1, Words, ThreadMoves
<1>3. CASE Serve(c)
  <2>1. PICK a \in Answers : conn' = [conn EXCEPT ![c] = [To(conn[c], "over") EXCEPT !.answer = a]]
    BY <1>3, Words DEF Serve, Replies
  <2>2. UNCHANGED <<server, interrupts, lock, page>>
    BY <1>3 DEF Serve
  <2>3. QED
    BY <2>1, <2>2, Words, ThreadReplies
<1>4. CASE Ask(c)
  <2>1. CASE lock = 0
    <3>1. lock' = c /\ conn' = [conn EXCEPT ![c] = To(conn[c], "reading")] /\ UNCHANGED <<server, interrupts, page>>
      BY <1>4, <2>1 DEF Ask, Goes
    <3>2. \A d \in Conns : conn[d].thread \notin Holding
      BY <1>0, <2>1 DEF Conns
    <3>3. QED
      BY <1>b, <3>1, <3>2, Words, ThreadMoves
  <2>2. CASE lock # 0
    <3>1. conn' = [conn EXCEPT ![c] = [To(conn[c], "over") EXCEPT !.answer = "conflict"]]
          /\ UNCHANGED <<server, interrupts, lock, page>>
      BY <1>4, <2>2 DEF Ask, Replies
    <3>2. QED
      BY <3>1, Words, ThreadReplies
  <2>3. QED
    BY <2>1, <2>2
<1>5. CASE ReadBody(c)
  <2>1. PICK s \in {"checking", "refusing"} : conn' = [conn EXCEPT ![c] = To(conn[c], s)]
    BY <1>5 DEF ReadBody, Goes
  <2>2. UNCHANGED <<server, interrupts, lock, page>> /\ lock = c
    BY <1>0, <1>5, Words DEF ReadBody, At
  <2>3. s \in Threads \ {"cut"}
    BY Words
  <2>4. QED
    BY <1>0, <2>1, <2>2, <2>3, ThreadMoves
<1>6. CASE Check(c)
  <2>1. lock = c /\ conn[c].thread \in Holding /\ UNCHANGED <<server, interrupts, page>>
    BY <1>0, <1>6, Words DEF Check, At
  <2>2. CASE lock' = 0 /\ conn' = [conn EXCEPT ![c] = To(conn[c], "answering")]
    BY <1>a, <1>b, <2>1, <2>2, Words, ThreadMoves
  <2>3. CASE UNCHANGED lock /\ conn' = [conn EXCEPT ![c] = To(conn[c], "refusing")]
    BY <1>0, <2>1, <2>3, Words, ThreadMoves
  <2>4. QED
    BY <1>6, <2>2, <2>3 DEF Check, Goes
<1>7. CASE Report(c)
  <2>1. conn' = [conn EXCEPT ![c] = [To(conn[c], "over") EXCEPT !.answer = "ok"]] /\ UNCHANGED <<server, interrupts, lock, page>>
    BY <1>7 DEF Report, Replies
  <2>2. QED
    BY <2>1, Words, ThreadReplies
<1>8. CASE Refuse(c)
  <2>1. conn' = [conn EXCEPT ![c] = [To(conn[c], "freeing") EXCEPT !.answer = "error"]] /\ UNCHANGED <<server, interrupts, lock, page>>
    BY <1>8 DEF Refuse, Replies
  <2>2. lock = c
    BY <1>0, <1>8, Words DEF Refuse, At
  <2>3. QED
    BY <2>1, <2>2, Words, ThreadReplies
<1>9. CASE Finally(c)
  <2>1. lock' = 0 /\ conn' = [conn EXCEPT ![c] = To(conn[c], "over")] /\ UNCHANGED <<server, interrupts, page>>
    BY <1>9 DEF Finally, Goes
  <2>2. conn[c].thread \in Holding
    BY <1>9, Words DEF Finally, At
  <2>3. QED
    BY <1>a, <1>b, <2>1, <2>2, Words, ThreadMoves
<1>10. QED
  BY <1>1, <1>2, <1>3, <1>4, <1>5, <1>6, <1>7, <1>8, <1>9 DEF Handler

\* A request that a page starts is one of the types, and in the backlog or refused.
LEMMA Fetched ==
  ASSUME NEW p \in Pages, NEW kind \in Kinds
  PROVE  /\ ConnOK(Fetch(p, kind))
         /\ Fetch(p, kind).thread \in {"queued", "over"}
         /\ Fetch(p, kind).kind = kind /\ Fetch(p, kind).page = p /\ Fetch(p, kind).waiting
<1>1. Fetch(p, kind) \in ConnType
  BY DEF Fetch, ConnType, Threads, Answers
<1>2. QED
  BY <1>1 DEF Fetch, ConnOK

\* A step in which no thread goes past do_POST's question.
LEMMA NoThreadEnters ==
  ASSUME ServerInv, conn' = [d \in Conns |-> conn'[d]],
         \A d \in Conns : ConnOK(conn'[d]),
         \A d \in Conns : conn'[d].thread \in {conn[d].thread, "queued", "over", "cut"},
         server' \in Stages, interrupts' \in 0 .. 3, page' \in [Pages -> PageType],
         UNCHANGED lock
  PROVE  TypeOK' /\ LockInv'
<1>1. TypeOK'
  BY DEF ServerInv, TypeOK, ConnOK
<1>2. LockInv'
  BY Words DEF ServerInv, LockInv
<1>3. QED
  BY <1>1, <1>2

\* A step of a client, whose threads at most join the backlog.
LEMMA ClientChanges ==
  ASSUME ServerInv, conn' = [d \in Conns |-> conn'[d]],
         \A d \in Conns : ConnOK(conn'[d]),
         \A d \in Conns : conn'[d].thread \in {conn[d].thread, "queued", "over"},
         page' \in [Pages -> PageType], UNCHANGED <<server, interrupts, lock>>
  PROVE  ServerInv'
<1>1. TypeOK' /\ LockInv'
  <2>1. server' \in Stages /\ interrupts' \in 0 .. 3
    BY DEF ServerInv, TypeOK
  <2>2. QED
    BY <2>1, NoThreadEnters
<1>2. StageInv'
  BY DEF ServerInv, StageInv
<1>3. QED
  BY <1>1, <1>2 DEF ServerInv

\* The same, when the step changes one connection.
LEMMA ClientChangesOne ==
  ASSUME ServerInv, NEW c \in Conns, NEW r, ConnOK(r), conn' = [conn EXCEPT ![c] = r],
         r.thread \in {conn[c].thread, "queued", "over"},
         page' \in [Pages -> PageType], UNCHANGED <<server, interrupts, lock>>
  PROVE  ServerInv'
<1>1. /\ conn' = [d \in Conns |-> conn'[d]]
      /\ \A d \in Conns : conn'[d] = IF d = c THEN r ELSE conn[d]
  BY DEF ServerInv, TypeOK
<1>2. \A d \in Conns : ConnOK(conn[d])
  BY DEF ServerInv, TypeOK, ConnOK
<1>3. \A d \in Conns : conn'[d].thread \in {conn[d].thread, "queued", "over"} /\ ConnOK(conn'[d])
  BY <1>1, <1>2
<1>4. QED
  BY <1>1, <1>3, ClientChanges

\* What a client changes in a connection leaves the thread where it is.
LEMMA SameThread ==
  ASSUME NEW r \in ConnType
  PROVE  /\ [r EXCEPT !.waiting = FALSE, !.open = FALSE].thread = r.thread
         /\ [r EXCEPT !.open = FALSE].thread = r.thread
         /\ [r EXCEPT !.sent = "all"].thread = r.thread
         /\ [r EXCEPT !.kind = "run", !.sent = "head"].thread = r.thread
         /\ [r EXCEPT !.kind = "other", !.sent = "all"].thread = r.thread
         /\ [r EXCEPT !.kind = "stranger", !.open = TRUE, !.thread = "queued"].thread = "queued"
  BY DEF ConnType

LEMMA PageStep ==
  ASSUME ServerInv, NEW p \in Pages, Load(p) \/ Submit(p) \/ CallTool(p)
  PROVE  ServerInv'
<1>0. /\ TypeOK /\ page \in [Pages -> PageType]
      /\ \A d \in Conns : ConnOK(conn[d]) /\ conn[d] \in ConnType
  BY DEF ServerInv, TypeOK, ConnOK
<1>w. {"boot", "form", "tool"} \subseteq Kinds
  BY DEF Kinds
<1>1. CASE Load(p)
  <2>1. PICK c \in Conns :
          /\ page' = [page EXCEPT ![p] = [Blank EXCEPT !.loaded = "loading"]]
          /\ conn' = [[d \in Conns |->
                        IF d \in Pending(p) THEN [conn[d] EXCEPT !.waiting = FALSE, !.open = FALSE]
                        ELSE conn[d]]
                      EXCEPT ![c] = Fetch(p, "boot")]
          /\ UNCHANGED <<server, interrupts, lock>>
    BY <1>1 DEF Load
  <2>2. page' \in [Pages -> PageType]
    BY <1>0, <2>1, PageStates
  <2>3. ConnOK(Fetch(p, "boot")) /\ Fetch(p, "boot").thread \in {"queued", "over"}
    BY <1>w, Fetched
  <2>4. ASSUME NEW d \in Conns
        PROVE  ConnOK(conn'[d]) /\ conn'[d].thread \in {conn[d].thread, "queued", "over"}
    <3>1. CASE d = c
      BY <2>1, <2>3, <3>1
    <3>2. CASE d # c /\ d \in Pending(p)
      <4>1. conn'[d] = [conn[d] EXCEPT !.waiting = FALSE, !.open = FALSE]
        BY <2>1, <3>2
      <4>2. QED
        BY <1>0, <4>1, ConnChanges, SameThread
    <3>3. CASE d # c /\ d \notin Pending(p)
      BY <1>0, <2>1, <3>3
    <3>4. QED
      BY <3>1, <3>2, <3>3
  <2>5. conn' = [d \in Conns |-> conn'[d]]
    BY <2>1
  <2>6. QED
    BY <2>1, <2>2, <2>4, <2>5, ClientChanges
<1>2. ASSUME NEW kind \in {"form", "tool"}, Execute(p, kind) PROVE ServerInv'
  <2>1. PICK c \in Conns : /\ page' = [page EXCEPT ![p] = Busy(page[p], c)]
                           /\ conn' = [conn EXCEPT ![c] = Fetch(p, kind)]
                           /\ UNCHANGED <<server, interrupts, lock>>
    BY <1>2 DEF Execute
  <2>2. page' \in [Pages -> PageType]
    BY <1>0, <2>1, PageStates
  <2>3. ConnOK(Fetch(p, kind)) /\ Fetch(p, kind).thread \in {"queued", "over"}
    BY <1>w, Fetched
  <2>4. QED
    BY <2>1, <2>2, <2>3, ClientChangesOne
<1>3. QED
  BY <1>1, <1>2 DEF Submit, CallTool

LEMMA ClientStep ==
  ASSUME ServerInv,
         StrangerConnects \/ \E c \in Conns : StrangerAsks(c) \/ HangUp(c) \/ SendBody(c) \/ Receive(c)
  PROVE  ServerInv'
<1>0. /\ TypeOK /\ page \in [Pages -> PageType]
      /\ \A d \in Conns : conn[d] \in ConnType
  BY DEF ServerInv, TypeOK
<1>1. CASE StrangerConnects
  <2>1. PICK c \in Conns :
          /\ conn' = [conn EXCEPT ![c] = [conn[c] EXCEPT !.kind = "stranger", !.open = TRUE, !.thread = "queued"]]
          /\ UNCHANGED <<server, interrupts, lock, page>>
    BY <1>0, <1>1 DEF StrangerConnects, TypeOK, ConnType
  <2>2. QED
    BY <1>0, <2>1, ConnChanges, SameThread, ClientChangesOne
<1>2. ASSUME NEW c \in Conns, StrangerAsks(c) PROVE ServerInv'
  <2>1. PICK r \in {[conn[c] EXCEPT !.kind = "run", !.sent = "head"],
                    [conn[c] EXCEPT !.kind = "other", !.sent = "all"]} :
          conn' = [conn EXCEPT ![c] = r]
    BY <1>0, <1>2 DEF StrangerAsks, TypeOK, ConnType
  <2>2. conn[c].open /\ UNCHANGED <<server, interrupts, lock, page>>
    BY <1>2 DEF StrangerAsks
  <2>3. ConnOK(r) /\ r.thread = conn[c].thread
    BY <1>0, <2>1, <2>2, ConnChanges, SameThread
  <2>4. QED
    BY <1>0, <2>1, <2>2, <2>3, ClientChangesOne
<1>3. ASSUME NEW c \in Conns, HangUp(c) PROVE ServerInv'
  <2>1. conn' = [conn EXCEPT ![c] = [conn[c] EXCEPT !.open = FALSE]] /\ UNCHANGED <<server, interrupts, lock, page>>
    BY <1>0, <1>3 DEF HangUp, TypeOK, ConnType
  <2>2. QED
    BY <1>0, <2>1, ConnChanges, SameThread, ClientChangesOne
<1>4. ASSUME NEW c \in Conns, SendBody(c) PROVE ServerInv'
  <2>1. /\ conn' = [conn EXCEPT ![c] = [conn[c] EXCEPT !.sent = "all"]]
        /\ conn[c].open /\ UNCHANGED <<server, interrupts, lock, page>>
    BY <1>0, <1>4 DEF SendBody, TypeOK, ConnType
  <2>2. QED
    BY <1>0, <2>1, ConnChanges, SameThread, ClientChangesOne
<1>5. ASSUME NEW c \in Conns, Receive(c) PROVE ServerInv'
  <2>1. /\ conn' = [conn EXCEPT ![c] = [conn[c] EXCEPT !.waiting = FALSE, !.open = FALSE]]
        /\ page' = [page EXCEPT ![conn[c].page] = Rendered(page[conn[c].page], c)]
        /\ UNCHANGED <<server, interrupts, lock>>
    BY <1>0, <1>5 DEF Receive, TypeOK, ConnType
  <2>2. page' \in [Pages -> PageType]
    BY <1>0, <2>1, PageStates
  <2>3. QED
    BY <1>0, <2>1, <2>2, ConnChanges, SameThread, ClientChangesOne
<1>6. QED
  BY <1>1, <1>2, <1>3, <1>4, <1>5

\* The end of the process leaves no socket open and cuts off only what checks.
LEMMA Exited ==
  ASSUME ServerInv, Exit
  PROVE  /\ conn' = [d \in Conns |-> conn'[d]]
         /\ \A d \in Conns : /\ ConnOK(conn'[d])
                             /\ conn'[d].thread \in {conn[d].thread, "over", "cut"}
                             /\ conn'[d].thread = "cut" => conn[d].thread = "checking"
         /\ server' = "gone"
<1>1. /\ conn' = [d \in Conns |->
           [conn[d] EXCEPT
              !.thread = IF conn[d].thread = "checking" THEN "cut"
                         ELSE IF conn[d].thread = "none" THEN conn[d].thread ELSE "over",
              !.open = FALSE,
              !.answer = IF conn[d].answer = "none" /\ conn[d].thread # "none" THEN "lost"
                         ELSE conn[d].answer]]
      /\ server' = "gone"
  BY DEF Exit, ServerInv, TypeOK, ConnType
<1>2. ASSUME NEW d \in Conns
      PROVE  /\ ConnOK(conn'[d])
             /\ conn'[d].thread \in {conn[d].thread, "over", "cut"}
             /\ conn'[d].thread = "cut" => conn[d].thread = "checking"
  <2>1. conn[d] \in ConnType
    BY DEF ServerInv, TypeOK
  <2>2. PICK s \in {conn[d].thread, "over", "cut"}, a \in Answers :
          /\ conn'[d] = [conn[d] EXCEPT !.thread = s, !.open = FALSE, !.answer = a]
          /\ s = "cut" => conn[d].thread = "checking"
    <3>1. conn[d].answer \in Answers /\ "lost" \in Answers
      BY <2>1 DEF ConnType, Answers
    <3>2. QED
      BY <1>1, <3>1
  <2>3. conn'[d] \in ConnType /\ conn'[d].thread = s /\ ~conn'[d].open
    BY <2>1, <2>2 DEF ConnType, Threads
  <2>4. QED
    BY <2>2, <2>3 DEF ConnOK
<1>3. QED
  BY <1>1, <1>2

LEMMA InterruptStep ==
  ASSUME ServerInv, Interrupt
  PROVE  ServerInv'
<1>0. /\ interrupts' = interrupts + 1 /\ interrupts < 3 /\ interrupts \in 0 .. 3
      /\ page' \in [Pages -> PageType] /\ UNCHANGED lock
      /\ \A d \in Conns : ConnOK(conn[d])
  BY DEF Interrupt, ServerInv, TypeOK, ConnOK
<1>1. CASE /\ server = "serving" /\ server' = "joining"
           /\ conn' = [c \in Conns |->
                      IF conn[c].thread = "queued"
                      THEN [To(conn[c], "over") EXCEPT !.answer = "lost"]
                      ELSE conn[c]]
  <2>1. ASSUME NEW d \in Conns
        PROVE  ConnOK(conn'[d]) /\ conn'[d].thread \in {conn[d].thread, "over"}
    <3>1. CASE conn[d].thread = "queued"
      <4>1. conn'[d] = [To(conn[d], "over") EXCEPT !.answer = "lost"]
        BY <1>1, <3>1
      <4>2. TypeOK /\ conn[d] \in ConnType
        BY DEF ServerInv, TypeOK
      <4>3. ConnOK(conn'[d])
        <5>1. \A a \in Answers : ConnOK([To(conn[d], "over") EXCEPT !.answer = a])
          BY <4>2, ConnChanges
        <5>2. "lost" \in Answers
          BY Words
        <5>3. ConnOK([To(conn[d], "over") EXCEPT !.answer = "lost"])
          BY <5>1, <5>2, Zenon
        <5>4. QED
          BY <4>1, <5>3, Zenon
      <4>4. conn'[d].thread = "over"
        BY <4>1, <4>2, Became, Words
      <4>5. QED
        BY <4>3, <4>4
    <3>2. CASE conn[d].thread # "queued"
      BY <1>0, <1>1, <3>2
    <3>3. QED
      BY <3>1, <3>2
  <2>2. conn' = [d \in Conns |-> conn'[d]]
    BY <1>1
  <2>3. server' \in Stages /\ interrupts' \in 0 .. 3
    BY <1>0, <1>1 DEF Stages
  <2>4. TypeOK' /\ LockInv'
    BY <1>0, <2>1, <2>2, <2>3, NoThreadEnters
  <2>5. StageInv'
    BY <1>0, <1>1, <2>1 DEF ServerInv, StageInv
  <2>6. QED
    BY <2>4, <2>5 DEF ServerInv
<1>2. CASE server = "joining" /\ server' = "leaving" /\ UNCHANGED conn
  <2>1. server' \in Stages /\ interrupts' \in 0 .. 3
    BY <1>0, <1>2 DEF Stages
  <2>2. conn' = [d \in Conns |-> conn'[d]]
    BY <1>2 DEF ServerInv, TypeOK
  <2>3. TypeOK' /\ LockInv'
    BY <1>0, <1>2, <2>1, <2>2, NoThreadEnters
  <2>4. StageInv'
    BY <1>0, <1>2 DEF ServerInv, StageInv
  <2>5. QED
    BY <2>3, <2>4 DEF ServerInv
<1>3. CASE server = "leaving" /\ Exit
  <2>1. server' \in Stages /\ interrupts' \in 0 .. 3
    BY <1>0, <1>3, Exited DEF Stages
  <2>2. TypeOK' /\ LockInv'
    BY <1>0, <1>3, <2>1, Exited, NoThreadEnters
  <2>3. interrupts' = 3 /\ server' = "gone"
    BY <1>0, <1>3, Exited DEF ServerInv, StageInv
  <2>4. StageInv'
    BY <2>3 DEF StageInv
  <2>5. QED
    BY <2>2, <2>4 DEF ServerInv
<1>4. QED
  BY <1>1, <1>2, <1>3 DEF Interrupt

LEMMA JoinedStep ==
  ASSUME ServerInv, Joined
  PROVE  ServerInv'
<1>1. /\ Exit /\ UNCHANGED <<interrupts, lock, page>> /\ server' = "gone"
      /\ \A d \in Conns : conn[d].thread \in {"none", "over"}
  BY Exited DEF Joined
<1>2. /\ server' \in Stages /\ interrupts' \in 0 .. 3
      /\ page' \in [Pages -> PageType]
  BY <1>1 DEF ServerInv, TypeOK, Stages
<1>3. TypeOK' /\ LockInv'
  BY <1>1, <1>2, Exited, NoThreadEnters
<1>4. \A d \in Conns : conn'[d].thread # "cut"
  BY <1>1, Exited
<1>5. StageInv'
  BY <1>1, <1>4 DEF StageInv
<1>6. QED
  BY <1>3, <1>5 DEF ServerInv

\* Every step keeps the server's invariant.
LEMMA ServerInduction ==
  /\ Init => ServerInv
  /\ ServerInv /\ [Next]_vars => ServerInv'
<1>1. ASSUME Init PROVE ServerInv
  <2>1. Blank \in PageType
    BY PageStates
  <2>2. \A c \in Conns : conn[c] \in ConnType /\ conn[c].thread = "none"
    BY <1>1 DEF Init, ConnType, Kinds, Threads, Answers
  <2>3. /\ server \in Stages /\ interrupts \in 0 .. 3 /\ lock \in 0 .. MaxConns
        /\ page \in [Pages -> PageType]
    BY <1>1, <2>1, BoundAssumption DEF Init, Stages
  <2>4. conn \in [Conns -> ConnType]
    BY <1>1, <2>2 DEF Init
  <2>5. QED
    BY <1>1, <2>2, <2>3, <2>4, Words DEF Init, ServerInv, TypeOK, LockInv, StageInv
<1>2. ASSUME ServerInv, [Next]_vars PROVE ServerInv'
  <2>1. CASE UNCHANGED vars
    BY <1>2, <2>1 DEF vars, ServerInv, TypeOK, LockInv, StageInv
  <2>2. CASE Next
    BY <1>2, <2>2, PageStep, ClientStep, HandlerStep, InterruptStep, JoinedStep DEF Next
  <2>3. QED
    BY <1>2, <2>1, <2>2
<1>3. QED
  BY <1>1, <1>2

\* The variables of the server and of the pages have their types.
THEOREM DashboardTypes == Spec => []TypeOK
<1>1. ServerInv => TypeOK
  BY DEF ServerInv
<1>2. QED
  BY <1>1, ServerInduction, PTL DEF Spec

\* However conflicts, errors, disconnects and shutdown interleave, two requests never
\* hold the run at once: one agent uses Docker and the output child at a time.
\* (do_POST, run_lock)
OneCheckAtATime ==
  \A c, d \in Conns :
    conn[c].thread \in Holding /\ conn[d].thread \in Holding => c = d

\* The lock excludes: KeepsOrder says the same of the checks. (do_POST, run_lock)
THEOREM OneCheck == Spec => []OneCheckAtATime
<1>1. ServerInv => OneCheckAtATime
  BY DEF ServerInv, LockInv, OneCheckAtATime
<1>2. QED
  BY <1>1, ServerInduction, PTL DEF Spec

\* Only the third Ctrl+C cuts a check off. (serve_dashboard, block_on_close)
THEOREM ShutdownWaits == Spec => []ChecksAreFinished
<1>1. ServerInv => ChecksAreFinished
  BY DEF ServerInv, StageInv, ChecksAreFinished
<1>2. QED
  BY <1>1, ServerInduction, PTL DEF Spec

-----------------------------------------------------------------------------
(* The pages *)

\* What PagesAreHonest says of a page r that waits for the checks S and the
\* bootstraps B, t when its tool was called, and what makes it inductive: one
\* bootstrap() is under way while the page loads, and none later; without the
\* tool one check is under way.
Honest(r, S, B, t) ==
  /\ B # {} => r.loaded = "loading"
  /\ \A c, d \in B : c = d
  /\ S = {} => r.banner # "running" /\ (r.disabled => r.loaded = "failed")
  /\ r.banner = "verdict" => r.report # 0
  /\ r.loaded # "failed" /\ ~t
       => /\ r.disabled = (S # {})
          /\ r.banner = "running" <=> S # {}
          /\ r.ticking = IF S = {} THEN {} ELSE {r.timerId}
          /\ \A c, d \in S : c = d

Boots(p) == {c \in Pending(p) : conn[c].kind = "boot"}
ToolCalled(p) == \E c \in Conns : conn[c].page = p /\ conn[c].kind = "tool"

PageInv ==
  /\ \A c \in Conns : conn[c].kind = "unused" => ~conn[c].waiting
  /\ \A p \in Pages : Honest(page[p], Checks(p), Boots(p), ToolCalled(p))

\* What the page's four steps make of it.
LEMMA PageLoads ==
  ASSUME NEW c, NEW t, NEW r, r = [Blank EXCEPT !.loaded = "loading"]
  PROVE  Honest(r, {}, {c}, t)
  BY DEF Honest, Blank

LEMMA PageStarts ==
  ASSUME NEW r \in PageType, NEW S, NEW B, NEW t \in BOOLEAN, NEW u \in BOOLEAN,
         NEW c \in Conns, Honest(r, S, B, t), t => u, ~r.disabled \/ u
  PROVE  Honest(Busy(r, c), S \cup {c}, B, u)
<1> DEFINE q == Busy(r, c)
<1>1. /\ q.loaded = r.loaded /\ q.disabled = TRUE /\ q.banner = "running"
      /\ q.timerId = c /\ q.ticking = r.ticking \cup {c} /\ q.report = r.report
  BY DEF Busy, PageType
<1>2. r.disabled \in BOOLEAN
  BY DEF PageType
<1> HIDE DEF q
<1>3. ASSUME r.loaded # "failed", ~u PROVE S = {} /\ r.ticking = {}
  BY <1>2, <1>3 DEF Honest
<1>4. S \cup {c} # {}
  OBVIOUS
<1>5. q.loaded # "failed" /\ ~u
        => /\ q.disabled = (S \cup {c} # {})
           /\ q.banner = "running" <=> S \cup {c} # {}
           /\ q.ticking = IF S \cup {c} = {} THEN {} ELSE {q.timerId}
           /\ \A d, e \in S \cup {c} : d = e
  BY <1>1, <1>3, <1>4
<1>6. /\ B # {} => q.loaded = "loading"
      /\ \A d, e \in B : d = e
      /\ q.banner # "verdict"
  BY <1>1 DEF Honest
<1>7. Honest(q, S \cup {c}, B, u)
  BY <1>4, <1>5, <1>6 DEF Honest
<1>8. QED
  BY <1>7 DEF q

LEMMA PageBoots ==
  ASSUME NEW r \in PageType, NEW S, NEW B, NEW t \in BOOLEAN, NEW c \in B,
         Honest(r, S, B, t), conn[c].kind = "boot"
  PROVE  Honest(Rendered(r, c), S, B \ {c}, t)
<1> DEFINE q == Rendered(r, c)
<1>1. r.loaded = "loading" /\ B \ {c} = {}
  BY DEF Honest
<1>2. CASE conn[c].answer = "ok"
  <2>1. /\ q.loaded = "ready" /\ q.disabled = r.disabled /\ q.banner = r.banner
        /\ q.timerId = r.timerId /\ q.ticking = r.ticking /\ q.report = r.report
    BY <1>2 DEF Rendered, PageType
  <2> HIDE DEF q
  <2>2. Honest(q, S, B \ {c}, t)
    BY <1>1, <2>1 DEF Honest
  <2>3. QED
    BY <2>2 DEF q
<1>3. CASE conn[c].answer # "ok"
  <2>1. q.loaded = "failed" /\ q.banner = "error"
    BY <1>3 DEF Rendered, PageType
  <2> HIDE DEF q
  <2>2. Honest(q, S, B \ {c}, t)
    BY <1>1, <2>1 DEF Honest
  <2>3. QED
    BY <2>2 DEF q
<1>4. QED
  BY <1>2, <1>3

LEMMA PageEnds ==
  ASSUME NEW r \in PageType, NEW S, NEW B, NEW t \in BOOLEAN, NEW c \in S, c # 0,
         Honest(r, S, B, t), conn[c].kind # "boot"
  PROVE  Honest(Rendered(r, c), S \ {c}, B, t)
<1> DEFINE q == Rendered(r, c)
<1>1. /\ q.loaded = r.loaded /\ q.disabled = FALSE /\ q.banner \in {"verdict", "error"}
      /\ q.timerId = 0 /\ q.ticking = r.ticking \ {r.timerId}
      /\ q.banner = "verdict" => q.report = c
  <2>1. CASE conn[c].answer = "ok"
    BY <2>1 DEF Rendered, Free, PageType
  <2>2. CASE conn[c].answer # "ok"
    BY <2>2 DEF Rendered, Free, PageType
  <2>3. QED
    BY <2>1, <2>2
<1> HIDE DEF q
<1>2. ASSUME q.loaded # "failed", ~t PROVE S \ {c} = {} /\ q.ticking = {}
  <2>1. r.ticking = {r.timerId} /\ \A d, e \in S : d = e
    BY <1>1, <1>2 DEF Honest
  <2>2. QED
    BY <1>1, <2>1
<1>3. q.banner # "running"
  BY <1>1
<1>4. q.loaded # "failed" /\ ~t
        => /\ q.disabled = (S \ {c} # {})
           /\ q.banner = "running" <=> S \ {c} # {}
           /\ q.ticking = IF S \ {c} = {} THEN {} ELSE {q.timerId}
           /\ \A d, e \in S \ {c} : d = e
  BY <1>1, <1>2, <1>3
<1>5. /\ B # {} => q.loaded = "loading"
      /\ \A d, e \in B : d = e
      /\ q.banner = "verdict" => q.report # 0
      /\ S \ {c} = {} => q.banner # "running" /\ (q.disabled => q.loaded = "failed")
  BY <1>1, <1>3 DEF Honest
<1>6. Honest(q, S \ {c}, B, t)
  BY <1>4, <1>5 DEF Honest
<1>7. QED
  BY <1>6 DEF q

\* The threads and the strangers change nothing a page waits for.
LEMMA NoPageNotices ==
  ASSUME PageInv, UNCHANGED page,
         \A c \in Conns : /\ conn'[c].page = conn[c].page /\ conn'[c].waiting = conn[c].waiting
                          /\ conn'[c].kind = "boot" <=> conn[c].kind = "boot"
                          /\ conn'[c].kind = "tool" <=> conn[c].kind = "tool"
                          /\ conn'[c].kind = "unused" => conn[c].kind = "unused"
  PROVE  PageInv'
<1>1. ASSUME NEW p \in Pages
      PROVE  /\ Checks(p)' = Checks(p) /\ Boots(p)' = Boots(p)
             /\ ToolCalled(p)' = ToolCalled(p)
  <2>1. Pending(p)' = Pending(p)
    BY DEF Pending
  <2>2. \A c \in Pending(p) : c \in Conns
    BY DEF Pending
  <2>3. Checks(p)' = Checks(p) /\ Boots(p)' = Boots(p)
    BY <2>1, <2>2 DEF Checks, Boots
  <2>4. ToolCalled(p)' = ToolCalled(p)
    BY DEF ToolCalled
  <2>5. QED
    BY <2>3, <2>4
<1>2. ASSUME NEW p \in Pages
      PROVE  Honest(page[p], Checks(p), Boots(p), ToolCalled(p))'
  BY <1>1, <1>2 DEF PageInv, Honest
<1>3. QED
  BY <1>2 DEF PageInv

\* A change of one connection that is not the page's.
LEMMA OneUnnoticed ==
  ASSUME PageInv, TypeOK, UNCHANGED page, NEW c \in Conns, NEW r,
         conn' = [conn EXCEPT ![c] = r], r.page = conn[c].page, r.waiting = conn[c].waiting,
         r.kind = conn[c].kind \/ /\ conn[c].kind \in {"unused", "stranger"}
                                  /\ r.kind \in {"stranger", "run", "other"}
  PROVE  PageInv'
<1>1. ASSUME NEW d \in Conns
      PROVE  /\ conn'[d].page = conn[d].page /\ conn'[d].waiting = conn[d].waiting
             /\ conn'[d].kind = "boot" <=> conn[d].kind = "boot"
             /\ conn'[d].kind = "tool" <=> conn[d].kind = "tool"
             /\ conn'[d].kind = "unused" => conn[d].kind = "unused"
  <2>1. conn'[d] = IF d = c THEN r ELSE conn[d]
    BY DEF TypeOK
  <2>2. QED
    BY <2>1
<1>2. QED
  BY <1>1, NoPageNotices

\* What an answer, a socket and a thread are is not what a page waits for.
LEMMA HandlerUnnoticed ==
  ASSUME PageInv, TypeOK, NEW c \in Conns, Accept(c) \/ Handler(c)
  PROVE  PageInv'
<1>1. UNCHANGED page
  BY DEF Accept, Handler, NoRequest, Serve, Ask, ReadBody, Check, Report, Refuse, Finally
<1>2. \E s, a : conn' \in {[conn EXCEPT ![c] = To(conn[c], s)],
                           [conn EXCEPT ![c] = [To(conn[c], s) EXCEPT !.answer = a]]}
  <2>1. CASE Accept(c)
    BY <2>1 DEF Accept, Goes
  <2>2. CASE NoRequest(c) \/ ReadBody(c) \/ Check(c) \/ Finally(c)
    BY <2>2 DEF NoRequest, ReadBody, Check, Finally, Goes
  <2>3. CASE Serve(c) \/ Report(c) \/ Refuse(c)
    BY <2>3 DEF Serve, Report, Refuse, Replies
  <2>4. CASE Ask(c)
    BY <2>4 DEF Ask, Goes, Replies
  <2>5. QED
    BY <2>1, <2>2, <2>3, <2>4 DEF Handler
<1>3. PICK s, a : conn' \in {[conn EXCEPT ![c] = To(conn[c], s)],
                             [conn EXCEPT ![c] = [To(conn[c], s) EXCEPT !.answer = a]]}
  BY <1>2
<1>4. PICK r \in {To(conn[c], s), [To(conn[c], s) EXCEPT !.answer = a]} :
         conn' = [conn EXCEPT ![c] = r]
  BY <1>3
<1>5. conn[c] \in ConnType
  BY DEF TypeOK
<1>6. r.kind = conn[c].kind /\ r.page = conn[c].page /\ r.waiting = conn[c].waiting
  <2>1. CASE r = To(conn[c], s)
    BY <1>5, <2>1 DEF To, ConnType
  <2>2. CASE r = [To(conn[c], s) EXCEPT !.answer = a]
    BY <1>5, <2>2 DEF To, ConnType
  <2>3. QED
    BY <1>4, <2>1, <2>2
<1>7. QED
  BY <1>1, <1>4, <1>6, OneUnnoticed

LEMMA MainUnnoticed ==
  ASSUME PageInv, TypeOK, Interrupt \/ Joined
  PROVE  PageInv'
<1>0. \A d \in Conns : conn[d] \in ConnType
  BY DEF TypeOK
<1>1. UNCHANGED page
  BY DEF Interrupt, Joined
<1>2. ASSUME Exit, NEW d \in Conns
      PROVE  /\ conn'[d].page = conn[d].page /\ conn'[d].waiting = conn[d].waiting
             /\ conn'[d].kind = conn[d].kind
  <2>1. PICK s, o, a : conn'[d] = [conn[d] EXCEPT !.thread = s, !.open = o, !.answer = a]
    BY <1>0, <1>2 DEF Exit, ConnType
  <2>2. QED
    BY <1>0, <2>1 DEF ConnType
<1>3. ASSUME conn' = [c \in Conns |->
                      IF conn[c].thread = "queued"
                      THEN [To(conn[c], "over") EXCEPT !.answer = "lost"]
                      ELSE conn[c]],
             NEW d \in Conns
      PROVE  /\ conn'[d].page = conn[d].page /\ conn'[d].waiting = conn[d].waiting
             /\ conn'[d].kind = conn[d].kind
  <2>1. conn'[d] = conn[d] \/ conn'[d] = [To(conn[d], "over") EXCEPT !.answer = "lost"]
    BY <1>3
  <2>2. QED
    BY <1>0, <2>1 DEF To, ConnType
<1>4. ASSUME NEW d \in Conns
      PROVE  /\ conn'[d].page = conn[d].page /\ conn'[d].waiting = conn[d].waiting
             /\ conn'[d].kind = conn[d].kind
  BY <1>2, <1>3 DEF Interrupt, Joined
<1>5. QED
  BY <1>1, <1>4, NoPageNotices

LEMMA StrangersUnnoticed ==
  ASSUME PageInv, TypeOK,
         StrangerConnects \/ \E c \in Conns : StrangerAsks(c) \/ HangUp(c) \/ SendBody(c)
  PROVE  PageInv'
<1>0. \A d \in Conns : conn[d] \in ConnType
  BY DEF TypeOK
<1>1. UNCHANGED page
  BY DEF StrangerConnects, StrangerAsks, HangUp, SendBody
<1>2. CASE StrangerConnects
  <2>1. PICK c \in Conns :
          /\ conn[c].kind = "unused"
          /\ conn' = [conn EXCEPT ![c] = [conn[c] EXCEPT !.kind = "stranger", !.open = TRUE, !.thread = "queued"]]
    BY <1>0, <1>2 DEF StrangerConnects, Fresh, TypeOK, ConnType
  <2> DEFINE r == [conn[c] EXCEPT !.kind = "stranger", !.open = TRUE, !.thread = "queued"]
  <2>2. r.kind = "stranger" /\ r.page = conn[c].page /\ r.waiting = conn[c].waiting
    BY <1>0 DEF ConnType
  <2>3. conn' = [conn EXCEPT ![c] = r]
    BY <2>1
  <2> HIDE DEF r
  <2>4. QED
    BY <1>1, <2>1, <2>2, <2>3, OneUnnoticed
<1>3. ASSUME NEW c \in Conns, StrangerAsks(c) PROVE PageInv'
  <2>1. PICK kind \in {"run", "other"}, sent \in {"head", "all"} :
          conn' = [conn EXCEPT ![c] = [conn[c] EXCEPT !.kind = kind, !.sent = sent]]
    BY <1>0, <1>3 DEF StrangerAsks, TypeOK, ConnType
  <2> DEFINE r == [conn[c] EXCEPT !.kind = kind, !.sent = sent]
  <2>2. r.kind = kind /\ r.page = conn[c].page /\ r.waiting = conn[c].waiting
    BY <1>0 DEF ConnType
  <2>3. conn' = [conn EXCEPT ![c] = r] /\ conn[c].kind = "stranger"
    BY <1>3, <2>1 DEF StrangerAsks
  <2> HIDE DEF r
  <2>4. QED
    BY <1>1, <2>2, <2>3, OneUnnoticed
<1>4. ASSUME NEW c \in Conns, HangUp(c) PROVE PageInv'
  <2> DEFINE r == [conn[c] EXCEPT !.open = FALSE]
  <2>1. conn' = [conn EXCEPT ![c] = r]
    BY <1>0, <1>4 DEF HangUp, TypeOK, ConnType
  <2>2. r.kind = conn[c].kind /\ r.page = conn[c].page /\ r.waiting = conn[c].waiting
    BY <1>0 DEF ConnType
  <2> HIDE DEF r
  <2>3. QED
    BY <1>1, <2>1, <2>2, OneUnnoticed
<1>5. ASSUME NEW c \in Conns, SendBody(c) PROVE PageInv'
  <2> DEFINE r == [conn[c] EXCEPT !.sent = "all"]
  <2>1. conn' = [conn EXCEPT ![c] = r]
    BY <1>0, <1>5 DEF SendBody, TypeOK, ConnType
  <2>2. r.kind = conn[c].kind /\ r.page = conn[c].page /\ r.waiting = conn[c].waiting
    BY <1>0 DEF ConnType
  <2> HIDE DEF r
  <2>3. QED
    BY <1>1, <2>1, <2>2, OneUnnoticed
<1>6. QED
  BY <1>2, <1>3, <1>4, <1>5

\* A new request of page p, which perhaps gives its earlier ones up.
LEMMA PageStepInv ==
  ASSUME PageInv, TypeOK, NEW p \in Pages, Load(p) \/ Submit(p) \/ CallTool(p)
  PROVE  PageInv'
<1>0. /\ DOMAIN conn = Conns /\ page \in [Pages -> PageType]
      /\ \A d \in Conns : conn[d] \in ConnType
  BY DEF TypeOK
<1>w. {"boot", "form", "tool"} \subseteq Kinds
  BY DEF Kinds
<1>1. CASE Load(p)
  <2>1. PICK c \in Conns :
          /\ Fresh(c)
          /\ page' = [page EXCEPT ![p] = [Blank EXCEPT !.loaded = "loading"]]
          /\ conn' = [[d \in Conns |->
                        IF d \in Pending(p) THEN [conn[d] EXCEPT !.waiting = FALSE, !.open = FALSE]
                        ELSE conn[d]]
                      EXCEPT ![c] = Fetch(p, "boot")]
    BY <1>1 DEF Load
  <2>2. conn[c].kind = "unused" /\ ~conn[c].waiting
    BY <2>1 DEF Fresh, PageInv
  <2>3. conn'[c].kind = "boot" /\ conn'[c].page = p /\ conn'[c].waiting
    <3>1. conn'[c] = Fetch(p, "boot")
      BY <2>1
    <3>2. QED
      BY <1>w, <3>1, Fetched
  <2>4. ASSUME NEW d \in Conns \ {c}
        PROVE  /\ conn'[d].kind = conn[d].kind /\ conn'[d].page = conn[d].page
               /\ conn'[d].waiting = (conn[d].waiting /\ conn[d].page # p)
    <3>1. CASE d \in Pending(p)
      <4>1. conn'[d] = [conn[d] EXCEPT !.waiting = FALSE, !.open = FALSE]
        BY <2>1, <3>1
      <4>2. QED
        BY <1>0, <3>1, <4>1 DEF Pending, ConnType
    <3>2. CASE d \notin Pending(p)
      <4>1. conn'[d] = conn[d]
        BY <2>1, <3>2
      <4>2. QED
        BY <1>0, <3>2, <4>1 DEF Pending, ConnType
    <3>3. QED
      BY <3>1, <3>2
  <2>5. Checks(p)' = {} /\ Boots(p)' = {c}
    BY <2>3, <2>4 DEF Checks, Boots, Pending
  <2>6. Honest(page[p], Checks(p), Boots(p), ToolCalled(p))'
    <3>1. page'[p] = [Blank EXCEPT !.loaded = "loading"]
      BY <1>0, <2>1
    <3>2. Honest(page'[p], {}, {c}, ToolCalled(p)')
      BY <3>1, PageLoads
    <3>3. QED
      BY <2>5, <3>2 DEF Honest
  <2>7. ASSUME NEW q \in Pages, q # p
        PROVE  Honest(page[q], Checks(q), Boots(q), ToolCalled(q))'
    <3>1. page'[q] = page[q]
      BY <1>0, <2>1, <2>7
    <3>2. Checks(q)' = Checks(q) /\ Boots(q)' = Boots(q)
      BY <2>2, <2>3, <2>4, <2>7 DEF Checks, Boots, Pending
    <3>3. ToolCalled(q)' = ToolCalled(q)
      BY <2>2, <2>3, <2>4, <2>7 DEF ToolCalled
    <3>4. QED
      BY <3>1, <3>2, <3>3 DEF PageInv, Honest
  <2>8. \A d \in Conns : conn'[d].kind = "unused" => ~conn'[d].waiting
    BY <2>3, <2>4 DEF PageInv
  <2>9. QED
    BY <2>6, <2>7, <2>8 DEF PageInv
<1>2. ASSUME NEW kind \in {"form", "tool"}, Execute(p, kind), ~page[p].disabled \/ kind = "tool"
      PROVE  PageInv'
  <2>1. PICK c \in Conns : /\ Fresh(c)
                           /\ page' = [page EXCEPT ![p] = Busy(page[p], c)]
                           /\ conn' = [conn EXCEPT ![c] = Fetch(p, kind)]
    BY <1>2 DEF Execute
  <2>2. conn[c].kind = "unused" /\ ~conn[c].waiting
    BY <2>1 DEF Fresh, PageInv
  <2>3. conn'[c].kind = kind /\ conn'[c].page = p /\ conn'[c].waiting
    <3>1. conn'[c] = Fetch(p, kind)
      BY <1>0, <2>1
    <3>2. QED
      BY <1>w, <3>1, Fetched
  <2>4. \A d \in Conns \ {c} : conn'[d] = conn[d]
    BY <1>0, <2>1
  <2>5. Checks(p)' = Checks(p) \cup {c} /\ Boots(p)' = Boots(p)
    BY <2>2, <2>3, <2>4 DEF Checks, Boots, Pending
  <2>6. /\ ToolCalled(p) => ToolCalled(p)'
        /\ ~page[p].disabled \/ ToolCalled(p)'
        /\ ToolCalled(p) \in BOOLEAN /\ ToolCalled(p)' \in BOOLEAN
    BY <1>2, <2>2, <2>3, <2>4 DEF ToolCalled
  <2>7. Honest(page[p], Checks(p), Boots(p), ToolCalled(p))'
    <3>1. page'[p] = Busy(page[p], c) /\ page[p] \in PageType
      BY <1>0, <2>1
    <3>2. Honest(page[p], Checks(p), Boots(p), ToolCalled(p))
      BY DEF PageInv
    <3>3. Honest(Busy(page[p], c), Checks(p) \cup {c}, Boots(p), ToolCalled(p)')
      BY <2>6, <3>1, <3>2, PageStarts
    <3>4. QED
      BY <2>5, <3>1, <3>3 DEF Honest
  <2>8. ASSUME NEW q \in Pages, q # p
        PROVE  Honest(page[q], Checks(q), Boots(q), ToolCalled(q))'
    <3>1. page'[q] = page[q]
      BY <1>0, <2>1, <2>8
    <3>2. Checks(q)' = Checks(q) /\ Boots(q)' = Boots(q)
      BY <2>2, <2>3, <2>4, <2>8 DEF Checks, Boots, Pending
    <3>3. ToolCalled(q)' = ToolCalled(q)
      BY <2>2, <2>3, <2>4, <2>8 DEF ToolCalled
    <3>4. QED
      BY <3>1, <3>2, <3>3 DEF PageInv, Honest
  <2>9. \A d \in Conns : conn'[d].kind = "unused" => ~conn'[d].waiting
    BY <2>3, <2>4 DEF PageInv
  <2>10. QED
    BY <2>7, <2>8, <2>9 DEF PageInv
<1>3. QED
  BY <1>1, <1>2 DEF Submit, CallTool

LEMMA ReceiveInv ==
  ASSUME PageInv, TypeOK, NEW c \in Conns, Receive(c)
  PROVE  PageInv'
<1>0. /\ DOMAIN conn = Conns /\ page \in [Pages -> PageType] /\ conn[c] \in ConnType /\ c # 0
  BY DEF TypeOK, Conns
<1>1. /\ conn[c].waiting
      /\ page' = [page EXCEPT ![conn[c].page] = Rendered(page[conn[c].page], c)]
      /\ conn' = [conn EXCEPT ![c] = [conn[c] EXCEPT !.waiting = FALSE, !.open = FALSE]]
  BY <1>0 DEF Receive, ConnType
<1>2. /\ \A d \in Conns \ {c} : conn'[d] = conn[d]
      /\ conn'[c].kind = conn[c].kind /\ conn'[c].page = conn[c].page /\ ~conn'[c].waiting
  BY <1>0, <1>1 DEF ConnType
<1>3. ASSUME NEW q \in Pages
      PROVE  /\ ToolCalled(q)' = ToolCalled(q) /\ ToolCalled(q) \in BOOLEAN
             /\ Checks(q)' = Checks(q) \ {c} /\ Boots(q)' = Boots(q) \ {c}
  <2>1. ToolCalled(q)' = ToolCalled(q) /\ ToolCalled(q) \in BOOLEAN
    BY <1>2 DEF ToolCalled
  <2>2. Checks(q)' = Checks(q) \ {c} /\ Boots(q)' = Boots(q) \ {c}
    BY <1>2 DEF Checks, Boots, Pending
  <2>3. QED
    BY <2>1, <2>2
<1>4. ASSUME NEW q \in Pages
      PROVE  Honest(page[q], Checks(q), Boots(q), ToolCalled(q))'
  <2>0. Honest(page[q], Checks(q), Boots(q), ToolCalled(q)) /\ page[q] \in PageType
    BY <1>0 DEF PageInv
  <2>1. CASE q # conn[c].page
    <3>1. page'[q] = page[q]
      BY <1>0, <1>1, <2>1
    <3>2. Checks(q)' = Checks(q) /\ Boots(q)' = Boots(q)
      BY <1>3, <2>1 DEF Checks, Boots, Pending
    <3>3. QED
      BY <1>3, <2>0, <3>1, <3>2 DEF Honest
  <2>2. CASE q = conn[c].page /\ conn[c].kind = "boot"
    <3>1. page'[q] = Rendered(page[q], c)
      BY <1>0, <1>1, <2>2
    <3>2. c \in Boots(q) /\ c \notin Checks(q)
      BY <1>1, <2>2 DEF Checks, Boots, Pending
    <3>3. Honest(Rendered(page[q], c), Checks(q), Boots(q) \ {c}, ToolCalled(q))
      BY <1>3, <2>0, <2>2, <3>2, PageBoots
    <3>4. Checks(q)' = Checks(q) /\ Boots(q)' = Boots(q) \ {c}
      BY <1>3, <3>2
    <3>5. QED
      BY <1>3, <3>1, <3>3, <3>4 DEF Honest
  <2>3. CASE q = conn[c].page /\ conn[c].kind # "boot"
    <3>1. page'[q] = Rendered(page[q], c)
      BY <1>0, <1>1, <2>3
    <3>2. c \notin Boots(q) /\ c \in Checks(q)
      BY <1>1, <2>3 DEF Checks, Boots, Pending
    <3>3. Honest(Rendered(page[q], c), Checks(q) \ {c}, Boots(q), ToolCalled(q))
      BY <1>0, <1>3, <2>0, <2>3, <3>2, PageEnds
    <3>4. Checks(q)' = Checks(q) \ {c} /\ Boots(q)' = Boots(q)
      BY <1>3, <3>2
    <3>5. QED
      BY <1>3, <3>1, <3>3, <3>4 DEF Honest
  <2>4. QED
    BY <2>1, <2>2, <2>3
<1>5. \A d \in Conns : conn'[d].kind = "unused" => ~conn'[d].waiting
  BY <1>2 DEF PageInv
<1>6. QED
  BY <1>4, <1>5 DEF PageInv

\* However the form, the model tool and bootstrap() interleave, a page says what
\* it waits for. (executePayload, setBusy, bootstrap)
THEOREM HonestPages == Spec => []PagesAreHonest
<1>1. Init => PageInv
  <2> SUFFICES ASSUME Init PROVE PageInv
    OBVIOUS
  <2>1. \A c \in Conns : conn[c].kind = "unused" /\ ~conn[c].waiting
    BY DEF Init
  <2>2. \A p \in Pages : page[p] = Blank /\ Checks(p) = {} /\ Boots(p) = {}
    BY <2>1 DEF Init, Checks, Boots, Pending
  <2>3. ASSUME NEW t PROVE Honest(Blank, {}, {}, t)
    BY DEF Honest, Blank
  <2>4. QED
    BY <2>1, <2>2, <2>3 DEF PageInv
<1>2. PageInv /\ ServerInv /\ [Next]_vars => PageInv'
  <2> SUFFICES ASSUME PageInv, TypeOK, [Next]_vars PROVE PageInv'
    BY DEF ServerInv
  <2>1. CASE UNCHANGED vars
    BY <2>1, NoPageNotices DEF vars
  <2>2. CASE Next
    BY <2>2, PageStepInv, StrangersUnnoticed, ReceiveInv, HandlerUnnoticed, MainUnnoticed
    DEF Next
  <2>3. QED
    BY <2>1, <2>2
<1>3. PageInv => PagesAreHonest
  <2> SUFFICES ASSUME PageInv, NEW p \in Pages
               PROVE  Honest(page[p], Checks(p), Boots(p), ToolCalled(p))
                      /\ ((\A c \in Conns : conn[c].page = p => conn[c].kind # "tool") <=> ~ToolCalled(p))
    BY DEF PagesAreHonest, Honest
  <2>1. QED
    BY DEF PageInv, ToolCalled
<1>4. QED
  BY <1>1, <1>2, <1>3, ServerInduction, PTL DEF Spec
-----------------------------------------------------------------------------
(* The desk *)

\* What the answer, the thread and the kind of a connection have to do with each
\* other: only requests for a check get past the lock, and an answer is given by the
\* last statement of a thread, or beside the lock after an exception.
Sound(r) ==
  /\ r.kind = "unused" => r.thread = "none"
  /\ r.thread = "none" => ~r.open /\ r.answer = "none"
  /\ r.thread \in {"queued", "idle", "reading", "checking", "refusing", "answering"}
       => r.answer = "none"
  /\ r.thread = "freeing" => r.answer = "error"
  /\ r.thread \in Holding \cup {"answering"} => r.kind \in Asking

\* While the process lives, a lock that is taken is held by a thread that gives it
\* back.
DeskInv ==
  /\ \A c \in Conns : Sound(conn[c])
  /\ server # "gone" /\ lock # 0 => conn[lock].thread \in Holding

\* A step of the server, as whoever waits at the desk sees it.
DeskStep == DeskInv' /\ (Desk!Next \/ UNCHANGED <<Requests, Opened>>)

LEMMA Fields ==
  ASSUME NEW r \in ConnType, NEW s \in Threads
  PROVE  /\ To(r, s).kind = r.kind /\ To(r, s).answer = r.answer /\ To(r, s).thread = s
         /\ \A a \in Answers : LET q == [To(r, s) EXCEPT !.answer = a]
                               IN q.kind = r.kind /\ q.answer = a /\ q.thread = s
<1>1. To(r, s) \in ConnType
  BY ConnStates
<1>2. To(r, s).kind = r.kind /\ To(r, s).answer = r.answer /\ To(r, s).thread = s
  BY DEF To, ConnType
<1>3. QED
  BY <1>1, <1>2 DEF ConnType

\* Every statement of a handler thread, as a step from one standing to another.
LEMMA Transitions ==
  ASSUME NEW r, NEW q, Sound(r), q.kind = r.kind
  PROVE  /\ r.thread = "queued" /\ q.thread = "idle" /\ q.answer = r.answer
              => Sound(q) /\ Standing(q) = Standing(r)
         /\ r.thread = "idle" /\ q.thread = "over" /\ (q.answer = r.answer \/ r.kind \notin Asking)
              => Sound(q) /\ Standing(q) = Standing(r)
         /\ r.thread = "idle" /\ r.kind \in Asking /\ q.thread = "reading" /\ q.answer = r.answer
              => Sound(q) /\ Standing(r) = "waiting" /\ Standing(q) = "running"
         /\ r.thread = "idle" /\ r.kind \in Asking /\ q.thread = "over" /\ q.answer = "conflict"
              => Sound(q) /\ Standing(r) = "waiting" /\ Standing(q) = "conflict"
         /\ r.thread \in {"reading", "checking"} /\ q.thread \in {"checking", "refusing"}
              /\ q.answer = r.answer
              => Sound(q) /\ Standing(q) = Standing(r)
         /\ r.thread = "checking" /\ q.thread = "answering" /\ q.answer = r.answer
              => Sound(q) /\ Standing(r) = "running" /\ Standing(q) = "completed"
         /\ r.thread = "answering" /\ q.thread = "over" /\ q.answer = "ok"
              => Sound(q) /\ Standing(r) = "completed" /\ Standing(q) = "report"
         /\ r.thread = "refusing" /\ q.thread = "freeing" /\ q.answer = "error"
              => Sound(q) /\ Standing(r) = "running" /\ Standing(q) = "failing"
         /\ r.thread = "freeing" /\ q.thread = "over" /\ q.answer = r.answer
              => Sound(q) /\ Standing(r) = "failing" /\ Standing(q) = "error"
<1>1. Asking \cap {"unused"} = {} /\ \A t \in {"over", "idle"} : t \notin Holding \cup {"answering"}
  BY DEF Asking, Holding
<1>2. QED
  BY <1>1 DEF Sound, Standing, Holding

\* A step that changes one connection, and perhaps the lock.
LEMMA OneStands ==
  ASSUME TypeOK, DeskInv, NEW c \in Conns, NEW r, conn' = [conn EXCEPT ![c] = r], Sound(r),
         server # "gone" =>
           \/ lock' = 0
           \/ lock' = c /\ r.thread \in Holding
           \/ lock' = lock /\ (conn[c].thread \in Holding => r.thread \in Holding),
         UNCHANGED server
  PROVE  /\ DeskInv'
         /\ Requests' = [Requests EXCEPT ![c] = Standing(r)] /\ Requests[c] = Standing(conn[c])
         /\ UNCHANGED Opened
<1>1. \A d \in Conns : conn'[d] = IF d = c THEN r ELSE conn[d]
  BY DEF TypeOK
<1>2. lock \in Conns \cup {0}
  BY BoundAssumption DEF TypeOK, Conns
<1>3. DeskInv'
  <2>1. \A d \in Conns : Sound(conn'[d])
    BY <1>1 DEF DeskInv
  <2>2. ASSUME server # "gone", lock' # 0 PROVE conn'[lock'].thread \in Holding
    <3>1. CASE lock' = c /\ r.thread \in Holding
      BY <1>1, <3>1
    <3>2. CASE lock' = lock /\ (conn[c].thread \in Holding => r.thread \in Holding)
      BY <1>1, <1>2, <2>2, <3>2 DEF DeskInv
    <3>3. QED
      BY <2>2, <3>1, <3>2
  <2>3. QED
    BY <2>1, <2>2 DEF DeskInv
<1>4. Requests' = [Requests EXCEPT ![c] = Standing(r)] /\ Requests[c] = Standing(conn[c])
  <2>1. Requests' = [d \in Conns |-> IF d = c THEN Standing(r) ELSE Standing(conn[d])]
    <3>1. Requests' = [d \in Conns |-> Standing(conn'[d])]
      BY DEF Requests
    <3>2. \A d \in Conns : Standing(conn'[d]) = IF d = c THEN Standing(r) ELSE Standing(conn[d])
      BY <1>1
    <3>3. QED
      BY <3>1, <3>2
  <2>2. QED
    BY <2>1 DEF Requests
<1>5. QED
  BY <1>3, <1>4 DEF Opened

\* The same, when nobody notices.
LEMMA OneStandsStill ==
  ASSUME TypeOK, DeskInv, NEW c \in Conns, NEW r, conn' = [conn EXCEPT ![c] = r], Sound(r),
         Standing(r) = Standing(conn[c]),
         conn[c].thread \in Holding => r.thread \in Holding, UNCHANGED <<server, lock>>
  PROVE  DeskStep
<1>1. /\ DeskInv' /\ UNCHANGED Opened
      /\ Requests' = [Requests EXCEPT ![c] = Standing(r)] /\ Requests[c] = Standing(conn[c])
  BY OneStands
<1>2. Requests = [d \in Conns |-> Requests[d]]
  BY DEF Requests
<1>3. Requests' = Requests
  BY <1>1, <1>2
<1>4. QED
  BY <1>1, <1>3 DEF DeskStep

LEMMA HandlerAtDesk ==
  ASSUME ServerInv, DeskInv, NEW c \in Conns, Accept(c) \/ Handler(c)
  PROVE  DeskStep
<1> DEFINE r == conn[c]
           moved(s) == To(r, s)
           replied(s, a) == [To(r, s) EXCEPT !.answer = a]
<1>0. TypeOK /\ r \in ConnType /\ Sound(r) /\ (r.thread \in Holding => lock = c) /\ lock \in Conns \cup {0}
  BY BoundAssumption DEF ServerInv, TypeOK, DeskInv, LockInv, Conns
<1>a. ASSUME NEW s \in Threads
      PROVE  /\ moved(s).kind = r.kind /\ moved(s).answer = r.answer /\ moved(s).thread = s
             /\ \A a \in Answers : /\ replied(s, a).kind = r.kind /\ replied(s, a).answer = a
                                   /\ replied(s, a).thread = s
  BY <1>0, Fields
<1>b. /\ {"over", "idle", "reading", "checking", "refusing", "freeing", "answering"} \subseteq Threads
      /\ {"ok", "conflict", "error"} \subseteq Answers
      /\ {"reading", "checking", "refusing", "freeing"} = Holding
  BY DEF Threads, Answers, Holding
<1>c. ASSUME NEW from, NEW to, Desk!Becomes(c, from, to), DeskInv',
             \/ <<from, to>> \in {<<"running", "completed">>, <<"completed", "report">>,
                                  <<"running", "failing">>, <<"failing", "error">>}
             \/ <<from, to>> = <<"waiting", "running">> /\ \A d \in Conns : ~Desk!Occupies(d)
             \/ <<from, to>> = <<"waiting", "conflict">> /\ \E d \in Conns : Desk!Occupies(d)
      PROVE  DeskStep
  BY <1>c DEF DeskStep, Desk!Next, Desk!Begin, Desk!TurnAway, Desk!Complete, Desk!Report,
              Desk!Fail, Desk!Clear
<1> HIDE DEF r, moved, replied
<1>1. CASE Accept(c)
  <2>1. conn' = [conn EXCEPT ![c] = moved("idle")] /\ r.thread = "queued" /\ UNCHANGED <<server, lock>>
    BY <1>1 DEF Accept, Goes, At, moved, r
  <2>2. Sound(moved("idle")) /\ Standing(moved("idle")) = Standing(r)
    BY <1>0, <1>a, <1>b, <2>1, Transitions
  <2>3. QED
    BY <1>0, <1>b, <2>1, <2>2, OneStandsStill DEF r
<1>2. CASE NoRequest(c)
  <2>1. conn' = [conn EXCEPT ![c] = moved("over")] /\ r.thread = "idle" /\ UNCHANGED <<server, lock>>
    BY <1>2 DEF NoRequest, Goes, At, moved, r
  <2>2. Sound(moved("over")) /\ Standing(moved("over")) = Standing(r)
    BY <1>0, <1>a, <1>b, <2>1, Transitions
  <2>3. QED
    BY <1>0, <1>b, <2>1, <2>2, OneStandsStill DEF r
<1>3. CASE Serve(c)
  <2>1. PICK a \in {"ok", "error"} : conn' = [conn EXCEPT ![c] = replied("over", a)]
    BY <1>3 DEF Serve, Replies, replied, r
  <2>2. r.thread = "idle" /\ r.kind \notin Asking /\ UNCHANGED <<server, lock>>
    BY <1>3 DEF Serve, At, Asking, r
  <2>3. Sound(replied("over", a)) /\ Standing(replied("over", a)) = Standing(r)
    BY <1>0, <1>a, <1>b, <2>2, Transitions
  <2>4. QED
    BY <1>0, <1>b, <2>1, <2>2, <2>3, OneStandsStill DEF r
<1>4. CASE Ask(c)
  <2>0. r.thread = "idle" /\ r.kind \in Asking /\ server # "gone" /\ UNCHANGED server
    BY <1>4 DEF Ask, At, Asking, r
  <2>1. CASE lock = 0
    <3>1. conn' = [conn EXCEPT ![c] = moved("reading")] /\ lock' = c
      BY <1>4, <2>1 DEF Ask, Goes, moved, r
    <3>2. /\ Sound(moved("reading")) /\ Standing(r) = "waiting" /\ Standing(moved("reading")) = "running"
          /\ moved("reading").thread \in Holding
      BY <1>0, <1>a, <1>b, <2>0, Transitions
    <3>3. DeskInv' /\ Desk!Becomes(c, "waiting", "running")
      BY <1>0, <2>0, <3>1, <3>2, OneStands DEF Desk!Becomes, r
    <3>4. \A d \in Conns : ~Desk!Occupies(d)
      <4>1. \A d \in Conns : conn[d].thread \notin Holding
        BY <2>1 DEF ServerInv, LockInv, Conns
      <4>2. ASSUME NEW d \in Conns PROVE Standing(conn[d]) \notin {"running", "failing"}
        <5>1. conn[d].answer # "running" /\ conn[d].answer # "failing"
          BY <1>0 DEF TypeOK, ConnType, Answers
        <5>2. conn[d].thread \notin {"reading", "checking", "refusing", "freeing"}
          BY <4>1, <1>b
        <5>3. QED
          BY <5>1, <5>2 DEF Standing
      <4>3. QED
        BY <4>2 DEF Desk!Occupies, Requests
    <3>5. QED
      BY <1>c, <3>3, <3>4
  <2>2. CASE lock # 0
    <3>1. conn' = [conn EXCEPT ![c] = replied("over", "conflict")] /\ UNCHANGED lock
      BY <1>4, <2>2 DEF Ask, Replies, replied, r
    <3>2. /\ Sound(replied("over", "conflict")) /\ Standing(r) = "waiting"
          /\ Standing(replied("over", "conflict")) = "conflict"
      BY <1>0, <1>a, <1>b, <2>0, Transitions
    <3>3. DeskInv' /\ Desk!Becomes(c, "waiting", "conflict")
      BY <1>0, <1>b, <2>0, <3>1, <3>2, OneStands DEF Desk!Becomes, r
    <3>4. Desk!Occupies(lock) /\ lock \in Conns
      <4>1. lock \in Conns /\ conn[lock].thread \in Holding /\ Sound(conn[lock])
        BY <1>0, <2>0, <2>2 DEF DeskInv
      <4>2. Standing(conn[lock]) \in {"running", "failing"}
        BY <4>1, <1>b DEF Standing, Sound
      <4>3. QED
        BY <4>1, <4>2 DEF Desk!Occupies, Requests
    <3>5. QED
      BY <1>c, <3>3, <3>4
  <2>3. QED
    BY <2>1, <2>2
<1>5. CASE ReadBody(c)
  <2>1. PICK s \in {"checking", "refusing"} : conn' = [conn EXCEPT ![c] = moved(s)]
    BY <1>5 DEF ReadBody, Goes, moved, r
  <2>2. r.thread = "reading" /\ UNCHANGED <<server, lock>>
    BY <1>5 DEF ReadBody, At, r
  <2>3. Sound(moved(s)) /\ Standing(moved(s)) = Standing(r) /\ moved(s).thread \in Holding
    BY <1>0, <1>a, <1>b, <2>2, Transitions
  <2>4. QED
    BY <1>0, <1>b, <2>1, <2>2, <2>3, OneStandsStill DEF r
<1>6. CASE Check(c)
  <2>0. r.thread = "checking" /\ UNCHANGED server
    BY <1>6 DEF Check, At, r
  <2>1. CASE lock' = 0 /\ conn' = [conn EXCEPT ![c] = moved("answering")]
    <3>1. /\ Sound(moved("answering")) /\ Standing(r) = "running"
          /\ Standing(moved("answering")) = "completed"
      BY <1>0, <1>a, <1>b, <2>0, Transitions
    <3>2. DeskInv' /\ Desk!Becomes(c, "running", "completed")
      BY <1>0, <2>0, <2>1, <3>1, OneStands DEF Desk!Becomes, r
    <3>3. QED
      BY <1>c, <3>2
  <2>2. CASE UNCHANGED lock /\ conn' = [conn EXCEPT ![c] = moved("refusing")]
    <3>1. /\ Sound(moved("refusing")) /\ Standing(moved("refusing")) = Standing(r)
          /\ moved("refusing").thread \in Holding
      BY <1>0, <1>a, <1>b, <2>0, Transitions
    <3>2. QED
      BY <1>0, <2>0, <2>2, <3>1, OneStandsStill DEF r
  <2>3. QED
    BY <1>6, <2>1, <2>2 DEF Check, Goes, moved, r
<1>7. CASE Report(c)
  <2>1. /\ conn' = [conn EXCEPT ![c] = replied("over", "ok")]
        /\ r.thread = "answering" /\ UNCHANGED <<server, lock>>
    BY <1>7 DEF Report, Replies, At, replied, r
  <2>2. /\ Sound(replied("over", "ok")) /\ Standing(r) = "completed"
        /\ Standing(replied("over", "ok")) = "report"
    BY <1>0, <1>a, <1>b, <2>1, Transitions
  <2>3. DeskInv' /\ Desk!Becomes(c, "completed", "report")
    BY <1>0, <1>b, <2>1, <2>2, OneStands DEF Desk!Becomes, r
  <2>4. QED
    BY <1>c, <2>3
<1>8. CASE Refuse(c)
  <2>1. /\ conn' = [conn EXCEPT ![c] = replied("freeing", "error")]
        /\ r.thread = "refusing" /\ UNCHANGED <<server, lock>>
    BY <1>8 DEF Refuse, Replies, At, replied, r
  <2>2. /\ Sound(replied("freeing", "error")) /\ Standing(r) = "running"
        /\ Standing(replied("freeing", "error")) = "failing"
        /\ replied("freeing", "error").thread \in Holding
    BY <1>0, <1>a, <1>b, <2>1, Transitions
  <2>3. DeskInv' /\ Desk!Becomes(c, "running", "failing")
    BY <1>0, <2>1, <2>2, OneStands DEF Desk!Becomes, r
  <2>4. QED
    BY <1>c, <2>3
<1>9. CASE Finally(c)
  <2>1. /\ conn' = [conn EXCEPT ![c] = moved("over")] /\ lock' = 0
        /\ r.thread = "freeing" /\ UNCHANGED server
    BY <1>9 DEF Finally, Goes, At, moved, r
  <2>2. /\ Sound(moved("over")) /\ Standing(r) = "failing" /\ Standing(moved("over")) = "error"
    BY <1>0, <1>a, <1>b, <2>1, Transitions
  <2>3. DeskInv' /\ Desk!Becomes(c, "failing", "error")
    BY <1>0, <2>1, <2>2, OneStands DEF Desk!Becomes, r
  <2>4. QED
    BY <1>c, <2>3
<1>10. QED
  BY <1>1, <1>2, <1>3, <1>4, <1>5, <1>6, <1>7, <1>8, <1>9 DEF Handler

\* A client changes its end of a connection, which no thread notices.
LEMMA EndChanges ==
  ASSUME TypeOK, DeskInv, NEW c \in Conns, NEW r, conn' = [conn EXCEPT ![c] = r],
         r.kind = conn[c].kind, r.thread = conn[c].thread, r.answer = conn[c].answer,
         r.open => conn[c].open, UNCHANGED <<server, lock>>
  PROVE  DeskStep
<1>1. Sound(conn[c])
  BY DEF DeskInv
<1>2. Sound(r) /\ Standing(r) = Standing(conn[c])
  BY <1>1 DEF Sound, Standing
<1>3. QED
  BY <1>2, OneStandsStill

LEMMA ClientsAtDesk ==
  ASSUME TypeOK, DeskInv,
         StrangerConnects \/ \E c \in Conns : StrangerAsks(c) \/ HangUp(c) \/ SendBody(c) \/ Receive(c)
  PROVE  DeskStep
<1>0. \A d \in Conns : conn[d] \in ConnType /\ Sound(conn[d]) /\ (conn[d].thread \in {"over", "cut"} => ~conn[d].open)
  BY DEF TypeOK, DeskInv
<1>1. CASE StrangerConnects
  <2>1. PICK c \in Conns :
          /\ conn' = [conn EXCEPT ![c] = [conn[c] EXCEPT !.kind = "stranger", !.open = TRUE, !.thread = "queued"]]
          /\ conn[c].kind = "unused" /\ UNCHANGED <<server, lock>>
    BY <1>0, <1>1 DEF StrangerConnects, TypeOK, ConnType, Fresh
  <2> DEFINE r == [conn[c] EXCEPT !.kind = "stranger", !.open = TRUE, !.thread = "queued"]
  <2>2. r.kind = "stranger" /\ r.thread = "queued" /\ r.answer = conn[c].answer
    BY <1>0 DEF ConnType
  <2>3. conn' = [conn EXCEPT ![c] = r]
    BY <2>1
  <2> HIDE DEF r
  <2>4. Sound(r) /\ Standing(r) = Standing(conn[c]) /\ conn[c].thread \notin Holding
    BY <1>0, <2>1, <2>2 DEF Sound, Standing, Asking, Holding
  <2>5. QED
    BY <2>1, <2>3, <2>4, OneStandsStill
<1>2. ASSUME NEW c \in Conns, StrangerAsks(c) PROVE DeskStep
  <2>1. PICK r \in {[conn[c] EXCEPT !.kind = "run", !.sent = "head"],
                    [conn[c] EXCEPT !.kind = "other", !.sent = "all"]} :
          conn' = [conn EXCEPT ![c] = r]
    BY <1>0, <1>2 DEF StrangerAsks, TypeOK, ConnType
  <2>2. conn[c].open /\ conn[c].kind = "stranger" /\ UNCHANGED <<server, lock>>
    BY <1>2 DEF StrangerAsks
  <2>3. r.thread = conn[c].thread /\ r.answer = conn[c].answer /\ r.kind \in {"run", "other"}
    BY <1>0, <2>1 DEF ConnType
  <2>4. conn[c].thread \in {"queued", "idle"}
    BY <1>0, <2>2 DEF Sound, Asking, Holding, ConnType, Threads
  <2>5. Sound(r) /\ Standing(r) = Standing(conn[c]) /\ conn[c].thread \notin Holding
    BY <1>0, <2>2, <2>3, <2>4 DEF Sound, Standing, Asking, Holding
  <2>6. QED
    BY <2>1, <2>2, <2>5, OneStandsStill
<1>3. ASSUME NEW c \in Conns, HangUp(c) PROVE DeskStep
  <2>1. conn' = [conn EXCEPT ![c] = [conn[c] EXCEPT !.open = FALSE]] /\ UNCHANGED <<server, lock>>
    BY <1>0, <1>3 DEF HangUp, TypeOK, ConnType
  <2>2. LET r == [conn[c] EXCEPT !.open = FALSE]
        IN r.kind = conn[c].kind /\ r.thread = conn[c].thread /\ r.answer = conn[c].answer /\ ~r.open
    BY <1>0 DEF ConnType
  <2>3. QED
    BY <2>1, <2>2, EndChanges
<1>4. ASSUME NEW c \in Conns, SendBody(c) PROVE DeskStep
  <2>1. conn' = [conn EXCEPT ![c] = [conn[c] EXCEPT !.sent = "all"]] /\ UNCHANGED <<server, lock>>
    BY <1>0, <1>4 DEF SendBody, TypeOK, ConnType
  <2>2. LET r == [conn[c] EXCEPT !.sent = "all"]
        IN r.kind = conn[c].kind /\ r.thread = conn[c].thread /\ r.answer = conn[c].answer /\ r.open = conn[c].open
    BY <1>0 DEF ConnType
  <2>3. QED
    BY <2>1, <2>2, EndChanges
<1>5. ASSUME NEW c \in Conns, Receive(c) PROVE DeskStep
  <2>1. /\ conn' = [conn EXCEPT ![c] = [conn[c] EXCEPT !.waiting = FALSE, !.open = FALSE]]
        /\ UNCHANGED <<server, lock>>
    BY <1>0, <1>5 DEF Receive, TypeOK, ConnType
  <2>2. LET r == [conn[c] EXCEPT !.waiting = FALSE, !.open = FALSE]
        IN r.kind = conn[c].kind /\ r.thread = conn[c].thread /\ r.answer = conn[c].answer /\ ~r.open
    BY <1>0 DEF ConnType
  <2>3. QED
    BY <2>1, <2>2, EndChanges
<1>6. QED
  BY <1>1, <1>2, <1>3, <1>4, <1>5

\* A page asks: its request waits, or is lost because the listener is closed.
LEMMA PageAtDesk ==
  ASSUME TypeOK, DeskInv, NEW p \in Pages, Load(p) \/ Submit(p) \/ CallTool(p)
  PROVE  DeskStep
<1>0. \A d \in Conns : conn[d] \in ConnType /\ Sound(conn[d])
  BY DEF TypeOK, DeskInv
<1>1. ASSUME NEW kind \in {"boot", "form", "tool"}
      PROVE  /\ Fetch(p, kind).kind = kind /\ Fetch(p, kind).thread \notin Holding /\ Sound(Fetch(p, kind))
             /\ Standing(Fetch(p, kind)) =
                  IF server = "serving" \/ kind = "boot" THEN "waiting" ELSE "lost"
  BY DEF Fetch, Sound, Standing, Asking, Holding
<1>2. ASSUME NEW c \in Conns, Fresh(c)
      PROVE  Standing(conn[c]) = "waiting" /\ conn[c].thread \notin Holding
  <2>1. conn[c].kind = "unused" /\ Sound(conn[c])
    BY <1>0, <1>2 DEF Fresh
  <2>2. QED
    BY <2>1 DEF Standing, Asking, Sound, Holding
<1>3. CASE Load(p)
  <2>1. PICK c \in Conns :
          /\ Fresh(c)
          /\ conn' = [[d \in Conns |->
                        IF d \in Pending(p) THEN [conn[d] EXCEPT !.waiting = FALSE, !.open = FALSE]
                        ELSE conn[d]]
                      EXCEPT ![c] = Fetch(p, "boot")]
          /\ UNCHANGED <<server, interrupts, lock>>
    BY <1>3 DEF Load
  <2>2. ASSUME NEW d \in Conns
        PROVE  /\ Sound(conn'[d]) /\ Standing(conn'[d]) = Standing(conn[d])
               /\ conn[d].thread \in Holding => conn'[d].thread \in Holding
    <3>1. CASE d = c
      <4>1. conn'[d] = Fetch(p, "boot")
        BY <2>1, <3>1
      <4>2. QED
        BY <1>1, <1>2, <2>1, <3>1, <4>1
    <3>2. CASE d # c
      <4>1. conn'[d] \in {conn[d], [conn[d] EXCEPT !.waiting = FALSE, !.open = FALSE]}
        BY <2>1, <3>2
      <4>2. /\ conn'[d].kind = conn[d].kind /\ conn'[d].thread = conn[d].thread
            /\ conn'[d].answer = conn[d].answer /\ (conn'[d].open => conn[d].open)
        BY <1>0, <4>1 DEF ConnType
      <4>3. QED
        BY <1>0, <4>2 DEF Sound, Standing
    <3>3. QED
      BY <3>1, <3>2
  <2>3. DeskInv'
    <3>1. lock \in Conns \cup {0}
      BY BoundAssumption DEF TypeOK, Conns
    <3>2. QED
      BY <2>1, <2>2, <3>1 DEF DeskInv
  <2>4. UNCHANGED <<Requests, Opened>>
    BY <2>1, <2>2 DEF Requests, Opened
  <2>5. QED
    BY <2>3, <2>4 DEF DeskStep
<1>4. ASSUME NEW kind \in {"form", "tool"}, Execute(p, kind) PROVE DeskStep
  <2>1. PICK c \in Conns : /\ Fresh(c) /\ conn' = [conn EXCEPT ![c] = Fetch(p, kind)]
                           /\ UNCHANGED <<server, interrupts, lock>>
    BY <1>4 DEF Execute
  <2>2. Standing(conn[c]) = "waiting" /\ conn[c].thread \notin Holding
    BY <1>2, <2>1
  <2>3. Sound(Fetch(p, kind))
    BY <1>1
  <2>4. CASE server = "serving"
    BY <1>1, <2>1, <2>2, <2>3, <2>4, OneStandsStill
  <2>5. CASE server # "serving"
    <3>1. Standing(Fetch(p, kind)) = "lost"
      BY <1>1, <2>5
    <3>2. DeskInv' /\ Desk!Becomes(c, "waiting", "lost")
      BY <2>1, <2>2, <2>3, <3>1, OneStands DEF Desk!Becomes
    <3>3. Opened # "open"
      BY <2>5 DEF Opened
    <3>4. QED
      BY <3>2, <3>3 DEF DeskStep, Desk!Next, Desk!TooLate
  <2>6. QED
    BY <2>4, <2>5
<1>5. QED
  BY <1>3, <1>4 DEF Submit, CallTool

\* The end of the process, which only a server that closes comes to.
LEMMA EndAtDesk ==
  ASSUME TypeOK, DeskInv, Exit, server \in {"joining", "leaving"}
  PROVE  DeskStep
<1>0. \A d \in Conns : conn[d] \in ConnType /\ Sound(conn[d])
  BY DEF TypeOK, DeskInv
<1>1. /\ conn' = [d \in Conns |->
           [conn[d] EXCEPT
              !.thread = IF conn[d].thread = "checking" THEN "cut"
                         ELSE IF conn[d].thread = "none" THEN conn[d].thread ELSE "over",
              !.open = FALSE,
              !.answer = IF conn[d].answer = "none" /\ conn[d].thread # "none" THEN "lost"
                         ELSE conn[d].answer]]
      /\ server' = "gone"
  BY DEF Exit, TypeOK, ConnType
<1>2. ASSUME NEW d \in Conns
      PROVE  /\ conn'[d].kind = conn[d].kind /\ ~conn'[d].open
             /\ conn'[d].thread = IF conn[d].thread = "checking" THEN "cut"
                                  ELSE IF conn[d].thread = "none" THEN "none" ELSE "over"
             /\ conn'[d].answer = IF conn[d].answer = "none" /\ conn[d].thread # "none" THEN "lost"
                                  ELSE conn[d].answer
  BY <1>0, <1>1 DEF ConnType
<1>3. ASSUME NEW d \in Conns
      PROVE  /\ Sound(conn'[d])
             /\ Requests[d] = "waiting" => Requests'[d] \in {"waiting", "lost"}
             /\ Requests[d] # "waiting" =>
                  Requests'[d] = IF Requests[d] \in {"running", "completed"} THEN "lost"
                                 ELSE IF Requests[d] = "failing" THEN "error" ELSE Requests[d]
  <2>1. Sound(conn'[d])
    BY <1>0, <1>2 DEF Sound, Holding
  <2>2. Requests[d] = Standing(conn[d]) /\ Requests'[d] = Standing(conn'[d])
    BY DEF Requests
  <2>3. conn[d].answer \in {"none", "ok", "conflict", "error", "lost"}
    BY <1>0 DEF ConnType, Answers
  <2>4. /\ Standing(conn[d]) = "waiting" => Standing(conn'[d]) \in {"waiting", "lost"}
        /\ Standing(conn[d]) # "waiting" =>
             Standing(conn'[d]) = IF Standing(conn[d]) \in {"running", "completed"} THEN "lost"
                                  ELSE IF Standing(conn[d]) = "failing" THEN "error"
                                  ELSE Standing(conn[d])
    BY <1>0, <1>2, <2>3 DEF Standing, Sound
  <2>5. QED
    BY <2>1, <2>2, <2>4
<1>4. DeskInv'
  BY <1>1, <1>3 DEF DeskInv
<1>5. Desk!End
  <2> DEFINE asked == {d \in Conns : Requests[d] = "waiting" /\ Requests'[d] = "lost"}
  <2>1. Opened = "closing" /\ Opened' = "ended"
    BY <1>1 DEF Opened
  <2>2. Requests' = [d \in Conns |-> Requests'[d]]
    BY DEF Requests
  <2>3. \A d \in Conns :
          Requests'[d] = IF d \in asked \/ Requests[d] \in {"running", "completed"} THEN "lost"
                         ELSE IF Requests[d] = "failing" THEN "error"
                         ELSE Requests[d]
    BY <1>3
  <2>4. asked \in SUBSET {d \in Conns : Requests[d] = "waiting"}
    OBVIOUS
  <2> HIDE DEF asked
  <2>5. Requests' = [d \in Conns |->
                       IF d \in asked \/ Requests[d] \in {"running", "completed"} THEN "lost"
                       ELSE IF Requests[d] = "failing" THEN "error"
                       ELSE Requests[d]]
    BY <2>2, <2>3
  <2>6. QED
    BY <2>1, <2>4, <2>5 DEF Desk!End
<1>6. QED
  BY <1>4, <1>5 DEF DeskStep, Desk!Next

LEMMA InterruptAtDesk ==
  ASSUME TypeOK, DeskInv, Interrupt
  PROVE  DeskStep
<1>0. /\ \A d \in Conns : conn[d] \in ConnType /\ Sound(conn[d])
      /\ lock \in Conns \cup {0} /\ UNCHANGED lock
  BY BoundAssumption DEF TypeOK, DeskInv, Conns, Interrupt
<1>1. CASE /\ server = "serving" /\ server' = "joining"
           /\ conn' = [c \in Conns |->
                         IF conn[c].thread = "queued"
                         THEN [To(conn[c], "over") EXCEPT !.answer = "lost"]
                         ELSE conn[c]]
  <2> DEFINE turned == {d \in Conns : Requests[d] = "waiting" /\ Requests'[d] = "lost"}
  <2>1. ASSUME NEW d \in Conns
        PROVE  /\ Sound(conn'[d]) /\ (conn[d].thread \in Holding => conn'[d].thread \in Holding)
               /\ Requests'[d] = IF d \in turned THEN "lost" ELSE Requests[d]
    <3>0. Requests[d] = Standing(conn[d]) /\ Requests'[d] = Standing(conn'[d])
      BY DEF Requests
    <3>1. CASE conn[d].thread = "queued"
      <4>1. conn'[d] = [To(conn[d], "over") EXCEPT !.answer = "lost"]
        BY <1>1, <3>1
      <4>2. conn'[d].kind = conn[d].kind /\ conn'[d].answer = "lost" /\ conn'[d].thread = "over"
        BY <1>0, <4>1, Fields, Words
      <4>3. /\ Sound(conn'[d]) /\ conn[d].thread \notin Holding
            /\ Standing(conn[d]) = "waiting" /\ Standing(conn'[d]) \in {"waiting", "lost"}
        BY <1>0, <3>1, <4>2 DEF Sound, Standing, Holding
      <4>4. QED
        BY <3>0, <4>3
    <3>2. CASE conn[d].thread # "queued"
      <4>1. conn'[d] = conn[d]
        BY <1>1, <3>2
      <4>2. QED
        BY <1>0, <3>0, <4>1
    <3>3. QED
      BY <3>1, <3>2
  <2>2. DeskInv'
    BY <1>0, <1>1, <2>1 DEF DeskInv
  <2>3. Opened = "open" /\ Opened' = "closing"
    BY <1>1 DEF Opened
  <2>4. Requests' = [d \in Conns |-> Requests'[d]]
    BY DEF Requests
  <2>5. turned \in SUBSET {d \in Conns : Requests[d] = "waiting"}
    OBVIOUS
  <2> HIDE DEF turned
  <2>6. Requests' = [d \in Conns |-> IF d \in turned THEN "lost" ELSE Requests[d]]
    BY <2>1, <2>4
  <2>7. Desk!Close
    BY <2>3, <2>5, <2>6 DEF Desk!Close
  <2>8. QED
    BY <2>2, <2>7 DEF DeskStep, Desk!Next
<1>2. CASE server = "joining" /\ server' = "leaving" /\ UNCHANGED conn
  <2>1. DeskInv'
    BY <1>0, <1>2 DEF DeskInv
  <2>2. UNCHANGED <<Requests, Opened>>
    BY <1>2 DEF Requests, Opened
  <2>3. QED
    BY <2>1, <2>2 DEF DeskStep
<1>3. CASE server = "leaving" /\ Exit
  BY <1>3, EndAtDesk
<1>4. QED
  BY <1>1, <1>2, <1>3 DEF Interrupt

\* The server keeps the promise of CheckDesk: one check at a time, a conflict beside
\* another request's only, a report after the desk was freed, one answer for each request,
\* and none lost while it serves. (do_POST, serve_dashboard)
THEOREM DeskIsKept == Spec => KeepsOrder
<1>1. Init => DeskInv /\ Desk!Init
  <2> SUFFICES ASSUME Init PROVE DeskInv /\ Desk!Init
    OBVIOUS
  <2>1. \A c \in Conns : /\ conn[c].kind = "unused" /\ conn[c].thread = "none"
                         /\ ~conn[c].open /\ conn[c].answer = "none"
    BY DEF Init
  <2>2. \A c \in Conns : Sound(conn[c]) /\ Standing(conn[c]) = "waiting"
    BY <2>1 DEF Sound, Standing, Holding, Asking
  <2>3. DeskInv /\ Opened = "open"
    BY <2>2 DEF Init, DeskInv, Opened
  <2>4. Requests = [c \in Conns |-> "waiting"]
    BY <2>2 DEF Requests
  <2>5. QED
    BY <2>3, <2>4 DEF Desk!Init
<1>2. ServerInv /\ DeskInv /\ [Next]_vars => DeskInv' /\ [Desk!Next]_<<Requests, Opened>>
  <2> SUFFICES ASSUME ServerInv, DeskInv, [Next]_vars PROVE DeskStep
    BY DEF DeskStep
  <2>0. TypeOK
    BY DEF ServerInv
  <2>1. CASE UNCHANGED vars
    <3>1. DeskInv'
      BY <2>1 DEF vars, DeskInv
    <3>2. UNCHANGED <<Requests, Opened>>
      BY <2>1 DEF vars, Requests, Opened
    <3>3. QED
      BY <3>1, <3>2 DEF DeskStep
  <2>2. CASE Joined
    BY <2>0, <2>2, EndAtDesk DEF Joined
  <2>3. CASE Next
    BY <2>0, <2>2, <2>3, PageAtDesk, ClientsAtDesk, HandlerAtDesk, InterruptAtDesk DEF Next
  <2>4. QED
    BY <2>1, <2>3
<1>3. QED
  BY <1>1, <1>2, ServerInduction, PTL DEF Spec, KeepsOrder, Desk!Spec
====
