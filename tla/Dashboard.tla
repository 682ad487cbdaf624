----------------------------- MODULE Dashboard -----------------------------
(***************************************************************************)
(* The local dashboard: the HTTP server with one handler thread per        *)
(* connection, the run lock between them and the shutdown by Ctrl+C, and   *)
(* the page whose form and model tool start checks.  The sources are       *)
(* src/src/r_sandbox/ui/server.py and src/src/r_sandbox/ui/static/app.js.  *)
(*                                                                         *)
(* A connection carries one request: every response closes it.  A page     *)
(* opens connections, and so do strangers: another tool that holds the     *)
(* token, or a browser that connects ahead and says nothing.  The agent is *)
(* one step that ends with a report or an exception.  Left out: headers,   *)
(* tokens, the fields of a request and of a report, static files, a page   *)
(* without a token, and responses that fill the socket of a client that    *)
(* does not read.                                                          *)
(***************************************************************************)
EXTENDS Integers, FiniteSets

CONSTANTS
  Pages,         \* the pages a browser has open
  NoPage,        \* the page of a connection that no page waits for
  MaxConns       \* bound on the connections of a behaviour

ASSUME PagesAssumption == NoPage \notin Pages
ASSUME BoundAssumption == MaxConns \in Nat

VARIABLES
  server,        \* what the main thread does, see Stages
  interrupts,    \* how often Ctrl+C was pressed
  lock,          \* run_lock: the connection whose thread holds it, or 0
  conn,          \* the connections, with both of their ends
  page           \* the pages

vars == <<server, interrupts, lock, conn, page>>

Conns == 1 .. MaxConns
Kinds == {"unused", "form", "tool", "boot", "stranger", "run", "other"}
Stages == {"serving", "joining", "leaving", "gone"}
Threads == {"none", "queued", "idle", "reading", "checking", "refusing",
            "freeing", "answering", "over", "cut"}
Answers == {"none", "ok", "conflict", "error", "lost"}
Banners == {"idle", "running", "verdict", "error"}

\* A connection: what it asks for, the page that waits for its answer, how much
\* of the request was sent, whether the client's end is open, the statement its
\* handler thread is at, and the answer.
ConnType ==
  [kind : Kinds, page : Pages \cup {NoPage}, waiting : BOOLEAN,
   sent : {"nothing", "head", "all"}, open : BOOLEAN,
   thread : Threads, answer : Answers]
\* A page: how far bootstrap() got, whether the run button is disabled, the
\* banner, timerId and the intervals that tick, and currentReport.
PageType ==
  [loaded : {"closed", "loading", "ready", "failed"}, disabled : BOOLEAN,
   banner : Banners, timerId : 0 .. MaxConns, ticking : SUBSET (1 .. MaxConns),
   report : 0 .. MaxConns]

\* The variables have their types, and no connection outlives its thread.
\* (_send_bytes, close_connection)
TypeOK ==
  /\ server \in Stages /\ interrupts \in 0 .. 3
  /\ lock \in 0 .. MaxConns
  /\ conn \in [Conns -> ConnType]
  /\ \A c \in Conns : conn[c].thread \in {"over", "cut"} => ~conn[c].open
  /\ page \in [Pages -> PageType]

Blank ==
  [loaded |-> "closed", disabled |-> FALSE, banner |-> "idle", timerId |-> 0,
   ticking |-> {}, report |-> 0]

Init ==
  /\ server = "serving" /\ interrupts = 0 /\ lock = 0
  /\ conn = [c \in Conns |->
               [kind |-> "unused", page |-> NoPage, waiting |-> FALSE,
                sent |-> "nothing", open |-> FALSE, thread |-> "none",
                answer |-> "none"]]
  /\ page = [p \in Pages |-> Blank]

-----------------------------------------------------------------------------
(* The clients.                                                            *)

\* The first connection not used yet: the next one to be opened.
Fresh(c) == conn[c].kind = "unused" /\ \A d \in 1 .. c - 1 : conn[d].kind # "unused"

\* fetch: the request is sent at once, its body follows.  The kernel takes the
\* connection into the backlog, or refuses it once the listener is closed.
Fetch(p, kind) ==
  [kind |-> kind, page |-> p, waiting |-> TRUE,
   sent |-> IF kind = "boot" THEN "all" ELSE "head",
   open |-> server = "serving",
   thread |-> IF server = "serving" THEN "queued" ELSE "over",
   answer |-> IF server = "serving" THEN "none" ELSE "lost"]

\* The connections whose answer page p waits for.
Pending(p) == {c \in Conns : conn[c].page = p /\ conn[c].waiting}

\* setBusy(true) for the check on connection c, which names the new interval: that
\* of an earlier call is overwritten, not cleared.
Busy(r, c) ==
  [r EXCEPT !.disabled = TRUE, !.banner = "running", !.timerId = c, !.ticking = @ \cup {c}]
\* setBusy(false).
Free(r) ==
  [r EXCEPT !.disabled = FALSE, !.ticking = @ \ {r.timerId}, !.timerId = 0]

\* A page is opened or loaded again: its requests are aborted, its state is lost
\* and bootstrap() asks for the configuration.
Load(p) ==
  \E c \in Conns :
    /\ Fresh(c)
    /\ page' = [page EXCEPT ![p] = [Blank EXCEPT !.loaded = "loading"]]
    /\ conn' = [[d \in Conns |->
                   IF d \in Pending(p) THEN [conn[d] EXCEPT !.waiting = FALSE, !.open = FALSE]
                   ELSE conn[d]]
                 EXCEPT ![c] = Fetch(p, "boot")]
    /\ UNCHANGED <<server, interrupts, lock>>

\* executePayload up to its await.
Execute(p, kind) ==
  \E c \in Conns :
    /\ Fresh(c)
    /\ page' = [page EXCEPT ![p] = Busy(@, c)]
    /\ conn' = [conn EXCEPT ![c] = Fetch(p, kind)]
    /\ UNCHANGED <<server, interrupts, lock>>

\* The form can be submitted when its button is enabled, while bootstrap() still
\* waits as well; the tool is registered by a bootstrap() that succeeded and can
\* be called whatever the form does.
Submit(p) == page[p].loaded # "closed" /\ ~page[p].disabled /\ Execute(p, "form")
CallTool(p) == page[p].loaded = "ready" /\ Execute(p, "tool")

\* The rest of executePayload, and of bootstrap: the answer is rendered.
\* Mutant: the busy state is ended after a report only.
RenderedOnSuccess(r, c) ==
  CASE conn[c].kind = "boot" -> r
    [] conn[c].answer = "ok" -> Free([r EXCEPT !.banner = "verdict", !.report = c])
    [] OTHER -> [r EXCEPT !.banner = "error"]
Rendered(r, c) ==
  LET ok == conn[c].answer = "ok" IN
  IF conn[c].kind = "boot"
  THEN IF ok THEN [r EXCEPT !.loaded = "ready"]
       ELSE [r EXCEPT !.loaded = "failed", !.banner = "error", !.disabled = TRUE]
  ELSE Free(IF ok THEN [r EXCEPT !.banner = "verdict", !.report = c]
            ELSE [r EXCEPT !.banner = "error"])

Receive(c) ==
  /\ conn[c].waiting /\ conn[c].answer # "none"
  /\ page' = [page EXCEPT ![conn[c].page] = Rendered(@, c)]
  /\ conn' = [conn EXCEPT ![c].waiting = FALSE, ![c].open = FALSE]
  /\ UNCHANGED <<server, interrupts, lock>>

SendBody(c) ==
  /\ conn[c].open /\ conn[c].sent = "head"
  /\ conn' = [conn EXCEPT ![c].sent = "all"]
  /\ UNCHANGED <<server, interrupts, lock, page>>

\* A stranger connects, perhaps says what it wants, and may hang up at any time.
StrangerConnects ==
  \E c \in Conns :
    /\ Fresh(c) /\ server = "serving"
    /\ conn' = [conn EXCEPT ![c].kind = "stranger", ![c].open = TRUE,
                            ![c].thread = "queued"]
    /\ UNCHANGED <<server, interrupts, lock, page>>
StrangerAsks(c) ==
  /\ conn[c].open /\ conn[c].kind = "stranger"
  /\ \E kind \in {"run", "other"} :
       conn' = [conn EXCEPT ![c].kind = kind,
                            ![c].sent = IF kind = "run" THEN "head" ELSE "all"]
  /\ UNCHANGED <<server, interrupts, lock, page>>
Strange(c) == conn[c].kind \in {"stranger", "run", "other"}
HangUp(c) ==
  /\ conn[c].open /\ Strange(c)
  /\ conn' = [conn EXCEPT ![c].open = FALSE]
  /\ UNCHANGED <<server, interrupts, lock, page>>

-----------------------------------------------------------------------------
(* The handler thread of connection c.                                     *)

At(c, statement) == conn[c].thread = statement /\ server # "gone"
\* Mutant: the socket of a finished request stays open.
ToOpen(r, statement) == [r EXCEPT !.thread = statement]
\* The socket is closed by the thread that ends.
To(r, statement) ==
  [r EXCEPT !.thread = statement, !.open = @ /\ statement # "over"]
Goes(c, statement) == conn' = [conn EXCEPT ![c] = To(@, statement)]
Replies(c, statement, answer) ==
  conn' = [conn EXCEPT ![c] = [To(@, statement) EXCEPT !.answer = answer]]

Accept(c) ==
  /\ server = "serving" /\ At(c, "queued") /\ Goes(c, "idle")
  /\ UNCHANGED <<server, interrupts, lock, page>>

\* The request line never comes.
NoRequest(c) ==
  /\ At(c, "idle") /\ conn[c].sent = "nothing" /\ ~conn[c].open
  /\ Goes(c, "over")
  /\ UNCHANGED <<server, interrupts, lock, page>>

\* A request that needs no lock: assets, bootstrap, and all that is refused
\* before do_POST asks for the lock.
Serve(c) ==
  /\ At(c, "idle") /\ conn[c].kind \in {"boot", "other"}
  /\ \E answer \in {"ok", "error"} : Replies(c, "over", answer)
  /\ UNCHANGED <<server, interrupts, lock, page>>

\* do_POST asks for the lock without waiting, before it reads the body.
\* Mutant: the answer to a conflict is inside the try block that releases.
AskInTry(c) ==
  /\ At(c, "idle") /\ conn[c].kind \in {"form", "tool", "run"}
  /\ IF lock = 0 THEN lock' = c /\ Goes(c, "reading")
     ELSE lock' = 0 /\ Replies(c, "over", "conflict")
  /\ UNCHANGED <<server, interrupts, page>>
Ask(c) ==
  /\ At(c, "idle") /\ conn[c].kind \in {"form", "tool", "run"}
  /\ IF lock = 0 THEN lock' = c /\ Goes(c, "reading")
     ELSE UNCHANGED lock /\ Replies(c, "over", "conflict")
  /\ UNCHANGED <<server, interrupts, page>>

\* rfile.read returns with the body or at the end of the connection; a body cut
\* short, or one that _run_request does not accept, is refused.
\* Mutant: the read is repeated until the whole body is there.
ReadWhole(c) ==
  /\ At(c, "reading") /\ conn[c].sent = "all"
  /\ Goes(c, "checking") \/ Goes(c, "refusing")
  /\ UNCHANGED <<server, interrupts, lock, page>>
ReadBody(c) ==
  /\ At(c, "reading")
  /\ \/ conn[c].sent = "all" /\ Goes(c, "checking")
     \/ (conn[c].sent = "all" \/ ~conn[c].open) /\ Goes(c, "refusing")
  /\ UNCHANGED <<server, interrupts, lock, page>>

\* Mutant: the report is sent inside the try block that holds the lock.
CheckAnswers(c) ==
  /\ At(c, "checking")
  /\ Replies(c, "freeing", "ok") \/ Goes(c, "refusing")
  /\ UNCHANGED <<server, interrupts, lock, page>>
\* The agent returns, and the lock is released before the report is sent, or it
\* raises.
Check(c) ==
  /\ At(c, "checking")
  /\ \/ lock' = 0 /\ Goes(c, "answering")
     \/ UNCHANGED lock /\ Goes(c, "refusing")
  /\ UNCHANGED <<server, interrupts, page>>
Report(c) ==
  /\ At(c, "answering") /\ Replies(c, "over", "ok")
  /\ UNCHANGED <<server, interrupts, lock, page>>

\* An exception is answered inside the try block, then the lock is released.
Refuse(c) ==
  /\ At(c, "refusing") /\ Replies(c, "freeing", "error")
  /\ UNCHANGED <<server, interrupts, lock, page>>
\* Mutant: only a check that returned releases the lock.
FinallyForgotten(c) ==
  /\ At(c, "freeing") /\ Goes(c, "over")
  /\ UNCHANGED <<server, interrupts, lock, page>>
Finally(c) ==
  /\ At(c, "freeing") /\ lock' = 0 /\ Goes(c, "over")
  /\ UNCHANGED <<server, interrupts, page>>

Handler(c) ==
  \/ NoRequest(c) \/ Serve(c) \/ Ask(c) \/ ReadBody(c)
  \/ Check(c) \/ Report(c) \/ Refuse(c) \/ Finally(c)

-----------------------------------------------------------------------------
(* The main thread.                                                        *)

\* The process ends: connections are reset, and a check in progress is cut off.
Exit ==
  /\ server' = "gone"
  /\ conn' = [c \in Conns |->
       [conn[c] EXCEPT
          !.thread = IF @ = "checking" THEN "cut" ELSE IF @ = "none" THEN @ ELSE "over",
          !.open = FALSE,
          !.answer = IF @ = "none" /\ conn[c].thread # "none" THEN "lost" ELSE @]]

\* The first Ctrl+C ends serve_forever: the listener is closed, the backlog with
\* it, and server_close joins the handler threads.  The second leaves the join,
\* and the interpreter joins them once more; the third ends the process.
Interrupt ==
  /\ interrupts < 3 /\ server # "gone"
  /\ interrupts' = interrupts + 1
  /\ \/ /\ server = "serving" /\ server' = "joining"
        /\ conn' = [c \in Conns |->
                      IF conn[c].thread = "queued"
                      THEN [To(conn[c], "over") EXCEPT !.answer = "lost"]
                      ELSE conn[c]]
     \/ server = "joining" /\ server' = "leaving" /\ UNCHANGED conn
     \/ server = "leaving" /\ Exit
  /\ UNCHANGED <<lock, page>>

\* Mutant: with daemon threads nothing is joined.
JoinNothing ==
  /\ server \in {"joining", "leaving"} /\ Exit
  /\ UNCHANGED <<interrupts, lock, page>>
Joined ==
  /\ server \in {"joining", "leaving"}
  /\ \A c \in Conns : conn[c].thread \in {"none", "over"}
  /\ Exit
  /\ UNCHANGED <<interrupts, lock, page>>

-----------------------------------------------------------------------------

Next ==
  \/ \E p \in Pages : Load(p) \/ Submit(p) \/ CallTool(p)
  \/ StrangerConnects
  \/ \E c \in Conns : StrangerAsks(c) \/ HangUp(c) \/ SendBody(c) \/ Receive(c)
  \/ \E c \in Conns : Accept(c) \/ Handler(c)
  \/ Interrupt \/ Joined

Spec == Init /\ [][Next]_vars

\* Threads of the server run, the agent ends, a browser sends the body of a
\* request it started and renders its answer.  Nobody is obliged to press
\* Ctrl+C, and a stranger to nothing.  A connection has finitely many steps, so
\* one condition for all of them is enough.
Progress(c) ==
  Accept(c) \/ Handler(c) \/ Receive(c) \/ (~Strange(c) /\ SendBody(c))
FairSpec == Spec /\ WF_vars(Joined) /\ \A c \in Conns : WF_vars(Progress(c))

-----------------------------------------------------------------------------
(* Properties.                                                             *)

Holding == {"reading", "checking", "refusing", "freeing"}
Checks(p) == {c \in Pending(p) : conn[c].kind # "boot"}

\* Ctrl+C lets a check in progress finish, its cleanup of the container
\* included: only the third one cuts it off.  (serve_dashboard, block_on_close)
ChecksAreFinished ==
  (\E c \in Conns : conn[c].thread = "cut") => interrupts = 3

\* Where a request for a check stands, for whoever waits at the desk.
Asking == {"form", "tool", "run"}
Standing(r) ==
  IF r.kind \notin Asking THEN "waiting"
  ELSE IF r.thread \in {"reading", "checking", "refusing"} THEN "running"
  ELSE IF r.thread = "freeing" /\ r.answer = "error" THEN "failing"
  ELSE IF r.thread = "answering" THEN "completed"
  ELSE IF r.answer = "none" THEN "waiting"
  ELSE IF r.answer = "ok" THEN "report"
  ELSE r.answer
Requests == [c \in Conns |-> Standing(conn[c])]
Opened ==
  IF server = "serving" THEN "open" ELSE IF server = "gone" THEN "ended" ELSE "closing"

\* The server keeps the promise of CheckDesk, whoever asks and hangs up when: a
\* conflict is answered beside another request's check only, a report after the lock
\* was given back, each request once, and nothing is lost while it serves.
\* (do_POST, serve_dashboard)
Desk == INSTANCE CheckDesk WITH Clients <- Conns, request <- Requests, stage <- Opened
KeepsOrder == Desk!Spec

\* However the form, the model tool and bootstrap interleave on a page, when it
\* waits for no check it neither says that one runs nor withholds the form,
\* unless its bootstrap failed; and a verdict has a report behind it.  A page
\* whose tool was never called says all the time whether a check runs, and has
\* the one interval of that check.  (executePayload, setBusy, bootstrap)
PagesAreHonest ==
  \A p \in Pages :
    /\ Checks(p) = {} =>
         /\ page[p].banner # "running"
         /\ page[p].disabled => page[p].loaded = "failed"
    /\ page[p].banner = "verdict" => page[p].report # 0
    /\ page[p].loaded # "failed" /\ (\A c \in Conns : conn[c].page = p => conn[c].kind # "tool")
         => /\ page[p].disabled = (Checks(p) # {})
            /\ page[p].banner = "running" <=> Checks(p) # {}
            /\ page[p].ticking = IF Checks(p) = {} THEN {} ELSE {page[p].timerId}

\* The lock is given back after every end of a check; only a stranger that keeps
\* its connection open and does not send its body holds it for good.
\* (do_POST's finally; there is no timeout)
LockIsFreed ==
  lock # 0 ~>
    \/ lock = 0 \/ server = "gone"
    \/ Strange(lock) /\ conn[lock].open /\ conn[lock].thread = "reading"

\* After Ctrl+C the process ends once the checks have, unless a stranger keeps a
\* connection open on which its request is not complete.  (server_close)
Stops ==
  server # "serving" ~>
    \/ server = "gone"
    \/ \E c \in Conns : /\ Strange(c) /\ conn[c].open
                        /\ conn[c].thread \in {"idle", "reading"}
=============================================================================
