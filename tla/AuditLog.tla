------------------------------ MODULE AuditLog ------------------------------
(***************************************************************************)
(* The log of the Python audit hook: written in the target by every thread *)
(* of every interpreter it starts, read by the supervisor when the target  *)
(* is gone.  The sources are                                               *)
(* src/src/r_sandbox/tools/execution_supervisor/python_audit/              *)
(* sitecustomize.py and _load_python_audit_events of                       *)
(* src/src/r_sandbox/tools/execution_supervisor/supervisor.py.             *)
(*                                                                         *)
(* A record is encoded in three units, the last of them its newline; a     *)
(* write may take any part of what is left of it.  The target may be       *)
(* killed in every state, so what the loader returns is a state function.  *)
(* The rules of the hook are abstracted to whether a call is permitted.    *)
(* The interpreter lock changes hands at calls, in the hook as elsewhere.  *)
(* Left out: a target that tampers with its interpreter, the descriptor or *)
(* the file, which nothing here withstands, and the wording of records.    *)
(***************************************************************************)
EXTENDS Integers, FiniteSets, SequencesExt

CONSTANTS
  Threads,       \* the threads of all processes of the target
  Process,       \* the process each of them belongs to
  Initial,       \* the thread the target starts with
  MaxEvents,     \* _MAX_EVENTS of the hook, max_events of the loader
  MaxBytes,      \* max_bytes of the loader, in units
  MaxCalls       \* bound on the audited calls of a behaviour

ASSUME ThreadsAssumption ==
  /\ Process \in [Threads -> Nat] /\ Initial \in Threads
ASSUME LimitsAssumption ==
  MaxEvents \in Nat \ {0} /\ MaxBytes \in Nat /\ MaxCalls \in Nat \ {0}

VARIABLES
  exists, log,   \* the file and its units, each <<event, part>>
  proc,          \* the closure of the hook in each process
  thread,        \* the statement each thread is at, its event, the units written
  kind, fate,    \* history: what each event is, and what became of it
  spawned        \* history: a second interpreter was started

vars == <<exists, log, proc, thread, kind, fate, spawned>>

Processes == {Process[t] : t \in Threads}
ThreadsOf(p) == {t \in Threads : Process[t] = p}
Parts == 3
Kinds == {"hook", "call", "limit"}
Fates == {"open", "unchecked", "skipped", "over", "mute", "failed", "torn",
          "written", "wiped"}

\* fd: event_descriptor is open.  inherited: the process was forked while its
\* parent's flag was up.
ProcType == [alive : BOOLEAN, fd : BOOLEAN, writing : BOOLEAN,
             count : 0 .. MaxEvents, inherited : BOOLEAN]
ThreadType == [pc : {"none", "site", "deciding", "writing", "out"},
               event : 0 .. MaxCalls, sent : 0 .. Parts]

\* The variables have their types; a process never counts more than MaxEvents
\* records, whatever its threads and its parent recorded (event_count).
TypeOK ==
  /\ exists \in BOOLEAN /\ spawned \in BOOLEAN
  /\ log \in Seq((1 .. MaxCalls) \X (1 .. Parts))
  /\ proc \in [Processes -> ProcType]
  /\ thread \in [Threads -> ThreadType]
  /\ kind \in Seq(Kinds) /\ fate \in Seq(Fates)
  /\ Len(kind) = Len(fate) /\ Len(kind) <= MaxCalls

NoProcess == [alive |-> FALSE, fd |-> FALSE, writing |-> FALSE, count |-> 0,
              inherited |-> FALSE]

\* The log was prepared: no file of its name exists.
Init ==
  /\ exists = FALSE /\ log = <<>>
  /\ proc = [p \in Processes |->
               [NoProcess EXCEPT !.alive = p = Process[Initial]]]
  /\ thread = [t \in Threads |->
                 [pc |-> IF t = Initial THEN "site" ELSE "none", event |-> 0, sent |-> 0]]
  /\ kind = <<>> /\ fate = <<>> /\ spawned = FALSE

-----------------------------------------------------------------------------
(* The hook.                                                               *)

P(t) == proc[Process[t]]
At(t, statement) == thread[t].pc = statement
Out == [pc |-> "out", event |-> 0, sent |-> 0]
Deciding(e) == [pc |-> "deciding", event |-> e, sent |-> 0]
\* The interpreter runs sitecustomize: the file is created or truncated, the hook
\* registered and its first event recorded.  When the descriptor cannot be opened
\* or set up, the hook stays without one.
Install(t) ==
  /\ At(t, "site") /\ Len(kind) < MaxCalls
  /\ \E opened, ready \in BOOLEAN :
       /\ ready => opened
       /\ exists' = (exists \/ opened)
       /\ log' = IF opened THEN <<>> ELSE log
       /\ proc' = [proc EXCEPT ![Process[t]].fd = ready]
       /\ fate' = Append([e \in DOMAIN fate |->
                            IF opened /\ fate[e] \in {"written", "torn"}
                            THEN "wiped" ELSE fate[e]], "open")
  /\ kind' = Append(kind, "hook")
  /\ thread' = [thread EXCEPT ![t] = Deciding(Len(kind) + 1)]
  /\ UNCHANGED spawned

\* audit: a call of an audited API.  While a record of its process is written the
\* hook returns at once: the call is neither recorded nor, where the rules forbid
\* it, denied.
Call(t) ==
  /\ At(t, "out") /\ Len(kind) < MaxCalls
  /\ kind' = Append(kind, "call")
  /\ IF P(t).writing
     THEN fate' = Append(fate, "unchecked") /\ UNCHANGED thread
     ELSE /\ fate' = Append(fate, "open")
          /\ thread' = [thread EXCEPT ![t] = Deciding(Len(kind) + 1)]
  /\ UNCHANGED <<exists, log, proc, spawned>>

\* record, up to its write: no call separates the tests from the assignment of
\* the flag.  The last event a process may record becomes the marker.
\* Mutant: the marker comes after the last event instead of in its place.
MarksAfterLast(count) == count = MaxEvents
IsMarker(count) == count = MaxEvents - 1
\* Mutant: nothing bounds the events of a process.
NeverFull(count) == FALSE
Full(count) == count >= MaxEvents
Record(t) ==
  LET e == thread[t].event
      dropped == IF P(t).writing THEN "skipped"
                 ELSE IF Full(P(t).count) THEN "over"
                 ELSE IF ~P(t).fd THEN "mute" ELSE "open"
  IN
  /\ At(t, "deciding")
  /\ fate' = [fate EXCEPT ![e] = dropped]
  /\ IF dropped # "open"
     THEN thread' = [thread EXCEPT ![t] = Out] /\ UNCHANGED <<proc, kind>>
     ELSE /\ thread' = [thread EXCEPT ![t].pc = "writing"]
          /\ proc' = [proc EXCEPT ![Process[t]].writing = TRUE]
          /\ kind' = [kind EXCEPT ![e] = IF IsMarker(P(t).count) THEN "limit" ELSE @]
  /\ UNCHANGED <<exists, log, spawned>>

\* os.write takes at least a unit; the last one ends record, flag and all.
\* O_APPEND puts it at the end, whoever wrote there before.
Write(t) ==
  LET e == thread[t].event
      sent == thread[t].sent IN
  /\ At(t, "writing")
  /\ \E n \in 1 .. Parts - sent :
       /\ log' = log \o [i \in 1 .. n |-> <<e, sent + i>>]
       /\ IF sent + n < Parts
          THEN thread' = [thread EXCEPT ![t].sent = sent + n] /\ UNCHANGED <<proc, fate>>
          ELSE /\ thread' = [thread EXCEPT ![t] = Out]
               /\ proc' = [proc EXCEPT ![Process[t]].writing = FALSE,
                                       ![Process[t]].count = @ + 1]
               /\ fate' = [fate EXCEPT ![e] = "written"]
  /\ UNCHANGED <<exists, kind, spawned>>

\* os.write raises or makes no progress: what was written stays, unless it was
\* wiped meanwhile.
Remains(t) ==
  IF thread[t].sent = 0 THEN "failed"
  ELSE IF \E i \in DOMAIN log : log[i][1] = thread[t].event THEN "torn" ELSE "wiped"
\* Mutant: the flag is not cleared on the way out of an exception.
WriteFailsForGood(t) ==
  /\ At(t, "writing")
  /\ thread' = [thread EXCEPT ![t] = Out]
  /\ fate' = [fate EXCEPT ![thread[t].event] = Remains(t)]
  /\ UNCHANGED <<exists, log, proc, kind, spawned>>
WriteFails(t) ==
  /\ At(t, "writing")
  /\ thread' = [thread EXCEPT ![t] = Out]
  /\ proc' = [proc EXCEPT ![Process[t]].writing = FALSE]
  /\ fate' = [fate EXCEPT ![thread[t].event] = Remains(t)]
  /\ UNCHANGED <<exists, log, kind, spawned>>

-----------------------------------------------------------------------------
(* The target.                                                             *)

StartThread(t) ==
  /\ At(t, "none") /\ P(t).alive
  /\ \E s \in ThreadsOf(Process[t]) : At(s, "out")
  /\ thread' = [thread EXCEPT ![t] = Out]
  /\ UNCHANGED <<exists, log, proc, kind, fate, spawned>>

\* Thread t forks: the child has a copy of the closure, its flag, its count and
\* its descriptor, and t's copy u as its only thread.
Fork(t, u) ==
  /\ At(t, "out") /\ At(u, "none") /\ ~P(u).alive
  /\ proc' = [proc EXCEPT ![Process[u]] = [P(t) EXCEPT !.inherited = @ \/ P(t).writing]]
  /\ thread' = [thread EXCEPT ![u] = Out]
  /\ UNCHANGED <<exists, log, kind, fate, spawned>>

\* Thread t starts another interpreter by a call that is not audited, as the
\* spawn method of multiprocessing does: its site module installs the hook anew.
Spawn(t, u) ==
  /\ At(t, "out") /\ At(u, "none") /\ ~P(u).alive
  /\ proc' = [proc EXCEPT ![Process[u]].alive = TRUE]
  /\ thread' = [thread EXCEPT ![u].pc = "site"]
  /\ spawned' = TRUE
  /\ UNCHANGED <<exists, log, kind, fate>>

Next ==
  \/ \E t \in Threads :
       \/ Install(t) \/ Call(t) \/ Record(t) \/ Write(t) \/ WriteFails(t)
       \/ StartThread(t)
  \/ \E t, u \in Threads : Fork(t, u) \/ Spawn(t, u)

Spec == Init /\ [][Next]_vars

-----------------------------------------------------------------------------
(* The loader.                                                             *)

\* The lines of the file: the last one may lack its newline.
Ends == {i \in DOMAIN log : log[i][2] = Parts \/ i = Len(log)}
Line(i) ==
  LET before == {j \in Ends : j < i} IN
  SubSeq(log, IF before = {} THEN 1 ELSE 1 + CHOOSE j \in before : \A k \in before : k <= j, i)
\* A line parses if it holds one record and nothing else.
Parses(line) == \E e \in 1 .. MaxCalls : line = <<<<e, 1>>, <<e, 2>>>> \/ line = <<<<e, 1>>, <<e, 2>>, <<e, 3>>>>
Read == {i \in Ends : Cardinality({j \in Ends : j < i}) < MaxEvents}
Loaded == {log[i][1] : i \in {j \in Read : Parses(Line(j))}}
\* Mutant: lines that do not parse are passed over.
ValidatesNothing == FALSE
Invalid == \E i \in Read : ~Parses(Line(i))
\* The observer's events, all of which say that the log is not complete.
Diagnostics ==
  IF ~exists THEN {"absent"}
  ELSE IF Len(log) > MaxBytes THEN {"unbounded"}
  ELSE (IF Read # Ends THEN {"truncate"} ELSE {})
       \cup (IF Invalid THEN {"validate"} ELSE {})
       \cup (IF \E e \in Loaded : kind[e] = "hook" THEN {} ELSE {"handshake"})
Reported == IF exists /\ Len(log) <= MaxBytes THEN Loaded ELSE {}

-----------------------------------------------------------------------------
(* Properties.                                                             *)

\* An event that is over is in the result, or the result says that events are
\* missing: through torn lines, failed starts, kills and forks.  The losses that
\* nothing tells of are those of an event beside another one's write, of a write
\* that took nothing, and those that a second interpreter makes: what it wipes
\* when it starts, the marker included, and all of its own if it has no log.
\* (record, _load_python_audit_events)
LossesAreTold ==
  \A e \in DOMAIN fate :
    \/ e \in Reported \/ Diagnostics # {}
    \/ \E m \in Reported : kind[m] = "limit"
    \/ fate[e] \in {"open", "unchecked", "skipped", "failed", "wiped"}
    \/ spawned /\ fate[e] = "mute"
    \/ fate[e] = "over" /\ \E m \in DOMAIN kind : kind[m] = "limit" /\ fate[m] = "wiped"

\* The hook looks away only while a thread of the same process writes a record,
\* or for good in a child that was forked in such a moment: no failed write, and
\* no full log, makes it let a forbidden call pass.  (audit, record's finally)
LooksAwayBesideAWrite ==
  \A p \in Processes :
    proc[p].writing =>
      proc[p].inherited \/ \E t \in ThreadsOf(p) : At(t, "writing")

\* A process that neither forks nor starts interpreters leaves the loader nothing
\* to cut off, and the last of its records, if it filled the log, is the marker.
\* (record's limit, the loader's max_events)
MarkerHasTheLastPlace ==
  (\A p \in Processes : proc[p].alive => p = Process[Initial]) =>
    /\ "truncate" \notin Diagnostics
    /\ P(Initial).count = MaxEvents => kind[log[Len(log)][1]] = "limit"
=============================================================================
