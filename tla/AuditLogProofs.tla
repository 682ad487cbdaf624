---------------------------- MODULE AuditLogProofs ----------------------------
(***************************************************************************)
(* Proofs about AuditLog: in any number of threads and processes, with any *)
(* limits, the hook is blind only beside a write of its own process, a     *)
(* process writes one record at a time and no more than its limit, and the *)
(* record that fills the log of a process that is alone is the marker.     *)
(***************************************************************************)
EXTENDS AuditLog, InductionProofs, FiniteSetTheorems, SequenceTheorems, TLAPS

\* A thread that decides or writes has an event of its own.
EventInv == \A t \in Threads : thread[t].pc \in {"deciding", "writing"} => thread[t].event # 0

\* A process writes one record at a time, under its flag and below its limit;
\* a process that does not live has no thread.
WriterInv ==
  \A t \in Threads :
    /\ At(t, "writing") =>
         /\ P(t).writing /\ P(t).count < MaxEvents
         /\ \A u \in ThreadsOf(Process[t]) : At(u, "writing") => u = t
    /\ ~P(t).alive => At(t, "none")

HookInv == TypeOK /\ EventInv /\ WriterInv /\ LooksAwayBesideAWrite

\* A thread belongs to its process.
LEMMA ProcessOf ==
  /\ \A t \in Threads : Process[t] \in Processes
  /\ \A t \in Threads : t \in ThreadsOf(Process[t])
  /\ \A p \in Processes : \A t \in ThreadsOf(p) : t \in Threads /\ Process[t] = p
  BY ThreadsAssumption DEF Processes, ThreadsOf

LEMMA HookInit == Init => HookInv
<1> SUFFICES ASSUME Init PROVE HookInv
  OBVIOUS
<1>1. TypeOK
  <2>1. proc \in [Processes -> ProcType]
    <3>1. 0 \in 0 .. MaxEvents
      BY LimitsAssumption
    <3>2. \A b \in BOOLEAN : [NoProcess EXCEPT !.alive = b] \in ProcType
      BY <3>1 DEF NoProcess, ProcType
    <3>3. QED
      BY <3>2 DEF Init
  <2>2. thread \in [Threads -> ThreadType]
    BY ThreadsAssumption, LimitsAssumption DEF Init, ThreadType, Parts
  <2>3. log = <<>> /\ kind = <<>> /\ fate = <<>> /\ exists \in BOOLEAN /\ spawned \in BOOLEAN
    BY DEF Init
  <2>4. Len(kind) = 0 /\ Len(fate) = 0
    BY <2>3
  <2>5. QED
    BY <2>1, <2>2, <2>3, <2>4, EmptySeq, LimitsAssumption DEF TypeOK
<1>2. \A t \in Threads : P(t).writing = FALSE /\ P(t).alive = (Process[t] = Process[Initial])
  BY ProcessOf DEF Init, P, NoProcess
<1>3. \A t \in Threads : ~At(t, "writing") /\ (t # Initial => At(t, "none"))
  BY DEF Init, At
<1>4. \A p \in Processes : proc[p].writing = FALSE
  BY DEF Init, NoProcess
<1>5. WriterInv
  BY <1>2, <1>3 DEF WriterInv
<1>6. EventInv
  BY DEF Init, EventInv
<1>7. QED
  BY <1>1, <1>4, <1>5, <1>6 DEF HookInv, LooksAwayBesideAWrite

-----------------------------------------------------------------------------
(* The types *)

\* Changing an element of a sequence keeps its length and its type.
LEMMA ChangedSeq ==
  ASSUME NEW S, NEW s \in Seq(S), NEW i, NEW x \in S
  PROVE  [s EXCEPT ![i] = x] \in Seq(S) /\ Len([s EXCEPT ![i] = x]) = Len(s)
<1>1. s \in [1 .. Len(s) -> S] /\ Len(s) \in Nat
  OBVIOUS
<1>2. [s EXCEPT ![i] = x] \in [1 .. Len(s) -> S]
  BY <1>1
<1>3. QED
  BY <1>1, <1>2

\* So does changing some of them, as a wiped log does to what was written.
LEMMA MappedFates ==
  ASSUME NEW s \in Seq(Fates), NEW b \in BOOLEAN
  PROVE  LET f == [e \in DOMAIN s |->
                     IF b /\ s[e] \in {"written", "torn"} THEN "wiped" ELSE s[e]]
         IN f \in Seq(Fates) /\ Len(f) = Len(s)
<1> DEFINE f == [e \in DOMAIN s |->
                   IF b /\ s[e] \in {"written", "torn"} THEN "wiped" ELSE s[e]]
<1>1. DOMAIN s = 1 .. Len(s) /\ Len(s) \in Nat /\ \A e \in 1 .. Len(s) : s[e] \in Fates
  OBVIOUS
<1>2. f \in [1 .. Len(s) -> Fates]
  BY <1>1 DEF Fates
<1>3. QED
  BY <1>1, <1>2

\* A thread's state that an action assigns is one.
LEMMA ThreadStates ==
  /\ Out \in ThreadType
  /\ \A e \in 1 .. MaxCalls : Deciding(e) \in ThreadType
  /\ \A r \in ThreadType :
       /\ [r EXCEPT !.pc = "writing"] \in ThreadType
       /\ [r EXCEPT !.pc = "site"] \in ThreadType
       /\ \A n \in 0 .. Parts : [r EXCEPT !.sent = n] \in ThreadType
  BY LimitsAssumption DEF Out, Deciding, ThreadType, Parts

LEMMA ProcStates ==
  \A r \in ProcType :
    /\ \A b \in BOOLEAN : /\ [r EXCEPT !.fd = b] \in ProcType
                         /\ [r EXCEPT !.writing = b] \in ProcType
                         /\ [r EXCEPT !.inherited = @ \/ b] \in ProcType
    /\ [r EXCEPT !.alive = TRUE] \in ProcType
    /\ r.count < MaxEvents => [r EXCEPT !.writing = FALSE, !.count = @ + 1] \in ProcType
    /\ r.alive \in BOOLEAN /\ r.writing \in BOOLEAN /\ r.count \in Nat
<1> SUFFICES ASSUME NEW r \in ProcType
             PROVE  /\ \A b \in BOOLEAN : /\ [r EXCEPT !.fd = b] \in ProcType
                                         /\ [r EXCEPT !.writing = b] \in ProcType
                                         /\ [r EXCEPT !.inherited = @ \/ b] \in ProcType
                    /\ [r EXCEPT !.alive = TRUE] \in ProcType
                    /\ r.count < MaxEvents =>
                         [r EXCEPT !.writing = FALSE, !.count = @ + 1] \in ProcType
                    /\ r.alive \in BOOLEAN /\ r.writing \in BOOLEAN /\ r.count \in Nat
  OBVIOUS
<1>1. \A b \in BOOLEAN : /\ [r EXCEPT !.fd = b] \in ProcType
                       /\ [r EXCEPT !.writing = b] \in ProcType
                       /\ [r EXCEPT !.inherited = @ \/ b] \in ProcType
  BY DEF ProcType
<1>2. [r EXCEPT !.alive = TRUE] \in ProcType /\ r.alive \in BOOLEAN /\ r.writing \in BOOLEAN
  BY DEF ProcType
<1>3. r.count \in 0 .. MaxEvents
  BY DEF ProcType
<1>4. r.count \in Nat /\ (r.count < MaxEvents => r.count + 1 \in 0 .. MaxEvents)
  BY <1>3, LimitsAssumption
<1>5. r.count + 1 \in 0 .. MaxEvents =>
        [r EXCEPT !.writing = FALSE, !.count = @ + 1] \in ProcType
  BY DEF ProcType
<1>6. QED
  BY <1>1, <1>2, <1>4, <1>5

\* What of the types the steps below need.
LEMMA TypeFacts ==
  ASSUME HookInv
  PROVE  /\ proc \in [Processes -> ProcType] /\ thread \in [Threads -> ThreadType]
         /\ \A t \in Threads : thread[t] \in ThreadType /\ P(t) \in ProcType
         /\ kind \in Seq(Kinds) /\ fate \in Seq(Fates)
         /\ Len(kind) \in Nat /\ Len(fate) = Len(kind) /\ Len(kind) <= MaxCalls
         /\ MaxCalls \in Nat /\ MaxEvents \in Nat
         /\ \A t \in Threads : thread[t].event \in 0 .. MaxCalls /\ thread[t].sent \in 0 .. Parts
<1>1. TypeOK
  BY DEF HookInv
<1>2. kind \in Seq(Kinds) /\ Len(kind) \in Nat
  BY <1>1 DEF TypeOK
<1>3. QED
  BY <1>1, <1>2, ProcessOf, LimitsAssumption DEF TypeOK, P, ThreadType

LEMMA TypeStep ==
  ASSUME HookInv, [Next]_vars
  PROVE  TypeOK'
<1>0. TypeOK
  BY DEF HookInv
<1>1. ASSUME NEW t \in Threads, Install(t) PROVE TypeOK'
  <2>1. PICK opened \in BOOLEAN, ready \in BOOLEAN :
          /\ exists' = (exists \/ opened)
          /\ log' = IF opened THEN <<>> ELSE log
          /\ proc' = [proc EXCEPT ![Process[t]].fd = ready]
          /\ fate' = Append([e \in DOMAIN fate |->
                               IF opened /\ fate[e] \in {"written", "torn"}
                               THEN "wiped" ELSE fate[e]], "open")
    BY <1>1 DEF Install
  <2>2. /\ kind' = Append(kind, "hook") /\ Len(kind) < MaxCalls
        /\ thread' = [thread EXCEPT ![t] = Deciding(Len(kind) + 1)] /\ UNCHANGED spawned
    BY <1>1 DEF Install
  <2>3. fate' \in Seq(Fates) /\ Len(fate') = Len(fate) + 1
    <3> DEFINE f == [e \in DOMAIN fate |-> IF opened /\ fate[e] \in {"written", "torn"}
                                           THEN "wiped" ELSE fate[e]]
    <3>1. f \in Seq(Fates) /\ Len(f) = Len(fate)
      BY TypeFacts, MappedFates
    <3>2. fate' = Append(f, "open") /\ "open" \in Fates
      BY <2>1 DEF Fates
    <3> HIDE DEF f
    <3>3. QED
      BY <3>1, <3>2
  <2>4. kind' \in Seq(Kinds) /\ Len(kind') = Len(kind) + 1
    BY <2>2, TypeFacts DEF Kinds
  <2>5. proc' \in [Processes -> ProcType]
    BY <2>1, TypeFacts, ProcStates, ProcessOf DEF P
  <2>6. thread' \in [Threads -> ThreadType]
    <3>1. Len(kind) + 1 \in 1 .. MaxCalls
      BY <2>2, TypeFacts
    <3>2. QED
      BY <2>2, <3>1, TypeFacts, ThreadStates
  <2>7. log' \in Seq((1 .. MaxCalls) \X (1 .. Parts)) /\ exists' \in BOOLEAN
    BY <1>0, <2>1, EmptySeq DEF TypeOK
  <2>8. spawned' \in BOOLEAN
    BY <1>0, <2>2 DEF TypeOK
  <2>9. Len(kind') = Len(fate') /\ Len(kind') <= MaxCalls
    BY <2>2, <2>3, <2>4, TypeFacts
  <2>10. QED
    BY <2>3, <2>4, <2>5, <2>6, <2>7, <2>8, <2>9 DEF TypeOK
<1>2. ASSUME NEW t \in Threads, Call(t) PROVE TypeOK'
  <2>1. /\ kind' = Append(kind, "call") /\ Len(kind) < MaxCalls
        /\ fate' = Append(fate, "unchecked") \/ fate' = Append(fate, "open")
        /\ UNCHANGED thread \/ thread' = [thread EXCEPT ![t] = Deciding(Len(kind) + 1)]
        /\ UNCHANGED <<exists, log, proc, spawned>>
    BY <1>2 DEF Call
  <2>2. kind' \in Seq(Kinds) /\ Len(kind') = Len(kind) + 1
    BY <2>1, TypeFacts DEF Kinds
  <2>3. fate' \in Seq(Fates) /\ Len(fate') = Len(fate) + 1
    <3>1. PICK f \in Fates : fate' = Append(fate, f)
      BY <2>1 DEF Fates
    <3>2. QED
      BY <3>1, TypeFacts
  <2>4. thread' \in [Threads -> ThreadType]
    <3>1. Len(kind) + 1 \in 1 .. MaxCalls
      BY <2>1, TypeFacts
    <3>2. QED
      BY <2>1, <3>1, TypeFacts, ThreadStates
  <2>5. Len(kind') = Len(fate') /\ Len(kind') <= MaxCalls
    BY <2>1, <2>2, <2>3, TypeFacts
  <2>6. QED
    BY <1>0, <2>1, <2>2, <2>3, <2>4, <2>5 DEF TypeOK
<1>3. ASSUME NEW t \in Threads, Record(t) PROVE TypeOK'
  <2> DEFINE e == thread[t].event
  <2>1. PICK f \in Fates : fate' = [fate EXCEPT ![e] = f]
    <3> DEFINE f == IF P(t).writing THEN "skipped"
                    ELSE IF Full(P(t).count) THEN "over"
                    ELSE IF ~P(t).fd THEN "mute" ELSE "open"
    <3>1. f \in Fates
      BY DEF Fates
    <3>2. fate' = [fate EXCEPT ![e] = f]
      BY <1>3 DEF Record
    <3>3. QED
      BY <3>1, <3>2
  <2>2. fate' \in Seq(Fates) /\ Len(fate') = Len(fate)
    BY <2>1, TypeFacts, ChangedSeq
  <2>3. thread' = [thread EXCEPT ![t] = Out] \/ thread' = [thread EXCEPT ![t].pc = "writing"]
    BY <1>3 DEF Record
  <2>4. thread' \in [Threads -> ThreadType]
    BY <2>3, TypeFacts, ThreadStates
  <2>5. UNCHANGED proc \/ proc' = [proc EXCEPT ![Process[t]].writing = TRUE]
    BY <1>3 DEF Record
  <2>6. proc' \in [Processes -> ProcType]
    <3>1. [P(t) EXCEPT !.writing = TRUE] \in ProcType
      BY TypeFacts, ProcStates
    <3>2. QED
      BY <2>5, <3>1, TypeFacts, ProcessOf DEF P
  <2>7. kind' = kind \/ kind' = [kind EXCEPT ![e] = "limit"] \/ kind' = [kind EXCEPT ![e] = kind[e]]
    BY <1>3 DEF Record
  <2>8. kind' \in Seq(Kinds) /\ Len(kind') = Len(kind)
    <3>1. CASE kind' = [kind EXCEPT ![e] = "limit"]
      BY <3>1, TypeFacts, ChangedSeq DEF Kinds
    <3>2. CASE kind' = kind \/ kind' = [kind EXCEPT ![e] = kind[e]]
      <4>1. kind \in [1 .. Len(kind) -> Kinds]
        BY TypeFacts
      <4>2. [kind EXCEPT ![e] = kind[e]] = kind
        BY <4>1
      <4>3. QED
        BY <3>2, <4>2, TypeFacts
    <3>3. QED
      BY <2>7, <3>1, <3>2
  <2>9. UNCHANGED <<exists, log, spawned>>
    BY <1>3 DEF Record
  <2>10. QED
    BY <1>0, <2>2, <2>4, <2>6, <2>8, <2>9, TypeFacts DEF TypeOK
<1>4. ASSUME NEW t \in Threads, Write(t) PROVE TypeOK'
  <2> DEFINE e == thread[t].event
             sent == thread[t].sent
  <2>1. PICK n \in 1 .. Parts - sent :
          /\ log' = log \o [i \in 1 .. n |-> <<e, sent + i>>]
          /\ IF sent + n < Parts
             THEN thread' = [thread EXCEPT ![t].sent = sent + n] /\ UNCHANGED <<proc, fate>>
             ELSE /\ thread' = [thread EXCEPT ![t] = Out]
                  /\ proc' = [proc EXCEPT ![Process[t]].writing = FALSE,
                                          ![Process[t]].count = @ + 1]
                  /\ fate' = [fate EXCEPT ![e] = "written"]
    BY <1>4 DEF Write
  <2>2. At(t, "writing") /\ UNCHANGED <<exists, kind, spawned>>
    BY <1>4 DEF Write
  <2>a. /\ \/ UNCHANGED proc
           \/ proc' = [proc EXCEPT ![Process[t]] = [P(t) EXCEPT !.writing = FALSE, !.count = @ + 1]]
        /\ UNCHANGED fate \/ fate' = [fate EXCEPT ![e] = "written"]
        /\ \/ thread' = [thread EXCEPT ![t].sent = sent + n]
           \/ thread' = [thread EXCEPT ![t] = Out]
    BY <2>1, TypeFacts, ProcessOf DEF P
  <2>3. e # 0 /\ P(t).count < MaxEvents
    BY <2>2 DEF HookInv, EventInv, WriterInv, At
  <2>4. e \in 1 .. MaxCalls /\ sent \in 0 .. 3 /\ n \in 1 .. 3 - sent
    BY <2>1, <2>3, TypeFacts DEF Parts
  <2>5. log' \in Seq((1 .. MaxCalls) \X (1 .. Parts))
    <3> DEFINE more == [i \in 1 .. n |-> <<e, sent + i>>]
               Units == (1 .. MaxCalls) \X (1 .. Parts)
    <3>1. \A i \in 1 .. n : sent + i \in 1 .. Parts
      BY <2>4 DEF Parts
    <3>2. \A i \in 1 .. n : more[i] \in Units
      BY <2>4, <3>1
    <3>3. n \in Nat
      BY <2>4
    <3>4. log \in Seq(Units) /\ log' = log \o more
      BY <1>0, <2>1 DEF TypeOK
    <3>5. more \in [1 .. n -> Units]
      BY <3>2
    <3> HIDE DEF more, Units
    <3>6. more \in Seq(Units)
      BY <3>3, <3>5
    <3>7. log' \in Seq(Units)
      BY <3>4, <3>6
    <3>8. QED
      BY <3>7 DEF Units
  <2>6. proc' \in [Processes -> ProcType]
    <3>1. [P(t) EXCEPT !.writing = FALSE, !.count = @ + 1] \in ProcType
      BY <2>3, TypeFacts, ProcStates
    <3>2. QED
      BY <2>a, <3>1, TypeFacts
  <2>7. fate' \in Seq(Fates) /\ Len(fate') = Len(fate)
    <3>1. "written" \in Fates
      BY DEF Fates
    <3>2. QED
      BY <2>a, <3>1, TypeFacts, ChangedSeq
  <2>8. thread' \in [Threads -> ThreadType]
    <3>1. sent + n \in 0 .. Parts
      BY <2>4 DEF Parts
    <3>2. [thread[t] EXCEPT !.sent = sent + n] \in ThreadType /\ Out \in ThreadType
      BY <3>1, TypeFacts, ThreadStates
    <3> HIDE DEF sent
    <3>3. QED
      BY <2>a, <3>2, TypeFacts
  <2>9. QED
    BY <1>0, <2>2, <2>5, <2>6, <2>7, <2>8, TypeFacts DEF TypeOK
<1>5. ASSUME NEW t \in Threads, WriteFails(t) PROVE TypeOK'
  <2>1. /\ thread' = [thread EXCEPT ![t] = Out]
        /\ proc' = [proc EXCEPT ![Process[t]].writing = FALSE]
        /\ fate' = [fate EXCEPT ![thread[t].event] = Remains(t)]
        /\ UNCHANGED <<exists, log, kind, spawned>>
    BY <1>5 DEF WriteFails
  <2>2. Remains(t) \in Fates
    BY DEF Remains, Fates
  <2>3. fate' \in Seq(Fates) /\ Len(fate') = Len(fate)
    BY <2>1, <2>2, TypeFacts, ChangedSeq
  <2>4. proc' \in [Processes -> ProcType]
    BY <2>1, TypeFacts, ProcStates, ProcessOf DEF P
  <2>5. thread' \in [Threads -> ThreadType]
    BY <2>1, TypeFacts, ThreadStates
  <2>6. QED
    BY <1>0, <2>1, <2>3, <2>4, <2>5, TypeFacts DEF TypeOK
<1>6. ASSUME NEW t \in Threads, StartThread(t) PROVE TypeOK'
  <2>1. thread' = [thread EXCEPT ![t] = Out] /\ UNCHANGED <<exists, log, proc, kind, fate, spawned>>
    BY <1>6 DEF StartThread
  <2>2. thread' \in [Threads -> ThreadType]
    BY <2>1, TypeFacts, ThreadStates
  <2>3. QED
    BY <1>0, <2>1, <2>2 DEF TypeOK
<1>7. ASSUME NEW t \in Threads, NEW u \in Threads, Fork(t, u) PROVE TypeOK'
  <2>1. /\ proc' = [proc EXCEPT ![Process[u]] = [P(t) EXCEPT !.inherited = @ \/ P(t).writing]]
        /\ thread' = [thread EXCEPT ![u] = Out] /\ UNCHANGED <<exists, log, kind, fate, spawned>>
    BY <1>7 DEF Fork
  <2>2. thread' \in [Threads -> ThreadType]
    BY <2>1, TypeFacts, ThreadStates
  <2>3. proc' \in [Processes -> ProcType]
    BY <2>1, TypeFacts, ProcStates
  <2>4. QED
    BY <1>0, <2>1, <2>2, <2>3 DEF TypeOK
<1>8. ASSUME NEW t \in Threads, NEW u \in Threads, Spawn(t, u) PROVE TypeOK'
  <2>1. /\ proc' = [proc EXCEPT ![Process[u]].alive = TRUE]
        /\ thread' = [thread EXCEPT ![u].pc = "site"] /\ UNCHANGED <<exists, log, kind, fate>>
        /\ spawned' = TRUE
    BY <1>8 DEF Spawn
  <2>2. thread' \in [Threads -> ThreadType]
    BY <2>1, TypeFacts, ThreadStates
  <2>3. proc' \in [Processes -> ProcType]
    BY <2>1, TypeFacts, ProcStates, ProcessOf DEF P
  <2>4. QED
    BY <1>0, <2>1, <2>2, <2>3 DEF TypeOK
<1>9. ASSUME UNCHANGED vars PROVE TypeOK'
  BY <1>0, <1>9 DEF vars, TypeOK
<1>10. QED
  BY <1>1, <1>2, <1>3, <1>4, <1>5, <1>6, <1>7, <1>8, <1>9 DEF Next

-----------------------------------------------------------------------------
(* The flag *)

\* A step that leaves the flags and counts, and who writes, as they are.
LEMMA FlagsKept ==
  ASSUME HookInv,
         \A p \in Processes : /\ proc'[p].writing = proc[p].writing
                              /\ proc'[p].count = proc[p].count
                              /\ proc'[p].inherited = proc[p].inherited,
         \A u \in Threads : /\ At(u, "writing")' <=> At(u, "writing")
                            /\ ~P(u).alive' => At(u, "none")'
  PROVE  WriterInv' /\ LooksAwayBesideAWrite'
<1>1. \A t \in Threads : At(t, "writing") =>
         /\ proc[Process[t]].writing /\ proc[Process[t]].count < MaxEvents
         /\ \A u \in ThreadsOf(Process[t]) : At(u, "writing") => u = t
  BY DEF HookInv, WriterInv, P
<1>2. WriterInv'
  <2> SUFFICES ASSUME NEW t \in Threads
               PROVE  /\ At(t, "writing")' =>
                           /\ P(t)'.writing /\ P(t)'.count < MaxEvents
                           /\ \A u \in ThreadsOf(Process[t]) : At(u, "writing")' => u = t
                      /\ ~P(t)'.alive => At(t, "none")'
    BY DEF WriterInv
  <2>1. CASE At(t, "writing")'
    BY <1>1, <2>1, ProcessOf DEF P
  <2>2. QED
    BY <2>1
<1>3. LooksAwayBesideAWrite'
  BY ProcessOf DEF HookInv, LooksAwayBesideAWrite
<1>4. QED
  BY <1>2, <1>3

LEMMA WriterStep ==
  ASSUME HookInv, [Next]_vars
  PROVE  EventInv' /\ WriterInv' /\ LooksAwayBesideAWrite'
<1>0. /\ EventInv /\ WriterInv /\ LooksAwayBesideAWrite
      /\ proc \in [Processes -> ProcType] /\ thread \in [Threads -> ThreadType]
      /\ \A t \in Threads : thread[t] \in ThreadType /\ P(t) \in ProcType
      /\ \A r \in ProcType : r.alive \in BOOLEAN /\ r.writing \in BOOLEAN /\ r.count \in Nat
      /\ Len(kind) + 1 # 0 /\ MaxEvents \in Nat
  <2>1. EventInv /\ WriterInv /\ LooksAwayBesideAWrite
    BY DEF HookInv
  <2>2. Len(kind) + 1 # 0
    BY TypeFacts
  <2>3. QED
    BY <2>1, <2>2, TypeFacts, ProcStates
<1>a. \A t \in Threads : ~P(t).alive => At(t, "none")
  BY <1>0 DEF WriterInv
<1>1. ASSUME NEW t \in Threads, Install(t)
      PROVE  EventInv' /\ WriterInv' /\ LooksAwayBesideAWrite'
  <2>1. PICK ready \in BOOLEAN : proc' = [proc EXCEPT ![Process[t]].fd = ready]
    BY <1>1 DEF Install
  <2>2. thread' = [thread EXCEPT ![t] = Deciding(Len(kind) + 1)] /\ At(t, "site")
    BY <1>1 DEF Install
  <2>3. EventInv'
    BY <1>0, <2>2 DEF EventInv, Deciding
  <2>4. \A p \in Processes : /\ proc'[p].writing = proc[p].writing
                             /\ proc'[p].count = proc[p].count
                             /\ proc'[p].alive = proc[p].alive
                             /\ proc'[p].inherited = proc[p].inherited
    BY <2>1
  <2>5. \A u \in Threads : /\ At(u, "writing")' <=> At(u, "writing")
                           /\ At(u, "none")' <=> At(u, "none")
    BY <2>2 DEF Deciding, At
  <2>6. \A u \in Threads : ~P(u).alive' => At(u, "none")'
    BY <1>a, <2>4, <2>5, ProcessOf DEF P
  <2>7. QED
    BY <2>3, <2>4, <2>5, <2>6, FlagsKept
<1>2. ASSUME NEW t \in Threads, Call(t)
      PROVE  EventInv' /\ WriterInv' /\ LooksAwayBesideAWrite'
  <2>1. UNCHANGED proc /\ At(t, "out") /\ (UNCHANGED thread \/ thread' = [thread EXCEPT ![t] = Deciding(Len(kind) + 1)])
    BY <1>2 DEF Call
  <2>2. EventInv'
    BY <1>0, <2>1 DEF EventInv, Deciding
  <2>3. \A u \in Threads : /\ At(u, "writing")' <=> At(u, "writing")
                           /\ At(u, "none")' <=> At(u, "none")
    BY <1>0, <2>1 DEF Deciding, At
  <2>4. \A u \in Threads : ~P(u).alive' => At(u, "none")'
    BY <1>a, <2>1, <2>3 DEF P
  <2>5. QED
    BY <2>1, <2>2, <2>3, <2>4, FlagsKept
<1>3. ASSUME NEW t \in Threads, Record(t)
      PROVE  EventInv' /\ WriterInv' /\ LooksAwayBesideAWrite'
  <2>1. At(t, "deciding")
    BY <1>3 DEF Record
  <2>2. CASE thread' = [thread EXCEPT ![t] = Out] /\ UNCHANGED proc
    <3>1. EventInv'
      BY <1>0, <2>2 DEF EventInv, Out
    <3>2. \A u \in Threads : /\ At(u, "writing")' <=> At(u, "writing")
                             /\ At(u, "none")' <=> At(u, "none")
      BY <2>1, <2>2 DEF Out, At
    <3>3. \A u \in Threads : ~P(u).alive' => At(u, "none")'
      BY <1>a, <2>2, <3>2 DEF P
    <3>4. QED
      BY <2>2, <3>1, <3>2, <3>3, FlagsKept
  <2>3. CASE /\ ~P(t).writing /\ ~Full(P(t).count)
             /\ thread' = [thread EXCEPT ![t].pc = "writing"]
             /\ proc' = [proc EXCEPT ![Process[t]].writing = TRUE]
    <3>1. EventInv'
      BY <1>0, <2>1, <2>3 DEF EventInv, At
    <3>2. \A u \in Threads : At(u, "writing")' <=> At(u, "writing") \/ u = t
      BY <1>0, <2>3 DEF At
    <3>3. \A u \in Threads : At(u, "none")' <=> At(u, "none")
      BY <2>1, <2>3 DEF At
    <3>4. \A p \in Processes : /\ proc'[p].writing = (proc[p].writing \/ p = Process[t])
                               /\ proc'[p].count = proc[p].count
                               /\ proc'[p].alive = proc[p].alive
                               /\ proc'[p].inherited = proc[p].inherited
      BY <1>0, <2>3 DEF ProcType
    <3>5. P(t).count < MaxEvents
      BY <1>0, <2>3 DEF Full, ProcType
    <3>6. \A u \in ThreadsOf(Process[t]) : ~At(u, "writing")
      BY <1>0, <2>3, ProcessOf DEF WriterInv, P
    <3>7. WriterInv'
      <4> SUFFICES ASSUME NEW v \in Threads
                   PROVE  /\ At(v, "writing")' =>
                               /\ P(v)'.writing /\ P(v)'.count < MaxEvents
                               /\ \A u \in ThreadsOf(Process[v]) : At(u, "writing")' => u = v
                          /\ ~P(v)'.alive => At(v, "none")'
        BY DEF WriterInv
      <4>1. ~P(v)'.alive => At(v, "none")'
        BY <1>a, <3>3, <3>4, ProcessOf DEF P
      <4>2. CASE v = t
        BY <3>2, <3>4, <3>5, <3>6, <4>1, <4>2, ProcessOf DEF P
      <4>3. CASE v # t /\ At(v, "writing")
        <5>1. Process[v] # Process[t]
          BY <3>6, <4>3, ProcessOf
        <5>2. P(v).writing /\ P(v).count < MaxEvents /\ \A u \in ThreadsOf(Process[v]) : At(u, "writing") => u = v
          BY <1>0, <4>3 DEF WriterInv
        <5>3. \A u \in ThreadsOf(Process[v]) : u \in Threads /\ u # t
          BY <5>1, ProcessOf
        <5>4. QED
          BY <3>2, <3>4, <4>1, <5>2, <5>3, ProcessOf DEF P
      <4>4. QED
        BY <3>2, <4>1, <4>2, <4>3
    <3>8. LooksAwayBesideAWrite'
      BY <1>0, <3>2, <3>4, ProcessOf DEF LooksAwayBesideAWrite
    <3>9. QED
      BY <3>1, <3>7, <3>8
  <2>4. \/ thread' = [thread EXCEPT ![t] = Out] /\ UNCHANGED proc
        \/ /\ ~P(t).writing /\ ~Full(P(t).count)
           /\ thread' = [thread EXCEPT ![t].pc = "writing"]
           /\ proc' = [proc EXCEPT ![Process[t]].writing = TRUE]
    <3>1. CASE P(t).writing \/ Full(P(t).count) \/ ~P(t).fd
      BY <1>3, <3>1 DEF Record
    <3>2. CASE ~P(t).writing /\ ~Full(P(t).count) /\ P(t).fd
      BY <1>3, <3>2 DEF Record
    <3>3. QED
      BY <3>1, <3>2
  <2>5. QED
    BY <2>2, <2>3, <2>4
<1>4. ASSUME NEW t \in Threads, At(t, "writing"), thread' = [thread EXCEPT ![t] = Out],
             \A p \in Processes : /\ proc'[p].writing = (proc[p].writing /\ p # Process[t])
                                  /\ p # Process[t] => proc'[p].count = proc[p].count
                                  /\ proc'[p].alive = proc[p].alive
                                  /\ proc'[p].inherited = proc[p].inherited
      PROVE  EventInv' /\ WriterInv' /\ LooksAwayBesideAWrite'
  <2>1. EventInv'
    BY <1>0, <1>4 DEF EventInv, Out
  <2>2. \A u \in Threads : At(u, "writing")' <=> At(u, "writing") /\ u # t
    BY <1>0, <1>4 DEF At, Out
  <2>3. \A u \in Threads : At(u, "none")' <=> At(u, "none")
    BY <1>4 DEF At, Out
  <2>4. \A u \in ThreadsOf(Process[t]) : At(u, "writing") => u = t
    BY <1>0, <1>4, ProcessOf DEF WriterInv
  <2>5. WriterInv'
    <3> SUFFICES ASSUME NEW v \in Threads
                 PROVE  /\ At(v, "writing")' =>
                             /\ P(v)'.writing /\ P(v)'.count < MaxEvents
                             /\ \A u \in ThreadsOf(Process[v]) : At(u, "writing")' => u = v
                        /\ ~P(v)'.alive => At(v, "none")'
      BY DEF WriterInv
    <3>1. ~P(v)'.alive => At(v, "none")'
      BY <1>a, <1>4, <2>3, ProcessOf DEF P
    <3>2. CASE At(v, "writing") /\ v # t
      <4>1. Process[v] # Process[t]
        BY <2>4, <3>2, ProcessOf
      <4>2. P(v).writing /\ P(v).count < MaxEvents /\ \A u \in ThreadsOf(Process[v]) : At(u, "writing") => u = v
        BY <1>0, <3>2 DEF WriterInv
      <4>3. QED
        BY <1>4, <2>2, <3>1, <4>1, <4>2, ProcessOf DEF P
    <3>3. QED
      BY <2>2, <3>1, <3>2
  <2>6. LooksAwayBesideAWrite'
    <3> SUFFICES ASSUME NEW p \in Processes, proc'[p].writing
                 PROVE  proc'[p].inherited \/ \E u \in ThreadsOf(p) : At(u, "writing")'
      BY DEF LooksAwayBesideAWrite
    <3>1. proc[p].writing /\ p # Process[t]
      BY <1>4
    <3>2. proc[p].inherited \/ \E u \in ThreadsOf(p) : At(u, "writing")
      BY <1>0, <3>1 DEF LooksAwayBesideAWrite
    <3>3. \A u \in ThreadsOf(p) : u \in Threads /\ u # t
      BY <3>1, ProcessOf
    <3>4. QED
      BY <1>4, <2>2, <3>2, <3>3
  <2>7. QED
    BY <2>1, <2>5, <2>6
<1>5. ASSUME NEW t \in Threads, Write(t)
      PROVE  EventInv' /\ WriterInv' /\ LooksAwayBesideAWrite'
  <2>1. At(t, "writing")
    BY <1>5 DEF Write
  <2>2. CASE /\ thread' = [thread EXCEPT ![t] = Out]
             /\ proc' = [proc EXCEPT ![Process[t]].writing = FALSE, ![Process[t]].count = @ + 1]
    <3>1. \A p \in Processes : /\ proc'[p].writing = (proc[p].writing /\ p # Process[t])
                               /\ p # Process[t] => proc'[p].count = proc[p].count
                               /\ proc'[p].alive = proc[p].alive
                               /\ proc'[p].inherited = proc[p].inherited
      BY <1>0, <2>2 DEF ProcType
    <3>2. QED
      BY <1>4, <2>1, <2>2, <3>1
  <2>3. ASSUME NEW n, thread' = [thread EXCEPT ![t].sent = n], UNCHANGED proc
        PROVE  EventInv' /\ WriterInv' /\ LooksAwayBesideAWrite'
    <3>1. \A u \in Threads : thread'[u].pc = thread[u].pc /\ thread'[u].event = thread[u].event
      BY <2>3 DEF ThreadType
    <3>2. EventInv'
      BY <1>0, <3>1 DEF EventInv
    <3>3. \A u \in Threads : /\ At(u, "writing")' <=> At(u, "writing")
                             /\ At(u, "none")' <=> At(u, "none")
      BY <3>1 DEF At
    <3>4. \A u \in Threads : ~P(u).alive' => At(u, "none")'
      BY <1>a, <2>3, <3>3 DEF P
    <3>5. QED
      BY <2>3, <3>2, <3>3, <3>4, FlagsKept
  <2>4. QED
    BY <1>5, <2>2, <2>3 DEF Write
<1>6. ASSUME NEW t \in Threads, WriteFails(t)
      PROVE  EventInv' /\ WriterInv' /\ LooksAwayBesideAWrite'
  <2>1. /\ At(t, "writing") /\ thread' = [thread EXCEPT ![t] = Out]
        /\ proc' = [proc EXCEPT ![Process[t]].writing = FALSE]
    BY <1>6 DEF WriteFails
  <2>2. \A p \in Processes : /\ proc'[p].writing = (proc[p].writing /\ p # Process[t])
                             /\ p # Process[t] => proc'[p].count = proc[p].count
                             /\ proc'[p].alive = proc[p].alive
                             /\ proc'[p].inherited = proc[p].inherited
    BY <1>0, <2>1 DEF ProcType
  <2>3. QED
    BY <1>4, <2>1, <2>2
<1>7. ASSUME NEW t \in Threads, StartThread(t)
      PROVE  EventInv' /\ WriterInv' /\ LooksAwayBesideAWrite'
  <2>1. /\ At(t, "none") /\ P(t).alive
        /\ thread' = [thread EXCEPT ![t] = Out] /\ UNCHANGED proc
    BY <1>7 DEF StartThread
  <2>2. EventInv'
    BY <1>0, <2>1 DEF EventInv, Out
  <2>3. \A u \in Threads : /\ At(u, "writing")' <=> At(u, "writing")
                           /\ At(u, "none")' <=> At(u, "none") /\ u # t
    BY <1>0, <2>1 DEF At, Out
  <2>4. \A u \in Threads : ~P(u).alive' => At(u, "none")'
    BY <1>a, <2>1, <2>3 DEF P
  <2>5. QED
    BY <2>1, <2>2, <2>3, <2>4, FlagsKept
<1>8. ASSUME NEW t \in Threads, NEW u \in Threads, Fork(t, u)
      PROVE  EventInv' /\ WriterInv' /\ LooksAwayBesideAWrite'
  <2>1. /\ At(t, "out") /\ At(u, "none") /\ ~P(u).alive
        /\ proc' = [proc EXCEPT ![Process[u]] = [P(t) EXCEPT !.inherited = @ \/ P(t).writing]]
        /\ thread' = [thread EXCEPT ![u] = Out]
    BY <1>8 DEF Fork
  <2>2. P(t).alive
    BY <1>a, <2>1 DEF At
  <2>3. EventInv'
    BY <1>0, <2>1 DEF EventInv, Out
  <2>4. \A v \in Threads : /\ At(v, "writing")' <=> At(v, "writing")
                           /\ At(v, "none")' <=> At(v, "none") /\ v # u
    BY <1>0, <2>1 DEF At, Out
  <2>5. \A v \in ThreadsOf(Process[u]) : At(v, "none")
    BY <1>a, <2>1, ProcessOf DEF P
  <2>6. /\ proc'[Process[u]].alive /\ (proc'[Process[u]].writing => proc'[Process[u]].inherited)
        /\ \A p \in Processes \ {Process[u]} : proc'[p] = proc[p]
    BY <1>0, <2>1, <2>2, ProcessOf DEF ProcType
  <2>7. WriterInv'
    <3> SUFFICES ASSUME NEW v \in Threads
                 PROVE  /\ At(v, "writing")' =>
                             /\ P(v)'.writing /\ P(v)'.count < MaxEvents
                             /\ \A w \in ThreadsOf(Process[v]) : At(w, "writing")' => w = v
                        /\ ~P(v)'.alive => At(v, "none")'
      BY DEF WriterInv
    <3>1. CASE Process[v] = Process[u]
      <4>1. ~At(v, "writing")' /\ P(v)'.alive
        BY <2>4, <2>5, <2>6, <3>1, ProcessOf DEF At, P
      <4>2. QED
        BY <4>1
    <3>2. CASE Process[v] # Process[u]
      <4>1. proc'[Process[v]] = proc[Process[v]] /\ v # u
        BY <2>6, <3>2, ProcessOf
      <4>2. ~P(v)'.alive => At(v, "none")'
        BY <1>a, <2>4, <4>1 DEF P
      <4>3. At(v, "writing") => /\ P(v).writing /\ P(v).count < MaxEvents
                                /\ \A w \in ThreadsOf(Process[v]) : At(w, "writing") => w = v
        BY <1>0 DEF WriterInv
      <4>4. QED
        BY <2>4, <4>1, <4>2, <4>3, ProcessOf DEF P
    <3>3. QED
      BY <3>1, <3>2
  <2>8. LooksAwayBesideAWrite'
    <3> SUFFICES ASSUME NEW p \in Processes, proc'[p].writing
                 PROVE  proc'[p].inherited \/ \E w \in ThreadsOf(p) : At(w, "writing")'
      BY DEF LooksAwayBesideAWrite
    <3>1. CASE p = Process[u]
      BY <2>6, <3>1
    <3>2. CASE p # Process[u]
      <4>1. proc'[p] = proc[p]
        BY <2>6, <3>2
      <4>2. proc[p].inherited \/ \E w \in ThreadsOf(p) : At(w, "writing")
        BY <1>0, <4>1 DEF LooksAwayBesideAWrite
      <4>3. QED
        BY <2>4, <4>1, <4>2, ProcessOf
    <3>3. QED
      BY <3>1, <3>2
  <2>9. QED
    BY <2>3, <2>7, <2>8
<1>9. ASSUME NEW t \in Threads, NEW u \in Threads, Spawn(t, u)
      PROVE  EventInv' /\ WriterInv' /\ LooksAwayBesideAWrite'
  <2>1. /\ At(u, "none") /\ proc' = [proc EXCEPT ![Process[u]].alive = TRUE]
        /\ thread' = [thread EXCEPT ![u].pc = "site"]
    BY <1>9 DEF Spawn
  <2>2. EventInv'
    BY <1>0, <2>1 DEF EventInv, ThreadType
  <2>3. \A v \in Threads : /\ At(v, "writing")' <=> At(v, "writing")
                           /\ At(v, "none")' <=> At(v, "none") /\ v # u
    BY <1>0, <2>1 DEF At, ThreadType
  <2>4. \A p \in Processes : /\ proc'[p].writing = proc[p].writing
                             /\ proc'[p].count = proc[p].count
                             /\ proc'[p].alive = (proc[p].alive \/ p = Process[u])
                             /\ proc'[p].inherited = proc[p].inherited
    BY <1>0, <2>1 DEF ProcType
  <2>5. \A v \in Threads : ~P(v).alive' => At(v, "none")'
    BY <1>a, <2>3, <2>4, ProcessOf DEF P
  <2>6. QED
    BY <2>2, <2>3, <2>4, <2>5, FlagsKept
<1>10. ASSUME UNCHANGED vars
       PROVE  EventInv' /\ WriterInv' /\ LooksAwayBesideAWrite'
  BY <1>0, <1>10 DEF vars, EventInv, WriterInv, LooksAwayBesideAWrite, At, P
<1>11. QED
  BY <1>1, <1>2, <1>3, <1>5, <1>6, <1>7, <1>8, <1>9, <1>10 DEF Next

-----------------------------------------------------------------------------

\* The types, the writers and the flag hold in every behaviour.
LEMMA HookInvariance == Spec => []HookInv
<1>1. HookInv /\ [Next]_vars => HookInv'
  BY TypeStep, WriterStep DEF HookInv
<1>2. QED
  BY <1>1, HookInit, PTL DEF Spec

\* The variables have their types: no process counts more than MaxEvents
\* records, however its threads and its forks interleave.  (record's event_count)
THEOREM LogTypesCorrect == Spec => []TypeOK
<1>1. HookInv => TypeOK
  BY DEF HookInv
<1>2. QED
  BY <1>1, HookInvariance, PTL

\* The hook looks away only beside a write of the same process, or in a child
\* forked beside one.  (audit, record)
THEOREM BlindOnlyBesideAWrite == Spec => []LooksAwayBesideAWrite
<1>1. HookInv => LooksAwayBesideAWrite
  BY DEF HookInv
<1>2. QED
  BY <1>1, HookInvariance, PTL

-----------------------------------------------------------------------------
(* One process, its records and the marker *)

\* No process but the first one lives.
Alone == \A p \in Processes : proc[p].alive => p = Process[Initial]

\* The places where a record is complete.
Complete == {i \in DOMAIN log : log[i][2] = Parts}

\* Until the first thread has installed the hook, it is the only one and has no log.
SiteInv ==
  /\ \A t \in Threads : At(t, "site") => t = Initial
  /\ At(Initial, "site") =>
       log = <<>> /\ P(Initial).count = 0 /\ \A u \in Threads \ {Initial} : At(u, "none")
\* Whoever decides, writes or wrote is an event of the history.
EventsInv ==
  /\ \A t \in Threads : thread[t].pc \in {"deciding", "writing"} =>
       thread[t].event \in DOMAIN kind
  /\ \A i \in DOMAIN log : log[i][1] \in DOMAIN kind
\* What fills the log is the marker, before and after it is written.
LastInv ==
  /\ \A t \in Threads : At(t, "writing") /\ P(Initial).count = MaxEvents - 1 =>
       kind[thread[t].event] = "limit"
  /\ P(Initial).count = MaxEvents =>
       /\ log # <<>> /\ log[Len(log)][2] = Parts
       /\ kind[log[Len(log)][1]] = "limit"
\* The log has as many complete records as the process has counted.
RecordsInv == SiteInv /\ EventsInv /\ LastInv /\ Cardinality(Complete) = P(Initial).count

MarkerInv == P(Initial).alive /\ (Alone => RecordsInv)

LEMMA MarkerInit == Init => MarkerInv
<1> SUFFICES ASSUME Init PROVE MarkerInv
  OBVIOUS
<1>1. P(Initial).alive /\ P(Initial).count = 0 /\ MaxEvents # 0
  BY ProcessOf, ThreadsAssumption, LimitsAssumption DEF Init, P, NoProcess
<1>2. log = <<>> /\ DOMAIN log = {}
  BY DEF Init
<1>3. Cardinality(Complete) = 0
  BY <1>2, FS_EmptySet DEF Complete
<1>4. \A t \in Threads : ~At(t, "writing") /\ ~At(t, "deciding")
                         /\ (t # Initial => At(t, "none") /\ ~At(t, "site"))
  BY DEF Init, At
<1>5. QED
  BY <1>1, <1>2, <1>3, <1>4 DEF MarkerInv, RecordsInv, SiteInv, EventsInv, LastInv, At

\* While the first process is alone, whoever runs is one of its threads.
LEMMA RunnersAreIts ==
  ASSUME HookInv, Alone
  PROVE  \A t \in Threads : ~At(t, "none") => Process[t] = Process[Initial] /\ P(t) = P(Initial)
  BY ProcessOf DEF HookInv, WriterInv, Alone, P

\* A process that lives stays alive.
LEMMA AliveStays ==
  ASSUME HookInv, [Next]_vars
  PROVE  \A p \in Processes : proc[p].alive => proc'[p].alive
<1>0. proc \in [Processes -> ProcType] /\ \A t \in Threads : Process[t] \in Processes
  BY ProcessOf DEF HookInv, TypeOK
<1>1. ASSUME NEW t \in Threads, Install(t) \/ Call(t) \/ Record(t) \/ Write(t) \/ WriteFails(t)
                                \/ StartThread(t)
      PROVE  \A p \in Processes : proc[p].alive => proc'[p].alive
  <2>1. CASE Install(t)
    BY <1>0, <2>1 DEF Install, ProcType
  <2>2. CASE Call(t) \/ StartThread(t)
    BY <2>2 DEF Call, StartThread
  <2>3. CASE Record(t)
    BY <1>0, <2>3 DEF Record, ProcType
  <2>4. CASE Write(t)
    BY <1>0, <2>4 DEF Write, ProcType
  <2>5. CASE WriteFails(t)
    BY <1>0, <2>5 DEF WriteFails, ProcType
  <2>6. QED
    BY <1>1, <2>1, <2>2, <2>3, <2>4, <2>5
<1>2. ASSUME NEW t \in Threads, NEW u \in Threads, Fork(t, u)
      PROVE  \A p \in Processes : proc[p].alive => proc'[p].alive
  BY <1>0, <1>2 DEF Fork, ProcType, P
<1>3. ASSUME NEW t \in Threads, NEW u \in Threads, Spawn(t, u)
      PROVE  \A p \in Processes : proc[p].alive => proc'[p].alive
  BY <1>0, <1>3 DEF Spawn, ProcType
<1>4. QED
  BY <1>1, <1>2, <1>3 DEF Next, vars

LEMMA FirstOf == \A a, b, x : x = <<a, b>> => x[1] = a
  OBVIOUS

\* What a write adds to the log: units of one event, the last of which completes
\* a record or not.
LEMMA UnitsAppended ==
  ASSUME HookInv, NEW e \in 1 .. MaxCalls, NEW s \in 0 .. Parts, NEW n \in 1 .. Parts - s,
         log' = log \o [i \in 1 .. n |-> <<e, s + i>>]
  PROVE  /\ Len(log') = Len(log) + n /\ log' # <<>> /\ log'[Len(log')] = <<e, s + n>>
         /\ \A i \in DOMAIN log' : \/ i \in DOMAIN log /\ log'[i] = log[i]
                                   \/ i \notin DOMAIN log /\ log'[i][1] = e
         /\ s + n < Parts => Complete' = Complete
         /\ s + n = Parts => Complete' = Complete \union {Len(log) + n}
                             /\ Len(log) + n \notin Complete
<1> DEFINE u == [i \in 1 .. n |-> <<e, s + i>>]
           U == (1 .. MaxCalls) \X (1 .. Parts)
<1>0. log \in Seq(U) /\ Len(log) \in Nat /\ DOMAIN log = 1 .. Len(log)
  BY LenProperties DEF HookInv, TypeOK
<1>1. n \in Nat /\ n >= 1 /\ s \in Nat /\ s + n <= Parts /\ Parts \in Nat
  BY DEF Parts
<1>2. u \in Seq(U) /\ Len(u) = n /\ \A i \in 1 .. n : u[i] = <<e, s + i>>
  <2>1. u \in [1 .. n -> U]
    BY <1>1
  <2>2. u \in Seq(U) /\ DOMAIN u = 1 .. n
    BY <1>1, <2>1, SeqDef
  <2>3. QED
    BY <1>1, <2>2, LenProperties
<1> HIDE DEF u, U
<1>3. log' = log \o u
  BY DEF u
<1>4. /\ log' \in Seq(U) /\ Len(log') = Len(log) + n
      /\ \A i \in 1 .. Len(log) + n :
           log'[i] = IF i <= Len(log) THEN log[i] ELSE u[i - Len(log)]
  <2>1. /\ log \o u \in Seq(U) /\ Len(log \o u) = Len(log) + Len(u)
        /\ \A i \in 1 .. Len(log) + Len(u) :
             (log \o u)[i] = IF i <= Len(log) THEN log[i] ELSE u[i - Len(log)]
    BY <1>0, <1>2, ConcatProperties
  <2>2. QED
    BY <1>2, <1>3, <2>1
<1>5. DOMAIN log' = 1 .. Len(log) + n
  BY <1>4, LenProperties
<1>6. \A i \in DOMAIN log' :
        \/ i \in DOMAIN log /\ log'[i] = log[i]
        \/ i \notin DOMAIN log /\ i - Len(log) \in 1 .. n /\ log'[i] = <<e, s + (i - Len(log))>>
  BY <1>0, <1>1, <1>2, <1>4, <1>5
<1>7. DOMAIN log \subseteq DOMAIN log'
  BY <1>0, <1>1, <1>5
<1>8. Len(log') \in DOMAIN log' /\ log'[Len(log')] = <<e, s + n>>
  <2>1. Len(log) + n \in DOMAIN log' /\ Len(log) + n \notin DOMAIN log
    BY <1>0, <1>1, <1>5
  <2>2. (Len(log) + n) - Len(log) = n
    BY <1>0, <1>1
  <2>3. QED
    BY <1>4, <1>6, <2>1, <2>2
<1>9. log' # <<>>
  <2>1. Len(log') # 0
    BY <1>0, <1>1, <1>4
  <2>2. QED
    BY <2>1
<1>10. ASSUME s + n < Parts PROVE Complete' = Complete
  <2>1. \A i \in DOMAIN log' : log'[i][2] = Parts => i \in DOMAIN log /\ log'[i] = log[i]
    <3> SUFFICES ASSUME NEW i \in DOMAIN log', log'[i][2] = Parts, i \notin DOMAIN log
                 PROVE  FALSE
      BY <1>6
    <3>1. i - Len(log) \in 1 .. n /\ log'[i][2] = s + (i - Len(log))
      BY <1>6
    <3>2. QED
      BY <1>1, <1>10, <3>1
  <2>2. \A i \in DOMAIN log : log'[i] = log[i]
    BY <1>6, <1>7
  <2>3. QED
    BY <1>7, <2>1, <2>2 DEF Complete
<1>11. ASSUME s + n = Parts
       PROVE  /\ Complete' = Complete \union {Len(log) + n}
              /\ Len(log) + n \notin Complete
  <2>1. \A i \in DOMAIN log' \ DOMAIN log : log'[i][2] = Parts <=> i = Len(log) + n
    <3> TAKE i \in DOMAIN log' \ DOMAIN log
    <3>1. i - Len(log) \in 1 .. n /\ log'[i][2] = s + (i - Len(log)) /\ i \in Int
      BY <1>5, <1>6
    <3> DEFINE k == i - Len(log)
    <3>2. k \in Int /\ i = Len(log) + k /\ log'[i][2] = s + k
      BY <1>0, <3>1
    <3> HIDE DEF k
    <3>3. s + k = s + n <=> k = n
      BY <1>1, <3>2
    <3>4. Len(log) + k = Len(log) + n <=> k = n
      BY <1>0, <1>1, <3>2
    <3>5. QED
      BY <1>11, <3>2, <3>3, <3>4
  <2>2. \A i \in DOMAIN log : log'[i] = log[i]
    BY <1>6, <1>7
  <2>3. Len(log) + n \in DOMAIN log' \ DOMAIN log
    BY <1>0, <1>1, <1>5
  <2>4. QED
    BY <1>7, <2>1, <2>2, <2>3 DEF Complete
<1>12. \A i \in DOMAIN log' :
         \/ i \in DOMAIN log /\ log'[i] = log[i]
         \/ i \notin DOMAIN log /\ log'[i][1] = e
  <2>1. ASSUME NEW i \in DOMAIN log', i \notin DOMAIN log
        PROVE  log'[i][1] = e
    <3>1. PICK k : log'[i] = <<e, k>>
      BY <1>6, <2>1
    <3>2. QED
      BY <3>1, FirstOf
  <2>2. \A i \in DOMAIN log' : i \in DOMAIN log => log'[i] = log[i]
    BY <1>6
  <2>3. QED
    BY <2>1, <2>2
<1>13. Len(log') = Len(log) + n
  BY <1>4
<1>14. QED
  BY <1>8, <1>9, <1>10, <1>11, <1>12, <1>13

LEMMA CompleteIsFinite ==
  ASSUME HookInv
  PROVE  IsFiniteSet(Complete) /\ Cardinality(Complete) \in Nat
<1>1. Complete \in SUBSET (1 .. Len(log)) /\ 1 \in Int /\ Len(log) \in Int
  BY LenProperties DEF HookInv, TypeOK, Complete
<1>2. IsFiniteSet(Complete)
  BY <1>1, FS_Interval, FS_Subset
<1>3. QED
  BY <1>2, FS_CardinalityType

\* An event added to the history changes none before it.
LEMMA KindsGrow ==
  ASSUME HookInv, NEW k \in Kinds, kind' = Append(kind, k)
  PROVE  /\ \A e \in DOMAIN kind : e \in DOMAIN kind' /\ kind'[e] = kind[e]
         /\ Len(kind) + 1 \in DOMAIN kind'
<1>1. kind \in Seq(Kinds) /\ Len(kind) \in Nat /\ DOMAIN kind = 1 .. Len(kind)
  BY TypeFacts
<1>2. DOMAIN kind' = 1 .. Len(kind) + 1 /\ \A e \in 1 .. Len(kind) : kind'[e] = kind[e]
  BY <1>1
<1>3. QED
  BY <1>1, <1>2

\* A process that forks or starts an interpreter is not alone any more.
LEMMA NobodyJoins ==
  ASSUME HookInv, MarkerInv, Alone', NEW t \in Threads, NEW u \in Threads,
         Fork(t, u) \/ Spawn(t, u)
  PROVE  FALSE
<1>1. proc \in [Processes -> ProcType] /\ Process[u] \in Processes
  BY TypeFacts, ProcessOf
<1>2. ~P(u).alive /\ P(Initial).alive
  BY DEF Fork, Spawn, MarkerInv
<1>3. Process[u] # Process[Initial]
  BY <1>2 DEF P
<1>4. proc'[Process[u]].alive
  <2>1. CASE Fork(t, u)
    <3>1. P(t).alive
      BY <2>1 DEF Fork, HookInv, WriterInv, At
    <3>2. proc'[Process[u]] = [P(t) EXCEPT !.inherited = @ \/ P(t).writing]
      BY <1>1, <2>1 DEF Fork
    <3>3. QED
      BY <3>1, <3>2, TypeFacts DEF ProcType
  <2>2. CASE Spawn(t, u)
    BY <1>1, <2>2 DEF Spawn, ProcType
  <2>3. QED
    BY <2>1, <2>2
<1>5. QED
  BY <1>1, <1>3, <1>4 DEF Alone

LEMMA MarkerStep ==
  ASSUME HookInv, MarkerInv, [Next]_vars
  PROVE  MarkerInv'
<1>0. proc \in [Processes -> ProcType] /\ thread \in [Threads -> ThreadType]
      /\ Initial \in Threads /\ P(Initial).count \in 0 .. MaxEvents
      /\ MaxEvents \in Nat \ {0}
  BY TypeFacts, ThreadsAssumption, LimitsAssumption DEF ProcType
<1>1. P(Initial)'.alive
  BY <1>0, AliveStays, ProcessOf DEF MarkerInv, P
<1> SUFFICES ASSUME Alone' PROVE RecordsInv'
  BY <1>1 DEF MarkerInv
<1>2. Alone
  BY AliveStays DEF Alone
<1>3. RecordsInv
  BY <1>2 DEF MarkerInv
<1>4. ASSUME NEW t \in Threads, ~At(t, "none")
      PROVE  Process[t] = Process[Initial] /\ P(t) = P(Initial) /\ Process[t] \in Processes
  BY <1>2, <1>4, RunnersAreIts, ProcessOf
<1>5. ASSUME NEW t \in Threads, Install(t) PROVE RecordsInv'
  <2>1. t = Initial /\ log = <<>> /\ P(Initial).count = 0
        /\ \A u \in Threads \ {t} : At(u, "none")
    BY <1>3, <1>5 DEF Install, RecordsInv, SiteInv, EventsInv, LastInv
  <2>2. log' = <<>> /\ P(Initial)'.count = 0
    BY <1>0, <1>5, <2>1, ProcessOf DEF Install, P, ProcType
  <2>3. /\ kind' = Append(kind, "hook")
        /\ thread' = [thread EXCEPT ![t] = Deciding(Len(kind) + 1)]
    BY <1>5 DEF Install
  <2>4. /\ thread'[t].pc = "deciding" /\ thread'[t].event = Len(kind) + 1
        /\ \A u \in Threads \ {t} : thread'[u].pc = "none"
    BY <1>0, <2>1, <2>3 DEF Deciding, At
  <2>5. Len(kind) + 1 \in DOMAIN kind'
    BY <2>3, KindsGrow DEF Kinds
  <2>6. Cardinality(Complete') = 0
    <3>1. Complete' = {}
      BY <2>2 DEF Complete
    <3>2. QED
      BY <3>1, FS_EmptySet
  <2>7. DOMAIN log' = {}
    BY <2>2
  <2>8. QED
    BY <1>0, <2>1, <2>2, <2>4, <2>5, <2>6, <2>7 DEF RecordsInv, SiteInv, EventsInv, LastInv, At
<1>6. ASSUME NEW t \in Threads, Call(t) PROVE RecordsInv'
  <2>1. /\ At(t, "out") /\ kind' = Append(kind, "call") /\ UNCHANGED <<log, proc>>
        /\ thread' = thread \/ thread' = [thread EXCEPT ![t] = Deciding(Len(kind) + 1)]
    BY <1>6 DEF Call
  <2>2. /\ \A e \in DOMAIN kind : e \in DOMAIN kind' /\ kind'[e] = kind[e]
        /\ Len(kind) + 1 \in DOMAIN kind'
    BY <2>1, KindsGrow DEF Kinds
  <2>3. /\ \A u \in Threads \ {t} : thread'[u] = thread[u]
        /\ \/ thread'[t] = thread[t]
           \/ thread'[t].pc = "deciding" /\ thread'[t].event = Len(kind) + 1
    BY <1>0, <2>1 DEF Deciding
  <2>4. ~At(Initial, "site")
    BY <1>3, <2>1 DEF RecordsInv, SiteInv, EventsInv, LastInv, At
  <2>5. P(Initial)' = P(Initial) /\ Complete' = Complete
    BY <2>1 DEF P, Complete
  <2>6. thread[t].pc = "out"
    BY <2>1 DEF At
  <2>7. \A u \in Threads : /\ thread'[u].pc = "site" => thread[u].pc = "site"
                           /\ thread'[u].pc = "writing" => thread'[u] = thread[u]
    BY <2>3, <2>6
  <2>8. \A u \in Threads : thread'[u].pc \in {"deciding", "writing"} =>
                             thread'[u].event \in DOMAIN kind'
    BY <1>3, <2>2, <2>3 DEF RecordsInv, SiteInv, EventsInv, LastInv
  <2>9. \A i \in DOMAIN log : log[i][1] \in DOMAIN kind' /\ kind'[log[i][1]] = kind[log[i][1]]
    BY <1>3, <2>2 DEF RecordsInv, SiteInv, EventsInv, LastInv
  <2>10. \A u \in Threads : thread'[u].pc = "writing" /\ P(Initial).count = MaxEvents - 1 =>
                              kind'[thread'[u].event] = "limit"
    BY <1>3, <2>2, <2>7 DEF RecordsInv, SiteInv, EventsInv, LastInv, At
  <2>11. P(Initial).count = MaxEvents =>
           log # <<>> /\ log[Len(log)][2] = Parts /\ kind'[log[Len(log)][1]] = "limit"
    <3>1. log # <<>> => Len(log) \in DOMAIN log
      BY LenProperties DEF HookInv, TypeOK
    <3>2. QED
      BY <1>3, <2>9, <3>1 DEF RecordsInv, SiteInv, EventsInv, LastInv
  <2>12. QED
    <3>1. SiteInv'
      BY <1>0, <1>3, <2>4, <2>7 DEF RecordsInv, SiteInv, At
    <3>2. EventsInv'
      BY <2>1, <2>8, <2>9 DEF EventsInv
    <3>3. LastInv'
      BY <2>1, <2>5, <2>10, <2>11 DEF LastInv, At
    <3>4. QED
      BY <1>3, <2>5, <3>1, <3>2, <3>3 DEF RecordsInv
<1>7. ASSUME NEW t \in Threads, Record(t) PROVE RecordsInv'
  <2> DEFINE e == thread[t].event
  <2>1. At(t, "deciding") /\ UNCHANGED log /\ P(t) = P(Initial) /\ Process[t] \in Processes
        /\ Process[t] = Process[Initial]
    BY <1>4, <1>7 DEF Record, At
  <2>2. ~At(Initial, "site")
    BY <1>3, <2>1 DEF RecordsInv, SiteInv, EventsInv, LastInv, At
  <2>3. Complete' = Complete /\ DOMAIN log' = DOMAIN log
    BY <2>1 DEF Complete
  <2>4. CASE thread' = [thread EXCEPT ![t] = Out] /\ UNCHANGED <<proc, kind>>
    <3>1. \A u \in Threads : thread'[u].pc # "out" => thread'[u] = thread[u]
      BY <1>0, <2>4 DEF Out
    <3>2. QED
      BY <1>3, <2>1, <2>2, <2>3, <2>4, <3>1 DEF RecordsInv, SiteInv, EventsInv, LastInv, At, P
  <2>5. CASE /\ ~P(t).writing /\ ~Full(P(t).count)
             /\ thread' = [thread EXCEPT ![t].pc = "writing"]
             /\ proc' = [proc EXCEPT ![Process[t]].writing = TRUE]
             /\ kind' = [kind EXCEPT ![e] = IF IsMarker(P(t).count) THEN "limit" ELSE @]
    <3>1. e \in DOMAIN kind
      BY <1>3, <2>1 DEF RecordsInv, SiteInv, EventsInv, LastInv, At
    <3>2. /\ DOMAIN kind' = DOMAIN kind
          /\ P(Initial).count = MaxEvents - 1 => kind'[e] = "limit"
      BY <2>1, <2>5, <3>1 DEF IsMarker
    <3>3. P(Initial)'.count = P(Initial).count
      BY <1>0, <2>1, <2>5 DEF P, ProcType
    <3>4. P(Initial).count # MaxEvents
      BY <1>0, <2>1, <2>5 DEF Full
    <3>5. \A u \in Threads : ~At(u, "writing")
      BY <1>4, <2>1, <2>5 DEF HookInv, WriterInv, At
    <3>6. /\ \A u \in Threads \ {t} : thread'[u] = thread[u]
          /\ thread'[t].pc = "writing" /\ thread'[t].event = e
      BY <1>0, <2>5 DEF ThreadType
    <3>7. \A u \in Threads : /\ thread'[u].pc = "site" => thread[u].pc = "site"
                             /\ thread'[u].pc = "writing" => u = t
                             /\ thread'[u].pc \in {"deciding", "writing"} =>
                                  thread'[u].event \in DOMAIN kind
      BY <1>3, <3>1, <3>5, <3>6 DEF RecordsInv, SiteInv, EventsInv, LastInv, At
    <3> HIDE DEF e
    <3>8. QED
      <4>1. SiteInv'
        BY <1>0, <1>3, <2>2, <3>7 DEF RecordsInv, SiteInv, At
      <4>2. EventsInv'
        BY <1>3, <2>1, <3>2, <3>7 DEF RecordsInv, EventsInv
      <4>3. LastInv'
        BY <3>2, <3>3, <3>4, <3>6, <3>7 DEF LastInv, At
      <4>4. QED
        BY <1>3, <2>3, <3>3, <4>1, <4>2, <4>3 DEF RecordsInv
  <2>6. QED
    BY <1>7, <2>4, <2>5 DEF Record
<1>8. ASSUME NEW t \in Threads, Write(t) PROVE RecordsInv'
  <2> DEFINE e == thread[t].event
             s == thread[t].sent
  <2>1. PICK n \in 1 .. Parts - s :
          /\ log' = log \o [i \in 1 .. n |-> <<e, s + i>>]
          /\ IF s + n < Parts
             THEN thread' = [thread EXCEPT ![t].sent = s + n] /\ UNCHANGED <<proc, fate>>
             ELSE /\ thread' = [thread EXCEPT ![t] = Out]
                  /\ proc' = [proc EXCEPT ![Process[t]].writing = FALSE,
                                          ![Process[t]].count = @ + 1]
                  /\ fate' = [fate EXCEPT ![e] = "written"]
    BY <1>8 DEF Write
  <2>2. At(t, "writing") /\ UNCHANGED kind /\ P(t) = P(Initial) /\ Process[t] \in Processes
        /\ Process[t] = Process[Initial]
    BY <1>4, <1>8 DEF Write, At
  <2>3. e \in 1 .. MaxCalls /\ s \in 0 .. Parts /\ e \in DOMAIN kind
    BY <1>3, <2>2, TypeFacts DEF HookInv, EventInv, At, RecordsInv, SiteInv, EventsInv, LastInv
  <2> HIDE DEF e, s
  <2>4. /\ Len(log') = Len(log) + n /\ log' # <<>> /\ log'[Len(log')] = <<e, s + n>>
        /\ \A i \in DOMAIN log' : \/ i \in DOMAIN log /\ log'[i] = log[i]
                                  \/ i \notin DOMAIN log /\ log'[i][1] = e
        /\ s + n < Parts => Complete' = Complete
        /\ s + n = Parts => Complete' = Complete \union {Len(log) + n}
                            /\ Len(log) + n \notin Complete
    BY <2>1, <2>3, UnitsAppended
  <2>5. \A i \in DOMAIN log' : log'[i][1] \in DOMAIN kind
    BY <1>3, <2>3, <2>4 DEF RecordsInv, SiteInv, EventsInv, LastInv
  <2>6. ~At(Initial, "site") /\ P(Initial).count < MaxEvents
    BY <1>3, <2>2 DEF RecordsInv, SiteInv, At, HookInv, WriterInv
  <2>7. \A u \in Threads : At(u, "writing") => u = t
    <3>1. \A u \in Threads : At(u, "writing") => u \in ThreadsOf(Process[t])
      BY <1>4, <2>2 DEF At, ThreadsOf
    <3>2. QED
      BY <2>2, <3>1 DEF HookInv, WriterInv
  <2>8. CASE s + n < Parts
    <3>1. /\ \A u \in Threads \ {t} : thread'[u] = thread[u]
          /\ thread'[t].pc = "writing" /\ thread'[t].event = e /\ UNCHANGED proc
      BY <1>0, <2>1, <2>2, <2>8 DEF ThreadType, At, e
    <3>2. \A u \in Threads : thread'[u].pc = thread[u].pc /\ thread'[u].event = thread[u].event
      BY <2>2, <3>1 DEF At, e
    <3>3. P(Initial)' = P(Initial)
      BY <3>1 DEF P
    <3>4. Cardinality(Complete') = P(Initial).count
      BY <1>3, <2>4, <2>8 DEF RecordsInv, SiteInv, EventsInv, LastInv
    <3>5. QED
      BY <1>0, <1>3, <2>2, <2>5, <2>6, <3>2, <3>3, <3>4 DEF RecordsInv, SiteInv, EventsInv, LastInv, At
  <2>9. CASE s + n = Parts
    <3>1. /\ thread' = [thread EXCEPT ![t] = Out]
          /\ proc' = [proc EXCEPT ![Process[t]].writing = FALSE,
                                  ![Process[t]].count = @ + 1]
      BY <2>1, <2>9 DEF Parts
    <3>2. \A u \in Threads : thread'[u].pc # "out" => u # t /\ thread'[u] = thread[u]
      BY <1>0, <3>1 DEF Out
    <3>3. P(Initial)'.count = P(Initial).count + 1
      BY <1>0, <2>2, <3>1 DEF P, ProcType
    <3>4. Cardinality(Complete') = P(Initial).count + 1
      <4>1. Cardinality(Complete \union {Len(log) + n}) = Cardinality(Complete) + 1
        BY <2>4, <2>9, CompleteIsFinite, FS_AddElement
      <4>2. QED
        BY <1>3, <2>4, <2>9, <4>1 DEF RecordsInv, SiteInv, EventsInv, LastInv
    <3>5. \A u \in Threads : thread'[u].pc # "writing"
      BY <2>7, <3>2 DEF At
    <3>6. P(Initial).count + 1 = MaxEvents =>
            log'[Len(log')][2] = Parts /\ kind[log'[Len(log')][1]] = "limit"
      <4> SUFFICES ASSUME P(Initial).count + 1 = MaxEvents
                   PROVE  log'[Len(log')][2] = Parts /\ kind[log'[Len(log')][1]] = "limit"
        OBVIOUS
      <4>1. log'[Len(log')] = <<e, Parts>>
        BY <2>4, <2>9
      <4>2. P(Initial).count = MaxEvents - 1
        BY <1>0
      <4>3. kind[e] = "limit"
        BY <1>3, <2>2, <4>2 DEF RecordsInv, SiteInv, EventsInv, LastInv, e
      <4>4. QED
        BY <4>1, <4>3
    <3>7. \A u \in Threads : /\ thread'[u].pc = "site" => thread[u].pc = "site"
                             /\ thread'[u].pc = "deciding" => thread'[u].event \in DOMAIN kind
      BY <1>3, <3>2 DEF RecordsInv, SiteInv, EventsInv, LastInv
    <3>8. QED
      <4>1. SiteInv'
        BY <1>0, <1>3, <2>6, <3>7 DEF RecordsInv, SiteInv, At
      <4>2. EventsInv'
        BY <2>2, <2>5, <3>5, <3>7 DEF EventsInv
      <4>3. LastInv'
        BY <2>2, <2>4, <3>3, <3>5, <3>6 DEF LastInv, At
      <4>4. QED
        BY <3>3, <3>4, <4>1, <4>2, <4>3 DEF RecordsInv
  <2>10. QED
    BY <2>1, <2>3, <2>8, <2>9 DEF Parts
<1>9. ASSUME NEW t \in Threads, WriteFails(t) PROVE RecordsInv'
  <2>1. /\ At(t, "writing") /\ thread' = [thread EXCEPT ![t] = Out]
        /\ proc' = [proc EXCEPT ![Process[t]].writing = FALSE] /\ UNCHANGED <<log, kind>>
    BY <1>9 DEF WriteFails
  <2>2. \A u \in Threads : thread'[u].pc # "out" => thread'[u] = thread[u]
    BY <1>0, <2>1 DEF Out
  <2>3. P(Initial)'.count = P(Initial).count
    BY <1>0, <2>1, ProcessOf DEF P, ProcType
  <2>4. ~At(Initial, "site") /\ Complete' = Complete
    BY <1>3, <2>1 DEF RecordsInv, SiteInv, EventsInv, LastInv, At, Complete
  <2>5. QED
    BY <1>3, <2>1, <2>2, <2>3, <2>4 DEF RecordsInv, SiteInv, EventsInv, LastInv, At
<1>10. ASSUME NEW t \in Threads, StartThread(t) PROVE RecordsInv'
  <2>1. PICK s \in ThreadsOf(Process[t]) : At(s, "out")
    BY <1>10 DEF StartThread
  <2>2. thread' = [thread EXCEPT ![t] = Out] /\ UNCHANGED <<log, proc, kind>>
    BY <1>10 DEF StartThread
  <2>3. \A u \in Threads : thread'[u].pc # "out" => thread'[u] = thread[u]
    BY <1>0, <2>2 DEF Out
  <2>4. ~At(Initial, "site")
    BY <1>3, <2>1 DEF RecordsInv, SiteInv, EventsInv, LastInv, At, ThreadsOf
  <2>5. P(Initial)' = P(Initial) /\ Complete' = Complete
    BY <2>2 DEF P, Complete
  <2>6. QED
    BY <1>3, <2>2, <2>3, <2>4, <2>5 DEF RecordsInv, SiteInv, EventsInv, LastInv, At
<1>11. CASE UNCHANGED vars
  BY <1>3, <1>11 DEF vars, RecordsInv, SiteInv, EventsInv, LastInv, At, P, Complete
<1>12. QED
  BY <1>5, <1>6, <1>7, <1>8, <1>9, <1>10, <1>11, NobodyJoins DEF Next

\* The last line is one more than the complete records, or the marker.
LEMMA NothingIsCutOff ==
  ASSUME HookInv, RecordsInv
  PROVE  Read = Ends
<1> SUFFICES ASSUME NEW i \in Ends PROVE Cardinality({j \in Ends : j < i}) < MaxEvents
  BY DEF Read
<1> DEFINE B == {j \in Ends : j < i}
<1>1. DOMAIN log = 1 .. Len(log) /\ Len(log) \in Nat /\ P(Initial).count \in 0 .. MaxEvents
      /\ MaxEvents \in Nat /\ P(Initial).count = Cardinality(Complete)
  BY LenProperties, TypeFacts, ThreadsAssumption DEF HookInv, TypeOK, ProcType, RecordsInv
<1>2. B \subseteq Complete /\ Len(log) \notin B
  BY <1>1 DEF Ends, Complete
<1> HIDE DEF B
<1>3. CASE P(Initial).count # MaxEvents
  <2>1. IsFiniteSet(B) /\ Cardinality(B) <= Cardinality(Complete)
    BY <1>2, CompleteIsFinite, FS_Subset
  <2>2. Cardinality(B) \in Nat
    BY <2>1, FS_CardinalityType
  <2>3. Cardinality(B) < MaxEvents
    BY <1>1, <1>3, <2>1, <2>2
  <2>4. QED
    BY <2>3 DEF B
<1>4. CASE P(Initial).count = MaxEvents
  <2>1. Len(log) \in Complete
    <3>1. log # <<>> /\ log[Len(log)][2] = Parts
      BY <1>4 DEF RecordsInv, SiteInv, EventsInv, LastInv
    <3>2. Len(log) \in DOMAIN log
      BY <1>1, <3>1, LenProperties DEF HookInv, TypeOK
    <3>3. QED
      BY <3>1, <3>2 DEF Complete
  <2> DEFINE C == Complete \ {Len(log)}
  <2>2. IsFiniteSet(C) /\ Cardinality(C) = MaxEvents - 1
    BY <1>1, <1>4, <2>1, CompleteIsFinite, FS_RemoveElement
  <2>3. B \subseteq C
    BY <1>2
  <2> HIDE DEF C
  <2>4. IsFiniteSet(B) /\ Cardinality(B) <= MaxEvents - 1
    BY <2>2, <2>3, FS_Subset
  <2>5. Cardinality(B) \in Nat
    BY <2>4, FS_CardinalityType
  <2>6. Cardinality(B) < MaxEvents
    BY <1>1, <2>4, <2>5
  <2>7. QED
    BY <2>6 DEF B
<1>5. QED
  BY <1>3, <1>4

\* A process that neither forks nor starts interpreters leaves the loader nothing to
\* cut off, and the record that fills its log is the marker: with any number of
\* threads, events, torn records and failed writes.  (record's limit, the loader's
\* max_events)
THEOREM MarkerIsLast == Spec => []MarkerHasTheLastPlace
<1>1. Init => HookInv /\ MarkerInv
  BY HookInit, MarkerInit
<1>2. HookInv /\ MarkerInv /\ [Next]_vars => (HookInv /\ MarkerInv)'
  BY TypeStep, WriterStep, MarkerStep DEF HookInv
<1>3. HookInv /\ MarkerInv => MarkerHasTheLastPlace
  <2> SUFFICES ASSUME HookInv, MarkerInv, Alone
               PROVE  /\ "truncate" \notin Diagnostics
                      /\ P(Initial).count = MaxEvents => kind[log[Len(log)][1]] = "limit"
    BY DEF MarkerHasTheLastPlace, Alone
  <2>1. RecordsInv
    BY DEF MarkerInv
  <2>2. Read = Ends
    BY <2>1, NothingIsCutOff
  <2>3. "truncate" \notin Diagnostics
    BY <2>2 DEF Diagnostics
  <2>4. QED
    BY <2>1, <2>3 DEF RecordsInv, SiteInv, EventsInv, LastInv
<1>4. QED
  BY <1>1, <1>2, <1>3, PTL DEF Spec
-----------------------------------------------------------------------------
(* Losses *)

Active(t) == thread[t].pc \in {"deciding", "writing"}

\* An event that a thread is at is open, and no other thread is at it.
OwnersInv ==
  \A t \in Threads : Active(t) =>
    /\ thread[t].event \in DOMAIN fate /\ fate[thread[t].event] = "open"
    /\ \A u \in Threads : Active(u) /\ thread[u].event = thread[t].event => u = t
\* What was written left a unit in the log.
TraceInv ==
  \A e \in DOMAIN fate : fate[e] \in {"written", "torn"} => \E i \in DOMAIN log : log[i][1] = e
\* The marker was written, here or in the process this one was forked from.
Marked == \E m \in DOMAIN kind : kind[m] = "limit" /\ fate[m] \in {"written", "wiped"}
\* A process that is full, or told an event so, has the marker behind it.
FullInv ==
  /\ \A t \in Threads : At(t, "writing") /\ P(t).count = MaxEvents - 1 =>
       kind[thread[t].event] = "limit"
  /\ \A p \in Processes : proc[p].count = MaxEvents => Marked
  /\ \A e \in DOMAIN fate : fate[e] = "over" => Marked
\* While there is one interpreter, its forks share its descriptor: where there is
\* none, nothing was ever written.
MuteInv ==
  /\ \A t \in Threads : At(t, "site") => t = Initial
  /\ At(Initial, "site") =>
       /\ log = <<>> /\ fate = <<>>
       /\ \A p \in Processes : proc[p].alive => p = Process[Initial]
       /\ \A u \in Threads \ {Initial} : At(u, "none")
  /\ \A p \in Processes : proc[p].alive => proc[p].fd = P(Initial).fd
  /\ ~P(Initial).fd => log = <<>> /\ \A t \in Threads : ~At(t, "writing")
  /\ \A e \in DOMAIN fate : fate[e] = "mute" => ~P(Initial).fd
LossInv == OwnersInv /\ TraceInv /\ FullInv /\ (~spawned => MuteInv)

\* What a sequence is after an element was added to it.
LEMMA Appended ==
  ASSUME NEW S, NEW s \in Seq(S), NEW x \in S
  PROVE  /\ DOMAIN Append(s, x) = DOMAIN s \cup {Len(s) + 1} /\ Len(s) + 1 \notin DOMAIN s
         /\ \A i \in DOMAIN s : Append(s, x)[i] = s[i]
         /\ Append(s, x)[Len(s) + 1] = x
<1>1. DOMAIN s = 1 .. Len(s) /\ Len(s) \in Nat /\ DOMAIN Append(s, x) = 1 .. Len(s) + 1
  OBVIOUS
<1>2. \A i \in 1 .. Len(s) : Append(s, x)[i] = s[i]
  OBVIOUS
<1>3. Append(s, x)[Len(s) + 1] = x
  OBVIOUS
<1>4. QED
  BY <1>1, <1>2, <1>3

\* The event a step adds to the history.
Added == Len(kind) + 1

\* The history of events after a step that adds one to it.
Grown ==
  /\ DOMAIN kind' = DOMAIN kind \cup {Added} /\ DOMAIN fate' = DOMAIN fate \cup {Added}
  /\ \A e \in DOMAIN kind : kind'[e] = kind[e]

LEMMA Histories ==
  ASSUME HookInv
  PROVE  DOMAIN kind = DOMAIN fate /\ Added \notin DOMAIN fate
<1>1. /\ kind \in Seq(Kinds) /\ fate \in Seq(Fates) /\ Len(kind) \in Nat
      /\ Len(fate) = Len(kind)
  BY TypeFacts
<1>2. QED
  BY <1>1 DEF Added

LEMMA InstallDoes ==
  ASSUME HookInv, NEW t \in Threads, Install(t)
  PROVE  \E opened, ready \in BOOLEAN :
           /\ ready => opened
           /\ log' = IF opened THEN <<>> ELSE log
           /\ exists' = (exists \/ opened)
           /\ proc' = [proc EXCEPT ![Process[t]].fd = ready]
           /\ thread' = [thread EXCEPT ![t] = Deciding(Added)]
           /\ Grown /\ fate'[Added] = "open"
           /\ \A e \in DOMAIN fate : fate'[e] = IF opened /\ fate[e] \in {"written", "torn"}
                                                THEN "wiped" ELSE fate[e]
<1>1. PICK opened \in BOOLEAN, ready \in BOOLEAN :
        /\ ready => opened
        /\ exists' = (exists \/ opened)
        /\ log' = IF opened THEN <<>> ELSE log
        /\ proc' = [proc EXCEPT ![Process[t]].fd = ready]
        /\ fate' = Append([e \in DOMAIN fate |->
                             IF opened /\ fate[e] \in {"written", "torn"}
                             THEN "wiped" ELSE fate[e]], "open")
  BY DEF Install
<1>2. /\ kind' = Append(kind, "hook")
      /\ thread' = [thread EXCEPT ![t] = Deciding(Added)]
  BY DEF Install, Added
<1> DEFINE f == [e \in DOMAIN fate |-> IF opened /\ fate[e] \in {"written", "torn"}
                                       THEN "wiped" ELSE fate[e]]
<1>3. f \in Seq(Fates) /\ Len(f) = Len(fate)
  BY TypeFacts, MappedFates
<1>4. /\ DOMAIN f = DOMAIN fate
      /\ \A e \in DOMAIN fate : f[e] = IF opened /\ fate[e] \in {"written", "torn"}
                                       THEN "wiped" ELSE fate[e]
  OBVIOUS
<1>5. fate' = Append(f, "open") /\ "open" \in Fates
  BY <1>1 DEF Fates
<1> HIDE DEF f
<1>6. /\ DOMAIN fate' = DOMAIN fate \cup {Added} /\ fate'[Added] = "open"
      /\ \A e \in DOMAIN fate : fate'[e] = f[e]
  BY <1>3, <1>4, <1>5, Appended, TypeFacts DEF Added
<1>7. Grown
  <2>1. "hook" \in Kinds /\ kind \in Seq(Kinds)
    BY TypeFacts DEF Kinds
  <2>2. DOMAIN kind' = DOMAIN kind \cup {Added} /\ \A e \in DOMAIN kind : kind'[e] = kind[e]
    BY <1>2, <2>1, Appended DEF Added
  <2>3. QED
    BY <1>6, <2>2 DEF Grown
<1>8. \A e \in DOMAIN fate : fate'[e] = IF opened /\ fate[e] \in {"written", "torn"}
                                        THEN "wiped" ELSE fate[e]
  BY <1>4, <1>6
<1>9. QED
  BY <1>1, <1>2, <1>6, <1>7, <1>8

LEMMA CallDoes ==
  ASSUME HookInv, NEW t \in Threads, Call(t)
  PROVE  /\ At(t, "out") /\ UNCHANGED <<exists, log, proc, spawned>> /\ Grown
         /\ \A e \in DOMAIN fate : fate'[e] = fate[e]
         /\ \/ fate'[Added] = "unchecked" /\ UNCHANGED thread
            \/ fate'[Added] = "open" /\ thread' = [thread EXCEPT ![t] = Deciding(Added)]
<1>1. /\ At(t, "out") /\ kind' = Append(kind, "call")
      /\ UNCHANGED <<exists, log, proc, spawned>>
      /\ \/ fate' = Append(fate, "unchecked") /\ UNCHANGED thread
         \/ fate' = Append(fate, "open") /\ thread' = [thread EXCEPT ![t] = Deciding(Added)]
  BY DEF Call, Added
<1>2. {"unchecked", "open"} \subseteq Fates /\ "call" \in Kinds
  BY DEF Fates, Kinds
<1>3. ASSUME NEW x \in Fates, fate' = Append(fate, x)
      PROVE  /\ DOMAIN fate' = DOMAIN fate \cup {Added} /\ fate'[Added] = x
             /\ \A e \in DOMAIN fate : fate'[e] = fate[e]
  BY <1>3, Appended, TypeFacts DEF Added
<1>4. DOMAIN kind' = DOMAIN kind \cup {Added} /\ \A e \in DOMAIN kind : kind'[e] = kind[e]
  BY <1>1, <1>2, Appended, TypeFacts DEF Added
<1>5. QED
  BY <1>1, <1>2, <1>3, <1>4 DEF Grown

\* The event of a thread gets the fate x.
Fated(t, x) ==
  /\ fate' = [fate EXCEPT ![thread[t].event] = x]
  /\ DOMAIN fate' = DOMAIN fate /\ DOMAIN kind' = DOMAIN kind
  /\ \A e \in DOMAIN fate : fate'[e] = IF e = thread[t].event THEN x ELSE fate[e]
  /\ \A e \in DOMAIN kind : e # thread[t].event => kind'[e] = kind[e]

LEMMA RecordDoes ==
  ASSUME HookInv, NEW t \in Threads, Record(t)
  PROVE  /\ At(t, "deciding") /\ UNCHANGED <<exists, log, spawned>>
         /\ \/ /\ thread' = [thread EXCEPT ![t] = Out] /\ UNCHANGED <<proc, kind>>
               /\ \/ Fated(t, "skipped")
                  \/ Fated(t, "over") /\ P(t).count = MaxEvents
                  \/ Fated(t, "mute") /\ ~P(t).fd
            \/ /\ ~P(t).writing /\ P(t).fd /\ Fated(t, "open")
               /\ thread' = [thread EXCEPT ![t].pc = "writing"]
               /\ proc' = [proc EXCEPT ![Process[t]].writing = TRUE]
               /\ thread[t].event \in DOMAIN kind =>
                    kind'[thread[t].event] = IF IsMarker(P(t).count) THEN "limit"
                                             ELSE kind[thread[t].event]
<1> DEFINE e == thread[t].event
           d == IF P(t).writing THEN "skipped"
                ELSE IF Full(P(t).count) THEN "over"
                ELSE IF ~P(t).fd THEN "mute" ELSE "open"
<1>1. /\ At(t, "deciding") /\ UNCHANGED <<exists, log, spawned>>
      /\ fate' = [fate EXCEPT ![e] = d]
      /\ IF d # "open"
         THEN thread' = [thread EXCEPT ![t] = Out] /\ UNCHANGED <<proc, kind>>
         ELSE /\ thread' = [thread EXCEPT ![t].pc = "writing"]
              /\ proc' = [proc EXCEPT ![Process[t]].writing = TRUE]
              /\ kind' = [kind EXCEPT ![e] = IF IsMarker(P(t).count) THEN "limit" ELSE @]
  BY DEF Record
<1>2. P(t).count \in 0 .. MaxEvents /\ MaxEvents \in Nat
  BY TypeFacts DEF ProcType
<1>3. \/ d = "skipped" \/ (d = "over" /\ P(t).count = MaxEvents) \/ (d = "mute" /\ ~P(t).fd)
      \/ (d = "open" /\ ~P(t).writing /\ P(t).fd)
  BY <1>2 DEF Full
<1> HIDE DEF d, e
<1>4. Fated(t, d)
  BY <1>1 DEF Fated, e
<1>5. QED
  BY <1>1, <1>3, <1>4 DEF e

LEMMA WriteDoes ==
  ASSUME HookInv, NEW t \in Threads, Write(t)
  PROVE  /\ At(t, "writing") /\ UNCHANGED <<exists, kind, spawned>>
         /\ DOMAIN log \subseteq DOMAIN log' /\ \A i \in DOMAIN log : log'[i] = log[i]
         /\ Len(log') \in DOMAIN log' /\ log'[Len(log')][1] = thread[t].event
         /\ \/ /\ UNCHANGED <<proc, fate>>
               /\ \A u \in Threads : thread'[u].pc = thread[u].pc
                                     /\ thread'[u].event = thread[u].event
            \/ /\ Fated(t, "written") /\ thread' = [thread EXCEPT ![t] = Out]
               /\ proc' = [proc EXCEPT ![Process[t]].writing = FALSE,
                                       ![Process[t]].count = @ + 1]
<1> DEFINE e == thread[t].event
           s == thread[t].sent
<1>1. PICK n \in 1 .. Parts - s :
        /\ log' = log \o [i \in 1 .. n |-> <<e, s + i>>]
        /\ IF s + n < Parts
           THEN thread' = [thread EXCEPT ![t].sent = s + n] /\ UNCHANGED <<proc, fate>>
           ELSE /\ thread' = [thread EXCEPT ![t] = Out]
                /\ proc' = [proc EXCEPT ![Process[t]].writing = FALSE,
                                        ![Process[t]].count = @ + 1]
                /\ fate' = [fate EXCEPT ![e] = "written"]
  BY DEF Write
<1>2. At(t, "writing") /\ UNCHANGED <<exists, kind, spawned>>
  BY DEF Write
<1>3. e \in 1 .. MaxCalls /\ s \in 0 .. Parts
  BY <1>2, TypeFacts DEF HookInv, EventInv, At
<1> HIDE DEF e, s
<1>4. /\ Len(log') = Len(log) + n /\ log' # <<>> /\ log'[Len(log')] = <<e, s + n>>
      /\ \A i \in DOMAIN log' : \/ i \in DOMAIN log /\ log'[i] = log[i]
                                \/ i \notin DOMAIN log /\ log'[i][1] = e
  BY <1>1, <1>3, UnitsAppended
<1>5. DOMAIN log \subseteq DOMAIN log' /\ Len(log') \in DOMAIN log'
  <2> DEFINE U == (1 .. MaxCalls) \X (1 .. Parts)
             more == [i \in 1 .. n |-> <<e, s + i>>]
  <2>1. \A i \in 1 .. n : s + i \in 1 .. Parts
    BY <1>3 DEF Parts
  <2>2. n \in Nat /\ n >= 1
    BY <1>3 DEF Parts
  <2>3. more \in [1 .. n -> U]
    BY <1>3, <2>1
  <2>4. log \in Seq(U) /\ log' = log \o more
    BY <1>1 DEF HookInv, TypeOK
  <2> HIDE DEF U, more
  <2>5. more \in Seq(U)
    BY <2>2, <2>3
  <2>6. log' \in Seq(U)
    BY <2>4, <2>5
  <2>7. DOMAIN log' = 1 .. Len(log') /\ DOMAIN log = 1 .. Len(log) /\ Len(log) \in Nat
    BY <2>4, <2>6
  <2>8. QED
    BY <1>4, <2>2, <2>7
<1>6. log'[Len(log')][1] = thread[t].event
  BY <1>4 DEF e
<1>7. CASE s + n < Parts
  <2>1. \A u \in Threads : thread'[u].pc = thread[u].pc /\ thread'[u].event = thread[u].event
    <3>1. thread \in [Threads -> ThreadType]
      BY TypeFacts
    <3>2. \E m : thread' = [thread EXCEPT ![t].sent = m]
      BY <1>1, <1>7
    <3>3. QED
      BY <3>1, <3>2 DEF ThreadType
  <2>2. QED
    BY <1>1, <1>2, <1>4, <1>5, <1>6, <1>7, <2>1
<1>8. CASE ~(s + n < Parts)
  <2>1. Fated(t, "written")
    BY <1>1, <1>2, <1>8 DEF Fated, e
  <2>2. QED
    BY <1>1, <1>2, <1>4, <1>5, <1>6, <1>8, <2>1
<1>9. QED
  BY <1>7, <1>8

LEMMA WriteFailsDoes ==
  ASSUME HookInv, NEW t \in Threads, WriteFails(t)
  PROVE  /\ At(t, "writing") /\ UNCHANGED <<exists, log, kind, spawned>>
         /\ thread' = [thread EXCEPT ![t] = Out]
         /\ proc' = [proc EXCEPT ![Process[t]].writing = FALSE]
         /\ \/ Fated(t, "failed") \/ Fated(t, "wiped")
            \/ Fated(t, "torn") /\ \E i \in DOMAIN log : log[i][1] = thread[t].event
<1>1. Fated(t, Remains(t))
  BY DEF WriteFails, Fated
<1>2. QED
  BY <1>1 DEF WriteFails, Remains
\* An event that a thread leaves or takes up belongs to no other.
LEMMA OwnersStep ==
  ASSUME HookInv, OwnersInv, [Next]_vars
  PROVE  OwnersInv'
<1>0. thread \in [Threads -> ThreadType] /\ Added \notin DOMAIN fate
  BY TypeFacts, Histories
<1>1. ASSUME NEW t \in Threads, thread' = [thread EXCEPT ![t] = Deciding(Added)], Grown,
             fate'[Added] = "open",
             \A e \in DOMAIN fate : fate[e] = "open" => fate'[e] = "open"
      PROVE  OwnersInv'
  <2>1. /\ thread'[t].event = Added
        /\ \A u \in Threads \ {t} : thread'[u] = thread[u]
    BY <1>0, <1>1 DEF Deciding
  <2>2. \A u \in Threads \ {t} : Active(u)' => thread'[u].event \in DOMAIN fate
    BY <2>1 DEF OwnersInv, Active
  <2>3. QED
    BY <1>0, <1>1, <2>1, <2>2 DEF OwnersInv, Active, Grown
<1>2. ASSUME NEW t \in Threads, Active(t), NEW x, Fated(t, x),
             \A u \in Threads \ {t} : thread'[u] = thread[u],
             Active(t)' => x = "open" /\ thread'[t].event = thread[t].event
      PROVE  OwnersInv'
  <2>1. \A u \in Threads : Active(u)' => Active(u) /\ thread'[u].event = thread[u].event
    BY <1>2 DEF Active
  <2>2. \A u \in Threads : Active(u)' => thread'[u].event \in DOMAIN fate'
                                         /\ fate'[thread'[u].event] = "open"
    <3>1. \A u \in Threads \ {t} : Active(u)' => thread[u].event # thread[t].event
      BY <1>2, <2>1 DEF OwnersInv
    <3>2. QED
      BY <1>2, <2>1, <3>1 DEF OwnersInv, Fated
  <2>3. QED
    BY <2>1, <2>2 DEF OwnersInv
<1>3. ASSUME \A e \in DOMAIN fate : e \in DOMAIN fate' /\ fate'[e] = fate[e],
             \A u \in Threads : Active(u)' => Active(u) /\ thread'[u].event = thread[u].event
      PROVE  OwnersInv'
  BY <1>3 DEF OwnersInv
<1>4. ASSUME NEW t \in Threads, Install(t) PROVE OwnersInv'
  <2>1. /\ thread' = [thread EXCEPT ![t] = Deciding(Added)] /\ Grown /\ fate'[Added] = "open"
        /\ \A e \in DOMAIN fate : fate[e] = "open" => fate'[e] = "open"
    BY <1>4, InstallDoes
  <2>2. QED
    BY <1>1, <2>1
<1>5. ASSUME NEW t \in Threads, Call(t) PROVE OwnersInv'
  <2>1. /\ Grown /\ \A e \in DOMAIN fate : fate'[e] = fate[e]
        /\ \/ fate'[Added] = "unchecked" /\ UNCHANGED thread
           \/ fate'[Added] = "open" /\ thread' = [thread EXCEPT ![t] = Deciding(Added)]
    BY <1>5, CallDoes
  <2>2. CASE UNCHANGED thread
    <3>1. \A u \in Threads : Active(u)' => Active(u) /\ thread'[u].event = thread[u].event
      BY <2>2 DEF Active
    <3>2. \A e \in DOMAIN fate : e \in DOMAIN fate' /\ fate'[e] = fate[e]
      BY <2>1 DEF Grown
    <3>3. QED
      BY <1>3, <3>1, <3>2
  <2>3. QED
    BY <1>1, <2>1, <2>2
<1>6. ASSUME NEW t \in Threads, Record(t) PROVE OwnersInv'
  <2>1. PICK x : /\ At(t, "deciding") /\ Fated(t, x)
                 /\ \/ thread' = [thread EXCEPT ![t] = Out]
                    \/ x = "open" /\ thread' = [thread EXCEPT ![t].pc = "writing"]
    BY <1>6, RecordDoes
  <2>2. Active(t) /\ \A u \in Threads \ {t} : thread'[u] = thread[u]
    BY <1>0, <2>1 DEF Active, At
  <2>3. Active(t)' => x = "open" /\ thread'[t].event = thread[t].event
    BY <1>0, <2>1 DEF Active, Out, ThreadType
  <2>4. QED
    BY <1>2, <2>1, <2>2, <2>3
<1>7. ASSUME NEW t \in Threads, At(t, "writing"), thread' = [thread EXCEPT ![t] = Out],
             NEW x, Fated(t, x)
      PROVE  OwnersInv'
  <2>1. Active(t) /\ \A u \in Threads \ {t} : thread'[u] = thread[u]
    BY <1>0, <1>7 DEF Active, At
  <2>2. ~Active(t)'
    BY <1>0, <1>7 DEF Active, Out
  <2>3. QED
    BY <1>2, <1>7, <2>1, <2>2
<1>8. ASSUME NEW t \in Threads, Write(t) PROVE OwnersInv'
  <2>1. CASE /\ UNCHANGED fate
             /\ \A u \in Threads : thread'[u].pc = thread[u].pc
                                   /\ thread'[u].event = thread[u].event
    BY <1>3, <2>1 DEF Active
  <2>2. QED
    BY <1>7, <1>8, <2>1, WriteDoes
<1>9. ASSUME NEW t \in Threads, WriteFails(t) PROVE OwnersInv'
  BY <1>7, <1>9, WriteFailsDoes
<1>10. ASSUME NEW t \in Threads, UNCHANGED fate,
              \/ thread' = [thread EXCEPT ![t] = Out]
              \/ thread' = [thread EXCEPT ![t].pc = "site"]
       PROVE  OwnersInv'
  <2>1. \A u \in Threads : Active(u)' => Active(u) /\ thread'[u].event = thread[u].event
    BY <1>0, <1>10 DEF Active, Out, ThreadType
  <2>2. QED
    BY <1>3, <1>10, <2>1
<1>11. ASSUME UNCHANGED vars PROVE OwnersInv'
  BY <1>11 DEF vars, OwnersInv, Active
<1>12. ASSUME NEW t \in Threads, NEW u \in Threads, Fork(t, u) \/ Spawn(t, u) PROVE OwnersInv'
  BY <1>10, <1>12 DEF Fork, Spawn
<1>13. ASSUME NEW t \in Threads, StartThread(t) PROVE OwnersInv'
  BY <1>10, <1>13 DEF StartThread
<1>14. QED
  BY <1>4, <1>5, <1>6, <1>8, <1>9, <1>11, <1>12, <1>13 DEF Next

\* A unit leaves the log only when all of it is wiped.
LEMMA TraceStep ==
  ASSUME HookInv, TraceInv, [Next]_vars
  PROVE  TraceInv'
<1>1. ASSUME Grown \/ DOMAIN fate' = DOMAIN fate, fate'[Added] \notin {"written", "torn"},
             DOMAIN log \subseteq DOMAIN log', \A i \in DOMAIN log : log'[i] = log[i],
             \A e \in DOMAIN fate : fate'[e] \in {"written", "torn"} =>
               fate'[e] = fate[e] \/ \E i \in DOMAIN log' : log'[i][1] = e
      PROVE  TraceInv'
  <2> SUFFICES ASSUME NEW e \in DOMAIN fate', fate'[e] \in {"written", "torn"}
               PROVE  \E i \in DOMAIN log' : log'[i][1] = e
    BY DEF TraceInv
  <2>1. e \in DOMAIN fate
    BY <1>1 DEF Grown
  <2>2. QED
    BY <1>1, <2>1 DEF TraceInv
<1>2. ASSUME DOMAIN fate' = DOMAIN fate,
             DOMAIN log \subseteq DOMAIN log', \A i \in DOMAIN log : log'[i] = log[i],
             \A e \in DOMAIN fate : fate'[e] \in {"written", "torn"} =>
               fate'[e] = fate[e] \/ \E i \in DOMAIN log' : log'[i][1] = e
      PROVE  TraceInv'
  BY <1>2 DEF TraceInv
<1>3. ASSUME NEW t \in Threads, Install(t) PROVE TraceInv'
  <2>1. PICK opened \in BOOLEAN :
          /\ log' = IF opened THEN <<>> ELSE log
          /\ Grown /\ fate'[Added] = "open"
          /\ \A e \in DOMAIN fate : fate'[e] = IF opened /\ fate[e] \in {"written", "torn"}
                                               THEN "wiped" ELSE fate[e]
    BY <1>3, InstallDoes
  <2>2. CASE opened
    <3>1. \A e \in DOMAIN fate' : fate'[e] \notin {"written", "torn"}
      BY <2>1, <2>2 DEF Grown
    <3>2. QED
      BY <3>1 DEF TraceInv
  <2>3. CASE ~opened
    BY <1>1, <2>1, <2>3
  <2>4. QED
    BY <2>2, <2>3
<1>4. ASSUME NEW t \in Threads, Call(t) PROVE TraceInv'
  <2>1. /\ Grown /\ (\A e \in DOMAIN fate : fate'[e] = fate[e]) /\ UNCHANGED log
        /\ fate'[Added] \in {"unchecked", "open"}
    BY <1>4, CallDoes
  <2>2. QED
    BY <1>1, <2>1
<1>5. ASSUME NEW t \in Threads, Record(t) PROVE TraceInv'
  <2>1. UNCHANGED log /\ \E x \in {"skipped", "over", "mute", "open"} : Fated(t, x)
    BY <1>5, RecordDoes
  <2>2. QED
    BY <1>2, <2>1 DEF Fated
<1>6. ASSUME NEW t \in Threads, Write(t) PROVE TraceInv'
  <2>1. /\ DOMAIN log \subseteq DOMAIN log' /\ \A i \in DOMAIN log : log'[i] = log[i]
        /\ Len(log') \in DOMAIN log' /\ log'[Len(log')][1] = thread[t].event
        /\ UNCHANGED fate \/ Fated(t, "written")
    BY <1>6, WriteDoes
  <2>2. QED
    BY <1>2, <2>1 DEF Fated
<1>7. ASSUME NEW t \in Threads, WriteFails(t) PROVE TraceInv'
  <2>1. /\ UNCHANGED log
        /\ \/ Fated(t, "failed") \/ Fated(t, "wiped")
           \/ Fated(t, "torn") /\ \E i \in DOMAIN log : log[i][1] = thread[t].event
    BY <1>7, WriteFailsDoes
  <2>2. QED
    BY <1>2, <2>1 DEF Fated
<1>8. ASSUME UNCHANGED <<log, fate>> PROVE TraceInv'
  BY <1>8 DEF TraceInv
<1>9. ASSUME NEW t \in Threads, NEW u \in Threads, Fork(t, u) \/ Spawn(t, u) PROVE TraceInv'
  BY <1>8, <1>9 DEF Fork, Spawn
<1>10. ASSUME NEW t \in Threads, StartThread(t) PROVE TraceInv'
  BY <1>8, <1>10 DEF StartThread
<1>11. CASE UNCHANGED vars
  BY <1>8, <1>11 DEF vars
<1>12. QED
  BY <1>3, <1>4, <1>5, <1>6, <1>7, <1>9, <1>10, <1>11 DEF Next
\* The marker is written before its process is full, and is never unwritten.
LEMMA FullStep ==
  ASSUME HookInv, OwnersInv, FullInv, [Next]_vars
  PROVE  FullInv'
<1>0. /\ thread \in [Threads -> ThreadType] /\ proc \in [Processes -> ProcType]
      /\ DOMAIN kind = DOMAIN fate /\ Added \notin DOMAIN fate
      /\ MaxEvents \in Nat \ {0} /\ \A p \in Processes : proc[p].count \in 0 .. MaxEvents
  BY TypeFacts, Histories, LimitsAssumption DEF ProcType
<1>1. ASSUME Grown, \A e \in DOMAIN fate : fate'[e] = fate[e] \/
                      (fate[e] \in {"written", "torn"} /\ fate'[e] = "wiped"),
             fate'[Added] # "over",
             \A p \in Processes : proc'[p].count = proc[p].count,
             \A u \in Threads : At(u, "writing")' =>
               At(u, "writing") /\ thread'[u].event = thread[u].event
      PROVE  FullInv'
  <2>1. Marked => Marked'
    BY <1>0, <1>1 DEF Marked, Grown
  <2>2. \A u \in Threads : At(u, "writing")' /\ P(u)'.count = MaxEvents - 1 =>
          kind'[thread'[u].event] = "limit"
    <3> TAKE u \in Threads
    <3> HAVE At(u, "writing")' /\ P(u)'.count = MaxEvents - 1
    <3>1. At(u, "writing") /\ thread'[u].event = thread[u].event /\ P(u).count = MaxEvents - 1
      BY <1>1, ProcessOf DEF P
    <3>2. thread[u].event \in DOMAIN kind
      BY <1>0, <3>1 DEF OwnersInv, Active, At
    <3>3. QED
      BY <1>1, <3>1, <3>2 DEF FullInv, Grown
  <2>3. \A e \in DOMAIN fate' : fate'[e] = "over" => Marked
    BY <1>1 DEF FullInv, Grown
  <2>4. \A p \in Processes : proc'[p].count = MaxEvents => Marked
    BY <1>1 DEF FullInv
  <2>5. QED
    BY <2>1, <2>2, <2>3, <2>4 DEF FullInv
\* A thread at an event gives it a fate.
<1>2. ASSUME NEW t \in Threads, Active(t), NEW x, Fated(t, x) PROVE Marked => Marked'
  <2>1. fate[thread[t].event] = "open"
    BY <1>2 DEF OwnersInv
  <2>2. QED
    BY <1>0, <1>2, <2>1 DEF Marked, Fated
<1>3. ASSUME NEW t \in Threads, Active(t), NEW x, Fated(t, x), x = "over" => Marked,
             \A p \in Processes : proc'[p].count = MaxEvents => Marked',
             \A u \in Threads : At(u, "writing")' /\ u # t =>
               At(u, "writing") /\ thread'[u].event = thread[u].event
               /\ P(u)'.count = P(u).count,
             At(t, "writing")' /\ P(t)'.count = MaxEvents - 1 => kind'[thread'[t].event] = "limit"
      PROVE  FullInv'
  <2>1. Marked => Marked'
    BY <1>2, <1>3
  <2>2. \A u \in Threads : At(u, "writing")' /\ P(u)'.count = MaxEvents - 1 =>
          kind'[thread'[u].event] = "limit"
    <3> SUFFICES ASSUME NEW u \in Threads, u # t, At(u, "writing")', P(u)'.count = MaxEvents - 1
                 PROVE  kind'[thread'[u].event] = "limit"
      BY <1>3
    <3>1. At(u, "writing") /\ thread'[u].event = thread[u].event /\ P(u).count = MaxEvents - 1
      BY <1>3
    <3>2. thread[u].event \in DOMAIN kind /\ thread[u].event # thread[t].event
      BY <1>0, <1>3, <3>1 DEF OwnersInv, Active, At
    <3>3. QED
      BY <1>3, <3>1, <3>2 DEF FullInv, Fated
  <2>3. \A e \in DOMAIN fate' : fate'[e] = "over" => Marked
    BY <1>3 DEF FullInv, Fated
  <2>4. QED
    BY <1>3, <2>1, <2>2, <2>3 DEF FullInv
<1>4. ASSUME NEW t \in Threads, Install(t) PROVE FullInv'
  <2>1. PICK opened \in BOOLEAN, ready \in BOOLEAN :
          /\ proc' = [proc EXCEPT ![Process[t]].fd = ready]
          /\ thread' = [thread EXCEPT ![t] = Deciding(Added)]
          /\ Grown /\ fate'[Added] = "open"
          /\ \A e \in DOMAIN fate : fate'[e] = IF opened /\ fate[e] \in {"written", "torn"}
                                               THEN "wiped" ELSE fate[e]
    BY <1>4, InstallDoes
  <2>2. \A p \in Processes : proc'[p].count = proc[p].count
    BY <1>0, <2>1 DEF ProcType
  <2>3. \A u \in Threads : At(u, "writing")' =>
               At(u, "writing") /\ thread'[u].event = thread[u].event
    BY <1>0, <2>1 DEF At, Deciding
  <2>4. QED
    BY <1>1, <2>1, <2>2, <2>3
<1>5. ASSUME NEW t \in Threads, Call(t) PROVE FullInv'
  <2>1. /\ UNCHANGED proc /\ Grown /\ \A e \in DOMAIN fate : fate'[e] = fate[e]
        /\ fate'[Added] # "over"
        /\ UNCHANGED thread \/ thread' = [thread EXCEPT ![t] = Deciding(Added)]
    BY <1>5, CallDoes
  <2>2. \A u \in Threads : At(u, "writing")' =>
               At(u, "writing") /\ thread'[u].event = thread[u].event
    BY <1>0, <2>1 DEF At, Deciding
  <2>3. QED
    BY <1>1, <2>1, <2>2
<1>6. ASSUME NEW t \in Threads, Record(t) PROVE FullInv'
  <2>1. Active(t)
    BY <1>6 DEF Record, Active, At
  <2>2. CASE /\ thread' = [thread EXCEPT ![t] = Out] /\ UNCHANGED proc
             /\ \/ Fated(t, "skipped")
                \/ Fated(t, "over") /\ P(t).count = MaxEvents
                \/ Fated(t, "mute")
    <3>1. PICK x : Fated(t, x) /\ (x = "over" => P(t).count = MaxEvents)
      BY <2>2
    <3>2. /\ ~At(t, "writing")'
          /\ \A u \in Threads \ {t} : thread'[u] = thread[u]
      BY <1>0, <2>2 DEF At, Out
    <3>3. x = "over" => Marked
      BY <3>1, ProcessOf DEF FullInv, P
    <3>4. \A p \in Processes : proc'[p].count = MaxEvents => Marked'
      BY <1>2, <2>1, <2>2, <3>1 DEF FullInv
    <3>5. \A u \in Threads : At(u, "writing")' /\ u # t =>
               At(u, "writing") /\ thread'[u].event = thread[u].event
               /\ P(u)'.count = P(u).count
      BY <2>2, <3>2 DEF At, P
    <3>6. QED
      BY <1>3, <2>1, <3>1, <3>2, <3>3, <3>4, <3>5
  <2>3. CASE /\ Fated(t, "open")
             /\ thread' = [thread EXCEPT ![t].pc = "writing"]
             /\ proc' = [proc EXCEPT ![Process[t]].writing = TRUE]
             /\ thread[t].event \in DOMAIN kind =>
                  kind'[thread[t].event] = IF IsMarker(P(t).count) THEN "limit"
                                           ELSE kind[thread[t].event]
    <3>1. /\ thread'[t].event = thread[t].event
          /\ \A u \in Threads \ {t} : thread'[u] = thread[u]
      BY <1>0, <2>3 DEF ThreadType
    <3>2. \A p \in Processes : proc'[p].count = proc[p].count
      BY <1>0, <2>3 DEF ProcType
    <3>3. \A u \in Threads : P(u)'.count = P(u).count
      BY <3>2, ProcessOf DEF P
    <3>4. \A p \in Processes : proc'[p].count = MaxEvents => Marked'
      BY <1>2, <2>1, <2>3, <3>2 DEF FullInv
    <3>5. thread[t].event \in DOMAIN kind
      BY <1>0, <2>1 DEF OwnersInv
    <3>6. P(t)'.count = MaxEvents - 1 => kind'[thread'[t].event] = "limit"
      BY <2>3, <3>1, <3>3, <3>5 DEF IsMarker
    <3>7. \A u \in Threads : At(u, "writing")' /\ u # t =>
               At(u, "writing") /\ thread'[u].event = thread[u].event
               /\ P(u)'.count = P(u).count
      BY <3>1, <3>3 DEF At
    <3>8. QED
      BY <1>3, <2>1, <2>3, <3>4, <3>6, <3>7
  <2>4. QED
    BY <1>6, <2>2, <2>3, RecordDoes
<1>7. ASSUME NEW t \in Threads, Write(t) PROVE FullInv'
  <2>0. At(t, "writing") /\ UNCHANGED kind
    BY <1>7, WriteDoes
  <2>1. Active(t) /\ \A u \in Threads : At(u, "writing") /\ Process[u] = Process[t] => u = t
    BY <2>0, ProcessOf DEF Active, At, HookInv, WriterInv, ThreadsOf
  <2>2. CASE /\ UNCHANGED <<proc, fate>>
             /\ \A u \in Threads : thread'[u].pc = thread[u].pc
                                   /\ thread'[u].event = thread[u].event
    BY <2>0, <2>2 DEF FullInv, Marked, At, P
  <2>3. CASE /\ Fated(t, "written") /\ thread' = [thread EXCEPT ![t] = Out]
             /\ proc' = [proc EXCEPT ![Process[t]].writing = FALSE,
                                     ![Process[t]].count = @ + 1]
    <3>1. /\ ~At(t, "writing")'
          /\ \A u \in Threads \ {t} : thread'[u] = thread[u]
      BY <1>0, <2>3 DEF At, Out
    <3>2. /\ \A p \in Processes \ {Process[t]} : proc'[p] = proc[p]
          /\ proc'[Process[t]].count = P(t).count + 1
      BY <1>0, <2>3, ProcessOf DEF P, ProcType
    <3>3. Process[t] \in Processes /\ P(t).count \in Nat
      BY <1>0, ProcessOf DEF P
    <3>4. P(t).count + 1 = MaxEvents => Marked'
      <4> SUFFICES ASSUME P(t).count + 1 = MaxEvents PROVE Marked'
        OBVIOUS
      <4>1. P(t).count = MaxEvents - 1
        BY <1>0, <3>3
      <4>2. kind[thread[t].event] = "limit" /\ thread[t].event \in DOMAIN fate
        BY <2>0, <2>1, <4>1 DEF FullInv, OwnersInv
      <4>3. QED
        BY <1>0, <2>0, <2>3, <4>2 DEF Marked, Fated
    <3>5. \A p \in Processes : proc'[p].count = MaxEvents => Marked'
      <4>1. Marked => Marked'
        BY <1>2, <2>1, <2>3
      <4>2. QED
        BY <3>2, <3>4, <4>1 DEF FullInv
    <3>6. \A u \in Threads : At(u, "writing")' /\ u # t =>
               At(u, "writing") /\ thread'[u].event = thread[u].event
               /\ P(u)'.count = P(u).count
      BY <2>1, <3>1, <3>2, ProcessOf DEF At, P
    <3>7. QED
      BY <1>3, <2>1, <2>3, <3>1, <3>5, <3>6
  <2>4. QED
    BY <1>7, <2>2, <2>3, WriteDoes
<1>8. ASSUME NEW t \in Threads, WriteFails(t) PROVE FullInv'
  <2>1. /\ At(t, "writing") /\ thread' = [thread EXCEPT ![t] = Out]
        /\ proc' = [proc EXCEPT ![Process[t]].writing = FALSE]
        /\ \E x \in {"failed", "wiped", "torn"} : Fated(t, x)
    BY <1>8, WriteFailsDoes
  <2>2. PICK x \in {"failed", "wiped", "torn"} : Fated(t, x)
    BY <2>1
  <2>3. /\ Active(t) /\ ~At(t, "writing")'
        /\ \A u \in Threads \ {t} : thread'[u] = thread[u]
    BY <1>0, <2>1 DEF At, Out, Active
  <2>4. \A p \in Processes : proc'[p].count = proc[p].count
    BY <1>0, <2>1 DEF ProcType
  <2>5. \A p \in Processes : proc'[p].count = MaxEvents => Marked'
    BY <1>2, <2>2, <2>3, <2>4 DEF FullInv
  <2>6. \A u \in Threads : At(u, "writing")' /\ u # t =>
               At(u, "writing") /\ thread'[u].event = thread[u].event
               /\ P(u)'.count = P(u).count
    BY <2>3, <2>4, ProcessOf DEF At, P
  <2>7. QED
    BY <1>3, <2>2, <2>3, <2>5, <2>6
<1>9. ASSUME UNCHANGED <<kind, fate>>,
             \A p \in Processes : \E q \in Processes : proc'[p].count = proc[q].count,
             \A u \in Threads : At(u, "writing")' =>
               At(u, "writing") /\ thread'[u].event = thread[u].event
               /\ P(u)'.count = P(u).count
      PROVE  FullInv'
  BY <1>9 DEF FullInv, Marked
<1>10. ASSUME NEW t \in Threads, StartThread(t) PROVE FullInv'
  <2>1. thread' = [thread EXCEPT ![t] = Out] /\ UNCHANGED <<proc, kind, fate>>
    BY <1>10 DEF StartThread
  <2>2. \A u \in Threads : At(u, "writing")' =>
          At(u, "writing") /\ thread'[u].event = thread[u].event /\ P(u)'.count = P(u).count
    BY <1>0, <2>1 DEF At, Out, P
  <2>3. QED
    BY <1>9, <2>1, <2>2
<1>11. ASSUME NEW t \in Threads, NEW u \in Threads, Fork(t, u) PROVE FullInv'
  <2>1. /\ ~P(u).alive /\ UNCHANGED <<kind, fate>>
        /\ proc' = [proc EXCEPT ![Process[u]] = [P(t) EXCEPT !.inherited = @ \/ P(t).writing]]
        /\ thread' = [thread EXCEPT ![u] = Out]
    BY <1>11 DEF Fork
  <2>2. /\ \A p \in Processes \ {Process[u]} : proc'[p] = proc[p]
        /\ proc'[Process[u]].count = proc[Process[t]].count
    BY <1>0, <2>1, ProcessOf DEF P, ProcType
  <2>3. \A v \in Threads : Process[v] = Process[u] => At(v, "none")
    BY <2>1 DEF HookInv, WriterInv, P
  <2>4. \A v \in Threads : At(v, "writing")' =>
          At(v, "writing") /\ thread'[v].event = thread[v].event /\ P(v)'.count = P(v).count
    <3>1. \A v \in Threads : At(v, "writing")' => At(v, "writing") /\ v # u
      BY <1>0, <2>1 DEF At, Out
    <3>2. \A v \in Threads : At(v, "writing") => Process[v] # Process[u]
      BY <2>3 DEF At
    <3>3. QED
      BY <1>0, <2>1, <2>2, <3>1, <3>2, ProcessOf DEF P
  <2>5. \A p \in Processes : \E q \in Processes : proc'[p].count = proc[q].count
    BY <2>2, ProcessOf
  <2>6. QED
    BY <1>9, <2>1, <2>4, <2>5
<1>12. ASSUME NEW t \in Threads, NEW u \in Threads, Spawn(t, u) PROVE FullInv'
  <2>1. /\ UNCHANGED <<kind, fate>> /\ thread' = [thread EXCEPT ![u].pc = "site"]
        /\ proc' = [proc EXCEPT ![Process[u]].alive = TRUE]
    BY <1>12 DEF Spawn
  <2>2. \A p \in Processes : proc'[p].count = proc[p].count
    BY <1>0, <2>1 DEF ProcType
  <2>3. \A v \in Threads : At(v, "writing")' =>
          At(v, "writing") /\ thread'[v].event = thread[v].event /\ P(v)'.count = P(v).count
    BY <1>0, <2>1, <2>2, ProcessOf DEF At, ThreadType, P
  <2>4. QED
    BY <1>9, <2>1, <2>2, <2>3
<1>13. CASE UNCHANGED vars
  BY <1>13 DEF vars, FullInv, Marked, At, P
<1>14. QED
  BY <1>4, <1>5, <1>6, <1>7, <1>8, <1>10, <1>11, <1>12, <1>13 DEF Next
\* While there is one interpreter, a log that cannot be opened is missing for all.
LEMMA MuteStep ==
  ASSUME HookInv, MarkerInv, MuteInv, [Next]_vars, ~spawned'
  PROVE  MuteInv'
<1>0. /\ thread \in [Threads -> ThreadType] /\ proc \in [Processes -> ProcType]
      /\ Initial \in Threads /\ Process[Initial] \in Processes /\ P(Initial).alive
      /\ \A t \in Threads : ~At(t, "none") => P(t).alive
      /\ \A t \in Threads : ~At(t, "none") => P(t).fd = P(Initial).fd
  <2>1. \A t \in Threads : ~At(t, "none") => P(t).alive
    BY DEF HookInv, WriterInv
  <2>2. \A t \in Threads : P(t).alive => P(t).fd = P(Initial).fd
    BY ProcessOf DEF MuteInv, P
  <2>3. QED
    BY <2>1, <2>2, TypeFacts, ThreadsAssumption, ProcessOf DEF MarkerInv
\* Steps of a thread that runs, which neither starts nor forks anything.
<1>1. ASSUME ~At(Initial, "site"),
             \A u \in Threads : At(u, "site")' => At(u, "site"),
             \A p \in Processes : proc'[p].alive = proc[p].alive /\ proc'[p].fd = proc[p].fd,
             ~P(Initial).fd => log' = log /\ \A u \in Threads : ~At(u, "writing")',
             \A e \in DOMAIN fate' : fate'[e] = "mute" =>
               ~P(Initial).fd \/ (e \in DOMAIN fate /\ fate[e] = "mute")
      PROVE  MuteInv'
  <2>1. P(Initial)'.fd = P(Initial).fd
    BY <1>0, <1>1 DEF P
  <2>2. \A u \in Threads : ~At(u, "site")'
    BY <1>1 DEF MuteInv
  <2>3. \A p \in Processes : proc'[p].alive => proc'[p].fd = P(Initial).fd
    BY <1>1 DEF MuteInv
  <2>4. \A e \in DOMAIN fate' : fate'[e] = "mute" => ~P(Initial).fd
    BY <1>1 DEF MuteInv
  <2>5. ~P(Initial).fd => log' = <<>>
    BY <1>1 DEF MuteInv
  <2>6. QED
    BY <1>0, <1>1, <2>1, <2>2, <2>3, <2>4, <2>5 DEF MuteInv
<1>2. ASSUME NEW t \in Threads, ~At(t, "none"), ~At(t, "site") PROVE ~At(Initial, "site")
  BY <1>2 DEF MuteInv
<1>3. ASSUME NEW t \in Threads, Install(t) PROVE MuteInv'
  <2>1. PICK opened \in BOOLEAN, ready \in BOOLEAN :
          /\ log' = IF opened THEN <<>> ELSE log
          /\ proc' = [proc EXCEPT ![Process[t]].fd = ready]
          /\ thread' = [thread EXCEPT ![t] = Deciding(Added)]
          /\ Grown /\ fate'[Added] = "open"
          /\ \A e \in DOMAIN fate : fate'[e] = IF opened /\ fate[e] \in {"written", "torn"}
                                               THEN "wiped" ELSE fate[e]
    BY <1>3, InstallDoes
  <2>2. /\ t = Initial /\ log = <<>> /\ fate = <<>>
        /\ \A p \in Processes : proc[p].alive => p = Process[Initial]
        /\ \A u \in Threads \ {Initial} : At(u, "none")
    BY <1>3 DEF Install, MuteInv
  <2>3. \A e \in DOMAIN fate' : fate'[e] = "open"
    BY <2>1, <2>2 DEF Grown
  <2>4. /\ log' = <<>>
        /\ \A u \in Threads : ~At(u, "site")' /\ ~At(u, "writing")'
    BY <1>0, <2>1, <2>2 DEF At, Deciding
  <2>5. \A p \in Processes : proc'[p].alive => p = Process[Initial]
    BY <1>0, <2>1, <2>2 DEF ProcType
  <2>6. QED
    BY <1>0, <2>3, <2>4, <2>5 DEF MuteInv, P
<1>4. ASSUME NEW t \in Threads, Call(t) PROVE MuteInv'
  <2>1. /\ At(t, "out") /\ UNCHANGED <<log, proc>> /\ Grown
        /\ \A e \in DOMAIN fate : fate'[e] = fate[e]
        /\ fate'[Added] # "mute"
        /\ UNCHANGED thread \/ thread' = [thread EXCEPT ![t] = Deciding(Added)]
    BY <1>4, CallDoes
  <2>2. \A u \in Threads : /\ At(u, "site")' => At(u, "site")
                           /\ At(u, "writing")' => At(u, "writing")
    BY <1>0, <2>1 DEF At, Deciding
  <2>3. \A e \in DOMAIN fate' : fate'[e] = "mute" => e \in DOMAIN fate /\ fate[e] = "mute"
    BY <2>1 DEF Grown
  <2>4. ~At(Initial, "site")
    BY <1>2, <2>1 DEF At
  <2>5. ~P(Initial).fd => \A u \in Threads : ~At(u, "writing")'
    BY <2>2 DEF MuteInv
  <2>6. QED
    BY <1>1, <2>1, <2>2, <2>3, <2>4, <2>5
<1>5. ASSUME NEW t \in Threads, Record(t) PROVE MuteInv'
  <2>1. At(t, "deciding") /\ UNCHANGED log
    BY <1>5, RecordDoes
  <2>2. ~At(Initial, "site") /\ P(t).fd = P(Initial).fd
    BY <1>0, <1>2, <2>1 DEF At
  <2>3. CASE /\ thread' = [thread EXCEPT ![t] = Out] /\ UNCHANGED proc
             /\ \/ Fated(t, "skipped") \/ Fated(t, "over")
                \/ Fated(t, "mute") /\ ~P(t).fd
    <3>1. \A u \in Threads : /\ At(u, "site")' => At(u, "site")
                             /\ At(u, "writing")' => At(u, "writing")
      BY <1>0, <2>3 DEF At, Out
    <3>2. \A e \in DOMAIN fate' : fate'[e] = "mute" =>
            ~P(Initial).fd \/ (e \in DOMAIN fate /\ fate[e] = "mute")
      BY <2>2, <2>3 DEF Fated
    <3>3. ~P(Initial).fd => \A u \in Threads : ~At(u, "writing")'
      BY <3>1 DEF MuteInv
    <3>4. QED
      BY <1>1, <2>1, <2>2, <2>3, <3>1, <3>2, <3>3
  <2>4. CASE /\ P(t).fd /\ Fated(t, "open")
             /\ thread' = [thread EXCEPT ![t].pc = "writing"]
             /\ proc' = [proc EXCEPT ![Process[t]].writing = TRUE]
    <3>1. \A u \in Threads : At(u, "site")' => At(u, "site")
      BY <1>0, <2>4 DEF At, ThreadType
    <3>2. \A p \in Processes : proc'[p].alive = proc[p].alive /\ proc'[p].fd = proc[p].fd
      BY <1>0, <2>4 DEF ProcType
    <3>3. \A e \in DOMAIN fate' : fate'[e] = "mute" => e \in DOMAIN fate /\ fate[e] = "mute"
      BY <2>4 DEF Fated
    <3>4. QED
      BY <1>1, <2>1, <2>2, <2>4, <3>1, <3>2, <3>3
  <2>5. QED
    BY <1>5, <2>3, <2>4, RecordDoes
<1>6. ASSUME NEW t \in Threads, Write(t) PROVE MuteInv'
  <2>1. At(t, "writing")
    BY <1>6, WriteDoes
  <2>2. ~At(Initial, "site") /\ P(Initial).fd
    BY <1>2, <2>1 DEF At, MuteInv
  <2>3. CASE /\ UNCHANGED <<proc, fate>>
             /\ \A u \in Threads : thread'[u].pc = thread[u].pc
                                   /\ thread'[u].event = thread[u].event
    BY <1>1, <2>2, <2>3 DEF At
  <2>4. CASE /\ Fated(t, "written") /\ thread' = [thread EXCEPT ![t] = Out]
             /\ proc' = [proc EXCEPT ![Process[t]].writing = FALSE,
                                     ![Process[t]].count = @ + 1]
    <3>1. \A u \in Threads : At(u, "site")' => At(u, "site")
      BY <1>0, <2>4 DEF At, Out
    <3>2. \A p \in Processes : proc'[p].alive = proc[p].alive /\ proc'[p].fd = proc[p].fd
      BY <1>0, <2>4 DEF ProcType
    <3>3. \A e \in DOMAIN fate' : fate'[e] = "mute" => e \in DOMAIN fate /\ fate[e] = "mute"
      BY <2>4 DEF Fated
    <3>4. QED
      BY <1>1, <2>2, <3>1, <3>2, <3>3
  <2>5. QED
    BY <1>6, <2>3, <2>4, WriteDoes
<1>7. ASSUME NEW t \in Threads, WriteFails(t) PROVE MuteInv'
  <2>1. /\ At(t, "writing") /\ thread' = [thread EXCEPT ![t] = Out]
        /\ proc' = [proc EXCEPT ![Process[t]].writing = FALSE]
        /\ \E x \in {"failed", "wiped", "torn"} : Fated(t, x)
    BY <1>7, WriteFailsDoes
  <2>2. ~At(Initial, "site") /\ P(Initial).fd
    BY <1>2, <2>1 DEF At, MuteInv
  <2>3. \A u \in Threads : At(u, "site")' => At(u, "site")
    BY <1>0, <2>1 DEF At, Out
  <2>4. \A p \in Processes : proc'[p].alive = proc[p].alive /\ proc'[p].fd = proc[p].fd
    BY <1>0, <2>1 DEF ProcType
  <2>5. \A e \in DOMAIN fate' : fate'[e] = "mute" => e \in DOMAIN fate /\ fate[e] = "mute"
    BY <2>1 DEF Fated
  <2>6. QED
    BY <1>1, <2>2, <2>3, <2>4, <2>5
<1>8. ASSUME NEW u \in Threads, thread' = [thread EXCEPT ![u] = Out]
      PROVE  \A v \in Threads : /\ At(v, "site")' => At(v, "site")
                                /\ At(v, "writing")' => At(v, "writing")
  BY <1>0, <1>8 DEF At, Out
<1>9. ASSUME NEW t \in Threads, StartThread(t) PROVE MuteInv'
  <2>1. PICK s \in ThreadsOf(Process[t]) : At(s, "out")
    BY <1>9 DEF StartThread
  <2>2. thread' = [thread EXCEPT ![t] = Out] /\ UNCHANGED <<log, proc, fate>>
    BY <1>9 DEF StartThread
  <2>3. ~At(Initial, "site")
    BY <1>2, <2>1, ProcessOf DEF At
  <2>4. ~P(Initial).fd => \A u \in Threads : ~At(u, "writing")'
    BY <1>8, <2>2 DEF MuteInv
  <2>5. QED
    BY <1>1, <1>8, <2>2, <2>3, <2>4
<1>10. ASSUME NEW t \in Threads, NEW u \in Threads, Fork(t, u) PROVE MuteInv'
  <2>1. /\ At(t, "out") /\ ~P(u).alive /\ UNCHANGED <<log, fate>>
        /\ proc' = [proc EXCEPT ![Process[u]] = [P(t) EXCEPT !.inherited = @ \/ P(t).writing]]
        /\ thread' = [thread EXCEPT ![u] = Out]
    BY <1>10 DEF Fork
  <2>2. ~At(Initial, "site") /\ P(t).fd = P(Initial).fd /\ Process[u] # Process[Initial]
    BY <1>0, <1>2, <2>1 DEF At, P
  <2>3. /\ \A p \in Processes \ {Process[u]} : proc'[p] = proc[p]
        /\ proc'[Process[u]].fd = P(t).fd
    BY <1>0, <2>1, ProcessOf DEF P, ProcType
  <2>4. P(Initial)'.fd = P(Initial).fd
    BY <1>0, <2>2, <2>3 DEF P
  <2>5. \A p \in Processes : proc'[p].alive => proc'[p].fd = P(Initial).fd
    BY <2>2, <2>3 DEF MuteInv
  <2>6. /\ \A v \in Threads : ~At(v, "site")'
        /\ ~P(Initial).fd => \A v \in Threads : ~At(v, "writing")'
    BY <1>8, <2>1, <2>2 DEF MuteInv
  <2>7. QED
    BY <1>0, <2>1, <2>4, <2>5, <2>6 DEF MuteInv
<1>11. ASSUME NEW t \in Threads, NEW u \in Threads, Spawn(t, u) PROVE FALSE
  BY <1>11 DEF Spawn
<1>12. CASE UNCHANGED vars
  BY <1>12 DEF vars, MuteInv, At, P
<1>13. QED
  BY <1>3, <1>4, <1>5, <1>6, <1>7, <1>9, <1>10, <1>11, <1>12 DEF Next

LEMMA SpawnedStays ==
  ASSUME [Next]_vars, ~spawned'
  PROVE  ~spawned
<1>1. ASSUME NEW t \in Threads, Install(t) \/ Call(t) \/ Record(t) \/ Write(t) \/ WriteFails(t)
                                \/ StartThread(t)
      PROVE  ~spawned
  BY <1>1 DEF Install, Call, Record, Write, WriteFails, StartThread
<1>2. ASSUME NEW t \in Threads, NEW u \in Threads, Fork(t, u) \/ Spawn(t, u)
      PROVE  ~spawned
  BY <1>2 DEF Fork, Spawn
<1>3. QED
  BY <1>1, <1>2 DEF Next, vars

LEMMA LossInit == Init => LossInv
<1> SUFFICES ASSUME Init PROVE LossInv
  OBVIOUS
<1>1. kind = <<>> /\ fate = <<>> /\ log = <<>> /\ MaxEvents # 0
  BY LimitsAssumption DEF Init
<1>2. \A t \in Threads : ~Active(t) /\ ~At(t, "writing") /\ (At(t, "site") => t = Initial)
                         /\ (t # Initial => At(t, "none"))
  BY DEF Init, At, Active
<1>3. \A p \in Processes : proc[p].count = 0 /\ proc[p].fd = FALSE
                           /\ (proc[p].alive => p = Process[Initial])
  BY DEF Init, NoProcess
<1>4. DOMAIN fate = {} /\ DOMAIN kind = {}
  BY <1>1
<1>5. QED
  BY <1>1, <1>2, <1>3, <1>4 DEF LossInv, OwnersInv, TraceInv, FullInv, MuteInv, P

LEMMA LossStep ==
  ASSUME HookInv, MarkerInv, LossInv, [Next]_vars
  PROVE  LossInv'
  BY OwnersStep, TraceStep, FullStep, MuteStep, SpawnedStays DEF LossInv

-----------------------------------------------------------------------------
(* What the loader tells *)

\* The elements of a slice of a sequence.
LEMMA SliceOf ==
  ASSUME NEW S, NEW s \in Seq(S), NEW m \in 1 .. Len(s), NEW n \in m .. Len(s)
  PROVE  /\ Len(SubSeq(s, m, n)) = n - m + 1
         /\ \A i \in 1 .. n - m + 1 : SubSeq(s, m, n)[i] = s[m + i - 1]
<1>1. m \in Int /\ n \in Int /\ m <= n /\ \A i \in m .. n : s[i] \in S
  OBVIOUS
<1>2. /\ Len(SubSeq(s, m, n)) = IF m <= n THEN n - m + 1 ELSE 0
      /\ \A i \in 1 .. n - m + 1 : SubSeq(s, m, n)[i] = s[m + i - 1]
  BY <1>1, SubSeqProperties
<1>3. QED
  BY <1>1, <1>2

\* A unit of the log is in a line that the loader returns, cuts off or refuses.
LEMMA UnitsAreTold ==
  ASSUME HookInv, NEW i \in DOMAIN log, Diagnostics = {}
  PROVE  log[i][1] \in Reported
<1>0. DOMAIN log = 1 .. Len(log) /\ Len(log) \in Nat /\ i \in 1 .. Len(log)
  BY LenProperties DEF HookInv, TypeOK
<1>1. exists /\ ~(Len(log) > MaxBytes) /\ Read = Ends /\ ~Invalid
  BY DEF Diagnostics
<1>2. Len(log) \in Ends /\ Ends \subseteq 1 .. Len(log)
  BY <1>0 DEF Ends
<1>3. PICK j \in {k \in Ends : i <= k} : \A k \in {m \in Ends : i <= m} : j <= k
  <2> DEFINE T == {k \in Ends : i <= k}
  <2>1. T \in SUBSET Nat /\ T # {}
    <3>1. Len(log) \in T
      BY <1>0, <1>2
    <3>2. \A k \in 1 .. Len(log) : k \in Nat
      BY <1>0
    <3>3. QED
      BY <1>2, <3>1, <3>2
  <2> HIDE DEF T
  <2>2. \E x \in T : \A y \in T : x <= y
    BY <2>1, LeastOf
  <2>3. QED
    BY <2>2 DEF T
<1> DEFINE B == {k \in Ends : k < j}
           a == IF B = {} THEN 1 ELSE 1 + CHOOSE k \in B : \A m \in B : m <= k
<1>4. a \in 1 .. i
  <2>1. \A k \in B : k < i /\ k \in 1 .. Len(log)
    BY <1>0, <1>2, <1>3
  <2>2. CASE B = {}
    BY <1>0, <2>2
  <2>3. CASE B # {}
    <3> HIDE DEF B
    <3>1. B \in SUBSET Nat /\ i \in Nat /\ \A k \in B : k <= i
      BY <1>0, <2>1
    <3>2. \E k \in B : \A m \in B : m <= k
      BY <1>0, <2>3, <3>1, GreatestOf
    <3>3. (CHOOSE k \in B : \A m \in B : m <= k) \in B
      BY <3>2
    <3>4. QED
      BY <1>0, <2>1, <2>3, <3>3
  <2>4. QED
    BY <2>2, <2>3
<1>5. Line(j) = SubSeq(log, a, j)
  BY DEF Line
<1> HIDE DEF a, B
<1>6. j \in i .. Len(log) /\ j \in Ends
  BY <1>0, <1>2, <1>3
<1> DEFINE line == Line(j)
<1>7. /\ Len(line) = j - a + 1 /\ \A k \in 1 .. j - a + 1 : line[k] = log[a + k - 1]
  <2>1. log \in Seq((1 .. MaxCalls) \X (1 .. Parts))
    BY DEF HookInv, TypeOK
  <2>2. a \in 1 .. Len(log) /\ j \in a .. Len(log)
    BY <1>0, <1>4, <1>6
  <2>3. /\ Len(SubSeq(log, a, j)) = j - a + 1
        /\ \A k \in 1 .. j - a + 1 : SubSeq(log, a, j)[k] = log[a + k - 1]
    BY <2>1, <2>2, SliceOf
  <2>4. QED
    BY <1>5, <2>3
<1>8. PICK e \in 1 .. MaxCalls : line = <<<<e, 1>>, <<e, 2>>>> \/ line = <<<<e, 1>>, <<e, 2>>, <<e, 3>>>>
  <2>1. Parses(line)
    BY <1>1, <1>6 DEF Invalid
  <2> HIDE DEF line
  <2>2. QED
    BY <2>1 DEF Parses
<1> HIDE DEF line
<1>9. \A k \in 1 .. Len(line) : line[k][1] = e
  <2>1. CASE line = <<<<e, 1>>, <<e, 2>>>>
    BY <2>1
  <2>2. CASE line = <<<<e, 1>>, <<e, 2>>, <<e, 3>>>>
    BY <2>2
  <2>3. QED
    BY <1>8, <2>1, <2>2
<1>10. \A m \in a .. j : log[m][1] = e
  <2> TAKE m \in a .. j
  <2>1. m - a + 1 \in 1 .. j - a + 1 /\ a + (m - a + 1) - 1 = m
    BY <1>0, <1>4, <1>6
  <2>2. line[m - a + 1] = log[m]
    BY <1>7, <2>1
  <2>3. QED
    BY <1>7, <1>9, <2>1, <2>2
<1>11. log[i][1] = log[j][1]
  BY <1>0, <1>4, <1>6, <1>10
<1>12. log[j][1] \in Loaded
  BY <1>1, <1>6 DEF Loaded, Invalid
<1>13. QED
  BY <1>0, <1>1, <1>11, <1>12, LimitsAssumption DEF Reported

\* An event that is over is in the result, or the result says that some are
\* missing; the exceptions are those the property lists, for any number of
\* interpreters, forks, threads and limits.  (record, _load_python_audit_events)
THEOREM NoSilentLoss == Spec => []LossesAreTold
<1>1. Init => HookInv /\ MarkerInv /\ LossInv
  BY HookInit, MarkerInit, LossInit
<1>2. HookInv /\ MarkerInv /\ LossInv /\ [Next]_vars => (HookInv /\ MarkerInv /\ LossInv)'
  <2> SUFFICES ASSUME HookInv, MarkerInv, LossInv, [Next]_vars
               PROVE  (HookInv /\ MarkerInv /\ LossInv)'
    OBVIOUS
  <2>1. HookInv'
    BY TypeStep, WriterStep DEF HookInv
  <2>2. QED
    BY <2>1, MarkerStep, LossStep
<1>3. HookInv /\ MarkerInv /\ LossInv => LossesAreTold
  <2> SUFFICES ASSUME HookInv, MarkerInv, LossInv, Diagnostics = {},
                      NEW e \in DOMAIN fate, e \notin Reported,
                      ~(\E m \in Reported : kind[m] = "limit"),
                      fate[e] \notin {"open", "unchecked", "skipped", "failed", "wiped"},
                      ~(spawned /\ fate[e] = "mute"),
                      ~(fate[e] = "over" /\ \E m \in DOMAIN kind :
                                              kind[m] = "limit" /\ fate[m] = "wiped")
               PROVE  FALSE
    BY DEF LossesAreTold
  <2>1. fate[e] \in Fates /\ DOMAIN kind = DOMAIN fate
    BY TypeFacts, Histories
  <2>2. \A m \in DOMAIN fate : fate[m] \in {"written", "torn"} => m \in Reported
    BY UnitsAreTold DEF LossInv, TraceInv
  <2>3. CASE fate[e] = "over"
    BY <2>1, <2>2, <2>3 DEF LossInv, FullInv, Marked
  <2>4. CASE fate[e] = "mute"
    <3>1. log = <<>>
      BY <2>4 DEF LossInv, MuteInv
    <3>2. Loaded = {}
      BY <3>1 DEF Loaded, Read, Ends
    <3>3. QED
      BY <3>2 DEF Diagnostics
  <2>5. QED
    BY <2>1, <2>2, <2>3, <2>4 DEF Fates
<1>4. QED
  BY <1>1, <1>2, <1>3, PTL DEF Spec
==============================================================================
