--------------------------- MODULE AgentLoopProofs ---------------------------
(***************************************************************************)
(* Proofs about AgentLoop: for all proposals, policy configurations,       *)
(* supervisors and numbers of attempts, a retry has the authority of the   *)
(* attempt before and passes the builder, it follows nothing that a target *)
(* said, nothing that needs consent happens without it, and the report is  *)
(* about the last execution, has a decision on whatever was found, and     *)
(* rests on nothing that the target wrote into its log.                    *)
(***************************************************************************)
EXTENDS AgentLoop, InductionProofs

Quarantined(requests) == \E i \in DOMAIN requests : IsMalformed(requests[i])
Requests(requests) == \A i \in DOMAIN requests : IsRequest(requests[i])

-----------------------------------------------------------------------------
(* The policy *)

LEMMA Decisions ==
  ASSUME NEW r, NEW c
  PROVE  Decide(r, c) \in {"allow", "deny", "approve"}
<1>1. Evaluate(r, c) \in {"allow", "deny", "approve"}
  BY DEF Evaluate, Filesystem, Network, Process, Device, Resource
<1>2. QED
  BY <1>1 DEF Decide

\* What a proposal that is not quarantined is granted.
LEMMA Granted ==
  ASSUME NEW requests, NEW c, ~Quarantined(requests)
  PROVE  /\ Authorize(requests, c)
              = [i \in DOMAIN requests |-> [request |-> requests[i], decision |-> Decide(requests[i], c)]]
         /\ \A d : DecidedAs(Authorize(requests, c), d)
                     = {requests[i] : i \in {j \in DOMAIN requests : Decide(requests[j], c) = d}}
         /\ \A w : w \in Grants(requests, Authorize(requests, c))
                     <=> \E i \in DOMAIN requests : requests[i].wants = w /\ Decide(requests[i], c) = "allow"
         /\ IsDecided(requests, Authorize(requests, c))
<1> DEFINE A == Authorize(requests, c)
<1>1. A = [i \in DOMAIN requests |-> [request |-> requests[i], decision |-> Decide(requests[i], c)]]
  BY DEF Authorize, Quarantined
<1> HIDE DEF A
<1>2. ASSUME NEW d
      PROVE  DecidedAs(A, d) = {requests[i] : i \in {j \in DOMAIN requests : Decide(requests[j], c) = d}}
  BY <1>1 DEF DecidedAs
<1>3. \A w : w \in Grants(requests, A)
               <=> \E i \in DOMAIN requests : requests[i].wants = w /\ Decide(requests[i], c) = "allow"
  BY <1>2 DEF Grants
<1>4. IsDecided(requests, A)
  BY <1>1 DEF IsDecided
<1>5. QED
  BY <1>1, <1>2, <1>3, <1>4 DEF A

\* The contract asks for no interpreter.
LEMMA ContractIsFixed == Contract \cap Interpreters = {}
<1>1. \A w \in Contract : w.category \in {"filesystem", "resource"}
  BY DEF Contract, Capability
<1>2. \A w \in Interpreters : w.category = "process"
  BY DEF Interpreters, Execute, Capability
<1>3. QED
  BY <1>1, <1>2

\* A capability that is held is granted by the list of hosts or by an approval of
\* this request, in this run, for a pinned image.
LEMMA HeldIsApproved ==
  ASSUME NEW r, NEW c, IsRequest(r), Decide(r, c) = "allow", Held(r.wants)
  PROVE  \/ r.wants.target \in c.listed
         \/ /\ c.immutable
            /\ \E id \in c.approved :
                 id.wants = r.wants /\ id.related /\ id.context = "this run"
<1>1. /\ IsBound(r, "this run")
      /\ Evaluate(r, c) = "allow" \/ (Evaluate(r, c) = "approve" /\ r.id \in c.approved /\ c.immutable)
  BY DEF Decide
<1>2. r.id.wants = r.wants /\ r.id.related = r.related /\ r.id.context = "this run"
  <2>1. r.id = [wants |-> r.wants, risk |-> r.risk, related |-> r.related, why |-> r.why,
                context |-> "this run"]
    BY <1>1 DEF IsBound, RequestId
  <2> DEFINE id == r.id
             related == r.related
  <2>2. id = [wants |-> r.wants, risk |-> r.risk, related |-> related, why |-> r.why,
              context |-> "this run"]
    BY <2>1
  <2> HIDE DEF id, related
  <2>3. id.wants = r.wants /\ id.related = related /\ id.context = "this run"
    BY <2>2
  <2>4. QED
    BY <2>3 DEF id, related
<1>3. r.related \in BOOLEAN
  BY DEF IsRequest
<1>4. CASE r.wants.category = "device"
  <2>1. Evaluate(r, c) = Device(r.wants, r.related)
    BY <1>4 DEF Evaluate
  <2>2. Evaluate(r, c) # "allow" /\ (Evaluate(r, c) = "approve" => r.related)
    BY <2>1 DEF Device
  <2>3. QED
    BY <1>1, <1>2, <2>2
<1>5. CASE r.wants.category = "network"
  <2>1. Evaluate(r, c) = Network(r.wants, r.related, c)
    BY <1>5 DEF Evaluate
  <2>2. /\ Evaluate(r, c) = "allow" => r.wants.target \in c.listed
        /\ Evaluate(r, c) = "approve" => r.related
    BY <2>1 DEF Network
  <2>3. QED
    BY <1>1, <1>2, <2>2
<1>6. QED
  BY <1>4, <1>5 DEF Held

-----------------------------------------------------------------------------
(* Replanning *)

\* One request of the new plan.
LEMMA Swapped ==
  ASSUME NEW r, IsRequest(r), NEW x \in SafeExecutables
  PROVE  /\ Alternate(x) \in SafeExecutables /\ Alternate(x) # x
         /\ IsRequest(Swap(r, x))
         /\ r.wants # Execute(x) => Swap(r, x) = r
         /\ r.wants = Execute(x) => Swap(r, x).wants = Execute(Alternate(x))
         /\ ~IsMalformed(r) => ~IsMalformed(Swap(r, x))
<1>1. Alternate(x) \in SafeExecutables /\ Alternate(x) # x
  BY DEF Alternate, SafeExecutables
<1>2. CASE r.wants # Execute(x)
  BY <1>1, <1>2 DEF Swap
<1>3. CASE r.wants = Execute(x)
  <2> DEFINE y == Execute(Alternate(x))
             why == "alternate interpreter"
             id == RequestId(y, r.risk, r.related, why, "this run")
  <2>1. Swap(r, x) = [r EXCEPT !.wants = y, !.why = why, !.id = id]
    BY <1>3 DEF Swap
  <2> HIDE DEF y, id, why
  <2>2. Swap(r, x) = [wants |-> y, risk |-> r.risk, related |-> r.related, why |-> why, id |-> id]
    BY <2>1 DEF IsRequest
  <2>3. IsRequest(Swap(r, x)) /\ Swap(r, x).wants = y
    BY <2>2 DEF IsRequest
  <2>4. y.category = "process"
    BY DEF y, Execute, Capability
  <2>5. ~IsMalformed(Swap(r, x))
    BY <2>3, <2>4 DEF IsMalformed
  <2>6. QED
    BY <1>1, <1>3, <2>3, <2>5 DEF y
<1>4. QED
  BY <1>2, <1>3

\* A plan that was buildable, changed and let through the boundary is buildable
\* again, with the same authority but for the interpreter.
LEMMA Retried ==
  ASSUME NEW p, NEW c, Requests(p.requests), ~Quarantined(p.requests),
         MayBuild(p.executable, p.requests, Authorize(p.requests, c)),
         NEW q, q = Replan(p, "command_or_config"),
         ~HasDuplicateIds(q.requests), ~StopsAtBoundary(Authorize(q.requests, c))
  PROVE  /\ q.executable # p.executable
         /\ Requests(q.requests) /\ ~Quarantined(q.requests)
         /\ MayBuild(q.executable, q.requests, Authorize(q.requests, c))
         /\ Grants(q.requests, Authorize(q.requests, c)) \ Interpreters
              = Grants(p.requests, Authorize(p.requests, c)) \ Interpreters
<1> DEFINE x == p.executable
           D == DOMAIN p.requests
<1>1. x \in SafeExecutables
  BY DEF MayBuild
<1>2. /\ q.executable = Alternate(x) /\ DOMAIN q.requests = D
      /\ \A i \in D : q.requests[i] = Swap(p.requests[i], x)
  BY DEF Replan
<1>3. Requests(q.requests) /\ ~Quarantined(q.requests)
  BY <1>1, <1>2, Swapped DEF Requests, Quarantined
<1>4. \A w : w \notin Interpreters =>
        (w \in Grants(q.requests, Authorize(q.requests, c))
          <=> w \in Grants(p.requests, Authorize(p.requests, c)))
  <2> SUFFICES ASSUME NEW w, w \notin Interpreters
               PROVE  (\E i \in D : q.requests[i].wants = w /\ Decide(q.requests[i], c) = "allow")
                      <=> \E i \in D : p.requests[i].wants = w /\ Decide(p.requests[i], c) = "allow"
    BY <1>2, <1>3, Granted
  <2>1. Execute(x) # w /\ Execute(Alternate(x)) # w
    BY <1>1, Swapped DEF Interpreters, Alternate, SafeExecutables
  <2>2. \A i \in D : q.requests[i].wants = w \/ p.requests[i].wants = w => q.requests[i] = p.requests[i]
    BY <1>1, <1>2, <2>1, Swapped DEF Requests
  <2>3. QED
    BY <2>2
<1>5. Execute(Alternate(x)) \in Grants(q.requests, Authorize(q.requests, c))
  <2>1. PICK i \in D : p.requests[i].wants = Execute(x)
    BY Granted DEF MayBuild
  <2>2. q.requests[i].wants = Execute(Alternate(x))
    BY <1>1, <1>2, <2>1, Swapped DEF Requests
  <2>3. Decide(q.requests[i], c) \in {"allow", "deny", "approve"}
    BY Decisions
  <2>4. Decide(q.requests[i], c) # "approve"
    <3>1. DecidedAs(Authorize(q.requests, c), "approve") = {}
      BY DEF StopsAtBoundary
    <3>2. SUFFICES ASSUME Decide(q.requests[i], c) = "approve" PROVE FALSE
      OBVIOUS
    <3>3. q.requests[i] \in DecidedAs(Authorize(q.requests, c), "approve")
      BY <1>2, <1>3, <3>2, Granted
    <3>4. QED
      BY <3>1, <3>3
  <2>5. Decide(q.requests[i], c) # "deny"
    <3>1. q.requests[i].wants.target \in RequiredTargets
      <4>1. Alternate(x) \in {"python", "python3"}
        BY DEF Alternate
      <4>2. q.requests[i].wants.target = Alternate(x)
        BY <2>2 DEF Execute, Capability
      <4>3. QED
        BY <4>1, <4>2 DEF RequiredTargets
    <3>2. SUFFICES ASSUME Decide(q.requests[i], c) = "deny" PROVE FALSE
      OBVIOUS
    <3>3. q.requests[i] \in DecidedAs(Authorize(q.requests, c), "deny")
      BY <1>2, <1>3, <3>2, Granted
    <3>4. QED
      BY <3>1, <3>3 DEF StopsAtBoundary
  <2>6. QED
    BY <1>2, <1>3, <2>2, <2>3, <2>4, <2>5, Granted
<1>6. Contract \subseteq Grants(q.requests, Authorize(q.requests, c))
  BY <1>4, ContractIsFixed DEF MayBuild
<1>7. MayBuild(q.executable, q.requests, Authorize(q.requests, c))
  <2>1. IsDecided(q.requests, Authorize(q.requests, c)) /\ Alternate(x) \in SafeExecutables
    BY <1>1, <1>3, Granted DEF Alternate, SafeExecutables
  <2>2. QED
    BY <1>2, <1>5, <1>6, <2>1 DEF MayBuild
<1>8. QED
  BY <1>1, <1>2, <1>3, <1>4, <1>7 DEF Alternate, SafeExecutables

-----------------------------------------------------------------------------
(* Sequences *)

IsSeq(s) == \E S : s \in Seq(S)

LEMMA Appended ==
  ASSUME NEW s, IsSeq(s), NEW e
  PROVE  /\ Len(s) \in Nat /\ DOMAIN s = 1 .. Len(s)
         /\ IsSeq(Append(s, e)) /\ Len(Append(s, e)) = Len(s) + 1
         /\ Append(s, e)[Len(s) + 1] = e
         /\ \A i \in 1 .. Len(s) : Append(s, e)[i] = s[i]
<1>1. PICK S : s \in Seq(S)
  BY DEF IsSeq
<1>2. s \in Seq(S \cup {e}) /\ e \in S \cup {e}
  BY <1>1
<1>3. Append(s, e) \in Seq(S \cup {e})
  BY <1>2
<1>4. QED
  BY <1>2, <1>3 DEF IsSeq

LEMMA Lengths ==
  ASSUME NEW s, IsSeq(s)
  PROVE  Len(s) \in Nat /\ DOMAIN s = 1 .. Len(s) /\ (Len(s) = 0 <=> s = <<>>)
<1>1. PICK S : s \in Seq(S)
  BY DEF IsSeq
<1>2. QED
  BY <1>1

LEMMA Short ==
  /\ IsSeq(<<>>) /\ Len(<<>>) = 0
  /\ \A e : IsSeq(<<e>>) /\ Len(<<e>>) = 1 /\ <<e>>[1] = e /\ Append(<<>>, e) = <<e>>
<1>1. <<>> \in Seq({}) /\ Len(<<>>) = 0
  OBVIOUS
<1>2. IsSeq(<<>>)
  BY <1>1, Zenon DEF IsSeq
<1>3. ASSUME NEW e PROVE IsSeq(<<e>>) /\ Len(<<e>>) = 1 /\ <<e>>[1] = e /\ Append(<<>>, e) = <<e>>
  <2>1. <<e>> \in Seq({e})
    OBVIOUS
  <2>2. IsSeq(<<e>>)
    BY <2>1, Zenon DEF IsSeq
  <2>3. QED
    BY <2>2
<1>4. QED
  BY <1>1, <1>2, <1>3

LEMMA LastReplaced ==
  ASSUME NEW s, IsSeq(s), s # <<>>, NEW e
  PROVE  /\ IsSeq([s EXCEPT ![Len(s)] = e])
         /\ Len([s EXCEPT ![Len(s)] = e]) = Len(s)
         /\ [s EXCEPT ![Len(s)] = e][Len(s)] = e
         /\ \A i \in 1 .. Len(s) - 1 : [s EXCEPT ![Len(s)] = e][i] = s[i]
<1> DEFINE t == [s EXCEPT ![Len(s)] = e]
<1>1. PICK S : s \in Seq(S)
  BY DEF IsSeq
<1>2. t \in Seq(S \cup {e}) /\ Len(t) = Len(s)
  BY <1>1
<1>3. Len(s) \in Nat \ {0} /\ DOMAIN s = 1 .. Len(s)
  BY <1>1
<1>4. t[Len(s)] = e /\ \A i \in 1 .. Len(s) - 1 : t[i] = s[i]
  BY <1>3
<1> HIDE DEF t
<1>5. IsSeq(t)
  BY <1>2, Zenon DEF IsSeq
<1>6. QED
  BY <1>2, <1>4, <1>5 DEF t

-----------------------------------------------------------------------------
(* What results say *)

LEMMA ClassesExhaust == \A r : Classification(r) \in Classes
  BY DEF Classification, FailureClass, ExitClass, Diagnosis, Classes

\* The classification that changes a plan is never that of a result in which the
\* target started, was blocked, or was badly observed.
LEMMA CommandIsUntold ==
  ASSUME NEW r, Classification(r) = "command_or_config"
  PROVE  ~TargetStarted(r) /\ ~Observes(r) /\ Blocked(r) = {}
  BY DEF Classification, FailureClass

LEMMA Verdicts ==
  \A r, f, c, a : /\ Verdict(r, f, c, a) \in {"review", "unsafe", "inconclusive"}
                  /\ StaticVerdict(f, c, a) \in {"review", "inconclusive"}
  BY DEF Verdict, StaticVerdict

LEMMA ResultsAreWellFormed ==
  /\ \A r : IsWellFormed(Downgraded(r))
  /\ IsWellFormed(NotInventoried("blocked"))
  /\ \A r \in Previews : IsWellFormed(r)
<1>1. \A e, t : /\ IsWellFormed(Result("failed", None, e, t)) /\ IsWellFormed(Result("blocked", None, e, t))
                /\ IsWellFormed(Result("planned", None, e, t))
  BY DEF IsWellFormed, Result, None
<1>2. QED
  BY <1>1 DEF Downgraded, NotInventoried, Previews

-----------------------------------------------------------------------------
(* What is proposed *)

\* The contract asks for a fixed number of capabilities.
LEMMA ContractIsFinite == IsFiniteSet(Contract)
<1>0. \A x : IsFiniteSet({x})
  BY FS_Singleton
<1>1. IsFiniteSet(ContractPaths)
  <2> DEFINE actions == {"read", "write"}
             targets == {"<output>", "<temporary>", "<shared-memory>"}
  <2>1. IsFiniteSet(actions)
    <3>1. actions = {"read"} \cup {"write"}
      OBVIOUS
    <3> HIDE DEF actions
    <3>2. QED
      BY <1>0, <3>1, FS_Union
  <2>2. IsFiniteSet(targets)
    <3>1. targets = {"<output>"} \cup ({"<temporary>"} \cup {"<shared-memory>"})
      OBVIOUS
    <3> HIDE DEF targets
    <3>2. QED
      BY <1>0, <3>1, FS_Union
  <2> HIDE DEF actions, targets
  <2>3. IsFiniteSet(actions \X targets)
    BY <2>1, <2>2, FS_Product
  <2>4. IsFiniteSet({<<"read", "<repository>">>} \cup (actions \X targets))
    BY <1>0, <2>3, FS_Union
  <2>5. QED
    BY <2>4 DEF ContractPaths, actions, targets
<1>2. IsFiniteSet(ContractLimits)
  <2>1. ContractLimits =
          {<<"cpu", "1">>} \cup ({<<"memory_mb", "1024">>} \cup ({<<"pids", "128">>} \cup
          ({<<"timeout_seconds", "300">>} \cup ({<<"output_mb", "1024">>} \cup
          ({<<"output_files", "10000">>} \cup ({<<"temporary_mb", "64">>} \cup
           {<<"shared_memory_mb", "16">>}))))))
    BY DEF ContractLimits
  <2>2. QED
    BY <1>0, <2>1, FS_Union
<1>3. IsFiniteSet({Capability("filesystem", p[1], p[2]) : p \in ContractPaths})
  <2> DEFINE asked == [p \in ContractPaths |-> Capability("filesystem", p[1], p[2])]
  <2>1. IsFiniteSet({asked[p] : p \in DOMAIN asked})
    BY <1>1, ImageIsFinite
  <2>2. {asked[p] : p \in DOMAIN asked}
          = {Capability("filesystem", p[1], p[2]) : p \in ContractPaths}
    OBVIOUS
  <2>3. QED
    BY <2>1, <2>2
<1>4. IsFiniteSet({Capability("resource", l[1], l[2]) : l \in ContractLimits})
  <2> DEFINE asked == [l \in ContractLimits |-> Capability("resource", l[1], l[2])]
  <2>1. IsFiniteSet({asked[l] : l \in DOMAIN asked})
    BY <1>2, ImageIsFinite
  <2>2. {asked[l] : l \in DOMAIN asked}
          = {Capability("resource", l[1], l[2]) : l \in ContractLimits}
    OBVIOUS
  <2>3. QED
    BY <2>1, <2>2
<1>5. QED
  BY <1>3, <1>4, FS_Union DEF Contract

LEMMA InferredIsFinite ==
  ASSUME NEW p \in Profiles
  PROVE  IsFiniteSet(Inferred(p))
<1>1. IsFiniteSet({Request(w, "low", TRUE, "contract") : w \in Contract})
  <2> DEFINE asked == [w \in Contract |-> Request(w, "low", TRUE, "contract")]
  <2>1. IsFiniteSet({asked[w] : w \in DOMAIN asked})
    BY ContractIsFinite, ImageIsFinite
  <2>2. {asked[w] : w \in DOMAIN asked} = {Request(w, "low", TRUE, "contract") : w \in Contract}
    OBVIOUS
  <2>3. QED
    BY <2>1, <2>2
<1>2. IsFiniteSet({RequestFor(p, f) : f \in p.findings})
  <2> DEFINE asked == [f \in p.findings |-> RequestFor(p, f)]
  <2>1. IsFiniteSet(p.findings)
    BY ProfilesAssumption DEF IsProfile
  <2>2. IsFiniteSet({asked[f] : f \in DOMAIN asked})
    BY <2>1, ImageIsFinite
  <2>3. {asked[f] : f \in DOMAIN asked} = {RequestFor(p, f) : f \in p.findings}
    OBVIOUS
  <2>4. QED
    BY <2>2, <2>3
<1>3. IsFiniteSet({Request(Execute(p.entrypoint), "low", TRUE, "entrypoint")})
  BY FS_Singleton
<1>4. QED
  BY <1>1, <1>2, <1>3, FS_Union DEF Inferred

\* What the requests of a proposal are, and that one of the bundled planner for a
\* repository with an entrypoint has one for each finding.
Covers(requests, f) ==
  \E i \in DOMAIN requests : requests[i].wants = Wanted(f) /\ requests[i].risk = f.risk

LEMMA Proposed ==
  ASSUME NEW p \in Proposals
  PROVE  /\ Requests(p.requests)
         /\ p.bundled /\ p.executable # NoSteps =>
              \A f \in p.findings : IsFinding(f) /\ Covers(p.requests, f)
<1>1. CASE p \in Foreign
  BY <1>1, ForeignAssumption DEF Requests
<1>2. ASSUME NEW q \in Profiles, p = Planned(q)
      PROVE  /\ Requests(p.requests)
             /\ p.executable # NoSteps =>
                  \A f \in p.findings : IsFinding(f) /\ Covers(p.requests, f)
  <2> DEFINE S == Inferred(q)
             s == InOrder(S)
  <2>1. /\ p.executable = q.entrypoint /\ p.findings = q.findings
        /\ p.requests = IF q.entrypoint = NoSteps THEN <<>> ELSE s
    BY <1>2 DEF Planned
  <2>2. s \in Seq(S) /\ \A r \in S : \E i \in DOMAIN s : s[i] = r
    BY InferredIsFinite, EachIsListed DEF InOrder
  <2>3. \A i \in DOMAIN s : s[i] \in S
    BY <2>2
  <2>4. \A r \in S : IsRequest(r)
    <3>1. ASSUME NEW w, NEW risk, NEW related \in BOOLEAN, NEW why
          PROVE  IsRequest(Request(w, risk, related, why))
      BY DEF IsRequest, Request
    <3>2. ASSUME NEW f PROVE Related(q, f) \in BOOLEAN
      <4>1. CASE f.category = "network"
        BY <4>1 DEF Related
      <4>2. CASE f.category = "device"
        BY <4>2 DEF Related
      <4>3. CASE f.category \in {"secret", "side_effect"}
        BY <4>3 DEF Related
      <4>4. CASE f.category \notin {"network", "device", "secret", "side_effect"}
        <5>1. Related(q, f) = (f.target \in q.about)
          BY <4>4 DEF Related
        <5>2. QED
          BY <5>1
      <4>5. QED
        BY <4>1, <4>2, <4>3, <4>4
    <3>3. QED
      BY <3>1, <3>2 DEF Inferred, RequestFor
  <2>5. Requests(p.requests)
    BY <2>1, <2>3, <2>4 DEF Requests
  <2>6. ASSUME q.entrypoint # NoSteps, NEW f \in q.findings PROVE IsFinding(f) /\ Covers(s, f)
    <3>1. RequestFor(q, f) \in S
      BY DEF Inferred
    <3>2. PICK i \in DOMAIN s : s[i] = RequestFor(q, f)
      BY <2>2, <3>1
    <3>3. s[i].wants = Wanted(f) /\ s[i].risk = f.risk
      <4>1. RequestFor(q, f).wants = Wanted(f) /\ RequestFor(q, f).risk = f.risk
        BY DEF RequestFor, Request
      <4>2. QED
        BY <3>2, <4>1
    <3>4. IsFinding(f)
      BY ProfilesAssumption DEF IsProfile
    <3>5. QED
      BY <3>3, <3>4 DEF Covers
  <2>7. QED
    BY <2>1, <2>5, <2>6
<1>3. QED
  BY <1>1, <1>2 DEF Proposals

-----------------------------------------------------------------------------
(* The invariant *)

Loop == {"build", "preview", "execute", "decide", "diff"}

\* The decisions are those on the plan, and nothing happens for a plan that is
\* malformed or only analyzed.
PlanInv ==
  /\ Requests(plan.requests)
  /\ \A i \in DOMAIN authorization : authorization[i].decision \in {"allow", "deny", "approve"}
  /\ step \in Loop \cup {"inventory", "reported"} => authorization = Authorize(plan.requests, config)
  /\ step \in Loop \cup {"inventory"} \/ built # <<>>
       => ~Quarantined(plan.requests) /\ mode # "analyze"
  /\ step \in {"inventory", "execute", "decide", "diff"} => mode = "shadow"
  /\ mode \in Modes /\ config \in Configs
  /\ runDir \in {"absent", "empty", "used"} /\ (runDir = "used" => mode = "shadow")

\* How many sandboxes, results and classifications there are at each step.
CountInv ==
  /\ step \in {"snapshot", "authorize", "inventory"} \cup Loop \cup Final
  /\ IsSeq(built) /\ IsSeq(history) /\ IsSeq(reflections)
  /\ limit \in 1 .. 3 /\ index \in Nat /\ index < limit
  /\ Len(built) <= index + 1 /\ index <= Len(history)
  /\ plan.attempt = IF step = "snapshot" \/ (step = "raised" /\ plan.attempt = 0) THEN 0 ELSE index + 1
  /\ step \in {"snapshot", "authorize", "inventory"}
       => built = <<>> /\ history = <<>> /\ reflections = <<>> /\ index = 0
  /\ step = "build" => Len(built) = index /\ Len(history) = index
  /\ step \in {"preview", "execute"} => Len(built) = index + 1 /\ Len(history) = index
  /\ step \in {"decide", "diff"} => Len(built) = index + 1 /\ Len(history) = index + 1

\* What was built had the authority of the first attempt, and what will be built
\* has it too.
Approved(w) ==
  \/ w.target \in config.listed
  \/ /\ config.immutable
     /\ \E id \in config.approved : id.wants = w /\ id.related /\ id.context = "this run"

AuthorityInv ==
  /\ \A i \in 1 .. Len(built) :
       /\ Execute(built[i].executable) \in built[i].grants
       /\ built[i].grants \ Interpreters = built[1].grants \ Interpreters
       /\ \A w \in built[i].grants : Held(w) => Approved(w)
  /\ \A i \in 2 .. Len(built) : built[i].executable # built[i - 1].executable
  /\ step \in Loop /\ Len(built) > 0
       => /\ Grants(plan.requests, authorization) \ Interpreters = built[1].grants \ Interpreters
          /\ MayBuild(plan.executable, plan.requests, authorization)
  /\ step = "build" /\ Len(built) > 0 => plan.executable # built[Len(built)].executable
  /\ step \in (Loop \ {"build"}) \cup {"reported"} /\ built # <<>>
       => built[Len(built)].executable = plan.executable

\* The report is about the last execution, and only a failure to start the
\* command led to another one.
EvidenceInv ==
  /\ \A i \in 1 .. Len(history) : IsWellFormed(history[i])
  /\ \A i \in 1 .. index : Classification(history[i]) = "command_or_config"
  /\ \A i \in 1 .. Len(reflections) : reflections[i] \in Classes
  /\ verdict \in {"none", "review", "unsafe", "inconclusive"}
  /\ step \in {"decide", "diff"} \/ (step = "reported" /\ history # <<>>)
       => /\ outcome = Execution.status
          /\ reflections[Len(reflections)] = Classification(Execution)
          /\ verdict = Verdict(Execution, findings, complete, authorization)

Inv == PlanInv /\ CountInv /\ AuthorityInv /\ EvidenceInv

-----------------------------------------------------------------------------
(* Before the attempts *)

LEMMA InitInv == Init => Inv
<1> SUFFICES ASSUME Init PROVE Inv
  OBVIOUS
<1>1. plan = NoPlan /\ plan.requests = <<>> /\ plan.attempt = 0
  BY DEF Init, NoPlan
<1>2. limit \in 1 .. 3
  <2>1. PICK n \in Requested : limit = Clamp(n)
    BY DEF Init
  <2>2. n \in Int
    BY RequestedAssumption
  <2>3. QED
    BY <2>1, <2>2 DEF Clamp
<1>3. PlanInv
  BY <1>1 DEF Init, PlanInv, Requests, Loop
<1>4. CountInv
  BY <1>1, <1>2, Short DEF Init, CountInv, Loop, Final
<1>5. AuthorityInv
  BY Short DEF Init, AuthorityInv, Loop
<1>6. EvidenceInv
  BY Short DEF Init, EvidenceInv
<1>7. QED
  BY <1>3, <1>4, <1>5, <1>6 DEF Inv

LEMMA RaiseStep == ASSUME Inv, Raise PROVE Inv'
<1>1. PlanInv'
  BY DEF Inv, Raise, PlanInv, input, report, Loop
<1>2. CountInv'
  BY DEF Inv, Raise, CountInv, input, report, Loop, Final
<1>3. AuthorityInv'
  BY DEF Inv, Raise, AuthorityInv, Approved, input, report, Loop
<1>4. EvidenceInv'
  BY DEF Inv, Raise, EvidenceInv, Execution, input, report, profile
<1>5. QED
  BY <1>1, <1>2, <1>3, <1>4 DEF Inv

LEMMA ProposeStep == ASSUME Inv, Propose PROVE Inv'
<1>1. CASE Raise
  BY <1>1, RaiseStep
<1>2. ASSUME NEW p \in Proposals,
             plan' = [executable |-> p.executable, requests |-> p.requests, attempt |-> 1],
             step = "snapshot", step' = "authorize",
             UNCHANGED <<input, authorization, index, built, runDir, report>>
      PROVE  Inv'
  <2>1. plan'.requests = p.requests /\ plan'.attempt = 1
    BY <1>2
  <2>2. Requests(p.requests)
    BY Proposed
  <2>3. built = <<>> /\ history = <<>> /\ reflections = <<>> /\ index = 0
    BY <1>2 DEF Inv, CountInv
  <2>4. PlanInv'
    BY <1>2, <2>1, <2>2, <2>3 DEF Inv, PlanInv, input, report, Loop
  <2>5. CountInv'
    BY <1>2, <2>1, <2>3 DEF Inv, CountInv, input, report, Loop, Final
  <2>6. AuthorityInv'
    BY <1>2, <2>3, Short DEF Inv, AuthorityInv, input, report, Loop
  <2>7. EvidenceInv'
    BY <1>2 DEF Inv, EvidenceInv, input, report
  <2>8. QED
    BY <2>4, <2>5, <2>6, <2>7 DEF Inv
<1>3. QED
  BY <1>1, <1>2 DEF Propose

LEMMA DecidedRange ==
  ASSUME NEW requests, NEW c, NEW i \in DOMAIN Authorize(requests, c)
  PROVE  Authorize(requests, c)[i].decision \in {"allow", "deny", "approve"}
  BY Decisions DEF Authorize

LEMMA AuthorizeStep == ASSUME Inv, AuthorizePlan PROVE Inv'
<1>1. CASE Raise
  BY <1>1, RaiseStep
<1>2. CASE ~Raise
  <2> DEFINE malformed == Quarantined(plan.requests)
  <2>1. /\ step = "authorize"
        /\ authorization' = Authorize(plan.requests, config)
        /\ verdict' = StaticVerdict(findings, complete, authorization')
        /\ step' = IF malformed \/ mode = "analyze" \/ plan.executable = NoSteps
                   THEN "reported"
                   ELSE IF mode = "shadow" THEN "inventory" ELSE "build"
        /\ UNCHANGED <<input, profile, plan, index, built, runDir, history, reflections>>
    BY <1>2 DEF AuthorizePlan, Quarantined
  <2> HIDE DEF malformed
  <2>2. built = <<>> /\ history = <<>> /\ reflections = <<>> /\ index = 0
    BY <2>1 DEF Inv, CountInv
  <2>3. \A i \in DOMAIN authorization' : authorization'[i].decision \in {"allow", "deny", "approve"}
    BY <2>1, DecidedRange
  <2>4. step' \in {"reported", "inventory", "build"}
    BY <2>1
  <2>5. /\ step' # "reported" => ~malformed /\ mode # "analyze"
        /\ step' = "inventory" => mode = "shadow"
    BY <2>1
  <2>6. PlanInv'
    BY <2>1, <2>2, <2>3, <2>4, <2>5 DEF Inv, PlanInv, input, Loop, malformed
  <2>7. CountInv'
    BY <2>1, <2>2, <2>4, Short DEF Inv, CountInv, input, Loop, Final
  <2>8. AuthorityInv'
    BY <2>1, <2>2, <2>4, Short DEF Inv, AuthorityInv, Loop
  <2>9. EvidenceInv'
    BY <2>1, <2>2, <2>4, Short, Verdicts DEF Inv, EvidenceInv
  <2>10. QED
    BY <2>6, <2>7, <2>8, <2>9 DEF Inv
<1>3. QED
  BY <1>1, <1>2

LEMMA InventoryStep == ASSUME Inv, Inventory PROVE Inv'
<1>1. /\ step = "inventory" /\ built = <<>> /\ history = <<>> /\ reflections = <<>> /\ index = 0
      /\ UNCHANGED <<input, profile, plan, authorization, index, built, runDir>>
  BY DEF Inv, CountInv, Inventory
<1>2. CASE step' = "build" /\ UNCHANGED report
  <2>1. PlanInv'
    BY <1>1, <1>2 DEF Inv, PlanInv, input, Loop
  <2>2. CountInv'
    BY <1>1, <1>2, Short DEF Inv, CountInv, input, report, Loop, Final
  <2>3. AuthorityInv'
    BY <1>1, <1>2, Short DEF Inv, AuthorityInv, Loop
  <2>4. EvidenceInv'
    BY <1>1, <1>2 DEF Inv, EvidenceInv, report, profile
  <2>5. QED
    BY <2>1, <2>2, <2>3, <2>4 DEF Inv
<1>3. CASE /\ history' = <<NotInventoried("blocked")>> /\ Reflect(NotInventoried("blocked"))
           /\ step' = "reported"
  <2> DEFINE r == NotInventoried("blocked")
  <2>1. /\ reflections' = <<Classification(r)>> /\ history' = <<r>>
        /\ verdict' = Verdict(r, findings, complete, authorization) /\ outcome' = r.status
    BY <1>1, <1>3, Short DEF Reflect
  <2>2. IsWellFormed(r)
    BY ResultsAreWellFormed
  <2> HIDE DEF r
  <2>3. /\ Len(history') = 1 /\ history'[1] = r /\ IsSeq(history')
        /\ Len(reflections') = 1 /\ reflections'[1] = Classification(r) /\ IsSeq(reflections')
    BY <2>1, Short
  <2>4. PlanInv'
    BY <1>1, <1>3 DEF Inv, PlanInv, input, Loop
  <2>5. CountInv'
    BY <1>1, <1>3, <2>3, Short DEF Inv, CountInv, input, Loop, Final
  <2>6. AuthorityInv'
    BY <1>1, <1>3, Short DEF Inv, AuthorityInv, Loop
  <2>7. EvidenceInv'
    BY <1>1, <1>3, <2>1, <2>2, <2>3, ClassesExhaust, Verdicts DEF Inv, EvidenceInv, Execution, profile
  <2>8. QED
    BY <2>4, <2>5, <2>6, <2>7 DEF Inv
<1>4. QED
  BY <1>2, <1>3 DEF Inventory

-----------------------------------------------------------------------------
(* An attempt *)

LEMMA BuildStep == ASSUME Inv, Build PROVE Inv'
<1>1. CASE Raise
  BY <1>1, RaiseStep
<1>2. CASE ~Raise
  <2> DEFINE b == [executable |-> plan.executable, grants |-> Grants(plan.requests, authorization)]
             n == Len(built)
  <2>1. /\ step = "build" /\ MayBuild(plan.executable, plan.requests, authorization)
        /\ built' = Append(built, b)
        /\ runDir' = IF runDir = "absent" THEN "empty" ELSE runDir
        /\ step' = IF mode = "shadow" THEN "execute" ELSE "preview"
        /\ UNCHANGED <<input, profile, plan, authorization, index, report>>
    BY <1>2 DEF Build
  <2>2. /\ b.executable = plan.executable /\ b.grants = Grants(plan.requests, authorization)
    OBVIOUS
  <2> HIDE DEF b
  <2>3. /\ IsSeq(built) /\ n = index /\ Len(history) = index /\ index \in Nat
        /\ authorization = Authorize(plan.requests, config) /\ ~Quarantined(plan.requests)
        /\ mode # "analyze" /\ Requests(plan.requests)
    BY <2>1 DEF Inv, CountInv, PlanInv, Loop
  <2>4. /\ IsSeq(built') /\ Len(built') = n + 1 /\ built'[n + 1] = b /\ n \in Nat
        /\ \A i \in 1 .. n : built'[i] = built[i]
    BY <2>1, <2>3, Appended
  <2>5. built' # <<>>
    BY <2>4, Short
  <2>6. PlanInv'
    BY <2>1, <2>3 DEF Inv, PlanInv, input, report, Loop
  <2>7. CountInv'
    BY <2>1, <2>3, <2>4 DEF Inv, CountInv, input, report, Loop, Final
  <2>8. AuthorityInv'
    <3>0. /\ UNCHANGED <<config, plan, authorization>>
          /\ MayBuild(plan.executable, plan.requests, authorization)
      BY <2>1 DEF input
    <3>1. ASSUME NEW w \in b.grants, Held(w) PROVE Approved(w)
      <4>1. PICK i \in DOMAIN plan.requests :
               plan.requests[i].wants = w /\ Decide(plan.requests[i], config) = "allow"
        BY <2>2, <2>3, <3>1, Granted
      <4>2. IsRequest(plan.requests[i])
        BY <2>3 DEF Requests
      <4>3. QED
        BY <3>1, <4>1, <4>2, HeldIsApproved DEF Approved
    <3>2. Execute(b.executable) \in b.grants
      BY <2>2, <3>0 DEF MayBuild
    <3>3. b.grants \ Interpreters = built'[1].grants \ Interpreters
      <4>1. CASE n = 0
        BY <2>4, <4>1
      <4>2. CASE n > 0
        <5>1. b.grants \ Interpreters = built[1].grants \ Interpreters
          BY <2>1, <2>2, <4>2 DEF Inv, AuthorityInv, Loop
        <5>2. built'[1] = built[1]
          BY <2>4, <4>2
        <5>3. QED
          BY <5>1, <5>2
      <4>3. QED
        BY <2>4, <4>1, <4>2
    <3>4. ASSUME NEW i \in 1 .. Len(built')
          PROVE  /\ Execute(built'[i].executable) \in built'[i].grants
                 /\ built'[i].grants \ Interpreters = built'[1].grants \ Interpreters
                 /\ \A w \in built'[i].grants : Held(w) => Approved(w)
      <4>1. CASE i = n + 1
        BY <2>4, <3>1, <3>2, <3>3, <4>1
      <4>2. CASE i \in 1 .. n
        <5>1. built'[i] = built[i] /\ built'[1] = built[1]
          BY <2>4, <4>2
        <5>2. QED
          BY <4>2, <5>1 DEF Inv, AuthorityInv
      <4>3. QED
        BY <2>4, <4>1, <4>2
    <3>5. ASSUME NEW i \in 2 .. Len(built')
          PROVE  built'[i].executable # built'[i - 1].executable
      <4>1. CASE i = n + 1
        <5>1. n > 0 /\ built'[i - 1] = built[n]
          BY <2>4, <4>1
        <5>2. plan.executable # built[n].executable
          BY <2>1, <5>1 DEF Inv, AuthorityInv
        <5>3. QED
          BY <2>2, <2>4, <4>1, <5>1, <5>2
      <4>2. CASE i \in 2 .. n
        <5>1. built'[i] = built[i] /\ built'[i - 1] = built[i - 1]
          BY <2>4, <4>2
        <5>2. QED
          BY <4>2, <5>1 DEF Inv, AuthorityInv
      <4>3. QED
        BY <2>4, <4>1, <4>2
    <3>6. /\ Grants(plan.requests, authorization) \ Interpreters = built'[1].grants \ Interpreters
          /\ step' # "build" /\ built'[Len(built')].executable = plan.executable
      BY <2>1, <2>2, <2>4, <3>3
    <3>7. (\A w : Held(w) /\ Approved(w) => Approved(w)')
      BY <3>0 DEF Approved
    <3>8. QED
      BY <3>0, <3>4, <3>5, <3>6, <3>7 DEF AuthorityInv
  <2>9. EvidenceInv'
    BY <2>1 DEF Inv, EvidenceInv, report, Loop
  <2>10. QED
    BY <2>6, <2>7, <2>8, <2>9 DEF Inv
<1>3. QED
  BY <1>1, <1>2

\* A result that is appended, classified and assessed.
LEMMA ResultStep ==
  ASSUME Inv, step \in {"preview", "execute"}, NEW r, IsWellFormed(r),
         history' = Append(history, r), Reflect(r),
         step' = IF step = "preview" THEN "reported" ELSE "decide",
         runDir' \in {runDir, "used"}, runDir' = "used" => mode = "shadow",
         UNCHANGED <<input, profile, plan, authorization, index, built>>
  PROVE  Inv'
<1> DEFINE n == Len(history)
           m == Len(reflections)
<1>1. /\ IsSeq(history) /\ IsSeq(reflections) /\ IsSeq(built) /\ n = index /\ Len(built) = index + 1
      /\ index \in Nat
  BY DEF Inv, CountInv
<1>2. /\ IsSeq(history') /\ Len(history') = n + 1 /\ history'[n + 1] = r /\ n \in Nat
      /\ \A i \in 1 .. n : history'[i] = history[i]
  BY <1>1, Appended
<1>3. reflections' = Append(reflections, Classification(r))
  BY DEF Reflect
<1>4. /\ IsSeq(reflections') /\ Len(reflections') = m + 1 /\ reflections'[m + 1] = Classification(r)
      /\ m \in Nat /\ \A i \in 1 .. m : reflections'[i] = reflections[i]
  BY <1>1, <1>3, Appended
<1>5. PlanInv'
  BY DEF Inv, PlanInv, input, Loop
<1>6. CountInv'
  BY <1>1, <1>2, <1>4 DEF Inv, CountInv, input, Loop, Final
<1>7. AuthorityInv'
  <2>1. /\ UNCHANGED <<config, plan, authorization, built>> /\ step' # "build"
        /\ built # <<>> => built[Len(built)].executable = plan.executable
        /\ MayBuild(plan.executable, plan.requests, authorization)
        /\ Grants(plan.requests, authorization) \ Interpreters = built[1].grants \ Interpreters
    BY <1>1 DEF Inv, AuthorityInv, Loop, input
  <2>2. \A w : Approved(w) => Approved(w)'
    BY <2>1 DEF Approved
  <2>3. QED
    BY <2>1, <2>2 DEF Inv, AuthorityInv
<1>8. EvidenceInv'
  <2>1. \A i \in 1 .. Len(history') : IsWellFormed(history'[i])
    BY <1>2 DEF Inv, EvidenceInv
  <2>2. \A i \in 1 .. index : Classification(history'[i]) = "command_or_config"
    BY <1>1, <1>2 DEF Inv, EvidenceInv
  <2>3. \A i \in 1 .. Len(reflections') : reflections'[i] \in Classes
    BY <1>4, ClassesExhaust DEF Inv, EvidenceInv
  <2>4. verdict' = Verdict(r, findings, complete, authorization) /\ outcome' = r.status
    BY DEF Reflect
  <2>5. Execution' = r
    BY <1>2 DEF Execution
  <2>6. QED
    BY <1>4, <2>1, <2>2, <2>3, <2>4, <2>5, Verdicts DEF EvidenceInv, profile
<1>9. QED
  BY <1>5, <1>6, <1>7, <1>8 DEF Inv

LEMMA PreviewStep == ASSUME Inv, Preview PROVE Inv'
<1>1. PICK r \in Previews : history' = Append(history, r) /\ Reflect(r)
  BY DEF Preview
<1>2. /\ step = "preview" /\ step' = "reported" /\ UNCHANGED runDir
      /\ UNCHANGED <<input, profile, plan, authorization, index, built>>
  BY DEF Preview
<1>3. runDir' = "used" => mode = "shadow"
  BY <1>2 DEF Inv, PlanInv
<1>4. QED
  BY <1>1, <1>2, <1>3, ResultStep, ResultsAreWellFormed

LEMMA RunStep == ASSUME Inv, RunSandbox PROVE Inv'
<1>1. CASE Raise
  BY <1>1, RaiseStep
<1>2. CASE ~Raise
  <2>1. step = "execute" /\ mode = "shadow"
    BY DEF RunSandbox, Inv, PlanInv
  <2>2. PICK r \in Results(plan.executable) :
          /\ history' = Append(history, r) /\ Reflect(r) /\ step' = "decide"
          /\ runDir' \in {runDir, "used"}
          /\ UNCHANGED <<input, profile, plan, authorization, index, built>>
    BY <1>2 DEF RunSandbox
  <2>3. plan.executable \in SafeExecutables
    <3>1. Len(built) > 0
      BY <2>1 DEF Inv, CountInv
    <3>2. QED
      BY <2>1, <3>1 DEF Inv, AuthorityInv, MayBuild, Loop
  <2>4. IsWellFormed(r)
    BY <2>2, <2>3, ResultsAssumption
  <2>5. QED
    BY <2>1, <2>2, <2>4, ResultStep
<1>3. QED
  BY <1>1, <1>2

LEMMA RetryStep == ASSUME Inv, Retry PROVE Inv'
<1> DEFINE class == reflections[Len(reflections)]
           candidate == Replan(plan, class)
           decided == Authorize(candidate.requests, config)
<1>1. CASE Raise
  BY <1>1, RaiseStep
<1>2. CASE /\ step = "decide" /\ step' = "diff" /\ UNCHANGED <<plan, authorization, index>>
           /\ UNCHANGED <<input, profile, built, runDir, report>>
  <2>1. PlanInv'
    BY <1>2 DEF Inv, PlanInv, input, report, Loop
  <2>2. CountInv'
    BY <1>2 DEF Inv, CountInv, input, report, Loop, Final
  <2>3. AuthorityInv'
    BY <1>2 DEF Inv, AuthorityInv, Approved, input, report, Loop
  <2>4. EvidenceInv'
    BY <1>2 DEF Inv, EvidenceInv, Execution, input, report, profile
  <2>5. QED
    BY <2>1, <2>2, <2>3, <2>4 DEF Inv
<1>3. CASE /\ step = "decide" /\ candidate # plan /\ index + 1 < limit
           /\ ~HasDuplicateIds(candidate.requests) /\ ~StopsAtBoundary(decided)
           /\ plan' = candidate /\ authorization' = decided /\ index' = index + 1 /\ step' = "build"
           /\ UNCHANGED <<input, profile, built, runDir, report>>
  <2>1. class = "command_or_config" /\ plan' = Replan(plan, "command_or_config")
    BY <1>3 DEF Replan
  <2>2. /\ Len(built) = index + 1 /\ Len(history) = index + 1 /\ index \in Nat /\ limit \in 1 .. 3
        /\ Requests(plan.requests) /\ ~Quarantined(plan.requests) /\ mode = "shadow"
        /\ authorization = Authorize(plan.requests, config)
        /\ plan.attempt = index + 1
    BY <1>3 DEF Inv, CountInv, PlanInv, Loop
  <2>3. /\ MayBuild(plan.executable, plan.requests, authorization)
        /\ built[Len(built)].executable = plan.executable
        /\ Grants(plan.requests, authorization) \ Interpreters = built[1].grants \ Interpreters
    BY <1>3, <2>2, Short DEF Inv, AuthorityInv, Loop
  <2>4. authorization' = Authorize(plan'.requests, config)
    BY <1>3
  <2>5. /\ plan'.executable # plan.executable
        /\ Requests(plan'.requests) /\ ~Quarantined(plan'.requests)
        /\ MayBuild(plan'.executable, plan'.requests, authorization')
        /\ Grants(plan'.requests, authorization') \ Interpreters
             = Grants(plan.requests, authorization) \ Interpreters
    <3> DEFINE q == plan'
    <3>1. q = Replan(plan, "command_or_config") /\ ~HasDuplicateIds(q.requests)
          /\ ~StopsAtBoundary(Authorize(q.requests, config))
      BY <1>3, <2>1
    <3>2. authorization' = Authorize(q.requests, config)
      BY <2>4
    <3> HIDE DEF q
    <3>3. QED
      BY <2>2, <2>3, <3>1, <3>2, Retried DEF q
  <2>6. Classification(history[index + 1]) = "command_or_config"
    BY <1>3, <2>1, <2>2 DEF Inv, EvidenceInv, Execution
  <2>7. plan'.attempt = plan.attempt + 1
    BY <2>1 DEF Replan
  <2>8. PlanInv'
    <3>1. \A i \in DOMAIN authorization' : authorization'[i].decision \in {"allow", "deny", "approve"}
      BY <2>4, DecidedRange
    <3>2. UNCHANGED <<mode, config, runDir>>
      BY <1>3 DEF input
    <3>3. QED
      BY <1>3, <2>2, <2>4, <2>5, <3>1, <3>2 DEF Inv, PlanInv
  <2>9. CountInv'
    BY <1>3, <2>2, <2>7 DEF Inv, CountInv, input, report, Loop, Final
  <2>10. AuthorityInv'
    <3>1. UNCHANGED <<config, built>> /\ step' = "build"
      BY <1>3 DEF input
    <3>2. \A w : Approved(w) => Approved(w)'
      BY <3>1 DEF Approved
    <3>3. QED
      BY <2>2, <2>3, <2>5, <3>1, <3>2 DEF Inv, AuthorityInv, Loop
  <2>11. EvidenceInv'
    <3>1. UNCHANGED <<history, reflections, verdict>> /\ step' = "build" /\ index' = index + 1
      BY <1>3 DEF report
    <3>2. \A i \in 1 .. index + 1 : Classification(history[i]) = "command_or_config"
      BY <2>2, <2>6 DEF Inv, EvidenceInv
    <3>3. QED
      BY <3>1, <3>2 DEF Inv, EvidenceInv
  <2>12. QED
    BY <2>8, <2>9, <2>10, <2>11 DEF Inv
<1>4. QED
  BY <1>1, <1>2, <1>3 DEF Retry

LEMMA StopStep == ASSUME Inv, Stop PROVE Inv'
<1>1. /\ step = "decide" /\ step' = "diff"
      /\ UNCHANGED <<input, profile, plan, authorization, index, built, runDir, report>>
  BY DEF Stop
<1>2. PlanInv'
  BY <1>1 DEF Inv, PlanInv, input, report, Loop
<1>3. CountInv'
  BY <1>1 DEF Inv, CountInv, input, report, Loop, Final
<1>4. AuthorityInv'
  BY <1>1 DEF Inv, AuthorityInv, Approved, input, report, Loop
<1>5. EvidenceInv'
  BY <1>1 DEF Inv, EvidenceInv, Execution, input, report, profile
<1>6. QED
  BY <1>2, <1>3, <1>4, <1>5 DEF Inv

-----------------------------------------------------------------------------
(* After the attempts *)

LEMMA DiffStep == ASSUME Inv, Diff PROVE Inv'
<1>1. /\ step = "diff" /\ step' = "reported"
      /\ UNCHANGED <<input, profile, plan, authorization, index, built, runDir>>
  BY DEF Diff
<1>2. /\ Len(history) = index + 1 /\ Len(built) = index + 1 /\ index \in Nat
      /\ IsSeq(history) /\ IsSeq(reflections)
  BY <1>1 DEF Inv, CountInv
<1>3. PlanInv'
  BY <1>1 DEF Inv, PlanInv, input, Loop
<1>4. AuthorityInv'
  <2>1. built[Len(built)].executable = plan.executable
    BY <1>1, <1>2, Short DEF Inv, AuthorityInv, Loop
  <2>2. UNCHANGED <<config, plan, built>>
    BY <1>1 DEF input
  <2>3. \A w : Approved(w) => Approved(w)'
    BY <2>2 DEF Approved
  <2>4. QED
    BY <1>1, <2>1, <2>2, <2>3 DEF Inv, AuthorityInv, Loop
<1>5. CASE UNCHANGED report
  <2>1. CountInv'
    BY <1>1, <1>5 DEF Inv, CountInv, input, report, Loop, Final
  <2>2. EvidenceInv'
    BY <1>1, <1>5 DEF Inv, EvidenceInv, Execution, report, profile
  <2>3. QED
    BY <1>3, <1>4, <2>1, <2>2 DEF Inv
<1>6. CASE /\ history' = [history EXCEPT ![Len(history)] = Downgraded(Execution)]
           /\ Reflect(Downgraded(Execution))
  <2> DEFINE r == Downgraded(Execution)
             m == Len(reflections)
  <2>1. /\ history' = [history EXCEPT ![Len(history)] = r]
        /\ reflections' = Append(reflections, Classification(r))
        /\ verdict' = Verdict(r, findings, complete, authorization) /\ outcome' = r.status
    BY <1>6 DEF Reflect
  <2>2. IsWellFormed(r)
    BY ResultsAreWellFormed
  <2> HIDE DEF r
  <2>3. /\ IsSeq(history') /\ Len(history') = Len(history) /\ history'[Len(history')] = r
        /\ \A i \in 1 .. Len(history) - 1 : history'[i] = history[i]
    <3>1. history # <<>> /\ IsSeq(history)
      BY <1>2, Short
    <3>2. /\ IsSeq([history EXCEPT ![Len(history)] = r])
          /\ Len([history EXCEPT ![Len(history)] = r]) = Len(history)
          /\ [history EXCEPT ![Len(history)] = r][Len(history)] = r
          /\ \A i \in 1 .. Len(history) - 1 : [history EXCEPT ![Len(history)] = r][i] = history[i]
      BY <3>1, LastReplaced
    <3>3. QED
      BY <2>1, <3>2
  <2>4. /\ IsSeq(reflections') /\ Len(reflections') = m + 1 /\ reflections'[m + 1] = Classification(r)
        /\ m \in Nat /\ \A i \in 1 .. m : reflections'[i] = reflections[i]
    BY <1>2, <2>1, Appended
  <2>5. CountInv'
    BY <1>1, <1>2, <2>3, <2>4 DEF Inv, CountInv, input, Loop, Final
  <2>6. EvidenceInv'
    <3>1. \A i \in 1 .. Len(history') : IsWellFormed(history'[i])
      BY <1>2, <2>2, <2>3 DEF Inv, EvidenceInv
    <3>2. \A i \in 1 .. index : Classification(history'[i]) = "command_or_config"
      BY <1>2, <2>3 DEF Inv, EvidenceInv
    <3>3. \A i \in 1 .. Len(reflections') : reflections'[i] \in Classes
      BY <2>4, ClassesExhaust DEF Inv, EvidenceInv
    <3>4. Execution' = r
      BY <2>3 DEF Execution
    <3>5. QED
      BY <1>1, <2>1, <2>4, <3>1, <3>2, <3>3, <3>4, Verdicts DEF EvidenceInv, profile
  <2>7. QED
    BY <1>3, <1>4, <2>5, <2>6 DEF Inv
<1>7. QED
  BY <1>5, <1>6 DEF Diff

-----------------------------------------------------------------------------
(* The theorems *)

LEMMA InvStep == Inv /\ [Next]_vars => Inv'
<1> SUFFICES ASSUME Inv, [Next]_vars PROVE Inv'
  OBVIOUS
<1>1. CASE UNCHANGED vars
  <2>1. UNCHANGED <<step, mode, limit, config, findings, complete, plan, authorization, index, built,
                    runDir, history, reflections, outcome, verdict>>
    BY <1>1 DEF vars, input, profile, report
  <2>2. PlanInv' /\ CountInv'
    BY <2>1 DEF Inv, PlanInv, CountInv
  <2>3. AuthorityInv'
    <3>1. \A w : Approved(w) => Approved(w)'
      BY <2>1 DEF Approved
    <3>2. QED
      BY <2>1, <3>1 DEF Inv, AuthorityInv
  <2>4. EvidenceInv'
    BY <2>1 DEF Inv, EvidenceInv, Execution
  <2>5. QED
    BY <2>2, <2>3, <2>4 DEF Inv
<1>2. CASE Next
  BY <1>2, ProposeStep, AuthorizeStep, InventoryStep, BuildStep, PreviewStep, RunStep, RetryStep,
     StopStep, DiffStep DEF Next
<1>3. QED
  BY <1>1, <1>2

\* The variables have their types, and there is no fourth attempt.
THEOREM AgentTypes == Spec => []TypeOK
<1>1. Inv => TypeOK
  <2> SUFFICES ASSUME Inv PROVE TypeOK
    OBVIOUS
  <2>1. DOMAIN history = 1 .. Len(history) /\ DOMAIN reflections = 1 .. Len(reflections)
    BY Lengths DEF Inv, CountInv
  <2>2. index \in 0 .. 2 /\ plan.attempt \in 0 .. 3
    BY DEF Inv, CountInv
  <2>3. QED
    BY <2>1, <2>2 DEF Inv, PlanInv, CountInv, EvidenceInv, TypeOK, Loop, Final
<1>2. QED
  BY <1>1, InitInv, InvStep, PTL DEF Spec

\* A retry has the authority of the first attempt but for the interpreter.
\* (ReflectionAgent.replan, _required_authority_denied)
THEOREM NoAuthorityIsGained == Spec => []AuthorityNeverWidens
<1>1. Inv => AuthorityNeverWidens
  <2> SUFFICES ASSUME Inv PROVE AuthorityNeverWidens
    OBVIOUS
  <2>1. DOMAIN built = 1 .. Len(built)
    BY Lengths DEF Inv, CountInv
  <2>2. QED
    BY <2>1 DEF Inv, AuthorityInv, AuthorityNeverWidens
<1>2. QED
  BY <1>1, InitInv, InvStep, PTL DEF Spec

\* What is held for approval is granted by its own approval only, and nothing is
\* built for a malformed proposal. (PolicyEngine.authorize, _run_snapshot)
THEOREM ConsentIsNeeded == Spec => []NothingWithoutConsent
<1>1. Inv => NothingWithoutConsent
  <2> SUFFICES ASSUME Inv PROVE NothingWithoutConsent
    OBVIOUS
  <2>1. DOMAIN built = 1 .. Len(built)
    BY Lengths DEF Inv, CountInv
  <2>2. ApprovalIsExact
    BY <2>1 DEF Inv, AuthorityInv, Approved, ApprovalIsExact
  <2>3. NoEffectWithoutConsent
    BY DEF Inv, PlanInv, Quarantined, NoEffectWithoutConsent
  <2>4. QED
    BY <2>2, <2>3 DEF NothingWithoutConsent
<1>2. QED
  BY <1>1, InitInv, InvStep, PTL DEF Spec

\* The attempts differ from each other, the builder accepts them, and none
\* follows what a target said. (_run_snapshot, RuntimeObserver._classification)
THEOREM RetriesAreSafe == Spec => []RetriesAreSound
<1>1. Inv => RetriesAreSound
  <2> SUFFICES ASSUME Inv PROVE RetriesAreSound
    OBVIOUS
  <2>0. /\ Len(built) \in Nat /\ index \in Nat /\ index < limit /\ limit \in 1 .. 3
        /\ Len(built) <= index + 1
    BY Lengths DEF Inv, CountInv
  <2>1. AttemptsAreDistinct
    BY <2>0 DEF Inv, AuthorityInv, AttemptsAreDistinct
  <2>2. RetriesAreBuildable
    <3> SUFFICES ASSUME step = "build", index > 0
                 PROVE  MayBuild(plan.executable, plan.requests, authorization)
      BY DEF RetriesAreBuildable
    <3>1. Len(built) > 0
      BY DEF Inv, CountInv
    <3>2. QED
      BY <3>1 DEF Inv, AuthorityInv, Loop
  <2>3. TargetNeverCausesRetry
    <3> SUFFICES ASSUME NEW i \in 1 .. Len(built) - 1
                 PROVE  ~TargetStarted(history[i]) /\ ~Observes(history[i]) /\ Blocked(history[i]) = {}
      BY DEF TargetNeverCausesRetry
    <3>1. Classification(history[i]) = "command_or_config"
      BY <2>0 DEF Inv, EvidenceInv
    <3>2. QED
      BY <3>1, CommandIsUntold
  <2>4. QED
    BY <2>1, <2>2, <2>3 DEF RetriesAreSound
<1>2. QED
  BY <1>1, InitInv, InvStep, PTL DEF Spec

-----------------------------------------------------------------------------
(* What a verdict rests on *)

LEMMA UnsafeMeansViolated ==
  ASSUME NEW r, NEW f, NEW c, NEW a
  PROVE  Verdict(r, f, c, a) = "unsafe" <=> ViolatesBy(r, a, Trusted)
  BY DEF Verdict

\* The supervisor's own words are harmless for an executable that was granted.
LEMMA OwnWordIsHarmless ==
  ASSUME NEW e, NEW a, NEW x, Execute(x) \in Wants(a, "allow"),
         IsOwnWord(e, x) \/ e.type = "dry_run"
  PROVE  ~IsDangerous(e, a)
<1>1. CASE e.type \in {"runtime", "observer", "policy", "resource", "dry_run"}
  BY <1>1 DEF IsDangerous
<1>2. CASE e.type = "process" /\ e.action = "execute" /\ e.target = x
  BY <1>2 DEF IsDangerous
<1>3. QED
  BY <1>1, <1>2 DEF IsOwnWord

LEMMA BuiltMayExecute ==
  ASSUME NEW x, NEW requests, NEW a, MayBuild(x, requests, a)
  PROVE  Contract \subseteq Wants(a, "allow") /\ Execute(x) \in Wants(a, "allow")
<1>1. Grants(requests, a) \subseteq Wants(a, "allow")
  BY DEF Grants, Wants
<1>2. QED
  BY <1>1 DEF MayBuild

\* So that an unsafe verdict needs another witness.
LEMMA UnsafeIsWitnessed ==
  ASSUME NEW r, NEW f, NEW c, NEW a, NEW x, Execute(x) \in Wants(a, "allow"),
         \A e \in r.events : e.source = "supervisor" => IsOwnWord(e, x) \/ e.type = "dry_run",
         Verdict(r, f, c, a) = "unsafe"
  PROVE  \E e \in r.events : e.source = "independent_observer"
<1>1. PICK e \in r.events : e.source \in Trusted /\ IsDangerous(e, a)
  BY UnsafeMeansViolated DEF ViolatesBy
<1>2. e.source # "supervisor"
  BY <1>1, OwnWordIsHarmless
<1>3. QED
  BY <1>1, <1>2 DEF Trusted

\* What the agent and the dry run report of their own.
LEMMA OwnEvents ==
  /\ \A s : /\ IsResult(NotInventoried(s))
            /\ \A e \in NotInventoried(s).events : e.type = "observer" /\ e.source = "supervisor"
  /\ \A r : /\ IsResult(Downgraded(r))
            /\ Downgraded(r).events = r.events \cup NotInventoried("failed").events
  /\ \A r \in Previews : IsResult(r) /\ \A e \in r.events : e.type \in {"dry_run", "policy"}
<1>1. \A s, x, e, t : IsResult(Result(s, x, e, t)) /\ Result(s, x, e, t).events = e
  BY DEF IsResult, Result
<1>2. ASSUME NEW s
      PROVE  /\ IsResult(NotInventoried(s))
             /\ \A e \in NotInventoried(s).events : e.type = "observer" /\ e.source = "supervisor"
  <2> DEFINE o == Says("observer", "output_manifest", "output", FALSE)
  <2>1. o.type = "observer" /\ o.source = "supervisor"
    BY DEF Says, Event
  <2>2. NotInventoried(s) = Result(s, None, {o}, {})
    BY DEF NotInventoried
  <2> HIDE DEF o
  <2>3. QED
    BY <1>1, <2>1, <2>2
<1>3. \A r : Downgraded(r).events = r.events \cup NotInventoried("failed").events
             /\ IsResult(Downgraded(r))
  BY <1>1 DEF Downgraded
<1>4. ASSUME NEW r \in Previews
      PROVE  IsResult(r) /\ \A e \in r.events : e.type \in {"dry_run", "policy"}
  <2> DEFINE d == Says("dry_run", "preview", "image", TRUE)
             p == Says("policy", "enforce", "sandbox", FALSE)
  <2>1. d.type = "dry_run" /\ p.type = "policy"
    BY DEF Says, Event
  <2>2. r = Result("planned", None, {d}, {}) \/ r = Result("blocked", None, {p}, {})
    BY DEF Previews
  <2> HIDE DEF d, p
  <2>3. QED
    BY <1>1, <2>1, <2>2
<1>5. QED
  BY <1>2, <1>3, <1>4

-----------------------------------------------------------------------------
(* The report *)

\* What was executed had the contract, only the observer of an adapter makes a verdict
\* unsafe, and no target spoke in a run that built nothing.
WitnessInv ==
  /\ step \in Loop \cup {"reported"} /\ built # <<>>
       => MayBuild(plan.executable, plan.requests, authorization)
  /\ verdict = "unsafe" =>
       history # <<>> /\ \E e \in Execution.events : e.source = "independent_observer"
  /\ history # <<>> =>
       /\ IsResult(Execution)
       /\ built = <<>> => \A e \in Execution.events : e.source # "target_telemetry"

\* The findings of a bundled proposal keep their requests, and a run that executed
\* nothing is judged by its decisions.
FindingInv ==
  /\ bundled /\ plan.executable # NoSteps =>
       \A f \in findings : IsFinding(f) /\ Covers(plan.requests, f)
  /\ step = "reported" /\ history = <<>>
       => verdict = StaticVerdict(findings, complete, authorization)

ReportInv == WitnessInv /\ FindingInv

LEMMA InitReport == Init => ReportInv
<1> SUFFICES ASSUME Init PROVE ReportInv
  OBVIOUS
<1>1. WitnessInv
  BY DEF Init, WitnessInv
<1>2. FindingInv
  BY DEF Init, FindingInv
<1>3. QED
  BY <1>1, <1>2 DEF ReportInv

\* A step that neither plans nor executes.
LEMMA ReportKept ==
  ASSUME ReportInv, UNCHANGED <<profile, plan, authorization, built, report>>,
         step' \in {"reported"} \cup Loop => step \in {"reported"} \cup Loop \/ built = <<>>,
         step' = "reported" => history # <<>> \/ step = "reported"
  PROVE  ReportInv'
<1>1. UNCHANGED <<findings, complete, bundled, plan, authorization, built, history, verdict>>
  BY DEF profile, report
<1>2. WitnessInv'
  BY <1>1 DEF ReportInv, WitnessInv, Execution
<1>3. FindingInv'
  BY <1>1 DEF ReportInv, FindingInv
<1>4. QED
  BY <1>2, <1>3 DEF ReportInv

LEMMA RaiseReport == ASSUME ReportInv, Raise PROVE ReportInv'
<1>1. step' = "raised" /\ UNCHANGED <<profile, plan, authorization, built, report>>
  BY DEF Raise
<1>2. QED
  BY <1>1, ReportKept DEF Loop

LEMMA ProposeReport == ASSUME Inv, ReportInv, Propose PROVE ReportInv'
<1>1. CASE Raise
  BY <1>1, RaiseReport
<1>2. ASSUME NEW p \in Proposals,
             plan' = [executable |-> p.executable, requests |-> p.requests, attempt |-> 1],
             findings' = p.findings, bundled' = p.bundled,
             step = "snapshot", step' = "authorize",
             UNCHANGED <<input, authorization, index, built, runDir, report>>
      PROVE  ReportInv'
  <2>1. plan'.executable = p.executable /\ plan'.requests = p.requests
    BY <1>2
  <2>2. built = <<>> /\ history = <<>> /\ UNCHANGED <<built, history, verdict>>
    BY <1>2 DEF Inv, CountInv, report
  <2>3. WitnessInv'
    BY <2>2 DEF ReportInv, WitnessInv
  <2>4. FindingInv'
    BY <1>2, <2>1, Proposed DEF FindingInv
  <2>5. QED
    BY <2>3, <2>4 DEF ReportInv
<1>3. QED
  BY <1>1, <1>2 DEF Propose

LEMMA AuthorizeReport == ASSUME Inv, ReportInv, AuthorizePlan PROVE ReportInv'
<1>1. CASE Raise
  BY <1>1, RaiseReport
<1>2. CASE ~Raise
  <2>1. /\ step = "authorize" /\ UNCHANGED <<profile, plan, built, history>>
        /\ verdict' = StaticVerdict(findings, complete, authorization')
    BY <1>2 DEF AuthorizePlan
  <2>2. built = <<>> /\ history = <<>> /\ UNCHANGED <<findings, complete, bundled>>
    BY <2>1 DEF Inv, CountInv, profile
  <2>3. verdict' # "unsafe"
    BY <2>1, Verdicts
  <2>4. WitnessInv'
    BY <2>1, <2>2, <2>3 DEF WitnessInv
  <2>5. FindingInv'
    BY <2>1, <2>2 DEF ReportInv, FindingInv
  <2>6. QED
    BY <2>4, <2>5 DEF ReportInv
<1>3. QED
  BY <1>1, <1>2

LEMMA InventoryReport == ASSUME Inv, ReportInv, Inventory PROVE ReportInv'
<1>1. /\ step = "inventory" /\ built = <<>> /\ history = <<>> /\ reflections = <<>>
      /\ UNCHANGED <<input, profile, plan, authorization, index, built, runDir>>
  BY DEF Inv, CountInv, Inventory
<1>2. CASE step' = "build" /\ UNCHANGED report
  BY <1>1, <1>2, ReportKept
<1>3. CASE history' = <<NotInventoried("blocked")>> /\ Reflect(NotInventoried("blocked"))
  <2> DEFINE r == NotInventoried("blocked")
  <2>1. /\ history' = <<r>> /\ verdict' = Verdict(r, findings, complete, authorization)
        /\ UNCHANGED <<findings, complete, bundled>>
    BY <1>1, <1>3 DEF Reflect, profile
  <2>2. IsResult(r) /\ \A e \in r.events : e.type = "observer" /\ e.source = "supervisor"
    BY OwnEvents
  <2> HIDE DEF r
  <2>3. Execution' = r /\ history' # <<>>
    BY <2>1, Short DEF Execution
  <2>4. verdict' # "unsafe"
    <3>1. \A e \in r.events : ~IsDangerous(e, authorization)
      BY <2>2 DEF IsDangerous
    <3>2. QED
      BY <2>1, <3>1, UnsafeMeansViolated DEF ViolatesBy
  <2>5. WitnessInv'
    BY <1>1, <2>2, <2>3, <2>4 DEF WitnessInv
  <2>6. FindingInv'
    BY <1>1, <2>1, <2>3 DEF ReportInv, FindingInv
  <2>7. QED
    BY <2>5, <2>6 DEF ReportInv
<1>4. QED
  BY <1>2, <1>3 DEF Inventory

LEMMA BuildReport == ASSUME Inv, ReportInv, Build PROVE ReportInv'
<1>1. CASE Raise
  BY <1>1, RaiseReport
<1>2. CASE ~Raise
  <2> DEFINE b == [executable |-> plan.executable, grants |-> Grants(plan.requests, authorization)]
  <2>1. /\ step = "build" /\ MayBuild(plan.executable, plan.requests, authorization)
        /\ built' = Append(built, b) /\ step' \in {"execute", "preview"}
        /\ UNCHANGED <<profile, plan, authorization, report>>
    BY <1>2 DEF Build
  <2>2. UNCHANGED <<findings, complete, bundled, history, verdict, Execution>>
    BY <2>1 DEF profile, report, Execution
  <2> HIDE DEF b
  <2>3. built' # <<>>
    <3>1. IsSeq(built)
      BY DEF Inv, CountInv
    <3>2. QED
      BY <2>1, <3>1, Appended, Lengths
  <2>4. WitnessInv'
    BY <2>1, <2>2, <2>3 DEF ReportInv, WitnessInv
  <2>5. FindingInv'
    BY <2>1, <2>2 DEF ReportInv, FindingInv
  <2>6. QED
    BY <2>4, <2>5 DEF ReportInv
<1>3. QED
  BY <1>1, <1>2

\* A result that becomes the last execution.
LEMMA ExecutedReport ==
  ASSUME Inv, ReportInv, NEW r, IsResult(r), Execution' = r, history' # <<>>, Reflect(r),
         UNCHANGED <<profile, plan, authorization, built>>,
         step \in {"preview", "execute", "diff"},
         Verdict(r, findings, complete, authorization) = "unsafe" =>
           \E e \in r.events : e.source = "independent_observer"
  PROVE  ReportInv'
<1>1. /\ UNCHANGED <<findings, complete, bundled>>
      /\ verdict' = Verdict(r, findings, complete, authorization)
  BY DEF profile, Reflect
<1>2. built # <<>> /\ MayBuild(plan.executable, plan.requests, authorization)
  <2>1. Len(built) = index + 1 /\ index \in Nat /\ IsSeq(built)
    BY DEF Inv, CountInv
  <2>2. built # <<>>
    BY <2>1, Lengths
  <2>3. QED
    BY <2>2 DEF ReportInv, WitnessInv, Loop
<1>3. WitnessInv'
  BY <1>1, <1>2 DEF WitnessInv
<1>4. FindingInv'
  BY <1>1 DEF ReportInv, FindingInv
<1>5. QED
  BY <1>3, <1>4 DEF ReportInv

LEMMA PreviewReport == ASSUME Inv, ReportInv, Preview PROVE ReportInv'
<1>1. PICK r \in Previews : history' = Append(history, r) /\ Reflect(r)
  BY DEF Preview
<1>2. step = "preview" /\ UNCHANGED <<profile, plan, authorization, built>>
  BY DEF Preview
<1>3. Execution' = r /\ history' # <<>>
  <2>1. IsSeq(history)
    BY DEF Inv, CountInv
  <2>2. QED
    BY <1>1, <2>1, Appended, Lengths DEF Execution
<1>4. IsResult(r) /\ \A e \in r.events : ~IsDangerous(e, authorization)
  BY OwnEvents DEF IsDangerous
<1>5. Verdict(r, findings, complete, authorization) # "unsafe"
  BY <1>4, UnsafeMeansViolated DEF ViolatesBy
<1>6. QED
  BY <1>1, <1>2, <1>3, <1>4, <1>5, ExecutedReport

LEMMA RunReport == ASSUME Inv, ReportInv, RunSandbox PROVE ReportInv'
<1>1. CASE Raise
  BY <1>1, RaiseReport
<1>2. CASE ~Raise
  <2>1. step = "execute" /\ UNCHANGED <<profile, plan, authorization, built>>
    BY <1>2 DEF RunSandbox
  <2>2. PICK r \in Results(plan.executable) : history' = Append(history, r) /\ Reflect(r)
    BY <1>2 DEF RunSandbox
  <2>3. Execution' = r /\ history' # <<>>
    <3>1. IsSeq(history)
      BY DEF Inv, CountInv
    <3>2. QED
      BY <2>2, <3>1, Appended, Lengths DEF Execution
  <2>4. MayBuild(plan.executable, plan.requests, authorization)
    <3>1. Len(built) = index + 1 /\ index \in Nat
      BY <2>1 DEF Inv, CountInv
    <3>2. QED
      BY <2>1, <3>1 DEF Inv, AuthorityInv, Loop
  <2>5. plan.executable \in SafeExecutables
    BY <2>4 DEF MayBuild
  <2>6. IsResult(r) /\ \A e \in r.events : e.source = "supervisor" => IsOwnWord(e, plan.executable)
    BY <2>2, <2>5, ResultsAssumption
  <2>7. Verdict(r, findings, complete, authorization) = "unsafe" =>
          \E e \in r.events : e.source = "independent_observer"
    BY <2>4, <2>6, BuiltMayExecute, UnsafeIsWitnessed
  <2>8. QED
    BY <2>1, <2>2, <2>3, <2>6, <2>7, ExecutedReport
<1>3. QED
  BY <1>1, <1>2

\* The interpreter is swapped in no request that a finding became.
LEMMA FindingsStay ==
  ASSUME NEW p, p.executable \in SafeExecutables, Requests(p.requests),
         NEW f, IsFinding(f), Covers(p.requests, f)
  PROVE  Covers(Replan(p, "command_or_config").requests, f)
<1> DEFINE x == p.executable
           q == Replan(p, "command_or_config")
<1>1. DOMAIN q.requests = DOMAIN p.requests
      /\ \A i \in DOMAIN p.requests : q.requests[i] = Swap(p.requests[i], x)
  BY DEF Replan
<1>2. PICK i \in DOMAIN p.requests : p.requests[i].wants = Wanted(f) /\ p.requests[i].risk = f.risk
  BY DEF Covers
<1>3. Wanted(f) # Execute(x)
  <2>1. /\ Wanted(f).category = f.category /\ Wanted(f).action = f.action
        /\ Execute(x).category = "process" /\ Execute(x).action = "execute"
    BY DEF Wanted, Execute, Capability
  <2>2. f.category = "process" => f.action # "execute"
    BY DEF IsFinding, Repertoire
  <2>3. QED
    BY <2>1, <2>2
<1>4. Swap(p.requests[i], x) = p.requests[i]
  BY <1>2, <1>3, Swapped DEF Requests
<1> HIDE DEF q
<1>5. q.requests[i].wants = Wanted(f) /\ q.requests[i].risk = f.risk
  BY <1>1, <1>2, <1>4
<1>6. QED
  BY <1>1, <1>5 DEF Covers, q

LEMMA RetryReport == ASSUME Inv, Inv', ReportInv, Retry PROVE ReportInv'
<1> DEFINE class == reflections[Len(reflections)]
           candidate == Replan(plan, class)
<1>1. CASE Raise
  BY <1>1, RaiseReport
<1>2. CASE /\ step = "decide" /\ step' = "diff"
           /\ UNCHANGED <<profile, plan, authorization, built, report>>
  BY <1>2, ReportKept DEF Loop
<1>3. CASE /\ step = "decide" /\ candidate # plan /\ plan' = candidate /\ step' = "build"
           /\ UNCHANGED <<profile, built, report>>
  <2>1. plan' = Replan(plan, "command_or_config")
    BY <1>3 DEF Replan
  <2>2. UNCHANGED <<findings, complete, bundled, history, verdict, Execution>>
    BY <1>3 DEF profile, report, Execution
  <2>3. /\ built # <<>> /\ MayBuild(plan.executable, plan.requests, authorization)
        /\ Requests(plan.requests)
    <3>1. Len(built) = index + 1 /\ index \in Nat
      BY <1>3 DEF Inv, CountInv
    <3>2. QED
      BY <1>3, <3>1, Short DEF Inv, PlanInv, AuthorityInv, Loop
  <2>4. (MayBuild(plan.executable, plan.requests, authorization))'
    <3>1. Len(built') > 0 /\ step' \in Loop
      BY <1>3 DEF Inv, CountInv, Loop
    <3>2. QED
      BY <3>1 DEF Inv, AuthorityInv
  <2>5. WitnessInv'
    BY <1>3, <2>2, <2>3, <2>4 DEF ReportInv, WitnessInv
  <2>6. plan.executable \in SafeExecutables /\ plan.executable # NoSteps
    BY <2>3 DEF MayBuild, SafeExecutables, NoSteps
  <2>7. FindingInv'
    <3>1. ASSUME bundled, NEW f \in findings PROVE IsFinding(f) /\ Covers(plan'.requests, f)
      <4>1. IsFinding(f) /\ Covers(plan.requests, f)
        BY <2>6, <3>1 DEF ReportInv, FindingInv
      <4>2. QED
        BY <2>1, <2>3, <2>6, <4>1, FindingsStay
    <3>2. QED
      BY <1>3, <2>2, <3>1 DEF FindingInv
  <2>8. QED
    BY <2>5, <2>7 DEF ReportInv
<1>4. QED
  BY <1>1, <1>2, <1>3 DEF Retry

LEMMA StopReport == ASSUME ReportInv, Stop PROVE ReportInv'
<1>1. /\ step = "decide" /\ step' = "diff"
      /\ UNCHANGED <<profile, plan, authorization, built, report>>
  BY DEF Stop
<1>2. QED
  BY <1>1, ReportKept DEF Loop

LEMMA DiffReport == ASSUME Inv, ReportInv, Diff PROVE ReportInv'
<1>1. step = "diff" /\ step' = "reported" /\ UNCHANGED <<profile, plan, authorization, built>>
  BY DEF Diff
<1>2. IsSeq(history) /\ history # <<>>
  BY <1>1, Lengths DEF Inv, CountInv
<1>3. CASE UNCHANGED report
  BY <1>1, <1>2, <1>3, ReportKept DEF Loop
<1>4. CASE /\ history' = [history EXCEPT ![Len(history)] = Downgraded(Execution)]
           /\ Reflect(Downgraded(Execution))
  <2> DEFINE r == Downgraded(Execution)
  <2>1. IsResult(r) /\ r.events = Execution.events \cup NotInventoried("failed").events
    BY OwnEvents
  <2>2. \A e \in NotInventoried("failed").events : ~IsDangerous(e, authorization)
    <3>1. \A e \in NotInventoried("failed").events : e.type = "observer"
      BY OwnEvents
    <3>2. QED
      BY <3>1 DEF IsDangerous
  <2>3. history' = [history EXCEPT ![Len(history)] = r] /\ Reflect(r)
    BY <1>4
  <2> HIDE DEF r
  <2>4. Execution' = r /\ history' # <<>>
    <3>1. LET t == [history EXCEPT ![Len(history)] = r]
          IN  IsSeq(t) /\ Len(t) = Len(history) /\ t[Len(history)] = r
      BY <1>2, LastReplaced
    <3>2. Len(history) # 0
      BY <1>2, Lengths
    <3>3. QED
      BY <2>3, <3>1, <3>2, Lengths DEF Execution
  <2>5. ASSUME Verdict(r, findings, complete, authorization) = "unsafe"
        PROVE  \E e \in r.events : e.source = "independent_observer"
    <3>1. ViolatesBy(Execution, authorization, Trusted)
      BY <2>1, <2>2, <2>5, UnsafeMeansViolated DEF ViolatesBy
    <3>2. verdict = "unsafe"
      <4>1. verdict = Verdict(Execution, findings, complete, authorization)
        BY <1>1 DEF Inv, EvidenceInv
      <4>2. QED
        BY <3>1, <4>1, UnsafeMeansViolated
    <3>3. QED
      BY <2>1, <3>2 DEF ReportInv, WitnessInv
  <2>6. QED
    BY <1>1, <2>1, <2>3, <2>4, <2>5, ExecutedReport
<1>5. QED
  BY <1>3, <1>4 DEF Diff

LEMMA ReportStep == ASSUME Inv, Inv', ReportInv, [Next]_vars PROVE ReportInv'
<1>1. CASE UNCHANGED vars
  <2>1. /\ UNCHANGED <<findings, complete, bundled, plan, authorization, built, history, verdict,
                       step>>
    BY <1>1 DEF vars, profile, report
  <2>2. WitnessInv' /\ FindingInv'
    BY <2>1 DEF ReportInv, WitnessInv, FindingInv, Execution
  <2>3. QED
    BY <2>2 DEF ReportInv
<1>2. CASE Next
  BY <1>2, ProposeReport, AuthorizeReport, InventoryReport, BuildReport, PreviewReport, RunReport,
     RetryReport, StopReport, DiffReport DEF Next
<1>3. QED
  BY <1>1, <1>2

LEMMA ReportInvariance == Spec => [](Inv /\ ReportInv)
<1>1. Inv /\ ReportInv /\ [Next]_vars => (Inv /\ ReportInv)'
  BY InvStep, ReportStep
<1>2. QED
  BY <1>1, InitInv, InitReport, PTL DEF Spec

\* A record of what the hook let pass.
LEMMA PermittedShape ==
  ASSUME NEW e \in Permitted
  PROVE  /\ e.type = "filesystem" /\ e.source = "target_telemetry" /\ e.allowed
         /\ e.action \in {"read", "write", "mutate", "rename"}
<1>1. \E n, p, w : /\ n \in {"read", "write", "mutate", "rename"}
                   /\ e = Event("filesystem", n, p, w, "target_telemetry")
  BY DEF Permitted, ReadFile, WriteFile, MutatePath, RenameFile, Hooked
<1>2. e.allowed
  BY DEF Permitted
<1>3. QED
  BY <1>1, <1>2 DEF Event

\* What the hook let pass, under a name that shows it, is in the contract.
LEMMA PlacedIsGranted ==
  ASSUME NEW e \in Permitted, Placed(e), NEW a, Contract \subseteq Wants(a, "allow")
  PROVE  IsAuthorized(e, a)
<1>3. /\ e.type = "filesystem"
      /\ \/ e.action = "read" /\ e.target \in Readable \ {"<prefix>"}
         \/ e.action \in {"write", "mutate", "rename"} /\ e.target \in Writable
  BY PermittedShape DEF Placed
<1>5. /\ Capability("filesystem", "read", "<repository>") \in Wants(a, "allow")
      /\ \A p \in Writable : /\ Capability("filesystem", "read", p) \in Wants(a, "allow")
                             /\ Capability("filesystem", "write", p) \in Wants(a, "allow")
  <2>1. /\ <<"read", "<repository>">> \in ContractPaths
        /\ \A p \in Writable : <<"read", p>> \in ContractPaths /\ <<"write", p>> \in ContractPaths
    BY DEF ContractPaths, Writable
  <2>2. \A t \in ContractPaths : Capability("filesystem", t[1], t[2]) \in Contract
    BY DEF Contract
  <2>3. \A n, p : <<n, p>> \in ContractPaths => Capability("filesystem", n, p) \in Contract
    <3>1. ASSUME NEW n, NEW p, <<n, p>> \in ContractPaths
          PROVE  Capability("filesystem", n, p) \in Contract
      <4>1. Capability("filesystem", <<n, p>>[1], <<n, p>>[2]) \in Contract
        BY <2>2, <3>1
      <4>2. QED
        BY <4>1
    <3>2. QED
      BY <3>1
  <2>4. QED
    BY <2>1, <2>3
<1>6. FilesystemIsAuthorized(e, Wants(a, "allow"))
  <2>1. CASE e.action = "read" /\ e.target \in Readable \ {"<prefix>"}
    <3>1. e.action \in ReadActions
      BY <2>1 DEF ReadActions
    <3>2. \/ e.target = "<runtime>"
          \/ e.target \in Scopes /\ Capability("filesystem", "read", e.target) \in Wants(a, "allow")
      BY <1>5, <2>1 DEF Readable, Writable, Scopes
    <3>3. QED
      BY <3>1, <3>2 DEF FilesystemIsAuthorized
  <2>2. CASE e.action \in {"write", "mutate", "rename"} /\ e.target \in Writable
    <3>1. e.action \notin ReadActions /\ e.action \in OutputActions
      BY <2>2 DEF ReadActions, OutputActions
    <3>2. e.target \in Scopes /\ Capability("filesystem", "write", e.target) \in Wants(a, "allow")
      BY <1>5, <2>2 DEF Writable, Scopes
    <3>3. QED
      BY <3>1, <3>2 DEF FilesystemIsAuthorized
  <2>3. QED
    BY <1>3, <2>1, <2>2
<1>7. QED
  BY <1>3, <1>6 DEF IsAuthorized

\* What the hook let pass under a name that does not show it is in no contract, since
\* the policy lets nobody write but in the scratch places.
LEMMA UnplacedIsNotGranted ==
  ASSUME NEW e \in Permitted, ~Placed(e), NEW requests, NEW c
  PROVE  ~IsAuthorized(e, Authorize(requests, c))
<1> DEFINE a == Authorize(requests, c)
           allowed == Wants(a, "allow")
<1>1. e.type = "filesystem" /\ e.action \in {"read", "write", "mutate", "rename"}
  BY PermittedShape
<1>2. Capability("filesystem", "write", "<repository>") \notin allowed
  <2> DEFINE w == Capability("filesystem", "write", "<repository>")
  <2>1. SUFFICES ASSUME w \in allowed PROVE FALSE
    OBVIOUS
  <2>2. PICK i \in DOMAIN a : a[i].decision = "allow" /\ a[i].request.wants = w
    BY <2>1 DEF Wants, DecidedAs
  <2>3. i \in DOMAIN requests /\ ~IsMalformed(requests[i])
        /\ a[i].request = requests[i] /\ Decide(requests[i], c) = "allow"
    BY <2>2 DEF Authorize, Placeholder
  <2> HIDE DEF a, w
  <2>4. requests[i].wants = w
    BY <2>2, <2>3
  <2>5. w.category = "filesystem" /\ w.action = "write" /\ w.target = "<repository>"
    BY DEF w, Capability
  <2>6. Filesystem(w) = "deny"
    BY <2>5 DEF Filesystem, ScratchTargets, RepositoryTargets, ReadActions
  <2>7. Evaluate(requests[i], c) = "deny"
    BY <2>4, <2>5, <2>6 DEF Evaluate
  <2>8. QED
    BY <2>3, <2>7 DEF Decide
<1>3. ~FilesystemIsAuthorized(e, allowed)
  <2> HIDE DEF a, allowed
  <2>1. CASE e.action = "read"
    <3>1. e.target \notin Scopes \cup {"<runtime>"}
      BY <2>1 DEF Placed, Readable, Writable, Scopes
    <3>2. QED
      BY <3>1 DEF FilesystemIsAuthorized
  <2>2. CASE e.action \in {"write", "mutate", "rename"}
    <3>1. e.action \notin ReadActions /\ e.action \in OutputActions
      BY <2>2 DEF ReadActions, OutputActions
    <3>2. e.target \notin Scopes \/ e.target = "<repository>"
      BY <2>2 DEF Placed, Writable, Scopes
    <3>3. QED
      BY <1>2, <3>1, <3>2 DEF FilesystemIsAuthorized
  <2>3. QED
    BY <1>1, <2>1, <2>2
<1>4. QED
  BY <1>1, <1>3 DEF IsAuthorized

\* A record of something that happened without authority asks for a review.
LEMMA UnauthorizedCounts ==
  ASSUME NEW r, NEW f, NEW c, NEW a, NEW e \in r.events, e.allowed, ~IsAuthorized(e, a)
  PROVE  Verdict(r, f, c, a) \in {"review", "unsafe"}
  BY DEF Verdict

\* A verdict does not rest on records that are permitted, or that are not there.
LEMMA PermittedDoNotCount ==
  ASSUME NEW r, IsResult(r), NEW f, NEW c, NEW a,
         NEW known, \A e \in known \cap r.events :
           e.type = "filesystem" /\ e.source = "target_telemetry" /\ e.allowed /\ IsAuthorized(e, a)
  PROVE  Verdict(r, f, c, a) = Verdict([r EXCEPT !.events = @ \ known], f, c, a)
<1> DEFINE o == [r EXCEPT !.events = @ \ known]
<1>1. o.status = r.status /\ o.events = r.events \ known
  <2> DEFINE s == r.status
             x == r.exit
             v == r.events
             t == r.text
  <2>1. r = [status |-> s, exit |-> x, events |-> v, text |-> t]
    BY DEF IsResult
  <2> HIDE DEF s, x, v, t
  <2>2. o = [status |-> s, exit |-> x, events |-> v \ known, text |-> t]
    BY <2>1
  <2> HIDE DEF o
  <2>3. o.status = s /\ o.events = v \ known
    BY <2>2
  <2>4. QED
    BY <2>3 DEF s, v
<1> HIDE DEF o
<1>2. \A e : e \in r.events /\ e \notin o.events =>
        e.type = "filesystem" /\ e.source = "target_telemetry" /\ e.allowed /\ IsAuthorized(e, a)
  BY <1>1
<1>3. o.events \subseteq r.events
  BY <1>1
<1>4. \A sources : ViolatesBy(r, a, sources) <=> ViolatesBy(o, a, sources)
  BY <1>2, <1>3 DEF ViolatesBy
<1>5. Blocked(r) = Blocked(o)
  BY <1>2, <1>3 DEF Blocked
<1>6. Observes(r) <=> Observes(o)
  BY <1>2, <1>3 DEF Observes
<1>7. (\E e \in r.events : e.allowed /\ ~IsAuthorized(e, a))
        <=> \E e \in o.events : e.allowed /\ ~IsAuthorized(e, a)
  BY <1>2, <1>3
<1>8. Verdict(r, f, c, a) = Verdict(o, f, c, a)
  BY <1>1, <1>4, <1>5, <1>6, <1>7 DEF Verdict
<1>9. QED
  BY <1>8 DEF o

\* A denied request shows in the verdict, unless nothing could be run.
LEMMA DenialShows ==
  ASSUME NEW r, NEW f, NEW c, NEW a, DecidedAs(a, "deny") # {}
  PROVE  /\ Verdict(r, f, c, a) \in {"review", "unsafe"} \/ r.status = "runtime_unavailable"
         /\ StaticVerdict(f, c, a) = "review"
  BY DEF Verdict, StaticVerdict

\* The report's outcome, decisions, classification and verdict are about its last
\* execution and the plan that was executed; and every behaviour found in a
\* repository has a decision in it, under its risk, whichever retry was made since,
\* and a denial of one shows in the verdict. (_run_snapshot, RiskReasoner.infer)
THEOREM ReportComplete == Spec => []ReportIsComplete
<1>1. Inv /\ ReportInv => ReportIsComplete
  <2> SUFFICES ASSUME Inv, ReportInv PROVE ReportIsComplete
    OBVIOUS
  <2>1. ReportAgrees
    BY DEF Inv, PlanInv, AuthorityInv, EvidenceInv, ReportAgrees
  <2>2. FindingsAreDecided
    <3> SUFFICES ASSUME step = "reported", bundled, plan.executable # NoSteps,
                        ~\E i \in DOMAIN plan.requests : IsMalformed(plan.requests[i]),
                        NEW f \in findings
                 PROVE  \E i \in DOMAIN authorization :
                          /\ authorization[i].request.wants = Wanted(f)
                          /\ authorization[i].request.risk = f.risk
                          /\ authorization[i].decision = "deny" =>
                               verdict \in {"review", "unsafe"} \/ outcome = "runtime_unavailable"
      BY DEF FindingsAreDecided
    <3>1. PICK i \in DOMAIN plan.requests :
            plan.requests[i].wants = Wanted(f) /\ plan.requests[i].risk = f.risk
      BY DEF ReportInv, FindingInv, Covers
    <3>2. authorization = Authorize(plan.requests, config) /\ ~Quarantined(plan.requests)
      BY DEF Inv, PlanInv, Quarantined
    <3>3. i \in DOMAIN authorization /\ authorization[i].request = plan.requests[i]
      BY <3>1, <3>2, Granted
    <3>4. ASSUME authorization[i].decision = "deny"
          PROVE  verdict \in {"review", "unsafe"} \/ outcome = "runtime_unavailable"
      <4>1. DecidedAs(authorization, "deny") # {}
        BY <3>3, <3>4 DEF DecidedAs
      <4>2. CASE history = <<>>
        BY <4>1, <4>2, DenialShows DEF ReportInv, FindingInv
      <4>3. CASE history # <<>>
        <5>1. /\ outcome = Execution.status
              /\ verdict = Verdict(Execution, findings, complete, authorization)
          BY <4>3 DEF Inv, EvidenceInv
        <5>2. QED
          BY <4>1, <5>1, DenialShows
      <4>4. QED
        BY <4>2, <4>3
    <3>5. QED
      BY <3>1, <3>3, <3>4
  <2>3. QED
    BY <2>1, <2>2 DEF ReportIsComplete
<1>2. QED
  BY <1>1, ReportInvariance, PTL

\* What a target writes into its log is weighed alike by hook and assessor: a verdict
\* is unsafe only by the word of an independent observer; the records of what the hook
\* let pass leave it as it is if their names show why it did, and ask for a review if
\* they do not.  (SecurityAssessor.assess, sitecustomize.audit)
THEOREM LogWeighed == Spec => []LogIsWeighed
<1>1. Inv /\ ReportInv => LogIsWeighed
  <2> SUFFICES ASSUME Inv, ReportInv PROVE LogIsWeighed
    OBVIOUS
  <2>1. OnlyObserversDecide
    BY DEF Inv, EvidenceInv, ReportInv, WitnessInv, OnlyObserversDecide
  <2>2. PermittedCallsDoNotCount
    <3> DEFINE known == {e \in Permitted : Placed(e)}
    <3> SUFFICES ASSUME step = "reported", history # <<>>
                 PROVE  verdict = Verdict([Execution EXCEPT !.events = @ \ known],
                                          findings, complete, authorization)
      BY DEF PermittedCallsDoNotCount
    <3>1. verdict = Verdict(Execution, findings, complete, authorization) /\ IsResult(Execution)
      BY DEF Inv, EvidenceInv, ReportInv, WitnessInv
    <3>2. ASSUME NEW e \in known \cap Execution.events
          PROVE  e.type = "filesystem" /\ e.source = "target_telemetry" /\ e.allowed
                 /\ IsAuthorized(e, authorization)
      <4>1. Contract \subseteq Wants(authorization, "allow") \/ built = <<>>
        BY BuiltMayExecute DEF ReportInv, WitnessInv
      <4>2. CASE Contract \subseteq Wants(authorization, "allow")
        BY <4>2, PlacedIsGranted, PermittedShape
      <4>3. CASE built = <<>>
        <5>1. e.source # "target_telemetry"
          BY <4>3 DEF ReportInv, WitnessInv
        <5>2. e.source = "target_telemetry"
          BY PermittedShape
        <5>3. QED
          BY <5>1, <5>2
      <4>4. QED
        BY <4>1, <4>2, <4>3
    <3> HIDE DEF known
    <3>3. QED
      BY <3>1, <3>2, PermittedDoNotCount
  <2>3. UnplacedCallsCount
    <3> SUFFICES ASSUME step = "reported", history # <<>>,
                        NEW e \in Permitted \cap Execution.events, ~Placed(e)
                 PROVE  verdict \in {"review", "unsafe"}
      BY DEF UnplacedCallsCount
    <3>1. /\ verdict = Verdict(Execution, findings, complete, authorization)
          /\ authorization = Authorize(plan.requests, config)
      BY DEF Inv, EvidenceInv, PlanInv
    <3>2. e.allowed /\ ~IsAuthorized(e, authorization)
      BY <3>1, PermittedShape, UnplacedIsNotGranted
    <3>3. QED
      BY <3>1, <3>2, UnauthorizedCounts
  <2>4. QED
    BY <2>1, <2>2, <2>3 DEF LogIsWeighed
<1>2. QED
  BY <1>1, ReportInvariance, PTL
-----------------------------------------------------------------------------
(* The assumption on results *)

\* The bundled supervisor returns nothing that ResultsAssumption excludes, for any exit
\* codes, any matched patterns and whatever a target wrote into its log.
\* (supervisor.execute, _load_python_audit_events)
THEOREM BundledSupervisorQualifies ==
  ASSUME NEW x, NEW exits, NEW texts,
         NEW telemetry, \A e \in telemetry : e.source = "target_telemetry",
         NEW r \in NotStarted \cup Started(x, exits, telemetry, texts)
  PROVE  /\ IsWellFormed(r) /\ IsResult(r)
         /\ \A e \in r.events : e.source = "supervisor" => IsOwnWord(e, x)
<1> DEFINE ran == Says("process", "execute", x, TRUE)
           Known(events) == \A e \in events : e.source = "supervisor" => IsOwnWord(e, x)
           Fine(q) == IsWellFormed(q) /\ IsResult(q) /\ Known(q.events)
<1>1. ASSUME NEW e \in {Diagnostic, NoTelemetry, OverBudget, Hook, ran,
                       Says("policy", "enforce", "sandbox", FALSE),
                       Says("runtime", "invoke", "docker", FALSE),
                       Says("runtime", "create", "container", FALSE)}
      PROVE  e.source = "supervisor" => IsOwnWord(e, x)
  BY DEF Says, Event, IsOwnWord, Diagnostic, NoTelemetry, OverBudget, Hook
<1>2. ASSUME NEW status, NEW exit, NEW events, NEW text,
             \/ status = "succeeded" /\ exit = 0
             \/ status = "failed" /\ exit # 0
             \/ status \in {"blocked", "runtime_unavailable"} /\ exit = None,
             Known(events)
      PROVE  Fine(Result(status, exit, events, text))
  BY <1>2 DEF Result, IsWellFormed, IsResult
<1>3. SUFFICES Fine(r)
  OBVIOUS
<1> HIDE DEF ran, Fine
<1>4. CASE r \in NotStarted
  <2>1. /\ Known({OverBudget}) /\ Known({Diagnostic})
        /\ Known({Says("policy", "enforce", "sandbox", FALSE)})
        /\ Known({Says("runtime", "invoke", "docker", FALSE)})
        /\ Known({Says("runtime", "create", "container", FALSE)})
        /\ Known({Says("runtime", "create", "container", FALSE), Diagnostic})
        /\ Known({Says("runtime", "invoke", "docker", FALSE), Diagnostic})
    BY <1>1
  <2> HIDE DEF Known
  <2>2. \/ r = Result("blocked", None, {Says("policy", "enforce", "sandbox", FALSE)}, {"resource"})
        \/ r = Result("runtime_unavailable", None, {Says("runtime", "invoke", "docker", FALSE)}, {})
        \/ r = Result("failed", None, {OverBudget}, {})
        \/ r = Result("failed", None, {Says("runtime", "create", "container", FALSE), Diagnostic}, {})
        \/ r = Result("failed", None, {Says("runtime", "create", "container", FALSE)}, {})
        \/ r = Result("failed", None, {Diagnostic}, {})
        \/ r = Result("failed", None, {Says("runtime", "invoke", "docker", FALSE), Diagnostic}, {})
    BY <1>4 DEF NotStarted
  <2>3. None # 0
    BY DEF None
  <2>4. QED
    BY <1>2, <2>1, <2>2, <2>3
<1>5. CASE r \in Started(x, exits, telemetry, texts)
  <2>1. PICK a \in AuditLogs(telemetry), d \in SUBSET {Diagnostic}, t \in texts :
          r \in Ends(x, exits, a, d, t)
    BY <1>5 DEF Started
  <2>2. \/ \E n : \E m \in {OverBudget, Diagnostic} :
             n # 0 /\ r = Result("failed", n, a \cup d \cup {m}, t)
        \/ \E n : n # 0 /\ r = Result("failed", n, a \cup d \cup {ran}, t)
        \/ r = Result("succeeded", 0, a \cup d \cup {ran}, t)
    <3>1. None # 0
      BY DEF None
    <3>2. \/ r \in {Result("failed", n, a \cup d \cup {OverBudget}, t) : n \in {None} \cup (exits \ {0})}
          \/ r \in {Result("failed", n, a \cup d \cup {Diagnostic}, t) : n \in {None} \cup (exits \ {0})}
          \/ r \in {Result("failed", n, a \cup d \cup {ran}, t) : n \in exits \ {0}}
          \/ r \in {Result("succeeded", 0, a \cup d \cup {ran}, t)}
          \/ r \in {Result("failed", None, a \cup d \cup {ran}, t) : e \in d}
      BY <2>1 DEF Ends, ran
    <3>3. \A n \in {None} \cup (exits \ {0}) : n # 0
      BY <3>1
    <3>4. CASE \/ r \in {Result("failed", n, a \cup d \cup {OverBudget}, t) : n \in {None} \cup (exits \ {0})}
               \/ r \in {Result("failed", n, a \cup d \cup {Diagnostic}, t) : n \in {None} \cup (exits \ {0})}
      <4>1. PICK n \in {None} \cup (exits \ {0}), m \in {OverBudget, Diagnostic} :
              r = Result("failed", n, a \cup d \cup {m}, t)
        BY <3>4
      <4>2. n # 0
        BY <3>3
      <4>3. QED
        BY <4>1, <4>2, Zenon
    <3>5. CASE r \in {Result("failed", n, a \cup d \cup {ran}, t) : n \in exits \ {0}}
      <4>1. PICK n \in exits \ {0} : r = Result("failed", n, a \cup d \cup {ran}, t)
        BY <3>5
      <4>2. QED
        BY <4>1
    <3>6. CASE \/ r \in {Result("succeeded", 0, a \cup d \cup {ran}, t)}
               \/ r \in {Result("failed", None, a \cup d \cup {ran}, t) : e \in d}
      BY <3>1, <3>6
    <3>7. QED
      BY <3>2, <3>4, <3>5, <3>6
  <2>3. ASSUME NEW m \in {OverBudget, Diagnostic, ran} PROVE Known(a \cup d \cup {m})
    <3>1. a \subseteq telemetry \cup {Hook, NoTelemetry}
      BY DEF AuditLogs
    <3>2. QED
      BY <1>1, <3>1
  <2> HIDE DEF Known
  <2>4. QED
    BY <2>2, <2>3, <1>2
<1>6. QED
  BY <1>4, <1>5
=============================================================================
