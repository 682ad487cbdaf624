----------------------------- MODULE AgentLoop -----------------------------
(***************************************************************************)
(* One RSandboxAgent.run: snapshot, plan, authorization, and in shadow     *)
(* mode up to three attempts, each built, executed, classified and either  *)
(* reported or replanned.                                                  *)
(*                                                                         *)
(* The agent is one thread; what it does not choose is what its            *)
(* replaceable parts return: the proposal of the semantic layer, the       *)
(* result of the supervisor, and a failure of the snapshot, the builder,   *)
(* the supervisor or the output manifest.  A plan is its executable, its   *)
(* requests and its attempt number.  The source is                         *)
(* src/src/r_sandbox/agent/orchestrator.py and agent/reflection.py.        *)
(***************************************************************************)
EXTENDS AuditRules, SemanticLayer

CONSTANTS
  Profiles,    \* what the bundled analyzers may make of the repository
  Foreign,     \* what replaced analyzers and planners may propose: executable,
               \* requests, findings, and whether coverage is complete
  Configs,     \* the policy configurations considered
  Results(_),  \* what the supervisor may return for a sandbox with this executable
  Requested    \* the values of max_attempts considered

\* What the semantic layer may propose.
Proposals == {Planned(profiled) : profiled \in Profiles} \cup Foreign

ASSUME ResultsAssumption ==
  \A x \in SafeExecutables : \A r \in Results(x) :
    /\ IsWellFormed(r) /\ IsResult(r)
    /\ \A e \in r.events : e.source = "supervisor" => IsOwnWord(e, x)
ASSUME ProfilesAssumption == \A p \in Profiles : IsProfile(p)
ASSUME ForeignAssumption ==
  \A p \in Foreign :
    p.bundled = FALSE /\ \A i \in DOMAIN p.requests : IsRequest(p.requests[i])
ASSUME RequestedAssumption == Requested \subseteq Int

Modes == {"analyze", "dry_run", "shadow"}

VARIABLES
  step,            \* where run is
  mode, limit,     \* the mode, and max_attempts as it is clamped
  config,          \* the policy configuration of the run
  findings,        \* report.profile.findings
  complete,        \* there is no coverage warning
  bundled,         \* history: the proposal is that of the bundled planner
  plan,            \* current_plan
  authorization,   \* the decisions on it
  index,           \* attempt_index
  built,           \* the sandboxes handed to the supervisor
  runDir,          \* the run's output child: absent, empty or used
  history,         \* report.execution_history
  reflections,     \* the classifications of report.reflections
  outcome,         \* report.outcome
  verdict          \* report.security_assessment.verdict

input   == <<mode, limit, config>>
profile == <<findings, complete, bundled>>
report == <<history, reflections, outcome, verdict>>
vars == <<step, input, profile, plan, authorization, index, built, runDir, report>>

\* Mutant: max_attempts has no upper bound.
ClampBelow(n) == IF n < 1 THEN 1 ELSE n

Clamp(n) == IF n < 1 THEN 1 ELSE IF n > 3 THEN 3 ELSE n

NoPlan == [executable |-> NoSteps, requests |-> <<>>, attempt |-> 0]

Final == {"reported", "raised"}

Execution == history[Len(history)]

Init ==
  /\ step = "snapshot"
  /\ mode \in Modes /\ config \in Configs
  /\ \E n \in Requested : limit = Clamp(n)
  /\ findings = {} /\ complete = TRUE /\ bundled = FALSE
  /\ plan = NoPlan /\ authorization = <<>> /\ index = 0
  /\ built = <<>> /\ runDir = "absent"
  /\ history = <<>> /\ reflections = <<>>
  /\ outcome = "analyzed" /\ verdict = "none"

Raise ==
  /\ step' = "raised"
  /\ UNCHANGED <<input, profile, plan, authorization, index, built, runDir, report>>

---------------------------------------------------------------------------
(* Before the attempts *)

\* The input or the snapshot is refused, or the repository is understood and
\* the semantic layer proposes a plan.
Propose ==
  /\ step = "snapshot"
  /\ \/ Raise
     \/ \E p \in Proposals :
          /\ plan' = [executable |-> p.executable, requests |-> p.requests, attempt |-> 1]
          /\ findings' = p.findings /\ complete' = p.complete /\ bundled' = p.bundled
          /\ step' = "authorize"
          /\ UNCHANGED <<input, authorization, index, built, runDir, report>>

\* A structural error raises; a malformed request blocks the run; otherwise
\* a plan without steps and analyze mode end here.
AuthorizePlan ==
  /\ step = "authorize"
  /\ IF HasDuplicateIds(plan.requests) THEN Raise
     ELSE LET malformed == \E i \in DOMAIN plan.requests : IsMalformed(plan.requests[i])
          IN /\ authorization' = Authorize(plan.requests, config)
             /\ verdict' = StaticVerdict(findings, complete, authorization')
             /\ outcome' = IF malformed THEN "blocked" ELSE outcome
             /\ step' = IF malformed \/ mode = "analyze" \/ plan.executable = NoSteps
                        THEN "reported"
                        ELSE IF mode = "shadow" THEN "inventory" ELSE "build"
             /\ UNCHANGED <<input, profile, plan, index, built, runDir, history, reflections>>

\* The result that stands for a failed inventory of the output.
NotInventoried(status) ==
  Result(status, None, {Says("observer", "output_manifest", "output", FALSE)}, {})

\* The result becomes the report's execution, is classified and assessed.
Reflect(result) ==
  /\ reflections' = Append(reflections, Classification(result))
  /\ verdict' = Verdict(result, findings, complete, authorization)
  /\ outcome' = result.status

\* The manifest before the run: the child does not exist, or cannot be seen.
Inventory ==
  /\ step = "inventory"
  /\ \/ /\ step' = "build"
        /\ UNCHANGED report
     \/ /\ history' = <<NotInventoried("blocked")>>
        /\ Reflect(NotInventoried("blocked"))
        /\ step' = "reported"
  /\ UNCHANGED <<input, profile, plan, authorization, index, built, runDir>>

---------------------------------------------------------------------------
(* An attempt *)

\* The builder refuses a plan whose contract is not granted.  The first
\* attempt needs a child that does not exist; a later one takes what is there.
Build ==
  /\ step = "build"
  /\ \/ Raise
     \/ /\ MayBuild(plan.executable, plan.requests, authorization)
        /\ index = 0 => runDir = "absent"
        /\ runDir' = IF runDir = "absent" THEN "empty" ELSE runDir
        /\ built' = Append(built, [executable |-> plan.executable,
                                   grants |-> Grants(plan.requests, authorization)])
        /\ step' = IF mode = "shadow" THEN "execute" ELSE "preview"
        /\ UNCHANGED <<input, profile, plan, authorization, index, report>>

\* DryRunExecutionSupervisor.execute
Previews ==
  {Result("planned", None, {Says("dry_run", "preview", "image", TRUE)}, {}),
   Result("blocked", None, {Says("policy", "enforce", "sandbox", FALSE)}, {})}

Preview ==
  /\ step = "preview"
  /\ \E result \in Previews :
       /\ history' = Append(history, result)
       /\ Reflect(result)
  /\ step' = "reported"
  /\ UNCHANGED <<input, profile, plan, authorization, index, built, runDir>>

\* The supervisor runs the sandbox, or raises; a run may write into the child.
RunSandbox ==
  /\ step = "execute"
  /\ \/ Raise
     \/ \E result \in Results(plan.executable), left \in {runDir, "used"} :
          /\ history' = Append(history, result)
          /\ runDir' = left
          /\ Reflect(result)
          /\ step' = "decide"
          /\ UNCHANGED <<input, profile, plan, authorization, index, built>>

\* ReflectionAgent.replan: the other interpreter, in the plan and in each
\* request to execute the current one, which gets a new identity.
Interpreters == {Execute(x) : x \in SafeExecutables}

Alternate(executable) == IF executable = "python" THEN "python3" ELSE "python"

Swap(r, executable) ==
  IF r.wants = Execute(executable)
  THEN LET wants == Execute(Alternate(executable))
       IN [r EXCEPT !.wants = wants, !.why = "alternate interpreter",
                    !.id = RequestId(wants, r.risk, r.related, "alternate interpreter", "this run")]
  ELSE r

\* Mutant: the new plan asks for the bare contract only.
ReplanFromContract(p, class) ==
  IF class = "command_or_config"
  THEN LET kept == SelectSeq(p.requests, LAMBDA r : r.wants \in Contract \cup Interpreters)
       IN [executable |-> Alternate(p.executable),
           requests   |-> [i \in DOMAIN kept |-> Swap(kept[i], p.executable)],
           attempt    |-> p.attempt + 1]
  ELSE p

Replan(p, class) ==
  IF class = "command_or_config"
  THEN [executable |-> Alternate(p.executable),
        requests   |-> [i \in DOMAIN p.requests |-> Swap(p.requests[i], p.executable)],
        attempt    |-> p.attempt + 1]
  ELSE p

RequiredTargets ==
  {"<repository>", "<output>", "<temporary>", "<shared-memory>", "python", "python3",
   "1", "16", "64", "1024"}

\* A retry needs no approval and no denied part of the contract.
StopsAtBoundary(decided) ==
  \/ DecidedAs(decided, "approve") # {}
  \/ \E r \in DecidedAs(decided, "deny") : r.wants.target \in RequiredTargets

\* The failure asks for a retry, an attempt is left, the plan changes, and
\* the changed plan passes the authorization boundary.
Retry ==
  LET class == reflections[Len(reflections)]
      candidate == Replan(plan, class)
      decided == Authorize(candidate.requests, config)
  IN /\ step = "decide" /\ ShouldRetry(class) /\ index + 1 < limit /\ candidate # plan
     /\ IF HasDuplicateIds(candidate.requests) THEN Raise
        ELSE /\ IF StopsAtBoundary(decided)
                THEN step' = "diff" /\ UNCHANGED <<plan, authorization, index>>
                ELSE /\ plan' = candidate
                     /\ authorization' = decided
                     /\ index' = index + 1
                     /\ step' = "build"
             /\ UNCHANGED <<input, profile, built, runDir, report>>

Stop ==
  LET class == reflections[Len(reflections)]
  IN /\ step = "decide"
     /\ ~ShouldRetry(class) \/ index + 1 >= limit \/ Replan(plan, class) = plan
     /\ step' = "diff"
     /\ UNCHANGED <<input, profile, plan, authorization, index, built, runDir, report>>

---------------------------------------------------------------------------
(* After the attempts *)

\* What the last execution becomes when its output cannot be inventoried.
Downgraded(result) ==
  Result("failed", None, result.events \cup NotInventoried("failed").events, result.text)

\* The manifest after the run; a failure downgrades the execution in the
\* report and in the history, and is classified and assessed again.
Diff ==
  /\ step = "diff"
  /\ \/ UNCHANGED report
     \/ /\ history' = [history EXCEPT ![Len(history)] = Downgraded(Execution)]
        /\ Reflect(Downgraded(Execution))
  /\ step' = "reported"
  /\ UNCHANGED <<input, profile, plan, authorization, index, built, runDir>>

Next ==
  \/ Propose \/ AuthorizePlan \/ Inventory
  \/ Build \/ Preview \/ RunSandbox \/ Retry \/ Stop
  \/ Diff

Spec == Init /\ [][Next]_vars

---------------------------------------------------------------------------
(* Properties *)

Classes ==
  {"runtime_unavailable", "blocked_behavior", "dry_run", "incomplete_observation", "success",
   "resource", "permission", "dependency_or_version", "command_or_config", "unknown_failure"}

TypeOK ==
  /\ step \in {"snapshot", "authorize", "inventory", "build", "preview", "execute", "decide",
               "diff"} \cup Final
  /\ mode \in Modes /\ limit \in 1 .. 3 /\ index \in 0 .. 2 /\ config \in Configs
  /\ plan.attempt \in 0 .. 3
  /\ \A i \in DOMAIN authorization : authorization[i].decision \in {"allow", "deny", "approve"}
  /\ runDir \in {"absent", "empty", "used"}
  /\ \A i \in DOMAIN history : IsWellFormed(history[i])
  /\ \A i \in DOMAIN reflections : reflections[i] \in Classes
  /\ verdict \in {"none", "review", "unsafe", "inconclusive"}

\* A retry has exactly the authority of the first attempt, with the other
\* interpreter; nothing was granted that the policy did not allow.
\* (ReflectionAgent.replan, _required_authority_denied)
AuthorityNeverWidens ==
  \A i \in DOMAIN built :
    /\ built[i].grants \ Interpreters = built[1].grants \ Interpreters
    /\ Execute(built[i].executable) \in built[i].grants

\* A capability that is held for approval reaches a sandbox only by the
\* approval of this very request, in this run's context, for a pinned image.
\* (PolicyEngine.authorize)
Held(wants) == wants.category = "device" \/ wants.category = "network"
ApprovalIsExact ==
  \A i \in DOMAIN built : \A w \in built[i].grants :
    Held(w) => \/ w.target \in config.listed
               \/ /\ config.immutable
                  /\ \E id \in config.approved :
                       id.wants = w /\ id.related /\ id.context = "this run"

\* The last attempts differ from the first: no plan is run twice in a row, and
\* there are no more of them than were asked for.  (_run_snapshot)
AttemptsAreDistinct ==
  /\ Len(built) <= limit
  /\ \A i \in 2 .. Len(built) : built[i].executable # built[i - 1].executable

\* A plan that passed the authorization boundary never fails in the builder
\* for a lack of authority.  (_required_authority_denied)
RetriesAreBuildable ==
  step = "build" /\ index > 0 => MayBuild(plan.executable, plan.requests, authorization)

\* An execution whose target reported that it started, or that was blocked or
\* badly observed, is the last one: what the target says never causes a retry.
\* (RuntimeObserver._classification)
TargetNeverCausesRetry ==
  \A i \in 1 .. Len(built) - 1 :
    ~TargetStarted(history[i]) /\ ~Observes(history[i]) /\ Blocked(history[i]) = {}

\* The report is about its last execution and the plan that was executed: the
\* outcome, the decisions and the verdict agree with them.  (_run_snapshot)
ReportAgrees ==
  step = "reported" /\ history # <<>> =>
    /\ outcome = Execution.status
    /\ reflections[Len(reflections)] = Classification(Execution)
    /\ authorization = Authorize(plan.requests, config)
    /\ verdict = Verdict(Execution, findings, complete, authorization)
    /\ built # <<>> => built[Len(built)].executable = plan.executable

\* Nothing is built or executed for a malformed proposal, nor executed out of
\* shadow mode.  (_malformed_proposal_rejected, _run_snapshot)
NoEffectWithoutConsent ==
  /\ built # <<>> =>
       mode # "analyze" /\ ~\E i \in DOMAIN plan.requests : IsMalformed(plan.requests[i])
  /\ runDir = "used" => mode = "shadow"

\* Nothing that needs consent happens without it, and no attempt after the
\* first needs what the first did not establish.
NothingWithoutConsent == ApprovalIsExact /\ NoEffectWithoutConsent
RetriesAreSound == AttemptsAreDistinct /\ RetriesAreBuildable /\ TargetNeverCausesRetry

\* Every behaviour that the analyzers found in a repository with an entrypoint
\* has a decision in the report, under the risk it was found to have and whatever
\* was retried since; and while one of them is denied, the verdict does not pass
\* over it, unless nothing could be run.  (RiskReasoner.infer, assess)
FindingsAreDecided ==
  /\ step = "reported" /\ bundled /\ plan.executable # NoSteps
  /\ ~\E i \in DOMAIN plan.requests : IsMalformed(plan.requests[i])
  => \A f \in findings : \E i \in DOMAIN authorization :
       /\ authorization[i].request.wants = Wanted(f)
       /\ authorization[i].request.risk = f.risk
       /\ authorization[i].decision = "deny" =>
            verdict \in {"review", "unsafe"} \/ outcome = "runtime_unavailable"

\* What a report says is about what was found, decided and executed.
ReportIsComplete == ReportAgrees /\ FindingsAreDecided

\* The bundled backend can establish neither end of the scale: without an event
\* of an independent observer nothing is unsafe, whatever the target reports and
\* whichever interpreter a retry used, and nothing is ever safe.
\* (SecurityAssessor.assess, src/docs/architecture.md "Security verdict semantics")
OnlyObserversDecide ==
  \/ verdict \in {"none", "review", "inconclusive"}
  \/ /\ verdict = "unsafe"
     /\ \E e \in Execution.events : e.source = "independent_observer"

\* A record whose text lies where the assessor, too, knows the call to be permitted.
Placed(e) ==
  e.target \in IF e.action = "read" THEN Readable \ {"<prefix>"} ELSE Writable

\* What the hook let pass is not held against the project if its record says so:
\* it leaves the verdict as it is, whatever else was recorded.
\* (sitecustomize.audit, _authorized_filesystem_event)
PermittedCallsDoNotCount ==
  step = "reported" /\ history # <<>> =>
    LET others == [Execution EXCEPT !.events = @ \ {e \in Permitted : Placed(e)}]
    IN verdict = Verdict(others, findings, complete, authorization)

\* A call that the hook let pass for the place it resolves to, under a name that
\* lies elsewhere or in no clear form, does not go unnoticed: the assessor, which
\* resolves nothing, asks for a review.  (_canonical_runtime_path)
UnplacedCallsCount ==
  step = "reported" /\ history # <<>> /\ (\E e \in Permitted \cap Execution.events : ~Placed(e))
    => verdict \in {"review", "unsafe"}

\* The hook and the assessor agree on the target's log: nothing that it says makes a
\* verdict unsafe, and of the permitted calls those count whose names do not show that
\* they are, and no others.
LogIsWeighed == OnlyObserversDecide /\ PermittedCallsDoNotCount /\ UnplacedCallsCount

\* What the documentation says and the code does not do.

\* A missing interpreter is replaced by the other one while an attempt is left
\* and no decision stands in the way.
\* (src/docs/architecture.md:109, src/tests/test_agent_flow.py:1466)
InterpreterIsMissing(result) ==
  /\ result.exit = 127
  /\ ~TargetStarted(result) /\ Blocked(result) = {} /\ Diagnostic \notin result.events
MissingInterpreterIsRetried ==
  step = "reported" /\ Len(history) = 1 /\ limit > 1 /\ ~StopsAtBoundary(authorization)
    => ~InterpreterIsMissing(history[1])

\* "`unsafe` means a trusted independent observer found secret access ..."
\* (src/docs/architecture.md:128)
UnsafeEvidenceDecides ==
  step = "reported" /\ (\E i \in DOMAIN history :
                          ViolatesBy(history[i], authorization, {"independent_observer"}))
    => verdict = "unsafe"
=============================================================================
