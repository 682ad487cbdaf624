-------------------------- MODULE RuntimeEvidence --------------------------
(***************************************************************************)
(* What an execution reports and how it is read: RuntimeObserver           *)
(* classifies a failure, SecurityAssessor turns static findings, decisions *)
(* and events into a verdict.                                              *)
(*                                                                         *)
(* A result has a status, an exit code (or None), a set of events and the  *)
(* set of diagnostic patterns its streams match.  An event has a type, an  *)
(* action, a target, a source and whether it was allowed to happen.        *)
(* The source is src/src/r_sandbox/tools/runtime_observer/observer.py and  *)
(* src/src/r_sandbox/agent/security_assessor.py.                           *)
(***************************************************************************)
EXTENDS PolicyEngine, FiniteSetsExt

None == -1     \* no exit code

Event(type, action, target, allowed, source) ==
  [type |-> type, action |-> action, target |-> target, allowed |-> allowed, source |-> source]

\* ExecutionResult.__post_init__
IsWellFormed(result) ==
  /\ result.status = "succeeded" => result.exit = 0
  /\ result.status = "failed" => result.exit # 0
  /\ result.status \notin {"succeeded", "failed"} => result.exit = None

\* A result has these fields and no others.
IsResult(r) ==
  r = [status |-> r.status, exit |-> r.exit, events |-> r.events, text |-> r.text]

\* What the supervisor reports of its own: of its client and container, of what it
\* could not observe, of a policy or a limit, and that it executed the command.
IsOwnWord(e, executable) ==
  \/ e.type \in {"runtime", "observer", "policy", "resource"}
  \/ e.type = "process" /\ e.action = "execute" /\ e.target = executable

---------------------------------------------------------------------------
(* RuntimeObserver *)

BehaviorTypes ==
  {"filesystem", "network", "process", "secret", "device", "resource", "side_effect"}

Blocked(result) == {e \in result.events : ~e.allowed /\ e.type \in BehaviorTypes}
Observes(result) == \E e \in result.events : e.type = "observer"

\* The target itself reported that the audit hook was installed.
TargetStarted(result) ==
  \E e \in result.events :
     e.source = "target_telemetry" /\ e.type = "runtime" /\ e.action = "audit_hook"

Trusted == {"supervisor", "independent_observer"}

\* The first pattern that matches, in the order they are tried.
Diagnosis(text) ==
  CASE "resource"   \in text -> "resource"
    [] "permission" \in text /\ "resource" \notin text -> "permission"
    [] "dependency_or_version" \in text /\ text \cap {"resource", "permission"} = {}
         -> "dependency_or_version"
    [] text = {"command_or_config"} -> "command_or_config"
    [] OTHER -> "unknown_failure"

ExitClass(result) ==
  CASE result.exit = 126 -> "permission"
    [] result.exit = 127 -> "command_or_config"
    [] /\ result.exit \notin {126, 127}
       /\ result.exit \in {137, 143} \/ \E e \in result.events : e.type = "resource" -> "resource"
    [] OTHER -> Diagnosis(result.text)

Refused(result) ==
  /\ \E e \in result.events : ~e.allowed
  /\ \E e \in result.events :
       e.type \in {"network", "filesystem", "permission", "policy", "authorization"}

\* What a result that no earlier rule decides says about its own cause.
\* Once target code has started, neither its exit code nor its output count.
FailureClass(result) ==
  IF \E e \in result.events : ~e.allowed /\ e.type = "runtime" /\ e.action = "invoke"
  THEN "runtime_unavailable"
  ELSE IF \E e \in result.events : e.type = "resource" /\ e.source \in Trusted THEN "resource"
  ELSE IF Refused(result) THEN "permission"
  ELSE IF TargetStarted(result) THEN "unknown_failure"
  ELSE ExitClass(result)

\* Mutant: the exit code of a started target counts.
ClassifyByExit(result) ==
  IF result.status = "runtime_unavailable" THEN "runtime_unavailable"
  ELSE IF Blocked(result) # {} THEN "blocked_behavior"
  ELSE IF result.status = "planned" /\ (\E e \in result.events : e.type = "dry_run")
  THEN "dry_run"
  ELSE IF Observes(result) THEN "incomplete_observation"
  ELSE IF result.status = "succeeded" THEN "success"
  ELSE ExitClass(result)

Classification(result) ==
  IF result.status = "runtime_unavailable" THEN "runtime_unavailable"
  ELSE IF Blocked(result) # {} THEN "blocked_behavior"
  ELSE IF result.status = "planned" /\ (\E e \in result.events : e.type = "dry_run")
  THEN "dry_run"
  ELSE IF Observes(result) THEN "incomplete_observation"
  ELSE IF result.status = "succeeded" THEN "success"
  ELSE FailureClass(result)

ShouldRetry(class) == class \in {"dependency_or_version", "command_or_config", "resource"}

---------------------------------------------------------------------------
(* SecurityAssessor *)

Wants(authorization, decision) == {r.wants : r \in DecidedAs(authorization, decision)}

ExpectedHosts(authorization) ==
  {w.target : w \in {v \in Wants(authorization, "allow") \cup Wants(authorization, "approve") :
                        v.category = "network" /\ v.action = "download"}}

SecretIsDenied(authorization) ==
  \E r \in DecidedAs(authorization, "deny") :
     r.wants.category = "secret" /\ r.risk \in {"high", "critical"}

IsDangerous(e, authorization) ==
  \/ e.type \in {"secret", "side_effect", "device"}
  \/ /\ e.type = "network"
     /\ \/ e.action \in {"send", "post", "put", "patch", "upload"}
        \/ e.target \notin ExpectedHosts(authorization)
        \/ SecretIsDenied(authorization)
  \/ /\ e.type = "filesystem"
     /\ e.target \notin ScratchTargets
     /\ \/ e.action \in {"delete", "delete_or_move", "rename", "mutate", "write"}
        \/ e.target = "credential"
  \/ /\ e.type = "process"
     /\ ~(e.action = "execute" /\ Execute(e.target) \in Wants(authorization, "allow"))

Scopes == {"<repository>", "<output>", "<temporary>", "<shared-memory>"}

\* Mutant: reading needs no authority.
ReadingIsAuthorized(e, allowed) ==
  \/ e.action \in ReadActions
  \/ e.target \in Scopes /\ Capability("filesystem", "write", e.target) \in allowed

\* The runtime's own files may be read, and in the scopes what is allowed of them;
\* listing and statting count as reading, creating and deleting as writing.  A name
\* that is nowhere in these places, or in no clear form, is not authorized.
FilesystemIsAuthorized(e, allowed) ==
  LET needed == IF e.action \in ReadActions THEN "read"
                ELSE IF e.action \in OutputActions \cup {"delete"} THEN "write" ELSE e.action
  IN \/ e.action \in ReadActions /\ e.target = "<runtime>"
     \/ e.target \in Scopes /\ Capability("filesystem", needed, e.target) \in allowed

IsAuthorized(e, authorization) ==
  LET allowed == Wants(authorization, "allow")
  IN CASE e.type \in {"observer", "runtime", "dry_run", "policy"} -> TRUE
       [] e.type = "filesystem" -> FilesystemIsAuthorized(e, allowed)
       [] e.type = "network" ->
            /\ e.action \in {"connect", "download"}
            /\ Capability("network", "download", e.target) \in allowed
       [] e.type \in {"process", "device"} ->
            Capability(e.type, e.action, e.target) \in allowed
       [] e.type = "resource" -> e.action # "limit"
       [] OTHER -> FALSE

\* A high-impact event outside the contract, told by one of these sources.
ViolatesBy(result, authorization, sources) ==
  \E e \in result.events :
     e.source \in sources /\ IsDangerous(e, authorization) /\ ~IsAuthorized(e, authorization)

NeedsReview(findings) == \E f \in findings : f.risk \in {"high", "critical"}

Weight == [low |-> 0, medium |-> 5, high |-> 20, critical |-> 45]
IsSuspicious(findings) == MapThenSumSet(LAMBDA f : Weight[f.risk], findings) >= 20

\* The verdict without an execution.
StaticVerdict(findings, complete, authorization) ==
  IF DecidedAs(authorization, "deny") # {} \/ NeedsReview(findings) THEN "review"
  ELSE IF complete /\ IsSuspicious(findings) THEN "review"
  ELSE "inconclusive"

\* Mutant: the telemetry of the target is believed.
VerdictTrustsTarget(result, findings, complete, authorization) ==
  IF ViolatesBy(result, authorization, Trusted \cup {"target_telemetry"}) THEN "unsafe"
  ELSE IF \/ \E e \in Blocked(result) : e.type = "resource" /\ e.action = "limit"
          \/ \E e \in result.events : e.allowed /\ ~IsAuthorized(e, authorization)
  THEN "review"
  ELSE StaticVerdict(findings, complete, authorization)

\* The rules in the order they are tried; "safe" needs an attestation that no
\* backend can give.
Verdict(result, findings, complete, authorization) ==
  IF ViolatesBy(result, authorization, Trusted) THEN "unsafe"
  ELSE IF \/ \E e \in Blocked(result) : e.type = "resource" /\ e.action = "limit"
          \/ ViolatesBy(result, authorization, {"target_telemetry"})
          \/ \E e \in result.events : e.allowed /\ ~IsAuthorized(e, authorization)
  THEN "review"
  ELSE IF result.status = "runtime_unavailable"
  THEN IF NeedsReview(findings) THEN "review" ELSE "inconclusive"
  ELSE IF DecidedAs(authorization, "deny") # {} THEN "review"
  ELSE IF Observes(result) \/ ~complete
  THEN IF NeedsReview(findings) THEN "review" ELSE "inconclusive"
  ELSE IF Blocked(result) # {} \/ IsSuspicious(findings) THEN "review"
  ELSE "inconclusive"

---------------------------------------------------------------------------
(* The results of the bundled supervisor, src/src/r_sandbox/tools/          *)
(* execution_supervisor/supervisor.py; ExecutionSupervisor models how they  *)
(* come about.                                                              *)

Result(status, exit, events, text) ==
  [status |-> status, exit |-> exit, events |-> events, text |-> text]

Says(type, action, target, allowed) == Event(type, action, target, allowed, "supervisor")

Diagnostic  == Says("observer", "lifecycle", "run", FALSE)
NoTelemetry == Says("observer", "handshake", "python", FALSE)
OverBudget  == Says("resource", "limit", "output", FALSE)
Hook        == Event("runtime", "audit_hook", "python", TRUE, "target_telemetry")

\* Before a container is started: a rejected specification or image, no
\* client, an output directory over its budget, a container that was not
\* created, or could not be owned, or could not be started.
NotStarted ==
  {Result("blocked", None, {Says("policy", "enforce", "sandbox", FALSE)}, {"resource"}),
   Result("runtime_unavailable", None, {Says("runtime", "invoke", "docker", FALSE)}, {}),
   Result("failed", None, {OverBudget}, {}),
   Result("failed", None, {Says("runtime", "create", "container", FALSE), Diagnostic}, {}),
   Result("failed", None, {Says("runtime", "create", "container", FALSE)}, {}),
   Result("failed", None, {Diagnostic}, {}),
   Result("failed", None, {Says("runtime", "invoke", "docker", FALSE), Diagnostic}, {})}

\* The log has the hook's first event, or the supervisor says that it has not.
AuditLogs(telemetry) == {t \cup {h} : t \in SUBSET telemetry, h \in {Hook, NoTelemetry}}

\* How a started run may end, beside the log and with what was diagnosed: by the
\* monitor's failure or its late scan, by the time limit, or with the target's exit
\* code.  A diagnostic of the container or the client, unlike one of a stream or of
\* the log, takes a success away.
Ends(executable, exits, log, diagnosed, text) ==
  LET told == log \cup diagnosed
      ran  == told \cup {Says("process", "execute", executable, TRUE)}
  IN {Result("failed", x, told \cup {OverBudget}, text) : x \in {None} \cup (exits \ {0})}
     \cup {Result("failed", x, told \cup {Diagnostic}, text) : x \in {None} \cup (exits \ {0})}
     \cup {Result("failed", x, ran, text) : x \in exits \ {0}}
     \cup {Result("succeeded", 0, ran, text)}
     \cup {Result("failed", None, ran, text) : e \in diagnosed}

Started(executable, exits, telemetry, texts) ==
  UNION {Ends(executable, exits, log, diagnosed, text)
           : log \in AuditLogs(telemetry), diagnosed \in SUBSET {Diagnostic}, text \in texts}
=============================================================================
