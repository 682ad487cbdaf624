--------------------------- MODULE SemanticLayer ---------------------------
(***************************************************************************)
(* What the bundled analyzers, risk reasoner and planner propose for a     *)
(* repository: the findings that the analyzers can report, the request     *)
(* that each of them becomes, and the plan.                                *)
(*                                                                         *)
(* A finding has a category, an action, a target and a risk; where stands  *)
(* for its source line and reason.  A profile is the entrypoint selected,  *)
(* what the goal and the summary are about, and the findings.  Left out:   *)
(* how a program is read, and which of several entrypoints is taken.  The  *)
(* sources are in src/src/r_sandbox/agent/ (risk_reasoner.py, planner.py   *)
(* and environment_planner.py) and tools/source_analyzer/analyzer.py.      *)
(***************************************************************************)
EXTENDS PolicyEngine, FiniteSetsExt

\* What _PythonVisitor.visit_Call, visit_Subscript and visit_Attribute report.
Repertoire ==
  {<<"filesystem", "read", "low">>, <<"filesystem", "write", "medium">>,
   <<"filesystem", "delete_or_move", "high">>,
   <<"network", "send", "critical">>, <<"network", "download", "high">>,
   <<"network", "connect_unknown", "high">>, <<"process", "spawn", "high">>,
   <<"side_effect", "dynamic_code", "critical">>,
   <<"secret", "read_environment", "high">>, <<"secret", "read_environment", "medium">>,
   <<"device", "access", "high">>, <<"device", "access", "medium">>}

IsFinding(f) == <<f.category, f.action, f.risk>> \in Repertoire

NoSteps == "none"     \* the executable of a plan without steps

Profiled(entrypoint, about, findings) ==
  [entrypoint |-> entrypoint, about |-> about, findings |-> findings]

IsProfile(p) ==
  /\ p.entrypoint \in {NoSteps, "python"}
  /\ IsFiniteSet(p.findings) /\ \A f \in p.findings : IsFinding(f)

\* A host name that contains "data", "model" or the like.
TellingHosts == {"archive"}

\* The confidence is at least 0.65.
Related(profile, f) ==
  CASE f.category = "network" ->
         f.action # "send" /\ ("download" \in profile.about \/ f.target \in TellingHosts)
    [] f.category = "device" -> "train" \in profile.about
    [] f.category \in {"secret", "side_effect"} -> FALSE
    [] OTHER -> f.target \in profile.about

\* A request that carries the identity of its own content in this run.
Request(wants, risk, related, why) ==
  [wants |-> wants, risk |-> risk, related |-> related, why |-> why,
   id |-> RequestId(wants, risk, related, why, "this run")]

Wanted(f) == Capability(f.category, f.action, f.target)

RequestFor(profile, f) == Request(Wanted(f), f.risk, Related(profile, f), f.where)

\* Requests with the same identity are one; their order is that of the digests.
InOrder(requests) == FoldSet(LAMBDA r, s : Append(s, r), <<>>, requests)

Inferred(profile) ==
  {Request(w, "low", TRUE, "contract") : w \in Contract}
    \cup {Request(Execute(profile.entrypoint), "low", TRUE, "entrypoint")}
    \cup {RequestFor(profile, f) : f \in profile.findings}

\* Mutant: one request per capability.
PlannedByCapability(profile) ==
  LET inferred == Inferred(profile)
      first(w) == CHOOSE r \in inferred : r.wants = w
  IN [executable |-> profile.entrypoint,
      requests   |-> IF profile.entrypoint = NoSteps THEN <<>>
                     ELSE InOrder({first(r.wants) : r \in inferred}),
      findings   |-> profile.findings, complete |-> FALSE, bundled |-> TRUE]

\* A plan without steps carries no request.  The environment planner always has
\* a warning, so that the coverage is never taken for complete.
Planned(profile) ==
  [executable |-> profile.entrypoint,
   requests   |-> IF profile.entrypoint = NoSteps THEN <<>> ELSE InOrder(Inferred(profile)),
   findings   |-> profile.findings, complete |-> FALSE, bundled |-> TRUE]
=============================================================================
