---------------------------- MODULE MCAgentLoop ----------------------------
(***************************************************************************)
(* Instances of AgentLoop for TLC: what the semantic layer may propose,    *)
(* how the policy may be configured, and what a supervisor may return.     *)
(***************************************************************************)
EXTENDS AgentLoop

Finding(category, action, target, risk, where) ==
  [category |-> category, action |-> action, target |-> target, risk |-> risk, where |-> where]

Download == Finding("network", "download", "mirror", "high", "a.py:1")
Elsewhere == Finding("network", "download", "archive", "high", "a.py:2")
Loopback == Finding("network", "connect_unknown", "url", "high", "a.py:3")
Upload   == Finding("network", "send", "mirror", "critical", "a.py:4")
Gpu      == Finding("device", "access", "gpu", "high", "a.py:5")
GpuNamed == Finding("device", "access", "gpu", "medium", "a.py:5")
Asset    == Finding("filesystem", "read", "relative", "low", "a.py:6")
Token    == Finding("secret", "read_environment", "token", "high", "a.py:7")
Option   == Finding("secret", "read_environment", "env", "medium", "a.py:8")
Spawn    == Finding("process", "spawn", "shell", "high", "a.py:9")
Scratch(where) == Finding("filesystem", "write", "relative", "medium", where)

Cluster == Profiled("python", {"train", "download"}, {Gpu, GpuNamed, Asset, Download})

\* Nothing found; all that may be approved, with one device found twice; hosts
\* that the goal or their name relates to it; a secret with an upload and a shell;
\* a minor secret; an endpoint that no request can name; and no entrypoint.
MCProfiles ==
  {Profiled("python", {}, {}), Cluster, Profiled("python", {}, {Download, Elsewhere, Asset}),
   Profiled("python", {"download"}, {Token, Upload, Spawn, Download}),
   Profiled("python", {}, {Option}), Profiled("python", {}, {Loopback, Asset}),
   Profiled(NoSteps, {}, {Option, Token})}

Plain(wants) == Request(wants, "low", TRUE, "goal")
Read   == Plain(Capability("filesystem", "read", "relative"))
Forged == [Read EXCEPT !.id = RequestId(Read.wants, "low", TRUE, "goal", "other run")]
Again  == Request(Execute("python"), "low", TRUE, "helper")
Risky  == Request(Execute("python"), "high", TRUE, "helper")

Proposal(executable, extra, found, covered) ==
  [executable |-> executable, findings |-> found, complete |-> covered, bundled |-> FALSE,
   requests |-> InOrder({Plain(w) : w \in Contract \cup {Execute(executable)}} \cup extra)]

\* Other semantic layers: an identity of another run, two requests for one
\* interpreter, one of them risky, and findings that led to no request.
MCForeign ==
  {Proposal("python", {Forged}, {}, TRUE), Proposal("python", {Again, Read}, {Asset}, TRUE),
   Proposal("python3", {Risky}, {Option}, FALSE),
   Proposal("python3", {}, {Scratch("b.py:1"), Scratch("b.py:2"), Scratch("b.py:3"), Option}, TRUE)}

Config(approved, listed, immutable) ==
  [approved |-> approved, listed |-> listed, immutable |-> immutable]

Id(f) == RequestFor(Cluster, f).id
Stale(f) == [Id(f) EXCEPT !.context = "other run"]

\* Nothing approved; both held requests approved, for a pinned image or not;
\* approvals of an earlier run and of what cannot be approved, with a mirror listed.
MCConfigs ==
  {Config({}, {}, TRUE), Config({Id(Download), Id(Gpu)}, {}, TRUE),
   Config({Id(Download), Id(Gpu)}, {}, FALSE),
   Config({Stale(Download), Stale(Gpu), Id(Token), Id(Upload), Risky.id}, {"mirror"}, TRUE)}

MCRequested == {0, 9}

Path(place, name) == [place |-> place, name |-> name]
In(place) == Path(place, place)

\* What the log of a target may say besides its hook: lines that the hook wrote,
\* two of them for a path that is not named for its place, and lines that the
\* target forged.
Logs ==
  {{Hooked("secret", "read", "token", FALSE), Hooked("network", "download", "mirror", TRUE)},
   {ReadFile(In("<runtime>")), MutatePath(In("<output>"))},
   {RenameFile(In("<output>"), In("<repository>"))},
   {ReadFile(In("host")), WriteFile(Path("<temporary>", "<unclear>"))},
   {ReadFile(Path("<repository>", "host"))}, {ReadFile(In("<prefix>"))}, {SpawnProcess},
   {Fetch("mirror", "nothing")}}

\* The bundled supervisor.
MCBundled(executable) ==
  NotStarted \cup UNION {Started(executable, {0, 127}, log, {{"command_or_config"}}) : log \in Logs}

Observed(type, action, target, allowed) ==
  Event(type, action, target, allowed, "independent_observer")

\* An adapter that need not be instrumented, and may have a trusted observer.
Witnessed ==
  {{}, {Hook}, {NoTelemetry}, {Observed("secret", "read", "token", TRUE)},
   {Observed("network", "download", "mirror", TRUE)},
   {Observed("filesystem", "write", "<output>", TRUE), Hook},
   {Observed("filesystem", "write", "other", FALSE)}, {Observed("resource", "usage", "cpu", TRUE)},
   {Observed("permission", "ask", "gpu", FALSE)}, {SpawnProcess}}

MCAdapter(executable) ==
  {Result("succeeded", 0, e, {}) : e \in Witnessed}
    \cup {Result("failed", x, e, {}) : x \in {1, 126, 127}, e \in Witnessed}
    \cup {Result("failed", 1, {}, t) : t \in SUBSET {"resource", "permission", "dependency_or_version",
                                                   "command_or_config"}}
    \cup {Result("failed", None, {OverBudget}, {}), Result("runtime_unavailable", None, {}, {}),
          Result("blocked", None, {}, {"permission"})}

MCResults(executable) == MCBundled(executable) \cup MCAdapter(executable)
=============================================================================
