# Verification of R-Sandbox

R-Sandbox plans, authorizes and, when asked to, executes somebody else's research
code in a Docker container, and reports a verdict about it. This directory holds
TLA+ models of the parts where that can go wrong without a test noticing, the TLC
configurations that check them, and TLAPS proofs. Every definition was read off the
Python source under `src/src/r_sandbox/`; PROJECT.json maps each to its lines.

## 1. The system

One process, the CLI or the dashboard, runs one agent at a time. The agent is a
pipeline; each stage hands an immutable record to the next.

| Component | State it keeps | Operations | Talks to |
|---|---|---|---|
| Repository snapshot (`repository_snapshot/`) | digest, budgets, omissions, the private copy | create, copy, seal, dispose | the live checkout; the agent |
| Analyzers and semantic layer (`source_analyzer/`, `dependency_analyzer/`, `agent/planner.py`, `risk_reasoner.py`, ...) | none | findings, entrypoint, capability requests | the agent |
| Policy engine (`policy/`) | none; the configuration is the caller's | validate, quarantine, authorize | the agent |
| Sandbox builder (`sandbox_builder/`) | the output child on disk | build | the agent, the host file system |
| Execution supervisor (`execution_supervisor/supervisor.py`) | the container, the client process, the teardown lock and its outcome, the monitor's one-element queue | execute, stop_sandbox, the cleanup rounds | the Docker CLI and daemon; three threads |
| Stream drainers | a bounded head and tail, a count | feed, render | the supervisor, the target's pipes |
| Python audit hook (`python_audit/`) | the log, a recursion flag, an event count | record, deny, audit | the target; the supervisor reads the log |
| Output manifest (`runtime_observer/manifest.py`) | budgets of one scan | capture, diff | the agent, the monitor |
| Runtime observer, security assessor | none | inspect; assess | the agent |
| Agent loop (`agent/orchestrator.py`, `reflection.py`) | current plan, authorization, report | run | everything above |
| Dashboard (`ui/`) | run lock, handler threads; the page's busy state and report | POST /api/run, shutdown; submit, model tool | browser, agent |
| Reporter, records, CLI | none | render, redact, parse | the user |

Interactions are calls, with these exceptions: the supervisor shares a lock, a queue
and a container with its monitor thread, and two buffers with its drainers; the
target writes into the output directory while the monitor scans it, and into the log
that the supervisor later reads; the dashboard's handlers share a lock.

What is hard, and what makes each part correct:

* **Supervisor.** Two threads tear the same container down; Docker commands fail,
  time out or answer late; an interrupt may arrive at any statement. Correct means: a
  success is never reported over something that still runs, and what may still run is
  named.
* **Drainers.** A bounded join means that a buffer may be rendered while it is fed.
  Correct means: bounded, never blocking the target, and exact unless it says so.
* **Agent loop.** Up to three attempts, each with its plan, decisions and assessment,
  on evidence that the target may have written. Correct means: no retry gains
  authority or is caused by the target, and the report is about what was executed.
* **Policy.** An approval must open one request, in one context, for a pinned image.
* **Snapshot.** The checkout changes while it is copied. Correct means: the digest
  names exactly the files that the sandbox sees, and every omission is told.
* **Audit hook.** Threads and processes of the target share a log, and each process a
  flag against recursion. Correct means: the hook is blind only beside its own writes,
  and events that are missing are announced.
* **Manifest.** A directory is listed while something may still write to it. Correct
  means: what was left alone is listed as it is, and the limits hold.
* **Analyzers, risk reasoner, planner.** Correct means: every finding reaches a
  decision, under its own risk.
* **Dashboard.** One run at a time, whoever asks for it; the page's state follows it,
  and a shutdown lets a check clean up its container.

## 2. Modules

| Module | Models | Extends or uses |
|---|---|---|
| `SandboxRun` | the promise of `execute` to its caller | |
| `ExecutionSupervisor` | one call of `execute`, with both threads, the drainers, the client and the daemon | implements `SandboxRun` |
| `ExecutionSupervisorProofs` | its theorems | TLAPS |
| `StreamCapture` | one drained pipe, statement by statement | refines what the supervisor's model calls a drainer |
| `StreamCaptureProofs` | its theorems | TLAPS |
| `PolicyEngine` | `authorize`, the identity of a request, the grants of a sandbox | |
| `SemanticLayer` | what the analyzers may find and what is proposed for it | `PolicyEngine` |
| `RuntimeEvidence` | the classification of a result, the verdict, and every result that the supervisor can return | `PolicyEngine` |
| `AuditRules` | what the hook permits a call and records of it | `RuntimeEvidence` |
| `AgentLoop` | one `RSandboxAgent.run` | `AuditRules`, `SemanticLayer` |
| `AgentLoopProofs` | its theorems | TLAPS |
| `SnapshotCopy` | one copy of a checkout, system call by system call | |
| `SnapshotCopyProofs` | its theorems | TLAPS |
| `OutputManifest` | both inventories of an output and their difference | |
| `OutputManifestProofs` | its theorems | TLAPS |
| `AuditLog` | the hook in all threads and processes of a target, and the loader of its log | |
| `AuditLogProofs` | its theorems | TLAPS |
| `CheckDesk` | the promise of the dashboard to whoever asks for a check | |
| `Dashboard` | the server with its handler threads, the page, the clients, the shutdown | implements `CheckDesk` |
| `DashboardProofs` | its theorems | TLAPS |
| `InductionProofs` | induction over numbers and finite sets, folds and sums, for the other proofs | TLAPS |
| `MC...` | finite instances, and the documented statements that fail | |

### ExecutionSupervisor

`pc[Main]` is the statement of `execute`, `_start_owned_container` or
`_supervise_started_docker` the caller is at, `pc[Monitor]` that of `_monitor_output`.
Both may enter `stop_sandbox`; `ret[t]` is where thread `t` continues. `stopLock`,
`stopAttempted` and `cleanupConfirmed` are `stop_lock` and the two non-locals;
`failures` is the queue of one element; `lifecycle` and `result` are the events and
the result of the same names. One action is one statement that another actor can see:
`TakeFailure` (`get_nowait`) and `CheckAlive` (`is_alive`) are two, because the
monitor may act between them. The daemon creates, starts and removes the container in
its own time and may miss it in `TransientMisses` listings; a `docker create` may time
out and succeed later. `Interrupt` delivers a `KeyboardInterrupt` at a statement of
the caller, and each action of it follows the `except` and `finally` clauses there.

### StreamCapture

`head`, `tail`, `total` are the buffer's fields; each statement of `feed` and of
`render` is a step. A byte is its position in the stream, so "exact" and "in order"
can be said without comparing contents.

### PolicyEngine, SemanticLayer, RuntimeEvidence, AuditRules, AgentLoop

A request is what it asks for, its risk, its relation to the goal (a confidence of at
least 0.65), its justification and the identity it carries; an identity is the record of
what `capability_request_id` digests. `Evaluate` has one operator per handler, `Decide`
adds identity and approval, `Authorize` the quarantine with its placeholders.
`SemanticLayer` has the findings that the source analyzer can report (`Repertoire`) and
turns a profile into a plan: the requests of the contract, of the entrypoint and of each
finding, one per identity. `Classification` and `Verdict` are the two rule lists in the
order of the code. `AuditRules` has one operator per group of audited calls. A path has
a place, what it resolves to, and a name, what its text lies in: the hook decides on the
first and records the second, and the assessor has the second only.

`AgentLoop` has one action per stage: `Propose`,
`AuthorizePlan`, `Inventory` (the manifest before), `Build`, `Preview`, `RunSandbox`
(with reflection and assessment), `Retry` or `Stop`, and `Diff` (the manifest after).
What the replaceable parts return is chosen: the plan of the bundled layer for one of
`Profiles` or one of `Foreign`, a result of `Results`, a failure. `built` remembers what
the supervisor was given, so that later properties can compare attempts. The composition
is what `FindingsAreDecided` (from a finding to the verdict) and `LogIsWeighed` (from the
hook to the verdict) are about: each relates two parts that keep separate lists of the
same things. `LogIsWeighed` has three parts. `OnlyObserversDecide`: nothing in a log makes
a verdict unsafe. `PermittedCallsDoNotCount`: permitted calls whose names lie where they
are permitted leave the verdict as it is. `UnplacedCallsCount`: any other permitted call
makes it at least a review.

### SnapshotCopy

`tree` and `node` are the checkout as the kernel has it: what inode a path names, and
the kind, blocks, modification time and links of each inode. `mounts` is the mount
table, `nested` the copy of it read before the walk. `pc` is the system call the copy is
at: `Pop`, `Scan`, then for each entry `Skip`, `Stop`, `MakeDirectory` or `BeginCopy`,
and `OpenSource`, `StatSource`, `CompareSource`, `ReadChunk`, `ReadEnds`, `CheckSource`
for one file. A call on the file that fails leads to `Discard`, the `finally` block of
`_copy_regular_file`, which may fail too. `Write`, `Link`, `Place`, `Delete` and `Mount`
are what an editor, a build or an administrator does in between, `Tick` the clock that
stamps files. `disk` and `made` are the copy, `records` is what the digest was fed.

### OutputManifest

`stack` is the recursion of `_scan_directory`, `pc` its system call (`Enter`, `Open`,
`Entry`, `Return`), `budget` the counters. A directory iterator returns every name that
was there throughout, and perhaps those that came or went. `lstat` looks at a name itself
(`Found`), but the check of containment and `scandir` resolve it (`Followed`): a directory
that becomes a link in between is followed, and what is behind it may be anything. `Writer`
is what is left of the target; `touched` and `seen` remember what it did during the scan.

### AuditLog

`proc` is the hook's closure in each process (descriptor, flag, count), `thread` where
each thread is: `Install`, `Call`, `Record` up to the write, `Write` (all or part of what
is left) or `WriteFails`. `StartThread`, `Fork` and `Spawn` are the target's. The loader
is a state function, `Diagnostics` and `Reported`, because the target may be killed in any
state. `kind` and `fate` remember what each event is and what became of it.

### Dashboard

A connection has a client's and a server's end; `thread` is the statement of `do_POST`
its handler is at, from `Accept` to `Finally`. `page` has the busy state, the interval and
the report of `app.js`. Requests come from the form, from the model tool, from
`bootstrap` and from strangers: other clients with the token, or a browser that connects
ahead and says nothing. `Interrupt` is Ctrl+C, `Joined` the end of `server_close`.

`CheckDesk` says what all this is for: one check at a time, a conflict beside another
request's only, a report of a check that ended and gave the desk back, one answer each, and
nothing lost before the server closes. `Standing` maps a connection to it. A check whose
`do_POST` raised has answered its error before it frees the lock, so the desk is still
taken then (`failing`); one that ends well frees it before its report is sent (`completed`).

## 3. Runs

| Run | Bounds | Shows |
|---|---|---|
| `SupervisorSafety` | 4 rounds, 2 confirmations, 1 missed listing, 2 streams, no interrupt | the safety of a result, with the source's own numbers |
| `SupervisorInterrupts` | 2 rounds, 2 confirmations, 1 miss, 1 interrupt, no stream | exclusive and final teardown, refinement of `SandboxRun`, the inductive invariant, and that the call ends |
| `Capture` | limits 0 to 5, chunks and pipe of 4, 7 bytes | retention, exactness, order, and that the target is not blocked |
| `Agent` | seven profiles and four foreign proposals, four configurations, seven logs, `max_attempts` 0 and 9 | the properties of a run in every mode, from a finding and an audited call to the verdict |
| `Snapshot` | ten checkouts, up to two concurrent changes, one tick, 2 files, 3 directories, depth 1, 3 blocks | what a snapshot contains, what its digest says, budgets, order, mounts, and that the copy ends |
| `Manifest` | four outputs, five paths, four changes, two sizes, limits of 2 files, 3 directories, depth 1, 3 bytes | what an inventory lists while something writes, and that the difference of two is right |
| `AuditLog` | two threads and one more process, 3 records per process, 4 calls, records of 3 units, a log of 11 | when the hook is blind, which losses go untold, and where the marker is |
| `Dashboard` | one page, three connections, three Ctrl+C | one check at a time, an orderly shutdown, an honest page, the refinement of `CheckDesk`, and that lock and process are freed |
| `LostMonitorFailure`, `InterruptBeforeSupervision`, `MissingInterpreterStops`, `EarlierEvidenceDropped` | as above | one documented statement each that the code does not keep (section 6) |

Why the bounds are enough. *Supervisor*: the thresholds in the code are "two empty
listings in a row" and "as many rounds as there are"; two rounds are the least that
can confirm, four are the source's; one miss is the most for which the confirmation is
sound, and the proofs replace all of these by any values with
`TransientMisses < Confirmations`. One interrupt meets every statement; two are beyond
what the code claims (section 5). The interrupted run has no drainer, since no property
of it reads one; `SupervisorSafety` has both. *Capture*: 0 and 1 are limits without a
tail or without a head, 4 and 5 an even and an odd split; a chunk of 4 is as long as
the longest tail, and 7 bytes overflow every limit by more than a tail's length.
*Agent*: three attempts are the clamp's maximum and 0 and 9 are outside it on either
side. The profiles contain one of each kind that the rules tell apart: nothing found; all
that can be approved, with one device found twice under two risks; hosts that the goal or
their own name relates to it; a secret with an upload and a shell; a minor secret; an
endpoint that no request can name; no entrypoint. The foreign proposals have what the
bundled layer never yields: a stale identity, a second and a risky request for the same
interpreter, findings without requests, and complete coverage. The seven logs have each
action and each kind of place that the hook and the assessor tell apart.
*Snapshot*: a mixture of two contents needs two writes, and both the replacement of a
file and its undoing are two changes, so the ordinary checkout has two; the other nine
put one file, directory, block or entry too many at each limit, contain everything that
is excluded, or a mount, and most of them meet one change, at any step. One tick separates a write
that the modification time shows from one that it does not. Two
directories with files below them are the least on which the order of the digest depends.
*Manifest*: each limit is one below what some output reaches; a renamed file that is
counted twice or missed needs two names in one directory, one that moves between
directories a name below one, and a change that is undone needs two of the four changes.
*AuditLog*: blindness needs two threads, an inherited flag a fork beside a write, a wiped
log a second interpreter; with 3 records the hook's handshake, one event and the marker
fit, and 11 units are one less than four records. A fifth call only repeats these.
*Dashboard*: a conflict needs two requests, and a lock freed by the wrong one three. The
page's three can be its bootstrap, its form and its tool, or either with a stranger.

Deadlock is not checked: a call that returned, a rendered buffer, a finished report and
a sealed snapshot have no next step; nor have a finished inventory, a target out of calls,
and a server that is gone. `Concludes` says that the supervisor stops nowhere else.

### Fairness

`Concludes` assumes weak fairness of the caller (`MainStep`) and of the monitor
(`MonitorStep`): both are ordinary threads, and each of their waits has a timeout or
waits for the other thread only. Nothing is assumed of the daemon, the client or the
target, which is the point of it. `TargetIsNotBlocked` assumes weak fairness of
`Read \/ Feed`, that is, that the drainer thread is scheduled when a read would not
block; it does not assume that the drainer ends, and the caller may do nothing at all.
`Finishes` assumes weak fairness of the steps of the copy other than a failing call; the
programs beside it may do anything or nothing.
`LockIsFreed` and `Stops` assume weak fairness of each connection's `Progress` and of
`Joined`: threads of the server are scheduled, the agent ends (its own waits are bounded),
and a browser sends the body of a request it started and renders the answer. A stranger
owes nothing, nobody has to press Ctrl+C, and both properties say which silent stranger
is the exception: the server has no timeout, so a browser's idle preconnection is enough
to hold up a shutdown.
The agent loop has no liveness property: it is one thread and its only loop is bounded.
Nor has the audit log, whose target may be killed in any state, or the manifest, whose
writer may create names for as long as the limits allow.

## 4. Theorems

TLAPS proves, for every value of the constants that satisfies the modules' `ASSUME`s:

* **ExecutionSupervisorProofs**: `TypeCorrect`, `Invariance`, `ConfirmationIsSound`,
  `SuccessIsTornDown`, `OrphansAreReported`, `TeardownIsExclusive`,
  `TeardownStaysFinal`, `ResultIsHonest`, `OverBudgetIsUnread`, `CleanupHappens` (for at
  most one interrupt), and `PromiseKept`, the refinement of `SandboxRun`.
* **StreamCaptureProofs**: `CaptureInvariance`, `RetentionBounded`, `BothEndsKept`,
  `CleanCaptureExact`, `CaptureTypes`, `RenderingKeepsOrder`.
* **AgentLoopProofs**: `AgentTypes`, `NoAuthorityIsGained`, `ConsentIsNeeded`,
  `RetriesAreSafe`, `ReportComplete`, `LogWeighed`, and
  `BundledSupervisorQualifies`, that the shipped supervisor is one the theorems are about.
* **SnapshotCopyProofs**: `SnapshotInvariance`, `SnapshotTypesCorrect`, `LimitsHold`,
  `MountsAreLeftOut`, `FilesAreWhole`, `DigestFaithful`, `CompleteIsAll`.
* **OutputManifestProofs**: `ScanInvariance`, `ManifestTypes`, `DifferenceIsExact`,
  `ListingInvariance`, `ListingFaithful`.
* **AuditLogProofs**: `LogTypesCorrect`, `BlindOnlyBesideAWrite`, `MarkerIsLast`,
  `NoSilentLoss`.
* **DashboardProofs**: `DashboardTypes`, `OneCheck`, `ShutdownWaits`, `HonestPages`, and
  `DeskIsKept`, the refinement of `CheckDesk`.
* **InductionProofs** has lemmas only: that a set of numbers has a least element, induction
  on a number and on a finite set, that a fold over a finite set meets its equation, and
  what a sum over a set is without one of its elements. An induction hypothesis is a set
  there, so that a lemma can be cited where the prover knows no operator parameters.

Every invariant and action property that a passing run checks, and both refinements, are
thereby proved for all values of the constants; liveness is not.

*The supervisor's invariant* `IInv` has six parts. None of the safety properties is
inductive alone. That a confirmed cleanup is right needs `AbsenceInv`: while a
container is present a thread has seen no more empty listings in a row than the daemon
has missed it, so a count of `Confirmations > TransientMisses` excludes it. That a
success is torn down needs `ReportInv`: from the join onwards the container is gone or
`lifecycle` says otherwise. This needs `WaitedInv` (nothing is judged before the wait
ended, and an exit code means that the client ended) and `OwnershipInv` (nobody
starts or removes a container that has no id). That only one thread is inside
`stop_sandbox`, and that its outcome is never overwritten, needs `LockInv`: the lock is
held by exactly the thread that cleans up, and not any more once an attempt was made.
Each part has a step lemma with one case per action; the interrupts are actions like
the others, so the theorems hold for any number of them.

What the caller makes of the run rests on a second invariant, `JudgeInv`, on top of the
first. `PhaseInv`: there is no result before the judgement, and the monitor runs on until
the caller has stopped the sandbox. `DrainedInv`: a drainer that broke has queued its
error, and one that still reads when the caller looks is diagnosed. `FindingInv`: a
failure of the monitor is with the monitor, in the queue or taken; a monitor that ended
with none saw an output within its budget after the stop. `OverBudgetMeansUnread` is what
is left once the caller may read the queue too early. The third, `ExitInv`, is about the
`finally` blocks: a removal was sent before any query and before the container is gone, a
call that unwinds was interrupted, one of a launched run that raised has tried a removal,
and a result of a launched run for which none was sent names `container_teardown`. A
second interrupt breaks it (section 5), hence the hypothesis of `CleanupHappens`.

*The capture's invariant* `CaptureInv` says what the buffer holds at each statement of
`feed` as a function of the bytes taken so far, and what the caller has computed at
each statement of `render` once the drainer has ended. The lemmas about appending to
and dropping from a sequence of positions are stated once. While the drainer still
feeds, no such function describes the text; `RenderInv` says what does: it is two ranges
of the stream, the head's before the tail's, since the head only grows and each end is
copied in one call.

*The agent loop's invariant* `Inv` has four parts. `PlanInv`: the decisions are those on
the current plan, under the caller's configuration, and nothing in it is malformed.
`CountInv`: how many sandboxes, results and retries there are at each stage, never more
than the clamped number. `AuthorityInv`: apart from the interpreter, each attempt has the
grants of the first. It is inductive because of the lemma `Retried`: a plan that passed the
builder passes it again after `reflection.py` swapped the interpreter, since the requests
of the contract are decided as before and the swapped one is in the builder's
`RequiredTargets`, so that a denial of it stops the run. `EvidenceInv`: a new plan
follows only a result of class `command_or_config`, which excludes a target that
started, an event of an observer and a blocked action.

The report rests on `ReportInv`, on top of it. `WitnessInv`: what was executed had a
plan that the builder lets pass, each result has the fields of one, a run that built
nothing has no word of a target, and "unsafe" needs an event of an independent observer.
`FindingInv`: a bundled plan that has steps keeps a request for each finding (lemma
`Proposed`, by induction over the findings that are folded into the plan; `Retried`
keeps it), and a report without an execution has the verdict of its decisions.

The theorems assume little of what is replaceable. `ResultsAssumption`: a result is well
formed, and what it calls the supervisor's own word is a word that the supervisor has for
that executable. That the results of the bundled supervisor, with any log, are such is the
theorem `BundledSupervisorQualifies`; without the second half `LogIsWeighed` fails, since
the assessor trusts whatever a supervisor says in its own name. `ForeignAssumption`: the
proposal of another semantic layer consists of requests. A profile has finitely many
findings; the source analyzer stops at 5000 (`analyzer.py:89`).

*The snapshot's invariant* `SnapshotInv` has five parts. `CheckoutInv`: every path names
an inode that was made and modified in the past, so that a later change is told by its
time or falls within a tick. `WalkInv`: what is to be visited was made, and the entries
to inspect lie in the directory that is visited. `MountInv`: nothing was made or copied
under a mount point of the first look, and a snapshot is used only if the second found
no other. `LimitInv`: the limits, with the room they leave for the file that is being
copied. `CopyInv`: what was read is the beginning of the source, unless a change shows
in its time or fell within the tick that was seen first; it carries `WholeFilesOnly`
from the first read to the last comparison. That `sorted` returns a list of the entries
it was given (`SortedIsList`) rests on the pigeonhole theorem: no two entries have the
same number of others below them.

What the digest says, and what a complete snapshot holds, rest on `FaithInv`, on top of it.
`OrderInv`: what waits on the stack, in the directory being visited and in its list of
subdirectories is in the order of the names, and what was recorded comes before it; hence
the digest does not depend on the order in which directories return their entries.
`AccountInv`: the counters are those of the records, and what is on disk beyond them is the
file being copied, or was recorded as omitted. `TreeInv`: the checkout is a tree, and below a
path that a change concerned everything was concerned. `SourceInv`: a file whose path no
change concerned is, from its comparison on, the one that was opened. `BoundInv` and
`CoverInv` are the two answers to where an untouched entry is: recorded or `Ahead`, and,
while the snapshot is complete, held as it is or `Ahead`. At the end nothing is ahead.

*The manifest's invariant* `ScanInv` says where a scan stands. `StackInv`: a directory
that was opened still has to return each quiet name in it, and one that is quiet is a
directory, so that nothing quiet is read through a link. `CoverInv`: each quiet file
is listed or ahead, below a directory that is being read and by a name that was not
returned yet; what is listed and quiet is as it is. When the last directory is exhausted
nothing can be ahead, which makes the second inventory exact about what is quiet, and the
first one about everything, since nothing runs beside it (`ManifestInv`). It needs
`TreeInv`: whatever a writer does, the paths above a file are directories.

Limits and failures need `ListingInv`, on top of it. `PlaceInv`: the frames of the stack are
one path. `ListedInv`: each entry is a file that the scan passed, as it was at some time
unless a link stood above it at some time, and the budget is the number and the sum of the entries. `PassedInv`: what was passed and is quiet
is a file, a directory that is not too deep, or one still to be entered. `ExactInv`: when
nothing was touched, the directories counted are those entered, and a scan that fails had an
output that exceeds a limit or holds something else than files and directories. The sums are
those of `InductionProofs`; `TreesAreFinite` is what they need of an output.

*The audit log's invariant* `HookInv` adds to the types that a thread that decides or
writes has an event (`EventInv`), and that of each process at most one thread is at its
write, under the flag and below the limit of records (`WriterInv`). From this it follows
that a dropped event found a write under way, except in a child forked beside one.
`MarkerInv` is about a process that is alone: its log has as many complete records as it
counted (`RecordsInv`), whoever writes the last one writes the marker, and nothing is
written after it (`LastInv`). The lines are then the complete records and at most one
torn end, or exactly the complete ones, never more than the loader reads.

`LossesAreTold` rests on `LossInv`. `OwnersInv`: each open event is at one thread. `TraceInv`:
what was written left something in the log, so that a torn record is a line the loader
rejects. `FullInv`: where an event was dropped for the limit, the marker was written, by
this process or by the one it was forked from. `MuteInv`, while there is one interpreter: a
descriptor is missing in all of its processes or in none, and in the first case nothing was
ever logged, which the loader tells too.

*The dashboard's invariant* has a part of the server and one of the page. `LockInv`: every
handler thread past the question for the lock holds it. `StageInv`: the stage of the
shutdown counts the Ctrl+C. `PageInv`: while a page loads its one request is the
`bootstrap`, and unless its tool was called it has at most one check under way. The theorems hold for any
number of pages, connections and interrupts.

The refinement needs `DeskInv`: only a request for a check gets past the lock, an answer is
given by a thread's last statement or, after an exception, beside the lock, and a lock that
is taken is held by a thread that gives it back. The last is what makes a conflict true:
whoever is turned away is so for another request's check.

TLC only: the five liveness properties, `Concludes`, `TargetIsNotBlocked`, `Finishes`,
`LockIsFreed` and `Stops`. Liveness under fairness and `ENABLED` are out of TLAPS's reach
here. Induction over data is done where a proof needs it, over sets and functions
(`InductionProofs`); elsewhere it is avoided by stating what would need it (that the buffer
is a function of the whole stream) with explicit positions. No module uses a `RECURSIVE`
operator.

## 5. Assumptions and abstractions

* A nonzero exit of `docker create` means that there is no container. A create that
  timed out may still make one.
* The daemon misses a live container in at most `TransientMisses` listings. Without
  this bound no number of listings confirms anything.
* An interrupt arrives between two modelled statements. The few bytecodes inside
  `stop_sandbox` and inside the outermost `finally` are not split further. A second
  interrupt can defeat `CleanupOnEveryExit`: it can fall into the cleanup that the first
  one started, and the code claims nothing for it.
* A scan of the output directory that runs beside the target sees either side of a
  change. Field checks of a specification and of an image are pass or fail.
* UTF-8 decoding and the wording of the truncation marker are left out. Text that was
  rendered beside a drainer that still feeds may have a gap without a marker; that it
  then carries a diagnostic is `CleanCaptureIsExact`.
* The digest of a request is injective. Targets are named for the class they fall in;
  an endpoint is a host with its default port. The default contract's limits are below
  every ceiling of the configuration, which is taken to be valid.
* Which of several entrypoints is taken, how the analyzer reads a program, and the result
  of the dependency analyzer are left out; a finding has any target its rules allow. A
  resource request carries a value of the contract.
* The notes, the timeline and the layout of a report are left out.
* `scandir` sees a directory as it is at one moment. A mounted file system stays, is
  empty and is another device. A link leads out of the checkout or nowhere, and nothing
  is read through it. The destination tells names apart as the source does. File times
  come from a coarse clock: a file that is written in place, while it is read and within
  one tick of the time first seen, and keeps its size, is copied as a mixture. That is
  the one exception in `WholeFilesOnly`; no document of the repository excludes it.
* In the manifest a modification time is the number of the change: a writer that restores
  size and time is not seen, by the code either. What a link leads to is not modelled: a
  call that goes through one finds anything or nothing, so below what was a link at some
  time of a scan an inventory may list what never was. A directory that is removed and made
  again while it is listed is taken for the same, and one that holds something is renamed by
  renaming its files. A renamed file may be counted twice (and exceed a limit that the
  output keeps) or missed.
* In the audit log, a target that tampers with its interpreter, the descriptor or the file
  is left out; nothing in the hook withstands it. The interpreter lock changes hands at
  calls. A second interpreter that starts by a call the hook does not see reopens the log
  with `O_TRUNC` and wipes it, the marker included; a child forked during a write keeps
  the flag for good. Both are exceptions in the properties, named as such.
* A path that a call names is the place it resolves to and the place its text lies in
  (`<repository>`, `<output>`, `<runtime>`, ..., or no clear one for the text); `<prefix>`
  is the prefix of an interpreter outside `/usr`.
* A `docker rm` that was launched reaches the daemon, which may never act on it.
* In the dashboard, headers, tokens, assets and the fields of a request are left out, and
  so is an interrupt that reaches the Docker client or falls before the `try` of
  `serve_dashboard`. The call of the agent is one step.
* The snapshot, the builder's path checks and the supervisor may raise at any time;
  `run` then has no report.

## 6. Where the code and its documentation disagree

* `LostMonitorFailure`: the queue of the monitor is read before its liveness. A monitor
  that outlives its bounded join and ends between the two statements leaves its failure
  unread, and an output over its budget goes with a success.
* `InterruptBeforeSupervision`: between the container's id and the `try` block that
  owns it, an interrupt leaves the container behind. The README promises cleanup.
* `MissingInterpreterStops`: the supervisor reports the missing handshake of an
  interpreter that is not there as an observer event, and the observer's rule for those
  comes before the one for exit code 127. With the bundled backend the alternate
  interpreter is never tried; the test that shows a retry substitutes the supervisor.
* `EarlierEvidenceDropped`: the verdict is that of the last attempt; trusted evidence
  against an earlier attempt that was retried no longer counts.

`OverBudgetMeansUnread` states what remains true beside the first of these, and
`CleanupOnEveryExit` what remains true beside the second.

Read off the source while modelling, without a run of their own:

* After an interrupt, an unconfirmed cleanup is dropped with the `finally` block
  (`supervisor.py:984`), where `src/README.md:121` promises a structured failure.
* Only the first attempt gets a fresh output child (`orchestrator.py:287`), where
  `src/README.md:244` says "each execution".
* `EnvironmentPlanner` always adds a warning, so that the assessor never sees complete
  coverage: in the shipped program the rules after that one decide nothing.
* If the cleanup after an interrupt cannot launch its `docker rm`, or has no trusted
  configuration directory for it (`supervisor.py:1002`, `1031`), the call ends with nothing
  asked of the daemon and nothing said: the second half of `CleanupOnEveryExit` claims no
  more than that a removal was tried.
* A directory of the output that is swapped for a link to its sibling after its `lstat`
  (`manifest.py:208`) and before the check that it is contained (`203`) passes that check:
  the sibling's files are listed under paths that never existed.
* The hook decides on the place a path resolves to and records the path as given
  (`sitecustomize.py:205`, `278`); the assessor resolves nothing. A permitted read through
  `/proc/self/cwd` or `/bin`, or a write of a name with a backslash or ` -> ` in it, makes
  the verdict "review" (`UnplacedCallsCount`).
* The hook trusts `sys.prefix` and its kin wherever they are; the assessor knows `/usr`
  and a few more. With an interpreter elsewhere every run is "review" (the same). Opening `/dev/null` for writing is
  denied by the hook and has the same effect.
* A repository without an entrypoint loses its requests with its plan, so that findings of
  medium risk end in "inconclusive"; with an entrypoint their denial ends in "review".
* A URL whose host is an IPv6 literal or ends in a dot becomes a malformed target, and
  with it the whole proposal is blocked (the profile with an endpoint that no request can
  name).
* A goal close to its own limit makes the plan's purpose and the justifications exceed
  theirs: the run raises or is blocked.
* A log of 10 000 long records exceeds the loader's 2 MiB and is rejected as a whole.
* The model tool during the form's run ends the busy state of the form and leaks its
  interval (`PagesAreHonest` claims nothing stronger for such a page). A `409` may be
  answered for the sake of a request that is only being read, or refused.

## 7. What is not modelled, and the plan

| Order | Module | Content |
|---|---|---|
| 1 | `AgentRun` | the promise of `run` to its caller, from a proposal to a report, implemented by `AgentLoop` |
| 2 | `HookPromise` | which calls of a target are told, and how, implemented by `AuditLog` |

Not planned: how the analyzers read a program or a dependency file is a pure function,
whose correctness is a question of what counts as risky, not of state. The reporter, the
records' `to_dict` and the CLI render or parse. The argument list of `docker create`, the
headers of the dashboard and the detection of mounts and links are checks of strings and
of the host. The builder's checks of paths and images may raise at any time.
