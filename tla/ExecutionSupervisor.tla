------------------------ MODULE ExecutionSupervisor ------------------------
(***************************************************************************)
(* One call of DockerExecutionSupervisor.execute: the calling thread, the  *)
(* output-monitor thread, the two stream drainers, the attached Docker     *)
(* client, and the daemon that owns the container.                         *)
(*                                                                         *)
(* pc[Main] names the statement of execute, _start_owned_container or      *)
(* _supervise_started_docker the caller is at; pc[Monitor] that of         *)
(* _monitor_output.  Both threads may enter stop_sandbox, which continues  *)
(* at ret[t] when it returns.  The source is                               *)
(* src/src/r_sandbox/tools/execution_supervisor/supervisor.py.             *)
(***************************************************************************)
EXTENDS Naturals, FiniteSets

CONSTANTS
  Rounds,           \* remove/query rounds of one cleanup
  Confirmations,    \* consecutive empty listings that confirm absence
  TransientMisses,  \* listings by which the daemon may miss a live container
  MaxInterrupts,    \* KeyboardInterrupts delivered to the calling thread
  Streams           \* the drained pipes

ASSUME RoundsAssumption == Rounds \in Nat \ {0}
ASSUME ConfirmationsAssumption == Confirmations \in Nat
ASSUME MissesAssumption == TransientMisses \in Nat /\ TransientMisses < Confirmations
ASSUME InterruptsAssumption == MaxInterrupts \in Nat
ASSUME StreamsAssumption == Streams \subseteq {"stdout", "stderr"}

Main    == "main"
Monitor == "monitor"
Threads == {Main, Monitor}
Free    == "free"

VARIABLES
  pc,                \* where each thread is
  ret,               \* where stop_sandbox (or a bare cleanup) returns to
  round, absent,     \* attempt and consecutive_absent of each cleanup
  container,         \* the daemon's container of this run
  removal,           \* the `docker rm` of this run: none was tried, none could be
                     \* launched ("unsent"), or one was launched ("sent")
  misses,            \* listings that missed a live container so far
  client,            \* the `docker start --attach` process, or its exit code
  over,              \* the output directory exceeds its budget
  containerId,       \* the caller holds the id Docker returned
  stopLock, stopAttempted, cleanupConfirmed,
  clientUnresolved,  \* the termination detail of stop_details is not empty
  monitorStop,       \* output_monitor_stop
  finding,           \* the failure the monitor found
  failures,          \* output_monitor_failures, a queue of at most one entry
  taken,             \* the caller's output_monitor_failure
  drainer,           \* the state of each stream drainer
  drainErrors,       \* streams whose drainer reported an error
  diagnosed,         \* streams named by drain_diagnostics
  waited,            \* outcome of process.wait
  lifecycle,         \* lifecycle_events
  result,            \* the ExecutionResult about to be, or being, returned
  interrupts

daemonVars  == <<container, misses, over>>
stopVars    == <<stopLock, stopAttempted, cleanupConfirmed, clientUnresolved>>
monitorVars == <<monitorStop, finding, failures>>
drainVars   == <<drainer, drainErrors>>
callerVars  == <<containerId, taken, diagnosed, waited, lifecycle, result>>
cleanupVars == <<ret, round, absent, removal>>

vars == <<pc, client, interrupts, daemonVars, stopVars, monitorVars,
          drainVars, callerVars, cleanupVars>>

---------------------------------------------------------------------------
(* Values *)

Finished    == {"returned", "raised"}
Preamble    == {"validate", "resolve", "image", "audit", "preflight", "create",
                "creating", "owned"}
Supervising == {"spawn", "wait", "signal", "join", "take", "alive", "drain",
                "collect", "conclude", "failed"}
Unwinding   == {"finally", "joinLate", "close"}
Cleaning    == {"terminate", "rm", "ls"}
Scanning    == {"scan", "lastScan"}

Locations == Finished \union Preamble \union {"launch", "launchFailed"}
             \union Supervising \union Unwinding \union Cleaning
             \union Scanning \union {"acquire", "off", "pause", "put", "done"}

\* Where stop_sandbox and the bare cleanups return to.
Returns == {"off", "signal", "failed", "joinLate", "launchFailed", "raised", "put"}

Failures  == {"none", "limit", "output_scan"}
ExitCodes == {"zero", "nonzero"}
Statuses  == {"none", "succeeded", "failed", "blocked", "runtime_unavailable"}
Events    == {"limit", "output_scan", "timeout", "invoke", "create",
              "container_ownership", "container_identity", "container_teardown",
              "client_termination", "lifecycle", "drain", "audit", "execute"}

NoResult == [status |-> "none", exit |-> "none", events |-> {}]

\* A container the daemon still holds.
Present == container \in {"created", "running", "exited"}
Exited  == client \in ExitCodes

---------------------------------------------------------------------------
(* Helpers *)

Goto(t, l) == pc' = [pc EXCEPT ![t] = l]

Return(status, exit, events) ==
  /\ result' = [status |-> status, exit |-> exit, events |-> events]
  /\ Goto(Main, "returned")

\* What one _check_output_budget may report.  A scan of a directory the target
\* is writing may see either side of a concurrent change.
ScanOutcomes ==
  {"output_scan"} \union
    IF container = "running" THEN {"none", "limit"}
    ELSE IF over THEN {"limit"} ELSE {"none"}

\* Call stop_sandbox and continue at l.
CallStop(t, l) ==
  /\ Goto(t, "acquire")
  /\ ret' = [ret EXCEPT ![t] = l]

\* Enter _remove_named_container.
BeginCleanup(t) ==
  /\ Goto(t, "rm")
  /\ round' = [round EXCEPT ![t] = 0]
  /\ absent' = [absent EXCEPT ![t] = 0]

\* Mutant: the lock is never released.
EndCleanupKeepsLock(t, confirmed) ==
  /\ cleanupConfirmed' = IF ret[t] = "raised" THEN cleanupConfirmed ELSE confirmed
  /\ stopAttempted' = (stopAttempted \/ stopLock = t)
  /\ UNCHANGED stopLock
  /\ Goto(t, ret[t])

\* _remove_named_container returned: inside stop_sandbox record the verdict and
\* release the lock; the bare cleanup of a failed launch keeps it in its local
\* `cleanup`, that of the outer finally discards it.
EndCleanup(t, confirmed) ==
  /\ cleanupConfirmed' = IF ret[t] = "raised" THEN cleanupConfirmed ELSE confirmed
  /\ stopAttempted' = (stopAttempted \/ stopLock = t)
  /\ stopLock' = IF stopLock = t THEN Free ELSE stopLock
  /\ Goto(t, ret[t])

\* The next of the bounded remove/query rounds, or give up.
NextRound(t) ==
  IF round[t] + 1 < Rounds
  THEN /\ round' = [round EXCEPT ![t] = @ + 1]
       /\ Goto(t, "rm")
       /\ UNCHANGED <<stopLock, stopAttempted, cleanupConfirmed>>
  ELSE EndCleanup(t, FALSE) /\ UNCHANGED round

\* Leave _supervise_started_docker with an exception: the outer finally
\* terminates the client and removes the container again.
Unwind ==
  /\ Goto(Main, "terminate")
  /\ ret' = [ret EXCEPT ![Main] = "raised"]
  /\ result' = NoResult

---------------------------------------------------------------------------
Init ==
  /\ pc = [t \in Threads |-> IF t = Main THEN "validate" ELSE "off"]
  /\ ret = [t \in Threads |-> "off"]
  /\ round = [t \in Threads |-> 0]
  /\ absent = [t \in Threads |-> 0]
  /\ container = "none" /\ removal = "none" /\ misses = 0
  /\ client = "none"
  /\ over \in BOOLEAN
  /\ containerId = FALSE
  /\ stopLock = Free /\ stopAttempted = FALSE
  /\ cleanupConfirmed = FALSE /\ clientUnresolved = FALSE
  /\ monitorStop = FALSE /\ finding = "none" /\ failures = "none"
  /\ taken = "none"
  /\ drainer = [s \in Streams |-> "off"]
  /\ drainErrors = {} /\ diagnosed = {}
  /\ waited = "no" /\ lifecycle = {}
  /\ result = NoResult
  /\ interrupts = 0

---------------------------------------------------------------------------
(* execute, up to the container's creation *)

\* A check of the specification, the host or the image that execute makes
\* before it asks for a container.
Check(here, next, status, events) ==
  /\ pc[Main] = here
  /\ \/ Goto(Main, next) /\ UNCHANGED result
     \/ Return(status, "none", events)
  /\ UNCHANGED <<client, interrupts, daemonVars, stopVars, monitorVars, drainVars,
                 cleanupVars, containerId, taken, diagnosed, waited, lifecycle>>

ValidateSpec  == Check("validate", "resolve", "blocked", {})
ResolveBinary == Check("resolve", "image", "runtime_unavailable", {"invoke"})
VerifyImage   == Check("image", "audit", "blocked", {})
PrepareAudit  == Check("audit", "preflight", "blocked", {})

\* The output budget is checked before a container exists.
Preflight ==
  /\ pc[Main] = "preflight"
  /\ \E f \in ScanOutcomes :
       IF f = "none" THEN Goto(Main, "create") /\ UNCHANGED result
                     ELSE Return("failed", "none", {f})
  /\ UNCHANGED <<client, interrupts, daemonVars, stopVars, monitorVars, drainVars,
                 cleanupVars, containerId, taken, diagnosed, waited, lifecycle>>

CreateUnconfirmed == {"create", "container_ownership"}

\* subprocess.run of `docker create`: the request is sent, or it cannot be.
Create ==
  /\ pc[Main] = "create"
  /\ \/ /\ container' = "pending"
        /\ Goto(Main, "creating")
        /\ UNCHANGED result
     \/ /\ Return("failed", "none", CreateUnconfirmed)
        /\ UNCHANGED container
  /\ UNCHANGED <<client, interrupts, misses, over, stopVars, monitorVars, drainVars,
                 cleanupVars, containerId, taken, diagnosed, waited, lifecycle>>

\* The create command is over: with the exact id; with output that is no id
\* (the cleanup by name is refused); with a nonzero exit code (the daemon
\* refused); or it timed out, and nobody knows.
Created ==
  /\ pc[Main] = "creating"
  /\ \/ /\ container = "created"
        /\ containerId' = TRUE
        /\ Goto(Main, "owned")
        /\ UNCHANGED <<container, result>>
     \/ /\ container = "created"
        /\ Return("failed", "none", {"container_identity", "container_teardown"})
        /\ UNCHANGED <<container, containerId>>
     \/ /\ container = "pending"
        /\ container' = "none"
        /\ Return("failed", "none", {"create"})
        /\ UNCHANGED containerId
     \/ /\ Return("failed", "none", CreateUnconfirmed)
        /\ UNCHANGED <<container, containerId>>
  /\ UNCHANGED <<client, interrupts, misses, over, stopVars, monitorVars, drainVars,
                 cleanupVars, taken, diagnosed, waited, lifecycle>>

---------------------------------------------------------------------------
(* _start_owned_container *)

\* The call that hands the id over; its try block is entered at "launch".
EnterStart ==
  /\ pc[Main] = "owned"
  /\ Goto(Main, "launch")
  /\ UNCHANGED <<client, interrupts, daemonVars, stopVars, monitorVars, drainVars,
                 callerVars, cleanupVars>>

Launch ==
  /\ pc[Main] = "launch"
  /\ \/ /\ client' = "running"
        /\ Goto(Main, "spawn")
        /\ UNCHANGED <<ret, round, absent>>
     \/ /\ BeginCleanup(Main)
        /\ ret' = [ret EXCEPT ![Main] = "launchFailed"]
        /\ UNCHANGED client
  /\ UNCHANGED <<removal, interrupts, daemonVars, stopVars, monitorVars, drainVars,
                 callerVars>>

LaunchFailed ==
  /\ pc[Main] = "launchFailed"
  /\ IF cleanupConfirmed
     THEN Return("runtime_unavailable", "none", {"invoke"})
     ELSE Return("failed", "none", {"invoke", "container_teardown"})
  /\ UNCHANGED <<client, interrupts, daemonVars, stopVars, monitorVars, drainVars,
                 cleanupVars, containerId, taken, diagnosed, waited, lifecycle>>

---------------------------------------------------------------------------
(* stop_sandbox, _terminate_docker_client and _remove_named_container *)

\* Mutant: no lock.
AcquireUnlocked(t) ==
  /\ pc[t] = "acquire"
  /\ IF stopAttempted
     THEN Goto(t, ret[t]) /\ UNCHANGED stopLock
     ELSE Goto(t, "terminate") /\ stopLock' = t
  /\ UNCHANGED <<client, interrupts, daemonVars, stopAttempted, cleanupConfirmed,
                 clientUnresolved, monitorVars, drainVars, callerVars, cleanupVars>>

\* `with stop_lock`, and the early return of a repeated call.
Acquire(t) ==
  /\ pc[t] = "acquire"
  /\ stopLock = Free
  /\ IF stopAttempted
     THEN Goto(t, ret[t]) /\ UNCHANGED stopLock
     ELSE Goto(t, "terminate") /\ stopLock' = t
  /\ UNCHANGED <<client, interrupts, daemonVars, stopAttempted, cleanupConfirmed,
                 clientUnresolved, monitorVars, drainVars, callerVars, cleanupVars>>

\* Only stop_sandbox keeps the termination detail.
NoteTermination(t, unresolved) ==
  clientUnresolved' = IF stopLock = t THEN unresolved ELSE clientUnresolved

\* Terminate, wait, kill, wait: the client is gone, or the detail says that it
\* may not be.
TerminateClient(t) ==
  /\ pc[t] = "terminate"
  /\ \/ client = "running" /\ client' \in ExitCodes /\ NoteTermination(t, FALSE)
     \/ client = "running" /\ UNCHANGED client /\ NoteTermination(t, TRUE)
     \/ client # "running" /\ UNCHANGED client /\ NoteTermination(t, FALSE)
  /\ BeginCleanup(t)
  /\ UNCHANGED <<ret, removal, interrupts, daemonVars, stopLock, stopAttempted,
                 cleanupConfirmed, monitorVars, drainVars, callerVars>>

\* An attempt that launched no `docker rm` leaves what an earlier one did.
Unsent == IF removal = "sent" THEN "sent" ELSE "unsent"

\* `docker rm --force`: it ran, and its exit code is ignored; it timed out or its
\* client could not be launched, which ends the round; or the trusted configuration
\* that both commands name is not there, which ends the cleanup before a round.
RemoveContainer(t) ==
  /\ pc[t] = "rm"
  /\ \/ /\ removal' = "sent"
        /\ Goto(t, "ls")
        /\ UNCHANGED <<round, absent, stopLock, stopAttempted, cleanupConfirmed>>
     \/ /\ removal' \in {"sent", Unsent}
        /\ absent' = [absent EXCEPT ![t] = 0]
        /\ NextRound(t)
     \/ /\ round[t] = 0 /\ removal' = Unsent
        /\ EndCleanup(t, FALSE)
        /\ UNCHANGED <<round, absent>>
  /\ UNCHANGED <<ret, client, interrupts, daemonVars, clientUnresolved, monitorVars,
                 drainVars, callerVars>>

\* Mutant: one empty listing confirms absence.
ListedAbsentOnce(t) ==
  /\ \/ ~Present /\ UNCHANGED misses
     \/ Present /\ misses < TransientMisses /\ misses' = misses + 1
  /\ absent' = [absent EXCEPT ![t] = @ + 1]
  /\ EndCleanup(t, TRUE)
  /\ UNCHANGED round

\* An empty listing: the container is gone, or the daemon missed it.
ListedAbsent(t) ==
  /\ \/ ~Present /\ UNCHANGED misses
     \/ Present /\ misses < TransientMisses /\ misses' = misses + 1
  /\ absent' = [absent EXCEPT ![t] = @ + 1]
  /\ IF absent[t] + 1 >= Confirmations
     THEN EndCleanup(t, TRUE) /\ UNCHANGED round
     ELSE NextRound(t)

\* A failed query, a listed container or an exception.
NotListedAbsent(t) ==
  /\ absent' = [absent EXCEPT ![t] = 0]
  /\ NextRound(t)
  /\ UNCHANGED misses

QueryAbsence(t) ==
  /\ pc[t] = "ls"
  /\ ListedAbsent(t) \/ NotListedAbsent(t)
  /\ UNCHANGED <<ret, removal, client, interrupts, container, over, clientUnresolved,
                 monitorVars, drainVars, callerVars>>

---------------------------------------------------------------------------
(* _supervise_started_docker, the calling thread *)

\* Both drainers and the monitor start.
Spawn ==
  /\ pc[Main] = "spawn"
  /\ pc' = [pc EXCEPT ![Main] = "wait", ![Monitor] = "scan"]
  /\ drainer' = [s \in Streams |-> "reading"]
  /\ UNCHANGED <<client, interrupts, daemonVars, stopVars, monitorVars, drainErrors,
                 callerVars, cleanupVars>>

\* The drainers started, stdout first, before an exception stopped the starts.
StartSome ==
  \E started \in {{}, {"stdout"}, {"stdout", "stderr"}} :
    drainer' = [s \in Streams |-> IF s \in started THEN "reading" ELSE "off"]

\* A missing pipe or a thread that cannot start: `except Exception`.
SpawnRaises ==
  /\ pc[Main] = "spawn"
  /\ StartSome
  /\ CallStop(Main, "failed")
  /\ UNCHANGED <<client, interrupts, daemonVars, stopVars, monitorVars, drainErrors,
                 callerVars, round, absent, removal>>

\* process.wait: the client exited, the time limit passed, or wait raised.
Wait ==
  /\ pc[Main] = "wait"
  /\ \/ Exited /\ waited' = client /\ CallStop(Main, "signal")
     \/ client = "running" /\ waited' = "timeout" /\ CallStop(Main, "signal")
     \/ UNCHANGED waited /\ CallStop(Main, "failed")
  /\ UNCHANGED <<client, interrupts, daemonVars, stopVars, monitorVars, drainVars,
                 containerId, taken, diagnosed, lifecycle, result, round, absent, removal>>

\* Mutant: an unconfirmed absence is no lifecycle event.
SignalClientOnly ==
  /\ pc[Main] = "signal"
  /\ lifecycle' = {e \in {"client_termination"} : clientUnresolved}
  /\ monitorStop' = TRUE
  /\ Goto(Main, "join")
  /\ UNCHANGED <<client, interrupts, daemonVars, stopVars, finding, failures, drainVars,
                 containerId, taken, diagnosed, waited, result, cleanupVars>>

\* Lifecycle events of the teardown, then output_monitor_stop.set().
Signal ==
  /\ pc[Main] = "signal"
  /\ lifecycle' = {e \in {"client_termination", "container_teardown"} :
                     IF e = "client_termination" THEN clientUnresolved
                                                 ELSE ~cleanupConfirmed}
  /\ monitorStop' = TRUE
  /\ Goto(Main, "join")
  /\ UNCHANGED <<client, interrupts, daemonVars, stopVars, finding, failures, drainVars,
                 containerId, taken, diagnosed, waited, result, cleanupVars>>

\* The bounded join: over when the monitor is, or when the time is up.
JoinMonitor ==
  /\ pc[Main] = "join"
  /\ Goto(Main, "take")
  /\ UNCHANGED <<client, interrupts, daemonVars, stopVars, monitorVars, drainVars,
                 callerVars, cleanupVars>>

\* _take_output_monitor_failure: get_nowait.
TakeFailure ==
  /\ pc[Main] = "take"
  /\ taken' = failures
  /\ failures' = "none"
  /\ Goto(Main, "alive")
  /\ UNCHANGED <<client, interrupts, daemonVars, stopVars, monitorStop, finding,
                 drainVars, containerId, diagnosed, waited, lifecycle, result,
                 cleanupVars>>

MonitorAlive == pc[Monitor] \notin {"off", "done"}

\* A monitor still alive after its join is a failure of its own.
CheckAlive ==
  /\ pc[Main] = "alive"
  /\ taken' = IF MonitorAlive /\ taken = "none" THEN "output_scan" ELSE taken
  /\ Goto(Main, "drain")
  /\ UNCHANGED <<client, interrupts, daemonVars, stopVars, monitorVars, drainVars,
                 containerId, diagnosed, waited, lifecycle, result, cleanupVars>>

\* _join_stream_drainers: a bounded wait, then the streams still being read.
JoinDrainers ==
  /\ pc[Main] = "drain"
  /\ diagnosed' = {s \in Streams : drainer[s] = "reading"}
  /\ Goto(Main, "collect")
  /\ UNCHANGED <<client, interrupts, daemonVars, stopVars, monitorVars, drainVars,
                 containerId, taken, waited, lifecycle, result, cleanupVars>>

\* _collect_drain_errors, render and the audit log; any of them may raise.
Collect ==
  /\ pc[Main] = "collect"
  /\ \/ /\ diagnosed' = diagnosed \union drainErrors
        /\ drainErrors' = {}
        /\ Goto(Main, "conclude")
        /\ UNCHANGED ret
     \/ /\ CallStop(Main, "failed")
        /\ UNCHANGED <<diagnosed, drainErrors>>
  /\ UNCHANGED <<client, interrupts, daemonVars, stopVars, monitorVars, drainer,
                 containerId, taken, waited, lifecycle, result, round, absent, removal>>

\* Mutant: a failure keeps the exit code zero of the client.
VerdictKeepsExit(audit) ==
  LET drained == IF diagnosed # {} THEN {"drain"} ELSE {}
      events  == audit \union lifecycle \union drained
  IN CASE taken # "none" ->
            [status |-> "failed",
             exit   |-> IF waited = "timeout" THEN "none" ELSE waited,
             events |-> events \union {taken}]
       [] taken = "none" /\ waited = "timeout" ->
            [status |-> "failed", exit |-> "none",
             events |-> events \union {"timeout"}]
       [] OTHER ->
            [status |-> IF waited = "zero" /\ lifecycle = {} THEN "succeeded"
                                                             ELSE "failed",
             exit   |-> IF waited = "zero" /\ lifecycle # {} THEN "none" ELSE waited,
             events |-> events \union {"execute"}]

\* The result and its events, in the order the code decides: the monitor's
\* failure, then the timeout, then the exit code unless the teardown failed.
Verdict(audit) ==
  LET drained == IF diagnosed # {} THEN {"drain"} ELSE {}
      events  == audit \union lifecycle \union drained
  IN CASE taken # "none" ->
            [status |-> "failed",
             exit   |-> IF waited = "nonzero" THEN "nonzero" ELSE "none",
             events |-> events \union {taken}]
       [] taken = "none" /\ waited = "timeout" ->
            [status |-> "failed", exit |-> "none",
             events |-> events \union {"timeout"}]
       [] OTHER ->
            [status |-> IF waited = "zero" /\ lifecycle = {} THEN "succeeded"
                                                             ELSE "failed",
             exit   |-> IF waited = "zero" /\ lifecycle # {} THEN "none" ELSE waited,
             events |-> events \union {"execute"}]

Conclude ==
  /\ pc[Main] = "conclude"
  /\ \E audit \in SUBSET {"audit"} : result' = Verdict(audit)
  /\ Goto(Main, "finally")
  /\ UNCHANGED <<client, interrupts, daemonVars, stopVars, monitorVars, drainVars,
                 containerId, taken, diagnosed, waited, lifecycle, cleanupVars>>

\* Mutant: the handler does not report the container.
FailClosedSilently ==
  /\ pc[Main] = "failed"
  /\ result' = [status |-> "failed", exit |-> "none", events |-> {"lifecycle"}]
  /\ Goto(Main, "finally")
  /\ UNCHANGED <<client, interrupts, daemonVars, stopVars, monitorVars, drainVars,
                 containerId, taken, diagnosed, waited, lifecycle, cleanupVars>>

\* The rest of `except Exception`, once stop_sandbox has returned.
FailClosed ==
  /\ pc[Main] = "failed"
  /\ result' = [status |-> "failed", exit |-> "none",
                events |-> {"lifecycle"}
                  \union (IF cleanupConfirmed THEN {} ELSE {"container_teardown"})
                  \union (IF clientUnresolved THEN {"client_termination"} ELSE {})]
  /\ Goto(Main, "finally")
  /\ UNCHANGED <<client, interrupts, daemonVars, stopVars, monitorVars, drainVars,
                 containerId, taken, diagnosed, waited, lifecycle, cleanupVars>>

\* The finally block: stop the monitor, stop the sandbox unless that was tried.
Finally ==
  /\ pc[Main] = "finally"
  /\ monitorStop' = TRUE
  /\ IF stopAttempted
     THEN Goto(Main, "joinLate") /\ UNCHANGED ret
     ELSE CallStop(Main, "joinLate")
  /\ UNCHANGED <<client, interrupts, daemonVars, stopVars, finding, failures, drainVars,
                 callerVars, round, absent, removal>>

JoinLate ==
  /\ pc[Main] = "joinLate"
  /\ Goto(Main, "close")
  /\ UNCHANGED <<client, interrupts, daemonVars, stopVars, monitorVars, drainVars,
                 callerVars, cleanupVars>>

\* Mutant: a return in the finally block swallows the exception.
CloseReturns ==
  /\ pc[Main] = "close"
  /\ Goto(Main, "returned")
  /\ UNCHANGED <<client, interrupts, daemonVars, stopVars, monitorVars, drainVars,
                 callerVars, cleanupVars>>

\* Streams closed and drainers joined: return the result, or let the exception
\* that brought us here go on.
Close ==
  /\ pc[Main] = "close"
  /\ IF result = NoResult
     THEN Unwind
     ELSE Goto(Main, "returned") /\ UNCHANGED <<ret, result>>
  /\ UNCHANGED <<client, interrupts, daemonVars, stopVars, monitorVars, drainVars,
                 containerId, taken, diagnosed, waited, lifecycle, round, absent, removal>>

---------------------------------------------------------------------------
(* _monitor_output *)

\* One bounded scan: report nothing, or stop the sandbox before reporting.
Scan ==
  /\ pc[Monitor] \in Scanning
  /\ \E f \in ScanOutcomes :
       IF f = "none"
       THEN /\ Goto(Monitor, IF pc[Monitor] = "scan" THEN "pause" ELSE "done")
            /\ UNCHANGED <<finding, ret>>
       ELSE finding' = f /\ CallStop(Monitor, "put")
  /\ UNCHANGED <<client, interrupts, daemonVars, stopVars, monitorStop, failures,
                 drainVars, callerVars, round, absent, removal>>

\* Mutant: no scan after the event is set.
PauseEnds ==
  /\ pc[Monitor] = "pause"
  /\ Goto(Monitor, IF monitorStop THEN "done" ELSE "scan")
  /\ UNCHANGED <<client, interrupts, daemonVars, stopVars, monitorVars, drainVars,
                 callerVars, cleanupVars>>

\* stop.wait(interval): one last scan when the event is set.
Pause ==
  /\ pc[Monitor] = "pause"
  /\ Goto(Monitor, IF monitorStop THEN "lastScan" ELSE "scan")
  /\ UNCHANGED <<client, interrupts, daemonVars, stopVars, monitorVars, drainVars,
                 callerVars, cleanupVars>>

PutFailure ==
  /\ pc[Monitor] = "put"
  /\ failures' = finding
  /\ Goto(Monitor, "done")
  /\ UNCHANGED <<client, interrupts, daemonVars, stopVars, monitorStop, finding,
                 drainVars, callerVars, cleanupVars>>

---------------------------------------------------------------------------
(* _drain_stream *)

\* The pipe reaches EOF once the client is gone.
DrainerEnds(s) ==
  /\ drainer[s] = "reading"
  /\ Exited
  /\ drainer' = [drainer EXCEPT ![s] = "eof"]
  /\ UNCHANGED <<pc, client, interrupts, daemonVars, stopVars, monitorVars,
                 drainErrors, callerVars, cleanupVars>>

\* A read raises: the error is queued and the thread ends.
DrainerFails(s) ==
  /\ drainer[s] = "reading"
  /\ drainer' = [drainer EXCEPT ![s] = "broken"]
  /\ drainErrors' = drainErrors \union {s}
  /\ UNCHANGED <<pc, client, interrupts, daemonVars, stopVars, monitorVars,
                 callerVars, cleanupVars>>

---------------------------------------------------------------------------
(* The daemon, the client and the target: external to the source *)

Environment == <<pc, interrupts, misses, stopVars, monitorVars, drainVars,
                 callerVars, cleanupVars>>

\* A requested container appears, even after the request timed out.
DaemonCreates ==
  /\ container = "pending"
  /\ container' = "created"
  /\ UNCHANGED <<Environment, client, over>>

DaemonStarts ==
  /\ container = "created"
  /\ client # "none"
  /\ container' = "running"
  /\ UNCHANGED <<Environment, client, over>>

TargetExits ==
  /\ container = "running"
  /\ container' = "exited"
  /\ UNCHANGED <<Environment, client, over>>

\* A removal that was sent takes effect, perhaps after its command timed out.
DaemonRemoves ==
  /\ removal = "sent"
  /\ Present
  /\ container' = "gone"
  /\ UNCHANGED <<Environment, client, over>>

\* The target adds to, or deletes from, its output directory.
TargetWrites ==
  /\ container = "running"
  /\ over' = ~over
  /\ UNCHANGED <<Environment, client, container>>

\* The attached client may end with either code, the target still running or not.
ClientExits ==
  /\ client = "running"
  /\ client' \in ExitCodes
  /\ UNCHANGED <<Environment, container, over>>

---------------------------------------------------------------------------
(* KeyboardInterrupt in the calling thread: not an Exception, so only the     *)
(* finally blocks and the `except BaseException` clauses see it.              *)

\* Before the try of _start_owned_container nothing is undone.
InterruptPreamble ==
  /\ pc[Main] \in Preamble
  /\ Goto(Main, "raised")
  /\ UNCHANGED <<client, drainVars, stopVars, callerVars, cleanupVars>>

\* Mutant: an interrupted launch leaves at once.
InterruptLaunchLeaves ==
  /\ pc[Main] = "launch"
  /\ client' \in {client, "running"}
  /\ Goto(Main, "raised")
  /\ UNCHANGED <<drainVars, stopVars, callerVars, cleanupVars>>

\* Inside Popen the client may have been forked; `process` is still None.
InterruptLaunch ==
  /\ pc[Main] = "launch"
  /\ client' \in {client, "running"}
  /\ BeginCleanup(Main)
  /\ ret' = [ret EXCEPT ![Main] = "raised"]
  /\ UNCHANGED <<removal, drainVars, stopVars, callerVars>>

InterruptLaunchFailed ==
  /\ pc[Main] = "launchFailed"
  /\ Goto(Main, "raised")
  /\ UNCHANGED <<client, drainVars, stopVars, callerVars, cleanupVars>>

\* In the try of _supervise_started_docker: straight to its finally block.
InterruptSupervising ==
  /\ \/ pc[Main] \in Supervising
     \/ pc[Main] = "acquire" /\ ret[Main] \in {"signal", "failed"}
  /\ IF pc[Main] = "spawn" THEN StartSome ELSE UNCHANGED drainer
  /\ Goto(Main, "finally")
  /\ UNCHANGED <<client, drainErrors, stopVars, callerVars, cleanupVars>>

\* Waiting for the lock in the finally block: swallowed.
InterruptLateAcquire ==
  /\ pc[Main] = "acquire" /\ ret[Main] = "joinLate"
  /\ Goto(Main, "joinLate")
  /\ UNCHANGED <<client, drainVars, stopVars, callerVars, cleanupVars>>

\* Terminating the client: swallowed, the detail is not empty.
InterruptTerminate ==
  /\ pc[Main] = "terminate"
  /\ NoteTermination(Main, TRUE)
  /\ BeginCleanup(Main)
  /\ UNCHANGED <<ret, removal, client, drainVars, stopLock, stopAttempted,
                 cleanupConfirmed, callerVars>>

\* Mutant: an interrupted cleanup counts as a confirmed one.
InterruptCleanupConfirms ==
  /\ pc[Main] \in {"rm", "ls"}
  /\ removal' \in {removal, "sent"}
  /\ EndCleanup(Main, TRUE)
  /\ UNCHANGED <<ret, round, absent, client, drainVars, clientUnresolved, callerVars>>

\* Removing the container: swallowed, absence is not confirmed.
InterruptCleanup ==
  /\ pc[Main] \in {"rm", "ls"}
  /\ removal' \in {removal, "sent"}
  /\ EndCleanup(Main, FALSE)
  /\ UNCHANGED <<ret, round, absent, client, drainVars, clientUnresolved, callerVars>>

\* In the finally block: its remaining steps, and the result, are abandoned.
InterruptFinally ==
  /\ pc[Main] \in Unwinding
  /\ Unwind
  /\ UNCHANGED <<client, drainVars, stopVars, containerId, taken, diagnosed, waited,
                 lifecycle, round, absent, removal>>

\* An interrupt is delivered; only the calling thread is affected.
Delivered ==
  /\ interrupts < MaxInterrupts
  /\ interrupts' = interrupts + 1
  /\ UNCHANGED <<daemonVars, monitorVars>>

Interrupt ==
  /\ Delivered
  /\ \/ InterruptPreamble
     \/ InterruptLaunch
     \/ InterruptLaunchFailed
     \/ InterruptSupervising
     \/ InterruptLateAcquire
     \/ InterruptTerminate
     \/ InterruptCleanup
     \/ InterruptFinally

---------------------------------------------------------------------------
StopStep(t) ==
  Acquire(t) \/ TerminateClient(t) \/ RemoveContainer(t) \/ QueryAbsence(t)

MainStep ==
  \/ ValidateSpec \/ ResolveBinary \/ VerifyImage \/ PrepareAudit \/ Preflight
  \/ Create \/ Created \/ EnterStart \/ Launch \/ LaunchFailed
  \/ Spawn \/ SpawnRaises \/ Wait \/ Signal \/ JoinMonitor \/ TakeFailure
  \/ CheckAlive \/ JoinDrainers \/ Collect \/ Conclude \/ FailClosed
  \/ Finally \/ JoinLate \/ Close
  \/ StopStep(Main)

MonitorStep == Scan \/ Pause \/ PutFailure \/ StopStep(Monitor)

DrainerStep == \E s \in Streams : DrainerEnds(s) \/ DrainerFails(s)

EnvironmentStep ==
  \/ DaemonCreates \/ DaemonStarts \/ TargetExits \/ DaemonRemoves
  \/ TargetWrites \/ ClientExits

Next == MainStep \/ MonitorStep \/ DrainerStep \/ EnvironmentStep \/ Interrupt

Spec == Init /\ [][Next]_vars

\* Threads run: every step of the two threads is bounded by a timeout or waits
\* for the other thread only.  Nothing is assumed of the daemon or the target.
Fairness == WF_vars(MainStep) /\ WF_vars(MonitorStep)

FairSpec == Spec /\ Fairness

---------------------------------------------------------------------------
(* Properties *)

TypeOK ==
  /\ pc \in [Threads -> Locations]
  /\ ret \in [Threads -> Returns]
  /\ round \in [Threads -> 0 .. Rounds - 1]
  /\ absent \in [Threads -> Nat]
  /\ container \in {"none", "pending", "created", "running", "exited", "gone"}
  /\ removal \in {"none", "unsent", "sent"} /\ misses \in 0 .. TransientMisses
  /\ client \in {"none", "running"} \union ExitCodes
  /\ over \in BOOLEAN /\ containerId \in BOOLEAN
  /\ stopLock \in Threads \union {Free}
  /\ stopAttempted \in BOOLEAN /\ cleanupConfirmed \in BOOLEAN
  /\ clientUnresolved \in BOOLEAN /\ monitorStop \in BOOLEAN
  /\ finding \in Failures /\ failures \in Failures /\ taken \in Failures
  /\ drainer \in [Streams -> {"off", "reading", "eof", "broken"}]
  /\ drainErrors \in SUBSET Streams /\ diagnosed \in SUBSET Streams
  /\ waited \in {"no", "timeout"} \union ExitCodes
  /\ lifecycle \in SUBSET {"client_termination", "container_teardown"}
  /\ result \in [status : Statuses, exit : {"none"} \union ExitCodes,
                 events : SUBSET Events]
  /\ interrupts \in 0 .. MaxInterrupts

Succeeded == result.status = "succeeded"

\* A confirmed cleanup is never wrong: two consecutive empty listings outvote
\* the listing by which the daemon may miss a live container, whichever thread
\* cleans up and however the rounds of the two interleave.
\* (_remove_named_container, _ContainerCleanup.confirmed)
ConfirmedMeansGone == cleanupConfirmed => container = "gone"

\* A successful result means that the container is gone, the Docker client has
\* ended, and neither had to be reported.  (README: "an unconfirmed lifecycle
\* step is a reported failure, never a successful run")
SuccessMeansTornDown == Succeeded => container = "gone" /\ Exited

\* A container that outlives the call's result is named by an event of it.
LifecycleEvents == {"container_teardown", "container_ownership"}
NoSilentOrphan ==
  result # NoResult /\ container \in {"pending", "created", "running", "exited"}
    => /\ result.status = "failed"
       /\ result.events \intersect LifecycleEvents # {}

\* Neither an output left over budget nor a failure the monitor found goes with
\* success, except for a failure the caller's get_nowait came too early for.
\* (_monitor_output's final scan, and the is_alive check after the join)
OverBudgetMeansUnread ==
  Succeeded /\ (over \/ finding # "none") => failures # "none"

\* A result of a supervised run without a drain event rests on two streams read
\* to their end.  (_join_stream_drainers, _collect_drain_errors)
CleanCaptureIsComplete ==
  result.events \intersect {"execute", "timeout"} # {} /\ "drain" \notin result.events
    => \A s \in Streams : drainer[s] = "eof"

\* stop_sandbox is never in two threads at once; only the last resort of
\* _start_owned_container cleans up beside it.
TeardownExclusive ==
  pc[Main] \in Cleaning /\ pc[Monitor] \in Cleaning => ret[Main] = "raised"

\* An exit code goes with the status: zero exactly with success.
ExitCodeAgrees == result # NoResult => (result.exit = "zero" <=> Succeeded)

\* What a result says of itself fits what happened: the code goes with the
\* status, and a capture that is not complete is told.
ResultAgrees == ExitCodeAgrees /\ CleanCaptureIsComplete

\* A result of a launched run follows a `docker rm` that was sent, or says that the
\* teardown is not confirmed; a launched run that ends in an exception went through
\* a cleanup first, but nobody is told if that could not launch its `docker rm`.
\* (stop_sandbox, _start_owned_container's finally, which drops the verdict)
CleanupOnEveryExit ==
  client # "none" =>
    /\ pc[Main] = "returned" => removal = "sent" \/ "container_teardown" \in result.events
    /\ pc[Main] = "raised" => removal # "none"

KeepsTeardown ==
  stopAttempted => UNCHANGED <<stopAttempted, cleanupConfirmed, clientUnresolved>>

\* The outcome of the first stop_sandbox is the one every later call returns:
\* neither a second caller nor the last resort changes it.
TeardownIsFinal == [][KeepsTeardown]_vars

\* The call ends: the lock, the joins and the waits never block it for good.
Concludes == <>(pc[Main] \in Finished)

\* The strengthening that makes the safety properties inductive.

\* The caller judges the run only after its wait ended.
Judging == {"join", "take", "alive", "drain", "collect", "conclude"}
WaitedInv ==
  /\ pc[Main] \in Judging \union {"signal"} => waited # "no"
  /\ ret[Main] = "signal" => waited # "no"
  /\ pc[Main] \in Preamble \union {"launch"} => waited = "no"
  /\ waited \in ExitCodes => Exited

\* An id in hand is the id of a container the daemon did create, and nobody
\* starts, monitors or removes a container before there is an id.
Started == {"owned", "launch", "launchFailed", "acquire"}
             \union Supervising \union Unwinding \union Cleaning
OwnershipInv ==
  /\ containerId => container \notin {"none", "pending"}
  /\ pc[Main] \in Started => containerId
  /\ pc[Main] \in Preamble \ {"owned"} => ~containerId
  /\ pc[Main] \in Preamble \union {"launch"} => result = NoResult
  /\ pc[Main] \in Preamble \ {"creating", "owned"} => container = "none"
  /\ pc[Monitor] # "off" => containerId

\* A cleanup of a present container has seen no more empty listings in a row
\* than the daemon has missed it.
AbsenceInv ==
  /\ ConfirmedMeansGone
  /\ \A t \in Threads :
       pc[t] \in {"rm", "ls"} /\ container # "gone" => absent[t] <= misses

\* What the caller knows of the teardown when it judges the run.
ReportInv ==
  /\ pc[Main] \in Judging => container = "gone" \/ "container_teardown" \in lifecycle
  /\ result.status = "none" => result = NoResult
  /\ pc[Main] = "returned" => result # NoResult
  /\ NoSilentOrphan
  /\ SuccessMeansTornDown

\* stop_lock is held exactly by the thread inside stop_sandbox, until the first
\* call is done.  A cleanup outside it is the caller's: that of a failed launch,
\* when there is no monitor yet, or the last resort.
Bare(t) == t = Main /\ ret[Main] \in {"launchFailed", "raised"}
LockInv ==
  /\ \A t \in Threads : stopLock = t <=> pc[t] \in Cleaning /\ ~Bare(t)
  /\ stopLock # Free => ~stopAttempted
  /\ pc[Main] = "acquire" => ret[Main] \in {"signal", "failed", "joinLate"}
  /\ pc[Main] \in Preamble \union {"launch", "spawn"} \/ ret[Main] = "launchFailed"
       => pc[Monitor] = "off" /\ ~stopAttempted
  /\ ret[Main] = "launchFailed" => pc[Main] \in {"rm", "ls", "launchFailed"} \union Finished

\* TypeOK, the safety properties and what they rest on, preserved by every step.
IInv == TypeOK /\ WaitedInv /\ OwnershipInv /\ AbsenceInv /\ ReportInv /\ LockInv

\* The promise to the caller, with the container and the result as its state.
SandboxOf ==
  CASE container \in {"none", "pending"} -> "absent"
    [] container = "gone" -> "released"
    [] OTHER -> "held"
VerdictOf ==
  CASE pc[Main] = "raised" -> "raised"
    [] pc[Main] = "returned" -> IF result.status \in {"succeeded", "failed"}
                                THEN result.status ELSE "refused"
    [] OTHER -> "open"
DisclosedOf ==
  pc[Main] = "returned" /\ result.events \intersect LifecycleEvents # {}

Abstract == INSTANCE SandboxRun WITH
  sandbox <- SandboxOf, verdict <- VerdictOf, disclosed <- DisclosedOf

KeepsPromise == Abstract!Spec

=============================================================================
