----------------------- MODULE MCExecutionSupervisor -----------------------
(***************************************************************************)
(* Instances of ExecutionSupervisor for TLC, and the statements of the     *)
(* documentation that the code does not keep.                              *)
(***************************************************************************)
EXTENDS ExecutionSupervisor

\* The final scan closes the race between the last write and the poll, so that
\* no successful result leaves the output over its budget.
\* (supervisor.py, the comment on _monitor_output's final scan)
FinalScanDecides == Succeeded => ~over

\* An interrupt after the container's creation triggers its cleanup.
\* (README, "In-process errors and interrupts after container creation")
InterruptTriggersCleanup == pc[Main] = "raised" /\ containerId => removal # "none"

=============================================================================
