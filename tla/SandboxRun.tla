----------------------------- MODULE SandboxRun -----------------------------
(***************************************************************************)
(* What a caller of execute is promised: one sandbox is held at most once, *)
(* and the verdict is honest about it.  ExecutionSupervisor implements     *)
(* this specification.                                                     *)
(***************************************************************************)

VARIABLES
  sandbox,   \* the container on the daemon: absent, held or released
  verdict,   \* how the call ended, "open" while it has not
  disclosed  \* the result carries an event that names a lifecycle failure

Verdicts == {"open", "succeeded", "failed", "refused", "raised"}

Init == sandbox = "absent" /\ verdict = "open" /\ disclosed = FALSE

\* The daemon creates the container; a late one only after a failure.
Acquire ==
  /\ sandbox = "absent"
  /\ verdict = "open" \/ verdict = "raised" \/ (verdict = "failed" /\ disclosed)
  /\ sandbox' = "held"
  /\ UNCHANGED <<verdict, disclosed>>

Release ==
  /\ sandbox = "held"
  /\ sandbox' = "released"
  /\ UNCHANGED <<verdict, disclosed>>

\* The call ends once.  It succeeds only over a released sandbox, and returns
\* over a held one only as a disclosed failure.
Conclude(v, d) ==
  /\ verdict = "open"
  /\ v = "succeeded" => sandbox = "released"
  /\ sandbox = "held" => v = "raised" \/ (v = "failed" /\ d)
  /\ verdict' = v
  /\ disclosed' = d
  /\ UNCHANGED sandbox

Next ==
  \/ Acquire
  \/ Release
  \/ \E v \in Verdicts \ {"open"}, d \in BOOLEAN : Conclude(v, d)

Spec == Init /\ [][Next]_<<sandbox, verdict, disclosed>>
=============================================================================
