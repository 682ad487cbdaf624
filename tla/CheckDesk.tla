----------------------------- MODULE CheckDesk -----------------------------
(***************************************************************************)
(* What the dashboard promises those who ask it for a check: one check at  *)
(* a time, a conflict only beside another request's, a report only of a    *)
(* check that came to its end and gave the desk back before, one answer    *)
(* for each request, and none lost before the server shuts down, nor one   *)
(* that runs before the process ends.  Dashboard implements this           *)
(* specification.                                                          *)
(***************************************************************************)

CONSTANTS Clients

VARIABLES
  request,   \* how far the request of each client is
  stage      \* the desk is open, closing or ended

States ==
  {"waiting", "running", "failing", "completed", "report", "conflict", "error", "lost"}

Init == request = [c \in Clients |-> "waiting"] /\ stage = "open"

Occupies(c) == request[c] \in {"running", "failing"}

Becomes(c, from, to) ==
  /\ request[c] = from
  /\ request' = [request EXCEPT ![c] = to]
  /\ UNCHANGED stage

Begin(c)    == (\A d \in Clients : ~Occupies(d)) /\ Becomes(c, "waiting", "running")
TurnAway(c) == (\E d \in Clients : Occupies(d)) /\ Becomes(c, "waiting", "conflict")

\* A check that came to its end frees the desk, then its report is sent.
Complete(c) == Becomes(c, "running", "completed")
Report(c)   == Becomes(c, "completed", "report")

\* A check that failed is answered, then it frees the desk.
Fail(c)  == Becomes(c, "running", "failing")
Clear(c) == Becomes(c, "failing", "error")

\* What is not answered when the desk closes, or asks after that, is lost.
Close ==
  /\ stage = "open" /\ stage' = "closing"
  /\ \E turned \in SUBSET {c \in Clients : request[c] = "waiting"} :
       request' = [c \in Clients |-> IF c \in turned THEN "lost" ELSE request[c]]
TooLate(c) == stage # "open" /\ Becomes(c, "waiting", "lost")

\* The process ends, and what it had not answered is lost with it.
End ==
  /\ stage = "closing" /\ stage' = "ended"
  /\ \E asked \in SUBSET {c \in Clients : request[c] = "waiting"} :
       request' = [c \in Clients |->
                     IF c \in asked \/ request[c] \in {"running", "completed"} THEN "lost"
                     ELSE IF request[c] = "failing" THEN "error"
                     ELSE request[c]]

Next ==
  \/ \E c \in Clients : \/ Begin(c) \/ TurnAway(c) \/ Complete(c) \/ Report(c)
                        \/ Fail(c) \/ Clear(c) \/ TooLate(c)
  \/ Close \/ End

Spec == Init /\ [][Next]_<<request, stage>>
=============================================================================
