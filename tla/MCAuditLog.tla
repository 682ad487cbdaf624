----------------------------- MODULE MCAuditLog -----------------------------
(***************************************************************************)
(* Instances of AuditLog for TLC: two threads of the first process, and a  *)
(* second process that is forked or spawned.                               *)
(***************************************************************************)
EXTENDS AuditLog

MCProcess == <<1, 1, 2>>
=============================================================================
