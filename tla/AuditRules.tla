----------------------------- MODULE AuditRules -----------------------------
(***************************************************************************)
(* What the Python audit hook permits a call of the target, and the event  *)
(* it records for it.  The hook decides on the place that a path resolves  *)
(* to, and records the path as the call gave it, made absolute only, so a  *)
(* path has a place and a name: the place that its text lies in, or none   *)
(* if the assessor refuses the text.  The prefix of an interpreter that    *)
(* was not installed under /usr is a place of its own, since the hook      *)
(* trusts it and the assessor does not know it.  A call on a descriptor    *)
(* has no path: reading is permitted and leaves no record, the rest is     *)
(* denied under a name that is no path.                                    *)
(* AuditLog models when the hook looks at a call at all.  The source is    *)
(* src/src/r_sandbox/tools/execution_supervisor/python_audit/              *)
(* sitecustomize.py.                                                       *)
(***************************************************************************)
EXTENDS RuntimeEvidence

Writable == {"<output>", "<temporary>", "<shared-memory>"}

\* The snapshot, the scratch directories, the audit mount, three devices, and the
\* prefixes of the interpreter.
Readable == Writable \cup {"<repository>", "<runtime>", "<prefix>"}

Places == Readable \cup {"host"}

\* A link, /proc/self/cwd or /bin is an alias: its text lies elsewhere.  A backslash
\* or " -> " in the text makes it unclear to the assessor.
Names == Places \cup {"<unclear>"}
CallPaths == [place : Places, name : Names]

Hooked(type, action, target, allowed) == Event(type, action, target, allowed, "target_telemetry")

\* open; mkdir, remove, chmod and the like; rename of a file, which is recorded
\* under its new name if it is permitted, else under the path that is at fault.
ReadFile(path)   == Hooked("filesystem", "read", path.name, path.place \in Readable)
WriteFile(path)  == Hooked("filesystem", "write", path.name, path.place \in Writable)
MutatePath(path) == Hooked("filesystem", "mutate", path.name, path.place \in Writable)
RenameFile(from, to) ==
  Hooked("filesystem", "rename", IF from.place \in Writable THEN to.name ELSE from.name,
         {from.place, to.place} \subseteq Writable)

\* Nothing else that is audited is ever permitted.
SpawnProcess == Hooked("process", "spawn", "subprocess", FALSE)
Connect(host) == Hooked("network", "connect", host, FALSE)
SendTo(host) == Hooked("network", "send", host, FALSE)
\* urllib tells a plain download from a request that carries something.
Fetch(host, carries) ==
  Hooked("network", CASE carries = "nothing" -> "download" [] carries = "data" -> "send"
                      [] OTHER -> "connect_unknown", host, FALSE)

\* What is recorded of the calls that the hook lets pass.
Permitted ==
  {e \in {ReadFile(p) : p \in CallPaths} \cup {WriteFile(p) : p \in CallPaths}
           \cup {MutatePath(p) : p \in CallPaths}
           \cup {RenameFile(p, q) : p \in CallPaths, q \in CallPaths} : e.allowed}
=============================================================================
