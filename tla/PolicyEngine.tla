---------------------------- MODULE PolicyEngine ----------------------------
(***************************************************************************)
(* PolicyEngine.authorize, the identity a request is bound to, and the     *)
(* grants a sandbox needs.  A request asks for one capability:             *)
(*                                                                         *)
(*   wants   what it asks for (category, action, target)                   *)
(*   risk    its risk level                                                *)
(*   related its confidence is at least 0.65                               *)
(*   why     its justification                                             *)
(*   id      the identity it carries                                       *)
(*                                                                         *)
(* An identity is a digest of the whole request and of the run's context   *)
(* (repository digest, goal, image); it is modelled by the pair of them.   *)
(* A target is named for the class of paths, endpoints or values it is in. *)
(* The source is src/src/r_sandbox/policy/ and                             *)
(* src/src/r_sandbox/tools/sandbox_builder/builder.py.                     *)
(***************************************************************************)
EXTENDS Integers, Sequences

Capability(category, action, target) ==
  [category |-> category, action |-> action, target |-> target]

\* A request has these fields and no others.
IsRequest(r) ==
  /\ r = [wants |-> r.wants, risk |-> r.risk, related |-> r.related, why |-> r.why, id |-> r.id]
  /\ r.related \in BOOLEAN

\* capability_request_id, for the context of a run.
RequestId(wants, risk, related, why, context) ==
  [wants |-> wants, risk |-> risk, related |-> related, why |-> why, context |-> context]

IsBound(r, context) == r.id = RequestId(r.wants, r.risk, r.related, r.why, context)

\* A proposal may name a target that no canonical request can carry.
IsMalformed(r) == r.wants.category = "network" /\ r.wants.target = "url"

---------------------------------------------------------------------------
(* The handlers *)

ReadActions == {"read", "list", "stat"}
OutputActions == ReadActions \cup {"write", "create", "delete_or_move", "rename", "mutate"}

\* "/output/.ssh" is scratch: the mounts are looked at before secret names.
ScratchTargets == {"<output>", "<temporary>", "<shared-memory>", "/output/.ssh", "/tmp/x"}
RepositoryTargets == {"<repository>", "/workspace/x", "relative"}

Filesystem(w) ==
  IF \/ w.target \in ScratchTargets /\ w.action \in OutputActions
     \/ w.target \in RepositoryTargets /\ w.action \in ReadActions
  THEN "allow" ELSE "deny"

PublicEndpoints == {"mirror", "archive"}

\* Private, malformed and wildcard targets, uploads, and downloads that have
\* little to do with the goal are hard denials.
Network(w, related, config) ==
  IF w.action # "download" \/ w.target \notin PublicEndpoints \/ ~related THEN "deny"
  ELSE IF w.target \in config.listed THEN "allow"
  ELSE "approve"

SafeExecutables == {"python", "python3"}

Process(w, risk) ==
  IF w.action = "execute" /\ w.target \in SafeExecutables /\ risk \in {"low", "medium"}
  THEN "allow" ELSE "deny"

Device(w, related) ==
  IF w.action = "access" /\ w.target = "gpu" /\ related THEN "approve" ELSE "deny"

\* The limits the default contract asks for are below every ceiling.
ContractLimits ==
  {<<"cpu", "1">>, <<"memory_mb", "1024">>, <<"pids", "128">>, <<"timeout_seconds", "300">>,
   <<"output_mb", "1024">>, <<"output_files", "10000">>, <<"temporary_mb", "64">>,
   <<"shared_memory_mb", "16">>}

Resource(w) == IF <<w.action, w.target>> \in ContractLimits THEN "allow" ELSE "deny"

Evaluate(r, config) ==
  CASE r.wants.category = "filesystem" -> Filesystem(r.wants)
    [] r.wants.category = "network"    -> Network(r.wants, r.related, config)
    [] r.wants.category = "process"    -> Process(r.wants, r.risk)
    [] r.wants.category = "device"     -> Device(r.wants, r.related)
    [] r.wants.category = "resource"   -> Resource(r.wants)
    [] OTHER                           -> "deny"   \* secrets and side effects

---------------------------------------------------------------------------
(* authorize *)

\* Mutant: an approval is honoured for an image that may change.
DecideUnpinned(r, config) ==
  IF ~IsBound(r, "this run") THEN "deny"
  ELSE IF Evaluate(r, config) = "approve" /\ r.id \in config.approved THEN "allow"
  ELSE Evaluate(r, config)

\* An approval upgrades a held request only, by its exact identity, and only
\* if the image it will run in is pinned.
Decide(r, config) ==
  IF ~IsBound(r, "this run") THEN "deny"
  ELSE IF Evaluate(r, config) = "approve" /\ r.id \in config.approved /\ config.immutable
       THEN "allow"
  ELSE Evaluate(r, config)

HasDuplicateIds(requests) ==
  \E i, j \in DOMAIN requests : i # j /\ requests[i].id = requests[j].id

\* The placeholder of a malformed request keeps its category only.
Placeholder(r) ==
  LET wants == Capability(r.wants.category, "invalid_proposal", "<malformed-capability>")
  IN [wants |-> wants, risk |-> "critical", related |-> FALSE, why |-> "malformed",
      id |-> RequestId(wants, "critical", FALSE, "malformed", "placeholder")]

\* One decision per request; one malformed request denies the whole proposal.
Authorize(requests, config) ==
  LET quarantined == \E i \in DOMAIN requests : IsMalformed(requests[i])
  IN [i \in DOMAIN requests |->
        [request  |-> IF IsMalformed(requests[i]) THEN Placeholder(requests[i]) ELSE requests[i],
         decision |-> IF quarantined THEN "deny" ELSE Decide(requests[i], config)]]

DecidedAs(authorization, decision) ==
  {authorization[i].request : i \in {j \in DOMAIN authorization :
                                       authorization[j].decision = decision}}

---------------------------------------------------------------------------
(* What a sandbox needs and gets *)

ContractPaths ==
  {<<"read", "<repository>">>} \cup
    {"read", "write"} \X {"<output>", "<temporary>", "<shared-memory>"}

Contract ==
  {Capability("filesystem", p[1], p[2]) : p \in ContractPaths} \cup
    {Capability("resource", l[1], l[2]) : l \in ContractLimits}

Execute(executable) == Capability("process", "execute", executable)

\* Only requests the policy allowed are granted.
Grants(requests, authorization) ==
  {r.wants : r \in {requests[i] : i \in DOMAIN requests} \cap DecidedAs(authorization, "allow")}

\* Each request needs a decision on exactly its payload.
IsDecided(requests, authorization) ==
  \A i \in DOMAIN requests : \E j \in DOMAIN authorization : authorization[j].request = requests[i]

MayBuild(executable, requests, authorization) ==
  /\ IsDecided(requests, authorization)
  /\ ~HasDuplicateIds(requests)
  /\ executable \in SafeExecutables
  /\ Contract \cup {Execute(executable)} \subseteq Grants(requests, authorization)
=============================================================================
