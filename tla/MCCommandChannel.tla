-------------------------- MODULE MCCommandChannel --------------------------
(* Small instances of CommandChannel for TLC. *)
EXTENDS DeliveryInvariant

Payload(kind, generation, spec, request, claimed) ==
  [kind |-> kind, generation |-> generation, spec |-> spec, request |-> request,
   claimed |-> claimed]
Draft(id, aggregate, payload, ttl) ==
  [id |-> id, aggregate |-> aggregate, payload |-> payload, ttl |-> ttl]

\* A deployment's apply and the removal of the same generation
RetireDrafts ==
  { Draft("apply1", "replica", Payload("runtime_apply", 1, "spec1", "deploy1", FALSE), 4),
    Draft("remove1", "replica", Payload("runtime_remove", 1, "none", "retire1", FALSE), 3) }

\* An apply and the reconciler's recovery apply of the same specification
\* under another request identity, for a replica without a resource claim;
\* each may run out before, while or after it is run
RestoreDrafts ==
  { Draft("apply1", "replica", Payload("runtime_apply", 1, "spec1", "deploy1", FALSE), 2),
    Draft("recover1", "replica", Payload("runtime_apply", 1, "spec1", "recover1", FALSE), 2) }

\* An apply that expires at once
HastyDrafts ==
  { Draft("apply1", "replica", Payload("runtime_apply", 1, "spec1", "deploy1", FALSE), 1) }

\* A deployment's apply and the reconciler's recovery apply of the same
\* specification, both bound to the replica's resource claim
RecoveryDrafts ==
  { Draft("apply1", "replica", Payload("runtime_apply", 1, "spec1", "deploy1", TRUE), 2),
    Draft("recover1", "replica", Payload("runtime_apply", 1, "spec1", "recover1", TRUE), 2) }
=============================================================================
