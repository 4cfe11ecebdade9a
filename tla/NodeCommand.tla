----------------------------- MODULE NodeCommand -----------------------------
(***************************************************************************)
(* The contract between Fleet and the Node Agent: what a node command, its *)
(* lease and its acknowledgement are, and the checks both sides run on     *)
(* them (crates/contracts/src/node/command.rs and command_lease.rs).       *)
(*                                                                         *)
(* Identities, specifications and request bodies are opaque values; only   *)
(* equality of them matters.  A payload digest is the payload itself.      *)
(***************************************************************************)
EXTENDS Integers, Sequences

CONSTANTS
  Drafts,         \* the commands the control plane may decide to issue
  LeaseDuration,  \* fleet.command_lease_ms
  ClockOffset     \* the agent's clock minus the control plane's clock

\* The Runtime commands.  The other kinds (builds, resource claims, Gateway
\* snapshots, plugins, agent providers) travel the same way.
Kinds == {"runtime_apply", "runtime_inspect", "runtime_stop", "runtime_remove"}

(***************************************************************************)
(* spec is the Runtime unit specification a payload carries, request the   *)
(* rest of it (request identity, Runtime deadline), claimed whether a      *)
(* resource-claim binding is attached.  A draft is what a caller hands to  *)
(* Fleet; ttl is the command lifetime it asks for.                         *)
(***************************************************************************)
Payloads == { d.payload : d \in Drafts }
Ids == { d.id : d \in Drafts }
Aggregates == { d.aggregate : d \in Drafts }

ASSUME DraftsAssumption ==
  \A d \in Drafts :
    /\ d.ttl \in Nat \ {0}
    /\ d.payload.kind \in Kinds
    /\ d.payload.generation \in Nat \ {0}
    /\ d.payload.claimed \in BOOLEAN

ASSUME LeaseDurationAssumption == LeaseDuration \in Nat \ {0}
ASSUME ClockOffsetAssumption == ClockOffset \in Int

Command ==
  [id : Ids, aggregate : Aggregates, payload : Payloads,
   sequence : Nat \ {0}, issuedAt : Int, notAfter : Int]

(***************************************************************************)
(* What a caller learns of a command.  "observed" is a success whose       *)
(* result carries a Runtime observation, "succeeded" one without;          *)
(* "expired" is the rejection command_expired, "late" the failure          *)
(* command_completed_after_deadline.                                       *)
(***************************************************************************)
Outcomes == {"observed", "succeeded", "rejected", "failed", "expired", "late"}
Succeeds(outcome) == outcome \in {"observed", "succeeded"}

\* What an error in dispatch is reported as (executor.rs dispatch_failure)
Failures == {"rejected", "failed"}

\* The successes each kind of command can end in: an apply always returns
\* the unit's observation, an inspect or a stop only if the unit was found
Successes(kind) ==
  CASE kind = "runtime_apply" -> {"observed"}
    [] kind \in {"runtime_inspect", "runtime_stop"} -> {"observed", "succeeded"}
    [] OTHER -> {"succeeded"}

LeaseId == Nat \ {0}
Lease == [id : LeaseId, until : Int]
NoLease == [id |-> 0, until |-> 0]

Envelope == [cmd : Command, lease : LeaseId]

Ack ==
  [id : Ids, sequence : Nat \ {0}, payload : Payloads, lease : LeaseId,
   completedAt : Int, outcome : Outcomes]
NoAck == [outcome |-> "none"]

\* NodeCommandEnvelope::is_expired_at: the deadline itself is already too late
IsExpiredAt(cmd, t) == t >= cmd.notAfter

\* Mutant: the lease is not compared
ValidateAgainstAnyLease(ack, cmd, lease) ==
  /\ ack.id = cmd.id
  /\ ack.sequence = cmd.sequence
  /\ ack.payload = cmd.payload
  /\ ack.completedAt >= cmd.issuedAt

\* NodeCommandAck::validate_against: the acknowledgement names exactly this
\* command under exactly this lease, and does not predate it
ValidateAgainst(ack, cmd, lease) ==
  /\ ack.id = cmd.id
  /\ ack.lease = lease
  /\ ack.sequence = cmd.sequence
  /\ ack.payload = cmd.payload
  /\ ack.completedAt >= cmd.issuedAt

(***************************************************************************)
(* The journal fences state-changing commands by generation and by this    *)
(* digest (journal.rs state_mutation_digest): the specification alone, or  *)
(* the whole payload, request identity and deadline included, when a       *)
(* resource claim is bound to it.                                          *)
(***************************************************************************)
MutatesState(p) == p.kind = "runtime_apply"

\* Mutant: every apply is digested with its request identity
WholePayloadDigest(p) == [spec |-> p.spec, request |-> p.request]

StateMutationDigest(p) ==
  IF p.claimed THEN [spec |-> p.spec, request |-> p.request]
               ELSE [spec |-> p.spec, request |-> "any"]
StateDigests == { StateMutationDigest(p) : p \in Payloads }
=============================================================================
