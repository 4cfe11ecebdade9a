---------------------------- MODULE FleetMailbox ----------------------------
(***************************************************************************)
(* The control plane's side of node delivery: the node_commands table of   *)
(* one node, its leases and acknowledgements, the Runtime observations and *)
(* the heartbeat clock kept in the node row                                *)
(* (modules/fleet/infrastructure/persistence/postgres/control.rs,          *)
(* control/observations.rs and nodes.rs).  Every action is one database    *)
(* transaction: enqueue, lease and record_observations hold the lock of    *)
(* the node row, acknowledge that of the command row, which lease also     *)
(* takes.  Commands are never deleted, so the row of sequence number n is  *)
(* rows[n].                                                                *)
(***************************************************************************)
EXTENDS NodeCommand, FiniteSets

CONSTANTS
  MaxBatch,  \* commands per lease (agent.rs MAX_COMMANDS_PER_LEASE)
  MaxLag,    \* bound: how stale the time a handler works with may be
  MaxTime    \* bound: the clock stops here

ASSUME MailboxAssumption ==
  /\ MaxBatch \in Nat \ {0}
  /\ MaxLag \in Nat
  /\ MaxTime \in Nat

VARIABLES
  now,           \* the control plane's clock
  rows,          \* node_commands of the node, by sequence
  leaseCount,    \* lease identities handed out so far (fresh UUIDs)
  revoked,       \* nodes.state = 'revoked'
  reports,       \* runtime_observations
  lastObserved   \* nodes.last_observed_at

mailboxVars == <<now, rows, leaseCount, revoked, reports, lastObserved>>

Row == [cmd : Command, lease : Lease \cup {NoLease}, ack : Ack \cup {NoAck}]
Report == [id : Ids, observedAt : Int]

MailboxTypeOK ==
  /\ now \in Nat
  /\ rows \in Seq(Row)
  /\ leaseCount \in Nat
  /\ revoked \in BOOLEAN
  /\ reports \subseteq Report
  /\ lastObserved \in Int

MailboxInit ==
  /\ now = 0
  /\ rows = <<>>
  /\ leaseCount = 0
  /\ revoked = FALSE
  /\ reports = {}
  /\ lastObserved = 0

\* The time a handler reads when it starts may be older than the time its
\* transaction commits
RecentTimes == { t \in 0 .. now : now - t <= MaxLag }

Tick ==
  /\ now < MaxTime
  /\ now' = now + 1
  /\ UNCHANGED <<rows, leaseCount, revoked, reports, lastObserved>>

Revoke ==
  /\ ~revoked
  /\ revoked' = TRUE
  /\ UNCHANGED <<now, rows, leaseCount, reports, lastObserved>>

(***************************************************************************)
(* enqueue.  A known command ID is a replay or a conflict and changes      *)
(* nothing.  Only Runtime applies are fenced here: by a removal of the     *)
(* same generation, by another specification for the same generation (the  *)
(* code looks at the latest such apply; they all carry one specification), *)
(* and by a later generation.                                              *)
(***************************************************************************)
OfAggregate(aggregate, kind) ==
  { i \in DOMAIN rows : rows[i].cmd.aggregate = aggregate /\ rows[i].cmd.payload.kind = kind }

\* Mutant: a removal does not fence its generation
ApplyAfterRemoval(aggregate, payload) ==
  \A i \in OfAggregate(aggregate, "runtime_apply") :
    /\ rows[i].cmd.payload.generation <= payload.generation
    /\ rows[i].cmd.payload.generation = payload.generation
         => rows[i].cmd.payload.spec = payload.spec

ApplyAdmitted(aggregate, payload) ==
  /\ \A i \in OfAggregate(aggregate, "runtime_remove") :
       rows[i].cmd.payload.generation # payload.generation
  /\ \A i \in OfAggregate(aggregate, "runtime_apply") :
       /\ rows[i].cmd.payload.generation <= payload.generation
       /\ rows[i].cmd.payload.generation = payload.generation
            => rows[i].cmd.payload.spec = payload.spec

Enqueue(d, issuedAt) ==
  /\ ~revoked
  /\ \A i \in DOMAIN rows : rows[i].cmd.id # d.id
  /\ d.payload.kind = "runtime_apply" => ApplyAdmitted(d.aggregate, d.payload)
  /\ rows' = Append(rows,
       [cmd |-> [id |-> d.id, aggregate |-> d.aggregate, payload |-> d.payload,
                 sequence |-> Len(rows) + 1,
                 issuedAt |-> issuedAt, notAfter |-> issuedAt + d.ttl],
        lease |-> NoLease, ack |-> NoAck])
  /\ UNCHANGED <<now, leaseCount, revoked, reports, lastObserved>>

(***************************************************************************)
(* lease.  The candidates are the first MaxBatch unacknowledged rows past  *)
(* the sequence the agent names; the batch stops before the first          *)
(* candidate another lease still holds.                                    *)
(***************************************************************************)
Unacknowledged(after) == { i \in DOMAIN rows : i > after /\ rows[i].ack = NoAck }

Candidates(after) ==
  { i \in Unacknowledged(after) :
      Cardinality({ j \in Unacknowledged(after) : j < i }) < MaxBatch }

\* Mutant: a lease never runs out
HeldForever(i, t) == rows[i].lease # NoLease

Held(i, t) == rows[i].lease # NoLease /\ rows[i].lease.until > t

\* Mutant: held candidates are passed over
LeasableSkipping(after, t) == { i \in Candidates(after) : ~Held(i, t) }

Leasable(after, t) ==
  { i \in Candidates(after) : \A j \in Candidates(after) : j <= i => ~Held(j, t) }

LeaseBatch(after, t) ==
  { [cmd |-> rows[i].cmd, lease |-> leaseCount + 1] : i \in Leasable(after, t) }

\* Mutant: the state of the node is not looked at
LeaseToAnyone(after, t) ==
  /\ rows' = [i \in DOMAIN rows |->
       IF i \in Leasable(after, t)
       THEN [rows[i] EXCEPT !.lease = [id |-> leaseCount + 1, until |-> t + LeaseDuration]]
       ELSE rows[i]]
  /\ leaseCount' = IF Leasable(after, t) = {} THEN leaseCount ELSE leaseCount + 1
  /\ UNCHANGED <<now, revoked, reports, lastObserved>>

LeaseCommands(after, t) ==
  /\ ~revoked
  /\ rows' = [i \in DOMAIN rows |->
       IF i \in Leasable(after, t)
       THEN [rows[i] EXCEPT !.lease = [id |-> leaseCount + 1, until |-> t + LeaseDuration]]
       ELSE rows[i]]
  /\ leaseCount' = IF Leasable(after, t) = {} THEN leaseCount ELSE leaseCount + 1
  /\ UNCHANGED <<now, revoked, reports, lastObserved>>

(***************************************************************************)
(* acknowledge.  A stored acknowledgement is replayed only to its equal;   *)
(* otherwise it must fit the current lease, have completed within it, and, *)
(* if it reports success, within the command's lifetime.                   *)
(***************************************************************************)
Acknowledgeable(ack, i) ==
  /\ rows[i].cmd.id = ack.id
  /\ rows[i].ack = NoAck
  /\ rows[i].lease # NoLease
  /\ ValidateAgainst(ack, rows[i].cmd, rows[i].lease.id)
  /\ ack.completedAt <= rows[i].lease.until
  /\ Succeeds(ack.outcome) => ack.completedAt <= rows[i].cmd.notAfter

AckStored(ack) == \E i \in DOMAIN rows : rows[i].cmd.id = ack.id /\ rows[i].ack = ack
AckAccepted(ack) == AckStored(ack) \/ \E i \in DOMAIN rows : Acknowledgeable(ack, i)

Acknowledge(ack) ==
  /\ rows' = [i \in DOMAIN rows |->
       IF Acknowledgeable(ack, i) THEN [rows[i] EXCEPT !.ack = ack] ELSE rows[i]]
  /\ UNCHANGED <<now, leaseCount, revoked, reports, lastObserved>>

(***************************************************************************)
(* record_observations.  Every batch carries a heartbeat whose time may    *)
(* not move backwards; a report ID is replayed only with equal content.    *)
(* batchReports holds the at most one report of the batch.  That the       *)
(* batch's inventory reference is the current one                          *)
(* (require_current_reference) is modelled in NodeInventory.               *)
(***************************************************************************)
ObservationsAccepted(batchReports, observedAt) ==
  /\ ~revoked
  /\ observedAt >= lastObserved
  /\ \A r \in batchReports :
       /\ \A s \in reports : s.id = r.id => s = r
       /\ \E i \in DOMAIN rows : rows[i].cmd.id = r.id

RecordObservations(batchReports, observedAt) ==
  /\ ObservationsAccepted(batchReports, observedAt)
  /\ reports' = reports \cup batchReports
  /\ lastObserved' = observedAt
  /\ UNCHANGED <<now, rows, leaseCount, revoked>>
=============================================================================
