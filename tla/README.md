# Verification of A3S Cloud

A3S Cloud is a control plane (`crates/control-plane`, one module per bounded context over
PostgreSQL) and a Node Agent (`crates/node-agent`) on every machine. Whatever the control
plane decides, to run, stop or remove a unit, to reserve a device, to install a Gateway
snapshot, reaches a node as a *command* in Fleet's mailbox. The agent connects outbound over
mTLS, leases commands, executes them and reports back: outcomes, observations, its capacity
and its logs. Facts leave the control plane through a transactional outbox, and notifications
leave it through Connectors that call a provider.

This development models the protocols behind those sentences. What they have in common is
that each joins two or more stores that never share a transaction, and that their failures
(crashes between two writes, lost answers, leases and deadlines that run out, late messages,
skewed clocks) are the ones tests reach least. The command channel comes first, because
everything else relies on it. Every safety property that a passing run checks is also proved, for
all values of the constants the assumptions of section 5 admit, and without further hypotheses;
liveness is model-checked. Where the code does not keep what it promises, the formula of the
property names the exception, and a configuration of its own refutes it without (section 4).

## 1. Inventory

### The delivery path

| Component | State it keeps | Operations | Hard behaviours | What makes it correct |
|---|---|---|---|---|
| Command contract, `contracts/src/node/command.rs`, `command_lease.rs` | none | validation of leases and acknowledgements, expiry | boundaries of the deadline, clocks of two machines | both sides judge the same command by the same rules |
| Fleet mailbox, `fleet/.../postgres/control.rs` | `node_commands`: sequence, payload, lease, acknowledgement | `enqueue`, `lease`, `acknowledge` | a lease that runs out while its command executes; a late acknowledgement under an old lease; a batch with a held row in it | a row is settled once, by what the node decided; rows are handed out in order; retired generations are not applied again |
| Fleet observations, `control/observations.rs`, `nodes.rs` | `runtime_observations`, `nodes.last_observed_at`, node state | `record_observations`, heartbeats, `set_state` | two senders on one clock; replays | an observation is stored before the command it belongs to is settled |
| Node control API, `node_control/api.rs` | none | one endpoint per operation, certificate authentication | authentication and transaction are two steps | a revoked node is given nothing to run |
| Agent journal, `node-agent/src/journal.rs`, `state_file.rs` | entries by sequence, completions, receipts, generation fences | `begin`, `complete`, `pending_acknowledgements`, `mark_acknowledged`, `after_sequence` | a crash between any two of them; redelivery under another lease | an outcome is decided once and never run again; one unsettled command at a time |
| Agent loops, `agent.rs`, `executor.rs`, `control_plane.rs` | where the round is; the request it waits for | `synchronize_once`, `execute`, `deliver_completion`, `heartbeat_once` | which errors are retried and which end the process; clock read twice | every admitted command settles in the end |

They interact as follows. Callers inside the control plane call `enqueue`. The agent's
command loop calls, one request at a time, `lease` (long poll), `record_observations` and
`acknowledge`; a second task sends heartbeats to `record_observations`. Each request is one
transaction on the control plane. The only state that survives an agent crash is the journal
file; the only state that survives on the other side is the database.

### The protocols around it

| Component | State it keeps | Operations | Hard behaviours | What makes it correct |
|---|---|---|---|---|
| Outbox relay, `integration_events` | `outbox_events`: attempts, owner, lease, next attempt | `store_outbox`, `claim`, `deliver_claimed`, `mark_published`, `mark_failed` | a relay that loses its lease while it publishes; a publication whose answer is lost; a process that stalls | published means handed to the bus and projected; one owner settles a row; every fact gets there |
| Resource inventory, `resource_inventory.rs`, `control/inventory.rs` | the agent's record; Fleet's snapshots and head | `prepare_sync`, `ensure_reported`, `record`, `require_current_reference` | two loops report at once; a late report; a record ahead of Fleet after a restart | history never changes; Fleet's head becomes the node's capacity |
| Resource claims, `workloads/.../resource_claim.rs`, `deployment_flow/`, `journal.rs` | claim state and slots; flow stage; the journal's projection; units running | reserve, prepare, bind, release, cancel, fail, retire | two writes per step; expiry after the effect; retirement under a live deployment | no slot is used twice; the agent holds nothing the database gave away; retirement ends |
| Log shipping, `log_shipper.rs`, `outbound_batch.rs`, `record_node_log_chunks` | cursor, pending batch; rows and objects | collect, stage, upload, commit; put, record, clean up | rotation and replacement of the source; failure between object and row | nothing is left out without a recorded gap; every recorded chunk has its body |
| Log history, `log_retention.rs`, `log_compaction.rs`, `log_reader.rs` | chunks, tombstones, gaps, ranges; the stream's cursor | sweep, compact, read in three queries | retention, several compactions and a reader at once | every sequence is accounted for once; a poll covers what was there when it began |
| Outbound notifications, `notifications`, `connectors` | attempt rows with fences, receipt, subscription | reserve, `begin_dispatch`, settle, revoke, resolve, receipt | redelivery under a live process; deadline against a late answer; an operator | one provider call per attempt; retries only on durable evidence; a receipt that is true |
| Gateway rollout, `edge`, `gateway.rs` | rollouts, replicas, recoveries, rollbacks, scopes; the Gateway's revision | stage, dispatch, acknowledge, expire, observe, roll back | a snapshot installed after its command expired; silence of a member; a rollback over unknown state | what Edge believes installed runs; a failed snapshot is gone before the next |

The agent's journal and the mailbox are shared: claims, Gateway snapshots and observations
are commands, so `ResourceClaims` and `GatewayRollout` take from `CommandChannel` that a node
executes commands one by one, in order and with one outcome each, and model what is built on it.
`NodeInventory`'s reference travels in the observation batches of `CommandChannel`;
`LogHistory` continues where `LogShipping` ends.

### The rest of the system

`PROJECT.json` lists every component with its status. The parts with protocols of their own
that are not modelled are operations, enrollment and certificates, node availability,
replica recovery and autoscaling, builds, and durable cells. The other contexts are mostly
records with optimistic versions and idempotency keys, adapters to external services, or read
models.

## 2. Modules

| Module | Models | Source |
|---|---|---|
| `NodeCommand` | commands, leases, acknowledgements and their checks; the journal's state digest | `command.rs`, `command_lease.rs`, `journal.rs` `state_mutation_digest` |
| `FleetMailbox` | the `node_commands` rows of one node, observations, heartbeat clock, revocation | `control.rs`, `observations.rs`, `nodes.rs` |
| `CommandJournal` | the agent's journal | `journal.rs` |
| `CommandChannel` | both joined by lossy requests; the agent's loops; crashes and restarts; all properties | `agent.rs`, `executor.rs`, `control_plane.rs`, `api.rs` |
| `SerialDelivery` | the abstract promise: no leases, clocks, journals or messages | - |
| `DeliveryInvariant` | the inductive invariant of `CommandChannel`, in two layers | - |
| `DeliveryInvariant_proofs` | its theorems and the refinement of `SerialDelivery` | - |
| `OutboxRelay` | the outbox rows, several relays, the projectors and the bus | `integration_events/`, `store_outbox` |
| `NodeInventory` | the agent's record, its two reporting loops, Fleet's snapshots | `resource_inventory.rs`, `control/inventory.rs` |
| `ResourceClaims` | claims of several deployments on one node, their flows, retirement, the agent's projection | `resource_claim.rs`, `deployment_flow/`, `replica_retirement_reconciliation.rs`, `journal.rs` |
| `LogShipping` | the log loop and the ingestion handler for one unit | `log_shipper.rs`, `outbound_batch.rs`, `handler.rs`, `telemetry.rs` |
| `LogHistory` | the recorded log under retention, compaction and a live stream | `log_retention.rs`, `log_compaction.rs`, `log_reader.rs`, `sequence_stream.rs` |
| `ConnectorAttempt` | one execution attempt and what each transaction on it answers | `connectors/` |
| `OutboundDelivery` | one notification, several consumers, provider calls, operator and revocation | `notifications/`, `outbound_dispatch.rs` |
| `GatewayRollout` | rollouts of one scope, the three reconcilers, the nodes' agents and Gateways | `edge/`, `gateway.rs`, `executor.rs`, `agent.rs` |
| `<module>_proofs` | inductive invariant and theorems of `OutboxRelay`, `NodeInventory`, `ResourceClaims`, `LogShipping`, `LogHistory`, `OutboundDelivery`, `GatewayRollout` | - |
| `MC...` | values of the TLC instances | - |

`map` in `PROJECT.json` gives the lines of every definition. The main correspondences of the
command channel:

* **Transactions are actions.** `Enqueue`, `LeaseCommands`, `Acknowledge` and
  `RecordObservations` are each one transaction that holds the row locks it needs. A handler
  reads its clock before the transaction commits, so it works with any of `RecentTimes`.
* **The journal is replaced atomically** (`state_file.rs` writes and syncs a temporary file,
  then renames it), so `BeginNew`, `BeginRedelivered`, `Complete` and `MarkAcknowledged` are
  each one step, and a crash leaves the result of the last one.
* **`agent.pc`** is where the command loop is between two of its effects: `sync` and
  `pending` are the first half of `synchronize_once` (deliver what the journal holds),
  `polling` the lease request, `batch` the loop over the leased commands, `begun` ...
  `completing` the parts of `execute` (deadline check, dispatch, second deadline check,
  completion), `deliver`, `reporting`, `acking` those of `deliver_completion`.
* **Deadlines.** `execute` reads the clock three times: before dispatch (`IsExpiredAt`, at
  the deadline is too late), after it (past the deadline is too late), and once more for
  `completed_at`. Time may pass between any two readings.
* **Errors.** HTTP 409 on an acknowledgement gives the round up (`ReceiveConflict`); a
  transport error is retried with a back-off (`GiveUp`); everything else, a journal conflict
  and an expired lease response included, ends the process (`Stop`), which a supervisor
  starts again (`Restart`).
* **Requests.** `net` holds requests on their way. One the agent stopped waiting for is
  marked abandoned: it is still handled, in any order, and its response goes nowhere. A
  request, or its response, may be lost. The agent waits for one request at a time in each
  task, so a set is enough.
* **Dispatch** stands for the Runtime behind the executor, which is external: it may succeed,
  or fail before or after the side effect. `performed` is a history of side effects run.

And of the other modules:

* **One transaction, one action** throughout; where the code makes two writes or two queries,
  there are two actions and anything may happen between them. In `ResourceClaims` the second
  write of the steps "enqueue, then record it" may be lost (`Unrecorded`); `LogShipping` splits the
  handler into object writes, transaction and cleanup, `LogHistory` the poll into its three
  queries, `OutboundDelivery` the dispatcher into reserve, begin, call, settle, receipt,
  acknowledge.
* **Compaction** is the one transaction that is not an action. `compact_log_tombstones` locks its
  tombstones with `for update skip locked`, takes no lock on the unit, and looks for neighbouring
  ranges statement by statement under READ COMMITTED, in every replica. `BeginCompact`,
  `LockRanges` (one `select ... for update`, which waits for rows another transaction holds and
  passes over those that are gone), `CommitCompact` and `AbortCompact` are its steps; what it
  deletes and inserts is visible to others from the commit on. `overlapped` is a history variable.
* **Optimistic versions** are not counted where a transaction checks the version it was
  planned with: the step is then taken from the current state or not at all.
* **Time.** `OutboxRelay` keeps what is left of a lease, delay or timeout, so its states do not
  grow with the clock. `OutboundDelivery` keeps `now`, which moves only when a process waits for
  it (`Wait`) or, a bounded number of times, under a process that does not run. In
  `ResourceClaims` and `GatewayRollout` expiry is an event that may happen at any time.
* **`NodeInventory.holder`** is the mutex of `ResourceInventoryManager`, which the code holds
  across the report; a call that times out may still reach Fleet later (`wire`).
* **`ResourceClaims.mailbox`** holds current commands in order. A superseded one has expired and
  is rejected without effect, so it leaves. A unit may run although its apply failed. A release
  may be answered with a time before the unit's fencing (`predates`), which neither the flow nor
  the retirement accepts (`RejectReleased`).
* **`LogShipping.source`** is the external Runtime: records can be rotated away, the log
  replaced (sequences start again), disconnected, or a read interrupted.
* **`GatewayRollout.gateways`** is the external Gateway: the revision it runs and the one it
  is applying. `install` may be refused, unanswered, answered against the protocol, or finish
  after the agent gave up.
  `overlapped` is a history variable that names the members of finding 9.

## 3. Runs

| Run | Question | Shows |
|---|---|---|
| `delivery` | an apply and the removal of its generation, agent's clock ahead, handlers with stale times, one fault anywhere | `SettlementAgreement`, `OneUnsettledCommand`, `RemovalIsFinal`, `DecidedIsNotRepeated`; the channel implements `SerialDelivery` (`DeliversSerially`); `ChannelInv`, the invariant of the proofs, holds |
| `recovery` | an apply and a recovery apply of a claimed replica, heartbeats and a revocation at any moment | of what Fleet delivers the journal refuses only an apply of the generation in force, and only when it or an apply before it is bound to a claim, which is finding 1 (`OnlyClaimedIsRefused`); `ObservedBeforeSettled`, `RevokedStaysStopped` |
| `settles` | fair schedules, faults end, an apply and a recovery apply without claims, both may expire on the way, one command per lease | neither is refused and every admitted command settles, except behind a success stamped past its deadline, finding 3 (`EveryCommandSettles`) |
| `claimed_recovery` | as `recovery` | **violation**, finding 1 |
| `outbox` | two relays, crash, stall, lost, slow or failed publication | `PublishedIsHandedOff`, `TimelyRelayHoldsLease`, `LeaseIsExclusive`, `EveryFactIsPublished` |
| `inventory` | two loops, three changes of capacity at any moment, kills and late calls | `ConfirmedIsStored`, `RefusedBatchWasOvertaken`, `HistoryIsImmutable`; `FleetLearnsCapacity`, unless the record skipped a generation past Fleet's head, finding 4 (`Skipped`) |
| `claims` | two deployments compete for an exclusive and a shared slot; expiry, late answers, cancellation, retirement at any moment, the write after either enqueue lost | `NoSharedUse`, which excepts units whose apply was never recorded as sent, finding 6 (`Stray`) |
| `claims_retired` | one deployment with three faults, otherwise the same | `AgentClaimsAreHeld`, which excepts a claim whose prepare was never recorded as sent, finding 5 (`Forgotten`); `RetirementCompletes`, which excepts a release whose answer is not taken, finding 7 (`AnswerMissed`) |
| `logs` | rotation, replacement, disconnection, interruption; each call may fail | `NoSilentLoss`, `CursorIsRecorded`, `BodiesAreStored`, `PendingIsDelivered` |
| `history` | a retention worker, two compactions at once, new batches, a stream | `HistoryIsWhole`, `NoSequenceReused`, `PollIsComplete`, `StreamCatchesUp` |
| `outbound` | two consumers, crash, redelivery, deadlines, revocation, an operator | `OneCallPerAttempt`, `RetriesFollowEvidence`, `RecordsAreTruthful`, `RevocationAndEvidenceHold`, `DeliveryIsSettled` |
| `gateway` | three rollouts over two Gateways, thresholds one and all, two faults | `InstalledIsPhysical`, `FailedSnapshotIsGone`, `RollbackIsInformed`, `RollbackEnds` |

The runs of the command channel, `outbox` and `inventory` check for deadlock as well. The others
turn it off because their systems really finish: every deployment done, every record shipped,
the notification acknowledged, no rollout left to stage.

**Bounds of the command channel.** `Drafts` are the commands that may be issued, each at most
once: two of one aggregate are what the fences, the order inside a batch and the removal
properties need. `MaxTime` bounds the clock so that a lease and a command lifetime run out
inside it; `LeaseDuration` is 1 or 2 ticks, below and at the lifetimes, so that a lease expires
before, with and after its command. `MaxFaults = 1` is spent on a crash, a lost request, a lost
response or a premature time-out at any step; an abandoned request can then be handled
arbitrarily late, and redelivery after a lease ran out needs no fault at all. `FaultHorizon` is
the time from which there are no faults; in the safety runs it lies past the clock's end, in
`settles` it leaves time for every lease given out before it to run out. The commands of
`settles` live two ticks of three, so that each can expire before it is leased, while it
executes and at its completion. `MaxLag` is how old a
handler's time may be. `MaxBatch` is 2 where the order inside a batch matters and 1 in
`settles`, so that more commands wait than a lease carries. `Events` switches heartbeats and
revocation on. The proofs of section 5 assume none of these bounds.

**Bounds of the others.** `outbox`: two relays and two facts are a race for one row and a queue
behind it; one restart, one fault and one stall each reach every step, and attempts saturate at
the backoff's maximum, so they need no bound. `inventory`: `MaxChanges = 3` lets the same slot
list come back under a new generation, and two changes fall between two reports. `claims`: two
deployments that fit one at a time and are alike, so they may be exchanged (symmetry); one fault,
because the lost writes, cancellations and retirements that leave a claim behind for the other one
to meet are not faults; `claims_retired` has one deployment and three faults, which is enough
expiries to make a second generation of a removal expire too. `logs`: three records and batches of
two make a batch that is not full and one that is; one event and one fault meet at every pair of
steps. `history`: three sequences are two tombstones that two transactions fold at once and a
third that is neighbour to both; a page of one makes the stream stop inside each. It has one
retention worker; any number of them is a matter of the theorem `WholeHistory`. `outbound`: a
budget of two attempts is a retry and an exhaustion; leases, windows and `Retry-After` are one
tick. `gateway`: three rollouts are one to fall back to, one that fails and its rollback (or the
next rollout), and two faults are an expiry and a late finish of the same install.

**Fairness.** Command channel: weak fairness of the agent's steps (`run` loops for ever, the
supervisor restarts it, dispatch is bounded by the Runtime's own deadlines), of handling a
request, and of the clock; losses are bounded in number and end at `FaultHorizon`; none for
`Enqueue`, heartbeats or revocation. `OutboxRelay`: the poll loop of each relay, the clock and
the bus. `NodeInventory`: Fleet's handling of requests, and *strong* fairness of each loop,
because a loop waits for a mutex that the other one takes again and again; tokio's mutex queues
its waiters. `ResourceClaims`: the flow worker, the retirement and release reconcilers and the
agent each run on an interval for ever. `LogShipping`, `LogHistory`: the loop, each handler
execution and the stream's poll; none for the source, for batches, for retention or for
compaction. `OutboundDelivery`: consumers run, the subscription redelivers, and *strong*
fairness of the clock, which is enabled only while all processes wait. `GatewayRollout`: one weak
fairness of `Progress` (reconcilers, agents, a Gateway that ends what it started, install deadlines)
taken together, since none of these can act for ever; none for staging a rollout or for faults.

**Refinement.** `DeliversSerially` maps `issued` to the commands of the rows, `decided` to the
outcomes of the completed journal entries, `settled` to those of the acknowledged rows and
`effects` to `performed`. `SerialDelivery` says that only the first undecided command is
attempted, after all before it are settled; that it is never attempted after it was decided;
that a success is decided only after an attempt; and that what is settled is what was decided.

Each property of a passing run has a mutant in `PROJECT.json`, a plausible bug in one mapped
definition that violates it: an acknowledgement accepted under any lease, a batch that skips
held rows, a lease no longer than the publish timeout, a failed apply that nobody stops, a cursor
committed without a receipt, a dispatch reserved again after its deadline, a rollback planned
when members were asked but have not answered, and so on. The mutants are kept beside the
definitions they change.

## 4. Findings

Finding 1 is the run `claimed_recovery`. The others are reproduced by the named configuration,
which TLC refutes (`tlc -config <name>.cfg MC<module>`). No property passes because a bound or a
constant leaves such a case out: where a finding contradicts one of the properties, the property names
the case as an exception, and the configuration refutes the same formula without it:

| Configuration | Refutes | Property with the exception |
|---|---|---|
| `late_success` | `EveryAdmittedCommandSettles` | `EveryCommandSettles` (`LateSuccess`) |
| `inventory_wedge` | `EveryCapacityIsLearned` | `FleetLearnsCapacity` (`Skipped`) |
| `claims_cancelled_prepare` | `EveryPreparedClaimIsHeld` | `AgentClaimsAreHeld` (`Forgotten`) |
| `claims_lost_dispatch` | `NoUnitsShareSlots` | `NoSharedUse` (`Stray`) |
| `claims_late_answer` | `EveryRetirementCompletes` | `RetirementCompletes` (`AnswerMissed`) |
| `history_fold`, `history_touching` | `EveryPollIsComplete`, `RangesCoalesce` | `PollIsComplete` (`FoldedAway`), `RangesAreApart` (`overlapped`) |
| `gateway_stale_observation`, `gateway_diverged` | `ObservationIsCurrent`, `EveryMemberIsInformed` | `InstalledIsPhysical` (`overlapped`), `RollbackIsInformed` (`Diverged`) |
| `gateway_stuck_rollback` | `RollbackAlwaysEnds` | `RollbackEnds` (`Refused`, `overlapped`, a diverged recovery) |
| `outbound_resolved` | `ResolvedIsSettled` | `DeliveryIsSettled` (`ResolvedByOperator`) |

`expired_after_effect`, `history_skip` and `outbound_receipt` refute statements of their own. An
exception says that the property does not catch the case, not that the case is harmless.

1. **A recovery apply bound to a resource claim ends the agent for good** (`claimed_recovery`,
   `MCCommandChannel`). `journal.rs` `state_mutation_digest` digests the specification of an
   unclaimed apply but the whole payload, request identity and deadline included, of a claimed
   one. Fleet's `enqueue` compares specifications only, so it admits a recovery of the same
   generation that the journal then refuses as conflicting. The refusal is not retryable; the
   command stays first in line and ends the agent after every restart. The test
   `same_generation_recovery_apply_allows_a_new_request_for_the_same_spec`
   (`journal_tests.rs:422`) states the opposite, with `resource_claim: None` only. The run
   `settles` shows that without claims the recovery is executed and settled.
2. **A command that ran is settled as never dispatched** (`expired_after_effect`,
   `MCCommandChannel`). After a crash between the effect and `journal.complete` the command is
   begun again; if the deadline has passed it is rejected with "command expired before Runtime
   dispatch" (`executor.rs:120`). `docs/architecture.md:2337` promises that a restart adopts the
   unit and settles the receipt.
3. **A success can be stamped too late to be accepted** (`late_success`, `MCCommandChannel`).
   `execute` judges the deadline with one clock reading and takes `completed_at` from a later one
   (`executor.rs:136`). If the deadline falls between them, a success is journaled whose
   acknowledgement Fleet refuses on every delivery, and every later command of the node waits
   behind it. `docs/architecture.md:2336` says redelivery resolves lost acknowledgements.
4. **An inventory two generations ahead is never accepted** (`inventory_wedge`,
   `MCNodeInventory`). `prepare_sync` persists a new generation before it is reported
   (`resource_inventory.rs:132`). If that report fails and capacity changes again, the record is
   two past Fleet's head and every report is answered "resource inventory generation did not
   advance exactly once" (`control/inventory.rs:140`); the agent has no way back, and
   `docs/inference-plan.md:606` and `:609` rely on the report.
5. **A deployment cancelled between the prepare's two writes leaks the agent's claim**
   (`claims_cancelled_prepare`, `MCResourceClaims`). The step enqueues the command before
   `begin_preparation` (`steps/resource_claims.rs:141`); a cancellation that finds
   `reserved_in_db` releases the slots in the database only, while the agent prepares them.
   `docs/domain-model.md:1325`: "Database-only cancellation is valid only for a claim that never
   advanced beyond `reserved_in_db`."
6. **A unit can start on slots given away** (`claims_lost_dispatch`, `MCResourceClaims`). The
   write that records the dispatched apply (`steps.rs:1133`) may be lost after the enqueue; a
   cancellation then sees no dispatched unit and releases the claim without removing one
   (`docs/architecture.md:1627`). A second way came out of the proof: with no write lost, a
   replica that is retired under its own deployment may have its removal done first; the flow's
   apply then comes behind it, `mark_dispatched` refuses, the apply fails with the unit running,
   and the evidence of the earlier removal releases the claim.
7. **An answer read after the deadline blocks a retirement** (`claims_late_answer`,
   `MCResourceClaims`). `resource_claims.rs:410` looks at the command's deadline before its
   acknowledgement, so a success that is read late counts as expired; the agent then refuses the
   next generation because its projection has moved on (`journal.rs:893`), against
   `docs/domain-model.md:1322`. A release whose time lies before the unit's fencing, by the
   agent's clock, ends the same way (`steps/resource_claims.rs:470`,
   `replica_retirement_reconciliation.rs:650`). `RetirementCompletes` has one more exception, the
   retirement of a replica whose deployment is still under way
   (`replica_retirement_reconciliation.rs:309`, `journal.rs:898`).
8. **Logs.** `PendingIsDelivered` excepts a source that was out of reach and came back with its
   old records: what the agent then stages is refused with 409 for ever (`log_shipper.rs:289`,
   `telemetry.rs:565`, against `docs/development-plan.md:1388`). `BodiesAreStored` excepts
   executions whose answer or transaction outcome was lost: the cleanup removes objects by key and
   may remove a body that a recorded row refers to (`handler.rs:172`, against
   `docs/development-plan.md:1312`). `history_skip`
   (`MCLogHistory`): a record that commits between the queries of a poll, below what the
   later query returns, is passed over by the live stream (`log_reader.rs:94`, against
   `docs/architecture.md:2277`). `history_fold` (`MCLogHistory`) came out of the proof of
   `PollIsComplete`: if the first query of a poll is cut off at its limit and compaction folds
   rows it returned before the third query, the page has room again, and is filled with gaps
   and ranges that lie behind rows the first query left out; the cursor then moves past those
   (`log_reader.rs:94` to `:125`). The live stream reads 16 records at a time
   (`docs/development-plan.md:1304`). `PollIsComplete` excepts such folds (`FoldedAway`); pages
   of one record, as in `history`, cannot meet them. `history_touching` (`MCLogHistory`): two
   compactions that run at once over neighbouring tombstones do not see each other's ranges
   (`telemetry.rs:1010`, `:1107`), and the two touching ranges they leave stay until a later
   tombstone beside them is compacted; `docs/domain-model.md:3993` says adjacent ranges are
   coalesced. Nothing is lost or covered twice by them.
9. **A stale observation moves a Gateway scope back** (`gateway_stale_observation`,
   `MCGatewayRollout`). A new snapshot can be staged and acknowledged while an observation of the
   same member is outstanding; its outcome is then recorded as the installed revision
   (`recovery.rs:167`, `postgres_rollouts.rs:786`) without a look at the newer one, and later
   publications name the wrong predecessor.
10. **A rollback can stay required for ever** (`gateway_stuck_rollback`, `MCGatewayRollout`), in
    three ways: an observation that the node itself rejects as expired, or whose answer from the
    Gateway breaks the protocol, is a final failure (`executor.rs:120`, `gateway.rs:55`), unlike
    one the reconciler sees expire, and the rollback is not diverged with it; a Gateway
    acknowledgement that arrives after the member was marked unavailable is a conflict
    (`gateway_publication.rs:140`) that ends the agent at every restart (`agent.rs:518`); and an
    unknown revision without a waiting rollback is an invariant error that leaves the recovery
    observing (`postgres_rollouts.rs:834`).
11. **A rollback over a member nobody knows** (`gateway_diverged`, `MCGatewayRollout`), which
    came out of the proof of `RollbackIsInformed`. A member's recovery may be given up in a
    rollout that reached its threshold without it. When a later rollout fails, its rollback looks
    only at the members of the rollout that failed; it is staged over the revision the scope
    still has for the earlier member, which may run another one
    (`gateway_rollout_reconciler.rs:86`). `docs/development-plan.md:6202` says the compensation
    is staged "from that exact evidence". The property excepts such members (`Diverged`).
12. **An operator can be faster than the receipt** (`outbound_resolved`, `MCOutboundDelivery`).
    The constraint on terminal receipts (`migrations/138_notification_outbound_smtp.sql:594`)
    does not admit the receipt of an attempt the operator resolved, so the delivery is redelivered
    without end, against `docs/domain-model.md:2271`. `outbound_receipt`: a consumer that read
    the previous evidence before another one stored an indeterminate receipt may still call the
    provider in the next generation (`outbound_dispatch.rs:212`, against
    `docs/domain-model.md:2460`).

## 5. Proofs

Eight modules hold theorems. Each names an inductive invariant `I` and shows `Init => I`,
`I /\ [Next]_vars => I'` with a lemma per action, and `I => P` for each safety property `P`;
action properties are shown of a step from a state with `I`. Nothing bounds the number of
commands, nodes, relays, records, faults or ticks. What is assumed of the constants is in the
named `ASSUME`s: bounds are naturals, sizes and durations positive, sets that are counted
finite, the "no value" constant differs from the values. The ones with content are
`DraftsAssumption` (a command has a known kind, a positive lifetime and generation, as its
constructor requires), `RelayConfigAssumption` (the lease is longer than the publish timeout, as
`OutboxRelayConfig` requires), `ClaimAssumption` (a claim asks for at most the capacity) and
`GatewayRolloutAssumption` (a threshold is between one and the number of members).

| Module | Theorem | Statement |
|---|---|---|
| `DeliveryInvariant_proofs` | `DeliveryInvariance`, `ChannelInvariance` | `[]DeliveryInv`, `[]ChannelInv` |
| | `TypeCorrectness`, `Agreement`, `SerialJournal` | `[]ChannelTypeOK`, `[]SettlementAgreement`, `[]OneUnsettledCommand` |
| | `NoRepeatedEffect`, `RevocationHolds` | `DecidedIsNotRepeated`, `RevokedStaysStopped` (action properties) |
| | `FinalRemoval`, `ObservationFirst`, `RefusedOverClaim` | `[]RemovalIsFinal`, `[]ObservedBeforeSettled`, `[]OnlyClaimedIsRefused` |
| | `SerialRefinement` | `DeliversSerially`: `CommandChannel` implements `SerialDelivery` |
| `OutboxRelay_proofs` | `RelayInvariance`, `HandedOff`, `LeaseOutlastsPublish`, `ExclusiveLease` | `[]RelayInv`, `[]PublishedIsHandedOff`, `[]TimelyRelayHoldsLease`, `LeaseIsExclusive` |
| `NodeInventory_proofs` | `InventoryInvariance`, `ConfirmedStored`, `BatchOvertaken`, `ImmutableHistory` | `[]InventoryInv`, `[]ConfirmedIsStored`, `[]RefusedBatchWasOvertaken`, `HistoryIsImmutable` |
| `ResourceClaims_proofs` | `TypeCorrectness` | `[]TypeOK` |
| | `ClaimsInvariance`, `NoSharing` | `[]ClaimsInv`, `[]NoSharedUse` |
| | `HeldInvariance`, `PreparedIsHeld` | `[]HeldClaimsInv`, `[]AgentClaimsAreHeld` |
| `LogShipping_proofs` | `ShippingInvariance`, `WholeDelivery`, `RecordedCursor`, `StoredBodies` | `[]ShippingInv`, `[]NoSilentLoss`, `[]CursorIsRecorded`, `[]BodiesAreStored` |
| `LogHistory_proofs` | `LogInvariance`, `WholeHistory`, `FreshSequences`, `CompletePolls` | `[]LogInv`, `[]HistoryIsWhole`, `NoSequenceReused`, `PollIsComplete` |
| `OutboundDelivery_proofs` | `AttemptInvariance`, `CalledOnce`, `RetriesHaveEvidence`, `TruthfulRecords`, `FinalRecords` | `[]AttemptInv`, `[]OneCallPerAttempt`, `[]RetriesFollowEvidence`, `[]RecordsAreTruthful`, `RevocationAndEvidenceHold` |
| `GatewayRollout_proofs` | `RolloutInvariance`, `PhysicalScope`, `FailedIsGone`, `InformedRollback` | `[]RolloutInv`, `[]InstalledIsPhysical`, `[]FailedSnapshotIsGone`, `RollbackIsInformed` |

**Command channel.** `SettlementAgreement` alone is not inductive: a late acknowledgement could
be stored after the journal rebound its command to a newer lease, and would then differ from
what the journal says. `DeliveryInv`, the first layer, adds what rules that out.

* `NetInv`: every acknowledgement in flight, abandoned ones included, is the journal's, under
  the current or an older lease. `RowsInv` and `EntriesInv`: lease identities only grow, and
  the journal never knows one newer than the row's. So an acknowledgement that fits the row
  is the journal's current one (`AcceptedIsCurrent`).
* `BatchInv`: commands handed over and not yet begun are unsettled and under a lease newer
  than the journal's, so nothing in flight can settle them.
* `NeedsRedelivery`, `ReplyInv`, `RoundInv`: a round polls only when each unsettled command is
  one whose acknowledgement Fleet refuses; then leasing starts with that command
  (`LeaseHandsOver`, where the batch being a prefix of the candidates is used), so no second
  command can be journaled before it. This is what makes `OneUnsettledCommand` inductive.
* `CurrentInv` and `AwaitingInv` tie the loop's phase to the last journal entry and to the
  request it waits for.

`OrderInv`, the second layer, is about order and rests on the first.

* `EffectsInv`: effects run in the order of the journal, and a success in hand was run last.
  `AdmittedInv`: `enqueue` admits no apply behind a removal of its generation, and no other
  specification of the same generation. Together they give `RemovalIsFinal`, the one from the
  node's side and the other from Fleet's.
* `FencesInv`: the journal's fence of an aggregate is that of an apply it holds; with
  `AdmittedInv`, a conflict can only come from the digest of a claimed apply (finding 1).
* `ReportsInv`: an acknowledgement that relies on an observation is sent only after Fleet
  stored it, so every one in flight or stored has its observation.
* `NoGap`: a batch that is handed over starts where the journal ends, so the journal's check of
  the next sequence never refuses one.

`SerialRefinement` maps `issued`, `decided`, `settled` and `effects` as in section 3. Enqueue is an
abstract issue, dispatch an attempt, `complete` a decision, an accepted acknowledgement a
settlement; everything else stutters. `ChannelInv` supplies the guards, mainly that only the
first undecided command is run and that the outcome settled is the one decided.

**Outbox.** `LineInv`: the queue of `claim` is exactly the unpublished rows, each once.
`HandInv` and `WireInv`: what a relay was told is on the bus is there, and what is on its way
was projected. `LeaseInv`: while nothing stalls, the lease left is longer than the publish
timer left, which is where `LeaseDuration > PublishTimeout` is used.

**Inventory.** Everything known of a generation came from the agent's record (`KnownInv`); the
head is the latest snapshot stored (`FleetInv`); a loop that sends a batch has had its inventory
stored (`LoopInv`). A refusal then needs a newer head. `FileInv` bounds the generations by the
changes of the host, which keeps the model's bounded tables wide enough.

**Claims.** `UnitsInv` goes back from a release to the evidence that the unit is gone. An apply
is recorded only while nobody has asked for the unit's end; once it is recorded, a stop or
removal is posted after it (`Before`, the order of the mailbox), its success proves that the unit
is gone for good, and a release needs that proof. An apply that was never recorded leaves a stray
once the release is asked for, and only then. `ActiveInv`: what runs was prepared by the agent or is
a stray, and what is prepared fits the capacity together. `HeldInv` goes from a prepared claim to
the database: a prepare is sent only for a reservation and goes before the release, and a claim
that was given up is no longer prepared unless its prepare was never recorded. There are no
hypotheses: the lost writes of findings 5 and 6 and the retirement under a live deployment are
steps of `Spec`, and `Stray` and `Forgotten` in the formulas say exactly which units and claims
they cost.

**Log shipping.** `HistoryInv`: rows are in the order of the records, and the source no longer
holds a record that the history passed over. `LoopInv`: the pending batch continues at the
cursor or is a gap one past it, and a recorded row beyond the cursor is in the pending batch.
`BodyInv`, as long as no answer and no transaction outcome was lost: there is one
execution, and what it may still remove is not recorded. What rebasing does to the sequences of
a batch is proved by looking at the first record for which it would be wrong.

**Log history.** `OnePlace`: every sequence ever recorded is in exactly one table.
`SweepInv`: a worker marks only rows whose body it removed. `PollInv` follows a poll through its
queries: what a query left out lies behind a full answer (`CutOff`). `CompactInv` says what an
open compaction may count on while others are open: its tombstones and the ranges it locked are
its own (`OwnLocks`) and still there, and its runs and inserted ranges together cover exactly
these and are separate (`Sound`). So two commits never cover a sequence twice, although neither
saw the other. `Alone` adds, as long as no two were ever open at once, that a transaction
sees every range, from which it follows that ranges do not touch.

**Outbound.** Tokens make fences unique: while a row carries the fence of a process nobody else
has moved it. A dispatching row is never reserved again, so the process about to call, or one
that has called, still finds its fence on the row, unless the row ended indeterminate
(`ProcessOK`). `RowOK` ties evidence to a call that was made, `GenerationOK` a generation to the
evidence of those before it, `ReceiptOK` the receipt to the row.

**Gateway.** `MailboxOK` and `AnswerOK`: an installation comes after all commands of earlier
rollouts, and a member that applied a snapshot never runs an older one. `AgentOK` and
`OutcomesOK`: a result of the last rollout tells what the Gateway runs now. `PhysicalOK`: for a
member that neither overlapped (finding 9) nor was given up (finding 11), Edge's picture is what
runs, or an installation over it is under way.

**Only model-checked.** Liveness under fairness, which this prover does not reach:
`EveryCommandSettles`, `EveryFactIsPublished`, `FleetLearnsCapacity`, `RetirementCompletes`,
`PendingIsDelivered`, `StreamCatchesUp`, `DeliveryIsSettled`, `RollbackEnds`; and the absence of
deadlock, where it is checked. The findings are counterexamples of TLC.

## 6. Not modelled

* **On the delivery path:** command kinds other than the Runtime's four, resource claims and
  Gateway snapshots; Agent events; drain, ready and availability of nodes; clocks stepping
  backwards (except in `NodeInventory`); heartbeats timing out early; canonical timestamps. The
  Runtime, Gateway and plugin hosts behind `dispatch` are external. Lease identities are fresh
  UUIDs in the code and increasing numbers here; no definition of the system compares them
  except for equality.
* **Outbox:** what projectors compute; the order of facts across aggregates, which the code does
  not promise.
* **Inventory and claims:** how devices are detected, how placement chooses a node, several
  nodes, placement groups and trusted node fencing.
* **Logs:** bodies, checksums, the byte bound of a batch, stdout/stderr filters; the two other
  shippers that use `outbound_batch.rs`.
* **Outbound:** the content of a message, egress policy, Secrets, SMTP.
* **Gateway:** routes, certificates and the compiler, changes of a scope's members, managed MCP.
* **Whole contexts** are listed as `not_modelled` in `PROJECT.json` with the reason. They make up
  most of the repository: HTTP and MCP presentation, configuration, SQL mapping, in-memory test
  doubles, schemas and conformance programs hold no protocol of their own, and a model of them
  would only restate them. Of the contexts that do hold one, the next are in the plan.

## 7. Plan

1. Node availability and replica recovery: offline detection, trusted fencing, the reconciler's
   recovery applies, over `SerialDelivery` rather than `CommandChannel`.
2. Operations and their reconciler; enrollment and certificate rotation; writer fences of
   durable cells; the event shippers.
3. Proofs: every safety property of the present modules has its theorem. What is left is to
   narrow exceptions: `StoredBodies` for lost answers that the loop does not retry, and
   `InformedRollback` for members given up in a rollout that was itself replaced. New modules get
   their invariant from the start.
