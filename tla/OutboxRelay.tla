---------------------------- MODULE OutboxRelay ----------------------------
(***************************************************************************)
(* The transactional outbox and the relays that drain it                   *)
(* (modules/integration_events).  Every control-plane process runs one     *)
(* relay.  A relay claims one unpublished fact under a lease, runs the     *)
(* projectors on it, publishes it to the event bus within a timeout and    *)
(* then settles the row: mark_published, or mark_failed with a backoff.    *)
(* Each repository call is one database statement or transaction; between  *)
(* two of them the other relays, the clock, the bus and a crash of the     *)
(* process may interleave.                                                 *)
(*                                                                         *)
(* Times are kept relative to now: what is left of a lease, of a retry     *)
(* delay, of a publish timeout.  `line` is the order in which claim looks  *)
(* at the rows (next_attempt_at, occurred_at, event_id).                   *)
(***************************************************************************)
EXTENDS Naturals, SequencesExt

CONSTANTS
  Events,           \* the facts that transactions commit
  Relays,           \* the control-plane processes
  Projectors,       \* with_projector, in a fixed order of their own
  BatchSize, LeaseDuration, PublishTimeout, InitialBackoff, MaximumBackoff,
  MaxRestarts,      \* bound: process crashes
  MaxFaults,        \* bound: failed, lost or slow projections, publications and settlements
  MaxStalls,        \* bound: ticks during which a runnable relay does not run
  Null

\* OutboxRelayConfig::validate
ASSUME RelayConfigAssumption ==
  /\ BatchSize \in Nat \ {0}
  /\ {LeaseDuration, PublishTimeout, InitialBackoff, MaximumBackoff} \subseteq Nat \ {0}
  /\ LeaseDuration > PublishTimeout
  /\ MaximumBackoff >= InitialBackoff
  /\ {MaxRestarts, MaxFaults, MaxStalls} \subseteq Nat
  /\ Null \notin Relays \X Nat /\ Null \notin Events

VARIABLES
  rows,       \* outbox_events; Null until the fact is committed
  line,       \* unpublished rows by next_attempt_at, occurred_at, event_id
  relays,     \* the volatile state of each relay
  projected,  \* what each projector has applied
  wire,       \* publications on their way to the bus
  bus,        \* facts the event bus has stored
  restarts, faults, stalls

vars == <<rows, line, relays, projected, wire, bus, restarts, faults, stalls>>

\* retry_delay: doubled with each attempt, at most 20 times, up to the maximum
RetryDelay(attempts) ==
  LET exponent == IF attempts > 21 THEN 20 ELSE IF attempts = 0 THEN 0 ELSE attempts - 1
      delay == InitialBackoff * 2 ^ exponent
  IN  IF delay \in 1 .. MaximumBackoff THEN delay ELSE MaximumBackoff

\* Attempts beyond this one do not lengthen the delay (2 ^ (n - 1) >= n), so
\* the counter is not followed further
Saturated == IF MaximumBackoff < 21 THEN MaximumBackoff ELSE 21
NextAttempt(n) == IF n < Saturated THEN n + 1 ELSE Saturated

\* A relay that restarts has a fresh Uuid for its owner identity
Owner(r) == <<r, relays[r].incarnation>>
Owners == Relays \X (0 .. MaxRestarts)

Row == [attempts : 0 .. Saturated, owner : Owners \cup {Null}, lease : 0 .. LeaseDuration,
        delay : 0 .. MaximumBackoff, published : BOOLEAN]
ASSUME NullAssumption == Null \notin Row

Phase == {"idle", "claimed", "delivering", "publishing", "delivered", "failed"}
Relay == [phase : Phase, event : Events \cup {Null}, attempts : 0 .. Saturated,
          timer : 0 .. PublishTimeout, claimed : 0 .. BatchSize, incarnation : 0 .. MaxRestarts]

TypeOK ==
  /\ rows \in [Events -> Row \cup {Null}]
  /\ line \in Seq(Events)
  /\ relays \in [Relays -> Relay]
  /\ projected \in [Projectors -> SUBSET Events]
  /\ wire \subseteq Events \X Owners
  /\ bus \subseteq Events
  /\ restarts \in 0 .. MaxRestarts /\ faults \in 0 .. MaxFaults /\ stalls \in 0 .. MaxStalls

Idle(incarnation) ==
  [phase |-> "idle", event |-> Null, attempts |-> 0, timer |-> 0, claimed |-> 0,
   incarnation |-> incarnation]

Init ==
  /\ rows = [e \in Events |-> Null]
  /\ line = <<>>
  /\ relays = [r \in Relays |-> Idle(0)]
  /\ projected = [p \in Projectors |-> {}]
  /\ wire = {} /\ bus = {}
  /\ restarts = 0 /\ faults = 0 /\ stalls = 0

Committed(e) == rows[e] # Null
Published(e) == Committed(e) /\ rows[e].published
\* lease_owner = owner and published_at is null and leased_until > clock_timestamp()
HoldsLease(e, owner) ==
  rows[e].owner = owner /\ ~rows[e].published /\ rows[e].lease > 0

\* A row with the given delay comes after every row due no later than it
Enqueued(queue, e, delay) ==
  LET before == Cardinality({ i \in DOMAIN queue : rows[queue[i]].delay <= delay })
  IN  InsertAt(queue, before + 1, e)

\* A row leaves the queue
Withdrawn(queue, e) == RemoveAt(queue, CHOOSE i \in DOMAIN queue : queue[i] = e)

Fault == faults < MaxFaults /\ faults' = faults + 1
Become(r, state) == relays' = [relays EXCEPT ![r] = state]
At(r, phase) == relays[r].phase = phase

\* store_outbox, in the transaction of the command that raises the fact
Commit(e) ==
  /\ ~Committed(e)
  /\ rows' = [rows EXCEPT ![e] =
       [attempts |-> 0, owner |-> Null, lease |-> 0, delay |-> 0, published |-> FALSE]]
  /\ line' = Enqueued(line, e, 0)
  /\ UNCHANGED <<relays, projected, wire, bus, restarts, faults, stalls>>

(***************************************************************************)
(* claim, from run_once: the first row that is due and under no current    *)
(* lease, whoever held it last.                                            *)
(***************************************************************************)
\* Mutant: an expired lease is not taken over
NeverLeased(e) == rows[e].delay = 0 /\ rows[e].owner = Null
Claimable(e) == rows[e].delay = 0 /\ rows[e].lease = 0

\* Mutant: the lease covers no more than the publish timeout
ShortLease == PublishTimeout
ClaimLease == LeaseDuration

\* A poll turn has a budget of claims
MayClaim(r) == At(r, "idle") /\ relays[r].claimed < BatchSize

Claim(r) ==
  /\ MayClaim(r)
  /\ \E i \in DOMAIN line :
       LET e == line[i] IN
       /\ Claimable(e)
       /\ \A j \in 1 .. i - 1 : ~Claimable(line[j])
       /\ rows' = [rows EXCEPT ![e].owner = Owner(r), ![e].lease = ClaimLease,
                               ![e].attempts = NextAttempt(@)]
       /\ Become(r, [relays[r] EXCEPT !.phase = "claimed", !.event = e,
                                      !.attempts = NextAttempt(rows[e].attempts),
                                      !.claimed = @ + 1])
  /\ UNCHANGED <<line, projected, wire, bus, restarts, faults, stalls>>

\* The poll turn ends (nothing to claim, or the batch is spent); the ticker
\* starts the next one with a fresh budget
EndTurn(r) ==
  /\ At(r, "idle") /\ relays[r].claimed > 0
  /\ relays[r].claimed = BatchSize \/ ~\E i \in DOMAIN line : Claimable(line[i])
  /\ Become(r, Idle(relays[r].incarnation))
  /\ UNCHANGED <<rows, line, projected, wire, bus, restarts, faults, stalls>>

\* deliver_claimed arms the publish timeout after claim has returned
Begin(r) ==
  /\ At(r, "claimed")
  /\ Become(r, [relays[r] EXCEPT !.phase = "delivering", !.timer = PublishTimeout])
  /\ UNCHANGED <<rows, line, projected, wire, bus, restarts, faults, stalls>>

\* One projector applies the fact; a projector that has it already is a no-op
Project(r, p) ==
  /\ At(r, "delivering") /\ relays[r].event \notin projected[p]
  /\ projected' = [projected EXCEPT ![p] = @ \cup {relays[r].event}]
  /\ UNCHANGED <<rows, line, relays, wire, bus, restarts, faults, stalls>>

\* Publication waits for the projectors
ReadyToPublish(r) ==
  At(r, "delivering") /\ \A p \in Projectors : relays[r].event \in projected[p]

\* publisher.publish sends the fact with its event id as the message id
Publish(r) ==
  /\ ReadyToPublish(r)
  /\ wire' = wire \cup {<<relays[r].event, Owner(r)>>}
  /\ Become(r, [relays[r] EXCEPT !.phase = "publishing"])
  /\ UNCHANGED <<rows, line, projected, bus, restarts, faults, stalls>>

\* The bus stores a message, or its de-duplication by message id drops it;
\* this may be long after the sender gave up waiting
BusStores ==
  /\ \E m \in wire : wire' = wire \ {m} /\ bus' = bus \cup {m[1]}
  /\ UNCHANGED <<rows, line, relays, projected, restarts, faults, stalls>>

BusLoses ==
  /\ Fault
  /\ \E m \in wire : wire' = wire \ {m}
  /\ UNCHANGED <<rows, line, relays, projected, bus, restarts, stalls>>

\* The bus confirms what it has stored
Delivered(r) ==
  /\ At(r, "publishing") /\ relays[r].event \in bus /\ <<relays[r].event, Owner(r)>> \notin wire
  /\ Become(r, [relays[r] EXCEPT !.phase = "delivered"])
  /\ UNCHANGED <<rows, line, projected, wire, bus, restarts, faults, stalls>>

\* A projector or the publisher returns an error
DeliveryFails(r) ==
  /\ relays[r].phase \in {"delivering", "publishing"} /\ Fault
  /\ Become(r, [relays[r] EXCEPT !.phase = "failed"])
  /\ UNCHANGED <<rows, line, projected, wire, bus, restarts, stalls>>

\* Mutant: a publication that timed out is taken for delivered
TimeoutIsSuccess == "delivered"
TimeoutOutcome == "failed"

DeliveryTimesOut(r) ==
  /\ relays[r].phase \in {"delivering", "publishing"} /\ relays[r].timer = 0
  /\ Become(r, [relays[r] EXCEPT !.phase = TimeoutOutcome])
  /\ UNCHANGED <<rows, line, projected, wire, bus, restarts, faults, stalls>>

\* mark_published, settled only under the caller's current lease; otherwise
\* the relay goes on to mark_failed
MarkPublished(r) ==
  LET e == relays[r].event IN
  /\ At(r, "delivered")
  /\ IF HoldsLease(e, Owner(r))
       THEN /\ rows' = [rows EXCEPT ![e].published = TRUE, ![e].owner = Null, ![e].lease = 0]
            /\ line' = Withdrawn(line, e)
            /\ Become(r, [relays[r] EXCEPT !.phase = "idle", !.event = Null, !.timer = 0])
       ELSE /\ Become(r, [relays[r] EXCEPT !.phase = "failed"])
            /\ UNCHANGED <<rows, line>>
  /\ UNCHANGED <<projected, wire, bus, restarts, faults, stalls>>

\* Mutant: mark_failed settles whoever holds the row
AnyoneFails(e, owner) == ~rows[e].published
MayFail(e, owner) == HoldsLease(e, owner)

\* mark_failed; whether it settles the row or not, the turn ends here
MarkFailed(r) ==
  LET e == relays[r].event
      delay == RetryDelay(relays[r].attempts) IN
  /\ At(r, "failed")
  /\ IF MayFail(e, Owner(r))
       THEN /\ rows' = [rows EXCEPT ![e].delay = delay, ![e].owner = Null, ![e].lease = 0]
            /\ line' = Enqueued(Withdrawn(line, e), e, delay)
       ELSE UNCHANGED <<rows, line>>
  /\ Become(r, Idle(relays[r].incarnation))
  /\ UNCHANGED <<projected, wire, bus, restarts, faults, stalls>>

\* The database cannot be reached for a settlement: mark_published falls
\* through to mark_failed, mark_failed leaves the row to its lease
SettlementFails(r) ==
  /\ Fault
  /\ \/ At(r, "delivered") /\ Become(r, [relays[r] EXCEPT !.phase = "failed"])
     \/ At(r, "failed") /\ Become(r, Idle(relays[r].incarnation))
  /\ UNCHANGED <<rows, line, projected, wire, bus, restarts, stalls>>

Crash(r) ==
  /\ restarts < MaxRestarts
  /\ restarts' = restarts + 1
  /\ Become(r, Idle(relays[r].incarnation + 1))
  /\ UNCHANGED <<rows, line, projected, wire, bus, faults, stalls>>

\* A relay that has something to do other than wait for a projector or the bus
Runnable(r) ==
  \/ relays[r].phase \in {"claimed", "delivered", "failed"}
  \/ relays[r].phase \in {"delivering", "publishing"} /\ relays[r].timer = 0
\* ... and one whose wait is going to end
Lost(r) == At(r, "publishing") /\ relays[r].event \notin bus /\ <<relays[r].event, Owner(r)>> \notin wire
Waiting(r) ==
  relays[r].phase \in {"delivering", "publishing"} /\ relays[r].timer > 0 /\ ~Lost(r)

\* Time passes.  A runnable relay normally runs before a tick is over; a
\* process that is starved or suspended lets ticks pass (a stall).  A tick
\* while a delivery waits is a slow projector or bus (a fault).
Tick ==
  /\ IF \E r \in Relays : Runnable(r)
       THEN stalls < MaxStalls /\ stalls' = stalls + 1
       ELSE UNCHANGED stalls
  /\ IF \E r \in Relays : Waiting(r) THEN Fault ELSE UNCHANGED faults
  /\ rows' = [e \in Events |->
       IF Committed(e) THEN [rows[e] EXCEPT !.lease = IF @ > 0 THEN @ - 1 ELSE 0,
                                            !.delay = IF @ > 0 THEN @ - 1 ELSE 0]
                       ELSE Null]
  /\ relays' = [r \in Relays |-> [relays[r] EXCEPT !.timer = IF @ > 0 THEN @ - 1 ELSE 0]]
  /\ UNCHANGED <<line, projected, wire, bus, restarts>>

RelayStep(r) ==
  \/ Claim(r) \/ EndTurn(r) \/ Begin(r) \/ Publish(r) \/ Delivered(r)
  \/ DeliveryTimesOut(r) \/ MarkPublished(r) \/ MarkFailed(r)
  \/ \E p \in Projectors : Project(r, p)

Next ==
  \/ \E e \in Events : Commit(e)
  \/ \E r \in Relays : RelayStep(r) \/ DeliveryFails(r) \/ SettlementFails(r) \/ Crash(r)
  \/ BusStores \/ BusLoses \/ Tick

Spec == Init /\ [][Next]_vars

\* Every process keeps polling, time passes and the bus takes messages
FairSpec ==
  Spec /\ WF_vars(Tick) /\ WF_vars(BusStores) /\ \A r \in Relays : WF_vars(RelayStep(r))

-----------------------------------------------------------------------------
(* A fact is on the bus only after every projector has applied it, and a    *)
(* row is marked published only once the bus has stored its fact, whichever *)
(* relay sent it and however late: "an Outbox row marked published proves   *)
(* transport handoff" (docs/architecture.md).                               *)
PublishedIsHandedOff ==
  /\ \A e \in Events : Published(e) => e \in bus
  /\ \A e \in bus, p \in Projectors : e \in projected[p]

(* A current lease changes hands only by its own holder settling the row:   *)
(* a relay whose lease ran out, or one that restarted, neither publishes    *)
(* nor fails the fact of the relay that took it over (outbox_repository.rs).*)
LeaseIsExclusive ==
  [][\A e \in Events :
       Committed(e) /\ rows[e].lease > 0 /\ rows'[e].owner # rows[e].owner =>
         \E r \in Relays :
            /\ rows[e].owner = Owner(r) /\ relays[r].event = e
            /\ relays[r].phase \in {"delivered", "failed"} /\ relays'[r].phase = "idle"]_vars

(* As long as no relay stalls, the lease outlasts the publish timeout: no   *)
(* two relays deliver the same fact at the same time, and a relay still     *)
(* holds its lease when it settles, so no acknowledgement is refused.       *)
TimelyRelayHoldsLease ==
  stalls = 0 =>
    \A r \in Relays : relays[r].event # Null => HoldsLease(relays[r].event, Owner(r))

(* Every fact that a transaction commits is eventually published, through   *)
(* crashes of the relay holding it, lost publications, failed projections,  *)
(* refused settlements and expired leases.                                  *)
EveryFactIsPublished == \A e \in Events : Committed(e) ~> Published(e)
=============================================================================
