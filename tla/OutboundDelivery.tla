-------------------------- MODULE OutboundDelivery --------------------------
(***************************************************************************)
(* One outbound notification (modules/notifications) on its way from the   *)
(* durable event subscription to an external provider.  Several control    *)
(* planes run A3sEventOutboundNotificationConsumer on the subscription; a  *)
(* delivery is redelivered, without limit, until it is acknowledged.  A    *)
(* consumer admits the delivery, walks the attempt generations through     *)
(* ConnectorExecutionApplicationService, stores a terminal receipt and     *)
(* acknowledges.  Between two repository calls anything may happen: the    *)
(* process stalls past its lease or deadline, dies, loses an answer; the   *)
(* redelivery reaches another consumer; the revision is revoked; the       *)
(* operator resolves the attempt.                                          *)
(*                                                                         *)
(* Every clock read is `now`.  A fresh Uuid is the least token that is     *)
(* not in play.  The transport's delivery count matters only up to the     *)
(* provider-attempt budget, and is not followed further.                   *)
(***************************************************************************)
EXTENDS ConnectorAttempt, FiniteSetsExt

CONSTANTS
  Consumers,
  MaximumProviderAttempts,
  RetryAfter,      \* the delay a provider may ask for
  Revocable, Operated,  \* whether the revision may be revoked, attempts resolved
  MaxFaults,       \* bound: crashes, failed or lost calls
  MaxStalls        \* bound: times a process is overtaken by the clock or AckWait

ASSUME DeliveryBoundsAssumption ==
  /\ IsFiniteSet(Consumers)
  /\ MaximumProviderAttempts \in Nat \ {0}
  /\ {RetryAfter, MaxFaults, MaxStalls} \subseteq Nat
  /\ {Revocable, Operated} \subseteq BOOLEAN

VARIABLES
  now,
  event,      \* the subscription: times delivered (capped), acknowledged
  rows,       \* connector_execution_attempts of this delivery, by generation
  receipt,    \* the terminal receipt on notification_outbound_deliveries
  revoked,    \* connector revision revocation
  consumers,  \* volatile state of each process
  calls,      \* history: the provider calls and their outcomes, by generation
  faults, stalls

vars == <<now, event, rows, receipt, revoked, consumers, calls, faults, stalls>>

Generations == 1 .. MaximumProviderAttempts
Receipts == [outcome : {"delivered", "rejected", "exhausted", "indeterminate"},
             generation : Generations, terminalAt : Nat]

ASSUME NoneAssumption == None \notin Nat \cup Fences \cup EvidenceRecords \cup Rows \cup Receipts

Idle == [pc |-> "idle", maximum |-> 0, generation |-> 0, requestedAt |-> 0, fence |-> None,
         dispatchStartedAt |-> None, evidence |-> None, receipt |-> None]

\* Uuid::now_v7: no row and no process of the same attempt knows the token
FreshToken(g) ==
  Min((1 .. Cardinality(Consumers) + 1) \
      ({consumers[c].fence.token : c \in {x \in Consumers : consumers[x].fence # None}}
         \cup {rows[g].fence.token : x \in {y \in {g} : rows[y] # None}}))

Fault == faults < MaxFaults /\ faults' = faults + 1
NoFault == faults' = faults

\* The process gives the event up: it stays unacknowledged
Release(c) == consumers' = [consumers EXCEPT ![c] = Idle]
Goto(c, record) == consumers' = [consumers EXCEPT ![c] = record]

Init ==
  /\ now = 0
  /\ event = [delivered |-> 0, acked |-> FALSE]
  /\ rows = [g \in Generations |-> None]
  /\ receipt = None
  /\ revoked = FALSE
  /\ consumers = [c \in Consumers |-> Idle]
  /\ calls = [g \in Generations |-> {}]
  /\ faults = 0
  /\ stalls = 0
-----------------------------------------------------------------------------
(* The subscription and the clock *)

\* maximum_generation
MaximumGeneration(count) == Min({count, MaximumProviderAttempts})

\* next_manual_ack: the event reaches a consumer again once the ack wait of the
\* previous delivery is over, which may happen under a process that still
\* works on it
Deliver(c) ==
  /\ ~event.acked
  /\ consumers[c] = Idle
  /\ IF \A x \in Consumers : consumers[x] = Idle
     THEN stalls' = stalls
     ELSE stalls < MaxStalls /\ stalls' = stalls + 1
  /\ event' = [event EXCEPT !.delivered = MaximumGeneration(@ + 1)]
  /\ Goto(c, [Idle EXCEPT !.pc = "admit", !.maximum = event'.delivered])
  /\ UNCHANGED <<now, rows, receipt, revoked, calls, faults>>

\* retry_not_before of replayed retryable evidence
RetryNotBefore(evidence) == evidence.completedAt + evidence.retryAfter

\* Whether an instant that some decision depends on is still to come
Awaited ==
  \E g \in Generations :
    /\ rows[g] # None
    /\ \/ rows[g].state = "reserved" /\ now <= rows[g].fence.leaseExpiresAt
       \/ rows[g].state = "dispatching" /\ now < rows[g].outcomeDeadlineAt
       \/ rows[g].state = "terminal" /\ rows[g].evidence.outcome = "retryable"
            /\ now < RetryNotBefore(rows[g].evidence)

Wait ==
  /\ Awaited
  /\ \A c \in Consumers : consumers[c] = Idle
  /\ now' = now + 1
  /\ UNCHANGED <<event, rows, receipt, revoked, consumers, calls, faults, stalls>>

Stall ==
  /\ Awaited
  /\ \E c \in Consumers : consumers[c] # Idle
  /\ stalls < MaxStalls /\ stalls' = stalls + 1
  /\ now' = now + 1
  /\ UNCHANGED <<event, rows, receipt, revoked, consumers, calls, faults>>
-----------------------------------------------------------------------------
(* process_pending and dispatch_fenced *)

\* One turn of the generation loop starts: a fresh token, the current time
StartGeneration(c, g) ==
  Goto(c, [consumers[c] EXCEPT !.pc = "reserve", !.generation = g, !.requestedAt = now,
                               !.fence = None, !.dispatchStartedAt = None, !.evidence = None])

Acknowledge(c) == Release(c) /\ event' = [event EXCEPT !.acked = TRUE]
LoseAcknowledgement(c) == Release(c) /\ UNCHANGED event

\* admit_delivery: a stored receipt is acknowledged without any dispatch
Admit(c) ==
  /\ consumers[c].pc = "admit"
  /\ \/ receipt # None /\ Acknowledge(c) /\ NoFault
     \/ receipt # None /\ LoseAcknowledgement(c) /\ Fault
     \/ receipt = None /\ StartGeneration(c, 1) /\ NoFault /\ UNCHANGED event
  /\ UNCHANGED <<now, rows, receipt, revoked, calls, stalls>>

\* the receipt constructors: terminal_at is the evidence's completion, or the
\* deadline of an attempt whose outcome is not known
TerminalReceipt(outcome, g, at) == [outcome |-> outcome, generation |-> g, terminalAt |-> at]
ToReceipt(c, outcome, g, at) ==
  Goto(c, [consumers[c] EXCEPT !.pc = "receipt", !.receipt = TerminalReceipt(outcome, g, at)])

\* a bug to tell apart: a rejected generation is followed by another one
ConcludeRetryingRejections(c, evidence, replayed) ==
  LET g == consumers[c].generation IN
  \/ evidence.outcome = "accepted" /\ ToReceipt(c, "delivered", g, evidence.completedAt)
  \/ /\ evidence.outcome \in {"rejected", "retryable"}
     /\ IF replayed /\ g < consumers[c].maximum THEN StartGeneration(c, g + 1) ELSE Release(c)

\* dispatch_fenced on a Completed result: only replayed retryable evidence,
\* its Retry-After over, admits the next generation, up to the delivery count
\* and the budget
Conclude(c, evidence, replayed) ==
  LET g == consumers[c].generation IN
  \/ evidence.outcome = "accepted" /\ ToReceipt(c, "delivered", g, evidence.completedAt)
  \/ evidence.outcome = "rejected" /\ ToReceipt(c, "rejected", g, evidence.completedAt)
  \/ /\ evidence.outcome = "retryable" /\ replayed /\ g = MaximumProviderAttempts
     /\ ToReceipt(c, "exhausted", g, evidence.completedAt)
  \/ /\ evidence.outcome = "retryable" /\ replayed /\ g < consumers[c].maximum
     /\ now >= RetryNotBefore(evidence)
     /\ StartGeneration(c, g + 1)
  \/ /\ evidence.outcome = "retryable"
     /\ \/ ~replayed
        \/ g < MaximumProviderAttempts /\ g >= consumers[c].maximum
        \/ g < consumers[c].maximum /\ now < RetryNotBefore(evidence)
     /\ Release(c)

\* ConnectorExecutionApplicationService::execute up to its reservation.  The
\* transaction may commit and its answer be lost.
ExecuteReserve(c) ==
  LET me     == consumers[c]
      g      == me.generation
      token  == FreshToken(g)
      answer == Reservation(rows[g], token, me.requestedAt)
  IN /\ me.pc = "reserve"
     /\ rows' = [rows EXCEPT ![g] = Reserve(@, token, me.requestedAt)]
     /\ \/ Fault /\ Release(c)
        \/ /\ NoFault
           /\ \/ /\ answer \in {"Acquired", "Replayed", "Takeover"}
                 /\ Goto(c, [me EXCEPT !.pc = "prepare", !.fence = rows'[g].fence])
              \/ answer \in {"Busy", "InFlight", "Conflict"} /\ Release(c)
              \/ /\ \/ answer = "Indeterminate"
                    \/ answer = "Completed" /\ rows[g].evidence.outcome = "indeterminate"
                 /\ ToReceipt(c, "indeterminate", g, rows[g].outcomeDeadlineAt)
              \/ /\ answer = "Completed" /\ rows[g].evidence.outcome # "indeterminate"
                 /\ Conclude(c, rows[g].evidence, TRUE)
     /\ UNCHANGED <<now, event, receipt, revoked, calls, stalls>>

\* A failure before dispatch is settled as evidence while the lease lasts
FailPreflight(c, outcome) ==
  LET me == consumers[c] IN
  IF now > me.fence.leaseExpiresAt THEN Release(c)
  ELSE Goto(c, [me EXCEPT !.pc = "preflight",
                          !.evidence = Evidence(outcome, me.fence.reservedAt, now, 0)])

\* preparation.prepare: Secrets and egress authority, then the last look at the
\* lease before dispatch
Prepare(c) ==
  LET me == consumers[c] IN
  /\ me.pc = "prepare"
  /\ \/ \E outcome \in {"retryable", "rejected"} : FailPreflight(c, outcome)
     \/ now >= me.fence.leaseExpiresAt /\ Release(c)
     \/ /\ now < me.fence.leaseExpiresAt
        /\ Goto(c, [me EXCEPT !.pc = "begin", !.dispatchStartedAt = now])
  /\ UNCHANGED <<now, event, rows, receipt, revoked, calls, faults, stalls>>

\* a bug to tell apart: the revocation is not looked up
BeginDispatchUnrevoked(c) ==
  LET me == consumers[c]
      g  == me.generation
  IN /\ me.pc = "begin"
     /\ \/ ~Begins(rows[g], me.fence) /\ Release(c) /\ NoFault /\ UNCHANGED rows
        \/ /\ Begins(rows[g], me.fence)
           /\ rows' = [rows EXCEPT ![g] = BeginDispatch(@, me.dispatchStartedAt)]
           /\ NoFault /\ Goto(c, [me EXCEPT !.pc = "call"])
     /\ UNCHANGED <<now, event, receipt, revoked, calls, stalls>>

\* begin_dispatch serialises with the revocation on the revision row; a lost
\* answer leaves the row dispatching and nobody to call the provider
BeginDispatchStep(c) ==
  LET me == consumers[c]
      g  == me.generation
  IN /\ me.pc = "begin"
     /\ \/ /\ revoked
           /\ FailPreflight(c, "rejected") /\ NoFault /\ UNCHANGED rows
        \/ /\ ~revoked /\ ~Begins(rows[g], me.fence)
           /\ Release(c) /\ NoFault /\ UNCHANGED rows
        \/ /\ ~revoked /\ Begins(rows[g], me.fence)
           /\ rows' = [rows EXCEPT ![g] = BeginDispatch(@, me.dispatchStartedAt)]
           /\ \/ NoFault /\ Goto(c, [me EXCEPT !.pc = "call"])
              \/ Fault /\ Release(c)
     /\ UNCHANGED <<now, event, receipt, revoked, calls, stalls>>

\* prepared.dispatch: the one provider call.  A response that does not come
\* back is retryable for execute_authorized, whatever the provider did.
CallProvider(c) ==
  LET me == consumers[c]
      g  == me.generation
  IN /\ me.pc = "call"
     /\ \E outcome \in {"accepted", "retryable", "rejected"}, delay \in {0, RetryAfter} :
          /\ outcome # "retryable" => delay = 0
          /\ calls' = [calls EXCEPT ![g] = @ \cup {[fence |-> me.fence, at |-> now, outcome |-> outcome]}]
          /\ Goto(c, [me EXCEPT !.pc = "settle",
                       !.evidence = Evidence(outcome, me.dispatchStartedAt, now, delay)])
     /\ UNCHANGED <<now, event, rows, receipt, revoked, faults, stalls>>

\* settle, as the transaction sees the row; the answer may be lost
SettleRow(c) ==
  LET me == consumers[c] IN
  IF Settles(rows[me.generation], me.fence, me.evidence)
  THEN rows' = [rows EXCEPT ![me.generation] = Settle(@, me.evidence)]
  ELSE UNCHANGED rows

\* The first settlement after a call; any error is SettlementPending, which
\* dispatch_fenced settles once more
SettleOnce(c) ==
  LET me    == consumers[c]
      row   == rows[me.generation]
      knows == Settles(row, me.fence, me.evidence)
      again == SettleReplays(row, me.fence, me.evidence)
  IN /\ me.pc = "settle"
     /\ SettleRow(c)
     /\ \/ (knows \/ again) /\ NoFault /\ Conclude(c, me.evidence, again)
        \/ ~knows /\ ~again /\ NoFault /\ Goto(c, [me EXCEPT !.pc = "settle_known"])
        \/ Fault /\ Goto(c, [me EXCEPT !.pc = "settle_known"])
     /\ UNCHANGED <<now, event, receipt, revoked, calls, stalls>>

\* settle_known and settle_preflight: an error ends the dispatch
SettleFinally(c) ==
  LET me    == consumers[c]
      row   == rows[me.generation]
      knows == Settles(row, me.fence, me.evidence)
      again == SettleReplays(row, me.fence, me.evidence)
  IN /\ me.pc \in {"settle_known", "preflight"}
     /\ SettleRow(c)
     /\ \/ (knows \/ again) /\ NoFault /\ Conclude(c, me.evidence, again)
        \/ ~knows /\ ~again /\ NoFault /\ Release(c)
        \/ Fault /\ Release(c)
     /\ UNCHANGED <<now, event, receipt, revoked, calls, stalls>>

\* validate_notification_outbound_terminal_receipt, the deferred constraint
\* trigger on the delivery row.  A bug to tell apart: every receipt wants
\* terminal evidence.
ReceiptNeedsEvidence(r) ==
  LET row == rows[r.generation] IN row # None /\ row.state = "terminal"
ReceiptMatchesAttempt(r) ==
  LET row == rows[r.generation]
      settled(outcome) ==
        /\ row # None /\ row.state = "terminal" /\ row.evidence.outcome = outcome
        /\ r.terminalAt = row.evidence.completedAt
  IN CASE r.outcome = "delivered"     -> settled("accepted")
       [] r.outcome = "rejected"      -> settled("rejected")
       [] r.outcome = "exhausted"     -> settled("retryable") /\ r.generation = MaximumProviderAttempts
       [] r.outcome = "indeterminate" -> /\ row # None /\ row.state = "dispatching"
                                         /\ r.terminalAt = row.outcomeDeadlineAt

\* settle_delivery, then the acknowledgement
SettleDelivery(c) ==
  LET r      == consumers[c].receipt
      stores == receipt = None /\ ReceiptMatchesAttempt(r)
  IN /\ consumers[c].pc = "receipt"
     /\ receipt' = IF stores THEN r ELSE receipt
     /\ \/ (stores \/ receipt = r) /\ Acknowledge(c) /\ NoFault
        \/ (stores \/ receipt = r) /\ LoseAcknowledgement(c) /\ Fault
        \/ ~stores /\ receipt # r /\ Release(c) /\ NoFault /\ UNCHANGED event
     /\ UNCHANGED <<now, rows, revoked, calls, stalls>>

\* The process dies, or a call fails before it reached the database
Abandon(c) ==
  /\ consumers[c] # Idle
  /\ Fault /\ Release(c)
  /\ UNCHANGED <<now, event, rows, receipt, revoked, calls, stalls>>
-----------------------------------------------------------------------------
(* Others *)

\* revoke_revision
Revoke ==
  /\ Revocable /\ ~revoked
  /\ revoked' = TRUE
  /\ UNCHANGED <<now, event, rows, receipt, consumers, calls, faults, stalls>>

\* resolve_indeterminate, by an operator
ResolveIndeterminate(g) ==
  /\ Operated
  /\ Resolves(rows[g], now)
  /\ rows' = [rows EXCEPT ![g] = Resolve(@, now)]
  /\ UNCHANGED <<now, event, receipt, revoked, consumers, calls, faults, stalls>>

ConsumerStep(c) ==
  \/ Admit(c) \/ ExecuteReserve(c) \/ Prepare(c) \/ BeginDispatchStep(c) \/ CallProvider(c)
  \/ SettleOnce(c) \/ SettleFinally(c) \/ SettleDelivery(c)

Next ==
  \/ Wait \/ Stall \/ Revoke
  \/ \E c \in Consumers : Deliver(c) \/ ConsumerStep(c) \/ Abandon(c)
  \/ \E g \in Generations : ResolveIndeterminate(g)

Spec == Init /\ [][Next]_vars

\* A process that is not dead runs, the transport redelivers, and the clock
\* moves between two deliveries of an event, which are an ack wait apart
FairSpec ==
  /\ Spec
  /\ SF_vars(Wait)
  /\ WF_vars(\E c \in Consumers : Deliver(c))
  /\ \A c \in Consumers : WF_vars(ConsumerStep(c))
-----------------------------------------------------------------------------
TypeOK ==
  /\ now \in Nat
  /\ event \in [delivered : 0 .. MaximumProviderAttempts, acked : BOOLEAN]
  /\ rows \in [Generations -> Rows \cup {None}]
  /\ receipt \in Receipts \cup {None}
  /\ revoked \in BOOLEAN
  /\ \A c \in Consumers :
       /\ consumers[c].pc \in {"idle", "admit", "reserve", "prepare", "begin", "call", "settle",
                               "settle_known", "preflight", "receipt"}
       /\ consumers[c].fence \in Fences \cup {None}
       /\ consumers[c].evidence \in EvidenceRecords \cup {None}
       /\ consumers[c].receipt \in Receipts \cup {None}
  /\ \A g \in Generations : calls[g] \subseteq [fence : Fences, at : Nat, outcome : Outcomes]
  /\ faults \in 0 .. MaxFaults /\ stalls \in 0 .. MaxStalls

\* attempt.rs: a dispatching row is never reserved again.  However processes
\* stall, die and take expired reservations over, the provider is called at
\* most once for each attempt.
OneCallPerAttempt == \A g \in Generations : Cardinality(calls[g]) <= 1

\* outbound_dispatch.rs: "A new Connector attempt generation is admitted only
\* after every preceding generation has durable `retryable` evidence", whose
\* Retry-After is over when the provider is called again.
RetriesFollowEvidence ==
  \A g \in Generations \ {1} :
    rows[g] # None =>
      \A k \in 1 .. g - 1 :
        /\ rows[k] # None /\ rows[k].state = "terminal"
        /\ rows[k].evidence.outcome = "retryable"
        /\ \A call \in calls[g] : call.at >= RetryNotBefore(rows[k].evidence)

\* What the evidence of an attempt says of the provider is what happened: a
\* settled dispatch has the outcome of its own call, made under the fence of the
\* row; an attempt settled before dispatch was never called, nor is about to be.
EvidenceIsTruthful ==
  \A g \in Generations :
    (rows[g] # None /\ rows[g].state = "terminal") =>
      IF rows[g].dispatchStartedAt = None
      THEN /\ calls[g] = {}
           /\ \A c \in Consumers : consumers[c].generation = g => consumers[c].pc # "call"
      ELSE rows[g].evidence.outcome # "indeterminate" =>
             \E call \in calls[g] :
               /\ call.fence = rows[g].fence
               /\ call.outcome = rows[g].evidence.outcome
               /\ call.at = rows[g].evidence.completedAt

\* A stored receipt agrees with the evidence of its attempt, and one that says
\* how the delivery ended is never followed by another generation.  (The
\* outcome of an indeterminate one may still arrive.)
ReceiptIsTruthful ==
  receipt # None =>
    LET row == rows[receipt.generation]
        settled(outcome) ==
          /\ row.evidence # None /\ row.evidence.outcome = outcome
          /\ \A g \in Generations : g > receipt.generation => rows[g] = None
    IN /\ row # None
       /\ receipt.outcome = "delivered" => settled("accepted")
       /\ receipt.outcome = "rejected" => settled("rejected")
       /\ receipt.outcome = "exhausted" =>
            settled("retryable") /\ receipt.generation = MaximumProviderAttempts
       /\ receipt.outcome = "indeterminate" => row.dispatchStartedAt # None

\* The two records of a delivery, the attempts' evidence and the receipt, say
\* what happened at the provider.
RecordsAreTruthful == EvidenceIsTruthful /\ ReceiptIsTruthful

\* domain-model.md: "accepted, rejected, in-flight, or indeterminate evidence
\* never permits another Provider call": once a receipt, indeterminate ones
\* included, is stored, no later generation calls the provider.
NoCallBeyondReceipt ==
  receipt # None =>
    \A g \in Generations : g > receipt.generation => calls[g] = {}

\* domain-model.md: "If revocation wins, the reserved attempt cannot cross the
\* provider boundary", and evidence and receipts never change once stored.
RevocationAndEvidenceHold ==
  [][/\ \A g \in Generations :
          /\ (revoked /\ (rows[g] = None \/ rows[g].dispatchStartedAt = None)) =>
               calls'[g] = calls[g] /\ (rows'[g] # None => rows'[g].dispatchStartedAt = None)
          /\ (rows[g] # None /\ rows[g].state = "terminal") => rows'[g] = rows[g]
     /\ receipt # None => receipt' = receipt]_vars

\* An operator has closed an attempt whose outcome was never learned.
ResolvedByOperator ==
  \E g \in Generations :
    /\ rows[g] # None /\ rows[g].evidence # None
    /\ rows[g].evidence.outcome = "indeterminate"

\* Every delivery is acknowledged, with a receipt, once faults and stalls end;
\* an operator who is faster than the receipt is the one exception.
DeliveryIsSettled == <>[]((event.acked /\ receipt # None) \/ ResolvedByOperator)

\* domain-model.md: "A terminal replay still projects `Indeterminate` to Flow
\* and other consumers": once an operator has resolved an attempt, its
\* delivery obtains a receipt.
ResolvedIsSettled == ResolvedByOperator ~> (receipt # None)
=============================================================================
