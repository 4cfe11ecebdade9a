-------------------------- MODULE ConnectorAttempt --------------------------
(***************************************************************************)
(* One row of connector_execution_attempts and the transactions of the     *)
(* attempt repository on it (modules/connectors).  A row is reserved under *)
(* a fence, becomes dispatching just before the only provider call, and    *)
(* terminal together with its evidence.  Each operator below is what one   *)
(* transaction, holding the row lock, answers or writes.                   *)
(***************************************************************************)
EXTENDS Naturals

CONSTANTS ReservationLease, OutcomeWindow, None

ASSUME ConnectorOptionsAssumption ==
  {ReservationLease, OutcomeWindow} \subseteq Nat \ {0}

Tokens == Nat \ {0}

\* ConnectorExecutionFence, without the immutable binding that names the row
Fences == [generation : Nat \ {0}, token : Tokens, reservedAt : Nat, leaseExpiresAt : Nat]

Outcomes == {"accepted", "retryable", "rejected", "indeterminate"}
EvidenceRecords ==
  [outcome : Outcomes, startedAt : Nat, completedAt : Nat, retryAfter : Nat]

Rows == [state : {"reserved", "dispatching", "terminal"}, fence : Fences,
         dispatchStartedAt : Nat \cup {None}, outcomeDeadlineAt : Nat \cup {None},
         evidence : EvidenceRecords \cup {None}]

Fence(generation, token, at) ==
  [generation |-> generation, token |-> token, reservedAt |-> at,
   leaseExpiresAt |-> at + ReservationLease]

ReservedRow(fence) ==
  [state |-> "reserved", fence |-> fence, dispatchStartedAt |-> None,
   outcomeDeadlineAt |-> None, evidence |-> None]

Evidence(outcome, startedAt, completedAt, retryAfter) ==
  [outcome |-> outcome, startedAt |-> startedAt, completedAt |-> completedAt,
   retryAfter |-> retryAfter]

\* ConnectorExecutionAttempt::recovery_state
RecoveryState(row, at) ==
  CASE row.state = "reserved" ->
         IF at < row.fence.leaseExpiresAt THEN "Reserved" ELSE "ReservationExpired"
    [] row.state = "dispatching" ->
         IF at < row.outcomeDeadlineAt THEN "InFlight" ELSE "Indeterminate"
    [] row.state = "terminal" -> "Completed"

\* The caller's token, and so the transaction, is the one that holds the row
HeldBy(row, token) == row.state = "reserved" /\ row.fence.token = token
SameReservation(row, token, at) ==
  /\ HeldBy(row, token)
  /\ row.fence = Fence(row.fence.generation, token, at)

\* a bug to tell apart: an expired dispatch is reserved again
ReservationOfDispatch(row, token, at) ==
  CASE row = None -> "Acquired"
    [] row # None /\ RecoveryState(row, at) \in {"ReservationExpired", "Indeterminate"} -> "Takeover"
    [] OTHER -> IF row.state = "reserved" THEN "Busy" ELSE RecoveryState(row, at)

\* What reserve answers; a Takeover is Acquired with the next fence generation
Reservation(row, token, at) ==
  CASE row = None -> "Acquired"
    [] row # None /\ SameReservation(row, token, at) -> "Replayed"
    [] row # None /\ HeldBy(row, token) /\ ~SameReservation(row, token, at) -> "Conflict"
    [] row # None /\ row.state = "reserved" /\ row.fence.token # token ->
         IF RecoveryState(row, at) = "Reserved" THEN "Busy" ELSE "Takeover"
    [] OTHER -> RecoveryState(row, at)

\* The row reserve leaves behind
Reserve(row, token, at) ==
  CASE Reservation(row, token, at) = "Acquired" -> ReservedRow(Fence(1, token, at))
    [] Reservation(row, token, at) = "Takeover" ->
         ReservedRow(Fence(row.fence.generation + 1, token, at))
    [] OTHER -> row

\* begin_dispatch, once the revision is known not to be revoked
Begins(row, fence) == row # None /\ row.state = "reserved" /\ row.fence = fence
BeginDispatch(row, startedAt) ==
  [row EXCEPT !.state = "dispatching", !.dispatchStartedAt = startedAt,
              !.outcomeDeadlineAt = startedAt + OutcomeWindow]

\* settle: a terminal row only replays its own settlement; a reserved one
\* takes pre-dispatch evidence inside its lease, a dispatching one the
\* evidence of that very dispatch
SettleReplays(row, fence, evidence) ==
  row.state = "terminal" /\ row.fence = fence /\ row.evidence = evidence
\* a bug to tell apart: the fence of the settlement is not compared
SettlesUnfenced(row, fence, evidence) == row.state # "terminal"
Settles(row, fence, evidence) ==
  /\ evidence.outcome # "indeterminate"
  /\ row.fence = fence
  /\ \/ /\ row.state = "reserved"
        /\ evidence.outcome # "accepted"
        /\ evidence.startedAt = row.fence.reservedAt
        /\ evidence.completedAt <= row.fence.leaseExpiresAt
     \/ /\ row.state = "dispatching"
        /\ evidence.startedAt = row.dispatchStartedAt
Settle(row, evidence) == [row EXCEPT !.state = "terminal", !.evidence = evidence]

\* resolve_indeterminate: the operator closes a dispatch past its deadline
Resolves(row, at) ==
  row # None /\ row.state = "dispatching" /\ RecoveryState(row, at) = "Indeterminate"
Resolve(row, at) ==
  Settle(row, Evidence("indeterminate", row.dispatchStartedAt, at, 0))
=============================================================================
