--------------------------- MODULE GatewayRollout ---------------------------
(***************************************************************************)
(* Edge's rollout of complete Gateway snapshots to the members of a scope: *)
(* staging, dispatch through the node's serial command mailbox, exact      *)
(* acknowledgement or expiry, recovery of what a silent member really      *)
(* runs, and the exact rollback of a rollout that stays below its          *)
(* readiness threshold.                                                    *)
(*                                                                         *)
(* Sources: edge/domain/entities/gateway_*.rs, the three Gateway           *)
(* reconcilers, persistence/postgres_rollouts, postgres_acknowledgement.rs *)
(* and, on the node, gateway.rs, executor.rs and agent.rs.  A snapshot is  *)
(* told apart by its revision on its node; routes, certificates and ACL    *)
(* text are left out.  Every repository transaction is one step: it checks *)
(* the aggregate version it was planned with, so a stale plan changes      *)
(* nothing.  That a node executes its commands one by one, in order and    *)
(* with the outcome the journal keeps, is what CommandChannel shows.       *)
(***************************************************************************)
EXTENDS Integers, Sequences, FiniteSets

CONSTANTS
    Nodes,        \* the members of the scope
    Policies,     \* the readiness thresholds the scope may have
    MaxRollouts,  \* bound: rollouts staged, rollbacks included
    MaxFaults     \* bound: timeouts, crashes and late observations

ASSUME GatewayRolloutAssumption ==
    /\ IsFiniteSet(Nodes)
    /\ Policies \subseteq 1..Cardinality(Nodes)
    /\ MaxRollouts \in Nat
    /\ MaxFaults \in Nat

VARIABLES
    required,    \* GatewayRolloutPolicy::required_ready of the scope
    rollouts,    \* gateway_rollouts with their replicas, in order of staging
    rollbacks,   \* gateway_rollout_rollbacks, by failed rollout
    scopes,      \* gateway_scopes: last issued and installed revision
    gateways,    \* the revision each Gateway runs, and the one it is applying
    mailbox,     \* the commands enqueued for each node
    settled,     \* how many of them the node has settled
    agents,      \* what each node agent is doing with the next command
    outcomes,    \* observation outcomes Fleet holds
    expired,     \* commands whose not_after has passed
    overlapped,  \* members given a new snapshot before an old one was known
    faults

vars == <<required, rollouts, rollbacks, scopes, gateways, mailbox, settled,
          agents, outcomes, expired, overlapped, faults>>

-----------------------------------------------------------------------------
(* Rollouts, replicas and commands.                                        *)

ReplicaStates == {"pending", "applied", "rejected", "unavailable"}
RecoveryStates == {"none", "required", "observing", "observed", "diverged"}
RollbackStates == {"none", "required", "staged", "succeeded", "diverged"}

\* of is the failed rollout that a rollback rollout restores, 0 for any other.
Replica == [revision : 1..MaxRollouts, expected : 0..MaxRollouts,
            state : ReplicaStates, recovery : RecoveryStates, attempt : Nat]
Rollout == [of : 0..MaxRollouts, replicas : [Nodes -> Replica]]

Install(r, n) == [kind |-> "install", rollout |-> r, node |-> n, attempt |-> 0]
Observe(r, n, a) == [kind |-> "observe", rollout |-> r, node |-> n, attempt |-> a]

At(r, n) == rollouts[r].replicas[n]
Issued(c) == \E i \in DOMAIN mailbox[c.node] : mailbox[c.node][i] = c
Enqueue(c) == mailbox' = [mailbox EXCEPT ![c.node] = Append(@, c)]

CountIn(replicas, states) == Cardinality({n \in Nodes : replicas[n].state \in states})

\* A rollback needs every member, any other rollout the scope's threshold.
RequiredReady(rollout) == IF rollout.of = 0 THEN required ELSE Cardinality(Nodes)

ServesTraffic(rollout) == CountIn(rollout.replicas, {"applied"}) >= RequiredReady(rollout)

RolloutState(rollout) ==
    CASE CountIn(rollout.replicas, {"pending"}) > 0 ->
             IF ServesTraffic(rollout) THEN "ready" ELSE "pending"
      [] CountIn(rollout.replicas, {"applied"}) = Cardinality(Nodes) -> "succeeded"
      [] OTHER -> "degraded"

Terminal(rollout) == RolloutState(rollout) \in {"succeeded", "degraded"}

Init ==
    /\ required \in Policies
    /\ rollouts = <<>>
    /\ rollbacks = [r \in 1..MaxRollouts |-> "none"]
    /\ scopes = [n \in Nodes |-> [last |-> 0, installed |-> 0]]
    /\ gateways = [n \in Nodes |-> [applied |-> 0, applying |-> 0]]
    /\ mailbox = [n \in Nodes |-> <<>>]
    /\ settled = [n \in Nodes |-> 0]
    /\ agents = [n \in Nodes |-> [phase |-> "idle", result |-> "none", applied |-> 0]]
    /\ outcomes = {}
    /\ expired = {}
    /\ overlapped = {}
    /\ faults = 0

Fault == faults < MaxFaults /\ faults' = faults + 1

-----------------------------------------------------------------------------
(* Staging.                                                                *)

RecoveryOutstanding(n) ==
    \E r \in DOMAIN rollouts : At(r, n).recovery \in {"required", "observing"}

\* The complete snapshots of one rollout: the next revision of each member,
\* to be installed over the revision Edge believes it runs.
Staged(of) ==
    [of |-> of,
     replicas |-> [n \in Nodes |->
        [revision |-> scopes[n].last + 1, expected |-> scopes[n].installed,
         state |-> "pending", recovery |-> "none", attempt |-> 0]]]

InsertRollout(of) ==
    /\ Len(rollouts) < MaxRollouts
    /\ rollouts' = Append(rollouts, Staged(of))
    /\ scopes' = [n \in Nodes |-> [scopes[n] EXCEPT !.last = @ + 1]]
    /\ overlapped' = overlapped \cup {n \in Nodes : RecoveryOutstanding(n)}

ScopeHasNoActiveRollout == \A r \in DOMAIN rollouts : Terminal(rollouts[r])
\* A bug: a diverged rollback no longer blocks its scope.
OnlyStagedRollbackBlocks ==
    \A r \in DOMAIN rollouts : rollbacks[r] \in {"none", "succeeded", "diverged"}

ScopeHasNoUnresolvedRollback ==
    \A r \in DOMAIN rollouts : rollbacks[r] \in {"none", "succeeded"}

StageRollout ==
    /\ ScopeHasNoActiveRollout
    /\ ScopeHasNoUnresolvedRollback
    /\ InsertRollout(0)
    /\ UNCHANGED <<required, rollbacks, gateways, mailbox, settled, agents,
                   outcomes, expired, faults>>

\* A bug: an observation that is under way is good enough.
PhysicalStateIsAsked(r) ==
    \A n \in Nodes : At(r, n).state = "unavailable" => At(r, n).recovery # "required"

\* A bug: a member that rejected the snapshot is awaited like a silent one.
EveryFailureIsObserved(r) ==
    \A n \in Nodes : At(r, n).state # "applied" => At(r, n).recovery = "observed"

\* The members a failed rollout left in doubt have all been observed.
PhysicalStateIsKnown(r) ==
    \A n \in Nodes : At(r, n).state = "unavailable" => At(r, n).recovery = "observed"

StageRollback(r) ==
    /\ rollbacks[r] = "required"
    /\ PhysicalStateIsKnown(r)
    /\ ScopeHasNoActiveRollout
    /\ InsertRollout(r)
    /\ rollbacks' = [rollbacks EXCEPT ![r] = "staged"]
    /\ UNCHANGED <<required, gateways, mailbox, settled, agents, outcomes,
                   expired, faults>>

-----------------------------------------------------------------------------
(* The rollout reconciler and the projection of acknowledgements.          *)

DispatchInstall(r, n) ==
    LET c == Install(r, n) IN
    /\ At(r, n).state = "pending"
    /\ c \notin expired
    /\ ~Issued(c)
    /\ Enqueue(c)
    /\ UNCHANGED <<required, rollouts, rollbacks, scopes, gateways, settled,
                   agents, outcomes, expired, overlapped, faults>>

\* project_terminal_rollback: what the last answer of a rollout decides.
RollbacksAfter(r, rollout) ==
    LET state == RolloutState(rollout) IN
    IF rollout.of # 0
    THEN IF Terminal(rollout)
         THEN [rollbacks EXCEPT ![rollout.of] =
                 IF state = "succeeded" THEN "succeeded" ELSE "diverged"]
         ELSE rollbacks
    ELSE IF state = "degraded" /\ ~ServesTraffic(rollout)
         THEN [rollbacks EXCEPT ![r] = "required"]
         ELSE rollbacks

Answered(r, n, state, recovery) ==
    LET rollout == [rollouts[r] EXCEPT !.replicas[n].state = state,
                                       !.replicas[n].recovery = recovery]
    IN  /\ rollouts' = [rollouts EXCEPT ![r] = rollout]
        /\ rollbacks' = RollbacksAfter(r, rollout)

MarkUnavailable(r, n) ==
    /\ At(r, n).state = "pending"
    /\ Install(r, n) \in expired
    /\ Answered(r, n, "unavailable", "required")
    /\ UNCHANGED <<required, scopes, gateways, mailbox, settled, agents,
                   outcomes, expired, overlapped, faults>>

-----------------------------------------------------------------------------
(* The recovery reconciler.                                                *)

Recovering(r, n, state) ==
    rollouts' = [rollouts EXCEPT ![r].replicas[n].recovery = state]

Attempt(r, n) == Observe(r, n, At(r, n).attempt)

OutcomeOf(r, n) == {o \in outcomes : o.command = Attempt(r, n)}

StageObservation(r, n) ==
    /\ At(r, n).recovery = "required"
    /\ rollouts' = [rollouts EXCEPT ![r].replicas[n] =
                        [@ EXCEPT !.recovery = "observing", !.attempt = At(r, n).attempt + 1]]
    /\ UNCHANGED <<required, rollbacks, scopes, gateways, mailbox, settled,
                   agents, outcomes, expired, overlapped, faults>>

DispatchObservation(r, n) ==
    /\ At(r, n).recovery = "observing"
    /\ OutcomeOf(r, n) = {}
    /\ Attempt(r, n) \notin expired
    /\ ~Issued(Attempt(r, n))
    /\ Enqueue(Attempt(r, n))
    /\ UNCHANGED <<required, rollouts, rollbacks, scopes, gateways, settled,
                   agents, outcomes, expired, overlapped, faults>>

\* No outcome by the deadline: the next attempt asks again.
ExpireObservation(r, n) ==
    /\ At(r, n).recovery = "observing"
    /\ OutcomeOf(r, n) = {}
    /\ Attempt(r, n) \in expired
    /\ Recovering(r, n, "required")
    /\ UNCHANGED <<required, rollbacks, scopes, gateways, mailbox, settled,
                   agents, outcomes, expired, overlapped, faults>>

\* No applied snapshot (0) is a known state: a Gateway that ran none has no
\* expired one, and the contract rejects an observation that claims so.
ObservedStateIsKnown(r, n, applied) ==
    applied \in {0, At(r, n).revision, At(r, n).expected}

\* A bug: a member that runs nothing new leaves the scope as it was.
RecordOnlyCandidate(r, n, o) ==
    /\ o.result = "observed"
    /\ ObservedStateIsKnown(r, n, o.applied)
    /\ Recovering(r, n, "observed")
    /\ UNCHANGED <<scopes, rollbacks>>

\* record_observation of a known state: the physical scope follows it.
\* (When a later snapshot was acknowledged meanwhile, it is moved back.)
RecordKnown(r, n, o) ==
    /\ o.result = "observed"
    /\ ObservedStateIsKnown(r, n, o.applied)
    /\ Recovering(r, n, "observed")
    /\ scopes' = [scopes EXCEPT ![n].installed = o.applied]
    /\ UNCHANGED rollbacks

\* A state that is neither the candidate nor its predecessor ends the
\* rollback; without a rollback that waits, the transaction fails.
RecordUnknown(r, n, o) ==
    /\ o.result = "observed"
    /\ ~ObservedStateIsKnown(r, n, o.applied)
    /\ rollbacks[r] \in {"required", "diverged"}
    /\ Recovering(r, n, "diverged")
    /\ rollbacks' = [rollbacks EXCEPT ![r] = "diverged"]
    /\ UNCHANGED scopes

\* The Gateway is still applying, or the command failed.
RecordFailure(r, n, o) ==
    /\ o.result \in {"applying", "failed", "refused"}
    /\ Recovering(r, n, IF o.result = "refused" THEN "diverged" ELSE "required")
    /\ UNCHANGED <<scopes, rollbacks>>

ProjectOutcome(r, n) ==
    /\ At(r, n).recovery = "observing"
    /\ \E o \in OutcomeOf(r, n) :
          RecordKnown(r, n, o) \/ RecordUnknown(r, n, o) \/ RecordFailure(r, n, o)
    /\ UNCHANGED <<required, gateways, mailbox, settled, agents, outcomes,
                   expired, overlapped, faults>>

-----------------------------------------------------------------------------
(* The node agent and its Gateway.                                         *)

HasCommand(n) == settled[n] < Len(mailbox[n])
NextCommand(n) == mailbox[n][settled[n] + 1]
Candidate(n) == At(NextCommand(n).rollout, n)

Phase(n, phase) == agents' = [agents EXCEPT ![n].phase = phase]

\* journal.complete: the outcome of the command is decided for good; one
\* that came after the deadline is a retryable failure.
Complete(n, result, applied) ==
    agents' = [agents EXCEPT ![n] =
        [phase |-> "delivering",
         result |-> IF NextCommand(n) \in expired /\ result # "refused" THEN "failed" ELSE result,
         applied |-> applied]]

OnNode == UNCHANGED <<required, rollouts, rollbacks, scopes, mailbox, settled,
                      outcomes, overlapped>>

RefuseExpired(n) ==
    /\ agents[n].phase = "idle" /\ HasCommand(n)
    /\ NextCommand(n) \in expired
    /\ Complete(n, "refused", 0)
    /\ OnNode /\ UNCHANGED <<gateways, expired, faults>>

\* Gateway apply: compare-and-swap on the revision it runs; the revision it
\* already runs is a replay.
BeginInstall(n) ==
    /\ agents[n].phase = "idle" /\ HasCommand(n)
    /\ NextCommand(n).kind = "install" /\ NextCommand(n) \notin expired
    /\ gateways[n].applying = 0
    /\ \/ /\ gateways[n].applied = Candidate(n).expected
          /\ gateways' = [gateways EXCEPT ![n].applying = Candidate(n).revision]
          /\ Phase(n, "applying")
       \/ /\ gateways[n].applied = Candidate(n).revision
          /\ Complete(n, "applied", Candidate(n).revision)
          /\ UNCHANGED gateways
       \/ /\ gateways[n].applied \notin {Candidate(n).expected, Candidate(n).revision}
          /\ Complete(n, "rejected", 0)
          /\ UNCHANGED gateways
    /\ OnNode /\ UNCHANGED <<expired, faults>>

\* The Gateway activates the snapshot, or refuses it and keeps what it runs.
Activate(n) ==
    /\ gateways[n].applying # 0
    /\ \/ /\ gateways' = [gateways EXCEPT ![n] = [applied |-> @.applying, applying |-> 0]]
          /\ UNCHANGED faults
       \/ gateways' = [gateways EXCEPT ![n].applying = 0] /\ Fault
    /\ OnNode /\ UNCHANGED <<agents, expired>>

\* confirm_status of the apply and of the readiness that follows it.
ConfirmInstall(n) ==
    /\ agents[n].phase = "applying"
    /\ gateways[n].applying = 0
    /\ \/ /\ gateways[n].applied # Candidate(n).expected
          /\ Complete(n, "applied", Candidate(n).revision)
       \/ /\ gateways[n].applied = Candidate(n).expected
          /\ Complete(n, "rejected", 0)
    /\ OnNode /\ UNCHANGED <<gateways, expired, faults>>

\* The management API does not answer in time, a retryable failure, or its
\* answer breaks the protocol, one that no retry repairs; the deadline leaves
\* either as it is, and the Gateway goes on applying.
GiveUp(n) ==
    /\ \/ agents[n].phase = "applying"
       \/ agents[n].phase = "idle" /\ HasCommand(n) /\ NextCommand(n) \notin expired
    /\ \E result \in {"failed", "refused"} : Complete(n, result, 0)
    /\ Fault
    /\ OnNode /\ UNCHANGED <<gateways, expired>>

ObserveGateway(n) ==
    /\ agents[n].phase = "idle" /\ HasCommand(n)
    /\ NextCommand(n).kind = "observe" /\ NextCommand(n) \notin expired
    /\ \/ gateways[n].applying = 0 /\ Complete(n, "observed", gateways[n].applied)
          /\ UNCHANGED faults
       \/ gateways[n].applying # 0 /\ Complete(n, "applying", 0) /\ Fault
    /\ OnNode /\ UNCHANGED <<gateways, expired>>

\* Before the outcome is journaled a crash repeats the command, after it
\* the completed command is delivered again.
Crash(n) ==
    /\ \/ agents[n].phase = "applying" /\ Phase(n, "idle")
       \/ agents[n].phase = "settling" /\ Phase(n, "delivering")
    /\ Fault
    /\ OnNode /\ UNCHANGED <<gateways, expired>>

IsGatewayAck(n) ==
    NextCommand(n).kind = "install" /\ agents[n].result \in {"applied", "rejected"}

\* project_gateway_acknowledgement: a pending publication takes the answer,
\* and an applied one moves the physical scope; the same answer is a replay.
AcknowledgeGateway(n) ==
    LET r == NextCommand(n).rollout
        result == agents[n].result
    IN
    /\ agents[n].phase = "delivering" /\ IsGatewayAck(n)
    /\ \/ /\ At(r, n).state = "pending"
          /\ result = "applied" => scopes[n].installed = At(r, n).expected
          /\ Answered(r, n, result, "none")
          /\ scopes' = IF result = "applied"
                       THEN [scopes EXCEPT ![n].installed = At(r, n).revision]
                       ELSE scopes
       \/ /\ At(r, n).state = result
          /\ UNCHANGED <<rollouts, rollbacks, scopes>>
    /\ Phase(n, "settling")
    /\ UNCHANGED <<required, gateways, mailbox, settled, outcomes, expired,
                   overlapped, faults>>

\* Any other publication state is a conflict: it ends the agent, and each
\* restart delivers the same answer first, so this node does nothing more.
Refused(n) ==
    /\ agents[n].phase = "delivering" /\ IsGatewayAck(n)
    /\ At(NextCommand(n).rollout, n).state \notin {"pending", agents[n].result}

\* Fleet settles the command; the outcome of an observation is then there
\* for the recovery reconciler.
AcknowledgeCommand(n) ==
    /\ \/ agents[n].phase = "settling"
       \/ agents[n].phase = "delivering" /\ ~IsGatewayAck(n)
    /\ settled' = [settled EXCEPT ![n] = @ + 1]
    /\ outcomes' = IF NextCommand(n).kind = "observe"
                   THEN outcomes \cup {[command |-> NextCommand(n), result |-> agents[n].result,
                                        applied |-> agents[n].applied]}
                   ELSE outcomes
    /\ agents' = [agents EXCEPT ![n] = [phase |-> "idle", result |-> "none", applied |-> 0]]
    /\ UNCHANGED <<required, rollouts, rollbacks, scopes, gateways, mailbox,
                   expired, overlapped, faults>>

-----------------------------------------------------------------------------
(* Time: a deadline passes.  That of an installation passes in any case    *)
(* when the node is through with it and gave no answer; any other one that *)
(* passes counts as a fault, so that attempts end.                         *)

Expiry(c) ==
    /\ c \notin expired
    /\ expired' = expired \cup {c}
    /\ UNCHANGED <<required, rollouts, rollbacks, scopes, gateways, mailbox,
                   settled, agents, outcomes, overlapped>>

Settled(c) == \E i \in 1..settled[c.node] : mailbox[c.node][i] = c

InstallExpires(r, n) ==
    /\ At(r, n).state = "pending"
    /\ Expiry(Install(r, n))
    /\ IF Settled(Install(r, n)) THEN UNCHANGED faults ELSE Fault

ObservationExpires(r, n) ==
    At(r, n).recovery = "observing" /\ Expiry(Attempt(r, n)) /\ Fault

-----------------------------------------------------------------------------
Reconcile(r, n) ==
    \/ DispatchInstall(r, n) \/ MarkUnavailable(r, n)
    \/ StageObservation(r, n) \/ DispatchObservation(r, n)
    \/ ExpireObservation(r, n) \/ ProjectOutcome(r, n)

AgentStep(n) ==
    \/ RefuseExpired(n) \/ BeginInstall(n) \/ ConfirmInstall(n)
    \/ ObserveGateway(n) \/ AcknowledgeGateway(n) \/ AcknowledgeCommand(n)

Next ==
    \/ StageRollout
    \/ \E r \in DOMAIN rollouts : StageRollback(r)
    \/ \E r \in DOMAIN rollouts, n \in Nodes :
          Reconcile(r, n) \/ InstallExpires(r, n) \/ ObservationExpires(r, n)
    \/ \E n \in Nodes : AgentStep(n) \/ Activate(n) \/ GiveUp(n) \/ Crash(n)

Spec == Init /\ [][Next]_vars

\* The reconcilers tick, agents run, a Gateway ends what it started and
\* deadlines pass; nobody has to stage a rollout, and no fault has to happen.
Progress ==
    \/ \E r \in DOMAIN rollouts : StageRollback(r)
    \/ \E r \in DOMAIN rollouts, n \in Nodes : Reconcile(r, n) \/ InstallExpires(r, n)
    \/ \E n \in Nodes : AgentStep(n) \/ Activate(n)

FairSpec == Spec /\ WF_vars(Progress)

-----------------------------------------------------------------------------
(* Properties.                                                             *)

Command == [kind : {"install", "observe"}, rollout : 1..MaxRollouts, node : Nodes,
            attempt : Nat]
Results == {"applied", "rejected", "failed", "refused", "observed", "applying"}
Agent == [phase : {"idle", "applying", "delivering", "settling"},
          result : Results \cup {"none"}, applied : 0..MaxRollouts]

TypeOK ==
    /\ required \in Policies
    /\ rollouts \in Seq(Rollout) /\ Len(rollouts) <= MaxRollouts
    /\ rollbacks \in [1..MaxRollouts -> RollbackStates]
    /\ scopes \in [Nodes -> [last : 0..MaxRollouts, installed : 0..MaxRollouts]]
    /\ gateways \in [Nodes -> [applied : 0..MaxRollouts, applying : 0..MaxRollouts]]
    /\ mailbox \in [Nodes -> Seq(Command)] /\ settled \in [Nodes -> Nat]
    /\ agents \in [Nodes -> Agent]
    /\ outcomes \subseteq [command : Command, result : Results, applied : 0..MaxRollouts]
    /\ overlapped \subseteq Nodes
    /\ faults \in 0..MaxFaults

\* What Edge does not know yet of the snapshot a member runs.
InDoubt(n) ==
    \E r \in DOMAIN rollouts :
        \/ At(r, n).state = "pending"
        \/ At(r, n).recovery \in {"required", "observing", "diverged"}

\* Once every answer and every observation of a member is in, the installed
\* revision Edge keeps for it (gateway_scopes.installed_revision, the
\* expected revision of its next snapshot) is the one its Gateway runs, and
\* the Gateway is changing nothing.  Otherwise the compare-and-swap rejects
\* every later snapshot of the member.  The exception is a member whose next
\* snapshot was staged while an observation was outstanding: see ObservationIsCurrent.
InstalledIsPhysical ==
    \A n \in Nodes \ overlapped :
        InDoubt(n) \/ gateways[n] = [applied |-> scopes[n].installed, applying |-> 0]

\* The same without the exception.  It does not hold: the outcome of an old
\* observation is recorded over a newer acknowledged revision.
ObservationIsCurrent ==
    \A n \in Nodes :
        InDoubt(n) \/ gateways[n].applied = scopes[n].installed

\* When the scope takes a new rollout after one that stayed below its
\* threshold, no Gateway of the scope runs or will run the snapshot that
\* failed: the exact rollback has replaced it on every member.
FailedSnapshotIsGone ==
    \A f, g \in DOMAIN rollouts :
        f < g /\ rollouts[g].of = 0 /\ rollbacks[f] # "none" =>
            \A n \in Nodes :
                At(f, n).revision \notin {gateways[n].applied, gateways[n].applying}

\* Members whose recovery was given up, for this or an earlier rollout.
Diverged(n) == \E r \in DOMAIN rollouts : At(r, n).recovery = "diverged"

\* An exact rollback is staged over what the Gateways really run: no member
\* is then applying anything, and each runs the revision its rollback
\* snapshot expects.  Excepted are members that overlapped and members whose
\* recovery diverged in an earlier rollout that served traffic all the same.
RollbackIsInformed ==
    [][\A r \in DOMAIN rollouts :
          rollbacks[r] = "required" /\ rollbacks'[r] = "staged" =>
              \A n \in Nodes \ overlapped :
                  Diverged(n) \/ gateways[n] = [applied |-> scopes[n].installed, applying |-> 0]]_vars

\* The same with these members, too.  It does not hold: what is known of the
\* rollout that failed is checked, what was given up before is not.
EveryMemberIsInformed ==
    [][\A r \in DOMAIN rollouts :
          rollbacks[r] = "required" /\ rollbacks'[r] = "staged" =>
              \A n \in Nodes \ overlapped :
                  gateways[n] = [applied |-> scopes[n].installed, applying |-> 0]]_vars

RollbackIsRequired ==
    Len(rollouts) < MaxRollouts /\ \E r \in DOMAIN rollouts : rollbacks[r] = "required"

RollbacksAreOver == \A r \in DOMAIN rollouts : rollbacks[r] \notin {"required", "staged"}

\* A rollback that is required ends, restored or given up as diverged, after
\* whatever expiries, crashes and unanswered calls.  Three blockages are
\* known and excepted: a member whose observation was refused for good, one
\* whose agent ends on a late acknowledgement, and a member that overlapped.
RollbackEnds ==
    RollbackIsRequired ~>
        \/ RollbacksAreOver
        \/ \E n \in Nodes :
              \/ \E r \in DOMAIN rollouts : At(r, n).recovery = "diverged"
              \/ Refused(n)
              \/ n \in overlapped

\* The same without the exceptions.  It does not hold.
RollbackAlwaysEnds == RollbackIsRequired ~> RollbacksAreOver

=============================================================================
