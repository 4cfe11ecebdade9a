---------------------------- MODULE ResourceClaims ----------------------------
(***************************************************************************)
(* The life of a resource claim on one node, from the reservation in the   *)
(* database to its release: the claim (workloads/domain/entities/          *)
(* resource_claim.rs) and its slots (persistence/postgres), the steps of   *)
(* the deployment flow that drive it (deployment_flow/), the reconciler    *)
(* that retires a replica, and the Agent's own view of claims and units    *)
(* (node-agent/src/journal.rs, resource_claim.rs, executor.rs).            *)
(*                                                                         *)
(* The node's mailbox delivers commands one by one in order;               *)
(* CommandChannel is about how it does that.  A deployment has at most one *)
(* current command of each kind: one that was superseded has expired, and  *)
(* the Agent rejects it without effect, so it leaves the mailbox here.     *)
(* Generations grow with every release and are not counted.                *)
(***************************************************************************)
EXTENDS Naturals, FiniteSets, SequencesExt

CONSTANTS
    Deployments,    \* each with the claim and the Runtime unit of its id
    Devices(_),     \* the exclusive slots a deployment's claim names
    Amount(_),      \* its share of the one shared-capacity slot
    Capacity,       \* that slot's capacity
    MaxFaults       \* bound on expiries, failures and skewed clocks

ASSUME ClaimAssumption ==
    /\ IsFiniteSet(Deployments)
    /\ \A d \in Deployments : Amount(d) \in 0..Capacity
    /\ Capacity \in Nat /\ MaxFaults \in Nat

VARIABLES
    flow,       \* per deployment: stage of its flow, cancellation, commands recorded
    retirement, \* per deployment: how far the retirement of its replica is
    claim,      \* per deployment: ResourceClaimState
    sent,       \* Fleet: per deployment and kind, the current command's fate
    mailbox,    \* Fleet: the commands the Agent has not settled, in order
    agent,      \* the Agent's ProjectedResourceClaim
    running,    \* Runtime units running on the node
    faults

vars == <<flow, retirement, claim, sent, mailbox, agent, running, faults>>

Kinds == {"prepare", "apply", "stop", "remove", "release"}

\* `why` is the path on which the flow tears its deployment down:
\* cancel_deployment or fail_candidate.  `recorded` has the commands Workloads
\* knows it sent: the claim's prepare_command_id, the deployment's command_id.
Flow == [stage : {"new", "prepare", "dispatch", "observe", "active",
                  "stop", "release", "done", "failed"},
         why : {"none", "cancel", "fail"},
         cancelling : BOOLEAN,
         recorded : SUBSET {"prepare", "apply"}]

ClaimState == {"none", "reserved", "preparing", "prepared", "bound",
               "releasing", "released", "orphaned"}

\* "predates" is a release the Agent made, under a released_at that its clock
\* puts before the fencing of the unit.
Sent == [outcome : {"none", "pending", "succeeded", "failed", "expired", "predates"},
         late : BOOLEAN]

Projected == [active : BOOLEAN, bound : BOOLEAN, fenced : BOOLEAN,
              released : BOOLEAN]

\* The claims whose slots the database counts as taken.
Held == {d \in Deployments : claim[d] \notin {"none", "released"}}

Active == {d \in Deployments : agent[d].active}

\* The sum of their amounts, unit by unit.
Allocated(S) == Cardinality({u \in S \X (1..Capacity) : u[2] <= Amount(u[1])})

\* A claim fits beside others: no exclusive slot twice, no shared slot over
\* its capacity.
Fits(d, others) ==
    /\ \A e \in others \ {d} : Devices(d) \intersect Devices(e) = {}
    /\ Allocated(others \union {d}) <= Capacity

Init ==
    /\ flow = [d \in Deployments |->
                 [stage |-> "new", why |-> "none", cancelling |-> FALSE,
                  recorded |-> {}]]
    /\ retirement = [d \in Deployments |-> "none"]
    /\ claim = [d \in Deployments |-> "none"]
    /\ sent = [d \in Deployments |->
                 [k \in Kinds |-> [outcome |-> "none", late |-> FALSE]]]
    /\ mailbox = <<>>
    /\ agent = [d \in Deployments |->
                 [active |-> FALSE, bound |-> FALSE, fenced |-> FALSE,
                  released |-> FALSE]]
    /\ running = {}
    /\ faults = 0

-----------------------------------------------------------------------------
(* Fleet.                                                                  *)

Outcome(d, k) == sent[d][k].outcome

Acknowledged(d, k) == Outcome(d, k) \notin {"none", "pending"}

Succeeded(d, k) == Outcome(d, k) = "succeeded"

\* enqueue_command, under an identity that the mailbox does not hold yet.
Enqueue(d, k) ==
    /\ sent' = [sent EXCEPT ![d][k] = [outcome |-> "pending", late |-> FALSE]]
    /\ \/ /\ Outcome(d, k) # "pending"
          /\ mailbox' = Append(mailbox, <<d, k>>)
       \/ \E i \in DOMAIN mailbox :
             /\ mailbox[i] = <<d, k>>
             /\ mailbox' = Append(RemoveAt(mailbox, i), <<d, k>>)

\* The command was sent and Workloads does not know: the write that follows
\* enqueue_command was lost or refused.
Unrecorded(d, k) == Outcome(d, k) # "none" /\ k \notin flow[d].recorded

\* not_after of a command passes, before the Agent answers or after; the
\* release alone is looked at for its deadline when there is an answer.
Expire(d, k) ==
    /\ faults < MaxFaults
    /\ faults' = faults + 1
    /\ ~sent[d][k].late
    /\ Outcome(d, k) = "pending" \/ (k = "release" /\ Acknowledged(d, k))
    /\ sent' = [sent EXCEPT ![d][k].late = TRUE]
    /\ UNCHANGED <<flow, retirement, claim, mailbox, agent, running>>

-----------------------------------------------------------------------------
(* The deployment flow.  Every action is one step of the flow, whose reads *)
(* and writes the step makes one after the other; a step that is repeated  *)
(* finds what it wrote.  The two steps that enqueue a command and record   *)
(* it afterwards may lose the second write.                                *)

\* cancel_deployment when the deployment is being cancelled, else `why`.
TearDown(d, why) ==
    flow' = [flow EXCEPT ![d].stage = "stop",
                         ![d].why = IF flow[d].cancelling THEN "cancel" ELSE why]

Stage(d, stage) == flow' = [flow EXCEPT ![d].stage = stage]

Claim(d, state) == claim' = [claim EXCEPT ![d] = state]

\* The schedule step: the claim and its slots in one transaction.
Reserve(d) ==
    /\ flow[d].stage = "new"
    /\ Fits(d, Held)
    /\ Claim(d, "reserved")
    /\ Stage(d, "prepare")
    /\ UNCHANGED <<retirement, sent, mailbox, agent, running, faults>>

\* A user asks for the cancellation; the flow notices at its next step.
RequestCancellation(d) ==
    /\ flow[d].stage \in {"prepare", "dispatch", "observe", "stop", "release"}
    /\ flow[d].why \in {"none", "fail"} /\ ~flow[d].cancelling
    /\ flow' = [flow EXCEPT ![d].cancelling = TRUE]
    /\ UNCHANGED <<retirement, claim, sent, mailbox, agent, running, faults>>

\* A cancellation ends prepare (when nothing was sent), dispatch and observe.
NoticeCancellation(d) ==
    /\ flow[d].cancelling
    /\ \/ flow[d].stage = "prepare" /\ claim[d] = "reserved"
       \/ flow[d].stage \in {"dispatch", "observe"}
    /\ TearDown(d, "cancel")
    /\ UNCHANGED <<retirement, claim, sent, mailbox, agent, running, faults>>

\* The convergence or apply deadline passes before the command is sent.
MissDeadline(d) ==
    /\ ~flow[d].cancelling
    /\ \/ flow[d].stage = "prepare" /\ claim[d] = "reserved"
       \/ flow[d].stage = "dispatch" /\ "apply" \notin flow[d].recorded
    /\ TearDown(d, "fail")
    /\ UNCHANGED <<retirement, claim, sent, mailbox, agent, running, faults>>

\* prepare: enqueue the command, then begin_preparation.
SendPrepare(d) ==
    /\ flow[d].stage = "prepare" /\ claim[d] = "reserved" /\ ~flow[d].cancelling
    /\ Outcome(d, "prepare") = "none"
    /\ Enqueue(d, "prepare")
    /\ \/ /\ Claim(d, "preparing")
          /\ flow' = [flow EXCEPT ![d].recorded = @ \union {"prepare"}]
       \/ UNCHANGED <<claim, flow>>
    /\ UNCHANGED <<retirement, agent, running, faults>>

\* prepare again after the enqueue alone: the identity is the same, issued_at
\* is not, and Fleet answers Conflict until the step's retries are used up.
PrepareConflicts(d) ==
    /\ flow[d].stage = "prepare" /\ claim[d] = "reserved" /\ ~flow[d].cancelling
    /\ Outcome(d, "prepare") # "none"
    /\ Stage(d, "failed")
    /\ UNCHANGED <<retirement, claim, sent, mailbox, agent, running, faults>>

RecordPrepared(d) ==
    /\ flow[d].stage = "prepare" /\ claim[d] = "preparing"
    /\ Succeeded(d, "prepare")
    /\ Claim(d, "prepared")
    /\ IF flow[d].cancelling THEN TearDown(d, "cancel") ELSE Stage(d, "dispatch")
    /\ UNCHANGED <<retirement, sent, mailbox, agent, running, faults>>

\* The claim has left the preparation: its replica is being retired.
FindClaimTaken(d) ==
    /\ flow[d].stage = "prepare"
    /\ claim[d] \in {"releasing", "released", "orphaned"}
    /\ TearDown(d, "fail")
    /\ UNCHANGED <<retirement, claim, sent, mailbox, agent, running, faults>>

\* The Agent refused, or did not answer in time: the claim is orphaned.
PrepareFails(d) ==
    /\ flow[d].stage = "prepare" /\ claim[d] = "preparing"
    /\ ~Succeeded(d, "prepare")
    /\ Acknowledged(d, "prepare") \/ sent[d]["prepare"].late
    /\ Claim(d, "orphaned")
    /\ TearDown(d, "fail")
    /\ UNCHANGED <<retirement, sent, mailbox, agent, running, faults>>

\* dispatch_bound: enqueue the apply, then mark_dispatched.  A repeated step
\* rebuilds the same command.  mark_dispatched may lose to a cancellation, and
\* refuses for good when the replica is no longer desired.
SendApply(d) ==
    /\ flow[d].stage = "dispatch" /\ ~flow[d].cancelling
    /\ claim[d] \in {"prepared", "bound"}
    /\ IF Outcome(d, "apply") = "none" THEN Enqueue(d, "apply")
                                       ELSE UNCHANGED <<sent, mailbox>>
    /\ IF retirement[d] # "none"
       THEN Stage(d, "failed")
       ELSE \/ flow' = [flow EXCEPT ![d].stage = "observe",
                                    ![d].recorded = @ \union {"apply"}]
            \/ Outcome(d, "apply") = "none" /\ UNCHANGED flow
    /\ UNCHANGED <<retirement, claim, agent, running, faults>>

\* prepared_binding_for_dispatch and persist_runtime_binding err on a claim
\* that a retirement has begun to release.
FindClaimReleased(d) ==
    /\ ~flow[d].cancelling
    /\ \/ flow[d].stage = "dispatch"
       \/ flow[d].stage = "observe" /\ Succeeded(d, "apply")
    /\ claim[d] \notin {"prepared", "bound"}
    /\ Stage(d, "failed")
    /\ UNCHANGED <<retirement, claim, sent, mailbox, agent, running, faults>>

\* observe_bound finds the unit's observation: bind the claim, then judge it;
\* mark_verifying refuses when the replica is no longer desired.
ObserveUnit(d) ==
    /\ flow[d].stage = "observe" /\ ~flow[d].cancelling
    /\ Succeeded(d, "apply")
    /\ claim[d] \in {"prepared", "bound"}
    /\ Claim(d, "bound")
    /\ \/ Stage(d, IF retirement[d] = "none" THEN "active" ELSE "failed")
       \/ TearDown(d, "fail")
    /\ UNCHANGED <<retirement, sent, mailbox, agent, running, faults>>

ApplyFails(d) ==
    /\ flow[d].stage = "observe" /\ ~flow[d].cancelling
    /\ ~Succeeded(d, "apply")
    /\ Acknowledged(d, "apply") \/ sent[d]["apply"].late
    /\ TearDown(d, "fail")
    /\ UNCHANGED <<retirement, claim, sent, mailbox, agent, running, faults>>

-----------------------------------------------------------------------------
(* Taking the unit down: `stop` for the flow, `remove` for the retirement. *)

\* A failed candidate that is cancelled meanwhile: the step errs for good.
Overtaken(d) == flow[d].why = "fail" /\ flow[d].cancelling

\* Mutant: an apply that failed has left nothing behind.
NotApplied(d) == ~Succeeded(d, "apply")

\* No Runtime command was recorded for the deployment, none is to be undone.
NotDispatched(d) == "apply" \notin flow[d].recorded

NothingToStop(d) ==
    /\ flow[d].stage = "stop" /\ ~Overtaken(d)
    /\ NotDispatched(d)
    /\ Stage(d, "release")
    /\ UNCHANGED <<retirement, claim, sent, mailbox, agent, running, faults>>

\* Mutant: a command that expired is left as it is.
RetryUnlessExpired(d, k) == Outcome(d, k) \in {"none", "failed"}

\* The first attempt, or one more after a retryable failure or an expiry; the
\* cancellation path takes the Agent's own command_expired for final.
AttemptDue(d, k) ==
    \/ Outcome(d, k) \in {"none", "failed"}
    \/ Outcome(d, k) = "pending" /\ sent[d][k].late
    \/ Outcome(d, k) = "expired" /\ (k = "remove" \/ flow[d].why = "fail")

SendStop(d) ==
    /\ flow[d].stage = "stop" /\ ~Overtaken(d) /\ ~NotDispatched(d)
    /\ AttemptDue(d, "stop")
    /\ Enqueue(d, "stop")
    /\ UNCHANGED <<flow, retirement, claim, agent, running, faults>>

\* Only RuntimeStopped or RuntimeRemoved proves the unit gone.
Evidence(d, k) == Succeeded(d, k)

ObserveStop(d) ==
    /\ flow[d].stage = "stop" /\ ~Overtaken(d)
    /\ Evidence(d, "stop")
    /\ Stage(d, "release")
    /\ UNCHANGED <<retirement, claim, sent, mailbox, agent, running, faults>>

\* The cleanup deadline, a final rejection, or an overtaken candidate: the
\* deployment fails and its claim stays as it is.
StopFails(d) ==
    /\ flow[d].stage = "stop"
    /\ Stage(d, "failed")
    /\ UNCHANGED <<retirement, claim, sent, mailbox, agent, running, faults>>

\* The replica set shrinks or its node is drained; nobody asks how far the
\* deployment of the replica is.
Retire(d) ==
    /\ retirement[d] = "none"
    /\ flow[d].stage \notin {"new", "done"}
    /\ retirement' = [retirement EXCEPT ![d] = "remove"]
    /\ UNCHANGED <<flow, claim, sent, mailbox, agent, running, faults>>

\* reconcile_runtime_removal.
SendRemove(d) ==
    /\ retirement[d] = "remove"
    /\ AttemptDue(d, "remove")
    /\ Enqueue(d, "remove")
    /\ UNCHANGED <<flow, retirement, claim, agent, running, faults>>

\* record_replica_runtime_fenced: from here on the unit counts as gone.
RecordFenced(d) ==
    /\ retirement[d] = "remove"
    /\ Evidence(d, "remove")
    /\ retirement' = [retirement EXCEPT ![d] = "release"]
    /\ UNCHANGED <<flow, claim, sent, mailbox, agent, running, faults>>

-----------------------------------------------------------------------------
(* The release step of the flow, and the retirement's                      *)
(* reconcile_claim_release, which makes the same moves.                    *)

Releasing(d) == flow[d].stage = "release" \/ retirement[d] = "release"

\* Mutant: an orphaned claim is cancelled in the database as well.
CancelOrphan(d) == claim[d] \in {"reserved", "orphaned"}

\* cancel_database_reservation applies: nothing was recorded as sent.
Unsent(d) == claim[d] = "reserved"

CancelReservation(d) ==
    /\ Releasing(d) /\ Unsent(d)
    /\ Claim(d, "released")
    /\ UNCHANGED <<flow, retirement, sent, mailbox, agent, running, faults>>

\* begin_release, after orphan when the preparation is under way; then the
\* command of the new generation.
BeginRelease(d) ==
    /\ Releasing(d)
    /\ claim[d] \in {"preparing", "prepared", "bound", "orphaned"}
    /\ Claim(d, "releasing")
    /\ Enqueue(d, "release")
    /\ UNCHANGED <<flow, retirement, agent, running, faults>>

RecordReleased(d) ==
    /\ Releasing(d) /\ claim[d] = "releasing"
    /\ ~sent[d]["release"].late
    /\ Succeeded(d, "release")
    /\ Claim(d, "released")
    /\ UNCHANGED <<flow, retirement, sent, mailbox, agent, running, faults>>

\* The deadline is looked at before the answer.
OrphanRelease(d) ==
    /\ Releasing(d) /\ claim[d] = "releasing"
    /\ \/ sent[d]["release"].late
       \/ Outcome(d, "release") \in {"failed", "expired"}
    /\ Claim(d, "orphaned")
    /\ UNCHANGED <<flow, retirement, sent, mailbox, agent, running, faults>>

\* A release that predates the fencing of the unit is not accepted: the flow's
\* step errs for good, the retirement's round errs until the deadline.
RejectReleased(d) ==
    /\ flow[d].stage = "release" /\ claim[d] = "releasing"
    /\ ~sent[d]["release"].late
    /\ Outcome(d, "release") = "predates"
    /\ Stage(d, "failed")
    /\ UNCHANGED <<retirement, claim, sent, mailbox, agent, running, faults>>

\* A released claim completes the flow's path, or the retirement.
FinishRelease(d) ==
    /\ claim[d] = "released"
    /\ \/ flow[d].stage = "release" /\ Stage(d, "done") /\ UNCHANGED retirement
       \/ /\ retirement[d] = "release"
          /\ retirement' = [retirement EXCEPT ![d] = "done"]
          /\ UNCHANGED flow
    /\ UNCHANGED <<claim, sent, mailbox, agent, running, faults>>

\* The flow has a deadline for the release, the retirement has none.
ReleaseFails(d) ==
    /\ flow[d].stage = "release"
    /\ claim[d] \in {"prepared", "bound", "orphaned"}
    /\ Stage(d, "failed")
    /\ UNCHANGED <<retirement, claim, sent, mailbox, agent, running, faults>>

-----------------------------------------------------------------------------
(* The Agent settles the next command of its mailbox.                      *)

Settle(d, k, outcome) ==
    /\ Len(mailbox) > 0 /\ Head(mailbox) = <<d, k>>
    /\ mailbox' = Tail(mailbox)
    /\ sent' = [sent EXCEPT ![d][k].outcome = outcome]
    /\ UNCHANGED <<flow, retirement, claim>>

Quietly == UNCHANGED <<agent, running, faults>>

\* execute: past not_after nothing is run.
AgentRejectsExpired(d, k) ==
    /\ sent[d][k].late
    /\ Settle(d, k, "expired")
    /\ Quietly

\* It ended after not_after, or failed on the way: no result is recorded,
\* whatever was done to the unit by then.
AgentFails(d, k) ==
    /\ ~sent[d][k].late
    /\ faults < MaxFaults
    /\ faults' = faults + 1
    /\ Settle(d, k, "failed")
    /\ CASE k = "apply" /\ agent[d].active -> running' \in {running, running \union {d}}
         [] k \in {"stop", "remove"}        -> running' \in {running, running \ {d}}
         [] OTHER                          -> UNCHANGED running
    /\ UNCHANGED agent

\* validate_prepare, then activate_prepared.
AgentPrepares(d) ==
    /\ ~sent[d]["prepare"].late
    /\ IF Fits(d, Active)
       THEN /\ Settle(d, "prepare", "succeeded")
            /\ agent' = [agent EXCEPT ![d].active = TRUE, ![d].released = FALSE]
            /\ UNCHANGED <<running, faults>>
       ELSE Settle(d, "prepare", "failed") /\ Quietly

\* validate_runtime_apply, then the Runtime.
AgentApplies(d) ==
    /\ ~sent[d]["apply"].late
    /\ IF agent[d].active
       THEN /\ Settle(d, "apply", "succeeded")
            /\ agent' = [agent EXCEPT ![d].bound = TRUE, ![d].fenced = FALSE]
            /\ running' = running \union {d}
            /\ UNCHANGED faults
       ELSE Settle(d, "apply", "failed") /\ Quietly

\* mark_runtime_fenced.
AgentStops(d, k) ==
    /\ k \in {"stop", "remove"} /\ ~sent[d][k].late
    /\ Settle(d, k, "succeeded")
    /\ running' = running \ {d}
    /\ agent' = [agent EXCEPT ![d].fenced = agent[d].active \/ @]
    /\ UNCHANGED faults

\* validate_release: once, and never while a bound unit is not fenced.
Releasable(d) ==
    /\ ~agent[d].released
    /\ ~(agent[d].active /\ agent[d].bound /\ ~agent[d].fenced)

AgentReleases(d) ==
    /\ ~sent[d]["release"].late
    /\ IF Releasable(d)
       THEN /\ \/ Settle(d, "release", "succeeded") /\ UNCHANGED faults
               \/ /\ Settle(d, "release", "predates")
                  /\ faults < MaxFaults /\ faults' = faults + 1
            /\ agent' = [agent EXCEPT ![d].active = FALSE, ![d].released = TRUE]
            /\ UNCHANGED running
       ELSE Settle(d, "release", "failed") /\ Quietly

-----------------------------------------------------------------------------
FlowStep(d) ==
    \/ NoticeCancellation(d) \/ MissDeadline(d)
    \/ SendPrepare(d) \/ PrepareConflicts(d) \/ RecordPrepared(d)
    \/ FindClaimTaken(d) \/ PrepareFails(d)
    \/ SendApply(d) \/ FindClaimReleased(d) \/ ObserveUnit(d) \/ ApplyFails(d)
    \/ NothingToStop(d) \/ SendStop(d) \/ ObserveStop(d) \/ StopFails(d)
    \/ ReleaseFails(d) \/ RejectReleased(d)

RetirementStep(d) == SendRemove(d) \/ RecordFenced(d)

ReleaseStep(d) ==
    \/ CancelReservation(d) \/ BeginRelease(d) \/ RecordReleased(d)
    \/ OrphanRelease(d) \/ FinishRelease(d)

AgentStep ==
    \E d \in Deployments :
        \/ \E k \in Kinds :
              AgentRejectsExpired(d, k) \/ AgentFails(d, k) \/ AgentStops(d, k)
        \/ AgentPrepares(d) \/ AgentApplies(d) \/ AgentReleases(d)

Next ==
    \/ \E d \in Deployments :
           \/ Reserve(d) \/ RequestCancellation(d) \/ Retire(d)
           \/ FlowStep(d) \/ RetirementStep(d) \/ ReleaseStep(d)
           \/ \E k \in Kinds : Expire(d, k)
    \/ AgentStep

Spec == Init /\ [][Next]_vars

\* The flow's engine and the reconciler keep polling, and the Agent keeps
\* working off its mailbox.
FairSpec ==
    /\ Spec
    /\ WF_vars(AgentStep)
    /\ \A d \in Deployments :
           /\ WF_vars(FlowStep(d))
           /\ WF_vars(RetirementStep(d))
           /\ WF_vars(ReleaseStep(d))

-----------------------------------------------------------------------------
\* Types of the control plane's, the mailbox's and the Agent's state; the
\* mailbox holds exactly the commands that are pending, each once.
TypeOK ==
    /\ flow \in [Deployments -> Flow]
    /\ retirement \in [Deployments -> {"none", "remove", "release", "done"}]
    /\ claim \in [Deployments -> ClaimState]
    /\ sent \in [Deployments -> [Kinds -> Sent]]
    /\ mailbox \in Seq(Deployments \X Kinds)
    /\ agent \in [Deployments -> Projected]
    /\ running \subseteq Deployments
    /\ faults \in 0..MaxFaults
    /\ \A d \in Deployments, k \in Kinds :
           Outcome(d, k) = "pending" <=>
               \E i \in DOMAIN mailbox : mailbox[i] = <<d, k>>
    /\ IsInjective(mailbox)

\* The unit's apply was sent and never recorded, because the write after
\* enqueue_command was lost, or refused to a deployment that was cancelled or
\* retired meanwhile, and the claim's release was asked for all the same:
\* nobody has stopped the unit.
Stray(d) == Unrecorded(d, "apply") /\ Outcome(d, "release") # "none"

\* No two units run on one exclusive slot and the units that run never need
\* more of a shared slot than the node has, whatever expires, fails half-way,
\* is cancelled or is retired under its own deployment: a slot is given away
\* only after its unit is gone.  The exception is a stray unit, one whose
\* apply was never recorded as sent.
NoSharedUse ==
    LET users == {d \in running : ~Stray(d)}
    IN  \A d \in users : Fits(d, users)

\* The same without the exception.
NoUnitsShareSlots == \A d \in running : Fits(d, running)

\* The claim was cancelled in the database as one that was never sent, while
\* its prepare, sent and not recorded, is with the Agent.
Forgotten(d) == claim[d] = "released" /\ Unrecorded(d, "prepare")

\* What the Agent holds the database holds: a claim is not given up in the
\* database while the Agent has it prepared, so the next claim the scheduler
\* places on these slots is not refused by the Agent.  The exception is a
\* claim whose prepare was sent and never recorded.
AgentClaimsAreHeld == \A d \in Active : d \in Held \/ Forgotten(d)

\* The same without the exception.
EveryPreparedClaimIsHeld == Active \subseteq Held

\* The Agent has released the claim and Workloads has not taken its answer,
\* which came after the deadline or predates the fencing: the Agent refuses
\* every later generation as already released.
AnswerMissed(d) ==
    /\ agent[d].released
    /\ claim[d] \in {"releasing", "orphaned"}
    /\ sent[d]["release"].late \/ ~Succeeded(d, "release")

\* A retired replica's unit is removed and its claim released in the end:
\* commands that expire before the Agent sees them are made good by later
\* ones.  Two exceptions: the removal has to begin after the replica's
\* deployment has ended, for which nothing in the retirement waits; and a
\* release whose answer is not taken is never made good.
RetirementCompletes ==
    \A d \in Deployments :
        /\ retirement[d] = "remove" /\ Outcome(d, "remove") = "none"
        /\ flow[d].stage \in {"active", "failed", "done"}
        ~> retirement[d] = "done" \/ AnswerMissed(d)

\* The same without the second exception.
EveryRetirementCompletes ==
    \A d \in Deployments :
        /\ retirement[d] = "remove" /\ Outcome(d, "remove") = "none"
        /\ flow[d].stage \in {"active", "failed", "done"}
        ~> retirement[d] = "done"
===============================================================================
