--------------------------- MODULE CommandChannel ---------------------------
(***************************************************************************)
(* Fleet's mailbox and one Node Agent joined by the outbound mTLS control  *)
(* protocol.  The agent runs synchronize_once in a loop: deliver pending   *)
(* completions, lease a batch, execute and deliver each command            *)
(* (crates/node-agent/src/agent.rs, executor.rs); a second task sends      *)
(* heartbeats.  Requests may be lost, overtaken, or handled after the      *)
(* agent stopped waiting; responses may be lost; the agent process may     *)
(* crash at any step and start again with nothing but its journal.         *)
(***************************************************************************)
EXTENDS FleetMailbox, CommandJournal

CONSTANTS
  MaxFaults,     \* bound: crashes, lost messages and premature timeouts
  FaultHorizon,  \* bound: from this time on there are no faults
  Events         \* bound: which of "heartbeat" and "revocation" an instance includes

ASSUME ChannelAssumption ==
  /\ MaxFaults \in Nat
  /\ FaultHorizon \in Nat
  /\ Events \subseteq {"heartbeat", "revocation"}

VARIABLES
  agent,      \* the volatile state of the command loop
  heartbeat,  \* the heartbeat request the heartbeat loop waits for
  net,        \* requests on their way to the control plane
  performed,  \* history: the sequence numbers whose side effect was run, in order
  faults,     \* how many faults have been spent
  exit        \* why the agent process ended on its own

channelVars == <<agent, heartbeat, net, performed, faults, exit>>
vars == <<mailboxVars, journalVars, channelVars>>

-----------------------------------------------------------------------------
(***************************************************************************)
(* A request the agent no longer waits for is marked abandoned: it is      *)
(* still handled, but its response goes nowhere.  The agent waits for one  *)
(* request at a time in each task, so at most one copy of a request is not *)
(* abandoned; equal abandoned requests are not told apart.                 *)
(***************************************************************************)
Requests ==
  [type : {"lease"}, after : Nat, abandoned : BOOLEAN]
    \cup [type : {"ack"}, ack : Ack, abandoned : BOOLEAN]
    \cup [type : {"observe"}, reports : SUBSET Report, observedAt : Int, abandoned : BOOLEAN]
NoRequest == [type |-> "none"]

LeaseRequest(after) == [type |-> "lease", after |-> after, abandoned |-> FALSE]
AckRequest(ack) == [type |-> "ack", ack |-> ack, abandoned |-> FALSE]
ObserveRequest(rs, t) ==
  [type |-> "observe", reports |-> rs, observedAt |-> t, abandoned |-> FALSE]

\* The requests in flight once nobody waits for those in gone any more
Abandon(requests, gone) ==
  (requests \ gone) \cup { [r EXCEPT !.abandoned = TRUE] : r \in requests \cap gone }

Replies ==
  [status : {"none", "ok", "conflict", "refused"}, until : Int, batch : SUBSET Envelope]
Reply(status) == [status |-> status, until |-> 0, batch |-> {}]
NoReply == Reply("none")

Phases == {"down", "sync", "pending", "deliver", "reporting", "acking", "polling", "batch",
           "begun", "dispatching", "dispatched", "completing"}
Waiting == {"reporting", "acking", "polling"}

Exits == {"none", "journal_conflict", "lease_expired", "observation_rejected", "refused"}

ChannelTypeOK ==
  /\ MailboxTypeOK
  /\ JournalTypeOK
  /\ agent \in [pc : Phases, pending : SUBSET Nat, batch : SUBSET Envelope, current : Nat,
                outcome : Outcomes \cup {"none"}, awaiting : Requests \cup {NoRequest},
                reply : Replies]
  /\ heartbeat \in Requests \cup {NoRequest}
  /\ net \subseteq Requests
  /\ performed \in Seq(Nat)
  /\ faults \in Nat
  /\ exit \in Exits

\* What is left of the command loop's state when it starts over
Fresh(pc) ==
  [pc |-> pc, pending |-> {}, batch |-> {}, current |-> 0, outcome |-> "none",
   awaiting |-> NoRequest, reply |-> NoReply]

Init ==
  /\ MailboxInit
  /\ JournalInit
  /\ agent = Fresh("sync")
  /\ heartbeat = NoRequest
  /\ net = {}
  /\ performed = <<>>
  /\ faults = 0
  /\ exit = "none"

AgentNow == now + ClockOffset
Later(s, t) == IF s >= t THEN s ELSE t
Current == entries[agent.current].cmd

-----------------------------------------------------------------------------
(***************************************************************************)
(* The agent's command loop                                                *)
(***************************************************************************)
Stop(reason, requests) ==
  /\ agent' = Fresh("down")
  /\ heartbeat' = NoRequest
  /\ net' = Abandon(requests, {agent.awaiting, heartbeat})
  /\ exit' = reason

Send(request, pc) ==
  /\ net' = net \cup {request}
  /\ agent' = [agent EXCEPT !.pc = pc, !.awaiting = request, !.reply = NoReply]

StartSync ==
  /\ agent.pc = "sync"
  /\ agent' = [Fresh("pending") EXCEPT !.pending = PendingAcknowledgements]
  /\ UNCHANGED <<mailboxVars, journalVars, heartbeat, net, performed, faults, exit>>

NextPending ==
  /\ agent.pc = "pending"
  /\ \E i \in agent.pending :
       /\ \A j \in agent.pending : i <= j
       /\ agent' = [agent EXCEPT !.pc = "deliver", !.current = i]
  /\ UNCHANGED <<mailboxVars, journalVars, heartbeat, net, performed, faults, exit>>

Poll ==
  /\ agent.pc = "pending"
  /\ agent.pending = {}
  /\ Send(LeaseRequest(lastAcknowledged), "polling")
  /\ UNCHANGED <<mailboxVars, journalVars, heartbeat, performed, faults, exit>>

\* NodeCommandLeaseResponse::validate against the agent's own clock
ReceiveBatch ==
  /\ agent.pc = "polling"
  /\ agent.reply.status = "ok"
  /\ IF agent.reply.until > AgentNow
     THEN /\ agent' = [agent EXCEPT !.pc = "batch", !.batch = agent.reply.batch,
                                    !.awaiting = NoRequest, !.reply = NoReply]
          /\ UNCHANGED <<heartbeat, net, exit>>
     ELSE Stop("lease_expired", net)
  /\ UNCHANGED <<mailboxVars, journalVars, performed, faults>>

BatchDone ==
  /\ agent.pc = "batch"
  /\ agent.batch = {}
  /\ agent' = Fresh("sync")
  /\ UNCHANGED <<mailboxVars, journalVars, heartbeat, net, performed, faults, exit>>

IsNext(env) == env \in agent.batch /\ \A e \in agent.batch : env.cmd.sequence <= e.cmd.sequence

\* Mutant: a redelivered command is run again although it completed
BeginAgain(env) ==
  /\ agent.pc = "batch"
  /\ IsNext(env)
  /\ \/ BeginNew(env) /\ agent' = [agent EXCEPT !.pc = "begun", !.batch = @ \ {env},
                                                 !.current = Len(entries) + 1]
     \/ \E i \in DOMAIN entries :
          /\ BeginRedelivered(env, i)
          /\ agent' = [agent EXCEPT !.pc = "begun", !.batch = @ \ {env}, !.current = i]
  /\ UNCHANGED <<mailboxVars, heartbeat, net, performed, faults, exit>>

\* execute: journal.begin says whether to run the command or to replay it
BeginCommand(env) ==
  /\ agent.pc = "batch"
  /\ IsNext(env)
  /\ \/ /\ BeginNew(env)
        /\ agent' = [agent EXCEPT !.pc = "begun", !.batch = @ \ {env},
                                  !.current = Len(entries) + 1]
     \/ \E i \in DOMAIN entries :
          /\ BeginRedelivered(env, i)
          /\ agent' = [agent EXCEPT !.pc = IF Completed(i) THEN "deliver" ELSE "begun",
                                    !.batch = @ \ {env}, !.current = i]
  /\ UNCHANGED <<mailboxVars, heartbeat, net, performed, faults, exit>>

RefuseCommand(env) ==
  /\ agent.pc = "batch"
  /\ IsNext(env)
  /\ BeginConflicts(env)
  /\ Stop("journal_conflict", net)
  /\ UNCHANGED <<mailboxVars, journalVars, performed, faults>>

\* Mutant: an expired command is completed without an outcome
CheckDeadlineOnly ==
  /\ agent.pc = "begun"
  /\ agent' = [agent EXCEPT !.pc = IF IsExpiredAt(Current, AgentNow) THEN "completing"
                                                                    ELSE "dispatching"]
  /\ UNCHANGED <<mailboxVars, journalVars, heartbeat, net, performed, faults, exit>>

CheckDeadline ==
  /\ agent.pc = "begun"
  /\ agent' = IF IsExpiredAt(Current, AgentNow)
              THEN [agent EXCEPT !.pc = "completing", !.outcome = "expired"]
              ELSE [agent EXCEPT !.pc = "dispatching"]
  /\ UNCHANGED <<mailboxVars, journalVars, heartbeat, net, performed, faults, exit>>

\* dispatch: the Runtime, Gateway or provider is external.  A failure may
\* strike before or after the side effect.
Dispatch(outcome) ==
  /\ agent.pc = "dispatching"
  /\ \/ /\ outcome \in Successes(Current.payload.kind)
        /\ performed' = Append(performed, agent.current)
        /\ agent' = [agent EXCEPT !.pc = "dispatched", !.outcome = outcome]
     \/ /\ outcome \in Failures
        /\ performed' \in {performed, Append(performed, agent.current)}
        /\ agent' = [agent EXCEPT !.pc = "completing", !.outcome = outcome]
  /\ UNCHANGED <<mailboxVars, journalVars, heartbeat, net, faults, exit>>

\* A success is turned into a failure when the deadline has passed by now ...
JudgeDeadline ==
  /\ agent.pc = "dispatched"
  /\ agent' = [agent EXCEPT !.pc = "completing",
                            !.outcome = IF AgentNow > Current.notAfter THEN "late" ELSE @]
  /\ UNCHANGED <<mailboxVars, journalVars, heartbeat, net, performed, faults, exit>>

\* ... and completed_at is read from the clock afterwards
CompleteCommand ==
  /\ agent.pc = "completing"
  /\ Complete(agent.current, Later(AgentNow, Current.issuedAt), agent.outcome)
  /\ agent' = [agent EXCEPT !.pc = "deliver", !.outcome = "none"]
  /\ UNCHANGED <<mailboxVars, heartbeat, net, performed, faults, exit>>

(***************************************************************************)
(* deliver_completion: the observation first, then the acknowledgement     *)
(***************************************************************************)
ReportOf(i) == [id |-> entries[i].cmd.id, observedAt |-> entries[i].completion.completedAt]

DeliverObservation ==
  /\ agent.pc = "deliver"
  /\ entries[agent.current].completion.outcome = "observed"
  /\ LET report == ReportOf(agent.current) IN
     Send(ObserveRequest({report}, Later(AgentNow, report.observedAt)), "reporting")
  /\ UNCHANGED <<mailboxVars, journalVars, heartbeat, performed, faults, exit>>

\* Mutant: the acknowledgement does not wait for the observation
DeliverUnobserved ==
  /\ agent.pc = "deliver"
  /\ Send(AckRequest(Acknowledgement(agent.current)), "acking")
  /\ UNCHANGED <<mailboxVars, journalVars, heartbeat, performed, faults, exit>>

DeliverAcknowledgement ==
  /\ \/ /\ agent.pc = "deliver"
        /\ entries[agent.current].completion.outcome # "observed"
     \/ /\ agent.pc = "reporting"
        /\ agent.reply.status = "ok"
  /\ Send(AckRequest(Acknowledgement(agent.current)), "acking")
  /\ UNCHANGED <<mailboxVars, journalVars, heartbeat, performed, faults, exit>>

ReceiveReceipt ==
  /\ agent.pc = "acking"
  /\ agent.reply.status = "ok"
  /\ MarkAcknowledged(agent.current)
  /\ agent' = [agent EXCEPT !.pc = IF agent.current \in agent.pending THEN "pending" ELSE "batch",
                            !.pending = @ \ {agent.current},
                            !.awaiting = NoRequest, !.reply = NoReply]
  /\ UNCHANGED <<mailboxVars, heartbeat, net, performed, faults, exit>>

\* Mutant: the agent goes on with the batch
ReceiveConflictAndGoOn ==
  /\ agent.pc = "acking"
  /\ agent.reply.status = "conflict"
  /\ agent' = IF agent.current \in agent.pending
              THEN Fresh("pending")
              ELSE [agent EXCEPT !.pc = "batch", !.awaiting = NoRequest, !.reply = NoReply]
  /\ UNCHANGED <<mailboxVars, journalVars, heartbeat, net, performed, faults, exit>>

\* HTTP 409: the agent gives this round up and polls for redelivery
ReceiveConflict ==
  /\ agent.pc = "acking"
  /\ agent.reply.status = "conflict"
  /\ agent' = Fresh(IF agent.current \in agent.pending THEN "pending" ELSE "sync")
  /\ UNCHANGED <<mailboxVars, journalVars, heartbeat, net, performed, faults, exit>>

\* Any other refusal is not retryable and ends the process
ReceiveRefusal ==
  /\ agent.pc \in Waiting
  /\ \/ agent.reply.status = "refused" /\ Stop("refused", net)
     \/ /\ agent.pc = "reporting"
        /\ agent.reply.status = "conflict"
        /\ Stop("observation_rejected", net)
  /\ UNCHANGED <<mailboxVars, journalVars, performed, faults>>

(***************************************************************************)
(* heartbeat_loop, which runs beside the command loop                      *)
(***************************************************************************)
Beat ==
  /\ "heartbeat" \in Events
  /\ agent.pc # "down"
  /\ heartbeat = NoRequest
  /\ heartbeat' = ObserveRequest({}, AgentNow)
  /\ net' = net \cup {heartbeat'}
  /\ UNCHANGED <<mailboxVars, journalVars, agent, performed, faults, exit>>
-----------------------------------------------------------------------------
(***************************************************************************)
(* The control plane handles a request.  A response reaches the agent only *)
(* if it still waits for that very request.                                *)
(***************************************************************************)
Fault ==
  /\ faults < MaxFaults
  /\ now < FaultHorizon
  /\ faults' = faults + 1

Respond(request, reply) ==
  /\ net' = net \ {request}
  /\ \/ /\ agent' = IF agent.awaiting = request THEN [agent EXCEPT !.reply = reply] ELSE agent
        /\ UNCHANGED faults
     \/ /\ agent.awaiting = request
        /\ UNCHANGED agent
        /\ Fault
  /\ UNCHANGED <<journalVars, heartbeat, performed, exit>>

HandleLease(request, t) ==
  /\ request.type = "lease"
  /\ LeaseCommands(request.after, t)
  /\ Respond(request, [status |-> "ok", until |-> t + LeaseDuration,
                       batch |-> LeaseBatch(request.after, t)])

HandleAck(request) ==
  /\ request.type = "ack"
  /\ Acknowledge(request.ack)
  /\ Respond(request, Reply(IF AckAccepted(request.ack) THEN "ok" ELSE "conflict"))

HandleReport(request) ==
  /\ request.type = "observe"
  /\ request.reports # {}
  /\ \/ /\ RecordObservations(request.reports, request.observedAt)
        /\ Respond(request, Reply("ok"))
     \/ /\ ~ObservationsAccepted(request.reports, request.observedAt)
        /\ UNCHANGED mailboxVars
        /\ Respond(request, Reply(IF revoked THEN "refused" ELSE "conflict"))

\* The revoked node's certificate no longer authenticates (HTTP 401); lease
\* also refuses the revoked node itself (HTTP 404).  A request authenticated
\* just before the revocation is still handled.
RefuseRevoked(request) ==
  /\ revoked
  /\ request.type \in {"lease", "ack"}
  /\ UNCHANGED mailboxVars
  /\ Respond(request, Reply("refused"))

\* The heartbeat loop has nothing to do with a good answer; a refused
\* heartbeat ends it and with it the process
HandleHeartbeat(request) ==
  /\ request.type = "observe"
  /\ request.reports = {}
  /\ \/ /\ RecordObservations({}, request.observedAt)
        /\ heartbeat' = IF heartbeat = request THEN NoRequest ELSE heartbeat
        /\ net' = net \ {request}
        /\ UNCHANGED <<agent, exit>>
     \/ /\ ~ObservationsAccepted({}, request.observedAt)
        /\ UNCHANGED mailboxVars
        /\ IF heartbeat = request
           THEN Stop(IF revoked THEN "refused" ELSE "observation_rejected", net \ {request})
           ELSE /\ net' = net \ {request}
                /\ UNCHANGED <<agent, heartbeat, exit>>
  /\ UNCHANGED <<journalVars, performed, faults>>

-----------------------------------------------------------------------------
(***************************************************************************)
(* Faults                                                                  *)
(***************************************************************************)
LoseRequest(request) ==
  /\ Fault
  /\ net' = net \ {request}
  /\ heartbeat' = IF heartbeat = request THEN NoRequest ELSE heartbeat
  /\ UNCHANGED <<mailboxVars, journalVars, agent, performed, exit>>

\* A transport error is retryable: the loop starts over after a back-off.
\* The request is gone (lost, or answered in vain), or is only late.
GiveUp ==
  /\ agent.pc \in Waiting
  /\ agent.reply = NoReply
  /\ agent' = Fresh("sync")
  /\ net' = Abandon(net, {agent.awaiting})
  /\ UNCHANGED <<mailboxVars, journalVars, heartbeat, performed, exit>>
Timeout == agent.awaiting \notin net /\ GiveUp /\ UNCHANGED faults
TimeoutEarly == agent.awaiting \in net /\ GiveUp /\ Fault

Crash ==
  /\ agent.pc # "down"
  /\ Fault
  /\ Stop("none", net)
  /\ UNCHANGED <<mailboxVars, journalVars, performed>>

Restart ==
  /\ agent.pc = "down"
  /\ agent' = Fresh("sync")
  /\ exit' = "none"
  /\ UNCHANGED <<mailboxVars, journalVars, heartbeat, net, performed, faults>>
-----------------------------------------------------------------------------
\* No request stays on its way past FaultHorizon once abandoned
ClockTick == Tick /\ (now + 1 = FaultHorizon => \A r \in net : ~r.abandoned)

MailboxStep ==
  /\ \/ ClockTick
     \/ "revocation" \in Events /\ Revoke
     \/ \E d \in Drafts, t \in RecentTimes : Enqueue(d, t)
  /\ UNCHANGED <<journalVars, channelVars>>

AgentStep ==
  \/ StartSync \/ NextPending \/ Poll \/ ReceiveBatch \/ BatchDone
  \/ \E env \in agent.batch : BeginCommand(env) \/ RefuseCommand(env)
  \/ CheckDeadline \/ \E o \in Outcomes : Dispatch(o)
  \/ JudgeDeadline \/ CompleteCommand
  \/ DeliverObservation \/ DeliverAcknowledgement
  \/ ReceiveReceipt \/ ReceiveConflict \/ ReceiveRefusal
  \/ Timeout \/ Restart

HandleRequest(request) ==
  \/ \E t \in RecentTimes : HandleLease(request, t)
  \/ HandleAck(request)
  \/ HandleReport(request)
  \/ RefuseRevoked(request)
  \/ HandleHeartbeat(request)

ControlPlaneStep == \E request \in net : HandleRequest(request)

FaultStep ==
  \/ \E request \in net : LoseRequest(request)
  \/ TimeoutEarly
  \/ Crash

Next == MailboxStep \/ AgentStep \/ Beat \/ ControlPlaneStep \/ FaultStep

Spec == Init /\ [][Next]_vars

(***************************************************************************)
(* The agent's loop keeps running, a supervisor restarts it, and dispatch  *)
(* returns; the control plane handles what reaches it, whether the agent   *)
(* still waits for it or not; time passes.  Nothing is assumed of the      *)
(* network: faults are finite in number.                                   *)
(***************************************************************************)
FairSpec ==
  /\ Spec
  /\ WF_vars(AgentStep)
  /\ WF_vars(\E request \in net : ~request.abandoned /\ HandleRequest(request))
  /\ WF_vars(\E request \in net : request.abandoned /\ HandleRequest(request))
  /\ WF_vars(MailboxStep /\ now' # now)

-----------------------------------------------------------------------------
(***************************************************************************)
(* Safety.  The mailbox and the journal are two databases that only ever   *)
(* meet through lossy requests; these properties say how they agree.       *)
(***************************************************************************)

(***************************************************************************)
(* What Fleet has settled is exactly what the journal decided, lease and   *)
(* completion time included, and a receipt the journal recorded stands for *)
(* an acknowledgement Fleet stored.  Crashes, rebinding to a newer lease   *)
(* and late duplicates of an acknowledgement must not pull them apart.     *)
(***************************************************************************)
SettlementAgreement ==
  /\ \A i \in DOMAIN rows : rows[i].ack # NoAck =>
       i \in DOMAIN entries /\ Completed(i) /\ rows[i].ack = Acknowledgement(i)
  /\ \A i \in DOMAIN entries : entries[i].acknowledged =>
       i \in DOMAIN rows /\ rows[i].ack # NoAck

(***************************************************************************)
(* The journal never holds two commands that are not yet settled: command  *)
(* n + 1 is not even journaled before the receipt for command n is.        *)
(***************************************************************************)
OneUnsettledCommand ==
  \A i \in DOMAIN entries : i < Len(entries) => entries[i].acknowledged

(***************************************************************************)
(* A command journaled as received is the command Fleet issued under that  *)
(* sequence number, whatever was redelivered under it.                     *)
(***************************************************************************)
JournalIsPrefix ==
  /\ Len(entries) <= Len(rows)
  /\ \A i \in DOMAIN entries : entries[i].cmd = rows[i].cmd

(***************************************************************************)
(* Redelivery after the outcome was journaled replays it: the side effect  *)
(* of a decided command is never run again.  (architecture.md: "Agent      *)
(* journal and Runtime identity prevent another side effect".)             *)
(***************************************************************************)
DecidedIsNotRepeated ==
  [][\A i \in DOMAIN entries :
       Completed(i) => (performed' = performed \/ performed'[Len(performed')] # i)]_vars

(***************************************************************************)
(* A removal is final for its generation: once the removal's effect ran,   *)
(* no apply of the same aggregate and generation runs after it.  Fleet's   *)
(* admission fence and the serial delivery are both needed for this.       *)
(***************************************************************************)
RemovalIsFinal ==
  \A i, j \in DOMAIN performed :
    LET first == rows[performed[i]].cmd
        second == rows[performed[j]].cmd IN
    ~ /\ i < j
      /\ first.payload.kind = "runtime_remove"
      /\ second.payload.kind = "runtime_apply"
      /\ first.aggregate = second.aggregate
      /\ first.payload.generation = second.payload.generation

(***************************************************************************)
(* Whoever sees a settled command whose result carries an observation      *)
(* finds the observation stored as well.                                   *)
(***************************************************************************)
ObservedBeforeSettled ==
  \A i \in DOMAIN rows : rows[i].ack # NoAck /\ rows[i].ack.outcome = "observed" =>
    \E r \in reports : r.id = rows[i].cmd.id /\ r.observedAt = rows[i].ack.completedAt

(***************************************************************************)
(* Whatever Fleet's generation fence admits, the journal's own fence       *)
(* admits too: a conflict in begin ends the agent process and, since the   *)
(* command stays first in line, ends it again after every restart.         *)
(***************************************************************************)
NoPoisonedCommand == exit # "journal_conflict"

(***************************************************************************)
(* The one command the journal refuses of those Fleet delivers is an apply *)
(* for the generation that is in force, when it or an earlier apply of     *)
(* that generation is bound to a resource claim: the two fences agree on   *)
(* everything else, and no loss, crash or re-lease brings a command before *)
(* its turn.                                                               *)
(***************************************************************************)
OnlyClaimedIsRefused ==
  exit = "journal_conflict" =>
    LET refused == rows[Len(entries) + 1].cmd IN
    /\ refused.payload.kind = "runtime_apply"
    /\ refused.payload.generation = generations[refused.aggregate].generation
    /\ \E i \in 1 .. Len(entries) + 1 :
         /\ rows[i].cmd.aggregate = refused.aggregate
         /\ rows[i].cmd.payload.kind = "runtime_apply"
         /\ rows[i].cmd.payload.generation = refused.payload.generation
         /\ rows[i].cmd.payload.claimed

(***************************************************************************)
(* A command settled as expired was not run: its message reads "command    *)
(* expired before Runtime dispatch" (executor.rs).                         *)
(***************************************************************************)
ExpiredWasNotRun ==
  \A i \in DOMAIN entries : entries[i].completion.outcome = "expired" =>
    \A j \in DOMAIN performed : performed[j] # i

(***************************************************************************)
(* A success the journal stamped past the command's own deadline: Fleet    *)
(* refuses its acknowledgement under every lease, and nothing behind it is *)
(* delivered.                                                              *)
(***************************************************************************)
LateSuccess ==
  \E i \in DOMAIN entries :
    /\ Completed(i)
    /\ Succeeds(entries[i].completion.outcome)
    /\ entries[i].completion.completedAt > entries[i].cmd.notAfter

(***************************************************************************)
(* Liveness: a command Fleet admitted is settled in the end, whatever was  *)
(* lost, repeated or expired on the way (architecture.md: "Fleet           *)
(* redelivers the same command"), unless the node is revoked, the journal  *)
(* refuses an apply over a resource claim (OnlyClaimedIsRefused), or the   *)
(* deadline passed between its last check and the stamp of a success.      *)
(***************************************************************************)
EveryCommandSettles ==
  \A id \in Ids :
    (\E i \in DOMAIN rows : rows[i].cmd.id = id)
      ~> \/ \E i \in DOMAIN rows : rows[i].cmd.id = id /\ rows[i].ack # NoAck
         \/ revoked \/ exit = "journal_conflict" \/ LateSuccess

(***************************************************************************)
(* ... and without exception, which late_success.cfg refutes.              *)
(***************************************************************************)
EveryAdmittedCommandSettles ==
  \A id \in Ids :
    (\E i \in DOMAIN rows : rows[i].cmd.id = id)
      ~> (\E i \in DOMAIN rows : rows[i].cmd.id = id /\ rows[i].ack # NoAck)

(***************************************************************************)
(* Once a node is revoked, an agent that has no command at hand never runs *)
(* one again, however often it is restarted, whatever leases its journal   *)
(* still holds and whatever requests of an earlier life are still handled. *)
(***************************************************************************)
EmptyHanded ==
  /\ agent.batch = {} /\ agent.reply.batch = {}
  /\ agent.pc \notin {"begun", "dispatching"}

RevokedStaysStopped == [][revoked /\ EmptyHanded => EmptyHanded']_vars

-----------------------------------------------------------------------------
(***************************************************************************)
(* Refinement.  The decisions are the journal's completions, the settled   *)
(* results Fleet's stored acknowledgements.                                *)
(***************************************************************************)
DecidedResults ==
  LET n == Cardinality({ i \in DOMAIN entries : Completed(i) })
  IN  [i \in 1 .. n |-> entries[i].completion.outcome]
SettledResults ==
  LET n == Cardinality({ i \in DOMAIN rows : rows[i].ack # NoAck })
  IN  [i \in 1 .. n |-> rows[i].ack.outcome]

Serial == INSTANCE SerialDelivery WITH
  Commands <- Command,
  Results <- Outcomes,
  Success <- {o \in Outcomes : Succeeds(o)},
  issued <- [i \in DOMAIN rows |-> rows[i].cmd],
  effects <- performed,
  decided <- DecidedResults,
  settled <- SettledResults

(***************************************************************************)
(* Mailbox, journal and agent together deliver serially: through leases    *)
(* that expire, redelivery, lost receipts and crashes, what a caller and   *)
(* the node see is a behaviour of SerialDelivery.                          *)
(***************************************************************************)
DeliversSerially == Serial!Spec
=============================================================================
