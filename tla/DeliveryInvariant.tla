------------------------- MODULE DeliveryInvariant -------------------------
(***************************************************************************)
(* The inductive invariant of CommandChannel.  The agreement of mailbox    *)
(* and journal rests on three facts that no single component can see:      *)
(* every acknowledgement in flight is the journal's own, under the current *)
(* or an older lease; lease identities only grow, so an old one no longer  *)
(* fits the row; and a round that polls has no completed command whose     *)
(* acknowledgement Fleet could still accept.                               *)
(***************************************************************************)
EXTENDS CommandChannel

Working == {"begun", "dispatching", "dispatched", "completing"}
Delivering == {"deliver", "reporting", "acking"}

\* Fleet's rows are numbered, their commands distinct, their leases known
RowsInv ==
  /\ \A i \in DOMAIN rows : rows[i].cmd.sequence = i /\ rows[i].lease.id <= leaseCount
  /\ \A i, j \in DOMAIN rows : rows[i].cmd.id = rows[j].cmd.id => i = j

\* The journal's leases are leases Fleet gave its rows, never newer ones
EntriesInv ==
  /\ \A i \in DOMAIN entries :
       /\ entries[i].lease <= rows[i].lease.id
       /\ entries[i].acknowledged => Completed(i)
  /\ lastAcknowledged =
       IF Len(entries) = 0 \/ entries[Len(entries)].acknowledged THEN Len(entries)
                                                                 ELSE Len(entries) - 1

\* An acknowledgement sent is the journal's, perhaps under an older lease
SentAck(ack) ==
  /\ ack.sequence \in DOMAIN entries
  /\ Completed(ack.sequence)
  /\ ack.lease <= entries[ack.sequence].lease
  /\ ack = [Acknowledgement(ack.sequence) EXCEPT !.lease = ack.lease]
NetInv == \A r \in net : r.type = "ack" => SentAck(r.ack)

\* Commands the agent was handed and has not begun: unsettled, as Fleet
\* issued them, under one lease newer than any the journal knows for them
BatchInv(batch) ==
  /\ \A env \in batch :
       LET i == env.cmd.sequence IN
       /\ i \in DOMAIN rows
       /\ env.cmd = rows[i].cmd
       /\ rows[i].ack = NoAck
       /\ env.lease <= rows[i].lease.id
       /\ i \in DOMAIN entries => entries[i].lease < env.lease
  /\ \A e, f \in batch : e.lease = f.lease

\* The command loop works on the last journaled command only
CurrentInv ==
  /\ agent.pc \in Working \cup Delivering =>
       /\ agent.current = Len(entries)
       /\ agent.current > 0
       /\ ~entries[agent.current].acknowledged
  /\ agent.pc \in Working => ~Completed(agent.current)
  /\ agent.pc \in Delivering => Completed(agent.current)
  /\ agent.pc \in {"dispatched", "completing"} => agent.outcome \in Outcomes
  /\ \A i \in agent.pending :
       i \in DOMAIN entries /\ Completed(i) /\ ~entries[i].acknowledged

\* ... and waits for the request its phase sent
AwaitingInv ==
  /\ agent.pc \notin Waiting => agent.awaiting = NoRequest /\ agent.reply = NoReply
  /\ agent.pc = "reporting" => agent.awaiting.type = "observe"
  /\ agent.pc = "acking" => agent.awaiting = AckRequest(Acknowledgement(agent.current))
  /\ agent.pc = "polling" => agent.awaiting = LeaseRequest(lastAcknowledged)
  /\ agent.pc \in {"reporting", "acking"} => agent.reply.batch = {}

\* A command only a new lease can settle: not settled, and Fleet would
\* refuse the acknowledgement the journal has for it
NeedsRedelivery(i) ==
  /\ rows[i].ack = NoAck
  /\ Completed(i) => ~Acknowledgeable(Acknowledgement(i), i)

ReplyInv ==
  agent.pc = "acking" =>
    /\ agent.reply.status = "ok" => rows[agent.current].ack # NoAck
    /\ agent.reply.status = "conflict" => NeedsRedelivery(agent.current)

Unsettled(i) == i \in DOMAIN entries /\ ~entries[i].acknowledged
HandsOver(batch, i) == batch # {} => \E env \in batch : env.cmd.sequence = i

\* A round polls only when redelivery is the only way on, and then is
\* handed the unsettled command before any new one
RoundInv ==
  /\ agent.pc = "pending" =>
       \A i \in DOMAIN entries :
         Unsettled(i) => i \in agent.pending \/ NeedsRedelivery(i)
  /\ \A i \in DOMAIN entries : Unsettled(i) =>
       /\ agent.pc = "polling" => NeedsRedelivery(i) /\ HandsOver(agent.reply.batch, i)
       /\ agent.pc = "batch" => HandsOver(agent.batch, i)

(***************************************************************************)
(* The inductive invariant: agreement, serial delivery and the parts above *)
(* that make them survive every step.                                      *)
(***************************************************************************)
DeliveryInv ==
  /\ ChannelTypeOK
  /\ SettlementAgreement
  /\ OneUnsettledCommand
  /\ JournalIsPrefix
  /\ RowsInv
  /\ EntriesInv
  /\ NetInv
  /\ BatchInv(agent.batch)
  /\ BatchInv(agent.reply.batch)
  /\ CurrentInv
  /\ AwaitingInv
  /\ ReplyInv
  /\ RoundInv
-----------------------------------------------------------------------------
(***************************************************************************)
(* Given DeliveryInv, what orders effects, generations, observations and   *)
(* refusals.                                                               *)
(***************************************************************************)

\* Effects run in the order of the journal, and a success in hand was run
HasRun(i) == performed # <<>> /\ performed[Len(performed)] = i
EffectsInv ==
  /\ \A k \in DOMAIN performed : performed[k] \in DOMAIN entries
  /\ \A k, l \in DOMAIN performed : k <= l => performed[k] <= performed[l]
  /\ agent.pc = "dispatched" => HasRun(agent.current)
  /\ agent.pc = "completing" /\ Succeeds(agent.outcome) => HasRun(agent.current)

\* Whatever Fleet issued before an apply of the same aggregate admitted it
AdmittedInv ==
  \A i, j \in DOMAIN rows :
    LET p == rows[i].cmd.payload
        q == rows[j].cmd.payload IN
    /\ i < j
    /\ rows[i].cmd.aggregate = rows[j].cmd.aggregate
    /\ q.kind = "runtime_apply"
    =>
    /\ p.kind = "runtime_remove" => p.generation # q.generation
    /\ p.kind = "runtime_apply" =>
         p.generation <= q.generation /\ (p.generation = q.generation => p.spec = q.spec)

\* The journal's fence is that of an apply it holds
FencedBy(a, i) ==
  LET cmd == entries[i].cmd IN
  /\ cmd.aggregate = a
  /\ cmd.payload.kind = "runtime_apply"
  /\ generations[a] = [generation |-> cmd.payload.generation,
                       digest |-> StateMutationDigest(cmd.payload)]
FencesInv ==
  \A a \in Aggregates : generations[a] = NoFence \/ \E i \in DOMAIN entries : FencedBy(a, i)

\* An observation is stored before an acknowledgement that relies on it is sent
Reported(ack) == [id |-> ack.id, observedAt |-> ack.completedAt] \in reports
ReportsInv ==
  /\ \A i \in DOMAIN rows : rows[i].ack # NoAck /\ rows[i].ack.outcome = "observed"
       => Reported(rows[i].ack)
  /\ \A r \in net : r.type = "ack" /\ r.ack.outcome = "observed" => Reported(r.ack)
  /\ agent.pc = "reporting" =>
       /\ agent.awaiting.reports = {ReportOf(agent.current)}
       /\ agent.reply.status = "ok" => ReportOf(agent.current) \in reports

\* No command is handed over without the ones the journal needs before it
NoGap(batch) ==
  \A env \in batch : \A k \in Len(entries) + 1 .. env.cmd.sequence - 1 :
    \E e \in batch : e.cmd.sequence = k

\* A refused command is the next one, and stays it while the agent is down
RefusalInv ==
  exit = "journal_conflict" =>
    agent.pc = "down" /\ Len(entries) < Len(rows) /\ OnlyClaimedIsRefused

OrderInv ==
  /\ EffectsInv
  /\ AdmittedInv
  /\ FencesInv
  /\ ReportsInv
  /\ NoGap(agent.batch)
  /\ NoGap(agent.reply.batch)
  /\ RefusalInv

\* The whole invariant of the channel
ChannelInv == DeliveryInv /\ OrderInv
=============================================================================
