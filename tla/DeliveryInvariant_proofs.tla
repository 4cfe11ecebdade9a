---------------------- MODULE DeliveryInvariant_proofs ----------------------
(***************************************************************************)
(* DeliveryInv is an inductive invariant of CommandChannel.  It is taken   *)
(* apart into what holds of the two databases (StoresInv), of the command  *)
(* loop (AgentInv) and of everything else (OthersInv); one lemma per       *)
(* action shows that each part survives it.                                *)
(***************************************************************************)
EXTENDS DeliveryInvariant, FiniteSetTheorems, TLAPS

\* The type of the command loop's state
Agents ==
  [pc : Phases, pending : SUBSET Nat, batch : SUBSET Envelope, current : Nat,
                outcome : Outcomes \cup {"none"}, awaiting : Requests \cup {NoRequest},
                reply : Replies]

\* What holds of the two databases
StoresInv ==
  /\ MailboxTypeOK /\ JournalTypeOK
  /\ SettlementAgreement /\ OneUnsettledCommand /\ JournalIsPrefix /\ RowsInv /\ EntriesInv

\* What holds of the command loop, given the databases
AgentInv ==
  /\ agent \in Agents
  /\ BatchInv(agent.batch) /\ BatchInv(agent.reply.batch)
  /\ CurrentInv /\ AwaitingInv /\ ReplyInv /\ RoundInv

\* What holds of wire, heartbeat task and bookkeeping
OthersInv ==
  /\ heartbeat \in Requests \cup {NoRequest}
  /\ net \subseteq Requests
  /\ performed \in Seq(Nat)
  /\ faults \in Nat
  /\ exit \in Exits
  /\ NetInv

\* The invariant taken apart: stores, command loop, and the rest
LEMMA Split == DeliveryInv => StoresInv /\ AgentInv /\ OthersInv
  BY DEF DeliveryInv, StoresInv, AgentInv, OthersInv, ChannelTypeOK, Agents

\* ... and put together again after a step
LEMMA Join == StoresInv' /\ AgentInv' /\ OthersInv' => DeliveryInv'
  BY DEF DeliveryInv, StoresInv, AgentInv, OthersInv, ChannelTypeOK, Agents

\* A command loop that starts over is well typed (synchronize_once)
LEMMA FreshType ==
  ASSUME NEW pc \in Phases
  PROVE  Fresh(pc) \in Agents
  BY DEF Fresh, Agents, NoReply, Reply, Replies

\* No answer has arrived: nothing is handed over
LEMMA NoReplyFacts == NoReply \in Replies /\ NoReply.batch = {} /\ NoReply.status = "none"
  BY DEF NoReply, Reply, Replies

\* Whether an acknowledgement is the journal's depends on the journal only
LEMMA SentAckUnchanged ==
  ASSUME UNCHANGED entries, NEW a
  PROVE  SentAck(a)' = SentAck(a)
  BY DEF SentAck, Completed, Acknowledgement

\* A request put on the wire keeps NetInv when its acknowledgement is the
\* journal's own (control_plane.rs acknowledge)
LEMMA SendNet ==
  ASSUME net \subseteq Requests, NetInv, UNCHANGED entries,
         NEW r \in Requests, net' = net \cup {r}, r.type = "ack" => SentAck(r.ack)
  PROVE  net' \subseteq Requests /\ NetInv'
  BY SentAckUnchanged DEF NetInv

\* What sending a request leaves of the command loop
LEMMA SendAgent ==
  ASSUME agent \in Agents, NEW r \in Requests, NEW pc \in Phases, Send(r, pc)
  PROVE  /\ agent' \in Agents
         /\ agent'.pc = pc /\ agent'.awaiting = r /\ agent'.reply = NoReply
         /\ agent'.batch = agent.batch /\ agent'.pending = agent.pending
         /\ agent'.current = agent.current /\ agent'.outcome = agent.outcome
         /\ net' = net \cup {r}
  BY NoReplyFacts DEF Send, Agents

\* A step that writes neither database keeps what they agree on
LEMMA StoresUnchanged ==
  ASSUME UNCHANGED <<mailboxVars, journalVars>>, StoresInv
  PROVE  StoresInv'
<1> USE DEF mailboxVars, journalVars, StoresInv
<1>1. SettlementAgreement' BY DEF SettlementAgreement, Acknowledgement, Completed
<1>2. OneUnsettledCommand' BY DEF OneUnsettledCommand
<1>3. JournalIsPrefix' BY DEF JournalIsPrefix
<1>4. RowsInv' BY DEF RowsInv
<1>5. EntriesInv' BY DEF EntriesInv, Completed
<1>6. MailboxTypeOK' BY DEF MailboxTypeOK
<1>7. JournalTypeOK' BY DEF JournalTypeOK
<1> QED BY <1>1, <1>2, <1>3, <1>4, <1>5, <1>6, <1>7

\* Giving a request up changes none of its content: a late duplicate of an
\* acknowledgement is still the journal's
LEMMA AbandonNet ==
  ASSUME NEW gone, NEW requests \in SUBSET net, net' = Abandon(requests, gone),
         net \subseteq Requests, NetInv, UNCHANGED entries
  PROVE  net' \subseteq Requests /\ NetInv'
<1>1. ASSUME NEW r \in net'
      PROVE  /\ r \in Requests
             /\ r.type = "ack" => SentAck(r.ack)
  <2>1. CASE r \in net
    BY <2>1 DEF NetInv
  <2>2. CASE r \notin net
    <3>1. PICK s \in net : r = [s EXCEPT !.abandoned = TRUE]
      BY <2>2 DEF Abandon
    <3>2. s \in Requests
      OBVIOUS
    <3>3. r \in Requests /\ r.type = s.type /\ (s.type = "ack" => r.ack = s.ack)
      BY <3>1, <3>2 DEF Requests
    <3> QED BY <3>3 DEF NetInv
  <2> QED BY <2>1, <2>2
<1> QED BY <1>1, SentAckUnchanged DEF NetInv

\* The command loop's invariant depends on the loop, the rows and the journal
LEMMA AgentUnchanged ==
  ASSUME AgentInv, UNCHANGED <<agent, rows, entries, lastAcknowledged>>
  PROVE  AgentInv'
<1>1. BatchInv(agent.batch)' /\ BatchInv(agent.reply.batch)'
  BY DEF AgentInv, BatchInv
<1>2. CurrentInv'
  BY DEF AgentInv, CurrentInv, Completed
<1>3. AwaitingInv'
  BY DEF AgentInv, AwaitingInv, Acknowledgement
<1>4. ReplyInv' /\ RoundInv'
  BY DEF AgentInv, ReplyInv, RoundInv, Unsettled, HandsOver, NeedsRedelivery, Completed,
         Acknowledgeable, Acknowledgement
<1> QED BY <1>1, <1>2, <1>3, <1>4 DEF AgentInv, Agents

\* A loop that stopped or starts over claims nothing (agent.rs run)
LEMMA FreshAgent ==
  ASSUME NEW pc \in {"down", "sync"}, agent' = Fresh(pc)
  PROVE  AgentInv'
<1>1. agent' \in Agents
  BY FreshType DEF Phases
<1>2. /\ agent'.batch = {} /\ agent'.reply.batch = {} /\ agent'.pending = {}
      /\ agent'.pc = pc /\ agent'.awaiting = NoRequest /\ agent'.reply = NoReply
  BY DEF Fresh, NoReply, Reply
<1>3. BatchInv(agent.batch)' /\ BatchInv(agent.reply.batch)'
  BY <1>2 DEF BatchInv
<1>4. CurrentInv'
  BY <1>2 DEF CurrentInv, Working, Delivering
<1>5. AwaitingInv'
  BY <1>2 DEF AwaitingInv
<1>6. ReplyInv'
  BY <1>2 DEF ReplyInv
<1>7. RoundInv'
  BY <1>2 DEF RoundInv
<1> QED BY <1>1, <1>3, <1>4, <1>5, <1>6, <1>7 DEF AgentInv, Agents

\* A step that writes neither database need only keep loop and wire in order
LEMMA QuietStep ==
  ASSUME DeliveryInv, UNCHANGED <<mailboxVars, journalVars>>, AgentInv', OthersInv'
  PROVE  DeliveryInv'
  BY Split, Join, StoresUnchanged

\* synchronize_once starts: pending_acknowledgements collects every completed
\* command without a receipt
LEMMA StartSyncStep ==
  ASSUME DeliveryInv, StartSync
  PROVE  DeliveryInv'
<1> USE DEF StartSync
<1>0. StoresInv /\ AgentInv /\ OthersInv
  BY Split
<1>1. /\ agent'.batch = {} /\ agent'.reply.batch = {} /\ agent'.pending = PendingAcknowledgements
      /\ agent'.pc = "pending" /\ agent'.awaiting = NoRequest /\ agent'.reply = NoReply
  BY DEF Fresh, NoReply, Reply
<1>2. PendingAcknowledgements \subseteq Nat
  BY <1>0 DEF PendingAcknowledgements, StoresInv, JournalTypeOK
<1>3. agent' \in Agents
  BY <1>2 DEF Fresh, Agents, NoReply, Reply, Replies, Phases
<1>4. BatchInv(agent.batch)' /\ BatchInv(agent.reply.batch)'
  BY <1>1 DEF BatchInv
<1>5. CurrentInv'
  BY <1>1 DEF CurrentInv, Working, Delivering, PendingAcknowledgements, Completed, journalVars
<1>6. AwaitingInv' /\ ReplyInv'
  BY <1>1 DEF AwaitingInv, ReplyInv
<1>7. RoundInv'
  <2> SUFFICES ASSUME NEW i \in DOMAIN entries, ~entries[i].acknowledged
               PROVE  i \in agent'.pending \/ NeedsRedelivery(i)'
    BY <1>1 DEF RoundInv, Unsettled, journalVars
  <2>1. CASE Completed(i)
    BY <2>1, <1>1 DEF PendingAcknowledgements
  <2>2. CASE ~Completed(i)
    <3>1. i \in DOMAIN rows /\ rows[i].ack = NoAck
      BY <1>0, <2>2 DEF StoresInv, SettlementAgreement, JournalIsPrefix, JournalTypeOK, MailboxTypeOK
    <3> QED BY <3>1, <2>2 DEF NeedsRedelivery, Completed, mailboxVars, journalVars
  <2> QED BY <2>1, <2>2
<1>8. AgentInv'
  BY <1>3, <1>4, <1>5, <1>6, <1>7 DEF AgentInv, Agents
<1>9. OthersInv'
  BY <1>0 DEF OthersInv, NetInv, SentAck, Completed, Acknowledgement, journalVars
<1> QED BY <1>8, <1>9, QuietStep

\* The next pending completion is taken up for delivery
LEMMA NextPendingStep ==
  ASSUME DeliveryInv, NextPending
  PROVE  DeliveryInv'
<1> USE DEF NextPending
<1>0. StoresInv /\ AgentInv /\ OthersInv
  BY Split
<1>1. PICK i \in agent.pending : agent' = [agent EXCEPT !.pc = "deliver", !.current = i]
  OBVIOUS
<1>2. agent \in Agents /\ i \in Nat /\ agent.pc = "pending"
  BY <1>0 DEF AgentInv, Agents
<1>3. /\ agent' \in Agents
      /\ agent'.pc = "deliver" /\ agent'.current = i
      /\ agent'.batch = agent.batch /\ agent'.reply = agent.reply
      /\ agent'.pending = agent.pending /\ agent'.awaiting = agent.awaiting
  BY <1>1, <1>2 DEF Agents, Phases
<1>4. BatchInv(agent.batch)' /\ BatchInv(agent.reply.batch)'
  BY <1>0, <1>3 DEF AgentInv, BatchInv, mailboxVars, journalVars
<1>5. CurrentInv'
  BY <1>0, <1>2, <1>3 DEF AgentInv, CurrentInv, Working, Delivering, Completed, journalVars,
        StoresInv, OneUnsettledCommand, JournalTypeOK
<1>6. AwaitingInv' /\ ReplyInv' /\ RoundInv'
  BY <1>0, <1>2, <1>3 DEF AgentInv, AwaitingInv, ReplyInv, RoundInv, Waiting
<1>7. AgentInv'
  BY <1>3, <1>4, <1>5, <1>6 DEF AgentInv, Agents
<1>8. OthersInv'
  BY <1>0 DEF OthersInv, NetInv, SentAck, Completed, Acknowledgement, journalVars
<1> QED BY <1>7, <1>8, QuietStep

\* lease is requested only once nothing is pending
LEMMA PollStep ==
  ASSUME DeliveryInv, Poll
  PROVE  DeliveryInv'
<1> USE DEF Poll
<1>0. StoresInv /\ AgentInv /\ OthersInv
  BY Split
<1>1. LeaseRequest(lastAcknowledged) \in Requests
  BY <1>0 DEF LeaseRequest, Requests, StoresInv, JournalTypeOK
<1>2. /\ agent' \in Agents
      /\ agent'.pc = "polling" /\ agent'.awaiting = LeaseRequest(lastAcknowledged)
      /\ agent'.reply = NoReply /\ NoReply.batch = {} /\ NoReply.status = "none"
      /\ agent'.batch = agent.batch /\ agent'.pending = {}
  BY <1>0, <1>1, SendAgent, NoReplyFacts DEF AgentInv, Phases
<1>3. BatchInv(agent.batch)' /\ BatchInv(agent.reply.batch)'
  BY <1>0, <1>2 DEF AgentInv, BatchInv, mailboxVars, journalVars
<1>4. CurrentInv' /\ AwaitingInv' /\ ReplyInv'
  BY <1>2 DEF CurrentInv, AwaitingInv, ReplyInv, Working, Delivering, Waiting, journalVars
<1>5. RoundInv'
  BY <1>0, <1>2 DEF RoundInv, AgentInv, Unsettled, HandsOver, NeedsRedelivery, Completed,
        Acknowledgeable, Acknowledgement, mailboxVars, journalVars
<1>6. AgentInv'
  BY <1>2, <1>3, <1>4, <1>5 DEF AgentInv, Agents
<1>7. OthersInv'
  BY <1>0, <1>1, SendNet DEF OthersInv, journalVars, Send, LeaseRequest
<1> QED BY <1>6, <1>7, QuietStep

\* A process that ends, for whatever reason, leaves its requests behind
LEMMA StopStep ==
  ASSUME DeliveryInv, NEW reason \in Exits, NEW requests \in SUBSET net, Stop(reason, requests),
         UNCHANGED <<mailboxVars, journalVars, performed>>, faults' \in Nat
  PROVE  DeliveryInv'
<1> USE DEF Stop
<1>0. StoresInv /\ AgentInv /\ OthersInv
  BY Split
<1>1. AgentInv'
  BY FreshAgent
<1>2. net' \subseteq Requests /\ NetInv'
  BY <1>0, AbandonNet DEF OthersInv, journalVars
<1>3. OthersInv'
  BY <1>0, <1>2 DEF OthersInv
<1> QED BY <1>1, <1>3, QuietStep

\* A lease response is taken up, or is expired already and ends the process
LEMMA ReceiveBatchStep ==
  ASSUME DeliveryInv, ReceiveBatch
  PROVE  DeliveryInv'
<1> USE DEF ReceiveBatch
<1>0. StoresInv /\ AgentInv /\ OthersInv
  BY Split
<1>1. CASE agent.reply.until > AgentNow
  <2>1. /\ agent' \in Agents
        /\ agent'.pc = "batch" /\ agent'.awaiting = NoRequest
        /\ agent'.reply = NoReply /\ NoReply.batch = {} /\ NoReply.status = "none"
        /\ agent'.batch = agent.reply.batch /\ agent'.pending = agent.pending
    <3>1. agent \in Agents /\ agent.reply.batch \in SUBSET Envelope
      BY <1>0 DEF AgentInv, Agents, Replies
    <3> QED BY <1>1, <3>1, NoReplyFacts, ZenonT(20) DEF Agents, Phases
  <2>2. BatchInv(agent.batch)' /\ BatchInv(agent.reply.batch)'
    BY <1>0, <2>1 DEF AgentInv, BatchInv, mailboxVars, journalVars
  <2>3. CurrentInv' /\ AwaitingInv' /\ ReplyInv'
    BY <1>0, <2>1 DEF AgentInv, CurrentInv, AwaitingInv, ReplyInv, Working, Delivering, Waiting,
          Completed, journalVars
  <2>4. RoundInv'
    BY <1>0, <2>1 DEF RoundInv, AgentInv, Unsettled, HandsOver, journalVars
  <2>5. AgentInv'
    BY <2>1, <2>2, <2>3, <2>4 DEF AgentInv, Agents
  <2>6. OthersInv'
    BY <1>0, <1>1 DEF OthersInv, NetInv, SentAck, Completed, Acknowledgement, journalVars
  <2> QED BY <2>5, <2>6, QuietStep
<1>2. CASE ~(agent.reply.until > AgentNow)
  BY <1>0, <1>2, StopStep DEF Exits, OthersInv
<1> QED BY <1>1, <1>2

\* The loop starts the next round
LEMMA SyncAgainStep ==
  ASSUME DeliveryInv, NEW pc \in {"down", "sync"}, agent' = Fresh(pc), OthersInv',
         UNCHANGED <<mailboxVars, journalVars>>
  PROVE  DeliveryInv'
  BY FreshAgent, QuietStep

\* Wire, heartbeat and history untouched
LEMMA OthersUnchanged ==
  ASSUME OthersInv, UNCHANGED <<heartbeat, net, performed, faults, exit, entries>>
  PROVE  OthersInv'
  BY DEF OthersInv, NetInv, SentAck, Completed, Acknowledgement

\* The batch is done and the round ends
LEMMA BatchDoneStep ==
  ASSUME DeliveryInv, BatchDone
  PROVE  DeliveryInv'
  BY Split, OthersUnchanged, SyncAgainStep DEF BatchDone, journalVars

\* A conflict in journal.begin ends the process and writes nothing
LEMMA RefuseCommandStep ==
  ASSUME DeliveryInv, NEW env, RefuseCommand(env)
  PROVE  DeliveryInv'
  BY Split, StopStep DEF RefuseCommand, Exits, OthersInv

\* A refusal ends the process and writes nothing
LEMMA ReceiveRefusalStep ==
  ASSUME DeliveryInv, ReceiveRefusal
  PROVE  DeliveryInv'
  BY Split, StopStep DEF ReceiveRefusal, Exits, OthersInv

\* A crash at any step of the loop
LEMMA CrashStep ==
  ASSUME DeliveryInv, Crash
  PROVE  DeliveryInv'
  BY Split, StopStep DEF Crash, Fault, Exits, OthersInv

\* The supervisor starts the agent with nothing but its journal
LEMMA RestartStep ==
  ASSUME DeliveryInv, Restart
  PROVE  DeliveryInv'
<1>1. OthersInv'
  BY Split DEF Restart, OthersInv, Exits, NetInv, SentAck, Completed, Acknowledgement, journalVars
<1> QED BY <1>1, SyncAgainStep DEF Restart

\* A transport error or time-out: the loop starts over, the request may still
\* be handled
LEMMA GiveUpStep ==
  ASSUME DeliveryInv, GiveUp, faults' \in Nat
  PROVE  DeliveryInv'
<1>0. OthersInv
  BY Split
<1>1. net' \subseteq Requests /\ NetInv'
  BY <1>0, AbandonNet DEF OthersInv, GiveUp, journalVars
<1>2. OthersInv'
  BY <1>0, <1>1 DEF OthersInv, GiveUp
<1> QED BY <1>2, SyncAgainStep DEF GiveUp

\* Both kinds of time-out
LEMMA TimeoutStep ==
  ASSUME DeliveryInv, Timeout \/ TimeoutEarly
  PROVE  DeliveryInv'
  BY Split, GiveUpStep DEF Timeout, TimeoutEarly, Fault, OthersInv

\* A request is lost on the wire
LEMMA LoseRequestStep ==
  ASSUME DeliveryInv, NEW r \in net, LoseRequest(r)
  PROVE  DeliveryInv'
<1>0. StoresInv /\ AgentInv /\ OthersInv
  BY Split
<1>1. OthersInv'
  BY <1>0, SentAckUnchanged DEF LoseRequest, Fault, OthersInv, NetInv, journalVars
<1>2. AgentInv'
  BY <1>0, AgentUnchanged DEF LoseRequest, mailboxVars, journalVars
<1> QED BY <1>1, <1>2, QuietStep DEF LoseRequest

\* heartbeat_loop sends a heartbeat
LEMMA BeatStep ==
  ASSUME DeliveryInv, Beat
  PROVE  DeliveryInv'
<1>0. StoresInv /\ AgentInv /\ OthersInv
  BY Split
<1>1. heartbeat' \in Requests /\ heartbeat'.type = "observe"
  BY <1>0, ClockOffsetAssumption
     DEF Beat, ObserveRequest, Requests, AgentNow, StoresInv, MailboxTypeOK
<1>2. OthersInv'
  <2>1. net' \subseteq Requests
    BY <1>0, <1>1 DEF Beat, OthersInv
  <2>2. NetInv'
    BY <1>0, <1>1, SentAckUnchanged DEF Beat, OthersInv, NetInv, journalVars
  <2> QED BY <1>0, <1>1, <2>1, <2>2 DEF OthersInv, Beat
<1>3. AgentInv'
  BY <1>0, AgentUnchanged DEF Beat, mailboxVars, journalVars
<1> QED BY <1>2, <1>3, QuietStep DEF Beat

(* A step of the executor keeps its command in hand. *)
LEMMA WorkingStep ==
  ASSUME DeliveryInv, agent.pc \in Working, agent' \in Agents, agent'.pc \in Working,
         agent'.pc \in {"dispatched", "completing"} => agent'.outcome \in Outcomes,
         agent'.batch = agent.batch, agent'.reply = agent.reply,
         agent'.pending = agent.pending, agent'.current = agent.current,
         agent'.awaiting = agent.awaiting, performed' \in Seq(Nat),
         UNCHANGED <<mailboxVars, journalVars, heartbeat, net, faults, exit>>
  PROVE  DeliveryInv'
<1>0. StoresInv /\ AgentInv /\ OthersInv
  BY Split
<1>1. BatchInv(agent.batch)' /\ BatchInv(agent.reply.batch)'
  BY <1>0 DEF AgentInv, BatchInv, mailboxVars, journalVars
<1>2. CurrentInv'
  BY <1>0 DEF AgentInv, CurrentInv, Working, Delivering, Completed, journalVars
<1>3. AwaitingInv' /\ ReplyInv' /\ RoundInv'
  BY <1>0 DEF AgentInv, AwaitingInv, ReplyInv, RoundInv, Working, Waiting
<1>4. AgentInv'
  BY <1>1, <1>2, <1>3 DEF AgentInv, Agents
<1>5. OthersInv'
  BY <1>0, SentAckUnchanged DEF OthersInv, NetInv, journalVars
<1> QED BY <1>4, <1>5, QuietStep

\* execute looks at the deadline before dispatch
LEMMA CheckDeadlineStep ==
  ASSUME DeliveryInv, CheckDeadline
  PROVE  DeliveryInv'
<1>0. agent \in Agents /\ performed \in Seq(Nat)
  BY Split DEF AgentInv, OthersInv
<1>1. /\ agent' \in Agents /\ agent'.pc \in Working
      /\ agent'.pc \in {"dispatched", "completing"} => agent'.outcome \in Outcomes
      /\ agent'.batch = agent.batch /\ agent'.reply = agent.reply
      /\ agent'.pending = agent.pending /\ agent'.current = agent.current
      /\ agent'.awaiting = agent.awaiting
  BY <1>0 DEF CheckDeadline, Agents, Phases, Working, Outcomes
<1> QED BY <1>0, <1>1, WorkingStep DEF CheckDeadline, Working

\* dispatch returns, with or without the side effect
LEMMA DispatchStep ==
  ASSUME DeliveryInv, NEW o \in Outcomes, Dispatch(o)
  PROVE  DeliveryInv'
<1>0. agent \in Agents /\ performed \in Seq(Nat)
  BY Split DEF AgentInv, OthersInv
<1>1. /\ agent' \in Agents /\ agent'.pc \in Working
      /\ agent'.outcome \in Outcomes
      /\ agent'.batch = agent.batch /\ agent'.reply = agent.reply
      /\ agent'.pending = agent.pending /\ agent'.current = agent.current
      /\ agent'.awaiting = agent.awaiting
  BY <1>0 DEF Dispatch, Agents, Phases, Working
<1>2. performed' \in Seq(Nat)
  <2>1. agent.current \in Nat
    BY <1>0 DEF Agents
  <2>2. Append(performed, agent.current) \in Seq(Nat)
    BY <1>0, <2>1
  <2>3. performed' \in {performed, Append(performed, agent.current)}
    BY DEF Dispatch
  <2> QED BY <1>0, <2>2, <2>3
<1> QED BY <1>1, <1>2, WorkingStep DEF Dispatch, Working

\* execute looks at the deadline after dispatch
LEMMA JudgeDeadlineStep ==
  ASSUME DeliveryInv, JudgeDeadline
  PROVE  DeliveryInv'
<1>0. agent \in Agents /\ performed \in Seq(Nat) /\ agent.outcome \in Outcomes
  BY Split DEF AgentInv, OthersInv, CurrentInv, JudgeDeadline
<1>1. /\ agent' \in Agents /\ agent'.pc \in Working
      /\ agent'.outcome \in Outcomes
      /\ agent'.batch = agent.batch /\ agent'.reply = agent.reply
      /\ agent'.pending = agent.pending /\ agent'.current = agent.current
      /\ agent'.awaiting = agent.awaiting
  BY <1>0 DEF JudgeDeadline, Agents, Phases, Working, Outcomes
<1> QED BY <1>0, <1>1, WorkingStep DEF JudgeDeadline, Working

(* What the agent says of a completed entry is well formed. *)
LEMMA AcknowledgementFacts ==
  ASSUME StoresInv, NEW i \in DOMAIN entries, Completed(i)
  PROVE  /\ Acknowledgement(i) \in Ack
         /\ Acknowledgement(i).sequence = i
         /\ Acknowledgement(i).id = entries[i].cmd.id
         /\ Acknowledgement(i).lease = entries[i].lease
         /\ SentAck(Acknowledgement(i))
<1>1. entries[i] \in Entry /\ entries[i].cmd = rows[i].cmd /\ rows[i].cmd.sequence = i
  BY DEF StoresInv, JournalTypeOK, JournalIsPrefix, RowsInv, MailboxTypeOK
<1>2. entries[i].completion \in Completion /\ entries[i].cmd \in Command
      /\ entries[i].lease \in LeaseId
  BY <1>1 DEF Entry, Completed
<1>3. Acknowledgement(i) \in Ack
  BY <1>2 DEF Acknowledgement, Ack, Completion, Command
<1>4. /\ Acknowledgement(i).sequence = i
      /\ Acknowledgement(i).id = entries[i].cmd.id
      /\ Acknowledgement(i).lease = entries[i].lease
  BY <1>1 DEF Acknowledgement
<1>5. entries[i].lease <= entries[i].lease
  BY <1>2 DEF LeaseId
<1>6. Acknowledgement(i) = [Acknowledgement(i) EXCEPT !.lease = Acknowledgement(i).lease]
  BY <1>3 DEF Ack
<1> QED BY <1>3, <1>4, <1>5, <1>6 DEF SentAck

\* deliver_completion reports the observation
LEMMA DeliverObservationStep ==
  ASSUME DeliveryInv, DeliverObservation
  PROVE  DeliveryInv'
<1> DEFINE report == ReportOf(agent.current)
           request == ObserveRequest({report}, Later(AgentNow, report.observedAt))
<1>0. StoresInv /\ AgentInv /\ OthersInv
  BY Split
<1>1. agent.pc = "deliver" /\ Send(request, "reporting")
  BY DEF DeliverObservation
<1>2. request \in Requests /\ request.type = "observe"
  <2>1. agent.current \in DOMAIN entries /\ Completed(agent.current)
    BY <1>0, <1>1 DEF AgentInv, CurrentInv, Working, Delivering, StoresInv, JournalTypeOK, Agents
  <2>2. entries[agent.current] \in Entry
    BY <1>0, <2>1 DEF StoresInv, JournalTypeOK
  <2>3. entries[agent.current].completion \in Completion /\ entries[agent.current].cmd \in Command
    BY <2>1, <2>2 DEF Entry, Completed
  <2>4. report \in Report /\ report.observedAt \in Int
    BY <2>3 DEF Report, ReportOf, Completion, Command
  <2>5. Later(AgentNow, report.observedAt) \in Int
    BY <1>0, <2>4, ClockOffsetAssumption DEF Later, AgentNow, StoresInv, MailboxTypeOK
  <2> QED BY <2>4, <2>5 DEF ObserveRequest, Requests
<1> HIDE DEF request, report
<1>3. /\ agent' \in Agents
      /\ agent'.pc = "reporting" /\ agent'.awaiting = request /\ agent'.reply = NoReply
      /\ agent'.batch = agent.batch /\ agent'.pending = agent.pending
      /\ agent'.current = agent.current /\ net' = net \cup {request}
  BY <1>0, <1>1, <1>2, SendAgent DEF AgentInv, Phases
<1>4. BatchInv(agent.batch)' /\ BatchInv(agent.reply.batch)'
  BY <1>0, <1>3, NoReplyFacts DEF AgentInv, BatchInv, DeliverObservation, mailboxVars, journalVars
<1>5. CurrentInv'
  BY <1>0, <1>1, <1>3 DEF AgentInv, CurrentInv, Working, Delivering, Completed, journalVars,
        DeliverObservation
<1>6. AwaitingInv' /\ ReplyInv' /\ RoundInv'
  BY <1>2, <1>3, NoReplyFacts DEF AwaitingInv, ReplyInv, RoundInv, Waiting
<1>7. AgentInv'
  BY <1>3, <1>4, <1>5, <1>6 DEF AgentInv, Agents
<1>8. OthersInv'
  BY <1>0, <1>2, <1>3, SendNet DEF OthersInv, journalVars, DeliverObservation
<1> QED BY <1>7, <1>8, QuietStep DEF DeliverObservation

\* deliver_completion sends the acknowledgement of the current command
LEMMA DeliverAcknowledgementStep ==
  ASSUME DeliveryInv, DeliverAcknowledgement
  PROVE  DeliveryInv'
<1> DEFINE request == AckRequest(Acknowledgement(agent.current))
<1>0. StoresInv /\ AgentInv /\ OthersInv
  BY Split
<1>1. agent.pc \in {"deliver", "reporting"} /\ Send(request, "acking")
  BY DEF DeliverAcknowledgement
<1>2. request \in Requests /\ SentAck(request.ack)
  <2>1. agent.current \in DOMAIN entries /\ Completed(agent.current)
    BY <1>0, <1>1 DEF AgentInv, CurrentInv, Working, Delivering, StoresInv, JournalTypeOK, Agents
  <2> QED BY <1>0, <2>1, AcknowledgementFacts DEF AckRequest, Requests
<1> HIDE DEF request
<1>3. /\ agent' \in Agents
      /\ agent'.pc = "acking" /\ agent'.awaiting = request /\ agent'.reply = NoReply
      /\ agent'.batch = agent.batch /\ agent'.pending = agent.pending
      /\ agent'.current = agent.current /\ net' = net \cup {request}
  BY <1>0, <1>1, <1>2, SendAgent DEF AgentInv, Phases
<1>4. BatchInv(agent.batch)' /\ BatchInv(agent.reply.batch)'
  BY <1>0, <1>3, NoReplyFacts
     DEF AgentInv, BatchInv, DeliverAcknowledgement, mailboxVars, journalVars
<1>5. CurrentInv'
  BY <1>0, <1>1, <1>3 DEF AgentInv, CurrentInv, Working, Delivering, Completed, journalVars,
        DeliverAcknowledgement
<1>6. AwaitingInv'
  BY <1>3, NoReplyFacts
     DEF AwaitingInv, Waiting, request, Acknowledgement, DeliverAcknowledgement, journalVars
<1>7. ReplyInv' /\ RoundInv'
  BY <1>3, NoReplyFacts DEF ReplyInv, RoundInv
<1>8. AgentInv'
  BY <1>3, <1>4, <1>5, <1>6, <1>7 DEF AgentInv, Agents
<1>9. OthersInv'
  BY <1>0, <1>2, <1>3, SendNet DEF OthersInv, journalVars, DeliverAcknowledgement
<1> QED BY <1>8, <1>9, QuietStep DEF DeliverAcknowledgement

\* HTTP 409: Fleet will not take this acknowledgement, so the round may poll
LEMMA ReceiveConflictStep ==
  ASSUME DeliveryInv, ReceiveConflict
  PROVE  DeliveryInv'
<1>0. StoresInv /\ AgentInv /\ OthersInv
  BY Split
<1>1. OthersInv'
  BY <1>0, OthersUnchanged DEF ReceiveConflict, journalVars
<1>2. CASE agent.current \notin agent.pending
  BY <1>1, <1>2, SyncAgainStep DEF ReceiveConflict
<1>3. CASE agent.current \in agent.pending
  <2>1. /\ agent' \in Agents
        /\ agent'.batch = {} /\ agent'.reply = NoReply /\ agent'.pending = {}
        /\ agent'.pc = "pending" /\ agent'.awaiting = NoRequest
    BY <1>3, FreshType DEF ReceiveConflict, Fresh, Phases
  <2>2. BatchInv(agent.batch)' /\ BatchInv(agent.reply.batch)'
    BY <2>1, NoReplyFacts DEF BatchInv
  <2>3. CurrentInv' /\ AwaitingInv' /\ ReplyInv'
    BY <2>1 DEF CurrentInv, AwaitingInv, ReplyInv, Working, Delivering
  <2>4. RoundInv'
    <3>1. /\ agent.current = Len(entries) /\ NeedsRedelivery(agent.current)
      BY <1>0 DEF AgentInv, CurrentInv, ReplyInv, Delivering, ReceiveConflict
    <3>2. \A i \in DOMAIN entries : Unsettled(i) => i = Len(entries)
      BY <1>0 DEF StoresInv, OneUnsettledCommand, Unsettled, JournalTypeOK
    <3>3. \A i \in DOMAIN entries : Unsettled(i) => NeedsRedelivery(i)
      BY <3>1, <3>2
    <3> QED BY <2>1, <3>3 DEF RoundInv, Unsettled, NeedsRedelivery, Completed, Acknowledgeable,
               Acknowledgement, ReceiveConflict, mailboxVars, journalVars
  <2>5. AgentInv'
    BY <2>1, <2>2, <2>3, <2>4 DEF AgentInv, Agents
  <2> QED BY <1>1, <2>5, QuietStep DEF ReceiveConflict
<1> QED BY <1>2, <1>3

\* The payload of a command is the payload of a draft
LEMMA PayloadFacts ==
  ASSUME NEW p \in Payloads
  PROVE  p.generation \in Nat /\ StateMutationDigest(p) \in StateDigests
  BY DraftsAssumption DEF Payloads, StateDigests

\* The generation fence begin writes is well typed (journal.rs begin)
LEMMA FenceType ==
  ASSUME JournalTypeOK, NEW env \in Envelope, BeginNew(env)
  PROVE  generations' \in [Aggregates -> Fence \cup {NoFence}]
<1>1. env.cmd.payload \in Payloads /\ env.cmd.aggregate \in Aggregates
  BY DEF Envelope, Command
<1>2. [generation |-> env.cmd.payload.generation,
       digest |-> StateMutationDigest(env.cmd.payload)] \in Fence
  BY <1>1, PayloadFacts DEF Fence
<1> QED BY <1>1, <1>2 DEF BeginNew, JournalTypeOK

(* A command the agent takes from its batch is the row of its sequence. *)
LEMMA BatchFacts ==
  ASSUME StoresInv, AgentInv, NEW env \in agent.batch
  PROVE  /\ env \in Envelope
         /\ env.cmd.sequence \in DOMAIN rows
         /\ env.cmd = rows[env.cmd.sequence].cmd
         /\ rows[env.cmd.sequence].ack = NoAck
         /\ env.lease \in LeaseId
         /\ env.lease <= rows[env.cmd.sequence].lease.id
         /\ env.cmd.sequence \in DOMAIN entries => entries[env.cmd.sequence].lease < env.lease
         /\ \A e \in agent.batch : e.cmd.sequence = env.cmd.sequence => e = env
<1>1. env \in Envelope /\ env.lease \in LeaseId
  BY DEF AgentInv, Agents, Envelope
<1>2. /\ env.cmd.sequence \in DOMAIN rows
      /\ env.cmd = rows[env.cmd.sequence].cmd
      /\ rows[env.cmd.sequence].ack = NoAck
      /\ env.lease <= rows[env.cmd.sequence].lease.id
      /\ env.cmd.sequence \in DOMAIN entries => entries[env.cmd.sequence].lease < env.lease
  BY DEF AgentInv, BatchInv
<1>3. ASSUME NEW e \in agent.batch, e.cmd.sequence = env.cmd.sequence
      PROVE  e = env
  <2>1. e.cmd = env.cmd /\ e.lease = env.lease
    BY <1>3 DEF AgentInv, BatchInv
  <2>2. e \in Envelope
    BY DEF AgentInv, Agents
  <2> QED BY <1>1, <2>1, <2>2 DEF Envelope
<1> QED BY <1>1, <1>2, <1>3

\* The journal entry of a new command is well typed
LEMMA EntryType ==
  ASSUME NEW es \in Seq(Entry), NEW i \in DOMAIN es
  PROVE  /\ es[i] \in Entry
         /\ es[i].lease \in Nat /\ es[i].lease <= es[i].lease
<1>1. es[i] \in Entry
  OBVIOUS
<1>2. es[i].lease \in Nat
  BY <1>1 DEF Entry, LeaseId
<1> QED BY <1>1, <1>2

(* An acknowledgement on its way stays the journal's while completed entries *)
(* keep their command and completion and are only ever leased anew.         *)
LEMMA OthersKept ==
  ASSUME OthersInv, UNCHANGED <<heartbeat, net, performed, faults, exit>>,
         JournalTypeOK, JournalTypeOK',
         \A i \in DOMAIN entries : Completed(i) =>
           /\ i \in DOMAIN entries'
           /\ entries'[i].cmd = entries[i].cmd
           /\ entries'[i].completion = entries[i].completion
           /\ entries[i].lease <= entries'[i].lease
  PROVE  OthersInv'
<1>1. ASSUME NEW r \in net, r.type = "ack"
      PROVE  SentAck(r.ack)'
  <2> DEFINE a == r.ack
             s == a.sequence
  <2>1. SentAck(a) /\ r \in Requests
    BY <1>1 DEF OthersInv, NetInv
  <2>2. s \in DOMAIN entries /\ Completed(s) /\ a.lease <= entries[s].lease
        /\ a = [Acknowledgement(s) EXCEPT !.lease = a.lease]
    BY <2>1 DEF SentAck
  <2>3. a \in Ack
    BY <1>1, <2>1 DEF Requests
  <2>4. a.lease \in Nat /\ entries[s].lease \in Nat
    <3>1. a.lease \in Nat
      BY <2>3 DEF Ack, LeaseId
    <3> QED BY <2>2, <3>1, EntryType DEF JournalTypeOK
  <2>5. /\ s \in DOMAIN entries' /\ entries'[s].cmd = entries[s].cmd
        /\ entries'[s].completion = entries[s].completion
        /\ entries[s].lease <= entries'[s].lease
    BY <2>2
  <2>6. entries'[s].lease \in Nat
    BY <2>5, EntryType DEF JournalTypeOK
  <2>7. [Acknowledgement(s) EXCEPT !.lease = a.lease]
          = [Acknowledgement(s)' EXCEPT !.lease = a.lease]
    BY <2>5 DEF Acknowledgement
  <2>8. a.lease <= entries'[s].lease
    BY <2>2, <2>4, <2>5, <2>6
  <2>9. Completed(s)'
    BY <2>2, <2>5 DEF Completed
  <2> HIDE DEF a
  <2> QED BY <2>2, <2>5, <2>7, <2>8, <2>9 DEF SentAck, a
<1> QED BY <1>1 DEF OthersInv, NetInv

\* journal.begin appends a new command
LEMMA BeginNewStep ==
  ASSUME DeliveryInv, NEW env \in agent.batch, agent.pc = "batch", IsNext(env), BeginNew(env),
         agent' = [agent EXCEPT !.pc = "begun", !.batch = @ \ {env},
                                !.current = Len(entries) + 1],
         UNCHANGED <<mailboxVars, heartbeat, net, performed, faults, exit>>
  PROVE  DeliveryInv'
<1> DEFINE n == Len(entries)
           entry == [cmd |-> env.cmd, lease |-> env.lease, completion |-> NoCompletion,
                     acknowledged |-> FALSE]
<1>0. StoresInv /\ AgentInv /\ OthersInv
  BY Split
<1>1. /\ entries \in Seq(Entry) /\ rows \in Seq(Row)
      /\ n \in Nat /\ DOMAIN entries = 1 .. n /\ DOMAIN rows = 1 .. Len(rows)
  BY <1>0 DEF StoresInv, JournalTypeOK, MailboxTypeOK
<1>2. /\ env \in Envelope
      /\ n + 1 \in DOMAIN rows /\ env.cmd.sequence = n + 1
      /\ env.cmd = rows[n + 1].cmd
      /\ env.lease <= rows[n + 1].lease.id
      /\ \A e \in agent.batch : e.cmd.sequence = n + 1 => e = env
  BY <1>0, BatchFacts DEF BeginNew
<1>3. /\ entry \in Entry /\ entry.cmd = env.cmd /\ entry.lease = env.lease
      /\ entry.completion = NoCompletion /\ entry.acknowledged = FALSE
  BY <1>2 DEF Entry, Envelope
<1>4. /\ entries' = Append(entries, entry) /\ entries' \in Seq(Entry)
      /\ Len(entries') = n + 1 /\ DOMAIN entries' = 1 .. n + 1
      /\ \A i \in 1 .. n : entries'[i] = entries[i]
      /\ entries'[n + 1] = entry
  BY <1>1, <1>3 DEF BeginNew
<1> HIDE DEF n, entry
<1>5. \A i \in 1 .. n : entries[i].acknowledged
  <2>1. CASE n = 0
    BY <2>1
  <2>2. CASE n > 0 /\ ~entries[n].acknowledged
    <3>1. PICK e \in agent.batch : e.cmd.sequence = n
      BY <1>0, <1>1, <2>2 DEF AgentInv, RoundInv, Unsettled, HandsOver
    <3>2. env.cmd.sequence <= e.cmd.sequence
      BY DEF IsNext
    <3> QED BY <1>1, <1>2, <3>1, <3>2
  <2>3. CASE n > 0 /\ entries[n].acknowledged
    BY <1>0, <1>1, <2>3 DEF StoresInv, OneUnsettledCommand, n
  <2> QED BY <1>1, <2>1, <2>2, <2>3
<1>6. StoresInv'
  <2>1. JournalTypeOK'
    BY <1>0, <1>2, <1>4, FenceType DEF StoresInv, JournalTypeOK, BeginNew
  <2>2. SettlementAgreement'
    <3>1. ASSUME NEW i \in DOMAIN rows, rows[i].ack # NoAck
          PROVE  i \in DOMAIN entries' /\ Completed(i)' /\ rows[i].ack = Acknowledgement(i)'
      <4>1. i \in DOMAIN entries /\ Completed(i) /\ rows[i].ack = Acknowledgement(i)
        BY <1>0, <3>1 DEF StoresInv, SettlementAgreement
      <4>2. i \in 1 .. n /\ i \in 1 .. n + 1
        BY <1>1, <4>1
      <4>3. entries'[i] = entries[i]
        BY <1>4, <4>2
      <4> QED BY <1>4, <4>1, <4>2, <4>3 DEF Completed, Acknowledgement
    <3>2. ASSUME NEW i \in DOMAIN entries', entries'[i].acknowledged
          PROVE  i \in DOMAIN rows /\ rows[i].ack # NoAck
      <4>1. i \in 1 .. n
        BY <1>1, <1>3, <1>4, <3>2
      <4> QED BY <1>0, <1>1, <1>4, <3>2, <4>1 DEF StoresInv, SettlementAgreement
    <3> QED BY <3>1, <3>2 DEF SettlementAgreement, mailboxVars
  <2>3. OneUnsettledCommand'
    BY <1>1, <1>4, <1>5 DEF OneUnsettledCommand
  <2>4. JournalIsPrefix'
    BY <1>0, <1>1, <1>2, <1>3, <1>4 DEF StoresInv, JournalIsPrefix, mailboxVars
  <2>5. EntriesInv'
    <3>1. lastAcknowledged' = n
      <4>1. n = 0 \/ entries[n].acknowledged
        BY <1>1, <1>5
      <4>2. lastAcknowledged = n
        BY <1>0, <4>1 DEF StoresInv, EntriesInv, n
      <4> QED BY <4>2 DEF BeginNew
    <3>2. ASSUME NEW i \in DOMAIN entries'
          PROVE  /\ entries'[i].lease <= rows[i].lease.id
                 /\ entries'[i].acknowledged => Completed(i)'
      BY <1>0, <1>1, <1>2, <1>3, <1>4 DEF StoresInv, EntriesInv, Completed
    <3> QED BY <1>1, <1>3, <1>4, <3>1, <3>2 DEF EntriesInv, mailboxVars
  <2>6. RowsInv' /\ MailboxTypeOK'
    BY <1>0 DEF StoresInv, RowsInv, MailboxTypeOK, mailboxVars
  <2> QED BY <2>1, <2>2, <2>3, <2>4, <2>5, <2>6 DEF StoresInv
<1>7. AgentInv'
  <2>1. /\ agent' \in Agents
        /\ agent'.pc = "begun" /\ agent'.batch = agent.batch \ {env} /\ agent'.current = n + 1
        /\ agent'.reply = agent.reply /\ agent'.awaiting = agent.awaiting
        /\ agent'.pending = agent.pending
    <3>1. agent \in Agents /\ n + 1 \in Nat /\ "begun" \in Phases
      BY <1>0, <1>1 DEF AgentInv, Phases
    <3>2. agent' = [agent EXCEPT !.pc = "begun", !.batch = agent.batch \ {env}, !.current = n + 1]
      BY DEF n
    <3>3. agent.batch \ {env} \subseteq Envelope
      BY <3>1 DEF Agents
    <3> QED BY <3>1, <3>2, <3>3 DEF Agents
  <2>2. agent.reply = NoReply
    BY <1>0 DEF AgentInv, AwaitingInv, Waiting
  <2>3. BatchInv(agent.batch)'
    BY <1>0, <1>1, <1>2, <1>3, <1>4, <2>1 DEF AgentInv, BatchInv, mailboxVars
  <2>4. BatchInv(agent.reply.batch)'
    BY <2>1, <2>2, NoReplyFacts DEF BatchInv
  <2>5. CurrentInv'
    BY <1>0, <1>1, <1>3, <1>4, <2>1 DEF AgentInv, CurrentInv, Working, Delivering, Completed
  <2>6. AwaitingInv' /\ ReplyInv' /\ RoundInv'
    BY <1>0, <2>1 DEF AgentInv, AwaitingInv, ReplyInv, RoundInv, Waiting
  <2> QED BY <2>1, <2>3, <2>4, <2>5, <2>6 DEF AgentInv, Agents
<1>8. OthersInv'
  <2>1. ASSUME NEW i \in DOMAIN entries
        PROVE  i \in DOMAIN entries' /\ entries'[i] = entries[i] /\ entries[i].lease <= entries[i].lease
    BY <1>1, <1>4, EntryType
  <2> QED BY <1>0, <1>6, <2>1, OthersKept DEF StoresInv
<1> QED BY <1>6, <1>7, <1>8, Join

(* Replacing the last entry, as redelivery, completion and receipt do. *)
LEMMA ReplaceLast ==
  ASSUME StoresInv, OthersInv, NEW n, n = Len(entries), n > 0, NEW e \in Entry,
         entries' = [entries EXCEPT ![n] = e],
         ~entries[n].acknowledged,
         e.cmd = entries[n].cmd,
         entries[n].lease <= e.lease, e.lease <= rows[n].lease.id,
         Completed(n) => e.completion = entries[n].completion,
         rows[n].ack # NoAck => e.lease = entries[n].lease,
         e.acknowledged => e.completion # NoCompletion /\ rows[n].ack # NoAck,
         lastAcknowledged' = IF e.acknowledged THEN n ELSE n - 1,
         UNCHANGED <<mailboxVars, generations, heartbeat, net, performed, faults, exit>>
  PROVE  /\ StoresInv' /\ OthersInv'
         /\ n \in Nat /\ n \in DOMAIN entries /\ DOMAIN entries' = DOMAIN entries
         /\ Len(entries') = n /\ entries'[n] = e
         /\ \A i \in DOMAIN entries : i # n => entries'[i] = entries[i] /\ entries[i].acknowledged
<1>1. /\ entries \in Seq(Entry) /\ n \in Nat /\ DOMAIN entries = 1 .. n /\ n \in DOMAIN entries
  BY DEF StoresInv, JournalTypeOK
<1>2. /\ entries' \in Seq(Entry) /\ Len(entries') = n /\ DOMAIN entries' = 1 .. n
      /\ entries'[n] = e /\ \A i \in DOMAIN entries : i # n => entries'[i] = entries[i]
  BY <1>1
<1>3. \A i \in DOMAIN entries : i # n => entries[i].acknowledged
  BY <1>1 DEF StoresInv, OneUnsettledCommand
<1>4. JournalTypeOK'
  BY <1>1, <1>2 DEF StoresInv, JournalTypeOK
<1>5. SettlementAgreement'
  <2>1. ASSUME NEW i \in DOMAIN rows, rows[i].ack # NoAck
        PROVE  i \in DOMAIN entries' /\ Completed(i)' /\ rows[i].ack = Acknowledgement(i)'
    <3>1. i \in DOMAIN entries /\ Completed(i) /\ rows[i].ack = Acknowledgement(i)
      BY <2>1 DEF StoresInv, SettlementAgreement
    <3>2. CASE i = n
      <4>1. /\ entries'[i].cmd = entries[i].cmd /\ entries'[i].lease = entries[i].lease
            /\ entries'[i].completion = entries[i].completion
        BY <1>2, <2>1, <3>1, <3>2
      <4> QED BY <1>1, <1>2, <3>1, <4>1 DEF Completed, Acknowledgement
    <3>3. CASE i # n
      BY <1>1, <1>2, <3>1, <3>3 DEF Completed, Acknowledgement
    <3> QED BY <3>2, <3>3
  <2>2. ASSUME NEW i \in DOMAIN entries', entries'[i].acknowledged
        PROVE  i \in DOMAIN rows /\ rows[i].ack # NoAck
    <3>1. DOMAIN entries \subseteq DOMAIN rows
      BY <1>1 DEF StoresInv, JournalIsPrefix, MailboxTypeOK
    <3>2. CASE i = n
      BY <1>1, <1>2, <2>2, <3>1, <3>2
    <3>3. CASE i # n
      BY <1>1, <1>2, <2>2, <3>1, <3>3 DEF StoresInv, SettlementAgreement
    <3> QED BY <3>2, <3>3
  <2> QED BY <2>1, <2>2 DEF SettlementAgreement, mailboxVars
<1>6. OneUnsettledCommand'
  BY <1>1, <1>2, <1>3 DEF OneUnsettledCommand
<1>7. JournalIsPrefix'
  BY <1>1, <1>2 DEF StoresInv, JournalIsPrefix, mailboxVars
<1>8. RowsInv' /\ MailboxTypeOK'
  BY DEF StoresInv, RowsInv, MailboxTypeOK, mailboxVars
<1>9. EntriesInv'
  <2>1. ASSUME NEW i \in DOMAIN entries'
        PROVE  /\ entries'[i].lease <= rows[i].lease.id
               /\ entries'[i].acknowledged => Completed(i)'
    BY <1>1, <1>2 DEF StoresInv, EntriesInv, Completed
  <2> QED BY <1>1, <1>2, <2>1 DEF EntriesInv, mailboxVars
<1>10. StoresInv'
  BY <1>4, <1>5, <1>6, <1>7, <1>8, <1>9 DEF StoresInv
<1>11. OthersInv'
  <2>1. ASSUME NEW i \in DOMAIN entries, Completed(i)
        PROVE  /\ i \in DOMAIN entries'
               /\ entries'[i].cmd = entries[i].cmd
               /\ entries'[i].completion = entries[i].completion
               /\ entries[i].lease <= entries'[i].lease
    <3>1. CASE i = n
      BY <1>1, <1>2, <2>1, <3>1
    <3>2. CASE i # n
      BY <1>1, <1>2, <3>2, EntryType
    <3> QED BY <3>1, <3>2
  <2> QED BY <1>4, <2>1, OthersKept DEF StoresInv
<1> QED BY <1>1, <1>2, <1>3, <1>10, <1>11

\* journal.begin rebinds a redelivered command to the newer lease
LEMMA BeginRedeliveredStep ==
  ASSUME DeliveryInv, NEW env \in agent.batch, agent.pc = "batch", NEW i \in DOMAIN entries,
         BeginRedelivered(env, i),
         agent' = [agent EXCEPT !.pc = IF Completed(i) THEN "deliver" ELSE "begun",
                                !.batch = @ \ {env}, !.current = i],
         UNCHANGED <<mailboxVars, heartbeat, net, performed, faults, exit>>
  PROVE  DeliveryInv'
<1> DEFINE e == [entries[i] EXCEPT !.lease = env.lease]
<1>0. StoresInv /\ AgentInv /\ OthersInv
  BY Split
<1>1. entries[i] \in Entry /\ entries[i].lease \in Nat
  BY <1>0, EntryType DEF StoresInv, JournalTypeOK
<1>2. /\ i = env.cmd.sequence /\ rows[i].ack = NoAck /\ env.lease \in LeaseId
      /\ entries[i].lease < env.lease /\ env.lease <= rows[i].lease.id
      /\ \A f \in agent.batch : f.cmd.sequence = i => f = env
  <2>1. i = env.cmd.sequence
    BY <1>0 DEF StoresInv, JournalIsPrefix, JournalTypeOK, MailboxTypeOK, RowsInv, BeginRedelivered
  <2> QED BY <1>0, <2>1, BatchFacts
<1>3. ~entries[i].acknowledged /\ i = Len(entries) /\ i \in Nat /\ i > 0
      /\ lastAcknowledged = Len(entries) - 1
  BY <1>0, <1>2 DEF StoresInv, SettlementAgreement, OneUnsettledCommand, JournalTypeOK, EntriesInv
<1>4. /\ e \in Entry /\ e.cmd = entries[i].cmd /\ e.lease = env.lease
      /\ e.completion = entries[i].completion /\ e.acknowledged = entries[i].acknowledged
  BY <1>1, <1>2 DEF Entry
<1>5. entries' = [entries EXCEPT ![i] = e] /\ UNCHANGED <<lastAcknowledged, generations>>
  BY DEF BeginRedelivered
<1>6. entries[i].lease <= env.lease
  BY <1>1, <1>2 DEF LeaseId
<1> HIDE DEF e
<1>7. /\ StoresInv' /\ OthersInv' /\ DOMAIN entries' = DOMAIN entries
      /\ Len(entries') = i /\ entries'[i] = e
      /\ \A j \in DOMAIN entries : j # i => entries'[j] = entries[j] /\ entries[j].acknowledged
  BY <1>0, <1>2, <1>3, <1>4, <1>5, <1>6, ReplaceLast
<1>8. AgentInv'
  <2>1. /\ agent' \in Agents
        /\ agent'.pc = (IF Completed(i) THEN "deliver" ELSE "begun")
        /\ agent'.batch = agent.batch \ {env} /\ agent'.current = i
        /\ agent'.reply = agent.reply /\ agent'.awaiting = agent.awaiting
        /\ agent'.pending = agent.pending
    <3>1. agent \in Agents /\ {"begun", "deliver"} \subseteq Phases
      BY <1>0 DEF AgentInv, Phases
    <3>2. agent.batch \ {env} \subseteq Envelope
      BY <3>1 DEF Agents
    <3> QED BY <1>3, <3>1, <3>2 DEF Agents
  <2>2. agent.reply = NoReply
    BY <1>0 DEF AgentInv, AwaitingInv, Waiting
  <2>3. BatchInv(agent.batch)'
    <3>1. ASSUME NEW f \in agent.batch, f # env
          PROVE  f.cmd.sequence # i
      BY <1>2, <3>1
    <3> QED BY <1>0, <1>7, <2>1, <3>1 DEF AgentInv, BatchInv, mailboxVars
  <2>4. BatchInv(agent.reply.batch)'
    BY <2>1, <2>2, NoReplyFacts DEF BatchInv
  <2>5. CurrentInv'
    BY <1>0, <1>3, <1>4, <1>7, <2>1 DEF AgentInv, CurrentInv, Working, Delivering, Completed
  <2>6. AwaitingInv' /\ ReplyInv' /\ RoundInv'
    BY <1>0, <2>1 DEF AgentInv, AwaitingInv, ReplyInv, RoundInv, Waiting
  <2> QED BY <2>1, <2>3, <2>4, <2>5, <2>6 DEF AgentInv, Agents
<1> QED BY <1>7, <1>8, Join

\* journal.complete decides the outcome of the current command
LEMMA CompleteCommandStep ==
  ASSUME DeliveryInv, CompleteCommand
  PROVE  DeliveryInv'
<1> DEFINE n == agent.current
           completion == [completedAt |-> Later(AgentNow, Current.issuedAt), outcome |-> agent.outcome]
           e == [entries[n] EXCEPT !.completion = completion]
<1>0. StoresInv /\ AgentInv /\ OthersInv
  BY Split
<1>1. /\ agent.pc = "completing" /\ n = Len(entries) /\ n > 0 /\ n \in Nat
      /\ ~entries[n].acknowledged /\ ~Completed(n) /\ agent.outcome \in Outcomes
  BY <1>0 DEF CompleteCommand, AgentInv, CurrentInv, Working, Agents
<1>2. n \in DOMAIN entries
  BY <1>0, <1>1 DEF StoresInv, JournalTypeOK
<1>3. entries[n] \in Entry /\ entries[n].lease \in Nat
  BY <1>0, <1>2, EntryType DEF StoresInv, JournalTypeOK
<1>4. completion \in Completion /\ completion # NoCompletion
  <2>1. Current.issuedAt \in Int
    BY <1>3 DEF Current, Entry, Command
  <2>2. AgentNow \in Int
    BY <1>0, ClockOffsetAssumption DEF StoresInv, MailboxTypeOK, AgentNow
  <2> QED BY <1>1, <2>1, <2>2 DEF Completion, NoCompletion, Outcomes, Later
<1>5. entries' = [entries EXCEPT ![n] = e] /\ UNCHANGED <<lastAcknowledged, generations>>
  BY <1>1 DEF CompleteCommand, Complete
<1> HIDE DEF completion
<1>6. /\ e \in Entry /\ e.cmd = entries[n].cmd /\ e.lease = entries[n].lease
      /\ e.completion = completion /\ e.acknowledged = entries[n].acknowledged
  BY <1>3, <1>4 DEF Entry
<1> HIDE DEF e
<1>7. /\ entries[n].lease <= e.lease /\ e.lease <= rows[n].lease.id
      /\ lastAcknowledged = n - 1
  BY <1>0, <1>1, <1>2, <1>3, <1>6 DEF StoresInv, EntriesInv
<1> HIDE DEF n
<1>8. /\ StoresInv' /\ OthersInv' /\ DOMAIN entries' = DOMAIN entries
      /\ Len(entries') = n /\ entries'[n] = e
      /\ \A j \in DOMAIN entries : j # n => entries'[j] = entries[j] /\ entries[j].acknowledged
  BY <1>0, <1>1, <1>5, <1>6, <1>7, ReplaceLast DEF CompleteCommand
<1>9. AgentInv'
  <2>1. /\ agent' \in Agents /\ agent'.pc = "deliver" /\ agent'.batch = agent.batch
        /\ agent'.current = agent.current
        /\ agent'.reply = agent.reply /\ agent'.awaiting = agent.awaiting
        /\ agent'.pending = agent.pending
    <3>1. agent \in Agents /\ "deliver" \in Phases
      BY <1>0 DEF AgentInv, Phases
    <3> QED BY <3>1 DEF Agents, CompleteCommand
  <2>2. agent.reply = NoReply
    BY <1>0, <1>1 DEF AgentInv, AwaitingInv, Waiting
  <2>3. BatchInv(agent.batch)'
    BY <1>0, <1>6, <1>8, <2>1 DEF AgentInv, BatchInv, mailboxVars, CompleteCommand
  <2>4. BatchInv(agent.reply.batch)'
    BY <2>1, <2>2, NoReplyFacts DEF BatchInv
  <2>5. CurrentInv'
    BY <1>0, <1>1, <1>2, <1>4, <1>6, <1>8, <2>1
       DEF AgentInv, CurrentInv, Working, Delivering, Completed, n
  <2>6. AwaitingInv' /\ ReplyInv' /\ RoundInv'
    BY <1>0, <1>1, <2>1 DEF AgentInv, AwaitingInv, ReplyInv, RoundInv, Waiting
  <2> QED BY <2>1, <2>3, <2>4, <2>5, <2>6 DEF AgentInv, Agents
<1> QED BY <1>8, <1>9, Join

\* contiguous_acknowledged_sequence of a fully acknowledged journal is its length
LEMMA ContiguousAll ==
  ASSUME NEW es \in Seq(Entry), \A i \in DOMAIN es : es[i].acknowledged
  PROVE  ContiguousAcknowledged(es) = Len(es)
<1> DEFINE P(n) == /\ \A i \in 1 .. n : es[i].acknowledged
                   /\ n < Len(es) => ~es[n + 1].acknowledged
           n0 == CHOOSE n \in 0 .. Len(es) : P(n)
<1>1. Len(es) \in 0 .. Len(es) /\ P(Len(es))
  OBVIOUS
<1>2. n0 \in 0 .. Len(es) /\ P(n0)
  BY <1>1
<1>3. n0 = Len(es)
  <2>1. ASSUME n0 < Len(es) PROVE FALSE
    <3>1. n0 + 1 \in DOMAIN es
      BY <1>2, <2>1
    <3> QED BY <1>2, <2>1, <3>1
  <2> QED BY <1>2, <2>1
<1> QED BY <1>3 DEF ContiguousAcknowledged

\* mark_acknowledged after a receipt
LEMMA ReceiveReceiptStep ==
  ASSUME DeliveryInv, ReceiveReceipt
  PROVE  DeliveryInv'
<1> DEFINE n == agent.current
           e == [entries[n] EXCEPT !.acknowledged = TRUE]
<1>0. StoresInv /\ AgentInv /\ OthersInv
  BY Split
<1>1. /\ agent.pc = "acking" /\ n = Len(entries) /\ n > 0 /\ n \in Nat
      /\ ~entries[n].acknowledged /\ Completed(n) /\ rows[n].ack # NoAck
  BY <1>0 DEF ReceiveReceipt, AgentInv, CurrentInv, ReplyInv, Delivering, Agents
<1>2. n \in DOMAIN entries
  BY <1>0, <1>1 DEF StoresInv, JournalTypeOK
<1>3. entries[n] \in Entry /\ entries[n].lease \in Nat
  BY <1>0, <1>2, EntryType DEF StoresInv, JournalTypeOK
<1>4. entries' = [entries EXCEPT ![n] = e] /\ UNCHANGED generations
      /\ lastAcknowledged' = ContiguousAcknowledged(entries')
  BY DEF ReceiveReceipt, MarkAcknowledged
<1>5. /\ e \in Entry /\ e.cmd = entries[n].cmd /\ e.lease = entries[n].lease
      /\ e.completion = entries[n].completion /\ e.acknowledged = TRUE
  BY <1>3 DEF Entry
<1> HIDE DEF e
<1>6. /\ entries[n].lease <= e.lease /\ e.lease <= rows[n].lease.id
  BY <1>0, <1>1, <1>2, <1>3, <1>5 DEF StoresInv, EntriesInv
<1> HIDE DEF n
<1>7. lastAcknowledged' = n
  <2>1. entries \in Seq(Entry) /\ DOMAIN entries = 1 .. n
    BY <1>0, <1>1 DEF StoresInv, JournalTypeOK
  <2>2. /\ entries' \in Seq(Entry) /\ Len(entries') = n /\ DOMAIN entries' = 1 .. n
        /\ entries'[n] = e /\ \A i \in DOMAIN entries : i # n => entries'[i] = entries[i]
    BY <1>2, <1>4, <1>5, <2>1
  <2>3. \A i \in DOMAIN entries' : entries'[i].acknowledged
    BY <1>0, <1>1, <1>5, <2>1, <2>2 DEF StoresInv, OneUnsettledCommand
  <2> QED BY <1>4, <2>2, <2>3, ContiguousAll
<1>8. /\ StoresInv' /\ OthersInv' /\ DOMAIN entries' = DOMAIN entries
      /\ Len(entries') = n /\ entries'[n] = e
      /\ \A j \in DOMAIN entries : j # n => entries'[j] = entries[j] /\ entries[j].acknowledged
  <2>1. e.completion # NoCompletion
    BY <1>1, <1>5 DEF Completed
  <2> QED BY <1>0, <1>1, <1>4, <1>5, <1>6, <1>7, <2>1, ReplaceLast DEF ReceiveReceipt
<1>9. AgentInv'
  <2>1. /\ agent' \in Agents
        /\ agent'.pc = (IF agent.current \in agent.pending THEN "pending" ELSE "batch")
        /\ agent'.batch = agent.batch /\ agent'.pending = agent.pending \ {agent.current}
        /\ agent'.reply = NoReply /\ agent'.awaiting = NoRequest
    <3>1. agent \in Agents /\ {"pending", "batch"} \subseteq Phases
      BY <1>0 DEF AgentInv, Phases
    <3>2. agent.pending \ {agent.current} \subseteq Nat
      BY <3>1 DEF Agents
    <3> QED BY <3>1, <3>2, NoReplyFacts DEF Agents, ReceiveReceipt
  <2>2. BatchInv(agent.batch)'
    BY <1>0, <1>5, <1>8, <2>1 DEF AgentInv, BatchInv, mailboxVars, ReceiveReceipt
  <2>3. BatchInv(agent.reply.batch)'
    BY <2>1, NoReplyFacts DEF BatchInv
  <2>4. CurrentInv'
    BY <1>0, <1>8, <2>1 DEF AgentInv, CurrentInv, Working, Delivering, Completed, n
  <2>5. AwaitingInv' /\ ReplyInv'
    BY <2>1 DEF AwaitingInv, ReplyInv
  <2>6. RoundInv'
    BY <1>5, <1>8, <2>1 DEF RoundInv, Unsettled
  <2> QED BY <2>1, <2>2, <2>3, <2>4, <2>5, <2>6 DEF AgentInv, Agents
<1> QED BY <1>8, <1>9, Join

(***************************************************************************)
(* The mailbox                                                             *)
(***************************************************************************)

\* A transaction that touches neither rows nor leases keeps the stores in
\* agreement
LEMMA RowsKept ==
  ASSUME StoresInv, UNCHANGED <<rows, leaseCount, journalVars>>, MailboxTypeOK'
  PROVE  StoresInv'
<1> USE DEF journalVars, StoresInv
<1>1. SettlementAgreement' BY DEF SettlementAgreement, Acknowledgement, Completed
<1>2. OneUnsettledCommand' BY DEF OneUnsettledCommand
<1>3. JournalIsPrefix' BY DEF JournalIsPrefix
<1>4. RowsInv' BY DEF RowsInv
<1>5. EntriesInv' BY DEF EntriesInv, Completed
<1>6. JournalTypeOK' BY DEF JournalTypeOK
<1> QED BY <1>1, <1>2, <1>3, <1>4, <1>5, <1>6

\* Time passes
LEMMA ClockTickStep ==
  ASSUME DeliveryInv, ClockTick, UNCHANGED <<journalVars, channelVars>>
  PROVE  DeliveryInv'
<1>0. StoresInv /\ AgentInv /\ OthersInv
  BY Split
<1>1. MailboxTypeOK' /\ UNCHANGED <<rows, leaseCount>>
  BY <1>0 DEF StoresInv, MailboxTypeOK, ClockTick, Tick
<1> QED BY <1>0, <1>1, RowsKept, AgentUnchanged, OthersUnchanged, Join DEF journalVars, channelVars

\* The node is revoked
LEMMA RevokeStep ==
  ASSUME DeliveryInv, Revoke, UNCHANGED <<journalVars, channelVars>>
  PROVE  DeliveryInv'
<1>0. StoresInv /\ AgentInv /\ OthersInv
  BY Split
<1>1. MailboxTypeOK' /\ UNCHANGED <<rows, leaseCount>>
  BY <1>0 DEF StoresInv, MailboxTypeOK, Revoke
<1> QED BY <1>0, <1>1, RowsKept, AgentUnchanged, OthersUnchanged, Join DEF journalVars, channelVars

(* The journaled commands are rows of the mailbox. *)
LEMMA EntriesAreRows ==
  ASSUME StoresInv
  PROVE  /\ DOMAIN entries \subseteq DOMAIN rows
         /\ DOMAIN entries = 1 .. Len(entries) /\ DOMAIN rows = 1 .. Len(rows)
         /\ Len(entries) \in Nat /\ Len(rows) \in Nat
<1>1. entries \in Seq(Entry) /\ rows \in Seq(Row) /\ Len(entries) <= Len(rows)
  BY DEF StoresInv, JournalTypeOK, MailboxTypeOK, JournalIsPrefix
<1> QED BY <1>1

\* The current command is journaled and is a row of the mailbox
LEMMA CurrentIsRow ==
  ASSUME StoresInv, AgentInv, agent.pc \in Working \cup Delivering
  PROVE  agent.current \in DOMAIN entries /\ agent.current \in DOMAIN rows
<1>1. agent.current = Len(entries) /\ agent.current > 0
  BY DEF AgentInv, CurrentInv
<1> QED BY <1>1, EntriesAreRows

(* What the agent knows survives what the mailbox appends. *)
LEMMA RowsAppended ==
  ASSUME StoresInv, AgentInv, UNCHANGED <<agent, entries, lastAcknowledged>>,
         DOMAIN rows \subseteq DOMAIN rows', \A i \in DOMAIN rows : rows'[i] = rows[i]
  PROVE  AgentInv'
<1>1. BatchInv(agent.batch)' /\ BatchInv(agent.reply.batch)'
  BY DEF AgentInv, BatchInv
<1>2. CurrentInv'
  BY DEF AgentInv, CurrentInv, Completed
<1>3. AwaitingInv'
  BY DEF AgentInv, AwaitingInv, Acknowledgement
<1>4. ASSUME NEW i \in DOMAIN rows
      PROVE  NeedsRedelivery(i)' = NeedsRedelivery(i)
  BY DEF NeedsRedelivery, Completed, Acknowledgeable, Acknowledgement
<1>5. ReplyInv'
  BY <1>4, CurrentIsRow DEF AgentInv, ReplyInv, Delivering
<1>6. RoundInv'
  BY <1>4, EntriesAreRows DEF AgentInv, RoundInv, Unsettled, HandsOver
<1> QED BY <1>1, <1>2, <1>3, <1>5, <1>6 DEF AgentInv, Agents

\* enqueue appends a command
LEMMA EnqueueStep ==
  ASSUME DeliveryInv, NEW d \in Drafts, NEW t \in RecentTimes, Enqueue(d, t),
         UNCHANGED <<journalVars, channelVars>>
  PROVE  DeliveryInv'
<1> DEFINE n == Len(rows)
           cmd == [id |-> d.id, aggregate |-> d.aggregate, payload |-> d.payload,
                   sequence |-> n + 1, issuedAt |-> t, notAfter |-> t + d.ttl]
           row == [cmd |-> cmd, lease |-> NoLease, ack |-> NoAck]
<1>0. StoresInv /\ AgentInv /\ OthersInv
  BY Split
<1>1. rows \in Seq(Row) /\ n \in Nat /\ DOMAIN rows = 1 .. n /\ t \in Int /\ leaseCount \in Nat
  BY <1>0 DEF StoresInv, MailboxTypeOK, RecentTimes
<1>2. cmd \in Command
  <2>1. d.id \in Ids /\ d.aggregate \in Aggregates /\ d.payload \in Payloads
    BY DEF Ids, Aggregates, Payloads
  <2>2. t + d.ttl \in Int /\ n + 1 \in Nat \ {0}
    BY <1>1, DraftsAssumption
  <2> QED BY <1>1, <2>1, <2>2 DEF Command
<1>3. row \in Row /\ row.cmd = cmd /\ row.lease = NoLease /\ row.ack = NoAck
  BY <1>2 DEF Row
<1>4. cmd.sequence = n + 1 /\ cmd.id = d.id /\ NoLease.id = 0
  BY DEF NoLease
<1>5. rows' = Append(rows, row) /\ (\A i \in DOMAIN rows : rows[i].cmd.id # d.id)
  BY DEF Enqueue
<1>5a. UNCHANGED <<now, leaseCount, revoked, reports, lastObserved>>
  BY DEF Enqueue
<1> HIDE DEF n, cmd, row
<1>6. /\ rows' \in Seq(Row) /\ Len(rows') = n + 1 /\ DOMAIN rows' = 1 .. n + 1
      /\ rows'[n + 1] = row /\ \A i \in DOMAIN rows : rows'[i] = rows[i]
  BY <1>1, <1>3, <1>5 DEF n
<1>7. DOMAIN rows \subseteq DOMAIN rows' /\ n + 1 \notin DOMAIN rows
      /\ \A i \in DOMAIN rows' : i \in DOMAIN rows \/ i = n + 1
  BY <1>1, <1>6
<1>8. MailboxTypeOK'
  BY <1>0, <1>5a, <1>6 DEF StoresInv, MailboxTypeOK
<1>9. SettlementAgreement'
  <2>1. ASSUME NEW i \in DOMAIN rows', rows'[i].ack # NoAck
        PROVE  i \in DOMAIN entries /\ Completed(i) /\ rows'[i].ack = Acknowledgement(i)
    BY <1>0, <1>3, <1>6, <1>7, <2>1 DEF StoresInv, SettlementAgreement
  <2>2. ASSUME NEW i \in DOMAIN entries, entries[i].acknowledged
        PROVE  i \in DOMAIN rows' /\ rows'[i].ack # NoAck
    BY <1>0, <1>6, <1>7, <2>2 DEF StoresInv, SettlementAgreement
  <2> QED BY <2>1, <2>2 DEF SettlementAgreement, Completed, Acknowledgement, journalVars
<1>10. JournalIsPrefix'
  BY <1>0, <1>1, <1>6, EntriesAreRows DEF StoresInv, JournalIsPrefix, journalVars, n
<1>11. RowsInv'
  <2>1. \A i \in DOMAIN rows' : rows'[i].cmd.sequence = i /\ rows'[i].lease.id <= leaseCount
    BY <1>0, <1>1, <1>3, <1>4, <1>6, <1>7 DEF StoresInv, RowsInv
  <2>2. ASSUME NEW i \in DOMAIN rows', NEW j \in DOMAIN rows', rows'[i].cmd.id = rows'[j].cmd.id
        PROVE  i = j
    BY <1>0, <1>3, <1>4, <1>5, <1>6, <1>7, <2>2 DEF StoresInv, RowsInv
  <2> QED BY <1>5a, <2>1, <2>2 DEF RowsInv
<1>12. EntriesInv'
  <2>1. \A i \in DOMAIN entries : rows'[i] = rows[i]
    BY <1>0, <1>6, EntriesAreRows
  <2> QED BY <1>0, <2>1 DEF StoresInv, EntriesInv, Completed, journalVars
<1>13. JournalTypeOK' /\ OneUnsettledCommand'
  BY <1>0 DEF StoresInv, JournalTypeOK, OneUnsettledCommand, journalVars
<1>14. StoresInv'
  BY <1>8, <1>9, <1>10, <1>11, <1>12, <1>13 DEF StoresInv
<1>15. AgentInv'
  BY <1>0, <1>6, <1>7, RowsAppended DEF journalVars, channelVars
<1>16. OthersInv'
  BY <1>0, OthersUnchanged DEF journalVars, channelVars
<1> QED BY <1>14, <1>15, <1>16, Join

(***************************************************************************)
(* The control plane answers                                               *)
(***************************************************************************)

\* A response reaches the loop only if it still waits for that very request
LEMMA RespondFacts ==
  ASSUME OthersInv, NEW request, NEW reply, Respond(request, reply)
  PROVE  /\ OthersInv'
         /\ UNCHANGED journalVars
         /\ \/ agent' = agent
            \/ agent.awaiting = request /\ agent' = [agent EXCEPT !.reply = reply]
<1>1. /\ UNCHANGED <<journalVars, heartbeat, performed, exit>> /\ net' = net \ {request}
      /\ faults' \in Nat
  BY DEF Respond, Fault, OthersInv
<1>2. NetInv'
  BY <1>1, SentAckUnchanged DEF OthersInv, NetInv, journalVars
<1>3. OthersInv'
  BY <1>1, <1>2 DEF OthersInv
<1> QED BY <1>1, <1>3 DEF Respond

(* The phase of the loop tells which request it waits for. *)
LEMMA AwaitedRequest ==
  ASSUME AgentInv, NEW r \in Requests, agent.awaiting = r
  PROVE  /\ r.type = "lease" => agent.pc = "polling" /\ r.after = lastAcknowledged
         /\ r.type = "ack" => agent.pc = "acking" /\ r.ack = Acknowledgement(agent.current)
         /\ r.type = "observe" => agent.pc = "reporting"
<1>1. r # NoRequest
  BY DEF Requests, NoRequest
<1>2. agent.pc \in Waiting
  BY <1>1 DEF AgentInv, AwaitingInv
<1>3. agent.pc = "polling" => r.type = "lease" /\ r.after = lastAcknowledged
  BY DEF AgentInv, AwaitingInv, LeaseRequest
<1>4. agent.pc = "acking" => r.type = "ack" /\ r.ack = Acknowledgement(agent.current)
  BY DEF AgentInv, AwaitingInv, AckRequest
<1>5. agent.pc = "reporting" => r.type = "observe"
  BY DEF AgentInv, AwaitingInv
<1> QED BY <1>2, <1>3, <1>4, <1>5 DEF Waiting

\* Answers without a batch are well typed
LEMMA ReplyType ==
  ASSUME NEW status \in {"none", "ok", "conflict", "refused"}
  PROVE  Reply(status) \in Replies /\ Reply(status).status = status /\ Reply(status).batch = {}
  BY DEF Reply, Replies

\* What an answer leaves of the command loop
LEMMA ReplyAgent ==
  ASSUME agent \in Agents, NEW reply \in Replies, agent' = [agent EXCEPT !.reply = reply]
  PROVE  /\ agent' \in Agents
         /\ agent'.pc = agent.pc /\ agent'.awaiting = agent.awaiting /\ agent'.reply = reply
         /\ agent'.batch = agent.batch /\ agent'.pending = agent.pending
         /\ agent'.current = agent.current /\ agent'.outcome = agent.outcome
  BY DEF Agents

(* An answer that settles nothing and hands nothing over. *)
LEMMA PlainReply ==
  ASSUME AgentInv, UNCHANGED <<rows, entries, lastAcknowledged>>,
         NEW status \in {"ok", "conflict", "refused"},
         agent' = [agent EXCEPT !.reply = Reply(status)],
         agent.pc \in Waiting, agent.pc = "acking" => status = "refused"
  PROVE  AgentInv'
<1>1. agent \in Agents
  BY DEF AgentInv
<1>2. /\ agent' \in Agents
      /\ agent'.pc = agent.pc /\ agent'.awaiting = agent.awaiting
      /\ agent'.reply.status = status /\ agent'.reply.batch = {}
      /\ agent'.batch = agent.batch /\ agent'.pending = agent.pending
      /\ agent'.current = agent.current /\ agent'.outcome = agent.outcome
  BY <1>1, ReplyType, ReplyAgent
<1>3. BatchInv(agent.batch)' /\ BatchInv(agent.reply.batch)'
  BY <1>2 DEF AgentInv, BatchInv
<1>4. CurrentInv'
  BY <1>2 DEF AgentInv, CurrentInv, Completed
<1>5. AwaitingInv'
  BY <1>2 DEF AgentInv, AwaitingInv, Acknowledgement, Waiting
<1>6. ReplyInv'
  BY <1>2 DEF ReplyInv
<1>7. RoundInv'
  BY <1>2 DEF AgentInv, RoundInv, Unsettled, HandsOver, NeedsRedelivery, Completed,
        Acknowledgeable, Acknowledgement
<1> QED BY <1>2, <1>3, <1>4, <1>5, <1>6, <1>7 DEF AgentInv, Agents

\* record_observations leaves commands and leases alone
LEMMA ReportType ==
  ASSUME MailboxTypeOK, NEW r \in Requests, r.type = "observe",
         RecordObservations(r.reports, r.observedAt)
  PROVE  MailboxTypeOK' /\ UNCHANGED <<rows, leaseCount>>
<1>1. r.reports \subseteq Report /\ r.observedAt \in Int
  BY DEF Requests
<1> QED BY <1>1 DEF MailboxTypeOK, RecordObservations

\* record_observations stores or refuses the observation of a command
LEMMA HandleReportStep ==
  ASSUME DeliveryInv, NEW r \in net, HandleReport(r)
  PROVE  DeliveryInv'
<1>0. StoresInv /\ AgentInv /\ OthersInv /\ r \in Requests /\ r.type = "observe"
  BY Split DEF OthersInv, HandleReport
<1>1. \E status \in {"ok", "conflict", "refused"} : Respond(r, Reply(status))
  <2>1. CASE Respond(r, Reply("ok"))
    BY <2>1
  <2>2. CASE Respond(r, Reply(IF revoked THEN "refused" ELSE "conflict"))
    BY <2>2
  <2> QED BY <2>1, <2>2 DEF HandleReport
<1>1a. PICK status \in {"ok", "conflict", "refused"} : Respond(r, Reply(status))
  BY <1>1
<1>2. OthersInv' /\ UNCHANGED journalVars
      /\ (agent' = agent \/ (agent.awaiting = r /\ agent' = [agent EXCEPT !.reply = Reply(status)]))
  BY <1>0, <1>1a, RespondFacts
<1>3. MailboxTypeOK' /\ UNCHANGED <<rows, leaseCount>>
  BY <1>0, ReportType DEF HandleReport, StoresInv, MailboxTypeOK, mailboxVars
<1>4. StoresInv'
  BY <1>0, <1>2, <1>3, RowsKept
<1>5. AgentInv'
  <2>1. CASE agent' = agent
    BY <1>0, <1>2, <1>3, <2>1, AgentUnchanged DEF journalVars
  <2>2. CASE agent.awaiting = r /\ agent' = [agent EXCEPT !.reply = Reply(status)]
    <3>1. agent.pc = "reporting"
      BY <1>0, <2>2, AwaitedRequest
    <3> QED BY <1>0, <1>2, <1>3, <2>2, <3>1, PlainReply DEF Waiting, journalVars
  <2> QED BY <1>2, <2>1, <2>2
<1> QED BY <1>2, <1>4, <1>5, Join

\* A revoked node is refused (HTTP 401 and 404)
LEMMA RefuseRevokedStep ==
  ASSUME DeliveryInv, NEW r \in net, RefuseRevoked(r)
  PROVE  DeliveryInv'
<1>0. StoresInv /\ AgentInv /\ OthersInv /\ r \in Requests /\ r.type \in {"lease", "ack"}
  BY Split DEF OthersInv, RefuseRevoked
<1>1. Respond(r, Reply("refused")) /\ UNCHANGED mailboxVars
  BY DEF RefuseRevoked
<1>2. OthersInv' /\ UNCHANGED journalVars
      /\ (agent' = agent \/ (agent.awaiting = r /\ agent' = [agent EXCEPT !.reply = Reply("refused")]))
  BY <1>0, <1>1, RespondFacts
<1>3. AgentInv'
  <2>1. CASE agent' = agent
    BY <1>1, <1>0, <1>2, <2>1, AgentUnchanged DEF mailboxVars, journalVars
  <2>2. CASE agent.awaiting = r /\ agent' = [agent EXCEPT !.reply = Reply("refused")]
    <3>1. agent.pc \in Waiting
      BY <1>0, <2>2, AwaitedRequest DEF Waiting
    <3> QED BY <1>0, <1>1, <1>2, <2>2, <3>1, PlainReply DEF mailboxVars, journalVars
  <2> QED BY <1>2, <2>1, <2>2
<1> QED BY <1>1, <1>2, <1>3, QuietStep

\* record_observations stores or refuses a heartbeat
LEMMA HandleHeartbeatStep ==
  ASSUME DeliveryInv, NEW r \in net, HandleHeartbeat(r)
  PROVE  DeliveryInv'
<1>0. StoresInv /\ AgentInv /\ OthersInv /\ r \in Requests /\ r.type = "observe"
      /\ r.reports = {} /\ UNCHANGED <<journalVars, performed, faults>>
  BY Split DEF OthersInv, HandleHeartbeat
<1>1. CASE Stop(IF revoked THEN "refused" ELSE "observation_rejected", net \ {r})
           /\ UNCHANGED mailboxVars
  BY <1>0, <1>1, StopStep DEF Exits, OthersInv
<1>2. CASE /\ net' = net \ {r} /\ UNCHANGED <<agent, exit>>
           /\ heartbeat' \in {heartbeat, NoRequest}
           /\ RecordObservations({}, r.observedAt) \/ UNCHANGED mailboxVars
  <2>1. MailboxTypeOK' /\ UNCHANGED <<rows, leaseCount>>
    BY <1>0, <1>2, ReportType DEF StoresInv, MailboxTypeOK, mailboxVars
  <2>2. StoresInv'
    BY <1>0, <2>1, RowsKept
  <2>3. AgentInv'
    BY <1>0, <1>2, <2>1, AgentUnchanged DEF journalVars
  <2>4. NetInv'
    BY <1>0, <1>2, SentAckUnchanged DEF OthersInv, NetInv, journalVars
  <2>5. OthersInv'
    BY <1>0, <1>2, <2>4 DEF OthersInv
  <2> QED BY <2>2, <2>3, <2>5, Join
<1> QED BY <1>1, <1>2 DEF HandleHeartbeat

(* Leasing changes nothing of a row but its lease, which only gets newer. *)
Releases ==
  /\ rows' \in Seq(Row) /\ Len(rows') = Len(rows) /\ DOMAIN rows' = DOMAIN rows
  /\ leaseCount' \in Nat /\ leaseCount <= leaseCount'
  /\ \A i \in DOMAIN rows :
       /\ rows'[i].cmd = rows[i].cmd /\ rows'[i].ack = rows[i].ack
       /\ rows[i].lease.id <= rows'[i].lease.id
       /\ rows'[i].lease.id <= leaseCount'
       /\ rows'[i].lease = rows[i].lease \/ rows'[i].lease.id = leaseCount + 1

\* What is known of a row of the mailbox
LEMMA RowFacts ==
  ASSUME StoresInv, NEW i \in DOMAIN rows
  PROVE  /\ rows[i] \in Row /\ rows[i].cmd \in Command
         /\ rows[i].lease \in Lease \cup {NoLease} /\ rows[i].lease.id \in Nat
         /\ rows[i].cmd.sequence = i /\ rows[i].lease.id <= leaseCount /\ leaseCount \in Nat
         /\ i \in Nat \ {0}
<1>1. rows \in Seq(Row) /\ leaseCount \in Nat
  BY DEF StoresInv, MailboxTypeOK
<1>2. rows[i] \in Row
  BY <1>1
<1>3. rows[i].cmd \in Command /\ rows[i].lease \in Lease \cup {NoLease}
  BY <1>2 DEF Row
<1>4. rows[i].lease.id \in Nat
  BY <1>3 DEF Lease, NoLease, LeaseId
<1>5. i \in Nat \ {0}
  BY <1>1
<1> QED BY <1>1, <1>2, <1>3, <1>4, <1>5 DEF StoresInv, RowsInv

\* The journal never knows a lease newer than the row's
LEMMA EntryLease ==
  ASSUME StoresInv, NEW i \in DOMAIN entries
  PROVE  entries[i].lease \in Nat /\ entries[i].lease <= rows[i].lease.id
<1>1. entries \in Seq(Entry)
  BY DEF StoresInv, JournalTypeOK
<1>2. entries[i] \in Entry
  BY <1>1
<1>3. entries[i].lease \in Nat
  BY <1>2 DEF Entry, LeaseId
<1> QED BY <1>3 DEF StoresInv, EntriesInv

\* lease gives the leasable rows one lease identity never used before
LEMMA LeaseReleases ==
  ASSUME StoresInv, NEW after, NEW t \in RecentTimes, LeaseCommands(after, t)
  PROVE  /\ Releases
         /\ UNCHANGED <<now, revoked, reports, lastObserved>>
         /\ Leasable(after, t) \subseteq DOMAIN rows
         /\ \A i \in Leasable(after, t) :
              rows[i].ack = NoAck /\ rows'[i].lease.id = leaseCount + 1
<1> DEFINE L == Leasable(after, t)
           fresh == [id |-> leaseCount + 1, until |-> t + LeaseDuration]
<1>1. rows \in Seq(Row) /\ leaseCount \in Nat /\ now \in Nat
  BY DEF StoresInv, MailboxTypeOK
<1>2. fresh \in Lease /\ fresh.id = leaseCount + 1
  <2>1. t \in Int /\ LeaseDuration \in Int
    BY <1>1, LeaseDurationAssumption DEF RecentTimes
  <2> QED BY <1>1, <2>1 DEF Lease, LeaseId
<1>3. L \subseteq DOMAIN rows /\ \A i \in L : rows[i].ack = NoAck
  BY DEF Leasable, Candidates, Unacknowledged
<1>4. /\ rows' = [i \in DOMAIN rows |-> IF i \in L THEN [rows[i] EXCEPT !.lease = fresh] ELSE rows[i]]
      /\ leaseCount' = IF L = {} THEN leaseCount ELSE leaseCount + 1
      /\ UNCHANGED <<now, revoked, reports, lastObserved>>
  BY DEF LeaseCommands
<1> HIDE DEF L, fresh
<1>5. leaseCount' \in Nat /\ leaseCount <= leaseCount' /\ (L # {} => leaseCount' = leaseCount + 1)
  BY <1>1, <1>4
<1>6. ASSUME NEW i \in DOMAIN rows, i \in L
      PROVE  /\ rows'[i] \in Row /\ rows'[i].cmd = rows[i].cmd /\ rows'[i].ack = rows[i].ack
             /\ rows'[i].lease.id = leaseCount + 1
  <2>1. rows[i] \in Row /\ rows'[i] = [rows[i] EXCEPT !.lease = fresh]
    BY <1>4, <1>6, RowFacts
  <2> QED BY <1>2, <2>1 DEF Row
<1>7. ASSUME NEW i \in DOMAIN rows, i \notin L
      PROVE  rows'[i] = rows[i]
  BY <1>4, <1>7
<1>8. rows' \in Seq(Row) /\ Len(rows') = Len(rows) /\ DOMAIN rows' = DOMAIN rows
  <2>1. rows' \in [1 .. Len(rows) -> Row]
    BY <1>1, <1>4, <1>6, <1>7, RowFacts
  <2> QED BY <1>1, <2>1
<1>9. ASSUME NEW i \in DOMAIN rows
      PROVE  /\ rows'[i].cmd = rows[i].cmd /\ rows'[i].ack = rows[i].ack
             /\ rows[i].lease.id <= rows'[i].lease.id
             /\ rows'[i].lease.id <= leaseCount'
             /\ rows'[i].lease = rows[i].lease \/ rows'[i].lease.id = leaseCount + 1
  <2>1. rows[i].lease.id \in Nat /\ rows[i].lease.id <= leaseCount
    BY RowFacts
  <2>2. CASE i \in L
    BY <1>1, <1>5, <1>6, <2>1, <2>2
  <2>3. CASE i \notin L
    BY <1>1, <1>5, <1>7, <2>1, <2>3
  <2> QED BY <2>2, <2>3
<1>10. Releases
  BY <1>5, <1>8, <1>9 DEF Releases
<1> QED BY <1>3, <1>4, <1>6, <1>10 DEF L

\* ... and so keeps the stores in agreement
LEMMA ReleasedStores ==
  ASSUME StoresInv, Releases, UNCHANGED <<now, revoked, reports, lastObserved>>,
         UNCHANGED journalVars
  PROVE  StoresInv'
<1>0. DOMAIN entries \subseteq DOMAIN rows
  BY EntriesAreRows
<1>1. MailboxTypeOK' /\ JournalTypeOK'
  BY DEF StoresInv, MailboxTypeOK, JournalTypeOK, Releases, journalVars
<1>2. SettlementAgreement'
  BY <1>0 DEF StoresInv, SettlementAgreement, Releases, Completed, Acknowledgement, journalVars
<1>3. OneUnsettledCommand' /\ JournalIsPrefix'
  BY <1>0 DEF StoresInv, OneUnsettledCommand, JournalIsPrefix, Releases, journalVars
<1>4. RowsInv'
  BY DEF StoresInv, RowsInv, Releases
<1>5. EntriesInv'
  <2>1. ASSUME NEW i \in DOMAIN entries
        PROVE  entries[i].lease <= rows'[i].lease.id
    <3>1. entries[i].lease \in Nat
      BY EntryLease
    <3>2. rows[i].lease.id \in Nat /\ i \in DOMAIN rows /\ i \in DOMAIN rows'
      BY <1>0, RowFacts DEF Releases
    <3>3. rows'[i].lease.id \in Nat
      <4>1. rows'[i] \in Row
        BY <3>2 DEF Releases
      <4> QED BY <4>1 DEF Row, Lease, NoLease, LeaseId
    <3>4. entries[i].lease <= rows[i].lease.id /\ rows[i].lease.id <= rows'[i].lease.id
      BY <3>2 DEF StoresInv, EntriesInv, Releases
    <3> QED BY <3>1, <3>2, <3>3, <3>4
  <2> QED BY <2>1 DEF StoresInv, EntriesInv, Completed, journalVars
<1> QED BY <1>1, <1>2, <1>3, <1>4, <1>5 DEF StoresInv

(* A command that needed redelivery still does: the new lease does not fit *)
(* the acknowledgement the journal has.                                    *)
LEMMA ReleasedNeeds ==
  ASSUME StoresInv, Releases, UNCHANGED entries, NEW i \in DOMAIN entries, NeedsRedelivery(i)
  PROVE  NeedsRedelivery(i)'
<1>1. i \in DOMAIN rows /\ rows'[i].cmd = rows[i].cmd /\ rows'[i].ack = rows[i].ack
  BY EntriesAreRows DEF Releases
<1>2. CASE rows'[i].lease = rows[i].lease
  BY <1>1, <1>2 DEF NeedsRedelivery, Completed, Acknowledgeable, Acknowledgement
<1>3. CASE rows'[i].lease.id = leaseCount + 1
  <2>1. entries[i].lease \in Nat
    BY EntryLease
  <2>2. rows[i].lease.id \in Nat /\ rows[i].lease.id <= leaseCount /\ leaseCount \in Nat
    BY <1>1, RowFacts
  <2>3. entries[i].lease <= rows[i].lease.id
    BY DEF StoresInv, EntriesInv
  <2>4. entries[i].lease # rows'[i].lease.id
    BY <1>3, <2>1, <2>2, <2>3
  <2>5. Acknowledgement(i)'.lease = entries[i].lease
    BY DEF Acknowledgement
  <2>6. ~Acknowledgeable(Acknowledgement(i), i)'
    BY <2>4, <2>5 DEF Acknowledgeable, ValidateAgainst
  <2> QED BY <1>1, <2>6 DEF NeedsRedelivery
<1> QED BY <1>1, <1>2, <1>3 DEF Releases

\* Commands handed over earlier keep their lease or are leased anew
LEMMA ReleasedBatch ==
  ASSUME StoresInv, Releases, UNCHANGED entries, NEW batch \in SUBSET Envelope, BatchInv(batch)
  PROVE  /\ \A env \in batch :
              LET i == env.cmd.sequence IN
              /\ i \in DOMAIN rows'
              /\ env.cmd = rows'[i].cmd
              /\ rows'[i].ack = NoAck
              /\ env.lease <= rows'[i].lease.id
              /\ i \in DOMAIN entries' => entries'[i].lease < env.lease
         /\ \A e, f \in batch : e.lease = f.lease
<1>1. ASSUME NEW env \in batch
      PROVE  env.lease <= rows'[env.cmd.sequence].lease.id
  <2> DEFINE i == env.cmd.sequence
  <2>1. env.lease \in Nat /\ i \in DOMAIN rows
    BY DEF BatchInv, Envelope, LeaseId
  <2> HIDE DEF i
  <2>2. rows[i].lease.id \in Nat /\ i \in DOMAIN rows'
    BY <2>1, RowFacts DEF Releases
  <2>3. rows'[i].lease.id \in Nat
    <3>1. rows'[i] \in Row
      BY <2>2 DEF Releases
    <3> QED BY <3>1 DEF Row, Lease, NoLease, LeaseId
  <2>4. env.lease <= rows[i].lease.id /\ rows[i].lease.id <= rows'[i].lease.id
    BY <2>1 DEF BatchInv, Releases, i
  <2> QED BY <2>1, <2>2, <2>3, <2>4 DEF i
<1> QED BY <1>1 DEF BatchInv, Releases

(* What the agent knows survives a lease whose answer it does not get. *)
LEMMA ReleasedAgent ==
  ASSUME StoresInv, AgentInv, Releases, UNCHANGED <<agent, entries, lastAcknowledged>>
  PROVE  AgentInv'
<1>0. agent.batch \subseteq Envelope /\ agent.reply.batch \subseteq Envelope
  BY DEF AgentInv, Agents, Replies
<1>1. BatchInv(agent.batch)' /\ BatchInv(agent.reply.batch)'
  BY <1>0, ReleasedBatch DEF AgentInv, BatchInv
<1>2. CurrentInv'
  BY DEF AgentInv, CurrentInv, Completed
<1>3. AwaitingInv'
  BY DEF AgentInv, AwaitingInv, Acknowledgement
<1>5. ReplyInv'
  BY ReleasedNeeds, CurrentIsRow DEF AgentInv, ReplyInv, Delivering, Releases
<1>6. RoundInv'
  BY ReleasedNeeds DEF AgentInv, RoundInv, Unsettled, HandsOver
<1> QED BY <1>1, <1>2, <1>3, <1>5, <1>6 DEF AgentInv, Agents

(* What is handed out starts with the command the journal has not settled. *)
LEMMA LeaseHandsOver ==
  ASSUME StoresInv, NEW i \in DOMAIN entries, Unsettled(i), rows[i].ack = NoAck,
         NEW t \in RecentTimes
  PROVE  HandsOver(LeaseBatch(lastAcknowledged, t), i)
<1> DEFINE after == lastAcknowledged
           U == Unacknowledged(after)
           C == Candidates(after)
           L == Leasable(after, t)
<1>1. i \in DOMAIN rows /\ rows[i].cmd.sequence = i /\ i \in Nat
  BY EntriesAreRows, RowFacts
<1>2. i = Len(entries) /\ Len(entries) \in Nat
  BY EntriesAreRows DEF StoresInv, OneUnsettledCommand, Unsettled
<1>3. after = i - 1
  BY <1>1, <1>2 DEF StoresInv, EntriesInv, Unsettled
<1> HIDE DEF after
<1>4. \A j \in U : j \in Nat /\ j >= i
  BY <1>1, <1>3, EntriesAreRows DEF Unacknowledged
<1>5. i \in U
  BY <1>1, <1>3 DEF Unacknowledged
<1>6. i \in C
  <2>1. { j \in U : j < i } = {}
    BY <1>1, <1>4
  <2>2. Cardinality({ j \in U : j < i }) = 0
    BY <2>1, FS_EmptySet
  <2>3. Cardinality({ j \in U : j < i }) < MaxBatch
    BY <2>2, MailboxAssumption
  <2> QED BY <1>5, <2>3 DEF Candidates
<1>7. ASSUME LeaseBatch(after, t) # {}
      PROVE  \E env \in LeaseBatch(after, t) : env.cmd.sequence = i
  <2>1. PICK k \in L : TRUE
    BY <1>7 DEF LeaseBatch
  <2>2. k \in U /\ C \subseteq U
    BY <2>1 DEF Leasable, Candidates
  <2>3. \A j \in C : j <= i => j <= k
    BY <1>1, <1>4, <2>2
  <2>4. \A j \in C : j <= k => ~Held(j, t)
    BY <2>1 DEF Leasable
  <2>5. i \in L
    BY <1>6, <2>3, <2>4 DEF Leasable
  <2>6. [cmd |-> rows[i].cmd, lease |-> leaseCount + 1] \in LeaseBatch(after, t)
    BY <2>5 DEF LeaseBatch
  <2> QED BY <1>1, <2>6
<1> QED BY <1>7 DEF HandsOver, after

(* The batch itself: unsettled rows under one lease newer than the journal's. *)
LEMMA LeaseBatchFacts ==
  ASSUME StoresInv, NEW after, NEW t \in RecentTimes, LeaseCommands(after, t), UNCHANGED entries
  PROVE  /\ LeaseBatch(after, t) \subseteq Envelope
         /\ \A env \in LeaseBatch(after, t) :
              LET i == env.cmd.sequence IN
              /\ i \in DOMAIN rows'
              /\ env.cmd = rows'[i].cmd
              /\ rows'[i].ack = NoAck
              /\ env.lease <= rows'[i].lease.id
              /\ i \in DOMAIN entries' => entries'[i].lease < env.lease
         /\ \A e, f \in LeaseBatch(after, t) : e.lease = f.lease
<1>1. ASSUME NEW env \in LeaseBatch(after, t)
      PROVE  /\ env \in Envelope /\ env.lease = leaseCount + 1
             /\ env.cmd.sequence \in DOMAIN rows'
             /\ env.cmd = rows'[env.cmd.sequence].cmd
             /\ rows'[env.cmd.sequence].ack = NoAck
             /\ env.lease <= rows'[env.cmd.sequence].lease.id
             /\ env.cmd.sequence \in DOMAIN entries' => entries'[env.cmd.sequence].lease < env.lease
  <2>1. PICK i \in Leasable(after, t) : env = [cmd |-> rows[i].cmd, lease |-> leaseCount + 1]
    BY DEF LeaseBatch
  <2>2. /\ i \in DOMAIN rows /\ i \in DOMAIN rows' /\ rows'[i].cmd = rows[i].cmd
        /\ rows'[i].ack = NoAck /\ rows'[i].lease.id = leaseCount + 1
    BY <2>1, LeaseReleases DEF Releases
  <2>3. /\ rows[i].cmd.sequence = i /\ rows[i].cmd \in Command /\ leaseCount \in Nat
        /\ rows[i].lease.id <= leaseCount /\ rows[i].lease.id \in Nat
    BY <2>2, RowFacts
  <2>4. env \in Envelope /\ env.lease = leaseCount + 1 /\ env.cmd = rows[i].cmd
    BY <2>1, <2>3 DEF Envelope, LeaseId
  <2>5. i \in DOMAIN entries => entries[i].lease < leaseCount + 1
    BY <2>3, EntryLease
  <2>6. env.cmd.sequence = i /\ leaseCount + 1 <= leaseCount + 1
    BY <2>3, <2>4
  <2> QED BY <2>2, <2>4, <2>5, <2>6
<1> QED BY <1>1

(* The lease response reaches the loop that polled for it. *)
LEMMA LeaseAnswered ==
  ASSUME StoresInv, AgentInv, NEW t \in RecentTimes, LeaseCommands(lastAcknowledged, t),
         UNCHANGED <<entries, lastAcknowledged>>, agent.pc = "polling",
         agent' = [agent EXCEPT !.reply = [status |-> "ok", until |-> t + LeaseDuration,
                                           batch |-> LeaseBatch(lastAcknowledged, t)]]
  PROVE  AgentInv'
<1> DEFINE B == LeaseBatch(lastAcknowledged, t)
           reply == [status |-> "ok", until |-> t + LeaseDuration, batch |-> B]
<1>0. agent \in Agents /\ Releases
  BY LeaseReleases DEF AgentInv
<1>1. B \subseteq Envelope
  BY LeaseBatchFacts
<1>2. reply \in Replies /\ reply.batch = B
  <2>1. t \in Int /\ LeaseDuration \in Int
    BY LeaseDurationAssumption DEF RecentTimes, StoresInv, MailboxTypeOK
  <2> QED BY <1>1, <2>1 DEF Replies
<1>3. agent' = [agent EXCEPT !.reply = reply]
  OBVIOUS
<1> HIDE DEF reply
<1>4. /\ agent' \in Agents
      /\ agent'.pc = "polling" /\ agent'.awaiting = agent.awaiting
      /\ agent'.reply.batch = B
      /\ agent'.batch = agent.batch /\ agent'.pending = agent.pending
  BY <1>0, <1>2, <1>3, ReplyAgent
<1>5. BatchInv(agent.batch)'
  <2>1. agent.batch \subseteq Envelope /\ BatchInv(agent.batch)
    BY <1>0 DEF AgentInv, Agents
  <2> QED BY <1>0, <1>4, <2>1, ReleasedBatch, SMTT(20) DEF BatchInv
<1>6. BatchInv(agent.reply.batch)'
  BY <1>4, LeaseBatchFacts DEF BatchInv
<1>7. CurrentInv'
  BY <1>4 DEF AgentInv, CurrentInv, Working, Delivering, Completed
<1>8. AwaitingInv' /\ ReplyInv'
  BY <1>4 DEF AgentInv, AwaitingInv, ReplyInv, Waiting
<1>9. RoundInv'
  <2>1. ASSUME NEW i \in DOMAIN entries, Unsettled(i)
        PROVE  NeedsRedelivery(i)' /\ HandsOver(B, i)
    <3>1. NeedsRedelivery(i)
      BY <2>1 DEF AgentInv, RoundInv
    <3>2. rows[i].ack = NoAck
      BY <3>1 DEF NeedsRedelivery
    <3> QED BY <1>0, <2>1, <3>1, <3>2, ReleasedNeeds, LeaseHandsOver
  <2> HIDE DEF B
  <2> QED BY <1>4, <2>1 DEF RoundInv, Unsettled, HandsOver
<1> QED BY <1>4, <1>5, <1>6, <1>7, <1>8, <1>9 DEF AgentInv, Agents

\* lease hands out a batch
LEMMA HandleLeaseStep ==
  ASSUME DeliveryInv, NEW r \in net, NEW t \in RecentTimes, HandleLease(r, t)
  PROVE  DeliveryInv'
<1> DEFINE reply == [status |-> "ok", until |-> t + LeaseDuration, batch |-> LeaseBatch(r.after, t)]
<1>0. StoresInv /\ AgentInv /\ OthersInv /\ r \in Requests /\ r.type = "lease"
  BY Split DEF OthersInv, HandleLease
<1>1. LeaseCommands(r.after, t) /\ Respond(r, reply)
  BY DEF HandleLease
<1> HIDE DEF reply
<1>2. OthersInv' /\ UNCHANGED journalVars
      /\ (agent' = agent \/ (agent.awaiting = r /\ agent' = [agent EXCEPT !.reply = reply]))
  BY <1>0, <1>1, RespondFacts
<1>3. Releases /\ UNCHANGED <<now, revoked, reports, lastObserved>>
  BY <1>0, <1>1, LeaseReleases
<1>4. StoresInv'
  BY <1>0, <1>2, <1>3, ReleasedStores
<1>5. AgentInv'
  <2>1. CASE agent' = agent
    BY <1>0, <1>2, <1>3, <2>1, ReleasedAgent DEF journalVars
  <2>2. CASE agent.awaiting = r /\ agent' = [agent EXCEPT !.reply = reply]
    <3>1. agent.pc = "polling" /\ r.after = lastAcknowledged
      BY <1>0, <2>2, AwaitedRequest
    <3> QED BY <1>0, <1>1, <1>2, <2>2, <3>1, LeaseAnswered DEF journalVars, reply
  <2> QED BY <1>2, <2>1, <2>2
<1> QED BY <1>2, <1>4, <1>5, Join

(* The only row an acknowledgement can settle is the journaled command it  *)
(* names, and only under the lease the journal holds.                      *)
LEMMA AcceptedIsCurrent ==
  ASSUME StoresInv, NEW a, SentAck(a), NEW i \in DOMAIN rows, Acknowledgeable(a, i)
  PROVE  /\ i \in DOMAIN entries /\ Completed(i) /\ a = Acknowledgement(i)
         /\ entries[i].lease = rows[i].lease.id /\ rows[i].ack = NoAck /\ a \in Ack
<1>1. a.sequence = i
  BY RowFacts DEF Acknowledgeable, ValidateAgainst
<1>2. i \in DOMAIN entries /\ Completed(i)
  BY <1>1 DEF SentAck
<1>3. a.lease <= entries[i].lease /\ a = [Acknowledgement(i) EXCEPT !.lease = a.lease]
  BY <1>1 DEF SentAck
<1>4. a.lease = rows[i].lease.id /\ rows[i].ack = NoAck
  BY DEF Acknowledgeable, ValidateAgainst
<1>5. entries[i].lease \in Nat /\ entries[i].lease <= rows[i].lease.id /\ rows[i].lease.id \in Nat
  BY <1>2, EntryLease, RowFacts
<1>6. a.lease = entries[i].lease
  BY <1>3, <1>4, <1>5
<1>7. Acknowledgement(i) \in Ack /\ Acknowledgement(i).lease = entries[i].lease
  BY <1>2, AcknowledgementFacts
<1>8. a = Acknowledgement(i)
  BY <1>3, <1>6, <1>7 DEF Ack
<1> QED BY <1>2, <1>4, <1>6, <1>7, <1>8

\* A stored acknowledgement is told apart from none
LEMMA AckIsSome ==
  ASSUME NEW a \in Ack
  PROVE  a # NoAck
  BY DEF Ack, NoAck, Outcomes

(* What Fleet does with an acknowledgement the agent may have sent. *)
Settles(a) ==
  /\ rows' \in Seq(Row) /\ Len(rows') = Len(rows) /\ DOMAIN rows' = DOMAIN rows
  /\ \A i \in DOMAIN rows :
       \/ rows'[i] = rows[i] /\ ~Acknowledgeable(a, i)
       \/ /\ Acknowledgeable(a, i)
          /\ i \in DOMAIN entries /\ Completed(i) /\ a = Acknowledgement(i)
          /\ entries[i].lease = rows[i].lease.id
          /\ rows[i].ack = NoAck /\ a # NoAck
          /\ rows'[i].ack = a
          /\ rows'[i].cmd = rows[i].cmd /\ rows'[i].lease = rows[i].lease

\* acknowledge changes at most the row the acknowledgement names
LEMMA AcknowledgeSettles ==
  ASSUME StoresInv, NEW a, SentAck(a), Acknowledge(a)
  PROVE  Settles(a) /\ UNCHANGED <<now, leaseCount, revoked, reports, lastObserved>>
<1>1. /\ rows' = [i \in DOMAIN rows |->
             IF Acknowledgeable(a, i) THEN [rows[i] EXCEPT !.ack = a] ELSE rows[i]]
      /\ UNCHANGED <<now, leaseCount, revoked, reports, lastObserved>>
  BY DEF Acknowledge
<1>2. rows \in Seq(Row)
  BY DEF StoresInv, MailboxTypeOK
<1>3. ASSUME NEW i \in DOMAIN rows, Acknowledgeable(a, i)
      PROVE  /\ rows'[i] \in Row /\ rows'[i].ack = a
             /\ rows'[i].cmd = rows[i].cmd /\ rows'[i].lease = rows[i].lease
             /\ i \in DOMAIN entries /\ Completed(i) /\ a = Acknowledgement(i)
             /\ entries[i].lease = rows[i].lease.id /\ rows[i].ack = NoAck /\ a # NoAck
  <2>1. a \in Ack /\ i \in DOMAIN entries /\ Completed(i) /\ a = Acknowledgement(i)
        /\ entries[i].lease = rows[i].lease.id /\ rows[i].ack = NoAck
    BY <1>3, AcceptedIsCurrent
  <2>2. rows[i] \in Row /\ rows'[i] = [rows[i] EXCEPT !.ack = a]
    BY <1>1, <1>3, RowFacts
  <2>3. /\ rows'[i] \in Row /\ rows'[i].ack = a
        /\ rows'[i].cmd = rows[i].cmd /\ rows'[i].lease = rows[i].lease
    BY <2>1, <2>2 DEF Row
  <2> QED BY <2>1, <2>3, AckIsSome
<1>4. ASSUME NEW i \in DOMAIN rows, ~Acknowledgeable(a, i)
      PROVE  rows'[i] = rows[i]
  BY <1>1, <1>4
<1>5. rows' \in Seq(Row) /\ Len(rows') = Len(rows) /\ DOMAIN rows' = DOMAIN rows
  <2>1. \A i \in DOMAIN rows : rows'[i] \in Row
    BY <1>3, <1>4, RowFacts
  <2>2. rows' = [i \in 1 .. Len(rows) |-> rows'[i]]
    BY <1>1, <1>2
  <2>3. rows' \in [1 .. Len(rows) -> Row]
    BY <1>2, <2>1, <2>2
  <2> QED BY <1>2, <2>3
<1> QED BY <1>1, <1>3, <1>4, <1>5 DEF Settles

\* ... to what the journal decided, so the stores stay in agreement
LEMMA SettledStores ==
  ASSUME StoresInv, NEW a, Settles(a), UNCHANGED <<now, leaseCount, revoked, reports, lastObserved>>,
         UNCHANGED journalVars
  PROVE  StoresInv'
<1>0. DOMAIN entries \subseteq DOMAIN rows
  BY EntriesAreRows
<1>1. MailboxTypeOK' /\ JournalTypeOK'
  BY DEF StoresInv, MailboxTypeOK, JournalTypeOK, Settles, journalVars
<1>1a. ASSUME NEW i \in DOMAIN rows
       PROVE  rows'[i].cmd = rows[i].cmd /\ rows'[i].lease = rows[i].lease
  BY DEF Settles
<1>2. SettlementAgreement'
  <2>1. ASSUME NEW i \in DOMAIN rows', rows'[i].ack # NoAck
        PROVE  i \in DOMAIN entries /\ Completed(i) /\ rows'[i].ack = Acknowledgement(i)
    BY <2>1 DEF StoresInv, SettlementAgreement, Settles
  <2>2. ASSUME NEW i \in DOMAIN entries, entries[i].acknowledged
        PROVE  i \in DOMAIN rows' /\ rows'[i].ack # NoAck
    BY <2>2, <1>0 DEF StoresInv, SettlementAgreement, Settles
  <2> QED BY <2>1, <2>2 DEF SettlementAgreement, Completed, Acknowledgement, journalVars
<1>3. OneUnsettledCommand' /\ JournalIsPrefix'
  BY <1>0, <1>1a DEF StoresInv, OneUnsettledCommand, JournalIsPrefix, Settles, journalVars
<1>4. RowsInv'
  BY <1>1a DEF StoresInv, RowsInv, Settles
<1>5. EntriesInv'
  BY <1>0, <1>1a DEF StoresInv, EntriesInv, Completed, journalVars
<1> QED BY <1>1, <1>2, <1>3, <1>4, <1>5 DEF StoresInv

(* A command only a new lease can settle is not settled by this. *)
LEMMA SettledNeeds ==
  ASSUME StoresInv, NEW a, Settles(a), UNCHANGED entries, NEW i \in DOMAIN entries,
         NeedsRedelivery(i)
  PROVE  rows'[i] = rows[i] /\ NeedsRedelivery(i)'
<1>1. i \in DOMAIN rows
  BY EntriesAreRows
<1>2. rows'[i] = rows[i]
  BY <1>1 DEF NeedsRedelivery, Settles
<1>3. NeedsRedelivery(i)'
  BY <1>2 DEF NeedsRedelivery, Completed, Acknowledgeable, Acknowledgement
<1> QED BY <1>2, <1>3

(* Nor is a command the agent was handed under a newer lease. *)
LEMMA SettledBatch ==
  ASSUME StoresInv, NEW a, Settles(a), UNCHANGED entries,
         NEW batch \in SUBSET Envelope, BatchInv(batch)
  PROVE  /\ \A env \in batch :
              LET i == env.cmd.sequence IN
              /\ i \in DOMAIN rows'
              /\ env.cmd = rows'[i].cmd
              /\ rows'[i].ack = NoAck
              /\ env.lease <= rows'[i].lease.id
              /\ i \in DOMAIN entries' => entries'[i].lease < env.lease
         /\ \A e, f \in batch : e.lease = f.lease
<1>1. ASSUME NEW env \in batch
      PROVE  rows'[env.cmd.sequence] = rows[env.cmd.sequence]
  <2> DEFINE i == env.cmd.sequence
  <2>1. env.lease \in Nat /\ i \in DOMAIN rows /\ env.lease <= rows[i].lease.id
        /\ (i \in DOMAIN entries => entries[i].lease < env.lease)
    BY DEF BatchInv, Envelope, LeaseId
  <2> HIDE DEF i
  <2>2. rows[i].lease.id \in Nat
    BY <2>1, RowFacts
  <2>3. i \in DOMAIN entries => entries[i].lease # rows[i].lease.id
    BY <2>1, <2>2, EntryLease
  <2> QED BY <2>1, <2>3 DEF Settles, i
<1> QED BY <1>1 DEF BatchInv, Settles

\* What the loop knows survives an acknowledgement whose answer it does not
\* get, such as a late duplicate
LEMMA SettledAgent ==
  ASSUME StoresInv, AgentInv, NEW a, Settles(a), UNCHANGED <<agent, entries, lastAcknowledged>>
  PROVE  AgentInv'
<1>0. agent.batch \subseteq Envelope /\ agent.reply.batch \subseteq Envelope
  BY DEF AgentInv, Agents, Replies
<1>1. BatchInv(agent.batch)' /\ BatchInv(agent.reply.batch)'
  BY <1>0, SettledBatch DEF AgentInv, BatchInv
<1>2. CurrentInv'
  BY DEF AgentInv, CurrentInv, Completed
<1>3. AwaitingInv'
  BY DEF AgentInv, AwaitingInv, Acknowledgement
<1>4. ASSUME NEW i \in DOMAIN rows, rows[i].ack # NoAck
      PROVE  rows'[i].ack # NoAck
  BY <1>4 DEF Settles
<1>5. ReplyInv'
  BY <1>4, SettledNeeds, CurrentIsRow DEF AgentInv, ReplyInv, Delivering
<1>6. RoundInv'
  BY SettledNeeds DEF AgentInv, RoundInv, Unsettled, HandsOver
<1> QED BY <1>1, <1>2, <1>3, <1>5, <1>6 DEF AgentInv, Agents

(* The answer to the acknowledgement the loop waits for tells whether the  *)
(* row of the current command is settled now.                              *)
LEMMA AckAnswered ==
  ASSUME StoresInv, AgentInv, agent.pc = "acking", NEW a, a = Acknowledgement(agent.current),
         Settles(a), UNCHANGED <<entries, lastAcknowledged>>,
         NEW status, status = (IF AckAccepted(a) THEN "ok" ELSE "conflict"),
         agent' = [agent EXCEPT !.reply = Reply(status)]
  PROVE  AgentInv'
<1>0. PICK c : c = agent.current
  OBVIOUS
<1>1. agent \in Agents /\ status \in {"none", "ok", "conflict", "refused"}
  BY DEF AgentInv
<1>2. /\ agent' \in Agents
      /\ agent'.pc = "acking" /\ agent'.awaiting = agent.awaiting
      /\ agent'.reply.status = status /\ agent'.reply.batch = {}
      /\ agent'.batch = agent.batch /\ agent'.pending = agent.pending
      /\ agent'.current = c /\ agent'.outcome = agent.outcome
  BY <1>0, <1>1, ReplyType, ReplyAgent
<1>3. /\ c \in DOMAIN entries /\ c \in DOMAIN rows /\ Completed(c)
      /\ ~entries[c].acknowledged
  BY <1>0, CurrentIsRow DEF AgentInv, CurrentInv, Delivering
<1>4. a \in Ack /\ a # NoAck /\ a.id = rows[c].cmd.id
  BY <1>0, <1>3, AcknowledgementFacts, AckIsSome DEF StoresInv, JournalIsPrefix
<1>5. \A i \in DOMAIN rows : rows[i].cmd.id = a.id => i = c
  BY <1>3, <1>4 DEF StoresInv, RowsInv
<1>6. AckAccepted(a) => rows'[c].ack # NoAck
  <2>1. CASE AckStored(a)
    <3>1. rows[c].ack = a
      BY <1>5, <2>1 DEF AckStored
    <3> QED BY <1>3, <1>4, <3>1 DEF Settles
  <2>2. CASE \E i \in DOMAIN rows : Acknowledgeable(a, i)
    <3>1. Acknowledgeable(a, c)
      BY <1>5, <2>2 DEF Acknowledgeable
    <3> QED BY <1>3, <1>4, <3>1 DEF Settles
  <2> QED BY <2>1, <2>2 DEF AckAccepted
<1>7. ~AckAccepted(a) => NeedsRedelivery(c)'
  <2>1. SUFFICES ASSUME ~AckAccepted(a)
                 PROVE  NeedsRedelivery(c)'
    OBVIOUS
  <2>2. ~Acknowledgeable(a, c) /\ rows[c].ack # a
    BY <1>3, <1>4, <2>1 DEF AckAccepted, AckStored
  <2>3. rows'[c] = rows[c]
    BY <1>3, <2>2 DEF Settles
  <2>4. rows[c].ack = NoAck
    BY <1>0, <1>3, <2>2 DEF StoresInv, SettlementAgreement
  <2>5. ~Acknowledgeable(Acknowledgement(c), c)'
    BY <1>0, <2>2, <2>3 DEF Acknowledgeable, Acknowledgement
  <2> QED BY <2>3, <2>4, <2>5 DEF NeedsRedelivery
<1>8. BatchInv(agent.batch)' /\ BatchInv(agent.reply.batch)'
  <2>1. agent.batch \subseteq Envelope /\ BatchInv(agent.batch)
    BY <1>1 DEF AgentInv, Agents
  <2> QED BY <1>2, <2>1, SettledBatch DEF BatchInv
<1>9. CurrentInv'
  BY <1>0, <1>2 DEF AgentInv, CurrentInv, Completed
<1>10. AwaitingInv'
  BY <1>0, <1>2 DEF AgentInv, AwaitingInv, Acknowledgement, Waiting
<1>11. ReplyInv'
  BY <1>0, <1>2, <1>6, <1>7 DEF ReplyInv
<1>12. RoundInv'
  BY <1>2 DEF RoundInv
<1> QED BY <1>2, <1>8, <1>9, <1>10, <1>11, <1>12 DEF AgentInv, Agents

\* acknowledge stores, replays or refuses an acknowledgement
LEMMA HandleAckStep ==
  ASSUME DeliveryInv, NEW r \in net, HandleAck(r)
  PROVE  DeliveryInv'
<1> DEFINE status == IF AckAccepted(r.ack) THEN "ok" ELSE "conflict"
<1>0. StoresInv /\ AgentInv /\ OthersInv /\ r \in Requests /\ r.type = "ack" /\ SentAck(r.ack)
  BY Split DEF OthersInv, NetInv, HandleAck
<1>1. Acknowledge(r.ack) /\ Respond(r, Reply(status))
  BY DEF HandleAck
<1> HIDE DEF status
<1>2. OthersInv' /\ UNCHANGED journalVars
      /\ (agent' = agent \/ (agent.awaiting = r /\ agent' = [agent EXCEPT !.reply = Reply(status)]))
  BY <1>0, <1>1, RespondFacts
<1>3. Settles(r.ack) /\ UNCHANGED <<now, leaseCount, revoked, reports, lastObserved>>
  BY <1>0, <1>1, AcknowledgeSettles
<1>4. StoresInv'
  BY <1>0, <1>2, <1>3, SettledStores
<1>5. AgentInv'
  <2>1. CASE agent' = agent
    BY <1>0, <1>2, <1>3, <2>1, SettledAgent DEF journalVars
  <2>2. CASE agent.awaiting = r /\ agent' = [agent EXCEPT !.reply = Reply(status)]
    <3>1. agent.pc = "acking" /\ r.ack = Acknowledgement(agent.current)
      BY <1>0, <2>2, AwaitedRequest
    <3> QED BY <1>0, <1>2, <1>3, <2>2, <3>1, AckAnswered DEF journalVars, status
  <2> QED BY <1>2, <2>1, <2>2
<1> QED BY <1>2, <1>4, <1>5, Join

\* An empty mailbox, an empty journal and a loop about to start
LEMMA InitHolds == Init => DeliveryInv
<1> SUFFICES ASSUME Init PROVE DeliveryInv
  OBVIOUS
<1> USE DEF Init, MailboxInit, JournalInit
<1>1. /\ rows = <<>> /\ entries = <<>> /\ net = {} /\ DOMAIN rows = {} /\ DOMAIN entries = {}
      /\ Len(rows) = 0 /\ Len(entries) = 0 /\ lastAcknowledged = 0
  OBVIOUS
<1>2. /\ agent \in Agents /\ agent.pc = "sync" /\ agent.pending = {} /\ agent.batch = {}
      /\ agent.awaiting = NoRequest /\ agent.reply = NoReply /\ agent.reply.batch = {}
  <2>1. agent = Fresh("sync") /\ "sync" \in Phases
    BY DEF Phases
  <2>2. agent \in Agents
    BY <2>1, FreshType
  <2>3. /\ agent.pc = "sync" /\ agent.pending = {} /\ agent.batch = {}
        /\ agent.awaiting = NoRequest /\ agent.reply = NoReply
    BY <2>1 DEF Fresh
  <2> QED BY <2>2, <2>3, NoReplyFacts
<1>3. MailboxTypeOK
  <2>1. revoked \in BOOLEAN
    BY Zenon
  <2>2. rows \in Seq(Row)
    OBVIOUS
  <2>3. reports \subseteq Report
    OBVIOUS
  <2>4. now \in Nat /\ leaseCount \in Nat /\ lastObserved \in Int
    OBVIOUS
  <2> QED BY <2>1, <2>2, <2>3, <2>4, Zenon DEF MailboxTypeOK
<1>4. JournalTypeOK
  BY DEF JournalTypeOK
<1>5. /\ heartbeat \in Requests \cup {NoRequest} /\ net \subseteq Requests
      /\ performed \in Seq(Nat) /\ faults \in Nat /\ exit \in Exits
  BY DEF Exits
<1>6. ChannelTypeOK
  BY <1>2, <1>3, <1>4, <1>5 DEF ChannelTypeOK, Agents
<1>7. SettlementAgreement /\ OneUnsettledCommand /\ JournalIsPrefix /\ RowsInv
  BY <1>1 DEF SettlementAgreement, OneUnsettledCommand, JournalIsPrefix, RowsInv
<1>8. EntriesInv /\ NetInv
  BY <1>1 DEF EntriesInv, NetInv
<1>9. BatchInv(agent.batch) /\ BatchInv(agent.reply.batch)
  BY <1>2 DEF BatchInv
<1>10. CurrentInv /\ AwaitingInv /\ ReplyInv /\ RoundInv
  BY <1>1, <1>2 DEF CurrentInv, AwaitingInv, ReplyInv, RoundInv, Working, Delivering, Waiting
<1> QED BY <1>6, <1>7, <1>8, <1>9, <1>10 DEF DeliveryInv

\* execute begins the next command of the batch
LEMMA BeginCommandStep ==
  ASSUME DeliveryInv, NEW env \in agent.batch, BeginCommand(env)
  PROVE  DeliveryInv'
  BY BeginNewStep, BeginRedeliveredStep DEF BeginCommand

\* Every step of the mailbox alone
LEMMA MailboxStepHolds ==
  ASSUME DeliveryInv, MailboxStep
  PROVE  DeliveryInv'
  BY ClockTickStep, RevokeStep, EnqueueStep DEF MailboxStep

\* Every step of the agent
LEMMA AgentStepHolds ==
  ASSUME DeliveryInv, AgentStep
  PROVE  DeliveryInv'
<1>1. CASE StartSync BY <1>1, StartSyncStep
<1>2. CASE NextPending BY <1>2, NextPendingStep
<1>3. CASE Poll BY <1>3, PollStep
<1>4. CASE ReceiveBatch BY <1>4, ReceiveBatchStep
<1>5. CASE BatchDone BY <1>5, BatchDoneStep
<1>6. CASE \E env \in agent.batch : BeginCommand(env) \/ RefuseCommand(env)
  BY <1>6, BeginCommandStep, RefuseCommandStep
<1>7. CASE CheckDeadline BY <1>7, CheckDeadlineStep
<1>8. CASE \E o \in Outcomes : Dispatch(o) BY <1>8, DispatchStep
<1>9. CASE JudgeDeadline BY <1>9, JudgeDeadlineStep
<1>10. CASE CompleteCommand BY <1>10, CompleteCommandStep
<1>11. CASE DeliverObservation BY <1>11, DeliverObservationStep
<1>12. CASE DeliverAcknowledgement BY <1>12, DeliverAcknowledgementStep
<1>13. CASE ReceiveReceipt BY <1>13, ReceiveReceiptStep
<1>14. CASE ReceiveConflict BY <1>14, ReceiveConflictStep
<1>15. CASE ReceiveRefusal BY <1>15, ReceiveRefusalStep
<1>16. CASE Timeout BY <1>16, TimeoutStep
<1>17. CASE Restart BY <1>17, RestartStep
<1> QED BY <1>1, <1>2, <1>3, <1>4, <1>5, <1>6, <1>7, <1>8, <1>9, <1>10, <1>11, <1>12,
           <1>13, <1>14, <1>15, <1>16, <1>17 DEF AgentStep

\* Every request handled
LEMMA ControlPlaneStepHolds ==
  ASSUME DeliveryInv, ControlPlaneStep
  PROVE  DeliveryInv'
<1>1. PICK r \in net : HandleRequest(r)
  BY DEF ControlPlaneStep
<1> QED BY <1>1, HandleLeaseStep, HandleAckStep, HandleReportStep, RefuseRevokedStep,
           HandleHeartbeatStep DEF HandleRequest

\* Every fault
LEMMA FaultStepHolds ==
  ASSUME DeliveryInv, FaultStep
  PROVE  DeliveryInv'
  BY LoseRequestStep, TimeoutStep, CrashStep DEF FaultStep

\* Nothing happens
LEMMA StutterHolds ==
  ASSUME DeliveryInv, UNCHANGED vars
  PROVE  DeliveryInv'
<1>0. StoresInv /\ AgentInv /\ OthersInv /\ UNCHANGED <<mailboxVars, journalVars, channelVars>>
  BY Split DEF vars
<1> QED BY <1>0, AgentUnchanged, OthersUnchanged, QuietStep DEF mailboxVars, journalVars, channelVars

(***************************************************************************)
(* Leases, redelivery, crashes and lost, late or repeated requests keep    *)
(* mailbox, journal and agent in the relation DeliveryInv, for any set of  *)
(* drafts, any batch size, lease duration, clock offset and number of      *)
(* faults.                                                                 *)
(***************************************************************************)
THEOREM DeliveryInvariance == Spec => []DeliveryInv
<1>1. Init => DeliveryInv
  BY InitHolds
<1>2. DeliveryInv /\ [Next]_vars => DeliveryInv'
  <2> SUFFICES ASSUME DeliveryInv, [Next]_vars
               PROVE  DeliveryInv'
    OBVIOUS
  <2>1. CASE MailboxStep BY <2>1, MailboxStepHolds
  <2>2. CASE AgentStep BY <2>2, AgentStepHolds
  <2>3. CASE Beat BY <2>3, BeatStep
  <2>4. CASE ControlPlaneStep BY <2>4, ControlPlaneStepHolds
  <2>5. CASE FaultStep BY <2>5, FaultStepHolds
  <2>6. CASE UNCHANGED vars BY <2>6, StutterHolds
  <2> QED BY <2>1, <2>2, <2>3, <2>4, <2>5, <2>6 DEF Next
<1> QED BY <1>1, <1>2, PTL DEF Spec

\* Only dispatch runs a side effect, and it runs that of the current command
LEMMA PerformsCurrent ==
  ASSUME Next
  PROVE  \/ performed' = performed
         \/ agent.pc = "dispatching" /\ performed' = Append(performed, agent.current)
<1>1. CASE MailboxStep BY <1>1 DEF MailboxStep, channelVars
<1>2. CASE AgentStep
  <2>1. CASE \E o \in Outcomes : Dispatch(o)
    BY <2>1 DEF Dispatch
  <2>2. CASE ~ \E o \in Outcomes : Dispatch(o)
    BY <1>2, <2>2 DEF AgentStep, StartSync, NextPending, Poll, ReceiveBatch, BatchDone,
      BeginCommand, RefuseCommand, CheckDeadline, JudgeDeadline, CompleteCommand,
      DeliverObservation, DeliverAcknowledgement, ReceiveReceipt, ReceiveConflict,
      ReceiveRefusal, Timeout, GiveUp, Restart
  <2> QED BY <2>1, <2>2
<1>3. CASE Beat BY <1>3 DEF Beat
<1>4. CASE ControlPlaneStep
  BY <1>4 DEF ControlPlaneStep, HandleRequest, HandleLease, HandleAck, HandleReport,
    RefuseRevoked, HandleHeartbeat, Respond
<1>5. CASE FaultStep
  BY <1>5 DEF FaultStep, LoseRequest, TimeoutEarly, GiveUp, Crash
<1> QED BY <1>1, <1>2, <1>3, <1>4, <1>5 DEF Next

(***************************************************************************)
(* execute never runs a command whose outcome the journal already holds:   *)
(* begin sends a redelivered, completed command straight to delivery.      *)
(***************************************************************************)
THEOREM NoRepeatedEffect == Spec => DecidedIsNotRepeated
<1>1. DeliveryInv /\ [Next]_vars =>
        [\A i \in DOMAIN entries :
           Completed(i) => (performed' = performed \/ performed'[Len(performed')] # i)]_vars
  <2> SUFFICES ASSUME DeliveryInv, Next, NEW i \in DOMAIN entries, Completed(i),
                      performed' # performed
               PROVE  performed'[Len(performed')] # i
    OBVIOUS
  <2>1. agent.pc = "dispatching" /\ performed' = Append(performed, agent.current)
    BY PerformsCurrent
  <2>2. ~Completed(agent.current)
    BY <2>1 DEF DeliveryInv, CurrentInv, Working
  <2>3. performed \in Seq(Nat) /\ agent.current \in Nat
    BY Split DEF OthersInv, AgentInv, Agents
  <2>4. performed'[Len(performed')] = agent.current
    BY <2>1, <2>3
  <2> QED BY <2>2, <2>4
<1> QED BY <1>1, DeliveryInvariance, PTL DEF Spec, DecidedIsNotRepeated

(***************************************************************************)
(* Every variable of mailbox, journal and agent keeps its type.            *)
(***************************************************************************)
THEOREM TypeCorrectness == Spec => []ChannelTypeOK
<1>1. DeliveryInv => ChannelTypeOK
  BY DEF DeliveryInv
<1> QED BY <1>1, DeliveryInvariance, PTL

(***************************************************************************)
(* What acknowledge stored is what the journal decided, and a receipt the  *)
(* journal recorded stands for an acknowledgement Fleet stored.            *)
(***************************************************************************)
THEOREM Agreement == Spec => []SettlementAgreement
<1>1. DeliveryInv => SettlementAgreement
  BY DEF DeliveryInv
<1> QED BY <1>1, DeliveryInvariance, PTL

(***************************************************************************)
(* begin never journals a command before mark_acknowledged was called for  *)
(* the one before it.                                                      *)
(***************************************************************************)
THEOREM SerialJournal == Spec => []OneUnsettledCommand
<1>1. DeliveryInv => OneUnsettledCommand
  BY DEF DeliveryInv
<1> QED BY <1>1, DeliveryInvariance, PTL

-----------------------------------------------------------------------------
(***************************************************************************)
(* The second layer: the order of effects, generations, observations and   *)
(* refusals, given DeliveryInv, and the refinement of SerialDelivery.      *)
(***************************************************************************)
\* The types the lemmas below rely on
LEMMA Typed ==
  ASSUME DeliveryInv
  PROVE  /\ agent \in Agents /\ net \subseteq Requests /\ performed \in Seq(Nat)
         /\ rows \in Seq(Row) /\ entries \in Seq(Entry)
         /\ generations \in [Aggregates -> Fence \cup {NoFence}]
         /\ DOMAIN rows = 1 .. Len(rows) /\ DOMAIN entries = 1 .. Len(entries)
         /\ Len(rows) \in Nat /\ Len(entries) \in Nat
  BY Split DEF StoresInv, AgentInv, OthersInv, MailboxTypeOK, JournalTypeOK

\* enqueue appends; nothing else touches an issued command
LEMMA RowsMove ==
  ASSUME DeliveryInv, Next
  PROVE  \/ /\ Len(rows') = Len(rows) /\ DOMAIN rows' = DOMAIN rows
            /\ \A i \in DOMAIN rows : rows'[i].cmd = rows[i].cmd
         \/ /\ \E d \in Drafts, t \in RecentTimes : Enqueue(d, t)
            /\ UNCHANGED <<journalVars, channelVars>>
<1>0. rows \in Seq(Row) /\ DOMAIN rows = 1 .. Len(rows) /\ Len(rows) \in Nat
  BY Typed
<1>1. CASE MailboxStep
  BY <1>1 DEF MailboxStep, ClockTick, Tick, Revoke
<1>2. CASE AgentStep
  <2>1. rows' = rows
    BY <1>2 DEF AgentStep, StartSync, NextPending, Poll, ReceiveBatch, BatchDone,
      BeginCommand, RefuseCommand, CheckDeadline, Dispatch, JudgeDeadline, CompleteCommand,
      DeliverObservation, DeliverAcknowledgement, ReceiveReceipt, ReceiveConflict,
      ReceiveRefusal, Timeout, GiveUp, Restart, mailboxVars
  <2> QED BY <2>1
<1>3. CASE Beat
  BY <1>3 DEF Beat, mailboxVars
<1>4. CASE ControlPlaneStep
  <2>1. PICK r \in net : HandleRequest(r)
    BY <1>4 DEF ControlPlaneStep
  <2>2. CASE \E t \in RecentTimes : HandleLease(r, t)
    <3>1. PICK t \in RecentTimes : LeaseCommands(r.after, t)
      BY <2>2 DEF HandleLease
    <3>2. /\ DOMAIN rows' = DOMAIN rows
          /\ \A i \in DOMAIN rows : rows'[i].cmd = rows[i].cmd
      <4>1. ASSUME NEW i \in DOMAIN rows, NEW l PROVE [rows[i] EXCEPT !.lease = l].cmd = rows[i].cmd
        <5>1. rows[i] \in Row
          BY <1>0
        <5> QED BY <5>1 DEF Row
      <4> QED BY <3>1, <4>1 DEF LeaseCommands
    <3>3. Len(rows') = Len(rows)
      BY <3>1, <3>2, <1>0 DEF LeaseCommands
    <3> QED BY <3>2, <3>3
  <2>3. CASE HandleAck(r)
    <3>1. Acknowledge(r.ack)
      BY <2>3 DEF HandleAck
    <3>2. /\ DOMAIN rows' = DOMAIN rows
          /\ \A i \in DOMAIN rows : rows'[i].cmd = rows[i].cmd
      <4>1. ASSUME NEW i \in DOMAIN rows, NEW a PROVE [rows[i] EXCEPT !.ack = a].cmd = rows[i].cmd
        <5>1. rows[i] \in Row
          BY <1>0
        <5> QED BY <5>1 DEF Row
      <4> QED BY <3>1, <4>1 DEF Acknowledge
    <3>3. Len(rows') = Len(rows)
      BY <3>1, <3>2, <1>0 DEF Acknowledge
    <3> QED BY <3>2, <3>3
  <2>4. CASE HandleReport(r) \/ RefuseRevoked(r) \/ HandleHeartbeat(r)
    BY <2>4 DEF HandleReport, RefuseRevoked, HandleHeartbeat, RecordObservations, mailboxVars
  <2> QED BY <2>1, <2>2, <2>3, <2>4 DEF HandleRequest
<1>5. CASE FaultStep
  BY <1>5 DEF FaultStep, LoseRequest, TimeoutEarly, GiveUp, Crash, mailboxVars
<1> QED BY <1>1, <1>2, <1>3, <1>4, <1>5 DEF Next

\* begin of a new command appends; nothing else adds a command or moves a fence
BeginsNew(env) ==
  /\ agent.pc = "batch"
  /\ IsNext(env)
  /\ BeginNew(env)
  /\ agent' = [agent EXCEPT !.pc = "begun", !.batch = @ \ {env}, !.current = Len(entries) + 1]
  /\ UNCHANGED <<mailboxVars, heartbeat, net, performed, faults, exit>>

\* begin appends; nothing else touches a journaled command or its fence
LEMMA JournalMoves ==
  ASSUME DeliveryInv, Next
  PROVE  \/ /\ Len(entries') = Len(entries) /\ DOMAIN entries' = DOMAIN entries
            /\ \A i \in DOMAIN entries : entries'[i].cmd = entries[i].cmd
            /\ generations' = generations
         \/ \E env \in agent.batch : BeginsNew(env)
<1>0. entries \in Seq(Entry) /\ DOMAIN entries = 1 .. Len(entries) /\ Len(entries) \in Nat
  BY Typed
<1>a. ASSUME NEW i \in DOMAIN entries PROVE entries[i] \in Entry
  BY <1>0
<1> DEFINE Same == /\ Len(entries') = Len(entries) /\ DOMAIN entries' = DOMAIN entries
                   /\ \A i \in DOMAIN entries : entries'[i].cmd = entries[i].cmd
                   /\ generations' = generations
<1>b. UNCHANGED journalVars => Same
  BY DEF journalVars
<1>1. CASE MailboxStep \/ Beat \/ ControlPlaneStep \/ FaultStep
  <2>1. UNCHANGED journalVars
    BY <1>1 DEF MailboxStep, Beat, ControlPlaneStep, HandleRequest, HandleLease, HandleAck,
      HandleReport, RefuseRevoked, HandleHeartbeat, Respond, FaultStep, LoseRequest, TimeoutEarly,
      GiveUp, Crash
  <2> QED BY <2>1, <1>b
<1>2. CASE \E env \in agent.batch : BeginCommand(env)
  <2>1. PICK env \in agent.batch : BeginCommand(env)
    BY <1>2
  <2>2. CASE \E i \in DOMAIN entries : BeginRedelivered(env, i)
    <3>1. PICK i \in DOMAIN entries : BeginRedelivered(env, i)
      BY <2>2
    <3>2. entries' = [entries EXCEPT ![i].lease = env.lease] /\ generations' = generations
      BY <3>1 DEF BeginRedelivered
    <3>3. \A k \in DOMAIN entries : entries'[k].cmd = entries[k].cmd
      BY <1>0, <1>a, <3>2 DEF Entry
    <3> QED BY <1>0, <3>2, <3>3
  <2>3. CASE ~ \E i \in DOMAIN entries : BeginRedelivered(env, i)
    BY <2>1, <2>3 DEF BeginCommand, BeginsNew
  <2> QED BY <2>2, <2>3
<1>3. CASE CompleteCommand
  <2>1. PICK t, o : Complete(agent.current, t, o)
    BY <1>3 DEF CompleteCommand
  <2>2. generations' = generations
    BY <2>1 DEF Complete
  <2>3. CASE entries' = entries
    BY <2>2, <2>3
  <2>4. CASE entries' = [entries EXCEPT ![agent.current].completion =
                           [completedAt |-> t, outcome |-> o]]
    <3>1. DOMAIN entries' = DOMAIN entries /\ Len(entries') = Len(entries)
      BY <1>0, <2>4
    <3>2. ASSUME NEW i \in DOMAIN entries PROVE entries'[i].cmd = entries[i].cmd
      BY <2>4, <1>a DEF Entry
    <3> QED BY <2>2, <3>1, <3>2
  <2> QED BY <2>1, <2>3, <2>4 DEF Complete
<1>4. CASE ReceiveReceipt
  <2>1. generations' = generations /\ entries' = [entries EXCEPT ![agent.current].acknowledged = TRUE]
    BY <1>4 DEF ReceiveReceipt, MarkAcknowledged
  <2> QED BY <1>0, <1>a, <2>1 DEF Entry
<1>5. CASE AgentStep /\ ~(\E env \in agent.batch : BeginCommand(env)) /\ ~CompleteCommand /\ ~ReceiveReceipt
  <2>1. UNCHANGED journalVars
    BY <1>5 DEF AgentStep, StartSync, NextPending, Poll, ReceiveBatch, BatchDone,
      RefuseCommand, CheckDeadline, Dispatch, JudgeDeadline,
      DeliverObservation, DeliverAcknowledgement, ReceiveConflict,
      ReceiveRefusal, Timeout, GiveUp, Restart
  <2> QED BY <2>1, <1>b
<1> QED BY <1>1, <1>2, <1>3, <1>4, <1>5 DEF Next

-----------------------------------------------------------------------------
(* Effects                                                                 *)

\* A command is taken to dispatched or completing by its own steps only
LEMMA OutcomeMoves ==
  ASSUME Next, agent'.pc \in {"dispatched", "completing"}, agent \in Agents
  PROVE  \/ /\ agent'.pc = agent.pc /\ agent'.current = agent.current
            /\ agent'.outcome = agent.outcome /\ performed' = performed
         \/ CheckDeadline \/ (\E o \in Outcomes : Dispatch(o)) \/ JudgeDeadline
<1>1. CASE MailboxStep BY <1>1 DEF MailboxStep, channelVars
<1>2. CASE AgentStep
  <2>1. CASE CheckDeadline \/ (\E o \in Outcomes : Dispatch(o)) \/ JudgeDeadline
    BY <2>1
  <2>2. CASE StartSync \/ BatchDone \/ ReceiveConflict \/ Timeout \/ Restart
    BY <2>2 DEF StartSync, BatchDone, ReceiveConflict, Timeout, GiveUp, Restart, Fresh
  <2>3. CASE NextPending \/ CompleteCommand \/ ReceiveReceipt
    BY <2>3 DEF NextPending, CompleteCommand, ReceiveReceipt, Agents
  <2>4. CASE Poll \/ DeliverObservation \/ DeliverAcknowledgement
    BY <2>4 DEF Poll, DeliverObservation, DeliverAcknowledgement, Send, Agents
  <2>5. CASE ReceiveBatch \/ ReceiveRefusal
    <3>1. agent' = Fresh("down") \/ agent'.pc = "batch"
      BY <2>5 DEF ReceiveBatch, ReceiveRefusal, Stop, Agents
    <3> QED BY <3>1 DEF Fresh
  <2>6. CASE \E env \in agent.batch : BeginCommand(env)
    <3>1. agent'.pc \in {"begun", "deliver"}
      BY <2>6 DEF BeginCommand, Agents
    <3> QED BY <3>1
  <2>7. CASE \E env \in agent.batch : RefuseCommand(env)
    BY <2>7 DEF RefuseCommand, Stop, Fresh
  <2> QED BY <1>2, <2>1, <2>2, <2>3, <2>4, <2>5, <2>6, <2>7 DEF AgentStep
<1>3. CASE Beat BY <1>3 DEF Beat
<1>4. CASE ControlPlaneStep
  <2>1. PICK r \in net : HandleRequest(r)
    BY <1>4 DEF ControlPlaneStep
  <2>2. CASE HandleHeartbeat(r)
    BY <2>2 DEF HandleHeartbeat, Stop, Fresh
  <2>3. CASE ~HandleHeartbeat(r)
    <3>1. PICK y : Respond(r, y)
      BY <2>1, <2>3 DEF HandleRequest, HandleLease, HandleAck, HandleReport, RefuseRevoked
    <3> QED BY <3>1 DEF Respond, Agents
  <2> QED BY <2>2, <2>3
<1>5. CASE FaultStep
  BY <1>5 DEF FaultStep, LoseRequest, TimeoutEarly, GiveUp, Crash, Stop, Fresh
<1> QED BY <1>1, <1>2, <1>3, <1>4, <1>5 DEF Next

\* Effects run in journal order, and a success is reported after its effect
LEMMA EffectsStep ==
  ASSUME DeliveryInv, EffectsInv, Next
  PROVE  EffectsInv'
<1>0. /\ agent \in Agents /\ performed \in Seq(Nat) /\ agent.current \in Nat
      /\ DOMAIN entries = 1 .. Len(entries) /\ Len(entries) \in Nat
  BY Typed DEF Agents
<1>1. DOMAIN entries \subseteq DOMAIN entries'
  <2>1. CASE \E env \in agent.batch : BeginsNew(env)
    <3>1. PICK env \in agent.batch : BeginNew(env)
      BY <2>1 DEF BeginsNew
    <3>2. PICK e : entries' = Append(entries, e)
      BY <3>1 DEF BeginNew
    <3> QED BY <3>2, <1>0, Typed
  <2> QED BY <2>1, JournalMoves
<1>2. agent.pc \in Working => agent.current = Len(entries) /\ agent.current \in DOMAIN entries
  BY <1>0 DEF DeliveryInv, CurrentInv
<1>3. \/ performed' = performed
      \/ agent.pc = "dispatching" /\ performed' = Append(performed, agent.current)
  BY PerformsCurrent
<1>4. \A k \in DOMAIN performed' : performed'[k] \in DOMAIN entries'
  <2>1. CASE performed' = performed
    BY <1>1, <2>1 DEF EffectsInv
  <2>2. CASE agent.pc = "dispatching" /\ performed' = Append(performed, agent.current)
    <3>1. agent.current \in DOMAIN entries
      BY <1>2, <2>2 DEF Working
    <3>2. ASSUME NEW k \in DOMAIN performed' PROVE performed'[k] \in DOMAIN entries
      <4>1. \/ k \in DOMAIN performed /\ performed'[k] = performed[k]
            \/ performed'[k] = agent.current
        BY <1>0, <2>2
      <4> QED BY <3>1, <4>1 DEF EffectsInv
    <3> QED BY <1>1, <3>2
  <2> QED BY <1>3, <2>1, <2>2
<1>5. \A k, l \in DOMAIN performed' : k <= l => performed'[k] <= performed'[l]
  <2>1. CASE performed' = performed
    BY <2>1 DEF EffectsInv
  <2>2. CASE agent.pc = "dispatching" /\ performed' = Append(performed, agent.current)
    <3>1. \A k \in DOMAIN performed : performed[k] <= agent.current
      BY <1>0, <1>2, <2>2 DEF EffectsInv, Working
    <3>2. SUFFICES ASSUME NEW k \in 1 .. Len(performed) + 1, NEW l \in 1 .. Len(performed) + 1, k <= l
                   PROVE  performed'[k] <= performed'[l]
      BY <1>0, <2>2
    <3>3. CASE l <= Len(performed)
      <4>1. k \in DOMAIN performed /\ l \in DOMAIN performed
        BY <1>0, <3>2, <3>3
      <4>2. performed'[k] = performed[k] /\ performed'[l] = performed[l]
        BY <1>0, <2>2, <4>1
      <4> QED BY <3>2, <4>1, <4>2 DEF EffectsInv
    <3>4. CASE l = Len(performed) + 1
      <4>1. performed'[l] = agent.current
        BY <1>0, <2>2, <3>4
      <4>2. CASE k = l
        BY <4>1, <4>2, <1>0
      <4>3. CASE k <= Len(performed)
        BY <4>1, <4>3, <3>1, <1>0, <2>2
      <4> QED BY <4>2, <4>3, <3>4, <1>0
    <3> QED BY <3>3, <3>4, <1>0
  <2> QED BY <2>1, <2>2, <1>3
<1>6. agent'.pc \in {"dispatched", "completing"} =>
        (agent'.pc = "completing" /\ ~Succeeds(agent'.outcome)) \/ HasRun(agent.current)'
  <2> SUFFICES ASSUME agent'.pc \in {"dispatched", "completing"},
                      agent'.pc = "dispatched" \/ Succeeds(agent'.outcome)
               PROVE  HasRun(agent.current)'
    OBVIOUS
  <2>1. CASE /\ agent'.pc = agent.pc /\ agent'.current = agent.current
             /\ agent'.outcome = agent.outcome /\ performed' = performed
    BY <2>1 DEF EffectsInv, HasRun
  <2>2. CASE CheckDeadline
    BY <2>2, <1>0 DEF CheckDeadline, Agents, Succeeds
  <2>3. CASE \E o \in Outcomes : Dispatch(o)
    <3>1. PICK o \in Outcomes : Dispatch(o)
      BY <2>3
    <3>2. agent'.pc = "completing" => agent'.outcome \in Failures
      BY <3>1, <1>0 DEF Dispatch, Agents
    <3>3. agent'.pc = "dispatched"
      BY <3>2 DEF Failures, Succeeds
    <3>4. performed' = Append(performed, agent.current) /\ agent'.current = agent.current
      BY <3>1, <3>3, <1>0 DEF Dispatch, Agents
    <3> QED BY <3>4, <1>0 DEF HasRun
  <2>4. CASE JudgeDeadline
    BY <2>4, <1>0 DEF JudgeDeadline, Agents, EffectsInv, HasRun
  <2> QED BY <2>1, <2>2, <2>3, <2>4, OutcomeMoves, <1>0
<1> QED BY <1>4, <1>5, <1>6 DEF EffectsInv

-----------------------------------------------------------------------------
(* Fences                                                                  *)

\* What enqueue appends
LEMMA EnqueuedRow ==
  ASSUME DeliveryInv, NEW d \in Drafts, NEW t \in RecentTimes, Enqueue(d, t)
  PROVE  /\ Len(rows') = Len(rows) + 1 /\ DOMAIN rows' = 1 .. Len(rows) + 1
         /\ \A i \in 1 .. Len(rows) : rows'[i] = rows[i]
         /\ rows'[Len(rows) + 1].cmd.aggregate = d.aggregate
         /\ rows'[Len(rows) + 1].cmd.payload = d.payload
         /\ rows'[Len(rows) + 1].ack = NoAck
<1>0. rows \in Seq(Row) /\ Len(rows) \in Nat
  BY Typed
<1> DEFINE new == [cmd |-> [id |-> d.id, aggregate |-> d.aggregate, payload |-> d.payload,
                 sequence |-> Len(rows) + 1,
                 issuedAt |-> t, notAfter |-> t + d.ttl],
        lease |-> NoLease, ack |-> NoAck]
<1>1. rows' = Append(rows, new)
  BY DEF Enqueue
<1>2. new.cmd.aggregate = d.aggregate /\ new.cmd.payload = d.payload /\ new.ack = NoAck
  OBVIOUS
<1> HIDE DEF new
<1> QED BY <1>0, <1>1, <1>2

\* enqueue's fence orders the applies and removals of an aggregate
LEMMA AdmittedStep ==
  ASSUME DeliveryInv, AdmittedInv, Next
  PROVE  AdmittedInv'
<1>0. DOMAIN rows = 1 .. Len(rows) /\ Len(rows) \in Nat
  BY Typed
<1>1. CASE /\ DOMAIN rows' = DOMAIN rows
           /\ \A i \in DOMAIN rows : rows'[i].cmd = rows[i].cmd
  BY <1>1 DEF AdmittedInv
<1>2. CASE \E d \in Drafts, t \in RecentTimes : Enqueue(d, t)
  <2>1. PICK d \in Drafts, t \in RecentTimes : Enqueue(d, t)
    BY <1>2
  <2>2. /\ DOMAIN rows' = 1 .. Len(rows) + 1
        /\ \A i \in 1 .. Len(rows) : rows'[i] = rows[i]
        /\ rows'[Len(rows) + 1].cmd.aggregate = d.aggregate
        /\ rows'[Len(rows) + 1].cmd.payload = d.payload
    BY <2>1, EnqueuedRow
  <2>3. d.payload.kind = "runtime_apply" => ApplyAdmitted(d.aggregate, d.payload)
    BY <2>1 DEF Enqueue
  <2> SUFFICES ASSUME NEW i \in DOMAIN rows', NEW j \in DOMAIN rows', i < j,
                      rows'[i].cmd.aggregate = rows'[j].cmd.aggregate,
                      rows'[j].cmd.payload.kind = "runtime_apply"
               PROVE  LET p == rows'[i].cmd.payload
                          q == rows'[j].cmd.payload IN
                      /\ p.kind = "runtime_remove" => p.generation # q.generation
                      /\ p.kind = "runtime_apply" =>
                           p.generation <= q.generation /\ (p.generation = q.generation => p.spec = q.spec)
    BY DEF AdmittedInv
  <2>4. i \in 1 .. Len(rows) /\ rows'[i] = rows[i]
    BY <2>2, <1>0
  <2>5. CASE j \in 1 .. Len(rows)
    BY <2>2, <2>4, <2>5, <1>0 DEF AdmittedInv
  <2>6. CASE j = Len(rows) + 1
    BY <2>2, <2>3, <2>4, <2>6, <1>0 DEF ApplyAdmitted, OfAggregate
  <2> QED BY <2>2, <2>5, <2>6, <1>0
<1> QED BY <1>1, <1>2, RowsMove

\* What begin appends
LEMMA BegunEntry ==
  ASSUME DeliveryInv, NEW env \in agent.batch, BeginsNew(env)
  PROVE  /\ Len(entries') = Len(entries) + 1 /\ DOMAIN entries' = 1 .. Len(entries) + 1
         /\ \A i \in 1 .. Len(entries) : entries'[i] = entries[i]
         /\ entries'[Len(entries) + 1].cmd = env.cmd
         /\ entries'[Len(entries) + 1].completion = NoCompletion
         /\ ~entries'[Len(entries) + 1].acknowledged
         /\ env.cmd \in Command /\ env.cmd.sequence = Len(entries) + 1
<1>0. entries \in Seq(Entry) /\ Len(entries) \in Nat /\ agent \in Agents
  BY Typed
<1> DEFINE new == [cmd |-> env.cmd, lease |-> env.lease, completion |-> NoCompletion,
                   acknowledged |-> FALSE]
<1>1. entries' = Append(entries, new) /\ env.cmd.sequence = Len(entries) + 1
  BY DEF BeginsNew, BeginNew
<1>2. new.cmd = env.cmd /\ new.completion = NoCompletion /\ ~new.acknowledged
  OBVIOUS
<1>3. env.cmd \in Command
  BY <1>0 DEF Agents, Envelope
<1> HIDE DEF new
<1> QED BY <1>0, <1>1, <1>2, <1>3

\* begin's fence is that of the last apply it admitted
LEMMA FencesStep ==
  ASSUME DeliveryInv, FencesInv, Next
  PROVE  FencesInv'
<1>0. /\ DOMAIN entries = 1 .. Len(entries) /\ Len(entries) \in Nat
      /\ generations \in [Aggregates -> Fence \cup {NoFence}]
  BY Typed
<1>1. CASE /\ DOMAIN entries' = DOMAIN entries
           /\ \A i \in DOMAIN entries : entries'[i].cmd = entries[i].cmd
           /\ generations' = generations
  <2>1. ASSUME NEW a \in Aggregates, NEW i \in DOMAIN entries, FencedBy(a, i)
        PROVE  FencedBy(a, i)'
    BY <1>1, <2>1 DEF FencedBy
  <2> QED BY <1>1, <2>1 DEF FencesInv
<1>2. CASE \E env \in agent.batch : BeginsNew(env)
  <2>1. PICK env \in agent.batch : BeginsNew(env)
    BY <1>2
  <2>2. /\ DOMAIN entries' = 1 .. Len(entries) + 1
        /\ \A i \in 1 .. Len(entries) : entries'[i] = entries[i]
        /\ entries'[Len(entries) + 1].cmd = env.cmd
        /\ env.cmd \in Command
    BY <2>1, BegunEntry
  <2> SUFFICES ASSUME NEW a \in Aggregates, generations'[a] # NoFence
               PROVE  \E i \in DOMAIN entries' : FencedBy(a, i)'
    BY DEF FencesInv
  <2>3. generations' =
          IF env.cmd.payload.kind = "runtime_apply"
          THEN [generations EXCEPT ![env.cmd.aggregate] =
                  [generation |-> env.cmd.payload.generation,
                   digest |-> StateMutationDigest(env.cmd.payload)]]
          ELSE generations
    BY <2>1 DEF BeginsNew, BeginNew, MutatesState
  <2>4. CASE env.cmd.payload.kind = "runtime_apply" /\ env.cmd.aggregate = a
    <3>1. PICK k \in DOMAIN entries' : k = Len(entries) + 1
      BY <2>2, <1>0
    <3>2. generations'[a] = [generation |-> env.cmd.payload.generation,
                             digest |-> StateMutationDigest(env.cmd.payload)]
      BY <2>3, <2>4, <1>0
    <3>3. FencedBy(a, k)'
      BY <2>2, <2>4, <3>1, <3>2 DEF FencedBy
    <3> QED BY <3>3
  <2>5. CASE ~(env.cmd.payload.kind = "runtime_apply" /\ env.cmd.aggregate = a)
    <3>1. generations'[a] = generations[a]
      BY <2>3, <2>5, <1>0
    <3>2. PICK i \in DOMAIN entries : FencedBy(a, i)
      BY <3>1 DEF FencesInv
    <3>3. i \in DOMAIN entries' /\ entries'[i] = entries[i]
      BY <2>2, <1>0
    <3> QED BY <3>1, <3>2, <3>3 DEF FencedBy
  <2> QED BY <2>4, <2>5
<1> QED BY <1>1, <1>2, JournalMoves

-----------------------------------------------------------------------------
(* Handing over                                                            *)

\* begin of a command that is journaled already
BeginsAgain(env) ==
  /\ env \in agent.batch
  /\ \E i \in DOMAIN entries : BeginRedelivered(env, i)
  /\ agent'.batch = agent.batch \ {env} /\ agent'.reply = agent.reply

\* A lease response that reaches the loop
Answers(t) ==
  /\ LeaseCommands(lastAcknowledged, t)
  /\ UNCHANGED journalVars
  /\ agent'.batch = agent.batch
  /\ agent'.reply.batch = LeaseBatch(lastAcknowledged, t)

\* The commands at hand come from a lease response and leave by begin
LEMMA BatchMoves ==
  ASSUME DeliveryInv, Next
  PROVE  \/ /\ agent'.batch \in {agent.batch, {}} /\ agent'.reply.batch \in {agent.reply.batch, {}}
         \/ agent'.batch = agent.reply.batch /\ agent'.reply.batch = {} /\ UNCHANGED entries
         \/ \E env \in agent.batch : BeginsNew(env) \/ BeginsAgain(env)
         \/ \E t \in RecentTimes : Answers(t)
<1>0. agent \in Agents /\ net \subseteq Requests /\ StoresInv /\ AgentInv /\ OthersInv
  BY Typed, Split
<1>a. \A pc : Fresh(pc).batch = {} /\ Fresh(pc).reply.batch = {}
  BY NoReplyFacts DEF Fresh
<1>1. CASE MailboxStep BY <1>1 DEF MailboxStep, channelVars
<1>2. CASE AgentStep
  <2>1. CASE StartSync \/ BatchDone \/ ReceiveConflict \/ Timeout \/ Restart
    <3>1. CASE StartSync
      <4>1. agent' = [Fresh("pending") EXCEPT !.pending = PendingAcknowledgements]
        BY <3>1 DEF StartSync
      <4>2. agent'.batch = Fresh("pending").batch /\ agent'.reply = Fresh("pending").reply
        BY <4>1 DEF Fresh
      <4> QED BY <4>2, <1>a
    <3>2. CASE BatchDone \/ ReceiveConflict \/ Timeout \/ Restart
      <4>1. \E pc : agent' = Fresh(pc)
        BY <3>2 DEF BatchDone, ReceiveConflict, Timeout, GiveUp, Restart
      <4> QED BY <4>1, <1>a
    <3> QED BY <2>1, <3>1, <3>2
  <2>2. CASE NextPending \/ CompleteCommand \/ CheckDeadline \/ (\E o \in Outcomes : Dispatch(o))
              \/ JudgeDeadline
    BY <2>2, <1>0 DEF NextPending, CompleteCommand, CheckDeadline, Dispatch, JudgeDeadline, Agents
  <2>3. CASE Poll \/ DeliverObservation \/ DeliverAcknowledgement
    BY <2>3, <1>0, NoReplyFacts DEF Poll, DeliverObservation, DeliverAcknowledgement, Send, Agents
  <2>4. CASE ReceiveReceipt
    BY <2>4, <1>0, NoReplyFacts DEF ReceiveReceipt, Agents
  <2>5. CASE ReceiveBatch
    <3>1. CASE agent.reply.until > AgentNow
      BY <2>5, <3>1, <1>0, NoReplyFacts DEF ReceiveBatch, Agents, journalVars
    <3>2. CASE ~(agent.reply.until > AgentNow)
      BY <2>5, <3>2, <1>a DEF ReceiveBatch, Stop
    <3> QED BY <3>1, <3>2
  <2>6. CASE ReceiveRefusal
    BY <2>6, <1>a DEF ReceiveRefusal, Stop
  <2>7. CASE \E env \in agent.batch : RefuseCommand(env)
    BY <2>7, <1>a DEF RefuseCommand, Stop
  <2>8. CASE \E env \in agent.batch : BeginCommand(env)
    <3>1. PICK env \in agent.batch : BeginCommand(env)
      BY <2>8
    <3>2. CASE \E i \in DOMAIN entries : BeginRedelivered(env, i)
      <4>1. ~BeginNew(env)
        BY <3>2 DEF BeginNew, BeginRedelivered, Journaled
      <4>2. agent'.batch = agent.batch \ {env} /\ agent'.reply = agent.reply
        BY <3>1, <4>1, <1>0 DEF BeginCommand, Agents
      <4> QED BY <3>2, <4>2 DEF BeginsAgain
    <3>3. CASE ~ \E i \in DOMAIN entries : BeginRedelivered(env, i)
      BY <3>1, <3>3 DEF BeginCommand, BeginsNew
    <3> QED BY <3>2, <3>3
  <2> QED BY <1>2, <2>1, <2>2, <2>3, <2>4, <2>5, <2>6, <2>7, <2>8 DEF AgentStep
<1>3. CASE Beat BY <1>3 DEF Beat
<1>4. CASE ControlPlaneStep
  <2>1. PICK r \in net : HandleRequest(r)
    BY <1>4 DEF ControlPlaneStep
  <2>2. CASE HandleHeartbeat(r)
    BY <2>2, <1>a DEF HandleHeartbeat, Stop
  <2>3. CASE HandleAck(r) \/ HandleReport(r) \/ RefuseRevoked(r)
    <3>1. PICK status : Respond(r, Reply(status))
      BY <2>3 DEF HandleAck, HandleReport, RefuseRevoked
    <3>2. Reply(status).batch = {}
      BY DEF Reply
    <3> QED BY <3>1, <3>2, <1>0 DEF Respond, Agents
  <2>4. CASE \E t \in RecentTimes : HandleLease(r, t)
    <3>1. PICK t \in RecentTimes : HandleLease(r, t)
      BY <2>4
    <3> DEFINE reply == [status |-> "ok", until |-> t + LeaseDuration, batch |-> LeaseBatch(r.after, t)]
    <3>2. LeaseCommands(r.after, t) /\ Respond(r, reply) /\ r.type = "lease"
      BY <3>1 DEF HandleLease
    <3>3. reply.batch = LeaseBatch(r.after, t)
      OBVIOUS
    <3> HIDE DEF reply
    <3>4. UNCHANGED journalVars
          /\ (agent' = agent \/ (agent.awaiting = r /\ agent' = [agent EXCEPT !.reply = reply]))
      BY <3>2, <1>0, RespondFacts
    <3>5. CASE agent.awaiting = r /\ agent' = [agent EXCEPT !.reply = reply]
      <4>1. r.after = lastAcknowledged
        BY <1>0, <3>2, <3>5, AwaitedRequest
      <4>2. agent'.batch = agent.batch /\ agent'.reply.batch = LeaseBatch(r.after, t)
        BY <3>3, <3>5, <1>0 DEF Agents
      <4> QED BY <3>2, <3>4, <4>1, <4>2 DEF Answers
    <3> QED BY <3>4, <3>5
  <2> QED BY <2>1, <2>2, <2>3, <2>4 DEF HandleRequest
<1>5. CASE FaultStep
  BY <1>5, <1>a DEF FaultStep, LoseRequest, TimeoutEarly, GiveUp, Crash, Stop
<1> QED BY <1>1, <1>2, <1>3, <1>4, <1>5 DEF Next

\* The commands past the journal that a lease hands over start with the next
\* one and leave none out
LEMMA LeaseHasNoGap ==
  ASSUME DeliveryInv, NEW t
  PROVE  NoGap(LeaseBatch(lastAcknowledged, t))
<1> DEFINE after == lastAcknowledged
           U == Unacknowledged(after)
           C == Candidates(after)
           L == Leasable(after, t)
<1>0. /\ StoresInv /\ DOMAIN rows = 1 .. Len(rows) /\ DOMAIN entries = 1 .. Len(entries)
      /\ Len(rows) \in Nat /\ Len(entries) \in Nat
  BY Typed, Split
<1>1. after \in Nat /\ after <= Len(entries)
  BY <1>0 DEF StoresInv, EntriesInv
<1> SUFFICES ASSUME NEW env \in LeaseBatch(after, t),
                    NEW k \in Len(entries) + 1 .. env.cmd.sequence - 1
             PROVE  \E e \in LeaseBatch(after, t) : e.cmd.sequence = k
  BY DEF NoGap
<1>2. PICK i \in L : env = [cmd |-> rows[i].cmd, lease |-> leaseCount + 1]
  BY DEF LeaseBatch
<1>3. i \in C /\ i \in U /\ i \in DOMAIN rows /\ U \subseteq DOMAIN rows
  BY <1>2 DEF Leasable, Candidates, Unacknowledged
<1>4. env.cmd.sequence = i /\ i \in Nat
  <2>1. env.cmd = rows[i].cmd /\ rows[i].cmd.sequence = i
    BY <1>0, <1>2, <1>3, RowFacts
  <2> QED BY <2>1, <1>0, <1>3
<1>5. k \in Nat /\ k < i /\ k > Len(entries) /\ k \in DOMAIN rows
  BY <1>0, <1>3, <1>4
<1>6. rows[k].ack = NoAck
  BY <1>0, <1>5 DEF StoresInv, SettlementAgreement
<1>7. k \in U
  BY <1>0, <1>1, <1>5, <1>6 DEF Unacknowledged
<1> HIDE DEF after
<1>8. k \in C
  <2>1. IsFiniteSet({ j \in U : j < i })
    <3>1. IsFiniteSet(1 .. Len(rows))
      BY <1>0, FS_Interval
    <3> QED BY <1>0, <1>3, <3>1, FS_Subset
  <2>2. { j \in U : j < k } \subseteq { j \in U : j < i }
    BY <1>0, <1>3, <1>5
  <2>3. /\ Cardinality({ j \in U : j < k }) <= Cardinality({ j \in U : j < i })
        /\ Cardinality({ j \in U : j < k }) \in Nat /\ Cardinality({ j \in U : j < i }) \in Nat
    BY <2>1, <2>2, FS_Subset, FS_CardinalityType
  <2>4. Cardinality({ j \in U : j < i }) < MaxBatch
    BY <1>3 DEF Candidates
  <2>5. Cardinality({ j \in U : j < k }) < MaxBatch
    BY <2>3, <2>4, MailboxAssumption
  <2> QED BY <1>7, <2>5 DEF Candidates
<1>9. k \in L
  <2>1. \A j \in C : j <= i => ~Held(j, t)
    BY <1>2 DEF Leasable
  <2>2. \A j \in C : j <= k => j <= i
    BY <1>0, <1>3, <1>5 DEF Candidates
  <2> QED BY <1>8, <2>1, <2>2 DEF Leasable
<1>10. PICK e \in LeaseBatch(after, t) : e = [cmd |-> rows[k].cmd, lease |-> leaseCount + 1]
  BY <1>9 DEF LeaseBatch
<1>11. e.cmd.sequence = k
  BY <1>0, <1>5, <1>10, RowFacts
<1> QED BY <1>10, <1>11

\* No step opens a gap
LEMMA NoGapStep ==
  ASSUME DeliveryInv, NoGap(agent.batch), NoGap(agent.reply.batch), Next
  PROVE  NoGap(agent.batch)' /\ NoGap(agent.reply.batch)'
<1>0. /\ StoresInv /\ AgentInv /\ agent \in Agents /\ Len(entries) \in Nat
      /\ DOMAIN entries = 1 .. Len(entries)
  BY Typed, Split
<1>1. Len(entries') \in Nat /\ Len(entries) <= Len(entries')
  <2>1. CASE \E env \in agent.batch : BeginsNew(env)
    BY <2>1, <1>0, BegunEntry
  <2> QED BY <2>1, <1>0, JournalMoves
<1>2. ASSUME NEW B, NoGap(B), B \subseteq Envelope, NEW n \in Nat, Len(entries) <= n
      PROVE  \A env \in B : \A k \in n + 1 .. env.cmd.sequence - 1 : \E e \in B : e.cmd.sequence = k
  <2> SUFFICES ASSUME NEW env \in B, NEW k \in n + 1 .. env.cmd.sequence - 1
               PROVE  \E e \in B : e.cmd.sequence = k
    OBVIOUS
  <2>1. env.cmd.sequence \in Nat
    BY <1>2 DEF Envelope, Command
  <2>2. k \in Len(entries) + 1 .. env.cmd.sequence - 1
    BY <1>0, <1>2, <2>1
  <2> QED BY <1>2, <2>2 DEF NoGap
<1>3. agent.batch \subseteq Envelope /\ agent.reply.batch \subseteq Envelope
  BY <1>0 DEF Agents, Replies
<1>4. CASE /\ agent'.batch \in {agent.batch, {}} /\ agent'.reply.batch \in {agent.reply.batch, {}}
  BY <1>1, <1>2, <1>3, <1>4 DEF NoGap
<1>5. CASE agent'.batch = agent.reply.batch /\ agent'.reply.batch = {} /\ UNCHANGED entries
  BY <1>5 DEF NoGap
<1>6. CASE \E env \in agent.batch : BeginsNew(env) \/ BeginsAgain(env)
  <2>1. PICK env \in agent.batch : BeginsNew(env) \/ BeginsAgain(env)
    BY <1>6
  <2>2. agent'.batch = agent.batch \ {env} /\ agent'.reply.batch = agent.reply.batch
    BY <2>1, <1>0 DEF BeginsNew, BeginsAgain, Agents
  <2>3. NoGap(agent.reply.batch)'
    BY <1>1, <1>2, <1>3, <2>2 DEF NoGap
  <2>4. env.cmd.sequence \in Nat /\ env.cmd.sequence <= Len(entries')
    <3>1. CASE BeginsNew(env)
      BY <3>1, <1>0, BegunEntry
    <3>2. CASE BeginsAgain(env)
      <4>1. PICK i \in DOMAIN entries : entries[i].cmd = env.cmd
        BY <3>2 DEF BeginsAgain, BeginRedelivered
      <4>2. entries[i].cmd.sequence = i
        BY <1>0, <4>1, EntriesAreRows, RowFacts DEF StoresInv, JournalIsPrefix
      <4> QED BY <4>1, <4>2, <1>0, <1>1
    <3> QED BY <2>1, <3>1, <3>2
  <2>5. NoGap(agent.batch)'
    <3> SUFFICES ASSUME NEW f \in agent'.batch, NEW k \in Len(entries') + 1 .. f.cmd.sequence - 1
                 PROVE  \E e \in agent'.batch : e.cmd.sequence = k
      BY DEF NoGap
    <3>1. \E e \in agent.batch : e.cmd.sequence = k
      BY <1>1, <1>2, <1>3, <2>2
    <3>2. k # env.cmd.sequence
      <4>1. f.cmd.sequence \in Nat
        BY <1>3, <2>2 DEF Envelope, Command
      <4> QED BY <1>1, <2>4, <4>1
    <3> QED BY <3>1, <3>2, <2>2
  <2> QED BY <2>3, <2>5
<1>7. CASE \E t \in RecentTimes : Answers(t)
  <2>1. PICK t \in RecentTimes : Answers(t)
    BY <1>7
  <2>2. UNCHANGED entries /\ agent'.batch = agent.batch
        /\ agent'.reply.batch = LeaseBatch(lastAcknowledged, t)
    BY <2>1 DEF Answers, journalVars
  <2>3. PICK B : B = LeaseBatch(lastAcknowledged, t)
    OBVIOUS
  <2>4. NoGap(B)
    BY <2>3, LeaseHasNoGap
  <2> QED BY <2>2, <2>3, <2>4 DEF NoGap
<1> QED BY <1>4, <1>5, <1>6, <1>7, BatchMoves

-----------------------------------------------------------------------------
(* Refusals                                                                *)

\* Two applies of one specification differ for the journal only by a claim
LEMMA DigestsDiffer ==
  ASSUME NEW p, NEW q, p.spec = q.spec, StateMutationDigest(p) # StateMutationDigest(q)
  PROVE  p.claimed \/ q.claimed
  BY DEF StateMutationDigest

\* What execute takes up next is the command after the journal, or one of it
LEMMA NextInTurn ==
  ASSUME DeliveryInv, NoGap(agent.batch), NEW env \in agent.batch, IsNext(env)
  PROVE  /\ env.cmd.sequence \in Nat /\ env.cmd.sequence <= Len(entries) + 1
         /\ env.cmd.sequence \in DOMAIN rows /\ env.cmd = rows[env.cmd.sequence].cmd
<1>0. StoresInv /\ AgentInv /\ Len(entries) \in Nat /\ DOMAIN rows = 1 .. Len(rows) /\ Len(rows) \in Nat
  BY Typed, Split
<1>1. env.cmd.sequence \in DOMAIN rows /\ env.cmd = rows[env.cmd.sequence].cmd
  BY <1>0, BatchFacts
<1>2. env.cmd.sequence \in Nat
  BY <1>0, <1>1
<1>3. ASSUME env.cmd.sequence > Len(entries) + 1 PROVE FALSE
  <2>1. Len(entries) + 1 \in Len(entries) + 1 .. env.cmd.sequence - 1
    BY <1>0, <1>2, <1>3
  <2>2. PICK e \in agent.batch : e.cmd.sequence = Len(entries) + 1
    BY <2>1 DEF NoGap
  <2> QED BY <1>0, <1>2, <1>3, <2>2 DEF IsNext
<1> QED BY <1>0, <1>1, <1>2, <1>3

\* A conflict in begin is the conflict of two digests of one specification
LEMMA RefusedIsClaimed ==
  ASSUME DeliveryInv, AdmittedInv, FencesInv, NoGap(agent.batch),
         NEW env \in agent.batch, IsNext(env), BeginConflicts(env)
  PROVE  LET refused == rows[Len(entries) + 1].cmd IN
         /\ Len(entries) < Len(rows)
         /\ refused.payload.kind = "runtime_apply"
         /\ refused.payload.generation = generations[refused.aggregate].generation
         /\ \E i \in 1 .. Len(entries) + 1 :
              /\ rows[i].cmd.aggregate = refused.aggregate
              /\ rows[i].cmd.payload.kind = "runtime_apply"
              /\ rows[i].cmd.payload.generation = refused.payload.generation
              /\ rows[i].cmd.payload.claimed
<1>0. /\ StoresInv /\ AgentInv /\ Len(entries) \in Nat /\ Len(rows) \in Nat
      /\ DOMAIN rows = 1 .. Len(rows) /\ DOMAIN entries = 1 .. Len(entries)
      /\ generations \in [Aggregates -> Fence \cup {NoFence}]
  BY Typed, Split
<1>1. PICK n \in Nat : n = env.cmd.sequence
  BY NextInTurn
<1>2. n \in DOMAIN rows /\ env.cmd = rows[n].cmd /\ n <= Len(entries) + 1 /\ rows[n].cmd \in Command
  BY <1>0, <1>1, NextInTurn, RowFacts
<1>3. ~Journaled(env)
  <2>1. ASSUME NEW i \in DOMAIN entries, Redelivered(env, i) PROVE entries[i].cmd = env.cmd
    <3>1. i \in DOMAIN rows /\ entries[i].cmd = rows[i].cmd
      BY <1>0, EntriesAreRows DEF StoresInv, JournalIsPrefix
    <3>2. rows[i].cmd.id = rows[n].cmd.id
      BY <1>2, <2>1, <3>1 DEF Redelivered
    <3>3. i = n
      BY <1>0, <1>2, <3>1, <3>2 DEF StoresInv, RowsInv
    <3> QED BY <1>2, <3>1, <3>3
  <2> QED BY <2>1 DEF BeginConflicts, Journaled
<1>4. n = Len(entries) + 1
  <2>1. n \notin DOMAIN entries
    <3>1. ASSUME n \in DOMAIN entries PROVE FALSE
      <4>1. entries[n].cmd = env.cmd
        BY <1>0, <1>2, <3>1 DEF StoresInv, JournalIsPrefix
      <4> QED BY <1>3, <3>1, <4>1 DEF Journaled, Redelivered
    <3> QED BY <3>1
  <2>2. n >= 1
    BY <1>0, <1>2
  <2> QED BY <1>0, <1>2, <2>1, <2>2
<1> DEFINE p == env.cmd.payload
           a == env.cmd.aggregate
<1>5. /\ p.kind = "runtime_apply"
      /\ ~(p.generation >= generations[a].generation
           /\ (p.generation = generations[a].generation => generations[a].digest = StateMutationDigest(p)))
  BY <1>1, <1>3, <1>4 DEF BeginConflicts, FenceAdmits, MutatesState
<1>6. a \in Aggregates /\ p.generation \in Nat \ {0} /\ p.claimed \in BOOLEAN
  <2>1. a \in Aggregates /\ p \in Payloads
    BY <1>2 DEF Command
  <2> QED BY <2>1, DraftsAssumption DEF Payloads
<1>7. generations[a] # NoFence
  BY <1>5, <1>6 DEF NoFence
<1>8. PICK i \in DOMAIN entries : FencedBy(a, i)
  BY <1>6, <1>7 DEF FencesInv
<1>9. /\ i \in DOMAIN rows /\ i < n /\ entries[i].cmd = rows[i].cmd /\ rows[i].cmd \in Command
      /\ i \in 1 .. Len(entries) + 1
  BY <1>0, <1>4, EntriesAreRows, RowFacts DEF StoresInv, JournalIsPrefix
<1> DEFINE q == rows[i].cmd.payload
<1>10. /\ rows[i].cmd.aggregate = a /\ q.kind = "runtime_apply"
       /\ generations[a].generation = q.generation
       /\ generations[a].digest = StateMutationDigest(q)
  BY <1>8, <1>9 DEF FencedBy
<1>11. q.generation <= p.generation /\ (q.generation = p.generation => q.spec = p.spec)
  BY <1>2, <1>5, <1>9, <1>10 DEF AdmittedInv
<1>12. q.generation \in Nat
  <2>1. q \in Payloads
    BY <1>9 DEF Command
  <2> QED BY <2>1, DraftsAssumption DEF Payloads
<1> HIDE DEF p, a, q
<1>13. p.generation = generations[a].generation /\ StateMutationDigest(q) # StateMutationDigest(p)
  BY <1>5, <1>6, <1>10, <1>11, <1>12
<1>14. p.claimed \/ q.claimed
  BY <1>10, <1>11, <1>13, DigestsDiffer
<1>15. rows[Len(entries) + 1].cmd = env.cmd /\ Len(entries) < Len(rows)
       /\ Len(entries) + 1 \in 1 .. Len(entries) + 1
  BY <1>0, <1>2, <1>4
<1>16. \E k \in 1 .. Len(entries) + 1 :
         /\ rows[k].cmd.aggregate = a
         /\ rows[k].cmd.payload.kind = "runtime_apply"
         /\ rows[k].cmd.payload.generation = p.generation
         /\ rows[k].cmd.payload.claimed
  <2>1. CASE p.claimed
    BY <1>5, <1>15, <2>1 DEF p, a
  <2>2. CASE q.claimed
    BY <1>9, <1>10, <1>13, <2>2 DEF q
  <2> QED BY <1>14, <2>1, <2>2
<1> QED BY <1>5, <1>13, <1>15, <1>16 DEF p, a

\* A process that ended over a conflict stays down with it
LEMMA RefusalMoves ==
  ASSUME Next, agent \in Agents, exit' = "journal_conflict",
         exit = "journal_conflict" => agent.pc = "down"
  PROVE  /\ agent'.pc = "down"
         /\ \/ \E env \in agent.batch : RefuseCommand(env)
            \/ exit = "journal_conflict" /\ UNCHANGED journalVars
<1>a. \A pc : Fresh(pc).pc = pc
  BY DEF Fresh
<1>1. CASE MailboxStep BY <1>1 DEF MailboxStep, channelVars
<1>2. CASE \E env \in agent.batch : RefuseCommand(env)
  BY <1>2, <1>a DEF RefuseCommand, Stop
<1>3. CASE AgentStep /\ ~(\E env \in agent.batch : RefuseCommand(env))
  <2>1. exit' # exit \/ agent.pc # "down"
    BY <1>3 DEF AgentStep, StartSync, NextPending, Poll, ReceiveBatch, BatchDone,
      BeginCommand, CheckDeadline, Dispatch, JudgeDeadline, CompleteCommand,
      DeliverObservation, DeliverAcknowledgement, ReceiveReceipt, ReceiveConflict,
      ReceiveRefusal, Timeout, GiveUp, Restart, Waiting
  <2>2. exit' = exit \/ exit' \in {"none", "lease_expired", "refused", "observation_rejected"}
    BY <1>3 DEF AgentStep, StartSync, NextPending, Poll, ReceiveBatch, BatchDone,
      BeginCommand, CheckDeadline, Dispatch, JudgeDeadline, CompleteCommand,
      DeliverObservation, DeliverAcknowledgement, ReceiveReceipt, ReceiveConflict,
      ReceiveRefusal, Timeout, GiveUp, Restart, Stop
  <2> QED BY <2>1, <2>2
<1>4. CASE Beat BY <1>4 DEF Beat
<1>5. CASE ControlPlaneStep
  <2>1. PICK r \in net : HandleRequest(r)
    BY <1>5 DEF ControlPlaneStep
  <2>2. CASE HandleHeartbeat(r)
    BY <2>2 DEF HandleHeartbeat, Stop
  <2>3. CASE ~HandleHeartbeat(r)
    <3>1. PICK y : Respond(r, y)
      BY <2>1, <2>3 DEF HandleRequest, HandleLease, HandleAck, HandleReport, RefuseRevoked
    <3> QED BY <3>1 DEF Respond, Agents
  <2> QED BY <2>2, <2>3
<1>6. CASE FaultStep
  BY <1>6 DEF FaultStep, LoseRequest, TimeoutEarly, GiveUp, Crash, Stop, Waiting
<1> QED BY <1>1, <1>2, <1>3, <1>4, <1>5, <1>6 DEF Next

\* A command is refused only over a claim, and stays the next one
LEMMA RefusalStep ==
  ASSUME DeliveryInv, AdmittedInv, FencesInv, NoGap(agent.batch), RefusalInv, Next
  PROVE  RefusalInv'
<1> SUFFICES ASSUME exit' = "journal_conflict"
             PROVE  agent'.pc = "down" /\ Len(entries') < Len(rows') /\ OnlyClaimedIsRefused'
  BY DEF RefusalInv
<1>0. /\ agent \in Agents /\ Len(entries) \in Nat /\ Len(rows) \in Nat
      /\ DOMAIN rows = 1 .. Len(rows)
  BY Typed
<1>1. /\ agent'.pc = "down"
      /\ \/ \E env \in agent.batch : RefuseCommand(env)
         \/ exit = "journal_conflict" /\ UNCHANGED journalVars
  BY <1>0, RefusalMoves DEF RefusalInv
<1> DEFINE Refused(rs) == LET refused == rs[Len(entries) + 1].cmd IN
                /\ refused.payload.kind = "runtime_apply"
                /\ refused.payload.generation = generations[refused.aggregate].generation
                /\ \E i \in 1 .. Len(entries) + 1 :
                     /\ rs[i].cmd.aggregate = refused.aggregate
                     /\ rs[i].cmd.payload.kind = "runtime_apply"
                     /\ rs[i].cmd.payload.generation = refused.payload.generation
                     /\ rs[i].cmd.payload.claimed
<1>2. Len(entries) < Len(rows) /\ Refused(rows) /\ UNCHANGED journalVars
  <2>1. CASE \E env \in agent.batch : RefuseCommand(env)
    <3>1. PICK env \in agent.batch : IsNext(env) /\ BeginConflicts(env) /\ UNCHANGED journalVars
      BY <2>1 DEF RefuseCommand
    <3> QED BY <3>1, RefusedIsClaimed
  <2>2. CASE exit = "journal_conflict" /\ UNCHANGED journalVars
    BY <2>2 DEF RefusalInv, OnlyClaimedIsRefused
  <2> QED BY <1>1, <2>1, <2>2
<1>3. Len(rows) <= Len(rows') /\ Len(rows') \in Nat /\ \A i \in 1 .. Len(rows) : rows'[i].cmd = rows[i].cmd
  <2>1. CASE \E d \in Drafts, t \in RecentTimes : Enqueue(d, t)
    BY <2>1, <1>0, EnqueuedRow
  <2> QED BY <2>1, <1>0, RowsMove
<1>4. Refused(rows')
  <2>1. Len(entries) + 1 \in 1 .. Len(rows) /\ 1 .. Len(entries) + 1 \subseteq 1 .. Len(rows)
    BY <1>0, <1>2
  <2> QED BY <1>2, <1>3, <2>1
<1>5. Len(entries') < Len(rows')
  BY <1>0, <1>2, <1>3 DEF journalVars
<1>6. OnlyClaimedIsRefused'
  BY <1>2, <1>4 DEF OnlyClaimedIsRefused, journalVars
<1> QED BY <1>1, <1>5, <1>6

-----------------------------------------------------------------------------
(* Observations                                                            *)

\* Observations are never removed
LEMMA ReportsGrow ==
  ASSUME Next
  PROVE  reports \subseteq reports'
<1>1. CASE MailboxStep
  BY <1>1 DEF MailboxStep, ClockTick, Tick, Revoke, Enqueue
<1>2. CASE AgentStep
  <2>1. UNCHANGED mailboxVars
    BY <1>2 DEF AgentStep, StartSync, NextPending, Poll, ReceiveBatch, BatchDone,
      BeginCommand, RefuseCommand, CheckDeadline, Dispatch, JudgeDeadline, CompleteCommand,
      DeliverObservation, DeliverAcknowledgement, ReceiveReceipt, ReceiveConflict,
      ReceiveRefusal, Timeout, GiveUp, Restart
  <2> QED BY <2>1 DEF mailboxVars
<1>3. CASE Beat BY <1>3 DEF Beat, mailboxVars
<1>4. CASE ControlPlaneStep
  BY <1>4 DEF ControlPlaneStep, HandleRequest, HandleLease, HandleAck, HandleReport,
    RefuseRevoked, HandleHeartbeat, LeaseCommands, Acknowledge, RecordObservations, mailboxVars
<1>5. CASE FaultStep
  BY <1>5 DEF FaultStep, LoseRequest, TimeoutEarly, GiveUp, Crash, mailboxVars
<1> QED BY <1>1, <1>2, <1>3, <1>4, <1>5 DEF Next

\* An acknowledgement in flight was in flight, or has just been sent
LEMMA AcksMove ==
  ASSUME DeliveryInv, Next, NEW r \in net', r.type = "ack"
  PROVE  \/ \E s \in net : s.type = "ack" /\ s.ack = r.ack
         \/ DeliverAcknowledgement /\ r.ack = Acknowledgement(agent.current)
<1>0. net \subseteq Requests
  BY Typed
<1>a. ASSUME NEW requests \in SUBSET net, NEW gone, net' = Abandon(requests, gone)
      PROVE  \E s \in net : s.type = "ack" /\ s.ack = r.ack
  <2>1. CASE r \in net
    BY <2>1
  <2>2. CASE r \notin net
    <3>1. PICK s \in net : r = [s EXCEPT !.abandoned = TRUE]
      BY <1>a, <2>2 DEF Abandon
    <3>2. s \in Requests
      BY <1>0
    <3>3. r.type = s.type /\ (s.type = "ack" => r.ack = s.ack)
      BY <3>1, <3>2 DEF Requests
    <3> QED BY <3>3
  <2> QED BY <2>1, <2>2
<1>b. net' \subseteq net => \E s \in net : s.type = "ack" /\ s.ack = r.ack
  OBVIOUS
<1>1. CASE MailboxStep BY <1>1, <1>b DEF MailboxStep, channelVars
<1>2. CASE AgentStep
  <2>1. CASE StartSync \/ NextPending \/ BatchDone \/ CheckDeadline \/ (\E o \in Outcomes : Dispatch(o))
               \/ JudgeDeadline \/ CompleteCommand \/ ReceiveReceipt \/ ReceiveConflict \/ Restart
               \/ (\E env \in agent.batch : BeginCommand(env))
    BY <2>1, <1>b DEF StartSync, NextPending, BatchDone, CheckDeadline, Dispatch, JudgeDeadline,
         CompleteCommand, ReceiveReceipt, ReceiveConflict, Restart, BeginCommand
  <2>2. CASE ReceiveBatch \/ ReceiveRefusal \/ Timeout \/ (\E env \in agent.batch : RefuseCommand(env))
    <3>1. net' = net \/ \E gone : net' = Abandon(net, gone)
      BY <2>2 DEF ReceiveBatch, ReceiveRefusal, Timeout, GiveUp, RefuseCommand, Stop
    <3> QED BY <3>1, <1>a
  <2>3. CASE Poll \/ DeliverObservation
    <3>1. \A n, q, t : LeaseRequest(n).type = "lease" /\ ObserveRequest(q, t).type = "observe"
      BY DEF LeaseRequest, ObserveRequest
    <3>2. CASE Poll
      BY <3>1, <3>2 DEF Poll, Send
    <3>3. CASE DeliverObservation
      BY <3>1, <3>3 DEF DeliverObservation, Send
    <3> QED BY <2>3, <3>2, <3>3
  <2>4. CASE DeliverAcknowledgement
    <3>1. net' = net \cup {AckRequest(Acknowledgement(agent.current))}
      BY <2>4 DEF DeliverAcknowledgement, Send
    <3> QED BY <2>4, <3>1 DEF AckRequest
  <2> QED BY <1>2, <2>1, <2>2, <2>3, <2>4 DEF AgentStep
<1>3. CASE Beat BY <1>3 DEF Beat, ObserveRequest
<1>4. CASE ControlPlaneStep
  <2>1. PICK q \in net : HandleRequest(q)
    BY <1>4 DEF ControlPlaneStep
  <2>2. net' \subseteq net \/ \E gone : net' = Abandon(net \ {q}, gone)
    BY <2>1 DEF HandleRequest, HandleLease, HandleAck, HandleReport, RefuseRevoked,
                HandleHeartbeat, Respond, Stop
  <2> QED BY <2>2, <1>a, <1>b
<1>5. CASE FaultStep
  <2>1. net' \subseteq net \/ \E gone : net' = Abandon(net, gone)
    BY <1>5 DEF FaultStep, LoseRequest, TimeoutEarly, GiveUp, Crash, Stop
  <2> QED BY <2>1, <1>a, <1>b
<1> QED BY <1>1, <1>2, <1>3, <1>4, <1>5 DEF Next

\* A stored acknowledgement was stored, or has just arrived
LEMMA StoredAcks ==
  ASSUME DeliveryInv, Next, NEW i \in DOMAIN rows', rows'[i].ack # NoAck
  PROVE  \/ i \in DOMAIN rows /\ rows'[i].ack = rows[i].ack
         \/ \E r \in net : r.type = "ack" /\ rows'[i].ack = r.ack
<1>0. /\ rows \in Seq(Row) /\ DOMAIN rows = 1 .. Len(rows) /\ Len(rows) \in Nat
      /\ \A k \in DOMAIN rows : rows[k] \in Row
  BY Typed
<1>1. CASE MailboxStep
  <2>1. CASE rows' = rows
    BY <2>1
  <2>2. CASE \E d \in Drafts, t \in RecentTimes : Enqueue(d, t)
    BY <2>2, <1>0, EnqueuedRow
  <2> QED BY <1>1, <2>1, <2>2 DEF MailboxStep, ClockTick, Tick, Revoke
<1>2. CASE AgentStep
  <2>1. rows' = rows
    BY <1>2 DEF AgentStep, StartSync, NextPending, Poll, ReceiveBatch, BatchDone,
      BeginCommand, RefuseCommand, CheckDeadline, Dispatch, JudgeDeadline, CompleteCommand,
      DeliverObservation, DeliverAcknowledgement, ReceiveReceipt, ReceiveConflict,
      ReceiveRefusal, Timeout, GiveUp, Restart, mailboxVars
  <2> QED BY <2>1
<1>3. CASE Beat BY <1>3 DEF Beat, mailboxVars
<1>4. CASE ControlPlaneStep
  <2>1. PICK r \in net : HandleRequest(r)
    BY <1>4 DEF ControlPlaneStep
  <2>2. CASE \E t \in RecentTimes : HandleLease(r, t)
    <3>1. PICK t \in RecentTimes : LeaseCommands(r.after, t)
      BY <2>2 DEF HandleLease
    <3>2. DOMAIN rows' = DOMAIN rows
      BY <3>1 DEF LeaseCommands
    <3>3. rows'[i] = rows[i] \/ rows'[i] = [rows[i] EXCEPT !.lease = [id |-> leaseCount + 1, until |-> t + LeaseDuration]]
      BY <3>1, <3>2 DEF LeaseCommands
    <3>4. rows'[i].ack = rows[i].ack
      BY <3>2, <3>3, <1>0 DEF Row
    <3> QED BY <3>2, <3>4
  <2>3. CASE HandleAck(r)
    <3>1. Acknowledge(r.ack) /\ r.type = "ack"
      BY <2>3 DEF HandleAck
    <3>2. DOMAIN rows' = DOMAIN rows
      BY <3>1 DEF Acknowledge
    <3>3. rows'[i] = rows[i] \/ rows'[i] = [rows[i] EXCEPT !.ack = r.ack]
      BY <3>1, <3>2 DEF Acknowledge
    <3> QED BY <3>1, <3>2, <3>3, <1>0 DEF Row
  <2>4. CASE HandleReport(r) \/ RefuseRevoked(r) \/ HandleHeartbeat(r)
    BY <2>4 DEF HandleReport, RefuseRevoked, HandleHeartbeat, RecordObservations, mailboxVars
  <2> QED BY <2>1, <2>2, <2>3, <2>4 DEF HandleRequest
<1>5. CASE FaultStep
  BY <1>5 DEF FaultStep, LoseRequest, TimeoutEarly, GiveUp, Crash, mailboxVars
<1> QED BY <1>1, <1>2, <1>3, <1>4, <1>5 DEF Next

\* While the loop reports it waits for one observation, and is told of success
\* only once that is stored
LEMMA ReportingMoves ==
  ASSUME DeliveryInv, Next, agent'.pc = "reporting"
  PROVE  \/ DeliverObservation
         \/ /\ agent.pc = "reporting" /\ agent'.current = agent.current
            /\ agent'.awaiting = agent.awaiting /\ UNCHANGED entries
            /\ \/ agent'.reply = agent.reply
               \/ agent'.reply.status = "ok" => agent.awaiting.reports \subseteq reports'
<1>0. agent \in Agents /\ net \subseteq Requests /\ AgentInv
  BY Typed, Split
<1>a. \A pc : Fresh(pc).pc = pc
  BY DEF Fresh
<1>1. CASE MailboxStep BY <1>1 DEF MailboxStep, channelVars, journalVars
<1>2. CASE AgentStep
  <2>1. CASE StartSync
    BY <2>1 DEF StartSync, Fresh
  <2>2. CASE BatchDone \/ ReceiveConflict \/ Timeout \/ Restart
    <3>1. \E pc : agent' = Fresh(pc) /\ pc # "reporting"
      BY <2>2 DEF BatchDone, ReceiveConflict, Timeout, GiveUp, Restart
    <3> QED BY <3>1, <1>a
  <2>3. CASE NextPending \/ CheckDeadline \/ (\E o \in Outcomes : Dispatch(o)) \/ JudgeDeadline
              \/ CompleteCommand
    BY <2>3, <1>0 DEF NextPending, CheckDeadline, Dispatch, JudgeDeadline, CompleteCommand, Agents
  <2>4. CASE ReceiveReceipt
    BY <2>4, <1>0 DEF ReceiveReceipt, Agents
  <2>5. CASE Poll \/ DeliverAcknowledgement
    BY <2>5, <1>0 DEF Poll, DeliverAcknowledgement, Send, Agents
  <2>6. CASE ReceiveBatch
    <3>1. agent' = Fresh("down") \/ agent'.pc = "batch"
      BY <2>6, <1>0 DEF ReceiveBatch, Stop, Agents
    <3> QED BY <3>1, <1>a
  <2>7. CASE ReceiveRefusal \/ (\E env \in agent.batch : RefuseCommand(env))
    BY <2>7, <1>a DEF ReceiveRefusal, RefuseCommand, Stop
  <2>8. CASE \E env \in agent.batch : BeginCommand(env)
    <3>1. agent'.pc \in {"begun", "deliver"}
      BY <2>8, <1>0 DEF BeginCommand, Agents
    <3> QED BY <3>1
  <2>9. CASE DeliverObservation
    BY <2>9
  <2> QED BY <1>2, <2>1, <2>2, <2>3, <2>4, <2>5, <2>6, <2>7, <2>8, <2>9 DEF AgentStep
<1>3. CASE Beat BY <1>3 DEF Beat, journalVars
<1>4. CASE ControlPlaneStep
  <2>1. PICK r \in net : HandleRequest(r)
    BY <1>4 DEF ControlPlaneStep
  <2>2. CASE HandleHeartbeat(r)
    BY <2>2, <1>a DEF HandleHeartbeat, Stop, journalVars
  <2>3. ASSUME NEW y, Respond(r, y), y.status = "ok" => (agent.awaiting = r /\ agent.pc = "reporting" => r.reports \subseteq reports')
        PROVE  /\ agent.pc = "reporting" /\ agent'.current = agent.current
               /\ agent'.awaiting = agent.awaiting /\ UNCHANGED entries
               /\ \/ agent'.reply = agent.reply
                  \/ agent'.reply.status = "ok" => agent.awaiting.reports \subseteq reports'
    <3>1. UNCHANGED entries /\ (agent' = agent \/ (agent.awaiting = r /\ agent' = [agent EXCEPT !.reply = y]))
      BY <2>3 DEF Respond, journalVars
    <3>2. CASE agent' = agent
      BY <3>1, <3>2
    <3>3. CASE agent.awaiting = r /\ agent' = [agent EXCEPT !.reply = y]
      <4>1. /\ agent'.pc = agent.pc /\ agent'.current = agent.current
            /\ agent'.awaiting = agent.awaiting /\ agent'.reply = y
        BY <3>3, <1>0 DEF Agents
      <4> QED BY <2>3, <3>1, <3>3, <4>1
    <3> QED BY <3>1, <3>2, <3>3
  <2>4. CASE (\E t \in RecentTimes : HandleLease(r, t)) \/ HandleAck(r)
    <3>1. r.type \in {"lease", "ack"} /\ \E y : Respond(r, y)
      BY <2>4 DEF HandleLease, HandleAck
    <3>2. ~(agent.awaiting = r /\ agent.pc = "reporting")
      BY <1>0, <3>1, AwaitedRequest
    <3> QED BY <2>3, <3>1, <3>2
  <2>5. CASE HandleReport(r)
    <3>1. CASE RecordObservations(r.reports, r.observedAt) /\ Respond(r, Reply("ok"))
      BY <2>3, <3>1 DEF RecordObservations
    <3>2. CASE Respond(r, Reply(IF revoked THEN "refused" ELSE "conflict"))
      <4>1. Reply(IF revoked THEN "refused" ELSE "conflict").status # "ok"
        BY DEF Reply
      <4> QED BY <2>3, <3>2, <4>1
    <3> QED BY <2>5, <3>1, <3>2 DEF HandleReport
  <2>6. CASE RefuseRevoked(r)
    <3>1. Respond(r, Reply("refused")) /\ Reply("refused").status # "ok"
      BY <2>6 DEF RefuseRevoked, Reply
    <3> QED BY <2>3, <3>1
  <2> QED BY <2>1, <2>2, <2>4, <2>5, <2>6 DEF HandleRequest
<1>5. CASE FaultStep
  <2>1. CASE \E r \in net : LoseRequest(r)
    BY <2>1 DEF LoseRequest, journalVars
  <2>2. CASE TimeoutEarly \/ Crash
    BY <2>2, <1>a DEF TimeoutEarly, GiveUp, Crash, Stop
  <2> QED BY <1>5, <2>1, <2>2 DEF FaultStep
<1> QED BY <1>1, <1>2, <1>3, <1>4, <1>5 DEF Next

\* deliver_completion sends an acknowledgement after its observation is stored
LEMMA ReportsStep ==
  ASSUME DeliveryInv, ReportsInv, Next
  PROVE  ReportsInv'
<1>0. agent \in Agents /\ reports \subseteq reports'
  BY Typed, ReportsGrow
<1>1. ASSUME NEW i \in DOMAIN rows', rows'[i].ack # NoAck, rows'[i].ack.outcome = "observed"
      PROVE  Reported(rows[i].ack)'
  <2>1. PICK a : a = rows'[i].ack
    OBVIOUS
  <2>2. Reported(a)
    BY <1>1, <2>1, StoredAcks DEF ReportsInv
  <2> QED BY <1>0, <2>1, <2>2 DEF Reported
<1>2. ASSUME NEW r \in net', r.type = "ack", r.ack.outcome = "observed"
      PROVE  Reported(r.ack)'
  <2>1. Reported(r.ack)
    <3>1. CASE \E s \in net : s.type = "ack" /\ s.ack = r.ack
      BY <1>2, <3>1 DEF ReportsInv
    <3>2. CASE DeliverAcknowledgement /\ r.ack = Acknowledgement(agent.current)
      <4>1. entries[agent.current].completion.outcome = "observed"
        BY <1>2, <3>2 DEF Acknowledgement
      <4>2. ReportOf(agent.current) \in reports
        BY <3>2, <4>1 DEF DeliverAcknowledgement, ReportsInv
      <4> QED BY <3>2, <4>2 DEF Reported, ReportOf, Acknowledgement
    <3> QED BY <1>2, <3>1, <3>2, AcksMove
  <2> QED BY <1>0, <2>1 DEF Reported
<1>3. ASSUME agent'.pc = "reporting"
      PROVE  /\ agent'.awaiting.reports = {ReportOf(agent.current)'}
             /\ agent'.reply.status = "ok" => ReportOf(agent.current)' \in reports'
  <2>1. CASE DeliverObservation
    <3>1. /\ agent' = [agent EXCEPT !.pc = "reporting", !.reply = NoReply, !.awaiting =
                ObserveRequest({ReportOf(agent.current)},
                               Later(AgentNow, ReportOf(agent.current).observedAt))]
          /\ UNCHANGED entries
      BY <2>1 DEF DeliverObservation, Send, journalVars
    <3>2. /\ agent'.current = agent.current /\ agent'.reply = NoReply
          /\ agent'.awaiting.reports = {ReportOf(agent.current)}
      BY <3>1, <1>0 DEF Agents, ObserveRequest
    <3> QED BY <3>1, <3>2, NoReplyFacts DEF ReportOf
  <2>2. CASE /\ agent.pc = "reporting" /\ agent'.current = agent.current
             /\ agent'.awaiting = agent.awaiting /\ UNCHANGED entries
             /\ \/ agent'.reply = agent.reply
                \/ agent'.reply.status = "ok" => agent.awaiting.reports \subseteq reports'
    <3>1. ReportOf(agent.current)' = ReportOf(agent.current)
      BY <2>2 DEF ReportOf
    <3>2. agent.awaiting.reports = {ReportOf(agent.current)}
      BY <2>2 DEF ReportsInv
    <3>3. agent.reply.status = "ok" => ReportOf(agent.current) \in reports
      BY <2>2 DEF ReportsInv
    <3> QED BY <1>0, <2>2, <3>1, <3>2, <3>3
  <2> QED BY <1>3, <2>1, <2>2, ReportingMoves
<1> QED BY <1>1, <1>2, <1>3 DEF ReportsInv

-----------------------------------------------------------------------------
\* Nothing is ordered yet
LEMMA OrderInit == Init => OrderInv
<1> SUFFICES ASSUME Init PROVE OrderInv
  OBVIOUS
<1> USE DEF Init, MailboxInit, JournalInit
<1>1. /\ DOMAIN rows = {} /\ DOMAIN performed = {} /\ net = {} /\ exit = "none"
      /\ agent.pc = "sync" /\ agent.batch = {} /\ agent.reply.batch = {}
  <2>1. agent.pc = "sync" /\ agent.batch = {} /\ agent.reply = NoReply
    BY DEF Fresh
  <2> QED BY <2>1, NoReplyFacts
<1>2. EffectsInv /\ AdmittedInv
  BY <1>1 DEF EffectsInv, AdmittedInv
<1>3. FencesInv
  BY DEF FencesInv
<1>4. ReportsInv
  BY <1>1 DEF ReportsInv
<1>5. NoGap(agent.batch) /\ NoGap(agent.reply.batch) /\ RefusalInv
  BY <1>1 DEF NoGap, RefusalInv
<1> QED BY <1>2, <1>3, <1>4, <1>5 DEF OrderInv

\* Nothing happens
LEMMA OrderStutter ==
  ASSUME OrderInv, UNCHANGED vars
  PROVE  OrderInv'
<1> USE DEF OrderInv, vars, mailboxVars, journalVars, channelVars
<1>1. EffectsInv' /\ AdmittedInv'
  BY DEF EffectsInv, HasRun, AdmittedInv
<1>2. FencesInv'
  BY DEF FencesInv, FencedBy
<1>3. ReportsInv'
  BY DEF ReportsInv, Reported, ReportOf
<1>4. NoGap(agent.batch)' /\ NoGap(agent.reply.batch)'
  BY DEF NoGap
<1>5. RefusalInv'
  BY DEF RefusalInv, OnlyClaimedIsRefused
<1> QED BY <1>1, <1>2, <1>3, <1>4, <1>5

(***************************************************************************)
(* On top of DeliveryInv: effects run in journal order, the journal's      *)
(* fences follow those of enqueue, observations precede acknowledgements,  *)
(* and a batch never leaves a command out.                                 *)
(***************************************************************************)
THEOREM ChannelInvariance == Spec => []ChannelInv
<1>1. Init => OrderInv
  BY OrderInit
<1>2. DeliveryInv /\ OrderInv /\ [Next]_vars => OrderInv'
  <2>1. ASSUME DeliveryInv, OrderInv, Next PROVE OrderInv'
    BY <2>1, EffectsStep, AdmittedStep, FencesStep, ReportsStep, NoGapStep, RefusalStep DEF OrderInv
  <2> QED BY <2>1, OrderStutter
<1> QED BY <1>1, <1>2, DeliveryInvariance, PTL DEF Spec, ChannelInv

(***************************************************************************)
(* Once a removal's effect ran, no apply of its generation runs: enqueue   *)
(* admits none after the removal, and effects run in the order of issue.   *)
(***************************************************************************)
THEOREM FinalRemoval == Spec => []RemovalIsFinal
<1>1. ChannelInv => RemovalIsFinal
  <2> SUFFICES ASSUME ChannelInv, NEW i \in DOMAIN performed, NEW j \in DOMAIN performed, i < j,
                      rows[performed[i]].cmd.payload.kind = "runtime_remove",
                      rows[performed[j]].cmd.payload.kind = "runtime_apply",
                      rows[performed[i]].cmd.aggregate = rows[performed[j]].cmd.aggregate,
                      rows[performed[i]].cmd.payload.generation = rows[performed[j]].cmd.payload.generation
               PROVE  FALSE
    BY DEF RemovalIsFinal
  <2>1. PICK m, n : m = performed[i] /\ n = performed[j]
    OBVIOUS
  <2>2. m \in DOMAIN entries /\ n \in DOMAIN entries /\ DOMAIN entries \subseteq DOMAIN rows
    BY <2>1, Split, EntriesAreRows DEF ChannelInv, OrderInv, EffectsInv
  <2>3. performed \in Seq(Nat) /\ DOMAIN rows = 1 .. Len(rows) /\ Len(rows) \in Nat
    BY Typed DEF ChannelInv
  <2>4. m <= n
    BY <2>1, <2>3 DEF ChannelInv, OrderInv, EffectsInv
  <2>5. m # n
    BY <2>1
  <2>6. m < n
    BY <2>2, <2>3, <2>4, <2>5
  <2> QED BY <2>1, <2>2, <2>6 DEF ChannelInv, OrderInv, AdmittedInv
<1> QED BY <1>1, ChannelInvariance, PTL

(***************************************************************************)
(* Fleet stores no acknowledgement with an observation before the          *)
(* observation itself (deliver_completion's order survives every fault).   *)
(***************************************************************************)
THEOREM ObservationFirst == Spec => []ObservedBeforeSettled
<1>1. ChannelInv => ObservedBeforeSettled
  <2> SUFFICES ASSUME ChannelInv, NEW i \in DOMAIN rows, rows[i].ack # NoAck,
                      rows[i].ack.outcome = "observed"
               PROVE  \E r \in reports : r.id = rows[i].cmd.id /\ r.observedAt = rows[i].ack.completedAt
    BY DEF ObservedBeforeSettled
  <2>1. Reported(rows[i].ack)
    BY DEF ChannelInv, OrderInv, ReportsInv
  <2>2. PICK r \in reports : r = [id |-> rows[i].ack.id, observedAt |-> rows[i].ack.completedAt]
    BY <2>1 DEF Reported
  <2>3. rows[i].ack.id = rows[i].cmd.id
    <3>1. i \in DOMAIN entries /\ rows[i].ack = Acknowledgement(i) /\ entries[i].cmd = rows[i].cmd
      BY DEF ChannelInv, DeliveryInv, SettlementAgreement, JournalIsPrefix
    <3> QED BY <3>1 DEF Acknowledgement
  <2> QED BY <2>2, <2>3
<1> QED BY <1>1, ChannelInvariance, PTL

(***************************************************************************)
(* begin refuses a delivered command only when two applies of one          *)
(* generation meet of which one is bound to a resource claim.              *)
(***************************************************************************)
THEOREM RefusedOverClaim == Spec => []OnlyClaimedIsRefused
<1>1. ChannelInv => OnlyClaimedIsRefused
  BY DEF ChannelInv, OrderInv, RefusalInv, OnlyClaimedIsRefused
<1> QED BY <1>1, ChannelInvariance, PTL

\* A command is taken to begun or dispatching by begin and the deadline check
LEMMA WorkMoves ==
  ASSUME Next, agent'.pc \in {"begun", "dispatching"}, agent \in Agents
  PROVE  \/ agent'.pc = agent.pc
         \/ CheckDeadline
         \/ \E env \in agent.batch : BeginCommand(env)
<1>a. \A pc : Fresh(pc).pc = pc
  BY DEF Fresh
<1>1. CASE MailboxStep BY <1>1 DEF MailboxStep, channelVars
<1>2. CASE AgentStep
  <2>1. CASE StartSync
    BY <2>1 DEF StartSync, Fresh
  <2>2. CASE BatchDone \/ ReceiveConflict \/ Timeout \/ Restart
    <3>1. \E pc : agent' = Fresh(pc) /\ pc \notin {"begun", "dispatching"}
      BY <2>2 DEF BatchDone, ReceiveConflict, Timeout, GiveUp, Restart
    <3> QED BY <3>1, <1>a
  <2>3. CASE NextPending \/ (\E o \in Outcomes : Dispatch(o)) \/ JudgeDeadline
              \/ CompleteCommand \/ ReceiveReceipt
    BY <2>3 DEF NextPending, Dispatch, JudgeDeadline, CompleteCommand, ReceiveReceipt, Agents
  <2>4. CASE Poll \/ DeliverObservation \/ DeliverAcknowledgement
    BY <2>4 DEF Poll, DeliverObservation, DeliverAcknowledgement, Send, Agents
  <2>5. CASE ReceiveBatch
    <3>1. agent' = Fresh("down") \/ agent'.pc = "batch"
      BY <2>5 DEF ReceiveBatch, Stop, Agents
    <3> QED BY <3>1, <1>a
  <2>6. CASE ReceiveRefusal \/ (\E env \in agent.batch : RefuseCommand(env))
    BY <2>6, <1>a DEF ReceiveRefusal, RefuseCommand, Stop
  <2> QED BY <1>2, <2>1, <2>2, <2>3, <2>4, <2>5, <2>6 DEF AgentStep
<1>3. CASE Beat BY <1>3 DEF Beat
<1>4. CASE ControlPlaneStep
  <2>1. PICK r \in net : HandleRequest(r)
    BY <1>4 DEF ControlPlaneStep
  <2>2. CASE HandleHeartbeat(r)
    BY <2>2, <1>a DEF HandleHeartbeat, Stop
  <2>3. CASE ~HandleHeartbeat(r)
    <3>1. PICK y : Respond(r, y)
      BY <2>1, <2>3 DEF HandleRequest, HandleLease, HandleAck, HandleReport, RefuseRevoked
    <3> QED BY <3>1 DEF Respond, Agents
  <2> QED BY <2>2, <2>3
<1>5. CASE FaultStep
  BY <1>5, <1>a DEF FaultStep, LoseRequest, TimeoutEarly, GiveUp, Crash, Stop
<1> QED BY <1>1, <1>2, <1>3, <1>4, <1>5 DEF Next

(***************************************************************************)
(* lease gives a revoked node nothing, so a node that has no command at    *)
(* hand runs none from then on.                                            *)
(***************************************************************************)
THEOREM RevocationHolds == Spec => RevokedStaysStopped
<1>1. ASSUME DeliveryInv, [Next]_vars, revoked, EmptyHanded PROVE EmptyHanded'
  <2>0. agent \in Agents
    BY <1>1, Typed
  <2>1. CASE UNCHANGED vars
    BY <1>1, <2>1 DEF EmptyHanded, vars, channelVars
  <2>2. CASE Next
    <3>1. agent'.batch = {} /\ agent'.reply.batch = {}
      BY <1>1, <2>2, BatchMoves DEF EmptyHanded, Answers, LeaseCommands
    <3>2. agent'.pc \notin {"begun", "dispatching"}
      <4>1. ASSUME agent'.pc \in {"begun", "dispatching"} PROVE FALSE
        BY <1>1, <2>0, <2>2, <4>1, WorkMoves DEF EmptyHanded, CheckDeadline
      <4> QED BY <4>1
    <3> QED BY <3>1, <3>2 DEF EmptyHanded
  <2> QED BY <1>1, <2>1, <2>2
<1>2. DeliveryInv /\ [Next]_vars => [revoked /\ EmptyHanded => EmptyHanded']_vars
  BY <1>1
<1> QED BY <1>2, DeliveryInvariance, PTL DEF Spec, RevokedStaysStopped

-----------------------------------------------------------------------------
(* The refinement to SerialDelivery                                        *)

Issued == [i \in DOMAIN rows |-> rows[i].cmd]

\* How far the journal has decided, and Fleet settled
DecidedTo(n) ==
  /\ { i \in DOMAIN entries : Completed(i) } = 1 .. n
  /\ DecidedResults = [i \in 1 .. n |-> entries[i].completion.outcome]
SettledTo(n) ==
  /\ { i \in DOMAIN rows : rows[i].ack # NoAck } = 1 .. n
  /\ SettledResults = [i \in 1 .. n |-> rows[i].ack.outcome]

\* The decisions when the first n commands are decided
LEMMA DecidedCount ==
  ASSUME NEW n \in Nat, { i \in DOMAIN entries : Completed(i) } = 1 .. n
  PROVE  DecidedTo(n)
<1>1. Cardinality(1 .. n) = n
  BY FS_Interval
<1> QED BY <1>1 DEF DecidedTo, DecidedResults

\* ... and after a step
LEMMA DecidedCountNext ==
  ASSUME NEW n \in Nat, { i \in DOMAIN entries' : Completed(i)' } = 1 .. n
  PROVE  DecidedResults' = [i \in 1 .. n |-> entries'[i].completion.outcome]
<1>1. Cardinality(1 .. n) = n
  BY FS_Interval
<1> QED BY <1>1 DEF DecidedResults

\* What is settled when the first n commands are
LEMMA SettledCount ==
  ASSUME NEW n \in Nat, { i \in DOMAIN rows : rows[i].ack # NoAck } = 1 .. n
  PROVE  SettledTo(n)
<1>1. Cardinality(1 .. n) = n
  BY FS_Interval
<1> QED BY <1>1 DEF SettledTo, SettledResults

\* ... and after a step
LEMMA SettledCountNext ==
  ASSUME NEW n \in Nat, { i \in DOMAIN rows' : rows'[i].ack # NoAck } = 1 .. n
  PROVE  SettledResults' = [i \in 1 .. n |-> rows'[i].ack.outcome]
<1>1. Cardinality(1 .. n) = n
  BY FS_Interval
<1> QED BY <1>1 DEF SettledResults

\* Everything before the last journaled command is decided and settled
LEMMA Prefixes ==
  ASSUME DeliveryInv
  PROVE  /\ \A i \in 1 .. Len(entries) - 1 : Completed(i) /\ rows[i].ack # NoAck
         /\ \A i \in DOMAIN rows : rows[i].ack # NoAck =>
              i \in DOMAIN entries /\ Completed(i)
              /\ rows[i].ack.outcome = entries[i].completion.outcome
         /\ DOMAIN entries = 1 .. Len(entries) /\ DOMAIN entries \subseteq DOMAIN rows
         /\ Len(entries) \in Nat
<1>0. /\ StoresInv /\ DOMAIN entries = 1 .. Len(entries) /\ Len(entries) \in Nat
      /\ DOMAIN entries \subseteq DOMAIN rows
  BY Typed, Split, EntriesAreRows
<1>1. ASSUME NEW i \in 1 .. Len(entries) - 1 PROVE Completed(i) /\ rows[i].ack # NoAck
  <2>1. i \in DOMAIN entries /\ i < Len(entries)
    BY <1>0
  <2> QED BY <1>0, <2>1 DEF StoresInv, OneUnsettledCommand, SettlementAgreement, EntriesInv
<1>2. ASSUME NEW i \in DOMAIN rows, rows[i].ack # NoAck
      PROVE  i \in DOMAIN entries /\ Completed(i) /\ rows[i].ack.outcome = entries[i].completion.outcome
  <2>1. i \in DOMAIN entries /\ Completed(i) /\ rows[i].ack = Acknowledgement(i)
    BY <1>0, <1>2 DEF StoresInv, SettlementAgreement
  <2>2. Acknowledgement(i).outcome = entries[i].completion.outcome
    BY DEF Acknowledgement
  <2> QED BY <2>1, <2>2
<1> QED BY <1>0, <1>1, <1>2

\* The last of a sequence of commands, and those before it
LEMMA LastOrBefore ==
  ASSUME NEW L \in Nat
  PROVE  /\ \A i \in 1 .. L : i \in 1 .. L - 1 \/ i = L
         /\ \A i \in 1 .. L - 1 : i \in 1 .. L
  OBVIOUS

\* The journal has decided all its commands, or all but the last
LEMMA DecidedShape ==
  ASSUME DeliveryInv
  PROVE  \E n \in Nat : /\ DecidedTo(n)
                        /\ n = IF Len(entries) = 0 \/ Completed(Len(entries))
                               THEN Len(entries) ELSE Len(entries) - 1
<1>0. PICK L \in Nat : L = Len(entries)
  BY Prefixes
<1>1. /\ \A i \in 1 .. L - 1 : Completed(i)
      /\ DOMAIN entries = 1 .. L
  BY <1>0, Prefixes
<1>2. CASE L = 0 \/ Completed(L)
  <2>1. \A i \in 1 .. L : Completed(i)
    BY <1>1, <1>2, LastOrBefore
  <2>2. { i \in DOMAIN entries : Completed(i) } = 1 .. L
    BY <1>1, <2>1
  <2> QED BY <1>0, <1>2, <2>2, DecidedCount
<1>3. CASE ~(L = 0 \/ Completed(L))
  <2>1. \A i \in 1 .. L : Completed(i) <=> i \in 1 .. L - 1
    BY <1>1, <1>3, LastOrBefore
  <2>2. { i \in DOMAIN entries : Completed(i) } = 1 .. L - 1
    BY <1>1, <2>1, LastOrBefore
  <2>3. L - 1 \in Nat
    BY <1>3
  <2> QED BY <1>0, <1>3, <2>2, <2>3, DecidedCount
<1> QED BY <1>2, <1>3

\* Fleet has settled all of them, or all but the last
LEMMA SettledShape ==
  ASSUME DeliveryInv
  PROVE  \E n \in Nat : /\ SettledTo(n)
                        /\ n = IF Len(entries) = 0 \/ rows[Len(entries)].ack # NoAck
                               THEN Len(entries) ELSE Len(entries) - 1
<1> DEFINE Settled(i) == rows[i].ack # NoAck
<1>0. PICK L \in Nat : L = Len(entries)
  BY Prefixes
<1>1. /\ \A i \in 1 .. L - 1 : Settled(i)
      /\ \A i \in DOMAIN rows : Settled(i) => i \in 1 .. L
      /\ 1 .. L \subseteq DOMAIN rows
  BY <1>0, Prefixes
<1>2. CASE L = 0 \/ Settled(L)
  <2> HIDE DEF Settled
  <2>1. \A i \in 1 .. L : Settled(i)
    BY <1>1, <1>2, LastOrBefore
  <2>2. { i \in DOMAIN rows : Settled(i) } = 1 .. L
    BY <1>1, <2>1
  <2> QED BY <1>0, <1>2, <2>2, SettledCount DEF Settled
<1>3. CASE ~(L = 0 \/ Settled(L))
  <2> HIDE DEF Settled
  <2>1. \A i \in 1 .. L : Settled(i) <=> i \in 1 .. L - 1
    BY <1>1, <1>3, LastOrBefore
  <2>2. { i \in DOMAIN rows : Settled(i) } = 1 .. L - 1
    BY <1>1, <2>1, LastOrBefore
  <2>3. L - 1 \in Nat
    BY <1>3
  <2> QED BY <1>0, <1>3, <2>2, <2>3, SettledCount DEF Settled
<1> QED BY <1>2, <1>3

\* A step that completes nothing decides nothing
LEMMA DecidedSame ==
  ASSUME DeliveryInv, DOMAIN entries \subseteq DOMAIN entries',
         \A i \in DOMAIN entries : entries'[i].completion = entries[i].completion,
         \A i \in DOMAIN entries' : i \notin DOMAIN entries => entries'[i].completion = NoCompletion
  PROVE  DecidedResults' = DecidedResults
<1>1. PICK n \in Nat : DecidedTo(n)
  BY DecidedShape
<1>2. { i \in DOMAIN entries : Completed(i) } = 1 .. n
  BY <1>1 DEF DecidedTo
<1>3. { i \in DOMAIN entries' : Completed(i)' } = 1 .. n
  BY <1>2 DEF Completed
<1>4. DecidedResults' = [i \in 1 .. n |-> entries'[i].completion.outcome]
  BY <1>3, DecidedCountNext
<1>5. \A i \in 1 .. n : entries'[i].completion.outcome = entries[i].completion.outcome
  BY <1>2
<1> QED BY <1>1, <1>4, <1>5 DEF DecidedTo

\* A step that stores no acknowledgement settles nothing
LEMMA SettledSame ==
  ASSUME DeliveryInv, DOMAIN rows \subseteq DOMAIN rows',
         \A i \in DOMAIN rows : rows'[i].ack = rows[i].ack,
         \A i \in DOMAIN rows' : i \notin DOMAIN rows => rows'[i].ack = NoAck
  PROVE  SettledResults' = SettledResults
<1>1. PICK n \in Nat : SettledTo(n)
  BY SettledShape
<1>2. { i \in DOMAIN rows : rows[i].ack # NoAck } = 1 .. n
  BY <1>1 DEF SettledTo
<1>3. { i \in DOMAIN rows' : rows'[i].ack # NoAck } = 1 .. n
  BY <1>2
<1>4. SettledResults' = [i \in 1 .. n |-> rows'[i].ack.outcome]
  BY <1>3, SettledCountNext
<1>5. \A i \in 1 .. n : rows'[i].ack.outcome = rows[i].ack.outcome
  BY <1>2
<1> QED BY <1>1, <1>4, <1>5 DEF SettledTo

\* One more element
LEMMA OneMore ==
  ASSUME NEW S, NEW s \in Seq(S), NEW t \in Seq(S), Len(t) = Len(s) + 1,
         \A i \in 1 .. Len(s) : t[i] = s[i]
  PROVE  t = Append(s, t[Len(s) + 1]) /\ s = SubSeq(t, 1, Len(s)) /\ t[Len(s) + 1] \in S
<1>1. t[Len(s) + 1] \in S
  OBVIOUS
<1>2. t = Append(s, t[Len(s) + 1])
  <2>1. DOMAIN Append(s, t[Len(s) + 1]) = DOMAIN t
    BY <1>1
  <2>2. \A i \in DOMAIN t : t[i] = Append(s, t[Len(s) + 1])[i]
    BY <1>1
  <2>3. Append(s, t[Len(s) + 1]) \in Seq(S)
    BY <1>1
  <2> QED BY <2>1, <2>2, <2>3
<1>3. s = SubSeq(t, 1, Len(s))
  OBVIOUS
<1> QED BY <1>1, <1>2, <1>3

\* The abstract variables as sequences
LEMMA IssuedShape ==
  ASSUME DeliveryInv
  PROVE  /\ Issued \in Seq(Command) /\ Len(Issued) = Len(rows)
         /\ \A i \in 1 .. Len(rows) : Issued[i] = rows[i].cmd
<1>0. StoresInv /\ DOMAIN rows = 1 .. Len(rows) /\ Len(rows) \in Nat
  BY Typed, Split
<1>1. \A i \in 1 .. Len(rows) : rows[i].cmd \in Command
  BY <1>0, RowFacts
<1> QED BY <1>0, <1>1 DEF Issued

\* ... the decisions, in the order of issue
LEMMA DecidedSeq ==
  ASSUME DeliveryInv, NEW n \in Nat, DecidedTo(n)
  PROVE  /\ DecidedResults \in Seq(Outcomes) /\ Len(DecidedResults) = n
         /\ \A i \in 1 .. n : DecidedResults[i] = entries[i].completion.outcome
<1>1. ASSUME NEW i \in 1 .. n PROVE entries[i].completion.outcome \in Outcomes
  <2>1. i \in DOMAIN entries /\ Completed(i)
    BY DEF DecidedTo
  <2>2. entries[i] \in Entry
    BY <2>1, Typed
  <2>3. entries[i].completion \in Completion
    BY <2>1, <2>2 DEF Entry, Completed
  <2> QED BY <2>3 DEF Completion
<1>2. DecidedResults = [i \in 1 .. n |-> entries[i].completion.outcome]
  BY DEF DecidedTo
<1> QED BY <1>1, <1>2

\* ... and what Fleet settled, which is what the journal decided
LEMMA SettledSeq ==
  ASSUME DeliveryInv, NEW n \in Nat, SettledTo(n)
  PROVE  /\ SettledResults \in Seq(Outcomes) /\ Len(SettledResults) = n
         /\ \A i \in 1 .. n : SettledResults[i] = entries[i].completion.outcome
<1>1. ASSUME NEW i \in 1 .. n
      PROVE  /\ rows[i].ack.outcome = entries[i].completion.outcome
             /\ entries[i].completion.outcome \in Outcomes
  <2>1. i \in DOMAIN rows /\ rows[i].ack # NoAck
    BY DEF SettledTo
  <2>2. i \in DOMAIN entries /\ Completed(i) /\ rows[i].ack.outcome = entries[i].completion.outcome
    BY <2>1, Prefixes
  <2>3. entries[i] \in Entry
    BY <2>2, Typed
  <2>4. entries[i].completion \in Completion
    BY <2>2, <2>3 DEF Entry, Completed
  <2> QED BY <2>2, <2>4 DEF Completion
<1>2. SettledResults = [i \in 1 .. n |-> rows[i].ack.outcome]
  BY DEF SettledTo
<1> QED BY <1>1, <1>2

\* While a command is worked on, everything before it is decided and settled
LEMMA InHandHolds ==
  ASSUME DeliveryInv, agent.pc \in Working
  PROVE  /\ Len(DecidedResults) + 1 = agent.current
         /\ SettledResults = DecidedResults
         /\ agent.current <= Len(rows) /\ agent.current = Len(entries) /\ Len(entries) \in Nat
         /\ DecidedTo(Len(entries) - 1) /\ Len(entries) - 1 \in Nat
<1>0. /\ agent.current = Len(entries) /\ agent.current > 0 /\ ~Completed(agent.current)
      /\ Len(entries) <= Len(rows)
  BY DEF DeliveryInv, CurrentInv, JournalIsPrefix
<1>1. PICK L \in Nat : L = Len(entries)
  BY Prefixes
<1>2. L - 1 \in Nat /\ L > 0
  BY <1>0, <1>1
<1>3. DecidedTo(L - 1)
  BY <1>0, <1>1, <1>2, DecidedShape
<1>4. rows[L].ack = NoAck
  <2>1. L \in DOMAIN entries /\ L \in DOMAIN rows
    BY <1>0, <1>1, <1>2, Prefixes
  <2> QED BY <1>0, <1>1, <2>1, Prefixes
<1>5. SettledTo(L - 1)
  BY <1>0, <1>1, <1>2, <1>4, SettledShape
<1>6. /\ DecidedResults \in Seq(Outcomes) /\ Len(DecidedResults) = L - 1
      /\ \A i \in 1 .. L - 1 : DecidedResults[i] = entries[i].completion.outcome
  BY <1>2, <1>3, DecidedSeq
<1>7. /\ SettledResults \in Seq(Outcomes) /\ Len(SettledResults) = L - 1
      /\ \A i \in 1 .. L - 1 : SettledResults[i] = entries[i].completion.outcome
  BY <1>2, <1>5, SettledSeq
<1>8. SettledResults = DecidedResults
  BY <1>6, <1>7
<1> QED BY <1>0, <1>1, <1>2, <1>3, <1>6, <1>8

-----------------------------------------------------------------------------
\* Nothing else decides
LEMMA DecidedStays ==
  ASSUME DeliveryInv, Next, ~CompleteCommand
  PROVE  DecidedResults' = DecidedResults
<1>0. entries \in Seq(Entry) /\ DOMAIN entries = 1 .. Len(entries) /\ Len(entries) \in Nat
      /\ \A i \in DOMAIN entries : entries[i] \in Entry
  BY Typed
<1>1. CASE UNCHANGED entries
  BY <1>1 DEF DecidedResults, Completed
<1>2. CASE \E env \in agent.batch : BeginCommand(env)
  <2>1. PICK env \in agent.batch : BeginCommand(env)
    BY <1>2
  <2>2. CASE \E i \in DOMAIN entries : BeginRedelivered(env, i)
    <3>1. PICK i \in DOMAIN entries : entries' = [entries EXCEPT ![i].lease = env.lease]
      BY <2>2 DEF BeginRedelivered
    <3>2. DOMAIN entries' = DOMAIN entries /\ \A k \in DOMAIN entries : entries'[k].completion = entries[k].completion
      BY <1>0, <3>1 DEF Entry
    <3> QED BY <3>2, DecidedSame
  <2>3. CASE ~ \E i \in DOMAIN entries : BeginRedelivered(env, i)
    <3>1. BeginsNew(env)
      BY <2>1, <2>3 DEF BeginCommand, BeginsNew
    <3>2. /\ DOMAIN entries' = 1 .. Len(entries) + 1
          /\ \A i \in 1 .. Len(entries) : entries'[i] = entries[i]
          /\ entries'[Len(entries) + 1].completion = NoCompletion
      BY <3>1, BegunEntry
    <3>3. DOMAIN entries \subseteq DOMAIN entries'
      BY <1>0, <3>2
    <3>4. \A i \in DOMAIN entries' : i \notin DOMAIN entries => i = Len(entries) + 1
      BY <1>0, <3>2
    <3> QED BY <1>0, <3>2, <3>3, <3>4, DecidedSame
  <2> QED BY <2>2, <2>3
<1>3. CASE ReceiveReceipt
  <2>1. entries' = [entries EXCEPT ![agent.current].acknowledged = TRUE]
    BY <1>3 DEF ReceiveReceipt, MarkAcknowledged
  <2>2. DOMAIN entries' = DOMAIN entries /\ \A k \in DOMAIN entries : entries'[k].completion = entries[k].completion
    BY <1>0, <2>1 DEF Entry
  <2> QED BY <2>2, DecidedSame
<1>4. CASE MailboxStep \/ Beat \/ ControlPlaneStep \/ FaultStep
  <2>1. UNCHANGED journalVars
    BY <1>4 DEF MailboxStep, Beat, ControlPlaneStep, HandleRequest, HandleLease, HandleAck,
      HandleReport, RefuseRevoked, HandleHeartbeat, Respond, FaultStep, LoseRequest, TimeoutEarly,
      GiveUp, Crash
  <2> QED BY <2>1, <1>1 DEF journalVars
<1>5. CASE AgentStep /\ ~(\E env \in agent.batch : BeginCommand(env)) /\ ~ReceiveReceipt
  <2>1. UNCHANGED journalVars
    BY <1>5 DEF AgentStep, StartSync, NextPending, Poll, ReceiveBatch, BatchDone,
      RefuseCommand, CheckDeadline, Dispatch, JudgeDeadline,
      DeliverObservation, DeliverAcknowledgement, ReceiveConflict,
      ReceiveRefusal, Timeout, GiveUp, Restart
  <2> QED BY <2>1, <1>1 DEF journalVars
<1> QED BY <1>2, <1>3, <1>4, <1>5 DEF Next

\* Nothing but acknowledge settles
LEMMA SettledStays ==
  ASSUME DeliveryInv, Next, ~ \E r \in net : HandleAck(r)
  PROVE  SettledResults' = SettledResults
<1>0. DOMAIN rows = 1 .. Len(rows) /\ Len(rows) \in Nat /\ \A i \in DOMAIN rows : rows[i] \in Row
  BY Typed
<1>1. CASE rows' = rows
  BY <1>1 DEF SettledResults
<1>2. CASE MailboxStep
  <2>1. CASE \E d \in Drafts, t \in RecentTimes : Enqueue(d, t)
    <3>1. /\ DOMAIN rows' = 1 .. Len(rows) + 1 /\ \A i \in 1 .. Len(rows) : rows'[i] = rows[i]
          /\ rows'[Len(rows) + 1].ack = NoAck
      BY <2>1, EnqueuedRow
    <3>2. DOMAIN rows \subseteq DOMAIN rows'
      BY <1>0, <3>1
    <3>3. \A i \in DOMAIN rows' : i \notin DOMAIN rows => i = Len(rows) + 1
      BY <1>0, <3>1
    <3> QED BY <1>0, <3>1, <3>2, <3>3, SettledSame
  <2> QED BY <1>1, <1>2, <2>1 DEF MailboxStep, ClockTick, Tick, Revoke
<1>3. CASE AgentStep
  <2>1. UNCHANGED mailboxVars
    BY <1>3 DEF AgentStep, StartSync, NextPending, Poll, ReceiveBatch, BatchDone,
      BeginCommand, RefuseCommand, CheckDeadline, Dispatch, JudgeDeadline, CompleteCommand,
      DeliverObservation, DeliverAcknowledgement, ReceiveReceipt, ReceiveConflict,
      ReceiveRefusal, Timeout, GiveUp, Restart
  <2> QED BY <1>1, <2>1 DEF mailboxVars
<1>4. CASE Beat BY <1>1, <1>4 DEF Beat, mailboxVars
<1>5. CASE ControlPlaneStep
  <2>1. PICK r \in net : HandleRequest(r)
    BY <1>5 DEF ControlPlaneStep
  <2>2. CASE \E t \in RecentTimes : HandleLease(r, t)
    <3>1. PICK t \in RecentTimes : LeaseCommands(r.after, t)
      BY <2>2 DEF HandleLease
    <3>2. DOMAIN rows' = DOMAIN rows
      BY <3>1 DEF LeaseCommands
    <3>3. ASSUME NEW i \in DOMAIN rows PROVE rows'[i].ack = rows[i].ack
      <4>1. rows'[i] = rows[i] \/ rows'[i] = [rows[i] EXCEPT !.lease = [id |-> leaseCount + 1, until |-> t + LeaseDuration]]
        BY <3>1 DEF LeaseCommands
      <4> QED BY <4>1, <1>0 DEF Row
    <3> QED BY <3>2, <3>3, SettledSame
  <2>3. CASE HandleReport(r) \/ RefuseRevoked(r) \/ HandleHeartbeat(r)
    BY <1>1, <2>3 DEF HandleReport, RefuseRevoked, HandleHeartbeat, RecordObservations, mailboxVars
  <2> QED BY <2>1, <2>2, <2>3 DEF HandleRequest
<1>6. CASE FaultStep
  BY <1>1, <1>6 DEF FaultStep, LoseRequest, TimeoutEarly, GiveUp, Crash, mailboxVars
<1> QED BY <1>2, <1>3, <1>4, <1>5, <1>6 DEF Next

-----------------------------------------------------------------------------
\* enqueue issues: the command is added behind the others
LEMMA EnqueueIssues ==
  ASSUME DeliveryInv, DeliveryInv', NEW d \in Drafts, NEW t \in RecentTimes, Enqueue(d, t)
  PROVE  /\ Len(Issued') = Len(Issued) + 1
         /\ Issued = SubSeq(Issued', 1, Len(Issued))
         /\ Issued'[Len(Issued')] \in Command
<1>1. /\ Len(rows') = Len(rows) + 1
      /\ \A i \in 1 .. Len(rows) : rows'[i] = rows[i]
  BY EnqueuedRow
<1>2. /\ Issued \in Seq(Command) /\ Len(Issued) = Len(rows) /\ Len(rows) \in Nat
      /\ \A i \in 1 .. Len(rows) : Issued[i] = rows[i].cmd
  BY IssuedShape, Typed
<1>3. /\ Issued' \in Seq(Command) /\ Len(Issued') = Len(rows')
      /\ \A i \in 1 .. Len(rows') : Issued'[i] = rows'[i].cmd
  <2>1. rows' \in Seq(Row)
    BY DEF DeliveryInv, ChannelTypeOK, MailboxTypeOK
  <2>2. DOMAIN rows' = 1 .. Len(rows') /\ Len(rows') \in Nat
        /\ \A i \in DOMAIN rows' : rows'[i] \in Row
    BY <2>1
  <2>3. \A i \in DOMAIN rows' : rows'[i].cmd \in Command
    BY <2>2 DEF Row
  <2> QED BY <2>2, <2>3 DEF Issued
<1>4. \A i \in 1 .. Len(Issued) : Issued'[i] = Issued[i]
  BY <1>1, <1>2, <1>3
<1>5. Len(Issued') = Len(Issued) + 1
  BY <1>1, <1>2, <1>3
<1> HIDE DEF Issued
<1>6. Issued = SubSeq(Issued', 1, Len(Issued)) /\ Issued'[Len(Issued) + 1] \in Command
  BY <1>2, <1>3, <1>4, <1>5, OneMore
<1> QED BY <1>5, <1>6

\* complete decides the command in hand, a success only after its effect ran
LEMMA CompleteDecides ==
  ASSUME DeliveryInv, EffectsInv, CompleteCommand
  PROVE  /\ agent.outcome \in Outcomes
         /\ Succeeds(agent.outcome) => HasRun(agent.current)
         /\ DecidedResults' = Append(DecidedResults, agent.outcome)
<1>0. agent.pc = "completing" /\ agent.outcome \in Outcomes /\ agent.pc \in Working
  BY DEF CompleteCommand, DeliveryInv, CurrentInv, Working
<1>1. Succeeds(agent.outcome) => HasRun(agent.current)
  BY <1>0 DEF EffectsInv
<1>2. PICK L \in Nat : /\ L = Len(entries) /\ L - 1 \in Nat /\ L = agent.current
                       /\ DecidedTo(L - 1)
  BY <1>0, InHandHolds
<1>3. ~Completed(L)
  BY <1>0, <1>2 DEF DeliveryInv, CurrentInv
<1>4. PICK at : entries' = [entries EXCEPT ![L].completion = [completedAt |-> at, outcome |-> agent.outcome]]
  BY <1>2, <1>3 DEF CompleteCommand, Complete
<1>5. entries \in Seq(Entry) /\ DOMAIN entries = 1 .. L /\ \A i \in DOMAIN entries : entries[i] \in Entry
  BY <1>2, Typed
<1>6. L \in 1 .. L
  BY <1>2
<1>7. /\ DOMAIN entries' = 1 .. L
      /\ \A i \in 1 .. L - 1 : entries'[i] = entries[i]
      /\ entries'[L].completion = [completedAt |-> at, outcome |-> agent.outcome]
  <2>1. \A i \in 1 .. L - 1 : i \in 1 .. L /\ i # L
    BY <1>2
  <2> QED BY <1>4, <1>5, <1>6, <2>1 DEF Entry
<1>8. { i \in DOMAIN entries : Completed(i) } = 1 .. L - 1
  BY <1>2 DEF DecidedTo
<1>9. \A i \in 1 .. L : Completed(i)'
  <2>1. \A i \in 1 .. L - 1 : Completed(i)'
    BY <1>7, <1>8 DEF Completed
  <2>2. entries'[L].completion # NoCompletion
    <3>1. [completedAt |-> at, outcome |-> agent.outcome].outcome \in Outcomes
      BY <1>0
    <3>2. NoCompletion.outcome \notin Outcomes
      BY DEF NoCompletion, Outcomes
    <3> QED BY <1>7, <3>1, <3>2
  <2>3. entries'[L].completion # NoCompletion => Completed(L)'
    BY <1>7 DEF Completed
  <2> QED BY <2>1, <2>2, <2>3, LastOrBefore
<1>10. { i \in DOMAIN entries' : Completed(i)' } = 1 .. L
  BY <1>7, <1>9
<1>11. DecidedResults' = [i \in 1 .. L |-> entries'[i].completion.outcome]
  BY <1>10, DecidedCountNext
<1>12. /\ DecidedResults \in Seq(Outcomes) /\ Len(DecidedResults) = L - 1
       /\ \A i \in 1 .. L - 1 : DecidedResults[i] = entries[i].completion.outcome
  BY <1>2, DecidedSeq
<1>13. entries'[L].completion.outcome = agent.outcome
  BY <1>7
<1>14. \A i \in 1 .. L - 1 : DecidedResults'[i] = DecidedResults[i]
  BY <1>7, <1>11, <1>12, LastOrBefore
<1>15. DecidedResults'[L] = agent.outcome
  BY <1>6, <1>11, <1>13
<1>16. DecidedResults' \in Seq(Outcomes) /\ Len(DecidedResults') = L
  <2>1. \A i \in 1 .. L : entries'[i].completion.outcome \in Outcomes
    <3>1. \A i \in 1 .. L - 1 : entries'[i].completion.outcome \in Outcomes
      BY <1>7, <1>12
    <3> QED BY <1>0, <1>13, <3>1, LastOrBefore
  <2> QED BY <1>11, <2>1
<1> HIDE DEF DecidedResults
<1>17. PICK s \in Seq(Outcomes) : s = DecidedResults /\ Len(s) = L - 1
  BY <1>12
<1>18. PICK u \in Seq(Outcomes) : u = DecidedResults' /\ Len(u) = L
  BY <1>16
<1>19. Len(u) = Len(s) + 1 /\ Len(s) + 1 = L
  BY <1>2, <1>17, <1>18
<1>20. \A i \in 1 .. Len(s) : u[i] = s[i]
  BY <1>14, <1>17, <1>18
<1>21. u = Append(s, u[L])
  BY <1>19, <1>20, OneMore
<1> QED BY <1>0, <1>1, <1>15, <1>17, <1>18, <1>21

\* acknowledge settles the last journaled command, or nothing
LEMMA AckSettles ==
  ASSUME DeliveryInv, DeliveryInv', NEW r \in net, HandleAck(r)
  PROVE  \/ SettledResults' = SettledResults
         \/ /\ Len(SettledResults) < Len(DecidedResults)
            /\ SettledResults' = Append(SettledResults, DecidedResults[Len(SettledResults) + 1])
<1> DEFINE Settled(i) == rows[i].ack # NoAck
           SettledNext(i) == rows'[i].ack # NoAck
<1>0. PICK a : SentAck(a) /\ Acknowledge(a)
  BY DEF HandleAck, DeliveryInv, NetInv
<1>1. Settles(a)
  BY <1>0, AcknowledgeSettles, Split
<1>2. entries' = entries
  BY DEF HandleAck, Respond, journalVars
<1>3. PICK L \in Nat : L = Len(entries)
  BY Prefixes
<1>4. /\ \A i \in 1 .. L - 1 : Completed(i) /\ Settled(i)
      /\ \A i \in DOMAIN rows : Settled(i) => i \in 1 .. L
      /\ 1 .. L \subseteq DOMAIN rows /\ DOMAIN entries = 1 .. L
  BY <1>3, Prefixes
<1>5. DOMAIN rows' = DOMAIN rows
  BY <1>1 DEF Settles
<1>6. CASE \A i \in DOMAIN rows : ~Acknowledgeable(a, i)
  <2>1. \A i \in DOMAIN rows : rows'[i] = rows[i]
    BY <1>1, <1>6 DEF Settles
  <2> QED BY <1>5, <2>1, SettledSame
<1>7. CASE \E i \in DOMAIN rows : Acknowledgeable(a, i)
  <2>1. PICK k \in DOMAIN rows : Acknowledgeable(a, k)
    BY <1>7
  <2>2. /\ k \in DOMAIN entries /\ Completed(k) /\ a = Acknowledgement(k)
        /\ rows[k].ack = NoAck /\ SettledNext(k) /\ rows'[k].ack = a
    BY <1>1, <2>1 DEF Settles
  <2>3. k = L /\ L > 0
    BY <1>4, <2>2, LastOrBefore
  <2>4. ASSUME NEW i \in 1 .. L - 1 PROVE rows'[i] = rows[i]
    <3>1. i \in DOMAIN rows /\ rows[i].ack # NoAck
      BY <1>4, LastOrBefore
    <3> QED BY <3>1, <1>1 DEF Settles
  <2>5. SettledTo(L - 1) /\ L - 1 \in Nat
    BY <1>3, <2>2, <2>3, SettledShape
  <2>6. DecidedTo(L)
    BY <1>3, <2>2, <2>3, DecidedShape
  <2>7. /\ SettledResults \in Seq(Outcomes) /\ Len(SettledResults) = L - 1
        /\ \A i \in 1 .. L - 1 : SettledResults[i] = entries[i].completion.outcome
    BY <2>5, SettledSeq
  <2>8. /\ DecidedResults \in Seq(Outcomes) /\ Len(DecidedResults) = L
        /\ \A i \in 1 .. L : DecidedResults[i] = entries[i].completion.outcome
    BY <2>6, DecidedSeq
  <2>9. \A i \in DOMAIN rows' : SettledNext(i) <=> i \in 1 .. L
    <3>1. \A i \in 1 .. L : SettledNext(i)
      <4>1. \A i \in 1 .. L - 1 : SettledNext(i)
        BY <1>4, <2>4
      <4> HIDE DEF SettledNext
      <4> QED BY <2>2, <2>3, <4>1, LastOrBefore
    <3>2. ASSUME NEW i \in DOMAIN rows', SettledNext(i) PROVE i \in 1 .. L
      <4>1. rows'[i] = rows[i] \/ i \in DOMAIN entries
        BY <1>1, <1>5 DEF Settles
      <4> QED BY <1>4, <1>5, <3>2, <4>1
    <3> QED BY <3>1, <3>2
  <2>10. { i \in DOMAIN rows' : rows'[i].ack # NoAck } = 1 .. L
    BY <1>4, <1>5, <2>9
  <2>11. SettledResults' = [i \in 1 .. L |-> rows'[i].ack.outcome]
    BY <2>10, SettledCountNext
  <2>12. rows'[L].ack.outcome = entries[L].completion.outcome
    BY <2>2, <2>3 DEF Acknowledgement
  <2>13. \A i \in 1 .. L : rows'[i].ack.outcome = entries[i].completion.outcome
    <3>1. ASSUME NEW i \in 1 .. L - 1 PROVE rows'[i].ack.outcome = entries[i].completion.outcome
      <4>1. i \in DOMAIN rows /\ rows[i].ack # NoAck
        BY <1>4, LastOrBefore
      <4> QED BY <4>1, <2>4, Prefixes
    <3> QED BY <2>12, <3>1, LastOrBefore
  <2>14. SettledResults' = [i \in 1 .. L |-> entries[i].completion.outcome]
    BY <2>11, <2>13
  <2>15. SettledResults' = DecidedResults
    BY <2>6, <2>14 DEF DecidedTo
  <2> HIDE DEF SettledResults, DecidedResults
  <2>16. PICK s \in Seq(Outcomes) : s = SettledResults /\ Len(s) = L - 1
    BY <2>7
  <2>17. PICK u \in Seq(Outcomes) : u = DecidedResults /\ Len(u) = L
    BY <2>8
  <2>18. Len(u) = Len(s) + 1 /\ Len(s) + 1 = L /\ Len(s) < Len(u)
    BY <2>3, <2>16, <2>17
  <2>19. \A i \in 1 .. Len(s) : u[i] = s[i]
    BY <2>7, <2>8, <2>16, <2>17, LastOrBefore
  <2>20. u = Append(s, u[Len(s) + 1])
    BY <2>18, <2>19, OneMore
  <2> QED BY <2>15, <2>16, <2>17, <2>18, <2>20
<1> QED BY <1>6, <1>7

\* Nothing is issued, run, decided or settled to begin with
LEMMA SerialStart ==
  ASSUME Init
  PROVE  Serial!Init
<1>0. rows = <<>> /\ entries = <<>> /\ performed = <<>>
  BY DEF Init, MailboxInit, JournalInit
<1>1. 0 \in Nat /\ 1 .. 0 = {} /\ DOMAIN rows = {} /\ DOMAIN entries = {}
  BY <1>0
<1>2. DecidedTo(0) /\ SettledTo(0)
  BY <1>1, DecidedCount, SettledCount
<1>3. DecidedResults = <<>> /\ SettledResults = <<>>
  BY <1>2, <1>1 DEF DecidedTo, SettledTo
<1>4. [i \in DOMAIN rows |-> rows[i].cmd] = <<>>
  BY <1>1
<1> QED BY <1>0, <1>3, <1>4 DEF Serial!Init

\* What a step does to the abstract variables
SerialSame == UNCHANGED <<Issued, performed, DecidedResults, SettledResults>>

\* The steps that are not one of the abstract ones: issued, decided and
\* settled commands stay as they are
LEMMA IssuedStays ==
  ASSUME DeliveryInv, Next, ~ \E d \in Drafts, t \in RecentTimes : Enqueue(d, t)
  PROVE  Issued' = Issued
<1>1. DOMAIN rows' = DOMAIN rows /\ \A i \in DOMAIN rows : rows'[i].cmd = rows[i].cmd
  BY RowsMove
<1> QED BY <1>1 DEF Issued

\* Every step of the channel is a step of SerialDelivery or changes nothing there
LEMMA SerialStep ==
  ASSUME DeliveryInv, EffectsInv, DeliveryInv', Next
  PROVE  \/ Serial!Next
         \/ SerialSame
<1> USE DEF Serial!Next
<1>1. CASE \E d \in Drafts, t \in RecentTimes : Enqueue(d, t)
  <2>1. PICK d \in Drafts, t \in RecentTimes : Enqueue(d, t)
    BY <1>1
  <2>2. Len(rows') # Len(rows)
    BY <2>1, EnqueuedRow, Typed
  <2>3. UNCHANGED <<journalVars, channelVars>>
    BY <2>2, RowsMove
  <2>4. ~CompleteCommand
    <3>1. agent' = agent
      BY <2>3 DEF channelVars
    <3>2. CompleteCommand => agent.pc = "completing" /\ agent'.pc = "deliver"
      BY Typed DEF CompleteCommand, Agents
    <3> QED BY <3>1, <3>2
  <2>5. ~ \E r \in net : HandleAck(r)
    <3>1. ASSUME NEW r \in net, HandleAck(r) PROVE FALSE
      BY <2>3, <3>1 DEF HandleAck, Respond, channelVars
    <3> QED BY <3>1
  <2>6. DecidedResults' = DecidedResults /\ SettledResults' = SettledResults /\ performed' = performed
    BY <2>3, <2>4, <2>5, DecidedStays, SettledStays DEF channelVars
  <2>7. Serial!Issue
    BY <2>1, <2>6, EnqueueIssues DEF Serial!Issue, Issued
  <2> QED BY <2>7
<1>2. CASE CompleteCommand
  <2>1. /\ agent.outcome \in Outcomes /\ (Succeeds(agent.outcome) => HasRun(agent.current))
        /\ DecidedResults' = Append(DecidedResults, agent.outcome)
    BY <1>2, CompleteDecides
  <2>2. agent.pc \in Working /\ UNCHANGED mailboxVars /\ performed' = performed
    BY <1>2 DEF CompleteCommand, Working
  <2>3. rows' = rows
    BY <2>2 DEF mailboxVars
  <2>4. SettledResults' = SettledResults /\ Issued' = Issued
    BY <2>3 DEF SettledResults, Issued
  <2>5. /\ Len(DecidedResults) + 1 = agent.current /\ SettledResults = DecidedResults
        /\ agent.current <= Len(rows)
    BY <2>2, InHandHolds
  <2>6. Serial!InHand
    BY <2>5, IssuedShape DEF Serial!InHand, Serial!Position, Issued
  <2>7. Serial!Decide
    BY <2>1, <2>2, <2>4, <2>5, <2>6 DEF Serial!Decide, Serial!Position, HasRun, Issued
  <2> QED BY <2>7
<1>3. CASE \E r \in net : HandleAck(r)
  <2>1. PICK r \in net : HandleAck(r)
    BY <1>3
  <2>2. performed' = performed /\ entries' = entries
    BY <2>1 DEF HandleAck, Respond, journalVars
  <2>3. DecidedResults' = DecidedResults
    BY <2>2 DEF DecidedResults, Completed
  <2>4. ~ \E d \in Drafts, t \in RecentTimes : Enqueue(d, t)
    <3>1. Len(rows') = Len(rows)
      <4>1. PICK a : SentAck(a) /\ Acknowledge(a)
        BY <2>1 DEF HandleAck, DeliveryInv, NetInv
      <4> QED BY <4>1, AcknowledgeSettles, Split DEF Settles
    <3>2. ASSUME NEW d \in Drafts, NEW t \in RecentTimes, Enqueue(d, t) PROVE FALSE
      BY <3>1, <3>2, EnqueuedRow, Typed
    <3> QED BY <3>2
  <2>5. Issued' = Issued
    BY <2>4, IssuedStays
  <2>6. CASE SettledResults' = SettledResults
    BY <2>2, <2>3, <2>5, <2>6 DEF SerialSame
  <2>7. CASE /\ Len(SettledResults) < Len(DecidedResults)
             /\ SettledResults' = Append(SettledResults, DecidedResults[Len(SettledResults) + 1])
    BY <2>2, <2>3, <2>5, <2>7 DEF Serial!Settle, Issued
  <2> QED BY <2>1, <2>6, <2>7, AckSettles
<1>4. CASE /\ ~ \E d \in Drafts, t \in RecentTimes : Enqueue(d, t)
           /\ ~CompleteCommand
           /\ ~ \E r \in net : HandleAck(r)
  <2>1. /\ Issued' = Issued /\ DecidedResults' = DecidedResults
        /\ SettledResults' = SettledResults
    BY <1>4, IssuedStays, DecidedStays, SettledStays
  <2>2. CASE performed' = performed
    BY <2>1, <2>2 DEF SerialSame
  <2>3. CASE agent.pc = "dispatching" /\ performed' = Append(performed, agent.current)
    <3>1. agent.pc \in Working
      BY <2>3 DEF Working
    <3>2. /\ Len(DecidedResults) + 1 = agent.current /\ SettledResults = DecidedResults
          /\ agent.current <= Len(rows)
      BY <3>1, InHandHolds
    <3>3. Serial!InHand
      BY <3>2, IssuedShape DEF Serial!InHand, Serial!Position, Issued
    <3>4. Serial!Attempt
      BY <2>1, <2>3, <3>2, <3>3 DEF Serial!Attempt, Serial!Position, Issued
    <3> QED BY <3>4
  <2> QED BY <2>2, <2>3, PerformsCurrent
<1> QED BY <1>1, <1>2, <1>3, <1>4

(***************************************************************************)
(* The channel implements SerialDelivery: lease, begin, execute,           *)
(* complete, acknowledge and the redelivery between them amount to issuing *)
(* commands, trying each in turn, deciding it once and telling the caller. *)
(***************************************************************************)
THEOREM SerialRefinement == Spec => DeliversSerially
<1>1. Init => Serial!Init
  BY SerialStart
<1>2. DeliveryInv /\ EffectsInv /\ DeliveryInv' /\ [Next]_vars => [Serial!Next]_(Serial!serialVars)
  <2>1. ASSUME DeliveryInv, EffectsInv, DeliveryInv', Next
        PROVE  [Serial!Next]_(Serial!serialVars)
    <3>1. SerialSame => UNCHANGED Serial!serialVars
      BY DEF SerialSame, Serial!serialVars, Issued
    <3> QED BY <2>1, <3>1, SerialStep
  <2>2. ASSUME UNCHANGED vars PROVE UNCHANGED Serial!serialVars
    BY <2>2 DEF vars, mailboxVars, journalVars, channelVars, Serial!serialVars, DecidedResults,
      SettledResults, Completed
  <2> QED BY <2>1, <2>2
<1>3. ChannelInv => DeliveryInv /\ EffectsInv
  BY DEF ChannelInv, OrderInv
<1> QED BY <1>1, <1>2, <1>3, ChannelInvariance, PTL DEF Spec, DeliversSerially, Serial!Spec
=============================================================================
