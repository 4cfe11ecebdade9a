----------------------- MODULE GatewayRollout_proofs -----------------------
(***************************************************************************)
(* What a scope's Gateways and Edge's picture of them keep for ever: an    *)
(* inductive invariant of GatewayRollout, and from it InstalledIsPhysical, *)
(* FailedSnapshotIsGone and RollbackIsInformed for any number of members,  *)
(* rollouts and faults.                                                    *)
(***************************************************************************)
EXTENDS GatewayRollout, TLAPS, FiniteSetTheorems, SequenceTheorems

-----------------------------------------------------------------------------
(* The inductive invariant.                                                *)

\* Every rollout is the next revision of every member; only the last one
\* awaits answers, and only a silent member is to be recovered.
ReplicaOK(r, n) ==
    LET p == At(r, n) IN
    /\ p.revision = r /\ p.expected < r
    /\ p.state = "pending" => r = Len(rollouts)
    /\ p.recovery # "none" <=> p.state = "unavailable"
    /\ p.state = "unavailable" => Install(r, n) \in expired

ScopeOK(n) == scopes[n].last = Len(rollouts) /\ scopes[n].installed <= Len(rollouts)

\* An installation comes after all commands of the rollouts before it, and
\* before any observation of its own.
MailboxOK(n) ==
    /\ settled[n] <= Len(mailbox[n])
    /\ \A i \in 1..Len(mailbox[n]) :
          LET c == mailbox[n][i] IN
          /\ c.node = n /\ c.rollout \in 1..Len(rollouts)
          /\ c.kind = "install" => c = Install(c.rollout, n)
          /\ c.kind = "observe" => At(c.rollout, n).state = "unavailable"
    /\ \A i, j \in 1..Len(mailbox[n]) :
          i < j /\ mailbox[n][j].kind = "install" =>
              mailbox[n][i].rollout < mailbox[n][j].rollout

\* What the Gateway runs while a snapshot is installed over `expected`.
Installing(n, r, expected) ==
    \/ gateways[n].applied = expected /\ gateways[n].applying \in {0, r}
    \/ gateways[n].applied = r /\ gateways[n].applying = 0

\* The agent's result tells what the Gateway did.
AgentOK(n) ==
    LET a == agents[n]
        done == a.phase \in {"delivering", "settling"}
    IN
    /\ a.phase # "idle" => HasCommand(n)
    /\ a.phase = "applying" =>
          /\ NextCommand(n).kind = "install"
          /\ Installing(n, NextCommand(n).rollout, Candidate(n).expected)
    /\ a.phase = "settling" => IsGatewayAck(n)
    /\ done => a.result # "none"
    /\ done /\ a.result = "applied" =>
          gateways[n].applied = NextCommand(n).rollout /\ gateways[n].applying = 0
    /\ done /\ a.result = "rejected" =>
          gateways[n].applied # NextCommand(n).rollout /\ gateways[n].applying = 0
    /\ done /\ a.result = "observed" /\ NextCommand(n).rollout = Len(rollouts) =>
          /\ NextCommand(n).kind = "observe"
          /\ gateways[n].applied = a.applied /\ gateways[n].applying = 0

\* The node is through with an installation that was answered.
Answers(r, n) ==
    \E i \in 1..Len(mailbox[n]) :
        /\ mailbox[n][i] = Install(r, n)
        /\ \/ i <= settled[n]
           \/ i = settled[n] + 1 /\ agents[n].phase \in {"delivering", "settling"}

\* Once a member has applied a snapshot it never runs an older one.
AnswerOK(r, n) ==
    /\ At(r, n).state \in {"applied", "rejected"} => Answers(r, n)
    /\ At(r, n).state = "applied" =>
          /\ gateways[n].applied >= r
          /\ gateways[n].applying = 0 \/ gateways[n].applying > r

\* An observation of the last rollout tells what the Gateway still runs.
OutcomesOK ==
    \A o \in outcomes :
        /\ o.command.kind = "observe" /\ o.command.rollout \in 1..Len(rollouts)
        /\ At(o.command.rollout, o.command.node).state = "unavailable"
        /\ o.result = "observed" /\ o.command.rollout = Len(rollouts) =>
              /\ gateways[o.command.node].applied = o.applied
              /\ gateways[o.command.node].applying = 0

\* A rollback that succeeded was applied by every member; while one is
\* unresolved nothing else is staged.
RollbackOK ==
    /\ \A k \in 1..Len(rollouts) : rollouts[k].of < k
    /\ \A f, g \in 1..Len(rollouts) :
          f < g /\ rollouts[g].of = 0 => rollbacks[f] \in {"none", "succeeded"}
    /\ \A k \in 1..Len(rollouts), n \in Nodes :
          rollouts[k].of # 0 /\ At(k, n).state = "pending" =>
              rollbacks[rollouts[k].of] = "staged"
    /\ \A f \in 1..MaxRollouts :
          rollbacks[f] = "succeeded" =>
              \E k \in 1..Len(rollouts) :
                  rollouts[k].of = f /\ \A n \in Nodes : At(k, n).state = "applied"
    /\ \A f \in 1..MaxRollouts : rollbacks[f] = "required" => f = Len(rollouts)

\* Edge's picture of a member that never overlapped.
PhysicalOK(n) ==
    n \notin overlapped =>
      /\ \A r \in 1..Len(rollouts) :
            r < Len(rollouts) => At(r, n).recovery \notin {"required", "observing"}
      /\ ~Diverged(n) =>
            /\ \A r \in 1..Len(rollouts) :
                  At(r, n).state = "pending" =>
                      /\ At(r, n).expected = scopes[n].installed
                      /\ Installing(n, r, scopes[n].installed)
            /\ ~InDoubt(n) => /\ gateways[n].applied = scopes[n].installed
                              /\ gateways[n].applying = 0

RolloutInv ==
    /\ TypeOK
    /\ \A r \in 1..Len(rollouts), n \in Nodes : ReplicaOK(r, n) /\ AnswerOK(r, n)
    /\ \A n \in Nodes : ScopeOK(n) /\ MailboxOK(n) /\ AgentOK(n) /\ PhysicalOK(n)
    /\ OutcomesOK
    /\ RollbackOK

-----------------------------------------------------------------------------
(* Replicas and their changes.                                             *)

\* A member's replica in a rollout, its revisions and the rollout's number have their types
LEMMA AtType ==
    ASSUME TypeOK, NEW r \in 1..Len(rollouts), NEW n \in Nodes
    PROVE  /\ rollouts[r] \in Rollout /\ At(r, n) \in Replica
           /\ At(r, n).revision \in Nat /\ At(r, n).expected \in Nat
           /\ r \in Nat /\ r >= 1 /\ r <= MaxRollouts /\ Len(rollouts) \in Nat
           /\ DOMAIN rollouts = 1..Len(rollouts)
<1>1. rollouts \in Seq(Rollout) /\ Len(rollouts) <= MaxRollouts /\ MaxRollouts \in Nat
  BY GatewayRolloutAssumption DEF TypeOK
<1>2. rollouts[r] \in Rollout
  BY <1>1
<1>3. At(r, n) \in Replica
  BY <1>2 DEF At, Rollout
<1>4. r \in Nat /\ r >= 1 /\ Len(rollouts) \in Nat /\ r <= Len(rollouts)
      /\ DOMAIN rollouts = 1..Len(rollouts)
  BY <1>1
<1>5. r <= MaxRollouts
  BY <1>1, <1>4
<1> QED
  BY <1>1, <1>2, <1>3, <1>4, <1>5 DEF Replica

\* A rollout is ordinary (of = 0) or the rollback of another one
LEMMA OfType ==
    ASSUME TypeOK, NEW k \in 1..Len(rollouts)
    PROVE  /\ rollouts[k].of \in 0..MaxRollouts
           /\ rollouts[k].of # 0 => rollouts[k].of \in 1..MaxRollouts
<1>1. rollouts \in Seq(Rollout)
  BY DEF TypeOK
<1>2. rollouts[k] \in Rollout
  BY <1>1
<1>3. rollouts[k].of \in 0..MaxRollouts
  BY <1>2 DEF Rollout
<1> QED
  BY <1>3, GatewayRolloutAssumption

\* The replica of rollout r on node n becomes p; all others stay.
ReplicaMoves(r, n, p) ==
    /\ rollouts' \in Seq(Rollout) /\ Len(rollouts') = Len(rollouts)
    /\ \A k \in 1..Len(rollouts) : rollouts'[k].of = rollouts[k].of
    /\ \A k \in 1..Len(rollouts), m \in Nodes :
          At(k, m)' = IF k = r /\ m = n THEN p ELSE At(k, m)
    /\ p.revision = At(r, n).revision /\ p.expected = At(r, n).expected

\* Replacing one replica of one rollout, revisions kept, changes nothing else of Edge's tables
LEMMA ReplicaUpdate ==
    ASSUME TypeOK, NEW r \in 1..Len(rollouts), NEW n \in Nodes, NEW p \in Replica,
           NEW q, q.of = rollouts[r].of, q \in Rollout,
           q.replicas = [rollouts[r].replicas EXCEPT ![n] = p],
           rollouts' = [rollouts EXCEPT ![r] = q],
           p.revision = At(r, n).revision, p.expected = At(r, n).expected
    PROVE  ReplicaMoves(r, n, p)
<1>1. rollouts \in Seq(Rollout) /\ Len(rollouts) \in Nat
  BY DEF TypeOK
<1>2. rollouts' \in Seq(Rollout) /\ Len(rollouts') = Len(rollouts)
  BY <1>1
<1>3. \A k \in 1..Len(rollouts) : rollouts'[k] = IF k = r THEN q ELSE rollouts[k]
  BY <1>1
<1>4. \A k \in 1..Len(rollouts) : rollouts[k] \in Rollout
  BY <1>1
<1>5. ASSUME NEW k \in 1..Len(rollouts), NEW m \in Nodes
      PROVE  At(k, m)' = IF k = r /\ m = n THEN p ELSE At(k, m)
  <2>1. CASE k = r
    <3>1. rollouts[r].replicas \in [Nodes -> Replica]
      BY <1>4 DEF Rollout
    <3>2. q.replicas[m] = IF m = n THEN p ELSE rollouts[r].replicas[m]
      BY <3>1
    <3> QED
      BY <1>3, <2>1, <3>2 DEF At
  <2>2. CASE k # r
    BY <1>3, <2>2 DEF At
  <2> QED
    BY <2>1, <2>2
<1> QED
  BY <1>2, <1>3, <1>5 DEF ReplicaMoves

\* A write that only moves a replica's recovery is such a change
LEMMA RecoveringMoves ==
    ASSUME TypeOK, NEW r \in 1..Len(rollouts), NEW n \in Nodes,
           NEW state \in RecoveryStates, Recovering(r, n, state)
    PROVE  \E p \in Replica : /\ ReplicaMoves(r, n, p)
                              /\ p.state = At(r, n).state /\ p.recovery = state
                              /\ p.attempt = At(r, n).attempt
<1> DEFINE old == At(r, n)
           p == [old EXCEPT !.recovery = state]
           q == [rollouts[r] EXCEPT !.replicas = [rollouts[r].replicas EXCEPT ![n] = p]]
<1>1. rollouts[r] \in Rollout /\ old \in Replica
  BY AtType
<1>2. /\ p \in Replica /\ p.state = old.state /\ p.recovery = state
      /\ p.revision = old.revision /\ p.expected = old.expected /\ p.attempt = old.attempt
  BY <1>1 DEF Replica
<1>3. rollouts' = [rollouts EXCEPT ![r] = q]
  BY DEF Recovering, At
<1> HIDE DEF p, old
<1>4. /\ q.of = rollouts[r].of /\ q \in Rollout
      /\ q.replicas = [rollouts[r].replicas EXCEPT ![n] = p]
  BY <1>1, <1>2 DEF Rollout
<1> HIDE DEF q
<1>5. ReplicaMoves(r, n, p)
  BY <1>2, <1>3, <1>4, ReplicaUpdate DEF old
<1> QED
  BY <1>2, <1>5 DEF old

\* ... and so is staging an observation, which leaves the replica's state alone
LEMMA StageObservationMoves ==
    ASSUME TypeOK, NEW r \in 1..Len(rollouts), NEW n \in Nodes, StageObservation(r, n)
    PROVE  \E p \in Replica : /\ ReplicaMoves(r, n, p)
                              /\ p.state = At(r, n).state /\ p.recovery = "observing"
<1> DEFINE old == At(r, n)
           p == [old EXCEPT !.recovery = "observing", !.attempt = old.attempt + 1]
           q == [rollouts[r] EXCEPT !.replicas = [rollouts[r].replicas EXCEPT ![n] = p]]
<1>1. rollouts[r] \in Rollout /\ old \in Replica
  BY AtType
<1>2. /\ p \in Replica /\ p.state = old.state /\ p.recovery = "observing"
      /\ p.revision = old.revision /\ p.expected = old.expected
  <2>1. old.attempt \in Nat /\ old.attempt + 1 \in Nat /\ "observing" \in RecoveryStates
    BY <1>1 DEF Replica, RecoveryStates
  <2> QED
    BY <1>1, <2>1 DEF Replica
<1>3. rollouts' = [rollouts EXCEPT ![r] = q]
  BY DEF StageObservation, At
<1> HIDE DEF p, old
<1>4. /\ q.of = rollouts[r].of /\ q \in Rollout
      /\ q.replicas = [rollouts[r].replicas EXCEPT ![n] = p]
  BY <1>1, <1>2 DEF Rollout
<1> HIDE DEF q
<1>5. ReplicaMoves(r, n, p)
  BY <1>2, <1>3, <1>4, ReplicaUpdate DEF old
<1> QED
  BY <1>2, <1>5 DEF old

\* ... and an answer, after which the rollback of the rollout is judged again
LEMMA AnsweredMoves ==
    ASSUME TypeOK, NEW r \in 1..Len(rollouts), NEW n \in Nodes,
           NEW state \in ReplicaStates, NEW recovery \in RecoveryStates,
           Answered(r, n, state, recovery)
    PROVE  \E p \in Replica : /\ ReplicaMoves(r, n, p)
                              /\ p.state = state /\ p.recovery = recovery
                              /\ rollbacks' = RollbacksAfter(r, rollouts'[r])
<1> DEFINE old == At(r, n)
           p == [old EXCEPT !.state = state, !.recovery = recovery]
           q == [rollouts[r] EXCEPT !.replicas[n].state = state,
                                    !.replicas[n].recovery = recovery]
<1>1. rollouts[r] \in Rollout /\ old \in Replica /\ rollouts \in Seq(Rollout)
  BY AtType DEF TypeOK
<1>2. /\ p \in Replica /\ p.state = state /\ p.recovery = recovery
      /\ p.revision = old.revision /\ p.expected = old.expected
  BY <1>1 DEF Replica
<1>3. rollouts' = [rollouts EXCEPT ![r] = q] /\ rollbacks' = RollbacksAfter(r, q)
  BY DEF Answered
<1>4. q.of = rollouts[r].of /\ q.replicas = [rollouts[r].replicas EXCEPT ![n] = p]
  BY <1>1 DEF Rollout, Replica, At
<1> HIDE DEF p, old
<1>5. q \in Rollout
  <2>1. q.replicas \in [Nodes -> Replica]
    BY <1>1, <1>2, <1>4, SMTT(20) DEF Rollout
  <2> QED
    BY <1>1, <2>1, <1>4 DEF Rollout
<1> HIDE DEF q
<1>6. ReplicaMoves(r, n, p)
  BY <1>2, <1>3, <1>4, <1>5, ReplicaUpdate DEF old
<1>7. rollouts'[r] = q
  BY <1>1, <1>3
<1> QED
  BY <1>2, <1>3, <1>6, <1>7 DEF old

\* A rollout that is terminal awaits no answer, and one that succeeded was
\* applied by every member.
LEMMA TerminalStates ==
    ASSUME NEW q
    PROVE  /\ Terminal(q) => \A n \in Nodes : q.replicas[n].state # "pending"
           /\ RolloutState(q) = "succeeded" => \A n \in Nodes : q.replicas[n].state = "applied"
<1> DEFINE In(states) == {n \in Nodes : q.replicas[n].state \in states}
<1>1. IsFiniteSet(Nodes) /\ Cardinality(Nodes) \in Nat
  BY GatewayRolloutAssumption, FS_CardinalityType
<1>2. \A states : /\ CountIn(q.replicas, states) = Cardinality(In(states))
                  /\ IsFiniteSet(In(states)) /\ In(states) \subseteq Nodes
                  /\ Cardinality(In(states)) \in Nat
  BY <1>1, FS_Subset, FS_CardinalityType DEF CountIn
<1>3. ASSUME NEW n \in Nodes, q.replicas[n].state = "pending"
      PROVE  CountIn(q.replicas, {"pending"}) > 0
  <2>1. n \in In({"pending"})
    BY <1>3
  <2>2. Cardinality(In({"pending"})) # 0
    BY <1>2, <2>1, FS_EmptySet
  <2> QED
    BY <1>2, <2>2
<1>9. ASSUME CountIn(q.replicas, {"pending"}) > 0
      PROVE  CountIn(q.replicas, {"applied"}) # Cardinality(Nodes)
  <2>1. In({"pending"}) # {}
    BY <1>2, <1>9, FS_EmptySet
  <2>2. In({"applied"}) # Nodes
    BY <2>1
  <2> QED
    BY <1>1, <1>2, <2>2, FS_Subset
<1>4. CountIn(q.replicas, {"pending"}) > 0 => RolloutState(q) \in {"ready", "pending"}
  BY <1>9 DEF RolloutState
<1>5. Terminal(q) => \A n \in Nodes : q.replicas[n].state # "pending"
  BY <1>3, <1>4 DEF Terminal
<1>6. ASSUME RolloutState(q) = "succeeded"
      PROVE  CountIn(q.replicas, {"applied"}) = Cardinality(Nodes)
  <2>1. ~(CountIn(q.replicas, {"pending"}) > 0)
    BY <1>4, <1>6
  <2>2. CountIn(q.replicas, {"applied"}) # Cardinality(Nodes) => RolloutState(q) = "degraded"
    BY <2>1 DEF RolloutState
  <2> QED
    BY <1>6, <2>2
<1>7. ASSUME RolloutState(q) = "succeeded" PROVE In({"applied"}) = Nodes
  <2>1. Cardinality(In({"applied"})) = Cardinality(Nodes)
    BY <1>2, <1>6, <1>7
  <2> QED
    BY <1>1, <1>2, <2>1, FS_Subset
<1>8. RolloutState(q) = "succeeded" => \A n \in Nodes : q.replicas[n].state = "applied"
  BY <1>7
<1> QED
  BY <1>5, <1>8

\* Where staging is admitted no member still awaits an answer
LEMMA NoActiveRollout ==
    ASSUME TypeOK, ScopeHasNoActiveRollout
    PROVE  \A r \in 1..Len(rollouts), n \in Nodes : At(r, n).state # "pending"
<1>1. DOMAIN rollouts = 1..Len(rollouts)
  BY DEF TypeOK
<1> QED
  BY <1>1, TerminalStates DEF ScopeHasNoActiveRollout, At

-----------------------------------------------------------------------------
(* Steps on a node.                                                        *)

SameNode(m) ==
    /\ agents'[m] = agents[m] /\ gateways'[m] = gateways[m]
    /\ mailbox'[m] = mailbox[m] /\ settled'[m] = settled[m]
    /\ scopes'[m] = scopes[m]

\* What is said of a member lasts while its node and the rollouts stay the same
LEMMA NodeFrame ==
    ASSUME NEW m \in Nodes, SameNode(m), UNCHANGED <<rollouts, overlapped>>
    PROVE  /\ MailboxOK(m) => MailboxOK(m)'
           /\ AgentOK(m) => AgentOK(m)'
           /\ PhysicalOK(m) => PhysicalOK(m)'
           /\ \A r : AnswerOK(r, m) => AnswerOK(r, m)'
<1> USE DEF SameNode, At
<1>1. MailboxOK(m) => MailboxOK(m)'
  BY DEF MailboxOK
<1>3. AgentOK(m) => AgentOK(m)'
  BY DEF AgentOK, Installing, HasCommand, NextCommand, Candidate, IsGatewayAck
<1>4. PhysicalOK(m) => PhysicalOK(m)'
  BY DEF PhysicalOK, Installing, Diverged, InDoubt
<1>5. \A r : AnswerOK(r, m) => AnswerOK(r, m)'
  BY DEF AnswerOK, Answers
<1> QED
  BY <1>1, <1>3, <1>4, <1>5

\* A step of one node leaves what Edge has decided alone.
LEMMA NodeStep ==
    ASSUME RolloutInv, NEW n \in Nodes,
           UNCHANGED <<rollouts, rollbacks, scopes, mailbox, expired, overlapped>>,
           TypeOK', \A m \in Nodes \ {n} : SameNode(m),
           settled'[n] <= Len(mailbox[n]),
           AgentOK(n)', \A r \in 1..Len(rollouts) : AnswerOK(r, n)',
           PhysicalOK(n)', OutcomesOK'
    PROVE  RolloutInv'
<1>1. ASSUME NEW r \in 1..Len(rollouts'), NEW m \in Nodes PROVE ReplicaOK(r, m)' /\ AnswerOK(r, m)'
  <2>1. r \in 1..Len(rollouts) /\ ReplicaOK(r, m) /\ AnswerOK(r, m)
    BY DEF RolloutInv
  <2>2. ReplicaOK(r, m)'
    BY <2>1 DEF ReplicaOK, At
  <2>3. AnswerOK(r, m)'
    BY <2>1, NodeFrame
  <2> QED
    BY <2>2, <2>3
<1>2. ASSUME NEW m \in Nodes PROVE ScopeOK(m)' /\ MailboxOK(m)' /\ AgentOK(m)' /\ PhysicalOK(m)'
  <2>1. ScopeOK(m)'
    BY DEF RolloutInv, ScopeOK
  <2>2. CASE m = n
    <3>1. MailboxOK(n)'
      BY DEF RolloutInv, MailboxOK, At
    <3> QED
      BY <2>1, <2>2, <3>1
  <2>3. CASE m # n
    BY <2>1, <2>3, NodeFrame DEF RolloutInv
  <2> QED
    BY <2>2, <2>3
<1>3. RollbackOK'
  BY DEF RolloutInv, RollbackOK, At
<1> QED
  BY <1>1, <1>2, <1>3 DEF RolloutInv

\* Agent, mailbox, Gateway and scope of a member have their types
LEMMA NodeTypes ==
    ASSUME TypeOK, NEW n \in Nodes
    PROVE  /\ agents[n] \in Agent /\ settled[n] \in Nat /\ mailbox[n] \in Seq(Command)
           /\ Len(mailbox[n]) \in Nat
           /\ gateways[n] \in [applied : 0..MaxRollouts, applying : 0..MaxRollouts]
           /\ gateways[n].applied \in Nat /\ gateways[n].applying \in Nat
           /\ scopes[n] \in [last : 0..MaxRollouts, installed : 0..MaxRollouts]
           /\ scopes[n].installed \in Nat
           /\ rollouts \in Seq(Rollout) /\ Len(rollouts) \in Nat /\ MaxRollouts \in Nat
           /\ DOMAIN rollouts = 1..Len(rollouts)
<1>1. /\ agents[n] \in Agent /\ settled[n] \in Nat /\ mailbox[n] \in Seq(Command)
      /\ gateways[n] \in [applied : 0..MaxRollouts, applying : 0..MaxRollouts]
      /\ scopes[n] \in [last : 0..MaxRollouts, installed : 0..MaxRollouts]
      /\ rollouts \in Seq(Rollout)
  BY DEF TypeOK
<1>2. MaxRollouts \in Nat
  BY GatewayRolloutAssumption
<1> QED
  BY <1>1, <1>2

\* The command a node is at.
LEMMA NextFacts ==
    ASSUME RolloutInv, NEW n \in Nodes, HasCommand(n)
    PROVE  LET c == NextCommand(n) IN
           /\ settled[n] + 1 \in 1..Len(mailbox[n])
           /\ c \in Command /\ c.node = n /\ c.rollout \in 1..Len(rollouts)
           /\ c.kind \in {"install", "observe"}
           /\ c.kind = "install" => c = Install(c.rollout, n)
           /\ c.kind = "observe" => At(c.rollout, n).state = "unavailable"
           /\ Candidate(n) = At(c.rollout, n)
           /\ Candidate(n).revision = c.rollout /\ Candidate(n).expected < c.rollout
           /\ Candidate(n).expected \in Nat
<1> DEFINE c == NextCommand(n)
<1>1. TypeOK /\ MailboxOK(n)
  BY DEF RolloutInv
<1>2. /\ settled[n] \in Nat /\ mailbox[n] \in Seq(Command) /\ Len(mailbox[n]) \in Nat
  BY <1>1, NodeTypes
<1>3. settled[n] + 1 \in 1..Len(mailbox[n])
  BY <1>2 DEF HasCommand
<1>4. c \in Command
  BY <1>2, <1>3 DEF NextCommand
<1>5. /\ c.node = n /\ c.rollout \in 1..Len(rollouts)
      /\ c.kind = "install" => c = Install(c.rollout, n)
      /\ c.kind = "observe" => At(c.rollout, n).state = "unavailable"
  BY <1>1, <1>3 DEF MailboxOK, NextCommand
<1>6. c.kind \in {"install", "observe"}
  BY <1>4 DEF Command
<1>7. Candidate(n) = At(c.rollout, n)
  BY DEF Candidate
<1> HIDE DEF c
<1>8. ReplicaOK(c.rollout, n)
  BY <1>5 DEF RolloutInv
<1>9. Candidate(n).revision = c.rollout /\ Candidate(n).expected < c.rollout
      /\ Candidate(n).expected \in Nat
  BY <1>1, <1>5, <1>7, <1>8, AtType DEF ReplicaOK
<1> QED
  BY <1>3, <1>4, <1>5, <1>6, <1>7, <1>9 DEF c

\* The agent decides the outcome of a command.
LEMMA CompleteStep ==
    ASSUME RolloutInv, NEW n \in Nodes, NEW result \in Results, NEW applied \in 0..MaxRollouts,
           Complete(n, result, applied), agents[n].phase \in {"idle", "applying"},
           HasCommand(n),
           UNCHANGED <<required, rollouts, rollbacks, scopes, gateways, mailbox, settled,
                       outcomes, expired, overlapped>>,
           faults' \in 0..MaxFaults,
           result = "applied" =>
               gateways[n].applied = NextCommand(n).rollout /\ gateways[n].applying = 0,
           result = "rejected" =>
               gateways[n].applied # NextCommand(n).rollout /\ gateways[n].applying = 0,
           result = "observed" =>
               /\ NextCommand(n).kind = "observe"
               /\ gateways[n].applied = applied /\ gateways[n].applying = 0
    PROVE  RolloutInv'
<1> DEFINE final == IF NextCommand(n) \in expired /\ result # "refused" THEN "failed" ELSE result
           new == [phase |-> "delivering", result |-> final, applied |-> applied]
<1>1. TypeOK /\ agents \in [Nodes -> Agent]
  BY DEF RolloutInv, TypeOK
<1>2. agents' = [agents EXCEPT ![n] = new]
  BY DEF Complete
<1>3. final \in Results /\ final \in {result, "failed"}
  BY DEF Results
<1> HIDE DEF final
<1>4. new \in Agent /\ new.phase = "delivering" /\ new.result = final /\ new.applied = applied
  BY <1>3 DEF Agent
<1> HIDE DEF new
<1>5. /\ agents'[n] = new /\ \A m \in Nodes \ {n} : agents'[m] = agents[m]
      /\ agents' \in [Nodes -> Agent]
  BY <1>1, <1>2, <1>4
<1>6. TypeOK'
  BY <1>1, <1>5 DEF TypeOK
<1>7. \A m \in Nodes \ {n} : SameNode(m)
  BY <1>5 DEF SameNode
<1>8. settled'[n] <= Len(mailbox[n])
  BY DEF RolloutInv, MailboxOK
<1>9. HasCommand(n)' /\ NextCommand(n)' = NextCommand(n)
  BY DEF HasCommand, NextCommand
<1>10. AgentOK(n)'
  BY <1>3, <1>4, <1>5, <1>9 DEF AgentOK, Results
<1>11. ASSUME NEW r \in 1..Len(rollouts) PROVE AnswerOK(r, n)'
  <2>1. AnswerOK(r, n)
    BY DEF RolloutInv
  <2>2. Answers(r, n) => Answers(r, n)'
    BY <1>4, <1>5 DEF Answers
  <2> QED
    BY <2>1, <2>2 DEF AnswerOK, At
<1>12. PhysicalOK(n)'
  BY DEF RolloutInv, PhysicalOK, Installing, Diverged, InDoubt, At
<1>13. OutcomesOK'
  BY DEF RolloutInv, OutcomesOK, At
<1> QED
  BY <1>6, <1>7, <1>8, <1>10, <1>11, <1>12, <1>13, NodeStep

\* A fault is counted within its bound
LEMMA FaultType ==
    ASSUME TypeOK, Fault PROVE faults' \in 0..MaxFaults
<1>1. MaxFaults \in Nat /\ faults \in 0..MaxFaults
  BY GatewayRolloutAssumption DEF TypeOK
<1> QED
  BY <1>1 DEF Fault

\* Only an installation that is still awaited is begun.
LEMMA OnlyPendingBegins ==
    ASSUME RolloutInv, NEW n \in Nodes, agents[n].phase = "idle", HasCommand(n),
           NextCommand(n).kind = "install", NextCommand(n) \notin expired
    PROVE  /\ At(NextCommand(n).rollout, n).state = "pending"
           /\ NextCommand(n).rollout = Len(rollouts)
           /\ \A r \in 1..Len(rollouts) :
                 At(r, n).state = "applied" => r < NextCommand(n).rollout
<1> DEFINE c == NextCommand(n)
           next == settled[n] + 1
<1>1. /\ next \in 1..Len(mailbox[n]) /\ c.rollout \in 1..Len(rollouts)
      /\ c = Install(c.rollout, n) /\ c = mailbox[n][next]
  BY NextFacts DEF NextCommand
<1>2. TypeOK /\ MailboxOK(n) /\ settled[n] \in Nat /\ Len(mailbox[n]) \in Nat
      /\ Len(rollouts) \in Nat
  BY NodeTypes DEF RolloutInv
<1> HIDE DEF c
<1>3. ASSUME NEW r \in 1..Len(rollouts), At(r, n).state \in {"applied", "rejected"}
      PROVE  r < c.rollout
  <2>1. AnswerOK(r, n)
    BY DEF RolloutInv
  <2>2. PICK i \in 1..Len(mailbox[n]) :
           /\ mailbox[n][i] = Install(r, n)
           /\ \/ i <= settled[n]
              \/ i = settled[n] + 1 /\ agents[n].phase \in {"delivering", "settling"}
    BY <1>3, <2>1 DEF AnswerOK, Answers
  <2>3. i < next
    BY <1>2, <2>2
  <2>4. mailbox[n][i].rollout < mailbox[n][next].rollout
    BY <1>1, <1>2, <2>3 DEF MailboxOK, c
  <2>5. Install(r, n).rollout = r
    BY DEF Install
  <2> QED
    BY <1>1, <2>2, <2>4, <2>5
<1>4. ReplicaOK(c.rollout, n) /\ At(c.rollout, n) \in Replica
  BY <1>1, <1>2, AtType DEF RolloutInv
<1>5. At(c.rollout, n).state # "unavailable"
  BY <1>1, <1>4 DEF ReplicaOK, c
<1>6. At(c.rollout, n).state \notin {"applied", "rejected"}
  BY <1>1, <1>2, <1>3
<1>7. At(c.rollout, n).state = "pending"
  BY <1>4, <1>5, <1>6 DEF Replica, ReplicaStates
<1> QED
  BY <1>3, <1>4, <1>7 DEF ReplicaOK, c

\* The agent rejects a command past its deadline (executor.rs): the Gateway is not touched
LEMMA RefuseExpiredStep ==
    ASSUME RolloutInv, NEW n \in Nodes, RefuseExpired(n) PROVE RolloutInv'
<1>1. "refused" \in Results /\ 0 \in 0..MaxRollouts /\ faults' \in 0..MaxFaults
  BY GatewayRolloutAssumption DEF Results, RefuseExpired, RolloutInv, TypeOK
<1> QED
  BY <1>1, CompleteStep DEF RefuseExpired, OnNode

\* The management API does not answer in time or as agreed: the failure says nothing of
\* what runs
LEMMA GiveUpStep ==
    ASSUME RolloutInv, NEW n \in Nodes, GiveUp(n) PROVE RolloutInv'
<1>1. {"failed", "refused"} \subseteq Results /\ 0 \in 0..MaxRollouts /\ faults' \in 0..MaxFaults
  BY GatewayRolloutAssumption, FaultType DEF Results, GiveUp, RolloutInv
<1>2. HasCommand(n) /\ agents[n].phase \in {"idle", "applying"}
  BY DEF GiveUp, RolloutInv, AgentOK
<1>3. PICK result \in {"failed", "refused"} : Complete(n, result, 0)
  BY DEF GiveUp
<1> QED
  BY <1>1, <1>2, <1>3, CompleteStep DEF GiveUp, OnNode

\* The agent confirms an installation from the Gateway's status, so its result is what runs
LEMMA ConfirmInstallStep ==
    ASSUME RolloutInv, NEW n \in Nodes, ConfirmInstall(n) PROVE RolloutInv'
<1> DEFINE c == NextCommand(n)
<1>1. /\ agents[n].phase = "applying" /\ HasCommand(n) /\ AgentOK(n)
      /\ gateways[n].applying = 0 /\ UNCHANGED gateways
  BY DEF ConfirmInstall, RolloutInv, AgentOK
<1>2. /\ c.rollout \in 1..Len(rollouts) /\ Candidate(n).revision = c.rollout
      /\ Candidate(n).expected < c.rollout /\ Candidate(n).expected \in Nat
  BY <1>1, NextFacts
<1>3. c.rollout \in 0..MaxRollouts /\ c.rollout \in Nat /\ 0 \in 0..MaxRollouts
  BY <1>2, GatewayRolloutAssumption DEF RolloutInv, TypeOK
<1>4. gateways[n].applied \in {Candidate(n).expected, c.rollout}
  BY <1>1 DEF AgentOK, Installing
<1>5. /\ faults' \in 0..MaxFaults
      /\ UNCHANGED <<required, rollouts, rollbacks, scopes, gateways, mailbox, settled,
                     outcomes, expired, overlapped>>
  BY DEF ConfirmInstall, OnNode, RolloutInv, TypeOK
<1>6. "applied" \in Results /\ "rejected" \in Results
  BY DEF Results
<1>7. CASE gateways[n].applied # Candidate(n).expected
           /\ Complete(n, "applied", Candidate(n).revision)
  BY <1>1, <1>2, <1>3, <1>4, <1>5, <1>6, <1>7, CompleteStep
<1>8. CASE gateways[n].applied = Candidate(n).expected /\ Complete(n, "rejected", 0)
  BY <1>1, <1>2, <1>3, <1>4, <1>5, <1>6, <1>8, CompleteStep
<1> QED
  BY <1>7, <1>8 DEF ConfirmInstall

\* The agent reads the Gateway's revision, which is then the result of the observation
LEMMA ObserveGatewayStep ==
    ASSUME RolloutInv, NEW n \in Nodes, ObserveGateway(n) PROVE RolloutInv'
<1>1. /\ agents[n].phase = "idle" /\ HasCommand(n) /\ NextCommand(n).kind = "observe"
      /\ UNCHANGED <<required, rollouts, rollbacks, scopes, gateways, mailbox, settled,
                     outcomes, expired, overlapped>>
  BY DEF ObserveGateway, OnNode
<1>2. gateways[n].applied \in 0..MaxRollouts /\ 0 \in 0..MaxRollouts
  BY NodeTypes DEF RolloutInv
<1>3. "observed" \in Results /\ "applying" \in Results
  BY DEF Results
<1>4. faults' \in 0..MaxFaults
  BY FaultType DEF ObserveGateway, RolloutInv, TypeOK
<1>5. CASE gateways[n].applying = 0 /\ Complete(n, "observed", gateways[n].applied)
  BY <1>1, <1>2, <1>3, <1>4, <1>5, CompleteStep
<1>6. CASE Complete(n, "applying", 0)
  BY <1>1, <1>2, <1>3, <1>4, <1>6, CompleteStep
<1> QED
  BY <1>5, <1>6 DEF ObserveGateway

\* The Gateway takes the snapshot to apply it.
LEMMA BeginInstallStep ==
    ASSUME RolloutInv, NEW n \in Nodes, BeginInstall(n) PROVE RolloutInv'
<1> DEFINE c == NextCommand(n)
<1>1. /\ agents[n].phase = "idle" /\ HasCommand(n) /\ c.kind = "install" /\ c \notin expired
      /\ gateways[n].applying = 0
      /\ UNCHANGED <<required, rollouts, rollbacks, scopes, mailbox, settled,
                     outcomes, expired, overlapped, faults>>
  BY DEF BeginInstall, OnNode
<1>2. /\ c.rollout \in 1..Len(rollouts) /\ Candidate(n).revision = c.rollout
      /\ Candidate(n).expected < c.rollout /\ Candidate(n).expected \in Nat
      /\ Candidate(n) = At(c.rollout, n)
  BY <1>1, NextFacts
<1>3. c.rollout \in 0..MaxRollouts /\ c.rollout \in Nat /\ 0 \in 0..MaxRollouts
      /\ faults' \in 0..MaxFaults /\ TypeOK
  BY <1>1, <1>2, GatewayRolloutAssumption DEF RolloutInv, TypeOK
<1>4. "applied" \in Results /\ "rejected" \in Results
  BY DEF Results
<1>5. CASE gateways[n].applied = Candidate(n).revision
           /\ Complete(n, "applied", Candidate(n).revision) /\ UNCHANGED gateways
  BY <1>1, <1>2, <1>3, <1>4, <1>5, CompleteStep
<1>6. CASE gateways[n].applied \notin {Candidate(n).expected, Candidate(n).revision}
           /\ Complete(n, "rejected", 0) /\ UNCHANGED gateways
  BY <1>1, <1>2, <1>3, <1>4, <1>6, CompleteStep
<1>7. CASE /\ gateways[n].applied = Candidate(n).expected
           /\ gateways' = [gateways EXCEPT ![n].applying = Candidate(n).revision]
           /\ Phase(n, "applying")
  <2>1. /\ agents \in [Nodes -> Agent]
        /\ gateways \in [Nodes -> [applied : 0..MaxRollouts, applying : 0..MaxRollouts]]
    BY <1>3 DEF TypeOK
  <2>2. /\ agents' \in [Nodes -> Agent] /\ agents'[n].phase = "applying"
        /\ \A m \in Nodes \ {n} : agents'[m] = agents[m]
    BY <1>7, <2>1 DEF Phase, Agent
  <2>3. /\ gateways' \in [Nodes -> [applied : 0..MaxRollouts, applying : 0..MaxRollouts]]
        /\ gateways'[n].applied = gateways[n].applied /\ gateways'[n].applying = c.rollout
        /\ \A m \in Nodes \ {n} : gateways'[m] = gateways[m]
    BY <1>2, <1>3, <1>7, <2>1
  <2>4. TypeOK'
    BY <1>1, <1>3, <2>2, <2>3 DEF TypeOK
  <2>5. \A m \in Nodes \ {n} : SameNode(m)
    BY <1>1, <2>2, <2>3 DEF SameNode
  <2>6. settled'[n] <= Len(mailbox[n])
    BY <1>1 DEF RolloutInv, MailboxOK
  <2>7. HasCommand(n)' /\ NextCommand(n)' = c /\ Candidate(n)' = Candidate(n)
    BY <1>1 DEF HasCommand, NextCommand, Candidate, At
  <2>8. AgentOK(n)'
    BY <1>1, <1>7, <2>2, <2>3, <2>7 DEF AgentOK, Installing
  <2>9. /\ At(c.rollout, n).state = "pending" /\ c.rollout = Len(rollouts)
        /\ \A r \in 1..Len(rollouts) : At(r, n).state = "applied" => r < c.rollout
    BY <1>1, OnlyPendingBegins
  <2>10. ASSUME NEW r \in 1..Len(rollouts) PROVE AnswerOK(r, n)'
    <3>1. AnswerOK(r, n)
      BY DEF RolloutInv
    <3>2. Answers(r, n) => Answers(r, n)'
      BY <1>1 DEF Answers
    <3>3. At(r, n).state = "applied" =>
             gateways'[n].applied >= r /\ gateways'[n].applying > r
      BY <1>2, <1>3, <2>3, <2>9, <3>1 DEF AnswerOK
    <3> QED
      BY <1>1, <3>1, <3>2, <3>3 DEF AnswerOK, At
  <2>11. PhysicalOK(n)'
    <3>1. PhysicalOK(n)
      BY DEF RolloutInv
    <3>2. InDoubt(n)'
      BY <1>1, <1>2, <1>3, <2>9, NodeTypes DEF InDoubt, At
    <3>3. ASSUME n \notin overlapped, ~Diverged(n), NEW r \in 1..Len(rollouts),
                 At(r, n).state = "pending"
          PROVE  At(r, n).expected = scopes[n].installed
                 /\ Installing(n, r, scopes[n].installed)'
      <4>1. r = c.rollout
        BY <2>9, <3>3 DEF RolloutInv, ReplicaOK
      <4>2. At(r, n).expected = scopes[n].installed
        BY <3>1, <3>3 DEF PhysicalOK
      <4> QED
        BY <1>1, <1>2, <1>7, <2>3, <4>1, <4>2 DEF Installing
    <3>4. /\ Diverged(n)' <=> Diverged(n)
          /\ \A r \in 1..Len(rollouts) : At(r, n)' = At(r, n)
      BY <1>1 DEF Diverged, At
    <3> QED
      BY <1>1, <3>1, <3>2, <3>3, <3>4 DEF PhysicalOK
  <2>12. OutcomesOK'
    <3>1. ASSUME NEW o \in outcomes, o.result = "observed", o.command.rollout = Len(rollouts)
          PROVE  o.command.node # n
      BY <2>9, <3>1 DEF RolloutInv, OutcomesOK
    <3>2. \A o \in outcomes : o.command.node \in Nodes
      BY <1>3 DEF TypeOK, Command
    <3> QED
      BY <1>1, <2>3, <3>1, <3>2 DEF RolloutInv, OutcomesOK, At
  <2> QED
    BY <1>1, <2>4, <2>5, <2>6, <2>8, <2>10, <2>11, <2>12, NodeStep
<1> QED
  BY <1>5, <1>6, <1>7 DEF BeginInstall

\* The Gateway ends what it is applying.
LEMMA ActivateStep ==
    ASSUME RolloutInv, NEW n \in Nodes, Activate(n) PROVE RolloutInv'
<1> DEFINE g == gateways[n]
<1>1. /\ g.applying # 0
      /\ UNCHANGED <<required, rollouts, rollbacks, scopes, mailbox, settled,
                     outcomes, expired, overlapped, agents>>
  BY DEF Activate, OnNode
<1>2. TypeOK /\ gateways \in [Nodes -> [applied : 0..MaxRollouts, applying : 0..MaxRollouts]]
      /\ g.applied \in Nat /\ g.applying \in Nat /\ 0 \in 0..MaxRollouts
  BY NodeTypes, GatewayRolloutAssumption, SMTT(20) DEF RolloutInv, TypeOK
<1>3. faults' \in 0..MaxFaults
  BY <1>2, FaultType DEF Activate, TypeOK
<1>4. /\ gateways' \in [Nodes -> [applied : 0..MaxRollouts, applying : 0..MaxRollouts]]
      /\ gateways'[n].applied \in {g.applied, g.applying} /\ gateways'[n].applying = 0
      /\ \A m \in Nodes \ {n} : gateways'[m] = gateways[m]
  <2>1. CASE gateways' = [gateways EXCEPT ![n] = [applied |-> @.applying, applying |-> 0]]
    BY <1>2, <2>1
  <2>2. CASE gateways' = [gateways EXCEPT ![n].applying = 0]
    BY <1>2, <2>2
  <2> QED
    BY <2>1, <2>2 DEF Activate
<1>5. TypeOK'
  BY <1>1, <1>2, <1>3, <1>4 DEF TypeOK
<1>6. \A m \in Nodes \ {n} : SameNode(m)
  BY <1>1, <1>4 DEF SameNode
<1>7. settled'[n] <= Len(mailbox[n])
  BY <1>1 DEF RolloutInv, MailboxOK
<1>8. AgentOK(n)'
  <2>1. AgentOK(n)
    BY DEF RolloutInv
  <2>2. HasCommand(n)' <=> HasCommand(n)
    BY <1>1 DEF HasCommand
  <2>3. NextCommand(n)' = NextCommand(n) /\ Candidate(n)' = Candidate(n)
    BY <1>1 DEF NextCommand, Candidate, At
  <2> QED
    BY <1>1, <1>4, <2>1, <2>2, <2>3 DEF AgentOK, Installing, IsGatewayAck
<1>9. ASSUME NEW r \in 1..Len(rollouts) PROVE AnswerOK(r, n)'
  <2>1. AnswerOK(r, n)
    BY DEF RolloutInv
  <2>2. Answers(r, n) => Answers(r, n)'
    BY <1>1 DEF Answers
  <2>3. At(r, n).state = "applied" => gateways'[n].applied >= r
    BY <1>1, <1>2, <1>4, <2>1 DEF AnswerOK
  <2> QED
    BY <1>1, <1>4, <2>1, <2>2, <2>3 DEF AnswerOK, At
<1>10. PhysicalOK(n)'
  <2>1. PhysicalOK(n)
    BY DEF RolloutInv
  <2>2. /\ Diverged(n)' <=> Diverged(n)
        /\ InDoubt(n)' <=> InDoubt(n)
        /\ \A r \in 1..Len(rollouts) : At(r, n)' = At(r, n)
    BY <1>1 DEF Diverged, InDoubt, At
  <2>3. \A r, e : Installing(n, r, e) => Installing(n, r, e)'
    BY <1>1, <1>4 DEF Installing
  <2> QED
    BY <1>1, <2>1, <2>2, <2>3 DEF PhysicalOK
<1>11. OutcomesOK'
  <2>1. \A o \in outcomes : o.command.node \in Nodes
    BY <1>2 DEF TypeOK, Command
  <2> QED
    BY <1>1, <1>4, <2>1 DEF RolloutInv, OutcomesOK, At
<1> QED
  BY <1>1, <1>5, <1>6, <1>7, <1>8, <1>9, <1>10, <1>11, NodeStep

\* After a crash the command is repeated or, once journaled, delivered again
LEMMA CrashStep ==
    ASSUME RolloutInv, NEW n \in Nodes, Crash(n) PROVE RolloutInv'
<1>1. UNCHANGED <<required, rollouts, rollbacks, scopes, gateways, mailbox, settled,
                  outcomes, expired, overlapped>>
  BY DEF Crash, OnNode
<1>2. TypeOK /\ agents \in [Nodes -> Agent] /\ agents[n] \in Agent
  BY DEF RolloutInv, TypeOK
<1>3. PICK phase \in {"idle", "delivering"} :
         /\ Phase(n, phase)
         /\ phase = "idle" => agents[n].phase = "applying"
         /\ phase = "delivering" => agents[n].phase = "settling"
  BY DEF Crash
<1>4. /\ agents' \in [Nodes -> Agent] /\ agents'[n].phase = phase
      /\ agents'[n].result = agents[n].result /\ agents'[n].applied = agents[n].applied
      /\ \A m \in Nodes \ {n} : agents'[m] = agents[m]
  BY <1>2, <1>3 DEF Phase, Agent
<1>5. TypeOK'
  BY <1>1, <1>2, <1>4, FaultType DEF TypeOK, Crash
<1>6. \A m \in Nodes \ {n} : SameNode(m)
  BY <1>1, <1>4 DEF SameNode
<1>7. settled'[n] <= Len(mailbox[n])
  BY <1>1 DEF RolloutInv, MailboxOK
<1>8. HasCommand(n)' = HasCommand(n) /\ NextCommand(n)' = NextCommand(n)
  BY <1>1 DEF HasCommand, NextCommand
<1>9. AgentOK(n)'
  <2>1. AgentOK(n)
    BY DEF RolloutInv
  <2> QED
    BY <1>1, <1>3, <1>4, <1>8, <2>1 DEF AgentOK
<1>10. ASSUME NEW r \in 1..Len(rollouts) PROVE AnswerOK(r, n)'
  <2>1. AnswerOK(r, n)
    BY DEF RolloutInv
  <2>2. Answers(r, n) => Answers(r, n)'
    BY <1>1, <1>3, <1>4 DEF Answers
  <2> QED
    BY <1>1, <2>1, <2>2 DEF AnswerOK, At
<1>11. PhysicalOK(n)'
  BY <1>1 DEF RolloutInv, PhysicalOK, Installing, Diverged, InDoubt, At
<1>12. OutcomesOK'
  BY <1>1 DEF RolloutInv, OutcomesOK, At
<1> QED
  BY <1>1, <1>5, <1>6, <1>7, <1>9, <1>10, <1>11, <1>12, NodeStep

\* Fleet settles a command, and keeps the outcome of an observation.
LEMMA AcknowledgeCommandStep ==
    ASSUME RolloutInv, NEW n \in Nodes, AcknowledgeCommand(n) PROVE RolloutInv'
<1> DEFINE c == NextCommand(n)
           a == agents[n]
<1>1. UNCHANGED <<required, rollouts, rollbacks, scopes, gateways, mailbox, expired,
                  overlapped, faults>>
  BY DEF AcknowledgeCommand
<1>2. TypeOK /\ AgentOK(n) /\ a \in Agent /\ settled[n] \in Nat /\ Len(mailbox[n]) \in Nat
      /\ agents \in [Nodes -> Agent] /\ settled \in [Nodes -> Nat]
  BY NodeTypes DEF RolloutInv, TypeOK
<1>3. /\ a.phase \in {"delivering", "settling"} /\ HasCommand(n)
      /\ a.result \in Results /\ a.applied \in 0..MaxRollouts
  BY <1>2 DEF AcknowledgeCommand, AgentOK, Agent
<1>4. /\ c \in Command /\ c.node = n /\ c.rollout \in 1..Len(rollouts)
      /\ c.kind = "observe" => At(c.rollout, n).state = "unavailable"
  BY <1>3, NextFacts
<1>5. /\ settled' \in [Nodes -> Nat] /\ settled'[n] = settled[n] + 1
      /\ \A m \in Nodes \ {n} : settled'[m] = settled[m]
  BY <1>2 DEF AcknowledgeCommand
<1>6. /\ agents' \in [Nodes -> Agent] /\ agents'[n].phase = "idle"
      /\ \A m \in Nodes \ {n} : agents'[m] = agents[m]
  <2>1. 0 \in 0..MaxRollouts
    BY GatewayRolloutAssumption
  <2>2. [phase |-> "idle", result |-> "none", applied |-> 0] \in Agent
    BY <2>1 DEF Agent
  <2> QED
    BY <1>2, <2>2 DEF AcknowledgeCommand
<1>7. ASSUME NEW o \in outcomes'
      PROVE  \/ o \in outcomes
             \/ /\ o.command = c /\ c.kind = "observe" /\ o.result = a.result
                /\ o.applied = a.applied
                /\ o \in [command : Command, result : Results, applied : 0..MaxRollouts]
  <2> DEFINE new == [command |-> c, result |-> a.result, applied |-> a.applied]
  <2>1. /\ new.command = c /\ new.result = a.result /\ new.applied = a.applied
        /\ new \in [command : Command, result : Results, applied : 0..MaxRollouts]
    <3> HIDE DEF c, a
    <3> QED
      BY <1>3, <1>4
  <2>2. outcomes' = IF c.kind = "observe" THEN outcomes \cup {new} ELSE outcomes
    BY DEF AcknowledgeCommand
  <2> HIDE DEF new, c, a
  <2> QED
    BY <1>7, <2>1, <2>2
<1>8. TypeOK'
  <2>1. outcomes' \subseteq [command : Command, result : Results, applied : 0..MaxRollouts]
    BY <1>2, <1>7 DEF TypeOK
  <2> QED
    BY <1>1, <1>2, <1>5, <1>6, <2>1 DEF TypeOK
<1>9. \A m \in Nodes \ {n} : SameNode(m)
  BY <1>1, <1>5, <1>6 DEF SameNode
<1>10. settled'[n] <= Len(mailbox[n])
  BY <1>2, <1>3, <1>5 DEF HasCommand
<1>11. AgentOK(n)'
  BY <1>6 DEF AgentOK
<1>12. ASSUME NEW r \in 1..Len(rollouts) PROVE AnswerOK(r, n)'
  <2>1. AnswerOK(r, n)
    BY DEF RolloutInv
  <2>2. Answers(r, n) => Answers(r, n)'
    BY <1>1, <1>2, <1>5 DEF Answers
  <2> QED
    BY <1>1, <2>1, <2>2 DEF AnswerOK, At
<1>13. PhysicalOK(n)'
  BY <1>1 DEF RolloutInv, PhysicalOK, Installing, Diverged, InDoubt, At
<1>14. OutcomesOK'
  <2> SUFFICES ASSUME NEW o \in outcomes'
               PROVE  /\ o.command.kind = "observe" /\ o.command.rollout \in 1..Len(rollouts)
                      /\ At(o.command.rollout, o.command.node).state = "unavailable"
                      /\ o.result = "observed" /\ o.command.rollout = Len(rollouts) =>
                            /\ gateways[o.command.node].applied = o.applied
                            /\ gateways[o.command.node].applying = 0
    BY <1>1 DEF OutcomesOK, At
  <2>1. CASE o \in outcomes
    BY <2>1 DEF RolloutInv, OutcomesOK
  <2>2. CASE o.command = c /\ c.kind = "observe" /\ o.result = a.result /\ o.applied = a.applied
    <3>1. a.result = "observed" /\ c.rollout = Len(rollouts) =>
             gateways[n].applied = a.applied /\ gateways[n].applying = 0
      BY <1>2, <1>3 DEF AgentOK
    <3> HIDE DEF c, a
    <3>2. o.command.node = n /\ o.command.rollout = c.rollout /\ o.command.kind = "observe"
      BY <1>4, <2>2
    <3>3. At(c.rollout, n).state = "unavailable" /\ c.rollout \in 1..Len(rollouts)
      BY <1>4, <2>2
    <3> QED
      BY <2>2, <3>1, <3>2, <3>3
  <2> QED
    BY <1>7, <2>1, <2>2
<1> QED
  BY <1>1, <1>8, <1>9, <1>10, <1>11, <1>12, <1>13, <1>14, NodeStep

-----------------------------------------------------------------------------
(* Dispatch.                                                               *)

\* A command is appended behind those it has to follow.
LEMMA EnqueueStep ==
    ASSUME RolloutInv, NEW n \in Nodes, NEW c \in Command, c.node = n,
           c.rollout \in 1..Len(rollouts), Enqueue(c),
           c.kind = "install" => c = Install(c.rollout, n),
           c.kind = "observe" => At(c.rollout, n).state = "unavailable",
           c.kind = "install" =>
               \A i \in 1..Len(mailbox[n]) : mailbox[n][i].rollout < c.rollout,
           UNCHANGED <<required, rollouts, rollbacks, scopes, gateways, settled,
                       agents, outcomes, expired, overlapped, faults>>
    PROVE  RolloutInv'
<1>1. TypeOK /\ mailbox \in [Nodes -> Seq(Command)]
  BY DEF RolloutInv, TypeOK
<1>2. mailbox[n] \in Seq(Command) /\ Len(mailbox[n]) \in Nat /\ settled[n] \in Nat
  BY <1>1, NodeTypes
<1>3. /\ mailbox' \in [Nodes -> Seq(Command)] /\ mailbox'[n] = Append(mailbox[n], c)
      /\ \A m \in Nodes \ {n} : mailbox'[m] = mailbox[m]
  BY <1>1, <1>2 DEF Enqueue
<1>4. /\ Len(mailbox'[n]) = Len(mailbox[n]) + 1 /\ mailbox'[n][Len(mailbox[n]) + 1] = c
      /\ \A i \in 1..Len(mailbox[n]) : mailbox'[n][i] = mailbox[n][i]
  BY <1>2, <1>3
<1>5. TypeOK'
  BY <1>1, <1>3 DEF TypeOK
<1>6. \A m \in Nodes \ {n} : SameNode(m)
  BY <1>3 DEF SameNode
<1>7. MailboxOK(n)'
  <2>1. MailboxOK(n)
    BY DEF RolloutInv
  <2>2. settled'[n] <= Len(mailbox'[n])
    BY <1>2, <1>4, <2>1 DEF MailboxOK
  <2>3. ASSUME NEW i \in 1..Len(mailbox'[n])
        PROVE  \/ i \in 1..Len(mailbox[n]) /\ mailbox'[n][i] = mailbox[n][i]
               \/ mailbox'[n][i] = c
    <3>1. i \in 1..Len(mailbox[n]) \/ i = Len(mailbox[n]) + 1
      BY <1>2, <1>4
    <3> QED
      BY <1>4, <3>1
  <2>4. ASSUME NEW i \in 1..Len(mailbox'[n])
        PROVE  LET d == mailbox'[n][i] IN
               /\ d.node = n /\ d.rollout \in 1..Len(rollouts)
               /\ d.kind = "install" => d = Install(d.rollout, n)
               /\ d.kind = "observe" => At(d.rollout, n).state = "unavailable"
    BY <2>1, <2>3 DEF MailboxOK
  <2>5. ASSUME NEW i \in 1..Len(mailbox'[n]), NEW j \in 1..Len(mailbox'[n]), i < j,
               mailbox'[n][j].kind = "install"
        PROVE  mailbox'[n][i].rollout < mailbox'[n][j].rollout
    <3>1. i \in 1..Len(mailbox[n]) /\ mailbox'[n][i] = mailbox[n][i]
      BY <1>2, <1>4, <2>5
    <3>2. CASE j \in 1..Len(mailbox[n]) /\ mailbox'[n][j] = mailbox[n][j]
      BY <2>1, <2>5, <3>1, <3>2 DEF MailboxOK
    <3>3. CASE mailbox'[n][j] = c
      BY <2>5, <3>1, <3>3
    <3> QED
      BY <2>3, <3>2, <3>3
  <2> QED
    BY <2>2, <2>4, <2>5 DEF MailboxOK, At
<1>8. AgentOK(n)'
  <2>1. AgentOK(n)
    BY DEF RolloutInv
  <2>2. ASSUME HasCommand(n)
        PROVE  HasCommand(n)' /\ NextCommand(n)' = NextCommand(n) /\ Candidate(n)' = Candidate(n)
    <3>1. settled[n] + 1 \in 1..Len(mailbox[n])
      BY <2>2, NextFacts
    <3>2. NextCommand(n)' = NextCommand(n)
      BY <1>4, <3>1 DEF NextCommand
    <3>3. HasCommand(n)'
      BY <1>2, <1>4, <2>2 DEF HasCommand
    <3> QED
      BY <3>2, <3>3 DEF Candidate, At
  <2>3. CASE agents[n].phase = "idle"
    BY <2>3 DEF AgentOK
  <2>4. CASE agents[n].phase # "idle"
    BY <2>1, <2>2, <2>4 DEF AgentOK, Installing, IsGatewayAck
  <2> QED
    BY <2>3, <2>4
<1>9. ASSUME NEW r \in 1..Len(rollouts), NEW m \in Nodes PROVE ReplicaOK(r, m)' /\ AnswerOK(r, m)'
  <2>1. ReplicaOK(r, m)'
    BY DEF RolloutInv, ReplicaOK, At
  <2>2. AnswerOK(r, m)
    BY DEF RolloutInv
  <2>3. CASE m # n
    BY <1>6, <2>1, <2>2, <2>3, NodeFrame
  <2>4. CASE m = n
    <3>1. Answers(r, n) => Answers(r, n)'
      <4>1. \A i \in 1..Len(mailbox[n]) : i \in 1..Len(mailbox'[n])
        BY <1>2, <1>4
      <4> QED
        BY <1>4, <4>1 DEF Answers
    <3> QED
      BY <2>1, <2>2, <2>4, <3>1 DEF AnswerOK, At
  <2> QED
    BY <2>3, <2>4
<1>10. ASSUME NEW m \in Nodes PROVE ScopeOK(m)' /\ MailboxOK(m)' /\ AgentOK(m)' /\ PhysicalOK(m)'
  <2>1. ScopeOK(m)'
    BY DEF RolloutInv, ScopeOK
  <2>2. PhysicalOK(m)'
    BY DEF RolloutInv, PhysicalOK, Installing, Diverged, InDoubt, At
  <2>3. CASE m # n
    BY <1>6, <2>1, <2>2, <2>3, NodeFrame DEF RolloutInv
  <2> QED
    BY <1>7, <1>8, <2>1, <2>2, <2>3
<1>11. OutcomesOK' /\ RollbackOK'
  BY DEF RolloutInv, OutcomesOK, RollbackOK, At
<1> QED
  BY <1>5, <1>9, <1>10, <1>11 DEF RolloutInv

\* The install command comes last in the mailbox, behind those of all earlier rollouts
LEMMA DispatchInstallStep ==
    ASSUME RolloutInv, NEW r \in 1..Len(rollouts), NEW n \in Nodes, DispatchInstall(r, n)
    PROVE  RolloutInv'
<1> DEFINE c == Install(r, n)
<1>1. /\ At(r, n).state = "pending" /\ ~Issued(c) /\ Enqueue(c)
      /\ UNCHANGED <<required, rollouts, rollbacks, scopes, gateways, settled,
                     agents, outcomes, expired, overlapped, faults>>
  BY DEF DispatchInstall
<1>2. TypeOK /\ MailboxOK(n) /\ r = Len(rollouts) /\ Len(rollouts) \in Nat
      /\ r \in 1..MaxRollouts /\ MaxRollouts \in Nat
  BY <1>1, AtType, NodeTypes DEF RolloutInv, ReplicaOK
<1>3. c.node = n /\ c.rollout = r /\ c.kind = "install" /\ c \in Command
  BY <1>2 DEF Install, Command
<1>4. mailbox[n] \in Seq(Command) /\ DOMAIN mailbox[n] = 1..Len(mailbox[n])
  BY <1>2, NodeTypes
<1>5. ASSUME NEW i \in 1..Len(mailbox[n]) PROVE mailbox[n][i].rollout < r
  <2> DEFINE d == mailbox[n][i]
  <2>1. /\ d.rollout \in 1..Len(rollouts) /\ d \in Command
        /\ d.kind = "install" => d = Install(d.rollout, n)
        /\ d.kind = "observe" => At(d.rollout, n).state = "unavailable"
    BY <1>2, <1>4 DEF MailboxOK
  <2>2. d # Install(r, n)
    BY <1>1, <1>3, <1>4 DEF Issued
  <2> HIDE DEF d
  <2>3. d.kind \in {"install", "observe"}
    BY <2>1 DEF Command
  <2>4. d.rollout # r
    BY <1>1, <2>1, <2>2, <2>3
  <2>5. d.rollout < r
    BY <1>2, <2>1, <2>4
  <2> QED
    BY <2>5 DEF d
<1> HIDE DEF c
<1>6. c = Install(c.rollout, n)
  BY <1>3 DEF c
<1> QED
  BY <1>1, <1>3, <1>5, <1>6, EnqueueStep

\* The observation of a silent member comes behind the installation it asks about
LEMMA DispatchObservationStep ==
    ASSUME RolloutInv, NEW r \in 1..Len(rollouts), NEW n \in Nodes, DispatchObservation(r, n)
    PROVE  RolloutInv'
<1> DEFINE c == Attempt(r, n)
<1>1. /\ At(r, n).recovery = "observing" /\ Enqueue(c)
      /\ UNCHANGED <<required, rollouts, rollbacks, scopes, gateways, settled,
                     agents, outcomes, expired, overlapped, faults>>
  BY DEF DispatchObservation
<1>2. TypeOK /\ At(r, n) \in Replica /\ r \in 1..MaxRollouts
  BY AtType, GatewayRolloutAssumption DEF RolloutInv
<1>3. At(r, n).state = "unavailable"
  BY <1>1 DEF RolloutInv, ReplicaOK
<1>4. At(r, n).attempt \in Nat
  BY <1>2 DEF Replica
<1>5. c.node = n /\ c.rollout = r /\ c.kind = "observe" /\ c \in Command
  BY <1>2, <1>4 DEF Attempt, Observe, Command
<1> HIDE DEF c
<1> QED
  BY <1>1, <1>3, <1>5, EnqueueStep

-----------------------------------------------------------------------------
(* Deadlines.                                                              *)

\* A deadline that passes changes no store
LEMMA ExpiryStep ==
    ASSUME RolloutInv, NEW c, Expiry(c), faults' \in 0..MaxFaults PROVE RolloutInv'
<1>1. /\ expired \subseteq expired'
      /\ UNCHANGED <<required, rollouts, rollbacks, scopes, gateways, mailbox,
                     settled, agents, outcomes, overlapped>>
  BY DEF Expiry
<1>2. TypeOK'
  BY <1>1 DEF RolloutInv, TypeOK
<1>3. \A m \in Nodes : SameNode(m)
  BY <1>1 DEF SameNode
<1>4. ASSUME NEW r \in 1..Len(rollouts), NEW m \in Nodes PROVE ReplicaOK(r, m)' /\ AnswerOK(r, m)'
  <2>1. ReplicaOK(r, m)'
    BY <1>1 DEF RolloutInv, ReplicaOK, At
  <2> QED
    BY <1>1, <1>3, <2>1, NodeFrame DEF RolloutInv
<1>5. ASSUME NEW m \in Nodes PROVE ScopeOK(m)' /\ MailboxOK(m)' /\ AgentOK(m)' /\ PhysicalOK(m)'
  <2>1. ScopeOK(m)'
    BY <1>1 DEF RolloutInv, ScopeOK
  <2> QED
    BY <1>1, <1>3, <2>1, NodeFrame DEF RolloutInv
<1>6. OutcomesOK' /\ RollbackOK'
  BY <1>1 DEF RolloutInv, OutcomesOK, RollbackOK, At
<1> QED
  BY <1>1, <1>2, <1>4, <1>5, <1>6 DEF RolloutInv

\* The deadline of an install command passes
LEMMA InstallExpiresStep ==
    ASSUME RolloutInv, NEW r, NEW n, InstallExpires(r, n) PROVE RolloutInv'
<1>1. faults' \in 0..MaxFaults
  BY FaultType DEF RolloutInv, TypeOK, InstallExpires
<1> QED
  BY <1>1, ExpiryStep DEF InstallExpires

\* The deadline of an observation passes
LEMMA ObservationExpiresStep ==
    ASSUME RolloutInv, NEW r, NEW n, ObservationExpires(r, n) PROVE RolloutInv'
<1>1. faults' \in 0..MaxFaults
  BY FaultType DEF RolloutInv, ObservationExpires
<1> QED
  BY <1>1, ExpiryStep DEF ObservationExpires

-----------------------------------------------------------------------------
(* Answers and recoveries: one replica changes.                            *)

\* A replica's answer, once given, stays.
StateMoves(old, new) == new = old \/ (old = "pending" /\ new # "pending")

\* The agent of the node stays as it was, or has its answer taken.
AgentMoves(n) ==
    /\ agents'[n].result = agents[n].result /\ agents'[n].applied = agents[n].applied
    /\ \/ agents'[n].phase = agents[n].phase
       \/ agents[n].phase = "delivering" /\ agents'[n].phase = "settling" /\ IsGatewayAck(n)

\* A change of one replica keeps the invariant if it does so for that member and for the rollbacks
LEMMA ReplicaStep ==
    ASSUME RolloutInv, NEW r \in 1..Len(rollouts), NEW n \in Nodes, NEW p \in Replica,
           ReplicaMoves(r, n, p), StateMoves(At(r, n).state, p.state), AgentMoves(n),
           UNCHANGED <<gateways, mailbox, settled, outcomes, expired, overlapped>>,
           TypeOK', \A m \in Nodes \ {n} : SameNode(m),
           ReplicaOK(r, n)', AnswerOK(r, n)', ScopeOK(n)', PhysicalOK(n)', RollbackOK'
    PROVE  RolloutInv'
<1>1. /\ Len(rollouts') = Len(rollouts)
      /\ \A k \in 1..Len(rollouts), m \in Nodes :
            At(k, m)' = IF k = r /\ m = n THEN p ELSE At(k, m)
      /\ p.revision = At(r, n).revision /\ p.expected = At(r, n).expected
  BY DEF ReplicaMoves
<1>2. TypeOK /\ DOMAIN rollouts = 1..Len(rollouts) /\ DOMAIN rollouts' = 1..Len(rollouts)
  BY <1>1, SMTT(20) DEF RolloutInv, TypeOK
<1>3. \A k \in 1..Len(rollouts), m \in Nodes :
         /\ At(k, m).state = "unavailable" => At(k, m)'.state = "unavailable"
         /\ At(k, m)'.expected = At(k, m).expected
  BY <1>1 DEF StateMoves
<1>4. ASSUME NEW m \in Nodes PROVE MailboxOK(m)'
  <2>1. MailboxOK(m)
    BY DEF RolloutInv
  <2>2. ASSUME NEW i \in 1..Len(mailbox[m])
        PROVE  LET c == mailbox[m][i] IN
               /\ c.node = m /\ c.rollout \in 1..Len(rollouts)
               /\ c.kind = "install" => c = Install(c.rollout, m)
               /\ c.kind = "observe" => At(c.rollout, m)'.state = "unavailable"
    BY <1>3, <2>1 DEF MailboxOK
  <2> QED
    BY <1>1, <2>1, <2>2 DEF MailboxOK
<1>5. ASSUME NEW m \in Nodes PROVE AgentOK(m)'
  <2>1. AgentOK(m) /\ AgentMoves(m) /\ gateways'[m] = gateways[m] /\ mailbox'[m] = mailbox[m]
        /\ settled'[m] = settled[m]
    BY DEF RolloutInv, AgentMoves, SameNode
  <2>2. (HasCommand(m)' <=> HasCommand(m)) /\ NextCommand(m)' = NextCommand(m)
    BY <2>1 DEF HasCommand, NextCommand
  <2>3. HasCommand(m) => Candidate(m)'.expected = Candidate(m).expected
    <3>1. HasCommand(m) => NextCommand(m).rollout \in 1..Len(rollouts)
      BY NextFacts
    <3> QED
      BY <1>3, <2>2, <3>1 DEF Candidate
  <2>4. CASE agents'[m].phase = agents[m].phase
    BY <1>1, <2>1, <2>2, <2>3, <2>4 DEF AgentOK, AgentMoves, Installing, IsGatewayAck
  <2>5. CASE agents[m].phase = "delivering" /\ agents'[m].phase = "settling" /\ IsGatewayAck(m)
    BY <1>1, <2>1, <2>2, <2>5 DEF AgentOK, AgentMoves, IsGatewayAck
  <2> QED
    BY <2>1, <2>4, <2>5 DEF AgentMoves
<1>6. ASSUME NEW k \in 1..Len(rollouts), NEW m \in Nodes PROVE ReplicaOK(k, m)' /\ AnswerOK(k, m)'
  <2>1. ReplicaOK(k, m) /\ AnswerOK(k, m)
    BY DEF RolloutInv
  <2>2. CASE k = r /\ m = n
    BY <2>2
  <2>3. CASE ~(k = r /\ m = n)
    <3>1. At(k, m)' = At(k, m)
      BY <1>1, <2>3
    <3>2. ReplicaOK(k, m)'
      BY <1>1, <2>1, <3>1 DEF ReplicaOK
    <3>3. AgentMoves(m) /\ mailbox'[m] = mailbox[m] /\ settled'[m] = settled[m]
      BY DEF AgentMoves, SameNode
    <3>4. Answers(k, m) => Answers(k, m)'
      BY <3>3 DEF Answers, AgentMoves
    <3>5. AnswerOK(k, m)'
      BY <2>1, <3>1, <3>4 DEF AnswerOK
    <3> QED
      BY <3>2, <3>5
  <2> QED
    BY <2>2, <2>3
<1>7. ASSUME NEW m \in Nodes \ {n} PROVE ScopeOK(m)' /\ PhysicalOK(m)'
  <2>1. ScopeOK(m) /\ PhysicalOK(m) /\ SameNode(m)
    BY DEF RolloutInv
  <2>2. \A k \in 1..Len(rollouts) : At(k, m)' = At(k, m)
    BY <1>1
  <2>3. (Diverged(m)' <=> Diverged(m)) /\ (InDoubt(m)' <=> InDoubt(m))
    BY <1>2, <2>2 DEF Diverged, InDoubt
  <2> QED
    BY <1>1, <2>1, <2>2, <2>3 DEF ScopeOK, PhysicalOK, SameNode, Installing
<1>8. OutcomesOK'
  <2>1. \A o \in outcomes : o.command.node \in Nodes
    BY <1>2 DEF TypeOK, Command
  <2> QED
    BY <1>1, <1>3, <2>1 DEF RolloutInv, OutcomesOK
<1> QED
  BY <1>1, <1>4, <1>5, <1>6, <1>7, <1>8 DEF RolloutInv

\* A recovery step answers nothing.
LEMMA RollbackFrame ==
    ASSUME RolloutInv, NEW r \in 1..Len(rollouts), NEW n \in Nodes, NEW p \in Replica,
           ReplicaMoves(r, n, p), p.state = At(r, n).state, UNCHANGED rollbacks
    PROVE  RollbackOK'
<1>1. /\ Len(rollouts') = Len(rollouts)
      /\ \A k \in 1..Len(rollouts) : rollouts'[k].of = rollouts[k].of
      /\ \A k \in 1..Len(rollouts), m \in Nodes : At(k, m)'.state = At(k, m).state
  BY DEF ReplicaMoves
<1>2. RollbackOK
  BY DEF RolloutInv
<1>3. \A k \in 1..Len(rollouts') : rollouts'[k].of < k
  BY <1>1, <1>2 DEF RollbackOK
<1>4. \A f, g \in 1..Len(rollouts') :
        f < g /\ rollouts'[g].of = 0 => rollbacks'[f] \in {"none", "succeeded"}
  BY <1>1, <1>2 DEF RollbackOK
<1>5. \A k \in 1..Len(rollouts'), m \in Nodes :
        rollouts'[k].of # 0 /\ At(k, m)'.state = "pending" =>
            rollbacks'[rollouts'[k].of] = "staged"
  BY <1>1, <1>2 DEF RollbackOK
<1>6. ASSUME NEW f \in 1..MaxRollouts, rollbacks'[f] = "succeeded"
      PROVE  \E k \in 1..Len(rollouts') :
                 rollouts'[k].of = f /\ \A m \in Nodes : At(k, m)'.state = "applied"
  <2>1. PICK k \in 1..Len(rollouts) :
             rollouts[k].of = f /\ \A m \in Nodes : At(k, m).state = "applied"
    BY <1>2, <1>6 DEF RollbackOK
  <2> QED
    BY <1>1, <2>1
<1>7. \A f \in 1..MaxRollouts : rollbacks'[f] = "required" => f = Len(rollouts')
  BY <1>1, <1>2 DEF RollbackOK
<1> QED
  BY <1>3, <1>4, <1>5, <1>6, <1>7 DEF RollbackOK

\* What a recovery step on a silent member of a rollout amounts to.
LEMMA RecoveryStep ==
    ASSUME RolloutInv, NEW r \in 1..Len(rollouts), NEW n \in Nodes, NEW p \in Replica,
           ReplicaMoves(r, n, p), p.state = At(r, n).state,
           At(r, n).recovery \in {"required", "observing"}, p.recovery # "none",
           UNCHANGED <<required, gateways, mailbox, settled, agents, outcomes, expired,
                       overlapped, faults>>,
           rollbacks' \in [1..MaxRollouts -> RollbackStates], RollbackOK',
           \/ UNCHANGED scopes /\ p.recovery \in {"required", "observing", "diverged"}
           \/ /\ scopes' \in [Nodes -> [last : 0..MaxRollouts, installed : 0..MaxRollouts]]
              /\ \A m \in Nodes \ {n} : scopes'[m] = scopes[m]
              /\ scopes'[n].last = scopes[n].last /\ scopes'[n].installed <= Len(rollouts)
              /\ p.recovery = "observed"
              /\ r = Len(rollouts) => /\ gateways[n].applied = scopes'[n].installed
                                      /\ gateways[n].applying = 0
    PROVE  RolloutInv'
<1>1. /\ rollouts' \in Seq(Rollout) /\ Len(rollouts') = Len(rollouts)
      /\ \A k \in 1..Len(rollouts), m \in Nodes :
            At(k, m)' = IF k = r /\ m = n THEN p ELSE At(k, m)
      /\ p.revision = At(r, n).revision /\ p.expected = At(r, n).expected
  BY DEF ReplicaMoves
<1>2. TypeOK /\ ReplicaOK(r, n) /\ ScopeOK(n) /\ PhysicalOK(n)
      /\ DOMAIN rollouts' = 1..Len(rollouts) /\ DOMAIN rollouts = 1..Len(rollouts)
  BY <1>1 DEF RolloutInv, TypeOK
<1>3. At(r, n).state = "unavailable" /\ p.state = "unavailable" /\ Install(r, n) \in expired
  BY <1>2 DEF ReplicaOK
<1>4. scopes' \in [Nodes -> [last : 0..MaxRollouts, installed : 0..MaxRollouts]]
      /\ (\A m \in Nodes \ {n} : scopes'[m] = scopes[m])
      /\ scopes'[n].last = scopes[n].last /\ scopes'[n].installed <= Len(rollouts)
  BY <1>2 DEF TypeOK, ScopeOK
<1>5. TypeOK'
  BY <1>1, <1>2, <1>4 DEF TypeOK
<1>6. \A m \in Nodes \ {n} : SameNode(m)
  BY <1>4 DEF SameNode
<1>7. At(r, n)' = p
  BY <1>1
<1>8. ReplicaOK(r, n)'
  BY <1>1, <1>2, <1>3, <1>7 DEF ReplicaOK
<1>9. AnswerOK(r, n)'
  BY <1>3, <1>7 DEF AnswerOK
<1>10. ScopeOK(n)'
  BY <1>1, <1>2, <1>4 DEF ScopeOK
<1>11. PhysicalOK(n)'
  <2> SUFFICES ASSUME n \notin overlapped
               PROVE  /\ \A k \in 1..Len(rollouts) :
                            k < Len(rollouts) => At(k, n)'.recovery \notin {"required", "observing"}
                      /\ ~Diverged(n)' =>
                            /\ \A k \in 1..Len(rollouts) :
                                  At(k, n)'.state = "pending" =>
                                      /\ At(k, n)'.expected = scopes'[n].installed
                                      /\ Installing(n, k, scopes[n].installed)'
                            /\ ~InDoubt(n)' => /\ gateways[n].applied = scopes'[n].installed
                                               /\ gateways[n].applying = 0
    BY <1>1 DEF PhysicalOK
  <2>1. r = Len(rollouts)
    <3>1. ~(r < Len(rollouts))
      BY <1>2 DEF PhysicalOK
    <3>2. Len(rollouts) \in Nat
      BY <1>2, NodeTypes
    <3> QED
      BY <3>1, <3>2
  <2>2. \A k \in 1..Len(rollouts) : k < Len(rollouts) => At(k, n)' = At(k, n)
    BY <1>1, <2>1
  <2>3. \A k \in 1..Len(rollouts) : At(k, n)'.state # "pending"
    <3>1. ASSUME NEW k \in 1..Len(rollouts), At(k, n)'.state = "pending" PROVE FALSE
      <4>1. k # r
        BY <1>3, <1>7, <3>1
      <4>2. At(k, n)' = At(k, n)
        BY <1>1, <4>1
      <4> QED
        BY <2>1, <3>1, <4>1, <4>2 DEF RolloutInv, ReplicaOK
    <3> QED
      BY <3>1
  <2>4. CASE p.recovery = "observed"
    BY <1>2, <2>1, <2>2, <2>3, <2>4 DEF PhysicalOK
  <2>5. CASE p.recovery # "observed"
    <3>1. InDoubt(n)'
      BY <1>2, <1>7, <2>5 DEF InDoubt
    <3> QED
      BY <1>2, <2>2, <2>3, <3>1 DEF PhysicalOK
  <2> QED
    BY <2>4, <2>5
<1>12. StateMoves(At(r, n).state, p.state)
  BY ONLY <1>3 DEF StateMoves
<1>13. agents' = agents
  OBVIOUS
<1>14. AgentMoves(n)
  BY ONLY <1>13 DEF AgentMoves
<1> QED
  BY <1>5, <1>6, <1>8, <1>9, <1>10, <1>11, <1>12, <1>14, ReplicaStep

\* The recovery reconciler stages an observation: the member is in doubt before and after
LEMMA StageObservationStep ==
    ASSUME RolloutInv, NEW r \in 1..Len(rollouts), NEW n \in Nodes, StageObservation(r, n)
    PROVE  RolloutInv'
<1>1. /\ TypeOK /\ At(r, n).recovery = "required"
      /\ UNCHANGED <<required, rollbacks, scopes, gateways, mailbox, settled,
                     agents, outcomes, expired, overlapped, faults>>
  BY DEF RolloutInv, StageObservation
<1>2. PICK p \in Replica : /\ ReplicaMoves(r, n, p)
                           /\ p.state = At(r, n).state /\ p.recovery = "observing"
  BY <1>1, StageObservationMoves
<1>3. RollbackOK' /\ rollbacks' \in [1..MaxRollouts -> RollbackStates]
  BY <1>1, <1>2, RollbackFrame DEF TypeOK
<1> QED
  BY <1>1, <1>2, <1>3, RecoveryStep

\* The reconciler sees an observation expire and will ask again: the member stays in doubt
LEMMA ExpireObservationStep ==
    ASSUME RolloutInv, NEW r \in 1..Len(rollouts), NEW n \in Nodes, ExpireObservation(r, n)
    PROVE  RolloutInv'
<1>1. /\ TypeOK /\ At(r, n).recovery = "observing" /\ Recovering(r, n, "required")
      /\ UNCHANGED <<required, rollbacks, scopes, gateways, mailbox, settled,
                     agents, outcomes, expired, overlapped, faults>>
  BY DEF RolloutInv, ExpireObservation
<1>2. PICK p \in Replica : /\ ReplicaMoves(r, n, p)
                           /\ p.state = At(r, n).state /\ p.recovery = "required"
  BY <1>1, RecoveringMoves DEF RecoveryStates
<1>3. RollbackOK' /\ rollbacks' \in [1..MaxRollouts -> RollbackStates]
  BY <1>1, <1>2, RollbackFrame DEF TypeOK
<1> QED
  BY <1>1, <1>2, <1>3, RecoveryStep

\* The outcome of an observation is recorded.
LEMMA ProjectOutcomeStep ==
    ASSUME RolloutInv, NEW r \in 1..Len(rollouts), NEW n \in Nodes, ProjectOutcome(r, n)
    PROVE  RolloutInv'
<1>1. /\ TypeOK /\ At(r, n).recovery = "observing"
      /\ UNCHANGED <<required, gateways, mailbox, settled, agents, outcomes,
                     expired, overlapped, faults>>
  BY DEF RolloutInv, ProjectOutcome
<1>2. PICK o \in OutcomeOf(r, n) :
         RecordKnown(r, n, o) \/ RecordUnknown(r, n, o) \/ RecordFailure(r, n, o)
  BY DEF ProjectOutcome
<1>3. /\ o \in outcomes /\ o.command.rollout = r /\ o.command.node = n
      /\ o.applied \in 0..MaxRollouts
  BY <1>1, <1>2 DEF OutcomeOf, Attempt, Observe, TypeOK
<1>4. CASE RecordKnown(r, n, o)
  <2>1. /\ o.result = "observed" /\ ObservedStateIsKnown(r, n, o.applied)
        /\ Recovering(r, n, "observed")
        /\ scopes' = [scopes EXCEPT ![n].installed = o.applied] /\ UNCHANGED rollbacks
    BY <1>4 DEF RecordKnown
  <2>2. PICK p \in Replica : /\ ReplicaMoves(r, n, p)
                             /\ p.state = At(r, n).state /\ p.recovery = "observed"
    BY <1>1, <2>1, RecoveringMoves DEF RecoveryStates
  <2>3. RollbackOK' /\ rollbacks' \in [1..MaxRollouts -> RollbackStates]
    BY <1>1, <2>1, <2>2, RollbackFrame DEF TypeOK
  <2>4. /\ scopes' \in [Nodes -> [last : 0..MaxRollouts, installed : 0..MaxRollouts]]
        /\ \A m \in Nodes \ {n} : scopes'[m] = scopes[m]
        /\ scopes'[n].last = scopes[n].last /\ scopes'[n].installed = o.applied
    BY <1>1, <1>3, <2>1 DEF TypeOK
  <2>5. o.applied <= Len(rollouts)
    <3>1. ReplicaOK(r, n) /\ r \in Nat /\ Len(rollouts) \in Nat /\ At(r, n).expected \in Nat
      BY <1>1, AtType DEF RolloutInv
    <3> QED
      BY <2>1, <3>1 DEF ReplicaOK, ObservedStateIsKnown
  <2>6. r = Len(rollouts) => gateways[n].applied = o.applied /\ gateways[n].applying = 0
    BY <1>3, <2>1 DEF RolloutInv, OutcomesOK
  <2> QED
    BY <1>1, <2>2, <2>3, <2>4, <2>5, <2>6, RecoveryStep
<1>5. CASE RecordUnknown(r, n, o)
  <2>1. /\ rollbacks[r] \in {"required", "diverged"} /\ Recovering(r, n, "diverged")
        /\ rollbacks' = [rollbacks EXCEPT ![r] = "diverged"] /\ UNCHANGED scopes
    BY <1>5 DEF RecordUnknown
  <2>2. PICK p \in Replica : /\ ReplicaMoves(r, n, p)
                             /\ p.state = At(r, n).state /\ p.recovery = "diverged"
    BY <1>1, <2>1, RecoveringMoves DEF RecoveryStates
  <2>3. /\ rollbacks' \in [1..MaxRollouts -> RollbackStates]
        /\ \A f \in 1..MaxRollouts : rollbacks'[f] = IF f = r THEN "diverged" ELSE rollbacks[f]
    BY <1>1, <2>1 DEF TypeOK, RollbackStates
  <2>4. RollbackOK'
    <3>1. /\ Len(rollouts') = Len(rollouts)
          /\ \A k \in 1..Len(rollouts) : rollouts'[k].of = rollouts[k].of
          /\ \A k \in 1..Len(rollouts), m \in Nodes : At(k, m)'.state = At(k, m).state
      BY <2>2 DEF ReplicaMoves
    <3>2. RollbackOK /\ \A k \in 1..Len(rollouts) : k \in 1..MaxRollouts
      BY <1>1, AtType, GatewayRolloutAssumption DEF RolloutInv
    <3>3. \A k \in 1..Len(rollouts) : rollouts[k].of # 0 => rollouts[k].of \in 1..MaxRollouts
      BY <1>1, OfType
    <3>4. ASSUME NEW f \in 1..Len(rollouts), NEW g \in 1..Len(rollouts), f < g, rollouts[g].of = 0
          PROVE  rollbacks'[f] \in {"none", "succeeded"}
      BY <2>1, <2>3, <3>2, <3>4 DEF RollbackOK
    <3>5. ASSUME NEW k \in 1..Len(rollouts), NEW m \in Nodes, rollouts[k].of # 0,
                 At(k, m).state = "pending"
          PROVE  rollbacks'[rollouts[k].of] = "staged"
      BY <2>1, <2>3, <3>2, <3>3, <3>5 DEF RollbackOK
    <3>6. ASSUME NEW f \in 1..MaxRollouts, rollbacks'[f] \in {"succeeded", "required"}
          PROVE  rollbacks'[f] = rollbacks[f]
      BY <2>3, <3>6
    <3>7. ASSUME NEW f \in 1..MaxRollouts, rollbacks'[f] = "succeeded"
          PROVE  \E k \in 1..Len(rollouts) :
                     rollouts'[k].of = f /\ \A m \in Nodes : At(k, m)'.state = "applied"
      <4>1. rollbacks[f] = "succeeded"
        BY <3>6, <3>7
      <4>2. PICK k \in 1..Len(rollouts) :
               rollouts[k].of = f /\ \A m \in Nodes : At(k, m).state = "applied"
        BY <3>2, <4>1 DEF RollbackOK
      <4> QED
        BY <3>1, <4>2
    <3>8. ASSUME NEW f \in 1..MaxRollouts, rollbacks'[f] = "required" PROVE f = Len(rollouts)
      <4>1. rollbacks[f] = "required"
        BY <3>6, <3>8
      <4> QED
        BY <3>2, <4>1 DEF RollbackOK
    <3>9. \A k \in 1..Len(rollouts) : rollouts'[k].of < k
      BY <3>1, <3>2 DEF RollbackOK
    <3> QED
      BY <3>1, <3>4, <3>5, <3>7, <3>8, <3>9 DEF RollbackOK
  <2> QED
    BY <1>1, <2>1, <2>2, <2>3, <2>4, RecoveryStep
<1>6. CASE RecordFailure(r, n, o)
  <2>1. PICK state \in {"required", "diverged"} : Recovering(r, n, state)
    BY <1>6 DEF RecordFailure
  <2>2. PICK p \in Replica : /\ ReplicaMoves(r, n, p)
                             /\ p.state = At(r, n).state /\ p.recovery = state
    BY <1>1, <2>1, RecoveringMoves DEF RecoveryStates
  <2>3. RollbackOK' /\ rollbacks' \in [1..MaxRollouts -> RollbackStates] /\ UNCHANGED scopes
    BY <1>1, <1>6, <2>2, RollbackFrame DEF TypeOK, RecordFailure
  <2> QED
    BY <1>1, <2>1, <2>2, <2>3, RecoveryStep
<1> QED
  BY <1>2, <1>4, <1>5, <1>6

\* What the last answer of a rollout may decide about rollbacks.
LEMMA RollbacksAfterValue ==
    ASSUME TypeOK, NEW r \in 1..MaxRollouts, NEW q \in Rollout
    PROVE  LET new == RollbacksAfter(r, q) IN
           /\ new \in [1..MaxRollouts -> RollbackStates]
           /\ \A f \in 1..MaxRollouts :
                 \/ new[f] = rollbacks[f]
                 \/ /\ q.of # 0 /\ f = q.of /\ Terminal(q) /\ new[f] \in {"succeeded", "diverged"}
                    /\ new[f] = "succeeded" => RolloutState(q) = "succeeded"
                 \/ q.of = 0 /\ f = r /\ new[f] = "required"
<1>1. rollbacks \in [1..MaxRollouts -> RollbackStates]
  BY DEF TypeOK
<1>2. {"required", "succeeded", "diverged"} \subseteq RollbackStates
  BY DEF RollbackStates
<1>3. CASE q.of # 0 /\ Terminal(q)
  <2>1. PICK s \in {"succeeded", "diverged"} :
           /\ RollbacksAfter(r, q) = [rollbacks EXCEPT ![q.of] = s]
           /\ s = "succeeded" => RolloutState(q) = "succeeded"
    BY <1>3 DEF RollbacksAfter
  <2> QED
    BY <1>1, <1>2, <1>3, <2>1
<1>4. CASE q.of = 0 /\ RollbacksAfter(r, q) = [rollbacks EXCEPT ![r] = "required"]
  BY <1>1, <1>2, <1>4
<1>5. CASE RollbacksAfter(r, q) = rollbacks
  BY <1>1, <1>5
<1> QED
  BY <1>3, <1>4, <1>5 DEF RollbacksAfter

\* When the last answer decides a rollout, the rollback it may require is that of the latest one
LEMMA AnsweredRollbacks ==
    ASSUME RolloutInv, NEW r \in 1..Len(rollouts), NEW n \in Nodes, NEW p \in Replica,
           ReplicaMoves(r, n, p), At(r, n).state = "pending", p.state # "pending",
           rollbacks' = RollbacksAfter(r, rollouts'[r])
    PROVE  RollbackOK' /\ rollbacks' \in [1..MaxRollouts -> RollbackStates]
<1> DEFINE q == rollouts'[r]
<1>1. /\ rollouts' \in Seq(Rollout) /\ Len(rollouts') = Len(rollouts)
      /\ \A k \in 1..Len(rollouts) : rollouts'[k].of = rollouts[k].of
      /\ \A k \in 1..Len(rollouts), m \in Nodes :
            At(k, m)' = IF k = r /\ m = n THEN p ELSE At(k, m)
  BY DEF ReplicaMoves
<1>2. TypeOK /\ RollbackOK /\ r = Len(rollouts) /\ r \in 1..MaxRollouts /\ r \in Nat
  BY AtType, GatewayRolloutAssumption DEF RolloutInv, ReplicaOK
<1>3. q \in Rollout /\ q.of = rollouts[r].of /\ \A m \in Nodes : At(r, m)' = q.replicas[m]
  BY <1>1 DEF At
<1> HIDE DEF q
<1>4. /\ rollbacks' \in [1..MaxRollouts -> RollbackStates]
      /\ \A f \in 1..MaxRollouts :
            \/ rollbacks'[f] = rollbacks[f]
            \/ /\ q.of # 0 /\ f = q.of /\ Terminal(q) /\ rollbacks'[f] \in {"succeeded", "diverged"}
               /\ rollbacks'[f] = "succeeded" => RolloutState(q) = "succeeded"
            \/ q.of = 0 /\ f = r /\ rollbacks'[f] = "required"
  <2>1. rollbacks' = RollbacksAfter(r, q)
    BY DEF q
  <2> QED
    BY <1>2, <1>3, <2>1, RollbacksAfterValue
<1>5. \A k \in 1..Len(rollouts) : k \in 1..MaxRollouts /\ k \in Nat /\ rollouts[k].of \in 0..MaxRollouts
      /\ (rollouts[k].of # 0 => rollouts[k].of \in 1..MaxRollouts)
  BY <1>2, OfType, AtType, GatewayRolloutAssumption
<1>6. q.of # 0 => rollbacks[q.of] = "staged"
  BY <1>2, <1>3 DEF RollbackOK
<1>7. ASSUME NEW f \in 1..Len(rollouts), NEW g \in 1..Len(rollouts), f < g, rollouts[g].of = 0
      PROVE  rollbacks'[f] \in {"none", "succeeded"}
  <2>1. rollbacks[f] \in {"none", "succeeded"}
    BY <1>2, <1>7 DEF RollbackOK
  <2>2. f # r
    BY <1>2, <1>5, <1>7
  <2>3. ~(q.of # 0 /\ f = q.of)
    BY <1>6, <2>1
  <2> QED
    BY <1>4, <1>5, <2>1, <2>2, <2>3
<1>8. ASSUME NEW k \in 1..Len(rollouts), NEW m \in Nodes, rollouts[k].of # 0,
             At(k, m)'.state = "pending"
      PROVE  rollbacks'[rollouts[k].of] = "staged"
  <2>1. At(k, m)' = At(k, m) /\ At(k, m).state = "pending"
    BY <1>1, <1>8
  <2>2. k = r
    BY <1>2, <2>1 DEF RolloutInv, ReplicaOK
  <2>3. ~Terminal(q)
    BY <1>3, <1>8, <2>2, TerminalStates
  <2> QED
    BY <1>3, <1>4, <1>5, <1>6, <1>8, <2>2, <2>3
<1>9. ASSUME NEW f \in 1..MaxRollouts, rollbacks'[f] = "succeeded"
      PROVE  \E k \in 1..Len(rollouts) :
                 rollouts'[k].of = f /\ \A m \in Nodes : At(k, m)'.state = "applied"
  <2>1. CASE rollbacks[f] = "succeeded"
    <3>1. PICK k \in 1..Len(rollouts) :
             rollouts[k].of = f /\ \A m \in Nodes : At(k, m).state = "applied"
      BY <1>2, <2>1 DEF RollbackOK
    <3>2. k # r
      BY <3>1
    <3> QED
      BY <1>1, <3>1, <3>2
  <2>2. CASE f = q.of /\ RolloutState(q) = "succeeded"
    <3>1. \A m \in Nodes : At(r, m)'.state = "applied"
      BY <1>3, <2>2, TerminalStates
    <3> QED
      BY <1>1, <1>3, <2>2, <3>1
  <2> QED
    BY <1>4, <1>9, <2>1, <2>2
<1>10. ASSUME NEW f \in 1..MaxRollouts, rollbacks'[f] = "required" PROVE f = Len(rollouts)
  <2>1. rollbacks[f] = "required" \/ f = r
    BY <1>4, <1>10
  <2> QED
    BY <1>2, <2>1 DEF RollbackOK
<1>11. \A k \in 1..Len(rollouts) : rollouts'[k].of < k
  BY <1>1, <1>2 DEF RollbackOK
<1>12. RollbackOK'
  BY <1>1, <1>7, <1>8, <1>9, <1>10, <1>11 DEF RollbackOK
<1> QED
  BY <1>4, <1>12

\* The rollout reconciler marks a silent member unavailable: it is then in doubt
LEMMA MarkUnavailableStep ==
    ASSUME RolloutInv, NEW r \in 1..Len(rollouts), NEW n \in Nodes, MarkUnavailable(r, n)
    PROVE  RolloutInv'
<1>1. /\ TypeOK /\ At(r, n).state = "pending" /\ Install(r, n) \in expired
      /\ Answered(r, n, "unavailable", "required")
      /\ UNCHANGED <<required, scopes, gateways, mailbox, settled, agents,
                     outcomes, expired, overlapped, faults>>
  BY DEF RolloutInv, MarkUnavailable
<1>2. PICK p \in Replica : /\ ReplicaMoves(r, n, p)
                           /\ p.state = "unavailable" /\ p.recovery = "required"
                           /\ rollbacks' = RollbacksAfter(r, rollouts'[r])
  BY <1>1, AnsweredMoves DEF ReplicaStates, RecoveryStates
<1>3. /\ rollouts' \in Seq(Rollout) /\ Len(rollouts') = Len(rollouts)
      /\ \A k \in 1..Len(rollouts), m \in Nodes :
            At(k, m)' = IF k = r /\ m = n THEN p ELSE At(k, m)
      /\ p.revision = At(r, n).revision /\ p.expected = At(r, n).expected
  BY <1>2 DEF ReplicaMoves
<1>4. ReplicaOK(r, n) /\ ScopeOK(n) /\ PhysicalOK(n) /\ At(r, n)' = p
      /\ DOMAIN rollouts' = 1..Len(rollouts)
  BY <1>3 DEF RolloutInv
<1>5. RollbackOK' /\ rollbacks' \in [1..MaxRollouts -> RollbackStates]
  BY <1>1, <1>2, AnsweredRollbacks
<1>6. TypeOK'
  BY <1>1, <1>3, <1>5 DEF TypeOK
<1>7. ReplicaOK(r, n)' /\ AnswerOK(r, n)' /\ ScopeOK(n)'
  BY <1>1, <1>2, <1>3, <1>4 DEF ReplicaOK, AnswerOK, ScopeOK
<1>8. PhysicalOK(n)'
  <2>1. InDoubt(n)'
    BY <1>2, <1>4 DEF InDoubt
  <2>2. r = Len(rollouts)
    BY <1>1, <1>4 DEF ReplicaOK
  <2>3. \A k \in 1..Len(rollouts) : k < Len(rollouts) => At(k, n)' = At(k, n)
    BY <1>3, <2>2
  <2>4. \A k \in 1..Len(rollouts) : At(k, n)'.state # "pending"
    BY <1>2, <1>3, <2>2 DEF RolloutInv, ReplicaOK
  <2> QED
    BY <1>1, <1>3, <1>4, <2>1, <2>3, <2>4 DEF PhysicalOK
<1>9. StateMoves(At(r, n).state, p.state)
  BY <1>1, <1>2 DEF StateMoves
<1>10. AgentMoves(n) /\ \A m \in Nodes \ {n} : SameNode(m)
  BY <1>1 DEF AgentMoves, SameNode
<1> QED
  BY <1>1, <1>2, <1>5, <1>6, <1>7, <1>8, <1>9, <1>10, ReplicaStep

\* Edge takes the node's answer to an installation.
LEMMA AcknowledgeGatewayStep ==
    ASSUME RolloutInv, NEW n \in Nodes, AcknowledgeGateway(n) PROVE RolloutInv'
<1> DEFINE c == NextCommand(n)
           result == agents[n].result
<1>1. /\ agents[n].phase = "delivering" /\ IsGatewayAck(n) /\ Phase(n, "settling")
      /\ UNCHANGED <<required, gateways, mailbox, settled, outcomes, expired,
                     overlapped, faults>>
  BY DEF AcknowledgeGateway
<1>2. TypeOK /\ AgentOK(n) /\ ScopeOK(n) /\ PhysicalOK(n) /\ HasCommand(n)
      /\ agents \in [Nodes -> Agent]
  BY <1>1 DEF RolloutInv, AgentOK, TypeOK
<1>3. PICK r \in 1..Len(rollouts) :
         /\ r = NextCommand(n).rollout /\ c = Install(r, n)
         /\ settled[n] + 1 \in 1..Len(mailbox[n])
         /\ result \in {"applied", "rejected"} /\ c = mailbox[n][settled[n] + 1]
  BY <1>1, <1>2, NextFacts DEF IsGatewayAck, NextCommand
<1>4. /\ agents' \in [Nodes -> Agent] /\ agents'[n].phase = "settling"
      /\ agents'[n].result = agents[n].result /\ agents'[n].applied = agents[n].applied
      /\ \A m \in Nodes \ {n} : agents'[m] = agents[m]
  BY <1>1, <1>2 DEF Phase, Agent
<1>5. AgentMoves(n)
  BY <1>1, <1>4 DEF AgentMoves
<1>6. /\ gateways[n].applying = 0
      /\ result = "applied" => gateways[n].applied = r
      /\ result = "rejected" => gateways[n].applied # r
  BY <1>1, <1>2, <1>3 DEF AgentOK
<1>7. CASE UNCHANGED <<rollouts, rollbacks, scopes>>
  <2>1. TypeOK'
    BY <1>1, <1>2, <1>4, <1>7 DEF TypeOK
  <2>2. \A m \in Nodes \ {n} : SameNode(m)
    BY <1>1, <1>4, <1>7 DEF SameNode
  <2>3. settled'[n] <= Len(mailbox[n])
    BY <1>1 DEF RolloutInv, MailboxOK
  <2>4. (HasCommand(n)' <=> HasCommand(n)) /\ NextCommand(n)' = NextCommand(n)
    BY <1>1 DEF HasCommand, NextCommand
  <2>5. AgentOK(n)'
    BY <1>1, <1>2, <1>4, <1>7, <2>4 DEF AgentOK, IsGatewayAck
  <2>6. ASSUME NEW k \in 1..Len(rollouts) PROVE AnswerOK(k, n)'
    <3>1. AnswerOK(k, n)
      BY DEF RolloutInv
    <3>2. Answers(k, n) => Answers(k, n)'
      BY <1>1, <1>4 DEF Answers
    <3> QED
      BY <1>1, <1>7, <3>1, <3>2 DEF AnswerOK, At
  <2>7. PhysicalOK(n)'
    BY <1>1, <1>7 DEF RolloutInv, PhysicalOK, Installing, Diverged, InDoubt, At
  <2>8. OutcomesOK'
    BY <1>1, <1>7 DEF RolloutInv, OutcomesOK, At
  <2> QED
    BY <1>1, <1>7, <2>1, <2>2, <2>3, <2>5, <2>6, <2>7, <2>8, NodeStep
<1>8. CASE /\ At(r, n).state = "pending"
           /\ Answered(r, n, result, "none")
           /\ scopes' = IF result = "applied"
                        THEN [scopes EXCEPT ![n].installed = At(r, n).revision]
                        ELSE scopes
  <2> HIDE DEF c, result
  <2>1. PICK p \in Replica : /\ ReplicaMoves(r, n, p)
                             /\ p.state = result /\ p.recovery = "none"
                             /\ rollbacks' = RollbacksAfter(r, rollouts'[r])
    BY <1>2, <1>3, <1>8, AnsweredMoves DEF ReplicaStates, RecoveryStates
  <2>2. /\ rollouts' \in Seq(Rollout) /\ Len(rollouts') = Len(rollouts)
        /\ \A k \in 1..Len(rollouts), m \in Nodes :
              At(k, m)' = IF k = r /\ m = n THEN p ELSE At(k, m)
        /\ p.revision = At(r, n).revision /\ p.expected = At(r, n).expected
    BY <2>1 DEF ReplicaMoves
  <2>3. ReplicaOK(r, n) /\ At(r, n)' = p /\ r \in 1..MaxRollouts /\ r \in Nat
        /\ r = Len(rollouts) /\ At(r, n).revision = r /\ At(r, n).recovery = "none"
        /\ DOMAIN rollouts' = 1..Len(rollouts) /\ DOMAIN rollouts = 1..Len(rollouts)
    BY <1>2, <1>3, <1>8, <2>2, AtType, GatewayRolloutAssumption DEF RolloutInv, ReplicaOK
  <2>4. RollbackOK' /\ rollbacks' \in [1..MaxRollouts -> RollbackStates]
    BY <1>3, <1>8, <2>1, AnsweredRollbacks
  <2>5. /\ scopes' \in [Nodes -> [last : 0..MaxRollouts, installed : 0..MaxRollouts]]
        /\ \A m \in Nodes \ {n} : scopes'[m] = scopes[m]
        /\ scopes'[n].last = scopes[n].last
        /\ result = "applied" => scopes'[n].installed = r
        /\ result = "rejected" => scopes'[n].installed = scopes[n].installed
    <3>1. scopes \in [Nodes -> [last : 0..MaxRollouts, installed : 0..MaxRollouts]]
          /\ r \in 0..MaxRollouts
      BY <1>2, <2>3 DEF TypeOK
    <3>2. CASE result = "applied"
      BY <1>8, <2>3, <3>1, <3>2
    <3>3. CASE result # "applied"
      BY <1>8, <3>1, <3>3
    <3> QED
      BY <3>2, <3>3
  <2>6. TypeOK'
    BY <1>1, <1>2, <1>4, <2>2, <2>4, <2>5 DEF TypeOK
  <2>7. \A m \in Nodes \ {n} : SameNode(m)
    BY <1>1, <1>4, <2>5 DEF SameNode
  <2>8. ReplicaOK(r, n)'
    BY <1>3, <2>1, <2>2, <2>3 DEF ReplicaOK
  <2>9. AnswerOK(r, n)'
    <3>1. Answers(r, n)'
      BY <1>1, <1>3, <1>4 DEF Answers
    <3> QED
      BY <1>1, <1>6, <2>1, <2>3, <3>1 DEF AnswerOK
  <2>10. ScopeOK(n)'
    BY <1>2, <1>3, <2>2, <2>3, <2>5 DEF ScopeOK
  <2>11. PhysicalOK(n)'
    <3>1. \A k \in 1..Len(rollouts) : At(k, n)'.recovery = At(k, n).recovery
      BY <2>1, <2>2, <2>3
    <3>2. Diverged(n)' <=> Diverged(n)
      BY <2>3, <3>1 DEF Diverged
    <3>3. \A k \in 1..Len(rollouts) : At(k, n)'.state # "pending"
      BY <1>3, <2>1, <2>2, <2>3 DEF RolloutInv, ReplicaOK
    <3>4. n \notin overlapped /\ ~Diverged(n) => gateways[n].applied = scopes'[n].installed
      <4>1. n \notin overlapped /\ ~Diverged(n) => Installing(n, r, scopes[n].installed)
        BY <1>2, <1>3, <1>8 DEF PhysicalOK
      <4> QED
        BY <1>3, <1>6, <2>5, <4>1 DEF Installing
    <3> QED
      BY <1>1, <1>2, <1>6, <2>2, <3>1, <3>2, <3>3, <3>4 DEF PhysicalOK
  <2>12. StateMoves(At(r, n).state, p.state)
    BY <1>3, <1>8, <2>1 DEF StateMoves
  <2> QED
    BY <1>1, <1>3, <1>5, <2>1, <2>4, <2>6, <2>7, <2>8, <2>9, <2>10, <2>11, <2>12, ReplicaStep
<1> QED
  BY <1>3, <1>7, <1>8 DEF AcknowledgeGateway

-----------------------------------------------------------------------------
(* Staging.                                                                *)

\* A staged snapshot expects what the scope has installed, and nothing else is under way
LEMMA StageStep ==
    ASSUME RolloutInv, NEW of \in 0..Len(rollouts), ScopeHasNoActiveRollout, InsertRollout(of),
           UNCHANGED <<required, gateways, mailbox, settled, agents, outcomes, expired, faults>>,
           of = 0 => ScopeHasNoUnresolvedRollback /\ UNCHANGED rollbacks,
           of # 0 => rollbacks[of] = "required" /\ rollbacks' = [rollbacks EXCEPT ![of] = "staged"]
    PROVE  RolloutInv'
<1>0. PICK L \in Nat : L = Len(rollouts)
  BY DEF RolloutInv, TypeOK
<1> DEFINE last == L + 1
<1>1. /\ TypeOK /\ RollbackOK /\ rollouts \in Seq(Rollout) /\ MaxRollouts \in Nat
      /\ L < MaxRollouts /\ DOMAIN rollouts = 1..L
      /\ scopes \in [Nodes -> [last : 0..MaxRollouts, installed : 0..MaxRollouts]]
      /\ rollbacks \in [1..MaxRollouts -> RollbackStates]
  BY <1>0, GatewayRolloutAssumption DEF RolloutInv, TypeOK, InsertRollout
<1>2. \A m \in Nodes : scopes[m].last = L /\ scopes[m].installed \in 0..L
  <2>1. \A m \in Nodes : ScopeOK(m) /\ scopes[m].installed \in Nat
    BY <1>1, NodeTypes DEF RolloutInv
  <2> QED
    BY <1>0, <1>1, <2>1 DEF ScopeOK
<1>3. PICK q \in Rollout :
         /\ rollouts' = Append(rollouts, q) /\ q.of = of
         /\ \A m \in Nodes : /\ q.replicas[m].revision = last
                             /\ q.replicas[m].expected = scopes[m].installed
                             /\ q.replicas[m].state = "pending"
                             /\ q.replicas[m].recovery = "none"
  <2> DEFINE q == Staged(of)
  <2>1. q.of = of /\ of \in 0..MaxRollouts
    BY <1>0, <1>1 DEF Staged
  <2>2. q.replicas = [m \in Nodes |->
            [revision |-> scopes[m].last + 1, expected |-> scopes[m].installed,
             state |-> "pending", recovery |-> "none", attempt |-> 0]]
    BY DEF Staged
  <2>3. ASSUME NEW m \in Nodes
        PROVE  /\ q.replicas[m].revision = last /\ q.replicas[m].expected = scopes[m].installed
               /\ q.replicas[m].state = "pending" /\ q.replicas[m].recovery = "none"
               /\ q.replicas[m] \in Replica
    <3>1. /\ last \in 1..MaxRollouts /\ scopes[m].installed \in 0..MaxRollouts
          /\ scopes[m].last + 1 = last /\ "pending" \in ReplicaStates /\ "none" \in RecoveryStates
      BY <1>1, <1>2 DEF ReplicaStates, RecoveryStates
    <3> HIDE DEF q, last
    <3>2. q.replicas[m] = [revision |-> last, expected |-> scopes[m].installed,
                           state |-> "pending", recovery |-> "none", attempt |-> 0]
      BY <2>2, <3>1
    <3> QED
      BY <3>1, <3>2 DEF Replica
  <2>4. q \in Rollout
    <3>1. q.replicas \in [Nodes -> Replica]
      <4> HIDE DEF q
      <4> QED
        BY <2>2, <2>3
    <3> QED
      BY <2>1, <3>1 DEF Rollout, Staged
  <2>5. rollouts' = Append(rollouts, q)
    BY DEF InsertRollout
  <2> HIDE DEF q
  <2> QED
    BY <2>1, <2>3, <2>4, <2>5
<1>4. /\ rollouts' \in Seq(Rollout) /\ Len(rollouts') = last /\ rollouts'[last] = q
      /\ \A k \in 1..L : rollouts'[k] = rollouts[k]
      /\ DOMAIN rollouts' = 1..last
  BY <1>0, <1>1, <1>3
<1>5. /\ \A k \in 1..L, m \in Nodes : At(k, m)' = At(k, m) /\ At(k, m).state # "pending"
      /\ \A m \in Nodes : At(last, m)' = q.replicas[m]
  <2>1. \A k \in 1..L, m \in Nodes : At(k, m).state # "pending"
    BY <1>0, <1>1, NoActiveRollout
  <2>2. \A k \in 1..L, m \in Nodes : At(k, m)' = At(k, m)
    BY <1>4 DEF At
  <2> QED
    BY <1>4, <2>1, <2>2 DEF At
<1>6. \A k \in 1..last : k \in 1..L \/ k = last
  BY <1>1
<1>7. /\ scopes' \in [Nodes -> [last : 0..MaxRollouts, installed : 0..MaxRollouts]]
      /\ \A m \in Nodes : scopes'[m].last = last /\ scopes'[m].installed = scopes[m].installed
  <2>1. scopes' = [m \in Nodes |-> [scopes[m] EXCEPT !.last = @ + 1]]
    BY DEF InsertRollout
  <2>2. ASSUME NEW m \in Nodes
        PROVE  /\ scopes'[m] \in [last : 0..MaxRollouts, installed : 0..MaxRollouts]
               /\ scopes'[m].last = last /\ scopes'[m].installed = scopes[m].installed
    <3>1. scopes[m].last + 1 = last /\ last \in 0..MaxRollouts
      BY <1>1, <1>2
    <3>2. scopes[m] \in [last : 0..MaxRollouts, installed : 0..MaxRollouts]
      BY <1>1
    <3> HIDE DEF last
    <3> QED
      BY <2>1, <3>1, <3>2
  <2> QED
    BY <2>1, <2>2
<1>8. overlapped' = overlapped \cup {n \in Nodes : RecoveryOutstanding(n)}
  BY DEF InsertRollout
<1>9. /\ rollbacks' \in [1..MaxRollouts -> RollbackStates]
      /\ \A f \in 1..MaxRollouts :
            rollbacks'[f] = IF of # 0 /\ f = of THEN "staged" ELSE rollbacks[f]
  BY <1>1 DEF RollbackStates
<1>10. TypeOK'
  <2>1. overlapped' \subseteq Nodes /\ Len(rollouts') <= MaxRollouts
    BY <1>1, <1>4, <1>8 DEF TypeOK
  <2> QED
    BY <1>1, <1>4, <1>7, <1>9, <2>1 DEF TypeOK
<1>11. last \in Nat /\ last > L /\ ~(last <= L) /\ last # 0
  BY <1>0
<1> HIDE DEF last
<1>12. ASSUME NEW k \in 1..last, NEW m \in Nodes PROVE ReplicaOK(k, m)' /\ AnswerOK(k, m)'
  <2>1. CASE k \in 1..L
    <3>1. ReplicaOK(k, m) /\ AnswerOK(k, m) /\ At(k, m)' = At(k, m) /\ At(k, m).state # "pending"
      BY <1>0, <1>5, <2>1 DEF RolloutInv
    <3>2. ReplicaOK(k, m)'
      BY <3>1 DEF ReplicaOK
    <3>3. AnswerOK(k, m)'
      BY <3>1 DEF AnswerOK, Answers
    <3> QED
      BY <3>2, <3>3
  <2>2. CASE k = last
    <3>1. /\ At(k, m)'.revision = k /\ At(k, m)'.expected = scopes[m].installed
          /\ At(k, m)'.state = "pending" /\ At(k, m)'.recovery = "none"
      BY <1>3, <1>5, <2>2
    <3>2. scopes[m].installed < last
      BY <1>0, <1>2, <1>11
    <3> QED
      BY <1>4, <2>2, <3>1, <3>2 DEF ReplicaOK, AnswerOK
  <2> QED
    BY <1>6, <2>1, <2>2
<1>13. ASSUME NEW m \in Nodes PROVE ScopeOK(m)' /\ MailboxOK(m)' /\ AgentOK(m)'
  <2>1. ScopeOK(m)'
    BY <1>0, <1>2, <1>4, <1>7, <1>11 DEF ScopeOK
  <2>2. \A k \in 1..L : k \in 1..last /\ k # last
    BY <1>0, <1>11
  <2>3. MailboxOK(m)'
    <3>1. MailboxOK(m)
      BY DEF RolloutInv
    <3>2. ASSUME NEW i \in 1..Len(mailbox[m])
          PROVE  LET c == mailbox[m][i] IN
                 /\ c.node = m /\ c.rollout \in 1..last
                 /\ c.kind = "install" => c = Install(c.rollout, m)
                 /\ c.kind = "observe" => At(c.rollout, m)'.state = "unavailable"
      BY <1>0, <1>5, <2>2, <3>1 DEF MailboxOK
    <3> QED
      BY <1>4, <3>1, <3>2 DEF MailboxOK
  <2>4. AgentOK(m)'
    <3>1. AgentOK(m)
      BY DEF RolloutInv
    <3>2. (HasCommand(m)' <=> HasCommand(m)) /\ NextCommand(m)' = NextCommand(m)
      BY DEF HasCommand, NextCommand
    <3>3. HasCommand(m) =>
             /\ NextCommand(m).rollout \in 1..L /\ NextCommand(m).rollout # last
             /\ Candidate(m)' = Candidate(m)
      <4>1. HasCommand(m) => NextCommand(m).rollout \in 1..L
        BY <1>0, NextFacts
      <4> QED
        BY <1>5, <2>2, <3>2, <4>1 DEF Candidate
    <3>4. CASE agents[m].phase = "idle"
      BY <3>4 DEF AgentOK
    <3>5. CASE agents[m].phase # "idle"
      BY <1>4, <3>1, <3>2, <3>3, <3>5 DEF AgentOK, Installing, IsGatewayAck
    <3> QED
      BY <3>4, <3>5
  <2> QED
    BY <2>1, <2>3, <2>4
<1>14. ASSUME NEW m \in Nodes PROVE PhysicalOK(m)'
  <2> SUFFICES ASSUME m \notin overlapped'
               PROVE  /\ \A k \in 1..last :
                            k < last => At(k, m)'.recovery \notin {"required", "observing"}
                      /\ ~Diverged(m)' =>
                            /\ \A k \in 1..last :
                                  At(k, m)'.state = "pending" =>
                                      /\ At(k, m)'.expected = scopes'[m].installed
                                      /\ Installing(m, k, scopes[m].installed)'
                            /\ InDoubt(m)'
    BY <1>4 DEF PhysicalOK
  <2>1. m \notin overlapped /\ ~RecoveryOutstanding(m)
    BY <1>8
  <2>2. \A k \in 1..L : At(k, m).recovery \notin {"required", "observing"}
    BY <1>1, <2>1 DEF RecoveryOutstanding
  <2>3. ASSUME NEW k \in 1..last, k < last PROVE At(k, m)'.recovery \notin {"required", "observing"}
    BY <1>5, <1>6, <2>2, <2>3
  <2>4. InDoubt(m)'
    <3>1. last \in DOMAIN rollouts' /\ At(last, m)'.state = "pending"
      BY <1>3, <1>4, <1>5, <1>11
    <3> QED
      BY <3>1 DEF InDoubt
  <2>5. ASSUME ~Diverged(m)', NEW k \in 1..last, At(k, m)'.state = "pending"
        PROVE  /\ At(k, m)'.expected = scopes'[m].installed
               /\ Installing(m, k, scopes[m].installed)'
    <3>1. k = last /\ At(k, m)'.expected = scopes[m].installed
      BY <1>3, <1>5, <1>6, <2>5
    <3>2. \A j \in 1..L : At(j, m).recovery # "diverged"
      <4>1. \A j \in 1..L : j \in DOMAIN rollouts'
        BY <1>0, <1>4, <1>11
      <4> QED
        BY <1>5, <2>5, <4>1 DEF Diverged
    <3>3. ~Diverged(m) /\ ~InDoubt(m)
      BY <1>1, <1>5, <2>2, <3>2 DEF Diverged, InDoubt
    <3>4. gateways[m].applied = scopes[m].installed /\ gateways[m].applying = 0
      BY <2>1, <3>3 DEF RolloutInv, PhysicalOK
    <3> QED
      BY <1>7, <3>1, <3>4 DEF Installing
  <2> QED
    BY <2>3, <2>4, <2>5
<1>15. OutcomesOK'
  <2>1. ASSUME NEW o \in outcomes
        PROVE  /\ o.command.kind = "observe" /\ o.command.rollout \in 1..L
               /\ o.command.rollout # last /\ o.command.rollout \in 1..last
               /\ At(o.command.rollout, o.command.node)'.state = "unavailable"
    <3>1. o.command.node \in Nodes
      BY <1>1 DEF TypeOK, Command
    <3>2. o.command.kind = "observe" /\ o.command.rollout \in 1..L
          /\ At(o.command.rollout, o.command.node).state = "unavailable"
      BY <1>0 DEF RolloutInv, OutcomesOK
    <3>3. o.command.rollout # last /\ o.command.rollout \in 1..last
      BY <1>0, <1>11, <3>2
    <3> QED
      BY <1>5, <3>1, <3>2, <3>3
  <2> QED
    BY <1>4, <2>1 DEF OutcomesOK
<1>16. RollbackOK'
  <2>1. /\ \A k \in 1..L : rollouts'[k].of = rollouts[k].of /\ k \in 1..MaxRollouts
        /\ rollouts'[last].of = of
    BY <1>1, <1>3, <1>4
  <2>2. of # 0 => of = L
    BY <1>0, <1>1 DEF RollbackOK
  <2>3. \A k \in 1..last : rollouts'[k].of < k
    <3>1. \A k \in 1..L : rollouts[k].of < k
      BY <1>0, <1>1 DEF RollbackOK
    <3>2. of < last
      BY <1>0, <1>11, <2>2
    <3> QED
      BY <1>6, <2>1, <3>1, <3>2
  <2>4. ASSUME NEW f \in 1..last, NEW g \in 1..last, f < g, rollouts'[g].of = 0
        PROVE  rollbacks'[f] \in {"none", "succeeded"}
    <3>1. f \in 1..L
      BY <1>6, <2>4, <1>11
    <3>2. CASE g \in 1..L
      <4>1. rollbacks[f] \in {"none", "succeeded"}
        BY <1>0, <1>1, <2>1, <2>4, <3>1, <3>2 DEF RollbackOK
      <4>2. f # L
        BY <1>0, <2>4, <3>2
      <4> QED
        BY <1>9, <2>1, <2>2, <3>1, <4>1, <4>2
    <3>3. CASE g = last
      BY <1>1, <1>9, <2>1, <2>4, <3>1, <3>3 DEF ScopeHasNoUnresolvedRollback
    <3> QED
      BY <1>6, <3>2, <3>3
  <2>5. ASSUME NEW k \in 1..last, NEW m \in Nodes, rollouts'[k].of # 0, At(k, m)'.state = "pending"
        PROVE  rollbacks'[rollouts'[k].of] = "staged"
    <3>1. k = last
      BY <1>5, <1>6, <2>5
    <3>2. of \in 1..MaxRollouts
      BY <1>0, <1>1, <2>1, <2>5, <3>1
    <3> QED
      BY <1>9, <2>1, <2>5, <3>1, <3>2
  <2>6. ASSUME NEW f \in 1..MaxRollouts, rollbacks'[f] = "succeeded"
        PROVE  \E k \in 1..last :
                   rollouts'[k].of = f /\ \A m \in Nodes : At(k, m)'.state = "applied"
    <3>1. rollbacks[f] = "succeeded"
      BY <1>9, <2>6
    <3>2. PICK k \in 1..L : rollouts[k].of = f /\ \A m \in Nodes : At(k, m).state = "applied"
      BY <1>0, <1>1, <3>1 DEF RollbackOK
    <3>3. k \in 1..last
      BY <1>0, <1>11
    <3> QED
      BY <1>5, <2>1, <3>2, <3>3
  <2>7. ASSUME NEW f \in 1..MaxRollouts, rollbacks'[f] = "required" PROVE f = last
    <3>1. rollbacks[f] = "required" /\ ~(of # 0 /\ f = of)
      BY <1>9, <2>7
    <3>2. f = L
      BY <1>0, <1>1, <3>1 DEF RollbackOK
    <3>3. of = 0 /\ f \in DOMAIN rollouts
      BY <1>0, <1>1, <2>2, <3>1, <3>2
    <3> QED
      BY <3>1, <3>3 DEF ScopeHasNoUnresolvedRollback
  <2> QED
    BY <1>4, <2>3, <2>4, <2>5, <2>6, <2>7 DEF RollbackOK
<1> QED
  BY <1>4, <1>10, <1>12, <1>13, <1>14, <1>15, <1>16 DEF RolloutInv

\* An ordinary rollout is staged only when no rollback is unresolved
LEMMA StageRolloutStep ==
    ASSUME RolloutInv, StageRollout PROVE RolloutInv'
<1>1. 0 \in 0..Len(rollouts)
  BY DEF RolloutInv, TypeOK
<1> QED
  BY <1>1, StageStep DEF StageRollout

\* A rollback is staged once, over what is known of every member
LEMMA StageRollbackStep ==
    ASSUME RolloutInv, NEW r \in 1..Len(rollouts), StageRollback(r) PROVE RolloutInv'
<1>1. r \in 0..Len(rollouts) /\ r # 0
  BY DEF RolloutInv, TypeOK
<1> QED
  BY <1>1, StageStep DEF StageRollback

-----------------------------------------------------------------------------
(* The theorems.                                                           *)

\* No rollout is staged and no Gateway runs one
LEMMA InitInv == Init => RolloutInv
<1> SUFFICES ASSUME Init PROVE RolloutInv
  OBVIOUS
<1> USE DEF Init
<1>1. MaxRollouts \in Nat /\ MaxFaults \in Nat /\ 0 \in 0..MaxRollouts /\ 0 \in 0..MaxFaults
  BY GatewayRolloutAssumption
<1>2. Len(rollouts) = 0 /\ rollouts \in Seq(Rollout) /\ 1..Len(rollouts) = {}
      /\ DOMAIN rollouts = {}
  OBVIOUS
<1>3. \A n \in Nodes : /\ scopes[n].last = 0 /\ scopes[n].installed = 0
                       /\ gateways[n].applied = 0 /\ gateways[n].applying = 0
                       /\ mailbox[n] = <<>> /\ settled[n] = 0 /\ agents[n].phase = "idle"
  OBVIOUS
<1>4. TypeOK
  <2>1. rollbacks \in [1..MaxRollouts -> RollbackStates]
    BY DEF RollbackStates
  <2>2. /\ scopes \in [Nodes -> [last : 0..MaxRollouts, installed : 0..MaxRollouts]]
        /\ gateways \in [Nodes -> [applied : 0..MaxRollouts, applying : 0..MaxRollouts]]
        /\ mailbox \in [Nodes -> Seq(Command)] /\ settled \in [Nodes -> Nat]
    BY <1>1
  <2>3. agents \in [Nodes -> Agent]
    BY <1>1 DEF Agent
  <2> QED
    BY <1>1, <1>2, <2>1, <2>2, <2>3 DEF TypeOK
<1>5. ASSUME NEW n \in Nodes PROVE ScopeOK(n) /\ MailboxOK(n) /\ AgentOK(n) /\ PhysicalOK(n)
  <2>1. ScopeOK(n)
    BY <1>2, <1>3 DEF ScopeOK
  <2>2. MailboxOK(n)
    <3>1. Len(mailbox[n]) = 0 /\ settled[n] = 0
      BY <1>3
    <3> QED
      BY <3>1 DEF MailboxOK
  <2>3. AgentOK(n)
    BY <1>3 DEF AgentOK
  <2>4. PhysicalOK(n)
    BY <1>2, <1>3 DEF PhysicalOK
  <2> QED
    BY <2>1, <2>2, <2>3, <2>4
<1>6. OutcomesOK
  BY DEF OutcomesOK
<1>7. RollbackOK
  BY <1>2 DEF RollbackOK
<1> QED
  BY <1>2, <1>4, <1>5, <1>6, <1>7 DEF RolloutInv

\* Every step of Edge, the agents and the Gateways keeps the invariant
LEMMA NextInv == RolloutInv /\ [Next]_vars => RolloutInv'
<1> SUFFICES ASSUME RolloutInv, [Next]_vars PROVE RolloutInv'
  OBVIOUS
<1>0. DOMAIN rollouts = 1..Len(rollouts)
  BY DEF RolloutInv, TypeOK
<1>1. CASE StageRollout
  BY <1>1, StageRolloutStep
<1>2. CASE \E r \in DOMAIN rollouts : StageRollback(r)
  BY <1>0, <1>2, StageRollbackStep
<1>3. CASE \E r \in DOMAIN rollouts, n \in Nodes :
              Reconcile(r, n) \/ InstallExpires(r, n) \/ ObservationExpires(r, n)
  BY <1>0, <1>3, DispatchInstallStep, MarkUnavailableStep, StageObservationStep,
     DispatchObservationStep, ExpireObservationStep, ProjectOutcomeStep,
     InstallExpiresStep, ObservationExpiresStep DEF Reconcile
<1>4. CASE \E n \in Nodes : AgentStep(n) \/ Activate(n) \/ GiveUp(n) \/ Crash(n)
  BY <1>4, RefuseExpiredStep, BeginInstallStep, ConfirmInstallStep, ObserveGatewayStep,
     AcknowledgeGatewayStep, AcknowledgeCommandStep, ActivateStep, GiveUpStep, CrashStep
     DEF AgentStep
<1>5. CASE UNCHANGED vars
  <2> USE <1>5 DEF vars, At
  <2>1. TypeOK'
    BY DEF RolloutInv, TypeOK
  <2>4. OutcomesOK'
    BY DEF RolloutInv, OutcomesOK
  <2>5. RollbackOK'
    BY DEF RolloutInv, RollbackOK
  <2>2. \A m \in Nodes : SameNode(m) /\ ScopeOK(m)'
    BY DEF RolloutInv, SameNode, ScopeOK
  <2>3. \A r \in 1..Len(rollouts), m \in Nodes : ReplicaOK(r, m)'
    BY DEF RolloutInv, ReplicaOK
  <2> QED
    BY <2>1, <2>2, <2>3, <2>4, <2>5, NodeFrame DEF RolloutInv
<1> QED
  BY <1>1, <1>2, <1>3, <1>4, <1>5 DEF Next

\* The invariant holds throughout: rollouts are answered one after the
\* other, the agent's result and the recorded outcomes say what the Gateway
\* did, and Edge's scope record follows them.
THEOREM RolloutInvariance == Spec => []RolloutInv
<1> QED
  BY InitInv, NextInv, PTL DEF Spec

\* Between rollouts Edge's installed revision of a member is what its Gateway
\* runs (project_gateway_acknowledgement, record_observation), for members
\* whose recovery never overlapped a later snapshot.
THEOREM PhysicalScope == Spec => []InstalledIsPhysical
<1>1. RolloutInv => InstalledIsPhysical
  <2> SUFFICES ASSUME RolloutInv, NEW n \in Nodes \ overlapped, ~InDoubt(n)
               PROVE  gateways[n] = [applied |-> scopes[n].installed, applying |-> 0]
    BY DEF InstalledIsPhysical
  <2>1. ~Diverged(n)
    BY DEF InDoubt, Diverged
  <2>2. gateways[n].applied = scopes[n].installed /\ gateways[n].applying = 0
    BY <2>1 DEF RolloutInv, PhysicalOK
  <2>3. gateways[n] \in [applied : 0..MaxRollouts, applying : 0..MaxRollouts]
    BY NodeTypes DEF RolloutInv
  <2> QED
    BY <2>2, <2>3
<1> QED
  BY <1>1, RolloutInvariance, PTL

\* A scope takes a new rollout after a failed one only when the rollback was
\* applied by every member, and a Gateway never goes back behind what it has
\* applied; so the failed snapshot runs nowhere and will not run again.
THEOREM FailedIsGone == Spec => []FailedSnapshotIsGone
<1>1. RolloutInv => FailedSnapshotIsGone
  <2> SUFFICES ASSUME RolloutInv, NEW f \in DOMAIN rollouts, NEW g \in DOMAIN rollouts,
                      f < g, rollouts[g].of = 0, rollbacks[f] # "none", NEW n \in Nodes
               PROVE  At(f, n).revision \notin {gateways[n].applied, gateways[n].applying}
    BY DEF FailedSnapshotIsGone
  <2>1. TypeOK /\ RollbackOK /\ DOMAIN rollouts = 1..Len(rollouts)
    BY DEF RolloutInv, TypeOK
  <2>2. f \in 1..Len(rollouts) /\ g \in 1..Len(rollouts) /\ f \in 1..MaxRollouts /\ f \in Nat
        /\ f # 0
    BY <2>1, AtType, GatewayRolloutAssumption
  <2>3. rollbacks[f] = "succeeded"
    BY <2>1, <2>2 DEF RollbackOK
  <2>4. PICK k \in 1..Len(rollouts) :
           rollouts[k].of = f /\ \A m \in Nodes : At(k, m).state = "applied"
    BY <2>1, <2>2, <2>3 DEF RollbackOK
  <2>5. f < k /\ k \in Nat
    BY <2>1, <2>4, AtType DEF RollbackOK
  <2>6. /\ gateways[n].applied >= k
        /\ gateways[n].applying = 0 \/ gateways[n].applying > k
        /\ At(f, n).revision = f
    BY <2>2, <2>4 DEF RolloutInv, AnswerOK, ReplicaOK
  <2>7. gateways[n].applied \in Nat /\ gateways[n].applying \in Nat
    BY <2>1, NodeTypes
  <2> QED
    BY <2>2, <2>5, <2>6, <2>7
<1> QED
  BY <1>1, RolloutInvariance, PTL

\* Only StageRollback turns a required rollback into a staged one.
LEMMA OnlyStageRollback ==
    ASSUME RolloutInv, [Next]_vars, NEW f \in 1..MaxRollouts,
           rollbacks[f] = "required", rollbacks'[f] = "staged"
    PROVE  f \in 1..Len(rollouts) /\ StageRollback(f)
<1>0. TypeOK /\ DOMAIN rollouts = 1..Len(rollouts)
      /\ rollbacks \in [1..MaxRollouts -> RollbackStates]
  BY DEF RolloutInv, TypeOK
<1>1. rollbacks' # rollbacks
  OBVIOUS
<1>2. ASSUME NEW r \in 1..Len(rollouts), NEW n \in Nodes, NEW state \in ReplicaStates,
             NEW recovery \in RecoveryStates, Answered(r, n, state, recovery)
      PROVE  FALSE
  <2>1. PICK p \in Replica : ReplicaMoves(r, n, p) /\ rollbacks' = RollbacksAfter(r, rollouts'[r])
    BY <1>0, <1>2, AnsweredMoves
  <2>2. rollouts'[r] \in Rollout /\ r \in 1..MaxRollouts
    BY <1>0, <2>1, AtType, GatewayRolloutAssumption DEF ReplicaMoves
  <2>3. rollbacks'[f] = rollbacks[f] \/ rollbacks'[f] \in {"succeeded", "diverged", "required"}
    BY <1>0, <2>1, <2>2, RollbacksAfterValue
  <2> QED
    BY <2>3
<1>3. CASE StageRollout \/ UNCHANGED vars
  BY <1>1, <1>3 DEF StageRollout, vars
<1>4. CASE \E r \in DOMAIN rollouts : StageRollback(r)
  <2>1. PICK r \in 1..Len(rollouts) : StageRollback(r)
    BY <1>0, <1>4
  <2>2. f = r
    BY <1>0, <2>1 DEF StageRollback
  <2> QED
    BY <2>1, <2>2
<1>5. ASSUME NEW r \in DOMAIN rollouts, NEW n \in Nodes,
             Reconcile(r, n) \/ InstallExpires(r, n) \/ ObservationExpires(r, n)
      PROVE  FALSE
  <2>1. r \in 1..Len(rollouts)
    BY <1>0
  <2>2. ASSUME MarkUnavailable(r, n) PROVE FALSE
    BY <1>2, <2>1, <2>2 DEF MarkUnavailable, ReplicaStates, RecoveryStates
  <2>3. ASSUME ProjectOutcome(r, n) PROVE FALSE
    <3>1. UNCHANGED rollbacks \/ rollbacks' = [rollbacks EXCEPT ![r] = "diverged"]
      BY <2>3 DEF ProjectOutcome, RecordKnown, RecordUnknown, RecordFailure
    <3> QED
      BY <1>0, <1>1, <3>1
  <2> QED
    BY <1>1, <1>5, <2>2, <2>3 DEF Reconcile, InstallExpires, ObservationExpires, Expiry,
       DispatchInstall, StageObservation, DispatchObservation, ExpireObservation
<1>6. ASSUME NEW n \in Nodes, AgentStep(n) \/ Activate(n) \/ GiveUp(n) \/ Crash(n) PROVE FALSE
  <2>1. ASSUME AcknowledgeGateway(n) PROVE FALSE
    <3>1. HasCommand(n) /\ agents[n].result \in {"applied", "rejected"}
      BY <2>1 DEF AcknowledgeGateway, IsGatewayAck, RolloutInv, AgentOK
    <3>2. NextCommand(n).rollout \in 1..Len(rollouts)
      BY <3>1, NextFacts
    <3>3. Answered(NextCommand(n).rollout, n, agents[n].result, "none")
      BY <1>1, <2>1 DEF AcknowledgeGateway
    <3> QED
      BY <1>2, <3>1, <3>2, <3>3 DEF ReplicaStates, RecoveryStates
  <2> QED
    BY <1>1, <1>6, <2>1 DEF AgentStep, Activate, GiveUp, Crash, OnNode, RefuseExpired,
       BeginInstall, ConfirmInstall, ObserveGateway, AcknowledgeCommand
<1> QED
  BY <1>3, <1>4, <1>5, <1>6 DEF Next

\* The exact rollback is staged over what each member's Gateway runs
\* (gateway_rollout_reconciler, stage_rollback), but for the members that
\* overlapped or diverged before.
THEOREM InformedRollback == Spec => RollbackIsInformed
<1> DEFINE Informed ==
        \A r \in DOMAIN rollouts :
          rollbacks[r] = "required" /\ rollbacks'[r] = "staged" =>
              \A n \in Nodes \ overlapped :
                  Diverged(n) \/ gateways[n] = [applied |-> scopes[n].installed, applying |-> 0]
<1>1. RolloutInv /\ [Next]_vars => [Informed]_vars
  <2> SUFFICES ASSUME RolloutInv, [Next]_vars, NEW r \in DOMAIN rollouts,
                      rollbacks[r] = "required", rollbacks'[r] = "staged",
                      NEW n \in Nodes \ overlapped, ~Diverged(n)
               PROVE  gateways[n] = [applied |-> scopes[n].installed, applying |-> 0]
    OBVIOUS
  <2>1. TypeOK /\ PhysicalOK(n) /\ RollbackOK /\ DOMAIN rollouts = 1..Len(rollouts)
    BY DEF RolloutInv, TypeOK
  <2>2. r \in 1..MaxRollouts
    BY <2>1, AtType, GatewayRolloutAssumption
  <2>3. StageRollback(r) /\ r = Len(rollouts)
    BY <2>1, <2>2, OnlyStageRollback DEF RollbackOK
  <2>4. \A k \in 1..Len(rollouts) : At(k, n).state # "pending"
    BY <2>1, <2>3, NoActiveRollout DEF StageRollback
  <2>5. ASSUME NEW k \in 1..Len(rollouts), k # Len(rollouts)
        PROVE  At(k, n).recovery \notin {"required", "observing"}
    <3>1. Len(rollouts) \in Nat
      BY <2>1, NodeTypes
    <3>2. k < Len(rollouts)
      BY <2>5, <3>1
    <3> QED
      BY <2>1, <3>2 DEF PhysicalOK
  <2>6. At(r, n).recovery \notin {"required", "observing"}
    <3>1. ReplicaOK(r, n)
      BY <2>1 DEF RolloutInv
    <3>2. At(r, n).state = "unavailable" => At(r, n).recovery = "observed"
      BY <2>3 DEF StageRollback, PhysicalStateIsKnown
    <3>3. At(r, n).recovery # "none" => At(r, n).recovery = "observed"
      BY <3>1, <3>2 DEF ReplicaOK
    <3> QED
      BY <3>3
  <2>7. ~InDoubt(n)
    BY <2>1, <2>3, <2>4, <2>5, <2>6 DEF InDoubt, Diverged
  <2>8. gateways[n].applied = scopes[n].installed /\ gateways[n].applying = 0
    BY <2>1, <2>7 DEF PhysicalOK
  <2>9. gateways[n] \in [applied : 0..MaxRollouts, applying : 0..MaxRollouts]
    BY <2>1, NodeTypes
  <2> QED
    BY <2>8, <2>9
<1> QED
  BY <1>1, RolloutInvariance, PTL DEF Spec, RollbackIsInformed
=============================================================================
