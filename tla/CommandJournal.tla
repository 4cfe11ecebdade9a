--------------------------- MODULE CommandJournal ---------------------------
(***************************************************************************)
(* The Node Agent's durable command journal (crates/node-agent/src/        *)
(* journal.rs).  Each operation reads the file, checks it, and replaces it *)
(* atomically under an exclusive lock, so each is one step; a crash leaves *)
(* the journal as the last completed step wrote it.                        *)
(***************************************************************************)
EXTENDS NodeCommand

VARIABLES
  entries,           \* the journaled commands, by sequence
  lastAcknowledged,  \* last_acknowledged_sequence
  generations        \* aggregate_generations

journalVars == <<entries, lastAcknowledged, generations>>

Completion == [completedAt : Int, outcome : Outcomes]
NoCompletion == [outcome |-> "none"]
Entry == [cmd : Command, lease : LeaseId, completion : Completion \cup {NoCompletion},
          acknowledged : BOOLEAN]

Fence == [generation : Nat, digest : StateDigests]
NoFence == [generation |-> 0]

JournalTypeOK ==
  /\ entries \in Seq(Entry)
  /\ lastAcknowledged \in Nat
  /\ generations \in [Aggregates -> Fence \cup {NoFence}]

JournalInit ==
  /\ entries = <<>>
  /\ lastAcknowledged = 0
  /\ generations = [a \in Aggregates |-> NoFence]

Completed(i) == entries[i].completion # NoCompletion

\* JournalEntry::acknowledgement: what the agent sends for a completed entry
Acknowledgement(i) ==
  LET e == entries[i] IN
  [id |-> e.cmd.id, sequence |-> e.cmd.sequence, payload |-> e.cmd.payload, lease |-> e.lease,
   completedAt |-> e.completion.completedAt, outcome |-> e.completion.outcome]

\* Mutant: only commands never attempted before are delivered
NoPendingAcknowledgements == {}

PendingAcknowledgements ==
  { i \in DOMAIN entries : Completed(i) /\ ~entries[i].acknowledged }

\* contiguous_acknowledged_sequence: where the loop over 1, 2, ... stops
ContiguousAcknowledged(es) ==
  CHOOSE n \in 0 .. Len(es) :
    /\ \A i \in 1 .. n : es[i].acknowledged
    /\ n < Len(es) => ~es[n + 1].acknowledged

(***************************************************************************)
(* begin.  A known command is rebound to the lease that redelivered it; a  *)
(* new one must be next in sequence and, if it changes state, must neither *)
(* regress its aggregate's generation nor reuse it with other content.     *)
(* Anything else is a conflict, which ends the agent process.              *)
(***************************************************************************)
Redelivered(env, i) == i \in DOMAIN entries /\ entries[i].cmd.id = env.cmd.id
Journaled(env) == \E i \in DOMAIN entries : Redelivered(env, i)

FenceAdmits(env) ==
  LET current == generations[env.cmd.aggregate]
      p == env.cmd.payload IN
  MutatesState(p) =>
    /\ p.generation >= current.generation
    /\ p.generation = current.generation => current.digest = StateMutationDigest(p)

BeginRedelivered(env, i) ==
  /\ Redelivered(env, i)
  /\ entries[i].cmd = env.cmd
  /\ entries' = [entries EXCEPT ![i].lease = env.lease]
  /\ UNCHANGED <<lastAcknowledged, generations>>

BeginNew(env) ==
  /\ ~Journaled(env)
  /\ env.cmd.sequence = Len(entries) + 1
  /\ FenceAdmits(env)
  /\ generations' =
       IF MutatesState(env.cmd.payload)
       THEN [generations EXCEPT ![env.cmd.aggregate] =
               [generation |-> env.cmd.payload.generation,
                digest |-> StateMutationDigest(env.cmd.payload)]]
       ELSE generations
  /\ entries' = Append(entries,
       [cmd |-> env.cmd, lease |-> env.lease, completion |-> NoCompletion, acknowledged |-> FALSE])
  /\ UNCHANGED lastAcknowledged

BeginConflicts(env) ==
  IF Journaled(env)
  THEN \E i \in DOMAIN entries : Redelivered(env, i) /\ entries[i].cmd # env.cmd
  ELSE env.cmd.sequence # Len(entries) + 1 \/ ~FenceAdmits(env)

\* complete: the outcome is decided once; an equal one is replayed
Complete(i, completedAt, outcome) ==
  /\ entries' = IF Completed(i) THEN entries
                ELSE [entries EXCEPT ![i].completion =
                        [completedAt |-> completedAt, outcome |-> outcome]]
  /\ UNCHANGED <<lastAcknowledged, generations>>

\* mark_acknowledged: on a receipt from the control plane
MarkAcknowledged(i) ==
  /\ Completed(i)
  /\ entries' = [entries EXCEPT ![i].acknowledged = TRUE]
  /\ lastAcknowledged' = ContiguousAcknowledged(entries')
  /\ UNCHANGED generations
=============================================================================
