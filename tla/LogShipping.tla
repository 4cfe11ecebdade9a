----------------------------- MODULE LogShipping -----------------------------
(***************************************************************************)
(* How the log of one Runtime unit reaches the control plane: the Agent's  *)
(* log loop with its durable cursor and pending batch                      *)
(* (node-agent/src/log_shipper.rs, outbound_batch.rs), and the handler     *)
(* that stores a batch's bodies as objects and its metadata as rows        *)
(* (fleet/.../record_node_log_chunks/handler.rs, control/telemetry.rs).    *)
(*                                                                         *)
(* The log source is the Runtime, which is not in this repository: it      *)
(* hands out records by cursor, and answers CursorLost or                  *)
(* SourceDisconnected when it cannot.  A cursor names one record; what a   *)
(* record says is its number in the order the unit wrote them.  Batches    *)
(* of several units are independent of each other, so there is one unit.   *)
(***************************************************************************)
EXTENDS Integers, Sequences, FiniteSets, Bags

CONSTANTS
    Handlers,       \* concurrent executions of RecordNodeLogChunksHandler
    MaxRecords,     \* how many records the unit writes
    MaxBatch,       \* LogShippingConfig::max_batch_chunks
    MaxEvents,      \* bound on what happens to the log source
    MaxFaults,      \* bound on lost answers, kills and failed calls
    SourceEvents,   \* what happens to the source: a subset of EventKinds
    FaultKinds,     \* what may fail: a subset of AllFaults
    None

EventKinds == {"rotate", "replace", "disconnect", "interrupt"}
AllFaults == {"answer", "kill", "put", "record", "commit", "cleanup"}

ASSUME ShippingAssumption ==
    /\ Handlers # {} /\ IsFiniteSet(Handlers) /\ None \notin Handlers
    /\ {MaxRecords, MaxBatch, MaxEvents, MaxFaults} \subseteq Nat
    /\ MaxBatch > 0
    /\ SourceEvents \subseteq EventKinds /\ FaultKinds \subseteq AllFaults

Reasons == {"cursor_lost", "source_disconnected"}
Answers == {"receipt", "conflict", "retry"}

\* The rows of a history, and the batch that carries them.
Chunk == [record : Nat, sequence : Nat]
Gap == [cursor : Nat \union {None}, reason : Reasons, sequence : Nat]
Batch == [id : Nat, chunks : Seq(Chunk), gaps : SUBSET Gap]

ASSUME NoneAssumption == None \notin Nat \union Answers \union Batch

VARIABLES
    written,    \* how many records the unit has written
    source,     \* the oldest record the Runtime can still hand out, where
                \* its log began, and whether it can be reached
    active,     \* the unit is among the journal's log targets
    position,   \* DurableLogCursor of the unit
    pending,    \* the staged NodeLogChunkBatch, or None
    staged,     \* batches staged so far: the next one's identity
    waiting,    \* the handler whose answer the log loop awaits, or None
    handlers,   \* what each execution of the handler is doing
    batches,    \* NodeLogBatches
    chunks,     \* NodeLogChunks
    gaps,       \* NodeLogGaps
    objects,    \* keys of the stored log objects
    events,     \* what has happened to the source so far, a bag of EventKinds
    faults      \* what has failed so far, a bag of AllFaults

agent == <<position, pending, staged, waiting>>
fleet == <<handlers, batches, chunks, gaps, objects>>
vars == <<written, source, active, agent, fleet, events, faults>>

\* A record's cursor and its sequence number: `first` is where the Runtime's
\* current log began, so a replacement log counts from zero again.
SourceSequence(record) == record - source.first

\* No cursor yet, and the sequence before the first one.
NoPosition == [sequence |-> -1, cursor |-> None, gap |-> None]

\* The key of a body's object: the unit, the sequence and the cursor.
Key(chunk) == <<chunk.sequence, chunk.record>>

Free == [pc |-> "free", batch |-> None, done |-> 0, created |-> {},
         answer |-> None]

Init ==
    /\ written = 0
    /\ source = [oldest |-> 1, first |-> 1, connected |-> TRUE]
    /\ active = TRUE
    /\ position = NoPosition /\ pending = None /\ staged = 0
    /\ waiting = None
    /\ handlers = [h \in Handlers |-> Free]
    /\ batches = {} /\ chunks = {} /\ gaps = {} /\ objects = {}
    /\ events = EmptyBag /\ faults = EmptyBag

-----------------------------------------------------------------------------
(* The log source.  It can hand out the records source.oldest..written.    *)

Write ==
    /\ written < MaxRecords /\ active
    /\ written' = written + 1
    /\ UNCHANGED <<source, active, agent, fleet, events, faults>>

SourceEvent(kind) ==
    /\ kind \in SourceEvents
    /\ BagCardinality(events) < MaxEvents
    /\ events' = events (+) SetToBag({kind})
    /\ UNCHANGED <<written, active, agent, fleet, faults>>

\* The oldest record is rotated away.
Rotate ==
    /\ SourceEvent("rotate")
    /\ source.oldest <= written
    /\ source' = [source EXCEPT !.oldest = @ + 1]

\* The unit's log is replaced by an empty one.
Replace ==
    /\ SourceEvent("replace")
    /\ source' = [source EXCEPT !.oldest = written + 1, !.first = written + 1]

\* The source is gone for good ("disconnect") or out of reach for a while
\* ("interrupt"); when it is back, its old records are gone or still there.
Disconnect(kind) ==
    /\ SourceEvent(kind)
    /\ source.connected
    /\ source' = [source EXCEPT !.connected = FALSE,
                                !.oldest = IF kind = "disconnect" THEN written + 1 ELSE @]

Reconnect ==
    /\ ~source.connected
    /\ source' = [source EXCEPT !.connected = TRUE]
    /\ UNCHANGED <<written, active, agent, fleet, events, faults>>

\* A successful removal takes the unit out of the journal's log targets.
RemoveTarget ==
    /\ active /\ written = MaxRecords
    /\ active' = FALSE
    /\ UNCHANGED <<written, source, agent, fleet, events, faults>>

-----------------------------------------------------------------------------
(* The Agent's log loop.                                                   *)

\* RuntimeClient::logs for a cursor: the records after it, or why not.
Lost(cursor) ==
    source.connected /\ cursor # None /\ cursor < source.oldest

\* The records that follow a cursor, or all of them, up to a full batch.
After(cursor) ==
    LET begin == IF cursor = None \/ cursor < source.oldest THEN source.oldest
                 ELSE cursor + 1
        later == written - begin + 1
    IN  [i \in 1..(IF later < MaxBatch THEN later ELSE MaxBatch) |-> begin + i - 1]

\* A gap that was reported is not reported again before the source was read.
AlreadyReported(reason, cursor) ==
    /\ position.gap # None
    /\ position.gap.reason = reason
    /\ reason = "source_disconnected" \/ position.gap.cursor = cursor

\* A bug to avoid: the source's own sequence numbers, also after a gap.
SourceNumbers(records) ==
    [i \in 1..Len(records) |->
        [record |-> records[i], sequence |-> SourceSequence(records[i])]]

\* rebase_delivery_sequence: a chunk keeps the source's sequence unless the
\* deliveries before it have passed it.
RebaseDelivery(records) ==
    LET sequence[i \in 0..Len(records)] ==
            IF i = 0 THEN position.sequence
            ELSE LET next == sequence[i - 1] + 1
                     own == SourceSequence(records[i])
                 IN  IF own > next THEN own ELSE next
    IN  [i \in 1..Len(records) |->
            [record |-> records[i], sequence |-> sequence[i]]]

Stage(reports, reported) ==
    /\ pending' = [id |-> staged + 1, chunks |-> reports, gaps |-> reported]
    /\ staged' = staged + 1
    /\ UNCHANGED <<position, waiting>>

\* The loop collects only when nothing is pending.
Collecting ==
    /\ active /\ waiting = None /\ pending = None
    /\ UNCHANGED <<written, source, active, fleet, events, faults>>

\* A bug to avoid: on a lost cursor, read on from the earliest record.
CollectPastLoss ==
    /\ Collecting
    /\ source.connected
    /\ After(position.cursor) # <<>>
    /\ Stage(RebaseDelivery(After(position.cursor)), {})

CollectChunks ==
    /\ Collecting
    /\ source.connected /\ ~Lost(position.cursor)
    /\ After(position.cursor) # <<>>
    /\ Stage(RebaseDelivery(After(position.cursor)), {})

CollectGap(reason) ==
    /\ Collecting
    /\ IF reason = "cursor_lost" THEN Lost(position.cursor) ELSE ~source.connected
    /\ ~AlreadyReported(reason, position.cursor)
    /\ Stage(<<>>, {[cursor |-> position.cursor, reason |-> reason,
                     sequence |-> position.sequence + 1]})

\* mark_connected: an empty read ends the reported gap.
MarkConnected ==
    /\ Collecting
    /\ source.connected /\ ~Lost(position.cursor)
    /\ After(position.cursor) = <<>>
    /\ position.gap # None
    /\ position' = [position EXCEPT !.gap = None]
    /\ UNCHANGED <<pending, staged, waiting>>

\* snapshot drops the cursor of a unit that is no longer a target, unless a
\* batch is pending.
RetainTargets ==
    /\ ~active /\ waiting = None /\ pending = None
    /\ position # NoPosition
    /\ position' = NoPosition
    /\ UNCHANGED <<written, source, active, pending, staged, waiting, fleet,
                   events, faults>>

\* upload: a fresh execution of the handler receives the pending batch.
Upload(h) ==
    /\ waiting = None /\ pending # None
    /\ handlers[h] = Free
    /\ handlers' = [handlers EXCEPT ![h] = [@ EXCEPT !.pc = "check", !.batch = pending]]
    /\ waiting' = h
    /\ UNCHANGED <<written, source, active, position, pending, staged, batches,
                   chunks, gaps, objects, events, faults>>

\* commit: the exact receipt clears the batch and moves the cursor to the
\* last chunk, or past the gap.
Commit ==
    /\ position' = IF pending.gaps = {}
                   THEN LET last == pending.chunks[Len(pending.chunks)]
                        IN  [sequence |-> last.sequence, cursor |-> last.record,
                             gap |-> None]
                   ELSE LET gap == CHOOSE g \in pending.gaps : TRUE
                        IN  [sequence |-> gap.sequence, cursor |-> None,
                             gap |-> [cursor |-> gap.cursor, reason |-> gap.reason]]
    /\ pending' = None

\* A bug to avoid: any answer clears the batch.
ReceiveAny(h) ==
    /\ handlers[h].pc = "answer"
    /\ waiting = h
    /\ waiting' = None
    /\ Commit
    /\ handlers' = [handlers EXCEPT ![h] = Free]
    /\ UNCHANGED <<written, source, active, staged, batches, chunks, gaps,
                   objects, events, faults>>

\* The answer reaches the loop that waits for it.  A conflict is not
\* retried: the Agent ends, its supervisor starts it again, and the batch is
\* still pending; a retryable error leaves it pending too.
Receive(h) ==
    /\ handlers[h].pc = "answer"
    /\ waiting = h
    /\ waiting' = None
    /\ IF handlers[h].answer = "receipt" THEN Commit ELSE UNCHANGED <<position, pending>>
    /\ handlers' = [handlers EXCEPT ![h] = Free]
    /\ UNCHANGED <<written, source, active, staged, batches, chunks, gaps,
                   objects, events, faults>>

\* Nobody waits any more: the answer is dropped.
DropAnswer(h) ==
    /\ handlers[h].pc = "answer"
    /\ waiting # h
    /\ handlers' = [handlers EXCEPT ![h] = Free]
    /\ UNCHANGED <<written, source, active, agent, batches, chunks, gaps, objects,
                   events, faults>>

Fault(kind) ==
    /\ kind \in FaultKinds
    /\ BagCardinality(faults) < MaxFaults
    /\ faults' = faults (+) SetToBag({kind})
    /\ UNCHANGED <<written, source, active, events>>

\* The call times out, or the Agent is killed, while the handler goes on.
LoseAnswer ==
    /\ Fault("answer")
    /\ waiting # None
    /\ waiting' = None
    /\ UNCHANGED <<position, pending, staged, fleet>>

\* The handler died with the control plane: the call fails.
CallFails ==
    /\ waiting # None /\ handlers[waiting] = Free
    /\ waiting' = None
    /\ UNCHANGED <<written, source, active, position, pending, staged, fleet,
                   events, faults>>

-----------------------------------------------------------------------------
(* The control plane.                                                      *)

Handling(h, pc) ==
    /\ handlers[h].pc = pc
    /\ UNCHANGED <<written, source, active, agent, events>>

Goto(h, pc, answer) ==
    handlers' = [handlers EXCEPT ![h].pc = pc, ![h].answer = answer]

Recorded(batch) == batch \in batches

\* A batch identity that was used for other content.
Reused(batch) == \E b \in batches : b.id = batch.id /\ b # batch

\* replay_log_batch, before any object is written.
Check(h) ==
    LET batch == handlers[h].batch IN
    /\ Handling(h, "check")
    /\ \/ /\ Recorded(batch)
          /\ Goto(h, "answer", "receipt")
       \/ /\ ~Recorded(batch) /\ Reused(batch)
          /\ Goto(h, "answer", "conflict")
       \/ /\ ~Recorded(batch) /\ ~Reused(batch)
          /\ Goto(h, "put", None)
    /\ UNCHANGED <<batches, chunks, gaps, objects, faults>>

\* ILogChunkStore::put for the next chunk: create-only, and an object that
\* is there with this content is adopted.
Put(h) ==
    LET handler == handlers[h]
        key == Key(handler.batch.chunks[handler.done + 1])
    IN
    /\ Handling(h, "put")
    /\ handler.done < Len(handler.batch.chunks)
    /\ objects' = objects \union {key}
    /\ handlers' = [handlers EXCEPT ![h].done = @ + 1,
                                    ![h].created = @ \union ({key} \ objects)]
    /\ UNCHANGED <<batches, chunks, gaps, faults>>

\* A bug to avoid: a failed write is passed over.
PutSkipped(h) ==
    /\ handlers[h].pc = "put" /\ handlers[h].done < Len(handlers[h].batch.chunks)
    /\ Fault("put")
    /\ handlers' = [handlers EXCEPT ![h].done = @ + 1]
    /\ UNCHANGED <<agent, batches, chunks, gaps, objects>>

PutFails(h) ==
    /\ handlers[h].pc = "put" /\ handlers[h].done < Len(handlers[h].batch.chunks)
    /\ Fault("put")
    /\ Goto(h, "cleanup", "retry")
    /\ UNCHANGED <<agent, batches, chunks, gaps, objects>>

Sequences(rows) == {row.sequence : row \in rows}

Rows(batch) == {batch.chunks[i] : i \in DOMAIN batch.chunks}

\* maximum_log_sequence: no row has this sequence or a later one.
Advances(row) == \A s \in Sequences(chunks) \union Sequences(gaps) : row.sequence > s

\* The checks of the transaction, row by row.
Acceptable(batch) ==
    /\ ~Reused(batch)
    /\ \A row \in Rows(batch) :
          \/ row \in chunks
          \/ Advances(row) /\ \A other \in chunks : other.record # row.record
    /\ \A row \in batch.gaps : row \in gaps \/ Advances(row)

Store(batch) ==
    /\ batches' = batches \union {batch}
    /\ chunks' = chunks \union Rows(batch)
    /\ gaps' = gaps \union batch.gaps

\* record_log_chunks: one transaction.
Record(h) ==
    LET batch == handlers[h].batch IN
    /\ Handling(h, "put")
    /\ handlers[h].done = Len(batch.chunks)
    /\ \/ /\ Recorded(batch)
          /\ Goto(h, "answer", "receipt")
          /\ UNCHANGED <<batches, chunks, gaps>>
       \/ /\ ~Recorded(batch) /\ Acceptable(batch)
          /\ Goto(h, "answer", "receipt")
          /\ Store(batch)
       \/ /\ ~Recorded(batch) /\ ~Acceptable(batch)
          /\ Goto(h, "cleanup", "conflict")
          /\ UNCHANGED <<batches, chunks, gaps>>
    /\ UNCHANGED <<objects, faults>>

\* The transaction fails before it commits.
RecordFails(h) ==
    /\ handlers[h].pc = "put" /\ handlers[h].done = Len(handlers[h].batch.chunks)
    /\ Fault("record")
    /\ Goto(h, "cleanup", "retry")
    /\ UNCHANGED <<agent, batches, chunks, gaps, objects>>

\* The transaction commits and the connection is lost before the handler
\* learns of it.
CommitUnknown(h) ==
    LET batch == handlers[h].batch IN
    /\ handlers[h].pc = "put" /\ handlers[h].done = Len(batch.chunks)
    /\ ~Recorded(batch) /\ Acceptable(batch)
    /\ Fault("commit")
    /\ Store(batch)
    /\ Goto(h, "cleanup", "retry")
    /\ UNCHANGED <<agent, objects>>

\* cleanup_created: the objects this execution created, one after another.
Cleanup(h) ==
    /\ Handling(h, "cleanup")
    /\ \/ /\ handlers[h].created = {}
          /\ Goto(h, "answer", handlers[h].answer)
          /\ UNCHANGED objects
       \/ \E key \in handlers[h].created :
             /\ objects' = objects \ {key}
             /\ handlers' = [handlers EXCEPT ![h].created = @ \ {key}]
    /\ UNCHANGED <<batches, chunks, gaps, faults>>

\* A removal fails; the rest stays, and the answer is an internal error.
CleanupFails(h) ==
    /\ handlers[h].pc = "cleanup" /\ handlers[h].created # {}
    /\ Fault("cleanup")
    /\ Goto(h, "answer", "retry")
    /\ UNCHANGED <<agent, batches, chunks, gaps, objects>>

\* The control plane is killed; its objects and rows stay.
Kill ==
    /\ Fault("kill")
    /\ \E h \in Handlers : handlers[h] # Free
    /\ handlers' = [h \in Handlers |-> Free]
    /\ UNCHANGED <<agent, batches, chunks, gaps, objects>>

-----------------------------------------------------------------------------

SourceStep ==
    \/ Write \/ Rotate \/ Replace \/ Disconnect("disconnect")
    \/ Disconnect("interrupt") \/ RemoveTarget

LoopStep ==
    \/ CollectChunks \/ (\E reason \in Reasons : CollectGap(reason))
    \/ MarkConnected \/ RetainTargets \/ CallFails
    \/ (\E h \in Handlers : Upload(h) \/ Receive(h))

HandlerStep(h) == Check(h) \/ Put(h) \/ Record(h) \/ Cleanup(h) \/ DropAnswer(h)

FaultStep ==
    \/ LoseAnswer \/ Kill
    \/ \E h \in Handlers : \/ PutFails(h) \/ RecordFails(h)
                           \/ CommitUnknown(h) \/ CleanupFails(h)

Next ==
    \/ SourceStep \/ Reconnect \/ LoopStep \/ FaultStep
    \/ \E h \in Handlers : HandlerStep(h)

Spec == Init /\ [][Next]_vars

\* The log loop polls or retries for ever, and a handler that is not killed
\* runs to its end.
FairSpec == Spec /\ WF_vars(LoopStep) /\ \A h \in Handlers : WF_vars(HandlerStep(h))

-----------------------------------------------------------------------------
(* Properties.                                                             *)

Position == [sequence : Nat \union {-1}, cursor : Nat \union {None},
             gap : [cursor : Nat \union {None}, reason : Reasons] \union {None}]

Handler == [pc : {"free", "check", "put", "cleanup", "answer"},
            batch : Batch \union {None}, done : Nat,
            created : SUBSET (Nat \X Nat), answer : Answers \union {None}]

TypeOK ==
    /\ written \in Nat
    /\ source \in [oldest : Nat, first : Nat, connected : BOOLEAN]
    /\ active \in BOOLEAN
    /\ position \in Position
    /\ pending \in Batch \union {None} /\ staged \in Nat
    /\ waiting \in Handlers \union {None}
    /\ handlers \in [Handlers -> Handler]
    /\ batches \subseteq Batch /\ chunks \subseteq Chunk /\ gaps \subseteq Gap
    /\ objects \subseteq Nat \X Nat

\* Between two records of the history that have no record of the unit's log
\* between them there is a gap, or nothing was lost: the history never
\* repeats or swaps records, and never leaves one out without saying so.
\* This is what the cursor, the pending batch and the rebased sequences of
\* the shipper are for.
NoSilentLoss ==
    \A a, b \in chunks :
        /\ a.sequence < b.sequence
        /\ \A c \in chunks : ~(a.sequence < c.sequence /\ c.sequence < b.sequence)
        => \/ b.record = a.record + 1
           \/ /\ b.record > a.record
              /\ \E g \in gaps : a.sequence < g.sequence /\ g.sequence < b.sequence

\* The durable cursor only covers what the control plane has recorded: no
\* crash, lost answer or late handler makes the Agent skip a batch.
CursorIsRecorded ==
    /\ position.cursor # None =>
          [record |-> position.cursor, sequence |-> position.sequence] \in chunks
    /\ position.cursor = None /\ position.sequence >= 0 =>
          position.sequence \in Sequences(gaps)

\* A record that the control plane acknowledged has its body in the store,
\* whatever fails or is killed, as long as every execution's answer and every
\* transaction's outcome is known: cleanup_created removes by key, so after a
\* lost outcome it may remove what a recorded row refers to.
BodiesAreStored ==
    (\E row \in chunks : Key(row) \notin objects) =>
        BagIn("answer", faults) \/ BagIn("commit", faults)

\* A staged batch is delivered: whatever it holds, the control plane accepts
\* it after finitely many retries, and the loop goes on to the next records.
\* Only a source that was out of reach and came back with its old records can
\* make the Agent stage what the control plane refuses.
PendingIsDelivered ==
    (pending # None) ~> (pending = None \/ BagIn("interrupt", events))
=============================================================================
