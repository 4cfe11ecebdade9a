----------------------------- MODULE LogHistory -----------------------------
(***************************************************************************)
(* The recorded log of one Runtime unit and everything that works on it at *)
(* the same time: batches that add to it (control/telemetry.rs), the       *)
(* retention and compaction workers that take bodies and rows away         *)
(* (fleet/application/log_retention.rs, log_compaction.rs), and the live   *)
(* log stream, whose poll is three queries, one after the other            *)
(* (log_reader.rs, presentation/sequence_stream.rs).                       *)
(*                                                                         *)
(* LogShipping models how a batch gets here; this module takes any batch.  *)
(* What matters of a row is its sequence.  A body is old enough for        *)
(* retention, or a tombstone for compaction, whenever a worker looks.      *)
(***************************************************************************)
EXTENDS Integers, FiniteSets

CONSTANTS
    Sweepers,       \* replicas that run the LogRetentionWorker
    Compactors,     \* replicas that run the LogCompactionWorker
    MaxSequence,    \* sequences are 0..MaxSequence
    SweepLimit,     \* LogRetentionWorker::batch_size
    CompactLimit,   \* LogCompactionWorker::batch_size
    PageLimit,      \* NodeLogReadQuery::limit
    None

ASSUME HistoryAssumption ==
    /\ IsFiniteSet(Sweepers) /\ IsFiniteSet(Compactors)
    /\ {MaxSequence, SweepLimit, CompactLimit, PageLimit} \subseteq Nat
    /\ SweepLimit > 0 /\ CompactLimit > 0 /\ PageLimit > 0

VARIABLES
    stored,     \* sequences of the NodeLogChunks that are not retained
    retained,   \* sequences of the NodeLogChunks with a retained_at
    gaps,       \* sequences of the NodeLogGaps
    ranges,     \* NodeLogCompactionRanges
    objects,    \* sequences whose body is in the object store
    sweeps,     \* per worker: its targets, and the one it is removing
    compactions, \* per worker: its open transaction, not yet visible to others
    poll,       \* the stream's poll: what its queries returned so far
    after,      \* the stream's cursor: the last sequence it sent
    sent,       \* sequences the stream has sent, as a record or in a range
    ever,       \* sequences that were ever recorded
    overlapped  \* whether two compactions were ever open at once

history == <<stored, retained, gaps, ranges, objects, ever>>
compacting == <<compactions, overlapped>>
stream == <<poll, after, sent>>
vars == <<history, sweeps, compacting, stream>>

Interval == [first : 0..MaxSequence, through : 0..MaxSequence]

Covered(rs) == UNION {r.first .. r.through : r \in rs}

\* A transaction's tombstones, the runs it has yet to merge, the ranges its
\* next statement sees, the ranges it holds locked and those it inserted.
NoCompaction == [candidates |-> {}, todo |-> {}, seen |-> {}, taken |-> {}, made |-> {}]

NoPoll == [step |-> "idle", chunks |-> {}, gaps |-> {}, known |-> {}]

Init ==
    /\ stored = {} /\ retained = {} /\ gaps = {} /\ ranges = {}
    /\ objects = {} /\ ever = {}
    /\ sweeps = [w \in Sweepers |-> [targets |-> {}, removed |-> None]]
    /\ compactions = [c \in Compactors |-> NoCompaction] /\ overlapped = FALSE
    /\ poll = NoPoll /\ after = -1 /\ sent = {}

-----------------------------------------------------------------------------
(* Recording.                                                              *)

\* A bug to avoid: the ranges are left out of the watermark.
AdvancesRows(s) == \A t \in stored \union retained \union gaps : s > t

\* maximum_log_sequence: the watermark over chunks, gaps and ranges.
Advances(s) ==
    \A t \in stored \union retained \union gaps \union {r.through : r \in ranges} : s > t

\* A batch with one chunk or one gap; any sequence may be offered, and what
\* does not advance is refused.  The objects are stored before the rows.
RecordRow(s) ==
    /\ Advances(s)
    /\ ever' = ever \union {s}
    /\ \/ /\ stored' = stored \union {s}
          /\ objects' = objects \union {s}
          /\ UNCHANGED gaps
       \/ /\ gaps' = gaps \union {s}
          /\ UNCHANGED <<stored, objects>>
    /\ UNCHANGED <<retained, ranges, sweeps, compacting, stream>>

-----------------------------------------------------------------------------
(* Retention.                                                              *)

Least(S, n) == {s \in S : Cardinality({t \in S : t < s}) < n}

\* list_log_chunks_for_retention, oldest first.
ListForRetention(w) ==
    /\ sweeps[w].targets = {} /\ sweeps[w].removed = None
    /\ \E n \in 1..SweepLimit :
          /\ Cardinality(stored) >= n
          /\ sweeps' = [sweeps EXCEPT ![w].targets = Least(stored, n)]
    /\ UNCHANGED <<history, compacting, stream>>

\* The object goes first: its removal is idempotent.
RemoveBody(w) ==
    LET target == CHOOSE s \in sweeps[w].targets : \A t \in sweeps[w].targets : s <= t IN
    /\ sweeps[w].targets # {} /\ sweeps[w].removed = None
    /\ objects' = objects \ {target}
    /\ sweeps' = [sweeps EXCEPT ![w] = [targets |-> @.targets \ {target},
                                        removed |-> target]]
    /\ UNCHANGED <<stored, retained, gaps, ranges, ever, compacting, stream>>

\* The store is unavailable: the target waits for the next cycle.
RemovalFails(w) ==
    LET target == CHOOSE s \in sweeps[w].targets : \A t \in sweeps[w].targets : s <= t IN
    /\ sweeps[w].targets # {} /\ sweeps[w].removed = None
    /\ sweeps' = [sweeps EXCEPT ![w].targets = @ \ {target}]
    /\ UNCHANGED <<history, compacting, stream>>

\* mark_log_chunk_retained: a compare-and-set; another worker may have
\* marked the row, and compaction may have deleted it.
MarkRetained(w) ==
    LET target == sweeps[w].removed IN
    /\ target # None
    /\ \/ /\ target \in stored
          /\ stored' = stored \ {target}
          /\ retained' = retained \union {target}
       \/ /\ target \notin stored
          /\ UNCHANGED <<stored, retained>>
    /\ sweeps' = [sweeps EXCEPT ![w].removed = None]
    /\ UNCHANGED <<gaps, ranges, objects, ever, compacting, stream>>

\* A worker is killed, or its database call fails, at any point of a cycle.
KillSweeper(w) ==
    /\ sweeps[w].targets # {} \/ sweeps[w].removed # None
    /\ sweeps' = [sweeps EXCEPT ![w] = [targets |-> {}, removed |-> None]]
    /\ UNCHANGED <<history, compacting, stream>>

-----------------------------------------------------------------------------
(* Compaction.                                                             *)

\* NodeLogCompactionRange::coalesce on single sequences: maximal runs.
Runs(S) ==
    {r \in Interval : /\ r.first \in S /\ r.through \in S /\ r.first <= r.through
                   /\ r.first .. r.through \subseteq S
                   /\ r.first - 1 \notin S /\ r.through + 1 \notin S}

\* A bug to avoid: adjacent ranges are not taken for neighbours.
Overlapping(r, existing) ==
    {e \in existing : e.through >= r.first /\ e.first <= r.through}

\* The stored ranges that overlap or touch a new one.
Adjacent(r, existing) ==
    {e \in existing : e.through >= r.first - 1 /\ e.first <= r.through + 1}

\* The range from the least first to the greatest through of some ranges.
Hull(rs) ==
    [first |-> CHOOSE f \in {e.first : e \in rs} : \A e \in rs : f <= e.first,
     through |-> CHOOSE t \in {e.through : e \in rs} : \A e \in rs : t >= e.through]

Open(c) == compactions[c].candidates # {}

\* compact_log_tombstones begins: it locks some of the tombstones, skipping
\* those another transaction holds.  No lock covers the unit, so any number
\* of replicas may be here at once.
BeginCompact(c) ==
    /\ ~Open(c)
    /\ \E candidates \in SUBSET (retained \ UNION {compactions[d].candidates : d \in Compactors}) :
          /\ candidates # {} /\ Cardinality(candidates) <= CompactLimit
          /\ compactions' = [compactions EXCEPT ![c] =
                               [NoCompaction EXCEPT !.candidates = candidates,
                                                    !.todo = Runs(candidates),
                                                    !.seen = ranges]]
    /\ overlapped' = (overlapped \/ \E d \in Compactors : Open(d))
    /\ UNCHANGED <<history, sweeps, stream>>

\* One `select ... for update` of merge_compaction_range, for the first run
\* that is not merged.  It returns the neighbours that were committed when
\* it began and still exist: a row another transaction holds makes it wait,
\* and is passed over once that one has replaced it by a range this statement
\* cannot see (READ COMMITTED).  New neighbours widen the run and the search
\* is repeated; without any the merged range is inserted.  (A statement that
\* begins later is the same behaviour with the steps before it delayed.)
LockRanges(c) ==
    LET open == compactions[c]
        run == CHOOSE r \in open.todo : \A q \in open.todo : r.first <= q.first
        near == Adjacent(run, open.seen \intersect ((ranges \ open.taken) \union open.made))
        taken == open.taken \union (near \intersect ranges)
        made == IF near = {} THEN open.made \union {run} ELSE open.made \ near
        todo == IF near = {} THEN open.todo \ {run}
                             ELSE (open.todo \ {run}) \union {Hull(near \union {run})}
    IN
    /\ open.todo # {}
    /\ \A d \in Compactors \ {c} : near \intersect compactions[d].taken = {}
    /\ compactions' = [compactions EXCEPT ![c] =
                         [candidates |-> open.candidates, todo |-> todo, taken |-> taken,
                          made |-> made,
                          seen |-> IF todo = {} THEN {} ELSE (ranges \ taken) \union made]]
    /\ UNCHANGED <<history, sweeps, overlapped, stream>>

\* The deletes and inserts become visible together.
CommitCompact(c) ==
    /\ Open(c) /\ compactions[c].todo = {}
    /\ retained' = retained \ compactions[c].candidates
    /\ ranges' = (ranges \ compactions[c].taken) \union compactions[c].made
    /\ compactions' = [compactions EXCEPT ![c] = NoCompaction]
    /\ UNCHANGED <<stored, gaps, objects, ever, sweeps, overlapped, stream>>

\* The transaction rolls back: its worker is killed, a statement fails, or it
\* is chosen to end a deadlock over ranges.  The next cycle starts afresh.
AbortCompact(c) ==
    /\ Open(c)
    /\ compactions' = [compactions EXCEPT ![c] = NoCompaction]
    /\ UNCHANGED <<history, sweeps, overlapped, stream>>

-----------------------------------------------------------------------------
(* The live stream.                                                        *)

\* A bug to avoid: tombstones are not listed.
ListBodies ==
    /\ poll = NoPoll
    /\ poll' = [NoPoll EXCEPT
                    !.step = "gaps", !.known = ever,
                    !.chunks = Least({s \in stored : s > after}, PageLimit + 1)]
    /\ UNCHANGED <<history, sweeps, compacting, after, sent>>

\* The first query of a poll: chunks after the cursor, one more than fit.
ListChunks ==
    /\ poll = NoPoll
    /\ poll' = [NoPoll EXCEPT
                    !.step = "gaps", !.known = ever,
                    !.chunks = Least({s \in stored \union retained : s > after},
                                     PageLimit + 1)]
    /\ UNCHANGED <<history, sweeps, compacting, after, sent>>

ListGaps ==
    /\ poll.step = "gaps"
    /\ poll' = [poll EXCEPT !.step = "ranges",
                            !.gaps = Least({s \in gaps : s > after}, PageLimit + 1)]
    /\ UNCHANGED <<history, sweeps, compacting, after, sent>>

\* A bug to avoid: ranges before the cursor are listed again.
EveryRange == ranges

\* Ranges that reach past the cursor, cut to what comes after it.
ListedRanges ==
    LET past == {r \in ranges : r.through > after}
        least == {r \in past : Cardinality({q \in past : q.first < r.first}) < PageLimit + 1}
    IN  {[first |-> IF r.first > after THEN r.first ELSE after + 1,
          through |-> r.through] : r \in least}

\* The page: chunks that no range covers, gaps and ranges, in order, as many
\* as fit.
Page(listed) ==
    LET rows == (poll.chunks \ Covered(listed)) \union poll.gaps
        records == {[first |-> s, through |-> s] : s \in rows} \union listed
    IN  {x \in records : Cardinality({y \in records : y.first < x.first}) < PageLimit}

\* The last query, and what the stream sends; an empty page sends nothing.
SendPage ==
    LET page == Page(ListedRanges) IN
    /\ poll.step = "ranges"
    /\ poll' = NoPoll
    /\ \/ /\ page = {}
          /\ UNCHANGED <<after, sent>>
       \/ /\ page # {}
          /\ after' = CHOOSE t \in {x.through : x \in page} : \A x \in page : t >= x.through
          /\ sent' = sent \union Covered(page)
    /\ UNCHANGED <<history, sweeps, compacting>>

-----------------------------------------------------------------------------

SweepStep(w) == ListForRetention(w) \/ RemoveBody(w) \/ MarkRetained(w)

CompactStep(c) == BeginCompact(c) \/ LockRanges(c) \/ CommitCompact(c) \/ AbortCompact(c)

PollStep == ListChunks \/ ListGaps \/ SendPage

Next ==
    \/ \E s \in 0..MaxSequence : RecordRow(s)
    \/ \E w \in Sweepers : SweepStep(w) \/ RemovalFails(w) \/ KillSweeper(w)
    \/ \E c \in Compactors : CompactStep(c)
    \/ PollStep

Spec == Init /\ [][Next]_vars

\* A stream that is not closed polls once a second.  Nothing is asked of the
\* workers: the stream must catch up also when they stall half-way.
FairSpec == Spec /\ WF_vars(PollStep)

-----------------------------------------------------------------------------
(* Properties.                                                             *)

\* Types of the tables and of the stream's cursor.
TypeOK ==
    /\ stored \union retained \union gaps \union objects \subseteq ever
    /\ ever \subseteq 0..MaxSequence
    /\ ranges \subseteq Interval
    /\ after \in -1..MaxSequence

\* Every row is in one place: a chunk, a tombstone, a gap or inside a range,
\* and what was recorded is never forgotten.
NothingForgotten ==
    /\ stored \union retained \union gaps \union Covered(ranges) = ever
    /\ Cardinality(stored) + Cardinality(retained) + Cardinality(gaps)
          + Cardinality(Covered(ranges)) = Cardinality(ever)

\* A tombstone is durable only when its body is gone, also when removals
\* fail and workers overlap or are killed: deletion is never skipped.
TombstonesHaveNoBody == (retained \union Covered(ranges)) \intersect objects = {}

\* No sequence is in two ranges, also when compactions overlap; as long as
\* none do, ranges never touch either: each compacted stretch is one range,
\* which is what lets the next merge find it with one look at its neighbours.
RangesAreApart ==
    \A r, q \in ranges : r # q =>
        /\ r.through < q.first \/ q.through < r.first
        /\ ~overlapped => r.through + 1 # q.first

\* Adjacent ranges are coalesced, however many workers run:
\* history_touching.cfg refutes it.
RangesCoalesce == \A r, q \in ranges : r.through + 1 # q.first

\* Recording, retention and compaction together keep the history whole: no
\* sequence is lost or in two places, no tombstone still has its body, and
\* the compacted stretches stay apart (touching ones are left only by
\* compactions that overlapped).
HistoryIsWhole ==
    TypeOK /\ NothingForgotten /\ TombstonesHaveNoBody /\ RangesAreApart

\* A sequence is recorded once: nothing, compaction included, brings the
\* watermark back.
NoSequenceReused ==
    [][\A s \in (stored' \union gaps') \ (stored \union gaps) : s \notin ever]_vars

\* The first query was cut off, and rows it returned have been compacted since:
\* the page then has room for records beyond the ones that were cut off.
FoldedAway ==
    Cardinality(poll.chunks) > PageLimit /\ poll.chunks \intersect Covered(ranges) # {}

\* A poll that begins passes over nothing that was recorded when it began,
\* whatever recording, retention and compaction do between its queries, as
\* long as compaction leaves the rows of a full first query alone.
PollIsComplete ==
    [][~FoldedAway => \A s \in poll.known : after < s /\ s <= after' => s \in sent']_vars

\* ... and without that exception, which history_fold.cfg refutes.
EveryPollIsComplete ==
    [][\A s \in poll.known : after < s /\ s <= after' => s \in sent']_vars

\* The stream passes over no record: what is recorded at or before its
\* cursor was sent.
StreamSkipsNothing == \A s \in ever : s <= after => s \in sent

\* The stream catches up: a record is eventually behind its cursor, although
\* pages are bounded and rows turn into ranges under it.
StreamCatchesUp == \A s \in 0..MaxSequence : (s \in ever) ~> (after >= s)
=============================================================================
