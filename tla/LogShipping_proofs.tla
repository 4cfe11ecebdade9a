------------------------ MODULE LogShipping_proofs ------------------------
(***************************************************************************)
(* What the shipping of a log keeps for ever: an inductive invariant of    *)
(* LogShipping, and from it NoSilentLoss, CursorIsRecorded and             *)
(* BodiesAreStored for any number of handlers, records, events and faults. *)
(***************************************************************************)
EXTENDS LogShipping, TLAPS, SequenceTheorems, WellFoundedInduction

-----------------------------------------------------------------------------
(* The inductive invariant.                                                *)

\* Every record of lo..hi is a row of the history.
Covered(lo, hi, rows) == \A r \in lo..hi : \E c \in rows : c.record = r

\* The rows are in the order of the records and use each sequence once, a gap
\* stands where records are missing, and the source holds no record that the
\* history passed over.
HistoryInv ==
    /\ \A a, b \in chunks : a.sequence < b.sequence => a.record < b.record
    /\ \A a, b \in chunks : a.sequence = b.sequence => a = b
    /\ \A a \in chunks, g \in gaps : a.sequence # g.sequence
    /\ NoSilentLoss
    /\ source.oldest <= written + 1
    /\ \A c \in chunks : Covered(source.oldest, c.record, chunks)

\* A batch of chunks continues at the cursor, or after a gap.
ChunkBatch(p) ==
    /\ p.gaps = {} /\ Len(p.chunks) > 0
    /\ \A i \in 1..Len(p.chunks) :
          /\ p.chunks[i].record = p.chunks[1].record + i - 1
          /\ p.chunks[i].sequence > position.sequence
    /\ \A i, j \in 1..Len(p.chunks) :
          i < j => p.chunks[i].sequence < p.chunks[j].sequence
    /\ position.cursor # None => p.chunks[1].record = position.cursor + 1
    /\ Covered(source.oldest, p.chunks[1].record - 1, chunks)
    /\ \A c \in chunks : Covered(p.chunks[1].record, c.record, chunks)

GapBatch(p) ==
    p.chunks = <<>> /\ \E g \in p.gaps : p.gaps = {g} /\ g.sequence = position.sequence + 1

\* What is stored, the position has passed, or it is the pending batch.
Passed ==
    /\ \A row \in chunks : \/ row.sequence <= position.sequence
                           \/ pending \in batches /\ row \in Rows(pending)
    /\ \A row \in gaps : \/ row.sequence <= position.sequence
                         \/ pending \in batches /\ row \in pending.gaps

LoopInv ==
    /\ pending # None => ChunkBatch(pending) \/ GapBatch(pending)
    /\ active \/ pending # None => Passed
    /\ CursorIsRecorded
    /\ \A b \in batches : Rows(b) \subseteq chunks /\ b.gaps \subseteq gaps

\* An execution works on the pending batch, or on one that is recorded.
HandlerOK(h) ==
    LET handler == handlers[h] IN
    /\ handler.pc = "free" => handler = Free
    /\ handler.pc # "free" =>
          /\ handler.batch # None
          /\ handler.batch = pending \/ handler.batch \in batches
          /\ waiting = h => handler.batch = pending
          /\ handler.created \subseteq {Key(row) : row \in Rows(handler.batch)}
          /\ handler.done <= Len(handler.batch.chunks)
    /\ handler.answer = "receipt" => handler.batch \in batches

\* Every execution's answer and every transaction's outcome is known.
Known == ~BagIn("answer", faults) /\ ~BagIn("commit", faults)

\* Then the loop waits for the only execution there is, and what that one
\* still may remove is not recorded.
BodyInv ==
    Known =>
      /\ \A row \in chunks : Key(row) \in objects
      /\ \A h \in Handlers : handlers[h].pc # "free" => waiting = h
      /\ \A h \in Handlers :
            handlers[h].pc \in {"put", "cleanup"} => handlers[h].batch \notin batches
      /\ \A h \in Handlers :
            handlers[h].pc \in {"check", "put"} =>
                \A i \in 1..handlers[h].done : Key(handlers[h].batch.chunks[i]) \in objects

ShippingInv ==
    /\ TypeOK
    /\ HistoryInv
    /\ LoopInv
    /\ \A h \in Handlers : HandlerOK(h)
    /\ BodyInv

-----------------------------------------------------------------------------
(* Collecting.                                                             *)

\* What a read returns: consecutive records, from the cursor or the oldest.
LEMMA AfterProperties ==
    ASSUME TypeOK, After(position.cursor) # <<>>
    PROVE  LET s == After(position.cursor) IN
           /\ s \in Seq(Nat) /\ Len(s) > 0
           /\ \A i \in 1..Len(s) : s[i] = s[1] + i - 1
           /\ position.cursor = None \/ position.cursor < source.oldest
                 => s[1] = source.oldest
           /\ position.cursor # None /\ ~(position.cursor < source.oldest)
                 => s[1] = position.cursor + 1
<1> DEFINE begin == IF position.cursor = None \/ position.cursor < source.oldest
                    THEN source.oldest ELSE position.cursor + 1
           later == written - begin + 1
           n == IF later < MaxBatch THEN later ELSE MaxBatch
           s == [i \in 1..n |-> begin + i - 1]
<1>1. /\ written \in Nat /\ source.oldest \in Nat
      /\ position.cursor \in Nat \union {None}
  BY DEF TypeOK, Position
<1>2. begin \in Nat
  BY <1>1
<1>3. MaxBatch \in Nat
  BY ShippingAssumption
<1> HIDE DEF begin
<1>4. later \in Int /\ n \in Int
  BY <1>1, <1>2, <1>3
<1> HIDE DEF later, n
<1>5. After(position.cursor) = s
  BY DEF After, begin, later, n
<1>6. n > 0
  <2> SUFFICES ASSUME ~(n > 0) PROVE FALSE
    OBVIOUS
  <2>1. 1..n = {}
    BY <1>4
  <2>2. s = <<>>
    BY <2>1
  <2> QED
    BY <1>5, <2>2
<1>7. n \in Nat
  BY <1>4, <1>6
<1>8. \A i \in 1..n : begin + i - 1 \in Nat
  BY <1>2
<1>9. s \in Seq(Nat) /\ Len(s) = n
  BY <1>7, <1>8, SMT
<1>10. \A i \in 1..n : s[i] = begin + i - 1
  OBVIOUS
<1>11. s[1] = begin
  BY <1>10, <1>6, <1>7, <1>2
<1>12. \A i \in 1..Len(s) : s[i] = s[1] + i - 1
  BY <1>9, <1>10, <1>11
<1> HIDE DEF s
<1> QED
  BY <1>5, <1>6, <1>9, <1>11, <1>12 DEF begin

\* A property of numbers that holds at 0 and passes from each one to the next
\* holds up to n: there is no least exception.
LEMMA Upwards ==
    ASSUME NEW n \in Nat, NEW S, 0 \in S,
           \A i \in 1..n : i - 1 \in S => i \in S
    PROVE  0..n \subseteq S
<1> DEFINE T == {i \in 0..n : i \notin S}
           R == OpToRel(<, Nat)
<1>1. SUFFICES ASSUME T # {} PROVE FALSE
  OBVIOUS
<1>2. IsWellFoundedOn(R, Nat)
  BY NatLessThanWellFounded
<1>3. T \in SUBSET Nat
  OBVIOUS
<1> HIDE DEF R
<1>4. PICK x \in T : \A y \in T : ~(<<y, x>> \in R)
  BY <1>1, <1>2, <1>3, WFMin
<1>5. x # 0 /\ x \in 1..n
  OBVIOUS
<1>6. x - 1 \in T
  BY <1>5
<1>7. <<x - 1, x>> \in R
  BY <1>5 DEF OpToRel, R
<1> QED
  BY <1>4, <1>6, <1>7

\* What rebase_delivery_sequence makes of consecutive records: chunks with
\* growing sequences that continue the deliveries before them.
LEMMA RebaseProperties ==
    ASSUME TypeOK, NEW s \in Seq(Nat),
           \A i \in 1..Len(s) : s[i] = s[1] + i - 1
    PROVE  LET c == RebaseDelivery(s) IN
           /\ c \in Seq(Chunk) /\ Len(c) = Len(s)
           /\ \A i \in 1..Len(s) : /\ c[i].record = s[i]
                                   /\ c[i].sequence > position.sequence
           /\ \A i, j \in 1..Len(s) : i < j => c[i].sequence < c[j].sequence
<1> DEFINE n == Len(s)
           p == position.sequence
           own(i) == s[i] - source.first
           F(f) == [i \in 0..n |->
                      IF i = 0 THEN p
                      ELSE LET next == f[i - 1] + 1
                           IN  IF own(i) > next THEN own(i) ELSE next]
           f == CHOOSE g : g = F(g)
           c == [i \in 1..n |-> [record |-> s[i], sequence |-> f[i]]]
<1>1. RebaseDelivery(s) = c
  BY DEF RebaseDelivery, SourceSequence
<1>2. n \in Nat /\ p \in Int /\ p >= -1 /\ source.first \in Nat
  BY DEF TypeOK, Position
<1>3. \A i \in 1..n : s[i] \in Nat /\ own(i) \in Int
  BY <1>2
<1>4. f = F(f)
  <2> DEFINE q == IF s[1] - source.first > p + 1 THEN s[1] - source.first ELSE p + 1
             w == [i \in 0..n |-> IF i = 0 THEN p ELSE q + i - 1]
  <2>1. ASSUME NEW i \in 0..n, i # 0
        PROVE  w[i] = LET next == w[i - 1] + 1
                      IN  IF own(i) > next THEN own(i) ELSE next
    <3>1. i \in 1..n /\ 1 \in 1..n /\ i - 1 \in 0..n
      BY <1>2, <2>1
    <3>2. s[1] \in Nat /\ s[i] = s[1] + i - 1
      BY <1>3, <3>1
    <3>3. own(i) = s[1] - source.first + i - 1
      BY <3>1, <3>2, <1>2
    <3>4. q \in Int /\ q >= s[1] - source.first /\ q >= p + 1
          /\ (q = s[1] - source.first \/ q = p + 1)
      BY <3>2, <1>2, SMTT(20)
    <3>5. w[i] = q + i - 1
      BY <2>1
    <3>6. w[i - 1] = IF i = 1 THEN p ELSE q + i - 2
      BY <3>1, <3>4, <1>2
    <3> HIDE DEF w, q, own, p
    <3>7. CASE i = 1
      BY <3>3, <3>4, <3>5, <3>6, <3>7, <3>2, <1>2, SMTT(20)
    <3>8. CASE i # 1
      BY <3>3, <3>4, <3>5, <3>6, <3>8, <3>2, <1>2, SMTT(20)
    <3> QED
      BY <3>7, <3>8
  <2>2. w = F(w)
    BY <2>1
  <2> HIDE DEF w, F
  <2> QED
    BY <2>2
<1>5. \A i \in 0..n : f[i] = IF i = 0 THEN p
                             ELSE IF own(i) > f[i - 1] + 1 THEN own(i) ELSE f[i - 1] + 1
  <2> HIDE DEF f
  <2> QED
    BY <1>4
<1> HIDE DEF f, own, p
<1>6. 0..n \subseteq {i \in 0..n : f[i] \in Int}
  <2> DEFINE S == {i \in 0..n : f[i] \in Int}
  <2>1. 0 \in S
    BY <1>2, <1>5
  <2>2. ASSUME NEW i \in 1..n, i - 1 \in S PROVE i \in S
    <3>1. i \in 0..n /\ f[i - 1] \in Int /\ i # 0
      BY <2>2, <1>2
    <3> QED
      BY <3>1, <1>3, <1>5
  <2> HIDE DEF S
  <2>3. 0..n \subseteq S
    BY <2>1, <2>2, <1>2, Upwards
  <2> QED
    BY <2>3 DEF S
<1>7. \A i \in 1..n : f[i - 1] < f[i]
  <2> TAKE i \in 1..n
  <2>1. i \in 0..n /\ i - 1 \in 0..n /\ i # 0
    BY <1>2
  <2>2. f[i] \in Int /\ f[i - 1] \in Int /\ own(i) \in Int
    BY <1>6, <1>3, <2>1
  <2> QED
    BY <1>5, <2>1, <2>2
<1>8. ASSUME NEW i \in 0..n PROVE 0..n \subseteq {j \in 0..n : i < j => f[i] < f[j]}
  <2> DEFINE S == {j \in 0..n : i < j => f[i] < f[j]}
  <2>1. 0 \in S
    BY <1>2
  <2>2. ASSUME NEW j \in 1..n, j - 1 \in S PROVE j \in S
    <3>1. j \in 0..n /\ j - 1 \in 0..n /\ (i < j - 1 => f[i] < f[j - 1])
      BY <2>2, <1>2
    <3>2. f[i] \in Int /\ f[j] \in Int /\ f[j - 1] \in Int /\ f[j - 1] < f[j]
      BY <1>6, <1>7, <3>1
    <3>3. i < j => i < j - 1 \/ i = j - 1
      BY <1>2
    <3> QED
      BY <3>1, <3>2, <3>3
  <2> HIDE DEF S
  <2>3. 0..n \subseteq S
    BY <2>1, <2>2, <1>2, Upwards
  <2> QED
    BY <2>3 DEF S
<1>9. \A i, j \in 0..n : i < j => f[i] < f[j]
  BY <1>8
<1>10. \A i \in 1..n : f[i] > p /\ f[i] \in Nat
  <2> TAKE i \in 1..n
  <2>1. 0 \in 0..n /\ i \in 0..n /\ 0 < i
    BY <1>2
  <2>2. f[0] = p /\ f[i] \in Int /\ f[0] < f[i]
    BY <2>1, <1>5, <1>6, <1>9
  <2> QED
    BY <2>2, <1>2
<1>11. c \in Seq(Chunk) /\ Len(c) = n
  <2>1. \A i \in 1..n : c[i] \in Chunk
    BY <1>3, <1>10 DEF Chunk
  <2> QED
    BY <2>1, <1>2
<1>12. \A i \in 1..n : c[i].record = s[i] /\ c[i].sequence = f[i]
  OBVIOUS
<1>13. \A i, j \in 1..n : i < j => c[i].sequence < c[j].sequence
  <2>1. \A i \in 1..n : i \in 0..n
    BY <1>2
  <2> QED
    BY <1>9, <1>12, <2>1
<1> HIDE DEF c
<1> QED
  BY <1>1, <1>10, <1>11, <1>12, <1>13 DEF p

-----------------------------------------------------------------------------
(* What a step that leaves a part of the state alone cannot disturb.       *)

\* The recorded history stays whole while the source only loses old records or writes new ones
LEMMA HistoryFrame ==
    ASSUME HistoryInv, TypeOK, UNCHANGED <<chunks, gaps>>,
           source'.oldest \in Nat, source'.oldest >= source.oldest,
           source'.oldest <= written' + 1
    PROVE  HistoryInv'
<1>1. source.oldest \in Nat /\ \A c \in chunks : c.record \in Nat
  BY DEF TypeOK, Chunk
<1>2. \A c \in chunks : Covered(source'.oldest, c.record, chunks)
  BY <1>1 DEF HistoryInv, Covered
<1>3. chunks' = chunks /\ gaps' = gaps
  OBVIOUS
<1>4. NoSilentLoss'
  BY <1>3 DEF HistoryInv, NoSilentLoss
<1> QED
  BY <1>2, <1>3, <1>4 DEF HistoryInv

\* The source may lose records, and the unit may be removed.
LEMMA LoopFrame ==
    ASSUME LoopInv, TypeOK, UNCHANGED <<position, pending, batches, chunks, gaps>>,
           source'.oldest \in Nat, source'.oldest >= source.oldest,
           active' => active
    PROVE  LoopInv'
<1>1. source.oldest \in Nat
  BY DEF TypeOK
<1>2. ASSUME pending # None, ChunkBatch(pending) PROVE ChunkBatch(pending)'
  <2>1. pending \in Batch /\ Len(pending.chunks) > 0
    BY <1>2 DEF TypeOK, ChunkBatch
  <2>2. pending.chunks[1].record \in Nat
    <3>1. pending.chunks \in Seq(Chunk)
      BY <2>1 DEF Batch
    <3>2. pending.chunks[1] \in Chunk
      BY <2>1, <3>1
    <3> QED
      BY <3>2 DEF Chunk
  <2>3. Covered(source'.oldest, pending.chunks[1].record - 1, chunks)
    BY <1>1, <1>2, <2>2 DEF ChunkBatch, Covered
  <2> QED
    BY <1>2, <2>3 DEF ChunkBatch, Covered
<1>3. GapBatch(pending) => GapBatch(pending)'
  BY DEF GapBatch
<1>4. Passed => Passed'
  BY DEF Passed, Rows
<1>5. CursorIsRecorded'
  BY DEF LoopInv, CursorIsRecorded
<1>6. (\A b \in batches : Rows(b) \subseteq chunks /\ b.gaps \subseteq gaps)'
  BY DEF LoopInv, Rows
<1> QED
  BY <1>2, <1>3, <1>4, <1>5, <1>6 DEF LoopInv

\* What is said of handler executions lasts while they and the batches stay the same
LEMMA HandlersFrame ==
    ASSUME \A h \in Handlers : HandlerOK(h),
           UNCHANGED <<pending, batches, waiting, handlers>>
    PROVE  (\A h \in Handlers : HandlerOK(h))'
BY DEF HandlerOK

\* ... and what is said of bodies while rows, objects and executions stay the same
LEMMA BodyFrame ==
    ASSUME BodyInv, UNCHANGED <<batches, waiting, handlers, chunks, objects, faults>>
    PROVE  BodyInv'
BY DEF BodyInv, Known

\* A step of the log source.
LEMMA SourceSteps ==
    ASSUME ShippingInv, SourceStep \/ Reconnect
    PROVE  ShippingInv'
<1> USE DEF agent, fleet
<1> DEFINE Sources == [oldest : Nat, first : Nat, connected : BOOLEAN]
           Ages == /\ written' \in Nat /\ source'.oldest >= source.oldest
                   /\ source'.oldest <= written' + 1
           Stays == /\ UNCHANGED <<agent, fleet, faults>>
                    /\ source' \in Sources /\ active' \in BOOLEAN /\ (active' => active)
<1>9. /\ source \in Sources /\ source.oldest \in Nat /\ source.first \in Nat
      /\ source.connected \in BOOLEAN
      /\ written \in Nat /\ source.oldest <= written + 1
      /\ active \in BOOLEAN /\ written + 1 \in Nat /\ source.oldest + 1 \in Nat
  BY DEF ShippingInv, TypeOK, HistoryInv
<1>1. Ages /\ Stays
  <2>1. CASE Write
    <3>1. Ages
      BY <1>9, <2>1 DEF Write
    <3>2. Stays
      BY <1>9, <2>1, Zenon DEF Write
    <3> QED
      BY <3>1, <3>2
  <2>2. CASE Rotate
    <3>1. source' = [source EXCEPT !.oldest = source.oldest + 1]
      BY <2>2 DEF Rotate
    <3>2. source' \in Sources /\ source'.oldest = source.oldest + 1
      BY <1>9, <3>1
    <3>3. Ages
      BY <1>9, <2>2, <3>2 DEF Rotate, SourceEvent
    <3> QED
      BY <1>9, <2>2, <3>2, <3>3, Zenon DEF Rotate, SourceEvent
  <2>3. CASE Replace
    <3>1. source' = [source EXCEPT !.oldest = written + 1, !.first = written + 1]
      BY <2>3 DEF Replace
    <3>2. source' \in Sources /\ source'.oldest = written + 1
      BY <1>9, <3>1
    <3>3. Ages
      BY <1>9, <2>3, <3>2 DEF Replace, SourceEvent
    <3> QED
      BY <1>9, <2>3, <3>2, <3>3, Zenon DEF Replace, SourceEvent
  <2>4. ASSUME NEW kind, Disconnect(kind) PROVE Ages /\ Stays
    <3> DEFINE o == IF kind = "disconnect" THEN written + 1 ELSE source.oldest
    <3>1. source' = [source EXCEPT !.connected = FALSE, !.oldest = o]
      BY <2>4 DEF Disconnect
    <3>0. o \in Nat /\ o >= source.oldest /\ o <= written + 1
      BY <1>9
    <3> HIDE DEF o
    <3>2. source' \in Sources /\ source'.oldest = o
      BY <1>9, <3>0, <3>1
    <3>3. Ages
      BY <1>9, <2>4, <3>0, <3>2 DEF Disconnect, SourceEvent
    <3> QED
      BY <1>9, <2>4, <3>2, <3>3, Zenon DEF Disconnect, SourceEvent
  <2>5. CASE RemoveTarget
    <3>1. Ages
      BY <1>9, <2>5 DEF RemoveTarget
    <3>2. Stays
      BY <1>9, <2>5, Zenon DEF RemoveTarget
    <3> QED
      BY <3>1, <3>2
  <2>6. CASE Reconnect
    <3>1. source' = [source EXCEPT !.connected = TRUE]
      BY <2>6 DEF Reconnect
    <3>2. source' \in Sources /\ source'.oldest = source.oldest
      BY <1>9, <3>1
    <3>3. Ages
      BY <1>9, <2>6, <3>2 DEF Reconnect
    <3> QED
      BY <1>9, <2>6, <3>2, <3>3, Zenon DEF Reconnect
  <2> QED
    BY <2>1, <2>2, <2>3, <2>4, <2>5, <2>6 DEF SourceStep
<1>0. TypeOK' /\ source'.oldest \in Nat
  BY <1>1 DEF ShippingInv, TypeOK
<1>2. HistoryInv'
  BY <1>0, <1>1, HistoryFrame DEF ShippingInv
<1>3. LoopInv'
  BY <1>0, <1>1, LoopFrame DEF ShippingInv
<1>4. (\A h \in Handlers : HandlerOK(h))'
  BY <1>1, HandlersFrame DEF ShippingInv
<1>5. BodyInv'
  BY <1>1, BodyFrame DEF ShippingInv
<1> QED
  BY <1>0, <1>2, <1>3, <1>4, <1>5 DEF ShippingInv

-----------------------------------------------------------------------------
(* The log loop.                                                           *)

\* With nothing pending, the position has passed all that is stored, and
\* every execution that is left works on a recorded batch.
LEMMA NothingPending ==
    ASSUME ShippingInv, pending = None
    PROVE  /\ active => \A row \in chunks \union gaps : row.sequence <= position.sequence
           /\ \A h \in Handlers : handlers[h].pc # "free" => handlers[h].batch \in batches
<1>1. None \notin batches
  BY NoneAssumption DEF ShippingInv, TypeOK
<1>2. active => \A row \in chunks \union gaps : row.sequence <= position.sequence
  BY <1>1 DEF ShippingInv, LoopInv, Passed
<1>3. \A h \in Handlers : handlers[h].pc # "free" => handlers[h].batch \in batches
  BY DEF ShippingInv, HandlerOK
<1> QED
  BY <1>2, <1>3

\* Staging disturbs nothing but the pending batch itself.
LEMMA StageSteps ==
    ASSUME ShippingInv, Collecting, UNCHANGED <<position, waiting>>,
           pending' \in Batch, staged' \in Nat,
           ChunkBatch(pending)' \/ GapBatch(pending)'
    PROVE  ShippingInv'
<1> USE DEF agent, fleet, Collecting
<1>0. /\ waiting = None /\ pending = None /\ active
      /\ UNCHANGED <<written, source, active, batches, chunks, gaps, handlers,
                     objects, faults>>
  BY Zenon
<1>1. TypeOK'
  BY <1>0 DEF ShippingInv, TypeOK
<1>2. HistoryInv'
  <2>1. NoSilentLoss'
    BY <1>0 DEF ShippingInv, HistoryInv, NoSilentLoss
  <2> QED
    BY <1>0, <2>1 DEF ShippingInv, HistoryInv, Covered
<1>3. LoopInv'
  <2>1. Passed'
    BY <1>0, NothingPending DEF Passed
  <2>2. CursorIsRecorded'
    BY <1>0 DEF ShippingInv, LoopInv, CursorIsRecorded
  <2>3. (\A b \in batches : Rows(b) \subseteq chunks /\ b.gaps \subseteq gaps)'
    BY <1>0 DEF ShippingInv, LoopInv, Rows
  <2> QED
    BY <2>1, <2>2, <2>3 DEF LoopInv
<1>4. (\A h \in Handlers : HandlerOK(h))'
  BY <1>0, NothingPending, ShippingAssumption DEF ShippingInv, HandlerOK
<1>5. BodyInv'
  BY <1>0, BodyFrame DEF ShippingInv
<1> QED
  BY <1>1, <1>2, <1>3, <1>4, <1>5 DEF ShippingInv

\* A batch collected from the source continues at the cursor, with rebased sequences
LEMMA CollectChunksStep ==
    ASSUME ShippingInv, CollectChunks PROVE ShippingInv'
<1> DEFINE s == After(position.cursor)
           c == RebaseDelivery(s)
           o == source.oldest
<1>0. /\ Collecting /\ source.connected /\ ~Lost(position.cursor) /\ s # <<>>
      /\ pending = None /\ active
      /\ Stage(c, {})
      /\ chunks' = chunks /\ source' = source /\ position' = position
      /\ TypeOK
  BY Zenon DEF CollectChunks, Collecting, Stage, fleet, ShippingInv
<1>1. /\ s \in Seq(Nat) /\ Len(s) > 0
      /\ \A i \in 1..Len(s) : s[i] = s[1] + i - 1
      /\ position.cursor = None \/ position.cursor < o => s[1] = o
      /\ position.cursor # None /\ ~(position.cursor < o) => s[1] = position.cursor + 1
  BY <1>0, AfterProperties
<1> HIDE DEF s
<1>2. /\ c \in Seq(Chunk) /\ Len(c) = Len(s)
      /\ \A i \in 1..Len(s) : c[i].record = s[i] /\ c[i].sequence > position.sequence
      /\ \A i, j \in 1..Len(s) : i < j => c[i].sequence < c[j].sequence
  BY <1>0, <1>1, RebaseProperties
<1> HIDE DEF c
<1>3. /\ pending' = [id |-> staged + 1, chunks |-> c, gaps |-> {}]
      /\ staged' = staged + 1 /\ UNCHANGED <<position, waiting>>
  BY <1>0 DEF Stage
<1>4. staged \in Nat /\ staged' \in Nat /\ pending' \in Batch
  BY <1>0, <1>2, <1>3 DEF TypeOK, Batch
<1>5. 1 \in 1..Len(s) /\ s[1] \in Nat /\ c[1].record = s[1] /\ o \in Nat
      /\ position.cursor \in Nat \union {None} /\ position.sequence \in Int
  <2>1. 1 \in 1..Len(s) /\ s[1] \in Nat
    BY <1>1
  <2>2. c[1].record = s[1]
    BY <1>2, <2>1
  <2>3. position \in Position /\ o \in Nat
    BY <1>0 DEF TypeOK
  <2> QED
    BY <2>1, <2>2, <2>3 DEF Position
<1>6. position.cursor # None => ~(position.cursor < o)
  BY <1>0 DEF Lost
<1>7. /\ Covered(o, s[1] - 1, chunks)
      /\ \A d \in chunks : Covered(s[1], d.record, chunks)
  <2>1. CASE position.cursor = None
    <3>1. s[1] = o
      BY <1>1, <2>1
    <3>2. Covered(o, o - 1, chunks)
      BY <1>5 DEF Covered
    <3> QED
      BY <3>1, <3>2 DEF ShippingInv, HistoryInv
  <2>2. CASE position.cursor # None
    <3>1. s[1] = position.cursor + 1 /\ position.cursor \in Nat
      BY <1>1, <1>5, <1>6, <2>2
    <3> DEFINE last == [record |-> position.cursor, sequence |-> position.sequence]
    <3>2. last \in chunks
      BY <2>2 DEF ShippingInv, LoopInv, CursorIsRecorded
    <3>3. Covered(o, last.record, chunks)
      BY <3>2 DEF ShippingInv, HistoryInv
    <3>4. s[1] - 1 = position.cursor
      BY <3>1
    <3>5. ASSUME NEW d \in chunks PROVE Covered(s[1], d.record, chunks)
      <4>1. d.sequence <= position.sequence
        BY <1>0, NothingPending
      <4>2. d.record \in Nat /\ d.sequence \in Nat
        BY <1>0 DEF TypeOK, Chunk
      <4>3. d.record <= position.cursor
        <5>1. d.sequence < last.sequence => d.record < last.record
          BY <3>2 DEF ShippingInv, HistoryInv
        <5>2. d.sequence = last.sequence => d = last
          BY <3>2 DEF ShippingInv, HistoryInv
        <5> QED
          BY <4>1, <4>2, <5>1, <5>2, <3>1, <1>5
      <4>4. s[1]..d.record = {}
        BY <4>2, <4>3, <3>1
      <4> QED
        BY <4>4 DEF Covered
    <3> QED
      BY <3>3, <3>4, <3>5
  <2> QED
    BY <2>1, <2>2
<1>8. ChunkBatch(pending)'
  <2>1. pending'.gaps = {} /\ pending'.chunks = c
    BY <1>3
  <2>2. \A i \in 1..Len(c) : c[i].record = c[1].record + i - 1
    BY <1>1, <1>2, <1>5
  <2>3. position.cursor # None => c[1].record = position.cursor + 1
    BY <1>1, <1>5, <1>6
  <2>4. Len(c) > 0 /\ \A i \in 1..Len(c) : c[i].sequence > position.sequence
    BY <1>1, <1>2
  <2>5. \A i, j \in 1..Len(c) : i < j => c[i].sequence < c[j].sequence
    BY <1>2
  <2>6. /\ Covered(o, c[1].record - 1, chunks)
        /\ \A d \in chunks : Covered(c[1].record, d.record, chunks)
    BY <1>5, <1>7
  <2> QED
    BY <1>0, <2>1, <2>2, <2>3, <2>4, <2>5, <2>6 DEF ChunkBatch
<1> QED
  BY <1>0, <1>3, <1>4, <1>8, StageSteps

\* A lost cursor or source becomes a gap one past the position
LEMMA CollectGapStep ==
    ASSUME ShippingInv, NEW reason \in Reasons, CollectGap(reason) PROVE ShippingInv'
<1> DEFINE g == [cursor |-> position.cursor, reason |-> reason,
                 sequence |-> position.sequence + 1]
<1>1. Collecting /\ Stage(<<>>, {g})
  BY DEF CollectGap
<1>2. /\ pending' = [id |-> staged + 1, chunks |-> <<>>, gaps |-> {g}]
      /\ staged' = staged + 1 /\ UNCHANGED <<position, waiting>>
  BY <1>1 DEF Stage
<1>3. /\ staged \in Nat /\ position.cursor \in Nat \union {None}
      /\ position.sequence \in Nat \union {-1}
  BY DEF ShippingInv, TypeOK, Position
<1>4. position.sequence + 1 \in Nat
  BY <1>3
<1>5. g \in Gap /\ g.sequence = position.sequence + 1
  BY <1>3, <1>4 DEF Gap
<1> HIDE DEF g
<1>6. staged' \in Nat /\ pending' \in Batch
  BY <1>2, <1>3, <1>5 DEF Batch
<1>7. GapBatch(pending)'
  BY <1>2, <1>5 DEF GapBatch
<1> QED
  BY <1>1, <1>2, <1>6, <1>7, StageSteps

\* The position may also forget the reported gap, or all of a removed unit.
LEMMA ForgetSteps ==
    ASSUME ShippingInv, MarkConnected \/ RetainTargets PROVE ShippingInv'
<1> USE DEF agent, fleet
<1>1. /\ pending = None
      /\ UNCHANGED <<written, source, active, pending, staged, waiting, batches,
                     chunks, gaps, handlers, objects, faults>>
  BY Zenon DEF MarkConnected, RetainTargets, Collecting
<1>2. TypeOK
  BY DEF ShippingInv
<1>3. /\ position' \in Position
      /\ \/ position'.sequence = position.sequence /\ position'.cursor = position.cursor
         \/ position' = NoPosition /\ ~active
  <2>1. CASE MarkConnected
    BY <1>2, <2>1 DEF MarkConnected, Position, TypeOK
  <2>2. CASE RetainTargets
    <3>1. position' = NoPosition
      BY <2>2 DEF RetainTargets
    <3>2. ~active
      BY <2>2 DEF RetainTargets
    <3>3. NoPosition \in Position
      BY DEF NoPosition, Position
    <3> QED
      BY <3>1, <3>2, <3>3
  <2> QED
    BY <2>1, <2>2
<1>4. TypeOK'
  BY <1>1, <1>2, <1>3 DEF TypeOK
<1>5. HistoryInv'
  <2>1. NoSilentLoss'
    BY <1>1 DEF ShippingInv, HistoryInv, NoSilentLoss
  <2> QED
    BY <1>1, <2>1 DEF ShippingInv, HistoryInv, Covered
<1>6. LoopInv'
  <2>1. CursorIsRecorded'
    <3>1. CASE position' = NoPosition
      BY <3>1 DEF NoPosition, CursorIsRecorded
    <3>2. CASE position'.sequence = position.sequence /\ position'.cursor = position.cursor
      BY <1>1, <3>2 DEF ShippingInv, LoopInv, CursorIsRecorded
    <3> QED
      BY <1>3, <3>1, <3>2
  <2>2. (active \/ pending # None => Passed)'
    <3>1. ASSUME active PROVE Passed'
      <4>1. position'.sequence = position.sequence
        BY <1>3, <3>1
      <4> QED
        BY <1>1, <3>1, <4>1, NothingPending DEF Passed
    <3> QED
      BY <1>1, <3>1
  <2>3. (\A b \in batches : Rows(b) \subseteq chunks /\ b.gaps \subseteq gaps)'
    BY <1>1 DEF ShippingInv, LoopInv, Rows
  <2> QED
    BY <1>1, <2>1, <2>2, <2>3 DEF LoopInv
<1>7. (\A h \in Handlers : HandlerOK(h))'
  BY <1>1, HandlersFrame DEF ShippingInv
<1>8. BodyInv'
  BY <1>1, BodyFrame DEF ShippingInv
<1> QED
  BY <1>4, <1>5, <1>6, <1>7, <1>8 DEF ShippingInv

\* A fresh execution takes the pending batch.
LEMMA UploadStep ==
    ASSUME ShippingInv, NEW h \in Handlers, Upload(h) PROVE ShippingInv'
<1> DEFINE new == [handlers[h] EXCEPT !.pc = "check", !.batch = pending]
<1>1. /\ waiting = None /\ pending # None /\ handlers[h] = Free /\ waiting' = h
      /\ handlers' = [handlers EXCEPT ![h] = [@ EXCEPT !.pc = "check", !.batch = pending]]
      /\ UNCHANGED <<written, source, active, position, pending, staged, batches,
                     chunks, gaps, objects, faults>>
  BY DEF Upload
<1>2. handlers \in [Handlers -> Handler] /\ pending \in Batch /\ TypeOK
  BY <1>1 DEF ShippingInv, TypeOK
<1>3. handlers' = [handlers EXCEPT ![h] = new]
  BY <1>1
<1>4. /\ new \in Handler /\ new.pc = "check" /\ new.batch = pending /\ new.done = 0
      /\ new.created = {} /\ new.answer = None
  <2>0. /\ handlers[h] \in Handler /\ handlers[h].done = 0 /\ handlers[h].created = {}
        /\ handlers[h].answer = None
    BY <1>1, <1>2 DEF Free
  <2> QED
    BY <2>0, <1>2 DEF Handler
<1> HIDE DEF new
<1>5. /\ handlers'[h] = new
      /\ \A k \in Handlers \ {h} : handlers'[k] = handlers[k]
      /\ handlers' \in [Handlers -> Handler]
  BY <1>2, <1>3, <1>4
<1>6. TypeOK'
  BY <1>1, <1>2, <1>5 DEF TypeOK
<1>7. HistoryInv'
  <2>1. source'.oldest \in Nat /\ source'.oldest >= source.oldest
        /\ source'.oldest <= written' + 1
    BY <1>1, <1>2 DEF ShippingInv, TypeOK, HistoryInv
  <2> QED
    BY <1>1, <1>2, <2>1, HistoryFrame DEF ShippingInv
<1>8. LoopInv'
  <2>1. source'.oldest \in Nat /\ source'.oldest >= source.oldest
    BY <1>1, <1>2 DEF TypeOK
  <2> QED
    BY <1>1, <1>2, <2>1, LoopFrame DEF ShippingInv
<1>9. ASSUME NEW k \in Handlers PROVE HandlerOK(k)'
  <2>1. CASE k = h
    <3>1. pending.chunks \in Seq(Chunk)
      BY <1>2 DEF Batch
    <3>2. 0 <= Len(pending.chunks)
      BY <3>1
    <3>3. /\ handlers'[h].pc = "check" /\ handlers'[h].batch = pending
          /\ handlers'[h].done = 0 /\ handlers'[h].created = {}
          /\ handlers'[h].answer = None
      BY <1>4, <1>5
    <3>4. None # "receipt"
      BY NoneAssumption DEF Answers
    <3> QED
      BY <1>1, <2>1, <3>2, <3>3, <3>4 DEF HandlerOK
  <2>2. CASE k # h
    BY <1>1, <1>5, <2>2, ShippingAssumption DEF ShippingInv, HandlerOK
  <2> QED
    BY <2>1, <2>2
<1>10. BodyInv'
  <2>1. SUFFICES ASSUME Known' PROVE BodyInv'
    BY DEF BodyInv
  <2>2. Known
    BY <1>1, <2>1 DEF Known
  <2>3. \A k \in Handlers \ {h} : handlers[k].pc = "free"
    BY <1>1, <2>2, ShippingAssumption DEF ShippingInv, BodyInv
  <2>4. \A row \in chunks : Key(row) \in objects
    BY <2>2 DEF ShippingInv, BodyInv
  <2>5. \A k \in Handlers : handlers'[k].pc # "free" => k = h /\ handlers'[k] = new
    BY <1>5, <2>3
  <2>6. 1..new.done = {}
    BY <1>4
  <2> QED
    BY <1>1, <1>4, <2>4, <2>5, <2>6 DEF BodyInv
<1> QED
  BY <1>6, <1>7, <1>8, <1>9, <1>10 DEF ShippingInv

\* A receipt moves the position past the pending batch, which is recorded.
LEMMA CommitLoop ==
    ASSUME ShippingInv, pending \in batches, Commit,
           UNCHANGED <<active, source, batches, chunks, gaps>>
    PROVE  LoopInv' /\ position' \in Position
<1>0. TypeOK /\ LoopInv /\ pending \in Batch /\ pending # None /\ Passed
      /\ Rows(pending) \subseteq chunks /\ pending.gaps \subseteq gaps
  BY NoneAssumption DEF ShippingInv, TypeOK, LoopInv
<1>1. pending' = None
  BY DEF Commit
<1>2. position.sequence \in Int /\ pending.chunks \in Seq(Chunk) /\ pending.gaps \subseteq Gap
  BY <1>0 DEF TypeOK, Position, Batch
<1>3. /\ position' \in Position
      /\ CursorIsRecorded'
      /\ \A row \in chunks \union gaps : row.sequence <= position'.sequence
  <2>1. CASE ChunkBatch(pending)
    <3> DEFINE n == Len(pending.chunks)
               last == pending.chunks[n]
    <3>1. n \in 1..n /\ pending.gaps = {} /\ last \in Chunk
      BY <1>2, <2>1 DEF ChunkBatch
    <3>2. last \in chunks
      BY <1>0, <1>2, <3>1 DEF Rows
    <3>3. position' = [sequence |-> last.sequence, cursor |-> last.record, gap |-> None]
      BY <3>1 DEF Commit
    <3>4. last.record \in Nat /\ last.sequence \in Nat
          /\ last = [record |-> last.record, sequence |-> last.sequence]
      BY <3>1 DEF Chunk
    <3>5. last.sequence > position.sequence
      BY <2>1, <3>1 DEF ChunkBatch
    <3>6. \A i \in 1..n : pending.chunks[i].sequence <= last.sequence
      <4> TAKE i \in 1..n
      <4>1. i = n \/ i < n
        BY <1>2
      <4>2. pending.chunks[i].sequence \in Nat
        <5>1. pending.chunks[i] \in Chunk
          BY <1>2
        <5> QED
          BY <5>1 DEF Chunk
      <4>3. i < n => pending.chunks[i].sequence < pending.chunks[n].sequence
        BY <2>1, <3>1 DEF ChunkBatch
      <4> QED
        BY <4>1, <4>2, <4>3, <3>4
    <3>7. \A row \in Rows(pending) : row.sequence <= last.sequence
      BY <1>2, <3>6 DEF Rows
    <3> HIDE DEF last, n
    <3>8. position'.sequence = last.sequence /\ position'.cursor = last.record
          /\ position' \in Position
      BY <3>3, <3>4 DEF Position
    <3>9. CursorIsRecorded'
      <4>1. position'.cursor # None
        BY <3>4, <3>8, NoneAssumption
      <4> QED
        BY <4>1, <3>2, <3>4, <3>8 DEF CursorIsRecorded
    <3>10. ASSUME NEW row \in chunks \union gaps PROVE row.sequence <= last.sequence
      <4>1. row.sequence \in Nat
        BY <1>0 DEF TypeOK, Chunk, Gap
      <4>2. row.sequence <= position.sequence \/ row \in Rows(pending)
        BY <1>0, <3>1 DEF Passed
      <4> QED
        BY <4>1, <4>2, <3>4, <3>5, <3>7, <1>2
    <3> QED
      BY <3>8, <3>9, <3>10
  <2>2. CASE GapBatch(pending)
    <3>1. PICK g \in pending.gaps : pending.gaps = {g} /\ g.sequence = position.sequence + 1
      BY <2>2 DEF GapBatch
    <3>2. (CHOOSE x \in pending.gaps : TRUE) = g
      BY <3>1
    <3>3. position' = [sequence |-> g.sequence, cursor |-> None,
                       gap |-> [cursor |-> g.cursor, reason |-> g.reason]]
      BY <3>1, <3>2 DEF Commit
    <3>4. g \in Gap /\ g \in gaps
      BY <1>0, <1>2
    <3>5. position'.sequence = g.sequence /\ position'.cursor = None /\ position' \in Position
      BY <3>3, <3>4 DEF Position, Gap
    <3>6. CursorIsRecorded'
      BY <3>4, <3>5 DEF CursorIsRecorded, Sequences
    <3>7. ASSUME NEW row \in chunks \union gaps PROVE row.sequence <= g.sequence
      <4>1. row.sequence \in Nat
        BY <1>0 DEF TypeOK, Chunk, Gap
      <4>2. Rows(pending) = {}
        BY <2>2 DEF GapBatch, Rows
      <4>3. row.sequence <= position.sequence \/ row = g
        BY <1>0, <3>1, <4>2 DEF Passed
      <4>4. g.sequence \in Nat
        BY <3>4 DEF Gap
      <4> QED
        BY <4>1, <4>3, <4>4, <3>1, <1>2
    <3> QED
      BY <3>5, <3>6, <3>7
  <2> QED
    BY <1>0, <2>1, <2>2 DEF LoopInv
<1>4. Passed'
  BY <1>3 DEF Passed
<1>5. (\A b \in batches : Rows(b) \subseteq chunks /\ b.gaps \subseteq gaps)'
  BY <1>0 DEF LoopInv, Rows
<1> QED
  BY <1>1, <1>3, <1>4, <1>5 DEF LoopInv

-----------------------------------------------------------------------------
(* The executions of the handler.                                          *)

\* An execution moves on to a state it may be in.
Moves(h, new) ==
    /\ handlers' = [handlers EXCEPT ![h] = new]
    /\ new \in Handler
    /\ handlers[h].pc # "free"
    /\ new.pc = "free" => new = Free
    /\ new.pc # "free" =>
          /\ new.batch = handlers[h].batch
          /\ new.created \subseteq {Key(row) : row \in Rows(new.batch)}
          /\ new.done <= Len(new.batch.chunks)
    /\ new.answer = "receipt" => new.batch \in batches'

\* What the step does about the bodies.
KeepsBodies(new) ==
    Known' =>
      /\ Known
      /\ \A row \in chunks' : Key(row) \in objects'
      /\ new.pc \in {"put", "cleanup"} => new.batch \notin batches'
      /\ new.pc \in {"check", "put"} =>
            \A i \in 1..new.done : Key(new.batch.chunks[i]) \in objects'

\* A step of one execution leaves the others as they were
LEMMA HandlersMove ==
    ASSUME ShippingInv, NEW h \in Handlers, NEW new, Moves(h, new),
           UNCHANGED <<pending, waiting>>, batches \subseteq batches'
    PROVE  /\ handlers' \in [Handlers -> Handler]
           /\ handlers'[h] = new
           /\ \A k \in Handlers \ {h} : handlers'[k] = handlers[k]
           /\ (\A k \in Handlers : HandlerOK(k))'
<1>1. handlers \in [Handlers -> Handler]
  BY DEF ShippingInv, TypeOK
<1>2. /\ handlers' \in [Handlers -> Handler]
      /\ handlers'[h] = new
      /\ \A k \in Handlers \ {h} : handlers'[k] = handlers[k]
  BY <1>1 DEF Moves
<1>3. ASSUME NEW k \in Handlers PROVE HandlerOK(k)'
  <2>0. HandlerOK(h) /\ HandlerOK(k)
    BY DEF ShippingInv
  <2>1. CASE k = h
    <3>1. ASSUME new.pc # "free"
          PROVE  /\ new.batch # None
                 /\ new.batch = pending' \/ new.batch \in batches'
                 /\ waiting' = h => new.batch = pending'
      BY <2>0, <3>1 DEF HandlerOK, Moves
    <3> QED
      BY <1>2, <2>1, <3>1 DEF HandlerOK, Moves
  <2>2. CASE k # h
    <3>1. handlers'[k] = handlers[k]
      BY <1>2, <2>2
    <3> QED
      BY <2>0, <3>1 DEF HandlerOK
  <2> QED
    BY <2>1, <2>2
<1> QED
  BY <1>2, <1>3

\* ... and no recorded row loses its body, if the one that moved removes none
LEMMA BodiesMove ==
    ASSUME ShippingInv, NEW h \in Handlers, NEW new, Moves(h, new), KeepsBodies(new),
           UNCHANGED waiting,
           handlers'[h] = new,
           \A k \in Handlers \ {h} : handlers'[k] = handlers[k]
    PROVE  BodyInv'
<1> SUFFICES ASSUME Known' PROVE BodyInv'
  BY DEF BodyInv
<1>1. Known
  BY DEF KeepsBodies
<1>2. waiting = h
  BY <1>1 DEF ShippingInv, BodyInv, Moves
<1>3. \A k \in Handlers \ {h} : handlers'[k].pc = "free"
  BY <1>1, <1>2 DEF ShippingInv, BodyInv
<1> QED
  BY <1>2, <1>3 DEF BodyInv, KeepsBodies

\* A step of one execution that records nothing.
LEMMA WorkStep ==
    ASSUME ShippingInv, NEW h \in Handlers, NEW new, Moves(h, new), KeepsBodies(new),
           UNCHANGED <<written, source, active, agent, batches, chunks, gaps>>,
           objects' \subseteq Nat \X Nat
    PROVE  ShippingInv'
<1> USE DEF agent
<1>1. /\ handlers' \in [Handlers -> Handler]
      /\ handlers'[h] = new
      /\ \A k \in Handlers \ {h} : handlers'[k] = handlers[k]
      /\ (\A k \in Handlers : HandlerOK(k))'
  BY HandlersMove
<1>2. TypeOK' /\ TypeOK
  BY <1>1 DEF ShippingInv, TypeOK
<1>3. source'.oldest \in Nat /\ source'.oldest >= source.oldest
      /\ source'.oldest <= written' + 1
  BY <1>2 DEF ShippingInv, TypeOK, HistoryInv
<1>4. HistoryInv'
  BY <1>2, <1>3, HistoryFrame DEF ShippingInv
<1>5. LoopInv'
  BY <1>2, <1>3, LoopFrame DEF ShippingInv
<1>6. BodyInv'
  BY <1>1, BodiesMove
<1> QED
  BY <1>1, <1>2, <1>4, <1>5, <1>6 DEF ShippingInv

\* One more fault: the others stay what they are.
LEMMA FaultStays ==
    ASSUME NEW kind, Fault(kind)
    PROVE  /\ Known' => Known /\ kind # "answer" /\ kind # "commit"
           /\ UNCHANGED <<written, source, active>>
<1>1. faults' = faults (+) SetToBag({kind})
  BY DEF Fault
<1>2. DOMAIN faults' = DOMAIN faults \union {kind}
  BY <1>1 DEF (+), SetToBag
<1> QED
  BY <1>2 DEF Known, BagIn, BagToSet, Fault

\* Goto changes where an execution is and what it will answer.
LEMMA GotoFields ==
    ASSUME TypeOK, NEW h \in Handlers, NEW pc, NEW answer, Goto(h, pc, answer),
           pc \in {"check", "put", "cleanup", "answer"}, answer \in Answers \union {None}
    PROVE  \E new \in Handler :
             /\ handlers' = [handlers EXCEPT ![h] = new]
             /\ new.pc = pc /\ new.answer = answer
             /\ new.batch = handlers[h].batch /\ new.done = handlers[h].done
             /\ new.created = handlers[h].created
<1> DEFINE new == [handlers[h] EXCEPT !.pc = pc, !.answer = answer]
<1>1. handlers \in [Handlers -> Handler] /\ handlers[h] \in Handler
  BY DEF TypeOK
<1>2. handlers' = [handlers EXCEPT ![h] = new]
  BY <1>1 DEF Goto
<1>3. /\ new \in Handler
      /\ new.pc = pc /\ new.answer = answer
      /\ new.batch = handlers[h].batch /\ new.done = handlers[h].done
      /\ new.created = handlers[h].created
  BY <1>1 DEF Handler
<1> QED
  BY <1>2, <1>3

\* A step that only moves on to pc, perhaps with an answer.
LEMMA GotoStep ==
    ASSUME ShippingInv, NEW h \in Handlers, NEW pc, NEW answer, Goto(h, pc, answer),
           pc \in {"put", "cleanup", "answer"}, answer \in Answers \union {None},
           handlers[h].pc # "free",
           UNCHANGED <<written, source, active, agent, batches, chunks, gaps, objects>>,
           answer = "receipt" => handlers[h].batch \in batches,
           Known' => Known,
           pc = "put" => handlers[h].pc = "check",
           Known /\ pc # "answer" => handlers[h].batch \notin batches
    PROVE  ShippingInv'
<1>1. TypeOK /\ HandlerOK(h) /\ BodyInv
  BY DEF ShippingInv
<1>2. pc \in {"check", "put", "cleanup", "answer"}
  OBVIOUS
<1>3. PICK new \in Handler :
             /\ handlers' = [handlers EXCEPT ![h] = new]
             /\ new.pc = pc /\ new.answer = answer
             /\ new.batch = handlers[h].batch /\ new.done = handlers[h].done
             /\ new.created = handlers[h].created
  BY <1>1, <1>2, GotoFields
<1>4. Moves(h, new)
  BY <1>1, <1>3 DEF Moves, HandlerOK
<1>5. KeepsBodies(new)
  BY <1>1, <1>3 DEF KeepsBodies, BodyInv
<1>6. objects' \subseteq Nat \X Nat
  BY <1>1 DEF TypeOK
<1> QED
  BY <1>4, <1>5, <1>6, WorkStep

\* replay_log_batch.
LEMMA CheckStep ==
    ASSUME ShippingInv, NEW h \in Handlers, Check(h) PROVE ShippingInv'
<1>1. /\ handlers[h].pc = "check"
      /\ UNCHANGED <<written, source, active, agent, batches, chunks, gaps, objects>>
      /\ faults' = faults
  BY DEF Check, Handling, agent
<1>2. Known' => Known
  BY <1>1 DEF Known
<1>3. "receipt" \in Answers /\ "conflict" \in Answers /\ None # "receipt"
      /\ "conflict" # "receipt"
  BY NoneAssumption DEF Answers
<1>4. CASE handlers[h].batch \in batches /\ Goto(h, "answer", "receipt")
  BY <1>1, <1>2, <1>3, <1>4, GotoStep
<1>5. CASE Goto(h, "answer", "conflict")
  BY <1>1, <1>2, <1>3, <1>5, GotoStep
<1>6. CASE handlers[h].batch \notin batches /\ Goto(h, "put", None)
  BY <1>1, <1>2, <1>3, <1>6, GotoStep
<1> QED
  BY <1>4, <1>5, <1>6 DEF Check, Recorded

\* ILogChunkStore::put: one more object is there.
LEMMA PutStep ==
    ASSUME ShippingInv, NEW h \in Handlers, Put(h) PROVE ShippingInv'
<1> DEFINE old == handlers[h]
           row == old.batch.chunks[old.done + 1]
           key == Key(row)
           new == [old EXCEPT !.done = old.done + 1,
                              !.created = old.created \union ({key} \ objects)]
<1>1. /\ old.pc = "put" /\ old.done < Len(old.batch.chunks)
      /\ objects' = objects \union {key}
      /\ handlers' = [handlers EXCEPT ![h].done = @ + 1,
                                      ![h].created = @ \union ({key} \ objects)]
      /\ UNCHANGED <<written, source, active, agent, batches, chunks, gaps, faults>>
  BY DEF Put, Handling, agent
<1>2. TypeOK /\ HandlerOK(h) /\ BodyInv
  BY DEF ShippingInv
<1>3. handlers \in [Handlers -> Handler] /\ old \in Handler
  BY <1>2 DEF TypeOK
<1>4. handlers' = [handlers EXCEPT ![h] = new]
  BY <1>1, <1>3
<1>5. old.batch \in Batch /\ old.batch.chunks \in Seq(Chunk) /\ old.done \in Nat
      /\ old.created \in SUBSET (Nat \X Nat)
  <2>1. old.batch \in Batch
    BY <1>1, <1>2, <1>3 DEF HandlerOK, Handler
  <2> QED
    BY <1>3, <2>1 DEF Handler, Batch
<1> HIDE DEF old
<1>6. old.done + 1 \in 1..Len(old.batch.chunks) /\ old.done + 1 \in Nat
  BY <1>1, <1>5
<1>7. row \in Chunk /\ row \in Rows(old.batch)
  BY <1>5, <1>6 DEF Rows
<1> HIDE DEF row
<1>8. key \in Nat \X Nat
  BY <1>7 DEF Key, Chunk
<1>9. /\ new \in Handler /\ new.pc = "put" /\ new.batch = old.batch
      /\ new.done = old.done + 1 /\ new.answer = old.answer
      /\ new.created = old.created \union ({key} \ objects)
  <2> HIDE DEF key
  <2>1. old.created \union ({key} \ objects) \in SUBSET (Nat \X Nat)
    BY <1>5, <1>8
  <2> QED
    BY <1>1, <1>3, <1>6, <2>1 DEF Handler
<1> HIDE DEF new, key
<1>10. Moves(h, new)
  <2>1. key \in {Key(x) : x \in Rows(old.batch)}
    BY <1>7 DEF key
  <2>2. new.created \subseteq {Key(x) : x \in Rows(old.batch)}
    BY <1>1, <1>2, <1>9, <2>1 DEF HandlerOK, old
  <2>3. new.answer = "receipt" => new.batch \in batches'
    BY <1>1, <1>2, <1>9 DEF HandlerOK, old
  <2>4. new.done <= Len(new.batch.chunks)
    BY <1>6, <1>9
  <2> QED
    BY <1>1, <1>4, <1>9, <2>2, <2>3, <2>4 DEF Moves, old
<1>11. KeepsBodies(new)
  <2> SUFFICES ASSUME Known' PROVE KeepsBodies(new)
    BY DEF KeepsBodies
  <2>1. Known
    BY <1>1 DEF Known
  <2>2. ASSUME NEW i \in 1..new.done PROVE Key(new.batch.chunks[i]) \in objects'
    <3>1. i \in 1..old.done \/ i = old.done + 1
      BY <1>5, <1>9
    <3>2. i = old.done + 1 => Key(old.batch.chunks[i]) = key
      BY DEF key, row
    <3>3. i \in 1..old.done => Key(old.batch.chunks[i]) \in objects
      BY <1>1, <1>2, <2>1 DEF BodyInv, old
    <3> QED
      BY <1>1, <1>9, <3>1, <3>2, <3>3
  <2>3. new.batch \notin batches'
    BY <1>1, <1>2, <1>9, <2>1 DEF BodyInv, old
  <2>4. \A x \in chunks' : Key(x) \in objects'
    BY <1>1, <1>2, <2>1 DEF BodyInv
  <2> QED
    BY <2>1, <2>2, <2>3, <2>4 DEF KeepsBodies
<1>12. objects' \subseteq Nat \X Nat
  BY <1>1, <1>2, <1>8 DEF TypeOK
<1> QED
  BY <1>1, <1>10, <1>11, <1>12, WorkStep

\* A call of the handler fails: PutFails, RecordFails, CleanupFails.
LEMMA FailSteps ==
    ASSUME ShippingInv, NEW h \in Handlers,
           PutFails(h) \/ RecordFails(h) \/ CleanupFails(h)
    PROVE  ShippingInv'
<1>1. PICK kind \in {"put", "record", "cleanup"}, pc \in {"cleanup", "answer"} :
         /\ Fault(kind) /\ Goto(h, pc, "retry")
         /\ handlers[h].pc # "free"
         /\ pc = "cleanup" => handlers[h].pc = "put"
         /\ UNCHANGED <<agent, batches, chunks, gaps, objects>>
  BY DEF PutFails, RecordFails, CleanupFails
<1>2. (Known' => Known) /\ UNCHANGED <<written, source, active>>
  BY <1>1, FaultStays
<1>3. "retry" \in Answers /\ "retry" # "receipt"
  BY DEF Answers
<1>4. Known /\ pc # "answer" => handlers[h].batch \notin batches
  BY <1>1 DEF ShippingInv, BodyInv
<1> QED
  BY <1>1, <1>2, <1>3, <1>4, GotoStep

\* The rows of a pending batch that is not recorded are new.
LEMMA FreshRows ==
    ASSUME ShippingInv, pending # None, pending \notin batches
    PROVE  /\ Rows(pending) \subseteq Chunk
           /\ \A row \in Rows(pending) : row.sequence > position.sequence
           /\ \A row \in chunks \union gaps : row.sequence <= position.sequence
           /\ \A row \in Rows(pending), x \in chunks : row.sequence # x.sequence
<1>1. /\ pending \in Batch /\ Passed /\ position.sequence \in Int
      /\ ChunkBatch(pending) \/ GapBatch(pending)
  BY DEF ShippingInv, TypeOK, LoopInv, Position
<1>2. pending.chunks \in Seq(Chunk)
  BY <1>1 DEF Batch
<1>3. Rows(pending) \subseteq Chunk
  BY <1>2 DEF Rows
<1>4. \A row \in Rows(pending) : row.sequence > position.sequence
  BY <1>1, <1>2 DEF Rows, ChunkBatch, GapBatch
<1>5. \A row \in chunks \union gaps : row.sequence <= position.sequence
  BY <1>1 DEF Passed
<1>6. ASSUME NEW row \in Rows(pending), NEW x \in chunks
      PROVE  row.sequence # x.sequence
  <2>1. row.sequence \in Nat /\ x.sequence \in Nat
    BY <1>3 DEF ShippingInv, TypeOK, Chunk
  <2> QED
    BY <2>1, <1>1, <1>4, <1>5
<1> QED
  BY <1>3, <1>4, <1>5, <1>6

\* cleanup_created.
LEMMA CleanupStep ==
    ASSUME ShippingInv, NEW h \in Handlers, Cleanup(h) PROVE ShippingInv'
<1>1. /\ handlers[h].pc = "cleanup"
      /\ UNCHANGED <<written, source, active, agent, batches, chunks, gaps, faults>>
  BY DEF Cleanup, Handling, agent
<1>2. TypeOK /\ HandlerOK(h) /\ BodyInv
  BY DEF ShippingInv
<1>3. handlers \in [Handlers -> Handler] /\ handlers[h] \in Handler
  BY <1>2 DEF TypeOK
<1>4. Known' => Known
  BY <1>1 DEF Known
<1>5. ASSUME Goto(h, "answer", handlers[h].answer), UNCHANGED objects
      PROVE  ShippingInv'
  <2>1. handlers[h].answer \in Answers \union {None}
    BY <1>3 DEF Handler
  <2>2. handlers[h].answer = "receipt" => handlers[h].batch \in batches
    BY <1>2 DEF HandlerOK
  <2> QED
    BY <1>1, <1>4, <1>5, <2>1, <2>2, GotoStep
<1>6. ASSUME NEW key \in handlers[h].created, objects' = objects \ {key},
             handlers' = [handlers EXCEPT ![h].created = @ \ {key}]
      PROVE  ShippingInv'
  <2> DEFINE old == handlers[h]
             new == [old EXCEPT !.created = old.created \ {key}]
  <2>1. handlers' = [handlers EXCEPT ![h] = new]
    BY <1>3, <1>6
  <2>2. /\ new \in Handler /\ new.pc = "cleanup" /\ new.batch = old.batch
        /\ new.done = old.done /\ new.answer = old.answer
        /\ new.created = old.created \ {key}
    BY <1>1, <1>3 DEF Handler
  <2> HIDE DEF new
  <2>3. Moves(h, new)
    BY <1>1, <1>2, <2>1, <2>2 DEF Moves, HandlerOK
  <2>4. KeepsBodies(new)
    <3> SUFFICES ASSUME Known' PROVE KeepsBodies(new)
      BY DEF KeepsBodies
    <3>1. Known /\ old.batch \notin batches
      BY <1>1, <1>2, <1>4 DEF BodyInv
    <3>2. pending # None /\ pending \notin batches /\ old.batch = pending
      BY <1>1, <1>2, <3>1 DEF HandlerOK
    <3>3. PICK row \in Rows(pending) : key = Key(row)
      BY <1>1, <1>2, <1>6, <3>2 DEF HandlerOK
    <3>4. ASSUME NEW x \in chunks PROVE Key(x) # key
      <4>1. x.sequence # row.sequence
        BY <3>2, FreshRows
      <4> QED
        BY <3>3, <4>1 DEF Key
    <3>5. \A x \in chunks' : Key(x) \in objects'
      BY <1>1, <1>2, <1>6, <3>1, <3>4 DEF BodyInv
    <3> QED
      BY <1>1, <2>2, <3>1, <3>5 DEF KeepsBodies
  <2>5. objects' \subseteq Nat \X Nat
    BY <1>2, <1>6 DEF TypeOK
  <2> QED
    BY <1>1, <2>3, <2>4, <2>5, WorkStep
<1> QED
  BY <1>5, <1>6 DEF Cleanup

\* A free slot has the type of an execution and has answered nothing
LEMMA FreeIsHandler ==
    /\ Free \in Handler /\ Free.pc = "free" /\ Free.answer # "receipt"
<1>1. Free.pc = "free" /\ Free.answer = None
  BY DEF Free
<1>2. None # "receipt"
  BY NoneAssumption DEF Answers
<1>3. Free \in Handler
  BY DEF Free, Handler
<1> QED
  BY <1>1, <1>2, <1>3

\* An execution nobody waits for ends; its answer changes nothing
LEMMA DropAnswerStep ==
    ASSUME ShippingInv, NEW h \in Handlers, DropAnswer(h) PROVE ShippingInv'
<1>1. /\ handlers[h].pc = "answer"
      /\ handlers' = [handlers EXCEPT ![h] = Free]
      /\ UNCHANGED <<written, source, active, agent, batches, chunks, gaps, objects, faults>>
  BY DEF DropAnswer, agent
<1>2. Moves(h, Free)
  BY <1>1, FreeIsHandler DEF Moves
<1>3. KeepsBodies(Free)
  BY <1>1, FreeIsHandler DEF KeepsBodies, Known, ShippingInv, BodyInv
<1>4. objects' \subseteq Nat \X Nat
  BY <1>1 DEF ShippingInv, TypeOK
<1> QED
  BY <1>1, <1>2, <1>3, <1>4, WorkStep

-----------------------------------------------------------------------------
(* The transaction.                                                        *)

\* A gap is recorded: it follows everything that is.
LEMMA StoreGap ==
    ASSUME ShippingInv, pending # None, pending \notin batches, GapBatch(pending),
           Store(pending), UNCHANGED <<written, source, active, position, pending>>
    PROVE  HistoryInv' /\ LoopInv'
<1>1. PICK g \in pending.gaps : pending.gaps = {g} /\ g.sequence = position.sequence + 1
  BY DEF GapBatch
<1>2. Rows(pending) = {}
  BY DEF GapBatch, Rows
<1>3. /\ batches' = batches \union {pending} /\ chunks' = chunks
      /\ gaps' = gaps \union {g}
  BY <1>1, <1>2 DEF Store
<1>4. position.sequence \in Int
  BY DEF ShippingInv, TypeOK, Position
<1>5. ASSUME NEW a \in chunks PROVE a.sequence # g.sequence
  <2>1. a.sequence \in Nat /\ a.sequence <= position.sequence
    BY FreshRows DEF ShippingInv, TypeOK, Chunk
  <2> QED
    BY <1>1, <1>4, <2>1
<1>6. NoSilentLoss'
  BY <1>3 DEF ShippingInv, HistoryInv, NoSilentLoss
<1>7. HistoryInv'
  BY <1>3, <1>5, <1>6 DEF ShippingInv, HistoryInv, Covered
<1>8. GapBatch(pending)'
  BY DEF GapBatch
<1>9. Passed'
  BY <1>1, <1>3, FreshRows DEF Passed
<1>10. CursorIsRecorded'
  BY <1>3 DEF ShippingInv, LoopInv, CursorIsRecorded, Sequences
<1>11. (\A b \in batches : Rows(b) \subseteq chunks /\ b.gaps \subseteq gaps)'
  BY <1>1, <1>2, <1>3 DEF ShippingInv, LoopInv, Rows
<1> QED
  BY <1>7, <1>8, <1>9, <1>10, <1>11 DEF LoopInv

\* Chunks are recorded: they continue the history without a hole, or there
\* is a gap before them.
LEMMA StoreChunks ==
    ASSUME ShippingInv, pending # None, pending \notin batches, ChunkBatch(pending),
           Acceptable(pending),
           Store(pending), UNCHANGED <<written, source, active, position, pending>>
    PROVE  HistoryInv' /\ LoopInv'
<1> DEFINE s == pending.chunks
           n == Len(s)
           first == s[1].record
           o == source.oldest
           pos == position.sequence
<1>1. pending \in Batch /\ s \in Seq(Chunk) /\ n \in Nat /\ n > 0
  BY DEF ShippingInv, TypeOK, Batch, ChunkBatch
<1>2. \A i \in 1..n : s[i] \in Chunk /\ s[i] \in Rows(pending)
  BY <1>1 DEF Rows
<1>3. \A i \in 1..n : s[i].record \in Nat /\ s[i].sequence \in Nat
  BY <1>2 DEF Chunk
<1>4. 1 \in 1..n /\ first \in Nat
  BY <1>1, <1>3
<1>5. /\ \A i \in 1..n : s[i].record = first + i - 1 /\ s[i].sequence > pos
      /\ \A i, j \in 1..n : i < j => s[i].sequence < s[j].sequence
      /\ position.cursor # None => first = position.cursor + 1
      /\ Covered(o, first - 1, chunks)
      /\ \A c \in chunks : Covered(first, c.record, chunks)
      /\ pending.gaps = {}
  BY DEF ChunkBatch
<1>6. Rows(pending) = {s[i] : i \in 1..n}
  BY <1>1 DEF Rows
<1>7. /\ batches' = batches \union {pending} /\ gaps' = gaps
      /\ chunks' = chunks \union {s[i] : i \in 1..n}
  BY <1>5, <1>6 DEF Store
<1>8. /\ \A c \in chunks : c.record \in Nat /\ c.sequence \in Nat
      /\ pos \in Int /\ o \in Nat /\ position.cursor \in Nat \union {None}
  BY DEF ShippingInv, TypeOK, Chunk, Position
<1>9. \A c \in chunks : c.sequence <= pos
  BY FreshRows
<1>10. ASSUME NEW c \in chunks PROVE c.record < first
  <2>1. s[1] \in Rows(pending)
    BY <1>2, <1>4
  <2>2. s[1] \notin chunks
    BY <2>1, FreshRows
  <2>3. \A x \in chunks : x.record # first
    BY <2>1, <2>2 DEF Acceptable
  <2>4. ~(first <= c.record)
    <3> SUFFICES ASSUME first <= c.record PROVE FALSE
      OBVIOUS
    <3>1. first \in first..c.record
      BY <1>4, <1>8
    <3> QED
      BY <1>5, <2>3, <3>1 DEF Covered
  <2> QED
    BY <2>4, <1>4, <1>8
<1> HIDE DEF s, n, first, pos, o
<1>11. ASSUME NEW c \in chunks, NEW i \in 1..n
       PROVE  c.record < s[i].record /\ c.sequence < s[i].sequence
  <2>1. s[i].record = first + i - 1 /\ s[i].sequence > pos
    BY <1>5
  <2> QED
    BY <2>1, <1>3, <1>4, <1>8, <1>9, <1>10
<1>12. ASSUME NEW i \in 1..n, NEW j \in 1..n
       PROVE  /\ s[i].sequence < s[j].sequence => i < j
              /\ s[i].sequence = s[j].sequence => i = j
  <2>1. i < j \/ i = j \/ j < i
    BY <1>1
  <2>2. /\ i < j => s[i].sequence < s[j].sequence
        /\ j < i => s[j].sequence < s[i].sequence
    BY <1>5
  <2> QED
    BY <2>1, <2>2, <1>3
<1>13. ASSUME NEW c \in chunks' PROVE c \in chunks \/ \E i \in 1..n : c = s[i]
  BY <1>7
<1>14. \A a, b \in chunks' : a.sequence < b.sequence => a.record < b.record
  <2> SUFFICES ASSUME NEW a \in chunks', NEW b \in chunks', a.sequence < b.sequence
               PROVE  a.record < b.record
    OBVIOUS
  <2>1. CASE a \in chunks /\ b \in chunks
    BY <2>1 DEF ShippingInv, HistoryInv
  <2>2. ASSUME a \in chunks, NEW i \in 1..n, b = s[i] PROVE a.record < b.record
    BY <2>2, <1>11
  <2>3. ASSUME b \in chunks, NEW i \in 1..n, a = s[i] PROVE FALSE
    <3>1. b.sequence < a.sequence /\ a.sequence \in Nat /\ b.sequence \in Nat
      BY <2>3, <1>3, <1>8, <1>11
    <3> QED
      BY <3>1
  <2>4. ASSUME NEW i \in 1..n, a = s[i], NEW j \in 1..n, b = s[j] PROVE a.record < b.record
    <3>1. i < j
      BY <2>4, <1>12
    <3>2. a.record = first + i - 1 /\ b.record = first + j - 1
      BY <2>4, <1>5
    <3> QED
      BY <3>1, <3>2, <1>4
  <2> QED
    BY <1>13, <2>1, <2>2, <2>3, <2>4
<1>15. \A a, b \in chunks' : a.sequence = b.sequence => a = b
  <2> SUFFICES ASSUME NEW a \in chunks', NEW b \in chunks', a.sequence = b.sequence
               PROVE  a = b
    OBVIOUS
  <2>1. CASE a \in chunks /\ b \in chunks
    BY <2>1 DEF ShippingInv, HistoryInv
  <2>2. ASSUME NEW x \in chunks, NEW i \in 1..n, x.sequence = s[i].sequence PROVE FALSE
    <3>1. x.sequence < s[i].sequence /\ x.sequence \in Nat /\ s[i].sequence \in Nat
      BY <1>3, <1>8, <1>11
    <3> QED
      BY <2>2, <3>1
  <2>3. ASSUME NEW i \in 1..n, a = s[i], NEW j \in 1..n, b = s[j] PROVE a = b
    BY <2>3, <1>12
  <2> QED
    BY <1>13, <2>1, <2>2, <2>3
<1>16. \A a \in chunks', g \in gaps' : a.sequence # g.sequence
  <2> SUFFICES ASSUME NEW a \in chunks', NEW g \in gaps, a.sequence = g.sequence PROVE FALSE
    BY <1>7
  <2>1. g.sequence <= pos /\ g.sequence \in Nat
    BY FreshRows DEF ShippingInv, TypeOK, Gap, pos
  <2>2. CASE a \in chunks
    BY <2>2 DEF ShippingInv, HistoryInv
  <2>3. ASSUME NEW i \in 1..n, a = s[i] PROVE FALSE
    BY <2>1, <2>3, <1>3, <1>5, <1>8
  <2> QED
    BY <1>13, <2>2, <2>3
<1>17. NoSilentLoss'
  <2> SUFFICES ASSUME NEW a \in chunks', NEW b \in chunks', a.sequence < b.sequence,
                      \A c \in chunks' : ~(a.sequence < c.sequence /\ c.sequence < b.sequence)
               PROVE  \/ b.record = a.record + 1
                      \/ /\ b.record > a.record
                         /\ \E g \in gaps' : a.sequence < g.sequence /\ g.sequence < b.sequence
    BY DEF NoSilentLoss
  <2>1. CASE a \in chunks /\ b \in chunks
    <3>1. \A c \in chunks : ~(a.sequence < c.sequence /\ c.sequence < b.sequence)
      BY <1>7
    <3> QED
      BY <1>7, <2>1, <3>1 DEF ShippingInv, HistoryInv, NoSilentLoss
  <2>2. ASSUME a \in chunks, NEW i \in 1..n, b = s[i]
        PROVE  \/ b.record = a.record + 1
               \/ /\ b.record > a.record
                  /\ \E g \in gaps' : a.sequence < g.sequence /\ g.sequence < b.sequence
    <3>1. i = 1
      <4> SUFFICES ASSUME i # 1 PROVE FALSE
        OBVIOUS
      <4>1. 1 < i
        BY <1>1
      <4>2. s[1].sequence < s[i].sequence
        BY <1>4, <1>5, <4>1
      <4>3. a.sequence < s[1].sequence
        BY <1>4, <1>11, <2>2
      <4>4. s[1] \in chunks'
        BY <1>4, <1>7
      <4> QED
        BY <2>2, <4>2, <4>3, <4>4
    <3>2. b.record = first /\ b.sequence > pos /\ b.sequence \in Nat
      BY <1>3, <1>5, <2>2, <3>1 DEF first
    <3>3. a.record < first /\ a.sequence <= pos /\ a.sequence \in Nat /\ a.record \in Nat
      BY <1>8, <1>9, <1>10, <2>2
    <3>4. CASE position.cursor # None
      <4> DEFINE last == [record |-> position.cursor, sequence |-> pos]
      <4>1. last \in chunks
        BY <3>4 DEF ShippingInv, LoopInv, CursorIsRecorded, pos
      <4>2. ~(a.sequence < pos)
        <5>1. last \in chunks' /\ last.sequence = pos
          BY <1>7, <4>1
        <5> QED
          BY <5>1, <3>2, <1>8
      <4>3. a.sequence = last.sequence
        BY <4>2, <3>3, <1>8
      <4>4. a = last
        BY <2>2, <4>1, <4>3 DEF ShippingInv, HistoryInv
      <4> QED
        BY <1>5, <3>2, <3>4, <4>4
    <3>5. CASE position.cursor = None
      <4>1. pos >= 0
        BY <3>3, <1>8
      <4>2. PICK g \in gaps : g.sequence = pos
        BY <3>5, <4>1 DEF ShippingInv, LoopInv, CursorIsRecorded, Sequences, pos
      <4>3. a.sequence # g.sequence
        BY <2>2 DEF ShippingInv, HistoryInv
      <4>4. a.sequence < g.sequence /\ g.sequence < b.sequence
        BY <3>2, <3>3, <4>2, <4>3, <1>8
      <4>5. b.record > a.record
        BY <3>2, <3>3, <1>4
      <4> QED
        BY <1>7, <4>4, <4>5
    <3> QED
      BY <3>4, <3>5
  <2>3. ASSUME b \in chunks, NEW i \in 1..n, a = s[i] PROVE FALSE
    <3>1. b.sequence < a.sequence /\ a.sequence \in Nat /\ b.sequence \in Nat
      BY <2>3, <1>3, <1>8, <1>11
    <3> QED
      BY <3>1
  <2>4. ASSUME NEW i \in 1..n, a = s[i], NEW j \in 1..n, b = s[j]
        PROVE  b.record = a.record + 1
    <3>1. i < j
      BY <2>4, <1>12
    <3>2. j = i + 1
      <4> SUFFICES ASSUME j # i + 1 PROVE FALSE
        OBVIOUS
      <4>1. i + 1 \in 1..n /\ i < i + 1 /\ i + 1 < j
        BY <3>1, <1>1
      <4>2. s[i].sequence < s[i + 1].sequence /\ s[i + 1].sequence < s[j].sequence
        BY <1>5, <4>1
      <4>3. s[i + 1] \in chunks'
        BY <1>7, <4>1
      <4> QED
        BY <2>4, <4>2, <4>3
    <3>3. a.record = first + i - 1 /\ b.record = first + j - 1
      BY <2>4, <1>5
    <3> QED
      BY <3>2, <3>3, <1>4
  <2> QED
    BY <1>13, <2>1, <2>2, <2>3, <2>4
<1>18. \A i \in 1..n : Covered(first, s[i].record, chunks')
  <2> SUFFICES ASSUME NEW i \in 1..n, NEW r \in first..s[i].record
               PROVE  \E c \in chunks' : c.record = r
    BY DEF Covered
  <2>1. s[i].record = first + i - 1 /\ r \in Int
    BY <1>5
  <2>2. r - first + 1 \in 1..n
    BY <2>1, <1>1, <1>4
  <2>3. s[r - first + 1].record = r
    <3>1. s[r - first + 1].record = first + (r - first + 1) - 1
      BY <1>5, <2>2
    <3> QED
      BY <3>1, <2>1, <1>4
  <2> QED
    BY <1>7, <2>2, <2>3
<1>19. Covered(o, first - 1, chunks')
  BY <1>5, <1>7 DEF Covered
<1>20. \A c \in chunks' : Covered(first, c.record, chunks')
  <2>1. \A c \in chunks : Covered(first, c.record, chunks')
    BY <1>5, <1>7 DEF Covered
  <2> QED
    BY <1>13, <1>18, <2>1
<1>21. \A c \in chunks' : Covered(o, c.record, chunks')
  <2>1. ASSUME NEW c \in chunks' PROVE Covered(o, c.record, chunks')
    <3> SUFFICES ASSUME NEW r \in o..c.record PROVE \E d \in chunks' : d.record = r
      BY DEF Covered
    <3>1. c.record \in Nat
      BY <1>3, <1>8, <1>13
    <3>2. r \in Int /\ (r \in o..(first - 1) \/ r \in first..c.record)
      BY <1>4, <1>8, <3>1
    <3> QED
      BY <1>19, <1>20, <3>2 DEF Covered
  <2> QED
    BY <2>1
<1>22. HistoryInv'
  <2>1. o' = o
    BY DEF o
  <2> QED
    BY <1>14, <1>15, <1>16, <1>17, <1>21, <2>1 DEF ShippingInv, HistoryInv, o
<1>23. ChunkBatch(pending)'
  <2>1. pending' = pending /\ position' = position /\ source' = source
    OBVIOUS
  <2> QED
    BY <1>5, <1>1, <1>19, <1>20, <2>1 DEF ChunkBatch, s, n, first, o, pos
<1>24. Passed'
  <2>1. pending' \in batches' /\ pending' = pending /\ position' = position
    BY <1>7
  <2>2. ASSUME NEW row \in chunks'
        PROVE  row.sequence <= position.sequence \/ row \in Rows(pending)
    BY <1>6, <1>9, <1>13 DEF pos
  <2>3. \A row \in gaps' : row.sequence <= position.sequence
    BY <1>7, FreshRows
  <2> QED
    BY <2>1, <2>2, <2>3 DEF Passed, Rows
<1>25. CursorIsRecorded'
  BY <1>7 DEF ShippingInv, LoopInv, CursorIsRecorded
<1>26. (\A b \in batches : Rows(b) \subseteq chunks /\ b.gaps \subseteq gaps)'
  <2>1. \A b \in batches : Rows(b) \subseteq chunks' /\ b.gaps \subseteq gaps'
    BY <1>7 DEF ShippingInv, LoopInv
  <2>2. Rows(pending) \subseteq chunks' /\ pending.gaps \subseteq gaps'
    BY <1>5, <1>6, <1>7
  <2> QED
    BY <1>7, <2>1, <2>2 DEF Rows
<1> QED
  BY <1>22, <1>23, <1>24, <1>25, <1>26 DEF LoopInv

\* The transaction commits, and the handler learns of it or not.
LEMMA StoreStep ==
    ASSUME ShippingInv, NEW h \in Handlers, NEW pc \in {"cleanup", "answer"},
           NEW answer \in Answers, Goto(h, pc, answer),
           handlers[h].pc = "put", handlers[h].done = Len(handlers[h].batch.chunks),
           handlers[h].batch \notin batches, Acceptable(handlers[h].batch),
           Store(handlers[h].batch),
           UNCHANGED <<written, source, active, agent, objects>>,
           Known' => Known /\ pc = "answer"
    PROVE  ShippingInv'
<1> USE DEF agent
<1>1. TypeOK /\ HandlerOK(h) /\ BodyInv
  BY DEF ShippingInv
<1>2. handlers[h].batch = pending /\ pending # None /\ pending \notin batches
  BY <1>1 DEF HandlerOK
<1>3. Acceptable(pending) /\ Store(pending) /\ pending \in Batch
  BY <1>1, <1>2 DEF TypeOK
<1>4. HistoryInv' /\ LoopInv'
  <2>1. ChunkBatch(pending) \/ GapBatch(pending)
    BY <1>2 DEF ShippingInv, LoopInv
  <2> QED
    BY <1>2, <1>3, <2>1, StoreGap, StoreChunks
<1>5. /\ batches' = batches \union {pending} /\ chunks' = chunks \union Rows(pending)
      /\ gaps' = gaps \union pending.gaps
  BY <1>3 DEF Store
<1>6. pc \in {"check", "put", "cleanup", "answer"} /\ answer \in Answers \union {None}
  OBVIOUS
<1>7. PICK new \in Handler :
             /\ handlers' = [handlers EXCEPT ![h] = new]
             /\ new.pc = pc /\ new.answer = answer
             /\ new.batch = handlers[h].batch /\ new.done = handlers[h].done
             /\ new.created = handlers[h].created
  BY <1>1, <1>6, GotoFields
<1>8. Moves(h, new)
  BY <1>1, <1>2, <1>5, <1>7 DEF Moves, HandlerOK
<1>9. KeepsBodies(new)
  <2> SUFFICES ASSUME Known' PROVE KeepsBodies(new)
    BY DEF KeepsBodies
  <2>1. Known /\ new.pc = "answer"
    BY <1>7
  <2>2. ASSUME NEW row \in Rows(pending) PROVE Key(row) \in objects
    <3>1. pending.chunks \in Seq(Chunk)
      BY <1>3 DEF Batch
    <3>2. PICK i \in 1..Len(pending.chunks) : row = pending.chunks[i]
      BY <3>1 DEF Rows
    <3> QED
      BY <1>1, <1>2, <2>1, <3>2 DEF BodyInv
  <2> QED
    BY <1>1, <1>5, <2>1, <2>2 DEF KeepsBodies, BodyInv
<1>10. UNCHANGED <<pending, waiting>> /\ batches \subseteq batches'
  BY <1>5
<1>11. /\ handlers' \in [Handlers -> Handler]
       /\ handlers'[h] = new
       /\ \A k \in Handlers \ {h} : handlers'[k] = handlers[k]
       /\ (\A k \in Handlers : HandlerOK(k))'
  BY <1>8, <1>10, HandlersMove
<1>12. BodyInv'
  BY <1>8, <1>9, <1>10, <1>11, BodiesMove
<1>13. Rows(pending) \subseteq Chunk /\ pending.gaps \subseteq Gap
  BY <1>2, <1>3, FreshRows DEF Batch
<1>14. TypeOK'
  BY <1>1, <1>3, <1>5, <1>11, <1>13 DEF TypeOK
<1> QED
  BY <1>4, <1>11, <1>12, <1>14 DEF ShippingInv

\* record_log_chunks.
LEMMA RecordStep ==
    ASSUME ShippingInv, NEW h \in Handlers, Record(h) PROVE ShippingInv'
<1>1. /\ handlers[h].pc = "put" /\ handlers[h].done = Len(handlers[h].batch.chunks)
      /\ UNCHANGED <<written, source, active, agent, objects>> /\ faults' = faults
  BY DEF Record, Handling, agent
<1>2. Known' => Known
  BY <1>1 DEF Known
<1>3. "receipt" \in Answers /\ "conflict" \in Answers /\ "conflict" # "receipt"
  BY DEF Answers
<1>4. CASE handlers[h].batch \in batches /\ Goto(h, "answer", "receipt")
           /\ UNCHANGED <<batches, chunks, gaps>>
  BY <1>1, <1>2, <1>3, <1>4, GotoStep
<1>5. CASE handlers[h].batch \notin batches /\ Acceptable(handlers[h].batch)
           /\ Goto(h, "answer", "receipt") /\ Store(handlers[h].batch)
  BY <1>1, <1>2, <1>3, <1>5, StoreStep
<1>6. CASE handlers[h].batch \notin batches /\ Goto(h, "cleanup", "conflict")
           /\ UNCHANGED <<batches, chunks, gaps>>
  BY <1>1, <1>2, <1>3, <1>6, GotoStep
<1> QED
  BY <1>4, <1>5, <1>6 DEF Record, Recorded

\* The rows are recorded although their execution takes the transaction for failed
LEMMA CommitUnknownStep ==
    ASSUME ShippingInv, NEW h \in Handlers, CommitUnknown(h) PROVE ShippingInv'
<1>1. /\ handlers[h].pc = "put" /\ handlers[h].done = Len(handlers[h].batch.chunks)
      /\ handlers[h].batch \notin batches /\ Acceptable(handlers[h].batch)
      /\ Fault("commit") /\ Store(handlers[h].batch) /\ Goto(h, "cleanup", "retry")
      /\ UNCHANGED <<agent, objects>>
  BY DEF CommitUnknown, Recorded
<1>2. ~Known' /\ UNCHANGED <<written, source, active>>
  BY <1>1, FaultStays
<1>3. "retry" \in Answers
  BY DEF Answers
<1> QED
  BY <1>1, <1>2, <1>3, StoreStep

-----------------------------------------------------------------------------
(* Answers, and what happens to them.                                      *)

\* Only a recorded batch has a receipt, so the position moves past nothing
\* that is not recorded.
LEMMA ReceiveStep ==
    ASSUME ShippingInv, NEW h \in Handlers, Receive(h) PROVE ShippingInv'
<1>1. /\ handlers[h].pc = "answer" /\ waiting = h /\ waiting' = None
      /\ handlers' = [handlers EXCEPT ![h] = Free]
      /\ UNCHANGED <<written, source, active, staged, batches, chunks, gaps, objects, faults>>
      /\ \/ handlers[h].answer = "receipt" /\ Commit
         \/ UNCHANGED <<position, pending>>
  BY DEF Receive
<1>2. TypeOK /\ HandlerOK(h) /\ BodyInv /\ HistoryInv
  BY DEF ShippingInv
<1>3. handlers \in [Handlers -> Handler]
  BY <1>2 DEF TypeOK
<1>4. /\ handlers' \in [Handlers -> Handler] /\ handlers'[h] = Free
      /\ \A k \in Handlers \ {h} : handlers'[k] = handlers[k]
  BY <1>1, <1>3, FreeIsHandler
<1>5. source'.oldest \in Nat /\ source'.oldest >= source.oldest
      /\ source'.oldest <= written' + 1
  BY <1>1, <1>2 DEF TypeOK, HistoryInv
<1>6. HistoryInv'
  BY <1>1, <1>2, <1>5, HistoryFrame
<1>7. /\ LoopInv' /\ position' \in Position /\ pending' \in Batch \union {None}
      /\ pending' = pending \/ pending \in batches
  <2>1. CASE handlers[h].answer = "receipt" /\ Commit
    <3>1. pending \in batches
      BY <1>1, <1>2, <2>1 DEF HandlerOK
    <3>2. pending' = None
      BY <2>1 DEF Commit
    <3> QED
      BY <1>1, <2>1, <3>1, <3>2, CommitLoop
  <2>2. CASE UNCHANGED <<position, pending>>
    <3>1. LoopInv'
      BY <1>1, <1>2, <1>5, <2>2, LoopFrame DEF ShippingInv
    <3> QED
      BY <1>2, <2>2, <3>1 DEF TypeOK
  <2> QED
    BY <1>1, <2>1, <2>2
<1>8. TypeOK'
  BY <1>1, <1>2, <1>4, <1>7 DEF TypeOK
<1>9. ASSUME NEW k \in Handlers PROVE HandlerOK(k)'
  <2>1. CASE k = h
    BY <1>4, <2>1, FreeIsHandler DEF HandlerOK
  <2>2. CASE k # h
    <3>1. HandlerOK(k) /\ handlers'[k] = handlers[k] /\ waiting' # k
      BY <1>1, <1>4, <2>2, ShippingAssumption DEF ShippingInv
    <3>2. handlers[k].batch = pending => handlers[k].batch = pending'
                                         \/ handlers[k].batch \in batches'
      BY <1>1, <1>7
    <3> QED
      BY <1>1, <3>1, <3>2 DEF HandlerOK
  <2> QED
    BY <2>1, <2>2
<1>10. BodyInv'
  <2> SUFFICES ASSUME Known' PROVE BodyInv'
    BY DEF BodyInv
  <2>1. Known
    BY <1>1 DEF Known
  <2>2. \A k \in Handlers : handlers'[k].pc = "free"
    BY <1>1, <1>2, <1>4, <2>1, FreeIsHandler DEF BodyInv
  <2> QED
    BY <1>1, <1>2, <2>1, <2>2 DEF BodyInv
<1> QED
  BY <1>6, <1>7, <1>8, <1>9, <1>10 DEF ShippingInv

\* The loop stops waiting, or the control plane loses its executions.
LEMMA InterruptedSteps ==
    ASSUME ShippingInv, LoseAnswer \/ CallFails \/ Kill PROVE ShippingInv'
<1>1. /\ UNCHANGED <<written, source, active, position, pending, staged, batches,
                     chunks, gaps, objects>>
      /\ waiting' \in {waiting, None}
      /\ \/ handlers' = handlers \/ handlers' = [h \in Handlers |-> Free]
  BY DEF LoseAnswer, CallFails, Kill, Fault, agent, fleet
<1>2. TypeOK /\ BodyInv /\ HistoryInv /\ LoopInv
  BY DEF ShippingInv
<1>3. source'.oldest \in Nat /\ source'.oldest >= source.oldest
      /\ source'.oldest <= written' + 1
  BY <1>1, <1>2 DEF TypeOK, HistoryInv
<1>4. HistoryInv'
  BY <1>1, <1>2, <1>3, HistoryFrame
<1>5. LoopInv'
  BY <1>1, <1>2, <1>3, LoopFrame
<1>6. TypeOK'
  <2>1. handlers' \in [Handlers -> Handler] /\ waiting' \in Handlers \union {None}
    BY <1>1, <1>2, FreeIsHandler DEF TypeOK
  <2> QED
    BY <1>1, <1>2, <2>1 DEF TypeOK
<1>7. ASSUME NEW k \in Handlers PROVE HandlerOK(k)'
  <2>1. CASE handlers'[k] = Free
    BY <2>1, FreeIsHandler DEF HandlerOK
  <2>2. CASE handlers'[k] = handlers[k]
    <3>1. HandlerOK(k) /\ (waiting' = k => waiting = k)
      BY <1>1, ShippingAssumption DEF ShippingInv
    <3> QED
      BY <1>1, <2>2, <3>1 DEF HandlerOK
  <2> QED
    BY <1>1, <2>1, <2>2
<1>8. BodyInv'
  <2> SUFFICES ASSUME Known' PROVE BodyInv'
    BY DEF BodyInv
  <2>1. CASE LoseAnswer
    BY <2>1, FaultStays DEF LoseAnswer
  <2>2. CASE CallFails
    <3>1. /\ waiting # None /\ handlers[waiting] = Free /\ handlers' = handlers
          /\ faults' = faults
      BY <2>2 DEF CallFails, fleet
    <3>2. Known
      BY <3>1 DEF Known
    <3>3. \A k \in Handlers : handlers[k].pc = "free"
      BY <1>2, <3>1, <3>2, FreeIsHandler DEF BodyInv
    <3> QED
      BY <1>1, <1>2, <3>1, <3>2, <3>3 DEF BodyInv
  <2>3. CASE Kill
    <3>1. Known /\ handlers' = [h \in Handlers |-> Free]
      BY <2>3, FaultStays DEF Kill
    <3>2. \A k \in Handlers : handlers'[k].pc = "free"
      BY <3>1, FreeIsHandler
    <3> QED
      BY <1>1, <1>2, <3>1, <3>2 DEF BodyInv
  <2> QED
    BY <2>1, <2>2, <2>3
<1> QED
  BY <1>4, <1>5, <1>6, <1>7, <1>8 DEF ShippingInv

-----------------------------------------------------------------------------
(* The theorems.                                                           *)

\* Nothing is written, recorded or pending
LEMMA ShippingInit ==
    ASSUME Init PROVE ShippingInv
<1>1. /\ written = 0 /\ source = [oldest |-> 1, first |-> 1, connected |-> TRUE]
      /\ active = TRUE /\ position = NoPosition /\ pending = None /\ staged = 0
      /\ waiting = None /\ handlers = [h \in Handlers |-> Free]
      /\ batches = {} /\ chunks = {} /\ gaps = {} /\ objects = {}
  BY DEF Init
<1>2. /\ position.sequence = -1 /\ position.cursor = None /\ position \in Position
      /\ source.oldest = 1
  BY <1>1 DEF NoPosition, Position
<1>3. \A h \in Handlers : handlers[h] = Free
  BY <1>1
<1>4. TypeOK
  BY <1>1, <1>2, FreeIsHandler DEF TypeOK
<1>5. HistoryInv
  BY <1>1, <1>2 DEF HistoryInv, NoSilentLoss
<1>6. LoopInv
  BY <1>1, <1>2 DEF LoopInv, Passed, CursorIsRecorded
<1>7. \A h \in Handlers : HandlerOK(h)
  BY <1>3, FreeIsHandler DEF HandlerOK
<1>8. BodyInv
  BY <1>1, <1>3, FreeIsHandler DEF BodyInv
<1> QED
  BY <1>4, <1>5, <1>6, <1>7, <1>8 DEF ShippingInv

\* The invariant holds in every reachable state: whatever is written, lost,
\* killed, retried or refused, in any order.
THEOREM ShippingInvariance == Spec => []ShippingInv
<1>1. Init => ShippingInv
  BY ShippingInit
<1>2. ShippingInv /\ [Next]_vars => ShippingInv'
  <2> SUFFICES ASSUME ShippingInv, [Next]_vars PROVE ShippingInv'
    OBVIOUS
  <2>1. CASE SourceStep \/ Reconnect
    BY <2>1, SourceSteps
  <2>2. CASE LoopStep
    <3>1. CASE CollectChunks
      BY <3>1, CollectChunksStep
    <3>2. CASE \E reason \in Reasons : CollectGap(reason)
      BY <3>2, CollectGapStep
    <3>3. CASE MarkConnected \/ RetainTargets
      BY <3>3, ForgetSteps
    <3>4. CASE CallFails
      BY <3>4, InterruptedSteps
    <3>5. CASE \E h \in Handlers : Upload(h) \/ Receive(h)
      BY <3>5, UploadStep, ReceiveStep
    <3> QED
      BY <2>2, <3>1, <3>2, <3>3, <3>4, <3>5 DEF LoopStep
  <2>3. CASE FaultStep
    <3>1. CASE LoseAnswer \/ Kill
      BY <3>1, InterruptedSteps
    <3>2. ASSUME NEW h \in Handlers,
                 PutFails(h) \/ RecordFails(h) \/ CommitUnknown(h) \/ CleanupFails(h)
          PROVE  ShippingInv'
      BY <3>2, FailSteps, CommitUnknownStep
    <3> QED
      BY <2>3, <3>1, <3>2 DEF FaultStep
  <2>4. ASSUME NEW h \in Handlers, HandlerStep(h) PROVE ShippingInv'
    BY <2>4, CheckStep, PutStep, RecordStep, CleanupStep, DropAnswerStep DEF HandlerStep
  <2>5. CASE UNCHANGED vars
    <3>1. UNCHANGED <<written, source, active, position, pending, staged, waiting,
                      handlers, batches, chunks, gaps, objects, faults>>
      BY <2>5 DEF vars, agent, fleet
    <3>2. TypeOK /\ TypeOK'
      BY <3>1 DEF ShippingInv, TypeOK
    <3>3. source'.oldest \in Nat /\ source'.oldest >= source.oldest
          /\ source'.oldest <= written' + 1
      BY <3>1, <3>2 DEF ShippingInv, TypeOK, HistoryInv
    <3>4. HistoryInv'
      BY <3>1, <3>2, <3>3, HistoryFrame DEF ShippingInv
    <3>5. LoopInv'
      BY <3>1, <3>2, <3>3, LoopFrame DEF ShippingInv
    <3>6. (\A h \in Handlers : HandlerOK(h))' /\ BodyInv'
      BY <3>1, HandlersFrame, BodyFrame DEF ShippingInv
    <3> QED
      BY <3>2, <3>4, <3>5, <3>6 DEF ShippingInv
  <2> QED
    BY <2>1, <2>2, <2>3, <2>4, <2>5 DEF Next
<1> QED
  BY <1>1, <1>2, PTL DEF Spec

\* The recorded history of a unit never repeats or swaps records, and leaves
\* one out only where a gap says so: the cursor, the pending batch and the
\* rebased sequences see to it however the source, the Agent and the control
\* plane fail.
THEOREM WholeDelivery == Spec => []NoSilentLoss
<1>1. ShippingInv => NoSilentLoss
  BY DEF ShippingInv, HistoryInv
<1> QED
  BY <1>1, ShippingInvariance, PTL

\* The Agent's durable cursor covers only what the control plane recorded.
THEOREM RecordedCursor == Spec => []CursorIsRecorded
<1>1. ShippingInv => CursorIsRecorded
  BY DEF ShippingInv, LoopInv
<1> QED
  BY <1>1, ShippingInvariance, PTL

\* Every recorded chunk has its body, unless an answer or the outcome of a
\* transaction was lost: cleanup_created then removes what it must not.
THEOREM StoredBodies == Spec => []BodiesAreStored
<1>1. ShippingInv => BodiesAreStored
  BY DEF ShippingInv, BodyInv, Known, BodiesAreStored
<1> QED
  BY <1>1, ShippingInvariance, PTL
=============================================================================
