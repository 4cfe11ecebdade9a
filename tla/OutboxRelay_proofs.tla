------------------------- MODULE OutboxRelay_proofs -------------------------
(***************************************************************************)
(* Theorems about OutboxRelay, for every number of facts, relays and       *)
(* projectors, every configuration OutboxRelayConfig accepts and any bound *)
(* on crashes, faults and stalls.  RelayInv is the inductive invariant.    *)
(***************************************************************************)
EXTENDS OutboxRelay, SequenceTheorems, FiniteSetTheorems, TLAPS

\* The queue of claim holds every unpublished row, once
LineInv ==
  /\ ToSet(line) = { e \in Events : Committed(e) /\ ~rows[e].published }
  /\ IsInjective(line)

\* A relay between claim and settlement has a committed fact in hand, and one
\* that was told so has it on the bus
HandInv ==
  \A r \in Relays :
    /\ relays[r].incarnation <= restarts
    /\ relays[r].event = Null <=> relays[r].phase = "idle"
    /\ relays[r].event # Null => Committed(relays[r].event)
    /\ relays[r].phase = "delivered" => relays[r].event \in bus

\* What is on its way to the bus has been projected
WireInv == \A m \in wire, p \in Projectors : m[1] \in projected[p]

\* Without a stall the lease of a relay outlasts its publish timer
LeaseInv ==
  stalls = 0 =>
    \A r \in Relays :
      relays[r].event # Null =>
        LET e == relays[r].event IN
        /\ HoldsLease(e, Owner(r))
        /\ relays[r].phase = "claimed" => rows[e].lease > PublishTimeout
        /\ relays[r].phase \in {"delivering", "publishing"} => rows[e].lease > relays[r].timer

RelayInv == TypeOK /\ LineInv /\ HandInv /\ WireInv /\ PublishedIsHandedOff /\ LeaseInv

-----------------------------------------------------------------------------
(* The queue                                                                *)

\* What InsertAt returns
LEMMA InsertAtProperties ==
  ASSUME NEW S, NEW s \in Seq(S), NEW i \in 1 .. Len(s) + 1, NEW e \in S
  PROVE  /\ InsertAt(s, i, e) \in Seq(S)
         /\ Len(InsertAt(s, i, e)) = Len(s) + 1
         /\ \A j \in 1 .. Len(s) + 1 :
              InsertAt(s, i, e)[j] = IF j < i THEN s[j] ELSE IF j = i THEN e ELSE s[j - 1]
<1> DEFINE front == SubSeq(s, 1, i - 1)
           back == SubSeq(s, i, Len(s))
<1>1. /\ front \in Seq(S) /\ Len(front) = i - 1
      /\ \A j \in 1 .. i - 1 : front[j] = s[j]
  BY SubSeqProperties
<1>2. /\ back \in Seq(S) /\ Len(back) = Len(s) - i + 1
      /\ \A j \in 1 .. Len(s) - i + 1 : back[j] = s[i + j - 1]
  BY SubSeqProperties
<1> HIDE DEF front, back
<1>3. /\ front \o <<e>> \in Seq(S) /\ Len(front \o <<e>>) = i
      /\ \A j \in 1 .. i : (front \o <<e>>)[j] = IF j < i THEN s[j] ELSE e
  BY <1>1
<1>4. InsertAt(s, i, e) = (front \o <<e>>) \o back
  BY DEF InsertAt, front, back
<1> DEFINE head == front \o <<e>>
<1> HIDE DEF head
<1>5. head \in Seq(S) /\ Len(head) = i /\ \A j \in 1 .. i : head[j] = IF j < i THEN s[j] ELSE e
  BY <1>3 DEF head
<1>6. /\ head \o back \in Seq(S)
      /\ Len(head \o back) = Len(s) + 1
      /\ \A j \in 1 .. Len(s) + 1 :
           (head \o back)[j] = IF j < i THEN s[j] ELSE IF j = i THEN e ELSE s[j - 1]
  <2>1. /\ head \o back \in Seq(S)
        /\ Len(head \o back) = Len(head) + Len(back)
        /\ \A j \in 1 .. Len(head) + Len(back) :
             (head \o back)[j] = IF j <= Len(head) THEN head[j] ELSE back[j - Len(head)]
    BY <1>2, <1>5, ConcatProperties
  <2>2. Len(s) \in Nat /\ Len(head) + Len(back) = Len(s) + 1
    BY <1>2, <1>5
  <2>3. ASSUME NEW j \in 1 .. Len(s) + 1
        PROVE  (head \o back)[j] = IF j < i THEN s[j] ELSE IF j = i THEN e ELSE s[j - 1]
    <3>1. CASE j <= i
      BY <2>1, <2>2, <1>5, <3>1
    <3>2. CASE j > i
      <4>1. j - i \in 1 .. Len(s) - i + 1 /\ i + (j - i) - 1 = j - 1
        BY <2>2, <3>2
      <4> QED BY <2>1, <2>2, <1>2, <1>5, <3>2, <4>1
    <3> QED BY <3>1, <3>2, <2>2
  <2> QED BY <2>1, <2>2, <2>3
<1> QED BY <1>4, <1>6 DEF head

\* What RemoveAt returns
LEMMA RemoveAtProperties ==
  ASSUME NEW S, NEW s \in Seq(S), NEW i \in 1 .. Len(s)
  PROVE  /\ RemoveAt(s, i) \in Seq(S)
         /\ Len(RemoveAt(s, i)) = Len(s) - 1
         /\ \A j \in 1 .. Len(s) - 1 :
              RemoveAt(s, i)[j] = IF j < i THEN s[j] ELSE s[j + 1]
<1> DEFINE front == SubSeq(s, 1, i - 1)
           back == SubSeq(s, i + 1, Len(s))
<1>1. /\ front \in Seq(S) /\ Len(front) = i - 1
      /\ \A j \in 1 .. i - 1 : front[j] = s[j]
  BY SubSeqProperties
<1>2. /\ back \in Seq(S) /\ Len(back) = Len(s) - i
      /\ \A j \in 1 .. Len(s) - i : back[j] = s[i + j]
  BY SubSeqProperties
<1>3. RemoveAt(s, i) = front \o back
  BY DEF RemoveAt
<1> HIDE DEF front, back
<1>4. /\ front \o back \in Seq(S)
      /\ Len(front \o back) = Len(s) - 1
      /\ \A j \in 1 .. Len(s) - 1 :
           (front \o back)[j] = IF j < i THEN s[j] ELSE s[j + 1]
  <2>1. /\ front \o back \in Seq(S)
        /\ Len(front \o back) = Len(front) + Len(back)
        /\ \A j \in 1 .. Len(front) + Len(back) :
             (front \o back)[j] = IF j <= Len(front) THEN front[j] ELSE back[j - Len(front)]
    BY <1>1, <1>2, ConcatProperties
  <2>2. Len(s) \in Nat /\ Len(front) + Len(back) = Len(s) - 1
    BY <1>1, <1>2
  <2>3. ASSUME NEW j \in 1 .. Len(s) - 1
        PROVE  (front \o back)[j] = IF j < i THEN s[j] ELSE s[j + 1]
    <3>1. CASE j < i
      BY <2>1, <2>2, <1>1, <3>1
    <3>2. CASE j >= i
      <4>1. j - (i - 1) \in 1 .. Len(s) - i /\ i + (j - (i - 1)) = j + 1
        BY <2>2, <3>2
      <4>2. (front \o back)[j] = back[j - (i - 1)]
        BY <2>1, <2>2, <1>1, <3>2
      <4> QED BY <1>2, <3>2, <4>1, <4>2, <2>2
    <3> QED BY <3>1, <3>2, <2>2
  <2> QED BY <2>1, <2>2, <2>3
<1> QED BY <1>3, <1>4

\* A row enters the queue behind those that are due no later
LEMMA EnqueuedProperties ==
  ASSUME NEW queue \in Seq(Events), NEW e \in Events, NEW delay
  PROVE  /\ Enqueued(queue, e, delay) \in Seq(Events)
         /\ ToSet(Enqueued(queue, e, delay)) = ToSet(queue) \cup {e}
         /\ IsInjective(queue) /\ e \notin ToSet(queue) => IsInjective(Enqueued(queue, e, delay))
<1> DEFINE due == { i \in DOMAIN queue : rows[queue[i]].delay <= delay }
           k == Cardinality(due) + 1
           q == InsertAt(queue, k, e)
<1>1. Len(queue) \in Nat /\ DOMAIN queue = 1 .. Len(queue)
  OBVIOUS
<1>2. IsFiniteSet(1 .. Len(queue)) /\ Cardinality(1 .. Len(queue)) = Len(queue)
  BY <1>1, FS_Interval, SMTT(20)
<1>3. due \subseteq 1 .. Len(queue)
  BY <1>1
<1>4. Cardinality(due) \in 0 .. Len(queue)
  <2> HIDE DEF due
  <2>1. IsFiniteSet(due) /\ Cardinality(due) <= Cardinality(1 .. Len(queue))
    BY <1>2, <1>3, FS_Subset
  <2>2. Cardinality(due) \in Nat
    BY <2>1, FS_CardinalityType
  <2> QED BY <1>1, <1>2, <2>1, <2>2
<1>5. k \in 1 .. Len(queue) + 1
  BY <1>1, <1>4
<1>6. Enqueued(queue, e, delay) = q
  BY DEF Enqueued
<1> HIDE DEF k
<1>7. /\ q \in Seq(Events) /\ Len(q) = Len(queue) + 1
      /\ \A j \in 1 .. Len(queue) + 1 :
           q[j] = IF j < k THEN queue[j] ELSE IF j = k THEN e ELSE queue[j - 1]
  BY <1>5, InsertAtProperties
<1> HIDE DEF q
<1>8. DOMAIN q = 1 .. Len(queue) + 1
  BY <1>7
<1>9. ToSet(q) = ToSet(queue) \cup {e}
  <2>1. ASSUME NEW x \in ToSet(q) PROVE x \in ToSet(queue) \cup {e}
    <3>1. PICK j \in DOMAIN q : x = q[j]
      BY DEF ToSet
    <3>2. CASE j < k
      <4>1. j \in DOMAIN queue /\ x = queue[j]
        BY <1>1, <1>5, <1>7, <1>8, <3>1, <3>2
      <4> QED BY <4>1 DEF ToSet
    <3>3. CASE j > k
      <4>1. j - 1 \in DOMAIN queue /\ x = queue[j - 1]
        BY <1>1, <1>5, <1>7, <1>8, <3>1, <3>3
      <4> QED BY <4>1 DEF ToSet
    <3>4. CASE j = k
      BY <1>5, <1>7, <3>1, <3>4
    <3> QED BY <1>1, <1>5, <1>8, <3>2, <3>3, <3>4
  <2>2. ASSUME NEW x \in ToSet(queue) PROVE x \in ToSet(q)
    <3>1. PICK j \in DOMAIN queue : x = queue[j]
      BY DEF ToSet
    <3>2. \E m \in DOMAIN q : q[m] = x
      <4>1. CASE j < k
        <5>1. j \in DOMAIN q /\ q[j] = x
          BY <1>1, <1>7, <1>8, <3>1, <4>1
        <5> QED BY <5>1
      <4>2. CASE j >= k
        <5>1. j + 1 \in DOMAIN q /\ q[j + 1] = x
          BY <1>1, <1>5, <1>7, <1>8, <3>1, <4>2
        <5> QED BY <5>1
      <4> QED BY <1>1, <1>5, <4>1, <4>2
    <3> QED BY <3>2 DEF ToSet
  <2>3. e \in ToSet(q)
    <3>1. k \in DOMAIN q /\ q[k] = e
      BY <1>1, <1>5, <1>7, <1>8
    <3> QED BY <3>1 DEF ToSet
  <2> QED BY <2>1, <2>2, <2>3
<1>10. ASSUME IsInjective(queue), e \notin ToSet(queue) PROVE IsInjective(q)
  <2>1. \A m, n \in 1 .. Len(queue) : queue[m] = queue[n] => m = n
    BY <1>1, <1>10 DEF IsInjective
  <2>2. \A m \in 1 .. Len(queue) : queue[m] # e
    BY <1>1, <1>10 DEF ToSet
  <2>3. \A m, n \in 1 .. Len(queue) + 1 : q[m] = q[n] => m = n
    BY <1>1, <1>5, <1>7, <2>1, <2>2
  <2> QED BY <1>8, <2>3 DEF IsInjective
<1> QED BY <1>6, <1>7, <1>9, <1>10

\* A row that is in the queue leaves it
LEMMA WithdrawnProperties ==
  ASSUME NEW queue \in Seq(Events), NEW e \in ToSet(queue), IsInjective(queue)
  PROVE  /\ Withdrawn(queue, e) \in Seq(Events)
         /\ ToSet(Withdrawn(queue, e)) = ToSet(queue) \ {e}
         /\ IsInjective(Withdrawn(queue, e))
<1> DEFINE k == CHOOSE i \in DOMAIN queue : queue[i] = e
           q == RemoveAt(queue, k)
<1>1. Len(queue) \in Nat /\ DOMAIN queue = 1 .. Len(queue)
  OBVIOUS
<1>2. k \in 1 .. Len(queue) /\ queue[k] = e
  BY <1>1 DEF ToSet
<1>3. Withdrawn(queue, e) = q
  BY DEF Withdrawn
<1> HIDE DEF k
<1>4. /\ q \in Seq(Events) /\ Len(q) = Len(queue) - 1
      /\ \A j \in 1 .. Len(queue) - 1 : q[j] = IF j < k THEN queue[j] ELSE queue[j + 1]
  BY <1>2, RemoveAtProperties
<1> HIDE DEF q
<1>5. DOMAIN q = 1 .. Len(queue) - 1
  BY <1>4
<1>6. \A m, n \in 1 .. Len(queue) : queue[m] = queue[n] => m = n
  BY <1>1 DEF IsInjective
<1>7. ToSet(q) = ToSet(queue) \ {e}
  <2>1. ASSUME NEW x \in ToSet(q) PROVE x \in ToSet(queue) /\ x # e
    <3>1. PICK j \in DOMAIN q : x = q[j]
      BY DEF ToSet
    <3>2. CASE j < k
      BY <1>1, <1>2, <1>4, <1>5, <1>6, <3>1, <3>2 DEF ToSet
    <3>3. CASE j >= k
      <4>1. j + 1 \in 1 .. Len(queue) /\ x = queue[j + 1] /\ j + 1 # k
        BY <1>1, <1>2, <1>4, <1>5, <3>1, <3>3
      <4> QED BY <1>1, <1>2, <1>6, <4>1 DEF ToSet
    <3> QED BY <1>1, <1>2, <1>5, <3>2, <3>3
  <2>2. ASSUME NEW x \in ToSet(queue), x # e PROVE x \in ToSet(q)
    <3>1. PICK j \in DOMAIN queue : x = queue[j]
      BY DEF ToSet
    <3>2. \E m \in DOMAIN q : q[m] = x
      <4>1. CASE j < k
        <5>1. j \in DOMAIN q /\ q[j] = x
          BY <1>1, <1>2, <1>4, <1>5, <3>1, <4>1
        <5> QED BY <5>1
      <4>2. CASE j > k
        <5>1. j - 1 \in DOMAIN q /\ q[j - 1] = x
          BY <1>1, <1>2, <1>4, <1>5, <3>1, <4>2
        <5> QED BY <5>1
      <4>3. j # k
        BY <1>2, <2>2, <3>1
      <4> QED BY <1>1, <1>2, <4>1, <4>2, <4>3
    <3> QED BY <3>2 DEF ToSet
  <2> QED BY <2>1, <2>2
<1>8. \A m, n \in 1 .. Len(queue) - 1 : q[m] = q[n] => m = n
  BY <1>1, <1>2, <1>4, <1>6
<1> QED BY <1>3, <1>4, <1>5, <1>7, <1>8 DEF IsInjective

-----------------------------------------------------------------------------
(* The invariant                                                            *)

\* The configuration in the form the steps below use it
LEMMA Config ==
  /\ BatchSize \in Nat /\ BatchSize > 0
  /\ LeaseDuration \in Nat /\ PublishTimeout \in Nat /\ LeaseDuration > PublishTimeout
  /\ MaximumBackoff \in Nat /\ MaximumBackoff > 0
  /\ MaxRestarts \in Nat /\ MaxFaults \in Nat /\ MaxStalls \in Nat
  /\ Null \notin Events /\ Null \notin Row
  /\ Saturated \in Nat /\ Saturated > 0
  BY RelayConfigAssumption, NullAssumption DEF Saturated

\* retry_delay stays within the maximum backoff
LEMMA RetryDelayBound ==
  ASSUME NEW attempts
  PROVE  RetryDelay(attempts) \in 0 .. MaximumBackoff
  BY Config DEF RetryDelay

\* Attempts saturate where the backoff has reached its maximum
LEMMA NextAttemptType ==
  ASSUME NEW n \in 0 .. Saturated
  PROVE  NextAttempt(n) \in 0 .. Saturated
  BY Config DEF NextAttempt

\* Nothing has been committed or claimed
LEMMA InitHolds == Init => RelayInv
<1> SUFFICES ASSUME Init PROVE RelayInv
  OBVIOUS
<1> USE DEF Init
<1>1. TypeOK
  BY Config DEF TypeOK, Idle, Relay, Phase
<1>2. LineInv
  BY DEF LineInv, Committed, ToSet, IsInjective
<1>3. HandInv /\ LeaseInv
  BY DEF HandInv, LeaseInv, Idle
<1>4. WireInv /\ PublishedIsHandedOff
  BY DEF WireInv, PublishedIsHandedOff, Published, Committed
<1> QED BY <1>1, <1>2, <1>3, <1>4 DEF RelayInv

(***************************************************************************)
(* A relay moves on, or loses what it had in hand, without a change of the *)
(* outbox.                                                                 *)
(***************************************************************************)
LEMMA RelayMoves ==
  ASSUME RelayInv, NEW r \in Relays, NEW state \in Relay, Become(r, state),
         UNCHANGED <<rows, line, stalls>>, bus \subseteq bus',
         restarts' \in Nat, restarts <= restarts',
         state.incarnation <= restarts',
         state.event = Null <=> state.phase = "idle",
         state.event # Null => /\ state.event = relays[r].event
                               /\ state.incarnation = relays[r].incarnation,
         state.phase = "delivered" => state.event \in bus',
         state.phase # "claimed",
         state.phase \in {"delivering", "publishing"} =>
           \/ relays[r].phase = "claimed" /\ state.timer = PublishTimeout
           \/ relays[r].phase \in {"delivering", "publishing"} /\ state.timer = relays[r].timer
  PROVE  relays' \in [Relays -> Relay] /\ LineInv' /\ HandInv' /\ LeaseInv'
<1> USE DEF Become
<1>1. relays \in [Relays -> Relay] /\ restarts \in Nat
  BY Config DEF RelayInv, TypeOK
<1>2. relays' \in [Relays -> Relay] /\ relays'[r] = state
  BY <1>1
<1>3. \A x \in Relays : x # r => relays'[x] = relays[x]
  BY <1>1
<1>4. LineInv'
  BY DEF RelayInv, LineInv, Committed
<1>5. HandInv'
  <2> SUFFICES ASSUME NEW x \in Relays
               PROVE  /\ relays'[x].incarnation <= restarts'
                      /\ relays'[x].event = Null <=> relays'[x].phase = "idle"
                      /\ relays'[x].event # Null => Committed(relays'[x].event)
                      /\ relays'[x].phase = "delivered" => relays'[x].event \in bus'
    BY DEF HandInv, Committed
  <2>1. /\ relays[x].incarnation <= restarts
        /\ relays[x].event = Null <=> relays[x].phase = "idle"
        /\ relays[x].event # Null => Committed(relays[x].event)
        /\ relays[x].phase = "delivered" => relays[x].event \in bus
    BY DEF RelayInv, HandInv
  <2>2. relays[x].incarnation \in Nat
    BY <1>1, Config DEF Relay
  <2>3. CASE x = r
    BY <1>2, <2>1, <2>3
  <2>4. CASE x # r
    BY <1>1, <1>3, <2>1, <2>2, <2>4
  <2> QED BY <2>3, <2>4
<1>6. LeaseInv'
  <2> SUFFICES ASSUME stalls = 0, NEW x \in Relays, relays'[x].event # Null
               PROVE  LET e == relays'[x].event IN
                      /\ HoldsLease(e, Owner(x)')
                      /\ relays'[x].phase = "claimed" => rows[e].lease > PublishTimeout
                      /\ relays'[x].phase \in {"delivering", "publishing"} =>
                           rows[e].lease > relays'[x].timer
    BY DEF LeaseInv, HoldsLease
  <2>1. CASE x = r
    <3>1. relays[r].event # Null /\ relays'[r].event = relays[r].event /\ Owner(r)' = Owner(r)
      BY <1>1, <1>2, <2>1 DEF Owner
    <3> QED BY <1>2, <2>1, <3>1 DEF RelayInv, LeaseInv
  <2>2. CASE x # r
    <3>1. relays'[x] = relays[x] /\ Owner(x)' = Owner(x)
      BY <1>3, <2>2 DEF Owner
    <3> QED BY <3>1 DEF RelayInv, LeaseInv
  <2> QED BY <2>1, <2>2
<1> QED BY <1>2, <1>4, <1>5, <1>6

\* ... and without a change of projections, wire and bus either
LEMMA QuietMove ==
  ASSUME RelayInv, NEW r \in Relays, NEW state \in Relay, Become(r, state),
         UNCHANGED <<rows, line, projected, wire, bus, stalls>>,
         restarts' \in 0 .. MaxRestarts, restarts <= restarts', faults' \in 0 .. MaxFaults,
         state.incarnation <= restarts',
         state.event = Null <=> state.phase = "idle",
         state.event # Null => /\ state.event = relays[r].event
                               /\ state.incarnation = relays[r].incarnation,
         state.phase = "delivered" => state.event \in bus,
         state.phase # "claimed",
         state.phase \in {"delivering", "publishing"} =>
           \/ relays[r].phase = "claimed" /\ state.timer = PublishTimeout
           \/ relays[r].phase \in {"delivering", "publishing"} /\ state.timer = relays[r].timer
  PROVE  RelayInv'
<1>0. restarts' \in Nat /\ bus \subseteq bus'
  BY Config
<1>1. relays' \in [Relays -> Relay] /\ LineInv' /\ HandInv' /\ LeaseInv'
  BY <1>0, RelayMoves
<1>2. TypeOK'
  BY <1>1 DEF RelayInv, TypeOK
<1>3. WireInv' /\ PublishedIsHandedOff'
  BY DEF RelayInv, WireInv, PublishedIsHandedOff, Published, Committed
<1> QED BY <1>1, <1>2, <1>3 DEF RelayInv

\* What TypeOK says of one relay
LEMMA OneRelay ==
  ASSUME RelayInv, NEW r \in Relays
  PROVE  /\ relays[r] \in Relay /\ relays[r].incarnation \in Nat
         /\ relays[r].incarnation <= restarts
         /\ restarts \in 0 .. MaxRestarts /\ faults \in 0 .. MaxFaults
         /\ relays[r].event = Null <=> relays[r].phase = "idle"
         /\ relays[r].event # Null =>
              relays[r].event \in Events /\ rows[relays[r].event] \in Row
         /\ relays[r].phase = "delivered" => relays[r].event \in bus
<1>1. relays[r] \in Relay /\ restarts \in 0 .. MaxRestarts /\ faults \in 0 .. MaxFaults
  BY DEF RelayInv, TypeOK
<1>2. relays[r].incarnation \in Nat
  BY <1>1, Config DEF Relay
<1>3. relays[r].event # Null =>
        relays[r].event \in Events /\ rows[relays[r].event] \in Row
  BY <1>1, Config DEF RelayInv, HandInv, TypeOK, Committed, Relay
<1> QED BY <1>1, <1>2, <1>3 DEF RelayInv, HandInv

\* A relay gives up what it had in hand
LEMMA IdleMove ==
  ASSUME RelayInv, NEW r \in Relays, NEW n \in 0 .. MaxRestarts,
         Become(r, Idle(n)), n <= restarts',
         UNCHANGED <<rows, line, projected, wire, bus, stalls>>,
         restarts' \in 0 .. MaxRestarts, restarts <= restarts', faults' \in 0 .. MaxFaults
  PROVE  RelayInv'
<1>1. Idle(n) \in Relay
  BY Config DEF Idle, Relay, Phase
<1>2. Idle(n).incarnation = n /\ Idle(n).event = Null /\ Idle(n).phase = "idle"
  BY DEF Idle
<1> DEFINE state == Idle(n)
<1> HIDE DEF state
<1>3. /\ state \in Relay /\ Become(r, state)
      /\ state.incarnation = n /\ state.event = Null /\ state.phase = "idle"
  BY <1>1, <1>2 DEF state
<1> QED BY <1>3, QuietMove

\* A relay enters a phase with what it has in hand
LEMMA PhaseMove ==
  ASSUME RelayInv, NEW r \in Relays, NEW phase \in {"delivered", "failed"},
         relays[r].phase # "idle",
         Become(r, [relays[r] EXCEPT !.phase = phase]),
         phase = "delivered" => relays[r].event \in bus,
         UNCHANGED <<rows, line, projected, wire, bus, stalls, restarts>>,
         faults' \in 0 .. MaxFaults
  PROVE  RelayInv'
<1> DEFINE state == [relays[r] EXCEPT !.phase = phase]
<1>1. relays[r] \in Relay /\ relays[r].incarnation \in Nat /\ relays[r].incarnation <= restarts
      /\ restarts \in 0 .. MaxRestarts /\ relays[r].event # Null
  BY OneRelay
<1>2. /\ state \in Relay /\ state.phase = phase /\ state.event = relays[r].event
      /\ state.incarnation = relays[r].incarnation
  BY <1>1 DEF Relay, Phase
<1>3. Become(r, state) /\ restarts <= restarts'
  BY <1>1, Config
<1> HIDE DEF state
<1> QED BY <1>1, <1>2, <1>3, QuietMove

\* A relay ends its turn with nothing in hand
LEMMA EndTurnStep ==
  ASSUME RelayInv, NEW r \in Relays, EndTurn(r)
  PROVE  RelayInv'
<1>1. relays[r].incarnation \in 0 .. MaxRestarts /\ relays[r].incarnation <= restarts
      /\ restarts \in 0 .. MaxRestarts /\ restarts <= restarts /\ faults \in 0 .. MaxFaults
  BY OneRelay, Config DEF Relay
<1> QED BY <1>1, IdleMove DEF EndTurn

\* A crashed relay forgets its fact; the row keeps the lease of the old incarnation
LEMMA CrashStep ==
  ASSUME RelayInv, NEW r \in Relays, Crash(r)
  PROVE  RelayInv'
<1>1. relays[r].incarnation + 1 \in 0 .. MaxRestarts /\ relays[r].incarnation + 1 <= restarts'
      /\ restarts' \in 0 .. MaxRestarts /\ restarts <= restarts' /\ faults' \in 0 .. MaxFaults
  BY OneRelay, Config DEF Relay, Crash
<1> QED BY <1>1, IdleMove DEF Crash

\* Delivery begins under a lease longer than the publish timer it starts
LEMMA BeginStep ==
  ASSUME RelayInv, NEW r \in Relays, Begin(r)
  PROVE  RelayInv'
<1> USE DEF Begin, At
<1> DEFINE state == [relays[r] EXCEPT !.phase = "delivering", !.timer = PublishTimeout]
<1>1. relays[r] \in Relay /\ relays[r].incarnation \in Nat /\ relays[r].incarnation <= restarts
      /\ restarts \in 0 .. MaxRestarts /\ faults \in 0 .. MaxFaults /\ relays[r].event # Null
  BY OneRelay
<1>2. /\ state \in Relay /\ state.phase = "delivering" /\ state.event = relays[r].event
      /\ state.incarnation = relays[r].incarnation /\ state.timer = PublishTimeout
  <2>1. PublishTimeout \in 0 .. PublishTimeout /\ "delivering" \in Phase
    BY Config DEF Phase
  <2> QED BY <1>1, <2>1 DEF Relay
<1>3. Become(r, state) /\ restarts <= restarts'
  BY <1>1, Config
<1> HIDE DEF state
<1> QED BY <1>1, <1>2, <1>3, QuietMove

\* The bus has answered, so the fact is there
LEMMA DeliveredStep ==
  ASSUME RelayInv, NEW r \in Relays, Delivered(r)
  PROVE  RelayInv'
  BY OneRelay, PhaseMove DEF Delivered, At

\* A refused delivery leaves the lease with its relay
LEMMA DeliveryFailsStep ==
  ASSUME RelayInv, NEW r \in Relays, DeliveryFails(r)
  PROVE  RelayInv'
<1>1. faults' \in 0 .. MaxFaults
  BY OneRelay, Config DEF DeliveryFails, Fault
<1> QED BY <1>1, PhaseMove DEF DeliveryFails

\* The publish timer runs out while the lease still stands
LEMMA DeliveryTimesOutStep ==
  ASSUME RelayInv, NEW r \in Relays, DeliveryTimesOut(r)
  PROVE  RelayInv'
<1>1. faults' \in 0 .. MaxFaults
  BY OneRelay DEF DeliveryTimesOut
<1> QED BY <1>1, PhaseMove DEF DeliveryTimesOut, TimeoutOutcome

\* The settlement is not written: the row stays leased and unpublished
LEMMA SettlementFailsStep ==
  ASSUME RelayInv, NEW r \in Relays, SettlementFails(r)
  PROVE  RelayInv'
<1> USE DEF SettlementFails, At
<1>1. faults' \in 0 .. MaxFaults
  BY OneRelay, Config DEF Fault
<1>2. relays[r].incarnation \in 0 .. MaxRestarts /\ relays[r].incarnation <= restarts
      /\ restarts \in 0 .. MaxRestarts /\ restarts <= restarts
  BY OneRelay, Config DEF Relay
<1>3. CASE At(r, "delivered") /\ Become(r, [relays[r] EXCEPT !.phase = "failed"])
  BY <1>1, <1>3, PhaseMove
<1>4. CASE At(r, "failed") /\ Become(r, Idle(relays[r].incarnation))
  BY <1>1, <1>2, <1>4, IdleMove
<1> QED BY <1>3, <1>4

\* A fact is put on the wire only after every projector is through
LEMMA PublishStep ==
  ASSUME RelayInv, NEW r \in Relays, Publish(r)
  PROVE  RelayInv'
<1> USE DEF Publish, ReadyToPublish, At
<1> DEFINE state == [relays[r] EXCEPT !.phase = "publishing"]
<1>1. relays[r] \in Relay /\ relays[r].incarnation \in 0 .. MaxRestarts
      /\ relays[r].incarnation \in Nat /\ relays[r].incarnation <= restarts
      /\ restarts \in Nat /\ relays[r].event \in Events /\ relays[r].event # Null
  BY OneRelay, Config DEF Relay
<1>2. /\ state \in Relay /\ state.phase = "publishing" /\ state.event = relays[r].event
      /\ state.incarnation = relays[r].incarnation /\ state.timer = relays[r].timer
  BY <1>1 DEF Relay, Phase
<1>3. Become(r, state) /\ restarts <= restarts' /\ bus \subseteq bus'
  BY <1>1
<1> HIDE DEF state
<1>4. relays' \in [Relays -> Relay] /\ LineInv' /\ HandInv' /\ LeaseInv'
  BY <1>1, <1>2, <1>3, RelayMoves
<1>5. TypeOK'
  BY <1>1, <1>4 DEF RelayInv, TypeOK, Owner, Owners
<1>6. WireInv'
  BY DEF RelayInv, WireInv
<1>7. PublishedIsHandedOff'
  BY DEF RelayInv, PublishedIsHandedOff, Published, Committed
<1> QED BY <1>4, <1>5, <1>6, <1>7 DEF RelayInv

\* A projector applies the fact in hand
LEMMA ProjectStep ==
  ASSUME RelayInv, NEW r \in Relays, NEW p \in Projectors, Project(r, p)
  PROVE  RelayInv'
<1> USE DEF Project, At
<1>1. relays[r].event \in Events
  BY OneRelay
<1>2. TypeOK'
  BY <1>1 DEF RelayInv, TypeOK
<1>3. LineInv' /\ HandInv' /\ LeaseInv'
  BY DEF RelayInv, LineInv, HandInv, LeaseInv, Committed, HoldsLease, Owner
<1>4. \A q \in Projectors : projected[q] \subseteq projected'[q]
  BY DEF RelayInv, TypeOK
<1>5. WireInv' /\ PublishedIsHandedOff'
  BY <1>4 DEF RelayInv, WireInv, PublishedIsHandedOff, Published, Committed
<1> QED BY <1>2, <1>3, <1>5 DEF RelayInv

\* The bus stores a message, which was projected before it was sent, or loses it
LEMMA BusStep ==
  ASSUME RelayInv, BusStores \/ BusLoses
  PROVE  RelayInv'
<1> USE DEF BusStores, BusLoses
<1>1. PICK m \in wire : wire' = wire \ {m} /\ (bus' = bus \/ bus' = bus \cup {m[1]})
  OBVIOUS
<1>2. m[1] \in Events /\ faults' \in 0 .. MaxFaults
  BY Config DEF RelayInv, TypeOK, Fault
<1>3. TypeOK'
  BY <1>1, <1>2 DEF RelayInv, TypeOK
<1>4. LineInv' /\ LeaseInv'
  BY DEF RelayInv, LineInv, LeaseInv, Committed, HoldsLease, Owner
<1>5. HandInv'
  BY <1>1 DEF RelayInv, HandInv, Committed
<1>6. WireInv' /\ PublishedIsHandedOff'
  BY <1>1, <1>2 DEF RelayInv, WireInv, PublishedIsHandedOff, Published, Committed
<1> QED BY <1>3, <1>4, <1>5, <1>6 DEF RelayInv

\* store_outbox adds a row, and it joins the queue once
LEMMA CommitStep ==
  ASSUME RelayInv, NEW e \in Events, Commit(e)
  PROVE  RelayInv'
<1> USE DEF Commit
<1> DEFINE row == [attempts |-> 0, owner |-> Null, lease |-> 0, delay |-> 0, published |-> FALSE]
<1>1. row \in Row /\ row # Null
  <2>1. row \in Row
    BY Config DEF Row
  <2> QED BY <2>1, Config
<1>2. rows' = [rows EXCEPT ![e] = row] /\ rows[e] = Null /\ ~row.published
  BY DEF Committed
<1> HIDE DEF row
<1>3. rows \in [Events -> Row \cup {Null}] /\ line \in Seq(Events)
  BY DEF RelayInv, TypeOK
<1>4. /\ rows' \in [Events -> Row \cup {Null}] /\ rows'[e] = row
      /\ \A x \in Events : x # e => rows'[x] = rows[x]
  BY <1>1, <1>2, <1>3
<1>5. e \notin ToSet(line)
  BY <1>2 DEF RelayInv, LineInv, Committed
<1>6. /\ line' \in Seq(Events) /\ ToSet(line') = ToSet(line) \cup {e} /\ IsInjective(line')
  BY <1>3, <1>5, EnqueuedProperties DEF RelayInv, LineInv
<1>7. TypeOK'
  BY <1>4, <1>6 DEF RelayInv, TypeOK
<1>8. LineInv'
  <2>1. \A x \in Events : (rows'[x] # Null /\ ~rows'[x].published) <=>
          (x = e \/ (rows[x] # Null /\ ~rows[x].published))
    BY <1>1, <1>2, <1>4
  <2>2. ToSet(line) = { x \in Events : rows[x] # Null /\ ~rows[x].published }
    BY DEF RelayInv, LineInv, Committed
  <2>3. ToSet(line') = { x \in Events : rows'[x] # Null /\ ~rows'[x].published }
    BY <1>6, <2>1, <2>2
  <2> QED BY <1>6, <2>3 DEF LineInv, Committed, ToSet
<1>9. \A r \in Relays : relays[r].event # Null =>
        relays[r].event \in Events /\ relays[r].event # e
  BY <1>2, OneRelay DEF RelayInv, HandInv, Committed
<1>10. HandInv'
  BY <1>1, <1>4, <1>9 DEF RelayInv, HandInv, Committed
<1>11. LeaseInv'
  BY <1>4, <1>9 DEF RelayInv, LeaseInv, HoldsLease, Owner
<1>12. WireInv' /\ PublishedIsHandedOff'
  BY <1>2, <1>4 DEF RelayInv, WireInv, PublishedIsHandedOff, Published, Committed
<1> QED BY <1>7, <1>8, <1>10, <1>11, <1>12 DEF RelayInv

(***************************************************************************)
(* A relay writes the row of its fact: claim, mark_published, mark_failed. *)
(* No relay that has a current lease loses its row to it.                  *)
(***************************************************************************)
LEMMA RowWrite ==
  ASSUME RelayInv, NEW r \in Relays, NEW e \in Events, NEW row \in Row, NEW state \in Relay,
         rows[e] # Null, rows' = [rows EXCEPT ![e] = row], Become(r, state),
         UNCHANGED <<projected, wire, bus, restarts, faults, stalls>>,
         row.published => rows[e].published \/ e \in bus,
         state.incarnation = relays[r].incarnation,
         stalls = 0 => \A x \in Relays : relays[x].event = e => x = r,
         state.event \in {Null, e}, state.event = Null <=> state.phase = "idle",
         state.phase \in {"idle", "claimed"},
         state.event # Null => row.owner = Owner(r) /\ ~row.published /\ row.lease = LeaseDuration
  PROVE  /\ rows' \in [Events -> Row \cup {Null}] /\ relays' \in [Relays -> Relay]
         /\ rows'[e] = row /\ row # Null
         /\ \A x \in Events : x # e => rows'[x] = rows[x]
         /\ HandInv' /\ LeaseInv' /\ WireInv' /\ PublishedIsHandedOff'
<1> USE DEF Become
<1>1. /\ rows \in [Events -> Row \cup {Null}] /\ relays \in [Relays -> Relay] /\ row # Null
      /\ e # Null
  BY Config DEF RelayInv, TypeOK
<1>2. /\ rows' \in [Events -> Row \cup {Null}] /\ rows'[e] = row
      /\ \A x \in Events : x # e => rows'[x] = rows[x]
  BY <1>1
<1>3. /\ relays' \in [Relays -> Relay] /\ relays'[r] = state
      /\ \A x \in Relays : x # r => relays'[x] = relays[x]
  BY <1>1
<1>4. \A x \in Events : rows[x] # Null => rows'[x] # Null
  BY <1>1, <1>2
<1>5. HandInv'
  <2> SUFFICES ASSUME NEW x \in Relays
               PROVE  /\ relays'[x].incarnation <= restarts
                      /\ relays'[x].event = Null <=> relays'[x].phase = "idle"
                      /\ relays'[x].event # Null => rows'[relays'[x].event] # Null
                      /\ relays'[x].phase = "delivered" => relays'[x].event \in bus
    BY DEF HandInv, Committed
  <2>1. CASE x = r
    BY <1>1, <1>2, <1>3, <2>1, OneRelay
  <2>2. CASE x # r
    <3>1. relays'[x] = relays[x]
      BY <1>3, <2>2
    <3>2. relays[x].event # Null => rows[relays[x].event] # Null /\ relays[x].event \in Events
      BY OneRelay DEF RelayInv, HandInv, Committed
    <3> QED BY <1>4, <3>1, <3>2 DEF RelayInv, HandInv
  <2> QED BY <2>1, <2>2
<1>6. LeaseInv'
  <2> SUFFICES ASSUME stalls = 0, NEW x \in Relays, relays'[x].event # Null
               PROVE  LET f == relays'[x].event IN
                      /\ rows'[f].owner = Owner(x)' /\ ~rows'[f].published /\ rows'[f].lease > 0
                      /\ relays'[x].phase = "claimed" => rows'[f].lease > PublishTimeout
                      /\ relays'[x].phase \in {"delivering", "publishing"} =>
                           rows'[f].lease > relays'[x].timer
    BY DEF LeaseInv, HoldsLease
  <2>1. CASE x = r
    <3>1. relays'[r].event = e /\ Owner(r)' = Owner(r) /\ relays'[r].phase = "claimed"
      BY <1>3, <2>1 DEF Owner
    <3> QED BY <1>2, <1>3, <2>1, <3>1, Config
  <2>2. CASE x # r
    <3>1. relays'[x] = relays[x] /\ Owner(x)' = Owner(x)
      BY <1>3, <2>2 DEF Owner
    <3>2. relays[x].event # e /\ relays[x].event \in Events
      BY <2>2, <3>1, OneRelay
    <3>3. rows'[relays[x].event] = rows[relays[x].event]
      BY <1>2, <3>2
    <3> QED BY <3>1, <3>3 DEF RelayInv, LeaseInv, HoldsLease
  <2> QED BY <2>1, <2>2
<1>7. WireInv'
  BY DEF RelayInv, WireInv
<1>8. PublishedIsHandedOff'
  BY <1>2 DEF RelayInv, PublishedIsHandedOff, Published, Committed
<1> QED BY <1>1, <1>2, <1>3, <1>5, <1>6, <1>7, <1>8

\* claim gives the first due row to one relay with a whole lease
LEMMA ClaimStep ==
  ASSUME RelayInv, NEW r \in Relays, Claim(r)
  PROVE  RelayInv'
<1> USE DEF Claim
<1>1. PICK i \in DOMAIN line :
        LET e == line[i] IN
        /\ Claimable(e)
        /\ rows' = [rows EXCEPT ![e].owner = Owner(r), ![e].lease = ClaimLease,
                                ![e].attempts = NextAttempt(@)]
        /\ Become(r, [relays[r] EXCEPT !.phase = "claimed", !.event = e,
                                       !.attempts = NextAttempt(rows[e].attempts),
                                       !.claimed = @ + 1])
  OBVIOUS
<1> DEFINE e == line[i]
           row == [rows[e] EXCEPT !.owner = Owner(r), !.lease = ClaimLease,
                                  !.attempts = NextAttempt(@)]
           state == [relays[r] EXCEPT !.phase = "claimed", !.event = e,
                                      !.attempts = NextAttempt(rows[e].attempts),
                                      !.claimed = @ + 1]
<1>2. e \in Events /\ rows[e] # Null /\ ~rows[e].published
  <2>1. e \in ToSet(line)
    BY DEF ToSet
  <2> QED BY <2>1 DEF RelayInv, LineInv, Committed
<1>3. rows[e] \in Row /\ relays[r] \in Relay /\ rows[e].lease = 0
  BY <1>1, <1>2, OneRelay DEF RelayInv, TypeOK, Claimable
<1>4. NextAttempt(rows[e].attempts) \in 0 .. Saturated /\ Owner(r) \in Owners
  BY <1>3, NextAttemptType DEF Row, Relay, Owner, Owners
<1>5. /\ row \in Row /\ row.owner = Owner(r) /\ row.lease = LeaseDuration
      /\ row.published = rows[e].published
  <2>1. LeaseDuration \in 0 .. LeaseDuration
    BY Config
  <2> QED BY <1>3, <1>4, <2>1 DEF Row, ClaimLease
<1>6. /\ state \in Relay /\ state.event = e /\ state.phase = "claimed"
      /\ state.incarnation = relays[r].incarnation
  <2>1. relays[r].claimed + 1 \in 0 .. BatchSize
    BY <1>3, Config DEF MayClaim, Relay
  <2> HIDE DEF e
  <2> QED BY <1>2, <1>3, <1>4, <2>1 DEF Relay, Phase
<1>7. rows' = [rows EXCEPT ![e] = row] /\ Become(r, state)
  BY <1>1, ZenonT(20)
<1>8. stalls = 0 => \A x \in Relays : relays[x].event # e
  BY <1>2, <1>3, Config DEF RelayInv, LeaseInv, HoldsLease
<1> HIDE DEF e, row, state
<1>9. /\ rows' \in [Events -> Row \cup {Null}] /\ relays' \in [Relays -> Relay]
      /\ rows'[e] = row /\ row # Null
      /\ \A x \in Events : x # e => rows'[x] = rows[x]
      /\ HandInv' /\ LeaseInv' /\ WireInv' /\ PublishedIsHandedOff'
  <2>1. e # Null /\ state.event \in {Null, e} /\ (state.event = Null <=> state.phase = "idle")
        /\ state.phase \in {"idle", "claimed"}
    BY <1>2, <1>6, Config
  <2>2. row.published => rows[e].published \/ e \in bus
    BY <1>5
  <2>3. stalls = 0 => \A x \in Relays : relays[x].event = e => x = r
    BY <1>8
  <2> QED BY <1>2, <1>5, <1>6, <1>7, <2>1, <2>2, <2>3, RowWrite
<1>10. TypeOK'
  BY <1>9 DEF RelayInv, TypeOK
<1>11. LineInv'
  <2>1. \A x \in Events : (rows'[x] # Null /\ ~rows'[x].published) <=>
          (rows[x] # Null /\ ~rows[x].published)
    BY <1>2, <1>5, <1>9
  <2> QED BY <2>1 DEF RelayInv, LineInv, Committed
<1> QED BY <1>9, <1>10, <1>11 DEF RelayInv

\* No two relays have the current lease of a row
LEMMA OneHolder ==
  ASSUME RelayInv, NEW r \in Relays, NEW e \in Events, HoldsLease(e, Owner(r)), stalls = 0
  PROVE  \A x \in Relays : relays[x].event = e => x = r
<1> SUFFICES ASSUME NEW x \in Relays, relays[x].event = e PROVE x = r
  OBVIOUS
<1>1. rows[e].owner = Owner(x) /\ rows[e].owner = Owner(r)
  BY Config DEF RelayInv, LeaseInv, HoldsLease
<1> QED BY <1>1 DEF Owner

\* mark_published needs the lease, and the fact is on the bus
LEMMA MarkPublishedStep ==
  ASSUME RelayInv, NEW r \in Relays, MarkPublished(r)
  PROVE  RelayInv'
<1> USE DEF MarkPublished, At
<1> DEFINE e == relays[r].event
<1>1. relays[r] \in Relay /\ e \in Events /\ rows[e] \in Row /\ e \in bus /\ faults \in 0 .. MaxFaults
  BY OneRelay
<1>2. CASE HoldsLease(e, Owner(r))
  <2> DEFINE row == [rows[e] EXCEPT !.published = TRUE, !.owner = Null, !.lease = 0]
             state == [relays[r] EXCEPT !.phase = "idle", !.event = Null, !.timer = 0]
  <2>0. 0 \in 0 .. LeaseDuration /\ 0 \in 0 .. PublishTimeout /\ "idle" \in Phase
    BY Config DEF Phase
  <2>1. row \in Row /\ row.published = TRUE
    BY <1>1, <2>0 DEF Row
  <2>2. /\ state \in Relay /\ state.event = Null /\ state.phase = "idle"
        /\ state.incarnation = relays[r].incarnation
    BY <1>1, <2>0 DEF Relay
  <2>3. rows' = [rows EXCEPT ![e] = row] /\ Become(r, state) /\ line' = Withdrawn(line, e)
    BY <1>2
  <2>4. rows[e] # Null /\ ~rows[e].published /\ e \in ToSet(line)
    BY <1>1, <1>2, Config DEF HoldsLease, RelayInv, LineInv, Committed
  <2>5. stalls = 0 => \A x \in Relays : relays[x].event = e => x = r
    BY <1>1, <1>2, OneHolder
  <2> HIDE DEF e, row, state
  <2>6. /\ rows' \in [Events -> Row \cup {Null}] /\ relays' \in [Relays -> Relay]
        /\ rows'[e] = row /\ row # Null
        /\ \A x \in Events : x # e => rows'[x] = rows[x]
        /\ HandInv' /\ LeaseInv' /\ WireInv' /\ PublishedIsHandedOff'
    BY <1>1, <2>1, <2>2, <2>3, <2>4, <2>5, RowWrite
  <2>7. line' \in Seq(Events) /\ ToSet(line') = ToSet(line) \ {e} /\ IsInjective(line')
    BY <2>3, <2>4, WithdrawnProperties DEF RelayInv, LineInv, TypeOK
  <2>8. TypeOK'
    BY <2>6, <2>7 DEF RelayInv, TypeOK
  <2>9. LineInv'
    <3>1. \A x \in Events : (rows'[x] # Null /\ ~rows'[x].published) <=>
            (x # e /\ rows[x] # Null /\ ~rows[x].published)
      BY <2>1, <2>6
    <3>2. ToSet(line) = { x \in Events : rows[x] # Null /\ ~rows[x].published }
      BY DEF RelayInv, LineInv, Committed
    <3>3. ToSet(line') = { x \in Events : rows'[x] # Null /\ ~rows'[x].published }
      BY <2>7, <3>1, <3>2
    <3> QED BY <2>7, <3>3 DEF LineInv, Committed, ToSet
  <2> QED BY <2>6, <2>8, <2>9 DEF RelayInv
<1>3. CASE ~HoldsLease(e, Owner(r))
  BY <1>1, <1>3, PhaseMove
<1> QED BY <1>2, <1>3

\* mark_failed gives the row back with a delay, and it moves in the queue but stays there once
LEMMA MarkFailedStep ==
  ASSUME RelayInv, NEW r \in Relays, MarkFailed(r)
  PROVE  RelayInv'
<1> USE DEF MarkFailed, At
<1> DEFINE e == relays[r].event
           delay == RetryDelay(relays[r].attempts)
           state == Idle(relays[r].incarnation)
<1>1. /\ relays[r] \in Relay /\ e \in Events /\ rows[e] \in Row /\ faults \in 0 .. MaxFaults
      /\ restarts \in 0 .. MaxRestarts /\ restarts <= restarts
      /\ relays[r].incarnation \in 0 .. MaxRestarts /\ relays[r].incarnation <= restarts
  BY OneRelay, Config DEF Relay
<1>2. CASE HoldsLease(e, Owner(r))
  <2> DEFINE row == [rows[e] EXCEPT !.delay = delay, !.owner = Null, !.lease = 0]
  <2>1. row \in Row /\ row.published = rows[e].published
    <3>1. delay \in 0 .. MaximumBackoff /\ 0 \in 0 .. LeaseDuration
      BY RetryDelayBound, Config
    <3> HIDE DEF delay, e
    <3> QED BY <1>1, <3>1 DEF Row
  <2>2. /\ state \in Relay /\ state.event = Null /\ state.phase = "idle"
        /\ state.incarnation = relays[r].incarnation
    BY <1>1, Config DEF Relay, Phase, Idle
  <2>3. /\ rows' = [rows EXCEPT ![e] = row] /\ Become(r, state)
        /\ line' = Enqueued(Withdrawn(line, e), e, delay)
    BY <1>2 DEF MayFail
  <2>4. rows[e] # Null /\ ~rows[e].published /\ e \in ToSet(line)
    BY <1>1, <1>2, Config DEF HoldsLease, RelayInv, LineInv, Committed
  <2>5. stalls = 0 => \A x \in Relays : relays[x].event = e => x = r
    BY <1>1, <1>2, OneHolder
  <2> HIDE DEF e, row, state, delay
  <2>6. /\ rows' \in [Events -> Row \cup {Null}] /\ relays' \in [Relays -> Relay]
        /\ rows'[e] = row /\ row # Null
        /\ \A x \in Events : x # e => rows'[x] = rows[x]
        /\ HandInv' /\ LeaseInv' /\ WireInv' /\ PublishedIsHandedOff'
    BY <1>1, <2>1, <2>2, <2>3, <2>4, <2>5, RowWrite
  <2>7. /\ Withdrawn(line, e) \in Seq(Events)
        /\ ToSet(Withdrawn(line, e)) = ToSet(line) \ {e} /\ IsInjective(Withdrawn(line, e))
    BY <2>4, WithdrawnProperties DEF RelayInv, LineInv, TypeOK
  <2>8. line' \in Seq(Events) /\ ToSet(line') = ToSet(line) /\ IsInjective(line')
    <3>1. e \notin ToSet(Withdrawn(line, e))
      BY <2>7
    <3>2. (ToSet(line) \ {e}) \cup {e} = ToSet(line)
      BY <2>4
    <3>3. PICK q \in Seq(Events) : q = Withdrawn(line, e)
      BY <2>7
    <3>4. e \in Events /\ IsInjective(q) /\ e \notin ToSet(q) /\ ToSet(q) = ToSet(line) \ {e}
      BY <1>1, <2>7, <3>1, <3>3
    <3>5. /\ Enqueued(q, e, delay) \in Seq(Events)
          /\ ToSet(Enqueued(q, e, delay)) = ToSet(q) \cup {e} /\ IsInjective(Enqueued(q, e, delay))
      BY <3>4, EnqueuedProperties
    <3>6. line' = Enqueued(q, e, delay)
      BY <2>3, <3>3
    <3> QED BY <3>2, <3>4, <3>5, <3>6
  <2>9. TypeOK'
    BY <2>6, <2>8 DEF RelayInv, TypeOK
  <2>10. LineInv'
    <3>1. \A x \in Events : (rows'[x] # Null /\ ~rows'[x].published) <=>
            (rows[x] # Null /\ ~rows[x].published)
      BY <2>1, <2>4, <2>6
    <3>2. ToSet(line) = { x \in Events : rows[x] # Null /\ ~rows[x].published }
      BY DEF RelayInv, LineInv, Committed
    <3>3. ToSet(line') = { x \in Events : rows'[x] # Null /\ ~rows'[x].published }
      BY <2>8, <3>1, <3>2
    <3> QED BY <2>8, <3>3 DEF LineInv, Committed, ToSet
  <2> QED BY <2>6, <2>9, <2>10 DEF RelayInv
<1>3. CASE ~HoldsLease(e, Owner(r))
  BY <1>1, <1>3, IdleMove DEF MayFail
<1> QED BY <1>2, <1>3

\* What a tick does to a row and to a relay
LEMMA TickEffect ==
  ASSUME RelayInv, Tick
  PROVE  /\ rows' \in [Events -> Row \cup {Null}] /\ relays' \in [Relays -> Relay]
         /\ \A e \in Events : rows'[e] # Null <=> rows[e] # Null
         /\ \A e \in Events : rows[e] # Null =>
              /\ rows[e] \in Row
              /\ rows'[e].owner = rows[e].owner /\ rows'[e].published = rows[e].published
              /\ rows[e].lease > 0 => rows'[e].lease = rows[e].lease - 1
         /\ \A r \in Relays :
              /\ relays'[r].phase = relays[r].phase /\ relays'[r].event = relays[r].event
              /\ relays'[r].incarnation = relays[r].incarnation
              /\ relays[r].timer > 0 => relays'[r].timer = relays[r].timer - 1
<1> USE DEF Tick
<1>1. rows \in [Events -> Row \cup {Null}] /\ relays \in [Relays -> Relay]
  BY DEF RelayInv, TypeOK
<1>2. ASSUME NEW e \in Events, rows[e] # Null
      PROVE  /\ rows[e] \in Row /\ rows'[e] \in Row
             /\ rows'[e].owner = rows[e].owner /\ rows'[e].published = rows[e].published
             /\ rows[e].lease > 0 => rows'[e].lease = rows[e].lease - 1
  <2>1. rows[e] \in Row
    BY <1>1, <1>2
  <2> DEFINE lease == IF rows[e].lease > 0 THEN rows[e].lease - 1 ELSE 0
             delay == IF rows[e].delay > 0 THEN rows[e].delay - 1 ELSE 0
  <2>2. rows'[e] = [rows[e] EXCEPT !.lease = lease, !.delay = delay]
    BY <1>2, <1>1 DEF Committed
  <2>3. lease \in 0 .. LeaseDuration /\ delay \in 0 .. MaximumBackoff
        /\ (rows[e].lease > 0 => lease = rows[e].lease - 1)
    <3>1. rows[e].lease \in 0 .. LeaseDuration /\ rows[e].delay \in 0 .. MaximumBackoff
      BY <2>1 DEF Row
    <3> HIDE DEF Tick
    <3> QED BY <3>1, Config
  <2> HIDE DEF lease, delay
  <2> QED BY <2>1, <2>2, <2>3 DEF Row
<1>3. ASSUME NEW e \in Events, rows[e] = Null PROVE rows'[e] = Null
  BY <1>3 DEF Committed
<1>4. ASSUME NEW r \in Relays
      PROVE  /\ relays'[r] \in Relay
             /\ relays'[r].phase = relays[r].phase /\ relays'[r].event = relays[r].event
             /\ relays'[r].incarnation = relays[r].incarnation
             /\ relays[r].timer > 0 => relays'[r].timer = relays[r].timer - 1
  <2> DEFINE timer == IF relays[r].timer > 0 THEN relays[r].timer - 1 ELSE 0
  <2>1. relays[r] \in Relay
    BY <1>1
  <2>2. relays'[r] = [relays[r] EXCEPT !.timer = timer]
    BY <1>1
  <2>3. timer \in 0 .. PublishTimeout /\ (relays[r].timer > 0 => timer = relays[r].timer - 1)
    <3>1. relays[r].timer \in 0 .. PublishTimeout
      BY <2>1 DEF Relay
    <3> HIDE DEF Tick
    <3> QED BY <3>1, Config
  <2> HIDE DEF timer
  <2> QED BY <2>1, <2>2, <2>3 DEF Relay
<1>5. \A e \in Events : rows'[e] # Null <=> rows[e] # Null
  BY <1>2, <1>3, Config
<1>6. rows' \in [Events -> Row \cup {Null}]
  <2>1. DOMAIN rows' = Events /\ rows' = [e \in Events |-> rows'[e]]
    OBVIOUS
  <2> QED BY <1>2, <1>3, <2>1
<1>7. relays' \in [Relays -> Relay]
  <2>1. relays' = [r \in Relays |-> relays'[r]]
    OBVIOUS
  <2> QED BY <1>4, <2>1
<1> QED BY <1>2, <1>4, <1>5, <1>6, <1>7

\* Leases and timers run down together, so the lease stays the longer one
LEMMA TickStep ==
  ASSUME RelayInv, Tick
  PROVE  RelayInv'
<1>1. UNCHANGED <<line, projected, wire, bus, restarts>>
  BY DEF Tick
<1>0. stalls \in 0 .. MaxStalls /\ faults \in 0 .. MaxFaults
  BY DEF RelayInv, TypeOK
<1>2. stalls' \in 0 .. MaxStalls /\ faults' \in 0 .. MaxFaults
  <2>1. stalls' = stalls \/ (stalls < MaxStalls /\ stalls' = stalls + 1)
    BY DEF Tick
  <2>2. faults' = faults \/ (faults < MaxFaults /\ faults' = faults + 1)
    BY DEF Tick, Fault
  <2> QED BY <1>0, <2>1, <2>2, Config
<1>3. TypeOK'
  BY <1>1, <1>2, TickEffect DEF RelayInv, TypeOK
<1>4. LineInv'
  <2>1. \A x \in Events : (rows'[x] # Null /\ ~rows'[x].published) <=>
          (rows[x] # Null /\ ~rows[x].published)
    BY TickEffect
  <2> QED BY <1>1, <2>1 DEF RelayInv, LineInv, Committed
<1>5. HandInv'
  <2> SUFFICES ASSUME NEW x \in Relays
               PROVE  /\ relays'[x].incarnation <= restarts
                      /\ relays'[x].event = Null <=> relays'[x].phase = "idle"
                      /\ relays'[x].event # Null => rows'[relays'[x].event] # Null
                      /\ relays'[x].phase = "delivered" => relays'[x].event \in bus
    BY <1>1 DEF HandInv, Committed
  <2>1. /\ relays'[x].phase = relays[x].phase /\ relays'[x].event = relays[x].event
        /\ relays'[x].incarnation = relays[x].incarnation
    BY TickEffect
  <2>2. relays[x].event # Null => relays[x].event \in Events /\ rows[relays[x].event] # Null
    BY OneRelay, Config
  <2> QED BY <2>1, <2>2, OneRelay, TickEffect
<1>6. LeaseInv'
  <2> SUFFICES ASSUME stalls' = 0, NEW x \in Relays, relays'[x].event # Null
               PROVE  LET f == relays'[x].event IN
                      /\ rows'[f].owner = Owner(x)' /\ ~rows'[f].published /\ rows'[f].lease > 0
                      /\ relays'[x].phase = "claimed" => rows'[f].lease > PublishTimeout
                      /\ relays'[x].phase \in {"delivering", "publishing"} =>
                           rows'[f].lease > relays'[x].timer
    BY DEF LeaseInv, HoldsLease
  <2>1. stalls = 0 /\ ~Runnable(x)
    <3>1. (\E r \in Relays : Runnable(r)) => stalls' = stalls + 1
      BY DEF Tick
    <3>2. ~(\E r \in Relays : Runnable(r)) => stalls' = stalls
      BY DEF Tick
    <3> QED BY <1>0, <3>1, <3>2, Config
  <2> DEFINE e == relays[x].event
  <2>2. /\ relays'[x].phase = relays[x].phase /\ relays'[x].event = e /\ Owner(x)' = Owner(x)
        /\ relays[x].timer > 0 => relays'[x].timer = relays[x].timer - 1
    BY TickEffect DEF Owner
  <2>3. e \in Events /\ rows[e] \in Row /\ rows[e] # Null /\ relays[x] \in Relay
        /\ relays[x].phase # "idle"
    BY <2>2, OneRelay, Config
  <2>4. /\ relays[x].phase \in {"delivering", "publishing"} /\ relays[x].timer > 0
    BY <2>1, <2>3, Config DEF Runnable, Relay, Phase
  <2>5. /\ rows[e].owner = Owner(x) /\ ~rows[e].published /\ rows[e].lease > relays[x].timer
    BY <2>1, <2>2, <2>3, <2>4 DEF RelayInv, LeaseInv, HoldsLease
  <2>6. rows[e].lease \in Nat /\ relays[x].timer \in Nat
    BY <2>3, Config DEF Row, Relay
  <2>7. /\ rows'[e].owner = rows[e].owner /\ rows'[e].published = rows[e].published
        /\ rows'[e].lease = rows[e].lease - 1
    BY <2>3, <2>4, <2>5, <2>6, TickEffect
  <2> HIDE DEF e
  <2> QED BY <2>2, <2>4, <2>5, <2>6, <2>7
<1>7. WireInv'
  BY <1>1 DEF RelayInv, WireInv
<1>8. PublishedIsHandedOff'
  BY <1>1, TickEffect DEF RelayInv, PublishedIsHandedOff, Published, Committed
<1> QED BY <1>3, <1>4, <1>5, <1>6, <1>7, <1>8 DEF RelayInv

\* Every step keeps the invariant
LEMMA NextHolds == RelayInv /\ [Next]_vars => RelayInv'
<1> SUFFICES ASSUME RelayInv, [Next]_vars PROVE RelayInv'
  OBVIOUS
<1>1. ASSUME NEW e \in Events, Commit(e) PROVE RelayInv'
  BY <1>1, CommitStep
<1>2. ASSUME NEW r \in Relays, RelayStep(r) PROVE RelayInv'
  BY <1>2, ClaimStep, EndTurnStep, BeginStep, PublishStep, DeliveredStep, DeliveryTimesOutStep,
     MarkPublishedStep, MarkFailedStep, ProjectStep DEF RelayStep
<1>3. ASSUME NEW r \in Relays, DeliveryFails(r) \/ SettlementFails(r) \/ Crash(r) PROVE RelayInv'
  BY <1>3, DeliveryFailsStep, SettlementFailsStep, CrashStep
<1>4. CASE BusStores \/ BusLoses
  BY <1>4, BusStep
<1>5. CASE Tick
  BY <1>5, TickStep
<1>6. CASE UNCHANGED vars
  BY <1>6 DEF vars, RelayInv, TypeOK, LineInv, HandInv, WireInv, PublishedIsHandedOff, LeaseInv,
     Published, Committed, HoldsLease, Owner
<1> QED BY <1>1, <1>2, <1>3, <1>4, <1>5, <1>6 DEF Next

-----------------------------------------------------------------------------
(* The theorems                                                             *)

\* RelayInv holds in every reachable state
THEOREM RelayInvariance == Spec => []RelayInv
  BY InitHolds, NextHolds, PTL DEF Spec

(* A row is marked published only when the event bus has stored its fact,  *)
(* and the bus has a fact only when every projector applied it: the        *)
(* transport handoff the architecture document promises, for any number of *)
(* relays that crash, time out and lose their leases.                      *)
THEOREM HandedOff == Spec => []PublishedIsHandedOff
<1>1. RelayInv => PublishedIsHandedOff
  BY DEF RelayInv
<1> QED BY <1>1, RelayInvariance, PTL

(* As long as no relay stalls, a relay that has a fact in hand also has    *)
(* its current lease.  It follows from lease_duration > publish_timeout,   *)
(* which OutboxRelayConfig::validate demands, and nothing else.            *)
THEOREM LeaseOutlastsPublish == Spec => []TimelyRelayHoldsLease
<1>1. RelayInv => TimelyRelayHoldsLease
  BY DEF RelayInv, LeaseInv, TimelyRelayHoldsLease
<1> QED BY <1>1, RelayInvariance, PTL

(* A current lease ends only when its holder settles the row: claim skips  *)
(* leased rows, mark_published and mark_failed compare the owner.          *)
THEOREM ExclusiveLease == Spec => LeaseIsExclusive
<1> DEFINE Step ==
      \A e \in Events :
        Committed(e) /\ rows[e].lease > 0 /\ rows'[e].owner # rows[e].owner =>
          \E r \in Relays :
            /\ rows[e].owner = Owner(r) /\ relays[r].event = e
            /\ relays[r].phase \in {"delivered", "failed"} /\ relays'[r].phase = "idle"
<1>1. ASSUME RelayInv, [Next]_vars PROVE [Step]_vars
  <2> SUFFICES ASSUME NEW e \in Events, Committed(e), rows[e].lease > 0,
                      rows'[e].owner # rows[e].owner
               PROVE  \E r \in Relays :
                        /\ rows[e].owner = Owner(r) /\ relays[r].event = e
                        /\ relays[r].phase \in {"delivered", "failed"}
                        /\ relays'[r].phase = "idle"
    OBVIOUS
  <2>1. rows \in [Events -> Row \cup {Null}] /\ relays \in [Relays -> Relay]
    BY <1>1 DEF RelayInv, TypeOK
  <2>2. rows' # rows
    OBVIOUS
  <2>3. ASSUME NEW f \in Events, Commit(f) PROVE FALSE
    BY <2>1, <2>3 DEF Commit, Committed
  <2>4. ASSUME NEW r \in Relays, Claim(r) PROVE FALSE
    <3>1. PICK i \in DOMAIN line :
            /\ Claimable(line[i])
            /\ rows' = [rows EXCEPT ![line[i]].owner = Owner(r), ![line[i]].lease = ClaimLease,
                                    ![line[i]].attempts = NextAttempt(@)]
      BY <2>4 DEF Claim
    <3>2. e # line[i]
      BY <3>1 DEF Claimable
    <3> QED BY <2>1, <3>1, <3>2
  <2>5. ASSUME Tick PROVE FALSE
    BY <1>1, <2>5, TickEffect DEF Committed
  <2>6. ASSUME NEW r \in Relays, MarkPublished(r) \/ MarkFailed(r)
        PROVE  /\ rows[e].owner = Owner(r) /\ relays[r].event = e
               /\ relays[r].phase \in {"delivered", "failed"}
               /\ relays'[r].phase = "idle"
    <3>1. HoldsLease(relays[r].event, Owner(r)) /\ relays[r].phase \in {"delivered", "failed"}
      BY <2>2, <2>6 DEF MarkPublished, MarkFailed, MayFail, At
    <3>2. \A x \in Events : x # relays[r].event => rows'[x] = rows[x]
      BY <2>1, <2>2, <2>6 DEF MarkPublished, MarkFailed
    <3>3. relays'[r].phase = "idle"
      <4>1. \/ relays' = [relays EXCEPT ![r] = [relays[r] EXCEPT !.phase = "idle", !.event = Null,
                                                                !.timer = 0]]
            \/ relays' = [relays EXCEPT ![r] = Idle(relays[r].incarnation)]
        BY <2>2, <2>6 DEF MarkPublished, MarkFailed, Become
      <4>2. relays[r] \in Relay /\ Idle(relays[r].incarnation).phase = "idle"
        BY <2>1 DEF Idle
      <4>3. [relays[r] EXCEPT !.phase = "idle", !.event = Null, !.timer = 0].phase = "idle"
        BY <4>2 DEF Relay
      <4> QED BY <2>1, <4>1, <4>2, <4>3
    <3> QED BY <3>1, <3>2, <3>3 DEF HoldsLease
  <2>7. ASSUME NEW r \in Relays, MarkPublished(r) \/ MarkFailed(r)
        PROVE  \E x \in Relays :
                 /\ rows[e].owner = Owner(x) /\ relays[x].event = e
                 /\ relays[x].phase \in {"delivered", "failed"} /\ relays'[x].phase = "idle"
    BY <2>6, <2>7
  <2>8. ASSUME NEW r \in Relays,
               \/ EndTurn(r) \/ Begin(r) \/ Publish(r) \/ Delivered(r) \/ DeliveryTimesOut(r)
               \/ DeliveryFails(r) \/ SettlementFails(r) \/ Crash(r)
               \/ \E p \in Projectors : Project(r, p)
        PROVE  FALSE
    BY <2>2, <2>8 DEF EndTurn, Begin, Publish, Delivered, DeliveryTimesOut, DeliveryFails,
       SettlementFails, Crash, Project
  <2>9. CASE BusStores \/ BusLoses \/ UNCHANGED vars
    BY <2>2, <2>9 DEF BusStores, BusLoses, vars
  <2> QED BY <1>1, <2>3, <2>4, <2>5, <2>7, <2>8, <2>9 DEF Next, RelayStep
<1>2. LeaseIsExclusive <=> [][Step]_vars
  BY DEF LeaseIsExclusive
<1>3. RelayInv /\ [Next]_vars => [Step]_vars
  BY <1>1
<1> HIDE DEF Step
<1> QED BY <1>2, <1>3, RelayInvariance, PTL DEF Spec
=============================================================================
