---------------------- MODULE OutboundDelivery_proofs ----------------------
(***************************************************************************)
(* Theorems about OutboundDelivery, for every number of consumers, every   *)
(* provider-attempt budget, lease, outcome window and Retry-After, and any *)
(* bound on faults and stalls.                                             *)
(*                                                                         *)
(* The inductive invariant AttemptInv relates a process to the row of its  *)
(* attempt.  Tokens make fences unique: while the row still carries the    *)
(* fence of a process, nobody else has moved it.  A dispatching row is     *)
(* never reserved again, so a process that is about to call the provider,  *)
(* or has called it, still finds its own fence on the row.                 *)
(***************************************************************************)
EXTENDS OutboundDelivery, FiniteSetTheorems, WellFoundedInduction, TLAPS

Phases == {"idle", "admit", "reserve", "prepare", "begin", "call", "settle",
           "settle_known", "preflight", "receipt"}

Calls == [fence : Fences, at : Nat, outcome : Outcomes]

Processes ==
  [pc : Phases, maximum : 0 .. MaximumProviderAttempts, generation : Nat, requestedAt : Nat,
   fence : Fences \cup {None}, dispatchStartedAt : Nat \cup {None},
   evidence : EvidenceRecords \cup {None}, receipt : Receipts \cup {None}]

TypeInv ==
  /\ now \in Nat
  /\ event \in [delivered : 0 .. MaximumProviderAttempts, acked : BOOLEAN]
  /\ rows \in [Generations -> Rows \cup {None}]
  /\ receipt \in Receipts \cup {None}
  /\ revoked \in BOOLEAN
  /\ consumers \in [Consumers -> Processes]
  /\ calls \in [Generations -> SUBSET Calls]
  /\ faults \in 0 .. MaxFaults /\ stalls \in 0 .. MaxStalls

\* No two processes hold the same token
TokensDiffer(ps) ==
  \A c, d \in Consumers :
    c # d /\ ps[c].fence # None /\ ps[d].fence # None => ps[c].fence.token # ps[d].fence.token

\* What a row says, and the provider calls made for it
RowOK(row, cs) ==
  /\ row = None => cs = {}
  /\ row # None =>
       /\ row.dispatchStartedAt = None => cs = {}
       /\ row.state = "reserved" => row.dispatchStartedAt = None /\ row.evidence = None
       /\ row.state = "dispatching" => row.dispatchStartedAt # None /\ row.evidence = None
       /\ row.state = "terminal" => row.evidence # None
       /\ row.dispatchStartedAt # None => row.outcomeDeadlineAt # None
       /\ row.state = "terminal" /\ row.evidence.outcome = "indeterminate" =>
            row.dispatchStartedAt # None
       /\ row.state = "terminal" /\ row.dispatchStartedAt # None
            /\ row.evidence.outcome # "indeterminate" =>
            \E call \in cs : /\ call.fence = row.fence
                             /\ call.outcome = row.evidence.outcome
                             /\ call.at = row.evidence.completedAt
  /\ \A x, y \in cs : x = y

\* The attempt ended retryable, and its Retry-After is over
Retried(row, t) ==
  /\ row # None /\ row.state = "terminal" /\ row.evidence.outcome = "retryable"
  /\ t >= RetryNotBefore(row.evidence)

\* A process, the row and the calls of its attempt
ProcessOK(me, row, cs) ==
  /\ me.pc \in {"idle", "admit", "reserve"} => me.fence = None
  /\ me.pc \in {"prepare", "begin", "preflight", "call", "settle", "settle_known"} =>
       me.fence # None /\ row # None
  /\ me.pc \in {"prepare", "begin", "preflight"} =>
       (row.fence = me.fence => row.state = "reserved")
  /\ me.pc \in {"begin", "call", "settle", "settle_known"} => me.dispatchStartedAt # None
  /\ me.pc \in {"preflight", "settle", "settle_known"} =>
       me.evidence # None /\ me.evidence.outcome # "indeterminate"
  /\ me.pc \in {"call", "settle", "settle_known"} =>
       /\ row.fence = me.fence /\ row.dispatchStartedAt = me.dispatchStartedAt
       /\ \/ row.state = "dispatching"
          \/ row.state = "terminal" /\ row.evidence.outcome = "indeterminate"
          \/ row.state = "terminal" /\ me.pc = "settle_known" /\ row.evidence = me.evidence
  /\ me.pc = "call" => cs = {}
  /\ me.pc \in {"settle", "settle_known"} =>
       [fence |-> me.fence, at |-> me.evidence.completedAt, outcome |-> me.evidence.outcome] \in cs
  /\ me.pc = "receipt" => me.receipt # None

\* A process has a generation once it is admitted, and all before it are over
GenerationOK(me, rs, t) ==
  me.pc \notin {"idle", "admit"} =>
    me.generation \in Generations /\ \A k \in 1 .. me.generation - 1 : Retried(rs[k], t)

\* The receipt agrees with the row
ReceiptOK(r, rs) ==
  r # None =>
    LET row == rs[r.generation]
        settled(outcome) == row.state = "terminal" /\ row.evidence.outcome = outcome
    IN /\ row # None
       /\ r.outcome = "delivered" => settled("accepted")
       /\ r.outcome = "rejected" => settled("rejected")
       /\ r.outcome = "exhausted" => settled("retryable") /\ r.generation = MaximumProviderAttempts
       /\ r.outcome = "indeterminate" => row.dispatchStartedAt # None

AttemptInv ==
  /\ TypeInv
  /\ TokensDiffer(consumers)
  /\ \A g \in Generations : RowOK(rows[g], calls[g])
  /\ RetriesFollowEvidence
  /\ \A c \in Consumers :
       /\ GenerationOK(consumers[c], rows, now)
       /\ consumers[c].generation \in Generations =>
            ProcessOK(consumers[c], rows[consumers[c].generation], calls[consumers[c].generation])
       /\ consumers[c].pc \in {"idle", "admit"} => consumers[c].fence = None
  /\ ReceiptOK(receipt, rows)

-----------------------------------------------------------------------------
(* Constants and tokens                                                     *)

\* Budget, lease and windows are naturals, and the budget admits a first generation
LEMMA Constants ==
  /\ MaximumProviderAttempts \in Nat /\ MaximumProviderAttempts >= 1
  /\ RetryAfter \in Nat /\ MaxFaults \in Nat /\ MaxStalls \in Nat
  /\ ReservationLease \in Nat /\ OutcomeWindow \in Nat
  /\ \A g \in Generations : g \in Nat /\ g >= 1 /\ g <= MaximumProviderAttempts
  /\ 1 \in Generations
  BY DeliveryBoundsAssumption, ConnectorOptionsAssumption DEF Generations

\* None is no fence, evidence, row or receipt
LEMMA NoneIsNothing ==
  None \notin Nat /\ None \notin Fences /\ None \notin EvidenceRecords /\ None \notin Rows
  /\ None \notin Receipts
  BY NoneAssumption

\* A set of naturals that is not empty has a least member
LEMMA LeastMember ==
  ASSUME NEW T \in SUBSET Nat, T # {}
  PROVE  \E x \in T : \A y \in T : x <= y
<1>1. PICK x \in T : \A y \in T : ~(<<y, x>> \in OpToRel(<, Nat))
  <2> DEFINE R == OpToRel(<, Nat)
  <2>1. IsWellFoundedOn(R, Nat)
    BY NatLessThanWellFounded
  <2> HIDE DEF R
  <2>2. \E x \in T : \A y \in T : ~(<<y, x>> \in R)
    BY <2>1, WFMin
  <2> QED BY <2>2 DEF R
<1>2. \A y \in T : ~(y < x)
  BY <1>1 DEF OpToRel
<1> QED BY <1>2

\* One token more than processes is enough for a fresh one: the process that
\* asks holds none
LEMMA FreshIsFresh ==
  ASSUME TypeInv, NEW c \in Consumers, consumers[c].fence = None, NEW g \in Generations
  PROVE  /\ FreshToken(g) \in Tokens
         /\ \A d \in Consumers : consumers[d].fence # None => consumers[d].fence.token # FreshToken(g)
         /\ rows[g] # None => rows[g].fence.token # FreshToken(g)
<1> DEFINE n == Cardinality(Consumers)
           X == {x \in Consumers : consumers[x].fence # None}
           A == {consumers[x].fence.token : x \in X}
           B == {rows[g].fence.token : x \in {y \in {g} : rows[y] # None}}
           free == (1 .. n + 1) \ (A \cup B)
           f == [x \in X |-> consumers[x].fence.token]
<1>1. IsFiniteSet(Consumers) /\ n \in Nat
  BY DeliveryBoundsAssumption, FS_CardinalityType
<1>2. IsFiniteSet(X) /\ Cardinality(X) \in Nat /\ Cardinality(X) <= n - 1
  <2>1. IsFiniteSet(Consumers \ {c}) /\ Cardinality(Consumers \ {c}) = n - 1
    BY <1>1, FS_RemoveElement
  <2>2. X \in SUBSET (Consumers \ {c})
    OBVIOUS
  <2> HIDE DEF X, n
  <2>3. IsFiniteSet(X) /\ Cardinality(X) <= Cardinality(Consumers \ {c})
    BY <2>1, <2>2, FS_Subset
  <2> QED BY <2>1, <2>3, FS_CardinalityType
<1>3. IsFiniteSet(A) /\ Cardinality(A) \in Nat /\ Cardinality(A) <= Cardinality(X)
  <2>1. f \in Surjection(X, A)
    BY DEF Surjection
  <2> HIDE DEF f, X, A
  <2>2. IsFiniteSet(A) /\ Cardinality(A) <= Cardinality(X)
    BY <1>2, <2>1, FS_Surjection
  <2> QED BY <2>2, FS_CardinalityType
<1>4. IsFiniteSet(B) /\ Cardinality(B) \in Nat /\ Cardinality(B) <= 1
  <2> DEFINE t == rows[g].fence.token
  <2>1. B \in SUBSET {t}
    OBVIOUS
  <2> HIDE DEF t, B
  <2>2. IsFiniteSet({t}) /\ Cardinality({t}) = 1
    BY FS_Singleton
  <2>3. IsFiniteSet(B) /\ Cardinality(B) <= Cardinality({t})
    BY <2>1, <2>2, FS_Subset
  <2> QED BY <2>2, <2>3, FS_CardinalityType
<1> HIDE DEF A, B, X, f
<1>5. IsFiniteSet(A \cup B) /\ Cardinality(A \cup B) \in Nat /\ Cardinality(A \cup B) <= n
  <2>1. IsFiniteSet(A \cup B) /\ Cardinality(A \cup B) = Cardinality(A) + Cardinality(B) - Cardinality(A \cap B)
    BY <1>3, <1>4, FS_Union
  <2>2. IsFiniteSet(A \cap B)
    BY <1>3, FS_Subset
  <2>3. Cardinality(A \cap B) \in Nat
    BY <2>2, FS_CardinalityType
  <2>4. Cardinality(A \cup B) \in Nat
    BY <2>1, FS_CardinalityType
  <2> HIDE DEF n
  <2> QED BY <1>1, <1>2, <1>3, <1>4, <2>1, <2>3, <2>4
<1> HIDE DEF n
<1>6. free # {}
  <2> SUFFICES ASSUME free = {} PROVE FALSE
    OBVIOUS
  <2>1. (1 .. n + 1) \in SUBSET (A \cup B)
    OBVIOUS
  <2>2. Cardinality(1 .. n + 1) <= Cardinality(A \cup B)
    BY <1>5, <2>1, FS_Subset
  <2>3. 1 \in Int /\ n + 1 \in Int /\ ~(1 > n + 1) /\ (n + 1) - 1 + 1 = n + 1
    BY <1>1
  <2>4. Cardinality(1 .. n + 1) = n + 1
    BY <2>3, FS_Interval
  <2> QED BY <1>1, <1>5, <2>2, <2>4
<1>7. free \in SUBSET Nat
  BY <1>1
<1>8. FreshToken(g) \in free
  <2>1. FreshToken(g) = Min(free)
    BY DEF FreshToken, A, B, X, n
  <2> HIDE DEF free
  <2>2. \E x \in free : \A y \in free : x <= y
    BY <1>6, <1>7, LeastMember
  <2>3. Min(free) \in free
    BY <2>2 DEF Min
  <2> QED BY <2>1, <2>3
<1>9. FreshToken(g) \in Tokens
  BY <1>1, <1>8 DEF Tokens
<1>10. FreshToken(g) \notin A \cup B
  BY <1>8
<1>11. ASSUME NEW d \in Consumers, consumers[d].fence # None PROVE consumers[d].fence.token \in A
  BY <1>11 DEF A, X
<1>12. rows[g] # None => rows[g].fence.token \in B
  BY DEF B
<1> QED BY <1>9, <1>10, <1>11, <1>12

-----------------------------------------------------------------------------
(* The row                                                                  *)

\* reserve, with a token that the row does not carry
LEMMA ReserveCases ==
  ASSUME NEW row \in Rows \cup {None}, NEW token, NEW at \in Nat,
         row # None => row.fence.token # token
  PROVE  \/ /\ row = None /\ Reservation(row, token, at) = "Acquired"
            /\ Reserve(row, token, at) = ReservedRow(Fence(1, token, at))
         \/ /\ row # None /\ row.state = "reserved" /\ Reservation(row, token, at) = "Takeover"
            /\ Reserve(row, token, at) = ReservedRow(Fence(row.fence.generation + 1, token, at))
         \/ /\ row # None /\ Reserve(row, token, at) = row
            /\ \/ row.state = "reserved" /\ Reservation(row, token, at) = "Busy"
               \/ row.state = "dispatching" /\ Reservation(row, token, at) \in {"InFlight", "Indeterminate"}
               \/ row.state = "terminal" /\ Reservation(row, token, at) = "Completed"
<1>1. row # None => row \in Rows /\ row.state \in {"reserved", "dispatching", "terminal"}
  BY DEF Rows
<1>2. row # None => ~HeldBy(row, token) /\ ~SameReservation(row, token, at)
  BY DEF HeldBy, SameReservation
<1>3. CASE row = None
  <2>1. Reservation(row, token, at) = "Acquired"
    BY <1>3 DEF Reservation
  <2> QED BY <1>3, <2>1 DEF Reserve
<1>4. CASE row # None /\ row.state = "reserved"
  <2>1. RecoveryState(row, at) \in {"Reserved", "ReservationExpired"}
    BY <1>4 DEF RecoveryState
  <2>2. Reservation(row, token, at) = IF RecoveryState(row, at) = "Reserved" THEN "Busy" ELSE "Takeover"
    BY <1>2, <1>4 DEF Reservation
  <2>3. Reservation(row, token, at) \in {"Busy", "Takeover"}
    BY <2>2
  <2> QED BY <1>4, <2>3 DEF Reserve
<1>5. CASE row # None /\ row.state = "dispatching"
  <2>1. RecoveryState(row, at) \in {"InFlight", "Indeterminate"}
    BY <1>5 DEF RecoveryState
  <2>2. Reservation(row, token, at) = RecoveryState(row, at)
    BY <1>2, <1>5 DEF Reservation
  <2> QED BY <1>5, <2>1, <2>2 DEF Reserve
<1>6. CASE row # None /\ row.state = "terminal"
  <2>1. RecoveryState(row, at) = "Completed"
    BY <1>6 DEF RecoveryState
  <2>2. Reservation(row, token, at) = RecoveryState(row, at)
    BY <1>2, <1>6 DEF Reservation
  <2> QED BY <1>6, <2>1, <2>2 DEF Reserve
<1> QED BY <1>1, <1>3, <1>4, <1>5, <1>6

-----------------------------------------------------------------------------
(* Frames                                                                   *)

\* A process is not disturbed by what happens to a row that is not its own
LEMMA ProcessFrame ==
  ASSUME NEW me \in Processes, NEW row \in Rows \cup {None}, NEW next \in Rows \cup {None},
         NEW cs, NEW ncs, ProcessOK(me, row, cs),
         \/ next = row /\ ncs = cs
         \/ me.fence = None
         \/ /\ next # None /\ next.fence # me.fence
            /\ row = None \/ row.fence # me.fence \/ row.state = "reserved"
         \/ /\ ncs = cs /\ row # None /\ row.state = "dispatching"
            /\ next # None /\ next.fence = row.fence /\ next.dispatchStartedAt = row.dispatchStartedAt
            /\ next.state = "terminal" /\ next.evidence.outcome = "indeterminate"
  PROVE  ProcessOK(me, next, ncs)
<1>1. me.pc \in Phases
  BY DEF Processes
<1>2. CASE next = row /\ ncs = cs
  BY <1>2
<1>3. CASE me.fence = None
  BY <1>1, <1>3 DEF ProcessOK, Phases
<1>4. CASE /\ next # None /\ next.fence # me.fence
           /\ row = None \/ row.fence # me.fence \/ row.state = "reserved"
  BY <1>1, <1>4 DEF ProcessOK, Phases
<1>5. CASE /\ ncs = cs /\ row # None /\ row.state = "dispatching"
           /\ next # None /\ next.fence = row.fence /\ next.dispatchStartedAt = row.dispatchStartedAt
           /\ next.state = "terminal" /\ next.evidence.outcome = "indeterminate"
  BY <1>1, <1>5 DEF ProcessOK, Phases
<1> QED BY <1>2, <1>3, <1>4, <1>5

\* Terminal rows stay
Kept(rs, nrs) ==
  \A k \in Generations : rs[k] # None =>
    /\ nrs[k] # None
    /\ rs[k].state = "terminal" => nrs[k] = rs[k]

\* A row that exists has a fence, and its evidence, if any, says when a retry may begin
LEMMA RowTypes ==
  ASSUME TypeInv, NEW g \in Generations, rows[g] # None
  PROVE  /\ rows[g] \in Rows /\ rows[g].fence \in Fences
         /\ rows[g].evidence # None =>
              rows[g].evidence \in EvidenceRecords /\ RetryNotBefore(rows[g].evidence) \in Nat
<1>1. rows[g] \in Rows
  BY DEF TypeInv
<1> QED BY <1>1 DEF Rows, EvidenceRecords, RetryNotBefore

\* Earlier generations stay over while rows are kept and time moves on
LEMMA GenerationFrame ==
  ASSUME AttemptInv, NEW nrs, Kept(rows, nrs), NEW t \in Nat, now <= t, NEW me,
         GenerationOK(me, rows, now)
  PROVE  GenerationOK(me, nrs, t)
<1> SUFFICES ASSUME me.pc \notin {"idle", "admit"}, me.generation \in Generations,
                    NEW k \in 1 .. me.generation - 1
             PROVE  Retried(nrs[k], t)
  BY DEF GenerationOK
<1>1. k \in Generations
  BY Constants DEF Generations
<1>2. Retried(rows[k], now)
  BY DEF GenerationOK
<1>3. nrs[k] = rows[k]
  BY <1>1, <1>2 DEF Retried, Kept
<1>4. RetryNotBefore(rows[k].evidence) \in Nat /\ now \in Nat
  BY <1>1, <1>2, RowTypes DEF AttemptInv, TypeInv, Retried, RowOK
<1> QED BY <1>2, <1>3, <1>4 DEF Retried

\* A row appears, and a call is made, when all generations before are over
LEMMA RetriesFrame ==
  ASSUME AttemptInv, NEW g \in Generations, NEW row, NEW cs,
         rows' = [rows EXCEPT ![g] = row], calls' = [calls EXCEPT ![g] = cs],
         Kept(rows, rows'), cs # {} => row # None,
         row # None /\ rows[g] = None => \A k \in 1 .. g - 1 : Retried(rows[k], now),
         cs # calls[g] => \A k \in 1 .. g - 1 : Retried(rows[k], now),
         \A call \in cs \ calls[g] : call.at = now
  PROVE  RetriesFollowEvidence'
<1> SUFFICES ASSUME NEW h \in Generations \ {1}, rows'[h] # None, NEW k \in 1 .. h - 1
             PROVE  /\ rows'[k] # None /\ rows'[k].state = "terminal"
                    /\ rows'[k].evidence.outcome = "retryable"
                    /\ \A call \in calls'[h] : call.at >= RetryNotBefore(rows'[k].evidence)
  BY DEF RetriesFollowEvidence, RetryNotBefore
<1>1. k \in Generations /\ h \in Generations /\ 1 .. h - 1 \subseteq Generations
  BY Constants DEF Generations
<1>2. /\ rows \in [Generations -> Rows \cup {None}] /\ calls \in [Generations -> SUBSET Calls] /\ now \in Nat
  BY DEF AttemptInv, TypeInv
<1>3. /\ rows[h] # None =>
           /\ rows[k] # None /\ rows[k].state = "terminal" /\ rows[k].evidence.outcome = "retryable"
           /\ \A call \in calls[h] : call.at >= RetryNotBefore(rows[k].evidence)
  BY DEF AttemptInv, RetriesFollowEvidence
<1>4. rows[h] = None => calls[h] = {}
  BY <1>1 DEF AttemptInv, RowOK
<1>5. rows[k] # None /\ rows[k].state = "terminal" /\ rows[k].evidence.outcome = "retryable"
      /\ (h # g \/ cs = calls[g] => \A call \in calls'[h] : call.at >= RetryNotBefore(rows[k].evidence))
  <2>1. CASE rows[h] # None
    BY <1>1, <1>2, <1>3, <2>1
  <2>2. CASE rows[h] = None
    <3>1. h = g /\ row # None
      BY <1>1, <1>2, <2>2
    <3> QED BY <1>1, <1>2, <1>4, <2>2, <3>1 DEF Retried
  <2> QED BY <2>1, <2>2
<1>6. rows'[k] = rows[k]
  BY <1>1, <1>5 DEF Kept
<1>7. ASSUME h = g, cs # calls[g], NEW call \in calls'[h]
      PROVE  call.at >= RetryNotBefore(rows[k].evidence)
  <2>1. now >= RetryNotBefore(rows[k].evidence)
    BY <1>7 DEF Retried
  <2>2. call \in cs
    BY <1>2, <1>7
  <2>3. CASE call \in calls[g]
    BY <1>3, <1>4, <1>7, <2>3
  <2>4. CASE call \notin calls[g]
    BY <2>1, <2>2, <2>4
  <2> QED BY <2>3, <2>4
<1> QED BY <1>5, <1>6, <1>7

\* Stored receipts keep agreeing with their rows
LEMMA ReceiptFrame ==
  ASSUME AttemptInv, NEW r \in Receipts \cup {None}, NEW nrs, ReceiptOK(r, rows), Kept(rows, nrs),
         \A g \in Generations : rows[g] # None /\ rows[g].dispatchStartedAt # None =>
                                  nrs[g].dispatchStartedAt # None
  PROVE  ReceiptOK(r, nrs)
<1>1. r # None => r.generation \in Generations
  BY DEF Receipts
<1> QED BY <1>1 DEF ReceiptOK, Kept

\* A process that waits for nothing from its row
Resting(rec, me) ==
  /\ rec \in Processes
  /\ rec.pc \in {"idle", "admit", "reserve", "receipt"}
  /\ rec.pc # "receipt" => rec.fence = None
  /\ rec.pc = "receipt" => rec.receipt # None
  /\ rec.fence \in {None, me.fence}
  /\ GenerationOK(rec, rows, now)

(***************************************************************************)
(* A process moves from one step to the next, and changes the row of one   *)
(* generation and the calls made for it.  What it takes: row and calls go  *)
(* together, a row appears and a call is made only behind generations that *)
(* are over, other processes are not disturbed, and the process fits its   *)
(* new row.                                                                *)
(***************************************************************************)
Moves(c, g, rec, row, cs) ==
  /\ now' = now /\ consumers' = [consumers EXCEPT ![c] = rec]
  /\ rows' = [rows EXCEPT ![g] = row] /\ calls' = [calls EXCEPT ![g] = cs]
  /\ event' \in [delivered : 0 .. MaximumProviderAttempts, acked : BOOLEAN]
  /\ revoked' \in BOOLEAN /\ faults' \in 0 .. MaxFaults /\ stalls' \in 0 .. MaxStalls
  /\ receipt' \in Receipts \cup {None} /\ ReceiptOK(receipt', rows')

RowMayMove(g, row, cs) ==
  /\ RowOK(row, cs)
  /\ rows[g] # None => row # None /\ (rows[g].state = "terminal" => row = rows[g])
  /\ row # None /\ rows[g] = None => \A k \in 1 .. g - 1 : Retried(rows[k], now)
  /\ cs # calls[g] => \A k \in 1 .. g - 1 : Retried(rows[k], now)
  /\ \A call \in cs \ calls[g] : call.at = now

OthersMayStay(c, g, row, cs) ==
  \A d \in Consumers \ {c} : consumers[d].fence # None /\ consumers[d].generation = g =>
    \/ row = rows[g] /\ cs = calls[g]
    \/ /\ row # None /\ row.fence # consumers[d].fence
       /\ rows[g] = None \/ rows[g].fence # consumers[d].fence \/ rows[g].state = "reserved"

ProcessMayMove(c, g, rec, row, cs) ==
  /\ rec.fence # None => \A d \in Consumers \ {c} : consumers[d].fence # None =>
                           consumers[d].fence.token # rec.fence.token
  /\ GenerationOK(rec, rows, now)
  /\ \/ Resting(rec, consumers[c])
     \/ (rec.generation = g /\ ProcessOK(rec, row, cs)) /\ rec.pc \notin {"idle", "admit"}

\* A step of one process on its own attempt keeps the invariant if the three sides allow it
LEMMA ProcessMoves ==
  ASSUME AttemptInv, NEW c \in Consumers, NEW g \in Generations,
         NEW rec \in Processes, NEW row \in Rows \cup {None}, NEW cs \in SUBSET Calls,
         Moves(c, g, rec, row, cs), RowMayMove(g, row, cs), OthersMayStay(c, g, row, cs),
         ProcessMayMove(c, g, rec, row, cs)
  PROVE  AttemptInv'
<1> USE DEF Moves, RowMayMove, OthersMayStay, ProcessMayMove
<1>1. /\ rows \in [Generations -> Rows \cup {None}] /\ calls \in [Generations -> SUBSET Calls]
      /\ now \in Nat /\ consumers \in [Consumers -> Processes]
  BY DEF AttemptInv, TypeInv
<1>2. TypeInv'
  BY <1>1 DEF TypeInv
<1>3. Kept(rows, rows')
  BY <1>1 DEF Kept
<1>4. RetriesFollowEvidence'
  <2>1. cs # {} => row # None
    BY DEF RowOK
  <2> QED BY <1>3, <2>1, RetriesFrame
<1>5. \A h \in Generations : RowOK(rows'[h], calls'[h])
  BY <1>1 DEF AttemptInv
<1>6. TokensDiffer(consumers')
  BY <1>1 DEF AttemptInv, TokensDiffer
<1>7. ASSUME NEW d \in Consumers
      PROVE  /\ GenerationOK(consumers'[d], rows', now')
             /\ consumers'[d].generation \in Generations =>
                  ProcessOK(consumers'[d], rows'[consumers'[d].generation], calls'[consumers'[d].generation])
             /\ consumers'[d].pc \in {"idle", "admit"} => consumers'[d].fence = None
  <2>1. CASE d = c
    <3>1. consumers'[d] = rec
      BY <1>1, <2>1
    <3>2. GenerationOK(rec, rows', now)
      BY <1>1, <1>3, GenerationFrame
    <3>3. CASE Resting(rec, consumers[c])
      <4>1. \A r, s : ProcessOK(rec, r, s)
        BY <3>3 DEF Resting, ProcessOK
      <4>2. rec.pc \in {"idle", "admit"} => rec.fence = None
        BY <3>3 DEF Resting
      <4> QED BY <3>1, <3>2, <4>1, <4>2
    <3>4. CASE (rec.generation = g /\ ProcessOK(rec, row, cs)) /\ rec.pc \notin {"idle", "admit"}
      <4>1. rows'[g] = row /\ calls'[g] = cs
        BY <1>1
      <4> QED BY <3>1, <3>2, <3>4, <4>1
    <3> QED BY <3>3, <3>4
  <2>2. CASE d # c
    <3>1. consumers'[d] = consumers[d] /\ consumers[d] \in Processes
      BY <1>1, <2>2
    <3>2. GenerationOK(consumers[d], rows', now)
      <4>1. GenerationOK(consumers[d], rows, now)
        BY DEF AttemptInv
      <4> QED BY <1>1, <1>3, <4>1, GenerationFrame
    <3>3. consumers[d].pc \in {"idle", "admit"} => consumers[d].fence = None
      BY DEF AttemptInv
    <3>4. ASSUME consumers[d].generation \in Generations
          PROVE  ProcessOK(consumers[d], rows'[consumers[d].generation], calls'[consumers[d].generation])
      <4> DEFINE h == consumers[d].generation
      <4>1. ProcessOK(consumers[d], rows[h], calls[h])
        BY <3>4 DEF AttemptInv
      <4>2. rows[h] \in Rows \cup {None} /\ rows'[h] \in Rows \cup {None}
        BY <1>1, <3>4
      <4>3. CASE h # g
        BY <1>1, <3>4, <4>1, <4>3
      <4>4. CASE h = g
        <5>1. rows'[h] = row /\ calls'[h] = cs
          BY <1>1, <4>4
        <5>2. \/ row = rows[h] /\ cs = calls[h]
              \/ consumers[d].fence = None
              \/ /\ row # None /\ row.fence # consumers[d].fence
                 /\ rows[h] = None \/ rows[h].fence # consumers[d].fence \/ rows[h].state = "reserved"
          BY <2>2, <4>4
        <5> HIDE DEF h, Moves, RowMayMove, OthersMayStay, ProcessMayMove
        <5>3. ProcessOK(consumers[d], row, cs)
          BY <3>1, <4>1, <4>2, <5>2, ProcessFrame
        <5> QED BY <5>1, <5>3 DEF h
      <4> QED BY <4>3, <4>4
    <3> QED BY <3>1, <3>2, <3>3, <3>4
  <2> QED BY <2>1, <2>2
<1> QED BY <1>2, <1>4, <1>5, <1>6, <1>7 DEF AttemptInv

\* A process moves and leaves the rows alone
LEMMA OnlyMoves ==
  ASSUME AttemptInv, NEW c \in Consumers, NEW rec \in Processes,
         consumers' = [consumers EXCEPT ![c] = rec], UNCHANGED <<now, rows, calls>>,
         event' \in [delivered : 0 .. MaximumProviderAttempts, acked : BOOLEAN],
         revoked' \in BOOLEAN, faults' \in 0 .. MaxFaults, stalls' \in 0 .. MaxStalls,
         receipt' \in Receipts \cup {None}, ReceiptOK(receipt', rows),
         GenerationOK(rec, rows, now),
         \/ Resting(rec, consumers[c])
         \/ /\ rec.fence = consumers[c].fence /\ rec.generation \in Generations
            /\ ProcessOK(rec, rows[rec.generation], calls[rec.generation])
            /\ rec.pc \notin {"idle", "admit"}
  PROVE  AttemptInv'
<1> DEFINE g == IF rec.generation \in Generations THEN rec.generation ELSE 1
<1>1. g \in Generations
  BY Constants
<1>2. /\ rows \in [Generations -> Rows \cup {None}] /\ calls \in [Generations -> SUBSET Calls]
  BY DEF AttemptInv, TypeInv
<1>3. rec.generation \in Generations => g = rec.generation
  OBVIOUS
<1> HIDE DEF g
<1>4. rows' = [rows EXCEPT ![g] = rows[g]] /\ calls' = [calls EXCEPT ![g] = calls[g]]
      /\ rows[g] \in Rows \cup {None} /\ calls[g] \in SUBSET Calls
  BY <1>1, <1>2
<1>5. RowOK(rows[g], calls[g]) /\ ReceiptOK(receipt', rows')
  BY <1>1 DEF AttemptInv
<1>6. rec.fence \in {None, consumers[c].fence}
  BY DEF Resting
<1>7. rec.fence # None => \A d \in Consumers \ {c} : consumers[d].fence # None =>
                            consumers[d].fence.token # rec.fence.token
  BY <1>6 DEF AttemptInv, TokensDiffer
<1>8. \/ Resting(rec, consumers[c])
      \/ (rec.generation = g /\ ProcessOK(rec, rows[g], calls[g])) /\ rec.pc \notin {"idle", "admit"}
  BY <1>3
<1>9. Moves(c, g, rec, rows[g], calls[g])
  BY <1>4, <1>5 DEF Moves
<1>10. RowMayMove(g, rows[g], calls[g])
  BY <1>5 DEF RowMayMove
<1>11. OthersMayStay(c, g, rows[g], calls[g])
  BY DEF OthersMayStay
<1>12. ProcessMayMove(c, g, rec, rows[g], calls[g])
  BY <1>7, <1>8 DEF ProcessMayMove
<1> QED BY <1>1, <1>4, <1>9, <1>10, <1>11, <1>12, ProcessMoves

-----------------------------------------------------------------------------
(* Where a process goes                                                     *)

\* What is known of a process that is at work
AtWork(c) ==
  /\ consumers[c] \in Processes
  /\ consumers[c].pc \notin {"idle", "admit"} =>
       /\ consumers[c].generation \in Generations
       /\ ProcessOK(consumers[c], rows[consumers[c].generation], calls[consumers[c].generation])
  /\ GenerationOK(consumers[c], rows, now)

\* A process between two steps agrees with the row and the calls of its attempt
LEMMA Working ==
  ASSUME AttemptInv, NEW c \in Consumers
  PROVE  AtWork(c)
  BY DEF AttemptInv, TypeInv, AtWork, GenerationOK

\* A process that gave up claims nothing of any row
LEMMA IdleRests ==
  ASSUME NEW me
  PROVE  Resting(Idle, me) /\ Idle \in Processes
<1>1. Idle \in Processes
  <2>1. 0 \in 0 .. MaximumProviderAttempts
    BY Constants
  <2> QED BY <2>1 DEF Idle, Processes, Phases
<1> QED BY <1>1 DEF Resting, Idle, GenerationOK

\* A process that starts a generation claims nothing yet, all before it being over
LEMMA StartRests ==
  ASSUME AttemptInv, NEW c \in Consumers, NEW g \in Generations,
         \A k \in 1 .. g - 1 : Retried(rows[k], now)
  PROVE  LET rec == [consumers[c] EXCEPT !.pc = "reserve", !.generation = g, !.requestedAt = now,
                               !.fence = None, !.dispatchStartedAt = None, !.evidence = None]
         IN  Resting(rec, consumers[c]) /\ rec \in Processes
<1> DEFINE rec == [consumers[c] EXCEPT !.pc = "reserve", !.generation = g, !.requestedAt = now,
                               !.fence = None, !.dispatchStartedAt = None, !.evidence = None]
<1>1. consumers[c] \in Processes /\ now \in Nat /\ g \in Nat
  BY Constants DEF AttemptInv, TypeInv
<1>2. rec \in Processes
  BY <1>1 DEF Processes, Phases
<1>3. rec.pc = "reserve" /\ rec.fence = None /\ rec.generation = g
  BY <1>1 DEF Processes
<1>4. GenerationOK(rec, rows, now)
  BY <1>3 DEF GenerationOK
<1> HIDE DEF rec
<1>5. Resting(rec, consumers[c])
  BY <1>2, <1>3, <1>4 DEF Resting
<1> QED BY <1>2, <1>5 DEF rec

\* A process about to write its receipt claims nothing of the row any more
LEMMA ReceiptRests ==
  ASSUME AttemptInv, NEW c \in Consumers, consumers[c].pc \notin {"idle", "admit"},
         NEW outcome \in {"delivered", "rejected", "exhausted", "indeterminate"}, NEW at \in Nat
  PROVE  LET rec == [consumers[c] EXCEPT !.pc = "receipt",
                       !.receipt = TerminalReceipt(outcome, consumers[c].generation, at)]
         IN  Resting(rec, consumers[c]) /\ rec \in Processes
<1> DEFINE rec == [consumers[c] EXCEPT !.pc = "receipt",
                     !.receipt = TerminalReceipt(outcome, consumers[c].generation, at)]
<1>1. consumers[c] \in Processes /\ consumers[c].generation \in Generations
      /\ GenerationOK(consumers[c], rows, now)
  BY Working DEF AtWork
<1>2. TerminalReceipt(outcome, consumers[c].generation, at) \in Receipts
  BY <1>1 DEF TerminalReceipt, Receipts
<1>3. rec \in Processes
  BY <1>1, <1>2 DEF Processes, Phases
<1>4. /\ rec.pc = "receipt" /\ rec.fence = consumers[c].fence /\ rec.generation = consumers[c].generation
      /\ rec.receipt \in Receipts
  BY <1>1, <1>2 DEF Processes
<1>5. GenerationOK(rec, rows, now)
  BY <1>1, <1>4 DEF GenerationOK
<1> HIDE DEF rec
<1>6. Resting(rec, consumers[c])
  BY <1>3, <1>4, <1>5, NoneIsNothing DEF Resting
<1> QED BY <1>3, <1>6 DEF rec

\* dispatch_fenced: a process goes on to the next generation only behind the
\* evidence of this one
LEMMA ConcludeRests ==
  ASSUME AttemptInv, NEW c \in Consumers, consumers[c].pc \notin {"idle", "admit"},
         NEW evidence \in EvidenceRecords, NEW replayed \in BOOLEAN, Conclude(c, evidence, replayed),
         replayed => /\ rows[consumers[c].generation] # None
                     /\ rows[consumers[c].generation].state = "terminal"
                     /\ rows[consumers[c].generation].evidence = evidence
  PROVE  \E rec \in Processes : /\ consumers' = [consumers EXCEPT ![c] = rec]
                                /\ Resting(rec, consumers[c])
<1> DEFINE g == consumers[c].generation
<1>1. consumers[c] \in Processes /\ g \in Generations /\ g \in Nat
      /\ \A k \in 1 .. g - 1 : Retried(rows[k], now)
  BY Working, Constants DEF AtWork, GenerationOK
<1>2. evidence.completedAt \in Nat
  BY DEF EvidenceRecords
<1>3. ASSUME NEW outcome \in {"delivered", "rejected", "exhausted"}, ToReceipt(c, outcome, g, evidence.completedAt)
      PROVE  \E rec \in Processes : /\ consumers' = [consumers EXCEPT ![c] = rec]
                                    /\ Resting(rec, consumers[c])
  BY <1>2, <1>3, ReceiptRests DEF ToReceipt, Goto
<1>4. ASSUME evidence.outcome = "retryable", replayed, g < consumers[c].maximum,
             now >= RetryNotBefore(evidence), StartGeneration(c, g + 1)
      PROVE  \E rec \in Processes : /\ consumers' = [consumers EXCEPT ![c] = rec]
                                    /\ Resting(rec, consumers[c])
  <2>1. consumers[c].maximum \in 0 .. MaximumProviderAttempts
    BY <1>1 DEF Processes
  <2>2. g + 1 \in Generations
    BY <1>1, <1>4, <2>1, Constants DEF Generations
  <2>3. Retried(rows[g], now)
    BY <1>4 DEF Retried
  <2>4. \A k \in 1 .. (g + 1) - 1 : Retried(rows[k], now)
    <3> SUFFICES ASSUME NEW k \in 1 .. (g + 1) - 1 PROVE Retried(rows[k], now)
      OBVIOUS
    <3>1. k = g \/ k \in 1 .. g - 1
      BY <1>1
    <3> QED BY <1>1, <2>3, <3>1
  <2> HIDE DEF g
  <2> QED BY <1>4, <2>2, <2>4, StartRests DEF StartGeneration, Goto
<1>5. ASSUME Release(c)
      PROVE  \E rec \in Processes : /\ consumers' = [consumers EXCEPT ![c] = rec]
                                    /\ Resting(rec, consumers[c])
  BY <1>5, IdleRests DEF Release
<1> QED BY <1>3, <1>4, <1>5 DEF Conclude

\* Faults are counted within their bound
LEMMA FaultTypes ==
  ASSUME AttemptInv
  PROVE  /\ Fault => faults' \in 0 .. MaxFaults
         /\ NoFault => faults' \in 0 .. MaxFaults
<1>1. faults \in 0 .. MaxFaults
  BY DEF AttemptInv, TypeInv
<1> QED BY <1>1, Constants DEF Fault, NoFault

\* Acknowledging the event, or losing that, ends the process's turn
LEMMA AcknowledgeTypes ==
  ASSUME AttemptInv, NEW c \in Consumers, Acknowledge(c) \/ LoseAcknowledgement(c)
  PROVE  /\ event' \in [delivered : 0 .. MaximumProviderAttempts, acked : BOOLEAN]
         /\ consumers' = [consumers EXCEPT ![c] = Idle]
<1>1. event \in [delivered : 0 .. MaximumProviderAttempts, acked : BOOLEAN]
  BY DEF AttemptInv, TypeInv
<1> QED BY <1>1 DEF Acknowledge, LoseAcknowledgement, Release

\* The parts of the invariant that a step which leaves them alone carries over
LEMMA Holds ==
  ASSUME AttemptInv
  PROVE  /\ event \in [delivered : 0 .. MaximumProviderAttempts, acked : BOOLEAN]
         /\ revoked \in BOOLEAN /\ faults \in 0 .. MaxFaults /\ stalls \in 0 .. MaxStalls
         /\ receipt \in Receipts \cup {None} /\ ReceiptOK(receipt, rows) /\ now \in Nat
         /\ rows \in [Generations -> Rows \cup {None}] /\ calls \in [Generations -> SUBSET Calls]
         /\ consumers \in [Consumers -> Processes]
  BY DEF AttemptInv, TypeInv

\* A process comes to rest, and nothing else changes
LEMMA Rests ==
  ASSUME AttemptInv, NEW c \in Consumers, NEW rec \in Processes, Resting(rec, consumers[c]),
         consumers' = [consumers EXCEPT ![c] = rec],
         UNCHANGED <<now, rows, calls, receipt, revoked, stalls>>,
         event' \in [delivered : 0 .. MaximumProviderAttempts, acked : BOOLEAN],
         faults' \in 0 .. MaxFaults
  PROVE  AttemptInv'
<1>1. GenerationOK(rec, rows, now)
  BY DEF Resting
<1>2. /\ receipt' \in Receipts \cup {None} /\ ReceiptOK(receipt', rows)
      /\ revoked' \in BOOLEAN /\ stalls' \in 0 .. MaxStalls
  BY Holds
<1> QED BY <1>1, <1>2, OnlyMoves

-----------------------------------------------------------------------------
(* The actions                                                              *)

\* No row, receipt or call exists and every process is idle
LEMMA InitHolds == Init => AttemptInv
<1> SUFFICES ASSUME Init PROVE AttemptInv
  OBVIOUS
<1>1. 0 \in 0 .. MaximumProviderAttempts /\ 0 \in 0 .. MaxFaults /\ 0 \in 0 .. MaxStalls
  BY Constants
<1>2. TypeInv
  BY <1>1, IdleRests DEF Init, TypeInv
<1>3. \A c \in Consumers : consumers[c] = Idle
  BY DEF Init
<1>4. \A g \in Generations : rows[g] = None /\ calls[g] = {}
  BY DEF Init
<1>5. TokensDiffer(consumers)
  BY <1>3 DEF TokensDiffer, Idle
<1>6. \A g \in Generations : RowOK(rows[g], calls[g])
  BY <1>4 DEF RowOK
<1>7. RetriesFollowEvidence
  BY <1>4 DEF RetriesFollowEvidence
<1>8. \A c \in Consumers : /\ GenerationOK(consumers[c], rows, now)
                           /\ consumers[c].generation \notin Generations
                           /\ consumers[c].fence = None
  BY <1>3, Constants DEF GenerationOK, Idle
<1>9. ReceiptOK(receipt, rows)
  BY DEF Init, ReceiptOK
<1> QED BY <1>2, <1>5, <1>6, <1>7, <1>8, <1>9 DEF AttemptInv

\* The clock moves, or the revision is revoked
LEMMA ClockStep ==
  ASSUME AttemptInv, now' \in Nat, now <= now', revoked' \in BOOLEAN, stalls' \in 0 .. MaxStalls,
         UNCHANGED <<event, rows, receipt, consumers, calls, faults>>
  PROVE  AttemptInv'
<1>1. TypeInv'
  BY DEF AttemptInv, TypeInv
<1>2. Kept(rows, rows)
  BY DEF Kept
<1>3. \A c \in Consumers : GenerationOK(consumers[c], rows, now')
  <2> SUFFICES ASSUME NEW c \in Consumers PROVE GenerationOK(consumers[c], rows, now')
    OBVIOUS
  <2>1. GenerationOK(consumers[c], rows, now)
    BY DEF AttemptInv
  <2> QED BY <1>2, <2>1, GenerationFrame
<1>4. RetriesFollowEvidence'
  BY DEF AttemptInv, RetriesFollowEvidence, RetryNotBefore
<1>5. TokensDiffer(consumers') /\ \A g \in Generations : RowOK(rows'[g], calls'[g])
  BY DEF AttemptInv
<1>6. ReceiptOK(receipt', rows')
  BY DEF AttemptInv
<1>7. \A c \in Consumers :
         /\ GenerationOK(consumers'[c], rows', now')
         /\ consumers'[c].generation \in Generations =>
              ProcessOK(consumers'[c], rows'[consumers'[c].generation], calls'[consumers'[c].generation])
         /\ consumers'[c].pc \in {"idle", "admit"} => consumers'[c].fence = None
  BY <1>3 DEF AttemptInv
<1> QED BY <1>1, <1>4, <1>5, <1>6, <1>7 DEF AttemptInv

\* Time, a stall or a revocation changes no row
LEMMA WaitStep ==
  ASSUME AttemptInv, Wait \/ Stall \/ Revoke \/ UNCHANGED vars
  PROVE  AttemptInv'
<1>1. /\ UNCHANGED <<event, rows, receipt, consumers, calls, faults>>
      /\ now' = now \/ now' = now + 1
      /\ revoked' \in {revoked, TRUE}
      /\ stalls' = stalls \/ (stalls < MaxStalls /\ stalls' = stalls + 1)
  BY DEF Wait, Stall, Revoke, vars
<1>2. now' \in Nat /\ now <= now' /\ revoked' \in BOOLEAN
  <2>1. now \in Nat /\ revoked \in BOOLEAN
    BY Holds
  <2>2. revoked' \in BOOLEAN
    BY <1>1, <2>1
  <2> QED BY <1>1, <2>1, <2>2
<1>3. stalls' \in 0 .. MaxStalls
  BY <1>1, Holds, Constants
<1> QED BY <1>1, <1>2, <1>3, ClockStep

\* The subscription hands the event to an idle process
LEMMA DeliverStep ==
  ASSUME AttemptInv, NEW c \in Consumers, Deliver(c)
  PROVE  AttemptInv'
<1> DEFINE m == event'.delivered
           rec == [Idle EXCEPT !.pc = "admit", !.maximum = m]
<1>1. /\ event' = [event EXCEPT !.delivered = MaximumGeneration(event.delivered + 1)]
      /\ consumers' = [consumers EXCEPT ![c] = rec]
      /\ UNCHANGED <<now, rows, receipt, revoked, calls, faults>>
      /\ stalls' = stalls \/ (stalls < MaxStalls /\ stalls' = stalls + 1)
  BY DEF Deliver, Goto
<1>2. MaximumGeneration(event.delivered + 1) \in 0 .. MaximumProviderAttempts
  <2> DEFINE S == {event.delivered + 1, MaximumProviderAttempts}
  <2>1. event.delivered \in 0 .. MaximumProviderAttempts
    BY Holds
  <2>2. S \in SUBSET Nat /\ S # {}
    BY <2>1, Constants
  <2>3. \E x \in S : \A y \in S : x <= y
    <3> HIDE DEF S
    <3> QED BY <2>2, LeastMember
  <2>4. Min(S) \in S /\ Min(S) <= MaximumProviderAttempts
    BY <2>3 DEF Min
  <2>5. Min(S) \in Nat
    BY <2>2, <2>4
  <2> HIDE DEF S
  <2> QED BY <2>4, <2>5, Constants DEF MaximumGeneration, S
<1>3. event' \in [delivered : 0 .. MaximumProviderAttempts, acked : BOOLEAN]
  BY <1>1, <1>2, Holds
<1>4. m \in 0 .. MaximumProviderAttempts
  BY <1>3
<1> HIDE DEF m
<1>5. rec \in Processes /\ rec.pc = "admit" /\ rec.fence = None
  BY <1>4, IdleRests DEF Idle, Processes, Phases
<1> HIDE DEF rec
<1>6. Resting(rec, consumers[c]) /\ GenerationOK(rec, rows, now)
  BY <1>5 DEF Resting, GenerationOK
<1>7. stalls' \in 0 .. MaxStalls
  BY <1>1, Holds, Constants
<1>8. /\ receipt' \in Receipts \cup {None} /\ ReceiptOK(receipt', rows)
      /\ revoked' \in BOOLEAN /\ faults' \in 0 .. MaxFaults
  BY <1>1, Holds
<1> QED BY <1>1, <1>3, <1>5, <1>6, <1>7, <1>8, OnlyMoves

\* admit_delivery acknowledges a delivery that has its receipt, or starts the first generation
LEMMA AdmitStep ==
  ASSUME AttemptInv, NEW c \in Consumers, Admit(c)
  PROVE  AttemptInv'
<1>1. UNCHANGED <<now, rows, calls, receipt, revoked, stalls>>
  BY DEF Admit
<1>2. faults' \in 0 .. MaxFaults
  BY FaultTypes DEF Admit
<1>3. CASE Acknowledge(c) \/ LoseAcknowledgement(c)
  BY <1>1, <1>2, <1>3, AcknowledgeTypes, IdleRests, Rests
<1>4. CASE StartGeneration(c, 1) /\ UNCHANGED event
  <2>1. \A k \in 1 .. 1 - 1 : Retried(rows[k], now)
    OBVIOUS
  <2>2. event' \in [delivered : 0 .. MaximumProviderAttempts, acked : BOOLEAN]
    BY <1>4, Holds
  <2>3. PICK rec \in Processes : consumers' = [consumers EXCEPT ![c] = rec] /\ Resting(rec, consumers[c])
    BY <1>4, <2>1, Constants, StartRests DEF StartGeneration, Goto
  <2> QED BY <1>1, <1>2, <2>2, <2>3, Rests
<1> QED BY <1>3, <1>4 DEF Admit

\* A process dies: its fence stays on the row
LEMMA AbandonStep ==
  ASSUME AttemptInv, NEW c \in Consumers, Abandon(c)
  PROVE  AttemptInv'
<1>1. /\ UNCHANGED <<now, rows, calls, receipt, revoked, stalls>> /\ event' = event
      /\ consumers' = [consumers EXCEPT ![c] = Idle]
  BY DEF Abandon, Release
<1>2. faults' \in 0 .. MaxFaults /\ event' \in [delivered : 0 .. MaximumProviderAttempts, acked : BOOLEAN]
  BY <1>1, FaultTypes, Holds DEF Abandon
<1> QED BY <1>1, <1>2, IdleRests, Rests

\* A reservation is a row with a new fence, no dispatch and no evidence
LEMMA ReservedRowProperties ==
  ASSUME NEW n \in Nat \ {0}, NEW token \in Tokens, NEW at \in Nat
  PROVE  LET f == Fence(n, token, at) IN
         /\ f \in Fences /\ f # None /\ f.token = token
         /\ ReservedRow(f) \in Rows /\ ReservedRow(f) # None
         /\ ReservedRow(f).fence = f /\ ReservedRow(f).state = "reserved"
         /\ RowOK(ReservedRow(f), {})
<1> DEFINE f == Fence(n, token, at)
<1>1. at + ReservationLease \in Nat
  BY Constants
<1>2. f \in Fences /\ f.token = token
  BY <1>1 DEF Fence, Fences
<1> HIDE DEF f
<1>3. ReservedRow(f) \in Rows /\ ReservedRow(f).fence = f /\ ReservedRow(f).state = "reserved"
  BY <1>2 DEF ReservedRow, Rows
<1>4. RowOK(ReservedRow(f), {})
  BY <1>3, NoneIsNothing DEF ReservedRow, RowOK
<1> QED BY <1>2, <1>3, <1>4, NoneIsNothing DEF f

\* reserve writes a new row, for a generation nobody has, or over a
\* reservation that has expired
LEMMA ReserveNewRow ==
  ASSUME AttemptInv, NEW c \in Consumers, consumers[c].pc = "reserve",
         NEW g, g = consumers[c].generation, NEW n \in Nat \ {0}, NEW row,
         row = ReservedRow(Fence(n, FreshToken(g), consumers[c].requestedAt)),
         rows[g] = None \/ rows[g].state = "reserved",
         rows' = [rows EXCEPT ![g] = row], faults' \in 0 .. MaxFaults,
         UNCHANGED <<now, event, receipt, revoked, calls, stalls>>,
         \/ Release(c)
         \/ Goto(c, [consumers[c] EXCEPT !.pc = "prepare", !.fence = row.fence])
  PROVE  AttemptInv'
<1>1. /\ g \in Generations /\ consumers[c] \in Processes /\ consumers[c].fence = None
      /\ GenerationOK(consumers[c], rows, now) /\ consumers[c].requestedAt \in Nat
      /\ \A k \in 1 .. g - 1 : Retried(rows[k], now)
  BY Working DEF AtWork, ProcessOK, GenerationOK, Processes
<1> DEFINE token == FreshToken(g)
<1>2. /\ token \in Tokens
      /\ \A d \in Consumers : consumers[d].fence # None => consumers[d].fence.token # token
      /\ rows[g] # None => rows[g].fence.token # token
  BY <1>1, FreshIsFresh DEF AttemptInv
<1> HIDE DEF token
<1>3. /\ row.fence \in Fences /\ row.fence # None /\ row.fence.token = token
      /\ row \in Rows /\ row # None /\ row.state = "reserved" /\ RowOK(row, {})
  BY <1>1, <1>2, ReservedRowProperties DEF token
<1>4. calls[g] = {} /\ calls[g] \in SUBSET Calls /\ calls' = [calls EXCEPT ![g] = calls[g]]
  BY <1>1, Holds DEF AttemptInv, RowOK
<1>5. Kept(rows, rows')
  BY <1>1, <1>3, Holds DEF Kept
<1>6. ReceiptOK(receipt', rows') /\ receipt' \in Receipts \cup {None}
  <2>1. \A h \in Generations : rows[h] # None /\ rows[h].dispatchStartedAt # None =>
                                 rows'[h].dispatchStartedAt # None
    BY <1>1, Holds DEF AttemptInv, RowOK
  <2> QED BY <1>5, <2>1, Holds, ReceiptFrame
<1>7. RowMayMove(g, row, calls[g])
  BY <1>1, <1>3, <1>4 DEF RowMayMove
<1>8. OthersMayStay(c, g, row, calls[g])
  BY <1>2, <1>3 DEF OthersMayStay
<1>9. PICK rec \in Processes : /\ consumers' = [consumers EXCEPT ![c] = rec]
                               /\ ProcessMayMove(c, g, rec, row, calls[g])
  <2>1. CASE Release(c)
    <3>1. ProcessMayMove(c, g, Idle, row, calls[g])
      BY IdleRests DEF ProcessMayMove, Resting, Idle
    <3> QED BY <2>1, <3>1, IdleRests DEF Release
  <2>2. CASE Goto(c, [consumers[c] EXCEPT !.pc = "prepare", !.fence = row.fence])
    <3> DEFINE rec == [consumers[c] EXCEPT !.pc = "prepare", !.fence = row.fence]
    <3>1. /\ rec \in Processes /\ rec.pc = "prepare" /\ rec.fence = row.fence
          /\ rec.generation = g
      BY <1>1, <1>3 DEF Processes, Phases
    <3>2. consumers' = [consumers EXCEPT ![c] = rec]
      BY <2>2 DEF Goto
    <3> HIDE DEF rec
    <3>3. GenerationOK(rec, rows, now)
      BY <1>1, <3>1 DEF GenerationOK
    <3>4. ProcessOK(rec, row, calls[g])
      BY <1>3, <3>1 DEF ProcessOK
    <3>5. ProcessMayMove(c, g, rec, row, calls[g])
      BY <1>2, <1>3, <3>1, <3>3, <3>4 DEF ProcessMayMove
    <3> QED BY <3>1, <3>2, <3>5
  <2> QED BY <2>1, <2>2
<1>10. Moves(c, g, rec, row, calls[g])
  BY <1>4, <1>6, <1>9, Holds DEF Moves
<1> QED BY <1>1, <1>3, <1>4, <1>7, <1>8, <1>9, <1>10, ProcessMoves

\* reserve gives a new row, or a reservation whose lease is over, a fresh token; a dispatch stays
LEMMA ExecuteReserveStep ==
  ASSUME AttemptInv, NEW c \in Consumers, ExecuteReserve(c)
  PROVE  AttemptInv'
<1> DEFINE me == consumers[c]
           g == me.generation
           token == FreshToken(g)
           answer == Reservation(rows[g], token, me.requestedAt)
<1>1. /\ g \in Generations /\ me \in Processes /\ me.fence = None /\ me.pc = "reserve"
      /\ me.requestedAt \in Nat /\ rows[g] \in Rows \cup {None}
      /\ RowOK(rows[g], calls[g])
  BY Working, Holds DEF AtWork, ProcessOK, Processes, ExecuteReserve, AttemptInv
<1>2. token \in Tokens /\ (rows[g] # None => rows[g].fence.token # token)
  BY <1>1, FreshIsFresh DEF AttemptInv
<1>3. /\ rows' = [rows EXCEPT ![g] = Reserve(rows[g], token, me.requestedAt)]
      /\ UNCHANGED <<now, event, receipt, revoked, calls, stalls>>
      /\ \/ Fault /\ Release(c)
         \/ /\ NoFault
            /\ \/ /\ answer \in {"Acquired", "Replayed", "Takeover"}
                  /\ Goto(c, [me EXCEPT !.pc = "prepare", !.fence = rows'[g].fence])
               \/ answer \in {"Busy", "InFlight", "Conflict"} /\ Release(c)
               \/ /\ \/ answer = "Indeterminate"
                     \/ answer = "Completed" /\ rows[g].evidence.outcome = "indeterminate"
                  /\ ToReceipt(c, "indeterminate", g, rows[g].outcomeDeadlineAt)
               \/ /\ answer = "Completed" /\ rows[g].evidence.outcome # "indeterminate"
                  /\ Conclude(c, rows[g].evidence, TRUE)
  BY DEF ExecuteReserve
<1>4. faults' \in 0 .. MaxFaults
  BY <1>3, FaultTypes
<1> DEFINE new(n) == ReservedRow(Fence(n, token, me.requestedAt))
<1>5. ASSUME NEW n \in Nat \ {0}, rows[g] = None \/ rows[g].state = "reserved",
             answer \in {"Acquired", "Takeover"}, Reserve(rows[g], token, me.requestedAt) = new(n)
      PROVE  AttemptInv'
  <2>1. rows' = [rows EXCEPT ![g] = new(n)] /\ rows'[g] = new(n)
    BY <1>1, <1>3, <1>5, Holds
  <2>2. Release(c) \/ Goto(c, [me EXCEPT !.pc = "prepare", !.fence = new(n).fence])
    <3> HIDE DEF answer, new
    <3> QED BY <1>3, <1>5, <2>1
  <2>3. /\ new(n) = ReservedRow(Fence(n, FreshToken(g), consumers[c].requestedAt))
        /\ g = consumers[c].generation /\ consumers[c].pc = "reserve"
    BY <1>1
  <2>4. UNCHANGED <<now, event, receipt, revoked, calls, stalls>>
    BY <1>3
  <2>5. Release(c) \/ Goto(c, [consumers[c] EXCEPT !.pc = "prepare", !.fence = new(n).fence])
    BY <2>2
  <2>6. rows[g] = None \/ rows[g].state = "reserved"
    BY <1>5
  <2> HIDE DEF new, g, me, token, answer
  <2> QED BY <1>4, <2>1, <2>3, <2>4, <2>5, <2>6, ReserveNewRow
<1>6. ASSUME rows[g] # None, Reserve(rows[g], token, me.requestedAt) = rows[g],
             \/ rows[g].state = "reserved" /\ answer = "Busy"
             \/ rows[g].state = "dispatching" /\ answer \in {"InFlight", "Indeterminate"}
             \/ rows[g].state = "terminal" /\ answer = "Completed"
      PROVE  AttemptInv'
  <2>1. rows' = rows
    BY <1>1, <1>3, <1>6, Holds
  <2>2. event' \in [delivered : 0 .. MaximumProviderAttempts, acked : BOOLEAN]
    BY <1>3, Holds
  <2>3. PICK rec \in Processes : consumers' = [consumers EXCEPT ![c] = rec] /\ Resting(rec, consumers[c])
    <3>1. CASE Release(c)
      BY <3>1, IdleRests DEF Release
    <3>2. CASE /\ \/ answer = "Indeterminate"
                  \/ answer = "Completed" /\ rows[g].evidence.outcome = "indeterminate"
               /\ ToReceipt(c, "indeterminate", g, rows[g].outcomeDeadlineAt)
      <4>1. rows[g].dispatchStartedAt # None
        <5> HIDE DEF answer
        <5> QED BY <1>1, <1>6, <3>2 DEF RowOK
      <4>2. rows[g].outcomeDeadlineAt \in Nat
        BY <1>1, <1>6, <4>1 DEF RowOK, Rows
      <4> QED BY <1>1, <3>2, <4>2, ReceiptRests DEF ToReceipt, Goto
    <3>3. CASE answer = "Completed" /\ Conclude(c, rows[g].evidence, TRUE)
      <4>1. rows[g].state = "terminal" /\ rows[g].evidence # None
        <5> HIDE DEF answer
        <5> QED BY <1>1, <1>6, <3>3 DEF RowOK
      <4>2. rows[g].evidence \in EvidenceRecords
        BY <1>1, <1>6, <4>1 DEF Rows
      <4> QED BY <1>1, <1>6, <3>3, <4>1, <4>2, ConcludeRests
    <3> HIDE DEF answer
    <3> QED BY <1>3, <1>6, <3>1, <3>2, <3>3
  <2> QED BY <1>3, <1>4, <2>1, <2>2, <2>3, Rests
<1>7. \/ /\ rows[g] = None /\ answer = "Acquired"
         /\ Reserve(rows[g], token, me.requestedAt) = new(1)
      \/ /\ rows[g] # None /\ rows[g].state = "reserved" /\ answer = "Takeover"
         /\ Reserve(rows[g], token, me.requestedAt) = new(rows[g].fence.generation + 1)
      \/ /\ rows[g] # None /\ Reserve(rows[g], token, me.requestedAt) = rows[g]
         /\ \/ rows[g].state = "reserved" /\ answer = "Busy"
            \/ rows[g].state = "dispatching" /\ answer \in {"InFlight", "Indeterminate"}
            \/ rows[g].state = "terminal" /\ answer = "Completed"
  <2> HIDE DEF token
  <2> QED BY <1>1, <1>2, ReserveCases
<1>8. rows[g] # None => rows[g].fence.generation + 1 \in Nat \ {0}
  BY <1>1 DEF Rows, Fences
<1> HIDE DEF new, answer, token
<1> QED BY <1>5, <1>6, <1>7, <1>8

\* A process goes on with the row of its attempt and does not change it
LEMMA GoesOn ==
  ASSUME AttemptInv, NEW c \in Consumers, consumers[c].pc \notin {"idle", "admit"},
         NEW rec \in Processes, consumers' = [consumers EXCEPT ![c] = rec],
         rec.fence = consumers[c].fence, rec.generation = consumers[c].generation,
         rec.pc \notin {"idle", "admit"},
         ProcessOK(rec, rows[rec.generation], calls[rec.generation]),
         faults' \in 0 .. MaxFaults, UNCHANGED <<now, event, rows, receipt, revoked, calls, stalls>>
  PROVE  AttemptInv'
<1>1. rec.generation \in Generations /\ GenerationOK(rec, rows, now)
  BY Working DEF AtWork, GenerationOK
<1>2. /\ receipt' \in Receipts \cup {None} /\ ReceiptOK(receipt', rows)
      /\ event' \in [delivered : 0 .. MaximumProviderAttempts, acked : BOOLEAN]
      /\ revoked' \in BOOLEAN /\ stalls' \in 0 .. MaxStalls
  BY Holds
<1> QED BY <1>1, <1>2, OnlyMoves

\* A process that gives its turn up changes no row
LEMMA ReleaseStep ==
  ASSUME AttemptInv, NEW c \in Consumers, Release(c), faults' \in 0 .. MaxFaults,
         UNCHANGED <<now, event, rows, receipt, revoked, calls, stalls>>
  PROVE  AttemptInv'
<1>1. consumers' = [consumers EXCEPT ![c] = Idle]
  BY DEF Release
<1>2. event' \in [delivered : 0 .. MaximumProviderAttempts, acked : BOOLEAN]
  BY Holds
<1> QED BY <1>1, <1>2, IdleRests, Rests

\* A failure before dispatch is evidence in hand, not yet on the row
LEMMA FailPreflightStep ==
  ASSUME AttemptInv, NEW c \in Consumers, consumers[c].pc \in {"prepare", "begin"},
         NEW outcome \in {"retryable", "rejected"}, FailPreflight(c, outcome),
         faults' \in 0 .. MaxFaults, UNCHANGED <<now, event, rows, receipt, revoked, calls, stalls>>
  PROVE  AttemptInv'
<1> DEFINE me == consumers[c]
           ev == Evidence(outcome, me.fence.reservedAt, now, 0)
           rec == [me EXCEPT !.pc = "preflight", !.evidence = ev]
<1>1. Release(c) \/ Goto(c, rec)
  BY DEF FailPreflight
<1>2. CASE Release(c)
  BY <1>2, ReleaseStep
<1>3. CASE Goto(c, rec)
  <2>1. me \in Processes /\ me.fence # None /\ ProcessOK(me, rows[me.generation], calls[me.generation])
    BY Working DEF AtWork, ProcessOK
  <2>2. me.fence \in Fences
    BY <2>1 DEF Processes
  <2>3. ev \in EvidenceRecords /\ ev.outcome = outcome
    BY <2>2, Holds DEF Evidence, EvidenceRecords, Outcomes, Fences
  <2> HIDE DEF ev
  <2>4. /\ rec \in Processes /\ rec.pc = "preflight" /\ rec.evidence = ev /\ rec.fence = me.fence
        /\ rec.generation = me.generation
    BY <2>1, <2>3 DEF Processes, Phases
  <2>5. consumers' = [consumers EXCEPT ![c] = rec]
    BY <1>3 DEF Goto
  <2> HIDE DEF rec
  <2>6. ProcessOK(rec, rows[rec.generation], calls[rec.generation])
    BY <2>1, <2>3, <2>4, NoneIsNothing DEF ProcessOK
  <2> QED BY <2>4, <2>5, <2>6, GoesOn
<1> QED BY <1>1, <1>2, <1>3

\* Preparation touches no row, whether it fails, finds its lease over or goes on
LEMMA PrepareStep ==
  ASSUME AttemptInv, NEW c \in Consumers, Prepare(c)
  PROVE  AttemptInv'
<1> DEFINE me == consumers[c]
           rec == [me EXCEPT !.pc = "begin", !.dispatchStartedAt = now]
<1>1. /\ me.pc = "prepare" /\ UNCHANGED <<now, event, rows, receipt, revoked, calls, stalls>>
      /\ faults' = faults
      /\ \/ \E outcome \in {"retryable", "rejected"} : FailPreflight(c, outcome)
         \/ Release(c)
         \/ Goto(c, rec)
  BY DEF Prepare
<1>2. faults' \in 0 .. MaxFaults
  BY <1>1, Holds
<1>3. CASE \E outcome \in {"retryable", "rejected"} : FailPreflight(c, outcome)
  BY <1>1, <1>2, <1>3, FailPreflightStep
<1>4. CASE Release(c)
  BY <1>1, <1>2, <1>4, ReleaseStep
<1>5. CASE Goto(c, rec)
  <2>1. me \in Processes /\ ProcessOK(me, rows[me.generation], calls[me.generation]) /\ now \in Nat
    BY <1>1, Working, Holds DEF AtWork
  <2>2. /\ rec \in Processes /\ rec.pc = "begin" /\ rec.dispatchStartedAt = now
        /\ rec.fence = me.fence /\ rec.generation = me.generation
    BY <2>1 DEF Processes, Phases
  <2>3. consumers' = [consumers EXCEPT ![c] = rec]
    BY <1>5 DEF Goto
  <2> HIDE DEF rec
  <2>4. ProcessOK(rec, rows[rec.generation], calls[rec.generation])
    BY <1>1, <2>1, <2>2, NoneIsNothing DEF ProcessOK
  <2> QED BY <1>1, <1>2, <2>2, <2>3, <2>4, GoesOn
<1> QED BY <1>1, <1>3, <1>4, <1>5

\* The holder of a row's fence disturbs nobody
LEMMA HolderIsAlone ==
  ASSUME AttemptInv, NEW c \in Consumers, consumers[c].fence # None, NEW g \in Generations,
         rows[g] # None, rows[g].fence = consumers[c].fence, NEW row, NEW cs,
         row # None, row.fence = rows[g].fence
  PROVE  OthersMayStay(c, g, row, cs)
  BY DEF OthersMayStay, AttemptInv, TokensDiffer

\* begin_dispatch keeps the fence and sets start and deadline
LEMMA BeginDispatchProperties ==
  ASSUME NEW row \in Rows, NEW at \in Nat
  PROVE  LET next == BeginDispatch(row, at) IN
         /\ next \in Rows /\ next.state = "dispatching" /\ next.fence = row.fence
         /\ next.dispatchStartedAt = at /\ next.outcomeDeadlineAt \in Nat
         /\ next.evidence = row.evidence
<1>1. at + OutcomeWindow \in Nat
  BY Constants
<1> QED BY <1>1 DEF BeginDispatch, Rows

\* begin_dispatch succeeds only while the row carries the fence, so no call was made for it
LEMMA BeginStep ==
  ASSUME AttemptInv, NEW c \in Consumers, BeginDispatchStep(c)
  PROVE  AttemptInv'
<1> DEFINE me == consumers[c]
           g == me.generation
           row == BeginDispatch(rows[g], me.dispatchStartedAt)
<1>1. /\ me.pc = "begin" /\ UNCHANGED <<now, event, receipt, revoked, calls, stalls>>
      /\ \/ FailPreflight(c, "rejected") /\ rows' = rows
         \/ Release(c) /\ rows' = rows
         \/ /\ Begins(rows[g], me.fence) /\ rows' = [rows EXCEPT ![g] = row]
            /\ Goto(c, [me EXCEPT !.pc = "call"]) \/ Release(c)
  BY DEF BeginDispatchStep
<1>2. faults' \in 0 .. MaxFaults
  BY FaultTypes DEF BeginDispatchStep
<1>3. CASE FailPreflight(c, "rejected") /\ rows' = rows
  BY <1>1, <1>2, <1>3, FailPreflightStep
<1>4. CASE Release(c) /\ rows' = rows
  BY <1>1, <1>2, <1>4, ReleaseStep
<1>5. CASE /\ Begins(rows[g], me.fence) /\ rows' = [rows EXCEPT ![g] = row]
           /\ Goto(c, [me EXCEPT !.pc = "call"]) \/ Release(c)
  <2>1. /\ me \in Processes /\ g \in Generations /\ me.fence # None /\ me.dispatchStartedAt # None
        /\ GenerationOK(me, rows, now)
    BY <1>1, Working DEF AtWork, ProcessOK
  <2>2. rows[g] # None /\ rows[g].state = "reserved" /\ rows[g].fence = me.fence
        /\ rows[g] \in Rows /\ me.dispatchStartedAt \in Nat
    BY <1>5, <2>1, Holds DEF Begins, Processes
  <2>3. /\ row \in Rows /\ row.state = "dispatching" /\ row.fence = me.fence
        /\ row.dispatchStartedAt = me.dispatchStartedAt /\ row.outcomeDeadlineAt \in Nat
        /\ row.evidence = None /\ calls[g] = {} /\ rows[g].dispatchStartedAt = None
    <3>1. rows[g].evidence = None /\ calls[g] = {} /\ rows[g].dispatchStartedAt = None
      BY <2>1, <2>2 DEF AttemptInv, RowOK
    <3> QED BY <2>2, <3>1, BeginDispatchProperties
  <2> HIDE DEF row
  <2>4. row # None /\ RowOK(row, calls[g])
    BY <2>1, <2>2, <2>3, NoneIsNothing DEF RowOK
  <2>5. RowMayMove(g, row, calls[g])
    BY <2>2, <2>3, <2>4 DEF RowMayMove
  <2>6. OthersMayStay(c, g, row, calls[g])
    <3> HIDE DEF g
    <3> QED BY <2>1, <2>2, <2>3, <2>4, HolderIsAlone
  <2>7. PICK rec \in Processes : /\ consumers' = [consumers EXCEPT ![c] = rec]
                                 /\ ProcessMayMove(c, g, rec, row, calls[g])
    <3>1. CASE Release(c)
      <4>1. ProcessMayMove(c, g, Idle, row, calls[g])
        BY IdleRests DEF ProcessMayMove, Resting, Idle
      <4> QED BY <3>1, <4>1, IdleRests DEF Release
    <3>2. CASE Goto(c, [me EXCEPT !.pc = "call"])
      <4> DEFINE rec == [me EXCEPT !.pc = "call"]
      <4>1. /\ rec \in Processes /\ rec.pc = "call" /\ rec.fence = me.fence
            /\ rec.generation = g /\ rec.dispatchStartedAt = me.dispatchStartedAt
        BY <2>1 DEF Processes, Phases
      <4>2. consumers' = [consumers EXCEPT ![c] = rec]
        BY <3>2 DEF Goto
      <4> HIDE DEF rec
      <4>3. GenerationOK(rec, rows, now)
        BY <1>1, <2>1, <4>1 DEF GenerationOK
      <4>4. ProcessOK(rec, row, calls[g])
        BY <2>1, <2>3, <2>4, <4>1 DEF ProcessOK
      <4>5. \A d \in Consumers \ {c} : consumers[d].fence # None => consumers[d].fence.token # rec.fence.token
        BY <2>1, <4>1 DEF AttemptInv, TokensDiffer
      <4>6. ProcessMayMove(c, g, rec, row, calls[g])
        BY <4>1, <4>3, <4>4, <4>5 DEF ProcessMayMove
      <4> QED BY <4>1, <4>2, <4>6
    <3> QED BY <1>5, <3>1, <3>2
  <2>8. ReceiptOK(receipt', rows') /\ receipt' \in Receipts \cup {None}
    <3>1. Kept(rows, rows')
      BY <1>5, <2>1, <2>2, <2>4, Holds DEF Kept
    <3>2. \A h \in Generations : rows[h] # None /\ rows[h].dispatchStartedAt # None =>
                                   rows'[h].dispatchStartedAt # None
      BY <1>5, <2>1, <2>3, Holds
    <3> QED BY <1>1, <3>1, <3>2, Holds, ReceiptFrame
  <2>9. calls' = [calls EXCEPT ![g] = calls[g]] /\ calls[g] \in SUBSET Calls
    BY <1>1, <2>1, Holds
  <2>10. Moves(c, g, rec, row, calls[g])
    BY <1>1, <1>2, <1>5, <2>7, <2>8, <2>9, Holds DEF Moves
  <2> HIDE DEF g
  <2> QED BY <2>1, <2>3, <2>5, <2>6, <2>7, <2>9, <2>10, ProcessMoves
<1> QED BY <1>1, <1>3, <1>4, <1>5

\* The one call of the attempt is made, by the process whose fence the row carries
LEMMA CallProviderStep ==
  ASSUME AttemptInv, NEW c \in Consumers, CallProvider(c)
  PROVE  AttemptInv'
<1> DEFINE me == consumers[c]
           g == me.generation
           row == rows[g]
<1>1. PICK outcome \in {"accepted", "retryable", "rejected"}, delay \in {0, RetryAfter} :
        /\ calls' = [calls EXCEPT ![g] = calls[g] \cup {[fence |-> me.fence, at |-> now, outcome |-> outcome]}]
        /\ Goto(c, [me EXCEPT !.pc = "settle",
                      !.evidence = Evidence(outcome, me.dispatchStartedAt, now, delay)])
  BY DEF CallProvider
<1>2. me.pc = "call" /\ UNCHANGED <<now, event, rows, receipt, revoked, faults, stalls>>
  BY DEF CallProvider
<1> DEFINE call == [fence |-> me.fence, at |-> now, outcome |-> outcome]
           ev == Evidence(outcome, me.dispatchStartedAt, now, delay)
           rec == [me EXCEPT !.pc = "settle", !.evidence = ev]
<1>3. /\ me \in Processes /\ g \in Generations /\ me.fence # None /\ me.dispatchStartedAt # None
      /\ GenerationOK(me, rows, now) /\ ProcessOK(me, row, calls[g])
      /\ \A k \in 1 .. g - 1 : Retried(rows[k], now)
  BY <1>2, Working DEF AtWork, ProcessOK, GenerationOK
<1>4. /\ row # None /\ row \in Rows /\ row.fence = me.fence /\ row.dispatchStartedAt = me.dispatchStartedAt
      /\ calls[g] = {} /\ me.fence \in Fences /\ me.dispatchStartedAt \in Nat
      /\ row.state = "dispatching" \/ (row.state = "terminal" /\ row.evidence.outcome = "indeterminate")
  <2>1. /\ row # None /\ row.fence = me.fence /\ row.dispatchStartedAt = me.dispatchStartedAt
        /\ calls[g] = {}
        /\ row.state = "dispatching" \/ (row.state = "terminal" /\ row.evidence.outcome = "indeterminate")
    BY <1>2, <1>3 DEF ProcessOK
  <2>2. row \in Rows
    BY <1>3, <2>1, Holds
  <2>3. me.fence \in Fences /\ me.dispatchStartedAt \in Nat
    BY <1>3 DEF Processes
  <2> QED BY <2>1, <2>2, <2>3
<1>5. now \in Nat /\ delay \in Nat
  BY Holds, Constants
<1>6. /\ ev \in EvidenceRecords /\ ev.outcome = outcome /\ ev.completedAt = now
      /\ call \in Calls /\ call.at = now /\ call.fence = me.fence /\ call.outcome = outcome
  BY <1>4, <1>5 DEF Evidence, EvidenceRecords, Outcomes, Calls
<1> HIDE DEF ev
<1>7. /\ rec \in Processes /\ rec.pc = "settle" /\ rec.fence = me.fence /\ rec.generation = g
      /\ rec.evidence = ev /\ rec.dispatchStartedAt = me.dispatchStartedAt
  BY <1>3, <1>6 DEF Processes, Phases
<1>8. consumers' = [consumers EXCEPT ![c] = rec] /\ calls' = [calls EXCEPT ![g] = {call}]
  BY <1>1, <1>4 DEF Goto, ev
<1>9. rows' = [rows EXCEPT ![g] = row]
  BY <1>2, <1>3, Holds
<1>10. RowOK(row, {call})
  <2>1. RowOK(row, {})
    BY <1>3, <1>4 DEF AttemptInv
  <2> HIDE DEF row, call
  <2> QED BY <1>3, <1>4, <2>1 DEF RowOK
<1>11. RowMayMove(g, row, {call})
  <2> HIDE DEF call
  <2> QED BY <1>3, <1>4, <1>6, <1>10 DEF RowMayMove
<1> HIDE DEF rec
<1>12. OthersMayStay(c, g, row, {call})
  <2> HIDE DEF g, call
  <2> QED BY <1>3, <1>4, HolderIsAlone
<1>13. ProcessMayMove(c, g, rec, row, {call})
  <2>1. GenerationOK(rec, rows, now)
    BY <1>2, <1>3, <1>7 DEF GenerationOK
  <2>2. call = [fence |-> rec.fence, at |-> rec.evidence.completedAt, outcome |-> rec.evidence.outcome]
    BY <1>6, <1>7
  <2>3. outcome # "indeterminate"
    OBVIOUS
  <2> HIDE DEF call
  <2>4. ProcessOK(rec, row, {call})
    BY <1>3, <1>4, <1>6, <1>7, <2>2, <2>3, NoneIsNothing DEF ProcessOK
  <2>5. \A d \in Consumers \ {c} : consumers[d].fence # None => consumers[d].fence.token # rec.fence.token
    BY <1>3, <1>7 DEF AttemptInv, TokensDiffer
  <2> QED BY <1>7, <2>1, <2>4, <2>5 DEF ProcessMayMove
<1>14. Moves(c, g, rec, row, {call})
  BY <1>2, <1>8, <1>9, Holds DEF Moves
<1>15. {call} \in SUBSET Calls
  BY <1>6
<1> HIDE DEF g, row, call
<1> QED BY <1>3, <1>4, <1>7, <1>11, <1>12, <1>13, <1>14, <1>15, ProcessMoves

\* settle keeps fence and dispatch and writes the evidence
LEMMA SettleProperties ==
  ASSUME NEW row \in Rows, NEW ev \in EvidenceRecords
  PROVE  LET next == Settle(row, ev) IN
         /\ next \in Rows /\ next.state = "terminal" /\ next.fence = row.fence /\ next.evidence = ev
         /\ next.dispatchStartedAt = row.dispatchStartedAt
         /\ next.outcomeDeadlineAt = row.outcomeDeadlineAt
  BY DEF Settle, Rows

\* settle takes the evidence: of the dispatch that made the call, or of an
\* attempt that was never dispatched
LEMMA SettlesStep ==
  ASSUME AttemptInv, NEW c \in Consumers, consumers[c].pc \in {"settle", "settle_known", "preflight"},
         NEW g, g = consumers[c].generation,
         Settles(rows[g], consumers[c].fence, consumers[c].evidence),
         rows' = [rows EXCEPT ![g] = Settle(rows[g], consumers[c].evidence)],
         faults' \in 0 .. MaxFaults, UNCHANGED <<now, event, receipt, revoked, calls, stalls>>,
         NEW rec \in Processes, consumers' = [consumers EXCEPT ![c] = rec],
         \/ Resting(rec, consumers[c])
         \/ consumers[c].pc = "settle" /\ rec = [consumers[c] EXCEPT !.pc = "settle_known"]
  PROVE  AttemptInv'
<1> DEFINE me == consumers[c]
           ev == me.evidence
           row == Settle(rows[g], ev)
<1>1. /\ me \in Processes /\ g \in Generations /\ me.fence # None /\ ev # None
      /\ ev.outcome # "indeterminate" /\ rows[g] # None
      /\ GenerationOK(me, rows, now) /\ ProcessOK(me, rows[g], calls[g])
  BY Working DEF AtWork, ProcessOK
<1>2. ev \in EvidenceRecords /\ rows[g] \in Rows
  BY <1>1, Holds DEF Processes
<1>3. rows[g].fence = me.fence
      /\ \/ rows[g].state = "reserved" /\ ev.outcome # "accepted"
         \/ rows[g].state = "dispatching"
  BY DEF Settles
<1>4. /\ row \in Rows /\ row.state = "terminal" /\ row.fence = rows[g].fence /\ row.evidence = ev
      /\ row.dispatchStartedAt = rows[g].dispatchStartedAt
      /\ row.outcomeDeadlineAt = rows[g].outcomeDeadlineAt
  BY <1>2, SettleProperties
<1>5. rows[g].state = "dispatching" =>
        [fence |-> me.fence, at |-> ev.completedAt, outcome |-> ev.outcome] \in calls[g]
  BY <1>1, <1>3 DEF ProcessOK
<1>6. row # None
  BY <1>4, NoneIsNothing
<1> HIDE DEF row
<1>7. RowOK(row, calls[g])
  <2>1. RowOK(rows[g], calls[g])
    BY <1>1 DEF AttemptInv
  <2>2. CASE rows[g].state = "reserved"
    BY <1>1, <1>3, <1>4, <1>6, <2>1, <2>2 DEF RowOK
  <2>3. CASE rows[g].state = "dispatching"
    <3> DEFINE call == [fence |-> me.fence, at |-> ev.completedAt, outcome |-> ev.outcome]
    <3>1. call \in calls[g] /\ call.fence = row.fence /\ call.outcome = row.evidence.outcome
          /\ call.at = row.evidence.completedAt
      BY <1>3, <1>4, <1>5, <2>3
    <3> HIDE DEF call
    <3> QED BY <1>1, <1>4, <1>6, <2>1, <2>3, <3>1 DEF RowOK
  <2> QED BY <1>3, <2>2, <2>3
<1>8. RowMayMove(g, row, calls[g])
  BY <1>1, <1>3, <1>6, <1>7 DEF RowMayMove
<1>9. OthersMayStay(c, g, row, calls[g])
  BY <1>1, <1>3, <1>4, <1>6, HolderIsAlone
<1>10. ProcessMayMove(c, g, rec, row, calls[g])
  <2>1. rec.fence \in {None, me.fence}
    BY <1>1 DEF Resting, Processes
  <2>2. rec.fence # None => \A d \in Consumers \ {c} : consumers[d].fence # None =>
                              consumers[d].fence.token # rec.fence.token
    BY <1>1, <2>1 DEF AttemptInv, TokensDiffer
  <2>3. CASE Resting(rec, me)
    BY <2>2, <2>3 DEF ProcessMayMove, Resting
  <2>4. CASE me.pc = "settle" /\ rec = [me EXCEPT !.pc = "settle_known"]
    <3>1. /\ rec.pc = "settle_known" /\ rec.fence = me.fence /\ rec.generation = g
          /\ rec.evidence = ev /\ rec.dispatchStartedAt = me.dispatchStartedAt
      BY <1>1, <2>4 DEF Processes
    <3>2. GenerationOK(rec, rows, now)
      BY <1>1, <2>4, <3>1 DEF GenerationOK
    <3>3. ProcessOK(rec, row, calls[g])
      BY <1>1, <1>4, <1>6, <2>4, <3>1 DEF ProcessOK
    <3> QED BY <2>2, <3>1, <3>2, <3>3 DEF ProcessMayMove
  <2> QED BY <2>3, <2>4
<1>11. rows' = [rows EXCEPT ![g] = row]
  BY DEF row
<1>12. ReceiptOK(receipt', rows') /\ receipt' \in Receipts \cup {None}
  <2>1. Kept(rows, rows')
    BY <1>1, <1>3, <1>6, <1>11, Holds DEF Kept
  <2>2. \A h \in Generations : rows[h] # None /\ rows[h].dispatchStartedAt # None =>
                                 rows'[h].dispatchStartedAt # None
    BY <1>1, <1>4, <1>11, Holds
  <2> QED BY <2>1, <2>2, Holds, ReceiptFrame
<1>13. calls' = [calls EXCEPT ![g] = calls[g]] /\ calls[g] \in SUBSET Calls
  BY <1>1, Holds
<1>14. Moves(c, g, rec, row, calls[g])
  BY <1>11, <1>12, <1>13, Holds DEF Moves
<1> QED BY <1>1, <1>4, <1>8, <1>9, <1>10, <1>13, <1>14, ProcessMoves

\* A settlement, whatever becomes of its answer
LEMMA SettleStep ==
  ASSUME AttemptInv, NEW c \in Consumers, consumers[c].pc \in {"settle", "settle_known", "preflight"},
         NEW knows \in BOOLEAN, NEW again \in BOOLEAN,
         knows = Settles(rows[consumers[c].generation], consumers[c].fence, consumers[c].evidence),
         again = SettleReplays(rows[consumers[c].generation], consumers[c].fence, consumers[c].evidence),
         SettleRow(c), faults' \in 0 .. MaxFaults, UNCHANGED <<now, event, receipt, revoked, calls, stalls>>,
         \/ (knows \/ again) /\ Conclude(c, consumers[c].evidence, again)
         \/ Release(c)
         \/ consumers[c].pc = "settle" /\ Goto(c, [consumers[c] EXCEPT !.pc = "settle_known"])
  PROVE  AttemptInv'
<1> DEFINE me == consumers[c]
           g == me.generation
<1>1. /\ me \in Processes /\ g \in Generations /\ me.evidence # None /\ rows[g] # None
      /\ ProcessOK(me, rows[g], calls[g])
  BY Working DEF AtWork, ProcessOK
<1>2. me.evidence \in EvidenceRecords
  BY <1>1 DEF Processes
<1>3. again => rows[g].state = "terminal" /\ rows[g].evidence = me.evidence
  BY DEF SettleReplays
<1>4. PICK rec \in Processes : /\ consumers' = [consumers EXCEPT ![c] = rec]
                               /\ \/ Resting(rec, me)
                                  \/ me.pc = "settle" /\ rec = [me EXCEPT !.pc = "settle_known"]
  <2>1. CASE Conclude(c, me.evidence, again)
    BY <1>1, <1>2, <1>3, <2>1, ConcludeRests
  <2>2. CASE Release(c)
    BY <2>2, IdleRests DEF Release
  <2>3. CASE me.pc = "settle" /\ Goto(c, [me EXCEPT !.pc = "settle_known"])
    <3>1. [me EXCEPT !.pc = "settle_known"] \in Processes
      BY <1>1 DEF Processes, Phases
    <3> QED BY <2>3, <3>1 DEF Goto
  <2> QED BY <2>1, <2>2, <2>3
<1>5. CASE knows
  <2>1. rows' = [rows EXCEPT ![g] = Settle(rows[g], me.evidence)]
    BY <1>5 DEF SettleRow
  <2>2. Settles(rows[g], me.fence, me.evidence)
    BY <1>5
  <2> QED BY <1>4, <2>1, <2>2, SettlesStep
<1>6. CASE ~knows
  <2>1. rows' = rows
    BY <1>6 DEF SettleRow
  <2>2. CASE Resting(rec, me)
    <3>1. event' \in [delivered : 0 .. MaximumProviderAttempts, acked : BOOLEAN]
      BY Holds
    <3> QED BY <1>4, <2>1, <2>2, <3>1, Rests
  <2>3. CASE me.pc = "settle" /\ rec = [me EXCEPT !.pc = "settle_known"]
    <3>1. /\ rec.pc = "settle_known" /\ rec.fence = me.fence /\ rec.generation = g
          /\ rec.evidence = me.evidence /\ rec.dispatchStartedAt = me.dispatchStartedAt
      BY <1>1, <2>3 DEF Processes
    <3>2. ProcessOK(rec, rows[rec.generation], calls[rec.generation])
      BY <1>1, <2>3, <3>1 DEF ProcessOK
    <3> QED BY <1>4, <2>1, <2>3, <3>1, <3>2, GoesOn
  <2> QED BY <1>4, <2>2, <2>3
<1> QED BY <1>5, <1>6

\* settle writes the evidence in hand, replays it, or finds the row ended by another
LEMMA SettlementsStep ==
  ASSUME AttemptInv, NEW c \in Consumers, SettleOnce(c) \/ SettleFinally(c)
  PROVE  AttemptInv'
<1> DEFINE me == consumers[c]
           knows == Settles(rows[me.generation], me.fence, me.evidence)
           again == SettleReplays(rows[me.generation], me.fence, me.evidence)
<1>1. knows \in BOOLEAN /\ again \in BOOLEAN
  BY DEF Settles, SettleReplays
<1>2. faults' \in 0 .. MaxFaults
  BY FaultTypes DEF SettleOnce, SettleFinally
<1>3. /\ me.pc \in {"settle", "settle_known", "preflight"}
      /\ SettleRow(c) /\ UNCHANGED <<now, event, receipt, revoked, calls, stalls>>
  BY DEF SettleOnce, SettleFinally
<1>4. \/ (knows \/ again) /\ Conclude(c, me.evidence, again)
      \/ Release(c)
      \/ me.pc = "settle" /\ Goto(c, [me EXCEPT !.pc = "settle_known"])
  <2> HIDE DEF knows, again
  <2>1. ASSUME SettleOnce(c)
        PROVE  \/ (knows \/ again) /\ Conclude(c, me.evidence, again)
               \/ me.pc = "settle" /\ Goto(c, [me EXCEPT !.pc = "settle_known"])
    BY <2>1 DEF SettleOnce, knows, again
  <2>2. ASSUME SettleFinally(c)
        PROVE  \/ (knows \/ again) /\ Conclude(c, me.evidence, again)
               \/ Release(c)
    BY <2>2 DEF SettleFinally, knows, again
  <2> QED BY <2>1, <2>2
<1>5. PICK k \in BOOLEAN, a \in BOOLEAN : k = knows /\ a = again
  BY <1>1
<1>6. \/ (k \/ a) /\ Conclude(c, me.evidence, a)
      \/ Release(c)
      \/ me.pc = "settle" /\ Goto(c, [me EXCEPT !.pc = "settle_known"])
  <2> HIDE DEF knows, again
  <2> QED BY <1>4, <1>5
<1> QED BY <1>2, <1>3, <1>5, <1>6, SettleStep

\* settle_delivery stores a receipt only if it matches the row of its attempt
LEMMA SettleDeliveryStep ==
  ASSUME AttemptInv, NEW c \in Consumers, SettleDelivery(c)
  PROVE  AttemptInv'
<1> DEFINE r == consumers[c].receipt
           stores == receipt = None /\ ReceiptMatchesAttempt(r)
<1>1. /\ consumers[c].pc = "receipt" /\ receipt' = (IF stores THEN r ELSE receipt)
      /\ UNCHANGED <<now, rows, revoked, calls, stalls>>
  BY DEF SettleDelivery
<1>2. faults' \in 0 .. MaxFaults
  BY FaultTypes DEF SettleDelivery
<1>3. /\ event' \in [delivered : 0 .. MaximumProviderAttempts, acked : BOOLEAN]
      /\ consumers' = [consumers EXCEPT ![c] = Idle]
  <2>1. CASE Acknowledge(c) \/ LoseAcknowledgement(c)
    BY <2>1, AcknowledgeTypes
  <2>2. CASE Release(c) /\ UNCHANGED event
    BY <2>2, Holds DEF Release
  <2> QED BY <2>1, <2>2 DEF SettleDelivery
<1>4. r \in Receipts
  <2>1. consumers[c] \in Processes /\ r # None
    BY <1>1, Working DEF AtWork, ProcessOK
  <2> QED BY <2>1 DEF Processes
<1>5. stores => ReceiptOK(r, rows)
  <2> SUFFICES ASSUME stores PROVE ReceiptOK(r, rows)
    OBVIOUS
  <2> DEFINE row == rows[r.generation]
  <2>1. r.outcome \in {"delivered", "rejected", "exhausted", "indeterminate"} /\ r.generation \in Generations
    BY <1>4 DEF Receipts
  <2>2. row # None => RowOK(row, calls[r.generation])
    BY <2>1 DEF AttemptInv
  <2>3. CASE r.outcome = "delivered"
    BY <2>3 DEF ReceiptMatchesAttempt, ReceiptOK
  <2>4. CASE r.outcome = "rejected"
    BY <2>4 DEF ReceiptMatchesAttempt, ReceiptOK
  <2>5. CASE r.outcome = "exhausted"
    BY <2>5 DEF ReceiptMatchesAttempt, ReceiptOK
  <2>6. CASE r.outcome = "indeterminate"
    BY <2>2, <2>6 DEF ReceiptMatchesAttempt, ReceiptOK, RowOK
  <2> QED BY <2>1, <2>3, <2>4, <2>5, <2>6
<1>6. receipt' \in Receipts \cup {None} /\ ReceiptOK(receipt', rows)
  BY <1>1, <1>4, <1>5, Holds
<1>7. revoked' \in BOOLEAN /\ stalls' \in 0 .. MaxStalls /\ GenerationOK(Idle, rows, now)
  BY <1>1, IdleRests, Holds DEF Resting
<1> QED BY <1>1, <1>2, <1>3, <1>6, <1>7, IdleRests, OnlyMoves

\* resolve_indeterminate, under a process that may still hold the dispatch
LEMMA ResolveStep ==
  ASSUME AttemptInv, NEW g \in Generations, ResolveIndeterminate(g)
  PROVE  AttemptInv'
<1> DEFINE ev == Evidence("indeterminate", rows[g].dispatchStartedAt, now, 0)
           row == Settle(rows[g], ev)
<1>1. /\ rows[g] # None /\ rows[g].state = "dispatching" /\ rows' = [rows EXCEPT ![g] = row]
      /\ UNCHANGED <<now, event, receipt, revoked, consumers, calls, faults, stalls>>
  BY DEF ResolveIndeterminate, Resolves, Resolve
<1>2. rows[g] \in Rows /\ RowOK(rows[g], calls[g]) /\ rows[g].dispatchStartedAt # None
  BY <1>1, Holds DEF AttemptInv, RowOK
<1>3. rows[g].dispatchStartedAt \in Nat
  BY <1>2 DEF Rows
<1>4. ev \in EvidenceRecords /\ ev.outcome = "indeterminate"
  BY <1>3, Holds DEF Evidence, EvidenceRecords, Outcomes
<1> HIDE DEF ev
<1>5. /\ row \in Rows /\ row.state = "terminal" /\ row.fence = rows[g].fence /\ row.evidence = ev
      /\ row.dispatchStartedAt = rows[g].dispatchStartedAt
      /\ row.outcomeDeadlineAt = rows[g].outcomeDeadlineAt /\ row # None
  BY <1>2, <1>4, SettleProperties, NoneIsNothing
<1> HIDE DEF row
<1>6. RowOK(row, calls[g])
  BY <1>2, <1>4, <1>5, NoneIsNothing DEF RowOK
<1>7. Kept(rows, rows')
  BY <1>1, <1>5, Holds DEF Kept
<1>8. TypeInv'
  <2>1. rows' \in [Generations -> Rows \cup {None}]
    BY <1>1, <1>5, Holds
  <2> QED BY <1>1, <2>1 DEF AttemptInv, TypeInv
<1>9. RetriesFollowEvidence'
  <2>1. calls' = [calls EXCEPT ![g] = calls[g]]
    BY <1>1, Holds
  <2> QED BY <1>1, <1>5, <1>7, <2>1, RetriesFrame
<1>10. \A h \in Generations : RowOK(rows'[h], calls'[h])
  BY <1>1, <1>6, Holds DEF AttemptInv
<1>11. ReceiptOK(receipt', rows')
  <2>1. \A h \in Generations : rows[h] # None /\ rows[h].dispatchStartedAt # None =>
                                 rows'[h].dispatchStartedAt # None
    BY <1>1, <1>5, Holds
  <2> QED BY <1>1, <1>7, <2>1, Holds, ReceiptFrame
<1>12. ASSUME NEW c \in Consumers
       PROVE  /\ GenerationOK(consumers[c], rows', now)
              /\ consumers[c].generation \in Generations =>
                   ProcessOK(consumers[c], rows'[consumers[c].generation], calls[consumers[c].generation])
              /\ consumers[c].pc \in {"idle", "admit"} => consumers[c].fence = None
  <2> DEFINE h == consumers[c].generation
  <2>1. GenerationOK(consumers[c], rows', now)
    <3>1. GenerationOK(consumers[c], rows, now)
      BY DEF AttemptInv
    <3> QED BY <1>7, <3>1, Holds, GenerationFrame
  <2>2. ASSUME h \in Generations PROVE ProcessOK(consumers[c], rows'[h], calls[h])
    <3>1. ProcessOK(consumers[c], rows[h], calls[h]) /\ consumers[c] \in Processes
      BY <2>2, Holds DEF AttemptInv
    <3>2. rows[h] \in Rows \cup {None} /\ rows'[h] \in Rows \cup {None}
      BY <1>1, <1>5, <2>2, Holds
    <3>3. CASE h # g
      BY <1>1, <2>2, <3>1, <3>3, Holds
    <3>4. CASE h = g
      <4>1. rows'[h] = row
        BY <1>1, <3>4, Holds
      <4> HIDE DEF h
      <4> QED BY <1>1, <1>4, <1>5, <3>1, <3>2, <3>4, <4>1, ProcessFrame
    <3> QED BY <3>3, <3>4
  <2>3. consumers[c].pc \in {"idle", "admit"} => consumers[c].fence = None
    BY DEF AttemptInv
  <2> QED BY <2>1, <2>2, <2>3
<1>13. TokensDiffer(consumers')
  BY <1>1 DEF AttemptInv
<1> QED BY <1>1, <1>8, <1>9, <1>10, <1>11, <1>12, <1>13 DEF AttemptInv

\* Every step keeps the invariant
LEMMA NextHolds ==
  ASSUME AttemptInv, [Next]_vars
  PROVE  AttemptInv'
<1>1. CASE Wait \/ Stall \/ Revoke \/ UNCHANGED vars
  BY <1>1, WaitStep
<1>2. ASSUME NEW c \in Consumers, ConsumerStep(c) PROVE AttemptInv'
  BY <1>2, AdmitStep, ExecuteReserveStep, PrepareStep, BeginStep, CallProviderStep, SettlementsStep,
     SettleDeliveryStep DEF ConsumerStep
<1>3. ASSUME NEW c \in Consumers, Deliver(c) \/ Abandon(c) PROVE AttemptInv'
  BY <1>3, DeliverStep, AbandonStep
<1>4. ASSUME NEW g \in Generations, ResolveIndeterminate(g) PROVE AttemptInv'
  BY <1>4, ResolveStep
<1> QED BY <1>1, <1>2, <1>3, <1>4 DEF Next

-----------------------------------------------------------------------------
(* Theorems                                                                 *)

(***************************************************************************)
(* However processes stall past a lease or a deadline, die or lose an      *)
(* answer, AttemptInv holds: a process about to call the provider still    *)
(* finds its own fence on a dispatching row (or on one that an operator    *)
(* has closed), and no call has been made for it.                          *)
(***************************************************************************)
THEOREM AttemptInvariance == Spec => []AttemptInv
<1>1. Init => AttemptInv
  BY InitHolds
<1>2. AttemptInv /\ [Next]_vars => AttemptInv'
  BY NextHolds
<1> QED BY <1>1, <1>2, PTL DEF Spec

(***************************************************************************)
(* The provider is called at most once for each attempt, with any number   *)
(* of consumers, takeovers and redeliveries.                               *)
(***************************************************************************)
THEOREM CalledOnce == Spec => []OneCallPerAttempt
<1>1. AttemptInv => OneCallPerAttempt
  <2> SUFFICES ASSUME AttemptInv, NEW g \in Generations PROVE Cardinality(calls[g]) <= 1
    BY DEF OneCallPerAttempt
  <2>1. \A x, y \in calls[g] : x = y
    BY DEF AttemptInv, RowOK
  <2>2. CASE calls[g] = {}
    <3>1. Cardinality(calls[g]) = 0
      BY <2>2, FS_EmptySet
    <3> QED BY <3>1
  <2>3. CASE calls[g] # {}
    <3>1. PICK x \in calls[g] : TRUE
      BY <2>3
    <3>2. calls[g] = {x}
      BY <2>1, <3>1
    <3>3. Cardinality(calls[g]) = 1
      BY <3>2, FS_Singleton
    <3> QED BY <3>3
  <2> QED BY <2>2, <2>3
<1> QED BY <1>1, AttemptInvariance, PTL

(***************************************************************************)
(* A generation exists only behind generations that all ended retryable,   *)
(* and its call is not made before their Retry-After is over.              *)
(***************************************************************************)
THEOREM RetriesHaveEvidence == Spec => []RetriesFollowEvidence
<1>1. AttemptInv => RetriesFollowEvidence
  BY DEF AttemptInv
<1> QED BY <1>1, AttemptInvariance, PTL

(***************************************************************************)
(* Evidence and receipt say what happened at the provider: an attempt that *)
(* was settled before its dispatch was not called and will not be, and a   *)
(* receipt that says how the delivery ended has no later generation.       *)
(***************************************************************************)
THEOREM TruthfulRecords == Spec => []RecordsAreTruthful
<1>1. AttemptInv => EvidenceIsTruthful
  <2> SUFFICES ASSUME AttemptInv, NEW g \in Generations, rows[g] # None, rows[g].state = "terminal"
               PROVE  IF rows[g].dispatchStartedAt = None
                      THEN /\ calls[g] = {}
                           /\ \A c \in Consumers : consumers[c].generation = g => consumers[c].pc # "call"
                      ELSE rows[g].evidence.outcome # "indeterminate" =>
                             \E call \in calls[g] :
                               /\ call.fence = rows[g].fence
                               /\ call.outcome = rows[g].evidence.outcome
                               /\ call.at = rows[g].evidence.completedAt
    BY DEF EvidenceIsTruthful
  <2>1. RowOK(rows[g], calls[g])
    BY DEF AttemptInv
  <2>2. ASSUME NEW c \in Consumers, consumers[c].generation = g, consumers[c].pc = "call"
        PROVE  rows[g].dispatchStartedAt # None
    BY <2>2 DEF AttemptInv, ProcessOK
  <2> QED BY <2>1, <2>2 DEF RowOK
<1>2. AttemptInv => ReceiptIsTruthful
  <2> SUFFICES ASSUME AttemptInv, receipt # None PROVE ReceiptIsTruthful
    BY DEF ReceiptIsTruthful
  <2> DEFINE g == receipt.generation
  <2>1. receipt \in Receipts /\ ReceiptOK(receipt, rows) /\ g \in Generations
    BY Holds DEF Receipts
  <2>2. RowOK(rows[g], calls[g])
    BY <2>1 DEF AttemptInv
  <2>3. ASSUME NEW h \in Generations, h > g, rows[h] # None
        PROVE  rows[g].evidence.outcome = "retryable" /\ g # MaximumProviderAttempts
    <3>1. h # 1 /\ g \in 1 .. h - 1 /\ g # MaximumProviderAttempts
      BY <2>1, <2>3, Constants
    <3> QED BY <2>3, <3>1 DEF AttemptInv, RetriesFollowEvidence
  <2> QED BY <2>1, <2>2, <2>3 DEF ReceiptOK, RowOK, ReceiptIsTruthful
<1> QED BY <1>1, <1>2, AttemptInvariance, PTL DEF RecordsAreTruthful

\* A row changes as it may: terminal ones stay, and only begin_dispatch of a
\* revision that is not revoked starts a dispatch
RowsHold ==
  \A g \in Generations :
    /\ (rows[g] # None /\ rows[g].state = "terminal") => rows'[g] = rows[g]
    /\ (revoked /\ (rows[g] = None \/ rows[g].dispatchStartedAt = None)) =>
         (rows'[g] # None => rows'[g].dispatchStartedAt = None)

\* A step on one row respects evidence and revocation if it does so on that row
LEMMA OneRowHolds ==
  ASSUME AttemptInv, NEW g \in Generations, NEW row, rows' = [rows EXCEPT ![g] = row],
         rows[g] # None => (rows[g].state = "terminal" => row = rows[g]),
         (revoked /\ (rows[g] = None \/ rows[g].dispatchStartedAt = None)) =>
           (row # None => row.dispatchStartedAt = None)
  PROVE  RowsHold
  BY Holds DEF RowsHold

\* Settling a row replaces no evidence and begins no dispatch
LEMMA SettlementHolds ==
  ASSUME AttemptInv, NEW c \in Consumers, SettleRow(c),
         consumers[c].pc \in {"settle", "settle_known", "preflight"}
  PROVE  RowsHold
<1> DEFINE me == consumers[c]
           g == me.generation
<1>1. me \in Processes /\ g \in Generations /\ me.evidence # None /\ rows[g] # None
  BY Working DEF AtWork, ProcessOK
<1>2. me.evidence \in EvidenceRecords /\ rows[g] \in Rows
  BY <1>1, Holds DEF Processes
<1>3. CASE Settles(rows[g], me.fence, me.evidence)
  <2>1. rows' = [rows EXCEPT ![g] = Settle(rows[g], me.evidence)]
    BY <1>3 DEF SettleRow
  <2>2. rows[g].state # "terminal"
    BY <1>3 DEF Settles
  <2>3. Settle(rows[g], me.evidence).dispatchStartedAt = rows[g].dispatchStartedAt
    BY <1>2, SettleProperties
  <2> HIDE DEF g
  <2> QED BY <1>1, <2>1, <2>2, <2>3, OneRowHolds
<1>4. CASE ~Settles(rows[g], me.fence, me.evidence)
  BY <1>4 DEF SettleRow, RowsHold
<1> QED BY <1>3, <1>4

\* ... neither does a reservation
LEMMA ReservationHolds ==
  ASSUME AttemptInv, NEW c \in Consumers, ExecuteReserve(c)
  PROVE  RowsHold
<1> DEFINE me == consumers[c]
           g == me.generation
           token == FreshToken(g)
           row == Reserve(rows[g], token, me.requestedAt)
<1>1. /\ g \in Generations /\ me \in Processes /\ me.fence = None
      /\ me.requestedAt \in Nat /\ rows[g] \in Rows \cup {None}
  BY Working, Holds DEF AtWork, ProcessOK, Processes, ExecuteReserve, AttemptInv
<1>2. rows[g] # None => rows[g].fence.token # token
  BY <1>1, FreshIsFresh DEF AttemptInv
<1>3. rows' = [rows EXCEPT ![g] = row]
  BY DEF ExecuteReserve
<1>4. \/ rows[g] # None /\ row = rows[g]
      \/ /\ rows[g] = None \/ rows[g].state = "reserved"
         /\ \E n : row = ReservedRow(Fence(n, token, me.requestedAt))
  <2> HIDE DEF token
  <2> QED BY <1>1, <1>2, ReserveCases
<1>5. \A f : ReservedRow(f).dispatchStartedAt = None
  BY DEF ReservedRow
<1> HIDE DEF row, g
<1> QED BY <1>1, <1>3, <1>4, <1>5, OneRowHolds

\* ... nor begin_dispatch, which looks at the revision first
LEMMA BeginHolds ==
  ASSUME AttemptInv, NEW c \in Consumers, BeginDispatchStep(c)
  PROVE  RowsHold
<1> DEFINE me == consumers[c]
           g == me.generation
           row == BeginDispatch(rows[g], me.dispatchStartedAt)
<1>1. g \in Generations
  BY Working DEF AtWork, BeginDispatchStep
<1>2. \/ rows' = rows
      \/ ~revoked /\ Begins(rows[g], me.fence) /\ rows' = [rows EXCEPT ![g] = row]
  BY DEF BeginDispatchStep
<1>3. CASE rows' = rows
  BY <1>3 DEF RowsHold
<1>4. CASE ~revoked /\ Begins(rows[g], me.fence) /\ rows' = [rows EXCEPT ![g] = row]
  <2>1. rows[g].state # "terminal"
    BY <1>4 DEF Begins
  <2> HIDE DEF g, row
  <2> QED BY <1>1, <1>4, <2>1, OneRowHolds
<1> QED BY <1>2, <1>3, <1>4

\* ... nor the operator, who resolves only an attempt without known outcome
LEMMA ResolutionHolds ==
  ASSUME AttemptInv, NEW g \in Generations, ResolveIndeterminate(g)
  PROVE  RowsHold
<1> DEFINE row == Resolve(rows[g], now)
<1>1. rows[g] # None /\ rows[g].state = "dispatching" /\ rows' = [rows EXCEPT ![g] = row]
  BY DEF ResolveIndeterminate, Resolves
<1>2. rows[g].dispatchStartedAt # None
  BY <1>1 DEF AttemptInv, RowOK
<1> HIDE DEF row
<1> QED BY <1>1, <1>2, OneRowHolds

\* The steps that change no row
LEMMA RowsStay ==
  ASSUME NEW c \in Consumers,
         \/ Admit(c) \/ Prepare(c) \/ CallProvider(c) \/ SettleDelivery(c) \/ Deliver(c) \/ Abandon(c)
         \/ Wait \/ Stall \/ Revoke \/ UNCHANGED vars
  PROVE  rows' = rows
  BY DEF Admit, Prepare, CallProvider, SettleDelivery, Deliver, Abandon, Wait, Stall, Revoke, vars

(***************************************************************************)
(* If the revocation wins, an attempt that was not dispatching never       *)
(* crosses the provider boundary; terminal evidence and a stored receipt   *)
(* never change.                                                           *)
(***************************************************************************)
THEOREM FinalRecords == Spec => RevocationAndEvidenceHold
<1>1. ASSUME AttemptInv, [Next]_vars PROVE RowsHold
  <2>1. ASSUME NEW c \in Consumers, ConsumerStep(c) PROVE RowsHold
    <3>1. ASSUME SettleOnce(c) \/ SettleFinally(c) PROVE RowsHold
      <4>1. SettleRow(c) /\ consumers[c].pc \in {"settle", "settle_known", "preflight"}
        BY <3>1 DEF SettleOnce, SettleFinally
      <4> QED BY <1>1, <4>1, SettlementHolds
    <3>2. ASSUME Admit(c) \/ Prepare(c) \/ CallProvider(c) \/ SettleDelivery(c) PROVE RowsHold
      BY <3>2, RowsStay DEF RowsHold
    <3> QED BY <1>1, <2>1, <3>1, <3>2, ReservationHolds, BeginHolds DEF ConsumerStep
  <2>2. ASSUME NEW c \in Consumers, Deliver(c) \/ Abandon(c) PROVE RowsHold
    BY <2>2, RowsStay DEF RowsHold
  <2>3. CASE Wait \/ Stall \/ Revoke \/ UNCHANGED vars
    BY <2>3 DEF RowsHold, Wait, Stall, Revoke, vars
  <2>4. ASSUME NEW g \in Generations, ResolveIndeterminate(g) PROVE RowsHold
    BY <1>1, <2>4, ResolutionHolds
  <2> QED BY <1>1, <2>1, <2>2, <2>3, <2>4 DEF Next
<1>2. ASSUME AttemptInv, [Next]_vars, NEW g \in Generations,
             rows[g] = None \/ rows[g].dispatchStartedAt = None
      PROVE  calls'[g] = calls[g]
  <2>1. ASSUME NEW c \in Consumers, CallProvider(c) PROVE calls'[g] = calls[g]
    <3>1. consumers[c].generation # g
      <4>1. AtWork(c) /\ consumers[c].pc = "call"
        BY <1>2, <2>1, Working DEF CallProvider
      <4>2. PICK h : h = consumers[c].generation
        OBVIOUS
      <4>3. ProcessOK(consumers[c], rows[h], calls[h])
        BY <4>1, <4>2 DEF AtWork
      <4>4. rows[h] # None /\ rows[h].dispatchStartedAt # None
        BY <4>1, <4>3 DEF ProcessOK
      <4> QED BY <1>2, <4>2, <4>4
    <3> QED BY <1>2, <2>1, <3>1, Holds DEF CallProvider
  <2>2. ASSUME NEW c \in Consumers, ConsumerStep(c), ~CallProvider(c) PROVE calls' = calls
    BY <2>2 DEF ConsumerStep, Admit, ExecuteReserve, Prepare, BeginDispatchStep, SettleOnce,
                SettleFinally, SettleDelivery
  <2>3. ASSUME NEW c \in Consumers, Deliver(c) \/ Abandon(c) PROVE calls' = calls
    BY <2>3 DEF Deliver, Abandon
  <2>4. ASSUME Wait \/ Stall \/ Revoke \/ UNCHANGED vars \/ \E h \in Generations : ResolveIndeterminate(h)
        PROVE  calls' = calls
    BY <2>4 DEF Wait, Stall, Revoke, vars, ResolveIndeterminate
  <2> QED BY <1>2, <2>1, <2>2, <2>3, <2>4 DEF Next
<1>3. ASSUME [Next]_vars, receipt # None PROVE receipt' = receipt
  <2>1. ASSUME NEW c \in Consumers, SettleDelivery(c) PROVE receipt' = receipt
    BY <1>3, <2>1 DEF SettleDelivery
  <2>2. ASSUME NEW c \in Consumers, ConsumerStep(c), ~SettleDelivery(c) PROVE receipt' = receipt
    BY <2>2 DEF ConsumerStep, Admit, ExecuteReserve, Prepare, BeginDispatchStep, SettleOnce,
                SettleFinally, CallProvider
  <2>3. ASSUME NEW c \in Consumers, Deliver(c) \/ Abandon(c) PROVE receipt' = receipt
    BY <2>3 DEF Deliver, Abandon
  <2>4. ASSUME Wait \/ Stall \/ Revoke \/ UNCHANGED vars \/ \E h \in Generations : ResolveIndeterminate(h)
        PROVE  receipt' = receipt
    BY <2>4 DEF Wait, Stall, Revoke, vars, ResolveIndeterminate
  <2> QED BY <1>3, <2>1, <2>2, <2>3, <2>4 DEF Next
<1>4. ASSUME AttemptInv, [Next]_vars
      PROVE  /\ \A g \in Generations :
                  /\ (revoked /\ (rows[g] = None \/ rows[g].dispatchStartedAt = None)) =>
                       calls'[g] = calls[g] /\ (rows'[g] # None => rows'[g].dispatchStartedAt = None)
                  /\ (rows[g] # None /\ rows[g].state = "terminal") => rows'[g] = rows[g]
             /\ receipt # None => receipt' = receipt
  BY <1>1, <1>2, <1>3, <1>4 DEF RowsHold
<1> QED BY <1>4, AttemptInvariance, PTL DEF Spec, RevocationAndEvidenceHold
=============================================================================
