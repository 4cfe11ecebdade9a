------------------------- MODULE LogHistory_proofs -------------------------
(***************************************************************************)
(* Theorems about LogHistory, for every number of retention and compaction *)
(* workers, every length of the log and every batch and page size.         *)
(* LogInv is the inductive invariant.  Its part CompactInv is what an open *)
(* compaction may count on while others are open: its tombstones and the   *)
(* ranges it has locked are its own, and what it will insert covers them   *)
(* and nothing else.  PollInv is what it takes to follow a poll of the     *)
(* live stream through its three queries.                                  *)
(***************************************************************************)
EXTENDS LogHistory, FiniteSetTheorems, WellFoundedInduction, TLAPS

-----------------------------------------------------------------------------
(* Smallest and greatest members                                            *)

\* The bounds are naturals and a page holds at least one record
LEMMA Bounds ==
  /\ MaxSequence \in Nat /\ PageLimit \in Nat /\ PageLimit > 0
  BY HistoryAssumption

\* A set of naturals that is not empty has a least member
LEMMA LeastMember ==
  ASSUME NEW T \in SUBSET Nat, T # {}
  PROVE  \E x \in T : \A y \in T : x <= y
<1>1. PICK x \in T : \A y \in T : ~(<<y, x>> \in OpToRel(<, Nat))
  <2> DEFINE R == OpToRel(<, Nat)
  <2>1. IsWellFoundedOn(R, Nat)
    BY NatLessThanWellFounded
  <2> HIDE DEF R
  <2>2. \E x \in T : \A y \in T : ~(<<y, x>> \in R)
    BY <2>1, WFMin
  <2> QED BY <2>2 DEF R
<1>2. \A y \in T : ~(y < x)
  BY <1>1 DEF OpToRel
<1> QED BY <1>2

\* ... and a greatest one if it is bounded
LEMMA GreatestMember ==
  ASSUME NEW N \in Nat, NEW T \in SUBSET (0 .. N), T # {}
  PROVE  \E x \in T : \A y \in T : x >= y
<1> DEFINE U == {n \in Nat : N - n \in T}
<1>1. U # {}
  <2>1. PICK x \in T : TRUE
    OBVIOUS
  <2>2. N - x \in Nat /\ N - (N - x) = x
    OBVIOUS
  <2> QED BY <2>1, <2>2
<1>2. PICK n \in U : \A m \in U : n <= m
  <2> HIDE DEF U
  <2>1. U \in SUBSET Nat
    BY DEF U
  <2> QED BY <1>1, <2>1, LeastMember
<1>3. ASSUME NEW y \in T PROVE N - n >= y
  <2>1. N - y \in U
    <3>1. N - y \in Nat /\ N - (N - y) = y
      OBVIOUS
    <3> QED BY <3>1
  <2>2. n \in Nat /\ n <= N - y
    BY <1>2, <2>1
  <2> QED BY <2>2
<1> QED BY <1>2, <1>3

-----------------------------------------------------------------------------
(* Ranges                                                                   *)

Proper(r) == r \in Interval /\ r.first <= r.through

\* What is kept of the ranges: none is empty, and no sequence is in two
Separate(rs) ==
  /\ \A r \in rs : Proper(r)
  /\ \A r, q \in rs : \A s \in r.first .. r.through : s \in q.first .. q.through => r = q

\* ... and, while compactions do not overlap, none touches another
Untouching(rs) == \A r, q \in rs : r.through + 1 # q.first

\* The ends of a compaction range are sequences
LEMMA IntervalTypes ==
  ASSUME NEW r \in Interval
  PROVE  /\ r.first \in 0 .. MaxSequence /\ r.through \in 0 .. MaxSequence
         /\ r.first \in Nat /\ r.through \in Nat
<1>1. r.first \in 0 .. MaxSequence /\ r.through \in 0 .. MaxSequence
  BY DEF Interval
<1> QED BY <1>1, Bounds

\* A sequence is covered by ranges if it lies in one of them
LEMMA CoveredBy ==
  ASSUME NEW rs
  PROVE  \A s : s \in Covered(rs) <=> \E r \in rs : s \in r.first .. r.through
  BY DEF Covered

\* There are finitely many ranges within the log
LEMMA FiniteInterval == IsFiniteSet(Interval)
<1> DEFINE P == (0 .. MaxSequence) \X (0 .. MaxSequence)
           f == [p \in P |-> [first |-> p[1], through |-> p[2]]]
<1>1. IsFiniteSet(0 .. MaxSequence)
  BY Bounds, FS_Interval
<1>2. IsFiniteSet(P)
  BY <1>1, FS_Product
<1>3. f \in Surjection(P, Interval)
  <2>1. f \in [P -> Interval]
    BY DEF Interval
  <2>2. ASSUME NEW r \in Interval PROVE \E p \in P : f[p] = r
    <3>1. <<r.first, r.through>> \in P /\ r = [first |-> r.first, through |-> r.through]
      BY DEF Interval
    <3>2. f[<<r.first, r.through>>] = r
      BY <3>1
    <3> QED BY <3>1, <3>2
  <2> QED BY <2>1, <2>2 DEF Surjection
<1> HIDE DEF P, f
<1> QED BY <1>2, <1>3, FS_Surjection

\* Ranges that share no sequence come one after the other
LEMMA SeparateOrder ==
  ASSUME NEW rs, Separate(rs), NEW r \in rs, NEW q \in rs, r # q
  PROVE  r.through < q.first \/ q.through < r.first
<1>1. /\ r.first \in Nat /\ r.through \in Nat /\ r.first <= r.through
      /\ q.first \in Nat /\ q.through \in Nat /\ q.first <= q.through
  BY IntervalTypes DEF Separate, Proper
<1>2. \A s \in r.first .. r.through : s \notin q.first .. q.through
  BY DEF Separate
<1>3. r.first \in r.first .. r.through /\ (q.first \in r.first .. r.through => q.first \notin q.first .. q.through)
  BY <1>1, <1>2
<1>4. r.first \notin q.first .. q.through /\ q.first \notin r.first .. r.through
  BY <1>1, <1>2, <1>3
<1> QED BY <1>1, <1>4

\* A run and its neighbours leave no hole: merging them covers exactly them
LEMMA HullProperties ==
  ASSUME NEW r, Proper(r), NEW near, \A e \in near : Proper(e),
         \A e \in near : e.through >= r.first - 1 /\ e.first <= r.through + 1
  PROVE  /\ Proper(Hull(near \union {r}))
         /\ \A s : s \in Hull(near \union {r}).first .. Hull(near \union {r}).through
                   <=> \E e \in near \union {r} : s \in e.first .. e.through
<1> DEFINE all == near \union {r}
           F == {e.first : e \in all}
           T == {e.through : e \in all}
           f == CHOOSE x \in F : \A e \in all : x <= e.first
           t == CHOOSE x \in T : \A e \in all : x >= e.through
           hull == [first |-> f, through |-> t]
<1>1. Hull(all) = hull
  BY DEF Hull
<1>2. \A e \in all :
        /\ e \in Interval /\ e.first \in Nat /\ e.through \in Nat /\ e.first <= e.through
        /\ e.first \in 0 .. MaxSequence /\ e.through \in 0 .. MaxSequence
  BY IntervalTypes DEF Proper
<1>3. \A e \in all : e = r \/ (e.through >= r.first - 1 /\ e.first <= r.through + 1)
  OBVIOUS
<1>5. r \in all
  OBVIOUS
<1> HIDE DEF all
<1>6. PICK a \in all : f = a.first /\ \A e \in all : f <= e.first
  <2>1. F \in SUBSET Nat /\ F # {}
    BY <1>2, <1>5
  <2>2. PICK x \in F : \A y \in F : x <= y
    <3> HIDE DEF F
    <3> QED BY <2>1, LeastMember
  <2>3. f \in F /\ \A e \in all : f <= e.first
    BY <2>2
  <2> QED BY <2>3
<1>7. PICK b \in all : t = b.through /\ \A e \in all : t >= e.through
  <2>1. T \in SUBSET (0 .. MaxSequence) /\ T # {}
    BY <1>2, <1>5
  <2>2. PICK x \in T : \A y \in T : x >= y
    <3> HIDE DEF T
    <3> QED BY <2>1, GreatestMember, Bounds
  <2>3. t \in T /\ \A e \in all : t >= e.through
    BY <2>2
  <2> QED BY <2>3
<1> HIDE DEF F, T, f, t
<1>8. /\ r.first \in Nat /\ r.through \in Nat /\ r.first <= r.through
      /\ f \in Nat /\ t \in Nat /\ f \in 0 .. MaxSequence /\ t \in 0 .. MaxSequence
      /\ f <= r.first /\ r.through <= t
  BY <1>2, <1>5, <1>6, <1>7
<1>9. hull.first = f /\ hull.through = t /\ Proper(hull)
  <2>1. hull \in Interval
    BY <1>8 DEF Interval
  <2> QED BY <1>8, <2>1 DEF Proper
<1> HIDE DEF hull
<1>12. \A s : s \in hull.first .. hull.through <=> \E e \in all : s \in e.first .. e.through
  <2>1. ASSUME NEW s \in f .. t PROVE \E e \in all : s \in e.first .. e.through
    <3>1. /\ a.first \in Nat /\ a.through \in Nat /\ b.first \in Nat /\ b.through \in Nat /\ s \in Nat
          /\ f <= s /\ s <= t
      BY <1>2, <1>8
    <3>2. CASE s <= a.through
      <4>1. s \in a.first .. a.through
        BY <1>6, <3>1, <3>2
      <4> QED BY <4>1
    <3>3. CASE s >= b.first
      <4>1. s \in b.first .. b.through
        BY <1>7, <3>1, <3>3
      <4> QED BY <4>1
    <3>4. CASE a.through < s /\ s < b.first
      <4>1. (a = r \/ a.through >= r.first - 1) /\ (b = r \/ b.first <= r.through + 1)
        BY <1>3
      <4>2. s \in r.first .. r.through
        BY <1>8, <3>1, <3>4, <4>1
      <4> QED BY <1>5, <4>2
    <3> QED BY <3>1, <3>2, <3>3, <3>4
  <2>2. ASSUME NEW e \in all, NEW s \in e.first .. e.through PROVE s \in f .. t
    <3>1. f <= e.first /\ e.through <= t /\ e.first \in Nat /\ e.through \in Nat
      BY <1>2, <1>6, <1>7, <1>8
    <3> QED BY <1>8, <3>1
  <2> QED BY <1>9, <2>1, <2>2
<1> QED BY <1>1, <1>9, <1>12 DEF all

\* NodeLogCompactionRange::coalesce: the runs cover the tombstones, no more
LEMMA RunsProperties ==
  ASSUME NEW S \in SUBSET (0 .. MaxSequence)
  PROVE  Separate(Runs(S)) /\ Runs(S) \subseteq Interval /\ Covered(Runs(S)) = S
<1>1. Runs(S) \subseteq Interval /\ \A r \in Runs(S) : Proper(r)
  BY DEF Runs, Proper
<1>2. ASSUME NEW r \in Runs(S), NEW q \in Runs(S), NEW s \in r.first .. r.through,
             s \in q.first .. q.through
      PROVE  r = q
  <2>1. /\ r.first \in Nat /\ r.through \in Nat /\ r.first <= r.through
        /\ q.first \in Nat /\ q.through \in Nat /\ q.first <= q.through /\ s \in Nat
        /\ r.first <= s /\ s <= r.through /\ q.first <= s /\ s <= q.through
    BY <1>1, <1>2, IntervalTypes DEF Proper
  <2>2. /\ \A x \in r.first .. r.through : x # q.first - 1 /\ x # q.through + 1
        /\ \A x \in q.first .. q.through : x # r.first - 1 /\ x # r.through + 1
    BY DEF Runs
  <2>3. r.first = q.first
    <3>1. ~(r.first < q.first)
      <4> SUFFICES ASSUME r.first < q.first PROVE FALSE
        OBVIOUS
      <4>1. q.first - 1 \in r.first .. r.through
        BY <2>1
      <4> QED BY <2>2, <4>1
    <3>2. ~(q.first < r.first)
      <4> SUFFICES ASSUME q.first < r.first PROVE FALSE
        OBVIOUS
      <4>1. r.first - 1 \in q.first .. q.through
        BY <2>1
      <4> QED BY <2>2, <4>1
    <3> QED BY <2>1, <3>1, <3>2
  <2>4. r.through = q.through
    <3>1. ~(r.through < q.through)
      <4> SUFFICES ASSUME r.through < q.through PROVE FALSE
        OBVIOUS
      <4>1. r.through + 1 \in q.first .. q.through
        BY <2>1
      <4> QED BY <2>2, <4>1
    <3>2. ~(q.through < r.through)
      <4> SUFFICES ASSUME q.through < r.through PROVE FALSE
        OBVIOUS
      <4>1. q.through + 1 \in r.first .. r.through
        BY <2>1
      <4> QED BY <2>2, <4>1
    <3> QED BY <2>1, <3>1, <3>2
  <2>5. r \in Interval /\ q \in Interval
    BY <1>1
  <2> QED BY <2>3, <2>4, <2>5 DEF Interval
<1>3. ASSUME NEW s \in Covered(Runs(S)) PROVE s \in S
  <2>1. PICK r \in Runs(S) : s \in r.first .. r.through
    BY CoveredBy
  <2> QED BY <2>1 DEF Runs
<1>4. ASSUME NEW s \in S PROVE s \in Covered(Runs(S))
  <2> DEFINE F == {f \in 0 .. s : f .. s \subseteq S}
             T == {t \in 0 .. MaxSequence : s <= t /\ s .. t \subseteq S}
  <2>0. s \in Nat /\ s <= MaxSequence /\ MaxSequence \in Nat
    BY Bounds
  <2>1. s .. s \subseteq S
    BY <2>0
  <2>2. F \in SUBSET Nat /\ F # {} /\ T \in SUBSET (0 .. MaxSequence) /\ T # {}
    <3>1. s \in F /\ s \in T
      BY <2>0, <2>1
    <3> QED BY <3>1
  <2>3. PICK f \in F : \A x \in F : f <= x
    <3> HIDE DEF F
    <3> QED BY <2>2, LeastMember
  <2>4. PICK t \in T : \A x \in T : t >= x
    <3> HIDE DEF T
    <3> QED BY <2>0, <2>2, GreatestMember
  <2>5. f \in Nat /\ f <= s /\ t \in Nat /\ s <= t /\ t <= MaxSequence
        /\ f .. s \subseteq S /\ s .. t \subseteq S
    BY <2>0
  <2>6. f .. t \subseteq S
    BY <2>0, <2>5
  <2>7. f - 1 \notin S
    <3> SUFFICES ASSUME f - 1 \in S PROVE FALSE
      OBVIOUS
    <3>1. f - 1 \in 0 .. s
      BY <2>0, <2>5
    <3>2. (f - 1) .. s \subseteq S
      BY <2>0, <2>5
    <3>3. f - 1 \in F
      BY <3>1, <3>2
    <3> QED BY <2>3, <2>5, <3>3
  <2>8. t + 1 \notin S
    <3> SUFFICES ASSUME t + 1 \in S PROVE FALSE
      OBVIOUS
    <3>1. t + 1 \in 0 .. MaxSequence /\ s <= t + 1
      BY <2>0, <2>5
    <3>2. s .. (t + 1) \subseteq S
      BY <2>0, <2>5
    <3>3. t + 1 \in T
      BY <3>1, <3>2
    <3> QED BY <2>4, <2>5, <3>3
  <2> DEFINE run == [first |-> f, through |-> t]
  <2>9. run \in Runs(S)
    <3>1. run \in Interval
      BY <2>0, <2>5 DEF Interval
    <3>2. f \in S /\ t \in S /\ f <= t
      BY <2>0, <2>5, <2>6
    <3> QED BY <2>6, <2>7, <2>8, <3>1, <3>2 DEF Runs
  <2>10. s \in run.first .. run.through
    BY <2>0, <2>5
  <2> HIDE DEF run
  <2> QED BY <2>9, <2>10, CoveredBy
<1>5. Separate(Runs(S))
  BY <1>1, <1>2 DEF Separate
<1> QED BY <1>1, <1>3, <1>4, <1>5

-----------------------------------------------------------------------------
(* Queries with a limit                                                     *)

\* A set of sequences of the log can be counted
LEMMA FiniteSequences ==
  ASSUME NEW S \in SUBSET (0 .. MaxSequence)
  PROVE  IsFiniteSet(S) /\ Cardinality(S) \in Nat
<1>1. 0 \in Int /\ MaxSequence \in Int
  BY Bounds
<1>2. IsFiniteSet(0 .. MaxSequence)
  BY <1>1, FS_Interval
<1>3. IsFiniteSet(S)
  BY <1>2, FS_Subset
<1> QED BY <1>3, FS_CardinalityType

\* A row that a query leaves out comes after a full answer
LEMMA LeastProperties ==
  ASSUME NEW S \in SUBSET (0 .. MaxSequence), NEW n \in Nat
  PROVE  /\ Least(S, n) \subseteq S
         /\ \A s \in S \ Least(S, n) :
              Cardinality(Least(S, n)) >= n /\ \A c \in Least(S, n) : c < s
<1> DEFINE Below(s) == {t \in S : t < s}
<1>1. \A s \in S : s \in Nat
  BY Bounds
<1>2. IsFiniteSet(S)
  BY FiniteSequences
<1>3. \A U \in SUBSET S : IsFiniteSet(U) /\ Cardinality(U) \in Nat
  BY <1>2, FS_Subset, FS_CardinalityType
<1>4. ASSUME NEW U \in SUBSET S, NEW V \in SUBSET U PROVE Cardinality(V) <= Cardinality(U)
  BY <1>3, FS_Subset
<1>5. Least(S, n) \in SUBSET S /\ \A s \in S : s \in Least(S, n) <=> Cardinality(Below(s)) < n
  BY DEF Least
<1>6. ASSUME NEW s \in S, s \notin Least(S, n), NEW c \in Least(S, n) PROVE c < s
  <2>0. c \in S /\ c \in Nat /\ s \in Nat
    BY <1>1, <1>5
  <2> SUFFICES ASSUME s <= c PROVE FALSE
    BY <2>0
  <2>1. Below(s) \in SUBSET Below(c) /\ Below(c) \in SUBSET S
    <3> SUFFICES ASSUME NEW t \in S, t < s PROVE t < c
      OBVIOUS
    <3> QED BY <1>1, <2>0
  <2>2. Cardinality(Below(s)) <= Cardinality(Below(c))
    <3> HIDE DEF Below
    <3> QED BY <1>4, <2>1
  <2>3. Cardinality(Below(c)) < n /\ ~(Cardinality(Below(s)) < n)
    BY <1>5, <1>6, <2>0
  <2>4. Cardinality(Below(c)) \in Nat /\ Cardinality(Below(s)) \in Nat
    BY <1>3, <2>1
  <2> QED BY <2>2, <2>3, <2>4
<1>7. ASSUME NEW s \in S, s \notin Least(S, n) PROVE Cardinality(Least(S, n)) >= n
  <2> DEFINE U == S \ Least(S, n)
  <2>1. U \in SUBSET Nat /\ U # {}
    BY <1>1, <1>7
  <2>2. PICK m \in U : \A u \in U : m <= u
    <3> HIDE DEF U
    <3> QED BY <2>1, LeastMember
  <2>3. Below(m) \in SUBSET Least(S, n)
    <3> SUFFICES ASSUME NEW t \in S, t < m, t \notin Least(S, n) PROVE FALSE
      OBVIOUS
    <3>1. t \in U /\ t \in Nat /\ m \in Nat
      BY <1>1, <2>1
    <3> HIDE DEF U
    <3> QED BY <2>2, <3>1
  <2>4. Cardinality(Below(m)) <= Cardinality(Least(S, n))
    <3> HIDE DEF Below
    <3> QED BY <1>4, <1>5, <2>3
  <2>5. ~(Cardinality(Below(m)) < n) /\ m \in S
    BY <1>5
  <2>6. Cardinality(Below(m)) \in Nat /\ Cardinality(Least(S, n)) \in Nat
    BY <1>3, <1>5
  <2> QED BY <2>4, <2>5, <2>6
<1> QED BY <1>5, <1>6, <1>7

-----------------------------------------------------------------------------
(* The invariant                                                            *)

\* Every sequence that was recorded is in one place
OnePlace ==
  /\ stored \union retained \union gaps \union Covered(ranges) = ever
  /\ stored \intersect retained = {} /\ stored \intersect gaps = {} /\ retained \intersect gaps = {}
  /\ Covered(ranges) \intersect (stored \union retained \union gaps) = {}

\* A worker marks only rows whose body it has removed
SweepInv ==
  /\ sweeps \in [Sweepers -> [targets : SUBSET ever, removed : ever \union {None}]]
  /\ \A w \in Sweepers : sweeps[w].removed # None => sweeps[w].removed \notin objects

\* The rows a query did not return come after a full answer
CutOff(listed, rows) ==
  \A s \in rows : s > after /\ s \notin listed =>
    Cardinality(listed) > PageLimit /\ \A c \in listed : c < s

\* What the queries of a poll returned, as the tables are now
PollInv ==
  /\ poll \in [step : {"idle", "gaps", "ranges"}, chunks : SUBSET ever, gaps : SUBSET ever,
               known : SUBSET ever]
  /\ poll.step = "idle" => poll.known = {}
  /\ \A s \in poll.chunks \union poll.gaps : s > after
  /\ poll.chunks \subseteq stored \union retained \union Covered(ranges)
  /\ poll.gaps \subseteq gaps
  /\ CutOff(poll.chunks, poll.known \intersect (stored \union retained))
  /\ poll.step = "ranges" => CutOff(poll.gaps, poll.known \intersect gaps)

\* The ranges as an open compaction will leave them
View(k, rs) == (rs \ k.taken) \union k.made

\* An open compaction: what it has merged and has yet to merge covers its
\* tombstones and the ranges it holds, each sequence once
Sound(k, rs, tombstones) ==
  /\ k \in [candidates : SUBSET tombstones, todo : SUBSET Interval, seen : SUBSET Interval,
            taken : SUBSET rs, made : SUBSET Interval]
  /\ Separate(k.todo \union k.made) /\ k.todo \intersect k.made = {}
  /\ Covered(k.todo \union k.made) = k.candidates \union Covered(k.taken)
  /\ k.candidates = {} => k = NoCompaction

\* Compactions hold different tombstones and different ranges
OwnLocks ==
  \A c, d \in Compactors : c # d =>
    /\ compactions[c].candidates \intersect compactions[d].candidates = {}
    /\ compactions[c].taken \intersect compactions[d].taken = {}

\* While none overlapped, the one that is open sees every range
Alone ==
  /\ Untouching(ranges)
  /\ \A c, d \in Compactors : Open(c) /\ Open(d) => c = d
  /\ \A c \in Compactors :
       /\ Untouching(View(compactions[c], ranges))
       /\ compactions[c].todo # {} => compactions[c].seen = View(compactions[c], ranges)

CompactInv ==
  /\ DOMAIN compactions = Compactors /\ compactions = [c \in Compactors |-> compactions[c]]
  /\ \A c \in Compactors : Sound(compactions[c], ranges, retained)
  /\ OwnLocks
  /\ ~overlapped => Alone

LogInv ==
  /\ TypeOK /\ Separate(ranges) /\ OnePlace /\ TombstonesHaveNoBody
  /\ SweepInv /\ CompactInv /\ PollInv

\* A transaction that is not open claims nothing
LEMMA EmptySound ==
  ASSUME NEW rs, NEW tombstones
  PROVE  Sound(NoCompaction, rs, tombstones)
  BY DEF Sound, NoCompaction, Separate, Covered

\* The rows that sweeps and batches touch are not the ones a compaction holds
LEMMA CompactionsStay ==
  ASSUME CompactInv, UNCHANGED <<compactions, overlapped, ranges>>, retained \subseteq retained'
  PROVE  CompactInv'
<1>1. \A c \in Compactors : Sound(compactions[c], ranges, retained')
  BY DEF CompactInv, Sound
<1>2. OwnLocks' /\ (~overlapped' => Alone')
  BY DEF CompactInv, OwnLocks, Alone, Open, Untouching, View
<1> QED BY <1>1, <1>2 DEF CompactInv

\* Nothing is recorded, and no worker or poll is under way
LEMMA InitHolds == Init => LogInv
<1> SUFFICES ASSUME Init PROVE LogInv
  OBVIOUS
<1> USE DEF Init
<1>1. Covered({}) = {}
  BY DEF Covered
<1>2. TypeOK /\ Separate(ranges) /\ OnePlace /\ TombstonesHaveNoBody
  BY <1>1, Bounds DEF TypeOK, Separate, OnePlace, TombstonesHaveNoBody
<1>3. SweepInv
  BY DEF SweepInv
<1>4. PollInv
  BY DEF PollInv, NoPoll, CutOff
<1>5. CompactInv
  <2>1. Sound(NoCompaction, {}, {})
    BY <1>1, EmptySound
  <2>2. View(NoCompaction, {}) = {} /\ NoCompaction.candidates = {} /\ NoCompaction.todo = {}
        /\ NoCompaction.taken = {}
    BY DEF View, NoCompaction
  <2>3. \A c \in Compactors : compactions[c] = NoCompaction
    OBVIOUS
  <2>4. OwnLocks /\ Alone
    BY <2>2, <2>3 DEF OwnLocks, Alone, Open, Untouching
  <2> QED BY <2>1, <2>3, <2>4 DEF CompactInv
<1> QED BY <1>2, <1>3, <1>4, <1>5 DEF LogInv

\* The watermark is past everything that was ever recorded
LEMMA AdvancesIsNew ==
  ASSUME LogInv, NEW s \in 0 .. MaxSequence, Advances(s)
  PROVE  s \notin ever
<1> SUFFICES ASSUME s \in ever PROVE FALSE
  OBVIOUS
<1>1. s \in Nat
  BY Bounds
<1>2. s \notin stored \union retained \union gaps
  BY <1>1 DEF Advances
<1>3. s \in Covered(ranges)
  BY <1>2 DEF LogInv, OnePlace
<1>4. PICK r \in ranges : s \in r.first .. r.through
  BY <1>3, CoveredBy
<1>5. r.through \in Nat
  BY IntervalTypes DEF LogInv, TypeOK
<1>6. s > r.through
  BY DEF Advances
<1> QED BY <1>1, <1>4, <1>5, <1>6

\* A recorded row has a sequence past the watermark, so it is in no other table
LEMMA RecordRowStep ==
  ASSUME LogInv, NEW s \in 0 .. MaxSequence, RecordRow(s)
  PROVE  LogInv'
<1> USE DEF RecordRow, stream, compacting
<1>1. s \notin ever
  BY AdvancesIsNew
<1>2. /\ ever' = ever \union {s} /\ ranges' = ranges /\ retained' = retained
      /\ stored' \union gaps' = stored \union gaps \union {s}
      /\ stored \subseteq stored' /\ gaps \subseteq gaps'
      /\ stored' \subseteq stored \union {s} /\ gaps' \subseteq gaps \union {s}
      /\ objects' \subseteq objects \union {s} /\ sweeps' = sweeps
      /\ poll' = poll /\ after' = after /\ compactions' = compactions /\ overlapped' = overlapped
      /\ stored' = stored \/ gaps' = gaps
  OBVIOUS
<1>3. Covered(ranges)' = Covered(ranges)
  BY <1>2 DEF Covered
<1> HIDE DEF RecordRow
<1>4. TypeOK'
  BY <1>2 DEF LogInv, TypeOK
<1>5. Separate(ranges)' /\ CompactInv'
  <2>1. CompactInv'
    BY <1>2, CompactionsStay DEF LogInv
  <2> QED BY <1>2, <2>1 DEF LogInv
<1>6. OnePlace'
  BY <1>1, <1>2, <1>3 DEF LogInv, OnePlace
<1>7. TombstonesHaveNoBody'
  BY <1>1, <1>2, <1>3 DEF LogInv, OnePlace, TombstonesHaveNoBody
<1>8. SweepInv'
  <2>1. \A w \in Sweepers : /\ sweeps[w].removed \in ever \union {None}
                            /\ sweeps[w].removed # None => sweeps[w].removed \notin objects
    BY DEF LogInv, SweepInv
  <2>2. sweeps \in [Sweepers -> [targets : SUBSET (ever'), removed : ever' \union {None}]]
    BY <1>2 DEF LogInv, SweepInv
  <2>3. \A w \in Sweepers : sweeps[w].removed # None => sweeps[w].removed \notin objects'
    BY <1>1, <1>2, <2>1
  <2> QED BY <1>2, <2>2, <2>3 DEF SweepInv
<1>9. PollInv'
  <2>1. poll.known \subseteq ever /\ poll.chunks \subseteq ever /\ poll.gaps \subseteq ever
    BY DEF LogInv, PollInv
  <2>2. /\ poll.known \intersect (stored' \union retained) = poll.known \intersect (stored \union retained)
        /\ poll.known \intersect gaps' = poll.known \intersect gaps
    BY <1>1, <1>2, <2>1
  <2>3. poll \in [step : {"idle", "gaps", "ranges"}, chunks : SUBSET (ever'), gaps : SUBSET (ever'),
                  known : SUBSET (ever')]
    BY <1>2 DEF LogInv, PollInv
  <2> QED BY <1>2, <1>3, <2>2, <2>3 DEF LogInv, PollInv, CutOff
<1> QED BY <1>4, <1>5, <1>6, <1>7, <1>8, <1>9 DEF LogInv

\* What the invariant says of one worker
LEMMA OneSweep ==
  ASSUME LogInv, NEW w \in Sweepers
  PROVE  /\ sweeps[w].targets \subseteq ever /\ sweeps[w].removed \in ever \union {None}
         /\ sweeps[w] = [targets |-> sweeps[w].targets, removed |-> sweeps[w].removed]
         /\ sweeps[w].removed # None => sweeps[w].removed \notin objects
         /\ ever \subseteq 0 .. MaxSequence /\ ever \in SUBSET Nat
         /\ \A T \in SUBSET ever :
              [sweeps EXCEPT ![w].targets = T]
                = [sweeps EXCEPT ![w] = [targets |-> T, removed |-> sweeps[w].removed]]
         /\ [sweeps EXCEPT ![w].removed = None]
              = [sweeps EXCEPT ![w] = [targets |-> sweeps[w].targets, removed |-> None]]
<1>1. sweeps[w] \in [targets : SUBSET ever, removed : ever \union {None}]
  BY DEF LogInv, SweepInv
<1>2. ever \subseteq 0 .. MaxSequence
  BY DEF LogInv, TypeOK
<1>3. ever \in SUBSET Nat
  BY <1>2, Bounds
<1>4. ASSUME NEW T \in SUBSET ever
      PROVE  [sweeps EXCEPT ![w].targets = T]
               = [sweeps EXCEPT ![w] = [targets |-> T, removed |-> sweeps[w].removed]]
  <2>1. [sweeps[w] EXCEPT !.targets = T] = [targets |-> T, removed |-> sweeps[w].removed]
    BY <1>1
  <2> QED BY <2>1, Zenon
<1>5. [sweeps EXCEPT ![w].removed = None]
        = [sweeps EXCEPT ![w] = [targets |-> sweeps[w].targets, removed |-> None]]
  <2>1. [sweeps[w] EXCEPT !.removed = None] = [targets |-> sweeps[w].targets, removed |-> None]
    BY <1>1
  <2> QED BY <2>1, Zenon
<1>6. sweeps[w].removed # None => sweeps[w].removed \notin objects
  BY DEF LogInv, SweepInv
<1>7. /\ sweeps[w].targets \subseteq ever /\ sweeps[w].removed \in ever \union {None}
      /\ sweeps[w] = [targets |-> sweeps[w].targets, removed |-> sweeps[w].removed]
  BY <1>1
<1> QED BY <1>2, <1>3, <1>4, <1>5, <1>6, <1>7

(***************************************************************************)
(* A worker moves; a body or a row may go with it.                         *)
(***************************************************************************)
LEMMA SweepMoves ==
  ASSUME LogInv, NEW w \in Sweepers, NEW targets \in SUBSET ever, NEW removed \in ever \union {None},
         sweeps' = [sweeps EXCEPT ![w] = [targets |-> targets, removed |-> removed]],
         UNCHANGED <<gaps, ranges, ever, compactions, overlapped, poll, after>>,
         objects' \subseteq objects, removed # None => removed \notin objects',
         \/ UNCHANGED <<stored, retained>>
         \/ \E s \in stored : s \notin objects /\ stored' = stored \ {s} /\ retained' = retained \union {s}
  PROVE  LogInv'
<1>1. /\ stored' \union retained' = stored \union retained
      /\ stored' \intersect retained' = {}
      /\ \A s \in retained' : s \in retained \/ s \notin objects
  BY DEF LogInv, OnePlace
<1>2. Covered(ranges)' = Covered(ranges)
  BY DEF Covered
<1>3. TypeOK' /\ Separate(ranges)' /\ OnePlace' /\ CompactInv'
  <2>0. retained \subseteq retained'
    OBVIOUS
  <2>2. CompactInv'
    BY <2>0, CompactionsStay DEF LogInv
  <2>1. stored \union retained \subseteq ever
    BY DEF LogInv, OnePlace
  <2> QED BY <1>1, <1>2, <2>1, <2>2 DEF LogInv, TypeOK, OnePlace
<1>4. TombstonesHaveNoBody'
  BY <1>1, <1>2 DEF LogInv, TombstonesHaveNoBody
<1>5. SweepInv'
  <2>1. sweeps \in [Sweepers -> [targets : SUBSET ever, removed : ever \union {None}]]
    BY DEF LogInv, SweepInv
  <2>2. /\ sweeps' \in [Sweepers -> [targets : SUBSET ever, removed : ever \union {None}]]
        /\ sweeps'[w].removed = removed
        /\ \A x \in Sweepers : x # w => sweeps'[x] = sweeps[x]
    BY <2>1
  <2>3. \A x \in Sweepers : sweeps'[x].removed # None => sweeps'[x].removed \notin objects'
    BY <2>2 DEF LogInv, SweepInv
  <2> QED BY <2>2, <2>3 DEF SweepInv
<1>6. PollInv'
  BY <1>1, <1>2 DEF LogInv, PollInv, CutOff
<1> QED BY <1>3, <1>4, <1>5, <1>6 DEF LogInv

\* A worker lists rows of the log: only what it is about to sweep changes
LEMMA ListForRetentionStep ==
  ASSUME LogInv, NEW w \in Sweepers, ListForRetention(w)
  PROVE  LogInv'
<1>1. PICK n \in 1 .. SweepLimit : sweeps' = [sweeps EXCEPT ![w].targets = Least(stored, n)]
  BY DEF ListForRetention
<1>2. Least(stored, n) \in SUBSET ever /\ sweeps[w].removed \in ever \union {None}
  BY OneSweep DEF LogInv, OnePlace, Least
<1>3. sweeps' = [sweeps EXCEPT ![w] = [targets |-> Least(stored, n), removed |-> sweeps[w].removed]]
  BY <1>1, <1>2, OneSweep
<1>4. UNCHANGED <<stored, retained, gaps, ranges, objects, ever, compactions, overlapped, poll, after>>
  BY DEF ListForRetention, history, stream, compacting
<1> QED BY <1>2, <1>3, <1>4, OneSweep, SweepMoves

\* The body goes first; the row is still there
LEMMA RemoveBodyStep ==
  ASSUME LogInv, NEW w \in Sweepers, RemoveBody(w)
  PROVE  LogInv'
<1> DEFINE target == CHOOSE s \in sweeps[w].targets : \A t \in sweeps[w].targets : s <= t
<1>1. sweeps[w].targets \in SUBSET Nat /\ sweeps[w].targets # {}
  BY OneSweep DEF RemoveBody
<1>2. \E s \in sweeps[w].targets : \A t \in sweeps[w].targets : s <= t
  BY <1>1, LeastMember
<1>3. target \in sweeps[w].targets
  BY <1>2
<1>4. /\ objects' = objects \ {target}
      /\ sweeps' = [sweeps EXCEPT ![w] = [targets |-> sweeps[w].targets \ {target},
                                          removed |-> target]]
      /\ UNCHANGED <<stored, retained, gaps, ranges, ever, compactions, overlapped, poll, after>>
  BY DEF RemoveBody, stream, compacting
<1> HIDE DEF target
<1>5. target \in ever \union {None} /\ sweeps[w].targets \ {target} \in SUBSET ever
  BY <1>3, OneSweep
<1> QED BY <1>4, <1>5, SweepMoves

\* A removal that fails leaves row and body for the next cycle
LEMMA RemovalFailsStep ==
  ASSUME LogInv, NEW w \in Sweepers, RemovalFails(w)
  PROVE  LogInv'
<1> DEFINE target == CHOOSE s \in sweeps[w].targets : \A t \in sweeps[w].targets : s <= t
<1>1. /\ sweeps' = [sweeps EXCEPT ![w].targets = sweeps[w].targets \ {target}]
      /\ UNCHANGED <<stored, retained, gaps, ranges, objects, ever, compactions, overlapped, poll, after>>
  BY DEF RemovalFails, history, stream, compacting
<1> HIDE DEF target
<1>2. sweeps[w].targets \ {target} \in SUBSET ever /\ sweeps[w].removed \in ever \union {None}
  BY OneSweep
<1>3. sweeps' = [sweeps EXCEPT ![w] = [targets |-> sweeps[w].targets \ {target},
                                       removed |-> sweeps[w].removed]]
  BY <1>1, <1>2, OneSweep
<1> QED BY <1>1, <1>2, <1>3, OneSweep, SweepMoves

\* The row whose body is gone becomes a tombstone, also when another worker was faster
LEMMA MarkRetainedStep ==
  ASSUME LogInv, NEW w \in Sweepers, MarkRetained(w)
  PROVE  LogInv'
<1> DEFINE target == sweeps[w].removed
<1>1. target # None /\ target \notin objects /\ sweeps[w].targets \in SUBSET ever
  BY OneSweep DEF MarkRetained
<1>2. /\ sweeps' = [sweeps EXCEPT ![w].removed = None]
      /\ UNCHANGED <<gaps, ranges, objects, ever, compactions, overlapped, poll, after>>
      /\ \/ UNCHANGED <<stored, retained>>
         \/ \E s \in stored : s \notin objects /\ stored' = stored \ {s} /\ retained' = retained \union {s}
  BY <1>1 DEF MarkRetained, stream, compacting
<1>3. sweeps' = [sweeps EXCEPT ![w] = [targets |-> sweeps[w].targets, removed |-> None]]
  BY <1>2, OneSweep
<1> QED BY <1>1, <1>2, <1>3, SweepMoves

\* A worker that is killed forgets its targets; a body it removed stays removed
LEMMA KillSweeperStep ==
  ASSUME LogInv, NEW w \in Sweepers, KillSweeper(w)
  PROVE  LogInv'
<1>1. /\ sweeps' = [sweeps EXCEPT ![w] = [targets |-> {}, removed |-> None]]
      /\ UNCHANGED <<stored, retained, gaps, ranges, objects, ever, compactions, overlapped, poll, after>>
  BY DEF KillSweeper, history, stream, compacting
<1> QED BY <1>1, SweepMoves

-----------------------------------------------------------------------------
(* Compaction                                                               *)

\* What the invariant says of one compaction and its neighbours
LEMMA OneCompaction ==
  ASSUME LogInv, NEW c \in Compactors
  PROVE  /\ compactions[c].candidates \subseteq retained /\ compactions[c].taken \subseteq ranges
         /\ \A r \in compactions[c].todo \union compactions[c].made : Proper(r)
         /\ \A r \in ranges : Proper(r)
         /\ Covered(compactions[c].todo \union compactions[c].made)
              = compactions[c].candidates \union Covered(compactions[c].taken)
         /\ \A r \in ranges \ compactions[c].taken, q \in compactions[c].todo \union compactions[c].made :
              \A s \in r.first .. r.through : s \notin q.first .. q.through
<1> DEFINE k == compactions[c]
<1>1. Sound(k, ranges, retained)
  BY DEF LogInv, CompactInv
<1>2. /\ k.candidates \subseteq retained /\ k.taken \subseteq ranges
      /\ Separate(k.todo \union k.made)
      /\ Covered(k.todo \union k.made) = k.candidates \union Covered(k.taken)
  BY <1>1 DEF Sound
<1> HIDE DEF k
<1>3. Separate(ranges)
  BY DEF LogInv
<1>4. ASSUME NEW r \in ranges \ k.taken, NEW q \in k.todo \union k.made,
             NEW s \in r.first .. r.through, s \in q.first .. q.through
      PROVE  FALSE
  <2>1. s \in Covered(k.todo \union k.made) /\ s \in Covered(ranges)
    BY <1>4, CoveredBy
  <2>2. s \notin k.candidates
    BY <1>2, <2>1 DEF LogInv, OnePlace
  <2>3. s \in Covered(k.taken)
    BY <1>2, <2>1, <2>2
  <2>4. PICK p \in k.taken : s \in p.first .. p.through
    BY <2>3, CoveredBy
  <2>5. p = r
    BY <1>2, <1>3, <2>4 DEF Separate
  <2> QED BY <2>4, <2>5
<1> QED BY <1>2, <1>3, <1>4 DEF k, Separate

(***************************************************************************)
(* A transaction that moves, and is not yet seen by the others.            *)
(***************************************************************************)
LEMMA CompactionMoves ==
  ASSUME LogInv, NEW c \in Compactors, NEW k, Sound(k, ranges, retained),
         compactions' = [compactions EXCEPT ![c] = k],
         UNCHANGED <<stored, retained, gaps, ranges, objects, ever, sweeps, poll, after>>,
         \A d \in Compactors \ {c} : /\ k.candidates \intersect compactions[d].candidates = {}
                                     /\ k.taken \intersect compactions[d].taken = {},
         ~overlapped' => /\ ~overlapped /\ Untouching(View(k, ranges))
                         /\ k.todo # {} => k.seen = View(k, ranges)
                         /\ k.candidates # {} => \A d \in Compactors \ {c} : ~Open(d)
  PROVE  LogInv'
<1>1. Covered(ranges)' = Covered(ranges)
  BY DEF Covered
<1>2. TypeOK' /\ Separate(ranges)' /\ OnePlace' /\ TombstonesHaveNoBody'
  BY <1>1 DEF LogInv, TypeOK, OnePlace, TombstonesHaveNoBody
<1>3. SweepInv' /\ PollInv'
  <2>1. SweepInv'
    BY DEF LogInv, SweepInv
  <2>2. PollInv'
    BY <1>1 DEF LogInv, PollInv, CutOff
  <2> QED BY <2>1, <2>2
<1>4. /\ compactions'[c] = k /\ \A d \in Compactors : d # c => compactions'[d] = compactions[d]
      /\ DOMAIN compactions' = Compactors
      /\ compactions' = [d \in Compactors |-> compactions'[d]]
  BY DEF LogInv, CompactInv
<1>5. \A d \in Compactors : Sound(compactions'[d], ranges, retained)
  BY <1>4 DEF LogInv, CompactInv
<1>6. OwnLocks'
  <2> SUFFICES ASSUME NEW d \in Compactors, NEW e \in Compactors, d # e
               PROVE  /\ compactions'[d].candidates \intersect compactions'[e].candidates = {}
                      /\ compactions'[d].taken \intersect compactions'[e].taken = {}
    BY DEF OwnLocks
  <2>1. CASE d # c /\ e # c
    BY <1>4, <2>1 DEF LogInv, CompactInv, OwnLocks
  <2>2. CASE d = c
    BY <1>4, <2>2
  <2>3. CASE e = c
    BY <1>4, <2>3
  <2> QED BY <2>1, <2>2, <2>3
<1>7. ~overlapped' => Alone'
  <2> SUFFICES ASSUME ~overlapped' PROVE Alone'
    OBVIOUS
  <2>1. Alone
    BY DEF LogInv, CompactInv
  <2>2. Untouching(ranges')
    BY <2>1 DEF Alone
  <2>3. \A d \in Compactors : /\ Untouching(View(compactions'[d], ranges))
                              /\ compactions'[d].todo # {} => compactions'[d].seen = View(compactions'[d], ranges)
    BY <1>4, <2>1 DEF Alone
  <2>4. \A d, e \in Compactors : compactions'[d].candidates # {} /\ compactions'[e].candidates # {} => d = e
    BY <1>4, <2>1 DEF Alone, Open
  <2> QED BY <2>2, <2>3, <2>4 DEF Alone, Open
<1>8. CompactInv'
  BY <1>4, <1>5, <1>6, <1>7 DEF CompactInv
<1> QED BY <1>2, <1>3, <1>8 DEF LogInv

\* A compaction locks tombstones no other one holds
LEMMA BeginCompactStep ==
  ASSUME LogInv, NEW c \in Compactors, BeginCompact(c)
  PROVE  LogInv'
<1>1. PICK candidates \in SUBSET (retained \ UNION {compactions[d].candidates : d \in Compactors}) :
        /\ candidates # {}
        /\ compactions' = [compactions EXCEPT ![c] =
                             [NoCompaction EXCEPT !.candidates = candidates,
                                                  !.todo = Runs(candidates),
                                                  !.seen = ranges]]
  BY DEF BeginCompact
<1> DEFINE k == [candidates |-> candidates, todo |-> Runs(candidates), seen |-> ranges,
                 taken |-> {}, made |-> {}]
<1>2. /\ compactions' = [compactions EXCEPT ![c] = k]
      /\ overlapped' = (overlapped \/ \E d \in Compactors : Open(d))
      /\ UNCHANGED <<stored, retained, gaps, ranges, objects, ever, sweeps, poll, after>>
  BY <1>1 DEF BeginCompact, NoCompaction, history, stream
<1>3. candidates \in SUBSET (0 .. MaxSequence) /\ ranges \subseteq Interval
  BY DEF LogInv, TypeOK
<1>4. Separate(Runs(candidates)) /\ Runs(candidates) \subseteq Interval /\ Covered(Runs(candidates)) = candidates
  BY <1>3, RunsProperties
<1>5. Sound(k, ranges, retained)
  <2>1. k.todo \union k.made = Runs(candidates) /\ Covered(k.taken) = {}
    BY DEF Covered
  <2>2. k \in [candidates : SUBSET retained, todo : SUBSET Interval, seen : SUBSET Interval,
               taken : SUBSET ranges, made : SUBSET Interval]
    BY <1>3, <1>4
  <2> QED BY <1>1, <1>4, <2>1, <2>2 DEF Sound
<1>6. View(k, ranges) = ranges /\ k.seen = ranges /\ k.candidates = candidates /\ k.taken = {}
  BY DEF View
<1> HIDE DEF k
<1>7. \A d \in Compactors \ {c} : /\ k.candidates \intersect compactions[d].candidates = {}
                                  /\ k.taken \intersect compactions[d].taken = {}
  BY <1>6
<1>8. ASSUME ~overlapped'
      PROVE  /\ ~overlapped /\ Untouching(View(k, ranges))
             /\ k.todo # {} => k.seen = View(k, ranges)
             /\ \A d \in Compactors \ {c} : ~Open(d)
  <2>1. ~overlapped /\ \A d \in Compactors : ~Open(d)
    BY <1>2, <1>8
  <2>2. Untouching(ranges)
    BY <2>1 DEF LogInv, CompactInv, Alone
  <2> QED BY <1>6, <2>1, <2>2
<1> QED BY <1>2, <1>5, <1>7, <1>8, CompactionMoves

\* A run and its neighbours become one range, and no sequence is in two of them
LEMMA LockRangesStep ==
  ASSUME LogInv, NEW c \in Compactors, LockRanges(c)
  PROVE  LogInv'
<1> DEFINE open == compactions[c]
           run == CHOOSE r \in open.todo : \A q \in open.todo : r.first <= q.first
           near == Adjacent(run, open.seen \intersect ((ranges \ open.taken) \union open.made))
           taken == open.taken \union (near \intersect ranges)
           made == IF near = {} THEN open.made \union {run} ELSE open.made \ near
           todo == IF near = {} THEN open.todo \ {run}
                                ELSE (open.todo \ {run}) \union {Hull(near \union {run})}
           seen == IF todo = {} THEN {} ELSE (ranges \ taken) \union made
           k == [candidates |-> open.candidates, todo |-> todo, seen |-> seen,
                 taken |-> taken, made |-> made]
<1>1. /\ open.todo # {} /\ \A d \in Compactors \ {c} : near \intersect compactions[d].taken = {}
      /\ compactions' = [compactions EXCEPT ![c] = k] /\ overlapped' = overlapped
      /\ UNCHANGED <<stored, retained, gaps, ranges, objects, ever, sweeps, poll, after>>
  BY DEF LockRanges, history, stream
<1>2. Sound(open, ranges, retained)
  BY DEF LogInv, CompactInv
<1>3. /\ open.candidates \subseteq retained /\ open.todo \subseteq Interval /\ open.made \subseteq Interval
      /\ open.taken \subseteq ranges /\ Separate(open.todo \union open.made)
      /\ open.todo \intersect open.made = {}
      /\ Covered(open.todo \union open.made) = open.candidates \union Covered(open.taken)
      /\ open.candidates = {} => open = NoCompaction
  BY <1>2 DEF Sound
<1>4. run \in open.todo
  <2> HIDE DEF open
  <2> DEFINE F == {r.first : r \in open.todo}
  <2>1. F \in SUBSET Nat /\ F # {}
    BY <1>1, <1>3, IntervalTypes
  <2>2. PICK f \in F : \A g \in F : f <= g
    <3> HIDE DEF F
    <3> QED BY <2>1, LeastMember
  <2>3. \E r \in open.todo : \A q \in open.todo : r.first <= q.first
    BY <2>2
  <2> QED BY <2>3
<1>5. open.candidates # {}
  BY <1>1, <1>3 DEF NoCompaction
<1>6. ranges \subseteq Interval /\ \A r \in ranges \union open.todo \union open.made : Proper(r)
  BY OneCompaction DEF LogInv, TypeOK
<1>7. \A r \in ranges \ open.taken, q \in open.todo \union open.made :
        \A s \in r.first .. r.through : s \notin q.first .. q.through
  BY OneCompaction
<1> HIDE DEF run, open
<1>8. /\ near \subseteq (ranges \ open.taken) \union open.made
      /\ \A e \in near : e.through >= run.first - 1 /\ e.first <= run.through + 1
  BY DEF Adjacent
<1>9. /\ k.candidates = open.candidates /\ k.todo = todo /\ k.taken = taken /\ k.made = made
      /\ k.seen = seen
  OBVIOUS
<1> HIDE DEF k
<1>10. CASE near = {}
  <2>1. /\ taken = open.taken /\ made = open.made \union {run} /\ todo = open.todo \ {run}
        /\ todo \union made = open.todo \union open.made /\ todo \intersect made = {}
    BY <1>3, <1>4, <1>10
  <2>2. made \subseteq Interval /\ todo \subseteq Interval
    BY <1>3, <1>4, <2>1
  <2>3. seen \subseteq Interval
    BY <1>6, <2>2
  <2> HIDE DEF taken, made, todo, seen
  <2>4. Sound(k, ranges, retained)
    <3>1. k \in [candidates : SUBSET retained, todo : SUBSET Interval, seen : SUBSET Interval,
                 taken : SUBSET ranges, made : SUBSET Interval]
      BY <1>3, <2>1, <2>2, <2>3 DEF k
    <3> QED BY <1>3, <1>5, <1>9, <2>1, <3>1 DEF Sound
  <2>5. \A d \in Compactors \ {c} : /\ k.candidates \intersect compactions[d].candidates = {}
                                    /\ k.taken \intersect compactions[d].taken = {}
    BY <1>9, <2>1 DEF LogInv, CompactInv, OwnLocks, open
  <2>6. ASSUME ~overlapped
        PROVE  /\ Untouching(View(k, ranges))
               /\ k.todo # {} => k.seen = View(k, ranges)
               /\ \A d \in Compactors \ {c} : ~Open(d)
    <3>1. Alone
      BY <2>6 DEF LogInv, CompactInv
    <3>2. /\ open.seen = View(open, ranges) /\ Untouching(View(open, ranges))
          /\ \A d \in Compactors \ {c} : ~Open(d)
      BY <1>1, <1>5, <3>1 DEF Alone, Open, open
    <3>3. View(k, ranges) = View(open, ranges) \union {run}
      BY <1>9, <2>1 DEF View
    <3>4. k.todo # {} => k.seen = View(k, ranges)
      BY <1>9 DEF View, seen
    <3>5. ASSUME NEW e \in View(open, ranges) PROVE e.through + 1 # run.first /\ run.through + 1 # e.first
      <4>1. ~(e.through >= run.first - 1 /\ e.first <= run.through + 1)
        BY <1>10, <3>2, <3>5 DEF Adjacent, View
      <4>2. Proper(e) /\ Proper(run)
        BY <1>4, <1>6, <3>5 DEF View
      <4>3. /\ e.first \in Nat /\ e.through \in Nat /\ e.first <= e.through
            /\ run.first \in Nat /\ run.through \in Nat /\ run.first <= run.through
        BY <4>2, IntervalTypes DEF Proper
      <4> QED BY <4>1, <4>3
    <3>6. run.through + 1 # run.first
      <4>1. run.first \in Nat /\ run.through \in Nat /\ run.first <= run.through
        BY <1>4, <1>6, IntervalTypes DEF Proper
      <4> QED BY <4>1
    <3>7. Untouching(View(k, ranges))
      BY <3>2, <3>3, <3>5, <3>6 DEF Untouching
    <3> QED BY <3>2, <3>4, <3>7
  <2> QED BY <1>1, <2>4, <2>5, <2>6, CompactionMoves
<1>11. CASE near # {}
  <2> DEFINE hull == Hull(near \union {run})
             rest == (open.todo \ {run}) \union (open.made \ near)
  <2>1. /\ made = open.made \ near /\ todo = (open.todo \ {run}) \union {hull}
        /\ todo \union made = rest \union {hull} /\ taken = open.taken \union (near \intersect ranges)
    BY <1>11
  <2>2. /\ Proper(hull)
        /\ \A s : s \in hull.first .. hull.through <=> \E e \in near \union {run} : s \in e.first .. e.through
    <3>1. Proper(run) /\ \A e \in near : Proper(e)
      BY <1>4, <1>6, <1>8
    <3> HIDE DEF near
    <3> QED BY <1>8, <3>1, HullProperties
  <2>3. hull \in Interval
    BY <2>2 DEF Proper
  <2> HIDE DEF hull, near
  <2>4. ASSUME NEW q \in rest, NEW s \in hull.first .. hull.through, s \in q.first .. q.through
        PROVE  FALSE
    <3>1. PICK e \in near \union {run} : s \in e.first .. e.through
      BY <2>2, <2>4
    <3>2. q \in open.todo \union open.made
      OBVIOUS
    <3>3. CASE e \in ranges \ open.taken
      BY <1>7, <2>4, <3>1, <3>2, <3>3
    <3>4. CASE e \in open.todo \union open.made
      <4>1. q = e
        BY <1>3, <2>4, <3>1, <3>2, <3>4 DEF Separate
      <4>2. e \in near /\ e \in open.todo
        BY <1>3, <1>4, <3>1, <4>1
      <4>3. e \notin open.made
        BY <1>3, <4>2
      <4>4. e \in ranges \ open.taken
        BY <1>8, <4>2, <4>3
      <4> QED BY <1>7, <2>4, <3>1, <3>2, <4>4
    <3> QED BY <1>4, <1>8, <3>1, <3>3, <3>4
  <2>5. hull \notin rest
    <3> SUFFICES ASSUME hull \in rest PROVE FALSE
      OBVIOUS
    <3>1. hull.first \in Nat /\ hull.through \in Nat /\ hull.first <= hull.through
      BY <2>2, IntervalTypes DEF Proper
    <3>2. hull.first \in hull.first .. hull.through
      BY <3>1
    <3> QED BY <2>4, <3>2
  <2>6. Separate(rest \union {hull}) /\ todo \intersect made = {}
    <3>1. \A r \in rest \union {hull} : Proper(r)
      BY <1>6, <2>2
    <3>2. \A r, q \in rest : \A s \in r.first .. r.through : s \in q.first .. q.through => r = q
      BY <1>3 DEF Separate
    <3>3. todo \intersect made = {}
      BY <1>3, <2>1, <2>5
    <3> QED BY <2>4, <3>1, <3>2, <3>3 DEF Separate
  <2>7. Covered(rest \union {hull}) = open.candidates \union Covered(taken)
    <3>0. /\ open.todo \union open.made = rest \union {run} \union (near \intersect open.made)
          /\ near = (near \intersect open.made) \union (near \intersect ranges)
      BY <1>4, <1>8
    <3>1. ASSUME NEW s PROVE s \in Covered(rest \union {hull}) <=> s \in open.candidates \union Covered(taken)
      <4>1. s \in Covered(rest \union {hull}) <=>
              \/ \E e \in rest : s \in e.first .. e.through
              \/ \E e \in near \union {run} : s \in e.first .. e.through
        BY <2>2, CoveredBy
      <4>2. s \in Covered(open.todo \union open.made) <=>
              \/ \E e \in rest : s \in e.first .. e.through
              \/ s \in run.first .. run.through
              \/ \E e \in near \intersect open.made : s \in e.first .. e.through
        BY <3>0, CoveredBy
      <4>3. s \in Covered(taken) <=> s \in Covered(open.taken) \/ \E e \in near \intersect ranges : s \in e.first .. e.through
        BY <2>1, CoveredBy
      <4>4. s \in Covered(open.todo \union open.made) <=> s \in open.candidates \/ s \in Covered(open.taken)
        BY <1>3
      <4>5. (\E e \in near : s \in e.first .. e.through) <=>
              \/ \E e \in near \intersect open.made : s \in e.first .. e.through
              \/ \E e \in near \intersect ranges : s \in e.first .. e.through
        BY <3>0
      <4> QED BY <4>1, <4>2, <4>3, <4>4, <4>5
    <3> QED BY <3>1
  <2>8. made \subseteq Interval /\ todo \subseteq Interval /\ taken \subseteq ranges
    BY <1>3, <2>1, <2>3
  <2>9. seen \subseteq Interval
    BY <1>6, <2>8
  <2> HIDE DEF taken, made, todo, seen, rest
  <2>10. Sound(k, ranges, retained)
    <3>1. k \in [candidates : SUBSET retained, todo : SUBSET Interval, seen : SUBSET Interval,
                 taken : SUBSET ranges, made : SUBSET Interval]
      BY <1>3, <2>8, <2>9 DEF k
    <3> QED BY <1>5, <1>9, <2>1, <2>6, <2>7, <3>1 DEF Sound
  <2>11. \A d \in Compactors \ {c} : /\ k.candidates \intersect compactions[d].candidates = {}
                                     /\ k.taken \intersect compactions[d].taken = {}
    <3>1. \A d \in Compactors \ {c} : /\ open.candidates \intersect compactions[d].candidates = {}
                                      /\ open.taken \intersect compactions[d].taken = {}
      BY DEF LogInv, CompactInv, OwnLocks, open
    <3> QED BY <1>1, <1>9, <2>1, <3>1
  <2>12. ASSUME ~overlapped
         PROVE  /\ Untouching(View(k, ranges))
                /\ k.todo # {} => k.seen = View(k, ranges)
                /\ \A d \in Compactors \ {c} : ~Open(d)
    <3>1. Alone
      BY <2>12 DEF LogInv, CompactInv
    <3>2. /\ Untouching(View(open, ranges)) /\ \A d \in Compactors \ {c} : ~Open(d)
      BY <1>5, <3>1 DEF Alone, Open, open
    <3>3. View(k, ranges) \subseteq View(open, ranges)
      BY <1>9, <2>1 DEF View
    <3>4. k.todo # {} => k.seen = View(k, ranges)
      BY <1>9 DEF View, seen
    <3> QED BY <3>2, <3>3, <3>4 DEF Untouching
  <2> QED BY <1>1, <2>10, <2>11, <2>12, CompactionMoves
<1> QED BY <1>10, <1>11

\* A transaction that rolls back leaves no trace
LEMMA AbortCompactStep ==
  ASSUME LogInv, NEW c \in Compactors, AbortCompact(c)
  PROVE  LogInv'
<1>1. /\ compactions' = [compactions EXCEPT ![c] = NoCompaction] /\ overlapped' = overlapped
      /\ UNCHANGED <<stored, retained, gaps, ranges, objects, ever, sweeps, poll, after>>
  BY DEF AbortCompact, history, stream
<1>2. Sound(NoCompaction, ranges, retained)
  BY EmptySound
<1>3. /\ NoCompaction.candidates = {} /\ NoCompaction.taken = {} /\ NoCompaction.todo = {}
      /\ View(NoCompaction, ranges) = ranges
  BY DEF NoCompaction, View
<1>4. ~overlapped => Untouching(ranges)
  BY DEF LogInv, CompactInv, Alone
<1> QED BY <1>1, <1>2, <1>3, <1>4, CompactionMoves

\* Tombstones turn into ranges: each sequence stays in one place, no range that
\* is there shrinks, and what other transactions hold is left alone
LEMMA CommitCompactStep ==
  ASSUME LogInv, NEW c \in Compactors, CommitCompact(c)
  PROVE  LogInv'
<1> DEFINE k == compactions[c]
<1>1. /\ Open(c) /\ k.todo = {}
      /\ retained' = retained \ k.candidates /\ ranges' = (ranges \ k.taken) \union k.made
      /\ compactions' = [compactions EXCEPT ![c] = NoCompaction] /\ overlapped' = overlapped
      /\ UNCHANGED <<stored, gaps, objects, ever, sweeps, poll, after>>
  BY DEF CommitCompact, stream
<1>2. /\ k.candidates \subseteq retained /\ k.taken \subseteq ranges
      /\ \A r \in ranges \union k.made : Proper(r)
      /\ Covered(k.made) = k.candidates \union Covered(k.taken)
      /\ \A r \in ranges \ k.taken, q \in k.made : \A s \in r.first .. r.through : s \notin q.first .. q.through
  <2>1. k.todo \union k.made = k.made
    BY <1>1
  <2> QED BY <2>1, OneCompaction
<1>3. Separate(k.made) /\ Separate(ranges)
  <2>1. Separate(k.todo \union k.made)
    BY DEF LogInv, CompactInv, Sound
  <2> QED BY <2>1 DEF LogInv, Separate
<1> HIDE DEF k
<1>4. Separate(ranges')
  <2>1. \A r \in ranges' : Proper(r)
    BY <1>1, <1>2
  <2>2. ASSUME NEW r \in ranges', NEW q \in ranges', NEW s \in r.first .. r.through, s \in q.first .. q.through
        PROVE  r = q
    <3>1. CASE r \in ranges \ k.taken /\ q \in ranges \ k.taken
      BY <1>3, <2>2, <3>1 DEF Separate
    <3>2. CASE r \in k.made /\ q \in k.made
      BY <1>3, <2>2, <3>2 DEF Separate
    <3>3. CASE r \in ranges \ k.taken /\ q \in k.made
      BY <1>2, <2>2, <3>3
    <3>4. CASE r \in k.made /\ q \in ranges \ k.taken
      BY <1>2, <2>2, <3>4
    <3> QED BY <1>1, <3>1, <3>2, <3>3, <3>4
  <2> QED BY <2>1, <2>2 DEF Separate
<1>5. Covered(ranges') = Covered(ranges) \union k.candidates
  <2> SUFFICES ASSUME NEW s PROVE s \in Covered(ranges') <=> s \in Covered(ranges) \/ s \in k.candidates
    OBVIOUS
  <2>1. s \in Covered(ranges') <=> (\E r \in ranges \ k.taken : s \in r.first .. r.through) \/ s \in Covered(k.made)
    BY <1>1, CoveredBy
  <2>2. s \in Covered(ranges) <=> (\E r \in ranges \ k.taken : s \in r.first .. r.through) \/ s \in Covered(k.taken)
    BY <1>2, CoveredBy
  <2> QED BY <1>2, <2>1, <2>2
<1>6. Covered(ranges)' = Covered(ranges) \union k.candidates
  BY <1>5 DEF Covered
<1>7. TypeOK'
  BY <1>1, <1>4 DEF LogInv, TypeOK, Separate, Proper
<1>8. OnePlace'
  BY <1>1, <1>2, <1>6 DEF LogInv, OnePlace
<1>9. TombstonesHaveNoBody'
  BY <1>1, <1>2, <1>6 DEF LogInv, TombstonesHaveNoBody
<1>10. SweepInv'
  BY <1>1 DEF LogInv, SweepInv
<1>11. PollInv'
  <2>1. poll.chunks \subseteq stored \union retained' \union Covered(ranges)'
    BY <1>1, <1>6 DEF LogInv, PollInv
  <2>2. CutOff(poll.chunks, poll.known \intersect (stored \union retained'))
    BY <1>1 DEF LogInv, PollInv, CutOff
  <2> QED BY <1>1, <2>1, <2>2 DEF LogInv, PollInv, CutOff
<1>12. /\ compactions'[c] = NoCompaction
       /\ \A d \in Compactors : d # c => compactions'[d] = compactions[d]
       /\ DOMAIN compactions' = Compactors
       /\ compactions' = [d \in Compactors |-> compactions'[d]]
  BY <1>1 DEF LogInv, CompactInv
<1>13. NoCompaction.candidates = {} /\ NoCompaction.taken = {} /\ NoCompaction.todo = {} /\ NoCompaction.made = {}
  BY DEF NoCompaction
<1>14. ASSUME NEW d \in Compactors PROVE Sound(compactions'[d], ranges', retained')
  <2>1. CASE d = c
    BY <1>12, <2>1, EmptySound
  <2>2. CASE d # c
    <3>1. /\ Sound(compactions[d], ranges, retained)
          /\ compactions[d].candidates \intersect k.candidates = {}
          /\ compactions[d].taken \intersect k.taken = {}
      BY <2>2 DEF LogInv, CompactInv, OwnLocks, k
    <3>2. compactions[d].candidates \subseteq retained' /\ compactions[d].taken \subseteq ranges'
      BY <1>1, <3>1 DEF Sound
    <3>3. Sound(compactions[d], ranges', retained')
      BY <3>1, <3>2 DEF Sound
    <3> QED BY <1>12, <2>2, <3>3
  <2> QED BY <2>1, <2>2
<1>15. OwnLocks'
  <2> SUFFICES ASSUME NEW d \in Compactors, NEW e \in Compactors, d # e
               PROVE  /\ compactions'[d].candidates \intersect compactions'[e].candidates = {}
                      /\ compactions'[d].taken \intersect compactions'[e].taken = {}
    BY DEF OwnLocks
  <2>1. CASE d # c /\ e # c
    BY <1>12, <2>1 DEF LogInv, CompactInv, OwnLocks
  <2>2. CASE d = c \/ e = c
    BY <1>12, <1>13, <2>2
  <2> QED BY <2>1, <2>2
<1>16. ~overlapped' => Alone'
  <2> SUFFICES ASSUME ~overlapped' PROVE Alone'
    OBVIOUS
  <2>1. Alone
    BY <1>1 DEF LogInv, CompactInv
  <2>2. \A d \in Compactors : compactions'[d] = NoCompaction
    <3> SUFFICES ASSUME NEW d \in Compactors, d # c PROVE compactions[d] = NoCompaction
      BY <1>12
    <3>1. compactions[d].candidates = {}
      BY <1>1, <2>1 DEF Alone, Open
    <3> QED BY <3>1 DEF LogInv, CompactInv, Sound
  <2>3. Untouching(ranges')
    <3>1. ranges' = View(compactions[c], ranges)
      BY <1>1 DEF View, k
    <3> QED BY <2>1, <3>1 DEF Alone
  <2>4. View(NoCompaction, ranges') = ranges'
    BY <1>13 DEF View
  <2> QED BY <1>13, <2>2, <2>3, <2>4 DEF Alone, Open
<1>17. CompactInv'
  BY <1>12, <1>14, <1>15, <1>16 DEF CompactInv
<1> QED BY <1>4, <1>7, <1>8, <1>9, <1>10, <1>11, <1>17 DEF LogInv

\* A step of the stream leaves the history to itself
LEMMA OthersStay ==
  ASSUME LogInv, UNCHANGED <<stored, retained, gaps, ranges, objects, ever, sweeps, compactions, overlapped>>,
         after' \in -1 .. MaxSequence, PollInv'
  PROVE  LogInv'
<1>1. Covered(ranges)' = Covered(ranges)
  BY DEF Covered
<1>2. TypeOK' /\ Separate(ranges)' /\ OnePlace' /\ TombstonesHaveNoBody'
  BY <1>1 DEF LogInv, TypeOK, OnePlace, TombstonesHaveNoBody
<1>3. SweepInv'
  BY DEF LogInv, SweepInv
<1>4. CompactInv'
  BY CompactionsStay DEF LogInv
<1> QED BY <1>2, <1>3, <1>4 DEF LogInv

\* The first query of a poll: what it leaves out lies behind a full answer
LEMMA ListChunksStep ==
  ASSUME LogInv, ListChunks
  PROVE  LogInv'
<1> DEFINE rows == {s \in stored \union retained : s > after}
           listed == Least(rows, PageLimit + 1)
<1>1. /\ poll' = [step |-> "gaps", chunks |-> listed, gaps |-> {}, known |-> ever]
      /\ UNCHANGED <<stored, retained, gaps, ranges, objects, ever, sweeps, compactions, overlapped, after>>
  BY DEF ListChunks, NoPoll, history, compacting
<1>2. rows \in SUBSET (0 .. MaxSequence) /\ PageLimit + 1 \in Nat /\ PageLimit \in Nat
  <2>1. PageLimit + 1 \in Nat /\ PageLimit \in Nat
    BY Bounds
  <2>2. stored \union retained \union gaps \subseteq 0 .. MaxSequence
    BY DEF LogInv, TypeOK
  <2> QED BY <2>1, <2>2
<1>3. /\ listed \subseteq rows
      /\ \A s \in rows \ listed : Cardinality(listed) >= PageLimit + 1 /\ \A c \in listed : c < s
  <2> HIDE DEF rows
  <2> QED BY <1>2, LeastProperties
<1>4. Cardinality(listed) >= PageLimit + 1 => Cardinality(listed) > PageLimit
  <2>1. Cardinality(listed) \in Nat
    BY <1>2, <1>3, FiniteSequences
  <2> HIDE DEF listed
  <2> QED BY <1>2, <2>1
<1>5. CutOff(listed, ever \intersect (stored \union retained))
  <2> HIDE DEF listed
  <2> QED BY <1>3, <1>4 DEF CutOff
<1>6. listed \subseteq ever /\ listed \subseteq stored \union retained /\ \A s \in listed : s > after
  <2> HIDE DEF listed
  <2> QED BY <1>3 DEF LogInv, OnePlace
<1> HIDE DEF listed
<1>7. PollInv'
  <2>1. /\ poll'.step = "gaps" /\ poll'.gaps = {} /\ poll'.chunks = listed /\ poll'.known = ever
        /\ poll' \in [step : {"idle", "gaps", "ranges"}, chunks : SUBSET ever, gaps : SUBSET ever,
                      known : SUBSET ever]
    BY <1>1, <1>6
  <2> QED BY <1>1, <1>5, <1>6, <2>1 DEF PollInv, CutOff
<1>8. after' \in -1 .. MaxSequence
  BY <1>1 DEF LogInv, TypeOK
<1> QED BY <1>1, <1>7, <1>8, OthersStay

\* The second query, for the gaps as they are by then
LEMMA ListGapsStep ==
  ASSUME LogInv, ListGaps
  PROVE  LogInv'
<1> DEFINE rows == {s \in gaps : s > after}
           listed == Least(rows, PageLimit + 1)
<1>1. /\ poll' = [poll EXCEPT !.step = "ranges", !.gaps = listed]
      /\ UNCHANGED <<stored, retained, gaps, ranges, objects, ever, sweeps, compactions, overlapped, after>>
  BY DEF ListGaps, history, compacting
<1>2. rows \in SUBSET (0 .. MaxSequence) /\ PageLimit + 1 \in Nat /\ PageLimit \in Nat
  <2>1. PageLimit + 1 \in Nat /\ PageLimit \in Nat
    BY Bounds
  <2>2. stored \union retained \union gaps \subseteq 0 .. MaxSequence
    BY DEF LogInv, TypeOK
  <2> QED BY <2>1, <2>2
<1>3. /\ listed \subseteq rows
      /\ \A s \in rows \ listed : Cardinality(listed) >= PageLimit + 1 /\ \A c \in listed : c < s
  <2> HIDE DEF rows
  <2> QED BY <1>2, LeastProperties
<1>4. Cardinality(listed) >= PageLimit + 1 => Cardinality(listed) > PageLimit
  <2>1. Cardinality(listed) \in Nat
    BY <1>2, <1>3, FiniteSequences
  <2> HIDE DEF listed
  <2> QED BY <1>2, <2>1
<1>5. CutOff(listed, poll.known \intersect gaps)
  <2> HIDE DEF listed
  <2> QED BY <1>3, <1>4 DEF CutOff
<1>6. listed \subseteq ever /\ listed \subseteq gaps /\ \A s \in listed : s > after
  <2> HIDE DEF listed
  <2> QED BY <1>3 DEF LogInv, OnePlace
<1> HIDE DEF listed
<1>7. PollInv'
  <2>1. /\ poll'.step = "ranges" /\ poll'.gaps = listed
        /\ poll'.chunks = poll.chunks /\ poll'.known = poll.known
        /\ poll' \in [step : {"idle", "gaps", "ranges"}, chunks : SUBSET ever, gaps : SUBSET ever,
                      known : SUBSET ever]
    BY <1>1, <1>6 DEF LogInv, PollInv
  <2> QED BY <1>1, <1>5, <1>6, <2>1 DEF LogInv, PollInv, CutOff
<1>8. after' \in -1 .. MaxSequence
  BY <1>1 DEF LogInv, TypeOK
<1> QED BY <1>1, <1>7, <1>8, OthersStay

-----------------------------------------------------------------------------
(* The page                                                                 *)

Before(R, x) == {y \in R : y.first < x.first}

\* The first n records
FirstOf(R, n) == {x \in R : Cardinality(Before(R, x)) < n}

\* Records do not overlap
Disjoint(R) == \A x, y \in R : x # y => x.through < y.first \/ y.through < x.first

\* Records of a page, and those before one of them, can be counted
LEMMA FiniteRecords ==
  ASSUME NEW R \in SUBSET Interval
  PROVE  /\ IsFiniteSet(R) /\ Cardinality(R) \in Nat
         /\ \A x : IsFiniteSet(Before(R, x)) /\ Cardinality(Before(R, x)) \in Nat
<1>1. IsFiniteSet(R)
  BY FiniteInterval, FS_Subset
<1>2. \A x : Before(R, x) \in SUBSET R
  BY DEF Before
<1>3. \A x : IsFiniteSet(Before(R, x))
  BY <1>1, <1>2, FS_Subset
<1> QED BY <1>1, <1>3, FS_CardinalityType

\* A record that is left out comes after a full page
LEMMA FirstOfProperties ==
  ASSUME NEW R \in SUBSET Interval, NEW n \in Nat, NEW r \in R \ FirstOf(R, n)
  PROVE  /\ Cardinality(FirstOf(R, n)) >= n
         /\ \A x \in FirstOf(R, n) : x.first < r.first
<1> DEFINE F == FirstOf(R, n)
<1>1. /\ F \subseteq R
      /\ \A x \in R : x \in F <=> Cardinality(Before(R, x)) < n
      /\ \A x \in R : x.first \in Nat
  BY IntervalTypes DEF FirstOf
<1>2. \A x : IsFiniteSet(Before(R, x)) /\ Cardinality(Before(R, x)) \in Nat
  BY FiniteRecords
<1> HIDE DEF F
<1>3. ASSUME NEW x \in F, r.first <= x.first PROVE FALSE
  <2>1. Before(R, r) \in SUBSET Before(R, x)
    <3> SUFFICES ASSUME NEW y \in R, y.first < r.first PROVE y.first < x.first
      BY DEF Before
    <3>1. y.first \in Nat /\ r.first \in Nat /\ x.first \in Nat
      BY <1>1
    <3> QED BY <1>3, <3>1
  <2>2. Cardinality(Before(R, r)) <= Cardinality(Before(R, x))
    BY <1>2, <2>1, FS_Subset
  <2>3. Cardinality(Before(R, x)) < n /\ ~(Cardinality(Before(R, r)) < n)
    BY <1>1 DEF F
  <2> QED BY <1>2, <2>2, <2>3
<1>4. Cardinality(F) >= n
  <2> DEFINE out == {x.first : x \in R \ F}
  <2>1. out \in SUBSET Nat /\ out # {}
    BY <1>1 DEF F
  <2>2. PICK f \in out : \A g \in out : f <= g
    <3> HIDE DEF out
    <3> QED BY <2>1, LeastMember
  <2>3. PICK m \in R \ F : m.first = f
    BY <2>2
  <2>4. Before(R, m) \in SUBSET F
    <3> SUFFICES ASSUME NEW y \in R, y.first < m.first, y \notin F PROVE FALSE
      BY DEF Before
    <3>1. y.first \in out /\ y.first \in Nat /\ m.first \in Nat
      BY <1>1, <2>3
    <3> QED BY <2>2, <2>3, <3>1
  <2>5. IsFiniteSet(F) /\ Cardinality(F) \in Nat
    BY <1>1, FiniteRecords
  <2>6. Cardinality(Before(R, m)) <= Cardinality(F)
    BY <2>4, <2>5, FS_Subset
  <2>7. ~(Cardinality(Before(R, m)) < n)
    BY <1>1, <2>3
  <2> QED BY <1>2, <2>5, <2>6, <2>7
<1>5. \A x \in F : x.first < r.first
  BY <1>1, <1>3
<1> QED BY <1>4, <1>5 DEF F

\* Of n different records some one is not before a record of the page
LEMMA PageCut ==
  ASSUME NEW R \in SUBSET Interval, NEW n \in Nat, NEW x \in FirstOf(R, n),
         NEW C, NEW f \in [C -> R], \A c, d \in C : c # d => f[c] # f[d],
         Cardinality(C) >= n
  PROVE  \E c \in C : x.first <= f[c].first
<1> SUFFICES ASSUME \A c \in C : ~(x.first <= f[c].first) PROVE FALSE
  OBVIOUS
<1>1. x \in R /\ Cardinality(Before(R, x)) < n
  BY DEF FirstOf
<1>2. \A c \in C : f[c] \in Before(R, x)
  <2> SUFFICES ASSUME NEW c \in C PROVE f[c].first < x.first
    BY DEF Before
  <2>1. f[c].first \in Nat /\ x.first \in Nat
    BY <1>1, IntervalTypes
  <2> QED BY <2>1
<1>3. f \in Injection(C, Before(R, x))
  BY <1>2 DEF Injection, IsInjective
<1>4. IsFiniteSet(Before(R, x)) /\ Cardinality(Before(R, x)) \in Nat
  BY FiniteRecords
<1>5. IsFiniteSet(C) /\ Cardinality(C) <= Cardinality(Before(R, x))
  BY <1>3, <1>4, FS_Injection
<1>6. Cardinality(C) \in Nat
  BY <1>5, FS_CardinalityType
<1> QED BY <1>1, <1>4, <1>5, <1>6

\* What a poll reads of a range, and the records its page is cut from
Clip(r) == [first |-> IF r.first > after THEN r.first ELSE after + 1, through |-> r.through]

Past == {r \in ranges : r.through > after}

Rows == (poll.chunks \ Covered(ListedRanges)) \union poll.gaps

Single(s) == [first |-> s, through |-> s]

Records == {Single(s) : s \in Rows} \union ListedRanges

\* The ranges listed and the page are each the first of what there is, up to the limit
LEMMA PageIs ==
  /\ ListedRanges = {Clip(r) : r \in FirstOf(Past, PageLimit + 1)}
  /\ Page(ListedRanges) = FirstOf(Records, PageLimit)
<1>1. ListedRanges = {Clip(r) : r \in FirstOf(Past, PageLimit + 1)}
  BY DEF ListedRanges, Clip, FirstOf, Past, Before
<1>2. Page(ListedRanges) = FirstOf(Records, PageLimit)
  BY DEF Page, FirstOf, Before, Records, Rows, Single
<1> QED BY <1>1, <1>2

\* A range that began before the cursor is cut to the part beyond it
LEMMA ClipProperties ==
  ASSUME LogInv, NEW r \in Past
  PROVE  /\ Clip(r) \in Interval /\ Clip(r).first <= Clip(r).through
         /\ Clip(r).through = r.through /\ r.first <= Clip(r).first
         /\ \A s \in r.first .. r.through : s > after => s \in Clip(r).first .. Clip(r).through
<1>1. r \in ranges /\ r.through > after /\ r \in Interval /\ r.first <= r.through
  BY DEF Past, LogInv, Separate, Proper
<1>2. r.first \in Nat /\ r.through \in Nat /\ r.through <= MaxSequence /\ MaxSequence \in Nat
      /\ r.through \in 0 .. MaxSequence
  BY <1>1, Bounds, IntervalTypes
<1>3. after \in Int /\ after >= -1
  BY Bounds DEF LogInv, TypeOK
<1> DEFINE f == IF r.first > after THEN r.first ELSE after + 1
<1>4. f \in 0 .. MaxSequence /\ f <= r.through /\ r.first <= f
      /\ \A s \in r.first .. r.through : s > after => s \in f .. r.through
  BY <1>1, <1>2, <1>3
<1>5. Clip(r) = [first |-> f, through |-> r.through]
  BY DEF Clip
<1> HIDE DEF f
<1> QED BY <1>2, <1>4, <1>5 DEF Interval

\* The records a page is chosen from do not overlap
LEMMA RecordsProperties ==
  ASSUME LogInv
  PROVE  /\ Records \in SUBSET Interval /\ \A x \in Records : x.first <= x.through
         /\ Disjoint(Records)
         /\ Covered(ListedRanges) \subseteq Covered(ranges)
<1> DEFINE L == FirstOf(Past, PageLimit + 1)
<1>1. L \subseteq Past /\ Past \subseteq ranges
  BY DEF FirstOf, Past
<1>2. ListedRanges = {Clip(r) : r \in L}
  BY PageIs
<1> HIDE DEF L
<1>3. Rows \subseteq 0 .. MaxSequence /\ Rows \subseteq Nat
  <2>1. Rows \subseteq ever
    BY DEF Rows, LogInv, PollInv
  <2>2. ever \subseteq 0 .. MaxSequence
    BY DEF LogInv, TypeOK
  <2> QED BY <2>1, <2>2, Bounds
<1>4. ASSUME NEW s \in Rows PROVE Single(s) \in Interval /\ Single(s).first <= Single(s).through
  BY <1>3 DEF Single, Interval
<1>5. Covered(ListedRanges) \subseteq Covered(ranges)
  <2> SUFFICES ASSUME NEW s \in Covered(ListedRanges) PROVE s \in Covered(ranges)
    OBVIOUS
  <2>1. PICK r \in L : s \in Clip(r).first .. Clip(r).through
    BY <1>2, CoveredBy
  <2>2. r \in Past /\ r \in ranges
    BY <1>1
  <2>3. r \in Interval /\ Clip(r) \in Interval /\ Clip(r).through = r.through /\ r.first <= Clip(r).first
    BY <2>2, ClipProperties DEF LogInv, TypeOK
  <2>4. r.first \in Nat /\ r.through \in Nat /\ Clip(r).first \in Nat
    BY <2>3, IntervalTypes
  <2>5. s \in r.first .. r.through
    BY <2>1, <2>3, <2>4
  <2> QED BY <2>2, <2>5, CoveredBy
<1>6. Records \in SUBSET Interval /\ \A x \in Records : x.first <= x.through
  BY <1>1, <1>2, <1>4, ClipProperties DEF Records
<1>7. \A s \in Rows : s \notin Covered(ListedRanges)
  BY <1>5 DEF Rows, LogInv, PollInv, OnePlace
<1>8. Disjoint(Records)
  <2> SUFFICES ASSUME NEW x \in Records, NEW y \in Records, x # y
               PROVE  x.through < y.first \/ y.through < x.first
    BY DEF Disjoint
  <2>1. /\ x.first \in Nat /\ x.through \in Nat /\ y.first \in Nat /\ y.through \in Nat
        /\ x.first <= x.through /\ y.first <= y.through
    BY <1>6, IntervalTypes
  <2>2. CASE x \in ListedRanges /\ y \in ListedRanges
    <3>1. PICK r \in L, q \in L : x = Clip(r) /\ y = Clip(q)
      BY <1>2, <2>2
    <3>2. r \in Past /\ q \in Past /\ r \in ranges /\ q \in ranges /\ r # q
      BY <1>1, <3>1
    <3>3. r.through < q.first \/ q.through < r.first
      BY <3>2, SeparateOrder DEF LogInv
    <3>4. /\ x.through = r.through /\ r.first <= x.first /\ y.through = q.through /\ q.first <= y.first
      BY <3>1, <3>2, ClipProperties
    <3>5. r.first \in Nat /\ q.first \in Nat
      BY <3>2, IntervalTypes DEF LogInv, TypeOK
    <3> QED BY <2>1, <3>3, <3>4, <3>5
  <2>3. CASE x \notin ListedRanges /\ y \notin ListedRanges
    <3>1. PICK s \in Rows, t \in Rows : x = Single(s) /\ y = Single(t)
      BY <2>3 DEF Records
    <3>2. x.first = s /\ x.through = s /\ y.first = t /\ y.through = t /\ s # t
      BY <3>1 DEF Single
    <3> QED BY <2>1, <3>2
  <2>4. ASSUME NEW u \in Records, NEW v \in ListedRanges, u \notin ListedRanges
        PROVE  u.through < v.first \/ v.through < u.first
    <3>1. PICK s \in Rows : u = Single(s)
      BY <2>4 DEF Records
    <3>2. u.first = s /\ u.through = s /\ s \in Nat
      BY <1>3, <3>1 DEF Single
    <3>3. s \notin v.first .. v.through
      BY <1>7, <3>1, CoveredBy
    <3>4. v.first \in Nat /\ v.through \in Nat
      BY <1>6, IntervalTypes DEF Records
    <3> QED BY <3>2, <3>3, <3>4
  <2> QED BY <2>2, <2>3, <2>4
<1> QED BY <1>5, <1>6, <1>8

\* A page that leaves n records behind, all before s, ends before s
LEMMA PageEndsBefore ==
  ASSUME LogInv, NEW x \in Page(ListedRanges), NEW s \in Nat,
         NEW C, NEW f \in [C -> Records], \A c, d \in C : c # d => f[c] # f[d],
         Cardinality(C) >= PageLimit, \A c \in C : f[c].through < s
  PROVE  x.through < s
<1>1. x \in FirstOf(Records, PageLimit) /\ x \in Records /\ Records \in SUBSET Interval /\ PageLimit \in Nat
  BY PageIs, RecordsProperties, Bounds DEF FirstOf
<1>2. PICK c \in C : x.first <= f[c].first
  BY <1>1, PageCut
<1> DEFINE k == f[c]
<1>3. k \in Records /\ k.through < s /\ x.first <= k.first
  BY <1>2
<1> HIDE DEF k
<1>4. /\ x.first \in Nat /\ x.through \in Nat /\ k.first \in Nat /\ k.through \in Nat
      /\ k.first <= k.through
      /\ x # k => x.through < k.first \/ k.through < x.first
  BY <1>1, <1>3, IntervalTypes, RecordsProperties DEF Disjoint
<1> QED BY <1>3, <1>4

\* A row of a full answer is a record
LEMMA RowsFillPage ==
  ASSUME LogInv, NEW x \in Page(ListedRanges), NEW s \in Nat,
         NEW C \in SUBSET Rows, Cardinality(C) > PageLimit, \A c \in C : c < s
  PROVE  x.through < s
<1> DEFINE f == [c \in C |-> Single(c)]
<1>1. f \in [C -> Records]
  BY DEF Records
<1>2. \A c, d \in C : c # d => f[c] # f[d]
  BY DEF Single
<1>3. \A c \in C : f[c].through < s
  BY DEF Single
<1>4. Cardinality(C) >= PageLimit
  <2>1. C \in SUBSET (0 .. MaxSequence)
    BY DEF Rows, LogInv, PollInv, TypeOK
  <2>2. Cardinality(C) \in Nat
    BY <2>1, FiniteSequences
  <2> QED BY <2>2, Bounds
<1> HIDE DEF f
<1> QED BY <1>1, <1>2, <1>3, <1>4, PageEndsBefore

\* ... and so is what a poll reads of a range
LEMMA RangesFillPage ==
  ASSUME LogInv, NEW x \in Page(ListedRanges), NEW s \in Nat, NEW r \in Past, s >= r.first,
         r \notin FirstOf(Past, PageLimit + 1)
  PROVE  x.through < s
<1> DEFINE C == FirstOf(Past, PageLimit + 1)
           f == [c \in C |-> Clip(c)]
<1>1. /\ Past \in SUBSET Interval /\ PageLimit + 1 \in Nat /\ PageLimit \in Nat
      /\ C \in SUBSET Past /\ Past \in SUBSET ranges /\ r \in Past \ C
  BY Bounds DEF Past, FirstOf, LogInv, TypeOK
<1>2. Cardinality(C) >= PageLimit + 1 /\ \A c \in C : c.first < r.first
  BY <1>1, FirstOfProperties
<1>3. f \in [C -> Records]
  BY PageIs DEF Records
<1> HIDE DEF C
<1>4. ASSUME NEW c \in C PROVE f[c].through = c.through /\ f[c].through < s
  <2>1. /\ c.first \in Nat /\ c.through \in Nat /\ r.first \in Nat /\ r.through \in Nat
        /\ c.first <= c.through /\ r.first <= r.through
        /\ c # r => c.through < r.first \/ r.through < c.first
    BY <1>1, IntervalTypes, SeparateOrder DEF LogInv, Separate, Proper
  <2>2. f[c].through = c.through
    BY <1>1, ClipProperties
  <2>3. c.first < r.first
    BY <1>2
  <2> QED BY <2>1, <2>2, <2>3
<1>5. ASSUME NEW c \in C, NEW d \in C, c # d PROVE f[c] # f[d]
  <2>1. /\ c.first \in Nat /\ c.through \in Nat /\ d.first \in Nat /\ d.through \in Nat
        /\ c.first <= c.through /\ d.first <= d.through
        /\ c.through < d.first \/ d.through < c.first
    BY <1>1, <1>5, IntervalTypes, SeparateOrder DEF LogInv, Separate, Proper
  <2>2. c.through # d.through
    BY <2>1
  <2> QED BY <1>4, <2>2
<1>6. Cardinality(C) >= PageLimit
  <2>1. Cardinality(C) \in Nat
    BY <1>1, FiniteRecords
  <2> QED BY <1>1, <1>2, <2>1
<1>7. \A c \in C : f[c].through < s
  BY <1>4
<1> HIDE DEF f
<1> QED BY <1>3, <1>5, <1>6, <1>7, PageEndsBefore

\* The cursor moves to the end of the page
LEMMA SendPageMoves ==
  ASSUME LogInv, SendPage
  PROVE  \/ after' = after /\ sent' = sent
         \/ /\ \E x \in Page(ListedRanges) : after' = x.through /\ after' \in 0 .. MaxSequence
            /\ \A x \in Page(ListedRanges) : x.through <= after'
            /\ sent' = sent \union Covered(Page(ListedRanges))
<1> DEFINE page == Page(ListedRanges)
           ends == {x.through : x \in page}
<1>1. page \in SUBSET Interval
  BY PageIs, RecordsProperties DEF FirstOf
<1>2. CASE page = {}
  BY <1>2 DEF SendPage
<1>3. CASE page # {}
  <2>1. /\ after' = CHOOSE t \in ends : \A x \in page : t >= x.through
        /\ sent' = sent \union Covered(page)
    BY <1>3 DEF SendPage
  <2> HIDE DEF page
  <2>2. ends \in SUBSET (0 .. MaxSequence) /\ ends # {}
    BY <1>1, <1>3, IntervalTypes
  <2>3. \E t \in ends : \A u \in ends : t >= u
    <3> HIDE DEF ends
    <3> QED BY <2>2, Bounds, GreatestMember
  <2>4. \E t \in ends : \A x \in page : t >= x.through
    BY <2>3
  <2>5. after' \in ends /\ \A x \in page : after' >= x.through
    BY <2>1, <2>4
  <2>6. \A x \in page : x.through \in Nat /\ x.through \in 0 .. MaxSequence
    BY <1>1, IntervalTypes
  <2>7. \E x \in page : after' = x.through /\ after' \in 0 .. MaxSequence
    BY <2>5, <2>6
  <2>8. \A x \in page : x.through <= after'
    BY <2>5, <2>6, <2>7
  <2> QED BY <2>1, <2>7, <2>8 DEF page
<1> QED BY <1>2, <1>3

\* The page is sent and the cursor moves; the tables stay as they are
LEMMA SendPageStep ==
  ASSUME LogInv, SendPage
  PROVE  LogInv'
<1>1. poll' = NoPoll /\ UNCHANGED <<stored, retained, gaps, ranges, objects, ever, sweeps, compactions, overlapped>>
  BY DEF SendPage, history, compacting
<1>2. after' \in -1 .. MaxSequence
  <2>1. after \in -1 .. MaxSequence
    BY DEF LogInv, TypeOK
  <2> QED BY <2>1, SendPageMoves, Bounds
<1>3. PollInv'
  BY <1>1 DEF PollInv, NoPoll, CutOff
<1> QED BY <1>1, <1>2, <1>3, OthersStay

\* A page covers every record up to its end
LEMMA PageHasNoHole ==
  ASSUME LogInv, NEW y \in Records, NEW s \in y.first .. y.through,
         NEW x \in Page(ListedRanges), s <= x.through
  PROVE  s \in Covered(Page(ListedRanges))
<1>1. /\ Page(ListedRanges) = FirstOf(Records, PageLimit) /\ x \in Records
      /\ Records \in SUBSET Interval /\ PageLimit \in Nat
  BY PageIs, RecordsProperties, Bounds DEF FirstOf
<1>2. y \in Page(ListedRanges)
  <2> SUFFICES ASSUME y \notin FirstOf(Records, PageLimit) PROVE FALSE
    BY <1>1
  <2>1. x.first < y.first
    BY <1>1, FirstOfProperties
  <2>2. /\ x.first \in Nat /\ x.through \in Nat /\ y.first \in Nat /\ y.through \in Nat
        /\ y.first <= y.through /\ s \in Nat
        /\ x # y => x.through < y.first \/ y.through < x.first
    BY <1>1, IntervalTypes, RecordsProperties DEF Disjoint
  <2> QED BY <2>1, <2>2
<1> QED BY <1>2, CoveredBy

\* SendPage passes over nothing that was recorded when its poll began
LEMMA SendIsComplete ==
  ASSUME LogInv, SendPage, ~FoldedAway, NEW s \in poll.known, after < s, s <= after'
  PROVE  s \in sent'
<1>1. s \in ever /\ s \in Nat /\ poll.step = "ranges" /\ after \in Int
  <2>1. s \in ever /\ ever \subseteq 0 .. MaxSequence /\ after \in -1 .. MaxSequence
    BY DEF LogInv, PollInv, TypeOK
  <2> QED BY <2>1, Bounds DEF SendPage
<1>2. after' # after
  BY <1>1
<1>3. PICK x \in Page(ListedRanges) : after' = x.through /\ after' \in 0 .. MaxSequence
  BY <1>2, SendPageMoves
<1>4. sent' = sent \union Covered(Page(ListedRanges))
  BY <1>2, SendPageMoves
<1>5. s <= x.through /\ ~(x.through < s)
  BY <1>1, <1>3, Bounds
<1>6. ASSUME NEW y \in Records, s \in y.first .. y.through PROVE s \in sent'
  BY <1>4, <1>5, <1>6, PageHasNoHole
<1>7. ASSUME s \in Rows PROVE s \in sent'
  <2>1. Single(s) \in Records /\ s \in Single(s).first .. Single(s).through
    BY <1>1, <1>7 DEF Records, Single
  <2> QED BY <1>6, <2>1
<1>8. ASSUME s \in Covered(ListedRanges) PROVE s \in sent'
  <2>1. PICK y \in ListedRanges : s \in y.first .. y.through
    BY <1>8, CoveredBy
  <2> QED BY <1>6, <2>1 DEF Records
<1>9. CASE s \in stored \union retained
  <2>1. CASE s \in poll.chunks
    BY <1>7, <1>8, <2>1 DEF Rows
  <2>2. CASE s \notin poll.chunks
    <3>1. Cardinality(poll.chunks) > PageLimit /\ \A c \in poll.chunks : c < s
      BY <1>9, <2>2 DEF LogInv, PollInv, CutOff
    <3>2. poll.chunks \in SUBSET Rows
      BY <3>1, RecordsProperties DEF FoldedAway, Rows
    <3> QED BY <1>1, <1>5, <3>1, <3>2, RowsFillPage
  <2> QED BY <2>1, <2>2
<1>10. CASE s \in gaps
  <2>1. CASE s \in poll.gaps
    BY <1>7, <2>1 DEF Rows
  <2>2. CASE s \notin poll.gaps
    <3>1. Cardinality(poll.gaps) > PageLimit /\ \A c \in poll.gaps : c < s
      BY <1>1, <1>10, <2>2 DEF LogInv, PollInv, CutOff
    <3>2. poll.gaps \in SUBSET Rows
      BY DEF Rows
    <3> QED BY <1>1, <1>5, <3>1, <3>2, RowsFillPage
  <2> QED BY <2>1, <2>2
<1>11. CASE s \in Covered(ranges)
  <2>1. PICK r \in ranges : s \in r.first .. r.through
    BY <1>11, CoveredBy
  <2>2. r.first \in Nat /\ r.through \in Nat
    BY IntervalTypes DEF LogInv, TypeOK
  <2>3. r \in Past /\ s >= r.first
    BY <1>1, <2>1, <2>2 DEF Past
  <2>4. r \in FirstOf(Past, PageLimit + 1)
    BY <1>1, <1>5, <2>3, RangesFillPage
  <2>5. s \in Clip(r).first .. Clip(r).through
    BY <2>1, <2>3, ClipProperties
  <2>6. Clip(r) \in Records
    BY <2>4, PageIs DEF Records
  <2> QED BY <1>6, <2>5, <2>6
<1> QED BY <1>1, <1>9, <1>10, <1>11 DEF LogInv, OnePlace

-----------------------------------------------------------------------------
(* Theorems                                                                 *)

\* Every step keeps the invariant
LEMMA NextHolds ==
  ASSUME LogInv, Next
  PROVE  LogInv'
<1>1. ASSUME NEW s \in 0 .. MaxSequence, RecordRow(s) PROVE LogInv'
  BY <1>1, RecordRowStep
<1>2. ASSUME NEW w \in Sweepers, SweepStep(w) \/ RemovalFails(w) \/ KillSweeper(w) PROVE LogInv'
  BY <1>2, ListForRetentionStep, RemoveBodyStep, MarkRetainedStep, RemovalFailsStep, KillSweeperStep
     DEF SweepStep
<1>3. ASSUME NEW c \in Compactors, CompactStep(c) PROVE LogInv'
  BY <1>3, BeginCompactStep, LockRangesStep, CommitCompactStep, AbortCompactStep DEF CompactStep
<1>4. ASSUME PollStep PROVE LogInv'
  BY <1>4, ListChunksStep, ListGapsStep, SendPageStep DEF PollStep
<1> QED BY <1>1, <1>2, <1>3, <1>4 DEF Next

\* ... and so does a step that changes nothing
LEMMA StutterHolds ==
  ASSUME LogInv, UNCHANGED vars
  PROVE  LogInv'
<1>1. UNCHANGED <<stored, retained, gaps, ranges, objects, ever, sweeps, compactions, overlapped, poll, after>>
  BY DEF vars, history, stream, compacting
<1>2. PollInv' /\ after' \in -1 .. MaxSequence
  BY <1>1 DEF LogInv, PollInv, CutOff, Covered, TypeOK
<1> QED BY <1>1, <1>2, OthersStay

(***************************************************************************)
(* Recording, retention, compactions that overlap and a poll, interleaved  *)
(* in any way and with workers killed between removing a body and marking  *)
(* its row or before they commit, keep LogInv: what was recorded is in one *)
(* place, tombstones have no body, no two compactions hold the same        *)
(* tombstone or range, no sequence is in two ranges, and the rows that a   *)
(* poll's query left out come after a full answer.                         *)
(***************************************************************************)
THEOREM LogInvariance == Spec => []LogInv
<1>1. Init => LogInv
  BY InitHolds
<1>2. LogInv /\ [Next]_vars => LogInv'
  BY NextHolds, StutterHolds
<1> QED BY <1>1, <1>2, PTL DEF Spec

\* Four disjoint sets have as many members as their union
LEMMA CardinalityOfPlaces ==
  ASSUME LogInv
  PROVE  Cardinality(stored) + Cardinality(retained) + Cardinality(gaps)
           + Cardinality(Covered(ranges)) = Cardinality(ever)
<1> DEFINE A == stored \union retained
           B == A \union gaps
           D == Covered(ranges)
<1>1. /\ IsFiniteSet(stored) /\ IsFiniteSet(retained) /\ IsFiniteSet(gaps) /\ IsFiniteSet(D)
      /\ Cardinality(stored) \in Nat /\ Cardinality(retained) \in Nat
      /\ Cardinality(gaps) \in Nat /\ Cardinality(D) \in Nat
  <2>1. /\ stored \in SUBSET (0 .. MaxSequence) /\ retained \in SUBSET (0 .. MaxSequence)
        /\ gaps \in SUBSET (0 .. MaxSequence) /\ D \in SUBSET (0 .. MaxSequence)
    BY DEF LogInv, TypeOK, OnePlace
  <2> HIDE DEF D
  <2> QED BY <2>1, FiniteSequences
<1>2. Cardinality({}) = 0
  BY FS_EmptySet
<1> HIDE DEF D
<1>3. stored \intersect retained = {} /\ A \intersect gaps = {} /\ B \intersect D = {} /\ B \union D = ever
  BY DEF LogInv, OnePlace, D
<1>4. IsFiniteSet(A) /\ Cardinality(A) = Cardinality(stored) + Cardinality(retained)
  <2>1. /\ IsFiniteSet(A)
        /\ Cardinality(A) = Cardinality(stored) + Cardinality(retained) - Cardinality(stored \intersect retained)
    BY <1>1, FS_Union
  <2>2. Cardinality(stored \intersect retained) = 0
    BY <1>2, <1>3, Zenon
  <2> QED BY <1>1, <2>1, <2>2
<1> HIDE DEF A
<1>5. IsFiniteSet(B) /\ Cardinality(B) = Cardinality(A) + Cardinality(gaps)
  <2>1. /\ IsFiniteSet(B)
        /\ Cardinality(B) = Cardinality(A) + Cardinality(gaps) - Cardinality(A \intersect gaps)
    BY <1>1, <1>4, FS_Union
  <2>2. Cardinality(A \intersect gaps) = 0
    BY <1>2, <1>3, Zenon
  <2> QED BY <1>1, <1>4, <2>1, <2>2
<1> HIDE DEF B
<1>6. Cardinality(B \union D) = Cardinality(B) + Cardinality(D) - Cardinality(B \intersect D)
  BY <1>1, <1>5, FS_Union
<1>7. Cardinality(B \intersect D) = 0 /\ Cardinality(B \union D) = Cardinality(ever)
  BY <1>2, <1>3, Zenon
<1>8. Cardinality(ever) = Cardinality(stored) + Cardinality(retained) + Cardinality(gaps) + Cardinality(D)
  BY <1>1, <1>4, <1>5, <1>6, <1>7
<1> QED BY <1>8 DEF D

(***************************************************************************)
(* No sequence is lost or in two places, no tombstone still has its body,  *)
(* and no two ranges share a sequence, for every number of workers; ranges *)
(* that touch are left only where two compactions were open at once.       *)
(***************************************************************************)
THEOREM WholeHistory == Spec => []HistoryIsWhole
<1>1. LogInv => HistoryIsWhole
  <2> SUFFICES ASSUME LogInv PROVE HistoryIsWhole
    OBVIOUS
  <2>1. NothingForgotten
    BY CardinalityOfPlaces DEF LogInv, OnePlace, NothingForgotten
  <2>2. RangesAreApart
    <3>1. \A r, q \in ranges : r # q => r.through < q.first \/ q.through < r.first
      BY SeparateOrder DEF LogInv
    <3>2. ~overlapped => \A r, q \in ranges : r.through + 1 # q.first
      BY DEF LogInv, CompactInv, Alone, Untouching
    <3> QED BY <3>1, <3>2 DEF RangesAreApart
  <2> QED BY <2>1, <2>2 DEF LogInv, HistoryIsWhole
<1> QED BY <1>1, LogInvariance, PTL

(***************************************************************************)
(* The watermark never comes back: maximum_log_sequence counts the ranges, *)
(* so a sequence that was compacted away is not recorded again.            *)
(***************************************************************************)
THEOREM FreshSequences == Spec => NoSequenceReused
<1>1. ASSUME LogInv, [Next]_vars
      PROVE  \A s \in (stored' \union gaps') \ (stored \union gaps) : s \notin ever
  <2> DEFINE Fresh == \A s \in (stored' \union gaps') \ (stored \union gaps) : s \notin ever
  <2>1. ASSUME stored' \subseteq stored, gaps' \subseteq gaps PROVE Fresh
    BY <2>1
  <2>2. ASSUME NEW s \in 0 .. MaxSequence, RecordRow(s) PROVE Fresh
    <3>1. s \notin ever
      BY <1>1, <2>2, AdvancesIsNew DEF RecordRow
    <3>2. stored' \union gaps' = stored \union gaps \union {s}
      BY <2>2 DEF RecordRow
    <3> QED BY <3>1, <3>2
  <2>3. ASSUME NEW w \in Sweepers, SweepStep(w) \/ RemovalFails(w) \/ KillSweeper(w)
        PROVE  stored' \subseteq stored /\ gaps' \subseteq gaps
    BY <2>3 DEF SweepStep, ListForRetention, RemoveBody, MarkRetained, RemovalFails, KillSweeper, history
  <2>4. ASSUME (\E c \in Compactors : CompactStep(c)) \/ PollStep \/ UNCHANGED vars
        PROVE  stored' \subseteq stored /\ gaps' \subseteq gaps
    BY <2>4 DEF CompactStep, BeginCompact, LockRanges, CommitCompact, AbortCompact, PollStep, ListChunks, ListGaps, SendPage, vars, history
  <2> QED BY <1>1, <2>1, <2>2, <2>3, <2>4 DEF Next
<1> QED BY <1>1, LogInvariance, PTL DEF Spec, NoSequenceReused

(***************************************************************************)
(* A poll passes over nothing that was recorded when it began, whatever    *)
(* happens between its three queries, unless compaction folds away rows of *)
(* a first query that was full: for every page size.                       *)
(***************************************************************************)
THEOREM CompletePolls == Spec => PollIsComplete
<1>1. ASSUME LogInv, [Next]_vars
      PROVE  ~FoldedAway => \A s \in poll.known : after < s /\ s <= after' => s \in sent'
  <2> SUFFICES ASSUME ~FoldedAway, NEW s \in poll.known, after < s, s <= after' PROVE s \in sent'
    OBVIOUS
  <2>1. CASE SendPage
    BY <1>1, <2>1, SendIsComplete
  <2>2. CASE ~SendPage
    <3>1. after' = after
      BY <1>1, <2>2 DEF Next, RecordRow, SweepStep, ListForRetention, RemoveBody, MarkRetained,
                        RemovalFails, KillSweeper, CompactStep, BeginCompact, LockRanges,
                        CommitCompact, AbortCompact, PollStep, ListChunks, ListGaps, vars, stream
    <3>2. s \in 0 .. MaxSequence /\ after \in -1 .. MaxSequence
      BY <1>1 DEF LogInv, PollInv, TypeOK
    <3>3. s \in Int /\ after \in Int
      BY <3>2, Bounds
    <3> QED BY <3>1, <3>3
  <2> QED BY <2>1, <2>2
<1> QED BY <1>1, LogInvariance, PTL DEF Spec, PollIsComplete
=============================================================================
