------------------------ MODULE ResourceClaims_proofs ------------------------
(***************************************************************************)
(* Theorems about ResourceClaims, for every set of deployments, of devices *)
(* and shares they ask for, every capacity and any bound on faults.        *)
(* UnitsInv leads from the release of a unit whose apply was recorded back *)
(* to the evidence that the unit is gone, HeldInv from a prepared claim to *)
(* the claim in the database.                                              *)
(***************************************************************************)
EXTENDS ResourceClaims, FiniteSetTheorems, SequenceTheorems, TLAPS

\* Command c was posted before command e
Before(c, e) ==
    \A i, j \in DOMAIN mailbox : mailbox[i] = c /\ mailbox[j] = e => i < j

\* The flow will not send the unit's apply any more
PastDispatch(d) == flow[d].stage \notin {"new", "prepare", "dispatch"}

\* The unit does not run, and no apply is under way
Gone(d) == d \notin running /\ Outcome(d, "apply") # "pending"

\* Whoever asks for a unit's end does so after its apply, an end that was
\* proved is for good, and nothing is released without one: if the apply was
\* recorded.  It is recorded only when nobody has asked for the end before.
UnitInv(d) ==
    /\ Outcome(d, "apply") = "none" => d \notin running
    /\ ~PastDispatch(d) => NotDispatched(d)
    /\ NotDispatched(d) => Outcome(d, "stop") = "none"
    /\ retirement[d] = "none" => Outcome(d, "remove") = "none"
    /\ Outcome(d, "release") # "none" => retirement[d] # "none" \/ PastDispatch(d)
    /\ ~NotDispatched(d) =>
           /\ \A k \in {"stop", "remove"} :
                  Before(<<d, "apply">>, <<d, k>>) /\ (Succeeded(d, k) => Gone(d))
           /\ Releasing(d) \/ Outcome(d, "release") # "none" => Gone(d)
UnitsInv == \A d \in Deployments : UnitInv(d)

\* What runs the Agent has a prepared claim for, but for the strays, and these
\* claims fit together
ActiveInv ==
    /\ \A d \in running : d \in Active \/ Stray(d)
    /\ \A d \in Active : Fits(d, Active)

\* The Agent has no prepared claim, and no prepare is under way
Unprepared(d) == ~agent[d].active /\ Outcome(d, "prepare") # "pending"

\* A prepare is sent only for a reservation and goes before the release; a
\* claim given up was never prepared, or released, or its prepare was never
\* recorded
HoldInv(d) ==
    /\ claim[d] \in {"none", "reserved"} =>
           Outcome(d, "release") = "none" /\ "prepare" \notin flow[d].recorded
    /\ claim[d] = "none" => Outcome(d, "prepare") = "none"
    /\ Outcome(d, "prepare") = "none" => ~agent[d].active
    /\ claim[d] = "released" => Unprepared(d) \/ "prepare" \notin flow[d].recorded
    /\ Succeeded(d, "release") => Unprepared(d)
    /\ flow[d].stage = "new" <=> claim[d] = "none"
    /\ Before(<<d, "prepare">>, <<d, "release">>)
HeldInv == \A d \in Deployments : HoldInv(d)

-----------------------------------------------------------------------------
(* The mailbox.                                                            *)

Posts == Deployments \X Kinds
Posted(c) == \E i \in DOMAIN mailbox : mailbox[i] = c

\* The commands posted are new together with some that were, in their order
PostsOnly(new) ==
    /\ mailbox' \in Seq(Posts)
    /\ IsInjective(mailbox')
    /\ \A c : Posted(c)' <=> c = new \/ Posted(c)
    /\ \A c, e : c # new /\ (e = new \/ Before(c, e)) => Before(c, e)'

\* The commands posted are those that were but for the first
TakesOnly(old) ==
    /\ mailbox' \in Seq(Posts)
    /\ IsInjective(mailbox')
    /\ \A c : Posted(c)' <=> c # old /\ Posted(c)
    /\ \A c, e : Before(c, e) => Before(c, e)'

MailboxInv ==
    /\ mailbox \in Seq(Posts)
    /\ IsInjective(mailbox)

\* s is the mailbox without new
IsRest(s, new) ==
    /\ IsInjective(s)
    /\ \A i \in DOMAIN s : s[i] # new
    /\ \A i \in DOMAIN s : \E j \in DOMAIN mailbox : mailbox[j] = s[i]
    /\ \A j \in DOMAIN mailbox : mailbox[j] # new => \E i \in DOMAIN s : s[i] = mailbox[j]
    /\ \A c, e : Before(c, e) => \A i, j \in DOMAIN s : s[i] = c /\ s[j] = e => i < j

\* Posting behind the others
LEMMA AppendPosts ==
    ASSUME NEW s \in Seq(Posts), NEW new \in Posts, IsRest(s, new), mailbox' = Append(s, new)
    PROVE  PostsOnly(new)
<1>r. /\ IsInjective(s)
      /\ \A i \in DOMAIN s : s[i] # new
      /\ \A i \in DOMAIN s : \E j \in DOMAIN mailbox : mailbox[j] = s[i]
      /\ \A j \in DOMAIN mailbox : mailbox[j] # new => \E i \in DOMAIN s : s[i] = mailbox[j]
      /\ \A c, e : Before(c, e) => \A i, j \in DOMAIN s : s[i] = c /\ s[j] = e => i < j
  BY DEF IsRest
<1>0. PICK n \in Nat : n = Len(s) /\ DOMAIN s = 1 .. n
  OBVIOUS
<1>1. /\ mailbox' \in Seq(Posts) /\ DOMAIN mailbox' = 1 .. n + 1
      /\ mailbox'[n + 1] = new
      /\ \A i \in 1 .. n : mailbox'[i] = s[i]
  BY <1>0
<1>2. \A i \in 1 .. n + 1 : i \in 1 .. n \/ i = n + 1
  OBVIOUS
<1>3. \A i \in 1 .. n : i \in 1 .. n + 1 /\ i < n + 1 /\ n + 1 \in 1 .. n + 1
  OBVIOUS
<1>4. IsInjective(mailbox')
  BY <1>0, <1>1, <1>2, <1>3, <1>r DEF IsInjective
<1>5. ASSUME NEW c PROVE Posted(c)' <=> c = new \/ Posted(c)
  <2>1. CASE c = new
    <3>1. n + 1 \in DOMAIN mailbox'
      BY <1>1
    <3> QED BY <1>1, <2>1, <3>1 DEF Posted
  <2>2. CASE c # new
    <3>1. ASSUME Posted(c)' PROVE Posted(c)
      <4>1. PICK i \in DOMAIN mailbox' : mailbox'[i] = c
        BY <3>1 DEF Posted
      <4>2. i \in 1 .. n /\ s[i] = c
        BY <1>1, <1>2, <2>2, <4>1
      <4> QED BY <1>0, <1>r, <4>2 DEF Posted
    <3>2. ASSUME Posted(c) PROVE Posted(c)'
      <4>1. PICK i \in DOMAIN s : s[i] = c
        BY <1>r, <2>2, <3>2 DEF Posted
      <4>2. i \in DOMAIN mailbox' /\ mailbox'[i] = c
        BY <1>0, <1>1, <1>3, <4>1
      <4> QED BY <4>2 DEF Posted
    <3> QED BY <2>2, <3>1, <3>2
  <2> QED BY <2>1, <2>2
<1>6. ASSUME NEW c, NEW e, c # new, e = new \/ Before(c, e) PROVE Before(c, e)'
  <2> SUFFICES ASSUME NEW i \in DOMAIN mailbox', NEW j \in DOMAIN mailbox',
                      mailbox'[i] = c, mailbox'[j] = e
               PROVE  i < j
    BY DEF Before
  <2>1. i \in 1 .. n /\ s[i] = c
    BY <1>1, <1>2, <1>6
  <2>2. CASE e = new
    <3>1. j = n + 1
      BY <1>0, <1>1, <1>2, <1>r, <2>2
    <3> QED BY <1>3, <2>1, <3>1
  <2>3. CASE e # new
    <3>1. j \in 1 .. n /\ s[j] = e
      BY <1>1, <1>2, <2>3
    <3> QED BY <1>0, <1>6, <1>r, <2>1, <2>3, <3>1
  <2> QED BY <2>2, <2>3
<1> QED BY <1>1, <1>4, <1>5, <1>6 DEF PostsOnly

\* enqueue posts a command behind all others; one it supersedes is dropped
LEMMA EnqueuePosts ==
    ASSUME MailboxInv, NEW d \in Deployments, NEW k \in Kinds,
           Outcome(d, k) = "pending" <=> Posted(<<d, k>>),
           Enqueue(d, k)
    PROVE  PostsOnly(<<d, k>>)
<1>0. /\ mailbox \in Seq(Posts) /\ <<d, k>> \in Posts
      /\ \A i, j \in DOMAIN mailbox : mailbox[i] = mailbox[j] => i = j
  BY DEF MailboxInv, Posts, IsInjective
<1>1. CASE Outcome(d, k) # "pending" /\ mailbox' = Append(mailbox, <<d, k>>)
  <2>1. \A i \in DOMAIN mailbox : mailbox[i] # <<d, k>>
    BY <1>1 DEF Posted
  <2>2. \A c, e : Before(c, e) => \A i, j \in DOMAIN mailbox : mailbox[i] = c /\ mailbox[j] = e => i < j
    BY DEF Before
  <2>3. IsRest(mailbox, <<d, k>>)
    BY <2>1, <2>2 DEF IsRest, MailboxInv
  <2> QED BY <1>0, <1>1, <2>3, AppendPosts
<1>2. ASSUME NEW p \in DOMAIN mailbox, mailbox[p] = <<d, k>>,
             mailbox' = Append(RemoveAt(mailbox, p), <<d, k>>)
      PROVE  PostsOnly(<<d, k>>)
  <2> DEFINE s == RemoveAt(mailbox, p)
             At(i) == IF i < p THEN i ELSE i + 1
  <2>1. PICK n \in Nat : n = Len(mailbox) /\ DOMAIN mailbox = 1 .. n /\ p \in 1 .. n
    BY <1>0, <1>2
  <2>2. s \in Seq(Posts) /\ Len(s) = n - 1
    <3>1. SubSeq(mailbox, 1, p - 1) \in Seq(Posts) /\ Len(SubSeq(mailbox, 1, p - 1)) = p - 1
      BY <1>0, <2>1
    <3>2. SubSeq(mailbox, p + 1, n) \in Seq(Posts) /\ Len(SubSeq(mailbox, p + 1, n)) = n - p
      BY <1>0, <2>1
    <3> QED BY <2>1, <3>1, <3>2 DEF RemoveAt
  <2>3. DOMAIN s = 1 .. n - 1
    BY <2>1, <2>2
  <2>4. \A i \in 1 .. n - 1 : At(i) \in 1 .. n /\ At(i) # p
    BY <2>1
  <2>5. ASSUME NEW i \in 1 .. n - 1 PROVE s[i] = mailbox[At(i)]
    <3> DEFINE a == SubSeq(mailbox, 1, p - 1)
               b == SubSeq(mailbox, p + 1, n)
    <3>1. s = a \o b
      BY <2>1 DEF RemoveAt
    <3>2. /\ a \in Seq(Posts) /\ Len(a) = p - 1
          /\ \A j \in 1 .. p - 1 : a[j] = mailbox[j]
      BY <1>0, <2>1
    <3>3. /\ b \in Seq(Posts) /\ Len(b) = n - p
          /\ \A j \in 1 .. n - p : b[j] = mailbox[j + p]
      <4>1. p + 1 \in 1 .. n + 1 /\ n - (p + 1) + 1 = n - p /\ n - p \in Nat
        BY <2>1
      <4>2. b \in Seq(Posts) /\ Len(b) = n - p
        BY <1>0, <2>1, <4>1
      <4>3. ASSUME NEW j \in 1 .. n - p PROVE b[j] = mailbox[j + p]
        <5>1. /\ p + 1 \in Int /\ n \in Int /\ \A q \in p + 1 .. n : mailbox[q] \in Posts
              /\ j \in 1 .. n - (p + 1) + 1
          BY <1>0, <2>1, <4>1
        <5>2. SubSeq(mailbox, p + 1, n)[j] = mailbox[(p + 1) + j - 1]
          BY <5>1, SubSeqProperties
        <5>3. (p + 1) + j - 1 = j + p
          BY <2>1
        <5> QED BY <5>2, <5>3
      <4> QED BY <4>2, <4>3
    <3> HIDE DEF a, b
    <3>4. s[i] = IF i <= Len(a) THEN a[i] ELSE b[i - Len(a)]
      <4>1. i \in 1 .. Len(a) + Len(b)
        BY <2>1, <3>2, <3>3
      <4>2. (a \o b)[i] = IF i <= Len(a) THEN a[i] ELSE b[i - Len(a)]
        BY <3>2, <3>3, <4>1
      <4> QED BY <3>1, <4>2
    <3>5. CASE i < p
      BY <2>1, <3>2, <3>4, <3>5
    <3>6. CASE ~(i < p)
      <4>1. i - (p - 1) \in 1 .. n - p /\ (i - (p - 1)) + p = i + 1 /\ ~(i <= p - 1)
        BY <2>1, <3>6
      <4> QED BY <3>2, <3>3, <3>4, <3>6, <4>1
    <3> QED BY <3>5, <3>6
  <2>6. \A i, j \in 1 .. n - 1 : At(i) < At(j) => i < j
    BY <2>1
  <2>7. \A i, j \in 1 .. n - 1 : At(i) = At(j) => i = j
    BY <2>1
  <2>8. \A j \in 1 .. n : j # p => \E i \in 1 .. n - 1 : At(i) = j
    <3> SUFFICES ASSUME NEW j \in 1 .. n, j # p PROVE \E i \in 1 .. n - 1 : At(i) = j
      OBVIOUS
    <3>1. CASE j < p
      <4>1. j \in 1 .. n - 1 /\ At(j) = j
        BY <2>1, <3>1
      <4> QED BY <4>1
    <3>2. CASE j > p
      <4>1. j - 1 \in 1 .. n - 1 /\ At(j - 1) = j
        BY <2>1, <3>2
      <4> QED BY <4>1
    <3> QED BY <2>1, <3>1, <3>2
  <2> HIDE DEF s, At
  <2>9. IsInjective(s)
    BY <1>0, <2>1, <2>3, <2>4, <2>5, <2>7 DEF IsInjective
  <2>10. \A i \in DOMAIN s : s[i] # <<d, k>>
    BY <1>0, <1>2, <2>1, <2>3, <2>4, <2>5
  <2>11. \A i \in DOMAIN s : \E j \in DOMAIN mailbox : mailbox[j] = s[i]
    BY <2>1, <2>3, <2>4, <2>5
  <2>12. \A j \in DOMAIN mailbox : mailbox[j] # <<d, k>> => \E i \in DOMAIN s : s[i] = mailbox[j]
    <3> SUFFICES ASSUME NEW j \in 1 .. n, mailbox[j] # <<d, k>> PROVE \E i \in 1 .. n - 1 : s[i] = mailbox[j]
      BY <2>1, <2>3
    <3>1. PICK i \in 1 .. n - 1 : At(i) = j
      BY <1>2, <2>8
    <3> QED BY <2>5, <3>1
  <2>13. ASSUME NEW c, NEW e, Before(c, e), NEW i \in DOMAIN s, NEW j \in DOMAIN s, s[i] = c, s[j] = e
         PROVE  i < j
    <3>1. At(i) < At(j)
      BY <2>13, <2>1, <2>3, <2>4, <2>5 DEF Before
    <3> QED BY <2>3, <2>6, <3>1
  <2>14. mailbox' = Append(s, <<d, k>>)
    BY <1>2 DEF s
  <2>15. \A c, e : Before(c, e) => \A i, j \in DOMAIN s : s[i] = c /\ s[j] = e => i < j
    BY <2>13
  <2>16. IsRest(s, <<d, k>>)
    BY <2>9, <2>10, <2>11, <2>12, <2>15 DEF IsRest
  <2> QED BY <1>0, <2>2, <2>14, <2>16, AppendPosts
<1> QED BY <1>1, <1>2 DEF Enqueue

\* The Agent takes the first command
LEMMA SettleTakes ==
    ASSUME MailboxInv, NEW d \in Deployments, NEW k \in Kinds, NEW o, Settle(d, k, o)
    PROVE  /\ TakesOnly(<<d, k>>)
           /\ Posted(<<d, k>>)
           /\ \A c : Before(c, <<d, k>>) => ~Posted(c)
<1>0. PICK n \in Nat : n = Len(mailbox) /\ DOMAIN mailbox = 1 .. n /\ n > 0
  BY DEF MailboxInv, Settle
<1>1. /\ mailbox \in Seq(Posts) /\ mailbox[1] = <<d, k>> /\ mailbox' = Tail(mailbox)
      /\ \A i, j \in DOMAIN mailbox : mailbox[i] = mailbox[j] => i = j
  BY DEF MailboxInv, Settle, IsInjective
<1>2. /\ mailbox' \in Seq(Posts) /\ DOMAIN mailbox' = 1 .. n - 1
      /\ \A i \in 1 .. n - 1 : mailbox'[i] = mailbox[i + 1]
  BY <1>0, <1>1
<1>3. \A i \in 1 .. n - 1 : i + 1 \in 1 .. n /\ i + 1 # 1
  BY <1>0
<1>4. 1 \in 1 .. n
  BY <1>0
<1>5. \A j \in 1 .. n : j # 1 => j - 1 \in 1 .. n - 1 /\ (j - 1) + 1 = j
  BY <1>0
<1>6. IsInjective(mailbox')
  <2>1. \A i, j \in 1 .. n - 1 : i + 1 = j + 1 => i = j
    OBVIOUS
  <2> QED BY <1>0, <1>1, <1>2, <1>3, <2>1 DEF IsInjective
<1>7. ASSUME NEW c PROVE Posted(c)' <=> c # <<d, k>> /\ Posted(c)
  <2>1. ASSUME Posted(c)' PROVE c # <<d, k>> /\ Posted(c)
    <3>1. PICK i \in 1 .. n - 1 : mailbox[i + 1] = c
      BY <1>2, <2>1 DEF Posted
    <3> QED BY <1>0, <1>1, <1>3, <1>4, <3>1 DEF Posted
  <2>2. ASSUME c # <<d, k>>, Posted(c) PROVE Posted(c)'
    <3>1. PICK j \in 1 .. n : mailbox[j] = c
      BY <1>0, <2>2 DEF Posted
    <3>2. j - 1 \in 1 .. n - 1 /\ mailbox'[j - 1] = c
      BY <1>1, <1>2, <1>5, <2>2, <3>1
    <3> QED BY <1>2, <3>2 DEF Posted
  <2> QED BY <2>1, <2>2
<1>8. ASSUME NEW c, NEW e, Before(c, e) PROVE Before(c, e)'
  <2> SUFFICES ASSUME NEW i \in 1 .. n - 1, NEW j \in 1 .. n - 1,
                      mailbox'[i] = c, mailbox'[j] = e
               PROVE  i < j
    BY <1>2 DEF Before
  <2>1. i + 1 < j + 1
    BY <1>0, <1>2, <1>3, <1>8 DEF Before
  <2> QED BY <2>1
<1>9. ASSUME NEW c, Before(c, <<d, k>>) PROVE ~Posted(c)
  <2>1. \A i \in 1 .. n : mailbox[i] = c => i < 1
    BY <1>0, <1>1, <1>4, <1>9 DEF Before
  <2> QED BY <1>0, <2>1 DEF Posted
<1> QED BY <1>0, <1>1, <1>2, <1>4, <1>6, <1>7, <1>8, <1>9 DEF TakesOnly, Posted

-----------------------------------------------------------------------------
(* Types.                                                                  *)

Answers == {"succeeded", "failed", "expired", "predates"}

\* The mailbox's part of TypeOK, and the rest of it
PostsType ==
    /\ sent \in [Deployments -> [Kinds -> Sent]]
    /\ mailbox \in Seq(Posts)
    /\ IsInjective(mailbox)
    /\ \A d \in Deployments, k \in Kinds : Outcome(d, k) = "pending" <=> Posted(<<d, k>>)

PlainType ==
    /\ flow \in [Deployments -> Flow]
    /\ retirement \in [Deployments -> {"none", "remove", "release", "done"}]
    /\ claim \in [Deployments -> ClaimState]
    /\ agent \in [Deployments -> Projected]
    /\ running \subseteq Deployments
    /\ faults \in 0..MaxFaults

\* TypeOK, taken apart
LEMMA Types == TypeOK <=> PostsType /\ PlainType
  BY DEF TypeOK, PostsType, PlainType, Posts, Posted

\* The steps of the control plane for one deployment, and the Agent's
PlaneStep(d) ==
    \/ Reserve(d) \/ RequestCancellation(d) \/ Retire(d)
    \/ FlowStep(d) \/ RetirementStep(d) \/ ReleaseStep(d)
    \/ \E k \in Kinds : Expire(d, k)
NodeStep(d) ==
    \/ \E k \in Kinds : AgentRejectsExpired(d, k) \/ AgentFails(d, k) \/ AgentStops(d, k)
    \/ AgentPrepares(d) \/ AgentApplies(d) \/ AgentReleases(d)

\* Every step is for one deployment
LEMMA StepsOfOne == Next <=> \E d \in Deployments : PlaneStep(d) \/ NodeStep(d)
  BY DEF Next, AgentStep, PlaneStep, NodeStep

\* What a step for deployment d does to the mailbox
LEMMA PostsOfOne ==
    ASSUME NEW d \in Deployments
    PROVE  /\ PlaneStep(d) => \/ UNCHANGED <<sent, mailbox>>
                              \/ \E k \in Kinds : Expire(d, k)
                              \/ \E k \in Kinds : Enqueue(d, k)
           /\ NodeStep(d) => \E k \in Kinds, o \in Answers : Settle(d, k, o)
<1> USE DEF Kinds, Answers
<1>1. ASSUME PlaneStep(d)
      PROVE  UNCHANGED <<sent, mailbox>> \/ (\E k \in Kinds : Expire(d, k)) \/ \E k \in Kinds : Enqueue(d, k)
  <2>1. CASE Reserve(d) \/ RequestCancellation(d) \/ Retire(d)
    BY <2>1 DEF Reserve, RequestCancellation, Retire
  <2>2. CASE FlowStep(d)
    BY <2>2 DEF FlowStep, NoticeCancellation, MissDeadline, SendPrepare, PrepareConflicts,
      RecordPrepared, FindClaimTaken, PrepareFails, SendApply, FindClaimReleased, ObserveUnit,
      ApplyFails, NothingToStop, SendStop, ObserveStop, StopFails, ReleaseFails, RejectReleased
  <2>3. CASE RetirementStep(d) \/ ReleaseStep(d)
    BY <2>3 DEF RetirementStep, SendRemove, RecordFenced, ReleaseStep, CancelReservation,
      BeginRelease, RecordReleased, OrphanRelease, FinishRelease
  <2> QED BY <1>1, <2>1, <2>2, <2>3 DEF PlaneStep
<1>2. ASSUME NodeStep(d) PROVE \E k \in Kinds, o \in Answers : Settle(d, k, o)
  <2>1. CASE \E k \in Kinds : AgentRejectsExpired(d, k) \/ AgentFails(d, k) \/ AgentStops(d, k)
    BY <2>1 DEF AgentRejectsExpired, AgentFails, AgentStops
  <2>2. CASE AgentPrepares(d)
    BY <2>2 DEF AgentPrepares
  <2>3. CASE AgentApplies(d)
    BY <2>3 DEF AgentApplies
  <2>4. CASE AgentReleases(d)
    BY <2>4 DEF AgentReleases
  <2> QED BY <1>2, <2>1, <2>2, <2>3, <2>4 DEF NodeStep
<1> QED BY <1>1, <1>2

\* The control plane's steps do not reach the node but through the mailbox
LEMMA PlaneQuiet ==
    ASSUME NEW d \in Deployments, PlaneStep(d)
    PROVE  agent' = agent /\ running' = running
<1>1. CASE Reserve(d) \/ RequestCancellation(d) \/ Retire(d)
  BY <1>1 DEF Reserve, RequestCancellation, Retire
<1>2. CASE FlowStep(d)
  BY <1>2 DEF FlowStep, NoticeCancellation, MissDeadline, SendPrepare, PrepareConflicts,
    RecordPrepared, FindClaimTaken, PrepareFails, SendApply, FindClaimReleased, ObserveUnit,
    ApplyFails, NothingToStop, SendStop, ObserveStop, StopFails, ReleaseFails, RejectReleased
<1>3. CASE RetirementStep(d) \/ ReleaseStep(d) \/ \E k \in Kinds : Expire(d, k)
  BY <1>3 DEF RetirementStep, SendRemove, RecordFenced, ReleaseStep, CancelReservation,
    BeginRelease, RecordReleased, OrphanRelease, FinishRelease, Expire
<1> QED BY <1>1, <1>2, <1>3 DEF PlaneStep

\* Every step leaves the mailbox alone, posts one command or takes the first
LEMMA PostsMove ==
    ASSUME Next
    PROVE  \/ UNCHANGED <<sent, mailbox>>
           \/ \E d \in Deployments, k \in Kinds : Expire(d, k)
           \/ \E d \in Deployments, k \in Kinds : Enqueue(d, k)
           \/ \E d \in Deployments, k \in Kinds, o \in Answers : Settle(d, k, o)
  BY StepsOfOne, PostsOfOne

\* What enqueue makes of the outcomes
LEMMA EnqueuedOutcome ==
    ASSUME PostsType, NEW d \in Deployments, NEW k \in Kinds, Enqueue(d, k)
    PROVE  /\ PostsOnly(<<d, k>>)
           /\ sent' \in [Deployments -> [Kinds -> Sent]]
           /\ \A e \in Deployments, l \in Kinds :
                  Outcome(e, l)' = IF e = d /\ l = k THEN "pending" ELSE Outcome(e, l)
<1>1. sent' = [sent EXCEPT ![d][k] = [outcome |-> "pending", late |-> FALSE]]
  BY DEF Enqueue
<1>2. [outcome |-> "pending", late |-> FALSE] \in Sent
  BY DEF Sent
<1>3. sent' \in [Deployments -> [Kinds -> Sent]]
  BY <1>1, <1>2 DEF PostsType
<1>4. \A e \in Deployments, l \in Kinds :
         sent'[e][l] = IF e = d /\ l = k THEN [outcome |-> "pending", late |-> FALSE] ELSE sent[e][l]
  BY <1>1 DEF PostsType
<1>5. \A e \in Deployments, l \in Kinds :
         Outcome(e, l)' = IF e = d /\ l = k THEN "pending" ELSE Outcome(e, l)
  BY <1>4 DEF Outcome
<1>6. MailboxInv /\ (Outcome(d, k) = "pending" <=> Posted(<<d, k>>))
  BY DEF PostsType, MailboxInv
<1> QED BY <1>3, <1>5, <1>6, EnqueuePosts

\* ... and what the Agent's answer does
LEMMA SettledOutcome ==
    ASSUME PostsType, NEW d \in Deployments, NEW k \in Kinds, NEW o \in Answers, Settle(d, k, o)
    PROVE  /\ TakesOnly(<<d, k>>)
           /\ Outcome(d, k) = "pending"
           /\ \A c : Before(c, <<d, k>>) => ~Posted(c)
           /\ sent' \in [Deployments -> [Kinds -> Sent]]
           /\ \A e \in Deployments, l \in Kinds :
                  Outcome(e, l)' = IF e = d /\ l = k THEN o ELSE Outcome(e, l)
<1>1. sent' = [sent EXCEPT ![d][k].outcome = o]
  BY DEF Settle
<1>2. sent \in [Deployments -> [Kinds -> Sent]] /\ sent[d][k] \in Sent
  BY DEF PostsType
<1>3. [sent[d][k] EXCEPT !.outcome = o] \in Sent /\ [sent[d][k] EXCEPT !.outcome = o].outcome = o
  BY <1>2 DEF Sent, Answers
<1>4. sent' = [sent EXCEPT ![d] = [sent[d] EXCEPT ![k] = [sent[d][k] EXCEPT !.outcome = o]]]
  BY <1>1
<1>5. sent' \in [Deployments -> [Kinds -> Sent]]
  BY <1>2, <1>3, <1>4
<1>6. \A e \in Deployments, l \in Kinds :
         sent'[e][l] = IF e = d /\ l = k THEN [sent[d][k] EXCEPT !.outcome = o] ELSE sent[e][l]
  BY <1>2, <1>4
<1>7. \A e \in Deployments, l \in Kinds :
         Outcome(e, l)' = IF e = d /\ l = k THEN o ELSE Outcome(e, l)
  BY <1>3, <1>6 DEF Outcome
<1>8. MailboxInv
  BY DEF PostsType, MailboxInv
<1>9. TakesOnly(<<d, k>>) /\ Posted(<<d, k>>) /\ \A c : Before(c, <<d, k>>) => ~Posted(c)
  BY <1>8, SettleTakes
<1>10. Outcome(d, k) = "pending"
  BY <1>9 DEF PostsType
<1> QED BY <1>5, <1>7, <1>9, <1>10

\* An expiry changes no outcome
LEMMA ExpiredOutcome ==
    ASSUME PostsType, NEW d \in Deployments, NEW k \in Kinds, Expire(d, k)
    PROVE  /\ sent' \in [Deployments -> [Kinds -> Sent]] /\ mailbox' = mailbox
           /\ \A e \in Deployments, l \in Kinds : Outcome(e, l)' = Outcome(e, l)
<1>1. sent' = [sent EXCEPT ![d][k].late = TRUE] /\ mailbox' = mailbox
  BY DEF Expire
<1>2. sent \in [Deployments -> [Kinds -> Sent]] /\ sent[d][k] \in Sent
  BY DEF PostsType
<1>3. /\ [sent[d][k] EXCEPT !.late = TRUE] \in Sent
      /\ [sent[d][k] EXCEPT !.late = TRUE].outcome = sent[d][k].outcome
  BY <1>2 DEF Sent
<1>4. sent' = [sent EXCEPT ![d] = [sent[d] EXCEPT ![k] = [sent[d][k] EXCEPT !.late = TRUE]]]
  BY <1>1
<1>5. sent' \in [Deployments -> [Kinds -> Sent]]
  BY <1>2, <1>3, <1>4
<1>6. \A e \in Deployments, l \in Kinds :
         sent'[e][l] = IF e = d /\ l = k THEN [sent[d][k] EXCEPT !.late = TRUE] ELSE sent[e][l]
  BY <1>2, <1>4
<1> QED BY <1>1, <1>3, <1>5, <1>6 DEF Outcome

\* The mailbox holds what is pending, after every step
LEMMA PostsStep ==
    ASSUME PostsType, Next
    PROVE  PostsType'
<1>1. CASE UNCHANGED <<sent, mailbox>>
  BY <1>1 DEF PostsType, Posted, Outcome
<1>2. ASSUME NEW d \in Deployments, NEW k \in Kinds, Expire(d, k) PROVE PostsType'
  BY <1>2, ExpiredOutcome DEF PostsType, Posted
<1>3. ASSUME NEW d \in Deployments, NEW k \in Kinds, Enqueue(d, k) PROVE PostsType'
  <2>1. /\ PostsOnly(<<d, k>>) /\ sent' \in [Deployments -> [Kinds -> Sent]]
        /\ \A e \in Deployments, l \in Kinds :
              Outcome(e, l)' = IF e = d /\ l = k THEN "pending" ELSE Outcome(e, l)
    BY <1>3, EnqueuedOutcome
  <2>2. ASSUME NEW e \in Deployments, NEW l \in Kinds
        PROVE  Outcome(e, l)' = "pending" <=> Posted(<<e, l>>)'
    <3>1. Posted(<<e, l>>)' <=> <<e, l>> = <<d, k>> \/ Posted(<<e, l>>)
      BY <2>1 DEF PostsOnly
    <3>2. <<e, l>> = <<d, k>> <=> e = d /\ l = k
      OBVIOUS
    <3> QED BY <2>1, <3>1, <3>2 DEF PostsType
  <2> QED BY <2>1, <2>2 DEF PostsType, PostsOnly
<1>4. ASSUME NEW d \in Deployments, NEW k \in Kinds, NEW o \in Answers, Settle(d, k, o)
      PROVE  PostsType'
  <2>1. /\ TakesOnly(<<d, k>>) /\ sent' \in [Deployments -> [Kinds -> Sent]]
        /\ \A e \in Deployments, l \in Kinds :
              Outcome(e, l)' = IF e = d /\ l = k THEN o ELSE Outcome(e, l)
    BY <1>4, SettledOutcome
  <2>2. ASSUME NEW e \in Deployments, NEW l \in Kinds
        PROVE  Outcome(e, l)' = "pending" <=> Posted(<<e, l>>)'
    <3>1. Posted(<<e, l>>)' <=> <<e, l>> # <<d, k>> /\ Posted(<<e, l>>)
      BY <2>1 DEF TakesOnly
    <3>2. <<e, l>> = <<d, k>> <=> e = d /\ l = k
      OBVIOUS
    <3>3. o # "pending"
      BY DEF Answers
    <3> QED BY <2>1, <3>1, <3>2, <3>3 DEF PostsType
  <2> QED BY <2>1, <2>2 DEF PostsType, TakesOnly
<1> QED BY <1>1, <1>2, <1>3, <1>4, PostsMove

\* The flow's record, the retirement and the claim keep their types
LEMMA PlainStep ==
    ASSUME PlainType, PostsType, Next
    PROVE  PlainType'
<1> USE DEF PlainType
<1>0. MaxFaults \in Nat
  BY ClaimAssumption
<1>1. CASE AgentStep
  <2>1. PICK d \in Deployments :
           \/ \E k \in Kinds : AgentRejectsExpired(d, k) \/ AgentFails(d, k) \/ AgentStops(d, k)
           \/ AgentPrepares(d) \/ AgentApplies(d) \/ AgentReleases(d)
    BY <1>1 DEF AgentStep
  <2>2. UNCHANGED <<flow, retirement, claim>>
    BY <2>1 DEF AgentRejectsExpired, AgentFails, AgentStops, AgentPrepares, AgentApplies,
      AgentReleases, Settle
  <2>3. running' \subseteq Deployments
    BY <2>1 DEF AgentRejectsExpired, AgentFails, AgentStops, AgentPrepares, AgentApplies,
      AgentReleases, Quietly
  <2>4. faults' \in 0..MaxFaults
    BY <1>0, <2>1 DEF AgentRejectsExpired, AgentFails, AgentStops, AgentPrepares, AgentApplies,
      AgentReleases, Quietly
  <2>5. agent' \in [Deployments -> Projected]
    <3>1. agent[d] \in Projected
      OBVIOUS
    <3>2. CASE \E k \in Kinds : AgentRejectsExpired(d, k) \/ AgentFails(d, k) \/ AgentStops(d, k)
      BY <3>1, <3>2 DEF AgentRejectsExpired, AgentFails, AgentStops, Quietly, Projected
    <3>3. CASE AgentPrepares(d)
      <4>1. \/ agent' = agent
            \/ agent' = [agent EXCEPT ![d] = [agent[d] EXCEPT !.active = TRUE, !.released = FALSE]]
        BY <3>3 DEF AgentPrepares, Quietly
      <4>2. [agent[d] EXCEPT !.active = TRUE, !.released = FALSE] \in Projected
        BY <3>1 DEF Projected
      <4> QED BY <4>1, <4>2
    <3>4. CASE AgentApplies(d)
      <4>1. \/ agent' = agent
            \/ agent' = [agent EXCEPT ![d] = [agent[d] EXCEPT !.bound = TRUE, !.fenced = FALSE]]
        BY <3>4 DEF AgentApplies, Quietly
      <4>2. [agent[d] EXCEPT !.bound = TRUE, !.fenced = FALSE] \in Projected
        BY <3>1 DEF Projected
      <4> QED BY <4>1, <4>2
    <3>5. CASE AgentReleases(d)
      <4>1. \/ agent' = agent
            \/ agent' = [agent EXCEPT ![d] = [agent[d] EXCEPT !.active = FALSE, !.released = TRUE]]
        BY <3>5 DEF AgentReleases, Quietly
      <4>2. [agent[d] EXCEPT !.active = FALSE, !.released = TRUE] \in Projected
        BY <3>1 DEF Projected
      <4> QED BY <4>1, <4>2
    <3> QED BY <2>1, <3>2, <3>3, <3>4, <3>5
  <2> QED BY <2>2, <2>3, <2>4, <2>5
<1>2. ASSUME NEW d \in Deployments,
             \/ Reserve(d) \/ RequestCancellation(d) \/ Retire(d)
             \/ FlowStep(d) \/ RetirementStep(d) \/ ReleaseStep(d)
             \/ \E k \in Kinds : Expire(d, k)
      PROVE  PlainType'
  <2>0. flow[d] \in Flow
    OBVIOUS
  <2>1. CASE Reserve(d) \/ RequestCancellation(d) \/ Retire(d)
    <3>1. CASE Reserve(d)
      BY <2>0, <3>1 DEF Reserve, Stage, Claim, Flow, ClaimState
    <3>2. CASE RequestCancellation(d)
      BY <2>0, <3>2 DEF RequestCancellation, Flow
    <3>3. CASE Retire(d)
      BY <3>3 DEF Retire
    <3> QED BY <2>1, <3>1, <3>2, <3>3
  <2>2. CASE FlowStep(d)
    <3>1. CASE NoticeCancellation(d) \/ MissDeadline(d) \/ FindClaimTaken(d) \/ ApplyFails(d)
      BY <2>0, <3>1 DEF NoticeCancellation, MissDeadline, FindClaimTaken, ApplyFails, TearDown, Flow
    <3>2. CASE PrepareConflicts(d) \/ FindClaimReleased(d) \/ NothingToStop(d) \/ ObserveStop(d)
               \/ StopFails(d) \/ ReleaseFails(d) \/ RejectReleased(d)
      BY <2>0, <3>2 DEF PrepareConflicts, FindClaimReleased, NothingToStop, ObserveStop,
        StopFails, ReleaseFails, RejectReleased, Stage, Flow
    <3>3. CASE SendPrepare(d) \/ SendStop(d)
      BY <2>0, <3>3 DEF SendPrepare, SendStop, Claim, ClaimState, Flow
    <3>4. CASE RecordPrepared(d) \/ PrepareFails(d)
      <4>1. /\ \E c \in {"prepared", "orphaned"} : Claim(d, c)
            /\ Stage(d, "dispatch") \/ TearDown(d, "cancel") \/ TearDown(d, "fail")
            /\ UNCHANGED <<retirement, agent, running, faults>>
        BY <3>4 DEF RecordPrepared, PrepareFails
      <4>2. claim' \in [Deployments -> ClaimState]
        BY <4>1 DEF Claim, ClaimState
      <4>3. flow' \in [Deployments -> Flow]
        BY <2>0, <4>1 DEF Stage, TearDown, Flow
      <4> QED BY <4>1, <4>2, <4>3
    <3>5. CASE SendApply(d)
      BY <2>0, <3>5 DEF SendApply, Stage, Flow
    <3>6. CASE ObserveUnit(d)
      BY <2>0, <3>6 DEF ObserveUnit, TearDown, Stage, Claim, Flow, ClaimState
    <3> QED BY <2>2, <3>1, <3>2, <3>3, <3>4, <3>5, <3>6 DEF FlowStep
  <2>3. CASE RetirementStep(d)
    BY <2>3 DEF RetirementStep, SendRemove, RecordFenced
  <2>4. CASE ReleaseStep(d)
    BY <2>0, <2>4 DEF ReleaseStep, CancelReservation, BeginRelease, RecordReleased,
      OrphanRelease, FinishRelease, Stage, Claim, Flow, ClaimState
  <2>5. CASE \E k \in Kinds : Expire(d, k)
    BY <1>0, <2>5 DEF Expire
  <2> QED BY <1>2, <2>1, <2>2, <2>3, <2>4, <2>5
<1> QED BY <1>1, <1>2 DEF Next

\* Nothing is reserved, sent or held to begin with
LEMMA TypesInit == Init => TypeOK
<1> SUFFICES ASSUME Init PROVE PostsType /\ PlainType
  BY Types
<1>1. PlainType
  BY ClaimAssumption DEF Init, PlainType, Flow, ClaimState, Projected
<1>2. /\ sent \in [Deployments -> [Kinds -> Sent]] /\ mailbox = <<>>
      /\ \A d \in Deployments, k \in Kinds : Outcome(d, k) = "none"
  BY DEF Init, Sent, Outcome
<1>3. DOMAIN mailbox = {} /\ mailbox \in Seq(Posts)
  BY <1>2
<1>4. PostsType
  BY <1>2, <1>3 DEF PostsType, Posted, IsInjective
<1> QED BY <1>1, <1>4

\* The types of flow, claim, mailbox and Agent, for every behaviour
THEOREM TypeCorrectness == Spec => []TypeOK
<1>1. TypeOK /\ [Next]_vars => TypeOK'
  <2>1. ASSUME PostsType, PlainType, Next PROVE PostsType' /\ PlainType'
    BY <2>1, PostsStep, PlainStep
  <2>2. ASSUME PostsType, PlainType, UNCHANGED vars PROVE PostsType' /\ PlainType'
    BY <2>2 DEF vars, PostsType, PlainType, Posted, Outcome
  <2>3. PostsType' /\ PlainType' => TypeOK'
    BY DEF TypeOK, PostsType, PlainType, Posts, Posted
  <2> QED BY <2>1, <2>2, <2>3, Types
<1> QED BY <1>1, TypesInit, PTL DEF Spec

-----------------------------------------------------------------------------
(* Units.  Evidence that a unit is gone is good for ever.                  *)

\* A step that does not touch deployment d's commands, nor whether its unit
\* runs, and moves its flow and its retirement forward
FlowMove(d) ==
    /\ NotDispatched(d)' <=> NotDispatched(d)
    /\ PastDispatch(d) => PastDispatch(d)'
    /\ retirement[d] # "none" => retirement'[d] # "none"
    /\ Releasing(d)' => NotDispatched(d) \/ Gone(d)

OrderKept(d) ==
    \A k \in {"stop", "remove"} :
        Before(<<d, "apply">>, <<d, k>>) => Before(<<d, "apply">>, <<d, k>>)'

\* ... keeps what is known of the unit
LEMMA UnitFrame ==
    ASSUME NEW d \in Deployments, UnitInv(d), FlowMove(d), OrderKept(d),
           \A k \in Kinds : Outcome(d, k)' = Outcome(d, k),
           d \in running' <=> d \in running
    PROVE  UnitInv(d)'
<1>0. /\ Outcome(d, "apply")' = Outcome(d, "apply") /\ Outcome(d, "stop")' = Outcome(d, "stop")
      /\ Outcome(d, "remove")' = Outcome(d, "remove") /\ Outcome(d, "release")' = Outcome(d, "release")
  BY DEF Kinds
<1>1. Gone(d)' <=> Gone(d)
  BY <1>0 DEF Gone
<1>2. ~NotDispatched(d)' =>
         \A k \in {"stop", "remove"} :
             Before(<<d, "apply">>, <<d, k>>)' /\ (Succeeded(d, k)' => Gone(d)')
  BY <1>0, <1>1 DEF UnitInv, FlowMove, OrderKept, Succeeded
<1>3. ~NotDispatched(d)' => (Releasing(d)' \/ Outcome(d, "release")' # "none" => Gone(d)')
  BY <1>0, <1>1 DEF UnitInv, FlowMove
<1>4. Outcome(d, "release")' # "none" => retirement'[d] # "none" \/ PastDispatch(d)'
  BY <1>0 DEF UnitInv, FlowMove
<1> QED BY <1>0, <1>2, <1>3, <1>4 DEF UnitInv, FlowMove

\* Posting another command than c, or taking one, keeps c before e
LEMMA OrderStays ==
    ASSUME NEW c, NEW e, Before(c, e)
    PROVE  /\ UNCHANGED mailbox => Before(c, e)'
           /\ \A new : PostsOnly(new) /\ c # new => Before(c, e)'
           /\ \A old : TakesOnly(old) => Before(c, e)'
  BY DEF Before, PostsOnly, TakesOnly

\* A step for one deployment leaves every other alone
LEMMA OthersStay ==
    ASSUME PlainType, PostsType, NEW a \in Deployments, NEW d \in Deployments, a # d,
           PlaneStep(a) \/ NodeStep(a)
    PROVE  /\ flow'[d] = flow[d] /\ retirement'[d] = retirement[d] /\ claim'[d] = claim[d]
           /\ agent'[d] = agent[d] /\ (d \in running' <=> d \in running)
           /\ \A k \in Kinds : Outcome(d, k)' = Outcome(d, k)
           /\ \A k, l : Before(<<d, k>>, <<d, l>>) => Before(<<d, k>>, <<d, l>>)'
<1>1. CASE PlaneStep(a)
  <2>1. flow'[d] = flow[d] /\ retirement'[d] = retirement[d] /\ claim'[d] = claim[d]
    <3> USE DEF PlainType
    <3>1. CASE Reserve(a) \/ RequestCancellation(a) \/ Retire(a)
      BY <3>1 DEF Reserve, RequestCancellation, Retire, Stage, Claim
    <3>2. CASE FlowStep(a)
      BY <3>2 DEF FlowStep, NoticeCancellation, MissDeadline, SendPrepare, PrepareConflicts,
        RecordPrepared, FindClaimTaken, PrepareFails, SendApply, FindClaimReleased, ObserveUnit,
        ApplyFails, NothingToStop, SendStop, ObserveStop, StopFails, ReleaseFails, RejectReleased, Stage, Claim, TearDown
    <3>3. CASE RetirementStep(a) \/ ReleaseStep(a) \/ \E k \in Kinds : Expire(a, k)
      BY <3>3 DEF RetirementStep, SendRemove, RecordFenced, ReleaseStep, CancelReservation,
        BeginRelease, RecordReleased, OrphanRelease, FinishRelease, Stage, Claim, Expire
    <3> QED BY <1>1, <3>1, <3>2, <3>3 DEF PlaneStep
  <2>2. agent' = agent /\ running' = running
    BY <1>1, PlaneQuiet
  <2>3. CASE UNCHANGED <<sent, mailbox>>
    BY <2>1, <2>2, <2>3, OrderStays DEF Outcome
  <2>4. ASSUME NEW k \in Kinds, Expire(a, k)
        PROVE  /\ \A l \in Kinds : Outcome(d, l)' = Outcome(d, l)
               /\ UNCHANGED mailbox
    BY <2>4, ExpiredOutcome
  <2>5. ASSUME NEW k \in Kinds, Enqueue(a, k)
        PROVE  /\ \A l \in Kinds : Outcome(d, l)' = Outcome(d, l)
               /\ PostsOnly(<<a, k>>)
    BY <2>5, EnqueuedOutcome
  <2>6. \A k, l : <<d, l>> # <<a, k>>
    OBVIOUS
  <2> QED BY <1>1, <2>1, <2>2, <2>3, <2>4, <2>5, <2>6, PostsOfOne, OrderStays
<1>2. CASE NodeStep(a)
  <2>1. PICK k \in Kinds, o \in Answers : Settle(a, k, o)
    BY <1>2, PostsOfOne
  <2>2. TakesOnly(<<a, k>>) /\ \A l \in Kinds : Outcome(d, l)' = Outcome(d, l)
    BY <2>1, SettledOutcome
  <2>3. UNCHANGED <<flow, retirement, claim>>
    BY <2>1 DEF Settle
  <2>4. d \in running' <=> d \in running
    BY <1>2 DEF NodeStep, AgentRejectsExpired, AgentFails, AgentStops, AgentPrepares,
      AgentApplies, AgentReleases, Quietly
  <2>5. agent'[d] = agent[d]
    BY <1>2 DEF NodeStep, AgentRejectsExpired, AgentFails, AgentStops, AgentPrepares,
      AgentApplies, AgentReleases, Quietly, PlainType
  <2> QED BY <2>2, <2>3, <2>4, <2>5, OrderStays
<1> QED BY <1>1, <1>2

\* ... and therefore the other's unit
LEMMA OtherUnits ==
    ASSUME PlainType, PostsType, NEW a \in Deployments, NEW d \in Deployments, a # d,
           PlaneStep(a) \/ NodeStep(a), UnitInv(d)
    PROVE  UnitInv(d)'
<1>1. /\ flow'[d] = flow[d] /\ retirement'[d] = retirement[d]
      /\ (d \in running' <=> d \in running)
      /\ \A k \in Kinds : Outcome(d, k)' = Outcome(d, k)
      /\ \A k, l : Before(<<d, k>>, <<d, l>>) => Before(<<d, k>>, <<d, l>>)'
  BY OthersStay
<1>2. FlowMove(d)
  BY <1>1 DEF FlowMove, PastDispatch, NotDispatched, Releasing, UnitInv
<1>3. OrderKept(d)
  BY <1>1 DEF OrderKept
<1> QED BY <1>1, <1>2, <1>3, UnitFrame

\* Only SendApply records an apply
LEMMA RecordedKept ==
    ASSUME PlainType, NEW d \in Deployments, PlaneStep(d), ~SendApply(d)
    PROVE  NotDispatched(d)' <=> NotDispatched(d)
<1>0. flow \in [Deployments -> Flow] /\ flow[d] \in Flow
  BY DEF PlainType
<1>1. CASE Reserve(d) \/ RequestCancellation(d) \/ Retire(d)
  BY <1>0, <1>1 DEF Reserve, RequestCancellation, Retire, Stage, NotDispatched, Flow
<1>2. CASE SendPrepare(d)
  <2>1. flow'[d].recorded \in {flow[d].recorded, flow[d].recorded \union {"prepare"}}
    BY <1>0, <1>2 DEF SendPrepare, Flow
  <2> QED BY <2>1 DEF NotDispatched
<1>3. CASE FlowStep(d) /\ ~SendPrepare(d)
  <2>1. \/ UNCHANGED flow \/ (\E t \in {"dispatch", "active", "failed", "release"} : Stage(d, t))
        \/ \E why \in {"cancel", "fail"} : TearDown(d, why)
    <3>1. CASE NoticeCancellation(d) \/ MissDeadline(d) \/ FindClaimTaken(d) \/ PrepareFails(d)
               \/ ApplyFails(d)
      BY <3>1 DEF NoticeCancellation, MissDeadline, FindClaimTaken, PrepareFails, ApplyFails
    <3>2. CASE PrepareConflicts(d) \/ FindClaimReleased(d) \/ StopFails(d) \/ ReleaseFails(d)
               \/ RejectReleased(d) \/ NothingToStop(d) \/ ObserveStop(d) \/ SendStop(d)
      BY <3>2 DEF PrepareConflicts, FindClaimReleased, StopFails, ReleaseFails, RejectReleased,
        NothingToStop, ObserveStop, SendStop
    <3>3. CASE RecordPrepared(d)
      BY <3>3 DEF RecordPrepared
    <3>4. CASE ObserveUnit(d)
      BY <3>4 DEF ObserveUnit
    <3> QED BY <1>3, <3>1, <3>2, <3>3, <3>4 DEF FlowStep
  <2>2. flow'[d].recorded = flow[d].recorded
    BY <1>0, <2>1 DEF Stage, TearDown, Flow
  <2> QED BY <2>2 DEF NotDispatched
<1>4. CASE RetirementStep(d) \/ ReleaseStep(d) \/ \E k \in Kinds : Expire(d, k)
  <2>1. UNCHANGED flow \/ Stage(d, "done")
    BY <1>4 DEF RetirementStep, SendRemove, RecordFenced, ReleaseStep, CancelReservation,
      BeginRelease, RecordReleased, OrphanRelease, FinishRelease, Expire
  <2>2. flow'[d].recorded = flow[d].recorded
    BY <1>0, <2>1 DEF Stage, Flow
  <2> QED BY <2>2 DEF NotDispatched
<1> QED BY <1>1, <1>2, <1>3, <1>4 DEF PlaneStep

\* The steps of the flow that send nothing
LEMMA UnitFlow ==
    ASSUME PlainType, NEW d \in Deployments, UnitInv(d), UNCHANGED <<sent, mailbox, running>>, FlowMove(d)
    PROVE  UnitInv(d)'
<1>1. \A k \in Kinds : Outcome(d, k)' = Outcome(d, k)
  BY DEF Outcome
<1>2. OrderKept(d)
  BY DEF OrderKept, Before
<1> QED BY <1>1, <1>2, UnitFrame

\* Every step of the control plane but the dispatch moves the flow forward
LEMMA FlowMoves ==
    ASSUME PlainType, PostsType, NEW d \in Deployments, UnitInv(d), PlaneStep(d), ~SendApply(d)
    PROVE  FlowMove(d)
<1>0. /\ flow \in [Deployments -> Flow] /\ flow[d] \in Flow
      /\ retirement \in [Deployments -> {"none", "remove", "release", "done"}]
      /\ NotDispatched(d)' <=> NotDispatched(d)
  BY RecordedKept DEF PlainType
<1>1. CASE Reserve(d) \/ RequestCancellation(d)
  BY <1>0, <1>1 DEF Reserve, RequestCancellation, Stage, FlowMove, PastDispatch, Releasing,
    UnitInv, Flow
<1>2. CASE Retire(d)
  BY <1>0, <1>2 DEF Retire, FlowMove, PastDispatch, Releasing, UnitInv
<1>3. CASE NoticeCancellation(d) \/ MissDeadline(d) \/ FindClaimTaken(d) \/ PrepareFails(d) \/ ApplyFails(d)
  <2>0. flow[d].stage \in {"prepare", "dispatch", "observe"} /\ UNCHANGED retirement
        /\ \E why \in {"cancel", "fail"} : TearDown(d, why)
    BY <1>3 DEF NoticeCancellation, MissDeadline, FindClaimTaken, PrepareFails, ApplyFails
  <2> QED BY <1>0, <2>0 DEF TearDown, FlowMove, PastDispatch, Releasing, UnitInv, Flow
<1>4. CASE PrepareConflicts(d) \/ FindClaimReleased(d) \/ StopFails(d) \/ ReleaseFails(d) \/ RejectReleased(d)
  <2>0. Stage(d, "failed") /\ UNCHANGED retirement
    BY <1>4 DEF PrepareConflicts, FindClaimReleased, StopFails, ReleaseFails, RejectReleased
  <2> QED BY <1>0, <2>0 DEF Stage, FlowMove, PastDispatch, Releasing, UnitInv, Flow
<1>5. CASE RecordPrepared(d)
  <2>0. flow[d].stage = "prepare" /\ UNCHANGED retirement
        /\ (Stage(d, "dispatch") \/ TearDown(d, "cancel"))
    BY <1>5 DEF RecordPrepared
  <2> QED BY <1>0, <2>0 DEF Stage, TearDown, FlowMove, PastDispatch, Releasing, UnitInv, Flow
<1>6. CASE ObserveUnit(d)
  <2>0. flow[d].stage = "observe" /\ UNCHANGED retirement
        /\ (Stage(d, "active") \/ Stage(d, "failed") \/ TearDown(d, "fail"))
    BY <1>6 DEF ObserveUnit
  <2> QED BY <1>0, <2>0 DEF Stage, TearDown, FlowMove, PastDispatch, Releasing, UnitInv, Flow
<1>7. CASE NothingToStop(d) \/ ObserveStop(d)
  <2>0. flow[d].stage = "stop" /\ UNCHANGED retirement /\ Stage(d, "release")
        /\ (NotDispatched(d) \/ Succeeded(d, "stop"))
    BY <1>7 DEF NothingToStop, ObserveStop, Evidence
  <2>1. NotDispatched(d) \/ Gone(d)
    BY <2>0 DEF UnitInv
  <2> QED BY <1>0, <2>0, <2>1 DEF Stage, FlowMove, PastDispatch, Flow
<1>8. CASE RecordFenced(d)
  <2>1. NotDispatched(d) \/ Gone(d)
    BY <1>8 DEF RecordFenced, Evidence, UnitInv
  <2> QED BY <1>0, <1>8, <2>1 DEF RecordFenced, FlowMove, PastDispatch
<1>9. CASE FinishRelease(d)
  BY <1>0, <1>9 DEF FinishRelease, Stage, FlowMove, PastDispatch, Releasing, UnitInv, Flow
<1>10. CASE SendPrepare(d)
  <2>1. flow'[d].stage = flow[d].stage /\ UNCHANGED retirement
    BY <1>0, <1>10 DEF SendPrepare, Flow
  <2> QED BY <1>0, <2>1 DEF FlowMove, PastDispatch, Releasing, UnitInv
<1>11. CASE \/ SendStop(d) \/ SendRemove(d) \/ BeginRelease(d) \/ CancelReservation(d)
            \/ RecordReleased(d) \/ OrphanRelease(d) \/ \E k \in Kinds : Expire(d, k)
  <2>1. UNCHANGED <<flow, retirement>>
    BY <1>11 DEF SendStop, SendRemove, BeginRelease, CancelReservation, RecordReleased,
      OrphanRelease, Expire
  <2> QED BY <1>0, <2>1 DEF FlowMove, PastDispatch, Releasing, UnitInv
<1> QED BY <1>1, <1>2, <1>3, <1>4, <1>5, <1>6, <1>7, <1>8, <1>9, <1>10, <1>11
     DEF PlaneStep, FlowStep, RetirementStep, ReleaseStep

\* Posting another command than the apply
LEMMA UnitPosts ==
    ASSUME PlainType, PostsType, NEW d \in Deployments, UnitInv(d), NEW k \in Kinds \ {"apply"},
           FlowMove(d), UNCHANGED running, Enqueue(d, k),
           k = "stop" => ~NotDispatched(d),
           k = "remove" => retirement[d] # "none",
           k = "release" => Releasing(d)
    PROVE  UnitInv(d)'
<1>0. /\ PostsOnly(<<d, k>>)
      /\ \A l \in Kinds : Outcome(d, l)' = IF l = k THEN "pending" ELSE Outcome(d, l)
  BY EnqueuedOutcome
<1>1. /\ Outcome(d, "apply")' = Outcome(d, "apply")
      /\ Outcome(d, "stop")' # Outcome(d, "stop") => k = "stop"
      /\ Outcome(d, "remove")' # Outcome(d, "remove") => k = "remove"
      /\ Outcome(d, "release")' # Outcome(d, "release") => k = "release"
  BY <1>0 DEF Kinds
<1>2. \A l \in {"stop", "remove"} : Succeeded(d, l)' => Succeeded(d, l)
  BY <1>0 DEF Succeeded, Kinds
<1>3. Gone(d)' <=> Gone(d)
  BY <1>1 DEF Gone
<1>4. ~NotDispatched(d) => \A l \in {"stop", "remove"} : Before(<<d, "apply">>, <<d, l>>)'
  BY <1>0, OrderStays DEF UnitInv
<1>5. k = "release" => (retirement[d] # "none" \/ PastDispatch(d)) /\ (NotDispatched(d) \/ Gone(d))
  BY DEF UnitInv, Releasing, PastDispatch
<1>6. ~NotDispatched(d)' =>
          /\ \A l \in {"stop", "remove"} :
                Before(<<d, "apply">>, <<d, l>>)' /\ (Succeeded(d, l)' => Gone(d)')
          /\ Releasing(d)' \/ Outcome(d, "release")' # "none" => Gone(d)'
  BY <1>1, <1>2, <1>3, <1>4, <1>5 DEF UnitInv, FlowMove
<1>7. Outcome(d, "release")' # "none" => retirement'[d] # "none" \/ PastDispatch(d)'
  BY <1>1, <1>5 DEF UnitInv, FlowMove
<1>8. /\ ~PastDispatch(d)' => NotDispatched(d)'
      /\ NotDispatched(d)' => Outcome(d, "stop")' = "none"
      /\ retirement'[d] = "none" => Outcome(d, "remove")' = "none"
  BY <1>1 DEF UnitInv, FlowMove
<1>9. Outcome(d, "apply")' = "none" => d \notin running'
  BY <1>1 DEF UnitInv
<1> QED BY <1>6, <1>7, <1>8, <1>9 DEF UnitInv

\* The apply is recorded only before anything has asked for the unit's end;
\* when the record is lost or refused there is nothing to keep
LEMMA UnitDispatched ==
    ASSUME PlainType, PostsType, NEW d \in Deployments, UnitInv(d), SendApply(d)
    PROVE  UnitInv(d)'
<1>0. /\ flow[d].stage = "dispatch" /\ ~PastDispatch(d) /\ NotDispatched(d)
      /\ UNCHANGED <<retirement, running>> /\ Outcome(d, "stop") = "none"
  BY DEF SendApply, UnitInv, PastDispatch
<1>1. flow[d] \in Flow /\ flow \in [Deployments -> Flow] /\ "apply" \in Kinds
  BY DEF PlainType, Kinds
<1>2. /\ Outcome(d, "apply")' # "none"
      /\ \A l \in Kinds : l # "apply" => Outcome(d, l)' = Outcome(d, l) /\ (Posted(<<d, l>>)' => Posted(<<d, l>>))
  <2>1. CASE Outcome(d, "apply") = "none"
    <3>1. Enqueue(d, "apply")
      BY <2>1 DEF SendApply
    <3>2. /\ PostsOnly(<<d, "apply">>)
          /\ \A l \in Kinds : Outcome(d, l)' = IF l = "apply" THEN "pending" ELSE Outcome(d, l)
      BY <1>1, <3>1, EnqueuedOutcome
    <3> QED BY <1>1, <3>2 DEF PostsOnly
  <2>2. CASE Outcome(d, "apply") # "none"
    BY <2>2 DEF SendApply, Outcome, Posted
  <2> QED BY <2>1, <2>2
<1>3. \A l \in {"stop", "remove", "release"} : Outcome(d, l)' = Outcome(d, l)
  BY <1>2 DEF Kinds
<1>4. CASE NotDispatched(d)'
  <2>1. PastDispatch(d)' \/ UNCHANGED flow
    <3>1. flow'[d].stage = "failed" \/ flow'[d].stage = "observe" \/ UNCHANGED flow
      BY <1>1 DEF SendApply, Stage, Flow
    <3> QED BY <3>1 DEF PastDispatch
  <2>2. Outcome(d, "release")' # "none" => retirement'[d] # "none" \/ PastDispatch(d)'
    BY <1>0, <1>3 DEF UnitInv
  <2>3. retirement'[d] = "none" => Outcome(d, "remove")' = "none"
    BY <1>0, <1>3 DEF UnitInv
  <2> QED BY <1>0, <1>2, <1>3, <1>4, <2>2, <2>3 DEF UnitInv
<1>5. CASE ~NotDispatched(d)'
  <2>1. retirement[d] = "none" /\ flow' = [flow EXCEPT ![d].stage = "observe", ![d].recorded = @ \union {"apply"}]
    <3>1. UNCHANGED flow \/ Stage(d, "failed") => flow'[d].recorded = flow[d].recorded
      BY <1>1 DEF Stage, Flow
    <3>2. ~(UNCHANGED flow \/ Stage(d, "failed"))
      BY <1>0, <1>5, <3>1 DEF NotDispatched
    <3> QED BY <3>2 DEF SendApply
  <2>2. flow'[d].stage = "observe"
    BY <1>1, <2>1 DEF Flow
  <2>3. \A l \in {"stop", "remove", "release"} : Outcome(d, l) = "none" /\ Outcome(d, l)' = "none"
    BY <1>0, <1>3, <2>1 DEF UnitInv
  <2>4. \A l \in {"stop", "remove"} : Before(<<d, "apply">>, <<d, l>>)'
    <3> SUFFICES ASSUME NEW l \in {"stop", "remove"} PROVE ~Posted(<<d, l>>)'
      BY DEF Before, Posted
    <3>1. ~Posted(<<d, l>>)
      BY <2>3 DEF PostsType, Kinds
    <3> QED BY <1>2, <3>1 DEF Kinds
  <2>5. \A l \in {"stop", "remove"} : ~Succeeded(d, l)'
    BY <2>3 DEF Succeeded
  <2>6. ~Releasing(d)' /\ PastDispatch(d)'
    BY <1>0, <2>1, <2>2 DEF Releasing, PastDispatch
  <2> QED BY <1>2, <1>5, <2>3, <2>4, <2>5, <2>6 DEF UnitInv
<1> QED BY <1>4, <1>5

\* The control plane's steps for the deployment itself
LEMMA UnitPlane ==
    ASSUME PlainType, PostsType, NEW d \in Deployments, UnitInv(d), PlaneStep(d)
    PROVE  UnitInv(d)'
<1>1. CASE SendApply(d)
  BY <1>1, UnitDispatched
<1>2. CASE ~SendApply(d)
  <2>0. FlowMove(d) /\ UNCHANGED running
    BY <1>2, FlowMoves, PlaneQuiet
  <2>1. CASE UNCHANGED <<sent, mailbox>>
    BY <2>0, <2>1, UnitFlow
  <2>2. ASSUME NEW k \in Kinds, Expire(d, k) PROVE UnitInv(d)'
    <3>1. (\A l \in Kinds : Outcome(d, l)' = Outcome(d, l)) /\ UNCHANGED mailbox
      BY <2>2, ExpiredOutcome
    <3>2. OrderKept(d)
      BY <3>1 DEF OrderKept, Before
    <3> QED BY <2>0, <3>1, <3>2, UnitFrame
  <2>3. CASE SendPrepare(d)
    BY <2>0, <2>3, UnitPosts DEF SendPrepare, Kinds
  <2>4. CASE SendStop(d)
    BY <2>0, <2>4, UnitPosts DEF SendStop, Kinds
  <2>5. CASE SendRemove(d)
    BY <2>0, <2>5, UnitPosts DEF SendRemove, Kinds
  <2>6. CASE BeginRelease(d)
    BY <2>0, <2>6, UnitPosts DEF BeginRelease, Kinds
  <2>7. \/ UNCHANGED <<sent, mailbox>> \/ SendPrepare(d) \/ SendStop(d)
        \/ SendRemove(d) \/ BeginRelease(d) \/ \E k \in Kinds : Expire(d, k)
    <3>1. CASE Reserve(d) \/ RequestCancellation(d) \/ Retire(d)
      BY <3>1 DEF Reserve, RequestCancellation, Retire
    <3>2. CASE FlowStep(d)
      BY <1>2, <3>2 DEF FlowStep, NoticeCancellation, MissDeadline, PrepareConflicts,
        RecordPrepared, FindClaimTaken, PrepareFails, FindClaimReleased, ObserveUnit,
        ApplyFails, NothingToStop, ObserveStop, StopFails, ReleaseFails, RejectReleased
    <3>3. CASE RetirementStep(d) \/ ReleaseStep(d)
      BY <3>3 DEF RetirementStep, RecordFenced, ReleaseStep, CancelReservation,
        RecordReleased, OrphanRelease, FinishRelease
    <3> QED BY <3>1, <3>2, <3>3 DEF PlaneStep
  <2> QED BY <2>1, <2>2, <2>3, <2>4, <2>5, <2>6, <2>7
<1> QED BY <1>1, <1>2

\* The Agent answers: it starts the unit at an apply only, and its success at
\* a stop or a removal means that the unit is gone and stays so
LEMMA UnitNode ==
    ASSUME PlainType, PostsType, NEW d \in Deployments, UnitInv(d), NodeStep(d)
    PROVE  UnitInv(d)'
<1>1. PICK k \in Kinds, o \in Answers :
         /\ Settle(d, k, o)
         /\ d \in running' => d \in running \/ k = "apply"
         /\ o = "succeeded" /\ k \in {"stop", "remove"} => d \notin running'
  <2>1. CASE \E k \in Kinds : AgentRejectsExpired(d, k)
    BY <2>1 DEF AgentRejectsExpired, Quietly, Answers
  <2>2. CASE \E k \in Kinds : AgentFails(d, k)
    BY <2>2 DEF AgentFails, Answers
  <2>3. CASE \E k \in Kinds : AgentStops(d, k)
    BY <2>3 DEF AgentStops, Answers
  <2>4. CASE AgentPrepares(d)
    BY <2>4 DEF AgentPrepares, Quietly, Answers, Kinds
  <2>5. CASE AgentApplies(d)
    BY <2>5 DEF AgentApplies, Quietly, Answers, Kinds
  <2>6. CASE AgentReleases(d)
    BY <2>6 DEF AgentReleases, Quietly, Answers, Kinds
  <2> QED BY <2>1, <2>2, <2>3, <2>4, <2>5, <2>6 DEF NodeStep
<1>2. /\ TakesOnly(<<d, k>>) /\ Outcome(d, k) = "pending"
      /\ \A c : Before(c, <<d, k>>) => ~Posted(c)
      /\ \A l \in Kinds : Outcome(d, l)' = IF l = k THEN o ELSE Outcome(d, l)
  BY <1>1, SettledOutcome
<1>3. UNCHANGED <<flow, retirement>>
  BY <1>1 DEF Settle
<1>4. /\ Releasing(d)' <=> Releasing(d)
      /\ PastDispatch(d)' <=> PastDispatch(d)
      /\ NotDispatched(d)' <=> NotDispatched(d)
      /\ retirement'[d] = retirement[d]
  BY <1>3 DEF Releasing, PastDispatch, NotDispatched
<1>5. \A l \in Kinds : Outcome(d, l)' = "none" <=> Outcome(d, l) = "none"
  BY <1>2 DEF Answers
<1>6. Gone(d) => Gone(d)'
  BY <1>1, <1>2 DEF Gone, Answers, Kinds
<1>7. ASSUME ~NotDispatched(d), NEW l \in {"stop", "remove"}, Succeeded(d, l)' PROVE Gone(d)'
  <2>1. CASE l # k
    BY <1>2, <1>6, <1>7, <2>1 DEF Succeeded, UnitInv, Kinds
  <2>2. CASE l = k
    <3>1. o = "succeeded" /\ d \notin running'
      BY <1>1, <1>2, <1>7, <2>2 DEF Succeeded
    <3>2. ~Posted(<<d, "apply">>)
      BY <1>2, <1>7, <2>2 DEF UnitInv
    <3>3. Outcome(d, "apply") # "pending"
      BY <3>2 DEF PostsType, Kinds
    <3> QED BY <1>2, <2>2, <3>1, <3>3 DEF Gone, Kinds
  <2> QED BY <2>1, <2>2
<1>8. ~NotDispatched(d) => \A l \in {"stop", "remove"} : Before(<<d, "apply">>, <<d, l>>)'
  BY <1>2, OrderStays DEF UnitInv
<1>9. Outcome(d, "apply")' = "none" => d \notin running'
  BY <1>1, <1>2, <1>5 DEF UnitInv, Kinds
<1>10. \A l \in {"stop", "remove", "release"} : Outcome(d, l)' = "none" <=> Outcome(d, l) = "none"
  BY <1>5 DEF Kinds
<1>11. ~NotDispatched(d)' =>
          /\ \A l \in {"stop", "remove"} :
                Before(<<d, "apply">>, <<d, l>>)' /\ (Succeeded(d, l)' => Gone(d)')
          /\ Releasing(d)' \/ Outcome(d, "release")' # "none" => Gone(d)'
  BY <1>4, <1>6, <1>7, <1>8, <1>10 DEF UnitInv
<1> QED BY <1>4, <1>9, <1>10, <1>11 DEF UnitInv

\* What was sent stays sent when the Agent answers
LEMMA AnswerIsSome ==
    ASSUME PostsType, NEW d \in Deployments, NEW k \in Kinds, NEW o \in Answers, Settle(d, k, o)
    PROVE  \A l \in Kinds : Outcome(d, l) # "none" => Outcome(d, l)' # "none"
<1>1. o # "none"
  BY DEF Answers
<1>2. /\ TakesOnly(<<d, k>>) /\ Outcome(d, k) = "pending"
      /\ \A l \in Kinds : Outcome(d, l)' = IF l = k THEN o ELSE Outcome(d, l)
  BY SettledOutcome
<1> QED BY <1>1, <1>2

\* A stray is one for good
LEMMA StrayStays ==
    ASSUME PlainType, PostsType, NEW a \in Deployments, PlaneStep(a) \/ NodeStep(a),
           NEW d \in Deployments, UnitInv(d), Stray(d)
    PROVE  Stray(d)'
<1>0. /\ "apply" \in Kinds /\ "release" \in Kinds
      /\ Outcome(d, "apply") # "none" /\ Outcome(d, "release") # "none" /\ NotDispatched(d)
  BY DEF Kinds, Stray, Unrecorded, NotDispatched
<1>1. CASE a # d
  <2>1. flow'[d] = flow[d] /\ \A k \in Kinds : Outcome(d, k)' = Outcome(d, k)
    BY <1>1, OthersStay
  <2> QED BY <1>0, <2>1 DEF Stray, Unrecorded
<1>2. CASE a = d
  <2>1. \A k \in Kinds : Outcome(d, k) # "none" => Outcome(d, k)' # "none"
    <3>1. CASE UNCHANGED <<sent, mailbox>>
      BY <3>1 DEF Outcome
    <3>2. ASSUME NEW k \in Kinds, Expire(d, k)
          PROVE  \A l \in Kinds : Outcome(d, l) # "none" => Outcome(d, l)' # "none"
      BY <3>2, ExpiredOutcome
    <3>3. ASSUME NEW k \in Kinds, Enqueue(d, k)
          PROVE  \A l \in Kinds : Outcome(d, l) # "none" => Outcome(d, l)' # "none"
      BY <3>3, EnqueuedOutcome
    <3>4. ASSUME NEW k \in Kinds, NEW o \in Answers, Settle(d, k, o)
          PROVE  \A l \in Kinds : Outcome(d, l) # "none" => Outcome(d, l)' # "none"
      BY <3>4, AnswerIsSome
    <3> QED BY <1>2, <3>1, <3>2, <3>3, <3>4, PostsOfOne
  <2>2. NotDispatched(d)'
    <3>1. CASE PlaneStep(d) /\ ~SendApply(d)
      BY <1>0, <3>1, RecordedKept
    <3>2. CASE SendApply(d)
      <4>1. flow[d].stage = "dispatch" /\ ~PastDispatch(d)
        BY <3>2 DEF SendApply, PastDispatch
      <4>2. retirement[d] # "none"
        BY <1>0, <4>1 DEF UnitInv
      <4>3. Stage(d, "failed")
        BY <3>2, <4>2 DEF SendApply
      <4>4. flow[d] \in Flow /\ flow \in [Deployments -> Flow]
        BY DEF PlainType
      <4>5. flow'[d].recorded = flow[d].recorded
        BY <4>3, <4>4 DEF Stage, Flow
      <4> QED BY <1>0, <4>5 DEF NotDispatched
    <3>3. CASE NodeStep(d)
      <4>1. UNCHANGED flow
        BY <3>3, PostsOfOne DEF Settle
      <4> QED BY <1>0, <4>1 DEF NotDispatched
    <3> QED BY <1>2, <3>1, <3>2, <3>3
  <2> QED BY <1>0, <2>1, <2>2 DEF Stray, Unrecorded, NotDispatched
<1> QED BY <1>1, <1>2

-----------------------------------------------------------------------------
(* Slots.                                                                  *)

\* A part of the claims does not take more than all of them
LEMMA AllocatedLess ==
    ASSUME NEW T \in SUBSET Deployments, NEW S \in SUBSET T
    PROVE  Allocated(S) <= Allocated(T) /\ Allocated(S) \in Nat /\ Allocated(T) \in Nat
<1> DEFINE Units(R) == {u \in R \X (1..Capacity) : u[2] <= Amount(u[1])}
<1>1. IsFiniteSet(T) /\ IsFiniteSet(1..Capacity)
  BY ClaimAssumption, FS_Subset, FS_Interval
<1>2. IsFiniteSet(T \X (1..Capacity))
  BY <1>1, FS_Product
<1>3. Units(T) \subseteq T \X (1..Capacity) /\ Units(S) \subseteq Units(T)
  OBVIOUS
<1>4. IsFiniteSet(Units(T))
  BY <1>2, <1>3, FS_Subset
<1>5. /\ IsFiniteSet(Units(S)) /\ Cardinality(Units(S)) <= Cardinality(Units(T))
  BY <1>3, <1>4, FS_Subset
<1>6. Cardinality(Units(S)) \in Nat /\ Cardinality(Units(T)) \in Nat
  BY <1>4, <1>5, FS_CardinalityType
<1> QED BY <1>5, <1>6 DEF Allocated

\* What fits beside many fits beside few
LEMMA FitsLess ==
    ASSUME NEW T \in SUBSET Deployments, NEW S \in SUBSET T, NEW d \in S, Fits(d, T)
    PROVE  Fits(d, S)
<1>1. S \union {d} = S /\ T \union {d} = T
  OBVIOUS
<1>2. Allocated(S) <= Allocated(T) /\ Allocated(S) \in Nat /\ Allocated(T) \in Nat
  BY AllocatedLess
<1>3. Allocated(T) <= Capacity /\ Capacity \in Nat
  BY <1>1, ClaimAssumption DEF Fits
<1>4. Allocated(S) <= Capacity
  BY <1>2, <1>3
<1> QED BY <1>1, <1>4 DEF Fits

\* What fits beside claims that fit together fits together with them
LEMMA FitsMore ==
    ASSUME NEW T \in SUBSET Deployments, NEW d \in Deployments, Fits(d, T),
           \A e \in T : Fits(e, T)
    PROVE  \A e \in T \union {d} : Fits(e, T \union {d})
<1> SUFFICES ASSUME NEW e \in T \union {d} PROVE Fits(e, T \union {d})
  OBVIOUS
<1>1. (T \union {d}) \union {e} = T \union {d}
  OBVIOUS
<1>2. Allocated(T \union {d}) <= Capacity
  BY DEF Fits
<1>3. ASSUME NEW f \in (T \union {d}) \ {e} PROVE Devices(e) \intersect Devices(f) = {}
  <2>1. CASE e = d
    BY <1>3, <2>1 DEF Fits
  <2>2. CASE e # d /\ f = d
    <3>1. e \in T \ {d}
      BY <2>2
    <3>2. Devices(d) \intersect Devices(e) = {}
      BY <3>1 DEF Fits
    <3> QED BY <2>2, <3>2
  <2>3. CASE e # d /\ f # d
    BY <1>3, <2>3 DEF Fits
  <2> QED BY <2>1, <2>2, <2>3
<1> QED BY <1>1, <1>2, <1>3 DEF Fits

\* What the Agent does to the claims it holds
LEMMA ActiveMoves ==
    ASSUME PlainType, NEW d \in Deployments, NodeStep(d)
    PROVE  \/ Active' = Active /\ running' \subseteq running
           \/ Active' = Active /\ d \in Active /\ running' \subseteq running \union {d}
           \/ Active' = Active \union {d} /\ Fits(d, Active) /\ running' = running
           \/ /\ Active' = Active \ {d} /\ running' = running
              /\ \E o \in Answers : Settle(d, "release", o)
<1>0. agent \in [Deployments -> Projected] /\ agent[d] \in Projected
  BY DEF PlainType
<1>1. CASE \E k \in Kinds : AgentRejectsExpired(d, k) \/ AgentFails(d, k)
  <2>1. agent' = agent /\ (running' \subseteq running \/ (agent[d].active /\ running' \subseteq running \union {d}))
    BY <1>1 DEF AgentRejectsExpired, AgentFails, Quietly
  <2> QED BY <2>1 DEF Active
<1>2. CASE \E k \in Kinds : AgentStops(d, k)
  <2>1. agent' = [agent EXCEPT ![d].fenced = agent[d].active \/ agent[d].fenced] /\ running' \subseteq running
    BY <1>2 DEF AgentStops
  <2>2. \A e \in Deployments : agent'[e].active = agent[e].active
    BY <1>0, <2>1 DEF Projected
  <2> QED BY <2>1, <2>2 DEF Active
<1>3. CASE AgentPrepares(d)
  <2>1. CASE agent' = agent /\ running' = running
    BY <2>1 DEF Active
  <2>2. CASE /\ Fits(d, Active) /\ running' = running
             /\ agent' = [agent EXCEPT ![d].active = TRUE, ![d].released = FALSE]
    <3>1. \A e \in Deployments : agent'[e].active <=> e = d \/ agent[e].active
      BY <1>0, <2>2 DEF Projected
    <3>2. Active' = Active \union {d}
      BY <3>1 DEF Active
    <3> QED BY <2>2, <3>2
  <2> QED BY <1>3, <2>1, <2>2 DEF AgentPrepares, Quietly
<1>4. CASE AgentApplies(d)
  <2>1. CASE agent' = agent /\ running' = running
    BY <2>1 DEF Active
  <2>2. CASE /\ agent[d].active /\ running' = running \union {d}
             /\ agent' = [agent EXCEPT ![d].bound = TRUE, ![d].fenced = FALSE]
    <3>1. \A e \in Deployments : agent'[e].active = agent[e].active
      BY <1>0, <2>2 DEF Projected
    <3>2. Active' = Active /\ d \in Active
      BY <2>2, <3>1 DEF Active
    <3> QED BY <2>2, <3>2
  <2> QED BY <1>4, <2>1, <2>2 DEF AgentApplies, Quietly
<1>5. CASE AgentReleases(d)
  <2>1. CASE agent' = agent /\ running' = running
    BY <2>1 DEF Active
  <2>2. CASE /\ \E o \in Answers : Settle(d, "release", o)
             /\ running' = running
             /\ agent' = [agent EXCEPT ![d].active = FALSE, ![d].released = TRUE]
    <3>1. \A e \in Deployments : agent'[e].active <=> e # d /\ agent[e].active
      BY <1>0, <2>2 DEF Projected
    <3>2. Active' = Active \ {d}
      BY <3>1 DEF Active
    <3> QED BY <2>2, <3>2
  <2> QED BY <1>5, <2>1, <2>2 DEF AgentReleases, Quietly, Answers
<1> QED BY <1>1, <1>2, <1>3, <1>4, <1>5 DEF NodeStep

\* The claims the Agent holds fit together, and cover what runs
LEMMA ActiveStep ==
    ASSUME PlainType, PostsType, UnitsInv, ActiveInv, Next
    PROVE  ActiveInv'
<1>0. PICK d \in Deployments : PlaneStep(d) \/ NodeStep(d)
  BY StepsOfOne
<1>1. \A e \in Deployments : Stray(e) => Stray(e)'
  BY <1>0, StrayStays DEF UnitsInv
<1>2. PICK A \in SUBSET Deployments : A = Active
  BY DEF Active
<1>3. /\ \A e \in running : e \in A \/ Stray(e)'
      /\ \A e \in A : Fits(e, A)
  BY <1>1, <1>2 DEF ActiveInv, PlainType
<1>4. CASE Active' = Active /\ running' \subseteq running
  BY <1>2, <1>3, <1>4 DEF ActiveInv
<1>5. CASE Active' = Active /\ d \in Active /\ running' \subseteq running \union {d}
  BY <1>2, <1>3, <1>5 DEF ActiveInv
<1>6. CASE Active' = Active \union {d} /\ Fits(d, Active) /\ running' = running
  <2>1. \A e \in A \union {d} : Fits(e, A \union {d})
    BY <1>2, <1>3, <1>6, FitsMore
  <2> QED BY <1>2, <1>3, <1>6, <2>1 DEF ActiveInv
<1>7. CASE /\ Active' = Active \ {d} /\ running' = running
           /\ \E o \in Answers : Settle(d, "release", o)
  <2>1. Outcome(d, "release") = "pending"
    BY <1>7, SettledOutcome DEF Kinds
  <2>2. d \in running => Stray(d)
    BY <2>1 DEF UnitsInv, UnitInv, Gone, Stray, Unrecorded, NotDispatched
  <2>3. \A e \in A \ {d} : Fits(e, A \ {d})
    BY <1>3, FitsLess
  <2> QED BY <1>1, <1>2, <1>3, <1>7, <2>2, <2>3 DEF ActiveInv
<1>8. PlaneStep(d) => Active' = Active /\ running' = running
  BY PlaneQuiet DEF Active
<1> QED BY <1>0, <1>4, <1>5, <1>6, <1>7, <1>8, ActiveMoves

\* The inductive invariant behind NoSharedUse
ClaimsInv == TypeOK /\ UnitsInv /\ ActiveInv

\* Nothing runs to begin with
LEMMA ClaimsInit == Init => ClaimsInv
<1> SUFFICES ASSUME Init PROVE UnitsInv /\ ActiveInv
  BY TypesInit DEF ClaimsInv
<1>1. /\ \A d \in Deployments, k \in Kinds : Outcome(d, k) = "none"
      /\ \A d \in Deployments : flow[d].stage = "new" /\ NotDispatched(d) /\ retirement[d] = "none"
      /\ \A d \in Deployments : ~agent[d].active
      /\ DOMAIN mailbox = {} /\ running = {}
  BY DEF Init, Outcome, NotDispatched
<1>2. ActiveInv
  BY <1>1 DEF ActiveInv, Active
<1>3. ASSUME NEW d \in Deployments PROVE UnitInv(d)
  <2>1. \A k \in {"apply", "stop", "remove", "release"} : Outcome(d, k) = "none" /\ ~Succeeded(d, k)
    BY <1>1 DEF Kinds, Succeeded
  <2>2. \A k \in {"stop", "remove"} : Before(<<d, "apply">>, <<d, k>>)
    BY <1>1 DEF Before
  <2>3. ~Releasing(d)
    BY <1>1 DEF Releasing
  <2> QED BY <1>1, <2>1, <2>2, <2>3 DEF UnitInv
<1> QED BY <1>2, <1>3 DEF UnitsInv

\* A step that changes nothing
LEMMA ClaimsStutter ==
    ASSUME UnitsInv, ActiveInv, UNCHANGED vars
    PROVE  UnitsInv' /\ ActiveInv'
<1>1. Active' = Active /\ running' = running
  BY DEF vars, Active
<1>2. ActiveInv'
  BY <1>1 DEF vars, ActiveInv, Fits, Stray, Unrecorded, Outcome
<1>3. ASSUME NEW d \in Deployments PROVE UnitInv(d)'
  <2>1. /\ \A k \in Kinds : Outcome(d, k)' = Outcome(d, k)
        /\ FlowMove(d) /\ OrderKept(d) /\ UnitInv(d)
    BY DEF vars, Outcome, FlowMove, OrderKept, Before, PastDispatch, NotDispatched,
      Releasing, UnitInv, UnitsInv
  <2> QED BY <1>1, <2>1, UnitFrame
<1> QED BY <1>2, <1>3 DEF UnitsInv

(***************************************************************************)
(* ClaimsInv is inductive, whichever write of dispatch_bound is lost and   *)
(* whenever a replica is retired.                                          *)
(***************************************************************************)
THEOREM ClaimsInvariance == Spec => []ClaimsInv
<1>1. ClaimsInv /\ [Next]_vars => UnitsInv' /\ ActiveInv'
  <2>1. ASSUME TypeOK, UnitsInv, ActiveInv, Next PROVE UnitsInv' /\ ActiveInv'
    <3>1. PlainType /\ PostsType
      BY <2>1, Types
    <3>2. PICK a \in Deployments : PlaneStep(a) \/ NodeStep(a)
      BY <2>1, StepsOfOne
    <3>3. ASSUME NEW d \in Deployments PROVE UnitInv(d)'
      <4>1. UnitInv(d)
        BY <2>1 DEF UnitsInv
      <4> QED BY <3>1, <3>2, <4>1, OtherUnits, UnitPlane, UnitNode
    <3> QED BY <2>1, <3>1, <3>3, ActiveStep DEF UnitsInv
  <2> QED BY <2>1, ClaimsStutter DEF ClaimsInv
<1> QED BY <1>1, ClaimsInit, TypeCorrectness, PTL DEF Spec, ClaimsInv

(***************************************************************************)
(* No two running units share an exclusive slot, and what runs fits the    *)
(* node, the strays apart: validate_prepare admits a claim only beside     *)
(* those that are still active, and none is released while its unit runs,  *)
(* unless the apply that started the unit was never recorded as sent.      *)
(***************************************************************************)
THEOREM NoSharing == Spec => []NoSharedUse
<1>1. ClaimsInv => NoSharedUse
  <2> DEFINE users == {d \in running : ~Stray(d)}
  <2> SUFFICES ASSUME ClaimsInv, NEW d \in users PROVE Fits(d, users)
    BY DEF NoSharedUse
  <2>1. Active \in SUBSET Deployments /\ users \in SUBSET Active /\ Fits(d, Active)
    BY DEF Active, ClaimsInv, ActiveInv
  <2> HIDE DEF users
  <2> QED BY <2>1, FitsLess
<1> QED BY <1>1, ClaimsInvariance, PTL

-----------------------------------------------------------------------------
(* The claims of the database.                                             *)

\* The claim moves on, and is given up only when the Agent has nothing of it
\* or the prepare was never recorded
ClaimMove(d) ==
    /\ claim'[d] \in {"none", "reserved"} =>
           Outcome(d, "release") = "none" /\ "prepare" \notin flow'[d].recorded
    /\ claim'[d] = "none" => Outcome(d, "prepare") = "none"
    /\ claim'[d] = "released" => Unprepared(d) \/ "prepare" \notin flow'[d].recorded
    /\ flow'[d].stage = "new" <=> claim'[d] = "none"

\* A step that settles no command of the deployment and does not change what
\* the Agent holds
LEMMA HoldFrame ==
    ASSUME NEW d \in Deployments, HoldInv(d), ClaimMove(d),
           agent'[d].active <=> agent[d].active,
           \A k \in {"prepare", "release"} : Outcome(d, k)' = Outcome(d, k),
           Before(<<d, "prepare">>, <<d, "release">>)'
    PROVE  HoldInv(d)'
<1>1. /\ Outcome(d, "prepare")' = Outcome(d, "prepare") /\ Outcome(d, "release")' = Outcome(d, "release")
      /\ Succeeded(d, "release")' <=> Succeeded(d, "release")
  BY DEF Succeeded
<1>2. Unprepared(d)' <=> Unprepared(d)
  BY <1>1 DEF Unprepared
<1> QED BY <1>1, <1>2 DEF HoldInv, ClaimMove

\* Another deployment's step
LEMMA OtherHolds ==
    ASSUME PlainType, PostsType, NEW a \in Deployments, NEW d \in Deployments, a # d,
           PlaneStep(a) \/ NodeStep(a), HoldInv(d)
    PROVE  HoldInv(d)'
<1>1. /\ flow'[d] = flow[d] /\ claim'[d] = claim[d] /\ agent'[d] = agent[d]
      /\ \A k \in Kinds : Outcome(d, k)' = Outcome(d, k)
      /\ Before(<<d, "prepare">>, <<d, "release">>)'
  BY OthersStay DEF HoldInv
<1>2. ClaimMove(d)
  BY <1>1 DEF ClaimMove, HoldInv
<1> QED BY <1>1, <1>2, HoldFrame DEF Kinds

\* What the control plane's steps do to the claim, but for the sending of
\* its prepare and its release
LEMMA ClaimMoves ==
    ASSUME PlainType, NEW d \in Deployments, HoldInv(d), PlaneStep(d),
           ~SendPrepare(d)
    PROVE  ClaimMove(d)
<1>0. /\ flow \in [Deployments -> Flow] /\ flow[d] \in Flow /\ claim \in [Deployments -> ClaimState]
      /\ (flow[d].stage = "new" <=> claim[d] = "none")
      /\ (claim[d] \in {"none", "reserved"} => Outcome(d, "release") = "none" /\ "prepare" \notin flow[d].recorded)
      /\ (claim[d] = "none" => Outcome(d, "prepare") = "none")
      /\ (claim[d] = "released" => Unprepared(d) \/ "prepare" \notin flow[d].recorded)
      /\ (Succeeded(d, "release") => Unprepared(d))
  BY DEF PlainType, HoldInv
<1>1. CASE Reserve(d)
  BY <1>0, <1>1 DEF Reserve, Stage, Claim, ClaimMove, Flow
<1>2. CASE RequestCancellation(d) \/ Retire(d) \/ (\E k \in Kinds : Expire(d, k))
  BY <1>0, <1>2 DEF RequestCancellation, Retire, Expire, ClaimMove, Flow
<1>3. CASE NoticeCancellation(d) \/ MissDeadline(d) \/ FindClaimTaken(d) \/ ApplyFails(d)
  BY <1>0, <1>3 DEF NoticeCancellation, MissDeadline, FindClaimTaken, ApplyFails, TearDown, ClaimMove, Flow
<1>4. CASE PrepareConflicts(d) \/ FindClaimReleased(d) \/ NothingToStop(d) \/ ObserveStop(d)
           \/ StopFails(d) \/ ReleaseFails(d) \/ RejectReleased(d)
  <2>1. flow[d].stage # "new" /\ (Stage(d, "failed") \/ Stage(d, "release")) /\ UNCHANGED claim
    BY <1>4 DEF PrepareConflicts, FindClaimReleased, NothingToStop, ObserveStop, StopFails, ReleaseFails, RejectReleased
  <2> QED BY <1>0, <2>1 DEF Stage, ClaimMove, Flow
<1>5. CASE RecordPrepared(d) \/ PrepareFails(d)
  <2>1. /\ \E s \in {"prepared", "orphaned"} : Claim(d, s)
        /\ Stage(d, "dispatch") \/ \E why \in {"cancel", "fail"} : TearDown(d, why)
    BY <1>5 DEF RecordPrepared, PrepareFails
  <2> QED BY <1>0, <2>1 DEF Claim, Stage, TearDown, ClaimMove, Flow
<1>6. CASE SendApply(d)
  <2>1. /\ flow[d].stage = "dispatch" /\ UNCHANGED claim
        /\ \/ Stage(d, "failed") \/ UNCHANGED flow
           \/ flow' = [flow EXCEPT ![d].stage = "observe", ![d].recorded = @ \union {"apply"}]
    BY <1>6 DEF SendApply
  <2>2. /\ flow'[d].stage \in {"failed", "observe", "dispatch"}
        /\ flow'[d].recorded \in {flow[d].recorded, flow[d].recorded \union {"apply"}}
    BY <1>0, <2>1 DEF Stage, Flow
  <2> QED BY <1>0, <2>1, <2>2 DEF ClaimMove
<1>7. CASE ObserveUnit(d)
  <2>1. /\ Claim(d, "bound")
        /\ Stage(d, "active") \/ Stage(d, "failed") \/ TearDown(d, "fail")
    BY <1>7 DEF ObserveUnit
  <2> QED BY <1>0, <2>1 DEF Claim, Stage, TearDown, ClaimMove, Flow
<1>8. CASE SendStop(d) \/ SendRemove(d) \/ RecordFenced(d)
  BY <1>0, <1>8 DEF SendStop, SendRemove, RecordFenced, ClaimMove
<1>9. CASE CancelReservation(d)
  <2>1. claim[d] = "reserved" /\ Claim(d, "released") /\ UNCHANGED flow
    BY <1>9 DEF CancelReservation, Unsent
  <2> QED BY <1>0, <2>1 DEF Claim, ClaimMove
<1>10. CASE BeginRelease(d) \/ OrphanRelease(d)
  <2>1. /\ claim[d] # "none" /\ UNCHANGED flow
        /\ \E s \in {"releasing", "orphaned"} : Claim(d, s)
    BY <1>10 DEF BeginRelease, OrphanRelease
  <2> QED BY <1>0, <2>1 DEF Claim, ClaimMove
<1>11. CASE RecordReleased(d)
  BY <1>0, <1>11 DEF RecordReleased, Claim, ClaimMove
<1>12. CASE FinishRelease(d)
  <2>1. /\ claim[d] = "released" /\ UNCHANGED claim
        /\ Stage(d, "done") \/ UNCHANGED flow
    BY <1>12 DEF FinishRelease
  <2> QED BY <1>0, <2>1 DEF Stage, ClaimMove, Flow
<1> QED BY <1>1, <1>2, <1>3, <1>4, <1>5, <1>6, <1>7, <1>8, <1>9, <1>10, <1>11, <1>12
     DEF PlaneStep, FlowStep, RetirementStep, ReleaseStep

\* The control plane's steps for the deployment itself
LEMMA HoldPlane ==
    ASSUME PlainType, PostsType, NEW d \in Deployments, HoldInv(d), PlaneStep(d)
    PROVE  HoldInv(d)'
<1>0. agent' = agent
  BY PlaneQuiet
<1>b. Before(<<d, "prepare">>, <<d, "release">>)
  BY DEF HoldInv
<1>1. CASE SendPrepare(d)
  <2>0. "prepare" \in Kinds /\ "release" \in Kinds
    BY DEF Kinds
  <2>1. /\ claim[d] = "reserved" /\ Enqueue(d, "prepare") /\ flow[d].stage = "prepare"
        /\ Claim(d, "preparing") \/ UNCHANGED <<claim, flow>>
    BY <1>1 DEF SendPrepare
  <2>2. /\ PostsOnly(<<d, "prepare">>)
        /\ \A l \in Kinds : Outcome(d, l)' = IF l = "prepare" THEN "pending" ELSE Outcome(d, l)
    BY <2>0, <2>1, EnqueuedOutcome
  <2>3. Outcome(d, "release") = "none" /\ Outcome(d, "release")' = "none" /\ Outcome(d, "prepare")' = "pending"
    BY <2>0, <2>1, <2>2 DEF HoldInv
  <2>4. ~Posted(<<d, "release">>)'
    <3>1. ~Posted(<<d, "release">>)
      BY <2>0, <2>3 DEF PostsType
    <3> QED BY <2>2, <3>1 DEF PostsOnly
  <2>5. Before(<<d, "prepare">>, <<d, "release">>)'
    BY <2>4 DEF Before, Posted
  <2>6. claim'[d] = "preparing" \/ UNCHANGED <<claim, flow>>
    BY <2>1 DEF Claim, PlainType
  <2>7. flow'[d].stage = "prepare"
    <3>1. flow \in [Deployments -> Flow] /\ flow[d] \in Flow
      BY DEF PlainType
    <3> QED BY <1>1, <2>1, <3>1 DEF SendPrepare, Flow
  <2> QED BY <2>1, <2>3, <2>5, <2>6, <2>7 DEF HoldInv, Succeeded
<1>2. CASE BeginRelease(d)
  <2>0. "prepare" \in Kinds /\ "release" \in Kinds
    BY DEF Kinds
  <2>1. /\ Enqueue(d, "release") /\ Claim(d, "releasing") /\ UNCHANGED flow /\ claim[d] # "none"
    BY <1>2 DEF BeginRelease
  <2>2. /\ PostsOnly(<<d, "release">>)
        /\ \A l \in Kinds : Outcome(d, l)' = IF l = "release" THEN "pending" ELSE Outcome(d, l)
    BY <2>0, <2>1, EnqueuedOutcome
  <2>3. Outcome(d, "release")' = "pending" /\ Outcome(d, "prepare")' = Outcome(d, "prepare")
    BY <2>0, <2>2
  <2>4. Before(<<d, "prepare">>, <<d, "release">>)'
    BY <2>2 DEF PostsOnly
  <2>5. claim'[d] = "releasing"
    BY <2>1 DEF Claim, PlainType
  <2> QED BY <1>0, <2>1, <2>3, <2>4, <2>5 DEF HoldInv, Succeeded
<1>3. CASE ~SendPrepare(d) /\ ~BeginRelease(d)
  <2>1. ClaimMove(d)
    BY <1>3, ClaimMoves
  <2>2. CASE UNCHANGED <<sent, mailbox>>
    BY <1>0, <1>b, <2>1, <2>2, HoldFrame DEF Outcome, Before
  <2>3. ASSUME NEW k \in Kinds, Expire(d, k) PROVE HoldInv(d)'
    <3>1. (\A l \in Kinds : Outcome(d, l)' = Outcome(d, l)) /\ UNCHANGED mailbox
      BY <2>3, ExpiredOutcome
    <3>2. Before(<<d, "prepare">>, <<d, "release">>)'
      BY <1>b, <3>1 DEF Before
    <3> QED BY <1>0, <2>1, <3>1, <3>2, HoldFrame DEF Kinds
  <2>4. CASE SendApply(d) \/ SendStop(d) \/ SendRemove(d)
    <3>1. UNCHANGED <<sent, mailbox>> \/ \E k \in {"apply", "stop", "remove"} : Enqueue(d, k)
      BY <2>4 DEF SendApply, SendStop, SendRemove
    <3>2. ASSUME NEW k \in {"apply", "stop", "remove"}, Enqueue(d, k) PROVE HoldInv(d)'
      <4>0. k \in Kinds /\ "prepare" \in Kinds /\ "release" \in Kinds
        BY DEF Kinds
      <4>1. /\ PostsOnly(<<d, k>>)
            /\ \A l \in Kinds : Outcome(d, l)' = IF l = k THEN "pending" ELSE Outcome(d, l)
        BY <3>2, <4>0, EnqueuedOutcome
      <4>2. \A l \in {"prepare", "release"} : Outcome(d, l)' = Outcome(d, l)
        BY <4>0, <4>1
      <4>3. Before(<<d, "prepare">>, <<d, "release">>)'
        BY <1>b, <4>1, OrderStays
      <4> QED BY <1>0, <2>1, <4>2, <4>3, HoldFrame
    <3> QED BY <2>2, <3>1, <3>2
  <2>5. \/ UNCHANGED <<sent, mailbox>> \/ SendApply(d) \/ SendStop(d) \/ SendRemove(d)
        \/ \E k \in Kinds : Expire(d, k)
    <3>1. CASE Reserve(d) \/ RequestCancellation(d) \/ Retire(d)
      BY <3>1 DEF Reserve, RequestCancellation, Retire
    <3>2. CASE FlowStep(d)
      BY <1>3, <3>2 DEF FlowStep, NoticeCancellation, MissDeadline, PrepareConflicts,
        RecordPrepared, FindClaimTaken, PrepareFails, FindClaimReleased, ObserveUnit,
        ApplyFails, NothingToStop, ObserveStop, StopFails, ReleaseFails, RejectReleased
    <3>3. CASE RetirementStep(d) \/ ReleaseStep(d)
      BY <1>3, <3>3 DEF RetirementStep, RecordFenced, ReleaseStep, CancelReservation,
        RecordReleased, OrphanRelease, FinishRelease
    <3> QED BY <3>1, <3>2, <3>3 DEF PlaneStep
  <2> QED BY <2>2, <2>3, <2>4, <2>5
<1> QED BY <1>1, <1>2, <1>3

\* The Agent's steps: it prepares only at a prepare, and what it releases
\* no prepare can bring back
LEMMA HoldNode ==
    ASSUME PlainType, PostsType, NEW d \in Deployments, HoldInv(d), NodeStep(d)
    PROVE  HoldInv(d)'
<1>1. PICK k \in Kinds, o \in Answers :
         /\ Settle(d, k, o)
         /\ agent'[d].active => agent[d].active \/ k = "prepare"
         /\ o = "succeeded" /\ k = "release" => ~agent'[d].active
  <2>0. agent \in [Deployments -> Projected] /\ agent[d] \in Projected
    BY DEF PlainType
  <2>1. CASE \E k \in Kinds : AgentRejectsExpired(d, k) \/ AgentFails(d, k)
    BY <2>1 DEF AgentRejectsExpired, AgentFails, Quietly, Answers
  <2>2. CASE \E k \in Kinds : AgentStops(d, k)
    BY <2>0, <2>2 DEF AgentStops, Answers, Projected
  <2>3. CASE AgentPrepares(d)
    BY <2>0, <2>3 DEF AgentPrepares, Quietly, Answers, Kinds
  <2>4. CASE AgentApplies(d)
    BY <2>0, <2>4 DEF AgentApplies, Quietly, Answers, Kinds, Projected
  <2>5. CASE AgentReleases(d)
    BY <2>0, <2>5 DEF AgentReleases, Quietly, Answers, Kinds, Projected
  <2> QED BY <2>1, <2>2, <2>3, <2>4, <2>5 DEF NodeStep
<1>2. /\ TakesOnly(<<d, k>>) /\ Outcome(d, k) = "pending"
      /\ \A c : Before(c, <<d, k>>) => ~Posted(c)
      /\ \A l \in Kinds : Outcome(d, l)' = IF l = k THEN o ELSE Outcome(d, l)
  BY <1>1, SettledOutcome
<1>3. UNCHANGED <<flow, claim>>
  BY <1>1 DEF Settle
<1>4. "prepare" \in Kinds /\ "release" \in Kinds
  BY DEF Kinds
<1>5. \A l \in Kinds : Outcome(d, l)' = "none" <=> Outcome(d, l) = "none"
  BY <1>2 DEF Answers
<1>6. Unprepared(d) => Unprepared(d)'
  BY <1>1, <1>2, <1>4 DEF Unprepared, Answers
<1>7. ASSUME Succeeded(d, "release")' PROVE Unprepared(d)'
  <2>1. CASE k # "release"
    <3>1. Succeeded(d, "release")
      BY <1>2, <1>4, <1>7, <2>1 DEF Succeeded
    <3> QED BY <1>6, <3>1 DEF HoldInv
  <2>2. CASE k = "release"
    <3>1. o = "succeeded" /\ ~agent'[d].active
      BY <1>1, <1>2, <1>4, <1>7, <2>2 DEF Succeeded
    <3>2. ~Posted(<<d, "prepare">>)
      BY <1>2, <2>2 DEF HoldInv
    <3>3. Outcome(d, "prepare") # "pending"
      BY <1>4, <3>2 DEF PostsType
    <3> QED BY <1>2, <1>4, <2>2, <3>1, <3>3 DEF Unprepared
  <2> QED BY <2>1, <2>2
<1>8. Before(<<d, "prepare">>, <<d, "release">>)'
  BY <1>2, OrderStays DEF HoldInv
<1>9. Outcome(d, "prepare")' = "none" => ~agent'[d].active
  BY <1>1, <1>2, <1>4, <1>5 DEF HoldInv
<1>10. /\ claim'[d] \in {"none", "reserved"} =>
              Outcome(d, "release")' = "none" /\ "prepare" \notin flow'[d].recorded
       /\ claim'[d] = "none" => Outcome(d, "prepare")' = "none"
  BY <1>3, <1>4, <1>5 DEF HoldInv
<1> QED BY <1>3, <1>6, <1>7, <1>8, <1>9, <1>10 DEF HoldInv

\* The inductive invariant behind AgentClaimsAreHeld
HeldClaimsInv == TypeOK /\ HeldInv

\* Nothing is prepared to begin with
LEMMA HeldInit == Init => HeldInv
<1> SUFFICES ASSUME Init, NEW d \in Deployments PROVE HoldInv(d)
  BY DEF HeldInv
<1>1. /\ \A k \in Kinds : Outcome(d, k) = "none"
      /\ flow[d].stage = "new" /\ claim[d] = "none" /\ ~agent[d].active
      /\ flow[d].recorded = {}
      /\ DOMAIN mailbox = {}
  BY DEF Init, Outcome
<1> QED BY <1>1 DEF HoldInv, Before, Kinds, Succeeded

(***************************************************************************)
(* HeldClaimsInv is inductive, whichever write of prepare is lost and      *)
(* whenever a replica is retired.                                          *)
(***************************************************************************)
THEOREM HeldInvariance == Spec => []HeldClaimsInv
<1>1. HeldClaimsInv /\ [Next]_vars => HeldInv'
  <2>1. ASSUME TypeOK, HeldInv, Next, NEW d \in Deployments PROVE HoldInv(d)'
    <3>1. PlainType /\ PostsType /\ HoldInv(d)
      BY <2>1, Types DEF HeldInv
    <3>2. PICK a \in Deployments : PlaneStep(a) \/ NodeStep(a)
      BY <2>1, StepsOfOne
    <3> QED BY <3>1, <3>2, OtherHolds, HoldPlane, HoldNode
  <2>2. ASSUME HeldInv, UNCHANGED vars, NEW d \in Deployments PROVE HoldInv(d)'
    BY <2>2 DEF vars, HeldInv, HoldInv, Outcome, Before, Succeeded, Unprepared
  <2> QED BY <2>1, <2>2 DEF HeldInv, HeldClaimsInv
<1> QED BY <1>1, HeldInit, TypeCorrectness, PTL DEF Spec, HeldClaimsInv

(***************************************************************************)
(* What the Agent has prepared the database holds, but for a claim whose   *)
(* prepare was never recorded: otherwise cancel_database_reservation meets *)
(* no prepared claim, and a release is recorded only when no prepare can   *)
(* follow it.                                                              *)
(***************************************************************************)
THEOREM PreparedIsHeld == Spec => []AgentClaimsAreHeld
<1>1. HeldClaimsInv => AgentClaimsAreHeld
  <2> SUFFICES ASSUME HeldClaimsInv, NEW d \in Active PROVE d \in Held \/ Forgotten(d)
    BY DEF AgentClaimsAreHeld
  <2>1. d \in Deployments /\ agent[d].active /\ HoldInv(d)
    BY DEF Active, HeldClaimsInv, HeldInv
  <2>2. claim[d] # "none" /\ Outcome(d, "prepare") # "none"
    BY <2>1 DEF HoldInv
  <2>3. claim[d] = "released" => "prepare" \notin flow[d].recorded
    BY <2>1 DEF HoldInv, Unprepared
  <2> QED BY <2>1, <2>2, <2>3 DEF Held, Forgotten, Unrecorded
<1> QED BY <1>1, HeldInvariance, PTL
===============================================================================
