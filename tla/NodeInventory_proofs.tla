------------------------ MODULE NodeInventory_proofs ------------------------
(***************************************************************************)
(* Theorems about NodeInventory, for every host, every number of loops and *)
(* any bound on the clock, the changes, the lead over Fleet and the        *)
(* faults.  InventoryInv is the inductive invariant.                       *)
(***************************************************************************)
EXTENDS NodeInventory, TLAPS

\* A generation is spent only on a change of the host, and the corrected
\* clock runs ahead of the host clock by at most one per generation
FileInv ==
  file # None =>
    /\ file.generation <= changes + (IF file.content = hardware THEN 1 ELSE 0)
    /\ file.observed <= MaxClock + file.generation

\* Every inventory that is about came from the record
KnownInv ==
  /\ \A r \in wire : r.inventory.generation <= Generation(file)
  /\ \A l \in Loops : Generation(loops[l].inventory) <= Generation(file)
  /\ Generation(head) <= Generation(file)

\* The head is the latest of the stored snapshots
FleetInv ==
  /\ \A g \in 1..MaxGeneration : snapshots[g] # None => g <= Generation(head)
  /\ head # None => snapshots[head.generation] = head

\* Fleet has the snapshot this inventory refers to
IsStored(inventory) ==
  /\ snapshots[inventory.generation] # None
  /\ Reference(snapshots[inventory.generation]) = Reference(inventory)

\* What a loop sends with a batch is stored at Fleet
LoopInv ==
  \A l \in Loops :
    /\ loops[l].pc # "idle" => loops[l].inventory # None
    /\ loops[l].pc \in {"idle", "ready"} => loops[l].reply = None
    /\ loops[l].pc \in {"ready", "sending"} => IsStored(loops[l].inventory)
    /\ loops[l].pc = "reporting" /\ loops[l].reply = "accepted" => IsStored(loops[l].inventory)

\* A request that somebody waits for is the one its loop has sent last
WireInv ==
  \A r \in wire :
    r.by # None =>
      /\ loops[r.by].pc = IF r.kind = "report" THEN "reporting" ELSE "sending"
      /\ loops[r.by].reply = None
      /\ loops[r.by].inventory = r.inventory

InventoryInv ==
  /\ TypeOK /\ FileInv /\ KnownInv /\ FleetInv /\ LoopInv /\ WireInv
  /\ ConfirmedIsStored /\ RefusedBatchWasOvertaken

-----------------------------------------------------------------------------
(* The operators                                                            *)

\* The bounds are naturals, and None is no loop, inventory, reference or answer
LEMMA Bounds ==
  /\ MaxClock \in Nat /\ MaxChanges \in Nat /\ MaxFaults \in Nat
  /\ MaxGeneration \in Nat /\ MaxGeneration = MaxChanges + 1
  /\ None \notin Loops /\ None \notin Inventory /\ None # "accepted" /\ None # "conflict"
  /\ None \notin (1..MaxGeneration) \X Contents
  BY InventoryAssumption, NoneAssumption DEF MaxGeneration

\* The parts of an inventory have their types
LEMMA InventoryTypes ==
  ASSUME NEW i \in Inventory
  PROVE  /\ i.generation \in 1..MaxGeneration /\ i.generation \in Nat /\ i.content \in Contents
         /\ i.observed \in Nat /\ i # None /\ Generation(i) = i.generation
         /\ Reference(i) \in (1..MaxGeneration) \X Contents
         /\ Reference(i)[1] = i.generation
<1>1. i.generation \in 1..MaxGeneration /\ i.content \in Contents /\ i # None
      /\ i.observed \in 0..MaxClock + MaxGeneration
  BY Bounds DEF Inventory
<1> QED BY <1>1, Bounds DEF Generation, Reference

\* A generation stays within the model's table, where None counts as zero
LEMMA GenerationType ==
  ASSUME NEW i \in Inventory \union {None}
  PROVE  Generation(i) \in Nat /\ Generation(i) <= MaxGeneration
<1>1. CASE i = None
  BY <1>1, Bounds DEF Generation
<1>2. CASE i # None
  BY <1>2, InventoryTypes, Bounds
<1> QED BY <1>1, <1>2

\* prepare_sync returns the record, or the successor of a record that no
\* longer describes the host
LEMMA PrepareProperties ==
  ASSUME TypeOK, FileInv, NEW now \in 0..MaxClock, NEW record, record = Prepare(file, hardware, now)
  PROVE  /\ record \in Inventory
         /\ Generation(file) <= record.generation
         /\ record.generation <= changes + 1 /\ record.content = hardware
         /\ record.observed <= MaxClock + record.generation
<1>1. file \in Inventory \union {None} /\ hardware \in Contents /\ changes \in 0..MaxChanges
  BY DEF TypeOK
<1>2. CASE file = None
  <2>1. record = [generation |-> 1, content |-> hardware, observed |-> now]
    BY <1>2 DEF Prepare, Generation, ObservedAt
  <2>2. 1 \in 1..MaxGeneration /\ now \in 0..MaxClock + MaxGeneration /\ 1 <= changes + 1
        /\ now <= MaxClock + 1 /\ Generation(file) <= 1
    BY <1>1, <1>2, Bounds DEF Generation
  <2> QED BY <1>1, <2>1, <2>2 DEF Inventory
<1>3. CASE file # None /\ file.content = hardware
  <2>1. record = file
    BY <1>3 DEF Prepare
  <2>2. file \in Inventory /\ Generation(file) = file.generation /\ file.generation \in Nat
    BY <1>1, <1>3, InventoryTypes
  <2> QED BY <1>3, <2>1, <2>2 DEF FileInv
<1>4. CASE file # None /\ file.content # hardware
  <2> DEFINE observed == ObservedAt(file, now)
  <2>1. /\ file.generation \in Nat /\ file.generation >= 1 /\ file.observed \in Nat
        /\ Generation(file) = file.generation
    BY <1>1, <1>4, InventoryTypes, Bounds
  <2>2. file.generation <= changes /\ file.observed <= MaxClock + file.generation
    BY <1>1, <1>4, <2>1, Bounds DEF FileInv
  <2>3. observed \in Nat /\ observed <= MaxClock + file.generation + 1
    BY <1>4, <2>1, <2>2, Bounds DEF ObservedAt
  <2>4. record = [generation |-> file.generation + 1, content |-> hardware, observed |-> observed]
    BY <1>4, <2>1 DEF Prepare
  <2> HIDE DEF observed
  <2>5. /\ file.generation + 1 \in 1..MaxGeneration /\ observed \in 0..MaxClock + MaxGeneration
        /\ file.generation + 1 <= changes + 1
        /\ observed <= MaxClock + (file.generation + 1)
        /\ file.generation <= file.generation + 1
    BY <1>1, <2>1, <2>2, <2>3, Bounds
  <2> QED BY <1>1, <2>1, <2>4, <2>5 DEF Inventory
<1> QED BY <1>2, <1>3, <1>4

\* A request that was given up stays what it was, only that nobody waits
LEMMA AbandonedProperties ==
  ASSUME NEW requests \in SUBSET Request, NEW waiting, NEW q \in Abandoned(requests, waiting)
  PROVE  /\ q \in Request
         /\ \E r \in requests :
              /\ q.kind = r.kind /\ q.inventory = r.inventory
              /\ q.by = None \/ (q = r /\ r.by \notin waiting)
<1>1. PICK r \in requests : q = IF r.by \in waiting THEN [r EXCEPT !.by = None] ELSE r
  BY DEF Abandoned
<1>2. r \in Request
  OBVIOUS
<1>3. CASE r.by \in waiting
  <2>1. q = [r EXCEPT !.by = None]
    BY <1>1, <1>3
  <2>2. q \in Request /\ q.kind = r.kind /\ q.inventory = r.inventory /\ q.by = None
    BY <1>2, <2>1 DEF Request
  <2> QED BY <2>2
<1>4. CASE r.by \notin waiting
  BY <1>1, <1>2, <1>4
<1> QED BY <1>3, <1>4

\* A request is its kind, its inventory and who waits for it
LEMMA RequestIdentity ==
  ASSUME NEW r \in Request, NEW q \in Request,
         r.kind = q.kind, r.inventory = q.inventory, r.by = q.by
  PROVE  r = q
  BY DEF Request

-----------------------------------------------------------------------------
(* The invariant                                                            *)

\* The record, Fleet's snapshots and the wire are empty
LEMMA InitHolds == Init => InventoryInv
<1> SUFFICES ASSUME Init PROVE InventoryInv
  OBVIOUS
<1> USE DEF Init
<1>1. Idle \in Loop /\ Idle.pc = "idle" /\ Idle.inventory = None /\ Idle.reply = None
  BY DEF Idle, Loop
<1>2. \A l \in Loops : loops[l] = Idle
  OBVIOUS
<1>3. TypeOK
  BY <1>1, Bounds DEF TypeOK
<1>4. FileInv /\ FleetInv /\ WireInv /\ ConfirmedIsStored
  BY DEF FileInv, FleetInv, WireInv, ConfirmedIsStored
<1>5. KnownInv /\ LoopInv /\ RefusedBatchWasOvertaken
  BY <1>1, <1>2 DEF KnownInv, LoopInv, RefusedBatchWasOvertaken, Generation
<1> QED BY <1>3, <1>4, <1>5 DEF InventoryInv

\* What the invariant says of one loop
LEMMA OneLoop ==
  ASSUME InventoryInv, NEW l \in Loops
  PROVE  /\ loops[l] \in Loop /\ l # None
         /\ loops[l].inventory \in Inventory \union {None}
         /\ loops[l].pc # "idle" => loops[l].inventory \in Inventory
<1>1. loops[l] \in Loop /\ l # None
  BY Bounds DEF InventoryInv, TypeOK
<1> QED BY <1>1 DEF Loop, InventoryInv, LoopInv

\* The host's capacity changes: a record that matched is then one generation behind
LEMMA HardwareChangesStep ==
  ASSUME InventoryInv, HardwareChanges
  PROVE  InventoryInv'
<1> USE DEF HardwareChanges
<1>1. changes \in 0..MaxChanges /\ changes' \in 0..MaxChanges /\ hardware' \in Contents
  BY Bounds DEF InventoryInv, TypeOK
<1>2. TypeOK'
  BY <1>1 DEF InventoryInv, TypeOK
<1>3. FileInv'
  <2> SUFFICES ASSUME file # None
               PROVE  /\ file.generation <= changes' + (IF file.content = hardware' THEN 1 ELSE 0)
                      /\ file.observed <= MaxClock + file.generation
    BY DEF FileInv
  <2>1. file.generation \in Nat
    BY InventoryTypes DEF InventoryInv, TypeOK
  <2>2. file.generation <= changes + (IF file.content = hardware THEN 1 ELSE 0)
        /\ file.observed <= MaxClock + file.generation
    BY DEF InventoryInv, FileInv
  <2> QED BY <1>1, <2>1, <2>2
<1>4. KnownInv' /\ FleetInv' /\ LoopInv' /\ WireInv' /\ ConfirmedIsStored' /\ RefusedBatchWasOvertaken'
  BY DEF InventoryInv, KnownInv, FleetInv, LoopInv, WireInv, ConfirmedIsStored,
     RefusedBatchWasOvertaken, IsStored
<1> QED BY <1>2, <1>3, <1>4 DEF InventoryInv

(***************************************************************************)
(* One loop moves and Fleet does not: nothing that was stored or known is  *)
(* lost.                                                                   *)
(***************************************************************************)
LEMMA LoopMoves ==
  ASSUME InventoryInv, NEW l \in Loops, NEW state \in Loop,
         loops' = [loops EXCEPT ![l] = state], UNCHANGED <<snapshots, head>>,
         Generation(file)' \in Nat, Generation(file) <= Generation(file)',
         Generation(state.inventory) <= Generation(file)',
         state.pc # "idle" => state.inventory # None,
         state.pc # "reporting" \/ state.reply # "accepted",
         state.pc \in {"idle", "ready"} => state.reply = None,
         state.reply # "conflict",
         state.pc \in {"ready", "sending"} => IsStored(state.inventory)
  PROVE  /\ loops' \in [Loops -> Loop] /\ LoopInv' /\ FleetInv' /\ RefusedBatchWasOvertaken'
         /\ Generation(head') <= Generation(file)'
         /\ \A x \in Loops : Generation(loops'[x].inventory) <= Generation(file)'
         /\ \A x \in Loops : x # l => loops'[x] = loops[x]
         /\ loops'[l] = state
<1>1. loops \in [Loops -> Loop]
  BY DEF InventoryInv, TypeOK
<1>2. /\ loops' \in [Loops -> Loop] /\ loops'[l] = state
      /\ \A x \in Loops : x # l => loops'[x] = loops[x]
  BY <1>1
<1>3. FleetInv'
  BY DEF InventoryInv, FleetInv
<1>4. LoopInv'
  <2> SUFFICES ASSUME NEW x \in Loops
               PROVE  /\ loops'[x].pc # "idle" => loops'[x].inventory # None
                      /\ loops'[x].pc \in {"idle", "ready"} => loops'[x].reply = None
                      /\ loops'[x].pc \in {"ready", "sending"} => IsStored(loops'[x].inventory)
                      /\ loops'[x].pc = "reporting" /\ loops'[x].reply = "accepted" =>
                           IsStored(loops'[x].inventory)
    BY DEF LoopInv, IsStored
  <2>1. CASE x = l
    BY <1>2, <2>1
  <2>2. CASE x # l
    <3>1. loops'[x] = loops[x]
      BY <1>2, <2>2
    <3> QED BY <3>1 DEF InventoryInv, LoopInv
  <2> QED BY <2>1, <2>2
<1>5. Generation(file) \in Nat /\ Generation(head) \in Nat
  BY GenerationType DEF InventoryInv, TypeOK
<1>6. Generation(head') <= Generation(file)'
  BY <1>5 DEF InventoryInv, KnownInv
<1>7. ASSUME NEW x \in Loops PROVE Generation(loops'[x].inventory) <= Generation(file)'
  <2>1. CASE x = l
    BY <1>2, <2>1
  <2>2. CASE x # l
    <3>1. loops'[x] = loops[x] /\ Generation(loops[x].inventory) \in Nat
      BY <1>2, <2>2, OneLoop, GenerationType
    <3> QED BY <1>5, <3>1 DEF InventoryInv, KnownInv
  <2> QED BY <2>1, <2>2
<1>8. RefusedBatchWasOvertaken'
  <2> SUFFICES ASSUME NEW x \in Loops, loops'[x].pc = "sending", loops'[x].reply = "conflict"
               PROVE  Generation(file)' > loops'[x].inventory.generation
    BY DEF RefusedBatchWasOvertaken
  <2>1. x # l
    BY <1>2
  <2>2. loops'[x] = loops[x]
    BY <1>2, <2>1
  <2>3. loops[x].inventory.generation \in Nat
    BY <2>2, OneLoop, InventoryTypes
  <2>4. Generation(file) > loops[x].inventory.generation
    BY <2>2 DEF InventoryInv, RefusedBatchWasOvertaken
  <2> QED BY <1>5, <2>2, <2>3, <2>4
<1> QED BY <1>2, <1>3, <1>4, <1>6, <1>7, <1>8

\* prepare_sync writes the record before anything is sent, so all that is sent came from it
LEMMA EnsureReportedStep ==
  ASSUME InventoryInv, NEW l \in Loops, EnsureReported(l)
  PROVE  InventoryInv'
<1> USE DEF EnsureReported
<1>1. PICK now \in 0..MaxClock : file' = Prepare(file, hardware, now)
  OBVIOUS
<1>2. /\ file' \in Inventory /\ Generation(file) <= file'.generation
      /\ file'.generation <= changes + 1 /\ file'.content = hardware
      /\ file'.observed <= MaxClock + file'.generation
  BY <1>1, PrepareProperties DEF InventoryInv
<1>3. /\ Generation(file)' = file'.generation /\ file'.generation \in Nat /\ file' # None
      /\ file'.generation \in 1..MaxGeneration
      /\ Generation(file') = file'.generation
  BY <1>2, InventoryTypes DEF Generation
<1>4. Generation(file) \in Nat /\ Generation(file) <= Generation(file)'
  BY <1>2, <1>3, GenerationType DEF InventoryInv, TypeOK
<1>5. FileInv'
  <2>1. hardware' = hardware /\ changes' = changes
    OBVIOUS
  <2> QED BY <1>2, <2>1 DEF FileInv
<1>6. ConfirmedIsStored'
  BY DEF InventoryInv, ConfirmedIsStored
<1>7. loops[l] \in Loop /\ loops[l].reply = None /\ l # None
  BY OneLoop DEF InventoryInv, LoopInv
<1>8. UNCHANGED <<hardware, confirmed, snapshots, head, changes, faults>>
  OBVIOUS
<1>9. CASE confirmed = Reference(file')
  <2> DEFINE state == [loops[l] EXCEPT !.pc = "ready", !.inventory = file']
  <2>1. /\ state \in Loop /\ state.pc = "ready" /\ state.inventory = file' /\ state.reply = None
    BY <1>2, <1>7 DEF Loop
  <2>2. loops' = [loops EXCEPT ![l] = state] /\ UNCHANGED <<holder, wire>>
    BY <1>9
  <2> HIDE DEF state
  <2>3. IsStored(file')
    <3>1. confirmed # None /\ confirmed[1] = file'.generation
      BY <1>2, <1>9, InventoryTypes, Bounds
    <3> QED BY <1>9, <3>1 DEF InventoryInv, ConfirmedIsStored, IsStored
  <2>4. /\ loops' \in [Loops -> Loop] /\ LoopInv' /\ FleetInv' /\ RefusedBatchWasOvertaken'
        /\ Generation(head') <= Generation(file)'
        /\ \A x \in Loops : Generation(loops'[x].inventory) <= Generation(file)'
        /\ \A x \in Loops : x # l => loops'[x] = loops[x]
    <3>1. /\ Generation(file)' \in Nat /\ Generation(state.inventory) <= Generation(file)'
          /\ state.pc # "idle" => state.inventory # None
          /\ state.pc # "reporting" \/ state.reply # "accepted"
          /\ state.pc \in {"idle", "ready"} => state.reply = None
          /\ state.reply # "conflict"
          /\ state.pc \in {"ready", "sending"} => IsStored(state.inventory)
      BY <1>3, <2>1, <2>3, Bounds
    <3> QED BY <1>4, <1>8, <2>1, <2>2, <3>1, LoopMoves
  <2>5. TypeOK'
    BY <1>2, <1>8, <2>2, <2>4 DEF InventoryInv, TypeOK
  <2>6. KnownInv'
    <3>1. ASSUME NEW r \in wire PROVE r.inventory.generation <= Generation(file)'
      <4>1. r.inventory.generation \in Nat /\ r.inventory.generation <= Generation(file)
        BY InventoryTypes DEF InventoryInv, KnownInv, TypeOK, Request
      <4> QED BY <1>3, <1>4, <4>1
    <3> QED BY <2>2, <2>4, <3>1 DEF KnownInv
  <2>7. WireInv'
    <3> SUFFICES ASSUME NEW r \in wire, r.by # None
                 PROVE  /\ loops'[r.by].pc = IF r.kind = "report" THEN "reporting" ELSE "sending"
                        /\ loops'[r.by].reply = None
                        /\ loops'[r.by].inventory = r.inventory
      BY <2>2 DEF WireInv
    <3>1. r.by \in Loops /\ r.by # l
      BY DEF InventoryInv, TypeOK, WireInv, Request
    <3> QED BY <2>4, <3>1 DEF InventoryInv, WireInv
  <2> QED BY <1>5, <1>6, <2>4, <2>5, <2>6, <2>7 DEF InventoryInv
<1>10. CASE confirmed # Reference(file')
  <2> DEFINE state == [loops[l] EXCEPT !.pc = "reporting", !.inventory = file']
             request == [kind |-> "report", inventory |-> file', by |-> l]
  <2>1. /\ state \in Loop /\ state.pc = "reporting" /\ state.inventory = file' /\ state.reply = None
    BY <1>2, <1>7 DEF Loop
  <2>2. loops' = [loops EXCEPT ![l] = state] /\ holder' = l /\ wire' = wire \union {request}
    BY <1>10
  <2>3. request \in Request /\ request.kind = "report" /\ request.inventory = file' /\ request.by = l
    BY <1>2 DEF Request
  <2> HIDE DEF state, request
  <2>4. /\ loops' \in [Loops -> Loop] /\ LoopInv' /\ FleetInv' /\ RefusedBatchWasOvertaken'
        /\ Generation(head') <= Generation(file)'
        /\ \A x \in Loops : Generation(loops'[x].inventory) <= Generation(file)'
        /\ \A x \in Loops : x # l => loops'[x] = loops[x]
        /\ loops'[l] = state
    <3>1. /\ Generation(file)' \in Nat /\ Generation(state.inventory) <= Generation(file)'
          /\ state.pc # "idle" => state.inventory # None
          /\ state.pc # "reporting" \/ state.reply # "accepted"
          /\ state.pc \in {"idle", "ready"} => state.reply = None
          /\ state.reply # "conflict"
          /\ state.pc \in {"ready", "sending"} => IsStored(state.inventory)
      BY <1>3, <2>1, Bounds
    <3> QED BY <1>4, <1>8, <2>1, <2>2, <3>1, LoopMoves
  <2>5. TypeOK'
    BY <1>2, <1>8, <2>2, <2>3, <2>4 DEF InventoryInv, TypeOK
  <2>6. KnownInv'
    <3>1. ASSUME NEW r \in wire' PROVE r.inventory.generation <= Generation(file)'
      <4>1. CASE r = request
        BY <1>3, <2>3, <4>1
      <4>2. CASE r \in wire
        <5>1. r.inventory.generation \in Nat /\ r.inventory.generation <= Generation(file)
          BY <4>2, InventoryTypes DEF InventoryInv, KnownInv, TypeOK, Request
        <5> QED BY <1>3, <1>4, <5>1
      <4> QED BY <2>2, <4>1, <4>2
    <3> QED BY <2>4, <3>1 DEF KnownInv
  <2>7. WireInv'
    <3> SUFFICES ASSUME NEW r \in wire', r.by # None
                 PROVE  /\ loops'[r.by].pc = IF r.kind = "report" THEN "reporting" ELSE "sending"
                        /\ loops'[r.by].reply = None
                        /\ loops'[r.by].inventory = r.inventory
      BY DEF WireInv
    <3>1. CASE r = request
      BY <2>1, <2>3, <2>4, <3>1
    <3>2. CASE r \in wire
      <4>1. r.by \in Loops /\ r.by # l
        BY <3>2 DEF InventoryInv, TypeOK, WireInv, Request
      <4> QED BY <2>4, <3>2, <4>1 DEF InventoryInv, WireInv
    <3> QED BY <2>2, <3>1, <3>2
  <2> QED BY <1>5, <1>6, <2>4, <2>5, <2>6, <2>7 DEF InventoryInv
<1> QED BY <1>9, <1>10

(***************************************************************************)
(* One loop moves while the record stands: what it waited for is settled   *)
(* or abandoned, and what it sends is what it holds.                       *)
(***************************************************************************)
LEMMA LoopTurn ==
  ASSUME InventoryInv, NEW l \in Loops, NEW state \in Loop,
         loops' = [loops EXCEPT ![l] = state],
         UNCHANGED <<hardware, file, snapshots, head, changes>>,
         holder' \in Loops \union {None}, faults' \in 0..MaxFaults,
         confirmed' = confirmed \/ (/\ confirmed' = Reference(loops[l].inventory)
                                    /\ loops[l].inventory \in Inventory
                                    /\ IsStored(loops[l].inventory)),
         wire' \subseteq Request,
         \A r \in wire' : r.inventory.generation <= Generation(file),
         \A r \in wire' : r.by # None =>
           \/ r \in wire /\ r.by # l
           \/ /\ r.by = l /\ state.reply = None /\ state.inventory = r.inventory
              /\ state.pc = IF r.kind = "report" THEN "reporting" ELSE "sending",
         Generation(state.inventory) <= Generation(file),
         state.pc # "idle" => state.inventory # None,
         state.pc # "reporting", state.reply = None,
         state.pc \in {"ready", "sending"} => IsStored(state.inventory)
  PROVE  InventoryInv'
<1>1. /\ Generation(file)' = Generation(file) /\ Generation(file)' \in Nat
      /\ Generation(file) <= Generation(file)'
  BY GenerationType DEF InventoryInv, TypeOK
<1>2. /\ loops' \in [Loops -> Loop] /\ LoopInv' /\ FleetInv' /\ RefusedBatchWasOvertaken'
      /\ Generation(head') <= Generation(file)'
      /\ \A x \in Loops : Generation(loops'[x].inventory) <= Generation(file)'
      /\ \A x \in Loops : x # l => loops'[x] = loops[x]
      /\ loops'[l] = state
  <2>1. /\ Generation(state.inventory) <= Generation(file)'
        /\ state.pc # "reporting" \/ state.reply # "accepted"
        /\ state.pc \in {"idle", "ready"} => state.reply = None
        /\ state.reply # "conflict"
    BY <1>1, Bounds
  <2> QED BY <1>1, <2>1, LoopMoves
<1>3. confirmed' = None \/ confirmed' \in (1..MaxGeneration) \X Contents
  BY InventoryTypes DEF InventoryInv, TypeOK
<1>4. TypeOK'
  BY <1>2, <1>3 DEF InventoryInv, TypeOK
<1>5. FileInv'
  BY DEF InventoryInv, FileInv
<1>6. KnownInv'
  BY <1>1, <1>2 DEF KnownInv
<1>7. WireInv'
  <2> SUFFICES ASSUME NEW r \in wire', r.by # None
               PROVE  /\ loops'[r.by].pc = IF r.kind = "report" THEN "reporting" ELSE "sending"
                      /\ loops'[r.by].reply = None
                      /\ loops'[r.by].inventory = r.inventory
    BY DEF WireInv
  <2>1. CASE r.by = l
    BY <1>2, <2>1
  <2>2. CASE r.by # l
    <3>1. r \in wire /\ r.by \in Loops
      BY <2>2 DEF Request
    <3> QED BY <1>2, <2>2, <3>1 DEF InventoryInv, WireInv
  <2> QED BY <2>1, <2>2
<1>8. ConfirmedIsStored'
  <2>1. CASE confirmed' = confirmed
    BY <2>1 DEF InventoryInv, ConfirmedIsStored
  <2>2. CASE confirmed' # confirmed
    <3>1. confirmed'[1] = loops[l].inventory.generation
      BY <2>2, InventoryTypes
    <3> QED BY <2>2, <3>1 DEF ConfirmedIsStored, IsStored
  <2> QED BY <2>1, <2>2
<1> QED BY <1>2, <1>4, <1>5, <1>6, <1>7, <1>8 DEF InventoryInv

\* What the invariant says of what is on the wire
LEMMA OnWire ==
  ASSUME InventoryInv, NEW r \in wire
  PROVE  /\ r \in Request /\ r.kind \in {"report", "batch"} /\ r.inventory \in Inventory
         /\ r.by \in Loops \union {None}
         /\ r.inventory.generation <= Generation(file)
         /\ r.by # None =>
              /\ loops[r.by].pc = IF r.kind = "report" THEN "reporting" ELSE "sending"
              /\ loops[r.by].reply = None
              /\ loops[r.by].inventory = r.inventory
<1>1. r \in Request
  BY DEF InventoryInv, TypeOK
<1> QED BY <1>1 DEF Request, InventoryInv, KnownInv, WireInv

\* A loop that rests has no inventory and waits for no answer
LEMMA IdleState ==
  /\ Idle \in Loop /\ Idle.pc = "idle" /\ Idle.inventory = None /\ Idle.reply = None
  /\ Generation(None) = 0
  BY DEF Idle, Loop, Generation

\* An accepted report is confirmed: Fleet has stored it
LEMMA ConfirmStep ==
  ASSUME InventoryInv, NEW l \in Loops, Confirm(l)
  PROVE  InventoryInv'
<1> USE DEF Confirm
<1> DEFINE state == [loops[l] EXCEPT !.pc = "ready", !.reply = None]
<1>1. loops[l] \in Loop /\ loops[l].inventory \in Inventory /\ loops[l].inventory # None
  BY OneLoop, Bounds
<1>2. /\ state \in Loop /\ state.pc = "ready" /\ state.reply = None
      /\ state.inventory = loops[l].inventory
  BY <1>1 DEF Loop
<1>3. loops' = [loops EXCEPT ![l] = state]
  OBVIOUS
<1>4. IsStored(loops[l].inventory) /\ Generation(loops[l].inventory) <= Generation(file)
  BY DEF InventoryInv, LoopInv, KnownInv
<1>5. \A r \in wire : r.by # l
  BY OnWire, Bounds
<1>6. faults' \in 0..MaxFaults /\ wire' \subseteq Request /\ wire' = wire
      /\ holder' \in Loops \union {None}
  BY DEF InventoryInv, TypeOK
<1>7. \A r \in wire' : r.inventory.generation <= Generation(file)
  BY OnWire, <1>6
<1>8. UNCHANGED <<hardware, file, snapshots, head, changes>>
      /\ confirmed' = Reference(loops[l].inventory)
  OBVIOUS
<1> HIDE DEF state, Confirm
<1> QED BY <1>1, <1>2, <1>3, <1>4, <1>5, <1>6, <1>7, <1>8, LoopTurn

\* A batch names an inventory that Fleet has stored
LEMMA SendBatchStep ==
  ASSUME InventoryInv, NEW l \in Loops, SendBatch(l)
  PROVE  InventoryInv'
<1> USE DEF SendBatch
<1> DEFINE state == [loops[l] EXCEPT !.pc = "sending"]
           request == [kind |-> "batch", inventory |-> loops[l].inventory, by |-> l]
<1>1. /\ loops[l] \in Loop /\ loops[l].inventory \in Inventory /\ loops[l].inventory # None
      /\ loops[l].reply = None
  BY OneLoop, Bounds DEF InventoryInv, LoopInv
<1>2. /\ state \in Loop /\ state.pc = "sending" /\ state.reply = None
      /\ state.inventory = loops[l].inventory
  BY <1>1 DEF Loop
<1>3. /\ request \in Request /\ request.kind = "batch" /\ request.by = l
      /\ request.inventory = loops[l].inventory
  BY <1>1 DEF Request
<1>4. loops' = [loops EXCEPT ![l] = state] /\ wire' = wire \union {request}
  OBVIOUS
<1> HIDE DEF state, request
<1>5. /\ IsStored(loops[l].inventory) /\ Generation(loops[l].inventory) <= Generation(file)
      /\ Generation(loops[l].inventory) = loops[l].inventory.generation
  BY <1>1, InventoryTypes DEF InventoryInv, LoopInv, KnownInv
<1>6. \A r \in wire : r.by # l
  BY OnWire, Bounds
<1>7. faults' \in 0..MaxFaults /\ wire' \subseteq Request /\ holder' \in Loops \union {None}
  BY <1>3, <1>4 DEF InventoryInv, TypeOK
<1>8. \A r \in wire' : r.inventory.generation <= Generation(file)
  BY OnWire, <1>3, <1>4, <1>5
<1>9. UNCHANGED <<hardware, file, snapshots, head, changes>> /\ confirmed' = confirmed
  OBVIOUS
<1>10. \A r \in wire' : r.by # None =>
           \/ r \in wire /\ r.by # l
           \/ /\ r.by = l /\ state.reply = None /\ state.inventory = r.inventory
              /\ state.pc = IF r.kind = "report" THEN "reporting" ELSE "sending"
  BY <1>2, <1>3, <1>4, <1>6
<1> HIDE DEF SendBatch
<1> QED BY <1>1, <1>2, <1>4, <1>5, <1>7, <1>8, <1>9, <1>10, LoopTurn

\* An accepted batch ends the loop's round
LEMMA BatchAcceptedStep ==
  ASSUME InventoryInv, NEW l \in Loops, BatchAccepted(l)
  PROVE  InventoryInv'
<1> USE DEF BatchAccepted
<1>1. \A r \in wire : r.by # l
  BY OnWire, Bounds
<1>2. faults' \in 0..MaxFaults /\ wire' \subseteq Request /\ holder' \in Loops \union {None}
  BY DEF InventoryInv, TypeOK
<1>3. \A r \in wire' : r.inventory.generation <= Generation(file)
  BY OnWire
<1>4. 0 <= Generation(file)
  BY GenerationType DEF InventoryInv, TypeOK
<1>5. loops' = [loops EXCEPT ![l] = Idle] /\ wire' = wire /\ confirmed' = confirmed
      /\ UNCHANGED <<hardware, file, snapshots, head, changes>>
  OBVIOUS
<1> HIDE DEF BatchAccepted
<1> QED BY <1>1, <1>2, <1>3, <1>4, <1>5, IdleState, LoopTurn

\* A call fails: it is lost, or still on the wire with nobody waiting
LEMMA CallFailsStep ==
  ASSUME InventoryInv, NEW l \in Loops, CallFails(l)
  PROVE  InventoryInv'
<1> USE DEF CallFails
<1>1. faults' \in 0..MaxFaults /\ holder' \in Loops \union {None}
  BY Bounds DEF InventoryInv, TypeOK
<1>2. wire \in SUBSET Request
  BY DEF InventoryInv, TypeOK
<1>3. ASSUME NEW q \in wire'
      PROVE  /\ q \in Request /\ q.inventory.generation <= Generation(file)
             /\ q.by # None => q \in wire /\ q.by # l
  <2>1. CASE wire' = Abandoned(wire, {l})
    <3>1. q \in Request
      BY <1>2, <2>1, AbandonedProperties
    <3>2. PICK r \in wire : /\ q.inventory = r.inventory
                            /\ q.by = None \/ (q = r /\ r.by \notin {l})
      BY <1>2, <2>1, AbandonedProperties
    <3> QED BY <3>1, <3>2, OnWire
  <2>2. CASE wire' = {r \in wire : r.by # l}
    BY <2>2, OnWire
  <2> QED BY <2>1, <2>2
<1>4. 0 <= Generation(file)
  BY GenerationType DEF InventoryInv, TypeOK
<1>5. loops' = [loops EXCEPT ![l] = Idle] /\ confirmed' = confirmed
      /\ UNCHANGED <<hardware, file, snapshots, head, changes>>
  OBVIOUS
<1> HIDE DEF CallFails
<1>6. /\ wire' \subseteq Request
      /\ \A r \in wire' : r.inventory.generation <= Generation(file)
      /\ \A r \in wire' : r.by # None => r \in wire /\ r.by # l
  BY <1>3
<1> QED BY <1>1, <1>4, <1>5, <1>6, IdleState, LoopTurn

\* The Agent process starts again from its file
LEMMA RestartStep ==
  ASSUME InventoryInv, Restarted, faults' \in 0..MaxFaults
  PROVE  InventoryInv'
<1> USE DEF Restarted
<1>1. wire \in SUBSET Request
  BY DEF InventoryInv, TypeOK
<1>2. ASSUME NEW q \in wire'
      PROVE  q \in Request /\ q.inventory.generation <= Generation(file) /\ q.by = None
  <2>1. q \in Request
    BY <1>1, AbandonedProperties
  <2>2. PICK r \in wire : /\ q.inventory = r.inventory
                          /\ q.by = None \/ (q = r /\ r.by \notin Loops)
    BY <1>1, AbandonedProperties
  <2> QED BY <2>1, <2>2, OnWire
<1>3. \A l \in Loops : loops'[l] = Idle
  OBVIOUS
<1>4. TypeOK'
  BY <1>2, IdleState DEF InventoryInv, TypeOK
<1>5. FileInv' /\ FleetInv' /\ ConfirmedIsStored'
  BY DEF InventoryInv, FileInv, FleetInv, ConfirmedIsStored
<1>6. KnownInv'
  <2>1. 0 <= Generation(file)
    BY GenerationType DEF InventoryInv, TypeOK
  <2> QED BY <1>2, <1>3, <2>1, IdleState DEF InventoryInv, KnownInv
<1>7. WireInv'
  BY <1>2 DEF WireInv
<1>8. LoopInv' /\ RefusedBatchWasOvertaken'
  BY <1>3, IdleState DEF LoopInv, RefusedBatchWasOvertaken
<1> QED BY <1>4, <1>5, <1>6, <1>7, <1>8 DEF InventoryInv

(***************************************************************************)
(* Fleet answers a request: the loop that waits, if any, has its reply.    *)
(***************************************************************************)
LEMMA AnswerStep ==
  ASSUME InventoryInv, NEW r \in wire, NEW reply \in {"accepted", "conflict"}, Answer(r, reply),
         wire' = wire \ {r}
  PROVE  /\ loops' \in [Loops -> Loop] /\ WireInv'
         /\ \A l \in Loops : /\ loops'[l].pc = loops[l].pc
                             /\ loops'[l].inventory = loops[l].inventory
                             /\ loops'[l].reply =
                                  IF r.by = l THEN reply ELSE loops[l].reply
<1>1. loops \in [Loops -> Loop]
  BY DEF InventoryInv, TypeOK
<1>2. ASSUME NEW l \in Loops
      PROVE  /\ loops'[l].pc = loops[l].pc /\ loops'[l].inventory = loops[l].inventory
             /\ loops'[l].reply = (IF r.by = l THEN reply ELSE loops[l].reply)
             /\ loops'[l] \in Loop
  <2>1. loops[l] \in Loop
    BY <1>1
  <2>2. CASE r.by = l
    <3>1. loops' = [loops EXCEPT ![l].reply = reply]
      BY <2>2, Bounds DEF Answer
    <3>2. loops'[l] = [loops[l] EXCEPT !.reply = reply]
      BY <1>1, <3>1
    <3> QED BY <2>1, <2>2, <3>2 DEF Loop
  <2>3. CASE r.by # l
    BY <1>1, <2>1, <2>3 DEF Answer
  <2> QED BY <2>2, <2>3
<1>3. loops' \in [Loops -> Loop]
  <2>1. DOMAIN loops' = Loops /\ loops' = [l \in Loops |-> loops'[l]]
    BY <1>1 DEF Answer
  <2> QED BY <1>2, <2>1
<1>4. WireInv'
  <2> SUFFICES ASSUME NEW q \in wire, q # r, q.by # None
               PROVE  /\ loops'[q.by].pc = IF q.kind = "report" THEN "reporting" ELSE "sending"
                      /\ loops'[q.by].reply = None
                      /\ loops'[q.by].inventory = q.inventory
    BY DEF WireInv
  <2>1. q.by # r.by
    <3> SUFFICES ASSUME q.by = r.by PROVE FALSE
      OBVIOUS
    <3>1. q.kind = r.kind /\ q.inventory = r.inventory
      BY OnWire
    <3> QED BY <3>1, OnWire, RequestIdentity
  <2>2. q.by \in Loops
    BY OnWire
  <2> QED BY <1>2, <2>1, <2>2, OnWire
<1> QED BY <1>2, <1>3, <1>4

\* record stores the next generation or a replay: no snapshot changes and the head never goes back
LEMMA RecordInventoryStep ==
  ASSUME InventoryInv, RecordInventory
  PROVE  /\ InventoryInv' /\ Generation(head') >= Generation(head)
         /\ \A g \in 1..MaxGeneration : snapshots[g] # None => snapshots'[g] = snapshots[g]
<1> DEFINE Fresh(i) == snapshots[i.generation] = None /\ Acceptable(i)
<1>1. PICK r \in wire :
        /\ r.kind = "report" /\ wire' = wire \ {r}
        /\ Answer(r, IF snapshots[r.inventory.generation] = r.inventory \/ Fresh(r.inventory)
                     THEN "accepted" ELSE "conflict")
        /\ snapshots' = IF Fresh(r.inventory)
                        THEN [snapshots EXCEPT ![r.inventory.generation] = r.inventory]
                        ELSE snapshots
        /\ head' = IF Fresh(r.inventory) THEN r.inventory ELSE head
        /\ UNCHANGED <<hardware, file, confirmed, holder, changes, faults>>
  <2>1. PICK r \in wire :
          LET inventory == r.inventory
              stored    == snapshots[inventory.generation]
              fresh     == stored = None /\ Acceptable(inventory)
          IN  /\ r.kind = "report"
              /\ wire' = wire \ {r}
              /\ Answer(r, IF stored = inventory \/ fresh THEN "accepted" ELSE "conflict")
              /\ snapshots' = IF fresh
                              THEN [snapshots EXCEPT ![inventory.generation] = inventory]
                              ELSE snapshots
              /\ head' = CASE fresh -> inventory
                           [] stored = inventory -> head
                           [] OTHER -> head
              /\ UNCHANGED <<hardware, file, confirmed, holder, changes, faults>>
    BY DEF RecordInventory, HeadAfterReplay
  <2>2. r.inventory # None
    BY OnWire, Bounds
  <2>3. Fresh(r.inventory) => snapshots[r.inventory.generation] # r.inventory
    BY <2>2
  <2>4. head' = IF Fresh(r.inventory) THEN r.inventory ELSE head
    BY <2>1, <2>3
  <2> WITNESS r \in wire
  <2> QED BY <2>1, <2>4
<1> DEFINE i == r.inventory
           reply == IF snapshots[i.generation] = i \/ Fresh(i) THEN "accepted" ELSE "conflict"
<1>2. /\ i \in Inventory /\ i.generation \in 1..MaxGeneration /\ i.generation \in Nat
      /\ i # None /\ Generation(i) = i.generation /\ i.generation <= Generation(file)
      /\ r.by # None => loops[r.by].pc = "reporting" /\ loops[r.by].inventory = i
  BY <1>1, OnWire, InventoryTypes
<1>3. reply \in {"accepted", "conflict"} /\ Answer(r, reply) /\ (reply = "accepted" => snapshots[i.generation] = i \/ Fresh(i))
  BY <1>1
<1> HIDE DEF reply
<1>4. /\ snapshots \in [1..MaxGeneration -> Inventory \union {None}]
      /\ head \in Inventory \union {None}
  BY DEF InventoryInv, TypeOK
<1>5. Fresh(i) => i.generation = Generation(head) + 1
  <2>1. head # None => Generation(head) = head.generation
    BY <1>4, InventoryTypes
  <2>2. head = None => Generation(head) = 0
    BY DEF Generation
  <2> QED BY <2>1, <2>2 DEF Acceptable
<1>6. /\ snapshots' \in [1..MaxGeneration -> Inventory \union {None}]
      /\ head' \in Inventory \union {None}
      /\ \A g \in 1..MaxGeneration : snapshots[g] # None => snapshots'[g] = snapshots[g]
      /\ Fresh(i) => snapshots'[i.generation] = i /\ head' = i
      /\ \A g \in 1..MaxGeneration : g # i.generation => snapshots'[g] = snapshots[g]
      /\ ~Fresh(i) => snapshots' = snapshots /\ head' = head
  BY <1>1, <1>2, <1>4
<1> HIDE DEF Fresh, i
<1>7. /\ loops' \in [Loops -> Loop] /\ WireInv'
      /\ \A l \in Loops : /\ loops'[l].pc = loops[l].pc
                          /\ loops'[l].inventory = loops[l].inventory
                          /\ loops'[l].reply = IF r.by = l THEN reply ELSE loops[l].reply
  BY <1>1, <1>3, AnswerStep
<1>8. Generation(head) \in Nat /\ Generation(head') >= Generation(head)
  BY <1>2, <1>4, <1>5, <1>6, GenerationType
<1>9. TypeOK'
  BY <1>1, <1>6, <1>7 DEF InventoryInv, TypeOK
<1>10. FileInv'
  BY <1>1 DEF InventoryInv, FileInv
<1>11. KnownInv'
  <2>1. Generation(head') <= Generation(file)
    BY <1>2, <1>6 DEF InventoryInv, KnownInv
  <2> QED BY <1>1, <1>7, <2>1 DEF InventoryInv, KnownInv
<1>12. FleetInv'
  <2>1. ASSUME NEW g \in 1..MaxGeneration, snapshots'[g] # None PROVE g <= Generation(head')
    <3>1. CASE Fresh(i) /\ g = i.generation
      BY <1>2, <1>6, <3>1
    <3>2. CASE ~(Fresh(i) /\ g = i.generation)
      <4>1. snapshots[g] # None
        BY <1>6, <2>1, <3>2
      <4>2. g <= Generation(head) /\ g \in Nat /\ Generation(head') \in Nat
        BY <1>6, <4>1, GenerationType DEF InventoryInv, FleetInv
      <4> QED BY <1>8, <4>2
    <3> QED BY <3>1, <3>2
  <2>2. head' # None => snapshots'[head'.generation] = head'
    BY <1>6 DEF InventoryInv, FleetInv
  <2> QED BY <2>1, <2>2 DEF FleetInv
<1> DEFINE Kept(j) == /\ snapshots'[j.generation] # None
                      /\ Reference(snapshots'[j.generation]) = Reference(j)
<1>13. ASSUME NEW j \in Inventory, IsStored(j) PROVE Kept(j)
  <2>1. j.generation \in 1..MaxGeneration
    BY InventoryTypes
  <2> QED BY <1>6, <1>13, <2>1 DEF IsStored
<1>14. reply = "accepted" => snapshots'[i.generation] = i
  BY <1>2, <1>3, <1>6
<1>15. LoopInv'
  <2> SUFFICES ASSUME NEW l \in Loops
               PROVE  /\ loops'[l].pc # "idle" => loops'[l].inventory # None
                      /\ loops'[l].pc \in {"idle", "ready"} => loops'[l].reply = None
                      /\ loops'[l].pc \in {"ready", "sending"} => Kept(loops'[l].inventory)
                      /\ loops'[l].pc = "reporting" /\ loops'[l].reply = "accepted" =>
                           Kept(loops'[l].inventory)
    BY DEF LoopInv, IsStored
  <2>1. CASE r.by = l
    <3>1. l # None /\ loops'[l].pc = "reporting" /\ loops'[l].inventory = i /\ loops'[l].reply = reply
      BY <1>2, <1>7, <2>1, Bounds
    <3>2. reply = "accepted" => Kept(i)
      BY <1>2, <1>14
    <3> QED BY <1>2, <3>1, <3>2 DEF i
  <2>2. CASE r.by # l
    <3>1. /\ loops'[l].pc = loops[l].pc /\ loops'[l].inventory = loops[l].inventory
          /\ loops'[l].reply = loops[l].reply
      BY <1>7, <2>2
    <3>2. loops[l].pc # "idle" => loops[l].inventory \in Inventory
      BY OneLoop
    <3> QED BY <1>13, <3>1, <3>2 DEF InventoryInv, LoopInv
  <2> QED BY <2>1, <2>2
<1>16. ConfirmedIsStored'
  <2> SUFFICES ASSUME confirmed # None
               PROVE  /\ snapshots'[confirmed[1]] # None
                      /\ Reference(snapshots'[confirmed[1]]) = confirmed
    BY <1>1 DEF ConfirmedIsStored
  <2>1. confirmed[1] \in 1..MaxGeneration
    BY DEF InventoryInv, TypeOK
  <2> QED BY <1>6, <2>1 DEF InventoryInv, ConfirmedIsStored
<1>17. RefusedBatchWasOvertaken'
  <2> SUFFICES ASSUME NEW l \in Loops, loops'[l].pc = "sending", loops'[l].reply = "conflict"
               PROVE  Generation(file) > loops'[l].inventory.generation
    BY <1>1 DEF RefusedBatchWasOvertaken
  <2>1. r.by # l
    BY <1>2, <1>7, Bounds
  <2> QED BY <1>7, <2>1 DEF InventoryInv, RefusedBatchWasOvertaken
<1> QED BY <1>6, <1>7, <1>8, <1>9, <1>10, <1>11, <1>12, <1>15, <1>16, <1>17 DEF InventoryInv

\* Fleet answers a batch by comparing its reference with the head
LEMMA RecordObservationsStep ==
  ASSUME InventoryInv, RecordObservations
  PROVE  InventoryInv'
<1>1. PICK r \in wire :
        /\ r.kind = "batch" /\ wire' = wire \ {r}
        /\ Answer(r, IF CurrentReference(r.inventory) THEN "accepted" ELSE "conflict")
        /\ UNCHANGED <<hardware, file, confirmed, holder, snapshots, head, changes, faults>>
  BY DEF RecordObservations
<1> DEFINE i == r.inventory
           reply == IF CurrentReference(i) THEN "accepted" ELSE "conflict"
<1>2. /\ i \in Inventory /\ i.generation \in 1..MaxGeneration /\ i.generation \in Nat
      /\ r.by # None => loops[r.by].pc = "sending" /\ loops[r.by].inventory = i
  BY <1>1, OnWire, InventoryTypes
<1>3. reply \in {"accepted", "conflict"} /\ Answer(r, reply)
      /\ (reply = "conflict" => ~CurrentReference(i))
  BY <1>1
<1> HIDE DEF reply, i
<1>4. /\ loops' \in [Loops -> Loop] /\ WireInv'
      /\ \A l \in Loops : /\ loops'[l].pc = loops[l].pc
                          /\ loops'[l].inventory = loops[l].inventory
                          /\ loops'[l].reply = IF r.by = l THEN reply ELSE loops[l].reply
  BY <1>1, <1>3, AnswerStep
<1>5. TypeOK'
  BY <1>1, <1>4 DEF InventoryInv, TypeOK
<1>6. FileInv' /\ FleetInv' /\ ConfirmedIsStored'
  BY <1>1 DEF InventoryInv, FileInv, FleetInv, ConfirmedIsStored
<1>7. KnownInv'
  BY <1>1, <1>4 DEF InventoryInv, KnownInv
<1>8. LoopInv'
  <2> SUFFICES ASSUME NEW l \in Loops
               PROVE  /\ loops'[l].pc # "idle" => loops'[l].inventory # None
                      /\ loops'[l].pc \in {"idle", "ready"} => loops'[l].reply = None
                      /\ loops'[l].pc \in {"ready", "sending"} => IsStored(loops'[l].inventory)
                      /\ loops'[l].pc = "reporting" /\ loops'[l].reply = "accepted" =>
                           IsStored(loops'[l].inventory)
    BY <1>1 DEF LoopInv, IsStored
  <2>1. r.by = l => loops[l].pc = "sending"
    BY <1>2, Bounds
  <2> QED BY <1>4, <2>1 DEF InventoryInv, LoopInv
<1>9. RefusedBatchWasOvertaken'
  <2> SUFFICES ASSUME NEW l \in Loops, loops'[l].pc = "sending", loops'[l].reply = "conflict"
               PROVE  Generation(file) > loops'[l].inventory.generation
    BY <1>1 DEF RefusedBatchWasOvertaken
  <2>1. CASE r.by = l
    <3>1. loops[l].pc = "sending" /\ loops[l].inventory = i /\ ~CurrentReference(i)
      BY <1>2, <1>3, <1>4, <2>1, Bounds
    <3>2. IsStored(i)
      BY <3>1 DEF InventoryInv, LoopInv
    <3>3. i.generation <= Generation(head) /\ Generation(head) <= Generation(file)
      BY <1>2, <3>2 DEF InventoryInv, FleetInv, KnownInv, IsStored
    <3>4. head # None
      BY <1>2, <3>3, Bounds DEF Generation
    <3>5. head \in Inventory /\ Generation(head) = head.generation /\ head.generation \in Nat
      BY <3>4, InventoryTypes DEF InventoryInv, TypeOK
    <3>6. head.generation # i.generation
      BY <3>1, <3>2, <3>4 DEF InventoryInv, FleetInv, CurrentReference, IsStored
    <3>7. Generation(file) \in Nat
      BY GenerationType DEF InventoryInv, TypeOK
    <3> QED BY <1>2, <1>4, <3>1, <3>3, <3>5, <3>6, <3>7
  <2>2. CASE r.by # l
    BY <1>4, <2>2 DEF InventoryInv, RefusedBatchWasOvertaken
  <2> QED BY <2>1, <2>2
<1> QED BY <1>4, <1>5, <1>6, <1>7, <1>8, <1>9 DEF InventoryInv

\* Every step keeps the invariant
LEMMA NextHolds == InventoryInv /\ [Next]_vars => InventoryInv'
<1> SUFFICES ASSUME InventoryInv, [Next]_vars PROVE InventoryInv'
  OBVIOUS
<1>1. ASSUME NEW l \in Loops, LoopStep(l) \/ CallFails(l) PROVE InventoryInv'
  <2>1. CASE Refused(l)
    <3>1. faults' \in 0..MaxFaults
      BY <2>1 DEF Refused, InventoryInv, TypeOK
    <3> QED BY <2>1, <3>1, RestartStep DEF Refused
  <2> QED BY <1>1, <2>1, EnsureReportedStep, ConfirmStep, SendBatchStep, BatchAcceptedStep,
             CallFailsStep DEF LoopStep
<1>2. CASE FleetStep
  BY <1>2, RecordInventoryStep, RecordObservationsStep DEF FleetStep
<1>3. CASE HardwareChanges
  BY <1>3, HardwareChangesStep
<1>4. CASE Crash
  <2>1. faults' \in 0..MaxFaults
    BY <1>4, Bounds DEF Crash, InventoryInv, TypeOK
  <2> QED BY <1>4, <2>1, RestartStep DEF Crash
<1>5. CASE UNCHANGED vars
  BY <1>5 DEF vars, InventoryInv, TypeOK, FileInv, KnownInv, FleetInv, LoopInv, WireInv,
     ConfirmedIsStored, RefusedBatchWasOvertaken, IsStored
<1> QED BY <1>1, <1>2, <1>3, <1>4, <1>5 DEF Next

-----------------------------------------------------------------------------
(* The theorems                                                             *)

\* InventoryInv holds in every reachable state
THEOREM InventoryInvariance == Spec => []InventoryInv
  BY InitHolds, NextHolds, PTL DEF Spec

(* The reference the Agent keeps for confirmed is a snapshot Fleet stored, *)
(* with that digest, through lost answers, restarts and late requests of   *)
(* earlier processes.                                                      *)
THEOREM ConfirmedStored == Spec => []ConfirmedIsStored
<1>1. InventoryInv => ConfirmedIsStored
  BY DEF InventoryInv
<1> QED BY <1>1, InventoryInvariance, PTL

(* An observation batch is refused only when its inventory was overtaken   *)
(* by a newer record, however far the record runs ahead of Fleet: each     *)
(* batch refers to a stored snapshot, and the head is the latest of these. *)
THEOREM BatchOvertaken == Spec => []RefusedBatchWasOvertaken
<1>1. InventoryInv => RefusedBatchWasOvertaken
  BY DEF InventoryInv
<1> QED BY <1>1, InventoryInvariance, PTL

(* Fleet's head never goes back and no stored snapshot ever changes.       *)
THEOREM ImmutableHistory == Spec => HistoryIsImmutable
<1> DEFINE Step ==
      /\ Generation(head') >= Generation(head)
      /\ \A g \in 1..MaxGeneration : snapshots[g] # None => snapshots'[g] = snapshots[g]
<1>1. ASSUME InventoryInv, [Next]_vars PROVE [Step]_vars
  <2>1. CASE RecordInventory
    BY <1>1, <2>1, RecordInventoryStep
  <2>2. CASE UNCHANGED <<snapshots, head>>
    <3>1. Generation(head) \in Nat
      BY <1>1, GenerationType DEF InventoryInv, TypeOK
    <3> QED BY <2>2, <3>1
  <2>3. CASE ~RecordInventory
    <3>1. ASSUME NEW l \in Loops, LoopStep(l) \/ CallFails(l) PROVE UNCHANGED <<snapshots, head>>
      BY <3>1 DEF LoopStep, EnsureReported, Confirm, SendBatch, BatchAccepted, Refused, Restarted,
         CallFails
    <3> QED BY <1>1, <2>2, <2>3, <3>1
            DEF Next, FleetStep, RecordObservations, HardwareChanges, Crash, Restarted, vars
  <2> QED BY <2>1, <2>3
<1>2. HistoryIsImmutable <=> [][Step]_vars
  BY DEF HistoryIsImmutable
<1>3. InventoryInv /\ [Next]_vars => [Step]_vars
  BY <1>1
<1> HIDE DEF Step
<1> QED BY <1>2, <1>3, InventoryInvariance, PTL DEF Spec
=============================================================================
