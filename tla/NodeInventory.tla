---------------------------- MODULE NodeInventory ----------------------------
(***************************************************************************)
(* How a node's resource inventory reaches Fleet: the Agent's persisted    *)
(* record (node-agent/src/resource_inventory.rs), the two Agent loops that *)
(* report it and refer to it (node-agent/src/agent.rs), and Fleet's table  *)
(* of snapshots with its head (fleet/.../control/inventory.rs).            *)
(*                                                                         *)
(* A slot list is one member of Contents: its digest tells two of them     *)
(* apart.  The node's enrollment is stable here; its checks are modelled   *)
(* in CommandChannel.                                                      *)
(***************************************************************************)
EXTENDS Naturals, FiniteSets

CONSTANTS
    Contents,       \* the slot lists the host may report
    Loops,          \* the Agent's tasks that send observation batches
    MaxClock,       \* the host clock reads 0..MaxClock and may step back
    MaxChanges,     \* bound on changes of the host's capacity
    MaxFaults,      \* bound on process kills and failed calls
    None            \* no record, no lock holder, no answer

ASSUME InventoryAssumption ==
    /\ Contents # {} /\ Loops # {} /\ IsFiniteSet(Contents)
    /\ {MaxClock, MaxChanges, MaxFaults} \subseteq Nat

VARIABLES
    hardware,   \* what detect_host_resources would return now
    file,       \* the persisted InventoryRecord, or None
    confirmed,  \* ResourceInventoryManager.confirmed, in memory
    holder,     \* the loop that holds the mutex of `confirmed`, or None
    loops,      \* per loop: where it is, and the inventory it holds
    wire,       \* requests on their way to Fleet
    snapshots,  \* Fleet: NodeResourceInventories, by generation
    head,       \* Fleet: NodeResourceInventoryHeads, or None
    changes, faults

vars == <<hardware, file, confirmed, holder, loops, wire, snapshots, head,
          changes, faults>>

MaxGeneration == MaxChanges + 1

Inventory == [generation : 1..MaxGeneration, content : Contents,
              observed : 0..MaxClock + MaxGeneration]

ASSUME NoneAssumption ==
    /\ None \notin Loops /\ None \notin Inventory /\ None \notin {"accepted", "conflict"}
    /\ None \notin (1..MaxGeneration) \X Contents

\* The two requests that matter here: report_resource_inventory, and
\* record_observations with the inventory reference of its heartbeat.
\* `by` is None once nobody waits for the answer any more.
Request == [kind : {"report", "batch"}, inventory : Inventory,
            by : Loops \union {None}]

Idle == [pc |-> "idle", inventory |-> None, reply |-> None]

Loop == [pc : {"idle", "reporting", "ready", "sending"},
         inventory : Inventory \union {None},
         reply : {None, "accepted", "conflict"}]

Generation(inventory) == IF inventory = None THEN 0 ELSE inventory.generation

\* NodeInventoryReference: generation and digest, not the observation time.
Reference(inventory) == <<inventory.generation, inventory.content>>

Init ==
    /\ hardware \in Contents
    /\ file = None
    /\ confirmed = None
    /\ holder = None
    /\ loops = [l \in Loops |-> Idle]
    /\ wire = {}
    /\ snapshots = [g \in 1..MaxGeneration |-> None]
    /\ head = None
    /\ changes = 0 /\ faults = 0

-----------------------------------------------------------------------------
(* The Agent.                                                              *)

\* Memory is resized, a disk is attached: the next detect() differs.
HardwareChanges ==
    /\ changes < MaxChanges
    /\ \E c \in Contents \ {hardware} : hardware' = c
    /\ changes' = changes + 1
    /\ UNCHANGED <<file, confirmed, holder, loops, wire, snapshots, head, faults>>

\* A mutant: the observation time is taken from the clock as it is.
UncorrectedTime(existing, now) == now

\* observed_at never stands still, even when the clock steps back.
ObservedAt(existing, now) ==
    IF existing # None /\ now <= existing.observed
    THEN existing.observed + 1
    ELSE now

\* prepare_sync: the record itself while the content stands, else its successor.
Prepare(existing, content, now) ==
    IF existing # None /\ existing.content = content
    THEN existing
    ELSE [generation |-> Generation(existing) + 1,
          content    |-> content,
          observed   |-> ObservedAt(existing, now)]

\* A mutant: the reference counts as confirmed once the report is sent.
EagerConfirm(l) ==
    /\ loops[l].pc = "idle"
    /\ holder = None
    /\ \E now \in 0..MaxClock : file' = Prepare(file, hardware, now)
    /\ confirmed' = Reference(file')
    /\ loops' = [loops EXCEPT ![l].pc = "ready", ![l].inventory = file']
    /\ wire' = IF confirmed = Reference(file') THEN wire ELSE wire \union
                 {[kind |-> "report", inventory |-> file', by |-> None]}
    /\ UNCHANGED <<hardware, holder, snapshots, head, changes, faults>>

\* ensure_reported_inventory up to its only await on the network: take the
\* lock, detect, write the record; report it unless it is the confirmed one.
EnsureReported(l) ==
    /\ loops[l].pc = "idle"
    /\ holder = None
    /\ \E now \in 0..MaxClock : file' = Prepare(file, hardware, now)
    /\ IF confirmed = Reference(file')
       THEN /\ loops' = [loops EXCEPT ![l].pc = "ready", ![l].inventory = file']
            /\ UNCHANGED <<holder, wire>>
       ELSE /\ loops' = [loops EXCEPT ![l].pc = "reporting", ![l].inventory = file']
            /\ holder' = l
            /\ wire' = wire \union
                 {[kind |-> "report", inventory |-> file', by |-> l]}
    /\ UNCHANGED <<hardware, confirmed, snapshots, head, changes, faults>>

\* The receipt names the reported snapshot: remember it, unlock.
Confirm(l) ==
    /\ loops[l].pc = "reporting" /\ loops[l].reply = "accepted"
    /\ confirmed' = Reference(loops[l].inventory)
    /\ holder' = None
    /\ loops' = [loops EXCEPT ![l].pc = "ready", ![l].reply = None]
    /\ UNCHANGED <<hardware, file, wire, snapshots, head, changes, faults>>

\* heartbeat_once, or deliver_completion's batch: the reference was fixed when
\* the lock was given up, the batch travels without it.
SendBatch(l) ==
    /\ loops[l].pc = "ready"
    /\ wire' = wire \union
         {[kind |-> "batch", inventory |-> loops[l].inventory, by |-> l]}
    /\ loops' = [loops EXCEPT ![l].pc = "sending"]
    /\ UNCHANGED <<hardware, file, confirmed, holder, snapshots, head, changes, faults>>

BatchAccepted(l) ==
    /\ loops[l].pc = "sending" /\ loops[l].reply = "accepted"
    /\ loops' = [loops EXCEPT ![l] = Idle]
    /\ UNCHANGED <<hardware, file, confirmed, holder, wire, snapshots, head,
                   changes, faults>>

\* Nobody waits for l's request any more; it may still arrive.
Abandoned(requests, waiting) ==
    {IF r.by \in waiting THEN [r EXCEPT !.by = None] ELSE r : r \in requests}

\* A transport error (a timeout, a lost request or answer) is retryable: the
\* loop backs off and starts its round again.
CallFails(l) ==
    /\ loops[l].pc \in {"reporting", "sending"}
    /\ faults < MaxFaults
    /\ faults' = faults + 1
    /\ loops' = [loops EXCEPT ![l] = Idle]
    /\ holder' = IF holder = l THEN None ELSE holder
    /\ \/ wire' = Abandoned(wire, {l})
       \/ wire' = {r \in wire : r.by # l}
    /\ UNCHANGED <<hardware, file, confirmed, snapshots, head, changes>>

\* The process ends and its supervisor starts it again: the file stays.
Restarted ==
    /\ loops' = [l \in Loops |-> Idle]
    /\ confirmed' = None
    /\ holder' = None
    /\ wire' = Abandoned(wire, Loops)
    /\ UNCHANGED <<hardware, file, snapshots, head, changes>>

\* 409 is not retryable: the loop's error ends run(), and the Agent with it.
Refused(l) ==
    /\ loops[l].reply = "conflict"
    /\ Restarted
    /\ UNCHANGED faults

Crash ==
    /\ faults < MaxFaults
    /\ faults' = faults + 1
    /\ Restarted

-----------------------------------------------------------------------------
(* Fleet.  Each handler is one transaction under the node's advisory lock.  *)

\* A mutant: a snapshot already in the table moves the head back to it.
ReplayMovesHead(inventory) == inventory

\* The exact replay of a stored snapshot leaves the head alone.
HeadAfterReplay(inventory) == head

\* The conditions of `record` on a generation that is not stored yet.
Acceptable(inventory) ==
    IF head = None
    THEN inventory.generation = 1
    ELSE /\ inventory.generation = head.generation + 1
         /\ inventory.observed > head.observed
         /\ inventory.content # head.content

Answer(request, reply) ==
    loops' = IF request.by = None THEN loops
             ELSE [loops EXCEPT ![request.by].reply = reply]

RecordInventory ==
    \E r \in wire :
        LET inventory == r.inventory
            stored    == snapshots[inventory.generation]
            fresh     == stored = None /\ Acceptable(inventory)
        IN  /\ r.kind = "report"
            /\ wire' = wire \ {r}
            /\ Answer(r, IF stored = inventory \/ fresh
                         THEN "accepted" ELSE "conflict")
            /\ snapshots' = IF fresh
                            THEN [snapshots EXCEPT ![inventory.generation] = inventory]
                            ELSE snapshots
            /\ head' = CASE fresh -> inventory
                         [] stored = inventory -> HeadAfterReplay(inventory)
                         [] OTHER -> head
            /\ UNCHANGED <<hardware, file, confirmed, holder, changes, faults>>

\* require_current_reference.
CurrentReference(inventory) ==
    head # None /\ Reference(head) = Reference(inventory)

RecordObservations ==
    \E r \in wire :
        /\ r.kind = "batch"
        /\ wire' = wire \ {r}
        /\ Answer(r, IF CurrentReference(r.inventory) THEN "accepted" ELSE "conflict")
        /\ UNCHANGED <<hardware, file, confirmed, holder, snapshots, head,
                       changes, faults>>

-----------------------------------------------------------------------------
LoopStep(l) ==
    \/ EnsureReported(l) \/ Confirm(l) \/ SendBatch(l)
    \/ BatchAccepted(l) \/ Refused(l)

FleetStep == RecordInventory \/ RecordObservations

Next ==
    \/ \E l \in Loops : LoopStep(l) \/ CallFails(l)
    \/ FleetStep
    \/ HardwareChanges
    \/ Crash

Spec == Init /\ [][Next]_vars

\* Every loop keeps running its rounds and Fleet answers what reaches it;
\* nothing forces a fault or a change.  A loop that finds the lock taken waits
\* in the mutex's queue, which is first in, first out.
FairSpec ==
    /\ Spec
    /\ WF_vars(FleetStep)
    /\ \A l \in Loops : SF_vars(LoopStep(l))

-----------------------------------------------------------------------------
\* Types of the Agent's and Fleet's state.
TypeOK ==
    /\ hardware \in Contents
    /\ file \in Inventory \union {None}
    /\ confirmed = None \/ confirmed \in (1..MaxGeneration) \X Contents
    /\ holder \in Loops \union {None}
    /\ loops \in [Loops -> Loop]
    /\ wire \subseteq Request
    /\ snapshots \in [1..MaxGeneration -> Inventory \union {None}]
    /\ head \in Inventory \union {None}
    /\ changes \in 0..MaxChanges /\ faults \in 0..MaxFaults

\* Fleet's head never goes back and a stored snapshot never changes, whatever
\* late or repeated report of an earlier Agent process arrives: schedulers bind
\* claims to a generation and digest of this table.
HistoryIsImmutable ==
    [][/\ Generation(head') >= Generation(head)
       /\ \A g \in 1..MaxGeneration :
              snapshots[g] # None => snapshots'[g] = snapshots[g]]_vars

\* What the Agent holds for confirmed is what Fleet stored, digest included:
\* prepare and apply trust this copy instead of asking Fleet again.
ConfirmedIsStored ==
    confirmed # None =>
        /\ snapshots[confirmed[1]] # None
        /\ Reference(snapshots[confirmed[1]]) = confirmed

\* The Agent exits over an observation batch only because the capacity changed
\* under way: the record it had referred to has been replaced by a newer one.
RefusedBatchWasOvertaken ==
    \A l \in Loops :
        loops[l].pc = "sending" /\ loops[l].reply = "conflict" =>
            Generation(file) > loops[l].inventory.generation

\* The Agent's record has skipped a generation that Fleet never stored: Fleet
\* accepts no generation but the head's successor, so only a late report of
\* the skipped one can still help.
Skipped == Generation(file) > Generation(head) + 1

\* Once capacity, faults and clock have settled, Fleet's head is the Agent's
\* present capacity and stays it, unless the capacity changed twice between
\* two reports and the record stays past the generation Fleet waits for.
FleetLearnsCapacity ==
    \/ <>[](head # None /\ head.content = hardware)
    \/ <>[]Skipped

\* ... and without that exception, which inventory_wedge.cfg refutes.
EveryCapacityIsLearned == <>[](head # None /\ head.content = hardware)
=============================================================================
