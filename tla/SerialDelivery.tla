--------------------------- MODULE SerialDelivery ---------------------------
(***************************************************************************)
(* What node delivery promises its callers, with no leases, journals,      *)
(* clocks or messages in it.  Commands are issued one after the other.     *)
(* Only the first undecided command is worked on, and only once all its    *)
(* predecessors are settled.  Its side effect may be attempted more than   *)
(* once before it is decided, never afterwards; a success is decided only  *)
(* after the effect ran.  Settling publishes the decision unchanged.       *)
(***************************************************************************)
EXTENDS Naturals, Sequences

CONSTANTS
  Commands,   \* what can be issued
  Results,    \* how a command can end
  Success     \* the results that claim the side effect happened

VARIABLES
  issued,   \* the commands issued
  effects,  \* the positions whose side effect was run, in order
  decided,  \* the results of the first commands
  settled   \* the results their callers have been told

serialVars == <<issued, effects, decided, settled>>

Init ==
  /\ issued = <<>>
  /\ effects = <<>>
  /\ decided = <<>>
  /\ settled = <<>>

Issue ==
  /\ Len(issued') = Len(issued) + 1
  /\ issued = SubSeq(issued', 1, Len(issued))
  /\ issued'[Len(issued')] \in Commands
  /\ UNCHANGED <<effects, decided, settled>>

Position == Len(decided) + 1
InHand == settled = decided /\ Position <= Len(issued)

Attempt ==
  /\ InHand
  /\ effects' = Append(effects, Position)
  /\ UNCHANGED <<issued, decided, settled>>

Decide ==
  /\ InHand
  /\ \E r \in Results :
       /\ r \in Success => effects # <<>> /\ effects[Len(effects)] = Position
       /\ decided' = Append(decided, r)
  /\ UNCHANGED <<issued, effects, settled>>

Settle ==
  /\ Len(settled) < Len(decided)
  /\ settled' = Append(settled, decided[Len(settled) + 1])
  /\ UNCHANGED <<issued, effects, decided>>

Next == Issue \/ Attempt \/ Decide \/ Settle

Spec == Init /\ [][Next]_serialVars
=============================================================================
