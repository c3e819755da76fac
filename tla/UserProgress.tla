---------------------------- MODULE UserProgress ----------------------------
(***************************************************************************)
(* The UserProgress account of state.rs: what the program remembers of one *)
(* user of one quest. A OneTime quest uses two flags; a Recurring quest    *)
(* uses a fixed array of recent cycles written at a cursor, in which a     *)
(* cycle's entry is the FIRST slot that holds its number. The array starts *)
(* out full of zeros, and zero is also the number of the first cycle.      *)
(*                                                                         *)
(* total_submitted, last_approved_cycle and bump are left out: the program *)
(* writes them and never reads them.                                       *)
(***************************************************************************)
EXTENDS Integers, FiniteSetsExt

CONSTANT RECENT_CYCLE_WINDOW   \* slots of the window: 32 on chain

ASSUME WindowAssumption == RECENT_CYCLE_WINDOW \in Nat \ {0}

Slots == 0 .. RECENT_CYCLE_WINDOW - 1

\* recent_cycle_states: 0 empty or rejected, 1 pending, 2 approved and paid.
EMPTY    == 0
PENDING  == 1
APPROVED == 2

CycleStates == {EMPTY, PENDING, APPROVED}

ProgressType ==
  [total_approved       : Nat,
   last_submitted_cycle : Nat,
   one_time_completed   : BOOLEAN,
   pending_one_time     : BOOLEAN,
   recent_cycles        : [Slots -> Nat],
   recent_cycle_states  : [Slots -> CycleStates],
   recent_cycle_cursor  : Slots]

\* A fresh account: submit_proof fills in exactly the zeros it was created with.
NewProgress ==
  [total_approved       |-> 0,
   last_submitted_cycle |-> 0,
   one_time_completed   |-> FALSE,
   pending_one_time     |-> FALSE,
   recent_cycles        |-> [s \in Slots |-> 0],
   recent_cycle_states  |-> [s \in Slots |-> EMPTY],
   recent_cycle_cursor  |-> 0]

SlotsHolding(p, cycle) == {s \in Slots : p.recent_cycles[s] = cycle}

cycle_state(p, cycle) ==
  IF SlotsHolding(p, cycle) = {}
  THEN EMPTY
  ELSE p.recent_cycle_states[Min(SlotsHolding(p, cycle))]

\* Slip for CycleInv: a cycle counts as recent for one cycle more than there are
\* slots, so a late review of it takes the slot of another one.
OneCycleLonger(cycle, current) == current - cycle > RECENT_CYCLE_WINDOW

OutOfWindow(cycle, current) == current - cycle >= RECENT_CYCLE_WINDOW

prune_old_cycles(p, current) ==
  LET stale == {s \in Slots : /\ p.recent_cycle_states[s] # EMPTY
                              /\ OutOfWindow(p.recent_cycles[s], current)}
  IN  [p EXCEPT
        !.recent_cycles = [s \in Slots |-> IF s \in stale THEN 0 ELSE @[s]],
        !.recent_cycle_states =
           [s \in Slots |-> IF s \in stale THEN EMPTY ELSE @[s]]]

\* Slip for WindowShowsLaterCycles: the cursor never moves on.
SameSlot(slot) == slot

NextSlot(slot) == (slot + 1) % RECENT_CYCLE_WINDOW

\* A cycle that has a slot keeps it; any other one takes the slot under the
\* cursor, whatever that slot remembers, and the cursor moves on.
set_cycle_state(p, cycle, state) ==
  LET held == SlotsHolding(p, cycle)
      at   == p.recent_cycle_cursor % RECENT_CYCLE_WINDOW
  IN  IF held # {}
      THEN [p EXCEPT !.recent_cycle_states[Min(held)] = state]
      ELSE [p EXCEPT !.recent_cycles[at] = cycle,
                     !.recent_cycle_states[at] = state,
                     !.recent_cycle_cursor = NextSlot(at)]

set_cycle_state_in_window(p, cycle, state, current) ==
  LET pruned == prune_old_cycles(p, current)
  IN  IF OutOfWindow(cycle, current)
      THEN pruned
      ELSE set_cycle_state(pruned, cycle, state)
=============================================================================
