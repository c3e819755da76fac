----------------------------- MODULE CycleProofs -----------------------------
(***************************************************************************)
(* One proof per cycle, and what the window of recent cycles shows, for    *)
(* every size of the window and any number of users. First come facts      *)
(* about the window of one user, then one lemma for each kind of step, and *)
(* the theorems are at the end.                                            *)
(***************************************************************************)
EXTENDS AutoProofs, FiniteSetTheorems

\* The first slot of a set of slots is one of them.
LEMMA LeastExists ==
  ASSUME NEW S \in SUBSET Nat, S # {}
  PROVE  /\ Min(S) \in S
         /\ \A y \in S : Min(S) <= y
  <1> DEFINE R == StrictSubsetOrdering(Nat)
             T == {0 .. x : x \in S}
  <1>1. IsWellFoundedOn(R, FiniteSubsetsOf(Nat))
    BY FS_StrictSubsetOrderingWellFounded
  <1>2. T \subseteq FiniteSubsetsOf(Nat) /\ T # {}
    <2>1. ASSUME NEW x \in S
          PROVE  0 .. x \in FiniteSubsetsOf(Nat)
      BY FS_Interval DEF FiniteSubsetsOf
    <2> QED
      BY <2>1
  <1>3. \E t \in T : \A y \in T : <<y, t>> \notin R
    <2> HIDE DEF R, T
    <2> QED
      BY <1>1, <1>2, WFMin
  <1>4. PICK x \in S : \A y \in S : <<0 .. y, 0 .. x>> \notin R
    BY <1>3
  <1>5. ASSUME NEW y \in S, y < x
        PROVE  FALSE
    <2>1. 0 .. y \subseteq 0 .. x /\ x \in 0 .. x /\ x \notin 0 .. y
      BY <1>5
    <2>2. <<0 .. y, 0 .. x>> \in R
      BY <2>1 DEF StrictSubsetOrdering
    <2> QED
      BY <1>4, <2>2
  <1>6. \A y \in S : x <= y
    BY <1>5
  <1> QED
    BY <1>6 DEF Min

\* The latest of a user's proofs is one of them: a set of numbers that has a bound
\* has a greatest one.
LEMMA GreatestExists ==
  ASSUME NEW n \in Nat, NEW S \in SUBSET (0 .. n), S # {}
  PROVE  /\ Max(S) \in S
         /\ \A y \in S : y <= Max(S)
  <1> DEFINE T == {n - x : x \in S}
  <1>1. T \in SUBSET Nat /\ T # {}
    <2>1. \A x \in S : n - x \in Nat
      OBVIOUS
    <2> QED
      BY <2>1
  <1>2. Min(T) \in T /\ \A y \in T : Min(T) <= y
    <2> HIDE DEF T
    <2> QED
      BY <1>1, LeastExists
  <1>3. PICK x \in S : Min(T) = n - x
    BY <1>2
  <1>4. \A y \in S : y <= x
    BY <1>2, <1>3
  <1> QED
    BY <1>4 DEF Max

-----------------------------------------------------------------------------
\* An entry that is asked for is the entry of one slot, the first with its number.
LEMMA FirstSlot ==
  ASSUME NEW p, NEW cycle, SlotsHolding(p, cycle) # {}
  PROVE  /\ Min(SlotsHolding(p, cycle)) \in Slots
         /\ p.recent_cycles[Min(SlotsHolding(p, cycle))] = cycle
  <1>1. SlotsHolding(p, cycle) \in SUBSET Nat
    BY WindowAssumption DEF SlotsHolding, Slots
  <1>2. Min(SlotsHolding(p, cycle)) \in SlotsHolding(p, cycle)
    BY <1>1, LeastExists
  <1> QED
    BY <1>2 DEF SlotsHolding

\* prune_old_cycles leaves every entry alone that is still recent, and every slot
\* with what it had or empty.
LEMMA PruneKeepsRecent ==
  ASSUME NEW p \in ProgressType, NEW current \in Nat, NEW cycle \in Nat,
         ~OutOfWindow(cycle, current)
  PROVE  LET w == prune_old_cycles(p, current)
         IN  /\ SlotsHolding(w, cycle) = SlotsHolding(p, cycle)
             /\ \A s \in SlotsHolding(p, cycle) :
                  w.recent_cycle_states[s] = p.recent_cycle_states[s]
             /\ cycle_state(w, cycle) = cycle_state(p, cycle)
  <1> DEFINE w == prune_old_cycles(p, current)
             stale == {s \in Slots : /\ p.recent_cycle_states[s] # EMPTY
                                     /\ OutOfWindow(p.recent_cycles[s], current)}
  <1>1. p.recent_cycles \in [Slots -> Nat]
    BY DEF ProgressType
  <1>2. /\ w.recent_cycles = [s \in Slots |-> IF s \in stale THEN 0
                                              ELSE p.recent_cycles[s]]
        /\ w.recent_cycle_states = [s \in Slots |->
                                      IF s \in stale THEN EMPTY
                                      ELSE p.recent_cycle_states[s]]
    BY DEF prune_old_cycles, ProgressType
  <1>3. ASSUME NEW s \in Slots, s \in stale
        PROVE  p.recent_cycles[s] # cycle /\ cycle # 0
    <2>1. p.recent_cycles[s] \in Nat
      BY <1>1
    <2>2. current - p.recent_cycles[s] >= RECENT_CYCLE_WINDOW
      BY <1>3 DEF OutOfWindow
    <2>3. current - cycle < RECENT_CYCLE_WINDOW
      BY WindowAssumption DEF OutOfWindow
    <2> QED
      BY <2>1, <2>2, <2>3, WindowAssumption
  <1> HIDE DEF w, stale
  <1>4. SlotsHolding(w, cycle) = SlotsHolding(p, cycle)
    BY <1>2, <1>3 DEF SlotsHolding
  <1>5. \A s \in SlotsHolding(p, cycle) :
          w.recent_cycle_states[s] = p.recent_cycle_states[s]
    BY <1>2, <1>3 DEF SlotsHolding
  <1>6. cycle_state(w, cycle) = cycle_state(p, cycle)
    <2>1. CASE SlotsHolding(p, cycle) = {}
      BY <1>4, <2>1 DEF cycle_state
    <2>2. CASE SlotsHolding(p, cycle) # {}
      <3>1. Min(SlotsHolding(p, cycle)) \in SlotsHolding(p, cycle)
        BY <2>2, FirstSlot DEF SlotsHolding
      <3> QED
        BY <1>4, <1>5, <2>2, <3>1 DEF cycle_state
    <2> QED
      BY <2>1, <2>2
  <1> QED
    BY <1>4, <1>5, <1>6 DEF w

\* What else prune_old_cycles does to the account.
LEMMA PruneFacts ==
  ASSUME NEW p \in ProgressType, NEW current \in Nat
  PROVE  LET w == prune_old_cycles(p, current)
         IN  /\ w \in ProgressType
             /\ w.last_submitted_cycle = p.last_submitted_cycle
             /\ w.recent_cycle_cursor = p.recent_cycle_cursor
             /\ \A s \in Slots : w.recent_cycles[s] \in {0, p.recent_cycles[s]}
  <1>1. prune_old_cycles(p, current) \in ProgressType
    BY PruneType
  <1> QED
    BY <1>1 DEF prune_old_cycles, ProgressType

-----------------------------------------------------------------------------
\* The state set_cycle_state writes for a cycle is the one read afterwards.
LEMMA SetThenRead ==
  ASSUME NEW p \in ProgressType, NEW cycle \in Nat, NEW state \in CycleStates
  PROVE  cycle_state(set_cycle_state(p, cycle, state), cycle) = state
  <1> DEFINE w  == set_cycle_state(p, cycle, state)
             at == p.recent_cycle_cursor % RECENT_CYCLE_WINDOW
  <1>1. /\ p.recent_cycles \in [Slots -> Nat]
        /\ p.recent_cycle_states \in [Slots -> CycleStates]
    BY DEF ProgressType
  <1>2. CASE SlotsHolding(p, cycle) # {}
    <2> DEFINE m == Min(SlotsHolding(p, cycle))
    <2>1. m \in Slots
      BY <1>2, FirstSlot
    <2>2. /\ w.recent_cycles = p.recent_cycles
          /\ w.recent_cycle_states = [p.recent_cycle_states EXCEPT ![m] = state]
      BY <1>2 DEF set_cycle_state, ProgressType
    <2> HIDE DEF w
    <2>3. SlotsHolding(w, cycle) = SlotsHolding(p, cycle)
      BY <2>2 DEF SlotsHolding
    <2>4. w.recent_cycle_states[m] = state
      BY <1>1, <2>1, <2>2
    <2>5. cycle_state(w, cycle) = state
      BY <1>2, <2>3, <2>4 DEF cycle_state
    <2> QED
      BY <2>5 DEF w
  <1>3. CASE SlotsHolding(p, cycle) = {}
    <2>1. at \in Slots
      BY WindowAssumption DEF ProgressType, Slots
    <2>2. /\ w.recent_cycles = [p.recent_cycles EXCEPT ![at] = cycle]
          /\ w.recent_cycle_states = [p.recent_cycle_states EXCEPT ![at] = state]
      BY <1>3 DEF set_cycle_state, ProgressType
    <2> HIDE DEF w, at
    <2>3. SlotsHolding(w, cycle) = {at}
      BY <1>1, <1>3, <2>1, <2>2 DEF SlotsHolding
    <2>4. Min(SlotsHolding(w, cycle)) = at
      BY <2>1, <2>3, FirstSlot DEF SlotsHolding
    <2>5. cycle_state(w, cycle) = state
      BY <1>1, <2>1, <2>2, <2>3, <2>4 DEF cycle_state
    <2> QED
      BY <2>5 DEF w
  <1> QED
    BY <1>2, <1>3

\* A cycle that has a slot keeps it, and nothing else changes.
LEMMA SetKeepsOthers ==
  ASSUME NEW p \in ProgressType, NEW cycle \in Nat, NEW state \in CycleStates,
         SlotsHolding(p, cycle) # {}
  PROVE  LET w == set_cycle_state(p, cycle, state)
         IN  /\ w.recent_cycles = p.recent_cycles
             /\ w.recent_cycle_cursor = p.recent_cycle_cursor
             /\ w.last_submitted_cycle = p.last_submitted_cycle
             /\ \A other \in Nat :
                  other # cycle => cycle_state(w, other) = cycle_state(p, other)
  <1> DEFINE w == set_cycle_state(p, cycle, state)
             m == Min(SlotsHolding(p, cycle))
  <1>1. m \in Slots /\ p.recent_cycles[m] = cycle
    BY FirstSlot
  <1>2. /\ w.recent_cycles = p.recent_cycles
        /\ w.recent_cycle_states = [p.recent_cycle_states EXCEPT ![m] = state]
        /\ w.recent_cycle_cursor = p.recent_cycle_cursor
        /\ w.last_submitted_cycle = p.last_submitted_cycle
    BY DEF set_cycle_state, ProgressType
  <1>3. p.recent_cycle_states \in [Slots -> CycleStates]
    BY DEF ProgressType
  <1> HIDE DEF w, m
  <1>4. ASSUME NEW other \in Nat, other # cycle
        PROVE  cycle_state(w, other) = cycle_state(p, other)
    <2>1. SlotsHolding(w, other) = SlotsHolding(p, other)
      BY <1>2 DEF SlotsHolding
    <2>2. CASE SlotsHolding(p, other) = {}
      BY <2>1, <2>2 DEF cycle_state
    <2>3. CASE SlotsHolding(p, other) # {}
      <3> DEFINE o == Min(SlotsHolding(p, other))
      <3>1. o \in Slots /\ p.recent_cycles[o] = other
        BY <2>3, FirstSlot
      <3> HIDE DEF o
      <3>2. w.recent_cycle_states[o] = p.recent_cycle_states[o]
        BY <1>1, <1>2, <1>3, <1>4, <3>1
      <3> QED
        BY <2>1, <2>3, <3>2 DEF cycle_state, o
    <2> QED
      BY <2>2, <2>3
  <1> QED
    BY <1>2, <1>4 DEF w

\* A cycle that has no slot takes the one under the cursor.
LEMMA SetTakesCursor ==
  ASSUME NEW p \in ProgressType, NEW cycle \in Nat, NEW state \in CycleStates,
         SlotsHolding(p, cycle) = {}
  PROVE  LET w  == set_cycle_state(p, cycle, state)
             at == p.recent_cycle_cursor
         IN  /\ w.recent_cycles = [p.recent_cycles EXCEPT ![at] = cycle]
             /\ w.recent_cycle_states = [p.recent_cycle_states EXCEPT ![at] = state]
             /\ w.recent_cycle_cursor = IF at + 1 = RECENT_CYCLE_WINDOW
                                        THEN 0 ELSE at + 1
  <1>1. p.recent_cycle_cursor \in 0 .. RECENT_CYCLE_WINDOW - 1
    BY DEF ProgressType, Slots
  <1>2. p.recent_cycle_cursor % RECENT_CYCLE_WINDOW = p.recent_cycle_cursor
    BY <1>1, WindowAssumption
  <1>3. NextSlot(p.recent_cycle_cursor)
          = IF p.recent_cycle_cursor + 1 = RECENT_CYCLE_WINDOW
            THEN 0 ELSE p.recent_cycle_cursor + 1
    BY <1>1, WindowAssumption DEF NextSlot
  <1> QED
    BY <1>2, <1>3 DEF set_cycle_state, ProgressType

-----------------------------------------------------------------------------
\* The entries are read from the two arrays and nothing else.
LEMMA SameArrays ==
  ASSUME NEW v, NEW w, v.recent_cycles = w.recent_cycles,
         v.recent_cycle_states = w.recent_cycle_states, NEW cycle
  PROVE  /\ SlotsHolding(v, cycle) = SlotsHolding(w, cycle)
         /\ cycle_state(v, cycle) = cycle_state(w, cycle)
  BY DEF SlotsHolding, cycle_state

\* As long as the first cycle is recent, some slot still holds a zero: the slot
\* under the cursor is too old to hold anything else.
LEMMA ZeroHasSlot ==
  ASSUME NEW p \in ProgressType, RingIsOrdered(p),
         p.last_submitted_cycle < RECENT_CYCLE_WINDOW
  PROVE  SlotsHolding(p, 0) # {}
  <1> DEFINE at == p.recent_cycle_cursor
  <1>1. at \in Slots /\ at \in Int /\ p.recent_cycles[at] \in Nat
        /\ p.last_submitted_cycle \in Nat
    BY WindowAssumption DEF ProgressType, Slots
  <1>2. SlotAge(p, at) = RECENT_CYCLE_WINDOW - 1
    BY <1>1, WindowAssumption DEF SlotAge
  <1>3. p.recent_cycles[at] # 0 =>
          p.recent_cycles[at] <= p.last_submitted_cycle - (RECENT_CYCLE_WINDOW - 1)
    BY <1>1, <1>2 DEF RingIsOrdered
  <1>4. p.recent_cycles[at] = 0
    BY <1>1, <1>3, WindowAssumption
  <1> QED
    BY <1>1, <1>4 DEF SlotsHolding

\* A late review writes to the slot its cycle has, or to none: it never takes the
\* slot of another recent cycle, whatever was sent after the proof it is about.
LEMMA ReviewKeepsWindow ==
  ASSUME NEW p \in ProgressType, RingIsOrdered(p), NEW cycle \in Nat,
         cycle <= p.last_submitted_cycle, NEW state \in CycleStates,
         IsRemembered(p, cycle) => cycle_state(p, cycle) = PENDING
  PROVE  LET w == set_cycle_state_in_window(p, cycle, state, WindowAnchor(p, cycle))
         IN  /\ RingIsOrdered(w)
             /\ w.last_submitted_cycle = p.last_submitted_cycle
             /\ IsRemembered(p, cycle) => cycle_state(w, cycle) = state
             /\ \A other \in Nat :
                  other # cycle /\ IsRemembered(p, other) =>
                    cycle_state(w, other) = cycle_state(p, other)
  <1> DEFINE last == p.last_submitted_cycle
             q    == prune_old_cycles(p, last)
             w    == set_cycle_state_in_window(p, cycle, state, last)
  <1>1. last \in Nat /\ p.recent_cycle_cursor \in Nat
    BY WindowAssumption DEF ProgressType, Slots
  <1>2. WindowAnchor(p, cycle) = last
    <2>1. {last, cycle} \in SUBSET (0 .. last)
      BY <1>1
    <2>2. Max({last, cycle}) \in {last, cycle} /\ last <= Max({last, cycle})
      BY <1>1, <2>1, GreatestExists
    <2> QED
      BY <1>1, <2>2 DEF WindowAnchor
  <1>3. /\ q \in ProgressType
        /\ q.last_submitted_cycle = last
        /\ q.recent_cycle_cursor = p.recent_cycle_cursor
        /\ \A s \in Slots : q.recent_cycles[s] \in {0, p.recent_cycles[s]}
    BY <1>1, PruneFacts
  <1>4. ASSUME NEW c \in Nat, ~OutOfWindow(c, last)
        PROVE  /\ SlotsHolding(q, c) = SlotsHolding(p, c)
               /\ cycle_state(q, c) = cycle_state(p, c)
    BY <1>1, <1>4, PruneKeepsRecent
  <1>5. ~OutOfWindow(last, last)
    BY <1>1, WindowAssumption DEF OutOfWindow
  <1>6. w = IF OutOfWindow(cycle, last) THEN q ELSE set_cycle_state(q, cycle, state)
    BY DEF set_cycle_state_in_window
  <1> HIDE DEF q, w
  <1>7. RingIsOrdered(q)
    <2>1. SlotsHolding(q, last) # {}
      BY <1>1, <1>4, <1>5 DEF RingIsOrdered
    <2>2. \A s \in Slots : SlotAge(q, s) = SlotAge(p, s)
      BY <1>3 DEF SlotAge
    <2> QED
      BY <1>3, <2>1, <2>2 DEF RingIsOrdered
  <1>8. CASE OutOfWindow(cycle, last)
    <2>1. w = q
      BY <1>6, <1>8
    <2> QED
      BY <1>2, <1>3, <1>4, <1>7, <1>8, <2>1 DEF IsRemembered, w
  <1>9. CASE ~OutOfWindow(cycle, last)
    <2>1. w = set_cycle_state(q, cycle, state)
      BY <1>6, <1>9
    <2>2. SlotsHolding(p, cycle) # {}
      <3>1. CASE IsRemembered(p, cycle)
        BY <3>1 DEF cycle_state, PENDING, EMPTY
      <3>2. CASE ~IsRemembered(p, cycle)
        <4>1. cycle = 0
          BY <1>9, <3>2 DEF IsRemembered
        <4>2. last < RECENT_CYCLE_WINDOW
          BY <1>1, <1>9, <4>1, WindowAssumption DEF OutOfWindow
        <4> QED
          BY <4>1, <4>2, ZeroHasSlot
      <3> QED
        BY <3>1, <3>2
    <2>3. SlotsHolding(q, cycle) # {}
      BY <1>4, <1>9, <2>2
    <2>4. /\ w.recent_cycles = q.recent_cycles
          /\ w.recent_cycle_cursor = q.recent_cycle_cursor
          /\ w.last_submitted_cycle = q.last_submitted_cycle
          /\ \A other \in Nat :
               other # cycle => cycle_state(w, other) = cycle_state(q, other)
      BY <1>3, <2>1, <2>3, SetKeepsOthers
    <2>5. cycle_state(w, cycle) = state
      BY <1>3, <2>1, SetThenRead
    <2>6. RingIsOrdered(w)
      <3>1. \A s \in Slots : SlotAge(w, s) = SlotAge(q, s)
        BY <2>4 DEF SlotAge
      <3> QED
        BY <1>7, <2>4, <3>1 DEF RingIsOrdered, SlotsHolding
    <2> QED
      BY <1>2, <1>3, <1>4, <2>4, <2>5, <2>6 DEF IsRemembered, w
  <1> QED
    BY <1>8, <1>9

\* A new proof's entry goes where its cycle has a slot already, or over one that
\* is no longer recent: every other recent entry stays as it was.
LEMMA SubmitKeepsWindow ==
  ASSUME NEW p \in ProgressType, RingIsOrdered(p), NEW current \in Nat,
         p.last_submitted_cycle <= current,
         NEW w, w = [set_cycle_state(prune_old_cycles(p, current), current, PENDING)
                       EXCEPT !.last_submitted_cycle = current]
  PROVE  /\ RingIsOrdered(w)
         /\ w.last_submitted_cycle = current
         /\ cycle_state(w, current) = PENDING
         /\ \A other \in Nat :
              /\ other # current
              /\ other <= p.last_submitted_cycle
              /\ IsRemembered(w, other)
              => /\ IsRemembered(p, other)
                 /\ cycle_state(w, other) = cycle_state(p, other)
  <1> DEFINE last == p.last_submitted_cycle
             at   == p.recent_cycle_cursor
             q    == prune_old_cycles(p, current)
             v    == set_cycle_state(q, current, PENDING)
  <1>1. /\ last \in Nat /\ at \in Slots /\ at \in Nat /\ at < RECENT_CYCLE_WINDOW
        /\ PENDING \in CycleStates
    BY WindowAssumption DEF ProgressType, Slots, PENDING, CycleStates
  <1>2. /\ q \in ProgressType
        /\ q.last_submitted_cycle = last
        /\ q.recent_cycle_cursor = at
        /\ \A s \in Slots : q.recent_cycles[s] \in {0, p.recent_cycles[s]}
    BY PruneFacts
  <1>3. ASSUME NEW c \in Nat, ~OutOfWindow(c, current)
        PROVE  /\ SlotsHolding(q, c) = SlotsHolding(p, c)
               /\ cycle_state(q, c) = cycle_state(p, c)
    BY <1>3, PruneKeepsRecent
  <1>4. ~OutOfWindow(current, current)
    BY WindowAssumption DEF OutOfWindow
  <1> HIDE DEF q
  <1>5. v \in ProgressType
    BY <1>1, <1>2, SetType
  <1>6. cycle_state(v, current) = PENDING
    BY <1>1, <1>2, SetThenRead
  <1> HIDE DEF v
  <1>7. /\ w.last_submitted_cycle = current
        /\ w.recent_cycles = v.recent_cycles
        /\ w.recent_cycle_states = v.recent_cycle_states
        /\ w.recent_cycle_cursor = v.recent_cycle_cursor
    BY <1>5 DEF ProgressType, v, q
  <1>8. \A c \in Nat : /\ SlotsHolding(w, c) = SlotsHolding(v, c)
                       /\ cycle_state(w, c) = cycle_state(v, c)
    BY <1>7, SameArrays
  <1>9. ASSUME NEW other \in Nat, other # current, other <= last,
               IsRemembered(w, other)
        PROVE  /\ other > 0
               /\ ~OutOfWindow(other, current)
               /\ IsRemembered(p, other)
    <2>1. ~OutOfWindow(other, current) /\ (other > 0 \/ current = 0)
      BY <1>7, <1>9 DEF IsRemembered
    <2>2. other > 0
      BY <1>1, <1>9, <2>1
    <2>3. ~OutOfWindow(other, last)
      BY <1>1, <2>1, WindowAssumption DEF OutOfWindow
    <2> QED
      BY <2>1, <2>2, <2>3 DEF IsRemembered
  <1>10. CASE SlotsHolding(p, current) # {}
    <2>1. SlotsHolding(q, current) # {}
      BY <1>3, <1>4, <1>10
    <2>2. /\ v.recent_cycles = q.recent_cycles
          /\ v.recent_cycle_cursor = at
          /\ \A other \in Nat :
               other # current => cycle_state(v, other) = cycle_state(q, other)
      BY <1>1, <1>2, <2>1, SetKeepsOthers DEF v
    <2>3. RingIsOrdered(w)
      <3>1. SlotsHolding(w, current) # {}
        BY <1>7, <2>1, <2>2 DEF SlotsHolding
      <3>2. ASSUME NEW s \in Slots, w.recent_cycles[s] # 0
            PROVE  w.recent_cycles[s] <= current - SlotAge(w, s)
        <4>1. w.recent_cycles[s] = p.recent_cycles[s] /\ p.recent_cycles[s] # 0
          BY <1>2, <1>7, <2>2, <3>2
        <4>2. SlotAge(w, s) = SlotAge(p, s) /\ SlotAge(p, s) \in Int
          BY <1>1, <1>7, <2>2, WindowAssumption DEF SlotAge, Slots
        <4>3. p.recent_cycles[s] <= last - SlotAge(p, s) /\ p.recent_cycles[s] \in Nat
          BY <4>1 DEF RingIsOrdered, ProgressType
        <4> QED
          BY <1>1, <4>1, <4>2, <4>3
      <3> QED
        BY <1>7, <3>1, <3>2 DEF RingIsOrdered
    <2>4. ASSUME NEW other \in Nat, other # current, other <= last,
                 IsRemembered(w, other)
          PROVE  cycle_state(w, other) = cycle_state(p, other)
      BY <1>3, <1>8, <1>9, <2>2, <2>4
    <2> QED
      BY <1>4, <1>6, <1>7, <1>8, <1>9, <2>3, <2>4
  <1>11. CASE SlotsHolding(p, current) = {}
    <2>1. last < current
      BY <1>1, <1>11 DEF RingIsOrdered
    <2>2. SlotsHolding(q, current) = {}
      BY <1>3, <1>4, <1>11
    <2>3. /\ v.recent_cycles = [q.recent_cycles EXCEPT ![at] = current]
          /\ v.recent_cycle_states = [q.recent_cycle_states EXCEPT ![at] = PENDING]
          /\ v.recent_cycle_cursor = IF at + 1 = RECENT_CYCLE_WINDOW
                                     THEN 0 ELSE at + 1
      BY <1>1, <1>2, <2>2, SetTakesCursor DEF v
    <2>4. /\ q.recent_cycles \in [Slots -> Nat]
          /\ q.recent_cycle_states \in [Slots -> CycleStates]
      BY <1>2 DEF ProgressType
    <2>5. v.recent_cycles[at] = current
      BY <1>1, <2>3, <2>4
    <2>6. \A s \in Slots : s # at =>
            /\ v.recent_cycles[s] = q.recent_cycles[s]
            /\ v.recent_cycle_states[s] = q.recent_cycle_states[s]
      BY <2>3, <2>4
    <2>7. RingIsOrdered(w)
      <3>1. SlotsHolding(w, current) # {}
        BY <1>1, <1>7, <2>5 DEF SlotsHolding
      <3>2. SlotAge(w, at) = 0
        BY <1>1, <1>7, <2>3, WindowAssumption DEF SlotAge
      <3>3. ASSUME NEW s \in Slots, s # at, w.recent_cycles[s] # 0
            PROVE  w.recent_cycles[s] <= current - SlotAge(w, s)
        <4>1. w.recent_cycles[s] = p.recent_cycles[s] /\ p.recent_cycles[s] # 0
          BY <1>2, <1>7, <2>6, <3>3
        <4>2. s \in Nat /\ s < RECENT_CYCLE_WINDOW
          BY WindowAssumption DEF Slots
        <4>3. SlotAge(w, s) = SlotAge(p, s) + 1 /\ SlotAge(p, s) \in Int
          BY <1>1, <1>7, <2>3, <3>3, <4>2, WindowAssumption DEF SlotAge
        <4>4. p.recent_cycles[s] <= last - SlotAge(p, s) /\ p.recent_cycles[s] \in Nat
          BY <4>1 DEF RingIsOrdered, ProgressType
        <4> QED
          BY <1>1, <2>1, <4>1, <4>3, <4>4
      <3>4. \A s \in Slots : w.recent_cycles[s] # 0 =>
              w.recent_cycles[s] <= current - SlotAge(w, s)
        BY <1>7, <2>5, <3>2, <3>3
      <3> QED
        BY <1>7, <3>1, <3>4 DEF RingIsOrdered
    <2>8. ASSUME NEW other \in Nat, other # current, other <= last,
                 IsRemembered(w, other)
          PROVE  cycle_state(w, other) = cycle_state(p, other)
      <3>1. q.recent_cycles[at] # other
        <4>1. other > 0 /\ ~OutOfWindow(other, current)
          BY <1>9, <2>8
        <4>2. SlotAge(p, at) = RECENT_CYCLE_WINDOW - 1
          BY <1>1, WindowAssumption DEF SlotAge
        <4>3. p.recent_cycles[at] # 0 =>
                p.recent_cycles[at] <= last - (RECENT_CYCLE_WINDOW - 1)
          BY <1>1, <4>2 DEF RingIsOrdered
        <4>4. p.recent_cycles[at] # other
          BY <1>1, <2>1, <4>1, <4>3, WindowAssumption DEF OutOfWindow
        <4> QED
          BY <1>1, <1>2, <4>1, <4>4
      <3>2. SlotsHolding(v, other) = SlotsHolding(q, other)
        BY <2>5, <2>6, <2>8, <3>1 DEF SlotsHolding
      <3>3. cycle_state(v, other) = cycle_state(q, other)
        <4>1. CASE SlotsHolding(q, other) = {}
          BY <3>2, <4>1 DEF cycle_state
        <4>2. CASE SlotsHolding(q, other) # {}
          <5> DEFINE m == Min(SlotsHolding(q, other))
          <5>1. m \in Slots /\ q.recent_cycles[m] = other
            BY <4>2, FirstSlot
          <5>2. v.recent_cycle_states[m] = q.recent_cycle_states[m]
            BY <2>6, <3>1, <5>1
          <5> QED
            BY <3>2, <4>2, <5>2 DEF cycle_state
        <4> QED
          BY <4>1, <4>2
      <3> QED
        BY <1>3, <1>8, <1>9, <2>8, <3>3
    <2> QED
      BY <1>4, <1>6, <1>7, <1>8, <1>9, <2>7, <2>8
  <1> QED
    BY <1>10, <1>11

-----------------------------------------------------------------------------
\* The quotient does not go down when what is divided goes up.
LEMMA QuotientGrows ==
  ASSUME NEW a \in Int, NEW b \in Int, NEW n \in Int, n > 0, a <= b
  PROVE  a \div n <= b \div n
  OBVIOUS

\* The cycles of a quest go up with the clock.
LEMMA CyclesAdvance ==
  ASSUME Inv, quest.status # "Absent", now' \in Nat, now <= now',
         quest'.mode = quest.mode, quest'.start_at = quest.start_at,
         quest'.period_seconds = quest.period_seconds
  PROVE  /\ CurrentCycle \in Nat /\ CurrentCycle' \in Int
         /\ CurrentCycle <= CurrentCycle'
  <1>1. CurrentCycle \in Nat
    BY CurrentCycleType
  <1>2. /\ now \in Nat /\ quest.start_at \in Nat /\ quest.period_seconds \in Nat
        /\ quest.start_at <= now
        /\ quest.mode \in {"OneTime", "Recurring"}
        /\ quest.mode = "Recurring" => quest.period_seconds > 0
    BY DEF Inv, TypeOK, QuestType, Modes, TermsHold
  <1>3. CASE quest.mode = "OneTime"
    BY <1>1, <1>3 DEF CurrentCycle
  <1>4. CASE quest.mode = "Recurring"
    <2> DEFINE a == now - quest.start_at
               b == now' - quest.start_at
               n == quest.period_seconds
    <2>1. a \in Nat /\ b \in Nat /\ n \in Nat \ {0} /\ a <= b
      BY <1>2, <1>4
    <2>2. CurrentCycle = a \div n /\ CurrentCycle' = b \div n
      BY <1>4 DEF CurrentCycle
    <2> HIDE DEF a, b, n
    <2>3. b \div n \in Int
      BY <2>1
    <2> QED
      BY <1>1, <2>1, <2>2, <2>3, QuotientGrows
  <1> QED
    BY <1>2, <1>3, <1>4

\* Steps that touch neither submissions nor progress keep everything but the time.
LEMMA QuietStepKeepsCycles ==
  ASSUME Inv, CycleInv, UNCHANGED <<submissions, progress>>,
         quest.status # "Absent", now' \in Nat, now <= now',
         quest'.mode = quest.mode, quest'.start_at = quest.start_at,
         quest'.period_seconds = quest.period_seconds,
         quest'.status # "Absent"
  PROVE  CycleInv'
  <1>1. /\ CurrentCycle \in Nat /\ CurrentCycle' \in Int
        /\ CurrentCycle <= CurrentCycle'
    BY CyclesAdvance
  <1>2. ASSUME NEW u \in Submitters
        PROVE  CyclesGoUp(u)' /\ RingIsOrdered(progress[u])'
    <2>1. progress[u].last_submitted_cycle \in Nat
      BY DEF Inv, TypeOK, ProgressType
    <2>2. CyclesGoUp(u) /\ RingIsOrdered(progress[u])
      BY DEF CycleInv
    <2>3. CyclesGoUp(u)'
      BY <1>1, <2>1, <2>2 DEF CyclesGoUp, ProofsOf
    <2> QED
      BY <2>2, <2>3 DEF RingIsOrdered, SlotsHolding, SlotAge
  <1>3. ASSUME NEW i \in DOMAIN submissions
        PROVE  ProgressShows(i)' <=> ProgressShows(i)
    BY DEF ProgressShows, IsRemembered, OutOfWindow, cycle_state, SlotsHolding
  <1>4. RepeatsFollowRejection'
    BY DEF CycleInv, RepeatsFollowRejection, SameCycle
  <1> QED
    BY <1>2, <1>3, <1>4 DEF CycleInv, SameCycle

\* A fresh account's window is in order.
LEMMA NewRingIsOrdered == RingIsOrdered(NewProgress)
  <1>1. 0 \in Slots
    BY WindowAssumption DEF Slots
  <1>2. \A s \in Slots : NewProgress.recent_cycles[s] = 0
    BY DEF NewProgress
  <1> QED
    BY <1>1, <1>2 DEF RingIsOrdered, SlotsHolding, NewProgress

\* With no submissions, new accounts and no cycle gone by the invariant holds.
LEMMA NothingSentYet ==
  ASSUME DOMAIN submissions = {},
         progress = [u \in Submitters |-> NewProgress],
         quest.status # "Absent" => CurrentCycle = 0
  PROVE  CycleInv
  <1>1. ASSUME NEW u \in Submitters
        PROVE  CyclesGoUp(u) /\ RingIsOrdered(progress[u])
    <2>1. progress[u] = NewProgress /\ NewProgress.last_submitted_cycle = 0
      BY DEF NewProgress
    <2> QED
      BY <2>1, NewRingIsOrdered DEF CyclesGoUp, ProofsOf
  <1> QED
    BY <1>1 DEF CycleInv, RepeatsFollowRejection

\* create_quest starts the first cycle.
LEMMA CreateKeepsCycles ==
  ASSUME Inv, CycleInv, NEW args \in CreateArgs, CreateQuest(args)
  PROVE  CycleInv'
  <1>1. quest.status = "Absent" /\ UNCHANGED <<now, submissions, progress>>
    BY DEF CreateQuest
  <1>2. /\ DOMAIN submissions' = {}
        /\ progress' = [u \in Submitters |-> NewProgress]
    BY <1>1, BlankQuest DEF CycleInv
  <1>3. CurrentCycle' = 0
    <2>1. args.period_seconds \in Int /\ now \in Nat
      BY CreateAssumption DEF CreateArgType, Inv, TypeOK
    <2>2. /\ quest'.mode = args.mode
          /\ quest'.start_at = now
          /\ quest'.period_seconds = args.period_seconds
      BY DEF CreateQuest, NoQuest
    <2>3. args.mode # "OneTime" => args.period_seconds > 0
      BY DEF CreateQuest, PeriodFitsMode
    <2>4. args.period_seconds > 0 => 0 \div args.period_seconds = 0
      BY <2>1
    <2> QED
      BY <1>1, <2>1, <2>2, <2>3, <2>4 DEF CurrentCycle
  <1>4. ASSUME NEW u \in Submitters
        PROVE  CyclesGoUp(u)' /\ RingIsOrdered(progress[u])'
    <2>1. progress'[u] = NewProgress /\ NewProgress.last_submitted_cycle = 0
      BY <1>2 DEF NewProgress
    <2>2. CyclesGoUp(u)'
      BY <1>2, <1>3, <2>1 DEF CyclesGoUp, ProofsOf
    <2> QED
      BY <2>1, <2>2, NewRingIsOrdered DEF RingIsOrdered, SlotsHolding, SlotAge
  <1> QED
    BY <1>2, <1>4 DEF CycleInv, RepeatsFollowRejection

-----------------------------------------------------------------------------
\* Of all proofs of a user for a cycle there is a latest one, and the account is
\* right about it.
LEMMA LatestRepeatIsShown ==
  ASSUME Inv, CycleInv, NEW i \in DOMAIN submissions
  PROVE  \E k \in DOMAIN submissions :
           /\ SameCycle(i, k)
           /\ i <= k
           /\ ProgressShows(k)
  <1> DEFINE n == quest.next_submission_index
             S == {j \in DOMAIN submissions : SameCycle(i, j)}
  <1>1. n \in Nat /\ DOMAIN submissions = 0 .. n - 1
    BY FieldTypes DEF Inv, TypeOK
  <1>2. S \in SUBSET (0 .. n) /\ i \in S
    BY <1>1 DEF SameCycle
  <1>3. Max(S) \in S /\ \A j \in S : j <= Max(S)
    <2> HIDE DEF S, n
    <2> QED
      BY <1>1, <1>2, GreatestExists
  <1> DEFINE k == Max(S)
  <1>4. k \in DOMAIN submissions /\ SameCycle(i, k) /\ i <= k
    BY <1>2, <1>3
  <1>5. \A j \in DOMAIN submissions : SameCycle(k, j) => j <= k
    <2>1. \A j \in DOMAIN submissions : SameCycle(k, j) => SameCycle(i, j)
      BY <1>4 DEF SameCycle
    <2> QED
      BY <1>3, <2>1
  <1> HIDE DEF k, S, n
  <1>6. ProgressShows(k)
    BY <1>4, <1>5 DEF CycleInv
  <1> QED
    BY <1>4, <1>6

\* Whom submit_proof lets in has no proof for this cycle that was not rejected.
LEMMA CycleIsFree ==
  ASSUME Inv, CycleInv, NEW u \in Submitters, quest.status # "Absent", MaySubmit(u),
         NEW i \in ProofsOf(u), submissions[i].cycle_index = CurrentCycle
  PROVE  submissions[i].status = "Rejected"
  <1> DEFINE p == progress[u]
  <1>1. /\ CurrentCycle \in Nat
        /\ p \in ProgressType /\ p.last_submitted_cycle \in Nat
        /\ i \in DOMAIN submissions /\ submissions[i].submitter = u
    BY CurrentCycleType DEF Inv, TypeOK, ProgressType, ProofsOf
  <1>2. PICK k \in DOMAIN submissions :
          SameCycle(i, k) /\ i <= k /\ ProgressShows(k)
    BY <1>1, LatestRepeatIsShown
  <1>3. /\ submissions[k].submitter = u /\ submissions[k].cycle_index = CurrentCycle
        /\ k \in ProofsOf(u)
    BY <1>1, <1>2 DEF SameCycle, ProofsOf
  <1>4. submissions[k].status \in {"Pending", "Approved", "Rejected"}
    BY DEF Inv, TypeOK, SubmissionType
  <1>5. submissions[k].status = "Rejected"
    <2>1. CASE quest.mode = "OneTime"
      BY <1>2, <1>3, <1>4, <2>1 DEF MaySubmit, ProgressShows
    <2>2. CASE quest.mode # "OneTime"
      <3>1. p.last_submitted_cycle = CurrentCycle
        BY <1>1, <1>3 DEF CycleInv, CyclesGoUp
      <3>2. ~OutOfWindow(CurrentCycle, CurrentCycle)
        BY <1>1, WindowAssumption DEF OutOfWindow
      <3>3. IsRemembered(p, CurrentCycle)
        BY <1>1, <3>1, <3>2 DEF IsRemembered
      <3>4. cycle_state(p, CurrentCycle) = EMPTY
        BY <1>1, <2>2, <3>2, PruneKeepsRecent DEF MaySubmit
      <3>5. StateOf(submissions[k].status) = EMPTY
        BY <1>2, <1>3, <2>2, <3>3, <3>4 DEF ProgressShows
      <3> QED
        BY <1>4, <3>5 DEF StateOf, EMPTY, PENDING, APPROVED
    <2> QED
      BY <2>1, <2>2
  <1>6. CASE i = k
    BY <1>5, <1>6
  <1>7. CASE i # k
    <2>1. i < k
      BY <1>1, <1>2, <1>7 DEF Inv, TypeOK
    <2> QED
      BY <1>1, <1>2, <2>1 DEF CycleInv, RepeatsFollowRejection
  <1> QED
    BY <1>6, <1>7

\* submit_proof starts the latest cycle or repeats it after a rejection, and the
\* account shows the new proof as pending.
LEMMA SubmitKeepsCycles ==
  ASSUME Inv, CycleInv, NEW u \in Submitters, SubmitProof(u)
  PROVE  CycleInv'
  <1> DEFINE index == quest.next_submission_index
             C     == CurrentCycle
             p     == progress[u]
             w     == progress'[u]
  <1>1. /\ quest \in QuestType /\ index \in Nat
        /\ DOMAIN submissions = 0 .. index - 1
        /\ submissions \in [0 .. index - 1 -> SubmissionType]
        /\ p \in ProgressType /\ p.last_submitted_cycle \in Nat
        /\ progress \in [Submitters -> ProgressType]
    BY FieldTypes DEF Inv, TypeOK, ProgressType
  <1>2. /\ quest.status = "Open" /\ MaySubmit(u)
        /\ progress' = [progress EXCEPT ![u] = RecordSubmit(p)]
        /\ submissions' = [i \in 0 .. index |->
                            IF i = index THEN NewSubmission(u) ELSE submissions[i]]
        /\ UNCHANGED now
    BY DEF SubmitProof
  <1>3. /\ quest'.status = "Open" /\ quest'.mode = quest.mode
        /\ quest'.start_at = quest.start_at
        /\ quest'.period_seconds = quest.period_seconds
    BY <1>1, <1>2 DEF SubmitProof, QuestType
  <1>4. C \in Nat /\ CurrentCycle' = C
    BY <1>2, <1>3, CurrentCycleType DEF CurrentCycle
  <1>5. /\ DOMAIN submissions' = 0 .. index
        /\ submissions'[index].submitter = u
        /\ submissions'[index].cycle_index = C
        /\ submissions'[index].status = "Pending"
        /\ \A j \in 0 .. index - 1 : submissions'[j] = submissions[j]
    BY <1>1, <1>2 DEF NewSubmission
  <1>6. /\ w = RecordSubmit(p)
        /\ \A v \in Submitters : v # u => progress'[v] = progress[v]
    BY <1>1, <1>2
  <1>7. CyclesGoUp(u) /\ RingIsOrdered(p) /\ p.last_submitted_cycle <= C
    BY <1>2 DEF CycleInv, CyclesGoUp
  <1>8. \A i \in DOMAIN submissions :
          /\ submissions[i].cycle_index \in Nat
          /\ submissions[i].submitter \in Submitters
          /\ submissions[i].submitter = u =>
               submissions[i].cycle_index <= p.last_submitted_cycle
    BY <1>1, <1>7 DEF SubmissionType, CyclesGoUp, ProofsOf
  <1>9. /\ RingIsOrdered(w) /\ w.last_submitted_cycle = C
        /\ quest.mode = "OneTime" =>
             C = 0 /\ w.pending_one_time = TRUE /\ w.one_time_completed = FALSE
        /\ quest.mode # "OneTime" =>
             /\ cycle_state(w, C) = PENDING
             /\ \A other \in Nat :
                  /\ other # C
                  /\ other <= p.last_submitted_cycle
                  /\ IsRemembered(w, other)
                  => /\ IsRemembered(p, other)
                     /\ cycle_state(w, other) = cycle_state(p, other)
    <2>1. CASE quest.mode = "OneTime"
      <3>1. C = 0 /\ p.last_submitted_cycle = 0
        BY <1>1, <1>4, <1>7, <2>1 DEF CurrentCycle
      <3>2. /\ w.pending_one_time = TRUE
            /\ w.one_time_completed = p.one_time_completed
            /\ w.last_submitted_cycle = 0
            /\ w.recent_cycles = p.recent_cycles
            /\ w.recent_cycle_cursor = p.recent_cycle_cursor
        BY <1>1, <1>6, <2>1 DEF RecordSubmit, ProgressType
      <3>3. w.one_time_completed = FALSE
        BY <1>1, <1>2, <2>1, <3>2 DEF MaySubmit, ProgressType
      <3>4. \A s : SlotAge(w, s) = SlotAge(p, s)
        BY <3>2 DEF SlotAge
      <3>5. RingIsOrdered(w)
        BY <1>7, <3>1, <3>2, <3>4 DEF RingIsOrdered, SlotsHolding
      <3> QED
        BY <2>1, <3>1, <3>2, <3>3, <3>5
    <2>2. CASE quest.mode # "OneTime"
      <3>1. w = [set_cycle_state(prune_old_cycles(p, C), C, PENDING)
                   EXCEPT !.last_submitted_cycle = C]
        BY <1>6, <2>2 DEF RecordSubmit
      <3> HIDE DEF C, w, p
      <3> QED
        BY <1>1, <1>4, <1>7, <2>2, <3>1, SubmitKeepsWindow
    <2> QED
      BY <2>1, <2>2
  <1>10. \A i \in DOMAIN submissions :
           submissions[i].submitter = u /\ submissions[i].cycle_index = C =>
             submissions[i].status = "Rejected"
    BY <1>2, CycleIsFree DEF ProofsOf
  <1> HIDE DEF index, C, p, w
  <1>11. ASSUME NEW i \in 0 .. index, NEW j \in 0 .. index, i < j, SameCycle(i, j)'
         PROVE  submissions'[i].status = "Rejected"
    <2>1. i \in 0 .. index - 1 /\ submissions'[i] = submissions[i]
      BY <1>1, <1>5, <1>11
    <2>2. CASE j = index
      BY <1>1, <1>5, <1>10, <1>11, <2>1, <2>2 DEF SameCycle
    <2>3. CASE j # index
      <3>1. j \in 0 .. index - 1 /\ submissions'[j] = submissions[j]
        BY <1>1, <1>5, <2>3
      <3>2. SameCycle(i, j)
        BY <1>11, <2>1, <3>1 DEF SameCycle
      <3> QED
        BY <1>1, <1>11, <2>1, <3>1, <3>2 DEF CycleInv, RepeatsFollowRejection
    <2> QED
      BY <2>2, <2>3
  <1>12. ASSUME NEW v \in Submitters
         PROVE  CyclesGoUp(v)' /\ RingIsOrdered(progress'[v])
    <2>1. CASE v = u
      <3>1. progress'[v].last_submitted_cycle = C
        BY <1>9, <2>1 DEF w
      <3>2. ASSUME NEW i \in 0 .. index, submissions'[i].submitter = v
            PROVE  submissions'[i].cycle_index <= C
        <4>1. CASE i = index
          BY <1>4, <1>5, <4>1
        <4>2. CASE i # index
          <5>1. i \in 0 .. index - 1 /\ submissions'[i] = submissions[i]
            BY <1>1, <1>5, <4>2
          <5> QED
            BY <1>1, <1>4, <1>7, <1>8, <2>1, <3>2, <5>1
        <4> QED
          BY <4>1, <4>2
      <3>3. ASSUME NEW i \in 0 .. index, submissions'[i].submitter = v,
                   \A j \in 0 .. index : submissions'[j].submitter = v => j <= i
            PROVE  submissions'[i].cycle_index = C
        <4>1. index <= i
          BY <1>1, <1>5, <2>1, <3>3
        <4>2. i = index
          BY <1>1, <4>1
        <4> QED
          BY <1>5, <4>2
      <3> QED
        BY <1>4, <1>5, <1>9, <2>1, <3>1, <3>2, <3>3 DEF CyclesGoUp, ProofsOf, w
    <2>2. CASE v # u
      <3>1. progress'[v] = progress[v] /\ CyclesGoUp(v) /\ RingIsOrdered(progress[v])
        BY <1>6, <2>2 DEF CycleInv
      <3>2. ProofsOf(v)' = ProofsOf(v) /\ \A i \in ProofsOf(v) : submissions'[i] = submissions[i]
        <4>1. \A i \in 0 .. index : i = index \/ i \in 0 .. index - 1
          BY <1>1
        <4>2. \A i \in 0 .. index - 1 : i \in 0 .. index
          BY <1>1
        <4> QED
          BY <1>1, <1>5, <2>2, <4>1, <4>2 DEF ProofsOf
      <3>3. CyclesGoUp(v)'
        BY <1>2, <1>4, <3>1, <3>2 DEF CyclesGoUp, C
      <3> QED
        BY <3>1, <3>3
    <2> QED
      BY <2>1, <2>2
  <1>13. ASSUME NEW i \in 0 .. index,
                \A j \in 0 .. index : SameCycle(i, j)' => j <= i
         PROVE  ProgressShows(i)'
    <2>1. CASE i = index
      <3>1. progress'[submissions'[i].submitter] = w
        BY <1>5, <2>1 DEF w
      <3> QED
        BY <1>3, <1>5, <1>9, <2>1, <3>1 DEF ProgressShows, StateOf
    <2>2. CASE i # index
      <3>1. i \in 0 .. index - 1 /\ submissions'[i] = submissions[i]
        BY <1>1, <1>5, <2>2
      <3>2. ASSUME NEW j \in DOMAIN submissions, SameCycle(i, j)
            PROVE  j <= i
        <4>1. j \in 0 .. index /\ submissions'[j] = submissions[j]
          BY <1>1, <1>5
        <4>2. SameCycle(i, j)'
          BY <3>1, <3>2, <4>1 DEF SameCycle
        <4> QED
          BY <1>13, <4>1, <4>2
      <3>3. ProgressShows(i)
        BY <1>1, <3>1, <3>2 DEF CycleInv
      <3>4. CASE submissions[i].submitter # u
        <4>1. progress'[submissions[i].submitter] = progress[submissions[i].submitter]
          BY <1>1, <1>6, <1>8, <3>1, <3>4
        <4> QED
          BY <1>3, <3>1, <3>3, <4>1 DEF ProgressShows
      <3>5. CASE submissions[i].submitter = u
        <4>1. submissions[i].cycle_index # C
          <5>1. index \in 0 .. index /\ ~(index <= i)
            BY <1>1, <3>1
          <5> QED
            BY <1>5, <1>13, <3>1, <3>5, <5>1 DEF SameCycle
        <4>2. /\ submissions[i].cycle_index \in Nat
              /\ submissions[i].cycle_index <= p.last_submitted_cycle
          BY <1>1, <1>8, <3>1, <3>5
        <4>3. quest.mode # "OneTime"
          BY <1>1, <1>7, <1>9, <4>1, <4>2
        <4>4. IsRemembered(w, submissions[i].cycle_index) =>
                cycle_state(w, submissions[i].cycle_index)
                  = StateOf(submissions[i].status)
          BY <1>9, <3>3, <3>5, <4>1, <4>2, <4>3 DEF ProgressShows, p
        <4>5. progress'[submissions'[i].submitter] = w
          BY <3>1, <3>5 DEF w
        <4> QED
          BY <1>3, <3>1, <4>3, <4>4, <4>5 DEF ProgressShows
      <3> QED
        BY <3>4, <3>5
    <2> QED
      BY <2>1, <2>2
  <1>14. RepeatsFollowRejection'
    BY <1>5, <1>11 DEF RepeatsFollowRejection
  <1>15. \A v \in Submitters : CyclesGoUp(v)' /\ RingIsOrdered(progress[v])'
    BY <1>12 DEF RingIsOrdered, SlotsHolding, SlotAge
  <1> QED
    BY <1>3, <1>5, <1>13, <1>14, <1>15 DEF CycleInv

-----------------------------------------------------------------------------
\* What a review writes to the account of the submission's user.
Reviewed(p, w, cycle, status) ==
  IF quest.mode = "OneTime"
  THEN /\ w.pending_one_time = FALSE
       /\ w.one_time_completed = (status = "Approved" \/ p.one_time_completed)
       /\ w.last_submitted_cycle = p.last_submitted_cycle
       /\ w.recent_cycles = p.recent_cycles
       /\ w.recent_cycle_cursor = p.recent_cycle_cursor
  ELSE LET v == set_cycle_state_in_window(p, cycle, StateOf(status),
                                          WindowAnchor(p, cycle))
       IN  /\ w.last_submitted_cycle = v.last_submitted_cycle
           /\ w.recent_cycles = v.recent_cycles
           /\ w.recent_cycle_states = v.recent_cycle_states
           /\ w.recent_cycle_cursor = v.recent_cycle_cursor

\* A decision about the head of the queue, accepted or not, paid by hand or on a
\* statement: however late it comes, it is the decision about its own cycle and
\* changes what the account says of no other one that is remembered.
LEMMA DecisionKeepsCycles ==
  ASSUME Inv, CycleInv, quest.status # "Absent",
         NEW i \in DOMAIN submissions, NextInLine(i),
         NEW status \in {"Approved", "Rejected"},
         NEW w,
         Reviewed(progress[submissions[i].submitter], w,
                  submissions[i].cycle_index, status),
         progress' = [progress EXCEPT ![submissions[i].submitter] = w],
         DOMAIN submissions' = DOMAIN submissions,
         submissions'[i].submitter = submissions[i].submitter,
         submissions'[i].cycle_index = submissions[i].cycle_index,
         submissions'[i].status = status,
         \A j \in DOMAIN submissions : j # i => submissions'[j] = submissions[j],
         UNCHANGED now, quest'.mode = quest.mode, quest'.start_at = quest.start_at,
         quest'.period_seconds = quest.period_seconds, quest'.status # "Absent"
  PROVE  CycleInv'
  <1> DEFINE u == submissions[i].submitter
             c == submissions[i].cycle_index
             p == progress[u]
  <1>1. /\ submissions[i].status = "Pending"
        /\ u \in Submitters /\ c \in Nat
        /\ p \in ProgressType /\ p.last_submitted_cycle \in Nat
        /\ progress \in [Submitters -> ProgressType]
        /\ DOMAIN submissions \subseteq Nat
        /\ \A j \in DOMAIN submissions :
             submissions[j].submitter \in Submitters /\ submissions[j].cycle_index \in Nat
    BY FieldTypes DEF NextInLine, Inv, TypeOK, SubmissionType, ProgressType
  <1>2. /\ progress'[u] = w
        /\ \A v \in Submitters : v # u => progress'[v] = progress[v]
    BY <1>1
  <1>3. CyclesGoUp(u) /\ RingIsOrdered(p) /\ i \in ProofsOf(u)
    BY <1>1 DEF CycleInv, ProofsOf
  <1>4. \A j \in DOMAIN submissions :
          submissions[j].submitter = u =>
            submissions[j].cycle_index <= p.last_submitted_cycle
    BY <1>3 DEF CyclesGoUp, ProofsOf
  <1>5. \A j \in DOMAIN submissions : SameCycle(i, j) => j <= i
    <2>1. ASSUME NEW j \in DOMAIN submissions, SameCycle(i, j), i < j
          PROVE  FALSE
      BY <1>1, <2>1 DEF CycleInv, RepeatsFollowRejection
    <2> QED
      BY <1>1, <2>1
  <1>6. ProgressShows(i)
    BY <1>5 DEF CycleInv
  <1>7. /\ RingIsOrdered(w)
        /\ w.last_submitted_cycle = p.last_submitted_cycle
        /\ quest.mode = "OneTime" =>
             /\ w.pending_one_time = FALSE
             /\ w.one_time_completed <=> status = "Approved"
        /\ quest.mode # "OneTime" =>
             /\ IsRemembered(w, c) => cycle_state(w, c) = StateOf(status)
             /\ \A other \in Nat :
                  other # c /\ IsRemembered(w, other) =>
                    /\ IsRemembered(p, other)
                    /\ cycle_state(w, other) = cycle_state(p, other)
    <2>1. CASE quest.mode = "OneTime"
      <3>1. p.one_time_completed = FALSE
        BY <1>1, <1>6, <2>1 DEF ProgressShows, ProgressType
      <3>2. \A s : SlotAge(w, s) = SlotAge(p, s)
        BY <2>1 DEF Reviewed, SlotAge
      <3>3. RingIsOrdered(w)
        BY <1>3, <2>1, <3>2 DEF Reviewed, RingIsOrdered, SlotsHolding
      <3> QED
        BY <2>1, <3>1, <3>3 DEF Reviewed
    <2>2. CASE quest.mode # "OneTime"
      <3> DEFINE state == StateOf(status)
                 v == set_cycle_state_in_window(p, c, state, WindowAnchor(p, c))
      <3>1. state \in CycleStates
        BY DEF StateOf, CycleStates, EMPTY, PENDING, APPROVED
      <3>2. IsRemembered(p, c) => cycle_state(p, c) = PENDING
        BY <1>1, <1>6, <2>2 DEF ProgressShows, StateOf
      <3>3. c <= p.last_submitted_cycle
        BY <1>4
      <3> HIDE DEF c, p, state
      <3>4. /\ RingIsOrdered(v)
            /\ v.last_submitted_cycle = p.last_submitted_cycle
            /\ IsRemembered(p, c) => cycle_state(v, c) = state
            /\ \A other \in Nat :
                 other # c /\ IsRemembered(p, other) =>
                   cycle_state(v, other) = cycle_state(p, other)
        BY <1>1, <1>3, <3>1, <3>2, <3>3, ReviewKeepsWindow
      <3>5. /\ w.last_submitted_cycle = v.last_submitted_cycle
            /\ w.recent_cycles = v.recent_cycles
            /\ w.recent_cycle_states = v.recent_cycle_states
            /\ w.recent_cycle_cursor = v.recent_cycle_cursor
        BY <2>2 DEF Reviewed, c, p, state
      <3> HIDE DEF v
      <3>6. \A other : /\ cycle_state(w, other) = cycle_state(v, other)
                       /\ SlotsHolding(w, other) = SlotsHolding(v, other)
        BY <3>5, SameArrays
      <3>7. \A other : IsRemembered(w, other) <=> IsRemembered(p, other)
        BY <3>4, <3>5 DEF IsRemembered
      <3>8. \A s : SlotAge(w, s) = SlotAge(v, s)
        BY <3>5 DEF SlotAge
      <3>9. RingIsOrdered(w)
        BY <3>4, <3>5, <3>6, <3>8 DEF RingIsOrdered
      <3> QED
        BY <1>1, <2>2, <3>4, <3>5, <3>6, <3>7, <3>9 DEF state
    <2> QED
      BY <2>1, <2>2
  <1>8. \A j \in DOMAIN submissions :
          /\ submissions'[j].submitter = submissions[j].submitter
          /\ submissions'[j].cycle_index = submissions[j].cycle_index
    OBVIOUS
  <1>9. \A j, k \in DOMAIN submissions : SameCycle(j, k)' <=> SameCycle(j, k)
    BY <1>8 DEF SameCycle
  <1>10. RepeatsFollowRejection'
    <2>1. ASSUME NEW j \in DOMAIN submissions, NEW k \in DOMAIN submissions,
                 j < k, SameCycle(j, k)
          PROVE  submissions'[j].status = "Rejected"
      <3>1. j # i
        BY <1>1, <1>5, <2>1
      <3> QED
        BY <2>1, <3>1 DEF CycleInv, RepeatsFollowRejection
    <2> QED
      BY <1>9, <2>1 DEF RepeatsFollowRejection
  <1>11. ASSUME NEW v \in Submitters
         PROVE  CyclesGoUp(v)' /\ RingIsOrdered(progress'[v])
    <2>1. /\ progress'[v].last_submitted_cycle = progress[v].last_submitted_cycle
          /\ RingIsOrdered(progress'[v])
      BY <1>2, <1>7 DEF CycleInv
    <2>2. CurrentCycle' = CurrentCycle
      BY DEF CurrentCycle
    <2>3. ProofsOf(v)' = ProofsOf(v)
      BY <1>8 DEF ProofsOf
    <2>4. CyclesGoUp(v)
      BY DEF CycleInv
    <2>5. CyclesGoUp(v)'
      BY <1>8, <2>1, <2>2, <2>3, <2>4 DEF CyclesGoUp, ProofsOf
    <2> QED
      BY <2>1, <2>5
  <1>12. ASSUME NEW k \in DOMAIN submissions,
                \A j \in DOMAIN submissions : SameCycle(k, j) => j <= k
         PROVE  ProgressShows(k)'
    <2>1. ProgressShows(k)
      BY <1>12 DEF CycleInv
    <2>2. CASE k = i
      <3>1. progress'[submissions'[k].submitter] = w
        BY <1>2, <2>2
      <3> QED
        BY <1>7, <2>2, <3>1 DEF ProgressShows
    <2>3. CASE k # i /\ submissions[k].submitter # u
      <3>1. progress'[submissions[k].submitter] = progress[submissions[k].submitter]
        BY <1>1, <1>2, <2>3
      <3> QED
        BY <2>1, <2>3, <3>1 DEF ProgressShows
    <2>4. CASE k # i /\ submissions[k].submitter = u
      <3>1. submissions[k].cycle_index # c
        <4>1. SUFFICES ASSUME submissions[k].cycle_index = c
                       PROVE  FALSE
          OBVIOUS
        <4>2. SameCycle(i, k) /\ SameCycle(k, i)
          BY <2>4, <4>1 DEF SameCycle
        <4>3. i <= k /\ k <= i
          BY <1>5, <1>12, <4>2
        <4> QED
          BY <1>1, <2>4, <4>3
      <3>2. quest.mode # "OneTime"
        <4>1. SUFFICES ASSUME quest.mode = "OneTime"
                       PROVE  FALSE
          OBVIOUS
        <4>2. p.last_submitted_cycle <= 0
          BY <1>3, <4>1 DEF CyclesGoUp, CurrentCycle
        <4>3. c <= p.last_submitted_cycle
              /\ submissions[k].cycle_index <= p.last_submitted_cycle
          BY <1>4, <2>4
        <4>4. c \in Nat /\ submissions[k].cycle_index \in Nat
              /\ p.last_submitted_cycle \in Nat
          BY <1>1
        <4> HIDE DEF c, p
        <4> QED
          BY <3>1, <4>2, <4>3, <4>4
      <3>3. progress'[submissions'[k].submitter] = w /\ submissions'[k] = submissions[k]
        BY <1>2, <2>4
      <3>4. IsRemembered(w, submissions[k].cycle_index) =>
              cycle_state(w, submissions[k].cycle_index)
                = StateOf(submissions[k].status)
        BY <1>1, <1>7, <2>1, <2>4, <3>1, <3>2 DEF ProgressShows
      <3> QED
        BY <3>2, <3>3, <3>4 DEF ProgressShows
    <2> QED
      BY <2>2, <2>3, <2>4
  <1>13. \A v \in Submitters : CyclesGoUp(v)' /\ RingIsOrdered(progress[v])'
    BY <1>11 DEF RingIsOrdered, SlotsHolding, SlotAge
  <1> QED
    BY <1>9, <1>10, <1>12, <1>13 DEF CycleInv

\* What the two handlers write to a progress account is such a decision.
LEMMA RecordsReview ==
  ASSUME NEW p \in ProgressType, NEW cycle \in Nat
  PROVE  /\ Reviewed(p, RecordApproval(p, cycle), cycle, "Approved")
         /\ Reviewed(p, RecordRejection(p, cycle), cycle, "Rejected")
  <1> DEFINE a == set_cycle_state_in_window(p, cycle, APPROVED, WindowAnchor(p, cycle))
             e == set_cycle_state_in_window(p, cycle, EMPTY, WindowAnchor(p, cycle))
  <1>1. a \in ProgressType /\ e \in ProgressType
    BY SetInWindowType DEF APPROVED, EMPTY, CycleStates
  <1>2. StateOf("Approved") = APPROVED /\ StateOf("Rejected") = EMPTY
    BY DEF StateOf
  <1> HIDE DEF a, e
  <1>3. CASE quest.mode = "OneTime"
    BY <1>3 DEF Reviewed, RecordApproval, RecordRejection, ProgressType
  <1>4. CASE quest.mode # "OneTime"
    <2>1. /\ RecordApproval(p, cycle) = [a EXCEPT !.total_approved = @ + 1]
          /\ RecordRejection(p, cycle) = e
      BY <1>4 DEF RecordApproval, RecordRejection, a, e
    <2> QED
      BY <1>1, <1>2, <1>4, <2>1 DEF Reviewed, ProgressType, a, e
  <1> QED
    BY <1>3, <1>4

\* An approval, manual or automatic.
LEMMA ApprovalKeepsCycles ==
  ASSUME Inv, CycleInv, NEW i \in DOMAIN submissions, ApproveAndPay(i)
  PROVE  CycleInv'
  <1> DEFINE u == submissions[i].submitter
             c == submissions[i].cycle_index
             w == RecordApproval(progress[u], c)
  <1>1. NextInLine(i) /\ quest.status \in {"Open", "Closing"} /\ UNCHANGED now
    BY DEF ApproveAndPay
  <1>2. /\ quest \in QuestType
        /\ progress[u] \in ProgressType /\ c \in Nat
    BY HeadFacts, <1>1 DEF Inv, TypeOK, SubmissionType
  <1>3. progress' = [progress EXCEPT ![u] = w]
    BY DEF ApproveAndPay
  <1>4. Reviewed(progress[u], w, c, "Approved")
    BY <1>2, RecordsReview
  <1>5. /\ submissions'[i].status = "Approved"
        /\ DOMAIN submissions' = DOMAIN submissions
        /\ \A j \in DOMAIN submissions : j # i => submissions'[j] = submissions[j]
    BY ApprovalTypes
  <1>6. submissions'[i].submitter = u /\ submissions'[i].cycle_index = c
    BY ApprovalFacts DEF SameClaims
  <1>7. /\ quest'.mode = quest.mode
        /\ quest'.start_at = quest.start_at
        /\ quest'.period_seconds = quest.period_seconds
        /\ quest'.status \in {"Open", "Closing"}
    <2>1. quest' = CountApproval(quest) \/ quest' = CountApproval(StopForDepletion(quest))
      BY DEF ApproveAndPay, FromRewardPool, FromDepositPool
    <2>2. PICK q \in QuestType :
            /\ quest' = CountApproval(q)
            /\ q.mode = quest.mode
            /\ q.start_at = quest.start_at
            /\ q.period_seconds = quest.period_seconds
            /\ q.status \in {"Open", "Closing"}
      <3> DEFINE s == StopForDepletion(quest)
      <3>1. /\ s \in QuestType
            /\ s.mode = quest.mode
            /\ s.start_at = quest.start_at
            /\ s.period_seconds = quest.period_seconds
            /\ s.status = "Closing"
        BY <1>1, <1>2, StopFacts DEF Inv, TypeOK
      <3> HIDE DEF s
      <3>2. quest' = CountApproval(quest) \/ quest' = CountApproval(s)
        BY <2>1 DEF s
      <3> QED
        BY <1>1, <1>2, <3>1, <3>2
    <2> QED
      BY <2>2 DEF CountApproval, QuestType
  <1>8. quest.status # "Absent" /\ quest'.status # "Absent"
    BY <1>1, <1>7
  <1> HIDE DEF w
  <1> QED
    BY <1>1, <1>3, <1>4, <1>5, <1>6, <1>7, <1>8, DecisionKeepsCycles

\* A rejection.
LEMMA RejectionKeepsCycles ==
  ASSUME Inv, CycleInv, NEW signer \in Users, NEW i \in DOMAIN submissions,
         RejectSubmission(signer, i)
  PROVE  CycleInv'
  <1> DEFINE u == submissions[i].submitter
             c == submissions[i].cycle_index
             w == RecordRejection(progress[u], c)
  <1>1. NextInLine(i) /\ UNCHANGED now
    BY DEF RejectSubmission
  <1>2. quest.status # "Absent"
    <2>1. quest.status = "Absent" => DOMAIN submissions = {}
      BY BlankQuest
    <2> QED
      BY <2>1
  <1>3. /\ quest \in QuestType
        /\ progress[u] \in ProgressType /\ c \in Nat
        /\ submissions[i] \in SubmissionType
        /\ submissions \in [DOMAIN submissions -> SubmissionType]
    BY HeadFacts, <1>1 DEF Inv, TypeOK, SubmissionType
  <1>4. progress' = [progress EXCEPT ![u] = w]
    BY DEF RejectSubmission
  <1>5. Reviewed(progress[u], w, c, "Rejected")
    BY <1>3, RecordsReview
  <1>6. submissions' = [submissions EXCEPT ![i] = [@ EXCEPT !.status = "Rejected"]]
    BY DEF RejectSubmission
  <1>7. /\ DOMAIN submissions' = DOMAIN submissions
        /\ submissions'[i] = [submissions[i] EXCEPT !.status = "Rejected"]
        /\ \A j \in DOMAIN submissions : j # i => submissions'[j] = submissions[j]
    BY <1>3, <1>6
  <1>8. /\ submissions'[i].status = "Rejected"
        /\ submissions'[i].submitter = u
        /\ submissions'[i].cycle_index = c
    BY <1>3, <1>7 DEF SubmissionType
  <1>9. /\ quest'.mode = quest.mode
        /\ quest'.start_at = quest.start_at
        /\ quest'.period_seconds = quest.period_seconds
        /\ quest'.status = quest.status
    BY <1>3 DEF RejectSubmission, QuestType
  <1> HIDE DEF w
  <1> QED
    BY <1>1, <1>2, <1>4, <1>5, <1>7, <1>8, <1>9, DecisionKeepsCycles

\* Every step of the program keeps the invariant.
LEMMA NextKeepsCycles ==
  ASSUME Inv, CycleInv, [Next]_vars
  PROVE  CycleInv'
  <1>1. /\ now \in Nat /\ now' \in Nat /\ now <= now'
        /\ quest \in QuestType
    BY ClockGoesOn DEF Inv, TypeOK
  <1>2. CASE \E args \in CreateArgs : CreateQuest(args)
    BY <1>2, CreateKeepsCycles
  <1>3. CASE \E u \in Submitters : SubmitProof(u)
    BY <1>3, SubmitKeepsCycles
  <1>4. CASE \E signer \in Users, i \in DOMAIN submissions : ApproveSubmission(signer, i)
    BY <1>4, ApprovalKeepsCycles DEF ApproveSubmission
  <1>5. CASE \E signer \in Users, i \in DOMAIN submissions : RejectSubmission(signer, i)
    BY <1>5, RejectionKeepsCycles
  <1>6. CASE \/ \E signer \in Users, args \in FundArgs : FundQuest(signer, args)
             \/ \E signer \in Users : CloseQuest(signer)
             \/ SettleQuest
    <2> DEFINE closing == [quest EXCEPT
                            !.status = "Closing", !.close_requested_at = now,
                            !.closing_reason = IF now >= quest.expires_at
                                               THEN "Expired"
                                               ELSE "EarlyManual"]
    <2>1. /\ UNCHANGED <<submissions, progress>>
          /\ quest.status \in {"Open", "Closing"}
      BY <1>6 DEF FundQuest, FundingIsOpen, CloseQuest, SettleQuest
    <2>2. /\ quest'.mode = quest.mode
          /\ quest'.start_at = quest.start_at
          /\ quest'.period_seconds = quest.period_seconds
          /\ quest'.status \in {"Open", "Closing", "Closed"}
      <3>1. CASE \E signer \in Users, args \in FundArgs : FundQuest(signer, args)
        BY <1>1, <2>1, <3>1 DEF FundQuest, QuestType
      <3>2. CASE \E signer \in Users : CloseQuest(signer)
        <4>1. quest' = closing \/ quest' = [closing EXCEPT !.status = "Closed"]
          BY <3>2 DEF CloseQuest, SettlePools
        <4> QED
          BY <1>1, <4>1 DEF QuestType
      <3>3. CASE SettleQuest
        BY <1>1, <3>3 DEF SettleQuest, SettlePools, QuestType
      <3> QED
        BY <1>6, <3>1, <3>2, <3>3
    <2>3. quest.status # "Absent" /\ quest'.status # "Absent"
      BY <2>1, <2>2
    <2> QED
      BY <1>1, <2>1, <2>2, <2>3, QuietStepKeepsCycles
  <1>7. CASE \/ \E amount \in Transfers : SendToPool(amount)
             \/ Tick
             \/ UNCHANGED vars
    <2>1. UNCHANGED <<quest, submissions, progress>>
      BY <1>7, SendFacts DEF Tick, vars, accounts
    <2>2. CASE quest.status = "Absent"
      <3>1. DOMAIN submissions = {} /\ progress = [u \in Submitters |-> NewProgress]
        BY <2>2, BlankQuest DEF CycleInv
      <3>2. ASSUME NEW u \in Submitters
            PROVE  CyclesGoUp(u)' /\ RingIsOrdered(progress[u])'
        BY <2>1, <2>2, <3>1
        DEF CycleInv, CyclesGoUp, ProofsOf, RingIsOrdered, SlotsHolding, SlotAge
      <3> QED
        BY <2>1, <3>1, <3>2 DEF CycleInv, RepeatsFollowRejection
    <2>3. CASE quest.status # "Absent"
      BY <1>1, <2>1, <2>3, QuietStepKeepsCycles
    <2> QED
      BY <2>2, <2>3
  <1> QED
    BY <1>2, <1>3, <1>4, <1>5, <1>6, <1>7 DEF Next

\* It holds before anybody sends anything.
LEMMA InitHasCycles == Init => CycleInv
  <1> SUFFICES ASSUME Init
               PROVE  CycleInv
    OBVIOUS
  <1> QED
    BY NothingSentYet DEF Init, NoQuest

-----------------------------------------------------------------------------
(***************************************************************************)
(* The theorems                                                            *)
(***************************************************************************)

\* The windows of all users are in order, and what each account says of its user's
\* proofs is true, in every state.
THEOREM CycleInvariance == Spec => []CycleInv
  <1>1. Init => CycleInv
    BY InitHasCycles
  <1>2. Inv /\ CycleInv /\ [Next]_vars => CycleInv'
    BY NextKeepsCycles
  <1> QED
    BY <1>1, <1>2, Invariance, PTL DEF Spec

\* Of two proofs of a user for one cycle the earlier one was rejected.
LEMMA OneOfTwoIsRejected ==
  ASSUME Inv, CycleInv
  PROVE  OneProofPerCycle
  <1>1. ASSUME NEW i \in DOMAIN submissions, NEW j \in DOMAIN submissions,
               i # j, SameCycle(i, j)
        PROVE  "Rejected" \in {submissions[i].status, submissions[j].status}
    <2>1. i \in Int /\ j \in Int
      BY FieldTypes DEF Inv, TypeOK
    <2>2. SameCycle(j, i)
      BY <1>1 DEF SameCycle
    <2>3. i < j \/ j < i
      BY <1>1, <2>1
    <2> QED
      BY <1>1, <2>2, <2>3 DEF CycleInv, RepeatsFollowRejection
  <1> QED
    BY <1>1 DEF OneProofPerCycle, SameCycle

\* One cycle, and a OneTime quest as a whole, accepts at most one proof of a user,
\* however small the window is and however late proofs are reviewed.
THEOREM OneAcceptedPerCycle == Spec => []OneProofPerCycle
  <1>1. Inv /\ CycleInv => OneProofPerCycle
    BY OneOfTwoIsRejected
  <1> QED
    BY <1>1, Invariance, CycleInvariance, PTL

\* So it is when submissions are accepted on a verifier's statements.
THEOREM AutoOneAcceptedPerCycle == AutoSpec => []OneProofPerCycle
  <1>1. AutoInit => CycleInv
    BY InitHasCycles DEF AutoInit
  <1>2. AutoInv /\ CycleInv /\ [AutoNext]_autoVars => CycleInv'
    <2> SUFFICES ASSUME AutoInv, CycleInv, [AutoNext]_autoVars PROVE CycleInv'
      OBVIOUS
    <2>1. Inv
      BY DEF AutoInv
    <2>2. CASE [Next]_vars
      BY <2>1, <2>2, NextKeepsCycles
    <2>3. CASE \E r \in signed, i \in DOMAIN submissions : AutoApproveSubmission(r, i)
      BY <2>1, <2>3, ApprovalKeepsCycles DEF AutoApproveSubmission
    <2>4. \/ [Next]_vars
          \/ \E r \in signed, i \in DOMAIN submissions : AutoApproveSubmission(r, i)
      BY DEF AutoNext, Sign, autoVars, vars
    <2> QED
      BY <2>2, <2>3, <2>4
  <1>3. AutoInv /\ CycleInv => OneProofPerCycle
    BY OneOfTwoIsRejected DEF AutoInv
  <1> QED
    BY <1>1, <1>2, <1>3, AutoInvariance, PTL DEF AutoSpec

\* The account is right about the latest proof, which is of the latest cycle.
LEMMA LatestIsShown ==
  ASSUME Inv, CycleInv
  PROVE  ProgressShowsLatestProof
  <1>1. ASSUME NEW u \in Submitters, ProofsOf(u) # {}
        PROVE  LET latest == submissions[Max(ProofsOf(u))]
                   p      == progress[u]
               IN  IF quest.mode = "OneTime"
                   THEN /\ p.pending_one_time <=> latest.status = "Pending"
                        /\ p.one_time_completed <=> latest.status = "Approved"
                   ELSE /\ p.last_submitted_cycle = latest.cycle_index
                        /\ cycle_state(p, latest.cycle_index) = StateOf(latest.status)
    <2> DEFINE n == quest.next_submission_index
               p == progress[u]
               m == Max(ProofsOf(u))
    <2>1. n \in Nat /\ ProofsOf(u) \in SUBSET (0 .. n)
      BY FieldTypes DEF Inv, TypeOK, ProofsOf
    <2>2. m \in ProofsOf(u) /\ \A j \in ProofsOf(u) : j <= m
      <3> HIDE DEF n
      <3> QED
        BY <1>1, <2>1, GreatestExists
    <2> HIDE DEF m
    <2>3. m \in DOMAIN submissions /\ submissions[m].submitter = u
      BY <2>2 DEF ProofsOf
    <2>4. ProgressShows(m)
      <3>1. \A j \in DOMAIN submissions : SameCycle(m, j) => j <= m
        BY <2>2, <2>3 DEF SameCycle, ProofsOf
      <3> QED
        BY <2>3, <3>1 DEF CycleInv
    <2>5. submissions[m].cycle_index = p.last_submitted_cycle
      BY <2>2 DEF CycleInv, CyclesGoUp
    <2>6. IsRemembered(p, p.last_submitted_cycle)
      <3>1. p.last_submitted_cycle \in Nat
        BY DEF Inv, TypeOK, ProgressType
      <3> QED
        BY <3>1, WindowAssumption DEF IsRemembered, OutOfWindow
    <2> QED
      BY <2>3, <2>4, <2>5, <2>6 DEF ProgressShows, m
  <1> QED
    BY <1>1 DEF ProgressShowsLatestProof, ProofsOf

\* The program's memory of a user's latest proof is true in every state.
THEOREM LatestProofIsShown == Spec => []ProgressShowsLatestProof
  <1>1. Inv /\ CycleInv => ProgressShowsLatestProof
    BY LatestIsShown
  <1> QED
    BY <1>1, Invariance, CycleInvariance, PTL

\* From the second cycle on it is right about every cycle in the window.
LEMMA LaterCyclesAreShown ==
  ASSUME Inv, CycleInv
  PROVE  WindowShowsLaterCycles
  <1>1. ASSUME NEW i \in DOMAIN submissions, submissions[i].cycle_index > 0
        PROVE  CycleIsShown(i)
    <2> DEFINE n == quest.next_submission_index
               p == progress[submissions[i].submitter]
               c == submissions[i].cycle_index
               repeat == {j \in DOMAIN submissions :
                           /\ submissions[j].submitter = submissions[i].submitter
                           /\ submissions[j].cycle_index = c}
    <2>1. n \in Nat /\ repeat \in SUBSET (0 .. n) /\ i \in repeat
      BY FieldTypes DEF Inv, TypeOK
    <2>2. \A j \in repeat : j <= Max(repeat)
      <3> HIDE DEF n, repeat
      <3> QED
        BY <2>1, GreatestExists
    <2>3. SUFFICES ASSUME quest.mode = "Recurring",
                          ~OutOfWindow(c, p.last_submitted_cycle),
                          i = Max(repeat)
                   PROVE  cycle_state(p, c) = StateOf(submissions[i].status)
      BY DEF CycleIsShown
    <2>4. \A j \in DOMAIN submissions : SameCycle(i, j) => j <= i
      BY <2>2, <2>3 DEF SameCycle
    <2>5. ProgressShows(i)
      BY <2>4 DEF CycleInv
    <2>6. IsRemembered(p, c)
      BY <1>1, <2>3 DEF IsRemembered
    <2> QED
      BY <2>3, <2>5, <2>6 DEF ProgressShows
  <1> QED
    BY <1>1 DEF WindowShowsLaterCycles

\* Whatever the order of proofs, late reviews and new attempts, the window shows
\* what became of every recent cycle but the first.
THEOREM LaterCyclesShown == Spec => []WindowShowsLaterCycles
  <1>1. Inv /\ CycleInv => WindowShowsLaterCycles
    BY LaterCyclesAreShown
  <1> QED
    BY <1>1, Invariance, CycleInvariance, PTL
=============================================================================
