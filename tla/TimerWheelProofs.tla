-------------------------- MODULE TimerWheelProofs --------------------------
(***************************************************************************)
(* What the timer wheel guarantees for any number of levels, of slots in a *)
(* level and of events, wherever signals come: its types; that the lists   *)
(* stay whole until a signal takes an event from one while relink changes  *)
(* one; and that the wheel implements Timer until a signal comes while     *)
(* schedule runs: each event runs once for each schedule, when the clock   *)
(* shows its time or when Timer allows it to be late.                      *)
(***************************************************************************)
EXTENDS TimerWheel, ListLemmas

-----------------------------------------------------------------------------
(***************************************************************************)
(* The levels.  A delay that the whole wheel can hold is less than a       *)
(* revolution of level l when it has been raised to that level, if l is    *)
(* the last one at the latest.                                             *)
(***************************************************************************)
LEMMA Constants ==
  /\ NUM_SLOTS \in Nat /\ NUM_SLOTS > 1
  /\ NUM_LEVELS \in Nat /\ NUM_LEVELS >= 1
  /\ MaxTick \in Nat
  /\ IsFiniteSet(Events) /\ Null \notin Events
  /\ NoSlot \notin Slots /\ NoLevel \notin Levels /\ 0 \in Levels
BY TimerAssumption DEF Slots, NoSlot, NoLevel, Levels

LEMMA Division ==
  ASSUME NEW n \in Nat, NEW a \in Nat \ {0}
  PROVE  n \div a \in Nat /\ n % a \in 0 .. a - 1 /\ n = a * (n \div a) + (n % a)
OBVIOUS

LEMMA SpanOf ==
  /\ Span \in [Levels -> Nat]
  /\ Span[0] = 1
  /\ \A l \in Levels : l # 0 => Span[l] = NUM_SLOTS * Span[l - 1]
<1> DEFINE n == NUM_LEVELS - 1
           step == [p \in (1 .. n) \X Nat |-> NUM_SLOTS * p[2]]
           span == CHOOSE g : g = [l \in Levels |-> IF l = 0 THEN 1 ELSE NUM_SLOTS * g[l - 1]]
<1>1. n \in Nat /\ step \in [(1 .. n) \X Nat -> Nat] /\ Levels = 0 .. n
  BY Constants DEF Levels
<1>2. PICK f \in [0 .. n -> Nat] : Recursion(f, n, 1, step)
  <2> HIDE DEF step, n, span
  <2> QED
    BY <1>1, 1 \in Nat, RecursionExists
<1>3. f = [l \in Levels |-> IF l = 0 THEN 1 ELSE NUM_SLOTS * f[l - 1]]
  <2>1. ASSUME NEW l \in 0 .. n, l # 0 PROVE step[<<l, f[l - 1]>>] = NUM_SLOTS * f[l - 1]
    BY <1>1, <1>2, <2>1
  <2> HIDE DEF step, n
  <2> QED
    BY <1>1, <1>2, <2>1 DEF Recursion
<1>4. span = [l \in Levels |-> IF l = 0 THEN 1 ELSE NUM_SLOTS * span[l - 1]]
  BY <1>3
<1>5. Span = span
  BY DEF Span
<1> HIDE DEF span, n
<1> DEFINE D == {l \in Levels : span[l] \in Nat}
<1>6. 0 .. n \subseteq D
  <2>1. 0 \in D
    BY <1>4, Constants
  <2>2. \A l \in 1 .. n : l - 1 \in D => l \in D
    BY <1>1, <1>4, Constants
  <2> HIDE DEF D
  <2> QED
    BY <1>1, <2>1, <2>2, IntervalInduction
<1> QED
  BY <1>1, <1>4, <1>5, <1>6, Constants

LEMMA DivisionBelow ==
  ASSUME NEW n \in Nat, NEW a \in Nat \ {0}, NEW x \in Nat, n < a * x + a
  PROVE  n \div a <= x
<1>1. n \div a \in Nat /\ n % a \in 0 .. a - 1 /\ n = a * (n \div a) + (n % a)
  BY Division
<1>2. SUFFICES ASSUME NEW q \in Nat, q >= x + 1, a * q <= n PROVE FALSE
  BY <1>1
<1>3. a * q >= a * (x + 1) /\ a * (x + 1) = a * x + a
  BY <1>2
<1> QED
  BY <1>2, <1>3

(* A time in the units of the levels; none is larger than the time itself. *)
LEMMA InUnitsOf ==
  ASSUME NEW time \in Nat
  PROVE  /\ InUnits(time) \in [Levels -> 0 .. time]
         /\ InUnits(time)[0] = time
         /\ \A l \in Levels : l # 0 => InUnits(time)[l] = InUnits(time)[l - 1] \div NUM_SLOTS
<1> DEFINE n == NUM_LEVELS - 1
           step == [p \in (1 .. n) \X (0 .. time) |-> p[2] \div NUM_SLOTS]
           units == CHOOSE g : g = [l \in Levels |->
                                      IF l = 0 THEN time ELSE g[l - 1] \div NUM_SLOTS]
<1>1. n \in Nat /\ Levels = 0 .. n
  BY Constants DEF Levels
<1>2. \A t \in 0 .. time : t \div NUM_SLOTS \in 0 .. time
  <2> SUFFICES ASSUME NEW t \in 0 .. time PROVE t \div NUM_SLOTS \in 0 .. time
    OBVIOUS
  <2>1. NUM_SLOTS * t >= t
    BY Constants
  <2>2. t \div NUM_SLOTS \in Nat /\ t \div NUM_SLOTS <= t
    BY <2>1, Constants, Division, DivisionBelow
  <2> QED
    BY <2>2
<1>3. step \in [(1 .. n) \X (0 .. time) -> 0 .. time]
  BY <1>2
<1>4. PICK f \in [0 .. n -> 0 .. time] : Recursion(f, n, time, step)
  <2> HIDE DEF step, n, units
  <2> QED
    BY <1>1, <1>3, time \in 0 .. time, RecursionExists
<1>5. f = [l \in Levels |-> IF l = 0 THEN time ELSE f[l - 1] \div NUM_SLOTS]
  <2>1. ASSUME NEW l \in 0 .. n, l # 0 PROVE step[<<l, f[l - 1]>>] = f[l - 1] \div NUM_SLOTS
    <3>1. l - 1 \in 0 .. n /\ l \in 1 .. n
      BY <1>1, <2>1
    <3>2. f[l - 1] \in 0 .. time
      BY <1>4, <3>1
    <3> HIDE DEF n, units
    <3>3. <<l, f[l - 1]>> \in (1 .. n) \X (0 .. time)
      BY <3>1, <3>2
    <3> QED
      BY <3>3
  <2> HIDE DEF step, n
  <2> QED
    BY <1>1, <1>4, <2>1 DEF Recursion
<1>6. units = [l \in Levels |-> IF l = 0 THEN time ELSE units[l - 1] \div NUM_SLOTS]
  BY <1>5
<1>7. InUnits(time) = units
  BY DEF InUnits
<1> HIDE DEF units, n
<1> DEFINE D == {l \in Levels : units[l] \in 0 .. time}
<1>8. 0 .. n \subseteq D
  <2>1. 0 \in D
    BY <1>6, Constants
  <2>2. ASSUME NEW l \in 1 .. n, l - 1 \in D PROVE l \in D
    <3>1. l \in Levels /\ l # 0 /\ units[l - 1] \in 0 .. time
      BY <1>1, <2>2
    <3> HIDE DEF D
    <3>2. units[l] = units[l - 1] \div NUM_SLOTS
      BY <1>6, <3>1
    <3>3. units[l] \in 0 .. time
      BY <1>2, <3>1, <3>2
    <3> QED
      BY <3>1, <3>3 DEF D
  <2> HIDE DEF D
  <2> QED
    BY <1>1, <2>1, <2>2, IntervalInduction
<1> QED
  BY <1>1, <1>6, <1>7, <1>8, Constants

(* The largest delay that levels l and above hold, in the units of l. *)
Reach(l) == (NUM_SLOTS - 1) * Span[NUM_LEVELS - 1 - l]

LEMMA ReachOf ==
  /\ \A l \in Levels : Reach(l) \in Nat
  /\ Reach(NUM_LEVELS - 1) = NUM_SLOTS - 1
  /\ \A l \in Levels : l + 1 \in Levels => Reach(l) = NUM_SLOTS * Reach(l + 1)
<1>1. ASSUME NEW l \in Levels
      PROVE  /\ NUM_LEVELS - 1 - l \in Levels /\ Span[NUM_LEVELS - 1 - l] \in Nat
             /\ Reach(l) \in Nat
  <2>1. NUM_LEVELS - 1 - l \in Levels
    BY Constants DEF Levels
  <2>2. Span[NUM_LEVELS - 1 - l] \in Nat
    BY <2>1, SpanOf
  <2> QED
    BY <2>1, <2>2, Constants DEF Reach
<1>2. NUM_LEVELS - 1 - (NUM_LEVELS - 1) = 0
  BY Constants
<1>3. Reach(NUM_LEVELS - 1) = NUM_SLOTS - 1
  BY <1>2, Constants, SpanOf DEF Reach
<1>4. ASSUME NEW l \in Levels, l + 1 \in Levels PROVE Reach(l) = NUM_SLOTS * Reach(l + 1)
  <2> DEFINE k == NUM_LEVELS - 1 - l
  <2>1. k \in Levels /\ k # 0 /\ NUM_LEVELS - 1 - (l + 1) = k - 1 /\ k - 1 \in Levels
    BY <1>4, Constants DEF Levels
  <2>2. Span[k] = NUM_SLOTS * Span[k - 1] /\ Span[k - 1] \in Nat
    BY <2>1, SpanOf
  <2>3. Reach(l) = (NUM_SLOTS - 1) * Span[k] /\ Reach(l + 1) = (NUM_SLOTS - 1) * Span[k - 1]
    BY <2>1 DEF Reach
  <2>4. \A x \in Nat : (NUM_SLOTS - 1) * (NUM_SLOTS * x) = NUM_SLOTS * ((NUM_SLOTS - 1) * x)
    BY Constants
  <2> QED
    BY <2>2, <2>3, <2>4
<1> QED
  BY <1>1, <1>3, <1>4

LEMMA RaiseWithin ==
  ASSUME m_now \in [Levels -> Nat], NEW l \in Levels, NEW delta \in Nat,
         delta <= Reach(l), delta >= NUM_SLOTS
  PROVE  l + 1 \in Levels /\ Raise(delta, l) \in Nat /\ Raise(delta, l) <= Reach(l + 1)
<1>1. l + 1 \in Levels
  <2>1. l # NUM_LEVELS - 1
    BY Constants, ReachOf
  <2> QED
    BY <2>1, Constants DEF Levels
<1>2. Reach(l) = NUM_SLOTS * Reach(l + 1) /\ Reach(l + 1) \in Nat
  BY <1>1, ReachOf
<1> DEFINE r == m_now[l] % NUM_SLOTS
<1>3. r \in 0 .. NUM_SLOTS - 1
  BY Constants
<1> HIDE DEF r
<1>4. delta + r \in Nat /\ delta + r < NUM_SLOTS * Reach(l + 1) + NUM_SLOTS
  BY <1>2, <1>3, Constants
<1>5. (delta + r) \div NUM_SLOTS \in Nat /\ (delta + r) \div NUM_SLOTS <= Reach(l + 1)
  <2>1. ASSUME NEW n \in Nat, NEW x \in Nat, n < NUM_SLOTS * x + NUM_SLOTS
        PROVE  n \div NUM_SLOTS \in Nat /\ n \div NUM_SLOTS <= x
    <3>1. NUM_SLOTS \in Nat \ {0}
      BY Constants
    <3> QED
      BY <2>1, <3>1, Division, DivisionBelow
  <2> QED
    BY <1>2, <1>4, <2>1
<1> QED
  BY <1>1, <1>5 DEF Raise, r

(* What schedule does level by level, SlotFor does at once. *)
RaisesTo(raised, delta, l) ==
  /\ raised \in [Levels -> Nat] /\ l \in Levels
  /\ raised[0] = delta
  /\ \A k \in Levels : k # 0 => raised[k] = Raise(raised[k - 1], k - 1)
  /\ \A k \in Levels : k < l => raised[k] >= NUM_SLOTS
  /\ raised[l] < NUM_SLOTS

LEMMA SlotForOf ==
  ASSUME m_now \in [Levels -> Nat], NEW delta \in Nat, delta <= Reach(0)
  PROVE  \E raised, l : RaisesTo(raised, delta, l) /\ SlotFor(delta) = SlotAt(l, raised[l])
<1> DEFINE n == NUM_LEVELS - 1
           step == [p \in (1 .. n) \X Nat |-> Raise(p[2], p[1] - 1)]
           raised == CHOOSE g : g = [l \in Levels |->
                                       IF l = 0 THEN delta ELSE Raise(g[l - 1], l - 1)]
           lowest == Min({k \in Levels : raised[k] < NUM_SLOTS})
<1>1. n \in Nat /\ Levels = 0 .. n
  BY Constants DEF Levels
<1>2. ASSUME NEW x \in Nat, NEW k \in Levels PROVE Raise(x, k) \in Nat
  <2>1. m_now[k] % NUM_SLOTS \in Nat
    BY Constants
  <2>2. ASSUME NEW y \in Nat PROVE y \div NUM_SLOTS \in Nat
    BY Constants
  <2>3. x + (m_now[k] % NUM_SLOTS) \in Nat
    BY <2>1
  <2> QED
    BY <2>2, <2>3 DEF Raise
<1>3. step \in [(1 .. n) \X Nat -> Nat]
  <2> SUFFICES ASSUME NEW k \in 1 .. n, NEW x \in Nat PROVE Raise(x, k - 1) \in Nat
    OBVIOUS
  <2>1. k - 1 \in Levels
    BY <1>1
  <2> QED
    BY <1>2, <2>1
<1>4. PICK f \in [0 .. n -> Nat] : Recursion(f, n, delta, step)
  <2> HIDE DEF step, n, raised
  <2> QED
    BY <1>1, <1>3, RecursionExists
<1>5. f = [l \in Levels |-> IF l = 0 THEN delta ELSE Raise(f[l - 1], l - 1)]
  <2>1. ASSUME NEW l \in 0 .. n, l # 0 PROVE step[<<l, f[l - 1]>>] = Raise(f[l - 1], l - 1)
    <3>1. l - 1 \in 0 .. n /\ l \in 1 .. n
      BY <1>1, <2>1
    <3>2. f[l - 1] \in Nat
      BY <1>4, <3>1
    <3> HIDE DEF n, raised
    <3>3. <<l, f[l - 1]>> \in (1 .. n) \X Nat
      BY <3>1, <3>2
    <3> QED
      BY <3>3
  <2> HIDE DEF step, n
  <2> QED
    BY <1>1, <1>4, <2>1 DEF Recursion
<1>6. raised = [l \in Levels |-> IF l = 0 THEN delta ELSE Raise(raised[l - 1], l - 1)]
  <2> HIDE DEF n, step
  <2> QED
    BY <1>5
<1>7. SlotFor(delta) = SlotAt(lowest, raised[lowest])
  BY DEF SlotFor
<1> HIDE DEF raised, lowest, n, step
<1>8. /\ raised[0] = delta
      /\ \A k \in Levels : k # 0 => raised[k] = Raise(raised[k - 1], k - 1)
  BY <1>6, Constants
<1> DEFINE D == {l \in Levels : raised[l] \in Nat}
<1>9. 0 .. n \subseteq D
  <2>1. 0 \in D
    BY <1>8, Constants
  <2>2. ASSUME NEW l \in 1 .. n, l - 1 \in D PROVE l \in D
    <3>1. l \in Levels /\ l # 0 /\ l - 1 \in Levels /\ raised[l - 1] \in Nat
      BY <1>1, <2>2
    <3> QED
      BY <1>2, <1>8, <3>1
  <2> HIDE DEF D
  <2> QED
    BY <1>1, <2>1, <2>2, IntervalInduction
<1>10. raised \in [Levels -> Nat]
  BY <1>1, <1>6, <1>9
<1> DEFINE E == {l \in Levels : (\E k \in Levels : raised[k] < NUM_SLOTS) \/ raised[l] <= Reach(l)}
<1>11. 0 .. n \subseteq E
  <2>1. 0 \in E
    BY <1>8, Constants
  <2>2. ASSUME NEW l \in 1 .. n, l - 1 \in E PROVE l \in E
    <3>1. l \in Levels /\ l # 0 /\ l - 1 \in Levels
      BY <1>1, <2>2
    <3>2. CASE \E k \in Levels : raised[k] < NUM_SLOTS
      BY <3>1, <3>2
    <3>3. CASE ~\E k \in Levels : raised[k] < NUM_SLOTS
      <4>1. raised[l - 1] \in Nat /\ raised[l - 1] <= Reach(l - 1) /\ raised[l - 1] >= NUM_SLOTS
        BY <1>10, <2>2, <3>1, <3>3, Constants
      <4>2. Raise(raised[l - 1], l - 1) <= Reach((l - 1) + 1)
        BY <3>1, <4>1, RaiseWithin
      <4>3. (l - 1) + 1 = l
        BY <1>1
      <4> QED
        BY <1>8, <3>1, <4>2, <4>3
    <3> QED
      BY <3>2, <3>3
  <2> HIDE DEF E
  <2> QED
    BY <1>1, <2>1, <2>2, IntervalInduction
<1>12. \E k \in Levels : raised[k] < NUM_SLOTS
  <2>1. n \in Levels /\ n = NUM_LEVELS - 1
    BY <1>1 DEF n
  <2>2. n \in E
    BY <1>1, <1>11
  <2>3. raised[n] \in Nat /\ (raised[n] <= Reach(n) => raised[n] < NUM_SLOTS)
    BY <1>10, <2>1, ReachOf, Constants
  <2> QED
    BY <2>1, <2>2, <2>3
<1>13. /\ lowest \in Levels /\ raised[lowest] < NUM_SLOTS
       /\ \A k \in Levels : raised[k] < NUM_SLOTS => lowest <= k
  <2> DEFINE S == {k \in Levels : raised[k] < NUM_SLOTS}
  <2>1. S \in SUBSET Nat /\ S # {}
    <3>1. Levels \subseteq Nat
      BY <1>1
    <3>2. PICK k \in Levels : raised[k] < NUM_SLOTS
      BY <1>12
    <3>3. k \in S
      BY <3>2
    <3>4. S \subseteq Levels
      OBVIOUS
    <3> QED
      BY <3>1, <3>3, <3>4
  <2>2. Min(S) \in S /\ \A m \in S : Min(S) <= m
    <3> HIDE DEF S
    <3> QED
      BY <2>1, MinOfNaturals
  <2> QED
    BY <2>2 DEF lowest
<1>14. RaisesTo(raised, delta, lowest)
  <2>1. \A k \in Levels : k < lowest => raised[k] >= NUM_SLOTS
    BY <1>1, <1>10, <1>13, Constants
  <2> QED
    BY <1>8, <1>10, <1>13, <2>1 DEF RaisesTo
<1> QED
  BY <1>7, <1>14

LEMMA SlotAtIsSlot ==
  ASSUME m_now \in [Levels -> Nat], NEW l \in Levels, NEW delta \in Nat
  PROVE  SlotAt(l, delta) \in Slots
<1>1. (m_now[l] + delta) % NUM_SLOTS \in 0 .. NUM_SLOTS - 1
  BY Constants
<1> QED
  BY <1>1 DEF SlotAt, Slots

-----------------------------------------------------------------------------
(***************************************************************************)
(* Types, wherever signals come.                                           *)
(***************************************************************************)
(* What is scheduled lies within the reach of the wheel, seen from m_now,  *)
(* which startTick sets to 0.                                              *)
WithinReach ==
  /\ call.delta <= Reach(call.level)
  /\ call.at <= m_now[0] + Reach(0)
  /\ m_now[0] <= cur_t
  /\ \A e \in Events : scheduled_at[e] <= m_now[0] + Reach(0)
  /\ ~ticking => m_now = [l \in Levels |-> 0]
  /\ mpc = "clock" => ticking
  /\ ~ticking \/ mpc = "clock" => \A e \in Events : scheduled_at[e] <= Reach(0)

CallHasEvent ==
  /\ mpc = "idle" => call = NoCall
  /\ mpc = "clock" => call.event = Null /\ call.delta = 0 /\ call.at = 0
  /\ mpc \in {"stamp", "level", "relink"} \cup Relinking => call.event \in Events
  /\ mpc \in {"relink"} \cup Relinking => call.slot \in Slots

TypeInv == TypeOK /\ WithinReach /\ CallHasEvent

LEMMA NoCallType ==
  /\ NoCall.event = Null /\ NoCall.delta = 0 /\ NoCall.at = 0 /\ NoCall.level = 0
  /\ NoCall.slot = NoSlot
  /\ NoCall \in [event : EventOrNull, delta : Nat, at : Nat, level : Levels,
                 slot : Slots \cup {NoSlot}, before : EventOrNull, after : EventOrNull]
BY Constants DEF NoCall, EventOrNull

LEMMA InitTypeInv == Init => TypeInv
<1> SUFFICES ASSUME Init PROVE TypeInv
  OBVIOUS
<1>1. TypeOK
  <2>1. call \in [event : EventOrNull, delta : Nat, at : Nat, level : Levels,
                  slot : Slots \cup {NoSlot}, before : EventOrNull, after : EventOrNull]
    BY NoCallType DEF Init
  <2>2. m_now \in [Levels -> 0 .. MaxTick] /\ cur_t \in 0 .. MaxTick
    BY Constants DEF Init
  <2> QED
    BY <2>1, <2>2 DEF Init, TypeOK, EventOrNull
<1>2. WithinReach
  <2>1. call.delta = 0 /\ call.at = 0 /\ call.level = 0 /\ m_now[0] = 0
    BY Constants, NoCallType DEF Init
  <2> QED
    BY <2>1, Constants, ReachOf DEF Init, WithinReach
<1>3. CallHasEvent
  BY DEF Init, CallHasEvent, Relinking
<1> QED
  BY <1>1, <1>2, <1>3 DEF TypeInv

LEMMA StoreTypes ==
  ASSUME NEW field \in [Events -> EventOrNull], NEW e, NEW value \in EventOrNull
  PROVE  Store(field, e, value) \in [Events -> EventOrNull]
BY DEF Store

CallType ==
  [event : EventOrNull, delta : Nat, at : Nat, level : Levels, slot : Slots \cup {NoSlot},
   before : EventOrNull, after : EventOrNull]

LEMMA StartPreservesTypes == TypeInv /\ (StartTick \/ SetNow) => TypeInv'
<1> USE DEF Goto, lists, asks, TypeInv
<1>r. \A l \in Levels : Reach(l) \in Nat
  BY ReachOf
<1>1. ASSUME TypeInv, StartTick PROVE TypeInv'
  <2>1. TypeOK'
    BY <1>1, Constants DEF StartTick, TypeOK
  <2>2. WithinReach'
    <3>1. m_now[0] = 0 /\ cur_t' = 0
      BY <1>1, Constants DEF StartTick, WithinReach
    <3> QED
      BY <1>1, <3>1 DEF StartTick, WithinReach
  <2>3. CallHasEvent'
    BY <1>1, NoCallType DEF StartTick, CallHasEvent, Relinking
  <2> QED
    BY <2>1, <2>2, <2>3
<1>2. ASSUME TypeInv, SetNow PROVE TypeInv'
  <2>1. /\ m_now' \in [Levels -> 0 .. MaxTick] /\ m_now'[0] \in Nat
        /\ m_now'[0] <= m_now[0]
    BY <1>2, Constants DEF SetNow, TypeOK, WithinReach
  <2>2. /\ call' \in CallType /\ call'.event = Null
        /\ call'.delta = 0 /\ call'.at = 0
    BY <1>2, NoCallType DEF SetNow, TypeOK, CallType, CallHasEvent
  <2>3. TypeOK'
    BY <1>2, <2>1, <2>2 DEF SetNow, TypeOK, CallType
  <2>4. WithinReach'
    <3>1. ticking /\ \A e \in Events : scheduled_at[e] \in Nat /\ scheduled_at[e] <= Reach(0)
      BY <1>2 DEF SetNow, WithinReach, TypeOK
    <3>2. call'.delta <= Reach(call'.level) /\ call'.at <= m_now'[0] + Reach(0)
      BY <1>r, <2>1, <2>2, Constants DEF CallType
    <3>3. \A e \in Events : scheduled_at[e] <= m_now'[0] + Reach(0)
      BY <1>r, <2>1, <3>1, Constants
    <3>4. m_now'[0] <= cur_t' /\ ticking'
      <4>1. cur_t \in Nat /\ m_now[0] \in Nat /\ m_now[0] <= cur_t /\ cur_t' = cur_t
        BY <1>2, Constants DEF SetNow, TypeOK, WithinReach
      <4> QED
        BY <1>2, <2>1, <3>1, <4>1 DEF SetNow
    <3> QED
      BY <1>2, <3>1, <3>2, <3>3, <3>4 DEF SetNow, WithinReach
  <2>5. CallHasEvent'
    BY <1>2, <2>2 DEF SetNow, CallHasEvent, Relinking
  <2> QED
    BY <2>3, <2>4, <2>5
<1> QED
  BY <1>1, <1>2

LEMMA SchedulePreservesTypes ==
  ASSUME TypeInv, NEW e \in Events, NEW delta \in Deltas, Schedule(e, delta)
  PROVE  TypeInv'
<1> USE DEF Goto, ScheduleFrame, lists, TypeInv
<1>1. delta \in Nat /\ delta <= Reach(0) /\ Reach(0) \in Nat
  <2>1. NUM_LEVELS - 1 - 0 = NUM_LEVELS - 1 /\ Reach(0) \in Nat
    BY Constants, ReachOf
  <2>2. delta \in 0 .. Reach(0)
    BY <2>1, TimerAssumption DEF Reach
  <2> QED
    BY <2>1, <2>2
<1>2. m_now[0] \in Nat
  BY Constants DEF TypeOK
<1>3. /\ call' \in CallType /\ call'.event = e /\ call'.delta = delta /\ call'.level = 0
      /\ call'.at = m_now[0] + delta
  <2>1. call' = [NoCall EXCEPT !.event = e, !.delta = delta, !.at = m_now[0] + delta]
    BY DEF Schedule
  <2>2. m_now[0] + delta \in Nat
    BY <1>1, <1>2
  <2> QED
    BY <1>1, <2>1, <2>2, NoCallType DEF CallType, EventOrNull
<1>4. TypeOK'
  BY <1>3 DEF Schedule, TypeOK, CallType, asks
<1>5. WithinReach'
  BY <1>1, <1>2, <1>3 DEF Schedule, WithinReach, asks
<1>6. CallHasEvent'
  BY <1>3 DEF Schedule, CallHasEvent, Relinking
<1> QED
  BY <1>4, <1>5, <1>6

LEMMA StampPreservesTypes == TypeInv /\ Stamp => TypeInv'
<1> SUFFICES ASSUME TypeInv, Stamp PROVE TypeInv'
  OBVIOUS
<1> USE DEF Goto, ScheduleFrame, lists, TypeInv
<1>1. /\ call.event \in Events /\ call.at \in Nat /\ call.at <= m_now[0] + Reach(0)
      /\ m_now[0] \in Nat /\ Reach(0) \in Nat
  BY Constants, ReachOf DEF Stamp, TypeOK, CallHasEvent, WithinReach
<1>2. scheduled_at' \in [Events -> Nat] /\ asked' \in [Events -> {"no", "owed", "missed", "again"}]
  BY <1>1 DEF Stamp, TypeOK
<1>3. TypeOK'
  BY <1>2 DEF Stamp, TypeOK
<1>4. WithinReach'
  <2>1. \A d \in Events :
          scheduled_at'[d] = IF d = call.event THEN call.at ELSE scheduled_at[d]
    BY DEF Stamp, TypeOK
  <2>2. ~ticking => m_now[0] = 0
    BY Constants DEF WithinReach
  <2> QED
    BY <1>1, <2>1, <2>2 DEF Stamp, WithinReach
<1>5. CallHasEvent'
  BY DEF Stamp, CallHasEvent, Relinking
<1> QED
  BY <1>3, <1>4, <1>5

LEMMA LevelPreservesTypes ==
  TypeInv /\ (NextLevelUp \/ ChooseSlot \/ EnterRelink) => TypeInv'
<1> USE DEF Goto, ScheduleFrame, lists, asks, TypeInv
<1>r. \A l \in Levels : Reach(l) \in Nat
  BY ReachOf
<1>m. TypeInv => m_now \in [Levels -> Nat] /\ call \in CallType
  BY DEF TypeOK, CallType
<1>1. ASSUME TypeInv, NextLevelUp PROVE TypeInv'
  <2>1. call.level + 1 \in Levels /\ Raise(call.delta, call.level) \in Nat
        /\ Raise(call.delta, call.level) <= Reach(call.level + 1)
    BY <1>1, <1>m, RaiseWithin DEF NextLevelUp, WithinReach, CallType
  <2>2. /\ call' \in CallType /\ call'.event = call.event
        /\ call'.delta = Raise(call.delta, call.level) /\ call'.level = call.level + 1
        /\ call'.at = call.at
    BY <1>1, <1>m, <2>1 DEF NextLevelUp, CallType
  <2>3. TypeOK'
    BY <1>1, <2>2 DEF NextLevelUp, TypeOK, CallType
  <2>4. WithinReach'
    BY <1>1, <2>1, <2>2 DEF NextLevelUp, WithinReach
  <2>5. CallHasEvent'
    BY <1>1, <2>2 DEF NextLevelUp, CallHasEvent, Relinking
  <2> QED
    BY <2>3, <2>4, <2>5
<1>2. ASSUME TypeInv, ChooseSlot PROVE TypeInv'
  <2> DEFINE s == SlotAt(call.level, call.delta)
  <2>1. s \in Slots /\ call.event \in Events
    BY <1>2, <1>m, SlotAtIsSlot DEF ChooseSlot, CallHasEvent, CallType
  <2>2. call' \in CallType /\ call'.slot = s
    BY <1>2, <1>m, <2>1 DEF ChooseSlot, CallType
  <2>3. /\ call'.event = call.event /\ call'.delta = call.delta /\ call'.at = call.at
        /\ call'.level = call.level
    BY <1>2, <1>m DEF ChooseSlot, CallType
  <2>4. TypeOK'
    BY <1>2, <2>2 DEF ChooseSlot, TypeOK, CallType
  <2>5. WithinReach'
    BY <1>2, <2>3 DEF ChooseSlot, WithinReach
  <2>6. CallHasEvent'
    BY <1>2, <2>1, <2>2, <2>3 DEF ChooseSlot, CallHasEvent, Relinking
  <2> QED
    BY <2>4, <2>5, <2>6
<1>3. ASSUME TypeInv, EnterRelink PROVE TypeInv'
  <2>1. call.event \in Events /\ call.slot \in Slots
    BY <1>3 DEF EnterRelink, CallHasEvent
  <2>2. prev[call.event] \in EventOrNull /\ next[call.event] \in EventOrNull
    BY <1>3, <2>1 DEF TypeOK
  <2>3. \/ mpc' = "idle" /\ call' = NoCall
        \/ /\ mpc' = "unlink"
           /\ call' = [call EXCEPT !.before = prev[call.event], !.after = next[call.event]]
        \/ mpc' = "read" /\ call' = call
    BY <1>3 DEF EnterRelink
  <2>4. /\ mpc' \in {"idle", "unlink", "read"}
        /\ call' \in CallType
        /\ mpc' = "idle" => call' = NoCall
        /\ mpc' # "idle" => /\ call'.event = call.event /\ call'.slot = call.slot
                            /\ call'.delta = call.delta /\ call'.level = call.level
                            /\ call'.at = call.at
    BY <1>3, <1>m, <2>2, <2>3, NoCallType DEF CallType
  <2>5. TypeOK'
    BY <1>3, <2>4 DEF EnterRelink, TypeOK, CallType
  <2>6. WithinReach'
    BY <1>3, <1>r, <2>4, NoCallType, Constants DEF EnterRelink, WithinReach, TypeOK
  <2>7. CallHasEvent'
    BY <1>3, <2>1, <2>4 DEF EnterRelink, CallHasEvent, Relinking
  <2> QED
    BY <2>5, <2>6, <2>7
<1> QED
  BY <1>1, <1>2, <1>3

LEMMA RelinkPreservesTypes == TypeInv /\ RelinkStep => TypeInv'
<1> SUFFICES ASSUME TypeInv, RelinkStep PROVE TypeInv'
  OBVIOUS
<1> USE DEF Goto, ScheduleFrame, asks, TypeInv
<1>1. /\ mpc \in Relinking /\ call.event \in Events /\ call.slot \in Slots
      /\ call.before \in EventOrNull /\ call.after \in EventOrNull /\ call \in CallType
  BY DEF RelinkStep, JoinAfter, Unlink, ReadHead, LinkNext, LinkBack, LinkHead, ClearPrev,
         SetSlot, Relinking, CallHasEvent, TypeOK, CallType
<1>2. /\ mpc' \in Relinking \cup {"idle", "dead"}
      /\ call' \in CallType
      /\ mpc' = "idle" => call' = NoCall
      /\ mpc' # "idle" => /\ call'.event = call.event /\ call'.slot = call.slot
                          /\ call'.delta = call.delta /\ call'.level = call.level
                          /\ call'.at = call.at
  <2>1. CASE JoinAfter \/ Unlink
    BY <1>1, <2>1 DEF JoinAfter, Unlink, Relinking
  <2>2. CASE ReadHead
    <3>1. head[call.slot] \in EventOrNull
      BY <1>1 DEF TypeOK
    <3>2. call' = [call EXCEPT !.after = head[call.slot]] /\ mpc' = "next"
      BY <2>2 DEF ReadHead
    <3> QED
      BY <1>1, <3>1, <3>2 DEF Relinking, CallType
  <2>3. CASE LinkNext \/ LinkBack \/ LinkHead \/ ClearPrev
    BY <1>1, <2>3 DEF LinkNext, LinkBack, LinkHead, ClearPrev, Relinking
  <2>4. CASE SetSlot
    BY <2>4, NoCallType DEF SetSlot, CallType
  <2> QED
    BY <2>1, <2>2, <2>3, <2>4 DEF RelinkStep
<1>3. /\ head' \in [Slots -> EventOrNull] /\ slot' \in [Events -> Slots \cup {NoSlot}]
      /\ next' \in [Events -> EventOrNull] /\ prev' \in [Events -> EventOrNull]
  <2>1. CASE Unlink
    <3>1. next' \in [Events -> EventOrNull]
      BY <1>1, <2>1, StoreTypes DEF Unlink, TypeOK
    <3>2. head' \in [Slots -> EventOrNull] /\ slot' = slot /\ prev' = prev
      BY <1>1, <2>1 DEF Unlink, TypeOK
    <3> QED
      BY <3>1, <3>2 DEF TypeOK
  <2>2. CASE ReadHead
    BY <2>2 DEF ReadHead, TypeOK, lists
  <2>3. CASE LinkNext
    BY <1>1, <2>3 DEF LinkNext, TypeOK
  <2>4. CASE LinkBack
    <3>1. prev' \in [Events -> EventOrNull]
      BY <1>1, <2>4, StoreTypes DEF LinkBack, TypeOK, EventOrNull
    <3> QED
      BY <2>4, <3>1 DEF LinkBack, TypeOK
  <2>5. CASE LinkHead
    BY <1>1, <2>5 DEF LinkHead, TypeOK, EventOrNull
  <2>6. CASE ClearPrev
    BY <1>1, <2>6 DEF ClearPrev, TypeOK, EventOrNull
  <2>7. CASE SetSlot
    BY <1>1, <2>7 DEF SetSlot, TypeOK
  <2>8. CASE JoinAfter
    <3>1. prev' \in [Events -> EventOrNull]
      BY <1>1, <2>8, StoreTypes DEF JoinAfter, PrevJoined, TypeOK
    <3> QED
      BY <2>8, <3>1 DEF JoinAfter, TypeOK
  <2> QED
    BY <2>1, <2>2, <2>3, <2>4, <2>5, <2>6, <2>7, <2>8 DEF RelinkStep
<1>4. UNCHANGED <<cur_t, m_now, ticking, scheduled_at, asked, level, struck>>
  BY DEF RelinkStep, JoinAfter, Unlink, ReadHead, LinkNext, LinkBack, LinkHead, ClearPrev, SetSlot
<1>5. TypeOK'
  BY <1>2, <1>3, <1>4 DEF TypeOK, CallType, Relinking
<1>6. WithinReach'
  <2>1. m_now[0] \in Nat /\ \A l \in Levels : Reach(l) \in Nat
    BY Constants, ReachOf DEF TypeOK
  <2>2. call'.delta <= Reach(call'.level) /\ call'.at <= m_now[0] + Reach(0)
    <3>1. CASE mpc' = "idle"
      BY <1>2, <2>1, <3>1, NoCallType, Constants
    <3>2. CASE mpc' # "idle"
      BY <1>2, <3>2 DEF WithinReach
    <3> QED
      BY <3>1, <3>2
  <2>3. mpc # "clock" /\ mpc' # "clock"
    BY <1>1, <1>2 DEF Relinking
  <2> QED
    BY <1>4, <2>2, <2>3 DEF WithinReach
<1>7. CallHasEvent'
  BY <1>1, <1>2 DEF CallHasEvent, Relinking
<1> QED
  BY <1>5, <1>6, <1>7

LEMMA SignalPreservesTypes == TypeInv /\ Signal => TypeInv'
<1> SUFFICES ASSUME TypeInv, Signal PROVE TypeInv'
  OBVIOUS
<1> USE DEF TypeInv
<1>1. cur_t' \in 0 .. MaxTick /\ m_now' = InUnits(cur_t')
  BY Constants DEF Signal, TypeOK
<1>2. m_now' \in [Levels -> 0 .. MaxTick] /\ m_now'[0] = cur_t'
  <2>1. /\ InUnits(cur_t') \in [Levels -> 0 .. cur_t'] /\ InUnits(cur_t')[0] = cur_t'
    BY <1>1, InUnitsOf, Constants
  <2> QED
    BY <1>1, <2>1, Constants
<1>3. TypeOK'
  BY <1>1, <1>2, Constants DEF Signal, TypeOK, lists, asks
<1>4. WithinReach'
  <2>1. ticking /\ m_now[0] \in Nat /\ cur_t \in Nat /\ cur_t' = cur_t + 1
        /\ UNCHANGED <<ticking, scheduled_at, mpc, call>>
    BY Constants DEF Signal, TypeOK, asks
  <2>2. call.at \in Nat /\ \A e \in Events : scheduled_at[e] \in Nat
    BY DEF TypeOK
  <2>3. /\ Reach(0) \in Nat /\ m_now'[0] \in Nat /\ m_now[0] <= m_now'[0]
    BY <1>2, <2>1, Constants, ReachOf DEF WithinReach
  <2>4. call.at <= m_now'[0] + Reach(0)
    BY <2>1, <2>2, <2>3 DEF WithinReach
  <2>5. \A e \in Events : scheduled_at[e] <= m_now'[0] + Reach(0)
    BY <2>1, <2>2, <2>3 DEF WithinReach
  <2>6. mpc = "clock" => \A e \in Events : scheduled_at[e] <= Reach(0)
    BY DEF WithinReach
  <2> QED
    BY <1>2, <2>1, <2>3, <2>4, <2>5, <2>6 DEF WithinReach
<1>5. CallHasEvent'
  BY DEF Signal, CallHasEvent
<1> QED
  BY <1>3, <1>4, <1>5

(* The slot that the handler processes, and where it takes an event.       *)
LEMMA CurrentSlotIsSlot ==
  ASSUME TypeOK, level \in Levels
  PROVE  CurrentSlot \in Slots /\ First \in EventOrNull
<1>1. m_now[level] % NUM_SLOTS \in 0 .. NUM_SLOTS - 1
  BY Constants DEF TypeOK
<1>2. CurrentSlot \in Slots
  BY <1>1 DEF CurrentSlot, Slots
<1> QED
  BY <1>2 DEF First, TypeOK

LEMMA CascadeSlot ==
  ASSUME TypeInv, level \in Levels, First \in Events, ~Due(First)
  PROVE  /\ scheduled_at[First] - m_now[0] \in Nat
         /\ scheduled_at[First] - m_now[0] <= Reach(0)
         /\ SlotFor(scheduled_at[First] - m_now[0]) \in Slots
<1> DEFINE delta == scheduled_at[First] - m_now[0]
<1>1. m_now \in [Levels -> Nat]
  BY DEF TypeInv, TypeOK
<1>2. delta \in Nat /\ delta <= Reach(0)
  <2>1. /\ scheduled_at[First] \in Nat /\ m_now[0] \in Nat /\ Reach(0) \in Nat
        /\ scheduled_at[First] <= m_now[0] + Reach(0)
    BY <1>1, Constants, ReachOf DEF TypeInv, TypeOK, WithinReach
  <2>2. scheduled_at[First] >= m_now[0]
    BY <2>1 DEF Due
  <2> QED
    BY <2>1, <2>2
<1> HIDE DEF delta
<1>3. PICK raised, l : RaisesTo(raised, delta, l) /\ SlotFor(delta) = SlotAt(l, raised[l])
  BY <1>1, <1>2, SlotForOf
<1>4. SlotFor(delta) \in Slots
  BY <1>1, <1>3, SlotAtIsSlot DEF RaisesTo
<1> QED
  BY <1>2, <1>4 DEF delta

LEMMA HandlerPreservesTypes == TypeInv /\ HandlerStep => TypeInv'
<1> SUFFICES ASSUME TypeInv, HandlerStep PROVE TypeInv'
  OBVIOUS
<1> USE DEF HandlerFrame
<1>1. level \in Levels /\ UNCHANGED <<cur_t, m_now, ticking, scheduled_at, mpc, call>>
  BY DEF HandlerStep, NextLevel, Execute, Cascade, TypeInv, TypeOK
<1>2. CurrentSlot \in Slots /\ First \in EventOrNull
  BY <1>1, CurrentSlotIsSlot DEF TypeInv
<1>3. First \in Events => /\ HeadsPopped \in [Slots -> EventOrNull]
                          /\ PrevPopped \in [Events -> EventOrNull]
  <2> SUFFICES ASSUME First \in Events
               PROVE  /\ HeadsPopped \in [Slots -> EventOrNull]
                      /\ PrevPopped \in [Events -> EventOrNull]
    OBVIOUS
  <2>1. next[First] \in EventOrNull /\ head \in [Slots -> EventOrNull]
    BY DEF TypeInv, TypeOK
  <2>2. Null \in EventOrNull /\ prev \in [Events -> EventOrNull]
    BY DEF TypeInv, TypeOK, EventOrNull
  <2> QED
    BY <2>1, <2>2, StoreTypes DEF HeadsPopped, PrevPopped
<1>4. TypeOK'
  <2>s. struck' \in {"never", "schedule", "relink"}
    BY DEF HandlerStep, NextLevel, Execute, Cascade, StruckByPop, TypeInv, TypeOK
  <2>1. CASE NextLevel
    BY <1>1, <2>1 DEF NextLevel, Above, TypeInv, TypeOK, lists
  <2>2. CASE Execute
    <3>1. First \in Events
      BY <1>2, <2>2 DEF Execute, EventOrNull
    <3>2. /\ slot' \in [Events -> Slots \cup {NoSlot}] /\ next' \in [Events -> EventOrNull]
          /\ asked' \in [Events -> {"no", "owed", "missed", "again"}]
      BY <2>2, <3>1 DEF Execute, TypeInv, TypeOK, EventOrNull, Outcome
    <3> QED
      BY <1>1, <1>3, <2>s, <2>2, <3>1, <3>2 DEF Execute, TypeInv, TypeOK
  <2>3. CASE Cascade
    <3> DEFINE e == First
               s == SlotFor(scheduled_at[e] - m_now[0])
    <3>1. e \in Events /\ ~Due(e)
      BY <1>2, <2>3 DEF Cascade, EventOrNull
    <3>2. s \in Slots
      BY <1>1, <3>1, CascadeSlot
    <3>3. /\ head' = [HeadsPopped EXCEPT ![s] = e]
          /\ next' = [next EXCEPT ![e] = HeadsPopped[s]]
          /\ prev' = [Store(PrevPopped, HeadsPopped[s], e) EXCEPT ![e] = Null]
          /\ slot' = [slot EXCEPT ![e] = s] /\ UNCHANGED <<asked, level>>
      BY <2>3 DEF Cascade
    <3> HIDE DEF e, s
    <3>4. HeadsPopped[s] \in EventOrNull /\ e \in EventOrNull /\ Null \in EventOrNull
      BY <1>3, <3>1, <3>2 DEF e, EventOrNull
    <3>5. Store(PrevPopped, HeadsPopped[s], e) \in [Events -> EventOrNull]
      BY <1>3, <3>1, <3>4, StoreTypes DEF e
    <3>6. /\ head' \in [Slots -> EventOrNull] /\ next' \in [Events -> EventOrNull]
          /\ prev' \in [Events -> EventOrNull] /\ slot' \in [Events -> Slots \cup {NoSlot}]
      BY <1>3, <3>1, <3>2, <3>3, <3>4, <3>5 DEF e, TypeInv, TypeOK
    <3> QED
      BY <1>1, <2>s, <3>3, <3>6 DEF TypeInv, TypeOK
  <2> QED
    BY <2>1, <2>2, <2>3 DEF HandlerStep
<1>5. WithinReach'
  BY <1>1 DEF TypeInv, WithinReach, Reach
<1>6. CallHasEvent'
  BY <1>1 DEF TypeInv, CallHasEvent
<1> QED
  BY <1>4, <1>5, <1>6 DEF TypeInv

LEMMA StepTypeInv == TypeInv /\ [Next]_vars => TypeInv'
<1>1. TypeInv /\ ThreadStep => TypeInv'
  BY StartPreservesTypes, SchedulePreservesTypes, StampPreservesTypes, LevelPreservesTypes,
     RelinkPreservesTypes DEF ThreadStep
<1>2. TypeInv /\ UNCHANGED vars => TypeInv'
  BY DEF vars, lists, asks, TypeInv, TypeOK, WithinReach, CallHasEvent, Reach
<1> QED
  BY <1>1, <1>2, SignalPreservesTypes, HandlerPreservesTypes DEF Next

THEOREM TypesInvariant == Spec => []TypeInv
BY InitTypeInv, StepTypeInv, PTL DEF Spec

(* Every variable keeps to its type, also when signals interrupt relink    *)
(* between any two of its accesses: the levels that schedule goes up end   *)
(* at the last one (timerwheel.cpp:85-89), in the handler as well.         *)
THEOREM TypeCorrect == Spec => []TypeOK
<1>1. TypeInv => TypeOK
  BY DEF TypeInv
<1> QED
  BY <1>1, TypesInvariant, PTL

-----------------------------------------------------------------------------
(***************************************************************************)
(* The lists.  A slot's list is a chain along m_next, with m_prev the      *)
(* other way, of the events whose m_slot is the slot.  Whole says so of    *)
(* heads h, slots sl, links nx and pv, which are those of the wheel or     *)
(* what they come to when relink is done.                                  *)
(***************************************************************************)
IsList(c, start, nx, pv) ==
  /\ IsChain(c, start, nx, Null)
  /\ \A i \in 1 .. Len(c) : pv[c[i]] = IF i = 1 THEN Null ELSE c[i - 1]

Whole(h, sl, nx, pv) ==
  \A s \in Slots : \E c \in Seq(Events) :
    IsList(c, h[s], nx, pv) /\ ToSet(c) = {e \in Events : sl[e] = s}

LEMMA ListKept ==
  ASSUME NEW c \in Seq(Events), NEW start, NEW nx, NEW pv, NEW nx2, NEW pv2,
         IsList(c, start, nx, pv),
         \A x \in ToSet(c) : nx2[x] = nx[x] /\ pv2[x] = pv[x]
  PROVE  IsList(c, start, nx2, pv2)
<1>1. \A i \in 1 .. Len(c) : nx2[c[i]] = nx[c[i]] /\ pv2[c[i]] = pv[c[i]]
  BY ToSetOf
<1> QED
  BY <1>1 DEF IsList, IsChain

(* The neighbours of an event in a list. *)
LEMMA Neighbours ==
  ASSUME NEW c \in Seq(Events), NEW start, NEW nx, NEW pv, IsList(c, start, nx, pv),
         NEW k \in 1 .. Len(c)
  PROVE  /\ Len(c) \in Nat
         /\ pv[c[k]] = IF k = 1 THEN Null ELSE c[k - 1]
         /\ nx[c[k]] = IF k = Len(c) THEN Null ELSE c[k + 1]
         /\ pv[c[k]] \in ToSet(c) \cup {Null} /\ nx[c[k]] \in ToSet(c) \cup {Null}
         /\ start = c[1] /\ (pv[c[k]] = Null <=> k = 1)
<1>1. /\ Len(c) \in Nat /\ c # <<>>
      /\ pv[c[k]] = IF k = 1 THEN Null ELSE c[k - 1]
      /\ nx[c[k]] = IF k = Len(c) THEN Null ELSE c[k + 1]
  BY EmptySeq DEF IsList, IsChain
<1>2. start = c[1]
  BY <1>1 DEF IsList, IsChain
<1>3. k # 1 => k - 1 \in 1 .. Len(c)
  BY <1>1
<1>4. k # Len(c) => k + 1 \in 1 .. Len(c)
  BY <1>1
<1>5. \A i \in 1 .. Len(c) : c[i] \in ToSet(c) /\ c[i] \in Events
  BY ToSetOf, ElementOfSeq
<1> QED
  BY <1>1, <1>2, <1>3, <1>4, <1>5, Constants

(* A list without its event at k, whose neighbours nx2 and pv2 join. *)
Joined(c, k, nx, pv, nx2, pv2) ==
  /\ \A x \in ToSet(c) \ {pv[c[k]]} : nx2[x] = nx[x]
  /\ \A x \in ToSet(c) \ {nx[c[k]]} : pv2[x] = pv[x]
  /\ pv[c[k]] # Null => nx2[pv[c[k]]] = nx[c[k]]
  /\ nx[c[k]] # Null => pv2[nx[c[k]]] = pv[c[k]]

LEMMA ListWithout ==
  ASSUME NEW c \in Seq(Events), NEW start, NEW nx, NEW pv, IsList(c, start, nx, pv),
         NEW k \in 1 .. Len(c), NEW start2, NEW nx2, NEW pv2,
         start2 = IF k = 1 THEN nx[c[1]] ELSE start, Joined(c, k, nx, pv, nx2, pv2)
  PROVE  \E d \in Seq(Events) :
           IsList(d, start2, nx2, pv2) /\ ToSet(d) = ToSet(c) \ {c[k]}
<1> DEFINE n == Len(c)
           At(j) == IF j < k THEN c[j] ELSE c[j + 1]
           d == [j \in 1 .. n - 1 |-> At(j)]
<1>1. n \in Nat /\ n >= 1 /\ k \in 1 .. n /\ n - 1 \in Nat
  OBVIOUS
<1>2. \A i \in 1 .. n : c[i] \in Events /\ c[i] \in ToSet(c) /\ c[i] # Null
  BY ToSetOf, ElementOfSeq, Constants
<1>3. \A i, j \in 1 .. n : c[i] = c[j] => i = j
  BY DEF IsList, IsChain
<1>4. ASSUME NEW j \in 1 .. n - 1
      PROVE  /\ j < k => j \in 1 .. n /\ At(j) = c[j]
             /\ j >= k => j + 1 \in 1 .. n /\ At(j) = c[j + 1]
             /\ At(j) \in Events
  <2>1. j \in 1 .. n /\ j + 1 \in 1 .. n
    BY <1>1
  <2> QED
    BY <1>1, <1>2, <2>1
<1>5. /\ d \in Seq(Events) /\ Len(d) = n - 1
      /\ \A j \in 1 .. n - 1 : d[j] = At(j)
  <2>1. d \in [1 .. n - 1 -> Events]
    BY <1>4
  <2> HIDE DEF d, At, n
  <2>2. d \in Seq(Events) /\ Len(d) = n - 1
    BY <1>1, <2>1
  <2> QED
    BY <2>2 DEF d
<1> HIDE DEF d, At, n
<1>6. /\ pv[c[k]] = IF k = 1 THEN Null ELSE c[k - 1]
      /\ nx[c[k]] = IF k = n THEN Null ELSE c[k + 1]
      /\ start = c[1]
      /\ \A i \in 1 .. n : /\ nx[c[i]] = IF i = n THEN Null ELSE c[i + 1]
                           /\ pv[c[i]] = IF i = 1 THEN Null ELSE c[i - 1]
  BY Neighbours DEF n
<1>7. start2 = IF d = <<>> THEN Null ELSE d[1]
  <2>1. CASE n = 1
    BY <1>1, <1>5, <1>6, <2>1
  <2>2. CASE n # 1
    <3>1. d # <<>> /\ 1 \in 1 .. n - 1
      BY <1>1, <1>5, <2>2
    <3>2. d[1] = IF 1 < k THEN c[1] ELSE c[2]
      BY <1>5, <3>1 DEF At
    <3> QED
      BY <1>1, <1>6, <2>2, <3>1, <3>2
  <2> QED
    BY <2>1, <2>2
<1>8. ASSUME NEW j \in 1 .. n - 1
      PROVE  nx2[d[j]] = IF j = n - 1 THEN Null ELSE d[j + 1]
  <2>0. /\ d[j] = At(j) /\ (j # n - 1 => j + 1 \in 1 .. n - 1 /\ d[j + 1] = At(j + 1))
    BY <1>1, <1>5
  <2>1. CASE j + 1 < k
    <3>1. j \in 1 .. n /\ k - 1 \in 1 .. n /\ j # k - 1 /\ j # n - 1 /\ j # n /\ k # 1 /\ j < k
      BY <1>1, <2>1
    <3>2. c[j] # c[k - 1] /\ c[j] \in ToSet(c)
      BY <1>2, <1>3, <3>1
    <3>3. nx2[c[j]] = c[j + 1]
      BY <1>6, <3>1, <3>2 DEF Joined
    <3> QED
      BY <2>0, <2>1, <3>1, <3>3 DEF At
  <2>2. CASE j + 1 = k
    <3>1. k # 1 /\ j = k - 1 /\ j \in 1 .. n /\ j < k /\ ~(k < k)
      BY <1>1, <2>2
    <3>2. pv[c[k]] = c[j] /\ c[j] # Null
      BY <1>2, <1>6, <3>1
    <3>3. nx2[c[j]] = IF k = n THEN Null ELSE c[k + 1]
      BY <1>6, <3>2 DEF Joined
    <3>4. k = n <=> j = n - 1
      BY <1>1, <3>1
    <3> QED
      BY <2>0, <2>2, <3>1, <3>3, <3>4 DEF At
  <2>3. CASE j >= k
    <3>1. j + 1 \in 1 .. n /\ ~(j < k) /\ ~(j + 1 < k) /\ j + 1 # k - 1 /\ (j + 1 = n <=> j = n - 1)
      BY <1>1, <2>3
    <3>2. k # 1 => k - 1 \in 1 .. n
      BY <1>1
    <3>3. c[j + 1] # pv[c[k]] /\ c[j + 1] \in ToSet(c)
      BY <1>2, <1>3, <1>6, <3>1, <3>2
    <3>4. nx2[c[j + 1]] = IF j + 1 = n THEN Null ELSE c[(j + 1) + 1]
      BY <1>6, <3>1, <3>3 DEF Joined
    <3> QED
      BY <2>0, <3>1, <3>4 DEF At
  <2> QED
    BY <1>1, <2>1, <2>2, <2>3
<1>9. ASSUME NEW j \in 1 .. n - 1
      PROVE  pv2[d[j]] = IF j = 1 THEN Null ELSE d[j - 1]
  <2>0. /\ d[j] = At(j) /\ (j # 1 => j - 1 \in 1 .. n - 1 /\ d[j - 1] = At(j - 1))
    BY <1>1, <1>5
  <2>1. CASE j < k
    <3>1. j \in 1 .. n /\ (k # n => k + 1 \in 1 .. n) /\ j # k + 1 /\ (j # 1 => j - 1 < k)
      BY <1>1, <2>1
    <3>2. c[j] # nx[c[k]] /\ c[j] \in ToSet(c)
      BY <1>2, <1>3, <1>6, <3>1
    <3>3. pv2[c[j]] = IF j = 1 THEN Null ELSE c[j - 1]
      BY <1>6, <3>1, <3>2 DEF Joined
    <3> QED
      BY <2>0, <2>1, <3>1, <3>3 DEF At
  <2>2. CASE j = k
    <3>1. k # n /\ k + 1 \in 1 .. n /\ ~(j < k) /\ (j # 1 => j - 1 < k)
      BY <1>1, <2>2
    <3>2. nx[c[k]] = c[k + 1] /\ c[k + 1] # Null
      BY <1>2, <1>6, <3>1
    <3>3. pv2[c[k + 1]] = IF k = 1 THEN Null ELSE c[k - 1]
      BY <1>6, <3>2 DEF Joined
    <3> QED
      BY <2>0, <2>2, <3>1, <3>3 DEF At
  <2>3. CASE j > k
    <3>1. /\ j + 1 \in 1 .. n /\ k + 1 \in 1 .. n /\ j + 1 # k + 1 /\ j # 1 /\ j + 1 # 1
          /\ ~(j < k) /\ ~(j - 1 < k) /\ (j - 1) + 1 = j /\ (j + 1) - 1 = j
      BY <1>1, <2>3
    <3>2. c[j + 1] # nx[c[k]] /\ c[j + 1] \in ToSet(c)
      BY <1>2, <1>3, <1>6, <3>1
    <3>3. pv2[c[j + 1]] = c[j]
      BY <1>6, <3>1, <3>2 DEF Joined
    <3> QED
      BY <2>0, <3>1, <3>3 DEF At
  <2> QED
    BY <1>1, <2>1, <2>2, <2>3
<1>10. \A i, j \in 1 .. n - 1 : d[i] = d[j] => i = j
  <2> SUFFICES ASSUME NEW i \in 1 .. n - 1, NEW j \in 1 .. n - 1, At(i) = At(j) PROVE i = j
    BY <1>5
  <2>1. i \in 1 .. n /\ i + 1 \in 1 .. n /\ j \in 1 .. n /\ j + 1 \in 1 .. n
    BY <1>1
  <2>2. CASE i < k /\ j < k
    BY <1>3, <2>1, <2>2 DEF At
  <2>3. CASE i < k /\ ~(j < k)
    BY <1>1, <1>3, <2>1, <2>3 DEF At
  <2>4. CASE ~(i < k) /\ j < k
    BY <1>1, <1>3, <2>1, <2>4 DEF At
  <2>5. CASE ~(i < k) /\ ~(j < k)
    BY <1>1, <1>3, <2>1, <2>5 DEF At
  <2> QED
    BY <2>2, <2>3, <2>4, <2>5
<1>11. ToSet(d) = ToSet(c) \ {c[k]}
  <2>1. \A j \in 1 .. n - 1 : d[j] \in ToSet(c) \ {c[k]}
    <3> SUFFICES ASSUME NEW j \in 1 .. n - 1 PROVE At(j) \in ToSet(c) /\ At(j) # c[k]
      BY <1>5
    <3>1. j \in 1 .. n /\ j + 1 \in 1 .. n
      BY <1>1
    <3> QED
      BY <1>1, <1>2, <1>3, <3>1 DEF At
  <2>2. ASSUME NEW i \in 1 .. n, i # k PROVE \E j \in 1 .. n - 1 : d[j] = c[i]
    <3>1. CASE i < k
      BY <1>1, <1>5, <3>1 DEF At
    <3>2. CASE i > k
      <4>1. i - 1 \in 1 .. n - 1 /\ ~(i - 1 < k) /\ (i - 1) + 1 = i
        BY <1>1, <3>2
      <4> QED
        BY <1>5, <4>1 DEF At
    <3> QED
      BY <1>1, <2>2, <3>1, <3>2
  <2>3. ToSet(d) = {d[j] : j \in 1 .. n - 1} /\ ToSet(c) = {c[i] : i \in 1 .. n}
    BY <1>5, ToSetOf DEF n
  <2> QED
    BY <2>1, <2>2, <2>3
<1>12. IsList(d, start2, nx2, pv2)
  BY <1>5, <1>7, <1>8, <1>9, <1>10 DEF IsList, IsChain
<1> QED
  BY <1>5, <1>11, <1>12

ListsTyped(h, sl, nx, pv) ==
  /\ h \in [Slots -> EventOrNull] /\ sl \in [Events -> Slots \cup {NoSlot}]
  /\ nx \in [Events -> EventOrNull] /\ pv \in [Events -> EventOrNull]

(* relink's first half, and pop_event: an event leaves its list. *)
HeadWithout(h, s, e, nx, pv) == IF pv[e] = Null THEN [h EXCEPT ![s] = nx[e]] ELSE h

LEMMA TakenOut ==
  ASSUME NEW h, NEW sl, NEW nx, NEW pv, ListsTyped(h, sl, nx, pv), Whole(h, sl, nx, pv),
         NEW e \in Events, sl[e] \in Slots
  PROVE  Whole(HeadWithout(h, sl[e], e, nx, pv), [sl EXCEPT ![e] = NoSlot],
               Store(nx, pv[e], nx[e]), Store(pv, nx[e], pv[e]))
<1> DEFINE s == sl[e]
           h2 == HeadWithout(h, s, e, nx, pv)
           sl2 == [sl EXCEPT ![e] = NoSlot]
           nx2 == Store(nx, pv[e], nx[e])
           pv2 == Store(pv, nx[e], pv[e])
<1>1. PICK c \in Seq(Events) : IsList(c, h[s], nx, pv) /\ ToSet(c) = {x \in Events : sl[x] = s}
  BY DEF Whole
<1>2. PICK k \in 1 .. Len(c) : e = c[k]
  BY <1>1, ToSetOf
<1>3. /\ pv[e] \in ToSet(c) \cup {Null} /\ nx[e] \in ToSet(c) \cup {Null}
      /\ h[s] = c[1] /\ (pv[e] = Null <=> k = 1)
  BY <1>1, <1>2, Neighbours
<1>4. /\ \A x \in Events : nx2[x] = IF x = pv[e] THEN nx[e] ELSE nx[x]
      /\ \A x \in Events : pv2[x] = IF x = nx[e] THEN pv[e] ELSE pv[x]
      /\ \A x \in Events : sl2[x] = IF x = e THEN NoSlot ELSE sl[x]
      /\ \A t \in Slots : h2[t] = IF t = s /\ k = 1 THEN nx[e] ELSE h[t]
  BY <1>3, Constants DEF Store, HeadWithout, ListsTyped
<1> SUFFICES ASSUME NEW t \in Slots
             PROVE  \E d \in Seq(Events) :
                      IsList(d, h2[t], nx2, pv2) /\ ToSet(d) = {x \in Events : sl2[x] = t}
  BY DEF Whole
<1> HIDE DEF h2, sl2, nx2, pv2, s
<1>5. CASE t = s
  <2>1. h2[s] = IF k = 1 THEN nx[c[1]] ELSE h[s]
    BY <1>2, <1>4, <1>5
  <2>2. PICK d \in Seq(Events) : IsList(d, h2[s], nx2, pv2) /\ ToSet(d) = ToSet(c) \ {c[k]}
    <3>1. ToSet(c) \subseteq Events
      BY <1>1
    <3>2. Joined(c, k, nx, pv, nx2, pv2)
      BY <1>2, <1>3, <1>4, <3>1 DEF Joined
    <3> QED
      BY <1>1, <2>1, <3>2, ListWithout
  <2>3. {x \in Events : sl2[x] = s} = {x \in Events : sl[x] = s} \ {e}
    BY <1>4, <1>5, Constants
  <2> QED
    BY <1>1, <1>2, <1>5, <2>2, <2>3
<1>6. CASE t # s
  <2>1. PICK d \in Seq(Events) :
          IsList(d, h[t], nx, pv) /\ ToSet(d) = {x \in Events : sl[x] = t}
    BY DEF Whole
  <2>2. \A x \in ToSet(d) : x \in Events /\ sl[x] = t /\ x # pv[e] /\ x # nx[e] /\ x # e
    BY <1>1, <1>3, <1>6, <2>1, Constants DEF s
  <2>3. IsList(d, h2[t], nx2, pv2)
    <3>1. \A x \in ToSet(d) : nx2[x] = nx[x] /\ pv2[x] = pv[x]
      BY <1>4, <2>2
    <3> QED
      BY <1>4, <1>6, <2>1, <3>1, ListKept
  <2>4. {x \in Events : sl2[x] = t} = {x \in Events : sl[x] = t}
    BY <1>4, <1>6, Constants DEF s
  <2> QED
    BY <2>1, <2>3, <2>4
<1> QED
  BY <1>5, <1>6

(* relink's second half: an event that is in no list comes in front. *)
LEMMA PutInFront ==
  ASSUME NEW h, NEW sl, NEW nx, NEW pv, ListsTyped(h, sl, nx, pv), Whole(h, sl, nx, pv),
         NEW e \in Events, sl[e] = NoSlot, NEW s \in Slots
  PROVE  Whole([h EXCEPT ![s] = e], [sl EXCEPT ![e] = s],
               [nx EXCEPT ![e] = h[s]], [Store(pv, h[s], e) EXCEPT ![e] = Null])
<1> DEFINE h2 == [h EXCEPT ![s] = e]
           sl2 == [sl EXCEPT ![e] = s]
           nx2 == [nx EXCEPT ![e] = h[s]]
           pv2 == [Store(pv, h[s], e) EXCEPT ![e] = Null]
<1>1. PICK c \in Seq(Events) : IsList(c, h[s], nx, pv) /\ ToSet(c) = {x \in Events : sl[x] = s}
  BY DEF Whole
<1>2. e \notin ToSet(c) /\ h[s] \in ToSet(c) \cup {Null}
  <2>1. e \notin ToSet(c)
    BY <1>1, Constants
  <2>2. CASE c = <<>>
    BY <1>1, <2>1, <2>2 DEF IsList, IsChain
  <2>3. CASE c # <<>>
    <3>1. 1 \in 1 .. Len(c)
      BY <2>3, EmptySeq
    <3> QED
      BY <1>1, <2>1, <2>3, <3>1, ToSetOf DEF IsList, IsChain
  <2> QED
    BY <2>2, <2>3
<1>3. /\ \A x \in Events : nx2[x] = IF x = e THEN h[s] ELSE nx[x]
      /\ \A x \in Events : pv2[x] = IF x = e THEN Null ELSE IF x = h[s] THEN e ELSE pv[x]
      /\ \A x \in Events : sl2[x] = IF x = e THEN s ELSE sl[x]
      /\ \A t \in Slots : h2[t] = IF t = s THEN e ELSE h[t]
  BY Constants DEF Store, ListsTyped
<1> SUFFICES ASSUME NEW t \in Slots
             PROVE  \E d \in Seq(Events) :
                      IsList(d, h2[t], nx2, pv2) /\ ToSet(d) = {x \in Events : sl2[x] = t}
  BY DEF Whole
<1> HIDE DEF h2, sl2, nx2, pv2
<1>4. CASE t = s
  <2>1. ToSet(c) \subseteq Events /\ \A x \in ToSet(c) : nx2[x] = nx[x]
    BY <1>1, <1>2, <1>3
  <2>2. IsChain(c, h[s], nx2, Null)
    BY <1>1, <2>1, ToSetOf DEF IsList, IsChain
  <2> DEFINE d == <<e>> \o c
  <2>3. /\ d \in Seq(Events) /\ Len(d) = Len(c) + 1 /\ d[1] = e
        /\ \A i \in 1 .. Len(c) : d[i + 1] = c[i]
        /\ IsChain(d, e, nx2, Null) /\ ToSet(d) = {e} \cup ToSet(c)
    BY <1>2, <1>3, <2>2, LongerChain
  <2> HIDE DEF d
  <2>4. ASSUME NEW i \in 1 .. Len(d) PROVE pv2[d[i]] = IF i = 1 THEN Null ELSE d[i - 1]
    <3>1. CASE i = 1
      BY <1>3, <2>3, <3>1
    <3>2. CASE i # 1
      <4>1. /\ i - 1 \in 1 .. Len(c) /\ (i - 1) + 1 = i /\ Len(c) \in Nat
            /\ (i # 2 => (i - 1) - 1 \in 1 .. Len(c) /\ ((i - 1) - 1) + 1 = i - 1)
        BY <2>3, <3>2
      <4>2. d[i] = c[i - 1] /\ c[i - 1] \in ToSet(c) /\ c[i - 1] \in Events /\ c[i - 1] # e
        BY <1>2, <2>3, <4>1, ToSetOf, ElementOfSeq
      <4>3. CASE i = 2
        <5>1. c # <<>> /\ h[s] = c[1]
          BY <1>1, <4>1 DEF IsList, IsChain
        <5> QED
          BY <1>3, <2>3, <4>2, <4>3, <5>1
      <4>4. CASE i # 2
        <5>1. h[s] = c[1] /\ 1 \in 1 .. Len(c) /\ pv[c[i - 1]] = c[(i - 1) - 1]
          BY <1>1, <4>1, <4>4 DEF IsList, IsChain
        <5>2. c[i - 1] # h[s]
          BY <1>1, <4>1, <4>4, <5>1 DEF IsList, IsChain
        <5>3. d[i - 1] = c[(i - 1) - 1]
          BY <2>3, <4>1, <4>4
        <5> QED
          BY <1>3, <3>2, <4>2, <5>1, <5>2, <5>3
      <4> QED
        BY <4>3, <4>4
    <3> QED
      BY <3>1, <3>2
  <2>5. {x \in Events : sl2[x] = s} = {e} \cup {x \in Events : sl[x] = s}
    BY <1>3
  <2>6. IsList(d, h2[s], nx2, pv2)
    BY <1>3, <2>3, <2>4 DEF IsList
  <2> QED
    BY <1>1, <1>4, <2>3, <2>5, <2>6
<1>5. CASE t # s
  <2>1. PICK d \in Seq(Events) :
          IsList(d, h[t], nx, pv) /\ ToSet(d) = {x \in Events : sl[x] = t}
    BY DEF Whole
  <2>2. \A x \in ToSet(d) : x \in Events /\ x # e /\ x # h[s]
    BY <1>1, <1>2, <1>5, <2>1, Constants
  <2>3. IsList(d, h2[t], nx2, pv2)
    <3>1. \A x \in ToSet(d) : nx2[x] = nx[x] /\ pv2[x] = pv[x]
      BY <1>3, <2>2
    <3> QED
      BY <1>3, <1>5, <2>1, <3>1, ListKept
  <2>4. {x \in Events : sl2[x] = t} = {x \in Events : sl[x] = t}
    BY <1>3, <1>5, Constants
  <2> QED
    BY <2>1, <2>3, <2>4
<1> QED
  BY <1>4, <1>5

(* The links of an event that is in no list do not matter. *)
LEMMA FreeLinks ==
  ASSUME NEW h, NEW sl, NEW nx, NEW pv, Whole(h, sl, nx, pv), NEW nx2, NEW e, sl[e] = NoSlot,
         \A x \in Events \ {e} : nx2[x] = nx[x]
  PROVE  Whole(h, sl, nx2, pv)
<1> SUFFICES ASSUME NEW t \in Slots
             PROVE  \E d \in Seq(Events) :
                      IsList(d, h[t], nx2, pv) /\ ToSet(d) = {x \in Events : sl[x] = t}
  BY DEF Whole
<1>1. PICK d \in Seq(Events) :
        IsList(d, h[t], nx, pv) /\ ToSet(d) = {x \in Events : sl[x] = t}
  BY DEF Whole
<1>2. \A x \in ToSet(d) : x \in Events /\ x # e
  BY <1>1, Constants
<1>3. IsList(d, h[t], nx2, pv)
  BY <1>1, <1>2, ListKept
<1> QED
  BY <1>1, <1>3

LEMMA WholeListsAgree ==
  ASSUME ListsTyped(head, slot, next, prev), Whole(head, slot, next, prev)
  PROVE  ListsAgree
<1>1. ASSUME NEW s \in Slots PROVE Chain(head[s]) = {e \in Events : slot[e] = s}
  <2>1. PICK c \in Seq(Events) :
          IsList(c, head[s], next, prev) /\ ToSet(c) = {x \in Events : slot[x] = s}
    BY DEF Whole
  <2>2. Linked(head[s], next, Events, Null) = ToSet(c)
    BY <2>1, Constants, LinkedIsChain DEF IsList
  <2> QED
    BY <2>1, <2>2 DEF Chain
<1>2. ASSUME NEW e \in Events, slot[e] # NoSlot
      PROVE  /\ (prev[e] = Null) = (head[slot[e]] = e)
             /\ prev[e] # Null => next[prev[e]] = e
  <2> DEFINE s == slot[e]
  <2>1. s \in Slots
    BY <1>2 DEF ListsTyped
  <2>2. PICK c \in Seq(Events) :
          IsList(c, head[s], next, prev) /\ ToSet(c) = {x \in Events : slot[x] = s}
    BY <2>1 DEF Whole
  <2>3. PICK k \in 1 .. Len(c) : e = c[k]
    BY <2>2, ToSetOf
  <2>4. /\ Len(c) \in Nat /\ head[s] = c[1] /\ (prev[e] = Null <=> k = 1)
        /\ prev[e] = IF k = 1 THEN Null ELSE c[k - 1]
    BY <2>2, <2>3, Neighbours
  <2>5. c[1] = c[k] <=> k = 1
    BY <2>2, <2>4 DEF IsList, IsChain
  <2>6. CASE k # 1
    <3>1. k - 1 \in 1 .. Len(c) /\ k - 1 # Len(c) /\ (k - 1) + 1 = k
      BY <2>4, <2>6
    <3>2. next[c[k - 1]] = c[k]
      BY <2>2, <3>1, Neighbours
    <3> QED
      BY <2>3, <2>4, <2>5, <2>6, <3>2
  <2> QED
    BY <2>3, <2>4, <2>5, <2>6
<1> QED
  BY <1>1, <1>2 DEF ListsAgree

(* The lists between the steps of relink, if no signal spoils them: as     *)
(* they were before it, without the event, or, from the write that makes   *)
(* it the neighbour of the first event on, as they will be when it is done.*)
Left == [slot EXCEPT ![call.event] = NoSlot]
Moved == [slot EXCEPT ![call.event] = call.slot]
NoPrev == [prev EXCEPT ![call.event] = Null]

Skipped ==
  IF call.before = Null THEN [head EXCEPT ![slot[call.event]] = call.after] ELSE head

RelinkInv ==
  /\ mpc \in {"idle", "clock", "stamp", "level", "relink", "unlink"} =>
       Whole(head, slot, next, prev)
  /\ mpc \in {"unlink", "join"} => slot[call.event] \in Slots
  /\ mpc = "unlink" => call.before = prev[call.event] /\ call.after = next[call.event]
  /\ mpc = "join" => Whole(Skipped, Left, Store(next, call.before, call.after), prev)
  /\ mpc \in {"read", "next", "back"} => Whole(head, Left, next, prev)
  /\ mpc \in {"next", "back"} => call.after = head[call.slot]
  /\ mpc = "back" => next[call.event] = call.after
  /\ mpc = "head" => Whole([head EXCEPT ![call.slot] = call.event], Moved, next, NoPrev)
  /\ mpc = "prev" => Whole(head, Moved, next, NoPrev)
  /\ mpc = "slot" => Whole(head, Moved, next, prev)
  /\ mpc # "dead"

ListInv == TypeInv /\ RelinkInv

(* A signal that only looks at the lists while relink changes one, or that *)
(* comes before relink has read anything, leaves them whole.               *)
UnspoiltInv == TypeInv /\ (struck # "relink" => RelinkInv)

LEMMA InitListInv == Init => ListInv
<1> SUFFICES ASSUME Init PROVE RelinkInv
  BY InitTypeInv DEF ListInv
<1>1. Whole(head, slot, next, prev)
  <2> SUFFICES ASSUME NEW s \in Slots
               PROVE  \E c \in Seq(Events) :
                        IsList(c, head[s], next, prev) /\ ToSet(c) = {e \in Events : slot[e] = s}
    BY DEF Whole
  <2>1. <<>> \in Seq(Events) /\ ToSet(<<>>) = {} /\ IsList(<<>>, head[s], next, prev)
    BY DEF Init, ToSet, IsList, IsChain
  <2>2. {e \in Events : slot[e] = s} = {}
    BY Constants DEF Init
  <2> QED
    BY <2>1, <2>2
<1> QED
  BY <1>1 DEF Init, RelinkInv

LEMMA TypedLists ==
  ASSUME TypeOK
  PROVE  ListsTyped(head, slot, next, prev)
BY DEF TypeOK, ListsTyped

LEMMA StartKeepsLists ==
  ListInv /\ (StartTick \/ SetNow \/ (\E e, delta : Schedule(e, delta)) \/ Stamp
              \/ NextLevelUp \/ ChooseSlot)
  => RelinkInv'
<1> SUFFICES ASSUME ListInv,
                    \/ StartTick \/ SetNow \/ (\E e, delta : Schedule(e, delta)) \/ Stamp
                    \/ NextLevelUp \/ ChooseSlot
             PROVE  RelinkInv'
  OBVIOUS
<1>1. /\ mpc \in {"idle", "clock", "stamp", "level"}
      /\ mpc' \in {"idle", "clock", "stamp", "level", "relink"}
      /\ UNCHANGED lists
  <2>1. CASE StartTick \/ SetNow
    BY <2>1 DEF StartTick, SetNow, Goto
  <2>2. ASSUME NEW e, NEW delta, Schedule(e, delta)
        PROVE  mpc = "idle" /\ mpc' = "stamp" /\ UNCHANGED lists
    BY <2>2 DEF Schedule, Goto
  <2>3. CASE Stamp \/ NextLevelUp \/ ChooseSlot
    BY <2>3 DEF Stamp, NextLevelUp, ChooseSlot, Goto
  <2> QED
    BY <2>1, <2>2, <2>3
<1>2. Whole(head', slot', next', prev')
  BY <1>1 DEF ListInv, RelinkInv, lists
<1> QED
  BY <1>1, <1>2 DEF RelinkInv

LEMMA EnterKeepsLists == ListInv /\ EnterRelink => RelinkInv'
<1> SUFFICES ASSUME ListInv, EnterRelink PROVE RelinkInv'
  OBVIOUS
<1> DEFINE e == call.event
<1>1. /\ mpc = "relink" /\ UNCHANGED <<head, slot, next, prev>>
      /\ e \in Events /\ Whole(head, slot, next, prev) /\ slot[e] \in Slots \cup {NoSlot}
  BY DEF EnterRelink, lists, ListInv, RelinkInv, TypeInv, CallHasEvent, TypeOK
<1>2. CASE mpc' = "idle"
  BY <1>1, <1>2 DEF RelinkInv
<1>3. CASE mpc' = "unlink"
  <2>1. /\ slot[e] # NoSlot /\ call'.event = e
        /\ call'.before = prev[e] /\ call'.after = next[e]
    BY <1>3 DEF EnterRelink, Goto, ListInv, TypeInv, TypeOK
  <2> QED
    BY <1>1, <1>3, <2>1 DEF RelinkInv
<1>4. CASE mpc' = "read"
  <2>1. slot[e] = NoSlot /\ call'.event = e
    BY <1>4 DEF EnterRelink, Goto, ListInv, TypeInv, TypeOK
  <2>2. Left' = slot
    BY <1>1, <2>1 DEF Left, ListInv, TypeInv, TypeOK
  <2> QED
    BY <1>1, <1>4, <2>2 DEF RelinkInv
<1> QED
  BY <1>2, <1>3, <1>4 DEF EnterRelink, Goto

LEMMA RelinkKeepsLists == ListInv /\ RelinkStep => RelinkInv'
<1> SUFFICES ASSUME ListInv, RelinkStep PROVE RelinkInv'
  OBVIOUS
<1> DEFINE e == call.event
           s == call.slot
<1>1. /\ e \in Events /\ s \in Slots /\ level' = NoLevel
      /\ ListsTyped(head, slot, next, prev) /\ call \in CallType
  BY TypedLists DEF RelinkStep, JoinAfter, Unlink, ReadHead, LinkNext, LinkBack, LinkHead, ClearPrev, SetSlot,
     Goto, ListInv, TypeInv, TypeOK, CallHasEvent, Relinking, CallType
<1>2. ListsTyped(head, Left, next, prev) /\ Left[e] = NoSlot
  BY <1>1 DEF Left, ListsTyped
<1>0. CASE JoinAfter
  <2>1. /\ Whole(head, slot, next, prev) /\ slot[e] \in Slots /\ mpc' = "join"
        /\ call.before = prev[e] /\ call.after = next[e]
        /\ prev' = Store(prev, next[e], prev[e]) /\ UNCHANGED <<head, slot, next, call>>
    BY <1>0 DEF JoinAfter, PrevJoined, Goto, ListInv, RelinkInv
  <2>2. Whole(HeadWithout(head, slot[e], e, next, prev), Left, Store(next, prev[e], next[e]), prev')
    BY <1>1, <2>1, TakenOut DEF Left
  <2>3. Skipped' = HeadWithout(head, slot[e], e, next, prev) /\ Left' = Left
    BY <2>1 DEF Skipped, HeadWithout, Left
  <2> QED
    BY <2>1, <2>2, <2>3 DEF RelinkInv
<1>3. CASE Unlink
  <2>1. /\ Whole(Skipped, Left, Store(next, call.before, call.after), prev)
        /\ slot[e] \in Slots
    BY <1>3 DEF Unlink, ListInv, RelinkInv
  <2>2. /\ next' = Store(next, call.before, call.after) /\ head' = Skipped
        /\ UNCHANGED <<slot, prev, call>> /\ mpc' = "read"
    BY <1>3, <2>1, Constants DEF Unlink, Goto, Skipped
  <2>3. Left' = Left
    BY <2>2 DEF Left
  <2> QED
    BY <2>1, <2>2, <2>3 DEF RelinkInv
<1>4. CASE ReadHead
  <2>1. /\ Whole(head, Left, next, prev) /\ mpc' = "next"
        /\ call' = [call EXCEPT !.after = head[s]] /\ UNCHANGED <<head, slot, next, prev>>
    BY <1>4 DEF ReadHead, Goto, lists, ListInv, RelinkInv
  <2>2. call'.event = e /\ call'.slot = s /\ call'.after = head[s]
    BY <1>1, <2>1 DEF CallType
  <2>3. Left' = Left
    BY <2>1, <2>2 DEF Left
  <2> QED
    BY <1>1, <2>1, <2>2, <2>3 DEF RelinkInv
<1>5. CASE LinkNext
  <2>1. /\ Whole(head, Left, next, prev) /\ mpc' = "back" /\ call.after = head[s]
        /\ next' = [next EXCEPT ![e] = call.after] /\ UNCHANGED <<head, slot, prev, call>>
    BY <1>5 DEF LinkNext, Goto, ListInv, RelinkInv
  <2>2. next'[e] = call.after /\ \A x \in Events \ {e} : next'[x] = next[x]
    BY <1>1, <2>1 DEF ListsTyped
  <2>3. Whole(head, Left, next', prev)
    BY <1>2, <2>1, <2>2, FreeLinks
  <2>4. Left' = Left
    BY <2>1 DEF Left
  <2> QED
    BY <1>1, <2>1, <2>2, <2>3, <2>4 DEF RelinkInv
<1>6. CASE LinkBack
  <2>1. /\ Whole(head, Left, next, prev) /\ mpc' = "head"
        /\ call.after = head[s] /\ next[e] = head[s]
        /\ prev' = Store(prev, head[s], e) /\ UNCHANGED <<head, slot, next, call>>
    BY <1>6 DEF LinkBack, Goto, ListInv, RelinkInv
  <2>2. Whole([head EXCEPT ![s] = e], [Left EXCEPT ![e] = s], [next EXCEPT ![e] = head[s]],
              [Store(prev, head[s], e) EXCEPT ![e] = Null])
    BY <1>1, <1>2, <2>1, PutInFront
  <2>3. [next EXCEPT ![e] = head[s]] = next /\ [Left EXCEPT ![e] = s] = Moved
    BY <1>1, <2>1 DEF ListsTyped, Left, Moved
  <2>4. Moved' = Moved /\ NoPrev' = [Store(prev, head[s], e) EXCEPT ![e] = Null]
    BY <2>1 DEF Moved, NoPrev
  <2> QED
    BY <1>1, <2>1, <2>2, <2>3, <2>4 DEF RelinkInv
<1>7. CASE LinkHead
  BY <1>1, <1>7 DEF LinkHead, Goto, ListInv, RelinkInv, Moved, NoPrev
<1>8. CASE ClearPrev
  BY <1>1, <1>8 DEF ClearPrev, Goto, ListInv, RelinkInv, Moved, NoPrev
<1>9. CASE SetSlot
  BY <1>1, <1>9 DEF SetSlot, Goto, ListInv, RelinkInv, Moved, NoPrev
<1> QED
  BY <1>0, <1>3, <1>4, <1>5, <1>6, <1>7, <1>8, <1>9 DEF RelinkStep

(* pop_event. *)
LEMMA PopKeepsLists ==
  ASSUME ListInv, mpc \notin Relinking, level \in Levels, First # Null
  PROVE  LET e == First
             s == CurrentSlot
         IN /\ e \in Events /\ s \in Slots /\ slot[e] = s /\ prev[e] = Null
            /\ Whole(HeadsPopped, [slot EXCEPT ![e] = NoSlot], next, PrevPopped)
            /\ ListsTyped(HeadsPopped, [slot EXCEPT ![e] = NoSlot], next, PrevPopped)
<1> DEFINE e == First
           s == CurrentSlot
<1>1. /\ e \in Events /\ s \in Slots /\ Whole(head, slot, next, prev)
      /\ ListsTyped(head, slot, next, prev)
  BY CurrentSlotIsSlot, TypedLists, Constants
     DEF ListInv, TypeInv, RelinkInv, Relinking, TypeOK, EventOrNull
<1>2. PICK c \in Seq(Events) :
        IsList(c, head[s], next, prev) /\ ToSet(c) = {x \in Events : slot[x] = s}
  BY <1>1 DEF Whole
<1>3. c # <<>> /\ e = c[1] /\ 1 \in 1 .. Len(c)
  BY <1>2, EmptySeq DEF IsList, IsChain, First
<1>4. slot[e] = s /\ prev[e] = Null
  BY <1>1, <1>2, <1>3, ToSetOf DEF IsList
<1>5. /\ HeadWithout(head, s, e, next, prev) = HeadsPopped
      /\ Store(next, prev[e], next[e]) = next
      /\ Store(prev, next[e], prev[e]) = PrevPopped
  BY <1>4 DEF HeadWithout, Store, HeadsPopped, PrevPopped
<1>6. Whole(HeadsPopped, [slot EXCEPT ![e] = NoSlot], next, PrevPopped)
  <2>1. slot[e] \in Slots
    BY <1>1, <1>4
  <2>2. Whole(HeadWithout(head, slot[e], e, next, prev), [slot EXCEPT ![e] = NoSlot],
              Store(next, prev[e], next[e]), Store(prev, next[e], prev[e]))
    BY <1>1, <2>1, TakenOut
  <2> QED
    BY <1>4, <1>5, <2>2
<1>7. ListsTyped(HeadsPopped, [slot EXCEPT ![e] = NoSlot], next, PrevPopped)
  BY <1>1, StoreTypes DEF ListsTyped, HeadsPopped, PrevPopped, EventOrNull
<1> QED
  BY <1>1, <1>4, <1>6, <1>7

LEMMA HandlerKeepsLists == ListInv /\ HandlerStep /\ struck' # "relink" => RelinkInv'
<1> SUFFICES ASSUME ListInv, HandlerStep, struck' # "relink" PROVE RelinkInv'
  OBVIOUS
<1>1. level \in Levels /\ mpc' = mpc /\ call' = call
  BY DEF HandlerStep, NextLevel, Execute, Cascade, HandlerFrame, ListInv, TypeInv, TypeOK
<1>a. CASE UNCHANGED lists
  BY <1>1, <1>a DEF lists, ListInv, RelinkInv, Skipped, Left, Moved, NoPrev
<1>b. ~UNCHANGED lists => mpc \notin Relinking
  BY DEF HandlerStep, NextLevel, Execute, Cascade, StruckByPop
<1> SUFFICES ASSUME mpc \notin Relinking PROVE RelinkInv'
  BY <1>a, <1>b
<1>c. mpc \in {"idle", "clock", "stamp", "level", "relink"} /\ Whole(head, slot, next, prev)
  BY DEF ListInv, RelinkInv, Relinking, TypeInv, TypeOK
<1> SUFFICES Whole(head', slot', next', prev')
  BY <1>1, <1>c DEF RelinkInv
<1> DEFINE e == First
           out == [slot EXCEPT ![e] = NoSlot]
<1>2. CASE NextLevel
  BY <1>c, <1>2 DEF NextLevel, lists
<1>3. e # Null => /\ e \in Events
                  /\ Whole(HeadsPopped, out, next, PrevPopped)
                  /\ ListsTyped(HeadsPopped, out, next, PrevPopped)
                  /\ out[e] = NoSlot
  BY <1>1, PopKeepsLists DEF ListInv, TypeInv, TypeOK
<1>4. CASE Execute
  <2>1. /\ e # Null /\ head' = HeadsPopped /\ prev' = PrevPopped
        /\ slot' = out /\ next' = [next EXCEPT ![e] = Null]
    BY <1>4 DEF Execute
  <2>2. \A x \in Events \ {e} : next'[x] = next[x]
    BY <1>3, <2>1 DEF ListsTyped
  <2> HIDE DEF e, out
  <2> QED
    BY <1>3, <2>1, <2>2, FreeLinks
<1>5. CASE Cascade
  <2> DEFINE s == SlotFor(scheduled_at[e] - m_now[0])
  <2>1. /\ e # Null /\ ~Due(e)
        /\ head' = [HeadsPopped EXCEPT ![s] = e]
        /\ next' = [next EXCEPT ![e] = HeadsPopped[s]]
        /\ prev' = [Store(PrevPopped, HeadsPopped[s], e) EXCEPT ![e] = Null]
        /\ slot' = [slot EXCEPT ![e] = s]
    BY <1>5 DEF Cascade
  <2>2. s \in Slots
    BY <1>1, <1>3, <2>1, CascadeSlot DEF ListInv
  <2>3. [out EXCEPT ![e] = s] = [slot EXCEPT ![e] = s]
    BY <1>3, <2>1 DEF ListInv, TypeInv, TypeOK
  <2> HIDE DEF e, s, out
  <2>4. Whole([HeadsPopped EXCEPT ![s] = e], [out EXCEPT ![e] = s],
              [next EXCEPT ![e] = HeadsPopped[s]],
              [Store(PrevPopped, HeadsPopped[s], e) EXCEPT ![e] = Null])
    BY <1>3, <2>1, <2>2, PutInFront
  <2> QED
    BY <2>1, <2>3, <2>4
<1> QED
  BY <1>2, <1>4, <1>5 DEF HandlerStep

LEMMA ThreadStaysAhead == ThreadStep => level' = NoLevel /\ UNCHANGED struck
<1>1. StartTick \/ SetNow \/ Stamp => level' = NoLevel /\ UNCHANGED struck
  BY DEF StartTick, SetNow, Stamp, Goto
<1>2. NextLevelUp \/ ChooseSlot \/ EnterRelink => level' = NoLevel /\ UNCHANGED struck
  BY DEF NextLevelUp, ChooseSlot, EnterRelink, Goto
<1>3. RelinkStep => level' = NoLevel /\ UNCHANGED struck
  BY DEF RelinkStep, JoinAfter, Unlink, ReadHead, LinkNext, LinkBack, LinkHead, ClearPrev,
         SetSlot, Goto
<1>4. ASSUME NEW e \in Events, NEW delta \in Deltas, Schedule(e, delta)
      PROVE  level' = NoLevel /\ UNCHANGED struck
  BY <1>4 DEF Schedule, Goto
<1> QED
  BY <1>1, <1>2, <1>3, <1>4 DEF ThreadStep

LEMMA StaysStruck ==
  [Next]_vars => /\ struck = "relink" => struck' = "relink"
                 /\ struck # "never" => struck' # "never"
<1> SUFFICES ASSUME [Next]_vars
             PROVE  /\ struck = "relink" => struck' = "relink"
                    /\ struck # "never" => struck' # "never"
  OBVIOUS
<1>1. CASE ThreadStep
  BY <1>1, ThreadStaysAhead
<1>2. CASE Signal
  BY <1>2 DEF Signal
<1>3. CASE HandlerStep
  BY <1>3 DEF HandlerStep, NextLevel, Execute, Cascade, StruckByPop
<1>4. CASE UNCHANGED vars
  BY <1>4 DEF vars
<1> QED
  BY <1>1, <1>2, <1>3, <1>4 DEF Next

LEMMA StepUnspoiltInv == UnspoiltInv /\ [Next]_vars => UnspoiltInv'
<1> SUFFICES ASSUME UnspoiltInv, [Next]_vars, struck' # "relink" PROVE RelinkInv'
  BY StepTypeInv DEF UnspoiltInv
<1>1. struck # "relink"
  BY StaysStruck
<1>2. ListInv
  BY <1>1 DEF UnspoiltInv, ListInv
<1>3. CASE Signal \/ UNCHANGED vars
  <2>1. UNCHANGED <<head, slot, next, prev, mpc, call>>
    BY <1>3 DEF Signal, lists, vars
  <2> QED
    BY <1>2, <2>1 DEF ListInv, RelinkInv, Skipped, Left, Moved, NoPrev
<1> QED
  BY <1>2, <1>3, StartKeepsLists, EnterKeepsLists, RelinkKeepsLists, HandlerKeepsLists
     DEF Next, ThreadStep

THEOREM UnspoiltInvariant == Spec => []UnspoiltInv
<1>1. Init => UnspoiltInv
  BY InitListInv DEF ListInv, UnspoiltInv
<1> QED
  BY <1>1, StepUnspoiltInv, PTL DEF Spec

(* The lists have just the events whose m_slot says so, in both            *)
(* directions, whatever relink, pop_event and the way down the levels have *)
(* done to them, and although signals come while schedule runs: until the  *)
(* handler takes an event from a list while relink changes one             *)
(* (timerwheel.cpp:188-220), which timer_signal shows to spoil them.       *)
THEOREM ListsStayWhole == Spec => []ListsAgree
<1>1. UnspoiltInv => ListsAgree
  <2>1. ListInv /\ Quiet => ListsAgree
    BY TypedLists, WholeListsAgree DEF ListInv, TypeInv, RelinkInv, Quiet
  <2>2. ~(Quiet /\ struck # "relink") => ListsAgree
    BY DEF ListsAgree
  <2> QED
    BY <2>1, <2>2 DEF UnspoiltInv, ListInv
<1> QED
  BY <1>1, UnspoiltInvariant, PTL

-----------------------------------------------------------------------------
(***************************************************************************)
(* Arithmetic of the levels.                                               *)
(***************************************************************************)
LEMMA QuotientIs ==
  ASSUME NEW n \in Nat, NEW a \in Nat \ {0}, NEW q \in Nat, NEW r \in 0 .. a - 1,
         n = a * q + r
  PROVE  n \div a = q /\ n % a = r
<1> DEFINE p == n \div a
<1>1. p \in Nat /\ n % a \in 0 .. a - 1 /\ n = a * p + (n % a)
  BY Division
<1>2. p <= q
  BY DivisionBelow
<1> HIDE DEF p
<1>3. CASE p < q
  <2>1. a * q >= a * (p + 1) /\ a * (p + 1) = a * p + a
    BY <1>1, <1>3
  <2> QED
    BY <1>1, <2>1
<1>4. CASE p = q
  BY <1>1, <1>4 DEF p
<1> QED
  BY <1>1, <1>2, <1>3, <1>4

LEMMA QuotientMonotone ==
  ASSUME NEW m \in Nat, NEW n \in Nat, NEW a \in Nat \ {0}, m <= n
  PROVE  m \div a <= n \div a
<1> DEFINE q == n \div a
<1>1. q \in Nat /\ n % a \in 0 .. a - 1 /\ n = a * q + (n % a)
  BY Division
<1> HIDE DEF q
<1>2. a * q \in Nat /\ m < a * q + a
  BY <1>1
<1>3. m \div a <= q
  BY <1>1, <1>2, DivisionBelow
<1> QED
  BY <1>3 DEF q

(* Raising a delay to the next level and adding it to the clock there is   *)
(* adding it to the clock and raising that.                                *)
LEMMA RaisedSum ==
  ASSUME NEW m \in Nat, NEW d \in Nat, NEW a \in Nat \ {0}
  PROVE  /\ (m + d) \div a = (m \div a) + ((d + (m % a)) \div a)
         /\ d >= a => (d + (m % a)) \div a >= 1
<1> DEFINE q == m \div a
           r == m % a
           x == d + r
           p == x \div a
           t == x % a
<1>1. q \in Nat /\ r \in 0 .. a - 1 /\ m = a * q + r
  BY Division
<1>x. x \in Nat
  BY <1>1
<1> HIDE DEF q, r, x
<1>2. p \in Nat /\ t \in 0 .. a - 1 /\ x = a * p + t
  BY <1>x, Division
<1> USE DEF x
<1> HIDE DEF p, t
<1>3. m + d = a * (q + p) + t
  <2>1. a * (q + p) = a * q + a * p
    BY <1>1, <1>2
  <2>2. a * q \in Nat /\ a * p \in Nat
    BY <1>1, <1>2
  <2> QED
    BY <1>1, <1>2, <2>1, <2>2
<1>4. (m + d) \div a = q + p
  BY <1>1, <1>2, <1>3, QuotientIs
<1>5. d >= a => p >= 1
  <2> SUFFICES ASSUME d >= a, p = 0 PROVE FALSE
    BY <1>2
  <2>1. a * p = 0
    BY <1>2
  <2> QED
    BY <1>1, <1>2, <2>1
<1> QED
  BY <1>4, <1>5 DEF p, q, r

LEMMA QuotientOfNext ==
  ASSUME NEW t \in Nat, NEW a \in Nat \ {0}
  PROVE  \/ (t + 1) \div a = t \div a
         \/ (t + 1) \div a = (t \div a) + 1 /\ (t + 1) % a = 0
<1> DEFINE q == t \div a
           r == t % a
<1>1. q \in Nat /\ r \in 0 .. a - 1 /\ t = a * q + r
  BY Division
<1> HIDE DEF q, r
<1>2. CASE r + 1 < a
  <2>1. r + 1 \in 0 .. a - 1 /\ t + 1 = a * q + (r + 1)
    BY <1>1, <1>2
  <2>2. (t + 1) \div a = q
    BY <1>1, <2>1, QuotientIs
  <2> QED
    BY <2>2 DEF q
<1>3. CASE r + 1 = a
  <2>1. a * (q + 1) = a * q + a
    BY <1>1
  <2>2. t + 1 = a * (q + 1) + 0 /\ 0 \in 0 .. a - 1 /\ q + 1 \in Nat
    BY <1>1, <1>3, <2>1
  <2>3. (t + 1) \div a = q + 1 /\ (t + 1) % a = 0
    BY <2>2, QuotientIs
  <2> QED
    BY <2>3 DEF q
<1> QED
  BY <1>1, <1>2, <1>3

(* Times that share a slot are the same or a revolution apart.             *)
LEMMA SameRemainder ==
  ASSUME NEW m \in Nat, NEW n \in Nat, NEW a \in Nat \ {0},
         m % a = n % a, m < n + a
  PROVE  m = n \/ m + a <= n
<1> DEFINE q == m \div a
           p == n \div a
           r == n % a
<1>1. /\ q \in Nat /\ p \in Nat /\ r \in 0 .. a - 1
      /\ m = a * q + r /\ n = a * p + r
  BY Division
<1> HIDE DEF q, p, r
<1>2. CASE q = p
  BY <1>1, <1>2
<1>3. CASE q > p
  <2>1. a * q >= a * (p + 1) /\ a * (p + 1) = a * p + a /\ a * p \in Nat /\ a * q \in Nat
    BY <1>1, <1>3
  <2> QED
    BY <1>1, <2>1
<1>4. CASE q < p
  <2>1. a * p >= a * (q + 1) /\ a * (q + 1) = a * q + a /\ a * p \in Nat /\ a * q \in Nat
    BY <1>1, <1>4
  <2> QED
    BY <1>1, <2>1
<1> QED
  BY <1>1, <1>2, <1>3, <1>4

LEMMA RemainderOfSum ==
  ASSUME NEW n \in Nat, NEW a \in Nat \ {0}
  PROVE  (n + a) % a = n % a
<1> DEFINE q == n \div a
           r == n % a
<1>1. q \in Nat /\ r \in 0 .. a - 1 /\ n = a * q + r
  BY Division
<1> HIDE DEF q, r
<1>2. a * (q + 1) = a * q + a /\ a * q \in Nat
  BY <1>1
<1>3. n + a = a * (q + 1) + r /\ q + 1 \in Nat /\ n + a \in Nat
  BY <1>1, <1>2
<1>4. (n + a) % a = r
  BY <1>1, <1>3, QuotientIs
<1> QED
  BY <1>4 DEF r

LEMMA UnitsMonotone ==
  ASSUME NEW s \in Nat, NEW t \in Nat, s <= t
  PROVE  \A l \in Levels : InUnits(s)[l] <= InUnits(t)[l]
<1> DEFINE n == NUM_LEVELS - 1
           D == {l \in Levels : InUnits(s)[l] <= InUnits(t)[l]}
<1>1. n \in Nat /\ Levels = 0 .. n
  BY Constants DEF Levels
<1>2. /\ InUnits(s) \in [Levels -> 0 .. s] /\ InUnits(s)[0] = s
      /\ InUnits(t) \in [Levels -> 0 .. t] /\ InUnits(t)[0] = t
      /\ \A l \in Levels : l # 0 => /\ InUnits(s)[l] = InUnits(s)[l - 1] \div NUM_SLOTS
                                    /\ InUnits(t)[l] = InUnits(t)[l - 1] \div NUM_SLOTS
  BY InUnitsOf
<1> HIDE DEF n
<1>3. 0 \in D
  BY <1>2, Constants
<1>4. ASSUME NEW l \in 1 .. n, l - 1 \in D PROVE l \in D
  <2>1. l \in Levels /\ l # 0 /\ l - 1 \in Levels /\ InUnits(s)[l - 1] <= InUnits(t)[l - 1]
    BY <1>1, <1>4
  <2>2. InUnits(s)[l - 1] \in Nat /\ InUnits(t)[l - 1] \in Nat
    BY <1>2, <2>1
  <2>3. InUnits(s)[l - 1] \div NUM_SLOTS <= InUnits(t)[l - 1] \div NUM_SLOTS
    BY <2>1, <2>2, Constants, QuotientMonotone
  <2> QED
    BY <1>2, <2>1, <2>3
<1> HIDE DEF D
<1>5. 0 .. n \subseteq D
  BY <1>1, <1>3, <1>4, IntervalInduction
<1> QED
  BY <1>1, <1>5 DEF D

(* A level goes on by one at most in a tick, and only if all levels below  *)
(* begin anew.                                                             *)
LEMMA UnitsOfNext ==
  ASSUME NEW t \in Nat
  PROVE  \A l \in Levels :
           \/ InUnits(t + 1)[l] = InUnits(t)[l]
           \/ /\ InUnits(t + 1)[l] = InUnits(t)[l] + 1
              /\ l # 0 => (t + 1) % NUM_SLOTS = 0
<1> DEFINE n == NUM_LEVELS - 1
           u == InUnits(t)
           v == InUnits(t + 1)
           D == {l \in Levels : \/ v[l] = u[l]
                                \/ v[l] = u[l] + 1 /\ (l # 0 => (t + 1) % NUM_SLOTS = 0)}
<1>1. n \in Nat /\ Levels = 0 .. n
  BY Constants DEF Levels
<1>2. /\ u \in [Levels -> 0 .. t] /\ u[0] = t
      /\ v \in [Levels -> 0 .. t + 1] /\ v[0] = t + 1
      /\ \A l \in Levels : l # 0 => /\ u[l] = u[l - 1] \div NUM_SLOTS
                                    /\ v[l] = v[l - 1] \div NUM_SLOTS
  <2>1. t + 1 \in Nat
    OBVIOUS
  <2> QED
    BY <2>1, InUnitsOf
<1> HIDE DEF n, u, v
<1>3. 0 \in D
  BY <1>2, Constants
<1>4. ASSUME NEW l \in 1 .. n, l - 1 \in D PROVE l \in D
  <2>1. l \in Levels /\ l # 0 /\ l - 1 \in Levels
    BY <1>1
  <2>2. /\ u[l - 1] \in Nat /\ v[l] = v[l - 1] \div NUM_SLOTS
        /\ u[l] = u[l - 1] \div NUM_SLOTS
    BY <1>2, <2>1
  <2>3. CASE v[l - 1] = u[l - 1]
    BY <2>1, <2>2, <2>3
  <2>4. CASE v[l - 1] = u[l - 1] + 1 /\ (l - 1 # 0 => (t + 1) % NUM_SLOTS = 0)
    <3>1. \/ v[l] = u[l]
          \/ v[l] = u[l] + 1 /\ (u[l - 1] + 1) % NUM_SLOTS = 0
      BY <2>2, <2>4, Constants, QuotientOfNext
    <3>2. l - 1 = 0 => u[l - 1] = t
      BY <1>2
    <3> QED
      BY <2>1, <2>4, <3>1, <3>2
  <2> QED
    BY <1>4, <2>3, <2>4
<1> HIDE DEF D
<1>5. 0 .. n \subseteq D
  BY <1>1, <1>3, <1>4, IntervalInduction
<1> QED
  BY <1>1, <1>5 DEF D, u, v

(* The upper levels stand still in the first revolution of the lowest one. *)
LEMMA FirstRevolution ==
  ASSUME NEW t \in 0 .. NUM_SLOTS - 1
  PROVE  \A l \in Levels : l # 0 => InUnits(t)[l] = 0
<1> DEFINE n == NUM_LEVELS - 1
           u == InUnits(t)
           D == {l \in Levels : l # 0 => u[l] = 0}
<1>1. n \in Nat /\ Levels = 0 .. n /\ t \in Nat
  BY Constants DEF Levels
<1>2. /\ u \in [Levels -> 0 .. t] /\ u[0] = t
      /\ \A l \in Levels : l # 0 => u[l] = u[l - 1] \div NUM_SLOTS
  BY <1>1, InUnitsOf
<1> HIDE DEF n, u
<1>3. \A x \in 0 .. NUM_SLOTS - 1 : x \div NUM_SLOTS = 0
  <2> SUFFICES ASSUME NEW x \in 0 .. NUM_SLOTS - 1 PROVE x \div NUM_SLOTS = 0
    OBVIOUS
  <2>1. x = NUM_SLOTS * 0 + x
    BY Constants
  <2> QED
    BY <2>1, Constants, QuotientIs
<1>4. 0 \in D
  BY Constants
<1>5. ASSUME NEW l \in 1 .. n, l - 1 \in D PROVE l \in D
  <2>1. l \in Levels /\ l # 0 /\ l - 1 \in Levels
    BY <1>1
  <2>2. u[l - 1] \in 0 .. NUM_SLOTS - 1
    BY <1>2, <1>5, <2>1, Constants
  <2> QED
    BY <1>2, <1>3, <2>1, <2>2
<1> HIDE DEF D
<1>6. 0 .. n \subseteq D
  BY <1>1, <1>4, <1>5, IntervalInduction
<1> QED
  BY <1>1, <1>6 DEF D, u

-----------------------------------------------------------------------------
(***************************************************************************)
(* When events run.  While signals come between calls, m_now is the clock, *)
(* or 0 during the first revolution of the lowest level.                   *)
(***************************************************************************)
ClockInv ==
  /\ m_now = InUnits(m_now[0])
  /\ m_now[0] = cur_t \/ (m_now[0] = 0 /\ cur_t < NUM_SLOTS)
  /\ mpc = "clock" => cur_t < NUM_SLOTS
  /\ level # NoLevel => m_now[0] = cur_t
  /\ ~ticking => cur_t = 0

LEMMA InitClockInv == Init => ClockInv
<1> SUFFICES ASSUME Init PROVE ClockInv
  OBVIOUS
<1>1. m_now = [l \in Levels |-> 0] /\ m_now[0] = 0 /\ cur_t = 0 /\ ~ticking
      /\ mpc # "clock" /\ level = NoLevel
  BY Constants DEF Init
<1>2. InUnits(0) = [l \in Levels |-> 0]
  <2>1. InUnits(0) \in [Levels -> 0 .. 0]
    BY InUnitsOf
  <2> QED
    BY <2>1
<1> QED
  BY <1>1, <1>2, Constants DEF ClockInv

LEMMA ClockFacts ==
  ASSUME TypeInv, ClockInv
  PROVE  /\ cur_t \in Nat /\ m_now \in [Levels -> Nat]
         /\ InUnits(cur_t) \in [Levels -> Nat] /\ InUnits(cur_t)[0] = cur_t
         /\ \A l \in Levels : m_now[l] <= InUnits(cur_t)[l]
         /\ \A l \in Levels : l # 0 => m_now[l] = InUnits(cur_t)[l]
         /\ cur_t < m_now[0] + NUM_SLOTS
<1>1. cur_t \in Nat /\ m_now \in [Levels -> Nat] /\ m_now[0] \in Nat
  BY Constants DEF TypeInv, TypeOK
<1>2. InUnits(cur_t) \in [Levels -> Nat] /\ InUnits(cur_t)[0] = cur_t
  BY <1>1, InUnitsOf
<1>3. m_now = InUnits(m_now[0]) /\ m_now[0] <= cur_t
  BY <1>1 DEF ClockInv
<1>4. \A l \in Levels : m_now[l] <= InUnits(cur_t)[l]
  BY <1>1, <1>3, UnitsMonotone
<1>5. ASSUME NEW l \in Levels, l # 0 PROVE m_now[l] = InUnits(cur_t)[l]
  <2>1. CASE m_now[0] = cur_t
    BY <1>3, <2>1
  <2>2. CASE m_now[0] = 0 /\ cur_t < NUM_SLOTS
    <3>1. 0 \in 0 .. NUM_SLOTS - 1 /\ cur_t \in 0 .. NUM_SLOTS - 1
      BY <1>1, <2>2, Constants
    <3> QED
      BY <1>3, <1>5, <2>2, <3>1, FirstRevolution
  <2> QED
    BY <2>1, <2>2 DEF ClockInv
<1>6. cur_t < m_now[0] + NUM_SLOTS
  BY <1>1, Constants DEF ClockInv
<1> QED
  BY <1>1, <1>2, <1>4, <1>5, <1>6

LEMMA StepClockInv == TypeInv /\ ClockInv /\ [Next]_vars => ClockInv'
<1> SUFFICES ASSUME TypeInv, ClockInv, [Next]_vars PROVE ClockInv'
  OBVIOUS
<1>1. CASE UNCHANGED <<cur_t, m_now, ticking>> /\ (mpc' = "clock" => mpc = "clock")
           /\ (level' # NoLevel => level # NoLevel)
  <2>1. InUnits(m_now[0])' = InUnits(m_now[0])
    BY <1>1 DEF InUnits, Levels
  <2> QED
    BY <1>1, <2>1 DEF ClockInv
<1>2. CASE StartTick
  <2>1. InUnits(m_now[0])' = InUnits(m_now[0])
    BY <1>2 DEF InUnits, Levels, StartTick
  <2>2. cur_t = 0 /\ cur_t' = 0 /\ m_now' = m_now /\ ticking' /\ level' = NoLevel
    BY <1>2 DEF StartTick, Goto, ClockInv
  <2> QED
    BY <1>2, <2>1, <2>2, Constants DEF ClockInv
<1>3. CASE SetNow
  <2>1. /\ mpc = "clock" /\ cur_t < NUM_SLOTS /\ cur_t' = cur_t /\ level' = NoLevel
        /\ m_now' = [m_now EXCEPT ![call.level] = 0] /\ ticking' = ticking
        /\ call.level \in Levels
    BY <1>3 DEF SetNow, Goto, ClockInv, TypeInv, TypeOK
  <2>2. \A l \in Levels : l # 0 => m_now[l] = 0
    <3>1. cur_t \in 0 .. NUM_SLOTS - 1
      BY <2>1, ClockFacts, Constants
    <3> QED
      BY <3>1, ClockFacts, FirstRevolution
  <2>3. m_now' = m_now \/ m_now' = [l \in Levels |-> 0]
    BY <2>1, <2>2 DEF TypeInv, TypeOK
  <2>4. \/ m_now'[0] = m_now[0] /\ m_now' = m_now
        \/ m_now'[0] = 0 /\ m_now' = [l \in Levels |-> 0]
    BY <2>3, Constants
  <2>5. InUnits(0) = [l \in Levels |-> 0]
    <3>1. InUnits(0) \in [Levels -> 0 .. 0]
      BY InUnitsOf
    <3> QED
      BY <3>1
  <2>6. InUnits(m_now[0])' = InUnits(m_now'[0])
    BY DEF InUnits, Levels
  <2> QED
    BY <2>1, <2>4, <2>5, <2>6 DEF ClockInv
<1>4. CASE Signal
  <2>1. cur_t' = cur_t + 1 /\ m_now' = InUnits(cur_t') /\ m_now'[0] = cur_t'
    <3>1. cur_t' \in Nat
      BY <1>4, ClockFacts DEF Signal
    <3> QED
      BY <1>4, <3>1, InUnitsOf DEF Signal
  <2>2. InUnits(m_now[0])' = InUnits(m_now'[0])
    BY DEF InUnits, Levels
  <2> QED
    BY <1>4, <2>1, <2>2 DEF Signal, ClockInv
<1>5. ASSUME \/ \E e \in Events, delta \in Deltas : Schedule(e, delta)
             \/ Stamp \/ NextLevelUp \/ ChooseSlot \/ EnterRelink \/ RelinkStep \/ HandlerStep
             \/ UNCHANGED vars
      PROVE  UNCHANGED <<cur_t, m_now, ticking>> /\ (mpc' = "clock" => mpc = "clock")
             /\ (level' # NoLevel => level # NoLevel)
  <2>1. CASE \E e \in Events, delta \in Deltas : Schedule(e, delta)
    BY <2>1 DEF Schedule, Goto, ScheduleFrame
  <2>5. CASE NextLevelUp
    BY <2>5 DEF NextLevelUp, Goto, ScheduleFrame
  <2>6. CASE Stamp \/ ChooseSlot \/ EnterRelink
    BY <2>6 DEF Stamp, ChooseSlot, EnterRelink, Goto, ScheduleFrame
  <2>2. CASE RelinkStep
    BY <2>2 DEF RelinkStep, JoinAfter, Unlink, ReadHead, LinkNext, LinkBack, LinkHead, ClearPrev, SetSlot,
                Goto, ScheduleFrame
  <2>3. CASE HandlerStep
    BY <2>3 DEF HandlerStep, NextLevel, Execute, Cascade, HandlerFrame
  <2>4. CASE UNCHANGED vars
    BY <2>4 DEF vars
  <2> QED
    BY <1>5, <2>1, <2>2, <2>3, <2>4, <2>5, <2>6
<1> QED
  BY <1>1, <1>2, <1>3, <1>4, <1>5 DEF Next, ThreadStep

(* An event that is asked for at time is in the slot of time at some level *)
(* l.  Level 0 keeps it for a revolution at most, an upper level until its *)
(* slot comes up, and only if the handler has not done that level, at a    *)
(* tick from which the levels below begin anew.  An event whose time has   *)
(* passed although it was to come stays behind at level 0, at the first    *)
(* tick of a revolution.                                                   *)
ComesUp(lev, l) == lev \in 0 .. l

InTime(time, ask, now, lev, l) ==
  LET u == InUnits(time)[l]
      n == InUnits(now)[l]
  IN
  /\ u < n + NUM_SLOTS
  /\ l = 0 => now < time + NUM_SLOTS \/ (ComesUp(lev, 0) /\ now = time + NUM_SLOTS)
  /\ l # 0 => n < u \/ (ComesUp(lev, l) /\ n = u /\ now <= time /\ now % NUM_SLOTS = 0)
  /\ ask = "owed" => \/ now < time
                     \/ l = 0 /\ time % NUM_SLOTS = 0
                     \/ ComesUp(lev, l) /\ time = now
  /\ ask = "missed" => time < now \/ (lev = NoLevel /\ time = now)

Placed(time, ask, now, lev, s) ==
  \E l \in Levels : s = <<l, InUnits(time)[l] % NUM_SLOTS>> /\ InTime(time, ask, now, lev, l)

LEMMA Units ==
  ASSUME NEW t \in Nat, NEW l \in Levels
  PROVE  /\ InUnits(t)[l] \in Nat /\ InUnits(t)[0] = t /\ l \in Nat
         /\ InUnits(t)[l] % NUM_SLOTS \in Nat
<1>1. InUnits(t)[l] \in Nat /\ InUnits(t)[0] = t
  BY InUnitsOf
<1> QED
  BY <1>1, Constants DEF Levels

(* An event that schedule links.                                           *)
LEMMA InTimeWhenChosen ==
  ASSUME TypeInv, ClockInv, level = NoLevel,
         NEW time \in Nat, NEW l \in Levels, NEW d \in 0 .. NUM_SLOTS - 1,
         InUnits(time)[l] = m_now[l] + d, l # 0 => d > 0,
         NEW ask, ask = IF time > cur_t THEN "owed" ELSE "missed"
  PROVE  InTime(time, ask, cur_t, level, l)
<1> DEFINE u == InUnits(time)[l]
           n == InUnits(cur_t)[l]
<1>1. /\ cur_t \in Nat /\ u \in Nat /\ n \in Nat /\ m_now[l] \in Nat
      /\ m_now[l] <= n /\ (l # 0 => m_now[l] = n)
      /\ l = 0 => u = time /\ n = cur_t /\ cur_t < m_now[l] + NUM_SLOTS
  BY ClockFacts, Units
<1> HIDE DEF u, n
<1>2. u < n + NUM_SLOTS /\ (l # 0 => n < u) /\ (l = 0 => cur_t < time + NUM_SLOTS)
  BY <1>1, Constants DEF u
<1>3. ask = "owed" => cur_t < time
  OBVIOUS
<1>4. ask = "missed" => time < cur_t \/ time = cur_t
  BY <1>1
<1> QED
  BY <1>2, <1>3, <1>4 DEF InTime, u, n

(* A tick, with the levels still to be processed, and what it may pass.    *)
LEMMA InTimeAtTick ==
  ASSUME NEW time \in Nat, NEW now \in Nat, NEW ask, NEW l \in Levels,
         InTime(time, ask, now, NoLevel, l)
  PROVE  /\ InTime(time, ask, now + 1, 0, l)
         /\ ask = "missed" => now < time + NUM_SLOTS
         /\ ask = "owed" => now < time \/ (time % NUM_SLOTS = 0 /\ now < time + NUM_SLOTS)
<1> DEFINE u == InUnits(time)[l]
           n == InUnits(now)[l]
           m == InUnits(now + 1)[l]
<1>1. now + 1 \in Nat /\ ~ComesUp(NoLevel, l) /\ ~ComesUp(NoLevel, 0) /\ ComesUp(0, l)
  BY Units DEF ComesUp, NoLevel
<1>2. /\ u \in Nat /\ n \in Nat /\ m \in Nat
      /\ l = 0 => u = time /\ n = now
      /\ m = n \/ (m = n + 1 /\ (l # 0 => (now + 1) % NUM_SLOTS = 0))
  <2>1. u \in Nat /\ n \in Nat /\ m \in Nat /\ (l = 0 => u = time /\ n = now)
    BY <1>1, Units
  <2>2. m = n \/ (m = n + 1 /\ (l # 0 => (now + 1) % NUM_SLOTS = 0))
    BY UnitsOfNext, Zenon
  <2> QED
    BY <2>1, <2>2
<1>3. n < u => now < time
  <2>1. time <= now => u <= n
    BY UnitsMonotone
  <2> QED
    BY <1>2, <2>1
<1>t. /\ u < n + NUM_SLOTS
      /\ l = 0 => now < time + NUM_SLOTS \/ ComesUp(NoLevel, 0)
      /\ l # 0 => n < u \/ ComesUp(NoLevel, l)
      /\ ask = "owed" => \/ now < time
                         \/ l = 0 /\ time % NUM_SLOTS = 0
                         \/ ComesUp(NoLevel, l)
      /\ ask = "missed" => time < now \/ time = now
  BY Zenon DEF InTime
<1> HIDE DEF u, n, m
<1>4. /\ u < n + NUM_SLOTS
      /\ l = 0 => now < time + NUM_SLOTS
      /\ l # 0 => n < u
      /\ ask = "owed" => now < time \/ (l = 0 /\ time % NUM_SLOTS = 0)
      /\ ask = "missed" => time <= now
  BY <1>1, <1>t
<1>5. /\ u < m + NUM_SLOTS
      /\ l = 0 => now + 1 < time + NUM_SLOTS \/ now + 1 = time + NUM_SLOTS
      /\ l # 0 => m < u \/ (m = u /\ now + 1 <= time /\ (now + 1) % NUM_SLOTS = 0)
      /\ ask = "owed" => now + 1 < time \/ (l = 0 /\ time % NUM_SLOTS = 0) \/ time = now + 1
      /\ ask = "missed" => time < now + 1
  BY <1>2, <1>3, <1>4, Constants
<1>6. InTime(time, ask, now + 1, 0, l)
  <2>1. ComesUp(0, 0)
    BY DEF ComesUp
  <2> QED
    BY <1>1, <1>5, <2>1 DEF InTime, u, m
<1>7. ask = "missed" => now < time + NUM_SLOTS
  BY <1>2, <1>3, <1>4, Constants
<1>8. ask = "owed" => now < time \/ (time % NUM_SLOTS = 0 /\ now < time + NUM_SLOTS)
  BY <1>2, <1>3, <1>4, Constants
<1> QED
  BY <1>6, <1>7, <1>8

(* The handler leaves a level whose slot is empty.                         *)
LEMMA InTimeAbove ==
  ASSUME NEW time \in Nat, NEW now \in Nat, NEW ask, NEW l \in Levels, NEW lev \in Levels,
         InTime(time, ask, now, lev, l),
         l = lev => InUnits(time)[l] % NUM_SLOTS # InUnits(now)[l] % NUM_SLOTS
  PROVE  InTime(time, ask, now, Above(lev), l)
<1> DEFINE u == InUnits(time)[l]
           n == InUnits(now)[l]
<1>1. u \in Nat /\ n \in Nat /\ l \in Nat /\ lev \in Nat /\ (l = 0 => u = time /\ n = now)
  BY Units
<1>2. ComesUp(lev, l) /\ l # lev => ComesUp(Above(lev), l)
  BY Constants DEF ComesUp, Above, Levels
<1>3. ComesUp(lev, 0) => lev = 0
  BY <1>1 DEF ComesUp
<1>4. lev # NoLevel
  BY Constants
<1>5. l = lev => u # n /\ time # now /\ (l = 0 => now # time + NUM_SLOTS)
  <2>1. l = lev => u # n /\ time # now
    BY Zenon
  <2>2. now = time + NUM_SLOTS => now % NUM_SLOTS = time % NUM_SLOTS
    BY RemainderOfSum, Constants
  <2>3. l = lev /\ l = 0 => time % NUM_SLOTS # now % NUM_SLOTS
    BY <1>1, Zenon
  <2> QED
    BY <2>1, <2>2, <2>3, Zenon
<1>6. /\ u < n + NUM_SLOTS
      /\ l = 0 => now < time + NUM_SLOTS \/ (ComesUp(lev, 0) /\ now = time + NUM_SLOTS)
      /\ l # 0 => n < u \/ (ComesUp(lev, l) /\ n = u /\ now <= time /\ now % NUM_SLOTS = 0)
      /\ ask = "owed" => \/ now < time
                         \/ l = 0 /\ time % NUM_SLOTS = 0
                         \/ ComesUp(lev, l) /\ time = now
      /\ ask = "missed" => time < now
  BY <1>4, Zenon DEF InTime
<1> HIDE DEF u, n
<1>7. /\ u < n + NUM_SLOTS
      /\ l = 0 => \/ now < time + NUM_SLOTS
                  \/ ComesUp(Above(lev), 0) /\ now = time + NUM_SLOTS
      /\ l # 0 => \/ n < u
                  \/ ComesUp(Above(lev), l) /\ n = u /\ now <= time /\ now % NUM_SLOTS = 0
      /\ ask = "owed" => \/ now < time
                         \/ l = 0 /\ time % NUM_SLOTS = 0
                         \/ ComesUp(Above(lev), l) /\ time = now
      /\ ask = "missed" => time < now
  BY <1>1, <1>2, <1>3, <1>5, <1>6
<1> QED
  BY <1>7, Zenon DEF InTime, u, n

(* An event in the slot that the handler processes: level 0 executes it on *)
(* its tick or a revolution later, and an upper level has come to its time *)
(* at the beginning of a revolution of the levels below.                   *)
LEMMA InTimeInSlot ==
  ASSUME NEW time \in Nat, NEW now \in Nat, NEW ask \in {"owed", "missed"}, NEW l \in Levels,
         InTime(time, ask, now, l, l),
         InUnits(time)[l] % NUM_SLOTS = InUnits(now)[l] % NUM_SLOTS
  PROVE  /\ l = 0 => \/ ask = "owed" /\ time = now
                     \/ ask = "owed" /\ time % NUM_SLOTS = 0 /\ time + NUM_SLOTS = now
                     \/ ask = "missed" /\ time + NUM_SLOTS = now
         /\ l # 0 => /\ InUnits(time)[l] = InUnits(now)[l]
                     /\ now <= time /\ now % NUM_SLOTS = 0 /\ ask = "owed"
<1> DEFINE u == InUnits(time)[l]
           n == InUnits(now)[l]
<1>1. u \in Nat /\ n \in Nat /\ l \in Nat /\ (l = 0 => u = time /\ n = now)
  BY Units
<1>2. u % NUM_SLOTS = n % NUM_SLOTS
  OBVIOUS
<1>3. /\ u < n + NUM_SLOTS
      /\ l = 0 => now < time + NUM_SLOTS \/ now = time + NUM_SLOTS
      /\ l # 0 => n < u \/ (n = u /\ now <= time /\ now % NUM_SLOTS = 0)
      /\ ask = "owed" => now < time \/ (l = 0 /\ time % NUM_SLOTS = 0) \/ time = now
      /\ ask = "missed" => time < now \/ l = NoLevel
  BY Zenon DEF InTime
<1> HIDE DEF u, n
<1>4. u = n \/ u + NUM_SLOTS <= n
  <2>1. NUM_SLOTS \in Nat \ {0} /\ u < n + NUM_SLOTS
    BY <1>3, Constants
  <2> QED
    BY <1>1, <1>2, <2>1, SameRemainder, Zenon
<1>5. l # NoLevel
  BY Constants
<1>6. ASSUME l = 0
      PROVE  \/ ask = "owed" /\ time = now
             \/ ask = "owed" /\ time % NUM_SLOTS = 0 /\ time + NUM_SLOTS = now
             \/ ask = "missed" /\ time + NUM_SLOTS = now
  <2>1. time = now \/ time + NUM_SLOTS = now
    BY <1>1, <1>3, <1>4, <1>6, Constants
  <2>2. CASE ask = "owed"
    BY <1>3, <1>6, <2>1, <2>2, Constants
  <2>3. CASE ask = "missed"
    BY <1>3, <1>5, <2>1, <2>3, Constants
  <2> QED
    BY <2>2, <2>3
<1>7. ASSUME l # 0
      PROVE  u = n /\ now <= time /\ now % NUM_SLOTS = 0 /\ ask = "owed"
  <2>1. u = n /\ now <= time /\ now % NUM_SLOTS = 0
    BY <1>1, <1>3, <1>4, <1>7, Constants
  <2>2. ask # "missed"
    BY <1>3, <1>5, <2>1
  <2> QED
    BY <2>1, <2>2
<1> QED
  BY <1>6, <1>7 DEF u, n

(* The delay that is left is the distance to the event's time at each      *)
(* level.                                                                  *)
LEMMA RaisedUnits ==
  ASSUME NEW t \in Nat, m_now = InUnits(t), NEW time \in Nat,
         NEW l \in Levels, l + 1 \in Levels, NEW delta \in Nat,
         InUnits(time)[l] = m_now[l] + delta
  PROVE  /\ InUnits(time)[l + 1] = m_now[l + 1] + Raise(delta, l)
         /\ delta >= NUM_SLOTS => Raise(delta, l) > 0
         /\ Raise(delta, l) \in Nat
<1> DEFINE m == m_now[l]
<1>1. l \in Nat /\ m \in Nat /\ (l + 1) - 1 = l /\ l + 1 # 0
  BY Units DEF Levels
<1>2. /\ InUnits(time)[l + 1] = InUnits(time)[l] \div NUM_SLOTS
      /\ m_now[l + 1] = m \div NUM_SLOTS
  BY <1>1, InUnitsOf
<1> HIDE DEF m
<1>3. /\ (m + delta) \div NUM_SLOTS = (m \div NUM_SLOTS) + ((delta + (m % NUM_SLOTS)) \div NUM_SLOTS)
      /\ delta >= NUM_SLOTS => (delta + (m % NUM_SLOTS)) \div NUM_SLOTS >= 1
  <2>1. NUM_SLOTS \in Nat \ {0}
    BY Constants
  <2> QED
    BY <1>1, <2>1, RaisedSum, Zenon
<1>4. (delta + (m % NUM_SLOTS)) \div NUM_SLOTS \in Nat
  <2>1. NUM_SLOTS \in Nat \ {0} /\ m % NUM_SLOTS \in Nat
    BY <1>1, Constants
  <2>2. delta + (m % NUM_SLOTS) \in Nat
    BY <2>1
  <2> QED
    BY <2>1, <2>2, Division, Zenon
<1> QED
  BY <1>2, <1>3, <1>4 DEF Raise, m

(* Where the handler takes an event whose level has come to its time.      *)
LEMMA InTimeBelow ==
  ASSUME NEW now \in Nat, m_now = InUnits(now), m_now \in [Levels -> Nat],
         NEW time \in Nat, now <= time, time - now <= Reach(0), now % NUM_SLOTS = 0,
         level \in Levels, level # 0, InUnits(time)[level] = InUnits(now)[level]
  PROVE  Placed(time, "owed", now, level, SlotFor(time - now))
<1> DEFINE delta == time - now
<1>1. delta \in Nat /\ delta <= Reach(0)
  OBVIOUS
<1> HIDE DEF delta
<1>2. PICK raised, l : RaisesTo(raised, delta, l) /\ SlotFor(delta) = SlotAt(l, raised[l])
  BY <1>1, SlotForOf
<1>3. /\ raised \in [Levels -> Nat] /\ l \in Levels /\ raised[0] = delta
      /\ \A k \in Levels : k # 0 => raised[k] = Raise(raised[k - 1], k - 1)
      /\ \A k \in Levels : k < l => raised[k] >= NUM_SLOTS
      /\ raised[l] < NUM_SLOTS
  BY <1>2 DEF RaisesTo
<1> DEFINE n == NUM_LEVELS - 1
           D == {k \in Levels : InUnits(time)[k] = m_now[k] + raised[k]}
<1>4. n \in Nat /\ Levels = 0 .. n
  BY Constants DEF Levels
<1> HIDE DEF n
<1>5. 0 .. n \subseteq D
  <2>1. 0 \in D
    <3>1. InUnits(time)[0] = time /\ m_now[0] = now /\ time = now + delta
      BY Units, Constants DEF delta
    <3> QED
      BY <1>3, <3>1, Constants
  <2>2. ASSUME NEW k \in 1 .. n, k - 1 \in D PROVE k \in D
    <3>1. /\ k \in Levels /\ k # 0 /\ k - 1 \in Levels /\ (k - 1) + 1 = k
          /\ InUnits(time)[k - 1] = m_now[k - 1] + raised[k - 1] /\ raised[k - 1] \in Nat
      BY <1>3, <1>4, <2>2
    <3>2. InUnits(time)[(k - 1) + 1] = m_now[(k - 1) + 1] + Raise(raised[k - 1], k - 1)
      BY <3>1, RaisedUnits
    <3> QED
      BY <1>3, <3>1, <3>2
  <2> HIDE DEF D
  <2> QED
    BY <1>4, <2>1, <2>2, IntervalInduction
<1>6. \A k \in Levels : InUnits(time)[k] = m_now[k] + raised[k]
  BY <1>4, <1>5
<1>7. ASSUME NEW k \in Levels, k # 0, k <= l PROVE raised[k] > 0
  <2>1. k - 1 \in Levels /\ k - 1 < l /\ (k - 1) + 1 = k
    BY <1>3, <1>4, <1>7
  <2>2. raised[k - 1] >= NUM_SLOTS /\ raised[k - 1] \in Nat
    BY <1>3, <2>1
  <2>3. Raise(raised[k - 1], k - 1) > 0
    BY <1>6, <2>1, <2>2, RaisedUnits
  <2> QED
    BY <1>3, <1>7, <2>3
<1>8. raised[level] = 0
  BY <1>3, <1>6
<1>9. l < level
  <2>1. ~(level <= l)
    BY <1>7, <1>8
  <2> QED
    BY <1>3, <1>4, <2>1
<1> DEFINE u == InUnits(time)[l]
           d == raised[l]
<1>10. /\ u = m_now[l] + d /\ m_now[l] \in Nat /\ d \in 0 .. NUM_SLOTS - 1
       /\ l # 0 => d > 0
       /\ l = 0 => d = delta
  <2>1. l \in Nat /\ m_now[l] \in Nat /\ d \in Nat /\ d < NUM_SLOTS /\ u = m_now[l] + d
    BY <1>3, <1>4, <1>6
  <2>2. l # 0 => d > 0
    BY <1>3, <1>7, <2>1
  <2> QED
    BY <1>3, <2>1, <2>2, Constants
<1>11. SlotFor(delta) = <<l, u % NUM_SLOTS>>
  BY <1>2, <1>10 DEF SlotAt
<1>12. InTime(time, "owed", now, level, l)
  <2>1. ~ComesUp(level, l)
    BY <1>3, <1>4, <1>9 DEF ComesUp
  <2>2. time = now => l = 0
    <3>1. 0 \in Levels /\ (l # 0 => 0 < l)
      BY <1>3, <1>4
    <3> QED
      BY <1>3, <3>1, Constants DEF delta
  <2>3. now < time \/ (l = 0 /\ time % NUM_SLOTS = 0)
    BY <2>2
  <2>4. /\ u < InUnits(now)[l] + NUM_SLOTS
        /\ l # 0 => InUnits(now)[l] < u
        /\ now < time + NUM_SLOTS
    BY <1>10, Constants
  <2> QED
    BY <2>3, <2>4, Zenon DEF InTime
<1> QED
  BY <1>3, <1>11, <1>12 DEF Placed, delta

WellPlaced(e) == Placed(scheduled_at[e], asked[e], cur_t, level, slot[e])
ToBePlaced == Placed(scheduled_at[call.event], asked[call.event], cur_t, level, call.slot)

LEMMA PlacedNext ==
  /\ \A e : WellPlaced(e)' <=> Placed(scheduled_at'[e], asked'[e], cur_t', level', slot'[e])
  /\ ToBePlaced' <=> Placed(scheduled_at'[call'.event], asked'[call'.event], cur_t', level', call'.slot)
BY DEF WellPlaced, ToBePlaced

(* Events that have been asked for are in the slots of their times, and no *)
(* others are in a slot; the event of a call of schedule is on its way.    *)
AskedInv ==
  \A e \in Events :
    /\ asked[e] # "again"
    /\ e # call.event => /\ asked[e] = "no" <=> slot[e] = NoSlot
                         /\ asked[e] # "no" => WellPlaced(e)

CallInv ==
  /\ mpc = "stamp" =>
       /\ call.at = m_now[0] + call.delta
       /\ call.level = 0 /\ call.delta \in Deltas
  /\ mpc \in {"level", "relink"} \cup Relinking =>
       asked[call.event] = IF scheduled_at[call.event] > cur_t THEN "owed" ELSE "missed"
  /\ mpc = "level" =>
       /\ InUnits(scheduled_at[call.event])[call.level] = m_now[call.level] + call.delta
       /\ call.level # 0 => call.delta > 0
  /\ mpc \in {"relink"} \cup Relinking => ToBePlaced

(* Until a signal comes while schedule runs, the handler and schedule take *)
(* turns, and the places are those of the times.                           *)
HandlerWaits == level # NoLevel => Quiet

TimerInv == ListInv /\ HandlerWaits /\ ClockInv /\ AskedInv /\ CallInv

LEMMA InitTimerInv == Init => TimerInv
<1> SUFFICES ASSUME Init PROVE AskedInv /\ CallInv
  BY InitListInv, InitClockInv DEF TimerInv, HandlerWaits, Init
<1>1. AskedInv
  BY DEF Init, AskedInv
<1>2. CallInv
  BY DEF Init, CallInv, Relinking
<1> QED
  BY <1>1, <1>2

LEMMA AskedKept ==
  ASSUME AskedInv, UNCHANGED <<cur_t, level, scheduled_at, asked, slot>>,
         call'.event = call.event
  PROVE  AskedInv'
<1>1. \A e \in Events : WellPlaced(e)' = WellPlaced(e)
  BY DEF WellPlaced
<1> QED
  BY <1>1 DEF AskedInv

LEMMA StartKeepsPlaces ==
  TimerInv /\ (StartTick \/ SetNow) => AskedInv' /\ CallInv'
<1> SUFFICES ASSUME TimerInv, StartTick \/ SetNow PROVE AskedInv' /\ CallInv'
  OBVIOUS
<1>1. /\ mpc \in {"idle", "clock"} /\ mpc' \in {"idle", "clock"}
      /\ UNCHANGED <<level, scheduled_at, asked, slot>> /\ cur_t' = cur_t
  BY DEF StartTick, SetNow, Goto, lists, asks, TimerInv, ClockInv
<1>2. call.event = Null /\ call'.event = Null
  <2>1. CallHasEvent /\ CallHasEvent'
    BY StartPreservesTypes DEF TimerInv, ListInv, TypeInv
  <2> QED
    BY <1>1, <2>1, NoCallType DEF CallHasEvent
<1>3. AskedInv'
  BY <1>1, <1>2, AskedKept DEF TimerInv
<1>4. CallInv'
  BY <1>1 DEF CallInv, Relinking
<1> QED
  BY <1>3, <1>4

LEMMA ScheduleKeepsPlaces ==
  ASSUME TimerInv, NEW e \in Events, NEW delta \in Deltas, Schedule(e, delta)
  PROVE  AskedInv' /\ CallInv'
<1>1. /\ mpc = "idle" /\ mpc' = "stamp" /\ call = NoCall
      /\ UNCHANGED <<cur_t, m_now, level, scheduled_at, asked, slot>>
  BY DEF Schedule, Goto, ScheduleFrame, lists, asks, TimerInv, ListInv, TypeInv, CallHasEvent
<1>2. /\ call'.event = e /\ call'.delta = delta /\ call'.level = 0
      /\ call'.at = m_now[0] + delta
  <2>1. call' = [NoCall EXCEPT !.event = e, !.delta = delta, !.at = m_now[0] + delta]
    BY DEF Schedule
  <2> QED
    BY <2>1 DEF NoCall
<1>3. AskedInv'
  <2>1. call.event \notin Events
    BY <1>1, Constants, NoCallType
  <2>2. \A x \in Events : WellPlaced(x)' = WellPlaced(x)
    BY <1>1 DEF WellPlaced
  <2> QED
    BY <1>1, <2>1, <2>2 DEF TimerInv, AskedInv
<1>4. CallInv'
  BY <1>1, <1>2 DEF CallInv, Relinking
<1> QED
  BY <1>3, <1>4

LEMMA StampFacts ==
  ASSUME TimerInv, Stamp
  PROVE  /\ call.event \in Events /\ call.at = m_now[0] + call.delta /\ call.level = 0
         /\ call.delta \in Deltas /\ call.delta \in Nat /\ m_now[0] \in Nat /\ TypeOK
         /\ mpc = "stamp" /\ mpc' = "level"
         /\ UNCHANGED <<cur_t, m_now, ticking, level, slot, call>>
BY TimerAssumption, Constants
   DEF Stamp, Goto, ScheduleFrame, lists, TimerInv, CallInv, ListInv, TypeInv, TypeOK, CallHasEvent

LEMMA StampKeepsPlaces == TimerInv /\ Stamp => AskedInv' /\ CallInv'
<1> SUFFICES ASSUME TimerInv, Stamp PROVE AskedInv' /\ CallInv'
  OBVIOUS
<1> DEFINE e == call.event
<1>1. /\ scheduled_at'[e] = m_now[0] + call.delta /\ scheduled_at'[e] \in Nat
      /\ asked'[e] = IF scheduled_at'[e] > cur_t THEN "owed" ELSE "missed"
      /\ \A x \in Events \ {e} : scheduled_at'[x] = scheduled_at[x] /\ asked'[x] = asked[x]
  BY StampFacts DEF Stamp, TypeOK
<1>2. AskedInv'
  <2> SUFFICES ASSUME NEW x \in Events
               PROVE  /\ asked'[x] # "again"
                      /\ x # e => /\ asked'[x] = "no" <=> slot'[x] = NoSlot
                                  /\ asked'[x] # "no" => WellPlaced(x)'
    BY StampFacts DEF AskedInv
  <2>1. CASE x = e
    BY <1>1, <2>1
  <2>2. CASE x # e
    <3>1. WellPlaced(x)' = WellPlaced(x)
      BY <1>1, <2>2, StampFacts DEF WellPlaced
    <3> QED
      BY <1>1, <2>2, <3>1, StampFacts DEF TimerInv, AskedInv
  <2> QED
    BY <2>1, <2>2
<1>3. CallInv'
  <2>1. InUnits(scheduled_at'[e])[0] = m_now'[0] + call.delta
    BY <1>1, StampFacts, Units, Constants
  <2> QED
    BY <1>1, <2>1, StampFacts DEF CallInv, Relinking
<1> QED
  BY <1>2, <1>3

LEMMA LevelKeepsPlaces == TimerInv /\ NextLevelUp => AskedInv' /\ CallInv'
<1> SUFFICES ASSUME TimerInv, NextLevelUp PROVE AskedInv' /\ CallInv'
  OBVIOUS
<1> DEFINE e == call.event
<1>1. /\ mpc = "level" /\ mpc' = "level" /\ call.delta >= NUM_SLOTS
      /\ UNCHANGED <<cur_t, m_now, level, scheduled_at, asked, slot>>
      /\ call \in CallType /\ e \in Events /\ m_now \in [Levels -> Nat]
      /\ scheduled_at[e] \in Nat /\ m_now[0] \in Nat /\ m_now = InUnits(m_now[0])
      /\ call.delta <= Reach(call.level)
  BY Constants
     DEF NextLevelUp, Goto, ScheduleFrame, lists, asks, TimerInv, ListInv, TypeInv, TypeOK,
         CallType, CallHasEvent, ClockInv, WithinReach
<1>2. call.level \in Levels /\ call.level + 1 \in Levels /\ call.delta \in Nat
  BY <1>1, RaiseWithin DEF CallType
<1>3. /\ call'.event = e /\ call'.delta = Raise(call.delta, call.level)
      /\ call'.level = call.level + 1
  BY <1>1 DEF NextLevelUp, CallType
<1>4. /\ InUnits(scheduled_at[e])[call.level + 1]
           = m_now[call.level + 1] + Raise(call.delta, call.level)
      /\ Raise(call.delta, call.level) > 0
  <2>1. InUnits(scheduled_at[e])[call.level] = m_now[call.level] + call.delta
    BY <1>1 DEF TimerInv, CallInv
  <2> QED
    BY <1>1, <1>2, <2>1, RaisedUnits
<1>5. AskedInv'
  BY <1>1, <1>3, AskedKept DEF TimerInv
<1>6. CallInv'
  BY <1>1, <1>3, <1>4 DEF TimerInv, CallInv, Relinking
<1> QED
  BY <1>5, <1>6

LEMMA ChooseKeepsPlaces == TimerInv /\ ChooseSlot => AskedInv' /\ CallInv'
<1> SUFFICES ASSUME TimerInv, ChooseSlot PROVE AskedInv' /\ CallInv'
  OBVIOUS
<1>e. PICK e \in Events : e = call.event
  BY DEF ChooseSlot, Goto, TimerInv, ListInv, TypeInv, CallHasEvent
<1> DEFINE l == call.level
           s == SlotAt(l, call.delta)
<1>1. /\ mpc = "level" /\ call.delta < NUM_SLOTS /\ level = NoLevel
      /\ UNCHANGED <<cur_t, m_now, level, scheduled_at, asked, slot>>
      /\ call \in CallType /\ scheduled_at[e] \in Nat
      /\ l \in Levels /\ call.delta \in 0 .. NUM_SLOTS - 1 /\ TypeInv /\ ClockInv
  BY Constants
     DEF ChooseSlot, Goto, ScheduleFrame, lists, asks, TimerInv, ListInv, TypeInv, TypeOK,
         CallType
<1>2. /\ asked[e] = IF scheduled_at[e] > cur_t THEN "owed" ELSE "missed"
      /\ InUnits(scheduled_at[e])[l] = m_now[l] + call.delta /\ (l # 0 => call.delta > 0)
  BY <1>e, <1>1 DEF TimerInv, CallInv
<1>3. Placed(scheduled_at[e], asked[e], cur_t, level, s)
  <2>1. InTime(scheduled_at[e], asked[e], cur_t, level, l)
    BY <1>1, <1>2, InTimeWhenChosen
  <2>2. s = <<l, InUnits(scheduled_at[e])[l] % NUM_SLOTS>>
    BY <1>2 DEF SlotAt
  <2> QED
    BY <1>1, <2>1, <2>2 DEF Placed
<1> HIDE DEF s
<1>4. mpc' = "relink" /\ call'.event = e /\ call'.slot = s
  BY <1>e, <1>1 DEF ChooseSlot, Goto, CallType, s
<1>5. ToBePlaced'
  BY <1>1, <1>3, <1>4, PlacedNext
<1>6. AskedInv'
  BY <1>e, <1>1, <1>4, AskedKept DEF TimerInv
<1> QED
  BY <1>1, <1>2, <1>4, <1>5, <1>6 DEF CallInv, Relinking

LEMMA EnterKeepsPlaces == TimerInv /\ EnterRelink => AskedInv' /\ CallInv'
<1> SUFFICES ASSUME TimerInv, EnterRelink PROVE AskedInv' /\ CallInv'
  OBVIOUS
<1>e. PICK e \in Events : e = call.event
  BY DEF EnterRelink, TimerInv, ListInv, TypeInv, CallHasEvent
<1>1. /\ mpc = "relink" /\ call.slot \in Slots /\ call \in CallType
      /\ UNCHANGED <<cur_t, m_now, level, scheduled_at, asked, slot>>
  BY DEF EnterRelink, Goto, ScheduleFrame, lists, asks, TimerInv, ListInv, TypeInv, TypeOK,
         CallType, CallHasEvent
<1>2. /\ asked[e] = IF scheduled_at[e] > cur_t THEN "owed" ELSE "missed"
      /\ Placed(scheduled_at[e], asked[e], cur_t, level, call.slot)
  BY <1>e, <1>1 DEF TimerInv, CallInv, ToBePlaced
<1>3. \/ mpc' = "idle" /\ slot[e] = call.slot
      \/ mpc' \in {"unlink", "read"} /\ call'.event = e /\ call'.slot = call.slot
  BY <1>e, <1>1 DEF EnterRelink, Goto, CallType
<1>4. CASE mpc' = "idle" /\ slot[e] = call.slot
  <2>1. WellPlaced(e)' /\ slot'[e] # NoSlot /\ asked'[e] \notin {"no", "again"}
    BY <1>1, <1>2, <1>4, PlacedNext, Constants
  <2>2. \A x \in Events : WellPlaced(x)' = WellPlaced(x)
    BY <1>1 DEF WellPlaced
  <2>3. AskedInv'
    BY <1>e, <1>1, <2>1, <2>2 DEF TimerInv, AskedInv
  <2> QED
    BY <1>4, <2>3 DEF CallInv, Relinking
<1>5. CASE mpc' \in {"unlink", "read"} /\ call'.event = e /\ call'.slot = call.slot
  <2>1. ToBePlaced'
    BY <1>1, <1>2, <1>5, PlacedNext
  <2>2. AskedInv'
    BY <1>e, <1>1, <1>5, AskedKept DEF TimerInv
  <2> QED
    BY <1>1, <1>2, <1>5, <2>1, <2>2 DEF CallInv, Relinking
<1> QED
  BY <1>3, <1>4, <1>5

LEMMA RelinkKeepsPlaces == TimerInv /\ RelinkStep => AskedInv' /\ CallInv'
<1> SUFFICES ASSUME TimerInv, RelinkStep PROVE AskedInv' /\ CallInv'
  OBVIOUS
<1>e. PICK e \in Events : e = call.event
  BY DEF RelinkStep, JoinAfter, Unlink, ReadHead, LinkNext, LinkBack, LinkHead, ClearPrev,
         SetSlot, Goto, Relinking, TimerInv, ListInv, TypeInv, CallHasEvent
<1>1. /\ mpc \in Relinking /\ UNCHANGED <<cur_t, m_now, level, scheduled_at, asked>>
      /\ call \in CallType /\ call.slot \in Slots
      /\ slot \in [Events -> Slots \cup {NoSlot}]
  BY DEF RelinkStep, JoinAfter, Unlink, ReadHead, LinkNext, LinkBack, LinkHead, ClearPrev,
         SetSlot, Goto, ScheduleFrame, asks, Relinking, TimerInv, ListInv, TypeInv, TypeOK, CallType, CallHasEvent
<1>2. /\ asked[e] = IF scheduled_at[e] > cur_t THEN "owed" ELSE "missed"
      /\ ToBePlaced
  BY <1>e, <1>1 DEF TimerInv, CallInv
<1>3. CASE SetSlot
  <2>1. mpc' = "idle" /\ slot' = [slot EXCEPT ![e] = call.slot]
    BY <1>e, <1>3 DEF SetSlot, Goto
  <2>2. slot'[e] = call.slot /\ \A x \in Events \ {e} : slot'[x] = slot[x]
    BY <1>1, <2>1
  <2>3. WellPlaced(e)' /\ slot'[e] # NoSlot /\ asked'[e] \notin {"no", "again"}
    BY <1>e, <1>1, <1>2, <2>2, PlacedNext, Constants DEF ToBePlaced
  <2>4. \A x \in Events \ {e} : WellPlaced(x)' = WellPlaced(x)
    BY <1>1, <2>2 DEF WellPlaced
  <2>5. AskedInv'
    BY <1>e, <1>1, <2>2, <2>3, <2>4 DEF TimerInv, AskedInv
  <2> QED
    BY <2>1, <2>5 DEF CallInv, Relinking
<1>4. CASE JoinAfter \/ Unlink \/ ReadHead \/ LinkNext \/ LinkBack \/ LinkHead \/ ClearPrev
  <2>1. /\ slot' = slot /\ call'.event = e /\ call'.slot = call.slot
        /\ mpc' \in Relinking \cup {"dead"}
    BY <1>e, <1>1, <1>4
       DEF JoinAfter, Unlink, ReadHead, LinkNext, LinkBack, LinkHead, ClearPrev, Goto, lists,
           Relinking, CallType
  <2>2. ToBePlaced'
    BY <1>e, <1>1, <1>2, <2>1 DEF ToBePlaced
  <2>3. AskedInv'
    BY <1>e, <1>1, <2>1, AskedKept DEF TimerInv
  <2> QED
    BY <1>1, <1>2, <2>1, <2>2, <2>3 DEF CallInv, Relinking
<1> QED
  BY <1>3, <1>4 DEF RelinkStep

(* A tick: no event has to run before it, and all are in time for the      *)
(* levels that are to be processed.                                        *)
LEMMA SignalKeepsPlaces ==
  ASSUME struck' = "never", TimerInv, Signal
  PROVE  /\ AskedInv' /\ CallInv'
         /\ \A e \in Events :
              /\ asked[e] = "missed" => cur_t < scheduled_at[e] + NUM_SLOTS
              /\ asked[e] = "owed" =>
                   \/ cur_t < scheduled_at[e]
                   \/ scheduled_at[e] % NUM_SLOTS = 0 /\ cur_t < scheduled_at[e] + NUM_SLOTS
<1>1. /\ Quiet /\ level = NoLevel /\ level' = 0 /\ cur_t' = cur_t + 1
      /\ UNCHANGED <<scheduled_at, asked, slot, mpc, call>> /\ TypeOK /\ cur_t \in Nat
  BY Constants DEF Signal, Quiet, lists, asks, TimerInv, ListInv, TypeInv, TypeOK
<1>2. call.event = Null
  BY <1>1, NoCallType DEF Quiet, TimerInv, ListInv, TypeInv, CallHasEvent
<1>3. ASSUME NEW e \in Events
      PROVE  /\ asked[e] = "no" <=> slot[e] = NoSlot
             /\ asked[e] # "again"
             /\ asked[e] # "no" => WellPlaced(e)
             /\ scheduled_at[e] \in Nat
             /\ asked[e] \in {"no", "owed", "missed"}
  <2>1. asked[e] \in {"no", "owed", "missed", "again"} /\ scheduled_at[e] \in Nat
    BY <1>1 DEF TypeOK
  <2> QED
    BY <1>2, <2>1, Constants DEF TimerInv, AskedInv
<1>4. ASSUME NEW e \in Events, asked[e] # "no"
      PROVE  /\ WellPlaced(e)'
             /\ asked[e] = "missed" => cur_t < scheduled_at[e] + NUM_SLOTS
             /\ asked[e] = "owed" =>
                  \/ cur_t < scheduled_at[e]
                  \/ scheduled_at[e] % NUM_SLOTS = 0 /\ cur_t < scheduled_at[e] + NUM_SLOTS
  <2>1. PICK l \in Levels : /\ slot[e] = <<l, InUnits(scheduled_at[e])[l] % NUM_SLOTS>>
                            /\ InTime(scheduled_at[e], asked[e], cur_t, NoLevel, l)
    BY <1>1, <1>3, <1>4 DEF WellPlaced, Placed
  <2>2. /\ InTime(scheduled_at[e], asked[e], cur_t + 1, 0, l)
        /\ asked[e] = "missed" => cur_t < scheduled_at[e] + NUM_SLOTS
        /\ asked[e] = "owed" =>
             \/ cur_t < scheduled_at[e]
             \/ scheduled_at[e] % NUM_SLOTS = 0 /\ cur_t < scheduled_at[e] + NUM_SLOTS
    BY <1>1, <1>3, <2>1, InTimeAtTick
  <2>3. Placed(scheduled_at[e], asked[e], cur_t + 1, 0, slot[e])
    BY <2>1, <2>2 DEF Placed
  <2>4. WellPlaced(e)'
    BY <1>1, <2>3, PlacedNext
  <2> QED
    BY <2>2, <2>4
<1>5. AskedInv'
  BY <1>1, <1>3, <1>4 DEF AskedInv
<1>6. CallInv'
  BY <1>1 DEF CallInv, Quiet, Relinking
<1>7. \A e \in Events :
        /\ asked[e] = "missed" => cur_t < scheduled_at[e] + NUM_SLOTS
        /\ asked[e] = "owed" =>
             \/ cur_t < scheduled_at[e]
             \/ scheduled_at[e] % NUM_SLOTS = 0 /\ cur_t < scheduled_at[e] + NUM_SLOTS
  BY <1>4
<1> QED
  BY <1>5, <1>6, <1>7

(* What the handler finds.                                                 *)
LEMMA HandlerFacts ==
  ASSUME TimerInv, HandlerStep
  PROVE  /\ level \in Levels /\ Quiet /\ call.event = Null /\ TypeOK
         /\ cur_t \in Nat /\ m_now \in [Levels -> Nat]
         /\ m_now = InUnits(cur_t) /\ m_now[0] = cur_t
         /\ CurrentSlot = <<level, InUnits(cur_t)[level] % NUM_SLOTS>>
         /\ UNCHANGED <<cur_t, m_now, ticking, scheduled_at, mpc, call>>
         /\ \A e \in Events : /\ asked[e] = "no" <=> slot[e] = NoSlot
                              /\ asked[e] \in {"no", "owed", "missed"}
                              /\ asked[e] # "no" => WellPlaced(e)
                              /\ scheduled_at[e] \in Nat
<1>1. /\ level # NoLevel /\ TypeOK /\ Quiet
      /\ UNCHANGED <<cur_t, m_now, ticking, scheduled_at, mpc, call>>
  BY DEF HandlerStep, NextLevel, Execute, Cascade, HandlerFrame, TimerInv, HandlerWaits,
         ListInv, TypeInv
<1>2. call.event = Null
  BY <1>1, NoCallType DEF Quiet, TimerInv, ListInv, TypeInv, CallHasEvent
<1>3. level \in Levels /\ cur_t \in Nat /\ m_now \in [Levels -> Nat]
  BY <1>1, Constants DEF TypeOK
<1>4. m_now = InUnits(cur_t) /\ m_now[0] = cur_t
  BY <1>1 DEF TimerInv, ClockInv
<1>5. ASSUME NEW e \in Events
      PROVE  /\ asked[e] = "no" <=> slot[e] = NoSlot
             /\ asked[e] \in {"no", "owed", "missed"}
             /\ asked[e] # "no" => WellPlaced(e)
             /\ scheduled_at[e] \in Nat
  <2>1. asked[e] \in {"no", "owed", "missed", "again"} /\ scheduled_at[e] \in Nat
    BY <1>1 DEF TypeOK
  <2> QED
    BY <1>2, <2>1, Constants DEF TimerInv, AskedInv
<1> QED
  BY <1>1, <1>2, <1>3, <1>4, <1>5 DEF CurrentSlot

(* Where the first event of the current slot is in its time.               *)
LEMMA FirstInSlot ==
  ASSUME TimerInv, HandlerStep, NEW e \in Events, slot[e] = CurrentSlot
  PROVE  /\ asked[e] \in {"owed", "missed"}
         /\ InTime(scheduled_at[e], asked[e], cur_t, level, level)
         /\ InUnits(scheduled_at[e])[level] % NUM_SLOTS = InUnits(cur_t)[level] % NUM_SLOTS
<1>1. slot[e] # NoSlot
  BY HandlerFacts, CurrentSlotIsSlot, Constants
<1>2. asked[e] \in {"owed", "missed"} /\ WellPlaced(e)
  BY <1>1, HandlerFacts
<1>3. PICK l \in Levels : /\ slot[e] = <<l, InUnits(scheduled_at[e])[l] % NUM_SLOTS>>
                          /\ InTime(scheduled_at[e], asked[e], cur_t, level, l)
  BY <1>2 DEF WellPlaced, Placed
<1>4. <<l, InUnits(scheduled_at[e])[l] % NUM_SLOTS>>
        = <<level, InUnits(cur_t)[level] % NUM_SLOTS>>
  BY <1>3, HandlerFacts
<1>5. l = level
  BY <1>4
<1> QED
  BY <1>2, <1>3, <1>4, <1>5

LEMMA NextLevelKeepsPlaces == TimerInv /\ NextLevel => AskedInv'
<1> SUFFICES ASSUME TimerInv, NextLevel PROVE AskedInv'
  OBVIOUS
<1>1. HandlerStep
  BY DEF HandlerStep
<1>2. First = Null /\ level' = Above(level) /\ UNCHANGED <<head, slot, next, prev, asked>>
  BY DEF NextLevel, lists
<1>3. \A e \in Events : slot[e] # CurrentSlot
  <2>1. CurrentSlot \in Slots /\ Whole(head, slot, next, prev)
    BY <1>1, HandlerFacts, CurrentSlotIsSlot DEF Quiet, TimerInv, HandlerWaits, ListInv, RelinkInv
  <2>2. PICK c \in Seq(Events) :
          /\ IsList(c, head[CurrentSlot], next, prev)
          /\ ToSet(c) = {e \in Events : slot[e] = CurrentSlot}
    BY <2>1 DEF Whole
  <2>3. c = <<>>
    <3> SUFFICES ASSUME c # <<>> PROVE FALSE
      OBVIOUS
    <3>1. Null = c[1]
      BY <1>2, <2>2 DEF IsList, IsChain, First
    <3>2. c[1] \in Events
      BY EmptySeq
    <3> QED
      BY <3>1, <3>2, Constants
  <2> QED
    BY <2>2, <2>3 DEF ToSet
<1>4. ASSUME NEW e \in Events, asked[e] # "no" PROVE WellPlaced(e)'
  <2>1. PICK l \in Levels : /\ slot[e] = <<l, InUnits(scheduled_at[e])[l] % NUM_SLOTS>>
                            /\ InTime(scheduled_at[e], asked[e], cur_t, level, l)
    BY <1>1, <1>4, HandlerFacts DEF WellPlaced, Placed
  <2>2. l = level => InUnits(scheduled_at[e])[l] % NUM_SLOTS # InUnits(cur_t)[l] % NUM_SLOTS
    BY <1>1, <1>3, <2>1, HandlerFacts
  <2>3. InTime(scheduled_at[e], asked[e], cur_t, Above(level), l)
    BY <1>1, <2>1, <2>2, HandlerFacts, InTimeAbove
  <2>4. Placed(scheduled_at[e], asked[e], cur_t, Above(level), slot[e])
    BY <2>1, <2>3 DEF Placed
  <2> QED
    BY <1>1, <1>2, <2>4, HandlerFacts, PlacedNext
<1> QED
  BY <1>1, <1>2, <1>4, HandlerFacts DEF AskedInv

(* The event that the handler executes is at its time.                     *)
LEMMA ExecuteKeepsPlaces ==
  ASSUME TimerInv, Execute
  PROVE  /\ AskedInv'
         /\ \E e \in Events :
              /\ asked' = [asked EXCEPT ![e] = "no"]
              /\ \/ asked[e] = "owed" /\ scheduled_at[e] = cur_t
                 \/ /\ asked[e] = "owed" /\ scheduled_at[e] % NUM_SLOTS = 0
                    /\ scheduled_at[e] + NUM_SLOTS = cur_t
                 \/ asked[e] = "missed" /\ scheduled_at[e] + NUM_SLOTS = cur_t
<1>1. HandlerStep /\ ListInv
  BY DEF HandlerStep, TimerInv
<1>2. PICK e \in Events : e = First /\ slot[e] = CurrentSlot
  BY <1>1, HandlerFacts, PopKeepsLists DEF Execute, Quiet, Relinking
<1>3. /\ asked[e] \in {"owed", "missed"}
      /\ InTime(scheduled_at[e], asked[e], cur_t, level, level)
      /\ InUnits(scheduled_at[e])[level] % NUM_SLOTS = InUnits(cur_t)[level] % NUM_SLOTS
  BY <1>1, <1>2, FirstInSlot
<1>4. level = 0
  <2>1. level # 0 => cur_t > scheduled_at[e]
    BY <1>1, <1>2, HandlerFacts DEF Execute, Due
  <2>2. level # 0 => cur_t <= scheduled_at[e]
    BY <1>1, <1>3, HandlerFacts, InTimeInSlot
  <2> QED
    BY <1>1, <2>1, <2>2, HandlerFacts
<1>5. \/ asked[e] = "owed" /\ scheduled_at[e] = cur_t
      \/ /\ asked[e] = "owed" /\ scheduled_at[e] % NUM_SLOTS = 0
         /\ scheduled_at[e] + NUM_SLOTS = cur_t
      \/ asked[e] = "missed" /\ scheduled_at[e] + NUM_SLOTS = cur_t
  BY <1>1, <1>3, <1>4, HandlerFacts, InTimeInSlot
<1>6. /\ asked' = [asked EXCEPT ![e] = "no"] /\ slot' = [slot EXCEPT ![e] = NoSlot]
      /\ level' = level
  <2>1. Outcome(e) = "no"
    BY <1>1, <1>3, HandlerFacts, Constants DEF Outcome
  <2> QED
    BY <1>2, <2>1 DEF Execute
<1>7. AskedInv'
  <2> SUFFICES ASSUME NEW x \in Events
               PROVE  /\ asked'[x] # "again"
                      /\ asked'[x] = "no" <=> slot'[x] = NoSlot
                      /\ asked'[x] # "no" => WellPlaced(x)'
    BY DEF AskedInv
  <2>1. CASE x = e
    BY <1>1, <1>6, <2>1, HandlerFacts DEF TypeOK
  <2>2. CASE x # e
    <3>1. asked'[x] = asked[x] /\ slot'[x] = slot[x]
      BY <1>1, <1>6, <2>2, HandlerFacts DEF TypeOK
    <3>2. WellPlaced(x)' = WellPlaced(x)
      BY <1>1, <1>6, <3>1, HandlerFacts DEF WellPlaced
    <3> QED
      BY <1>1, <3>1, <3>2, HandlerFacts
  <2> QED
    BY <2>1, <2>2
<1> QED
  BY <1>5, <1>6, <1>7

LEMMA CascadeKeepsPlaces == TimerInv /\ Cascade => AskedInv'
<1> SUFFICES ASSUME TimerInv, Cascade PROVE AskedInv'
  OBVIOUS
<1>1. HandlerStep /\ ListInv
  BY DEF HandlerStep, TimerInv
<1>2. PICK e \in Events : e = First /\ slot[e] = CurrentSlot
  BY <1>1, HandlerFacts, PopKeepsLists DEF Cascade, Quiet, Relinking
<1>3. /\ asked[e] \in {"owed", "missed"}
      /\ InTime(scheduled_at[e], asked[e], cur_t, level, level)
      /\ InUnits(scheduled_at[e])[level] % NUM_SLOTS = InUnits(cur_t)[level] % NUM_SLOTS
  BY <1>1, <1>2, FirstInSlot
<1>4. level # 0 /\ ~Due(First)
  BY DEF Cascade, Due
<1>5. /\ InUnits(scheduled_at[e])[level] = InUnits(cur_t)[level]
      /\ cur_t <= scheduled_at[e] /\ cur_t % NUM_SLOTS = 0 /\ asked[e] = "owed"
  BY <1>1, <1>3, <1>4, HandlerFacts, InTimeInSlot
<1>6. scheduled_at[e] - cur_t <= Reach(0) /\ SlotFor(scheduled_at[e] - cur_t) \in Slots
  BY <1>1, <1>2, <1>4, HandlerFacts, CascadeSlot DEF ListInv
<1>7. Placed(scheduled_at[e], asked[e], cur_t, level, SlotFor(scheduled_at[e] - cur_t))
  BY <1>1, <1>4, <1>5, <1>6, HandlerFacts, InTimeBelow
<1>8. /\ slot' = [slot EXCEPT ![e] = SlotFor(scheduled_at[e] - cur_t)]
      /\ UNCHANGED <<asked, level>>
  BY <1>1, <1>2, HandlerFacts DEF Cascade
<1> SUFFICES ASSUME NEW x \in Events
             PROVE  /\ asked'[x] # "again"
                    /\ asked'[x] = "no" <=> slot'[x] = NoSlot
                    /\ asked'[x] # "no" => WellPlaced(x)'
  BY DEF AskedInv
<1>9. CASE x = e
  <2>1. slot'[x] = SlotFor(scheduled_at[e] - cur_t)
    BY <1>1, <1>8, <1>9, HandlerFacts DEF TypeOK
  <2>2. slot'[x] # NoSlot
    BY <1>6, <2>1, Constants
  <2>3. WellPlaced(x)'
    BY <1>1, <1>7, <1>8, <1>9, <2>1, HandlerFacts, PlacedNext
  <2> QED
    BY <1>5, <1>8, <1>9, <2>2, <2>3
<1>10. CASE x # e
  <2>1. slot'[x] = slot[x]
    BY <1>1, <1>8, <1>10, HandlerFacts DEF TypeOK
  <2>2. WellPlaced(x)' = WellPlaced(x)
    BY <1>1, <1>8, <2>1, HandlerFacts DEF WellPlaced
  <2> QED
    BY <1>1, <1>8, <2>1, <2>2, HandlerFacts
<1> QED
  BY <1>9, <1>10

LEMMA HandlerKeepsPlaces == TimerInv /\ HandlerStep => AskedInv' /\ CallInv'
<1> SUFFICES ASSUME TimerInv, HandlerStep PROVE AskedInv' /\ CallInv'
  OBVIOUS
<1>1. AskedInv'
  BY NextLevelKeepsPlaces, ExecuteKeepsPlaces, CascadeKeepsPlaces DEF HandlerStep
<1>2. CallInv'
  BY HandlerFacts DEF CallInv, Quiet, Relinking
<1> QED
  BY <1>1, <1>2

LEMMA StepTimerInv == TimerInv /\ [Next]_vars /\ struck' = "never" => TimerInv'
<1> SUFFICES ASSUME TimerInv, [Next]_vars, struck' = "never" PROVE TimerInv'
  OBVIOUS
<1>1. ListInv' /\ ClockInv'
  BY StaysStruck, StepUnspoiltInv, StepClockInv DEF TimerInv, ListInv, UnspoiltInv
<1>h. HandlerWaits'
  <2>1. CASE ThreadStep
    <3>1. level' = NoLevel
      BY <2>1, ThreadStaysAhead
    <3> QED
      BY <3>1 DEF HandlerWaits
  <2>2. CASE Signal
    BY <2>2, StaysStruck DEF Signal, HandlerWaits, Quiet
  <2>3. CASE HandlerStep \/ UNCHANGED vars
    <3>1. mpc' = mpc /\ (level # NoLevel \/ level' = level)
      BY <2>3 DEF HandlerStep, NextLevel, Execute, Cascade, HandlerFrame, vars
    <3> QED
      BY <3>1 DEF TimerInv, HandlerWaits, Quiet
  <2> QED
    BY <2>1, <2>2, <2>3 DEF Next
<1>2. AskedInv' /\ CallInv'
  <2>1. CASE ThreadStep
    BY <2>1, StartKeepsPlaces, ScheduleKeepsPlaces, StampKeepsPlaces, LevelKeepsPlaces,
       ChooseKeepsPlaces, EnterKeepsPlaces, RelinkKeepsPlaces DEF ThreadStep
  <2>2. CASE Signal
    BY <2>2, SignalKeepsPlaces
  <2>3. CASE HandlerStep
    BY <2>3, HandlerKeepsPlaces
  <2>4. CASE UNCHANGED vars
    <3>1. AskedInv'
      BY <2>4, AskedKept DEF vars, asks, lists, TimerInv
    <3>2. ToBePlaced' = ToBePlaced
      BY <2>4 DEF vars, asks, ToBePlaced
    <3>3. CallInv'
      BY <2>4, <3>2 DEF vars, asks, TimerInv, CallInv
    <3> QED
      BY <3>1, <3>3
  <2> QED
    BY <2>1, <2>2, <2>3, <2>4 DEF Next
<1> QED
  BY <1>1, <1>h, <1>2 DEF TimerInv

-----------------------------------------------------------------------------
(***************************************************************************)
(* The wheel is a timer.                                                   *)
(***************************************************************************)
LEMMA InitIsTimerInit == Init => Abstract!Init
BY Constants DEF Init, Abstract!Init

LEMMA StartIsTimerStep ==
  ASSUME NUM_LEVELS > 1
  PROVE  TimerInv /\ (StartTick \/ SetNow) => [Abstract!Next]_(Abstract!timerVars)
<1> SUFFICES ASSUME TimerInv, StartTick \/ SetNow
             PROVE  [Abstract!Next]_(Abstract!timerVars)
  OBVIOUS
<1>1. CASE StartTick
  <2>1. /\ ~ticking /\ ticking' /\ mpc' = "clock" /\ cur_t' = cur_t
        /\ UNCHANGED <<m_now, scheduled_at, asked>>
    BY <1>1 DEF StartTick, Goto, asks, TimerInv, ClockInv
  <2>2. Abstract!Start
    BY <2>1 DEF Abstract!Start
  <2> QED
    BY <2>2 DEF Abstract!Next
<1>2. CASE SetNow
  <2>1. /\ mpc = "clock" /\ ticking /\ UNCHANGED <<cur_t, ticking, scheduled_at, asked>>
        /\ m_now' = [m_now EXCEPT ![call.level] = 0] /\ call.level \in Levels
        /\ m_now \in [Levels -> Nat]
        /\ \/ call.level + 1 \in Levels /\ mpc' = "clock"
           \/ call.level + 1 \notin Levels /\ mpc' = "idle"
    BY <1>2 DEF SetNow, Goto, asks, TimerInv, ListInv, TypeInv, TypeOK, WithinReach
  <2>2. CASE call.level = 0
    <3>1. mpc' = "clock" /\ m_now'[0] = 0
      BY <2>1, <2>2, Constants DEF Levels
    <3>2. Abstract!Rewind
      BY <2>1, <3>1 DEF Abstract!Rewind
    <3> QED
      BY <3>2 DEF Abstract!Next
  <2>3. CASE call.level # 0
    <3>1. m_now'[0] = m_now[0]
      BY <2>1, <2>3, Constants
    <3>2. CASE mpc' = "clock"
      BY <2>1, <3>1, <3>2 DEF Abstract!timerVars
    <3>3. CASE mpc' = "idle"
      <4>1. Abstract!Started
        BY <2>1, <3>1, <3>3 DEF Abstract!Started
      <4> QED
        BY <4>1 DEF Abstract!Next
    <3> QED
      BY <2>1, <3>2, <3>3
  <2> QED
    BY <2>2, <2>3
<1> QED
  BY <1>1, <1>2

LEMMA StampIsTimerStep == TimerInv /\ Stamp => Abstract!Next
<1> SUFFICES ASSUME TimerInv, Stamp PROVE Abstract!Next
  OBVIOUS
<1>1. Abstract!Schedule(call.event, call.delta)
  <2>1. /\ scheduled_at' = [scheduled_at EXCEPT ![call.event] = m_now[0] + call.delta]
        /\ asked' = [asked EXCEPT ![call.event] =
                       IF m_now[0] + call.delta > cur_t THEN "owed" ELSE "missed"]
    BY StampFacts DEF Stamp
  <2>2. UNCHANGED <<cur_t, m_now, ticking>> /\ mpc # "clock" /\ mpc' # "clock"
    BY StampFacts
  <2> QED
    BY <2>1, <2>2 DEF Abstract!Schedule
<1> QED
  BY <1>1, StampFacts DEF Abstract!Next

(* The thread's way to the slot, and the handler's through the levels, do  *)
(* not show.                                                               *)
LEMMA HiddenSteps ==
  ASSUME \/ \E e \in Events, delta \in Deltas : Schedule(e, delta)
         \/ NextLevelUp \/ ChooseSlot \/ EnterRelink \/ RelinkStep \/ NextLevel \/ Cascade
         \/ UNCHANGED vars
  PROVE  UNCHANGED Abstract!timerVars
<1>1. /\ UNCHANGED <<cur_t, m_now, ticking, scheduled_at, asked>>
      /\ mpc = "clock" <=> mpc' = "clock"
  <2>1. CASE NextLevelUp
    BY <2>1 DEF NextLevelUp, Goto, ScheduleFrame, asks
  <2>2. CASE ChooseSlot \/ EnterRelink
    BY <2>2 DEF ChooseSlot, EnterRelink, Goto, ScheduleFrame, asks
  <2>6. CASE \E e \in Events, delta \in Deltas : Schedule(e, delta)
    BY <2>6 DEF Schedule, Goto, ScheduleFrame, asks
  <2>3. CASE RelinkStep
    BY <2>3 DEF RelinkStep, JoinAfter, Unlink, ReadHead, LinkNext, LinkBack, LinkHead, ClearPrev, SetSlot,
                Goto, ScheduleFrame, asks
  <2>4. CASE NextLevel \/ Cascade
    BY <2>4 DEF NextLevel, Cascade, HandlerFrame
  <2>5. CASE UNCHANGED vars
    BY <2>5 DEF vars, asks
  <2> QED
    BY <2>1, <2>2, <2>3, <2>4, <2>5, <2>6
<1> QED
  BY <1>1 DEF Abstract!timerVars

LEMMA SignalIsTimerStep ==
  ASSUME struck' = "never", TimerInv, Signal
  PROVE  Abstract!Tick
<1>1. /\ ticking /\ cur_t' = cur_t + 1 /\ m_now' = InUnits(cur_t') /\ cur_t \in Nat
      /\ mpc = "clock" => cur_t + 1 < NUM_SLOTS
      /\ UNCHANGED <<ticking, scheduled_at, asked, mpc>> /\ TypeOK
  BY Constants DEF Signal, asks, TimerInv, ListInv, TypeInv, TypeOK
<1>2. m_now'[0] = cur_t'
  BY <1>1, InUnitsOf
<1>3. ASSUME NEW e \in Events, asked[e] # "no"
      PROVE  \E t \in Abstract!Times(e) : t > cur_t
  <2>1. asked[e] \in {"owed", "missed"} /\ scheduled_at[e] \in Nat
    BY <1>1, <1>3 DEF TypeOK, TimerInv, AskedInv
  <2>2. CASE asked[e] = "missed"
    <3>1. cur_t < scheduled_at[e] + NUM_SLOTS
      BY <2>2, SignalKeepsPlaces
    <3>2. Abstract!Times(e) = {scheduled_at[e] + NUM_SLOTS}
      BY <2>2 DEF Abstract!Times
    <3> QED
      BY <1>1, <2>1, <3>1, <3>2, Constants
  <2>3. CASE asked[e] = "owed"
    <3>1. \/ cur_t < scheduled_at[e]
          \/ scheduled_at[e] % NUM_SLOTS = 0 /\ cur_t < scheduled_at[e] + NUM_SLOTS
      BY <2>3, SignalKeepsPlaces
    <3>2. /\ scheduled_at[e] \in Abstract!Times(e)
          /\ scheduled_at[e] % NUM_SLOTS = 0 =>
               scheduled_at[e] + NUM_SLOTS \in Abstract!Times(e)
      BY <2>3 DEF Abstract!Times
    <3> QED
      BY <1>1, <2>1, <3>1, <3>2, Constants
  <2> QED
    BY <2>1, <2>2, <2>3
<1> QED
  BY <1>1, <1>2, <1>3 DEF Abstract!Tick

LEMMA ExecuteIsTimerStep ==
  ASSUME TimerInv, Execute
  PROVE  \E e \in Events : Abstract!Run(e)
<1>1. HandlerStep
  BY DEF HandlerStep
<1>2. PICK e \in Events :
        /\ asked' = [asked EXCEPT ![e] = "no"]
        /\ \/ asked[e] = "owed" /\ scheduled_at[e] = cur_t
           \/ /\ asked[e] = "owed" /\ scheduled_at[e] % NUM_SLOTS = 0
              /\ scheduled_at[e] + NUM_SLOTS = cur_t
           \/ asked[e] = "missed" /\ scheduled_at[e] + NUM_SLOTS = cur_t
  BY ExecuteKeepsPlaces
<1>3. cur_t \in Abstract!Times(e)
  BY <1>2 DEF Abstract!Times
<1>4. UNCHANGED <<cur_t, m_now, ticking, scheduled_at, mpc>>
  BY <1>1, HandlerFacts
<1>5. Abstract!Run(e)
  BY <1>2, <1>3, <1>4 DEF Abstract!Run
<1> QED
  BY <1>5

(* Whatever ticks come during startTick and between the calls of schedule, *)
(* and until one comes within such a call, the levels, slots and lists     *)
(* implement Timer: every event runs once for each time it was asked for,  *)
(* never early, and late only in the cases that Timer names, and no tick   *)
(* passes over one (timerwheel.cpp:26-97,145-220).                         *)
THEOREM ImplementsTimer ==
  ASSUME NUM_LEVELS > 1
  PROVE  Spec => IsTimer
<1> DEFINE Inv == TypeInv /\ (struck = "never" => TimerInv)
<1>1. Init => Inv
  BY InitTypeInv, InitTimerInv
<1>2. Inv /\ [Next]_vars => Inv'
  BY StepTypeInv, StaysStruck, StepTimerInv
<1>3. TimerInv /\ [Next]_vars /\ struck' = "never" => [Abstract!Next]_(Abstract!timerVars)
  <2> SUFFICES ASSUME TimerInv, [Next]_vars, struck' = "never"
               PROVE  [Abstract!Next]_(Abstract!timerVars)
    OBVIOUS
  <2>1. CASE StartTick \/ SetNow
    BY <2>1, StartIsTimerStep
  <2>2. CASE Stamp
    BY <2>2, StampIsTimerStep
  <2>3. CASE \/ \E e \in Events, delta \in Deltas : Schedule(e, delta)
             \/ NextLevelUp \/ ChooseSlot \/ EnterRelink \/ RelinkStep \/ NextLevel
             \/ Cascade \/ UNCHANGED vars
    BY <2>3, HiddenSteps
  <2>4. CASE Signal
    BY <2>4, SignalIsTimerStep DEF Abstract!Next
  <2>5. CASE Execute
    BY <2>5, ExecuteIsTimerStep DEF Abstract!Next
  <2> QED
    BY <2>1, <2>2, <2>3, <2>4, <2>5 DEF Next, ThreadStep, HandlerStep
<1>4. Inv /\ [Next]_vars => [struck' # "never" \/ Abstract!Next]_(Abstract!timerVars)
  BY <1>3, StaysStruck
<1> HIDE DEF Inv
<1> QED
  BY <1>1, <1>2, <1>4, InitIsTimerInit, PTL DEF Spec, IsTimer
=============================================================================
