----------------------------- MODULE TimerWheel -----------------------------
(***************************************************************************)
(* The hierarchical timer wheel (src/timer/timerwheel.cpp, timerwheel.h):  *)
(* a thread that starts the clock and schedules events, and the handler of *)
(* SIGALRM that advances the clock and processes one slot of each level.   *)
(* No caller of schedule holds SIGALRM back: the handler interrupts the    *)
(* thread between any two of its steps, inside schedule too, and runs to   *)
(* its end before the thread goes on.                                      *)
(*                                                                         *)
(* A slot is a doubly linked list, of which m_events is the head; m_slot,  *)
(* m_next and m_prev of the events are the functions slot, next and prev.  *)
(* max_events is the largest integer, so it never runs out.                *)
(***************************************************************************)
EXTENDS Lists

CONSTANTS
  Events,
  NUM_SLOTS,   (* slots of a level                                         *)
  NUM_LEVELS,  (* levels                                                   *)
  Deltas,      (* the delays asked for                                     *)
  MaxTick,     (* bound: the last tick                                     *)
  SpoiltTick,  (* bound: the tick at which the thread and the clock stop    *)
               (* if a signal has spoilt a list, see struck                 *)
  Null         (* nullptr                                                  *)

Levels == 0 .. (NUM_LEVELS - 1)

(* The ticks that a slot of each level lasts. *)
Span[l \in Levels] == IF l = 0 THEN 1 ELSE NUM_SLOTS * Span[l - 1]

ASSUME TimerAssumption ==
  /\ NUM_SLOTS \in Nat /\ NUM_SLOTS > 1 /\ NUM_LEVELS \in Nat \ {0}
  /\ Deltas \subseteq 0 .. (NUM_SLOTS - 1) * Span[NUM_LEVELS - 1]
  /\ MaxTick \in Nat /\ SpoiltTick \in Nat
  /\ IsFiniteSet(Events) /\ Null \notin Events

Slots == Levels \X (0 .. (NUM_SLOTS - 1))
NoSlot == <<-1, -1>>
NoLevel == -1

VARIABLES
  cur_t,        (* the clock, in ticks                                     *)
  m_now,        (* what schedule reads of it, in the units of each level   *)
  ticking,      (* setitimer has been called                               *)
  head,         (* m_events of each slot                                   *)
  slot,         (* m_slot of each event                                    *)
  next, prev,   (* m_next and m_prev of each event                         *)
  scheduled_at, (* m_scheduled_at of each event                            *)
  mpc,          (* where the thread is                                     *)
  call,         (* its call: the event, delta, the time to set, level, the *)
                (* slot, and what relink has read of the list              *)
  level,        (* the level the handler processes, if it runs             *)
  asked,        (* history: what became of the last schedule of each event *)
  struck        (* history: "schedule" once a signal has come while         *)
                (* schedule ran, "relink" once its handler has taken an     *)
                (* event from a list while relink changed one               *)

lists == <<head, slot, next, prev>>
asks == <<scheduled_at, asked>>
vars == <<cur_t, m_now, ticking, lists, asks, mpc, call, level,
          struck>>

EventOrNull == Events \cup {Null}

NoCall == [event |-> Null, delta |-> 0, at |-> 0, level |-> 0, slot |-> NoSlot,
           before |-> Null, after |-> Null]

TypeOK ==
  /\ cur_t \in 0 .. MaxTick
  /\ m_now \in [Levels -> 0 .. MaxTick]
  /\ ticking \in BOOLEAN
  /\ head \in [Slots -> EventOrNull]
  /\ slot \in [Events -> Slots \cup {NoSlot}]
  /\ next \in [Events -> EventOrNull]
  /\ prev \in [Events -> EventOrNull]
  /\ scheduled_at \in [Events -> Nat]
  /\ mpc \in {"idle", "clock", "stamp", "level", "relink", "unlink", "join", "read",
              "next", "back", "head", "prev", "slot", "dead"}
  /\ call \in [event : EventOrNull, delta : Nat, at : Nat, level : Levels,
               slot : Slots \cup {NoSlot}, before : EventOrNull, after : EventOrNull]
  /\ level \in Levels \cup {NoLevel}
  /\ asked \in [Events -> {"no", "owed", "missed", "again"}]
  /\ struck \in {"never", "schedule", "relink"}

Init ==
  /\ cur_t = 0 /\ m_now = [l \in Levels |-> 0] /\ ticking = FALSE
  /\ head = [s \in Slots |-> Null]
  /\ slot = [e \in Events |-> NoSlot]
  /\ next = [e \in Events |-> Null] /\ prev = [e \in Events |-> Null]
  /\ scheduled_at = [e \in Events |-> 0]
  /\ mpc = "idle" /\ call = NoCall /\ level = NoLevel
  /\ asked = [e \in Events |-> "no"] /\ struck = "never"

(* A time in the units of each level: shifted by the bits of a slot's      *)
(* number, once for every level below.                                     *)
InUnits(time) ==
  LET units[l \in Levels] == IF l = 0 THEN time ELSE units[l - 1] \div NUM_SLOTS
  IN units

(* delta in the units of level l, in those of the next level. *)
Raise(delta, l) == (delta + (m_now[l] % NUM_SLOTS)) \div NUM_SLOTS

(* Seeded fault: counted from the slot after the current one. *)
Far_SlotAt(l, delta) == <<l, (m_now[l] + delta + 1) % NUM_SLOTS>>

SlotAt(l, delta) == <<l, (m_now[l] + delta) % NUM_SLOTS>>

(* A write through a pointer, which may be nullptr and is then left out. *)
Store(field, e, value) == IF e = Null THEN field ELSE [field EXCEPT ![e] = value]

-----------------------------------------------------------------------------
(***************************************************************************)
(* The thread: startTick, and schedule with the relink it ends with.  A    *)
(* step is one write of what the handler shares, or a read of it: of one   *)
(* entry of m_now, of a head, or of an event's slot and links.             *)
(***************************************************************************)
Bounded == struck = "relink" => cur_t < SpoiltTick

(* The thread makes no step while the handler runs. *)
Goto(from, to) ==
  /\ Bounded
  /\ level = NoLevel /\ UNCHANGED <<level, struck>>
  /\ mpc = from /\ mpc' = to

(* startTick is called once, with the time 0.  From here on signals come; *)
StartTick ==
  /\ ~ticking
  /\ cur_t' = 0 /\ ticking' = TRUE
  /\ Goto("idle", "clock")
  /\ UNCHANGED <<m_now, lists, asks, call>>

(* then m_now is set, level by level, whatever they have made of it. *)
SetNow ==
  /\ mpc = "clock"
  /\ m_now' = [m_now EXCEPT ![call.level] = 0]
  /\ \/ /\ call.level + 1 \in Levels
        /\ Goto("clock", "clock") /\ call' = [call EXCEPT !.level = @ + 1]
     \/ /\ call.level + 1 \notin Levels
        /\ Goto("clock", "idle") /\ call' = NoCall
  /\ UNCHANGED <<cur_t, ticking, lists, asks>>

ScheduleFrame == UNCHANGED <<cur_t, m_now, ticking>>

(* A delta of 0 is logged as an error, and scheduled. *)
Schedule(e, delta) ==
  /\ Goto("idle", "stamp")
  /\ call' = [NoCall EXCEPT !.event = e, !.delta = delta, !.at = m_now[0] + delta]
  /\ UNCHANGED <<lists, asks>>
  /\ ScheduleFrame

(* An event whose time has come already is "missed".                       *)
Stamp ==
  /\ Goto("stamp", "level")
  /\ scheduled_at' = [scheduled_at EXCEPT ![call.event] = call.at]
  /\ asked' = [asked EXCEPT ![call.event] = IF call.at > cur_t THEN "owed" ELSE "missed"]
  /\ UNCHANGED <<lists, call>>
  /\ ScheduleFrame

(* One turn of the loop over the levels. *)
NextLevelUp ==
  /\ Goto("level", "level")
  /\ call.delta >= NUM_SLOTS
  /\ call' = [call EXCEPT !.delta = Raise(call.delta, call.level), !.level = @ + 1]
  /\ UNCHANGED <<lists, asks>>
  /\ ScheduleFrame

ChooseSlot ==
  /\ Goto("level", "relink")
  /\ call.delta < NUM_SLOTS
  /\ call' = [call EXCEPT !.slot = SlotAt(call.level, call.delta)]
  /\ UNCHANGED <<lists, asks>>
  /\ ScheduleFrame

(* relink returns at once if the event is in the slot, and begins with     *)
(* reading the neighbours of an event that is in another.                  *)
EnterRelink ==
  LET e == call.event IN
  /\ mpc = "relink"
  /\ \/ /\ slot[e] = call.slot
        /\ Goto("relink", "idle") /\ call' = NoCall
     \/ /\ slot[e] \notin {call.slot, NoSlot}
        /\ Goto("relink", "unlink")
        /\ call' = [call EXCEPT !.before = prev[e], !.after = next[e]]
     \/ /\ slot[e] = NoSlot
        /\ Goto("relink", "read") /\ UNCHANGED call
  /\ UNCHANGED <<lists, asks>>
  /\ ScheduleFrame

(* Seeded fault: the neighbour after keeps its m_prev. *)
OneWay_PrevJoined == prev

PrevJoined == Store(prev, call.after, call.before)

JoinAfter ==
  /\ Goto("unlink", "join")
  /\ prev' = PrevJoined
  /\ UNCHANGED <<head, slot, next, call>>

(* The neighbour before is joined, or the head moves if there is none.  A  *)
(* signal since the reads may have popped the event and cleared m_slot,    *)
(* through which the head is written: the process dies of the null pointer.*)
Unlink ==
  LET s == slot[call.event] IN
  /\ mpc = "join"
  /\ next' = Store(next, call.before, call.after)
  /\ \/ /\ call.before # Null
        /\ Goto("join", "read") /\ UNCHANGED head
     \/ /\ call.before = Null /\ s # NoSlot
        /\ Goto("join", "read") /\ head' = [head EXCEPT ![s] = call.after]
     \/ /\ call.before = Null /\ s = NoSlot
        /\ Goto("join", "dead") /\ UNCHANGED head
  /\ UNCHANGED <<slot, prev, call>>

ReadHead ==
  /\ Goto("read", "next")
  /\ call' = [call EXCEPT !.after = head[call.slot]]
  /\ UNCHANGED lists

LinkNext ==
  /\ Goto("next", "back")
  /\ next' = [next EXCEPT ![call.event] = call.after]
  /\ UNCHANGED <<head, slot, prev, call>>

LinkBack ==
  /\ Goto("back", "head")
  /\ prev' = Store(prev, call.after, call.event)
  /\ UNCHANGED <<head, slot, next, call>>

LinkHead ==
  /\ Goto("head", "prev")
  /\ head' = [head EXCEPT ![call.slot] = call.event]
  /\ UNCHANGED <<slot, next, prev, call>>

ClearPrev ==
  /\ Goto("prev", "slot")
  /\ prev' = [prev EXCEPT ![call.event] = Null]
  /\ UNCHANGED <<head, slot, next, call>>

SetSlot ==
  /\ Goto("slot", "idle")
  /\ slot' = [slot EXCEPT ![call.event] = call.slot]
  /\ call' = NoCall
  /\ UNCHANGED <<head, next, prev>>

RelinkStep ==
  /\ \/ JoinAfter \/ Unlink
     \/ ReadHead \/ LinkNext \/ LinkBack \/ LinkHead \/ ClearPrev \/ SetSlot
  /\ UNCHANGED asks
  /\ ScheduleFrame

ThreadStep ==
  \/ StartTick \/ SetNow
  \/ \E e \in Events, delta \in Deltas : Schedule(e, delta)
  \/ Stamp \/ NextLevelUp \/ ChooseSlot \/ EnterRelink \/ RelinkStep

-----------------------------------------------------------------------------
(***************************************************************************)
(* The handler of SIGALRM.                                                 *)
(***************************************************************************)
(* The thread is not in schedule. *)
Quiet == mpc \in {"idle", "clock"}

(* The clock goes on, and m_now is read from it.  Bound: startTick takes   *)
(* less than a revolution of the lowest level.                             *)
Signal ==
  /\ ticking /\ level = NoLevel /\ mpc # "dead" /\ Bounded
  /\ mpc = "clock" => cur_t + 1 < NUM_SLOTS
  /\ cur_t < MaxTick
  /\ cur_t' = cur_t + 1
  /\ m_now' = InUnits(cur_t')
  /\ level' = 0
  /\ struck' = IF struck = "never" /\ ~Quiet THEN "schedule" ELSE struck
  /\ UNCHANGED <<ticking, lists, asks, mpc, call>>

HandlerFrame ==
  /\ level # NoLevel
  /\ UNCHANGED <<cur_t, m_now, ticking, scheduled_at, mpc, call>>

CurrentSlot == <<level, m_now[level] % NUM_SLOTS>>
First == head[CurrentSlot]

(* Seeded fault: one level too many. *)
Past_Above(l) == IF l \in Levels THEN l + 1 ELSE NoLevel

(* The next level to process. *)
Above(l) == IF l + 1 \in Levels THEN l + 1 ELSE NoLevel

(* The slot of level is empty. *)
NextLevel ==
  /\ HandlerFrame
  /\ First = Null
  /\ level' = Above(level)
  /\ UNCHANGED <<lists, asked, struck>>

(* Events of the lowest level, and those whose time has passed. *)
Due(e) == level = 0 \/ m_now[0] > scheduled_at[e]

(* Seeded fault: the first event is looked at, not popped. *)
Unpopped_HeadsPopped == head

(* pop_event: m_events and m_prev when the first event has left its slot. *)
HeadsPopped == [head EXCEPT ![CurrentSlot] = next[First]]
PrevPopped == Store(prev, next[First], Null)

(* The thread is in relink: between its first read of the lists and its    *)
(* last write.                                                             *)
Relinking == {"unlink", "join", "read", "next", "back", "head", "prev", "slot"}

StruckByPop == IF mpc \in Relinking THEN "relink" ELSE struck

(* An event may run for an earlier schedule while it is scheduled again,   *)
(* and then it is still owed for the later one.                            *)
Outcome(e) ==
  IF asked[e] \notin {"owed", "missed"} THEN "again"
  ELSE IF call.event = e /\ mpc # "stamp" THEN asked[e] ELSE "no"

(* pop_event and execte. *)
Execute ==
  /\ HandlerFrame
  /\ First # Null /\ Due(First)
  /\ head' = HeadsPopped
  /\ prev' = PrevPopped
  /\ slot' = [slot EXCEPT ![First] = NoSlot]
  /\ next' = [next EXCEPT ![First] = Null]
  /\ asked' = [asked EXCEPT ![First] = Outcome(First)]
  /\ struck' = StruckByPop
  /\ UNCHANGED level

(* The slot schedule chooses in one go for a delay of delta. *)
SlotFor(delta) ==
  LET raised[l \in Levels] == IF l = 0 THEN delta ELSE Raise(raised[l - 1], l - 1)
      l == Min({k \in Levels : raised[k] < NUM_SLOTS})
  IN SlotAt(l, raised[l])

(* pop_event, and schedule again for what is left of the delay. *)
Cascade ==
  LET e == First
      s == SlotFor(scheduled_at[e] - m_now[0])
  IN
  /\ HandlerFrame
  /\ e # Null /\ ~Due(e)
  /\ head' = [HeadsPopped EXCEPT ![s] = e]
  /\ next' = [next EXCEPT ![e] = HeadsPopped[s]]
  /\ prev' = [Store(PrevPopped, HeadsPopped[s], e) EXCEPT ![e] = Null]
  /\ slot' = [slot EXCEPT ![e] = s]
  /\ struck' = StruckByPop
  /\ UNCHANGED <<asked, level>>

HandlerStep == NextLevel \/ Execute \/ Cascade

Next == ThreadStep \/ Signal \/ HandlerStep

Spec == Init /\ [][Next]_vars

(* The handler runs on; nothing is assumed of the thread or of the signals. *)
FairSpec == Spec /\ WF_vars(HandlerStep)

-----------------------------------------------------------------------------
(* The events of the list that starts with e. *)
Chain(e) == Linked(e, next, Events, Null)

(* Each list has the events whose m_slot says so, and m_prev inverts       *)
(* m_next, whenever the thread is not in schedule                          *)
(* (timerwheel.cpp:188-220, timerwheel.h:63-73), although signals come     *)
(* while it is: until one of them takes an event from a list while relink  *)
(* changes one.                                                            *)
ListsAgree ==
  Quiet /\ struck # "relink" =>
    /\ \A s \in Slots : Chain(head[s]) = {e \in Events : slot[e] = s}
    /\ \A e \in Events : slot[e] # NoSlot =>
         /\ (prev[e] = Null) = (head[slot[e]] = e)
         /\ prev[e] # Null => next[prev[e]] = e

Abstract ==
  INSTANCE Timer WITH
    Delays <- Deltas, Revolution <- NUM_SLOTS,
    clock <- IF ~ticking THEN "off" ELSE IF mpc = "clock" THEN "starting" ELSE "on",
    now <- cur_t, seen <- m_now[0], due <- scheduled_at

(* The wheel is a timer: whichever levels an event passes through, and     *)
(* however often it is scheduled anew, it runs once for each schedule, on  *)
(* its tick or, in the cases that Timer names, a revolution later; none is *)
(* forgotten, since the clock does not pass an event's last tick           *)
(* (timerwheel.cpp:40-45,75-97,145-174).  So it is up to the first signal  *)
(* that comes while schedule runs; RunsOnce is about what comes after.     *)
IsTimer ==
  Abstract!Init /\ [][struck' # "never" \/ Abstract!Next]_(Abstract!timerVars)

(* The handler comes to an end: no event is taken down to a list that is   *)
(* still to be emptied for ever, wherever signals have put the events that *)
(* schedule was about.                                                     *)
HandlerReturns == level # NoLevel ~> level = NoLevel \/ struck = "relink"

-----------------------------------------------------------------------------
(***************************************************************************)
(* What the repository says of the wheel, and the code does not do.        *)
(***************************************************************************)
(* An event starts delta ticks after it was scheduled (timerwheel.h:89),   *)
(* here, as long as no signal has come while schedule ran.                 *)
RunsAtItsTime ==
  [][\A e \in Events : asked[e] = "owed" /\ asked'[e] = "no" /\ struck = "never" =>
       cur_t = scheduled_at[e]]_vars

(* A call of schedule makes its event run once (timerwheel.h:89), although *)
(* signals arrive while it runs.                                           *)
RunsOnce == \A e \in Events : asked[e] # "again"
=============================================================================
