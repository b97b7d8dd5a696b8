------------------------------- MODULE Timer -------------------------------
(***************************************************************************)
(* What callers of the timer (src/timer/timerwheel.h) may count on: events *)
(* that are asked for after a delay, a clock, and when they run.           *)
(*                                                                         *)
(* An event runs when the clock shows its time.  It may run a revolution   *)
(* later instead if its time is the first of a revolution, and it does so  *)
(* if its time has come already when it is asked for: the delay is 0, or   *)
(* the clock is ahead of what the caller's thread sees of it.              *)
(***************************************************************************)
EXTENDS Integers

CONSTANTS
  Events,
  Delays,
  Revolution   (* ticks in a revolution of the lowest level, NUM_SLOTS     *)

VARIABLES
  clock,  (* "off", "starting", "on"                                       *)
  now,    (* what the clock shows                                          *)
  seen,   (* what schedule sees of it                                      *)
  due,    (* the time each event was asked for last                        *)
  asked   (* whether that time is still to come ("owed"), had come already *)
          (* when it was asked for ("missed"), or the event has run ("no") *)

timerVars == <<clock, now, seen, due, asked>>

Init ==
  /\ clock = "off" /\ now = 0 /\ seen = 0
  /\ due = [e \in Events |-> 0]
  /\ asked = [e \in Events |-> "no"]

(* startTick: the clock may tick before it returns, and it may then hide   *)
(* those ticks from schedule, up to the next one.                          *)
Start ==
  /\ clock = "off" /\ clock' = "starting"
  /\ UNCHANGED <<now, seen, due, asked>>

Rewind ==
  /\ clock = "starting" /\ seen' = 0
  /\ UNCHANGED <<clock, now, due, asked>>

Started ==
  /\ clock = "starting" /\ clock' = "on"
  /\ UNCHANGED <<now, seen, due, asked>>

Schedule(e, delay) ==
  /\ due' = [due EXCEPT ![e] = seen + delay]
  /\ asked' = [asked EXCEPT ![e] = IF seen + delay > now THEN "owed" ELSE "missed"]
  /\ UNCHANGED <<clock, now, seen>>

(* The ticks at which an event may run. *)
Times(e) ==
  CASE asked[e] = "no" -> {}
    [] asked[e] = "missed" -> {due[e] + Revolution}
    [] asked[e] = "owed" ->
         {due[e]} \cup (IF due[e] % Revolution = 0 THEN {due[e] + Revolution} ELSE {})

Run(e) ==
  /\ now \in Times(e)
  /\ asked' = [asked EXCEPT ![e] = "no"]
  /\ UNCHANGED <<clock, now, seen, due>>

(* The clock goes on when no event has to run before. *)
Tick ==
  /\ clock # "off"
  /\ clock = "starting" => now + 1 < Revolution
  /\ \A e \in Events : asked[e] # "no" => \E t \in Times(e) : t > now
  /\ now' = now + 1 /\ seen' = now'
  /\ UNCHANGED <<clock, due, asked>>

Next ==
  \/ Start \/ Rewind \/ Started \/ Tick
  \/ \E e \in Events : Run(e) \/ \E delay \in Delays : Schedule(e, delay)

Spec == Init /\ [][Next]_timerVars
=============================================================================
