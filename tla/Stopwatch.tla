----------------------------- MODULE Stopwatch -----------------------------
(***************************************************************************)
(* What a cook timer promises: while it runs, the time still owed shrinks  *)
(* by exactly the time on the controller's clock; it never shrinks         *)
(* otherwise, and losing the clock can only give time back; it expires     *)
(* when nothing is owed, and tells of it at most once.                     *)
(***************************************************************************)
EXTENDS Integers

CONSTANTS Durations   \* what a timer may be asked for

Unknown == -1         \* how much is owed is not known
Phases == {"stopped", "running", "paused", "interrupted", "expired"}

VARIABLES
  phase,
  owed,    \* time still owed, as of clock
  clock,   \* the controller's clock, meaningful while the timer runs
  told     \* notifications of this timer's expiry

vars == <<phase, owed, clock, told>>

TypeOK ==
  /\ phase \in Phases
  /\ owed \in Nat \cup {Unknown}
  /\ clock \in Nat
  /\ told \in {0, 1}

Init ==
  /\ \/ phase = "stopped" /\ owed = 0
     \/ phase = "interrupted" /\ owed = Unknown
  /\ clock \in Nat /\ told = 0

Less(d) == IF owed > d THEN owed - d ELSE 0

Run ==
  /\ clock' >= clock
  /\ owed' = IF phase = "running" THEN Less(clock' - clock) ELSE owed
  /\ UNCHANGED <<phase, told>>

Start ==
  /\ phase # "paused"
  /\ phase' = "running" /\ owed' \in Durations /\ told' = 0
  /\ UNCHANGED clock

Resume ==
  /\ phase \in {"paused", "interrupted"} /\ owed # Unknown
  /\ phase' = "running"
  /\ UNCHANGED <<owed, clock, told>>

\* From here on the clock may be another one.
Pause ==
  /\ phase = "running" /\ phase' = "paused"
  /\ clock' \in Nat /\ UNCHANGED <<owed, told>>

Interrupt ==
  /\ phase = "running" /\ phase' = "interrupted"
  /\ owed' >= owed
  /\ clock' \in Nat /\ UNCHANGED told

LoseClock ==
  /\ phase # "running"
  /\ clock' \in Nat /\ UNCHANGED <<phase, owed, told>>

\* On request, or because a reset of the record was cut short.
Clear ==
  /\ phase' = "stopped" /\ owed' = 0 /\ told' = 0
  /\ clock' \in Nat

Expire ==
  /\ phase = "running" /\ owed = 0
  /\ phase' = "expired"
  /\ UNCHANGED <<owed, clock, told>>

Tell ==
  /\ phase = "expired" /\ told = 0
  /\ told' = 1
  /\ UNCHANGED <<phase, owed, clock>>

Next == \/ Run \/ Start \/ Resume \/ Pause \/ Interrupt \/ LoseClock \/ Clear
        \/ Expire \/ Tell

Spec == Init /\ [][Next]_vars
=============================================================================
