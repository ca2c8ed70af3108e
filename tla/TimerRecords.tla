---------------------------- MODULE TimerRecords ----------------------------
(***************************************************************************)
(* Durations over clocks that can lose their meaning: the clock stamps of  *)
(* common/clock_domain.py and the timer record of common/timer.py.  Wall   *)
(* coordinates are labels in the code and are left out.                    *)
(***************************************************************************)
EXTENDS Integers

CONSTANTS
  Durations,      \* the durations a timer may be asked for
  Discontinuity,  \* CONTROL_DISCONTINUITY_SECONDS
  Known           \* the host has a boot id and CLOCK_BOOTTIME

ASSUME TimerAssumption ==
  /\ Durations \subseteq Nat
  /\ Discontinuity \in Nat
  /\ Known \in BOOLEAN

Unknown == -1     \* None, where a duration or an age is expected

\* A reading of the clocks: which boot, which generation of the control
\* process, CLOCK_MONOTONIC, and how far CLOCK_BOOTTIME is ahead of it.
Stamp == [boot : Nat, runtime : Nat, mono : Nat, susp : Nat]
NoStamp == [boot |-> 0, runtime |-> 0, mono |-> 0, susp |-> 0]

\* stamp_age_s: an age, or unknown across boots, generations and suspends
Age(stamp, now) ==
  IF /\ Known
     /\ stamp.boot = now.boot /\ stamp.runtime = now.runtime
     /\ now.susp - stamp.susp <= Discontinuity
     /\ now.mono >= stamp.mono
    THEN now.mono - stamp.mono
    ELSE Unknown

ContinuityLost(previous, current) ==
  \/ Age(previous, current) = Unknown
  \/ Age(previous, current) > Discontinuity

States == {"stopped", "running", "paused", "interrupted", "expired"}
Timer == [id : Nat, state : States, remaining : Nat \cup {Unknown},
          checkpoint : Stamp]

DefaultTimer ==
  [id |-> 0, state |-> "stopped", remaining |-> 0, checkpoint |-> NoStamp]

\* A running timer of an older schema, migrated: it was running until some
\* calendar time, and how long that still was is not known.
LegacyTimer ==
  [DefaultTimer EXCEPT !.state = "interrupted", !.remaining = Unknown]

\* What parse_timer admits.
WellFormed(t) ==
  /\ t.state = "running" <=> t.checkpoint # NoStamp
  /\ t.state = "running" => t.remaining # Unknown
  /\ t.state \in {"stopped", "expired"} => t.remaining = 0

Positive(n) == IF n > 0 THEN n ELSE 0

\* remaining_seconds
Remaining(t, now) ==
  CASE t.state \in {"stopped", "expired"} -> 0
    [] t.state \in {"paused", "interrupted"} -> t.remaining
    [] t.state = "running" ->
         LET age == Age(t.checkpoint, now)
         IN  IF age = Unknown THEN Unknown ELSE Positive(t.remaining - age)

StartTimer(id, seconds, now) ==
  [id |-> id, state |-> "running", remaining |-> seconds, checkpoint |-> now]

Interrupted(t) ==
  [t EXCEPT !.state = "interrupted", !.checkpoint = NoStamp]

\* pause_timer, with interrupted=False and with interrupted=True
PauseTimer(t, now) ==
  CASE t.state # "running" -> t
    [] t.state = "running" /\ Remaining(t, now) = Unknown -> Interrupted(t)
    [] OTHER -> [t EXCEPT !.state = "paused", !.checkpoint = NoStamp,
                          !.remaining = Remaining(t, now)]
InterruptTimer(t) == IF t.state = "running" THEN Interrupted(t) ELSE t

CanResume(t) ==
  t.state \in {"paused", "interrupted"} /\ t.remaining # Unknown
ResumeTimer(t, now) == StartTimer(t.id, t.remaining, now)

\* Mutant: a timer expires only after its time.
ExpiresLate(t, now) ==
  t.state = "running" /\ Age(t.checkpoint, now) > t.remaining

\* expire_timer; its second result is whether it fired
Expires(t, now) == t.state = "running" /\ Remaining(t, now) = 0
ExpireTimer(t, now) ==
  IF Expires(t, now)
    THEN [t EXCEPT !.state = "expired", !.remaining = 0,
                   !.checkpoint = NoStamp]
    ELSE t

\* Mutant: a checkpoint takes the time off and keeps the old stamp.
CheckpointTwice(t, now) ==
  CASE t.state # "running" -> t
    [] t.state = "running" /\ Remaining(t, now) = Unknown -> Interrupted(t)
    [] OTHER -> [t EXCEPT !.remaining = Remaining(t, now)]

CheckpointTimer(t, now) ==
  CASE t.state # "running" -> t
    [] t.state = "running" /\ Remaining(t, now) = Unknown -> Interrupted(t)
    [] OTHER -> [t EXCEPT !.remaining = Remaining(t, now), !.checkpoint = now]

\* restore_timer, on records of the current schema
RestoreTimer(t) == InterruptTimer(t)
=============================================================================
