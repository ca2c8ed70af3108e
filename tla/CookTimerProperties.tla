------------------------ MODULE CookTimerProperties ------------------------
(***************************************************************************)
(* What the cook timer of CookTimer must and must not do.                  *)
(***************************************************************************)
EXTENDS CookTimer

\* The timer the control process answers for: what is stored, or what a reset
\* of the record holds in memory; a running timer whose checkpoint the current
\* clock cannot be compared with has been interrupted already.
Held == IF pc \in {"restore", "boot"} THEN kept.timer ELSE timer
Answered == IF Held.state = "running" /\ Age(Held.checkpoint, last) = Unknown
              THEN Interrupted(Held) ELSE Held

Watch == INSTANCE Stopwatch WITH
           phase <- Answered.state,
           owed  <- Remaining(Answered, last),
           clock <- last.mono,
           told  <- sent[Answered.id]

\* Drains, checkpoints in two loops, pauses on the way into Stop, interruptions,
\* resets, deaths and restarts add up to a stopwatch: no time is counted twice,
\* none is counted that the clock cannot vouch for, an expiry is never early and
\* is told at most once (timer.py, notifications.py, controller.py, base.py).
IsStopwatch == Watch!Spec

\* A running timer was set running by a request sent after the clock was last
\* lost, however long that request, or the handler that made it, was delayed
\* (apply_control_delta, rotate_runtime, heartbeat_runtime_id).
ArmedAfterLoss ==
  timer.state = "running" /\ pc \notin {"down", "boot"} => armedBy > cut

\* A running timer runs out, or somebody or something stops it: it is never
\* left running with nobody counting.
Due == timer.state = "running"
         /\ timer.checkpoint.mono + timer.remaining <= MaxMono
RunsOut == Due ~> ~ Due
=============================================================================
