---------------------------- MODULE SampledLevel ----------------------------
(***************************************************************************)
(* A hopper sensor read from a background thread                           *)
(* (distance/_sampled_base.py) as it runs once the sensor is open: the     *)
(* sampling thread takes bursts of readings and publishes a level, a       *)
(* watchdog thread gives up on a burst that hangs, and the control loop    *)
(* asks for samples.  No lock is taken: the threads share plain attributes,*)
(* so every read and write another thread may come between is a step.      *)
(*                                                                         *)
(* One unit of time is the second both threads sleep between looks.        *)
(* Computing takes no time; a reading or a re-open takes as long as the    *)
(* device does.                                                            *)
(***************************************************************************)
EXTENDS Integers

CONSTANTS
    ReadsPerCycle,     \* samples_per_cycle
    SlowCycle,         \* slow_cycle_seconds
    StuckCycle,        \* stuck_cycle_seconds
    SampleInterval,    \* SENSOR_SAMPLE_INTERVAL
    BackoffBase,       \* backoff_base_seconds
    BackoffCap,        \* backoff_cap_seconds
    MaxFailures        \* bound: the delay no longer changes past it

ASSUME TimesAssumption ==
    /\ ReadsPerCycle \in Nat \ {0}
    /\ {SlowCycle, StuckCycle, SampleInterval} \subseteq Nat
    /\ {BackoffBase, BackoffCap, MaxFailures} \subseteq Nat \ {0}

VARIABLES
    device,       \* "prompt", or "erratic": answers, raises or hangs, at any time
    sampler,      \* what the sampling thread does next
    read,         \* which reading of the burst is outstanding
    cycleAge,     \* the age of _cycle_started_at, or NoCycle
    sinceSample,  \* the age of sample_time
    requested,    \* sample_requested
    backoff,      \* time left until _backoff_until, 0 when there is none
    failures,     \* _consecutive_failures
    healthy,      \* sensor_healthy
    stuckReported,\* _stuck_reported
    watchdog,     \* what the watchdog does next
    seen,         \* the stamp the watchdog has read
    published     \* history: the age of the burst behind distance_read

samplerVars == <<sampler, read, cycleAge, sinceSample, backoff, failures>>
flags == <<healthy, stuckReported>>
watchdogVars == <<watchdog, seen>>
vars == <<device, samplerVars, requested, flags, watchdogVars, published>>

NoCycle == -1
Poll == 1               \* watchdog_poll_seconds
Oldest == StuckCycle + Poll + 1
Older(age) == IF age < Oldest THEN age + 1 ELSE age
Accessing == {"read", "reopen", "recover", "restart"}

TypeOK ==
    /\ device \in {"prompt", "erratic"}
    /\ sampler \in Accessing \union
         {"asleep", "awake", "returned", "publish", "reopened", "trusted"}
    /\ read \in 1..ReadsPerCycle
    /\ cycleAge \in {NoCycle} \union 0..Oldest
    /\ sinceSample \in 0..SampleInterval + 1
    /\ backoff \in 0..BackoffCap
    /\ failures \in 0..MaxFailures
    /\ {requested, healthy, stuckReported} \subseteq BOOLEAN
    /\ watchdog \in {"asleep", "poll", "saw", "overdue", "report"}
    /\ seen \in {NoCycle} \union 0..Oldest
    /\ published \in 0..Oldest

(* _start_sampling: one sample is asked for at once.                       *)
Init ==
    /\ device \in {"prompt", "erratic"}
    /\ sampler = "awake" /\ read = 1 /\ cycleAge = NoCycle /\ sinceSample = 0
    /\ backoff = 0 /\ failures = 0
    /\ requested = TRUE
    /\ healthy = TRUE /\ stuckReported = FALSE
    /\ watchdog = "poll" /\ seen = NoCycle
    /\ published = 0

-----------------------------------------------------------------------------
(* The sampling thread.                                                    *)

Delay(n) ==
    LET grown == BackoffBase * 2^(n - 1)
    IN  IF grown < BackoffCap THEN grown ELSE BackoffCap

(* The cycle ends: the stamp is cleared, its outcome noted, the time taken.*)
EndCycle ==
    /\ sampler' = "asleep" /\ cycleAge' = NoCycle /\ sinceSample' = 0
    /\ UNCHANGED read
Succeeded == EndCycle /\ failures' = 0 /\ backoff' = 0
Failed ==
    /\ EndCycle
    /\ failures' = IF failures < MaxFailures THEN failures + 1 ELSE failures
    /\ backoff' = Delay(failures')

Due == requested \/ sinceSample > SampleInterval

(* The thread wakes and goes back to sleep: in a backoff, or nothing due.  *)
Skip ==
    /\ sampler = "awake" /\ (backoff > 0 \/ ~Due)
    /\ sampler' = "asleep"
    /\ UNCHANGED <<read, cycleAge, sinceSample, backoff, failures, requested, published>>

(* A cycle starts.  The request is cleared before anything is read; a      *)
(* sensor the watchdog has given up on is re-opened, not read.             *)
StartCycle ==
    /\ sampler = "awake" /\ backoff = 0 /\ Due
    /\ requested' = FALSE
    /\ IF healthy THEN sampler' = "read" /\ read' = 1 /\ cycleAge' = 0
                  ELSE sampler' = "recover" /\ UNCHANGED <<read, cycleAge>>
    /\ UNCHANGED <<sinceSample, backoff, failures, published>>
(* The outstanding access raises.  (The serial transport swallows a failed *)
(* re-open; that failure then returns, as Returns does.)                   *)
Raises ==
    /\ sampler \in Accessing /\ device = "erratic"
    /\ Failed
    /\ UNCHANGED <<requested, published>>

(* The outstanding access returns.                                         *)
Reopens ==
    \/ sampler \in {"reopen", "recover"} /\ sampler' = "reopened"
       /\ UNCHANGED <<read, cycleAge, sinceSample, backoff, failures>>
    \/ sampler = "restart" /\ Succeeded
Returns ==
    /\ \/ /\ sampler = "read" /\ sampler' = "returned"
          /\ UNCHANGED <<read, cycleAge, sinceSample, backoff, failures>>
       \/ Reopens
    /\ UNCHANGED <<requested, published>>

\* Mutant: health is looked at only when a cycle starts.
CheckNothing ==
    /\ sampler = "returned"
    /\ IF read < ReadsPerCycle THEN sampler' = "read" /\ read' = read + 1
                               ELSE sampler' = "publish" /\ UNCHANGED read
    /\ UNCHANGED <<cycleAge, sinceSample, backoff, failures, requested, published>>
(* After each reading: one the watchdog has given up on ends the burst,    *)
(* its stamp cleared before the re-open.                                   *)
Check ==
    /\ sampler = "returned"
    /\ IF ~healthy THEN sampler' = "reopen" /\ cycleAge' = NoCycle /\ UNCHANGED read
       ELSE /\ IF read < ReadsPerCycle THEN sampler' = "read" /\ read' = read + 1
                                       ELSE sampler' = "publish" /\ UNCHANGED read
            /\ UNCHANGED cycleAge
    /\ UNCHANGED <<sinceSample, backoff, failures, requested, published>>
(* The level is stored; a burst that was slow re-opens the sensor.         *)
Publish ==
    /\ sampler = "publish"
    /\ published' = cycleAge
    /\ IF cycleAge > SlowCycle
         THEN sampler' = "restart" /\ UNCHANGED <<read, cycleAge, sinceSample, backoff, failures>>
         ELSE Succeeded
    /\ UNCHANGED requested

\* Mutant: a re-open that worked does not restore trust.
TrustForgotten ==
    /\ sampler = "reopened" /\ sampler' = "trusted"
    /\ UNCHANGED <<read, cycleAge, sinceSample, backoff, failures,
                   requested, flags, published>>
(* _recover_from_stuck_read after a re-open that worked: two writes.       *)
Trust ==
    /\ sampler = "reopened" /\ sampler' = "trusted"
    /\ healthy' = TRUE
    /\ UNCHANGED <<read, cycleAge, sinceSample, backoff, failures,
                   requested, stuckReported, published>>
Unflag ==
    /\ sampler = "trusted" /\ Succeeded
    /\ stuckReported' = FALSE
    /\ UNCHANGED <<requested, healthy, published>>

Sampling ==
    \/ (Skip \/ StartCycle \/ Raises \/ Returns \/ Check \/ Publish) /\ UNCHANGED flags
    \/ Trust
    \/ Unflag

-----------------------------------------------------------------------------
(* The watchdog: _check_stuck_cycle reads the stamp, then the flag, then   *)
(* the clock, and writes health, then the flag.                            *)

Look ==
    /\ watchdog = "poll"
    /\ watchdog' = "saw" /\ seen' = cycleAge
    /\ UNCHANGED flags

\* Mutant: a poll later than the threshold asks for.
JudgeLate ==
    /\ watchdog = "saw"
    /\ watchdog' = IF seen = NoCycle \/ stuckReported \/ seen <= StuckCycle + Poll
                     THEN "asleep" ELSE "overdue"
    /\ UNCHANGED <<seen, flags>>
Judge ==
    /\ watchdog = "saw"
    /\ watchdog' = IF seen = NoCycle \/ stuckReported \/ seen <= StuckCycle
                     THEN "asleep" ELSE "overdue"
    /\ UNCHANGED <<seen, flags>>

GiveUp ==
    /\ watchdog = "overdue"
    /\ watchdog' = "report"
    /\ healthy' = FALSE
    /\ UNCHANGED <<seen, stuckReported>>

Report ==
    /\ watchdog = "report" /\ watchdog' = "asleep"
    /\ stuckReported' = TRUE
    /\ UNCHANGED <<seen, healthy>>

Watching == Look \/ Judge \/ GiveUp \/ Report

-----------------------------------------------------------------------------
(* The control loop's hopper check: a flag is set, nothing is waited for.  *)
RequestSample ==
    /\ requested' = TRUE
    /\ UNCHANGED <<device, samplerVars, flags, watchdogVars, published>>

(* The sensor starts or stops answering as it should.                      *)
DeviceTurns ==
    /\ device' \in {"prompt", "erratic"} \ {device}
    /\ UNCHANGED <<samplerVars, requested, flags, watchdogVars, published>>

(* A second passes: only once both threads sleep or wait for the device,   *)
(* and a prompt one has answered.                                          *)
Tick ==
    /\ watchdog = "asleep"
    /\ sampler = "asleep" \/ (sampler \in Accessing /\ device = "erratic")
    /\ watchdog' = "poll"
    /\ sampler' = IF sampler = "asleep" THEN "awake" ELSE sampler
    /\ cycleAge' = IF cycleAge = NoCycle THEN NoCycle ELSE Older(cycleAge)
    /\ sinceSample' = IF sinceSample > SampleInterval THEN sinceSample ELSE sinceSample + 1
    /\ backoff' = IF backoff > 0 THEN backoff - 1 ELSE 0
    /\ UNCHANGED <<device, read, failures, requested, flags, seen, published>>

Next ==
    \/ Sampling /\ UNCHANGED <<device, watchdogVars>>
    \/ Watching /\ UNCHANGED <<device, samplerVars, requested, published>>
    \/ RequestSample
    \/ DeviceTurns
    \/ Tick

Spec == Init /\ [][Next]_vars

(* Both threads are scheduled, time passes, and a prompt sensor answers.   *)
(* Nothing obliges an erratic one to.                                      *)
Fairness ==
    /\ WF_vars(Sampling /\ (sampler \in Accessing => device = "prompt")
               /\ UNCHANGED <<device, watchdogVars>>)
    /\ WF_vars(Watching /\ UNCHANGED <<device, samplerVars, requested, published>>)
    /\ WF_vars(Tick)
FairSpec == Spec /\ Fairness

-----------------------------------------------------------------------------
\* The watchdog is deaf when its flag says that a hang has been reported and
\* the sensor is trusted again: it then looks no further, for good.
Deaf == healthy /\ stuckReported /\ sampler # "trusted"

\* A published level is a burst's that ended before the watchdog's verdict was
\* due: no reading that comes back late reaches the dashboard, whichever thread
\* runs first (_take_sample against _check_stuck_cycle), while the watchdog hears.
PublishedInTime == Deaf \/ published <= StuckCycle + Poll

\* A burst that hangs is given up on at the first poll after it is overdue,
\* every time one hangs, not only the first, while the watchdog hears
\* (_check_stuck_cycle, _recover_from_stuck_read).
NoticedUnlessDeaf == Deaf \/ (cycleAge > StuckCycle + Poll => ~ healthy)

\* Once the sensor answers for good, levels keep being published, whatever
\* failures, hangs and re-opens came before.
Resumes == <>[](device = "prompt") => []<><<Publish>>_vars
=============================================================================
