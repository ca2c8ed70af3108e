----------------------- MODULE FramedPulseProperties -----------------------
EXTENDS FramedPulse

TypeOK ==
    /\ now \in 0..MaxTime /\ auger \in BOOLEAN
    /\ hold \in [request : Requests \cup {0}, solved : BOOLEAN, stale : BOOLEAN,
                 manual : BOOLEAN, lid : BOOLEAN,
                 phase : {"holding", "failing", "done", "failed"}]
    /\ augerontime \in 0..MaxTime /\ seen \subseteq 0..MaxTime - 1
    /\ owed \in Int /\ disturbed \in 0..now

(***************************************************************************)
(* Whole pulses on average give what was asked: since its credit was last  *)
(* dropped the scheduler has given its frames no more than they were asked *)
(* for, and less than one pulse less (PulseScheduler._begin_frame).        *)
(***************************************************************************)
FairMean == 0 <= owed /\ owed < PulseTime

(***************************************************************************)
(* The auger runs by hand, or in a frame of the scheduler with neither an  *)
(* open lid nor a stale result: however lids, releases, answers, new       *)
(* controllers and the end of Hold follow each other, none leaves it on.   *)
(***************************************************************************)
RunsOnlyInFrame ==
    auger => \/ hold.manual
             \/ ~Idle(pulse.sched) /\ ~hold.lid /\ ~hold.stale

RunTime(start, end) == Cardinality(seen' \cap start..end - 1)
InOrder(reports, start) ==
    \A i \in DOMAIN reports :
        /\ reports[i].on = RunTime(reports[i].start, reports[i].end)
        /\ reports[i].start >= IF i = 1 THEN start ELSE reports[i - 1].end

(***************************************************************************)
(* Every frame, observation and report handed over says of its interval    *)
(* exactly what the auger was seen to do in it, each later than the one    *)
(* before; and the metric is the time the auger was ever seen running,     *)
(* unless a tick was lost at the auger's command                           *)
(* (FramedPulseRuntime.advance, reset, report_feedback, _record_delivery). *)
(***************************************************************************)
ToldAsObserved ==
    [][/\ InOrder(out'.observations, told.observations)
       /\ InOrder(out'.frames, told.frames)
       /\ InOrder(out'.feedback, told.feedback)
       /\ hold'.phase \in {"holding", "done"} => augerontime' = Cardinality(seen')]_vars

(***************************************************************************)
(* An observation called continuous has a temperature acquired after its   *)
(* frame and within a frame of it, and pulses were not interrupted between *)
(* the frame's start and that temperature, though it may have been handed  *)
(* over frames later (FramedPulseRuntime._resolve_pending_observation).    *)
(***************************************************************************)
ContinuousIsFresh ==
    \A i \in DOMAIN out.observations :
        LET o == out.observations[i]
        IN  o.continuous => /\ o.end <= o.acquired /\ o.acquired < o.end + FrameTime
                            /\ o.acquired <= now
                            /\ disturbed <= o.start \/ disturbed >= o.acquired
=============================================================================
