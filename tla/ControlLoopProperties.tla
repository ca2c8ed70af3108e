----------------------- MODULE ControlLoopProperties -----------------------
(***************************************************************************)
(* What the control process of ControlLoop must never do, and what it must *)
(* eventually do.                                                          *)
(***************************************************************************)
EXTENDS ControlLoop

\* A transition to Stop or Error is in the record and not yet dispatched.
Pending(c) == c.updated /\ c.mode \in {"Stop", "Error"}

\* The auger and the igniter are driven only inside a work cycle whose setup()
\* ran, on every way out of it (mode change, trip, clock gap, exception); a
\* process that was killed leaves them as they were (_finish_cycle).
HeatOnlyInCycle == Heat => (setupDone /\ InCycle) \/ pc = "down"

\* A controller whose platform could not be built never lights a fire, however
\* often Stop and Error reset the record: critical_error survives the reset
\* (the dispatch guard of Controller.tick and SAFE_MODES).
NoFireOnBrokenPlatform == PlatformBroken => ~ Heat

\* While a cycle runs and no change is pending, the record the interfaces show
\* names the mode that is running: no queued delta, however it races with a
\* pending change, renames the mode without asking for its dispatch.
RecordNamesCycle ==
  InCycle /\ ~ store.updated =>
    store.mode = IF kind \in {"recipe", "recipeReignite"} THEN "Recipe"
                                                         ELSE CycleMode

\* The outer loop never sits in a mode that nothing runs: when it idles with no
\* change pending, the record says Stop or Error (recipe_mode's early returns
\* and every handler's last step).
NeverIdlesInCycleMode ==
  pc = "tick" /\ ~ store.updated => store.mode \in {"Stop", "Error"}

\* Hold never runs with a zero setpoint: next_mode, the flameout's return from
\* Reignite, keep-warm and the recipe walk each carry it over.
HoldHasSetpoint ==
  pc \in CyclePcs /\ CycleMode = "Hold" /\ ~ Pending(work) =>
    work.primary_setpoint

\* A transition the mode graph forbids is never attempted: the process exits
\* only because a device or the datastore failed (request_transition).
NoIllegalTransition == pc = "crash" => budget["raise"] < Budget["raise"]

\* After a lost clock nothing is driven until a mode is dispatched again,
\* whatever was queued and whatever the teardown does
\* (_retire_control_clock, _finish_cycle).
ColdAfterGap == discont => out = AllOff

\* A Stop or an Error that has reached the record is undone only by its own
\* cleanup, by a delta queued after it, or by a restart: no snapshot taken
\* before it is written over it.
StopNotLost ==
  [][Pending(store) /\ ~ Pending(store') =>
       pc \in {"dispatch", "down"} \/ queue' # queue]_vars

\* While a Stop or an Error waits for its cleanup, no heater is switched on.
NoHeatWhilePending ==
  [][Pending(store) =>
       \A d \in {"auger", "igniter"} : out'[d] => out[d]]_vars

\* A cook keeps its identity until its session is finalised under it.
CookIdentityKept ==
  [][store.cook_id # 0 /\ store'.cook_id # store.cook_id =>
       retired' = store.cook_id \/ metrics = NoMetrics]_vars

\* The machine is powered off only after a shutdown that left nothing driven
\* (_dispatch_shutdown).
HaltsCold == [][host' = "halting" /\ host # "halting" => out = AllOff]_vars

\* Once the operator has stopped asking, a Stop at the end of the queue brings
\* the grill to Stop or Error with nothing driven.
StopHonoured ==
  (queue # <<>> /\ queue[Len(queue)] = [op |-> "mode", mode |-> "Stop"]
     /\ budget["request"] = 0)
    ~> (pc = "tick" /\ store.mode \in {"Stop", "Error"} /\ ~ store.updated
          /\ ~ Heat)

-----------------------------------------------------------------------------
(* What comments and docstrings of the repository say and the code does not. *)

\* transitions.py: a queued request makes the natural progression yield, "so
\* the safety trip survives".
SafetyTripSurvives ==
  [][Pending(store) /\ store.mode = "Error" /\ pc = "drain" =>
       Pending(store')]_vars
=============================================================================
