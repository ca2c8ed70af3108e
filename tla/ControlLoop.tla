---------------------------- MODULE ControlLoop ----------------------------
(***************************************************************************)
(* The PiFire control process: controller/runtime/controller.py (the outer *)
(* loop, its mode dispatch and recipe walk) running the work cycles of     *)
(* controller/runtime/modes/base.py, against the shared control record and *)
(* its delta queue (common/persistence/control.py), the other processes    *)
(* that enqueue deltas, the front-panel switch, the watchdog thread of     *)
(* common/process_mon.py, and process death and restart (control.py).      *)
(*                                                                         *)
(* Every write of the control process is a whole-record snapshot.  What it *)
(* holds in memory between a read and a write is modelled: mem is          *)
(* Controller.control, work is ControlMode.control.                        *)
(***************************************************************************)
EXTENDS GrillTransitions

CONSTANTS
  Requests,            \* the deltas other processes may enqueue
  RecipeSteps,         \* the modes of the recipe's steps
  AfterStartup,        \* settings.startup.start_to_mode.after_startup_mode
  PrimeOnStartup,      \* settings.startup.prime_on_startup > 0
  PrimeIgnition,       \* settings.globals.prime_ignition
  AllowManualChanges,  \* settings.safety.allow_manual_changes
  AutoPowerOff,        \* settings.shutdown.auto_power_off
  Standalone,          \* settings.platform.standalone: no front switch
  BootToMonitor,       \* settings.globals.boot_to_monitor
  RealHardware,        \* is_real_hardware(): the lifecycle commands run
  PlatformBroken,      \* build_devices() could not build the platform
  Notifications,       \* the actions armed notifications may take
  MaxQueue,            \* bound: deltas waiting
  Budget               \* bound: how often each environment event happens

\* request: a delta or a history clear; gap: a clock discontinuity; flip: the
\* switch moves; kill: the process dies; hang: the watchdog fires; raise: a
\* driver raises; build: the Hold controller cannot be built
Events == {"request", "gap", "flip", "kill", "hang", "raise", "build"}

ASSUME LoopAssumption ==
  /\ Requests \subseteq Deltas
  /\ RecipeSteps \in Seq(Modes \ {"Recipe", "Stop", "Error"})
  /\ AfterStartup \in {"Smoke", "Hold"}
  /\ {PrimeOnStartup, PrimeIgnition, AllowManualChanges, AutoPowerOff,
      Standalone, BootToMonitor, RealHardware, PlatformBroken} \subseteq BOOLEAN
  /\ Notifications \subseteq {"shutdown", "keep_warm", "reignite"}
  /\ MaxQueue \in Nat
  /\ Budget \in [Events -> Nat]

VARIABLES
  store,      \* the control record in the datastore
  queue,      \* queue_control_write
  clear,      \* a durable history-clear command is queued
  switch,     \* the front-panel switch, on or off
  pc,         \* where the control process is
  ret,        \* what a drain of the queue returns to
  kind,       \* the dispatch handler that is running
  step,       \* the recipe step that is running
  mem,        \* Controller.control
  work,       \* ControlMode.control
  seen,       \* Controller.last, the switch as the outer loop last saw it
  cycSeen,    \* the switch as the running cycle last saw it
  setupDone,  \* ControlMode._mode_setup_started
  discont,    \* ControlMode._clock_discontinuous
  stampOk,    \* ctx.last_clock_stamp is not None
  out,        \* what the outputs are driven to
  metrics,    \* the session's metric rows, summarised
  retired,    \* the cook identity flush_history finalised last
  host,       \* the machine: "up", "restarting" control, "halting", "off"
  budget      \* events left to each bound

(* Variables that belong together, for UNCHANGED *)
locals  == <<kind, step, mem, work>>
cycle   == <<cycSeen, setupDone, discont>>
session == <<metrics, retired, clear>>
vars == <<store, queue, clear, switch, pc, ret, kind, step, mem, work, seen,
          cycSeen, setupDone, discont, stampOk, out, metrics, retired, host,
          budget>>

Kinds == (Modes \ {"Recipe", "Stop", "Error"})
           \cup {"startupPrime", "recipe", "recipeReignite", "idle"}

\* Where a work cycle may be between its first read and _finish_cycle.
CyclePcs == {"setup", "stamp", "loop", "sense", "act", "finish"}
Pcs == CyclePcs \cup {"tick", "drain", "dispatch", "archive", "enter", "post",
                      "shutdownEnd", "crash", "down"}
Returns == {"idleTrip", "tick", "cycleTrip", "loop", "natural", "recipe"}

AllOff == [d \in Devices |-> FALSE]
NoMetrics == [cooked |-> FALSE, last |-> "none"]
Heat == out["auger"] \/ out["igniter"]

\* The mode of the work cycle the running handler is in.
CycleMode ==
  CASE kind = "startupPrime"   -> "Prime"
    [] kind = "recipe"         -> RecipeSteps[step]
    [] kind = "recipeReignite" -> "Reignite"
    [] OTHER                   -> kind

InCycle == \/ pc \in CyclePcs
           \/ pc = "drain" /\ ret \in {"loop", "cycleTrip"}

TypeOK ==
  /\ store \in Control
  /\ queue \in Seq(Requests)
  /\ clear \in BOOLEAN
  /\ switch \in BOOLEAN
  /\ pc \in Pcs
  /\ ret \in Returns
  /\ kind \in Kinds
  /\ step \in 1 .. Len(RecipeSteps) + 1
  /\ mem \in Control
  /\ work \in Control
  /\ seen \in BOOLEAN
  /\ cycSeen \in BOOLEAN
  /\ setupDone \in BOOLEAN
  /\ discont \in BOOLEAN
  /\ stampOk \in BOOLEAN
  /\ out \in [Devices -> BOOLEAN]
  /\ metrics \in [cooked : BOOLEAN, last : Modes \cup {"none"}]
  /\ retired \in CookIds
  /\ host \in {"up", "restarting", "halting", "off"}
  /\ budget \in [Events -> Nat]

-----------------------------------------------------------------------------
(* Helpers *)

Goto(label) == pc' = label /\ UNCHANGED ret
DrainThen(label) == pc' = "drain" /\ ret' = label
Drained(label) == pc = "drain" /\ ret = label /\ queue = <<>>

Spend(event) == /\ budget[event] > 0
                /\ budget' = [budget EXCEPT ![event] = @ - 1]

\* Turn the devices of on on and those of off off.
Drive(o, on, off) ==
  [d \in Devices |->
     IF d \in on THEN TRUE ELSE IF d \in off THEN FALSE ELSE o[d]]

\* generate_uuid: an identity nothing holds.
FreshId(id) == CHOOSE i \in 1 .. MaxCook :
                 i \notin {id, mem.cook_id, work.cook_id, retired}

\* Mutant: every cycle seeds an identity of its own.
SeedCookId(c) == [c EXCEPT !.cook_id = FreshId(c.cook_id)]

\* ensure_cook_id: the live identity, or a fresh one.
EnsureCookId(c) == IF c.cook_id # 0 THEN c ELSE [c EXCEPT !.cook_id = FreshId(0)]

\* flush_history: the session's rows go and its identity is finalised.
Retire(id) == retired' = IF id = 0 THEN retired ELSE id
FlushHistory(c) == [c EXCEPT !.cook_id = 0]

\* _stamp_mode_metric
Stamped(m, mode) == [cooked |-> m.cooked \/ mode \in CookModes, last |-> mode]

\* check_notify: of the armed entries none, one or two fire.
Fired(c) ==
  (IF "shutdown" \in Notifications THEN {NotifyShutdown(c)} ELSE {})
    \cup (IF "keep_warm" \in Notifications THEN {NotifyKeepWarm(c)} ELSE {})
    \cup (IF "reignite" \in Notifications THEN {NotifyReignite(c)} ELSE {})
Notified(c) == {c} \cup Fired(c) \cup UNION {Fired(d) : d \in Fired(c)}

\* The running cycle stores its record and ends.
EndWith(c) == work' = c /\ store' = c /\ Goto("finish")

\* What a lost clock makes of the record, here and in a cycle.
ClockTrip(c) == [Authoritative(c, "Error") EXCEPT !.manual = "none"]

\* Mutant: only a normal end of the cycle turns the outputs off.
RaiseAsIs == Goto("crash") /\ UNCHANGED out

\* An exception leaves the work cycle: _finish_cycle(failed=True).
Raise == out' = AllOff /\ Goto("crash")

\* Setup and boot: flush_control, then Controller.setup.
BootControl(cook) ==
  [DefaultControl EXCEPT !.cook_id = cook, !.critical_error = PlatformBroken,
     !.mode = IF BootToMonitor THEN "Monitor" ELSE "Stop"]

Init ==
  /\ store = BootControl(0)
  /\ queue = <<>>
  /\ clear = FALSE
  /\ switch \in IF Standalone THEN {TRUE} ELSE BOOLEAN
  /\ pc = "tick"
  /\ ret = "tick"
  /\ kind = "idle"
  /\ step = 1
  /\ mem = store
  /\ work = store
  /\ seen = switch
  /\ cycSeen = switch
  /\ setupDone = FALSE
  /\ discont = FALSE
  /\ stampOk = FALSE
  /\ out = AllOff
  /\ metrics = NoMetrics
  /\ retired = 0
  /\ host = "up"
  /\ budget = Budget

-----------------------------------------------------------------------------
(* Controller.tick: one iteration of the outer loop, up to the dispatch *)

\* _admit_idle_clock finds a discontinuity: everything off, then Error.
IdleGap ==
  /\ pc = "tick"
  /\ Spend("gap")
  /\ out' = AllOff
  /\ DrainThen("idleTrip")
  /\ UNCHANGED <<store, queue, switch, locals, seen, cycle, stampOk, session,
                 host>>

IdleTripped ==
  /\ Drained("idleTrip")
  /\ store' = ClockTrip(store)
  /\ mem' = ClockTrip(store)
  /\ stampOk' = FALSE
  /\ Goto("tick")
  /\ UNCHANGED <<queue, switch, kind, step, work, seen, cycle, out, session,
                 host, budget>>

\* The clock is admitted, then the switch is compared with self.last.  On the
\* falling edge self.control, as the last tick or dispatch left it, is stored.
BeginTick ==
  /\ pc = "tick"
  /\ stampOk' = TRUE
  /\ IF Standalone \/ seen = switch
       THEN UNCHANGED <<seen, mem, store>>
       ELSE /\ seen' = switch
            /\ IF switch THEN UNCHANGED <<mem, store>>
               ELSE /\ mem' = Authoritative(mem, "Stop")
                    /\ store' = mem'
  /\ DrainThen("tick")
  /\ UNCHANGED <<queue, switch, kind, step, work, cycle, out, session, host,
                 budget>>

\* execute_control_writes: one queued delta, one transaction.
ApplyHead ==
  /\ pc = "drain"
  /\ queue # <<>>
  /\ store' = ApplyDelta(store, Head(queue))
  /\ queue' = Tail(queue)
  /\ UNCHANGED <<switch, pc, ret, locals, seen, cycle, stampOk, out, session,
                 host, budget>>

\* The record is read back, system commands run and notifications are checked.
PollControl ==
  /\ Drained("tick")
  /\ \E c \in Notified(IF clear THEN FlushHistory(store) ELSE store) :
       mem' = c /\ store' = c
  /\ IF clear
       THEN clear' = FALSE /\ metrics' = NoMetrics /\ Retire(store.cook_id)
       ELSE UNCHANGED session
  /\ Goto("dispatch")
  /\ UNCHANGED <<queue, switch, kind, step, work, seen, cycle, stampOk, out,
                 host, budget>>

\* Mutant: a latched critical error withholds the dispatch from every mode.
AdmitsNone(c) == c.updated /\ ~ c.critical_error

\* The guard of the mode dispatch.
Admits(c) == c.updated /\ (~ c.critical_error \/ c.mode \in SafeModes)

\* What the dispatch makes of the record before it looks at the mode.
Taken ==
  LET read == [mem EXCEPT !.updated = FALSE]
      c    == IF read.units_change
                THEN [read EXCEPT !.mode = "Stop", !.units_change = FALSE,
                                  !.cook_id = 0]
                ELSE read
  IN IF c.status # "monitor" /\ c.mode # "Error"
       THEN [c EXCEPT !.status = "active"] ELSE c

NoDispatch ==
  /\ pc = "dispatch"
  /\ ~ Admits(mem)
  /\ Goto("tick")
  /\ UNCHANGED <<store, queue, switch, locals, seen, cycle, stampOk, out,
                 session, host, budget>>

-----------------------------------------------------------------------------
(* Stop and Error: the terminal cleanup *)

DispatchTerminal ==
  /\ pc = "dispatch"
  /\ Admits(mem)
  /\ Taken.mode \in {"Stop", "Error"}
  /\ mem' = Taken
  /\ store' = Taken
  /\ IF mem.units_change
       THEN metrics' = NoMetrics /\ Retire(store.cook_id)
       ELSE UNCHANGED <<metrics, retired>>
  /\ out' = Drive(out, {}, {"auger", "igniter", "fan"})
  /\ Goto("archive")
  /\ UNCHANGED <<queue, clear, switch, kind, step, work, seen, cycle, stampOk,
                 host, budget>>

\* flush_control and what the cleanup carries over it.
ResetControl(c, cook) ==
  [DefaultControl EXCEPT !.mode = c.mode, !.status = "inactive",
                         !.updated = FALSE, !.cook_id = cook,
                         !.critical_error = c.critical_error]

\* The session is archived if it was a cook (which may fail), flushed if it
\* was neither a cook nor a prime; then the record is reset, which also
\* deletes every delta queued since.
Archive ==
  /\ pc = "archive"
  /\ \E archived \in BOOLEAN :
       LET finalized == /\ metrics # NoMetrics
                        /\ IF metrics.cooked THEN archived
                                             ELSE metrics.last # "Prime"
           reset == ResetControl(mem, IF finalized THEN 0 ELSE mem.cook_id)
       IN /\ metrics' = IF finalized THEN NoMetrics
                        ELSE IF metrics = NoMetrics THEN metrics
                        ELSE [metrics EXCEPT !.last = "Stop"]
          /\ IF finalized THEN Retire(store.cook_id) ELSE UNCHANGED retired
          /\ mem' = reset
          /\ store' = reset
  /\ out' = IF ShouldKeepPowerOn(mem.mode, mem.status)
              THEN Drive(out, {"power"}, {}) ELSE Drive(out, {}, {"power"})
  /\ queue' = <<>>
  /\ Goto("tick")
  /\ UNCHANGED <<clear, switch, kind, step, work, seen, cycle, stampOk, host,
                 budget>>

-----------------------------------------------------------------------------
(* _MODE_DISPATCH: the handlers up to their first work cycle *)

Dispatching(mode) == pc = "dispatch" /\ Admits(mem) /\ Taken.mode = mode

StartCycle(k, c) ==
  /\ kind' = k
  /\ mem' = c
  /\ store' = c
  /\ Goto("enter")

DispatchPlain ==
  /\ \/ \E m \in {"Prime", "Smoke", "Hold", "Manual"} :
          Dispatching(m) /\ StartCycle(m, Taken)
     \/ /\ Dispatching("Shutdown")
        /\ StartCycle("Shutdown", [Taken EXCEPT !.next_mode = "Stop"])
     \/ /\ Dispatching("Monitor")
        /\ StartCycle("Monitor", [Taken EXCEPT !.status = "monitor"])
     \/ /\ Dispatching("Reignite")
        /\ StartCycle("Reignite",
                      [Taken EXCEPT !.next_mode = Taken.reignitelaststate])
  /\ UNCHANGED <<queue, switch, step, work, seen, cycle, stampOk, out, session,
                 host, budget>>

\* History is flushed, and then self.control, read before the flush, is stored.
DispatchStartup ==
  /\ Dispatching("Startup")
  /\ metrics' = NoMetrics
  /\ Retire(store.cook_id)
  /\ IF PrimeOnStartup
       THEN StartCycle("startupPrime", [Taken EXCEPT !.mode = "Prime"])
       ELSE StartCycle("Startup", [Taken EXCEPT !.next_mode = AfterStartup])
  /\ UNCHANGED <<queue, clear, switch, step, work, seen, cycle, stampOk, out,
                 host, budget>>

\* recipe_mode, one step: its record is stored and its work cycle entered.
StartStep(c, n) ==
  /\ store' = [c EXCEPT !.updated = FALSE,
                        !.primary_setpoint = RecipeSteps[n] = "Hold"]
  /\ kind' = "recipe"
  /\ step' = n
  /\ Goto("enter")

\* Mutant: a bare return.
ReturnFromRecipe(c) == store' = c /\ Goto("tick")

\* recipe_mode's normal end.  The check of legality cannot fail: every mode
\* may go to Stop.
EndRecipe(c) == store' = Authoritative(c, "Stop") /\ Goto("tick")

\* The recipe file is missing or unreadable, or its first step starts.
DispatchRecipe ==
  /\ Dispatching("Recipe")
  /\ mem' = Taken
  /\ \/ EndRecipe(Taken) /\ UNCHANGED <<kind, step>>
     \/ RecipeSteps # <<>> /\ StartStep(Taken, 1)
  /\ UNCHANGED <<queue, switch, work, seen, cycle, stampOk, out, session, host,
                 budget>>

-----------------------------------------------------------------------------
(* ControlMode._run_cycle *)

\* Reads, heater outputs off, cook identity, and the preflight probe read.
EnterCycle ==
  /\ pc = "enter"
  /\ cycSeen' = switch
  /\ LET c == EnsureCookId(store)
         off == Drive(out, {}, {"auger", "igniter"})
     IN \/ /\ out' = off
           /\ work' = c
           /\ store' = c
           /\ Goto("setup")
        \/ /\ out' = Drive(off, {}, {"fan", "power"})
           /\ EndWith(Authoritative(c, "Error"))
  /\ stampOk' = TRUE
  /\ UNCHANGED <<queue, switch, kind, step, mem, seen, setupDone, discont,
                 session, host, budget>>

\* The outputs each mode's setup() drives.
SetupOutputs ==
  CASE CycleMode \in {"Startup", "Reignite"} -> Drive(out, Devices, {})
    [] CycleMode = "Smoke" -> Drive(out, {"fan", "power", "auger"}, {})
    [] CycleMode = "Hold"  -> Drive(out, {"fan", "power"}, {"auger"})
    [] CycleMode = "Prime" ->
         Drive(out, {"power", "auger"} \cup
                    IF PrimeIgnition /\ store.next_mode = "Startup"
                      THEN {"igniter"} ELSE {}, {"fan"})
    [] CycleMode = "Shutdown" -> Drive(out, {"fan", "power"}, {})
    [] OTHER -> Drive(out, {}, {"fan", "power"})

\* evaluate_phase, the flameout edges of Smoke and Hold; a transition the
\* graph forbids raises out of the cycle.
Kept(c) == work' = c /\ store' = IF c = work THEN store ELSE c
FlameoutTrip(c, below, o) ==
  IF Flameout(below, c) = "error"
    THEN EndWith(Authoritative(c, "Error")) /\ out' = o
  ELSE IF Legal(c.mode, "Reignite")
    THEN EndWith(ReigniteFrom(c, CycleMode)) /\ out' = o
    ELSE Kept(c) /\ Raise

\* setup() of the mode.
SetupCycle ==
  /\ pc = "setup"
  /\ setupDone' = TRUE
  /\ out' = SetupOutputs
  /\ Goto("stamp")
  /\ UNCHANGED <<store, queue, switch, locals, seen, cycSeen, discont, stampOk,
                 session, host, budget>>

\* The metric row, the first probe read with its health check, setup_safety
\* and the pre_loop guards.
StampCycle ==
  /\ pc = "stamp"
  /\ metrics' = Stamped(metrics, CycleMode)
  /\ \/ EndWith(Authoritative(work, "Error")) /\ UNCHANGED <<out, budget>>
     \/ /\ CycleMode \in {"Startup", "Reignite"}
        /\ \E cold \in BOOLEAN :
             work' = [work EXCEPT !.startuptemp = TRUE, !.afterstarttemp = cold]
        /\ store' = work'
        /\ Goto("loop")
        /\ UNCHANGED <<out, budget>>
     \/ /\ CycleMode = "Hold"
        /\ Spend("build")
        /\ Goto("finish")
        /\ UNCHANGED <<work, store, out>>
     \/ /\ CycleMode \in {"Smoke", "Hold"}
        /\ LET below == work.startuptemp /\ work.afterstarttemp
           IN IF Flameout(below, work) = "ok"
                THEN Goto("loop") /\ UNCHANGED <<work, store, out>>
                ELSE FlameoutTrip(work, below, out)
        /\ UNCHANGED budget
     \/ /\ CycleMode \notin {"Startup", "Reignite", "Smoke", "Hold"}
        /\ Goto("loop")
        /\ UNCHANGED <<work, store, out, budget>>
  /\ UNCHANGED <<queue, clear, switch, kind, step, mem, seen, cycle, stampOk,
                 retired, host>>

\* Mutant: only the heaters are turned off.
GapHeatersOff == Drive(out, {}, {"auger", "igniter"})

\* _on_control_discontinuity
GapOutputs == AllOff

\* _admit_clock finds a discontinuity: everything off.  Hold tears itself down
\* here, which stores its own record.
CycleGap ==
  /\ pc \in (CyclePcs \cup {"enter"})
  /\ ~ discont
  /\ Spend("gap")
  /\ discont' = TRUE
  /\ out' = GapOutputs
  /\ store' = IF setupDone /\ CycleMode = "Hold"
                THEN [work EXCEPT !.manual = "none"] ELSE store
  /\ DrainThen("cycleTrip")
  /\ UNCHANGED <<queue, switch, locals, seen, cycSeen, setupDone, stampOk,
                 session, host>>

\* _retire_control_clock, once the queue is drained: Error.
CycleTripped ==
  /\ Drained("cycleTrip")
  /\ EndWith(ClockTrip(store))
  /\ UNCHANGED <<queue, switch, kind, step, mem, seen, cycle, stampOk, out,
                 session, host, budget>>

\* The top of the loop: the clock is admitted and the queue drained.
BeginLoop ==
  /\ pc = "loop"
  /\ stampOk' = TRUE
  /\ DrainThen("loop")
  /\ UNCHANGED <<store, queue, switch, locals, seen, cycle, out, session, host,
                 budget>>

\* Mutant: the cycle goes on with a change pending.
NeverBreaks(c) == "sense"

\* An update ends the cycle.
Continue(c) == IF c.updated THEN "finish" ELSE "sense"

\* _handle_history_clear: a queued clear rotates the cook identity.
Rotated(c) == IF clear THEN [c EXCEPT !.cook_id = FreshId(c.cook_id)] ELSE c

\* _process_control_flags, reached with no update pending: the switch moved.
Flipped(c) == ~ Standalone /\ cycSeen # switch /\ ~ c.updated

\* The history clear; then an update ends the cycle, and then the switch moving
\* to off does.
LoopReady ==
  /\ Drained("loop")
  /\ LET kept == EnsureCookId(store)
         c == Rotated(kept)
         flipped == Flipped(c)
     IN /\ IF clear
             THEN /\ metrics' = Stamped(NoMetrics, CycleMode)
                  /\ Retire(kept.cook_id)
                  /\ clear' = FALSE
             ELSE UNCHANGED session
        /\ cycSeen' = IF flipped THEN switch ELSE cycSeen
        /\ IF flipped /\ ~ switch
             THEN EndWith(Authoritative([c EXCEPT !.status = "active"], "Stop"))
             ELSE /\ work' = c
                  /\ store' = c
                  /\ Goto(Continue(c))
  /\ UNCHANGED <<queue, switch, kind, step, mem, seen, setupDone, discont,
                 stampOk, out, host, budget>>

\* The device a waiting manual request moves, if this cycle accepts it.
Overridden ==
  IF CycleMode = "Manual" \/ AllowManualChanges THEN {work.manual} \ {"none"}
                                                 ELSE {}

\* One probe read: its health, then the manual overrides, then the guards (the
\* maximum temperature before the flameout).
Sense ==
  /\ pc = "sense"
  /\ \/ EndWith(Authoritative(work, "Error")) /\ UNCHANGED out
     \/ \E on \in BOOLEAN, temp \in {"low", "fine", "over"} :
          LET moved == [d \in Devices |->
                          IF d \in Overridden THEN on ELSE out[d]]
              c == IF Overridden = {} THEN work
                                      ELSE [work EXCEPT !.manual = "none"]
              low == /\ CycleMode \in {"Smoke", "Hold"}
                     /\ temp = "low" /\ c.startuptemp
          IN IF temp = "over"
               THEN EndWith(Authoritative(c, "Error")) /\ out' = moved
             ELSE IF Flameout(low, c) = "ok"
               THEN Kept(c) /\ out' = moved /\ Goto("act")
               ELSE FlameoutTrip(c, low, moved)
  /\ UNCHANGED <<queue, switch, kind, step, mem, seen, cycle, stampOk, session,
                 host, budget>>

\* on_tick: the auger's cycle may move it, and Smoke Plus the fan.
Ticked(auger, fan) ==
  [out EXCEPT
     !["auger"] = IF CycleMode \in {"Prime", "Startup", "Reignite", "Smoke",
                                   "Hold"} THEN auger ELSE @,
     !["fan"] = IF CycleMode \in {"Smoke", "Hold"} THEN fan ELSE @]

\* on_tick drives the outputs; notifications are checked; the record is stored
\* if they fired or the display is due; then the mode's own exit, or a
\* triggered recipe step, ends the cycle.
Act ==
  /\ pc = "act"
  /\ \E auger, fan \in BOOLEAN : out' = Ticked(auger, fan)
  /\ \E c \in Notified(work) :
       /\ work' = c
       /\ store' \in {c} \cup (IF c = work THEN {store} ELSE {})
       /\ \/ Goto("loop")
          \/ /\ \/ CycleMode \in {"Prime", "Startup", "Reignite", "Shutdown"}
                \/ c.mode = "Recipe"
             /\ Goto("finish")
  /\ UNCHANGED <<queue, switch, kind, step, mem, seen, cycle, stampOk, session,
                 host, budget>>

\* A driver, a probe or the datastore raises inside the cycle.
CycleRaises ==
  /\ pc \in (CyclePcs \cup {"enter"})
  /\ Spend("raise")
  /\ IF setupDone THEN Raise ELSE Goto("crash") /\ UNCHANGED out
  /\ UNCHANGED <<store, queue, switch, locals, seen, cycle, stampOk, session,
                 host>>

\* The record _finish_cycle tears down with.
Ended == IF store.mode \in {"Stop", "Error"} THEN store ELSE work

\* Mutant: Shutdown leaves its fan running.
ShutdownKeepsFan ==
  IF CycleMode \in {"Prime", "Monitor", "Manual", "Hold"} THEN Devices
                                                        ELSE {"auger", "igniter"}

\* What _finish_cycle and the mode's teardown() turn off.
TornDown ==
  IF CycleMode \in {"Prime", "Shutdown", "Monitor", "Manual", "Hold"}
    THEN Devices ELSE {"auger", "igniter"}

\* _finish_cycle and the teardown of the mode.
Finish ==
  /\ pc = "finish"
  /\ IF setupDone /\ CycleMode \in {"Startup", "Reignite"}
       THEN /\ \E cold \in BOOLEAN :
                 work' = [Ended EXCEPT !.afterstarttemp = cold]
            /\ store' = work'
       ELSE work' = Ended /\ UNCHANGED store
  /\ out' = IF setupDone THEN Drive(out, {}, TornDown) ELSE out
  /\ stampOk' = (stampOk /\ ~ discont)
  /\ setupDone' = FALSE
  /\ discont' = FALSE
  /\ Goto("post")
  /\ UNCHANGED <<queue, switch, kind, step, mem, seen, cycSeen, session, host,
                 budget>>

-----------------------------------------------------------------------------
(* The handlers after their work cycle *)

\* Monitor and Manual leave the choice of the next mode to the operator.
PostIdle ==
  /\ pc = "post"
  /\ kind \in {"Monitor", "Manual"}
  /\ Goto("tick")
  /\ UNCHANGED <<store, queue, switch, locals, seen, cycle, stampOk, out,
                 session, host, budget>>

Direct == {"Prime", "Startup", "Smoke", "Hold", "Shutdown", "Reignite"}
AfterNatural == Goto(IF kind = "Shutdown" THEN "shutdownEnd" ELSE "tick")

\* next_mode: request_transition of kind natural yields at once after a
\* discontinuity, and drains the queue otherwise.
NextMode ==
  /\ pc = "post"
  /\ kind \in Direct
  /\ IF stampOk THEN DrainThen("natural") ELSE AfterNatural
  /\ UNCHANGED <<store, queue, switch, locals, seen, cycle, stampOk, out,
                 session, host, budget>>

\* Mutant: a reignited Hold does not get its setpoint back.
HoldSetpointOnly ==
  CASE kind \in {"Prime", "Startup"} -> TRUE
    [] kind = "Hold"                 -> mem.primary_setpoint
    [] OTHER                         -> FALSE

\* The setpoint the handler passes to next_mode.
NextSetpoint ==
  CASE kind \in {"Prime", "Startup"} -> TRUE
    [] kind \in {"Hold", "Reignite"} -> mem.primary_setpoint
    [] OTHER                          -> FALSE

\* Mutant: the progression does not yield.
NeverYields ==
  /\ Drained("natural")
  /\ IF Legal(store.mode, mem.next_mode)
       THEN /\ store' = Natural(store, mem.next_mode, NextSetpoint)
            /\ AfterNatural
       ELSE Goto("crash") /\ UNCHANGED store
  /\ UNCHANGED <<queue, switch, locals, seen, cycle, stampOk, out, session,
                 host, budget>>

\* Mutant: the graph is consulted before the yield.
ChecksBeforeYield ==
  /\ Drained("natural")
  /\ IF ~ Legal(store.mode, mem.next_mode) THEN Goto("crash") /\ UNCHANGED store
     ELSE IF store.updated THEN AfterNatural /\ UNCHANGED store
       ELSE /\ store' = Natural(store, mem.next_mode, NextSetpoint)
            /\ AfterNatural
  /\ UNCHANGED <<queue, switch, locals, seen, cycle, stampOk, out, session,
                 host, budget>>

\* The rest of it: yield to a mode already requested, or go on; a transition
\* the graph forbids raises out of the control loop.
NaturalReady ==
  /\ Drained("natural")
  /\ IF store.updated THEN AfterNatural /\ UNCHANGED store
     ELSE IF Legal(store.mode, mem.next_mode)
       THEN /\ store' = Natural(store, mem.next_mode, NextSetpoint)
            /\ AfterNatural
       ELSE Goto("crash") /\ UNCHANGED store
  /\ UNCHANGED <<queue, switch, locals, seen, cycle, stampOk, out, session,
                 host, budget>>

\* A shutdown that reached Stop halts the machine, if the settings say so.
ShutdownEnd ==
  /\ pc = "shutdownEnd"
  /\ mem' = store
  /\ host' = IF AutoPowerOff /\ RealHardware /\ store.mode = "Stop"
               THEN "halting" ELSE host
  /\ Goto("tick")
  /\ UNCHANGED <<store, queue, switch, kind, step, work, seen, cycle, stampOk,
                 out, session, budget>>

\* _dispatch_startup between its prime cycle and its startup cycle.
PostStartupPrime ==
  /\ pc = "post"
  /\ kind = "startupPrime"
  /\ IF store.mode \in {"Prime", "Startup"}
       THEN StartCycle("Startup",
                       [store EXCEPT !.updated = FALSE, !.mode = "Startup",
                                     !.next_mode = AfterStartup])
       ELSE mem' = store /\ Goto("tick") /\ UNCHANGED <<store, kind>>
  /\ UNCHANGED <<queue, switch, step, work, seen, cycle, stampOk, out, session,
                 host, budget>>

\* recipe_mode drains the queue after a step, unless the clock was lost.
PostStep ==
  /\ pc = "post"
  /\ kind = "recipe"
  /\ stampOk
  /\ DrainThen("recipe")
  /\ UNCHANGED <<store, queue, switch, locals, seen, cycle, stampOk, out,
                 session, host, budget>>

\* Then it reignites and retries, gives way to another mode, or goes on.
RecipeNext ==
  /\ Drained("recipe") \/ (pc = "post" /\ kind = "recipe" /\ ~ stampOk)
  /\ IF store.mode = "Reignite" /\ store.updated
       THEN /\ store' = [store EXCEPT !.updated = FALSE, !.mode = "Recipe"]
            /\ kind' = "recipeReignite"
            /\ Goto("enter")
            /\ UNCHANGED step
     ELSE IF store.mode # "Recipe" /\ store.updated
       THEN Goto("tick") /\ UNCHANGED <<store, kind, step>>
     ELSE IF step < Len(RecipeSteps)
       THEN StartStep(store, step + 1)
       ELSE EndRecipe(store) /\ UNCHANGED <<kind, step>>
  /\ UNCHANGED <<queue, switch, mem, work, seen, cycle, stampOk, out, session,
                 host, budget>>

\* After the reignite cycle of a recipe: give way, or retry the same step with
\* its trigger state as it stands.
PostRecipeReignite ==
  /\ pc = "post"
  /\ kind = "recipeReignite"
  /\ IF store.updated /\ store.mode # "Recipe"
       THEN Goto("tick") /\ UNCHANGED <<store, kind>>
       ELSE /\ store' = [store EXCEPT !.updated = FALSE]
            /\ kind' = "recipe"
            /\ Goto("enter")
  /\ UNCHANGED <<queue, switch, step, mem, work, seen, cycle, stampOk, out,
                 session, host, budget>>

-----------------------------------------------------------------------------
(* The process and its machine *)

\* The exception reaches the interpreter: atexit runs Controller.cleanup.
CleanUp ==
  /\ pc = "crash"
  /\ out' = AllOff
  /\ Goto("down")
  /\ host' = "up"
  /\ UNCHANGED <<store, queue, switch, locals, seen, cycle, stampOk, session,
                 budget>>

\* The process dies, or the supervisor restarts it, with its outputs as they
\* are; its thread that would have halted the machine dies with it.
Kill ==
  /\ pc # "down"
  /\ Spend("kill") \/ (host = "restarting" /\ UNCHANGED budget)
  /\ Goto("down")
  /\ host' = "up"
  /\ UNCHANGED <<store, queue, switch, locals, seen, cycle, stampOk, out,
                 session>>

HostHalts ==
  /\ host = "halting"
  /\ host' = "off"
  /\ Goto("down")
  /\ UNCHANGED <<store, queue, switch, locals, seen, cycle, stampOk, out,
                 session, budget>>

\* control.py: the record is reset, queued deltas and the old outputs go, and an
\* unfinished session keeps its identity.
Boot ==
  /\ pc = "down"
  /\ store' = BootControl(IF metrics = NoMetrics THEN 0 ELSE store.cook_id)
  /\ mem' = store'
  /\ work' = store'
  /\ queue' = <<>>
  /\ seen' = switch
  /\ setupDone' = FALSE
  /\ discont' = FALSE
  /\ stampOk' = FALSE
  /\ out' = AllOff
  /\ kind' = "idle"
  /\ Goto("tick")
  /\ UNCHANGED <<switch, step, cycSeen, session, budget>>

Restart == host = "up" /\ Boot /\ UNCHANGED host
PowerUp == host = "off" /\ Boot /\ host' = "up"

-----------------------------------------------------------------------------
(* The other processes, the operator, and the watchdog thread *)

\* What the web API checks when it queues a delta.
Accepted(d) ==
  /\ d.op = "manual" => store.mode = "Manual" \/ AllowManualChanges
  /\ d.op = "mode" => (d.mode = "Recipe" => store.mode = "Stop")

Enqueue(d) ==
  /\ host # "off"
  /\ Len(queue) < MaxQueue
  /\ Accepted(d)
  /\ Spend("request")
  /\ queue' = Append(queue, d)
  /\ UNCHANGED <<store, switch, pc, ret, locals, seen, cycle, stampOk, out,
                 session, host>>

RequestClear ==
  /\ host # "off"
  /\ ~ clear
  /\ Spend("request")
  /\ clear' = TRUE
  /\ UNCHANGED <<store, queue, switch, pc, ret, locals, seen, cycle, stampOk,
                 out, metrics, retired, host>>

FlipSwitch ==
  /\ ~ Standalone
  /\ Spend("flip")
  /\ switch' = ~ switch
  /\ UNCHANGED <<store, queue, pc, ret, locals, seen, cycle, stampOk, out,
                 session, host>>

\* _heartbeat_check: the cycle has not been heard of for 30 s.  The supervisor
\* is asked for a restart, which the cycle may outrun.
Watchdog ==
  /\ InCycle \/ pc = "enter"
  /\ host = "up"
  /\ Spend("hang")
  /\ store' = [Authoritative(store, "Error") EXCEPT !.critical_error = TRUE]
  /\ host' = IF RealHardware THEN "restarting" ELSE host
  /\ UNCHANGED <<queue, switch, pc, ret, locals, seen, cycle, stampOk, out,
                 session>>

-----------------------------------------------------------------------------
Outer == \/ IdleTripped \/ BeginTick \/ ApplyHead \/ PollControl \/ NoDispatch
         \/ DispatchTerminal \/ Archive \/ DispatchPlain \/ DispatchStartup
         \/ DispatchRecipe \/ PostIdle \/ NextMode \/ NaturalReady
         \/ ShutdownEnd \/ PostStartupPrime \/ PostStep \/ RecipeNext
         \/ PostRecipeReignite

WorkCycle == \/ EnterCycle \/ SetupCycle \/ StampCycle \/ CycleTripped
             \/ BeginLoop \/ LoopReady \/ Sense \/ Act \/ Finish

Faults == \/ IdleGap \/ CycleGap \/ CycleRaises \/ Kill \/ HostHalts \/ PowerUp
          \/ Watchdog

Requested == \/ \E d \in Requests : Enqueue(d)
             \/ RequestClear
             \/ FlipSwitch

Next == Outer \/ WorkCycle \/ CleanUp \/ Restart \/ Faults \/ Requested

Spec == Init /\ [][Next]_vars

\* The control loop never blocks, and the supervisor restarts it.
Fairness == /\ WF_vars(Outer \/ WorkCycle \/ CleanUp)
            /\ WF_vars(Restart)

FairSpec == Spec /\ Fairness

=============================================================================
