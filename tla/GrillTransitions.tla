------------------------- MODULE GrillTransitions -------------------------
(***************************************************************************)
(* The mode graph of controller/runtime/transitions.py and the shared      *)
(* control record of common/persistence/control.py, as pure operators: the *)
(* legality table, the flameout verdict, the reset record, and what a      *)
(* queued delta does to the record when it is drained.                     *)
(*                                                                         *)
(* Temperatures are abstracted to the two comparisons the code makes of    *)
(* them (below the startup temperature, above the maximum); a setpoint to  *)
(* "set" or "zero"; a cook identity to a small number, 0 being None.       *)
(***************************************************************************)
EXTENDS Naturals, Sequences

CONSTANTS
  MaxRetries,   \* settings.safety.reigniteretries
  MaxCook       \* cook identities told apart by the model

ASSUME RetriesAssumption == MaxRetries \in Nat
ASSUME CookAssumption == MaxCook \in Nat /\ MaxCook >= 5

Modes == {"Startup", "Smoke", "Hold", "Monitor", "Manual", "Prime",
          "Reignite", "Shutdown", "Stop", "Error", "Recipe"}

\* The modes whose presence in the metrics makes the session a cook.
CookModes == {"Startup", "Reignite", "Smoke", "Hold", "Shutdown", "Manual",
              "Recipe"}

\* The modes a controller with a broken platform may still be sent to.
SafeModes == {"Stop", "Shutdown", "Error"}

StatusStates == {"unset", "active", "monitor", "inactive"}

Devices == {"auger", "igniter", "fan", "power"}

CookIds == 0 .. MaxCook

(***************************************************************************)
(* ALLOWED_EXITS.  A mode the table does not name (Stop, Error) is not     *)
(* checked at all.                                                         *)
(***************************************************************************)
AllowedExits ==
  [ Prime    |-> {"Startup", "Stop", "Error"},
    Startup  |-> {"Prime", "Smoke", "Hold", "Monitor", "Stop", "Error",
                  "Reignite"},
    Smoke    |-> {"Hold", "Monitor", "Shutdown", "Stop", "Error", "Reignite"},
    Hold     |-> {"Hold", "Smoke", "Monitor", "Shutdown", "Stop", "Error",
                  "Reignite"},
    Reignite |-> {"Smoke", "Hold", "Startup", "Stop", "Error"},
    Shutdown |-> {"Stop", "Error"},
    Monitor  |-> {"Stop", "Error"},
    Manual   |-> {"Stop", "Error"},
    Recipe   |-> {"Recipe", "Smoke", "Hold", "Stop", "Error", "Reignite"} ]

\* _check_legal: TRUE when request_transition does not raise.
Legal(from, to) == from \in DOMAIN AllowedExits => to \in AllowedExits[from]

\* should_keep_power_on
ShouldKeepPowerOn(mode, status) == status = "monitor" /\ mode = "Error"

(***************************************************************************)
(* The control record.  startuptemp: a startup temperature has been        *)
(* recorded, so a temperature can be below it; afterstarttemp: the carried *)
(* over temperature is below it; primary_setpoint: it is not zero.         *)
(***************************************************************************)
Control ==
  [ mode : Modes, updated : BOOLEAN, next_mode : Modes,
    status : StatusStates, reigniteretries : 0 .. MaxRetries,
    reignitelaststate : Modes, startuptemp : BOOLEAN,
    afterstarttemp : BOOLEAN, primary_setpoint : BOOLEAN,
    cook_id : CookIds, units_change : BOOLEAN, critical_error : BOOLEAN,
    manual : Devices \cup {"none"} ]

\* default_control()
DefaultControl ==
  [ mode |-> "Stop", updated |-> TRUE, next_mode |-> "Stop",
    status |-> "unset", reigniteretries |-> MaxRetries,
    reignitelaststate |-> "Smoke", startuptemp |-> FALSE,
    afterstarttemp |-> FALSE, primary_setpoint |-> FALSE, cook_id |-> 0,
    units_change |-> FALSE, critical_error |-> FALSE, manual |-> "none" ]

\* Mutant: the retries that are left are not looked at.
FlameoutAlwaysReignites(below, c) == IF ~ below THEN "ok" ELSE "reignite"

(***************************************************************************)
(* evaluate_flameout on a temperature known to be below the startup        *)
(* temperature or not.                                                     *)
(***************************************************************************)
Flameout(below, c) ==
  IF ~ below THEN "ok"
  ELSE IF c.reigniteretries = 0 THEN "error" ELSE "reignite"

(***************************************************************************)
(* request_transition of kind safety or terminal: what it writes.          *)
(***************************************************************************)
Authoritative(c, to) == [c EXCEPT !.mode = to, !.updated = TRUE]

ReigniteFrom(c, from) ==
  [Authoritative(c, "Reignite") EXCEPT
     !.reigniteretries = @ - 1, !.reignitelaststate = from]

(***************************************************************************)
(* request_transition of kind natural, once it has decided not to yield.   *)
(***************************************************************************)
Natural(c, to, setpoint) ==
  [Authoritative(c, to) EXCEPT !.primary_setpoint = (to = "Hold") /\ setpoint]

(***************************************************************************)
(* The deltas the web, the display and the API enqueue, by what they name: *)
(* mode = {mode, updated}; hold adds a setpoint; prime adds next_mode;     *)
(* psp = the op hold.set_setpoint; units = {updated, units_change}; step = *)
(* {updated} alone (the display's "next step"); manual = {manual}.         *)
(***************************************************************************)
Deltas ==
  [op : {"mode"}, mode : Modes]
    \cup [op : {"prime"}, next : Modes]
    \cup [op : {"manual"}, device : Devices]
    \cup [op : {"hold", "psp", "units", "step"}]

\* Mutant: a retarget clears the change that is pending.
RetargetClearsUpdate(c) ==
  [c EXCEPT !.mode = "Hold", !.updated = c.mode # "Hold",
            !.primary_setpoint = TRUE]

\* _op_hold_set_setpoint
HoldSetSetpoint(c) ==
  [c EXCEPT !.mode = "Hold", !.updated = @ \/ c.mode # "Hold",
            !.primary_setpoint = TRUE]

\* apply_control_delta
ApplyDelta(c, d) ==
  CASE d.op = "mode"   -> [c EXCEPT !.mode = d.mode, !.updated = TRUE]
    [] d.op = "hold"   -> [c EXCEPT !.mode = "Hold", !.updated = TRUE,
                                    !.primary_setpoint = TRUE]
    [] d.op = "prime"  -> [c EXCEPT !.mode = "Prime", !.updated = TRUE,
                                    !.next_mode = d.next]
    [] d.op = "psp"    -> HoldSetSetpoint(c)
    [] d.op = "units"  -> [c EXCEPT !.updated = TRUE, !.units_change = TRUE]
    [] d.op = "step"   -> [c EXCEPT !.updated = TRUE]
    [] d.op = "manual" -> [c EXCEPT !.manual = d.device]

(***************************************************************************)
(* check_notify on one entry that has just fired: shut down, keep warm or  *)
(* reignite, each only from the modes it names.                            *)
(***************************************************************************)
NotifyShutdown(c) ==
  IF c.mode \in {"Reignite", "Startup", "Smoke", "Hold"}
    THEN [c EXCEPT !.mode = "Shutdown", !.updated = TRUE]
    ELSE c

NotifyKeepWarm(c) ==
  IF c.mode \in {"Smoke", "Hold"}
    THEN [c EXCEPT !.mode = "Hold", !.updated = TRUE, !.primary_setpoint = TRUE]
    ELSE c

NotifyReignite(c) ==
  IF c.mode \in {"Smoke", "Hold"}
    THEN [c EXCEPT !.mode = "Reignite", !.updated = TRUE,
                   !.reignitelaststate = c.mode]
    ELSE c
===========================================================================
