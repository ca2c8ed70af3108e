------------------------ MODULE ControlLoop_proofs ------------------------
(***************************************************************************)
(* Safety of the control process of ControlLoop, for every value of the    *)
(* constants: its state keeps its types, the heaters are driven only       *)
(* inside a work cycle, nothing is driven after a lost clock, a controller *)
(* whose platform could not be built never lights a fire, and the mode the *)
(* record names is the mode of the cycle that runs, reached by a           *)
(* transition the mode graph allows.                                       *)
(*                                                                         *)
(* The types are inductive only with two facts about the control flow: a   *)
(* work cycle runs for a handler, and a recipe's handler has a step to run.*)
(***************************************************************************)
EXTENDS ControlLoopProperties, TLAPS

-----------------------------------------------------------------------------
(* What the operators of GrillTransitions and ControlLoop return *)

\* The graph lets every mode go to Stop and to Error: no safety trip and no
\* terminal transition can raise (_check_legal).
THEOREM TerminalLegal ==
  \A m \in Modes : Legal(m, "Stop") /\ Legal(m, "Error")
BY SMT DEF Legal, AllowedExits, Modes

\* A reset record, and the record a boot starts from, are records.
LEMMA DefaultControlType == DefaultControl \in Control
BY RetriesAssumption, CookAssumption, SMT
   DEF DefaultControl, Control, Modes, StatusStates, Devices, CookIds

LEMMA BootControlType ==
  ASSUME NEW cook \in CookIds
  PROVE  BootControl(cook) \in Control
<1>1. PlatformBroken \in BOOLEAN
  BY LoopAssumption
<1>2. (IF BootToMonitor THEN "Monitor" ELSE "Stop") \in Modes
  BY DEF Modes
<1> QED BY <1>1, <1>2, DefaultControlType, Zenon DEF BootControl, Control

LEMMA ResetControlType ==
  ASSUME NEW c \in Control, NEW cook \in CookIds
  PROVE  ResetControl(c, cook) \in Control
<1>1. c.mode \in Modes /\ c.critical_error \in BOOLEAN
  BY DEF Control
<1>2. "inactive" \in StatusStates
  BY DEF StatusStates
<1> QED BY <1>1, <1>2, DefaultControlType, Zenon DEF ResetControl, Control

\* A transition to a mode keeps the record a record.
LEMMA AuthoritativeType ==
  ASSUME NEW c \in Control, NEW m \in Modes
  PROVE  Authoritative(c, m) \in Control
BY Zenon DEF Authoritative, Control

LEMMA ReigniteFromType ==
  ASSUME NEW c \in Control, c.reigniteretries # 0, NEW from \in Modes
  PROVE  ReigniteFrom(c, from) \in Control
<1> DEFINE a == Authoritative(c, "Reignite")
<1>1. a \in Control
  BY AuthoritativeType DEF Modes
<1>2. a.reigniteretries = c.reigniteretries
  BY Zenon DEF Authoritative, Control
<1>3. a.reigniteretries - 1 \in 0 .. MaxRetries
  BY <1>2, RetriesAssumption, SMT DEF Control
<1> HIDE DEF a
<1>4. [a EXCEPT !.reigniteretries = @ - 1, !.reignitelaststate = from]
        \in Control
  BY <1>1, <1>3, Zenon DEF Control
<1> QED BY <1>4 DEF ReigniteFrom, a

LEMMA NaturalType ==
  ASSUME NEW c \in Control, NEW to \in Modes, NEW setpoint \in BOOLEAN
  PROVE  Natural(c, to, setpoint) \in Control
<1>1. ((to = "Hold") /\ setpoint) \in BOOLEAN
  OBVIOUS
<1>2. Authoritative(c, to) \in Control
  BY AuthoritativeType
<1> QED BY <1>1, <1>2, Zenon DEF Natural, Control

\* A queued delta keeps the record a record.
LEMMA ApplyDeltaType ==
  ASSUME NEW c \in Control, NEW d \in Deltas
  PROVE  ApplyDelta(c, d) \in Control
<1>0. {"Hold", "Prime"} \subseteq Modes
  BY DEF Modes
<1>1. CASE d \in [op : {"mode"}, mode : Modes]
  BY <1>1, Zenon DEF ApplyDelta, Control
<1>2. CASE d \in [op : {"prime"}, next : Modes]
  <2>1. d.op = "prime" /\ d.next \in Modes
    BY <1>2
  <2> QED BY <1>0, <2>1, Zenon DEF ApplyDelta, Control
<1>3. CASE d \in [op : {"manual"}, device : Devices]
  <2>1. d.op = "manual" /\ d.device \in Devices
    BY <1>3
  <2> QED BY <2>1, Zenon DEF ApplyDelta, Control
<1>4. CASE d \in [op : {"hold", "psp", "units", "step"}]
  <2>1. CASE d.op = "psp"
    <3>1. (c.updated \/ c.mode # "Hold") \in BOOLEAN
      OBVIOUS
    <3>2. HoldSetSetpoint(c) \in Control
      BY <1>0, <3>1, Zenon DEF HoldSetSetpoint, Control
    <3> QED BY <2>1, <3>2, Zenon DEF ApplyDelta
  <2>2. CASE d.op = "hold"
    BY <1>0, <2>2, Zenon DEF ApplyDelta, Control
  <2>3. CASE d.op = "units"
    BY <2>3, Zenon DEF ApplyDelta, Control
  <2>4. CASE d.op = "step"
    BY <2>4, Zenon DEF ApplyDelta, Control
  <2> QED BY <1>4, <2>1, <2>2, <2>3, <2>4
<1> QED BY <1>1, <1>2, <1>3, <1>4 DEF Deltas

\* Notifications that fire keep the record a record.
LEMMA FiredType ==
  ASSUME NEW c \in Control, NEW f \in Fired(c)
  PROVE  f \in Control
<1>0. {"Hold", "Shutdown", "Reignite"} \subseteq Modes /\ c.mode \in Modes
  BY DEF Modes, Control
<1>1. NotifyShutdown(c) \in Control
  BY <1>0, Zenon DEF NotifyShutdown, Control
<1>2. NotifyKeepWarm(c) \in Control
  BY <1>0, Zenon DEF NotifyKeepWarm, Control
<1>3. NotifyReignite(c) \in Control
  BY <1>0, Zenon DEF NotifyReignite, Control
<1>4. f \in {NotifyShutdown(c), NotifyKeepWarm(c), NotifyReignite(c)}
  BY DEF Fired
<1> QED BY <1>1, <1>2, <1>3, <1>4

LEMMA NotifiedType ==
  ASSUME NEW c \in Control, NEW n \in Notified(c)
  PROVE  n \in Control
BY FiredType DEF Notified

\* There is always an identity nothing holds.
LEMMA FreshIdType ==
  ASSUME NEW id
  PROVE  FreshId(id) \in CookIds \ {0}
<1> DEFINE Held == {id, mem.cook_id, work.cook_id, retired}
<1>1. \E i \in 1 .. 5 : i \notin Held
  <2>1. SUFFICES ASSUME \A i \in 1 .. 5 : i \in Held
                 PROVE  FALSE
    OBVIOUS
  <2>2. 1 \in Held /\ 2 \in Held /\ 3 \in Held /\ 4 \in Held /\ 5 \in Held
    BY <2>1, SMT
  <2> QED BY <2>2, SMT
<1>2. 1 .. 5 \subseteq 1 .. MaxCook
  BY CookAssumption, SMT
<1>3. \E i \in 1 .. MaxCook : i \notin Held
  BY <1>1, <1>2
<1>4. FreshId(id) \in 1 .. MaxCook
  BY <1>3, Zenon DEF FreshId
<1> QED BY <1>4, CookAssumption, SMT DEF CookIds

LEMMA EnsureCookIdType ==
  ASSUME NEW c \in Control
  PROVE  EnsureCookId(c) \in Control
<1>1. FreshId(0) \in CookIds
  BY FreshIdType
<1> QED BY <1>1, Zenon DEF EnsureCookId, Control

LEMMA FlushHistoryType ==
  ASSUME NEW c \in Control
  PROVE  FlushHistory(c) \in Control
<1>1. 0 \in CookIds
  BY CookAssumption, SMT DEF CookIds
<1> QED BY <1>1, Zenon DEF FlushHistory, Control

LEMMA ClockTripType ==
  ASSUME NEW c \in Control
  PROVE  ClockTrip(c) \in Control
<1>1. Authoritative(c, "Error") \in Control
  BY AuthoritativeType DEF Modes
<1> QED BY <1>1, Zenon DEF ClockTrip, Control

LEMMA DriveType ==
  ASSUME NEW o \in [Devices -> BOOLEAN], NEW on, NEW off
  PROVE  Drive(o, on, off) \in [Devices -> BOOLEAN]
<1>1. ASSUME NEW d \in Devices
      PROVE  (IF d \in on THEN TRUE ELSE IF d \in off THEN FALSE ELSE o[d])
                \in BOOLEAN
  <2>1. o[d] \in BOOLEAN
    OBVIOUS
  <2> QED BY <2>1, Zenon
<1> QED BY <1>1, Zenon DEF Drive

LEMMA AllOffType == AllOff \in [Devices -> BOOLEAN]
BY Zenon DEF AllOff

LEMMA SpendType ==
  ASSUME NEW e \in Events, budget \in [Events -> Nat], Spend(e)
  PROVE  budget' \in [Events -> Nat]
BY SMT DEF Spend

-----------------------------------------------------------------------------
(* Type correctness.  What the types rest on: a cycle runs for a handler,  *)
(* and a recipe's handler has a step to run.                               *)

CycleHasKind == InCycle \/ pc \in {"enter", "post"} => kind # "idle"

RecipeHasStep ==
  /\ kind \in {"recipe", "recipeReignite"} => step \in 1 .. Len(RecipeSteps)
  /\ pc = "drain" /\ ret = "recipe" => kind = "recipe"

TypeInv == TypeOK /\ CycleHasKind /\ RecipeHasStep

Records == store \in Control /\ mem \in Control /\ work \in Control

LEMMA CycleModeType ==
  ASSUME TypeInv, kind # "idle"
  PROVE  CycleMode \in Modes
<1>1. CASE kind \in {"recipe"}
  <2>1. step \in 1 .. Len(RecipeSteps)
    BY <1>1 DEF TypeInv, RecipeHasStep
  <2>2. RecipeSteps[step] \in Modes
    BY <2>1, LoopAssumption, SMT
  <2> QED BY <1>1, <2>2 DEF CycleMode
<1>2. CASE kind \notin {"recipe"}
  BY <1>2, SMT DEF TypeInv, TypeOK, Kinds, CycleMode, Modes
<1> QED BY <1>1, <1>2

\* The record as the dispatch takes it.
LEMMA TakenType ==
  ASSUME mem \in Control
  PROVE  Taken \in Control
<1> DEFINE read == [mem EXCEPT !.updated = FALSE]
           c == IF read.units_change
                  THEN [read EXCEPT !.mode = "Stop", !.units_change = FALSE,
                                    !.cook_id = 0]
                  ELSE read
<1>1. read \in Control
  BY Zenon DEF Control
<1>2. "Stop" \in Modes /\ "active" \in StatusStates /\ 0 \in CookIds
  BY CookAssumption, SMT DEF Modes, StatusStates, CookIds
<1> HIDE DEF read
<1>3. c \in Control
  BY <1>1, <1>2, Zenon DEF Control
<1> HIDE DEF c
<1>4. (IF c.status # "monitor" /\ c.mode # "Error"
         THEN [c EXCEPT !.status = "active"] ELSE c) \in Control
  BY <1>2, <1>3, Zenon DEF Control
<1> QED BY <1>4 DEF Taken, c, read

\* Every step of the outer loop keeps the three records records.
LEMMA OuterRecords ==
  ASSUME TypeInv, Outer
  PROVE  Records'
<1>0. Records
  BY DEF TypeInv, TypeOK, Records
<1> USE <1>0 DEF Records
<1>m. {"Stop", "Error", "Prime", "Startup", "Recipe", "Smoke", "Hold"}
   \subseteq Modes
  BY DEF Modes
<1>t. Taken \in Control
  BY TakenType
<1>a. AfterStartup \in Modes
  BY <1>m, LoopAssumption
<1>1. CASE IdleTripped
  BY <1>1, ClockTripType DEF IdleTripped
<1>2. CASE BeginTick
  BY <1>2, <1>m, AuthoritativeType, SMT DEF BeginTick
<1>3. CASE ApplyHead
  <2>1. Head(queue) \in Deltas
    BY <1>3, LoopAssumption, SMT DEF ApplyHead, TypeInv, TypeOK
  <2> QED BY <1>3, <2>1, ApplyDeltaType DEF ApplyHead, locals
<1>4. CASE PollControl
  <2>1. (IF clear THEN FlushHistory(store) ELSE store) \in Control
    BY FlushHistoryType
  <2> QED BY <1>4, <2>1, NotifiedType, Zenon DEF PollControl
<1>5. CASE NoDispatch
  BY <1>5 DEF NoDispatch, locals
<1>6. CASE DispatchTerminal
  BY <1>6, <1>t DEF DispatchTerminal
<1>7. CASE Archive
  <2>1. mem.cook_id \in CookIds /\ 0 \in CookIds
    BY CookAssumption, SMT DEF Control, CookIds
  <2>2. PICK finalized \in BOOLEAN :
          mem' = ResetControl(mem, IF finalized THEN 0 ELSE mem.cook_id)
          /\ store' = mem' /\ work' = work
    BY <1>7, Zenon DEF Archive
  <2>3. (IF finalized THEN 0 ELSE mem.cook_id) \in CookIds
    BY <2>1
  <2> QED BY <2>2, <2>3, ResetControlType
<1>8. CASE DispatchPlain
  <2>1. [Taken EXCEPT !.next_mode = "Stop"] \in Control
    BY <1>m, <1>t, Zenon DEF Control
  <2>2. [Taken EXCEPT !.status = "monitor"] \in Control
    BY <1>t, Zenon DEF Control, StatusStates
  <2>3. Taken.reignitelaststate \in Modes
    BY <1>t DEF Control
  <2>4. [Taken EXCEPT !.next_mode = Taken.reignitelaststate] \in Control
    BY <1>t, <2>3, Zenon DEF Control
  <2> QED BY <1>8, <1>t, <2>1, <2>2, <2>4, Zenon DEF DispatchPlain, StartCycle
<1>9. CASE DispatchStartup
  <2>1. [Taken EXCEPT !.mode = "Prime"] \in Control
    BY <1>m, <1>t, Zenon DEF Control
  <2>2. [Taken EXCEPT !.next_mode = AfterStartup] \in Control
    BY <1>a, <1>t, Zenon DEF Control
  <2> QED BY <1>9, <2>1, <2>2, Zenon DEF DispatchStartup, StartCycle
<1>s. ASSUME NEW c \in Control, NEW n, StartStep(c, n)
      PROVE  store' \in Control
  BY <1>s, Zenon DEF StartStep, Control
<1>e. ASSUME NEW c \in Control, EndRecipe(c)
      PROVE  store' \in Control
  BY <1>e, <1>m, AuthoritativeType DEF EndRecipe
<1>10. CASE DispatchRecipe
  BY <1>10, <1>t, <1>s, <1>e, Zenon DEF DispatchRecipe
<1>11. CASE PostIdle
  BY <1>11 DEF PostIdle, locals
<1>12. CASE NextMode
  BY <1>12 DEF NextMode, locals
<1>13. CASE NaturalReady
  <2>1. NextSetpoint \in BOOLEAN
    BY Zenon DEF NextSetpoint, Control
  <2>2. mem.next_mode \in Modes
    BY DEF Control
  <2> QED BY <1>13, <2>1, <2>2, NaturalType, Zenon DEF NaturalReady, locals
<1>14. CASE ShutdownEnd
  BY <1>14 DEF ShutdownEnd
<1>15. CASE PostStartupPrime
  <2>1. [store EXCEPT !.updated = FALSE, !.mode = "Startup",
                      !.next_mode = AfterStartup] \in Control
    BY <1>m, <1>a, Zenon DEF Control
  <2> QED BY <1>15, <2>1, Zenon DEF PostStartupPrime, StartCycle
<1>16. CASE PostStep
  BY <1>16 DEF PostStep, locals
<1>17. CASE RecipeNext
  <2>1. [store EXCEPT !.updated = FALSE, !.mode = "Recipe"] \in Control
    BY <1>m, Zenon DEF Control
  <2> QED BY <1>17, <2>1, <1>s, <1>e, Zenon DEF RecipeNext
<1>18. CASE PostRecipeReignite
  <2>1. [store EXCEPT !.updated = FALSE] \in Control
    BY Zenon DEF Control
  <2> QED BY <1>18, <2>1, Zenon DEF PostRecipeReignite
<1> QED BY <1>1, <1>2, <1>3, <1>4, <1>5, <1>6, <1>7, <1>8, <1>9, <1>10, <1>11,
           <1>12, <1>13, <1>14, <1>15, <1>16, <1>17, <1>18 DEF Outer

\* A flameout leaves records: to Error, to Reignite, or out of the cycle.
LEMMA FlameoutTripType ==
  ASSUME store \in Control, CycleMode \in Modes, NEW c \in Control, NEW below,
         NEW o, Flameout(below, c) # "ok", FlameoutTrip(c, below, o)
  PROVE  store' \in Control /\ work' \in Control
<1>1. CASE Flameout(below, c) = "error"
  BY <1>1, AuthoritativeType DEF FlameoutTrip, EndWith, Modes
<1>2. CASE Flameout(below, c) # "error"
  <2>1. c.reigniteretries # 0
    BY <1>2 DEF Flameout
  <2>2. ReigniteFrom(c, CycleMode) \in Control
    BY <2>1, ReigniteFromType
  <2> QED BY <1>2, <2>2, Zenon DEF FlameoutTrip, EndWith, Kept
<1> QED BY <1>1, <1>2

\* Every step of a work cycle keeps the three records records.
LEMMA CycleRecords ==
  ASSUME TypeInv, WorkCycle
  PROVE  Records'
<1>0. Records
  BY DEF TypeInv, TypeOK, Records
<1> USE <1>0 DEF Records
<1>m. "Error" \in Modes /\ "Stop" \in Modes
  BY DEF Modes
<1>e. Authoritative(work, "Error") \in Control
  BY <1>m, AuthoritativeType
<1>k. pc \in CyclePcs => CycleMode \in Modes
  BY CycleModeType DEF TypeInv, CycleHasKind, InCycle
<1>1. CASE EnterCycle
  <2>1. EnsureCookId(store) \in Control
    BY EnsureCookIdType
  <2>2. Authoritative(EnsureCookId(store), "Error") \in Control
    BY <1>m, <2>1, AuthoritativeType
  <2> QED BY <1>1, <2>1, <2>2, Zenon DEF EnterCycle, EndWith
<1>2. CASE SetupCycle
  BY <1>2 DEF SetupCycle, locals
<1>3. CASE StampCycle
  <2>1. mem' = mem
    BY <1>3 DEF StampCycle
  <2>2. CASE EndWith(Authoritative(work, "Error"))
    BY <1>e, <2>1, <2>2 DEF EndWith
  <2>3. CASE \E cold \in BOOLEAN :
               /\ work' = [work EXCEPT !.startuptemp = TRUE,
                                       !.afterstarttemp = cold]
               /\ store' = work'
    <3>1. PICK cold \in BOOLEAN :
            /\ work' = [work EXCEPT !.startuptemp = TRUE,
                                      !.afterstarttemp = cold]
            /\ store' = work'
      BY <2>3
    <3>2. [work EXCEPT !.startuptemp = TRUE, !.afterstarttemp = cold] \in Control
      BY Zenon DEF Control
    <3> QED BY <2>1, <3>1, <3>2
  <2>4. CASE UNCHANGED <<work, store>>
    BY <2>1, <2>4
  <2>5. CASE \E below : Flameout(below, work) # "ok" /\ FlameoutTrip(work,
     below, out)
    <3>1. CycleMode \in Modes
      BY <1>3, <1>k DEF StampCycle, CyclePcs
    <3> QED BY <2>1, <2>5, <3>1, FlameoutTripType
  <2> QED BY <1>3, <2>2, <2>3, <2>4, <2>5, Zenon DEF StampCycle
<1>4. CASE CycleTripped
  BY <1>4, ClockTripType DEF CycleTripped, EndWith
<1>5. CASE BeginLoop
  BY <1>5 DEF BeginLoop, locals
<1>6. CASE LoopReady
  <2> DEFINE kept == EnsureCookId(store)
             c == IF clear THEN [kept EXCEPT !.cook_id = FreshId(kept.cook_id)]
                           ELSE kept
             off == [c EXCEPT !.status = "active"]
  <2>1. kept \in Control
    BY EnsureCookIdType
  <2>2. FreshId(kept.cook_id) \in CookIds
    BY FreshIdType
  <2>3. /\ mem' = mem
        /\ \/ EndWith(Authoritative(off, "Stop"))
           \/ work' = c /\ store' = c
    BY <1>6 DEF LoopReady, Rotated
  <2> HIDE DEF kept
  <2>4. c \in Control
    BY <2>1, <2>2, Zenon DEF Control
  <2> HIDE DEF c
  <2>5. off \in Control
    BY <2>4, Zenon DEF Control, StatusStates
  <2>6. Authoritative(off, "Stop") \in Control
    BY <1>m, <2>5, AuthoritativeType
  <2> QED BY <2>3, <2>4, <2>6 DEF EndWith
<1>7. CASE Sense
  <2>1. mem' = mem
    BY <1>7 DEF Sense
  <2>2. CASE EndWith(Authoritative(work, "Error"))
    BY <1>e, <2>1, <2>2 DEF EndWith
  <2>3. CASE ~ EndWith(Authoritative(work, "Error"))
    <3> DEFINE c == IF Overridden = {} THEN work
                                       ELSE [work EXCEPT !.manual = "none"]
    <3>1. c \in Control
      BY Zenon DEF Control
    <3>2. \E low, o :
             \/ EndWith(Authoritative(c, "Error"))
             \/ Kept(c)
             \/ Flameout(low, c) # "ok" /\ FlameoutTrip(c, low, o)
      BY <1>7, <2>3, Zenon DEF Sense
    <3> HIDE DEF c
    <3>3. CycleMode \in Modes
      BY <1>7, <1>k DEF Sense, CyclePcs
    <3>4. Authoritative(c, "Error") \in Control
      BY <1>m, <3>1, AuthoritativeType
    <3>5. CASE EndWith(Authoritative(c, "Error"))
      BY <2>1, <3>4, <3>5 DEF EndWith
    <3>6. CASE Kept(c)
      BY <2>1, <3>1, <3>6 DEF Kept
    <3>7. CASE \E low, o : Flameout(low, c) # "ok" /\ FlameoutTrip(c, low, o)
      BY <2>1, <3>1, <3>3, <3>7, FlameoutTripType
    <3> QED BY <3>2, <3>5, <3>6, <3>7
  <2> QED BY <2>2, <2>3
<1>8. CASE Act
  <2>1. PICK c \in Notified(work) :
          work' = c /\ store' \in {c} \cup (IF c = work THEN {store} ELSE {})
    BY <1>8, Zenon DEF Act
  <2>2. c \in Control
    BY NotifiedType
  <2> QED BY <1>8, <2>1, <2>2 DEF Act
<1>9. CASE Finish
  <2>1. Ended \in Control
    BY DEF Ended
  <2>2. \A cold \in BOOLEAN : [Ended EXCEPT !.afterstarttemp = cold] \in Control
    BY <2>1, Zenon DEF Control
  <2> QED BY <1>9, <2>1, <2>2, Zenon DEF Finish
<1> QED BY <1>1, <1>2, <1>3, <1>4, <1>5, <1>6, <1>7, <1>8, <1>9 DEF WorkCycle

\* So does every step of the environment, a crash and a restart.
LEMMA OtherRecords ==
  ASSUME TypeInv, CleanUp \/ Restart \/ Faults \/ Requested
  PROVE  Records'
<1>0. Records
  BY DEF TypeInv, TypeOK, Records
<1> USE <1>0 DEF Records
<1>1. ASSUME Boot PROVE Records'
  <2>1. store.cook_id \in CookIds /\ 0 \in CookIds
    BY CookAssumption, SMT DEF Control, CookIds
  <2>2. (IF metrics = NoMetrics THEN 0 ELSE store.cook_id) \in CookIds
    BY <2>1
  <2> QED BY <1>1, <2>2, BootControlType DEF Boot
<1>2. CASE CleanUp
  BY <1>2 DEF CleanUp, locals
<1>3. CASE Restart
  BY <1>1, <1>3 DEF Restart
<1>4. CASE Faults
  <2>1. CASE IdleGap
    BY <2>1 DEF IdleGap, locals
  <2>2. CASE CycleGap
    <3>1. [work EXCEPT !.manual = "none"] \in Control
      BY Zenon DEF Control
    <3> QED BY <2>2, <3>1, Zenon DEF CycleGap, locals
  <2>3. CASE CycleRaises
    BY <2>3 DEF CycleRaises, locals
  <2>4. CASE Kill
    BY <2>4 DEF Kill, locals
  <2>5. CASE HostHalts
    BY <2>5 DEF HostHalts, locals
  <2>6. CASE PowerUp
    BY <1>1, <2>6 DEF PowerUp
  <2>7. CASE Watchdog
    <3>1. Authoritative(store, "Error") \in Control
      BY AuthoritativeType DEF Modes
    <3>2. [Authoritative(store, "Error") EXCEPT !.critical_error = TRUE]
            \in Control
      BY <3>1, Zenon DEF Control
    <3> QED BY <2>7, <3>2, Zenon DEF Watchdog, locals
  <2> QED BY <1>4, <2>1, <2>2, <2>3, <2>4, <2>5, <2>6, <2>7 DEF Faults
<1>5. CASE Requested
  BY <1>5 DEF Requested, Enqueue, RequestClear, FlipSwitch, locals
<1> QED BY <1>2, <1>3, <1>4, <1>5

\* Every step of the outer loop keeps the types.
LEMMA OuterTypes ==
  ASSUME TypeInv, Outer
  PROVE  TypeInv'
<1>r. Records'
  BY OuterRecords
<1>d. \A o \in [Devices -> BOOLEAN] : \A on, off :
        Drive(o, on, off) \in [Devices -> BOOLEAN]
  BY DriveType
<1>m. NoMetrics \in [cooked : BOOLEAN, last : Modes \cup {"none"}]
  BY DEF NoMetrics
<1>s. store.cook_id \in CookIds
  BY DEF TypeInv, TypeOK, Control
<1> USE DEF TypeInv, TypeOK, CycleHasKind, RecipeHasStep, InCycle, CyclePcs, Pcs,
            Returns, Records, locals, cycle, session, Goto, DrainThen, Drained
<1>1. CASE IdleTripped
  <2>1. stampOk' \in BOOLEAN
    BY <1>1 DEF IdleTripped
  <2>2. UNCHANGED <<queue, switch, kind, step, seen, cycle, out, session,
                    host, budget, ret>>
        /\ pc' = "tick"
    BY <1>1 DEF IdleTripped
  <2> QED BY <2>1, <2>2, <1>r, SMT
<1>2. CASE BeginTick
  BY <1>2, <1>r, <1>d, <1>m, <1>s, SMT DEF BeginTick
<1>3. CASE ApplyHead
  BY <1>3, <1>r, <1>d, <1>m, <1>s, SMT DEF ApplyHead
<1>4. CASE PollControl
  <2>1. /\ metrics' \in [cooked : BOOLEAN, last : Modes \cup {"none"}]
        /\ retired' \in CookIds
        /\ clear' \in BOOLEAN
    BY <1>4, <1>m, <1>s, Zenon DEF PollControl, Retire
  <2>2. UNCHANGED <<queue, switch, kind, step, seen, cycle, stampOk, out,
                    host, budget, ret>>
        /\ pc' = "dispatch"
    BY <1>4 DEF PollControl
  <2> QED BY <2>1, <2>2, <1>r, SMT
<1>5. CASE NoDispatch
  BY <1>5, <1>r, <1>d, <1>m, <1>s, SMT DEF NoDispatch
<1>6. CASE DispatchTerminal
  BY <1>6, <1>r, <1>d, <1>m, <1>s, SMT DEF DispatchTerminal, Retire
<1>7. CASE Archive
  <2>1. /\ metrics' \in [cooked : BOOLEAN, last : Modes \cup {"none"}]
        /\ retired' \in CookIds
    <3>1. \A m \in [cooked : BOOLEAN, last : Modes \cup {"none"}] :
            [m EXCEPT !.last = "Stop"] \in [cooked : BOOLEAN, last : Modes
               \cup {"none"}]
      BY Zenon DEF Modes
    <3> QED BY <1>7, <1>m, <1>s, <3>1, Zenon DEF Archive, Retire
  <2>2. out' \in [Devices -> BOOLEAN]
    BY <1>7, <1>d, Zenon DEF Archive
  <2>3. UNCHANGED <<clear, switch, kind, step, seen, cycle, stampOk, host,
                    budget, ret>>
        /\ pc' = "tick" /\ queue' = <<>>
    BY <1>7 DEF Archive
  <2> QED BY <2>1, <2>2, <2>3, <1>r, SMT
<1>8. CASE DispatchPlain
  <2>1. kind' \in {"Prime", "Smoke", "Hold", "Manual", "Shutdown", "Monitor",
     "Reignite"}
    BY <1>8, Zenon DEF DispatchPlain, StartCycle
  <2>2. UNCHANGED <<queue, switch, step, seen, cycle, stampOk, out, session,
                    host, budget, ret>>
        /\ pc' = "enter"
    BY <1>8, Zenon DEF DispatchPlain, StartCycle
  <2> QED BY <2>1, <2>2, <1>r, SMT DEF Kinds, Modes
<1>9. CASE DispatchStartup
  <2>1. kind' \in {"Startup", "startupPrime"}
    BY <1>9, Zenon DEF DispatchStartup, StartCycle
  <2>2. UNCHANGED <<queue, clear, switch, step, seen, cycle, stampOk, out,
                    host, budget, ret>>
        /\ pc' = "enter"
    BY <1>9, Zenon DEF DispatchStartup, StartCycle
  <2>3. /\ metrics' \in [cooked : BOOLEAN, last : Modes \cup {"none"}]
        /\ retired' \in CookIds
    BY <1>9, <1>m, <1>s, Zenon DEF DispatchStartup, Retire
  <2> QED BY <2>1, <2>2, <2>3, <1>r, SMT DEF Kinds, Modes
<1>10. CASE DispatchRecipe
  BY <1>10, <1>r, <1>d, <1>m, <1>s, SMT DEF DispatchRecipe, StartStep,
     EndRecipe, Kinds
<1>11. CASE PostIdle
  BY <1>11, <1>r, <1>d, <1>m, <1>s, SMT DEF PostIdle
<1>12. CASE NextMode
  BY <1>12, <1>r, <1>d, <1>m, <1>s, SMT DEF NextMode, AfterNatural
<1>13. CASE NaturalReady
  BY <1>13, <1>r, <1>d, <1>m, <1>s, SMT DEF NaturalReady, AfterNatural
<1>14. CASE ShutdownEnd
  BY <1>14, <1>r, <1>d, <1>m, <1>s, SMT DEF ShutdownEnd
<1>15. CASE PostStartupPrime
  <2>1. /\ UNCHANGED <<queue, switch, step, seen, cycle, stampOk, out,
                       session, host, budget, ret>>
        /\ \/ kind' = "Startup" /\ pc' = "enter"
           \/ kind' = kind /\ pc' = "tick"
    BY <1>15, Zenon DEF PostStartupPrime, StartCycle
  <2> QED BY <2>1, <1>r, SMT DEF Kinds, Modes
<1>16. CASE PostStep
  BY <1>16, <1>r, <1>d, <1>m, <1>s, SMT DEF PostStep
<1>17. CASE RecipeNext
  BY <1>17, <1>r, <1>d, <1>m, <1>s, SMT DEF RecipeNext, StartStep, EndRecipe,
     Kinds
<1>18. CASE PostRecipeReignite
  BY <1>18, <1>r, <1>d, <1>m, <1>s, SMT DEF PostRecipeReignite, Kinds
<1> QED BY <1>1, <1>2, <1>3, <1>4, <1>5, <1>6, <1>7, <1>8, <1>9, <1>10, <1>11,
   <1>12, <1>13, <1>14, <1>15, <1>16, <1>17, <1>18 DEF Outer

\* Every step of a work cycle keeps the types.
LEMMA CycleTypes ==
  ASSUME TypeInv, WorkCycle
  PROVE  TypeInv'
<1>r. Records'
  BY CycleRecords
<1>d. \A o \in [Devices -> BOOLEAN] : \A on, off :
        Drive(o, on, off) \in [Devices -> BOOLEAN]
  BY DriveType
<1>o. AllOff \in [Devices -> BOOLEAN]
  BY AllOffType
<1>k. pc \in CyclePcs => CycleMode \in Modes
  BY CycleModeType DEF TypeInv, CycleHasKind, InCycle
<1>l. pc = "drain" /\ ret = "loop" => CycleMode \in Modes
  BY CycleModeType DEF TypeInv, CycleHasKind, InCycle
<1>f. \A c, below, o : FlameoutTrip(c, below, o) =>
        /\ out' \in {o, AllOff}
        /\ pc' \in {"finish", "crash"}
        /\ ret' = ret
  BY DEF FlameoutTrip, EndWith, Kept, Raise, Goto
<1> USE DEF TypeInv, TypeOK, CycleHasKind, RecipeHasStep, InCycle, CyclePcs, Pcs,
            Returns, Records, locals, cycle, session, Goto, DrainThen, Drained
<1>1. CASE EnterCycle
  <2>1. out' \in [Devices -> BOOLEAN]
    <3> DEFINE off == Drive(out, {}, {"auger", "igniter"})
    <3>1. off \in [Devices -> BOOLEAN]
      BY <1>d
    <3>2. out' = off \/ out' = Drive(off, {}, {"fan", "power"})
      BY <1>1, Zenon DEF EnterCycle
    <3> HIDE DEF off
    <3> QED BY <1>d, <3>1, <3>2
  <2>2. /\ UNCHANGED <<queue, switch, kind, step, seen, setupDone, discont,
                       session, host, budget, ret>>
        /\ pc' \in {"setup", "finish"}
        /\ cycSeen' = switch /\ stampOk' = TRUE
    BY <1>1, Zenon DEF EnterCycle, EndWith
  <2> QED BY <1>1, <2>1, <2>2, <1>r, SMT DEF EnterCycle
<1>2. CASE SetupCycle
  <2>1. out' \in [Devices -> BOOLEAN]
    BY <1>2, <1>d, Zenon DEF SetupCycle, SetupOutputs
  <2> QED BY <1>2, <2>1, <1>r, SMT DEF SetupCycle
<1>3. CASE StampCycle
  <2>1. metrics' \in [cooked : BOOLEAN, last : Modes \cup {"none"}]
    <3>1. CycleMode \in Modes
      BY <1>3, <1>k DEF StampCycle
    <3>2. metrics.cooked \in BOOLEAN
      OBVIOUS
    <3> QED BY <1>3, <3>1, <3>2, Zenon DEF StampCycle, Stamped
  <2>2. out' \in [Devices -> BOOLEAN]
    <3>1. out' = out \/ \E c, below : FlameoutTrip(c, below, out)
      BY <1>3, Zenon DEF StampCycle
    <3> QED BY <3>1, <1>o, <1>f
  <2>3. budget' \in [Events -> Nat]
    <3>1. budget' = budget \/ Spend("build")
      BY <1>3, Zenon DEF StampCycle
    <3> QED BY <3>1, SpendType, SMT DEF Events
  <2>4. /\ UNCHANGED <<queue, clear, switch, kind, step, seen, cycle, stampOk,
                       retired, host, ret>>
        /\ pc' \in {"finish", "loop", "crash"} /\ pc = "stamp"
    BY <1>3, <1>f, Zenon DEF StampCycle, EndWith
  <2> QED BY <2>1, <2>2, <2>3, <2>4, <1>r, SMT
<1>4. CASE CycleTripped
  BY <1>4, <1>r, SMT DEF CycleTripped, EndWith
<1>5. CASE BeginLoop
  BY <1>5, <1>r, SMT DEF BeginLoop
<1>6. CASE LoopReady
  <2>1. EnsureCookId(store).cook_id \in CookIds
    BY EnsureCookIdType DEF Control
  <2>2. /\ metrics' \in [cooked : BOOLEAN, last : Modes \cup {"none"}]
        /\ retired' \in CookIds
        /\ clear' \in BOOLEAN
    <3>1. CycleMode \in Modes
      BY <1>6, <1>l DEF LoopReady
    <3>2. NoMetrics.cooked \in BOOLEAN
      BY DEF NoMetrics
    <3>3. Stamped(NoMetrics, CycleMode)
            \in [cooked : BOOLEAN, last : Modes \cup {"none"}]
      BY <3>1, <3>2, Zenon DEF Stamped
    <3>4. CASE clear
      <4>1. /\ metrics' = Stamped(NoMetrics, CycleMode)
            /\ Retire(EnsureCookId(store).cook_id)
            /\ clear' = FALSE
        BY <1>6, <3>4, Zenon DEF LoopReady
      <4> QED BY <4>1, <3>3, <2>1, Zenon DEF Retire
    <3>5. CASE ~ clear
      BY <1>6, <3>5, Zenon DEF LoopReady
    <3> QED BY <3>4, <3>5
  <2>3. cycSeen' \in {cycSeen, switch}
    BY <1>6, Zenon DEF LoopReady
  <2>4. /\ UNCHANGED <<queue, switch, kind, step, seen, setupDone, discont,
                       stampOk, out, host, budget, ret>>
        /\ pc' \in {"finish", "sense"} /\ pc = "drain" /\ ret = "loop"
    BY <1>6, Zenon DEF LoopReady, EndWith, Continue
  <2> QED BY <2>2, <2>3, <2>4, <1>r, SMT
<1>7. CASE Sense
  <2>1. ASSUME NEW on \in BOOLEAN
        PROVE  [d \in Devices |-> IF d \in Overridden THEN on ELSE out[d]]
                  \in [Devices -> BOOLEAN]
    BY Zenon
  <2>2. out' \in [Devices -> BOOLEAN]
    <3>1. \/ out' = out
          \/ \E on \in BOOLEAN :
               LET moved == [d \in Devices |-> IF d \in Overridden THEN on
                  ELSE out[d]]
               IN out' = moved \/ \E c, low : FlameoutTrip(c, low, moved)
      BY <1>7, Zenon DEF Sense
    <3>2. CASE out' = out
      BY <3>2
    <3>3. CASE ~ (out' = out)
      <4>1. PICK on \in BOOLEAN :
              \/ out' = [d \in Devices |->
                           IF d \in Overridden THEN on ELSE out[d]]
              \/ \E c, low : FlameoutTrip(c, low,
                    [d \in Devices |-> IF d \in Overridden THEN on ELSE out[d]])
        BY <3>1, <3>3
      <4> DEFINE moved == [d \in Devices |->
                             IF d \in Overridden THEN on ELSE out[d]]
      <4>2. moved \in [Devices -> BOOLEAN]
        BY <2>1
      <4>3. out' = moved \/ \E c, low : FlameoutTrip(c, low, moved)
        BY <4>1
      <4> HIDE DEF moved
      <4> QED BY <4>2, <4>3, <1>o, <1>f
    <3> QED BY <3>2, <3>3
  <2>3. /\ UNCHANGED <<queue, switch, kind, step, seen, cycle, stampOk,
                       session, host, budget, ret>>
        /\ pc' \in {"finish", "act", "crash"} /\ pc = "sense"
    BY <1>7, <1>f, Zenon DEF Sense, EndWith
  <2> QED BY <2>2, <2>3, <1>r, SMT
<1>8. CASE Act
  <2>1. out' \in [Devices -> BOOLEAN]
    <3>1. \A auger, fan \in BOOLEAN : Ticked(auger, fan) \in [Devices -> BOOLEAN]
      BY SMT DEF Devices, Ticked
    <3> QED BY <1>8, <3>1, Zenon DEF Act
  <2>2. /\ UNCHANGED <<queue, switch, kind, step, seen, cycle, stampOk,
                       session, host, budget, ret>>
        /\ pc' \in {"finish", "loop"} /\ pc = "act"
    BY <1>8, Zenon DEF Act
  <2> QED BY <2>1, <2>2, <1>r, SMT
<1>9. CASE Finish
  <2>1. out' \in [Devices -> BOOLEAN]
    BY <1>9, <1>d, Zenon DEF Finish
  <2>2. /\ UNCHANGED <<queue, switch, kind, step, seen, cycSeen, session,
                       host, budget, ret>>
        /\ pc' = "post" /\ pc = "finish"
        /\ stampOk' = (stampOk /\ ~ discont)
        /\ setupDone' = FALSE /\ discont' = FALSE
    BY <1>9 DEF Finish
  <2>3. stampOk' \in BOOLEAN /\ setupDone' \in BOOLEAN /\ discont' \in BOOLEAN
    BY <2>2, Zenon
  <2> QED BY <2>1, <2>2, <2>3, <1>r, SMT
<1> QED BY <1>1, <1>2, <1>3, <1>4, <1>5, <1>6, <1>7, <1>8, <1>9 DEF WorkCycle

\* So does every step of the environment, a crash and a restart.
LEMMA OtherTypes ==
  ASSUME TypeInv, CleanUp \/ Restart \/ Faults \/ Requested
  PROVE  TypeInv'
<1>r. Records'
  BY OtherRecords
<1>o. AllOff \in [Devices -> BOOLEAN]
  BY AllOffType
<1> USE DEF TypeInv, TypeOK, CycleHasKind, RecipeHasStep, InCycle, CyclePcs, Pcs,
            Returns, Records, locals, cycle, session, Goto, DrainThen, Drained
<1>b. ASSUME Boot, host' = "up" PROVE TypeInv'
  <2>1. /\ {seen', setupDone', discont', stampOk'} \subseteq BOOLEAN
        /\ queue' = <<>> /\ out' = AllOff /\ kind' = "idle" /\ pc' = "tick"
        /\ UNCHANGED <<ret, switch, step, cycSeen, session, budget>>
    BY <1>b, Zenon DEF Boot
  <2> QED BY <1>b, <2>1, <1>r, <1>o, SMT DEF Kinds
<1>1. CASE CleanUp
  BY <1>1, <1>r, <1>o, SMT DEF CleanUp
<1>2. CASE Restart
  BY <1>2, <1>b DEF Restart
<1>3. CASE IdleGap
  <2>1. budget' \in [Events -> Nat]
    BY <1>3, SpendType, SMT DEF IdleGap, Events
  <2> QED BY <1>3, <1>r, <1>o, <2>1, SMT DEF IdleGap
<1>4. CASE CycleGap
  <2>1. budget' \in [Events -> Nat]
    BY <1>4, SpendType, SMT DEF CycleGap, Events
  <2> QED BY <1>4, <1>r, <1>o, <2>1, SMT DEF CycleGap, GapOutputs
<1>5. CASE CycleRaises
  <2>1. budget' \in [Events -> Nat]
    BY <1>5, SpendType, SMT DEF CycleRaises, Events
  <2> QED BY <1>5, <1>r, <1>o, <2>1, SMT DEF CycleRaises, Raise
<1>6. CASE Kill
  <2>1. budget' \in [Events -> Nat]
    BY <1>6, SpendType, SMT DEF Kill, Events
  <2> QED BY <1>6, <1>r, <2>1, SMT DEF Kill
<1>7. CASE HostHalts
  BY <1>7, <1>r, SMT DEF HostHalts
<1>8. CASE PowerUp
  BY <1>8, <1>b DEF PowerUp
<1>9. CASE Watchdog
  <2>1. budget' \in [Events -> Nat]
    BY <1>9, SpendType, SMT DEF Watchdog, Events
  <2>2. host' \in {"restarting", host}
    BY <1>9 DEF Watchdog
  <2> QED BY <1>9, <1>r, <2>1, <2>2, SMT DEF Watchdog
<1>10. CASE Requested
  <2>1. budget' \in [Events -> Nat]
    BY <1>10, SpendType, SMT DEF Requested, Enqueue, RequestClear, FlipSwitch,
       Events
  <2>2. queue' \in Seq(Requests)
    <3>1. queue' = queue \/ \E d \in Requests : queue' = Append(queue, d)
      BY <1>10, Zenon DEF Requested, Enqueue, RequestClear, FlipSwitch
    <3>2. queue \in Seq(Requests)
      OBVIOUS
    <3> HIDE DEF TypeInv
    <3> QED BY <3>1, <3>2, SMT
  <2>3. switch' \in BOOLEAN /\ clear' \in BOOLEAN
    BY <1>10, Zenon DEF Requested, Enqueue, RequestClear, FlipSwitch
  <2>4. UNCHANGED <<pc, ret, kind, step, seen, cycle, stampOk, out, metrics,
                    retired, host>>
    BY <1>10, Zenon DEF Requested, Enqueue, RequestClear, FlipSwitch
  <2> QED BY <1>r, <2>1, <2>2, <2>3, <2>4, SMT
<1> QED BY <1>1, <1>2, <1>3, <1>4, <1>5, <1>6, <1>7, <1>8, <1>9, <1>10 DEF Faults

\* The program starts typed.
LEMMA TypeInvInit == Init => TypeInv
<1> SUFFICES ASSUME Init PROVE TypeInv
  OBVIOUS
<1>1. BootControl(0) \in Control
  BY BootControlType, CookAssumption, SMT DEF CookIds
<1>2. 0 \in CookIds
  BY CookAssumption, SMT DEF CookIds
<1>3. NoMetrics \in [cooked : BOOLEAN, last : Modes \cup {"none"}]
  BY DEF NoMetrics
<1>4. /\ {switch, seen, cycSeen, setupDone, discont, stampOk, clear}
           \subseteq BOOLEAN
      /\ pc = "tick" /\ ret = "tick" /\ kind = "idle" /\ step = 1
      /\ queue = <<>> /\ host = "up"
      /\ budget = Budget
      /\ out = AllOff /\ metrics = NoMetrics /\ retired = 0
      /\ store = BootControl(0) /\ mem = store /\ work = store
  BY Zenon DEF Init
<1>5. 1 \in 1 .. Len(RecipeSteps) + 1
  BY LoopAssumption, SMT
<1>6. budget \in [Events -> Nat]
  BY <1>4, LoopAssumption
<1> HIDE DEF Init
<1> QED BY <1>1, <1>2, <1>3, <1>4, <1>5, <1>6, AllOffType, SMT
       DEF TypeInv, TypeOK, CycleHasKind, RecipeHasStep, InCycle, CyclePcs, Pcs,
           Returns, Kinds

\* Every step, of the process or of its environment, keeps the types.
LEMMA TypeInvStep == TypeInv /\ [Next]_vars => TypeInv'
<1> SUFFICES ASSUME TypeInv, [Next]_vars PROVE TypeInv'
  OBVIOUS
<1>1. CASE UNCHANGED vars
  BY <1>1 DEF vars, TypeInv, TypeOK, CycleHasKind, RecipeHasStep, InCycle
<1>2. CASE Next
  BY <1>2, OuterTypes, CycleTypes, OtherTypes DEF Next
<1> QED BY <1>1, <1>2

\* The inductive form of type correctness, for the proofs that follow.
LEMMA TypeInvAlways == Spec => []TypeInv
BY TypeInvInit, TypeInvStep, PTL DEF Spec

\* The control record, wherever a copy of it lives, and the process's own state
\* keep their types.
THEOREM TypeCorrect == Spec => []TypeOK
<1>1. TypeInv => TypeOK
  BY DEF TypeInv
<1> QED BY <1>1, TypeInvAlways, PTL

-----------------------------------------------------------------------------
(* The heaters *)

\* What the operators on outputs leave off.
LEMMA DriveHeatersOff ==
  ASSUME NEW o, NEW on, NEW off, {"auger", "igniter"} \cap on = {},
         {"auger", "igniter"} \subseteq off
  PROVE  ~ Drive(o, on, off)["auger"] /\ ~ Drive(o, on, off)["igniter"]
<1>1. "auger" \in Devices /\ "igniter" \in Devices
  BY DEF Devices
<1> QED BY <1>1, Zenon DEF Drive

LEMMA DriveHeatersKept ==
  ASSUME NEW o, NEW on, NEW off, {"auger", "igniter"} \cap on = {},
         ~ o["auger"] /\ ~ o["igniter"]
  PROVE  ~ Drive(o, on, off)["auger"] /\ ~ Drive(o, on, off)["igniter"]
<1>1. "auger" \in Devices /\ "igniter" \in Devices
  BY DEF Devices
<1> QED BY <1>1, Zenon DEF Drive

LEMMA AllOffHeatersOff == ~ AllOff["auger"] /\ ~ AllOff["igniter"]
<1>1. "auger" \in Devices /\ "igniter" \in Devices
  BY DEF Devices
<1> QED BY <1>1, Zenon DEF AllOff

-----------------------------------------------------------------------------
(* The heaters are driven only inside a work cycle.  What makes this       *)
(* inductive: only a cycle whose setup() ran reaches its loop, and such a  *)
(* cycle is left only through _finish_cycle.                               *)

SetUpInLoop ==
  pc \in {"stamp", "loop", "sense", "act"} \/ (pc = "drain" /\ ret = "loop")
    => setupDone
SetupEndsWithCycle == setupDone => InCycle \/ pc \in {"crash", "down"}
HeatNeedsSetup == Heat => setupDone \/ pc = "down"
ColdCrash == pc = "crash" => ~ Heat

HeatInv == SetUpInLoop /\ SetupEndsWithCycle /\ HeatNeedsSetup /\ ColdCrash

\* The outer loop drives no heater and runs outside every set-up cycle.
LEMMA OuterHeat ==
  ASSUME HeatInv, Outer
  PROVE  HeatInv'
<1> USE DEF HeatInv, SetUpInLoop, SetupEndsWithCycle, HeatNeedsSetup, ColdCrash,
            Heat, InCycle, CyclePcs, cycle, locals, session, Goto, DrainThen,
            Drained
<1>1. CASE IdleTripped
  BY <1>1, Zenon DEF IdleTripped
<1>2. CASE BeginTick
  BY <1>2, Zenon DEF BeginTick
<1>3. CASE ApplyHead
  BY <1>3, Zenon DEF ApplyHead
<1>4. CASE PollControl
  BY <1>4, Zenon DEF PollControl
<1>5. CASE NoDispatch
  BY <1>5, Zenon DEF NoDispatch
<1>6. CASE DispatchTerminal
  <2>1. ~ Heat'
    BY <1>6, DriveHeatersOff DEF DispatchTerminal
  <2>2. pc' = "archive" /\ UNCHANGED setupDone
    BY <1>6 DEF DispatchTerminal
  <2> QED BY <1>6, <2>1, <2>2 DEF DispatchTerminal
<1>7. CASE Archive
  <2>1. ~ Heat => ~ Heat'
    BY <1>7, DriveHeatersKept DEF Archive
  <2>2. pc' = "tick" /\ UNCHANGED setupDone
    BY <1>7 DEF Archive
  <2> QED BY <1>7, <2>1, <2>2 DEF Archive
<1>8. CASE DispatchPlain
  <2>1. /\ pc = "dispatch" /\ pc' \in {"enter", "tick"}
        /\ UNCHANGED <<out, setupDone>>
    BY <1>8, Zenon DEF DispatchPlain, StartCycle, Dispatching
  <2> QED BY <2>1, SMT
<1>9. CASE DispatchStartup
  <2>1. /\ pc = "dispatch" /\ pc' \in {"enter", "tick"}
        /\ UNCHANGED <<out, setupDone>>
    BY <1>9, Zenon DEF DispatchStartup, StartCycle, Dispatching
  <2> QED BY <2>1, SMT
<1>10. CASE DispatchRecipe
  <2>1. /\ pc = "dispatch" /\ pc' \in {"enter", "tick"}
        /\ UNCHANGED <<out, setupDone>>
    BY <1>10, Zenon DEF DispatchRecipe, StartStep, EndRecipe, Dispatching
  <2> QED BY <2>1, SMT
<1>11. CASE PostIdle
  BY <1>11, Zenon DEF PostIdle
<1>12. CASE NextMode
  BY <1>12, Zenon DEF NextMode, AfterNatural
<1>13. CASE NaturalReady
  BY <1>13, Zenon DEF NaturalReady, AfterNatural
<1>14. CASE ShutdownEnd
  BY <1>14, Zenon DEF ShutdownEnd
<1>15. CASE PostStartupPrime
  BY <1>15, Zenon DEF PostStartupPrime, StartCycle
<1>16. CASE PostStep
  BY <1>16, Zenon DEF PostStep
<1>17. CASE RecipeNext
  BY <1>17, Zenon DEF RecipeNext, StartStep, EndRecipe
<1>18. CASE PostRecipeReignite
  BY <1>18, Zenon DEF PostRecipeReignite
<1> QED BY <1>1, <1>2, <1>3, <1>4, <1>5, <1>6, <1>7, <1>8, <1>9, <1>10, <1>11,
           <1>12, <1>13, <1>14, <1>15, <1>16, <1>17, <1>18 DEF Outer

\* A work cycle drives heaters only between its setup() and its teardown.
LEMMA CycleHeat ==
  ASSUME HeatInv, WorkCycle
  PROVE  HeatInv'
<1>f. \A c, below, o : FlameoutTrip(c, below, o) =>
        \/ out' = o /\ pc' = "finish"
        \/ out' = AllOff /\ pc' = "crash"
  BY DEF FlameoutTrip, EndWith, Kept, Raise, Goto
<1> USE DEF HeatInv, SetUpInLoop, SetupEndsWithCycle, HeatNeedsSetup, ColdCrash,
            Heat, InCycle, CyclePcs, cycle, locals, session, Goto, DrainThen,
            Drained
<1>1. CASE EnterCycle
  <2> DEFINE off == Drive(out, {}, {"auger", "igniter"})
  <2>1. ~ off["auger"] /\ ~ off["igniter"]
    BY DriveHeatersOff
  <2>2. out' = off \/ out' = Drive(off, {}, {"fan", "power"})
    BY <1>1, Zenon DEF EnterCycle
  <2> HIDE DEF off
  <2>3. ~ Heat'
    BY <2>1, <2>2, DriveHeatersKept
  <2>4. pc = "enter" /\ pc' \in {"setup", "finish"} /\ UNCHANGED setupDone
    BY <1>1, Zenon DEF EnterCycle, EndWith
  <2> QED BY <2>3, <2>4
<1>2. CASE SetupCycle
  BY <1>2, Zenon DEF SetupCycle
<1>3. CASE StampCycle
  <2>1. /\ pc = "stamp" /\ UNCHANGED setupDone
        /\ \/ out' = out /\ pc' \in {"finish", "loop"}
           \/ out' = AllOff /\ pc' = "crash"
    <3>1. \/ out' = out /\ pc' \in {"finish", "loop"}
          \/ \E c, below : FlameoutTrip(c, below, out)
      BY <1>3, Zenon DEF StampCycle, EndWith
    <3> QED BY <1>3, <1>f, <3>1 DEF StampCycle
  <2> QED BY <2>1, AllOffHeatersOff, Zenon
<1>4. CASE CycleTripped
  BY <1>4, Zenon DEF CycleTripped, EndWith
<1>5. CASE BeginLoop
  BY <1>5, Zenon DEF BeginLoop
<1>6. CASE LoopReady
  <2>1. /\ pc = "drain" /\ ret = "loop" /\ pc' \in {"finish", "sense"}
        /\ UNCHANGED <<out, setupDone>>
    BY <1>6, Zenon DEF LoopReady, EndWith, Continue
  <2> QED BY <2>1, Zenon
<1>7. CASE Sense
  <2>1. /\ pc = "sense" /\ UNCHANGED setupDone
        /\ \/ pc' \in {"finish", "act"}
           \/ out' = AllOff /\ pc' = "crash"
    <3>1. \/ pc' \in {"finish", "act"}
          \/ \E c, below, o : FlameoutTrip(c, below, o)
      BY <1>7, Zenon DEF Sense, EndWith
    <3> QED BY <1>7, <1>f, <3>1 DEF Sense
  <2> QED BY <2>1, AllOffHeatersOff, Zenon
<1>8. CASE Act
  <2>1. pc = "act" /\ pc' \in {"finish", "loop"} /\ UNCHANGED setupDone
    BY <1>8, Zenon DEF Act
  <2> QED BY <2>1, Zenon
<1>9. CASE Finish
  <2>1. ~ Heat'
    <3>1. CASE setupDone
      <4>1. out' = Drive(out, {}, TornDown)
        BY <1>9, <3>1 DEF Finish
      <4>2. {"auger", "igniter"} \subseteq TornDown
        BY DEF TornDown, Devices
      <4> QED BY <4>1, <4>2, DriveHeatersOff
    <3>2. CASE ~ setupDone
      BY <1>9, <3>2 DEF Finish
    <3> QED BY <3>1, <3>2
  <2>2. pc' = "post" /\ ~ setupDone'
    BY <1>9 DEF Finish
  <2> QED BY <2>1, <2>2, Zenon
<1> QED BY <1>1, <1>2, <1>3, <1>4, <1>5, <1>6, <1>7, <1>8, <1>9 DEF WorkCycle

\* A lost clock and an exception turn the heaters off; only a kill leaves them.
LEMMA OtherHeat ==
  ASSUME HeatInv, CleanUp \/ Restart \/ Faults \/ Requested
  PROVE  HeatInv'
<1> USE AllOffHeatersOff
    DEF HeatInv, SetUpInLoop, SetupEndsWithCycle, HeatNeedsSetup, ColdCrash,
        Heat, InCycle, CyclePcs, cycle, locals, session, Goto, DrainThen, Drained
<1>b. ASSUME Boot PROVE HeatInv'
  BY <1>b, Zenon DEF Boot
<1>1. CASE CleanUp
  BY <1>1, Zenon DEF CleanUp
<1>2. CASE Restart
  BY <1>2, <1>b DEF Restart
<1>3. CASE IdleGap
  BY <1>3, Zenon DEF IdleGap
<1>4. CASE CycleGap
  BY <1>4, Zenon DEF CycleGap, GapOutputs
<1>5. CASE CycleRaises
  BY <1>5, Zenon DEF CycleRaises, Raise
<1>6. CASE Kill
  BY <1>6, Zenon DEF Kill
<1>7. CASE HostHalts
  BY <1>7, Zenon DEF HostHalts
<1>8. CASE PowerUp
  BY <1>8, <1>b DEF PowerUp
<1>9. CASE Watchdog
  BY <1>9, Zenon DEF Watchdog
<1>10. CASE Requested
  <2>1. UNCHANGED <<pc, ret, setupDone, out>>
    BY <1>10, Zenon DEF Requested, Enqueue, RequestClear, FlipSwitch
  <2> QED BY <2>1, Zenon
<1> QED BY <1>1, <1>2, <1>3, <1>4, <1>5, <1>6, <1>7, <1>8, <1>9, <1>10 DEF Faults

\* The inductive form of HeatOnlyInCycle.
LEMMA HeatInvAlways == Spec => []HeatInv
<1>1. Init => HeatInv
  BY AllOffHeatersOff
     DEF Init, HeatInv, SetUpInLoop, SetupEndsWithCycle, HeatNeedsSetup,
         ColdCrash, Heat, InCycle, CyclePcs
<1>2. HeatInv /\ [Next]_vars => HeatInv'
  <2>1. ASSUME HeatInv, UNCHANGED vars PROVE HeatInv'
    BY <2>1 DEF vars, HeatInv, SetUpInLoop, SetupEndsWithCycle, HeatNeedsSetup,
                ColdCrash, Heat, InCycle, CyclePcs
  <2>2. ASSUME HeatInv, Next PROVE HeatInv'
    BY <2>2, OuterHeat, CycleHeat, OtherHeat DEF Next
  <2> QED BY <2>1, <2>2
<1> QED BY <1>1, <1>2, PTL DEF Spec

\* The auger and the igniter are driven only inside a work cycle whose setup()
\* ran, on every way out of it; only a killed process leaves them as they were.
THEOREM HeatersOffOutsideCycle == Spec => []HeatOnlyInCycle
<1>1. HeatInv => HeatOnlyInCycle
  BY DEF HeatInv, SetupEndsWithCycle, HeatNeedsSetup, ColdCrash, HeatOnlyInCycle,
         InCycle, CyclePcs
<1> QED BY <1>1, HeatInvAlways, PTL

-----------------------------------------------------------------------------
(* After a lost clock nothing is driven until the next dispatch: a cycle   *)
(* that lost its clock can only drain, be retired and be torn down.        *)

GapInv ==
  discont => /\ out = AllOff
             /\ \/ pc \in {"finish", "crash", "down"}
                \/ pc = "drain" /\ ret = "cycleTrip"

\* No step of the outer loop runs while a cycle's clock is lost, but the drain.
LEMMA OuterGap ==
  ASSUME GapInv, Outer
  PROVE  GapInv'
<1> USE DEF GapInv, Goto, DrainThen, Drained, cycle, locals, session
<1>1. CASE ApplyHead
  BY <1>1, Zenon DEF ApplyHead
<1>2. CASE ~ ApplyHead
  <2>1. ~ discont
    BY <1>2, Zenon DEF Outer, IdleTripped, BeginTick, PollControl, NoDispatch,
       DispatchTerminal, Archive, DispatchPlain, DispatchStartup, DispatchRecipe,
       Dispatching, PostIdle, NextMode, NaturalReady, ShutdownEnd,
       PostStartupPrime, PostStep, RecipeNext, PostRecipeReignite
  <2>2. UNCHANGED discont
    BY <1>2, Zenon DEF Outer, IdleTripped, BeginTick, PollControl, NoDispatch,
       DispatchTerminal, Archive, DispatchPlain, DispatchStartup, DispatchRecipe,
       PostIdle, NextMode, NaturalReady, ShutdownEnd,
       PostStartupPrime, PostStep, RecipeNext, PostRecipeReignite
  <2> QED BY <2>1, <2>2
<1> QED BY <1>1, <1>2

\* A cycle that lost its clock is retired and torn down, and drives nothing.
LEMMA CycleGapKept ==
  ASSUME GapInv, WorkCycle
  PROVE  GapInv'
<1> USE DEF GapInv, Goto, DrainThen, Drained, cycle, locals, session
<1>1. CASE CycleTripped
  BY <1>1, Zenon DEF CycleTripped, EndWith
<1>2. CASE Finish
  BY <1>2, Zenon DEF Finish
<1>3. CASE ~ CycleTripped /\ ~ Finish
  <2>1. ~ discont /\ UNCHANGED discont
    BY <1>3, Zenon DEF WorkCycle, EnterCycle, SetupCycle, StampCycle, BeginLoop,
       LoopReady, Sense, Act
  <2> QED BY <2>1
<1> QED BY <1>1, <1>2, <1>3

\* Losing the clock turns everything off, and nothing outside turns it on.
LEMMA OtherGap ==
  ASSUME GapInv, CleanUp \/ Restart \/ Faults \/ Requested
  PROVE  GapInv'
<1> USE DEF GapInv, Goto, DrainThen, Drained, cycle, locals, session
<1>1. CASE CleanUp
  BY <1>1, Zenon DEF CleanUp
<1>2. CASE Restart
  BY <1>2, Zenon DEF Restart, Boot
<1>3. CASE IdleGap
  BY <1>3, Zenon DEF IdleGap
<1>4. CASE CycleGap
  BY <1>4, Zenon DEF CycleGap, GapOutputs
<1>5. CASE CycleRaises
  BY <1>5, Zenon DEF CycleRaises, Raise
<1>6. CASE Kill
  BY <1>6, Zenon DEF Kill
<1>7. CASE HostHalts
  BY <1>7, Zenon DEF HostHalts
<1>8. CASE PowerUp
  BY <1>8, Zenon DEF PowerUp, Boot
<1>9. CASE Watchdog
  BY <1>9, Zenon DEF Watchdog
<1>10. CASE Requested
  <2>1. UNCHANGED <<pc, ret, discont, out>>
    BY <1>10, Zenon DEF Requested, Enqueue, RequestClear, FlipSwitch
  <2> QED BY <2>1, Zenon
<1> QED BY <1>1, <1>2, <1>3, <1>4, <1>5, <1>6, <1>7, <1>8, <1>9, <1>10 DEF Faults

\* After a lost clock nothing is driven until a mode is dispatched again.
THEOREM LostClockIsCold == Spec => []ColdAfterGap
<1>1. Init => GapInv
  BY DEF Init, GapInv
<1>2. GapInv /\ [Next]_vars => GapInv'
  <2>1. ASSUME GapInv, UNCHANGED vars PROVE GapInv'
    BY <2>1 DEF vars, GapInv
  <2>2. ASSUME GapInv, Next PROVE GapInv'
    BY <2>2, OuterGap, CycleGapKept, OtherGap DEF Next
  <2> QED BY <2>1, <2>2
<1>3. GapInv => ColdAfterGap
  BY DEF GapInv, ColdAfterGap
<1> QED BY <1>1, <1>2, <1>3, PTL DEF Spec

-----------------------------------------------------------------------------
(* A controller whose platform could not be built.  critical_error is in   *)
(* every copy of the record and nothing clears it: the dispatch admits     *)
(* only Stop, Error and Shutdown, and Shutdown drives no heater.           *)

\* No operation on the record clears a latched critical error.
LEMMA LatchKept ==
  ASSUME NEW c \in Control, c.critical_error
  PROVE  /\ \A m : Authoritative(c, m).critical_error
         /\ \A m, setpoint : Natural(c, m, setpoint).critical_error
         /\ \A d \in Deltas : ApplyDelta(c, d).critical_error
         /\ EnsureCookId(c).critical_error
         /\ FlushHistory(c).critical_error
         /\ ClockTrip(c).critical_error
         /\ \A cook : ResetControl(c, cook).critical_error
<1>a. \A m : Authoritative(c, m).critical_error
  BY Zenon DEF Authoritative, Control
<1>1. \A m, setpoint : Natural(c, m, setpoint).critical_error
  <2>1. SUFFICES ASSUME NEW m, NEW setpoint
                 PROVE  Natural(c, m, setpoint).critical_error
    OBVIOUS
  <2> QED BY Zenon DEF Natural, Authoritative, Control
<1>2. \A d \in Deltas : ApplyDelta(c, d).critical_error
  <2>1. SUFFICES ASSUME NEW d \in Deltas
                 PROVE  ApplyDelta(c, d).critical_error
    OBVIOUS
  <2>2. d.op \in {"mode", "hold", "prime", "psp", "units", "step", "manual"}
    BY SMT DEF Deltas
  <2> QED BY <2>2, Zenon DEF ApplyDelta, HoldSetSetpoint, Control
<1>3. EnsureCookId(c).critical_error /\ FlushHistory(c).critical_error
  BY Zenon DEF EnsureCookId, FlushHistory, Control
<1>4. ClockTrip(c).critical_error
  BY Zenon DEF ClockTrip, Authoritative, Control
<1>5. \A cook : ResetControl(c, cook).critical_error
  BY DefaultControlType, Zenon DEF ResetControl, Control
<1> QED BY <1>a, <1>1, <1>2, <1>3, <1>4, <1>5

LEMMA LatchFired ==
  ASSUME NEW c \in Control, c.critical_error, NEW f \in Fired(c)
  PROVE  f.critical_error
<1>1. f \in {NotifyShutdown(c), NotifyKeepWarm(c), NotifyReignite(c)}
  BY DEF Fired
<1> QED BY <1>1, Zenon
       DEF NotifyShutdown, NotifyKeepWarm, NotifyReignite, Control

LEMMA LatchNotified ==
  ASSUME NEW c \in Control, c.critical_error, NEW n \in Notified(c)
  PROVE  n.critical_error
BY LatchFired, FiredType DEF Notified

\* The dispatch takes a safe mode from a record with the latch set.
LEMMA TakenSafe ==
  ASSUME mem \in Control, mem.critical_error, Admits(mem)
  PROVE  Taken.critical_error /\ Taken.mode \in SafeModes
<1> DEFINE read == [mem EXCEPT !.updated = FALSE]
           c == IF read.units_change
                  THEN [read EXCEPT !.mode = "Stop", !.units_change = FALSE,
                                    !.cook_id = 0]
                  ELSE read
<1>2. /\ DOMAIN read = DOMAIN mem
      /\ read.critical_error /\ read.mode = mem.mode
  BY Zenon DEF Control
<1>3. {"mode", "critical_error", "status", "units_change", "cook_id"}
        \subseteq DOMAIN mem
  BY Zenon DEF Control
<1>4. mem.mode \in SafeModes /\ "Stop" \in SafeModes
  BY DEF Admits, SafeModes
<1> HIDE DEF read
<1>5. c.critical_error /\ c.mode \in SafeModes /\ DOMAIN c = DOMAIN mem
  BY <1>2, <1>3, <1>4, Zenon
<1> HIDE DEF c
<1>6. [c EXCEPT !.status = "active"].critical_error
      /\ [c EXCEPT !.status = "active"].mode = c.mode
  BY <1>3, <1>5, Zenon
<1> QED BY <1>5, <1>6, Zenon DEF Taken, c, read

LatchInv ==
  PlatformBroken =>
    /\ store.critical_error /\ mem.critical_error /\ work.critical_error
    /\ kind \in {"idle", "Shutdown"}
    /\ ~ Heat

\* The outer loop: with the latch set it dispatches Stop, Error and Shutdown.
LEMMA OuterLatch ==
  ASSUME PlatformBroken, TypeInv, LatchInv, Outer
  PROVE  LatchInv'
<1>0. /\ store \in Control /\ mem \in Control /\ work \in Control
      /\ queue \in Seq(Requests)
      /\ store.critical_error /\ mem.critical_error /\ work.critical_error
      /\ kind \in {"idle", "Shutdown"} /\ ~ out["auger"] /\ ~ out["igniter"]
  BY DEF TypeInv, TypeOK, LatchInv, Heat
<1>t. Admits(mem) =>
        Taken.critical_error /\ Taken.mode \in {"Stop", "Shutdown", "Error"}
  BY <1>0, TakenSafe DEF SafeModes
<1>p. /\ ~ (pc = "drain" /\ ret = "recipe")
      /\ kind \notin {"startupPrime", "recipe", "recipeReignite"}
  BY <1>0 DEF TypeInv, RecipeHasStep
<1>u. ASSUME UNCHANGED <<store, mem, work, kind, out>>
      PROVE  LatchInv'
  BY <1>0, <1>u DEF LatchInv, Heat
<1> USE DEF LatchInv, Heat, locals, Goto, DrainThen, Drained
<1>1. CASE IdleTripped
  BY <1>0, <1>1, LatchKept, Zenon DEF IdleTripped
<1>2. CASE BeginTick
  BY <1>0, <1>2, LatchKept, Zenon DEF BeginTick
<1>3. CASE ApplyHead
  <2>1. Head(queue) \in Deltas
    BY <1>0, <1>3, LoopAssumption, SMT DEF ApplyHead
  <2> QED BY <1>0, <1>3, <2>1, LatchKept, Zenon DEF ApplyHead
<1>4. CASE PollControl
  <2> DEFINE c == IF clear THEN FlushHistory(store) ELSE store
  <2>1. c \in Control /\ c.critical_error
    BY <1>0, LatchKept, FlushHistoryType
  <2>2. \E n \in Notified(c) : mem' = n /\ store' = n
    BY <1>4, Zenon DEF PollControl
  <2> HIDE DEF c
  <2>3. UNCHANGED <<work, kind, out>>
    BY <1>4 DEF PollControl
  <2> QED BY <1>0, <2>1, <2>2, <2>3, LatchNotified, Zenon
<1>5. CASE DispatchTerminal
  <2>1. mem' = Taken /\ store' = Taken /\ Taken.critical_error
    BY <1>5, <1>t DEF DispatchTerminal
  <2>2. ~ Heat'
    BY <1>5, DriveHeatersOff DEF DispatchTerminal
  <2>3. UNCHANGED <<work, kind>>
    BY <1>5 DEF DispatchTerminal
  <2> QED BY <1>0, <2>1, <2>2, <2>3, Zenon
<1>6. CASE Archive
  <2>1. PICK finalized \in BOOLEAN :
          /\ mem' = ResetControl(mem, IF finalized THEN 0 ELSE mem.cook_id)
          /\ store' = mem'
    BY <1>6, Zenon DEF Archive
  <2>2. ~ Heat'
    BY <1>0, <1>6, DriveHeatersKept DEF Archive
  <2>3. UNCHANGED <<work, kind>>
    BY <1>6 DEF Archive
  <2> QED BY <1>0, <2>1, <2>2, <2>3, LatchKept, Zenon
<1>7. CASE DispatchPlain
  <2>1. StartCycle("Shutdown", [Taken EXCEPT !.next_mode = "Stop"])
    BY <1>7, <1>t, Zenon DEF DispatchPlain, Dispatching
  <2>2. [Taken EXCEPT !.next_mode = "Stop"].critical_error
    <3>1. Taken \in Control /\ Taken.critical_error
      BY <1>0, <1>t, <1>7, TakenType, Zenon DEF DispatchPlain, Dispatching
    <3> QED BY <3>1, Zenon DEF Control
  <2>3. UNCHANGED <<work, out>>
    BY <1>7 DEF DispatchPlain
  <2> QED BY <1>0, <2>1, <2>2, <2>3, Zenon DEF StartCycle
<1>8. CASE NaturalReady
  <2>1. store' = store \/ \E m, setpoint : store' = Natural(store, m, setpoint)
    BY <1>8, Zenon DEF NaturalReady, AfterNatural
  <2>2. UNCHANGED <<mem, work, kind, out>>
    BY <1>8 DEF NaturalReady
  <2> QED BY <1>0, <2>1, <2>2, LatchKept, Zenon
<1>9. CASE ShutdownEnd
  BY <1>0, <1>9, Zenon DEF ShutdownEnd
<1>10. CASE NoDispatch \/ PostIdle \/ NextMode \/ PostStep
  BY <1>10, <1>u DEF NoDispatch, PostIdle, NextMode, PostStep
<1>11. ~ DispatchStartup /\ ~ DispatchRecipe
  BY <1>t, Zenon DEF DispatchStartup, DispatchRecipe, Dispatching
<1>12. ~ PostStartupPrime /\ ~ RecipeNext /\ ~ PostRecipeReignite
  BY <1>p, Zenon DEF PostStartupPrime, RecipeNext, PostRecipeReignite
<1> QED BY <1>1, <1>2, <1>3, <1>4, <1>5, <1>6, <1>7, <1>8, <1>9, <1>10, <1>11,
           <1>12 DEF Outer

\* A cycle of a controller with the latch set is a Shutdown cycle: it drives
\* the fan and the power, and manual overrides are not accepted.
LEMMA CycleLatch ==
  ASSUME PlatformBroken, ~ AllowManualChanges, TypeInv, LatchInv, WorkCycle
  PROVE  LatchInv'
<1>0. /\ store \in Control /\ mem \in Control /\ work \in Control
      /\ store.critical_error /\ mem.critical_error /\ work.critical_error
      /\ kind \in {"idle", "Shutdown"} /\ ~ out["auger"] /\ ~ out["igniter"]
  BY DEF TypeInv, TypeOK, LatchInv, Heat
<1>k. InCycle => CycleMode = "Shutdown"
  BY <1>0 DEF TypeInv, CycleHasKind, CycleMode
<1>o. Overridden = {} \/ ~ InCycle
  BY <1>k DEF Overridden
<1>e. Authoritative(work, "Error").critical_error
  BY <1>0, LatchKept
<1>f. \A c : Flameout(FALSE, c) = "ok"
  BY DEF Flameout
<1> USE DEF LatchInv, Heat, InCycle, CyclePcs, locals, Goto, DrainThen, Drained,
            EndWith
<1>1. CASE EnterCycle
  <2> DEFINE off == Drive(out, {}, {"auger", "igniter"})
             c == EnsureCookId(store)
  <2>1. ~ off["auger"] /\ ~ off["igniter"]
    BY DriveHeatersOff
  <2>2. out' = off \/ out' = Drive(off, {}, {"fan", "power"})
    BY <1>1, Zenon DEF EnterCycle
  <2>3. c \in Control /\ c.critical_error
    BY <1>0, EnsureCookIdType, LatchKept
  <2>4. work' = store' /\ store' \in {c, Authoritative(c, "Error")}
    BY <1>1, Zenon DEF EnterCycle
  <2>5. UNCHANGED <<kind, mem>>
    BY <1>1 DEF EnterCycle
  <2> HIDE DEF off, c
  <2>6. ~ Heat'
    BY <2>1, <2>2, DriveHeatersKept
  <2> QED BY <1>0, <2>3, <2>4, <2>5, <2>6, LatchKept, Zenon
<1>2. CASE SetupCycle
  <2>1. out' = Drive(out, {"fan", "power"}, {})
    BY <1>2, <1>k DEF SetupCycle, SetupOutputs
  <2>2. ~ Heat'
    BY <1>0, <2>1, DriveHeatersKept
  <2> QED BY <1>0, <1>2, <2>2, Zenon DEF SetupCycle
<1>3. CASE StampCycle
  <2>1. CycleMode = "Shutdown"
    BY <1>3, <1>k DEF StampCycle
  <2>2. /\ UNCHANGED <<kind, mem, out>>
        /\ \/ work' = Authoritative(work, "Error") /\ store' = work'
           \/ UNCHANGED <<work, store>>
    BY <1>3, <2>1, Zenon DEF StampCycle
  <2> QED BY <1>0, <1>e, <2>2, Zenon
<1>4. CASE CycleTripped
  BY <1>0, <1>4, LatchKept, Zenon DEF CycleTripped
<1>5. CASE BeginLoop
  BY <1>0, <1>5, Zenon DEF BeginLoop
<1>6. CASE LoopReady
  <2> DEFINE kept == EnsureCookId(store)
             c == IF clear THEN [kept EXCEPT !.cook_id = FreshId(kept.cook_id)]
                           ELSE kept
             off == [c EXCEPT !.status = "active"]
  <2>1. kept \in Control /\ kept.critical_error
    BY <1>0, EnsureCookIdType, LatchKept
  <2>2. /\ UNCHANGED <<kind, mem, out>>
        /\ \/ work' = Authoritative(off, "Stop") /\ store' = work'
           \/ work' = c /\ store' = c
    BY <1>6 DEF LoopReady, Rotated
  <2> HIDE DEF kept
  <2>3. FreshId(kept.cook_id) \in CookIds /\ "active" \in StatusStates
    BY FreshIdType DEF StatusStates
  <2>4. c \in Control /\ c.critical_error
    BY <2>1, <2>3, Zenon DEF Control
  <2> HIDE DEF c
  <2>5. off \in Control /\ off.critical_error
    BY <2>3, <2>4, Zenon DEF Control
  <2> HIDE DEF off
  <2> QED BY <1>0, <2>2, <2>4, <2>5, LatchKept, Zenon
<1>7. CASE Sense
  <2>1. CycleMode = "Shutdown" /\ Overridden = {}
    BY <1>7, <1>k, <1>o DEF Sense
  <2>2. UNCHANGED <<kind, mem>>
    BY <1>7 DEF Sense
  <2>3. \/ out' = out
        \/ \E on \in BOOLEAN :
             out' = [d \in Devices |-> IF d \in Overridden THEN on ELSE out[d]]
    BY <1>7, <1>f, <2>1, Zenon DEF Sense
  <2>4. ~ Heat'
    BY <1>0, <2>1, <2>3, Zenon DEF Devices
  <2>5. \/ work' = Authoritative(work, "Error") /\ store' = work'
        \/ work' = work /\ store' \in {store, work}
    BY <1>7, <1>f, <2>1, Zenon DEF Sense, Kept
  <2> QED BY <1>0, <1>e, <2>2, <2>4, <2>5, Zenon
<1>8. CASE Act
  <2>1. CycleMode = "Shutdown"
    BY <1>8, <1>k DEF Act
  <2>2. ~ Heat'
    <3>1. PICK auger, fan \in BOOLEAN :
            out' = [out EXCEPT !["auger"] = out["auger"], !["fan"] = out["fan"]]
      BY <1>8, <2>1, Zenon DEF Act, Ticked
    <3>2. out' = out
      BY <3>1, Zenon DEF TypeInv, TypeOK
    <3> QED BY <1>0, <3>2, Zenon
  <2>3. \E c \in Notified(work) : work' = c /\ store' \in {c, store}
    BY <1>8, Zenon DEF Act
  <2>4. UNCHANGED <<kind, mem>>
    BY <1>8 DEF Act
  <2> QED BY <1>0, <2>2, <2>3, <2>4, LatchNotified, Zenon
<1>9. CASE Finish
  <2>1. CycleMode = "Shutdown"
    BY <1>9, <1>k DEF Finish
  <2>2. Ended.critical_error
    BY <1>0 DEF Ended
  <2>3. UNCHANGED <<kind, mem, store>> /\ work' = Ended
    BY <1>9, <2>1, Zenon DEF Finish
  <2>4. ~ Heat'
    <3>1. out' = Drive(out, {}, TornDown) \/ out' = out
      BY <1>9 DEF Finish
    <3> QED BY <1>0, <3>1, DriveHeatersKept
  <2> QED BY <1>0, <2>2, <2>3, <2>4, Zenon
<1> QED BY <1>1, <1>2, <1>3, <1>4, <1>5, <1>6, <1>7, <1>8, <1>9 DEF WorkCycle

\* Neither the environment nor a restart clears the latch: a boot sets it again.
LEMMA OtherLatch ==
  ASSUME PlatformBroken, TypeInv, LatchInv,
         CleanUp \/ Restart \/ Faults \/ Requested
  PROVE  LatchInv'
<1>0. /\ store \in Control /\ mem \in Control /\ work \in Control
      /\ store.critical_error /\ mem.critical_error /\ work.critical_error
      /\ kind \in {"idle", "Shutdown"} /\ ~ out["auger"] /\ ~ out["igniter"]
  BY DEF TypeInv, TypeOK, LatchInv, Heat
<1> USE AllOffHeatersOff
    DEF LatchInv, Heat, locals, session, Goto, DrainThen, Drained
<1>b. ASSUME Boot PROVE LatchInv'
  <2>1. \A cook : BootControl(cook).critical_error
    BY DefaultControlType, Zenon DEF BootControl, Control
  <2> QED BY <1>b, <2>1, Zenon DEF Boot
<1>1. CASE CleanUp
  BY <1>0, <1>1, Zenon DEF CleanUp
<1>2. CASE Restart
  BY <1>2, <1>b DEF Restart
<1>3. CASE IdleGap
  BY <1>0, <1>3, Zenon DEF IdleGap
<1>4. CASE CycleGap
  <2>1. [work EXCEPT !.manual = "none"].critical_error
    BY <1>0, Zenon DEF Control
  <2> QED BY <1>0, <1>4, <2>1, Zenon DEF CycleGap, GapOutputs
<1>5. CASE CycleRaises
  BY <1>0, <1>5, Zenon DEF CycleRaises, Raise
<1>6. CASE Kill
  BY <1>0, <1>6, Zenon DEF Kill
<1>7. CASE HostHalts
  BY <1>0, <1>7, Zenon DEF HostHalts
<1>8. CASE PowerUp
  BY <1>8, <1>b DEF PowerUp
<1>9. CASE Watchdog
  <2>1. Authoritative(store, "Error") \in Control
    BY <1>0, AuthoritativeType DEF Modes
  <2>2. [Authoritative(store, "Error")
           EXCEPT !.critical_error = TRUE].critical_error
    BY <2>1, Zenon DEF Control
  <2> QED BY <1>0, <1>9, <2>2, Zenon DEF Watchdog
<1>10. CASE Requested
  <2>1. UNCHANGED <<store, mem, work, kind, out>>
    BY <1>10, Zenon DEF Requested, Enqueue, RequestClear, FlipSwitch
  <2> QED BY <1>0, <2>1, Zenon
<1> QED BY <1>1, <1>2, <1>3, <1>4, <1>5, <1>6, <1>7, <1>8, <1>9, <1>10 DEF Faults

\* A controller whose platform could not be built never drives the auger or the
\* igniter, whatever is requested, queued, cleared or restarted, unless the
\* settings let a Shutdown cycle take manual overrides.
THEOREM BrokenPlatformIsCold ==
  ASSUME ~ AllowManualChanges
  PROVE  Spec => []NoFireOnBrokenPlatform
<1>1. Init => LatchInv
  <2> SUFFICES ASSUME Init, PlatformBroken PROVE LatchInv
    BY DEF LatchInv
  <2>1. BootControl(0).critical_error
    BY DefaultControlType, Zenon DEF BootControl, Control
  <2> QED BY <2>1, AllOffHeatersOff, Zenon DEF Init, LatchInv, Heat
<1>2. TypeInv /\ LatchInv /\ [Next]_vars => LatchInv'
  <2>1. ASSUME LatchInv, UNCHANGED vars PROVE LatchInv'
    BY <2>1 DEF vars, LatchInv, Heat
  <2>2. ASSUME TypeInv, LatchInv, Next, PlatformBroken PROVE LatchInv'
    BY <2>2, OuterLatch, CycleLatch, OtherLatch DEF Next
  <2>3. ~ PlatformBroken => LatchInv'
    BY DEF LatchInv
  <2> QED BY <2>1, <2>2, <2>3
<1>3. LatchInv => NoFireOnBrokenPlatform
  BY DEF LatchInv, NoFireOnBrokenPlatform
<1> QED BY <1>1, <1>2, <1>3, TypeInvAlways, PTL DEF Spec

-----------------------------------------------------------------------------
(* The machine is powered off cold.  A Shutdown cycle leaves everything    *)
(* off, whichever way it ends, and nothing is driven between its teardown  *)
(* and the halt.                                                           *)

AfterShutdown ==
  pc \in {"post", "shutdownEnd"} \/ (pc = "drain" /\ ret = "natural")

ShutInv ==
  /\ pc = "drain" /\ ret = "cycleTrip" => out = AllOff
  /\ pc = "finish" /\ ~ setupDone => out = AllOff
  /\ kind = "Shutdown" /\ AfterShutdown => out = AllOff
  /\ pc = "shutdownEnd" => kind = "Shutdown"

\* After the cycle the outer loop goes to the halt without driving anything.
LEMMA OuterShut ==
  ASSUME ShutInv, Outer
  PROVE  ShutInv'
<1> USE DEF ShutInv, AfterShutdown, Goto, DrainThen, Drained, cycle, locals,
            session
<1>1. CASE IdleTripped
  <2>1. pc' \in {"tick", "dispatch", "archive", "enter"}
    BY <1>1, Zenon DEF IdleTripped
  <2> QED BY <2>1
<1>2. CASE BeginTick
  BY <1>2, Zenon DEF BeginTick
<1>3. CASE ApplyHead
  BY <1>3, Zenon DEF ApplyHead
<1>4. CASE PollControl
  <2>1. pc' \in {"tick", "dispatch", "archive", "enter"}
    BY <1>4, Zenon DEF PollControl
  <2> QED BY <2>1
<1>5. CASE NoDispatch
  <2>1. pc' \in {"tick", "dispatch", "archive", "enter"}
    BY <1>5, Zenon DEF NoDispatch
  <2> QED BY <2>1
<1>6. CASE DispatchTerminal
  <2>1. pc' \in {"tick", "dispatch", "archive", "enter"}
    BY <1>6, Zenon DEF DispatchTerminal
  <2> QED BY <2>1
<1>7. CASE Archive
  <2>1. pc' \in {"tick", "dispatch", "archive", "enter"}
    BY <1>7, Zenon DEF Archive
  <2> QED BY <2>1
<1>8. CASE DispatchPlain
  <2>1. pc' \in {"tick", "dispatch", "archive", "enter"}
    BY <1>8, Zenon DEF DispatchPlain, StartCycle, Dispatching
  <2> QED BY <2>1
<1>9. CASE DispatchStartup
  <2>1. pc' \in {"tick", "dispatch", "archive", "enter"}
    BY <1>9, Zenon DEF DispatchStartup, StartCycle, Dispatching
  <2> QED BY <2>1
<1>10. CASE DispatchRecipe
  <2>1. pc' \in {"tick", "dispatch", "archive", "enter"}
    BY <1>10, Zenon DEF DispatchRecipe, StartStep, EndRecipe, Dispatching
  <2> QED BY <2>1
<1>11. CASE PostIdle
  <2>1. pc' \in {"tick", "dispatch", "archive", "enter"}
    BY <1>11, Zenon DEF PostIdle
  <2> QED BY <2>1
<1>12. CASE NextMode
  BY <1>12, Zenon DEF NextMode, AfterNatural
<1>13. CASE NaturalReady
  BY <1>13, Zenon DEF NaturalReady, AfterNatural
<1>14. CASE ShutdownEnd
  BY <1>14, Zenon DEF ShutdownEnd
<1>15. CASE PostStartupPrime
  <2>1. pc' \in {"tick", "dispatch", "archive", "enter"}
    BY <1>15, Zenon DEF PostStartupPrime, StartCycle
  <2> QED BY <2>1
<1>16. CASE PostStep
  BY <1>16, Zenon DEF PostStep
<1>17. CASE RecipeNext
  <2>1. pc' \in {"tick", "dispatch", "archive", "enter"}
    BY <1>17, Zenon DEF RecipeNext, StartStep, EndRecipe
  <2> QED BY <2>1
<1>18. CASE PostRecipeReignite
  <2>1. pc' \in {"tick", "dispatch", "archive", "enter"}
    BY <1>18, Zenon DEF PostRecipeReignite
  <2> QED BY <2>1
<1> QED BY <1>1, <1>2, <1>3, <1>4, <1>5, <1>6, <1>7, <1>8, <1>9, <1>10, <1>11,
           <1>12, <1>13, <1>14, <1>15, <1>16, <1>17, <1>18 DEF Outer

\* A cycle that fails before its setup() has turned everything off, and the
\* teardown of Shutdown turns everything off.
LEMMA CycleShut ==
  ASSUME ShutInv, SetUpInLoop, WorkCycle
  PROVE  ShutInv'
<1>f. \A c, below, o : FlameoutTrip(c, below, o) => pc' \in {"finish", "crash"}
  BY DEF FlameoutTrip, EndWith, Kept, Raise, Goto
<1> USE DEF ShutInv, AfterShutdown, SetUpInLoop, Goto, DrainThen, Drained, cycle,
            locals, session
<1>1. CASE EnterCycle
  <2> DEFINE off == Drive(out, {}, {"auger", "igniter"})
  <2>1. \/ pc' = "setup"
        \/ pc' = "finish" /\ out' = Drive(off, {}, {"fan", "power"})
    BY <1>1, Zenon DEF EnterCycle, EndWith
  <2>2. Drive(off, {}, {"fan", "power"}) = AllOff
    BY Zenon DEF Drive, AllOff, Devices
  <2> QED BY <2>1, <2>2
<1>2. CASE SetupCycle
  BY <1>2 DEF SetupCycle
<1>3. CASE StampCycle
  <2>1. pc' \in {"finish", "loop", "crash"}
    BY <1>3, <1>f, Zenon DEF StampCycle, EndWith
  <2>2. setupDone'
    BY <1>3 DEF StampCycle
  <2> QED BY <2>1, <2>2
<1>4. CASE CycleTripped
  BY <1>4, Zenon DEF CycleTripped, EndWith
<1>5. CASE BeginLoop
  BY <1>5 DEF BeginLoop
<1>6. CASE LoopReady
  <2>1. pc' \in {"finish", "sense"}
    BY <1>6, Zenon DEF LoopReady, EndWith, Continue
  <2>2. setupDone'
    BY <1>6 DEF LoopReady
  <2> QED BY <2>1, <2>2
<1>7. CASE Sense
  <2>1. pc' \in {"finish", "act", "crash"}
    BY <1>7, <1>f, Zenon DEF Sense, EndWith
  <2>2. setupDone'
    BY <1>7 DEF Sense
  <2> QED BY <2>1, <2>2
<1>8. CASE Act
  <2>1. pc' \in {"finish", "loop"}
    BY <1>8, Zenon DEF Act
  <2>2. setupDone'
    BY <1>8 DEF Act
  <2> QED BY <2>1, <2>2
<1>9. CASE Finish
  <2>1. pc' = "post" /\ UNCHANGED kind
    BY <1>9 DEF Finish
  <2>2. ASSUME kind = "Shutdown" PROVE out' = AllOff
    <3>1. CASE setupDone
      <4>1. CycleMode = "Shutdown"
        BY <2>2 DEF CycleMode
      <4>2. out' = Drive(out, {}, Devices)
        BY <1>9, <3>1, <4>1 DEF Finish, TornDown
      <4>3. Drive(out, {}, Devices) = AllOff
        BY Zenon DEF Drive, AllOff
      <4> QED BY <4>2, <4>3
    <3>2. CASE ~ setupDone
      BY <1>9, <3>2 DEF Finish
    <3> QED BY <3>1, <3>2
  <2> QED BY <2>1, <2>2
<1> QED BY <1>1, <1>2, <1>3, <1>4, <1>5, <1>6, <1>7, <1>8, <1>9 DEF WorkCycle

\* Neither does the environment drive anything after a Shutdown cycle.
LEMMA OtherShut ==
  ASSUME ShutInv, CleanUp \/ Restart \/ Faults \/ Requested
  PROVE  ShutInv'
<1> USE DEF ShutInv, AfterShutdown, Goto, DrainThen, Drained, cycle, locals,
            session
<1>b. ASSUME Boot PROVE ShutInv'
  BY <1>b DEF Boot
<1>1. CASE CleanUp
  BY <1>1 DEF CleanUp
<1>2. CASE Restart
  BY <1>2, <1>b DEF Restart
<1>3. CASE IdleGap
  BY <1>3 DEF IdleGap
<1>4. CASE CycleGap
  BY <1>4 DEF CycleGap, GapOutputs
<1>5. CASE CycleRaises
  BY <1>5, Zenon DEF CycleRaises, Raise
<1>6. CASE Kill
  BY <1>6 DEF Kill
<1>7. CASE HostHalts
  BY <1>7 DEF HostHalts
<1>8. CASE PowerUp
  BY <1>8, <1>b DEF PowerUp
<1>9. CASE Watchdog
  BY <1>9, Zenon DEF Watchdog
<1>10. CASE Requested
  <2>1. UNCHANGED <<pc, ret, setupDone, kind, out>>
    BY <1>10, Zenon DEF Requested, Enqueue, RequestClear, FlipSwitch
  <2> QED BY <2>1, Zenon
<1> QED BY <1>1, <1>2, <1>3, <1>4, <1>5, <1>6, <1>7, <1>8, <1>9, <1>10 DEF Faults

\* Only the end of a shutdown starts to halt the machine.
LEMMA OnlyShutdownHalts ==
  ASSUME Next, host' = "halting", host # "halting"
  PROVE  pc = "shutdownEnd"
<1>1. CASE Outer
  BY <1>1, Zenon DEF Outer, IdleTripped, BeginTick, ApplyHead, PollControl,
     NoDispatch, DispatchTerminal, Archive, DispatchPlain, DispatchStartup,
     DispatchRecipe, PostIdle, NextMode, NaturalReady, ShutdownEnd,
     PostStartupPrime, PostStep, RecipeNext, PostRecipeReignite
<1>2. CASE WorkCycle
  BY <1>2, Zenon DEF WorkCycle, EnterCycle, SetupCycle, StampCycle, CycleTripped,
     BeginLoop, LoopReady, Sense, Act, Finish
<1>3. CASE CleanUp \/ Restart \/ Faults \/ Requested
  BY <1>3, Zenon DEF CleanUp, Restart, Faults, Requested, IdleGap, CycleGap,
     CycleRaises, Kill, HostHalts, PowerUp, Watchdog, Enqueue, RequestClear,
     FlipSwitch
<1> QED BY <1>1, <1>2, <1>3 DEF Next

\* The machine is halted only after a shutdown that left every output off.
THEOREM HaltIsCold == Spec => HaltsCold
<1>1. Init => ShutInv /\ HeatInv
  BY AllOffHeatersOff
     DEF Init, ShutInv, AfterShutdown, HeatInv, SetUpInLoop, SetupEndsWithCycle,
         HeatNeedsSetup, ColdCrash, Heat, InCycle, CyclePcs
<1>2. ShutInv /\ HeatInv /\ [Next]_vars => ShutInv'
  <2>1. ASSUME ShutInv, UNCHANGED vars PROVE ShutInv'
    BY <2>1 DEF vars, ShutInv, AfterShutdown
  <2>2. ASSUME ShutInv, HeatInv, Next PROVE ShutInv'
    BY <2>2, OuterShut, CycleShut, OtherShut DEF Next, HeatInv
  <2> QED BY <2>1, <2>2
<1>3. ShutInv /\ [Next]_vars
        => [host' = "halting" /\ host # "halting" => out = AllOff]_vars
  BY OnlyShutdownHalts DEF ShutInv, AfterShutdown
<1> QED BY <1>1, <1>2, <1>3, HeatInvAlways, PTL DEF Spec, HaltsCold

-----------------------------------------------------------------------------
(* What each operator does to the fields that the modes turn on *)

\* The same but for fields no transition looks at.
Settings(c, d) ==
  /\ d.next_mode = c.next_mode
  /\ d.reignitelaststate = c.reignitelaststate
  /\ d.primary_setpoint = c.primary_setpoint
Alike(c, d) == d.mode = c.mode /\ d.updated = c.updated /\ Settings(c, d)

LEMMA AuthoritativeFields ==
  ASSUME NEW c \in Control, NEW m \in Modes
  PROVE  /\ Authoritative(c, m).updated
         /\ Authoritative(c, m).mode = m
         /\ Settings(c, Authoritative(c, m))
BY Zenon DEF Authoritative, Settings, Control

LEMMA ClockTripFields ==
  ASSUME NEW c \in Control
  PROVE  /\ ClockTrip(c).updated
         /\ ClockTrip(c).mode = "Error"
         /\ Settings(c, ClockTrip(c))
<1> DEFINE a == Authoritative(c, "Error")
<1>1. a \in Control /\ a.updated /\ a.mode = "Error" /\ Settings(c, a)
  BY AuthoritativeType, AuthoritativeFields DEF Modes
<1> HIDE DEF a
<1>2. LET t == [a EXCEPT !.manual = "none"] IN
        t.updated /\ t.mode = "Error" /\ Settings(c, t)
  BY <1>1, Zenon DEF Settings, Control
<1> QED BY <1>2 DEF ClockTrip, a

LEMMA ReigniteFromFields ==
  ASSUME NEW c \in Control, NEW from
  PROVE  LET r == ReigniteFrom(c, from) IN
         /\ r.updated /\ r.mode = "Reignite"
         /\ r.next_mode = c.next_mode
         /\ r.reignitelaststate = from
         /\ r.primary_setpoint = c.primary_setpoint
<1> DEFINE a == Authoritative(c, "Reignite")
<1>1. a \in Control /\ a.updated /\ a.mode = "Reignite" /\ Settings(c, a)
  BY AuthoritativeType, AuthoritativeFields DEF Modes
<1> HIDE DEF a
<1>2. LET t == [a EXCEPT !.reigniteretries = @ - 1, !.reignitelaststate = from] IN
         /\ t.updated /\ t.mode = "Reignite"
         /\ t.next_mode = c.next_mode
         /\ t.reignitelaststate = from
         /\ t.primary_setpoint = c.primary_setpoint
  BY <1>1, Zenon DEF Settings, Control
<1> QED BY <1>2 DEF ReigniteFrom, a

LEMMA NaturalFields ==
  ASSUME NEW c \in Control, NEW to \in Modes, NEW setpoint \in BOOLEAN
  PROVE  LET n == Natural(c, to, setpoint) IN
         /\ n.updated /\ n.mode = to
         /\ n.next_mode = c.next_mode
         /\ n.reignitelaststate = c.reignitelaststate
         /\ to = "Hold" => n.primary_setpoint = setpoint
<1> DEFINE a == Authoritative(c, to)
           set == (to = "Hold") /\ setpoint
<1>1. a \in Control /\ a.updated /\ a.mode = to /\ Settings(c, a)
  BY AuthoritativeType, AuthoritativeFields
<1>s. to = "Hold" => set = setpoint
  OBVIOUS
<1> HIDE DEF a, set
<1>2. LET t == [a EXCEPT !.primary_setpoint = set] IN
         /\ t.updated /\ t.mode = to
         /\ t.next_mode = c.next_mode
         /\ t.reignitelaststate = c.reignitelaststate
         /\ t.primary_setpoint = set
  BY <1>1, Zenon DEF Settings, Control
<1> QED BY <1>s, <1>2, Zenon DEF Natural, a, set

LEMMA EnsureCookIdFields ==
  ASSUME NEW c \in Control
  PROVE  Alike(c, EnsureCookId(c))
BY Zenon DEF EnsureCookId, Alike, Settings, Control

LEMMA FlushHistoryFields ==
  ASSUME NEW c \in Control
  PROVE  Alike(c, FlushHistory(c))
BY Zenon DEF FlushHistory, Alike, Settings, Control

LEMMA RotatedFields ==
  ASSUME NEW c \in Control
  PROVE  Rotated(c) \in Control /\ Alike(c, Rotated(c))
<1>1. FreshId(c.cook_id) \in CookIds
  BY FreshIdType
<1> QED BY <1>1, Zenon DEF Rotated, Alike, Settings, Control

LEMMA UnseenFields ==
  ASSUME NEW c \in Control, NEW x \in BOOLEAN
  PROVE  /\ Alike(c, [c EXCEPT !.manual = "none"])
         /\ Alike(c, [c EXCEPT !.afterstarttemp = x])
         /\ Alike(c, [c EXCEPT !.startuptemp = TRUE, !.afterstarttemp = x])
         /\ Alike(c, [c EXCEPT !.status = "active"])
BY Zenon DEF Alike, Settings, Control

\* A drained delta leaves the mode alone or asks for its dispatch.
LEMMA ApplyDeltaFields ==
  ASSUME NEW c \in Control, NEW d \in Deltas
  PROVE  LET r == ApplyDelta(c, d) IN
         /\ ~ r.updated => ~ c.updated /\ r.mode = c.mode
         /\ c.updated => r.updated
         /\ r.reignitelaststate = c.reignitelaststate
         /\ c.primary_setpoint => r.primary_setpoint
         /\ r.mode = c.mode \/ (d.op = "mode" /\ r.mode = d.mode)
              \/ (d.op = "prime" /\ r.mode = "Prime")
              \/ (r.mode = "Hold" /\ r.primary_setpoint)
         /\ IF d.op = "prime" THEN r.next_mode = d.next /\ r.mode = "Prime"
                              ELSE r.next_mode = c.next_mode
<1>1. CASE d \in [op : {"mode"}, mode : Modes]
  BY <1>1, Zenon DEF ApplyDelta, Control
<1>2. CASE d \in [op : {"prime"}, next : Modes]
  BY <1>2, Zenon DEF ApplyDelta, Control
<1>3. CASE d \in [op : {"manual"}, device : Devices]
  BY <1>3, Zenon DEF ApplyDelta, Control
<1>4. CASE d \in [op : {"hold", "psp", "units", "step"}]
  <2>1. CASE d.op = "psp"
    BY <2>1, Zenon DEF ApplyDelta, HoldSetSetpoint, Control
  <2>2. CASE d.op = "hold"
    BY <2>2, Zenon DEF ApplyDelta, Control
  <2>3. CASE d.op = "units"
    BY <2>3, Zenon DEF ApplyDelta, Control
  <2>4. CASE d.op = "step"
    BY <2>4, Zenon DEF ApplyDelta, Control
  <2> QED BY <1>4, <2>1, <2>2, <2>3, <2>4
<1> QED BY <1>1, <1>2, <1>3, <1>4 DEF Deltas

\* A notification that fires asks for a mode it may ask for.
LEMMA FiredFields ==
  ASSUME NEW c \in Control, NEW f \in Fired(c)
  PROVE  \/ f = c
         \/ /\ f.updated
            /\ f.next_mode = c.next_mode
            /\ c.primary_setpoint => f.primary_setpoint
            /\ \/ f.mode = "Shutdown" /\ f.reignitelaststate = c.reignitelaststate
               \/ /\ f.mode = "Hold" /\ f.primary_setpoint
                  /\ f.reignitelaststate = c.reignitelaststate
               \/ /\ f.mode = "Reignite" /\ f.reignitelaststate = c.mode
                  /\ c.mode \in {"Smoke", "Hold"}
<1>1. f \in {NotifyShutdown(c), NotifyKeepWarm(c), NotifyReignite(c)}
  BY DEF Fired
<1>2. CASE f = NotifyShutdown(c)
  BY <1>2, Zenon DEF NotifyShutdown, Control
<1>3. CASE f = NotifyKeepWarm(c)
  BY <1>3, Zenon DEF NotifyKeepWarm, Control
<1>4. CASE f = NotifyReignite(c)
  BY <1>4, Zenon DEF NotifyReignite, Control
<1> QED BY <1>1, <1>2, <1>3, <1>4

LEMMA NotifiedFields ==
  ASSUME NEW c \in Control, NEW n \in Notified(c)
  PROVE  /\ n = c \/ (n.updated /\ n.mode \in {"Shutdown", "Hold", "Reignite"})
         /\ n.next_mode = c.next_mode
         /\ c.primary_setpoint => n.primary_setpoint
<1>1. CASE n = c
  BY <1>1
<1>2. CASE n \in Fired(c)
  BY <1>2, FiredFields
<1>3. ASSUME NEW d \in Fired(c), n \in Fired(d)
      PROVE  /\ n = c \/ (n.updated /\ n.mode \in {"Shutdown", "Hold", "Reignite"})
             /\ n.next_mode = c.next_mode
             /\ c.primary_setpoint => n.primary_setpoint
  <2>1. d \in Control
    BY FiredType
  <2> QED BY <1>3, <2>1, FiredFields
<1> QED BY <1>1, <1>2, <1>3 DEF Notified

\* The dispatch takes the record as it is, or a change of units as a Stop.
LEMMA TakenFields ==
  ASSUME mem \in Control
  PROVE  /\ ~ Taken.updated
         /\ Taken.mode \in {mem.mode, "Stop"}
         /\ Settings(mem, Taken)
<1> DEFINE read == [mem EXCEPT !.updated = FALSE]
           c == IF read.units_change
                  THEN [read EXCEPT !.mode = "Stop", !.units_change = FALSE,
                                    !.cook_id = 0]
                  ELSE read
<1>1. read \in Control /\ ~ read.updated /\ read.mode = mem.mode
        /\ Settings(mem, read)
  BY Zenon DEF Control, Settings
<1> HIDE DEF read
<1>2. "Stop" \in Modes /\ 0 \in CookIds
  BY CookAssumption, SMT DEF Modes, CookIds
<1>3. c \in Control /\ ~ c.updated /\ c.mode \in {mem.mode, "Stop"}
        /\ Settings(mem, c)
  BY <1>1, <1>2, Zenon DEF Control, Settings
<1> HIDE DEF c
<1>4. LET t == IF c.status # "monitor" /\ c.mode # "Error"
                 THEN [c EXCEPT !.status = "active"] ELSE c
      IN ~ t.updated /\ t.mode \in {mem.mode, "Stop"} /\ Settings(mem, t)
  BY <1>3, Zenon DEF Control, Settings
<1> QED BY <1>4 DEF Taken, c, read

LEMMA BootControlFields ==
  ASSUME NEW cook
  PROVE  LET b == BootControl(cook) IN
         /\ b.updated /\ b.mode \in {"Monitor", "Stop"}
         /\ b.next_mode = "Stop" /\ b.reignitelaststate = "Smoke"
BY DEF BootControl, DefaultControl

LEMMA ResetControlFields ==
  ASSUME NEW c, NEW cook
  PROVE  LET r == ResetControl(c, cook) IN
         /\ ~ r.updated /\ r.mode = c.mode
         /\ r.next_mode = "Stop" /\ r.reignitelaststate = "Smoke"
BY DEF ResetControl, DefaultControl

Recipes == {"recipe", "recipeReignite"}

\* What the record calls the cycle of a handler.
NameOf(k) == IF k \in Recipes THEN "Recipe"
             ELSE IF k = "startupPrime" THEN "Prime" ELSE k

Running == \/ pc \in CyclePcs \cup {"enter", "post"}
           \/ pc = "drain" /\ ret \in {"loop", "cycleTrip", "natural", "recipe"}
Resting == \/ pc \in {"tick", "dispatch"}
           \/ pc = "drain" /\ ret \in {"tick", "idleTrip"}

\* A record with no change pending names the running cycle; at rest, a mode
\* nothing runs for.
Names(c) == ~ c.updated => c.mode = NameOf(kind)
Safe(c) == ~ c.updated => c.mode \in {"Stop", "Error"}

\* Smoke, Monitor and Manual end only for a pending change.
Endless == {"Smoke", "Monitor", "Manual"}
Ending == pc \in {"finish", "post"} \/ (pc = "drain" /\ ret = "natural")

ModeInv ==
  /\ Running => Names(store)
  /\ pc \in CyclePcs => Names(work)
  /\ pc \in {"sense", "act"} => ~ work.updated
  /\ Resting => Safe(store)
  /\ pc = "dispatch" => mem = store
  /\ pc = "archive" => Safe(mem) /\ ~ mem.updated
  /\ pc = "shutdownEnd" => store.updated
  /\ InCycle => stampOk \/ discont
  /\ discont => pc \in {"finish", "crash", "down"}
                 \/ (pc = "drain" /\ ret = "cycleTrip")
  /\ Ending /\ kind \in Endless => store.updated
  /\ pc = "finish" /\ discont => store.updated /\ store.mode \in {"Stop", "Error"}
  /\ pc = "post" /\ ~ stampOk => store.updated
  /\ pc = "drain" /\ ret = "natural" => kind \in Direct


LEMMA OuterModes ==
  ASSUME TypeInv, ModeInv, Outer
  PROVE  ModeInv'
<1>0. store \in Control /\ mem \in Control /\ work \in Control
  BY DEF TypeInv, TypeOK
<1>h. /\ CycleHasKind /\ RecipeHasStep
      /\ kind \in Kinds
  BY DEF TypeInv, TypeOK
<1>m. "Stop" \in Modes /\ "Error" \in Modes
  BY DEF Modes
<1>t. ~ Taken.updated /\ Taken \in Control
  BY <1>0, TakenFields, TakenType
<1>x. discont' = discont /\ (discont => ApplyHead)
  <2>1. discont => pc \in {"finish", "crash", "down"}
                     \/ (pc = "drain" /\ ret = "cycleTrip")
    BY DEF ModeInv
  <2> QED BY <2>1, Zenon DEF Outer, IdleTripped, BeginTick, ApplyHead,
       PollControl, NoDispatch, DispatchTerminal, Archive, DispatchPlain,
       DispatchStartup, DispatchRecipe, PostIdle, NextMode, NaturalReady,
       ShutdownEnd, PostStartupPrime, PostStep, RecipeNext, PostRecipeReignite,
       Drained, Dispatching, cycle
<1>y. ApplyHead => pc = "drain" /\ pc' = "drain"
  BY DEF ApplyHead
<1> USE DEF ModeInv, Running, Resting, Names, Safe, Ending, Endless, NameOf,
            Recipes, InCycle, CyclePcs, Direct, Goto, DrainThen, Drained, cycle,
            locals, session
<1>1. CASE IdleTripped
  <2>1. store'.updated
    BY <1>0, <1>1, ClockTripFields DEF IdleTripped
  <2>2. pc' = "tick"
    BY <1>1 DEF IdleTripped
  <2> QED BY <1>x, <1>y, <2>1, <2>2
<1>2. CASE BeginTick
  <2>1. store'.updated \/ UNCHANGED store
    BY <1>0, <1>m, <1>2, AuthoritativeFields DEF BeginTick
  <2>2. pc' = "drain" /\ ret' = "tick" /\ pc = "tick"
    BY <1>2 DEF BeginTick
  <2> QED BY <1>x, <1>y, <2>1, <2>2
<1>3. CASE ApplyHead
  <2>1. Head(queue) \in Deltas
    BY <1>3, LoopAssumption, SMT DEF ApplyHead, TypeInv, TypeOK
  <2>2. /\ ~ store'.updated => ~ store.updated /\ store'.mode = store.mode
        /\ store.updated => store'.updated
    BY <1>0, <1>3, <2>1, ApplyDeltaFields DEF ApplyHead
  <2>3. pc = "drain" /\ UNCHANGED <<pc, ret, kind, stampOk, discont>>
    BY <1>3 DEF ApplyHead
  <2> QED BY <1>x, <1>y, <2>2, <2>3
<1>4. CASE PollControl
  <2> DEFINE c == IF clear THEN FlushHistory(store) ELSE store
  <2>1. c \in Control /\ Alike(store, c)
    BY <1>0, FlushHistoryType, FlushHistoryFields DEF Alike, Settings
  <2>2. PICK n \in Notified(c) : mem' = n /\ store' = n
    BY <1>4, Zenon DEF PollControl
  <2> HIDE DEF c
  <2>3. n = c \/ n.updated
    BY <2>1, <2>2, NotifiedFields
  <2>4. ~ n.updated => ~ store.updated /\ n.mode = store.mode
    BY <2>1, <2>3 DEF Alike
  <2>5. pc = "drain" /\ ret = "tick" /\ pc' = "dispatch"
    BY <1>4 DEF PollControl
  <2> QED BY <1>x, <1>y, <2>2, <2>4, <2>5
<1>5. CASE NoDispatch
  BY <1>5 DEF NoDispatch
<1>6. CASE DispatchTerminal
  <2>1. pc' = "archive" /\ mem' = Taken /\ Taken.mode \in {"Stop", "Error"}
    BY <1>6, Zenon DEF DispatchTerminal
  <2> QED BY <1>x, <1>y, <1>t, <2>1
<1>7. CASE Archive
  <2>1. PICK cook : store' = ResetControl(mem, cook)
    BY <1>7, Zenon DEF Archive
  <2>2. store'.mode = mem.mode
    BY <2>1, ResetControlFields
  <2>3. pc' = "tick" /\ pc = "archive"
    BY <1>7 DEF Archive
  <2> QED BY <1>x, <1>y, <2>2, <2>3
<1>s. ASSUME NEW k, NEW c \in Control, StartCycle(k, c), ~ c.updated,
             c.mode = NameOf(k), UNCHANGED stampOk
      PROVE  ModeInv'
  BY <1>x, <1>y, <1>s DEF StartCycle
<1>8. CASE DispatchPlain
  <2>1. \/ \E m \in {"Prime", "Smoke", "Hold", "Manual"} :
             Taken.mode = m /\ StartCycle(m, Taken)
        \/ Taken.mode = "Shutdown"
             /\ StartCycle("Shutdown", [Taken EXCEPT !.next_mode = "Stop"])
        \/ Taken.mode = "Monitor"
             /\ StartCycle("Monitor", [Taken EXCEPT !.status = "monitor"])
        \/ Taken.mode = "Reignite"
             /\ StartCycle("Reignite",
                           [Taken EXCEPT !.next_mode = Taken.reignitelaststate])
    BY <1>8, Zenon DEF DispatchPlain, Dispatching
  <2>2. \A x : LET a == [Taken EXCEPT !.next_mode = x]
               IN  ~ a.updated /\ a.mode = Taken.mode
    BY <1>t, Zenon DEF Control
  <2>3. LET b == [Taken EXCEPT !.status = "monitor"]
        IN  ~ b.updated /\ b.mode = Taken.mode
    BY <1>t, Zenon DEF Control
  <2>4. PICK k, c : /\ StartCycle(k, c) /\ ~ c.updated /\ c.mode = k
                    /\ k \notin Recipes \cup {"startupPrime"}
    BY <1>t, <2>1, <2>2, <2>3
  <2>5. UNCHANGED <<stampOk, discont>> /\ pc = "dispatch"
    BY <1>8 DEF DispatchPlain, Dispatching
  <2> QED BY <1>x, <1>y, <2>4, <2>5 DEF StartCycle
<1>9. CASE DispatchStartup
  <2>1. /\ Taken.mode = "Startup"
        /\ \/ StartCycle("startupPrime", [Taken EXCEPT !.mode = "Prime"])
           \/ StartCycle("Startup", [Taken EXCEPT !.next_mode = AfterStartup])
    BY <1>9, Zenon DEF DispatchStartup, Dispatching
  <2>2. LET a == [Taken EXCEPT !.next_mode = AfterStartup]
            b == [Taken EXCEPT !.mode = "Prime"]
        IN  /\ ~ a.updated /\ a.mode = Taken.mode
            /\ ~ b.updated /\ b.mode = "Prime"
    BY <1>t, Zenon DEF Control
  <2> QED BY <1>x, <1>y, <1>t, <2>1, <2>2 DEF StartCycle
<1>r. \A c \in Control : \A n : StartStep(c, n) =>
        /\ ~ store'.updated /\ store'.mode = c.mode
        /\ kind' = "recipe" /\ pc' = "enter"
  BY Zenon DEF StartStep, Control
<1>e. \A c \in Control : EndRecipe(c) =>
        /\ store'.updated /\ pc' = "tick"
  BY <1>m, AuthoritativeFields DEF EndRecipe
<1>10. CASE DispatchRecipe
  <2>1. /\ Taken.mode = "Recipe"
        /\ EndRecipe(Taken) \/ StartStep(Taken, 1)
    BY <1>10, Zenon DEF DispatchRecipe, Dispatching
  <2> QED BY <1>x, <1>y, <1>t, <1>r, <1>e, <2>1
<1>11. CASE PostIdle
  BY <1>11 DEF PostIdle
<1>12. CASE NextMode
  BY <1>12, <1>h DEF NextMode, AfterNatural, CycleHasKind
<1>13. CASE NaturalReady
  <2>1. pc = "drain" /\ ret = "natural" /\ UNCHANGED <<kind, ret>>
    BY <1>13 DEF NaturalReady, AfterNatural
  <2>2. CASE store.updated
    BY <1>13, <2>1, <2>2 DEF NaturalReady, AfterNatural
  <2>3. CASE ~ store.updated
    <3>1. NextSetpoint \in BOOLEAN /\ mem.next_mode \in Modes
      BY <1>0, Zenon DEF NextSetpoint, Control
    <3>2. store'.updated \/ pc' = "crash"
      BY <1>0, <1>13, <2>3, <3>1, NaturalFields DEF NaturalReady
    <3>3. pc' \in {"crash", "shutdownEnd", "tick"}
      BY <1>13 DEF NaturalReady, AfterNatural
    <3> QED BY <1>x, <1>y, <2>1, <3>2, <3>3
  <2> QED BY <2>2, <2>3
<1>14. CASE ShutdownEnd
  BY <1>14 DEF ShutdownEnd
<1>15. CASE PostStartupPrime
  <2>1. LET a == [store EXCEPT !.updated = FALSE, !.mode = "Startup",
                               !.next_mode = AfterStartup]
        IN ~ a.updated /\ a.mode = "Startup"
    BY <1>0, Zenon DEF Control
  <2>2. \/ /\ store' = [store EXCEPT !.updated = FALSE, !.mode = "Startup",
                               !.next_mode = AfterStartup]
           /\ kind' = "Startup" /\ pc' = "enter"
        \/ /\ store.mode # "Prime" /\ UNCHANGED store /\ pc' = "tick"
           /\ pc = "post" /\ kind = "startupPrime"
    BY <1>15, Zenon DEF PostStartupPrime, StartCycle
  <2> QED BY <1>x, <1>y, <2>1, <2>2
<1>16. CASE PostStep
  BY <1>16 DEF PostStep
<1>17. CASE RecipeNext
  <2>1. Running /\ kind \in Recipes
    BY <1>17, <1>h DEF RecipeNext, RecipeHasStep
  <2>2. LET a == [store EXCEPT !.updated = FALSE, !.mode = "Recipe"]
        IN ~ a.updated /\ a.mode = "Recipe"
    BY <1>0, Zenon DEF Control
  <2>3. \/ /\ store' = [store EXCEPT !.updated = FALSE, !.mode = "Recipe"]
           /\ kind' = "recipeReignite" /\ pc' = "enter"
        \/ store.updated /\ UNCHANGED store /\ pc' = "tick"
        \/ (store.mode = "Recipe" \/ ~ store.updated) /\ StartStep(store, step + 1)
        \/ EndRecipe(store)
    BY <1>17, Zenon DEF RecipeNext
  <2> QED BY <1>x, <1>y, <1>0, <1>r, <1>e, <2>1, <2>2, <2>3
<1>18. CASE PostRecipeReignite
  <2>1. LET a == [store EXCEPT !.updated = FALSE]
        IN ~ a.updated /\ a.mode = store.mode
    BY <1>0, Zenon DEF Control
  <2>2. \/ store.updated /\ UNCHANGED store /\ pc' = "tick"
        \/ /\ store' = [store EXCEPT !.updated = FALSE]
           /\ store.mode = "Recipe" \/ ~ store.updated
           /\ kind' = "recipe" /\ pc' = "enter"
    BY <1>18, Zenon DEF PostRecipeReignite
  <2>3. pc = "post" /\ kind = "recipeReignite"
    BY <1>18 DEF PostRecipeReignite
  <2> QED BY <1>x, <1>y, <2>1, <2>2, <2>3
<1> QED BY <1>1, <1>2, <1>3, <1>4, <1>5, <1>6, <1>7, <1>8, <1>9, <1>10, <1>11,
           <1>12, <1>13, <1>14, <1>15, <1>16, <1>17, <1>18 DEF Outer

LEMMA CycleModes ==
  ASSUME TypeInv, HeatInv, ModeInv, WorkCycle
  PROVE  ModeInv'
<1>0. store \in Control /\ mem \in Control /\ work \in Control
  BY DEF TypeInv, TypeOK
<1>h. CycleHasKind /\ RecipeHasStep
  BY DEF TypeInv
<1>m. "Stop" \in Modes /\ "Error" \in Modes
  BY DEF Modes
<1>a. \A c \in Control : \A m \in {"Stop", "Error"} :
        Authoritative(c, m).updated /\ Authoritative(c, m).mode = m
  BY <1>m, AuthoritativeFields
<1>f. \A c \in Control : \A below, o : FlameoutTrip(c, below, o) =>
        \/ pc' = "crash"
        \/ pc' = "finish" /\ store'.updated /\ work' = store'
  BY <1>a, ReigniteFromFields DEF FlameoutTrip, EndWith, Kept, Raise, Goto
<1>u. \A c : EndWith(c) => store' = c /\ work' = c /\ pc' = "finish"
  BY DEF EndWith, Goto
<1> USE DEF ModeInv, Running, Resting, Names, Safe, Ending, Endless, NameOf,
            Recipes, InCycle, CyclePcs, Direct, Goto, DrainThen, Drained, cycle,
            locals, session
<1>1. CASE EnterCycle
  <2> DEFINE c == EnsureCookId(store)
  <2>1. c \in Control /\ Alike(store, c)
    BY <1>0, EnsureCookIdType, EnsureCookIdFields
  <2>2. /\ \/ work' = c /\ store' = c /\ pc' = "setup"
           \/ EndWith(Authoritative(c, "Error"))
        /\ UNCHANGED <<kind, discont>> /\ stampOk' = TRUE
    BY <1>1, Zenon DEF EnterCycle
  <2>3. pc = "enter"
    BY <1>1 DEF EnterCycle
  <2> HIDE DEF c
  <2> QED BY <1>a, <1>u, <2>1, <2>2, <2>3 DEF Alike
<1>2. CASE SetupCycle
  BY <1>2 DEF SetupCycle
<1>3. CASE StampCycle
  <2>1. /\ UNCHANGED <<kind, discont, stampOk>> /\ pc = "stamp"
        /\ \/ EndWith(Authoritative(work, "Error"))
           \/ /\ \E cold \in BOOLEAN :
                    work' = [work EXCEPT !.startuptemp = TRUE,
                                         !.afterstarttemp = cold]
              /\ store' = work' /\ pc' = "loop"
           \/ CycleMode = "Hold" /\ pc' = "finish" /\ UNCHANGED <<work, store>>
           \/ pc' = "loop" /\ UNCHANGED <<work, store>>
           \/ \E below, o : FlameoutTrip(work, below, o)
    BY <1>3, Zenon DEF StampCycle
  <2>2. CASE \/ EndWith(Authoritative(work, "Error"))
             \/ \E below, o : FlameoutTrip(work, below, o)
    <3>1. \/ pc' = "crash"
          \/ pc' = "finish" /\ store'.updated /\ work' = store'
      BY <1>0, <1>a, <1>u, <1>f, <2>2
    <3>2. ~ discont'
      BY <2>1
    <3> QED BY <2>1, <3>1, <3>2
  <2>3. CASE \/ /\ \E cold \in BOOLEAN :
                    work' = [work EXCEPT !.startuptemp = TRUE,
                                         !.afterstarttemp = cold]
                /\ store' = work' /\ pc' = "loop"
             \/ pc' = "loop" /\ UNCHANGED <<work, store>>
    <3>1. Alike(work, work') /\ store' \in {work', store} /\ pc' = "loop"
      <4>1. \A cold \in BOOLEAN : Alike(work, [work EXCEPT !.startuptemp = TRUE,
                                                  !.afterstarttemp = cold])
        BY <1>0, UnseenFields
      <4>2. Alike(work, work)
        BY DEF Alike, Settings
      <4> QED BY <2>3, <4>1, <4>2, Zenon
    <3>2. ~ discont'
      BY <2>1
    <3> QED BY <2>1, <3>1, <3>2 DEF Alike
  <2>4. CASE CycleMode = "Hold" /\ pc' = "finish" /\ UNCHANGED <<work, store>>
    <3>1. kind \notin Endless
      BY <2>4 DEF CycleMode
    <3>2. ~ discont
      BY <2>1
    <3> QED BY <2>1, <2>4, <3>1, <3>2
  <2> QED BY <2>1, <2>2, <2>3, <2>4
<1>4. CASE CycleTripped
  BY <1>0, <1>4, <1>u, ClockTripFields DEF CycleTripped
<1>5. CASE BeginLoop
  BY <1>5 DEF BeginLoop
<1>6. CASE LoopReady
  <2> DEFINE kept == EnsureCookId(store)
             c == Rotated(kept)
             off == [c EXCEPT !.status = "active"]
  <2>1. kept \in Control /\ Alike(store, kept)
    BY <1>0, EnsureCookIdType, EnsureCookIdFields
  <2>2. /\ \/ EndWith(Authoritative(off, "Stop"))
           \/ work' = c /\ store' = c /\ pc' = Continue(c)
        /\ UNCHANGED <<kind, discont, stampOk>> /\ pc = "drain" /\ ret = "loop"
    BY <1>6 DEF LoopReady
  <2> HIDE DEF kept
  <2>3. c \in Control /\ Alike(kept, c)
    BY <2>1, RotatedFields
  <2> HIDE DEF c
  <2>4. off \in Control
    BY <2>3, Zenon DEF Control, StatusStates
  <2> QED BY <1>a, <1>u, <2>1, <2>2, <2>3, <2>4 DEF Alike, Continue
<1>7. CASE Sense
  <2>1. /\ UNCHANGED <<kind, discont, stampOk>> /\ pc = "sense"
        /\ \/ EndWith(Authoritative(work, "Error"))
           \/ \E c \in {work, [work EXCEPT !.manual = "none"]} :
                \/ EndWith(Authoritative(c, "Error"))
                \/ Kept(c) /\ pc' = "act"
                \/ \E low, o : FlameoutTrip(c, low, o)
    BY <1>7, Zenon DEF Sense
  <2>2. \A c \in {work, [work EXCEPT !.manual = "none"]} :
          c \in Control /\ Alike(work, c)
    <3>1. [work EXCEPT !.manual = "none"] \in Control
      BY <1>0, Zenon DEF Control
    <3> QED BY <1>0, <3>1, UnseenFields DEF Alike, Settings
  <2>3. CASE EndWith(Authoritative(work, "Error"))
    BY <1>0, <1>a, <1>u, <2>1, <2>3
  <2>4. CASE \E c \in {work, [work EXCEPT !.manual = "none"]} :
               \/ EndWith(Authoritative(c, "Error"))
               \/ \E low, o : FlameoutTrip(c, low, o)
    BY <1>a, <1>u, <1>f, <2>1, <2>2, <2>4
  <2>5. CASE \E c \in {work, [work EXCEPT !.manual = "none"]} :
               Kept(c) /\ pc' = "act"
    <3>1. PICK c \in {work, [work EXCEPT !.manual = "none"]} :
            Kept(c) /\ pc' = "act"
      BY <2>5
    <3>2. work' = c /\ store' \in {store, c} /\ Alike(work, c)
      BY <2>2, <3>1 DEF Kept
    <3> QED BY <2>1, <3>1, <3>2 DEF Alike
  <2> QED BY <2>1, <2>3, <2>4, <2>5
<1>8. CASE Act
  <2>1. PICK c \in Notified(work) :
          /\ work' = c
          /\ store' \in {c, store}
          /\ \/ pc' = "loop"
             \/ /\ pc' = "finish"
                /\ \/ CycleMode \in {"Prime", "Startup", "Reignite", "Shutdown"}
                   \/ c.mode = "Recipe"
    BY <1>8, Zenon DEF Act
  <2>2. UNCHANGED <<kind, discont, stampOk>> /\ pc = "act"
    BY <1>8 DEF Act
  <2>3. c = work \/ (c.updated /\ c.mode \in {"Shutdown", "Hold", "Reignite"})
    BY <1>0, <2>1, NotifiedFields
  <2>4. pc' = "finish" => kind \notin Endless
    BY <2>1, <2>2, <2>3 DEF CycleMode
  <2> QED BY <2>1, <2>2, <2>3, <2>4
<1>9. CASE Finish
  <2>1. /\ pc = "finish" /\ pc' = "post" /\ UNCHANGED kind
        /\ stampOk' = (stampOk /\ ~ discont)
        /\ discont' = FALSE
    BY <1>9 DEF Finish
  <2>2. Names(Ended) /\ Ended \in Control
    BY <1>0, <2>1 DEF Ended
  <2>3. CASE UNCHANGED store
    BY <2>1, <2>3
  <2>4. CASE /\ CycleMode \in {"Startup", "Reignite"}
             /\ \E cold \in BOOLEAN :
                  store' = [Ended EXCEPT !.afterstarttemp = cold]
    <3>1. Alike(Ended, store')
      BY <2>2, <2>4, UnseenFields
    <3>2. kind \notin Endless
      BY <2>4 DEF CycleMode
    <3>3. discont => store'.updated
      BY <2>1, <3>1 DEF Alike, Ended
    <3> QED BY <2>1, <2>2, <3>1, <3>2, <3>3 DEF Alike
  <2> QED BY <1>9, <2>3, <2>4, Zenon DEF Finish
<1> QED BY <1>1, <1>2, <1>3, <1>4, <1>5, <1>6, <1>7, <1>8, <1>9 DEF WorkCycle

LEMMA OtherModes ==
  ASSUME TypeInv, HeatInv, ModeInv, CleanUp \/ Restart \/ Faults \/ Requested
  PROVE  ModeInv'
<1>0. store \in Control /\ mem \in Control /\ work \in Control
  BY DEF TypeInv, TypeOK
<1> USE DEF ModeInv, Running, Resting, Names, Safe, Ending, Endless, NameOf,
            Recipes, InCycle, CyclePcs, Direct, Goto, DrainThen, Drained, cycle,
            locals, session
<1>b. ASSUME Boot PROVE ModeInv'
  <2>1. PICK cook : store' = BootControl(cook)
    BY <1>b DEF Boot
  <2>2. pc' = "tick" /\ ~ discont'
    BY <1>b DEF Boot
  <2> QED BY <2>1, <2>2, BootControlFields
<1>1. CASE CleanUp
  BY <1>1 DEF CleanUp
<1>2. CASE Restart
  BY <1>2, <1>b DEF Restart
<1>3. CASE IdleGap
  BY <1>3 DEF IdleGap
<1>4. CASE CycleGap
  <2>1. /\ pc \in CyclePcs \cup {"enter"}
        /\ pc' = "drain" /\ ret' = "cycleTrip" /\ discont'
        /\ UNCHANGED <<kind, work, mem, stampOk>>
    BY <1>4 DEF CycleGap
  <2>2. store' = store \/ (setupDone /\ store' = [work EXCEPT !.manual = "none"])
    BY <1>4 DEF CycleGap
  <2>3. setupDone => pc \in CyclePcs
    BY <2>1 DEF HeatInv, SetupEndsWithCycle
  <2>4. Alike(work, [work EXCEPT !.manual = "none"])
    BY <1>0, UnseenFields
  <2>5. Names(store)'
    BY <2>1, <2>2, <2>3, <2>4 DEF Alike
  <2> QED BY <2>1, <2>5
<1>5. CASE CycleRaises
  BY <1>5 DEF CycleRaises, Raise
<1>6. CASE Kill
  BY <1>6 DEF Kill
<1>7. CASE HostHalts
  BY <1>7 DEF HostHalts
<1>8. CASE PowerUp
  BY <1>8, <1>b DEF PowerUp
<1>9. CASE Watchdog
  <2> DEFINE a == Authoritative(store, "Error")
  <2>1. a \in Control /\ a.updated /\ a.mode = "Error"
    BY <1>0, AuthoritativeType, AuthoritativeFields DEF Modes
  <2>2. store' = [a EXCEPT !.critical_error = TRUE]
    BY <1>9 DEF Watchdog
  <2> HIDE DEF a
  <2>3. store'.updated /\ store'.mode = "Error"
    BY <2>1, <2>2, Zenon DEF Control
  <2>4. UNCHANGED <<pc, ret, kind, mem, work, discont, stampOk>>
        /\ (InCycle \/ pc = "enter")
    BY <1>9 DEF Watchdog
  <2> QED BY <2>3, <2>4
<1>10. CASE Requested
  <2>1. UNCHANGED <<store, mem, work, kind, pc, ret, discont, stampOk>>
    BY <1>10, Zenon DEF Requested, Enqueue, RequestClear, FlipSwitch
  <2> QED BY <2>1
<1> QED BY <1>1, <1>2, <1>3, <1>4, <1>5, <1>6, <1>7, <1>8, <1>9, <1>10 DEF Faults

LEMMA ModeInvAlways == Spec => []ModeInv
<1>1. Init => ModeInv
  BY BootControlFields
     DEF Init, ModeInv, Running, Resting, Names, Safe, Ending, InCycle, CyclePcs
<1>2. TypeInv /\ HeatInv /\ ModeInv /\ [Next]_vars => ModeInv'
  <2>1. ASSUME ModeInv, UNCHANGED vars PROVE ModeInv'
    BY <2>1 DEF vars, ModeInv, Running, Resting, Names, Safe, Ending, InCycle
  <2>2. ASSUME TypeInv, HeatInv, ModeInv, Next PROVE ModeInv'
    BY <2>2, OuterModes, CycleModes, OtherModes DEF Next
  <2> QED BY <2>1, <2>2
<1> QED BY <1>1, <1>2, TypeInvAlways, HeatInvAlways, PTL DEF Spec

\* The record the interfaces show names the mode that is running, whatever was
\* queued while the cycle ran and whichever way a step of a recipe ended.
THEOREM RecordNamesItsCycle == Spec => []RecordNamesCycle
<1>1. ModeInv => RecordNamesCycle
  <2> SUFFICES ASSUME ModeInv, InCycle, ~ store.updated
               PROVE  store.mode = IF kind \in {"recipe", "recipeReignite"}
                                     THEN "Recipe" ELSE CycleMode
    BY DEF RecordNamesCycle
  <2>1. store.mode = NameOf(kind)
    BY DEF ModeInv, Running, InCycle, Names
  <2> QED BY <2>1 DEF NameOf, Recipes, CycleMode
<1> QED BY <1>1, ModeInvAlways, PTL

\* The outer loop never sits in a mode that nothing runs.
THEOREM RestsOnlyStopped == Spec => []NeverIdlesInCycleMode
<1>1. ModeInv => NeverIdlesInCycleMode
  BY DEF ModeInv, Resting, Safe, NeverIdlesInCycleMode
<1> QED BY <1>1, ModeInvAlways, PTL


-----------------------------------------------------------------------------
(* What the handlers hand on: setpoints, the mode to reignite to, the next *)
(* mode.  Two conditions on what the other processes enqueue.              *)

\* A delta to Hold names a setpoint, nobody asks for Reignite by hand, and a
\* prime goes on to a mode the interfaces offer (_cmd_set_mode).
SetpointsNamed ==
  \A d \in Requests :
    /\ d.op = "mode" => d.mode \notin {"Hold", "Reignite"}
    /\ d.op = "prime" => d.next \in {"Startup", "Monitor", "Stop"}

\* A prime is asked for with a next mode, one that ALLOWED_EXITS has.
PrimesExit ==
  \A d \in Requests :
    /\ d.op = "mode" => d.mode # "Prime"
    /\ d.op = "prime" => d.next \in {"Startup", "Stop"}

WellSet(c) ==
  SetpointsNamed =>
    /\ c.mode = "Hold" => c.primary_setpoint
    /\ c.mode = "Reignite" /\ c.reignitelaststate = "Hold" => c.primary_setpoint
    /\ c.next_mode \in {"Stop", "Startup", "Monitor", "Smoke", "Hold"}
Good(c) == WellSet(c) /\ c.reignitelaststate \in {"Smoke", "Hold"}
Primed(c) ==
  PrimesExit => (c.mode = "Prime" => c.next_mode \in {"Startup", "Stop"})
Set(c) == SetpointsNamed => c.primary_setpoint

HoldKind == kind = "Hold" \/ (kind \in Recipes /\ RecipeSteps[step] = "Hold")

\* What the handler of a cycle holds in memory.
Handed ==
  /\ kind \in Direct => mem.mode = kind
  /\ kind = "Reignite" => mem.next_mode = mem.reignitelaststate
  /\ kind = "Shutdown" => mem.next_mode = "Stop"
  /\ kind = "Startup" => mem.next_mode = AfterStartup
  /\ kind = "Prime" => Primed(mem)

HandInv ==
  /\ Good(store) /\ Good(mem) /\ Good(work)
  /\ Running /\ HoldKind => Set(store)
  /\ pc \in CyclePcs /\ HoldKind => Set(work)
  /\ Running => Handed
  /\ Resting \/ pc = "shutdownEnd" \/ (Running /\ kind # "startupPrime")
       => Primed(store)
  /\ pc \in CyclePcs /\ kind # "startupPrime" => Primed(work)
  /\ pc \in {"setup", "stamp"} => ~ work.updated \/ work.mode = "Error"
  /\ pc = "enter" => ~ store.updated \/ store.mode = "Error"

LEMMA AlikeGood ==
  ASSUME NEW c, NEW d, Alike(c, d)
  PROVE  /\ Good(c) => Good(d)
         /\ Primed(c) => Primed(d)
         /\ Set(c) => Set(d)
BY DEF Alike, Settings, Good, WellSet, Primed, Set

LEMMA TerminalGood ==
  ASSUME NEW c, NEW d, Settings(c, d), d.mode \in {"Stop", "Error", "Shutdown"}
  PROVE  /\ Good(c) => Good(d)
         /\ Primed(d)
         /\ Set(c) => Set(d)
BY DEF Settings, Good, WellSet, Primed, Set

LEMMA ApplyDeltaGood ==
  ASSUME NEW c \in Control, NEW d \in Requests
  PROVE  /\ Good(c) => Good(ApplyDelta(c, d))
         /\ Primed(c) => Primed(ApplyDelta(c, d))
         /\ Set(c) => Set(ApplyDelta(c, d))
<1>1. d \in Deltas
  BY LoopAssumption
<1> DEFINE r == ApplyDelta(c, d)
<1>2. /\ r.reignitelaststate = c.reignitelaststate
      /\ c.primary_setpoint => r.primary_setpoint
      /\ \/ r.mode = c.mode \/ (d.op = "mode" /\ r.mode = d.mode)
         \/ (d.op = "prime" /\ r.mode = "Prime")
         \/ (r.mode = "Hold" /\ r.primary_setpoint)
      /\ IF d.op = "prime" THEN r.next_mode = d.next /\ r.mode = "Prime"
                           ELSE r.next_mode = c.next_mode
  BY <1>1, ApplyDeltaFields
<1> HIDE DEF r
<1>3. Good(c) => Good(r)
  BY <1>2 DEF Good, WellSet, SetpointsNamed
<1>4. Primed(c) => Primed(r)
  BY <1>2 DEF Primed, PrimesExit
<1>5. Set(c) => Set(r)
  BY <1>2 DEF Set
<1> QED BY <1>3, <1>4, <1>5 DEF r

LEMMA FiredGood ==
  ASSUME NEW c \in Control, NEW f \in Fired(c), Good(c)
  PROVE  Good(f) /\ (Primed(c) => Primed(f)) /\ (Set(c) => Set(f))
BY FiredFields DEF Good, WellSet, Primed, Set

LEMMA NotifiedGood ==
  ASSUME NEW c \in Control, NEW n \in Notified(c), Good(c)
  PROVE  Good(n) /\ (Primed(c) => Primed(n)) /\ (Set(c) => Set(n))
<1>1. CASE n \in {c} \cup Fired(c)
  BY <1>1, FiredGood
<1>2. ASSUME NEW d \in Fired(c), n \in Fired(d)
      PROVE  Good(n) /\ (Primed(c) => Primed(n)) /\ (Set(c) => Set(n))
  BY <1>2, FiredGood, FiredType
<1> QED BY <1>1, <1>2 DEF Notified

LEMMA TakenGood ==
  ASSUME mem \in Control, Good(mem), Primed(mem)
  PROVE  Good(Taken) /\ Primed(Taken)
BY TakenFields DEF Settings, Good, WellSet, Primed

LEMMA ReigniteFromGood ==
  ASSUME NEW c \in Control, Good(c), NEW from \in {"Smoke", "Hold"},
         from = "Hold" => Set(c)
  PROVE  LET r == ReigniteFrom(c, from) IN
         Good(r) /\ Primed(r) /\ (Set(c) => Set(r))
BY ReigniteFromFields DEF Good, WellSet, Primed, Set

LEMMA FreshRecordsGood ==
  ASSUME NEW cook
  PROVE  /\ Good(BootControl(cook)) /\ Primed(BootControl(cook))
         /\ \A c : c.mode \in {"Stop", "Error"} =>
              Good(ResetControl(c, cook)) /\ Primed(ResetControl(c, cook))
BY BootControlFields, ResetControlFields DEF Good, WellSet, Primed

LEMMA OuterHands ==
  ASSUME TypeInv, ModeInv, HandInv, Outer
  PROVE  HandInv'
<1>0. store \in Control /\ mem \in Control /\ work \in Control
  BY DEF TypeInv, TypeOK
<1>h. CycleHasKind /\ RecipeHasStep
  BY DEF TypeInv
<1>m. "Stop" \in Modes /\ "Error" \in Modes
  BY DEF Modes
<1>g. Good(store) /\ Good(mem) /\ Good(work)
  BY DEF HandInv
<1>t. pc = "dispatch" => Good(Taken) /\ Primed(Taken)
  BY <1>0, TakenGood DEF HandInv, ModeInv, Resting
<1>u. ~ Taken.updated /\ Taken \in Control /\ Settings(mem, Taken)
  BY <1>0, TakenFields, TakenType
<1>a. \A c \in Control : \A m \in {"Stop", "Error"} :
        /\ Good(c) => Good(Authoritative(c, m))
        /\ Primed(Authoritative(c, m))
        /\ Set(c) => Set(Authoritative(c, m))
  BY <1>m, AuthoritativeFields, TerminalGood
<1>d. pc' \notin CyclePcs
  BY Zenon DEF Outer, IdleTripped, BeginTick, ApplyHead, PollControl,
       NoDispatch, DispatchTerminal, Archive, DispatchPlain, DispatchStartup,
       DispatchRecipe, PostIdle, NextMode, NaturalReady, ShutdownEnd,
       PostStartupPrime, PostStep, RecipeNext, PostRecipeReignite, StartCycle,
       StartStep, EndRecipe, AfterNatural, Goto, DrainThen, Drained, CyclePcs
<1>k. /\ "tick" \notin CyclePcs /\ "drain" \notin CyclePcs
      /\ "dispatch" \notin CyclePcs /\ "shutdownEnd" \notin CyclePcs
      /\ "archive" \notin CyclePcs /\ "enter" \notin CyclePcs
  BY DEF CyclePcs
<1> USE <1>d, <1>k, <1>g
    DEF HandInv, Running, Resting, Handed, HoldKind, Direct, Recipes, Goto,
        DrainThen, Drained, cycle, locals, session
<1>1. CASE IdleTripped
  <2>1. LET d == ClockTrip(store) IN Good(d) /\ Primed(d)
    BY <1>0, ClockTripFields, TerminalGood
  <2>2. /\ store' = ClockTrip(store) /\ mem' = store' /\ work' = work
        /\ pc' = "tick"
    BY <1>1 DEF IdleTripped
  <2> QED BY <2>1, <2>2
<1>2. CASE BeginTick
  <2>1. /\ \/ UNCHANGED <<mem, store>>
           \/ mem' = Authoritative(mem, "Stop") /\ store' = mem'
        /\ work' = work /\ pc = "tick" /\ pc' = "drain" /\ ret' = "tick"
    BY <1>2, Zenon DEF BeginTick
  <2> QED BY <1>0, <1>a, <2>1
<1>3. CASE ApplyHead
  <2>1. Head(queue) \in Requests
    BY <1>3, SMT DEF ApplyHead, TypeInv, TypeOK
  <2>2. /\ Good(store')
        /\ Primed(store) => Primed(store')
        /\ Set(store) => Set(store')
    BY <1>0, <1>3, <2>1, ApplyDeltaGood DEF ApplyHead
  <2>3. pc = "drain" /\ UNCHANGED <<pc, ret, kind, step, mem, work>>
    BY <1>3 DEF ApplyHead
  <2> QED BY <2>2, <2>3
<1>4. CASE PollControl
  <2> DEFINE c == IF clear THEN FlushHistory(store) ELSE store
  <2>1. c \in Control /\ Alike(store, c)
    BY <1>0, FlushHistoryType, FlushHistoryFields DEF Alike, Settings
  <2>2. PICK n \in Notified(c) : mem' = n /\ store' = n
    BY <1>4, Zenon DEF PollControl
  <2>3. pc = "drain" /\ ret = "tick" /\ pc' = "dispatch" /\ work' = work
    BY <1>4 DEF PollControl
  <2> HIDE DEF c
  <2>4. Good(c) /\ Primed(c)
    BY <2>1, <2>3, AlikeGood
  <2>5. Good(n) /\ Primed(n)
    BY <2>1, <2>4, NotifiedGood
  <2> QED BY <2>2, <2>3, <2>5
<1>5. CASE NoDispatch
  BY <1>5 DEF NoDispatch
<1>6. CASE DispatchTerminal
  <2>1. pc = "dispatch" /\ pc' = "archive" /\ mem' = Taken /\ store' = Taken
        /\ work' = work
    BY <1>6, Zenon DEF DispatchTerminal
  <2> QED BY <1>t, <2>1
<1>7. CASE Archive
  <2>1. PICK cook : store' = ResetControl(mem, cook) /\ mem' = store'
                      /\ work' = work /\ pc = "archive" /\ pc' = "tick"
    BY <1>7, Zenon DEF Archive
  <2>2. mem.mode \in {"Stop", "Error"}
    BY <2>1 DEF ModeInv, Safe
  <2> QED BY <2>1, <2>2, FreshRecordsGood
<1>8. CASE DispatchPlain
  <2> DEFINE a(x) == [Taken EXCEPT !.next_mode = x]
             b == [Taken EXCEPT !.status = "monitor"]
  <2>1. /\ pc = "dispatch" /\ work' = work
        /\ \/ \E m \in {"Prime", "Smoke", "Hold", "Manual"} :
                Taken.mode = m /\ StartCycle(m, Taken)
           \/ Taken.mode = "Shutdown" /\ StartCycle("Shutdown", a("Stop"))
           \/ Taken.mode = "Monitor" /\ StartCycle("Monitor", b)
           \/ /\ Taken.mode = "Reignite"
              /\ StartCycle("Reignite", a(Taken.reignitelaststate))
    BY <1>8, Zenon DEF DispatchPlain, Dispatching
  <2>2. \A x : /\ ~ a(x).updated /\ a(x).mode = Taken.mode
               /\ a(x).next_mode = x
               /\ a(x).reignitelaststate = Taken.reignitelaststate
               /\ a(x).primary_setpoint = Taken.primary_setpoint
    BY <1>u, Zenon DEF Control
  <2>3. ~ b.updated /\ Alike(Taken, b)
    BY <1>u, Zenon DEF Control, Alike, Settings
  <2> HIDE DEF a, b
  <2>4. Good(Taken) /\ Primed(Taken)
    BY <1>t, <2>1
  <2>5. ASSUME NEW m \in {"Prime", "Smoke", "Hold", "Manual"},
               Taken.mode = m, StartCycle(m, Taken)
        PROVE  HandInv'
    BY <1>u, <2>1, <2>4, <2>5 DEF StartCycle, Good, WellSet, Set
  <2>6. CASE Taken.mode = "Shutdown" /\ StartCycle("Shutdown", a("Stop"))
    <3>1. Good(a("Stop")) /\ Primed(a("Stop"))
      BY <2>2, <2>4, <2>6 DEF Good, WellSet, Primed
    <3> QED BY <2>1, <2>2, <2>6, <3>1 DEF StartCycle
  <2>7. CASE Taken.mode = "Monitor" /\ StartCycle("Monitor", b)
    <3>1. Good(b) /\ Primed(b)
      BY <2>3, <2>4, AlikeGood
    <3> QED BY <2>1, <2>3, <2>7, <3>1 DEF StartCycle
  <2>8. CASE /\ Taken.mode = "Reignite"
             /\ StartCycle("Reignite", a(Taken.reignitelaststate))
    <3>1. Good(a(Taken.reignitelaststate)) /\ Primed(a(Taken.reignitelaststate))
      BY <2>2, <2>4, <2>8 DEF Good, WellSet, Primed
    <3> QED BY <2>1, <2>2, <2>8, <3>1 DEF StartCycle
  <2> QED BY <2>1, <2>5, <2>6, <2>7, <2>8
<1>9. CASE DispatchStartup
  <2> DEFINE a == [Taken EXCEPT !.next_mode = AfterStartup]
             b == [Taken EXCEPT !.mode = "Prime"]
  <2>1. /\ Taken.mode = "Startup" /\ pc = "dispatch" /\ work' = work
        /\ StartCycle("startupPrime", b) \/ StartCycle("Startup", a)
    BY <1>9, Zenon DEF DispatchStartup, Dispatching
  <2>2. ~ a.updated /\ a.mode = Taken.mode /\ a.next_mode = AfterStartup
        /\ a.reignitelaststate = Taken.reignitelaststate
        /\ a.primary_setpoint = Taken.primary_setpoint
    BY <1>u, Zenon DEF Control
  <2>3. ~ b.updated /\ b.mode = "Prime" /\ Settings(Taken, b)
    BY <1>u, Zenon DEF Control, Settings
  <2> HIDE DEF a, b
  <2>4. AfterStartup \in {"Smoke", "Hold"}
    BY LoopAssumption
  <2>5. Good(a) /\ Primed(a) /\ Good(b)
    BY <1>t, <2>1, <2>2, <2>3, <2>4 DEF Good, WellSet, Primed, Settings
  <2> QED BY <2>1, <2>2, <2>3, <2>5 DEF StartCycle
<1>r. \A c \in Control : \A n : StartStep(c, n) /\ c.mode = "Recipe" /\ Good(c)
        => /\ ~ store'.updated /\ Good(store') /\ Primed(store')
           /\ RecipeSteps[n] = "Hold" => Set(store')
           /\ kind' = "recipe" /\ step' = n /\ pc' = "enter"
  <2> SUFFICES ASSUME NEW c \in Control, NEW n, StartStep(c, n),
                      c.mode = "Recipe", Good(c)
               PROVE  /\ ~ store'.updated /\ Good(store') /\ Primed(store')
                      /\ RecipeSteps[n] = "Hold" => Set(store')
                      /\ kind' = "recipe" /\ step' = n /\ pc' = "enter"
    OBVIOUS
  <2> DEFINE hold == RecipeSteps[n] = "Hold"
  <2>1. store' = [c EXCEPT !.updated = FALSE, !.primary_setpoint = hold]
    BY DEF StartStep
  <2> HIDE DEF hold
  <2>2. /\ ~ store'.updated /\ store'.mode = c.mode
        /\ store'.next_mode = c.next_mode
        /\ store'.reignitelaststate = c.reignitelaststate
        /\ store'.primary_setpoint = hold
    BY <2>1, Zenon DEF Control
  <2> QED BY <2>2 DEF StartStep, Good, WellSet, Primed, Set, hold
<1>e. \A c \in Control : EndRecipe(c) /\ Good(c) =>
        Good(store') /\ Primed(store') /\ pc' = "tick"
  BY <1>a DEF EndRecipe
<1>10. CASE DispatchRecipe
  <2>1. /\ Taken.mode = "Recipe" /\ pc = "dispatch" /\ mem' = Taken
        /\ work' = work
        /\ EndRecipe(Taken) \/ StartStep(Taken, 1)
    BY <1>10, Zenon DEF DispatchRecipe, Dispatching
  <2>2. Good(Taken) /\ Taken \in Control
    BY <1>t, <1>u, <2>1
  <2> QED BY <1>r, <1>e, <2>1, <2>2
<1>11. CASE PostIdle
  BY <1>11 DEF PostIdle
<1>12. CASE NextMode
  BY <1>12 DEF NextMode, AfterNatural
<1>13. CASE NaturalReady
  <2>1. /\ pc = "drain" /\ ret = "natural"
        /\ pc' \in {"crash", "shutdownEnd", "tick"}
        /\ UNCHANGED <<kind, ret, mem, work>>
    BY <1>13 DEF NaturalReady, AfterNatural
  <2>2. CASE UNCHANGED store
    <3>1. kind # "startupPrime"
      BY <2>1 DEF ModeInv
    <3> QED BY <2>1, <2>2, <3>1
  <2>3. CASE /\ ~ store.updated
             /\ Legal(store.mode, mem.next_mode)
             /\ store' = Natural(store, mem.next_mode, NextSetpoint)
    <3>1. NextSetpoint \in BOOLEAN /\ mem.next_mode \in Modes
      BY <1>0, Zenon DEF NextSetpoint, Control
    <3>2. /\ store'.mode = mem.next_mode
          /\ store'.next_mode = store.next_mode
          /\ store'.reignitelaststate = store.reignitelaststate
          /\ mem.next_mode = "Hold" => store'.primary_setpoint = NextSetpoint
      BY <1>0, <2>3, <3>1, NaturalFields
    <3>3. kind \in Direct /\ store.mode = kind /\ mem.mode = kind
      BY <2>1, <2>3 DEF ModeInv, Names, NameOf
    <3>4. kind \in {"Prime", "Startup", "Hold", "Shutdown", "Reignite"}
      BY <2>1, <2>3, <3>3 DEF ModeInv, Ending, Endless
    <3>5. SetpointsNamed /\ mem.next_mode = "Hold" => NextSetpoint
      BY <2>1, <3>3, <3>4 DEF NextSetpoint, Good, WellSet
    <3>6. Good(store')
      BY <3>2, <3>5 DEF Good, WellSet
    <3>7. mem.next_mode # "Prime"
      <4>1. AfterStartup # "Prime"
        BY LoopAssumption
      <4> QED BY <2>1, <2>3, <3>3, <3>4, <4>1
              DEF Legal, AllowedExits, Good
    <3> QED BY <2>1, <3>2, <3>6, <3>7 DEF Primed
  <2>4. store' = store
          \/ (/\ ~ store.updated
              /\ Legal(store.mode, mem.next_mode)
              /\ store' = Natural(store, mem.next_mode, NextSetpoint))
    BY <1>13, Zenon DEF NaturalReady
  <2> QED BY <2>2, <2>3, <2>4
<1>14. CASE ShutdownEnd
  BY <1>14 DEF ShutdownEnd
<1>15. CASE PostStartupPrime
  <2> DEFINE a == [store EXCEPT !.updated = FALSE, !.mode = "Startup",
                                !.next_mode = AfterStartup]
  <2>1. ~ a.updated /\ a.mode = "Startup" /\ a.next_mode = AfterStartup
        /\ a.reignitelaststate = store.reignitelaststate
    BY <1>0, Zenon DEF Control
  <2>2. /\ work' = work /\ mem' = store'
        /\ \/ store' = a /\ kind' = "Startup" /\ pc' = "enter"
           \/ store.mode # "Prime" /\ UNCHANGED store /\ pc' = "tick"
    BY <1>15, Zenon DEF PostStartupPrime, StartCycle
  <2> HIDE DEF a
  <2>3. AfterStartup \in {"Smoke", "Hold"}
    BY LoopAssumption
  <2> QED BY <2>1, <2>2, <2>3 DEF Good, WellSet, Primed
<1>16. CASE PostStep
  BY <1>16 DEF PostStep
<1>17. CASE RecipeNext
  <2> DEFINE a == [store EXCEPT !.updated = FALSE, !.mode = "Recipe"]
  <2>1. Running /\ kind = "recipe"
    BY <1>17, <1>h DEF RecipeNext, RecipeHasStep
  <2>2. ~ a.updated /\ a.mode = "Recipe" /\ Settings(store, a)
    BY <1>0, Zenon DEF Control, Settings
  <2>3. /\ UNCHANGED <<mem, work>>
        /\ \/ store' = a /\ kind' = "recipeReignite" /\ step' = step /\ pc' = "enter"
           \/ UNCHANGED store /\ pc' = "tick"
           \/ (store.mode = "Recipe" \/ ~ store.updated) /\ StartStep(store, step + 1)
           \/ EndRecipe(store)
    BY <1>17, Zenon DEF RecipeNext
  <2> HIDE DEF a
  <2>4. ~ store.updated => store.mode = "Recipe"
    BY <2>1 DEF ModeInv, Names, NameOf
  <2>5. Good(a) /\ Primed(a) /\ (Set(store) => Set(a))
    BY <2>2 DEF Good, WellSet, Primed, Set, Settings
  <2>6. CASE store' = a /\ kind' = "recipeReignite" /\ step' = step /\ pc' = "enter"
    BY <2>1, <2>2, <2>3, <2>5, <2>6
  <2>7. CASE UNCHANGED store /\ pc' = "tick"
    BY <2>1, <2>3, <2>7
  <2>8. CASE (store.mode = "Recipe" \/ ~ store.updated) /\ StartStep(store, step + 1)
    <3>1. /\ ~ store'.updated /\ Good(store') /\ Primed(store')
          /\ RecipeSteps[step + 1] = "Hold" => Set(store')
          /\ kind' = "recipe" /\ step' = step + 1 /\ pc' = "enter"
      BY <1>0, <1>r, <2>4, <2>8
    <3> QED BY <2>3, <3>1
  <2>9. CASE EndRecipe(store)
    BY <1>0, <1>e, <2>3, <2>9
  <2> QED BY <2>3, <2>6, <2>7, <2>8, <2>9
<1>18. CASE PostRecipeReignite
  <2> DEFINE a == [store EXCEPT !.updated = FALSE]
  <2>1. ~ a.updated /\ a.mode = store.mode /\ Settings(store, a)
    BY <1>0, Zenon DEF Control, Settings
  <2>2. /\ pc = "post" /\ kind = "recipeReignite"
        /\ UNCHANGED <<mem, work, step>>
        /\ \/ UNCHANGED store /\ pc' = "tick"
           \/ store' = a /\ kind' = "recipe" /\ pc' = "enter"
    BY <1>18, Zenon DEF PostRecipeReignite
  <2> HIDE DEF a
  <2> QED BY <2>1, <2>2 DEF Good, WellSet, Primed, Set, Settings
<1> QED BY <1>1, <1>2, <1>3, <1>4, <1>5, <1>6, <1>7, <1>8, <1>9, <1>10, <1>11,
           <1>12, <1>13, <1>14, <1>15, <1>16, <1>17, <1>18 DEF Outer

LEMMA CycleHands ==
  ASSUME TypeInv, ModeInv, HandInv, WorkCycle
  PROVE  HandInv'
<1>0. store \in Control /\ mem \in Control /\ work \in Control
  BY DEF TypeInv, TypeOK
<1>m. "Stop" \in Modes /\ "Error" \in Modes
  BY DEF Modes
<1>g. Good(store) /\ Good(mem) /\ Good(work)
  BY DEF HandInv
<1>a. \A c \in Control : \A m \in {"Stop", "Error"} :
        LET d == Authoritative(c, m) IN
        /\ Good(c) => Good(d)
        /\ Primed(d)
        /\ Set(c) => Set(d)
        /\ d.mode = m
  BY <1>m, AuthoritativeFields, TerminalGood
<1>u. \A c : EndWith(c) => store' = c /\ work' = c /\ pc' = "finish"
  BY DEF EndWith, Goto
<1>n. UNCHANGED <<kind, step, mem>>
  BY Zenon DEF WorkCycle, EnterCycle, SetupCycle, StampCycle, CycleTripped,
     BeginLoop, LoopReady, Sense, Act, Finish, locals
<1>k. HoldKind /\ pc \in CyclePcs => CycleMode = "Hold" \/ kind = "recipeReignite"
  BY DEF HoldKind, CycleMode, Recipes
<1>j. CycleMode = "Hold" /\ pc \in CyclePcs => HoldKind
  BY DEF HoldKind, CycleMode, Recipes
<1>f. \A c \in Control : \A below, o :
        /\ FlameoutTrip(c, below, o) /\ CycleMode \in {"Smoke", "Hold"}
        /\ Good(c) /\ (CycleMode = "Hold" => Set(c))
        => \/ pc' = "crash" /\ work' = c /\ store' \in {store, c}
           \/ /\ pc' = "finish" /\ Good(store') /\ Primed(store')
              /\ Set(c) => Set(store')
              /\ work' = store'
  BY <1>a, ReigniteFromGood DEF FlameoutTrip, EndWith, Kept, Raise, Goto
<1> USE <1>g, <1>n
    DEF HandInv, Running, Resting, Handed, HoldKind, Recipes, CyclePcs, Goto,
        DrainThen, Drained, cycle, locals, session
<1>1. CASE EnterCycle
  <2> DEFINE c == EnsureCookId(store)
  <2>1. c \in Control /\ Alike(store, c)
    BY <1>0, EnsureCookIdType, EnsureCookIdFields
  <2>2. /\ pc = "enter"
        /\ \/ work' = c /\ store' = c /\ pc' = "setup"
           \/ EndWith(Authoritative(c, "Error"))
    BY <1>1, Zenon DEF EnterCycle
  <2> HIDE DEF c
  <2>3. /\ Good(c) /\ (Primed(store) => Primed(c)) /\ (Set(store) => Set(c))
        /\ c.mode = store.mode /\ c.updated = store.updated
    BY <2>1, AlikeGood DEF Alike
  <2> QED BY <1>a, <1>u, <2>1, <2>2, <2>3
<1>2. CASE SetupCycle
  BY <1>2 DEF SetupCycle
<1>3. CASE StampCycle
  <2>1. /\ pc = "stamp"
        /\ \/ EndWith(Authoritative(work, "Error"))
           \/ /\ \E cold \in BOOLEAN :
                    work' = [work EXCEPT !.startuptemp = TRUE,
                                         !.afterstarttemp = cold]
              /\ store' = work' /\ pc' = "loop"
           \/ CycleMode = "Hold" /\ pc' = "finish" /\ UNCHANGED <<work, store>>
           \/ pc' = "loop" /\ UNCHANGED <<work, store>>
           \/ /\ CycleMode \in {"Smoke", "Hold"}
              /\ \E below, o : FlameoutTrip(work, below, o)
    BY <1>3, Zenon DEF StampCycle
  <2>2. CASE EndWith(Authoritative(work, "Error"))
    BY <1>0, <1>a, <1>u, <2>1, <2>2
  <2>3. CASE /\ \E cold \in BOOLEAN :
                  work' = [work EXCEPT !.startuptemp = TRUE,
                                       !.afterstarttemp = cold]
             /\ store' = work' /\ pc' = "loop"
    <3>1. \A cold \in BOOLEAN : Alike(work, [work EXCEPT !.startuptemp = TRUE,
                                                  !.afterstarttemp = cold])
      BY <1>0, UnseenFields
    <3>2. Alike(work, work')
      BY <2>3, <3>1, Zenon
    <3>3. /\ Good(work') /\ (Primed(work) => Primed(work'))
          /\ (Set(work) => Set(work'))
      BY <3>2, AlikeGood
    <3> QED BY <2>1, <2>3, <3>3
  <2>4. CASE pc' \in {"finish", "loop"} /\ UNCHANGED <<work, store>>
    BY <2>1, <2>4
  <2>5. CASE /\ CycleMode \in {"Smoke", "Hold"}
             /\ \E below, o : FlameoutTrip(work, below, o)
    <3>1. CycleMode = "Hold" => Set(work)
      BY <1>j, <2>1
    <3>2. \/ pc' = "crash" /\ work' = work /\ store' \in {store, work}
          \/ /\ pc' = "finish" /\ Good(store') /\ Primed(store')
             /\ Set(work) => Set(store')
             /\ work' = store'
      BY <1>0, <1>f, <2>5, <3>1
    <3> QED BY <2>1, <3>2
  <2> QED BY <2>1, <2>2, <2>3, <2>4, <2>5
<1>4. CASE CycleTripped
  <2>1. LET d == ClockTrip(store) IN
        Good(d) /\ Primed(d) /\ (Set(store) => Set(d))
    BY <1>0, ClockTripFields, TerminalGood
  <2>2. pc = "drain" /\ ret = "cycleTrip" /\ EndWith(ClockTrip(store))
    BY <1>4 DEF CycleTripped
  <2> QED BY <1>u, <2>1, <2>2
<1>5. CASE BeginLoop
  BY <1>5 DEF BeginLoop
<1>6. CASE LoopReady
  <2> DEFINE kept == EnsureCookId(store)
             c == Rotated(kept)
             off == [c EXCEPT !.status = "active"]
  <2>1. kept \in Control /\ Alike(store, kept)
    BY <1>0, EnsureCookIdType, EnsureCookIdFields
  <2>2. /\ \/ EndWith(Authoritative(off, "Stop"))
           \/ work' = c /\ store' = c /\ pc' \in {"finish", "sense"}
        /\ pc = "drain" /\ ret = "loop"
    BY <1>6 DEF LoopReady, Continue
  <2> HIDE DEF kept
  <2>3. c \in Control /\ Alike(kept, c)
    BY <2>1, RotatedFields
  <2> HIDE DEF c
  <2>4. off \in Control /\ Alike(c, off)
    BY <2>3, UnseenFields, Zenon DEF Control, StatusStates
  <2>5. /\ Good(c) /\ (Primed(store) => Primed(c)) /\ (Set(store) => Set(c))
        /\ Good(off) /\ (Set(store) => Set(off))
    <3>1. /\ Good(kept) /\ (Primed(store) => Primed(kept)) /\ (Set(store) => Set(kept))
      BY <2>1, AlikeGood
    <3>2. /\ Good(c) /\ (Primed(store) => Primed(c)) /\ (Set(store) => Set(c))
      BY <2>3, <3>1, AlikeGood
    <3> QED BY <2>4, <3>2, AlikeGood
  <2> HIDE DEF off
  <2> QED BY <1>a, <1>u, <2>2, <2>4, <2>5
<1>7. CASE Sense
  <2>1. /\ pc = "sense"
        /\ \E c \in {work, [work EXCEPT !.manual = "none"]} :
                \/ EndWith(Authoritative(c, "Error"))
                \/ Kept(c) /\ pc' = "act"
                \/ /\ CycleMode \in {"Smoke", "Hold"}
                   /\ \E low, o : FlameoutTrip(c, low, o)
    <3>1. Flameout(FALSE, work) = "ok"
          /\ Flameout(FALSE, [work EXCEPT !.manual = "none"]) = "ok"
      BY DEF Flameout
    <3> QED BY <1>7, <3>1, Zenon DEF Sense
  <2>2. PICK c \in {work, [work EXCEPT !.manual = "none"]} :
                \/ EndWith(Authoritative(c, "Error"))
                \/ Kept(c) /\ pc' = "act"
                \/ /\ CycleMode \in {"Smoke", "Hold"}
                   /\ \E low, o : FlameoutTrip(c, low, o)
    BY <2>1
  <2>3. c \in Control /\ Alike(work, c)
    <3>1. [work EXCEPT !.manual = "none"] \in Control
      BY <1>0, Zenon DEF Control
    <3> QED BY <1>0, <3>1, UnseenFields DEF Alike, Settings
  <2>4. Good(c) /\ (Primed(work) => Primed(c)) /\ (Set(work) => Set(c))
    BY <2>3, AlikeGood
  <2>5. CASE EndWith(Authoritative(c, "Error"))
    BY <1>a, <1>u, <2>1, <2>3, <2>4, <2>5
  <2>6. CASE Kept(c) /\ pc' = "act"
    BY <2>1, <2>4, <2>6 DEF Kept
  <2>7. CASE /\ CycleMode \in {"Smoke", "Hold"}
             /\ \E low, o : FlameoutTrip(c, low, o)
    <3>1. CycleMode = "Hold" => Set(c)
      BY <1>j, <2>1, <2>4
    <3>2. \/ pc' = "crash" /\ work' = c /\ store' \in {store, c}
          \/ /\ pc' = "finish" /\ Good(store') /\ Primed(store')
             /\ Set(c) => Set(store')
             /\ work' = store'
      BY <1>f, <2>3, <2>4, <2>7, <3>1
    <3> QED BY <2>1, <2>4, <3>2
  <2> QED BY <2>2, <2>5, <2>6, <2>7
<1>8. CASE Act
  <2>1. PICK c \in Notified(work) :
          /\ work' = c
          /\ store' \in {c, store}
          /\ pc' \in {"loop", "finish"}
    BY <1>8, Zenon DEF Act
  <2>2. pc = "act"
    BY <1>8 DEF Act
  <2>3. Good(c) /\ (Primed(work) => Primed(c)) /\ (Set(work) => Set(c))
    BY <1>0, <2>1, NotifiedGood
  <2> QED BY <2>1, <2>2, <2>3
<1>9. CASE Finish
  <2>1. pc = "finish" /\ pc' = "post"
    BY <1>9 DEF Finish
  <2>2. /\ Good(Ended) /\ Ended \in Control
        /\ HoldKind => Set(Ended)
        /\ kind # "startupPrime" => Primed(Ended)
    BY <1>0, <2>1 DEF Ended
  <2>3. CASE work' = Ended /\ UNCHANGED store
    BY <2>1, <2>2, <2>3
  <2>4. CASE /\ \E cold \in BOOLEAN :
                  work' = [Ended EXCEPT !.afterstarttemp = cold]
             /\ store' = work'
    <3>1. Alike(Ended, store')
      BY <2>2, <2>4, UnseenFields
    <3>2. /\ Good(store') /\ (Primed(Ended) => Primed(store'))
          /\ (Set(Ended) => Set(store'))
      BY <2>2, <3>1, AlikeGood
    <3> QED BY <2>1, <2>2, <2>4, <3>2
  <2> QED BY <1>9, <2>3, <2>4, Zenon DEF Finish
<1> QED BY <1>1, <1>2, <1>3, <1>4, <1>5, <1>6, <1>7, <1>8, <1>9 DEF WorkCycle

LEMMA OtherHands ==
  ASSUME TypeInv, HeatInv, ModeInv, HandInv,
         CleanUp \/ Restart \/ Faults \/ Requested
  PROVE  HandInv'
<1>0. store \in Control /\ mem \in Control /\ work \in Control
  BY DEF TypeInv, TypeOK
<1>g. Good(store) /\ Good(mem) /\ Good(work)
  BY DEF HandInv
<1> USE <1>g
    DEF HandInv, Running, Resting, Handed, HoldKind, Recipes, CyclePcs, Goto,
        DrainThen, Drained, cycle, locals, session
<1>b. ASSUME Boot PROVE HandInv'
  <2>1. PICK cook : store' = BootControl(cook)
    BY <1>b DEF Boot
  <2>2. pc' = "tick" /\ mem' = store' /\ work' = store'
    BY <1>b DEF Boot
  <2> QED BY <2>1, <2>2, FreshRecordsGood
<1>1. CASE CleanUp
  BY <1>1 DEF CleanUp
<1>2. CASE Restart
  BY <1>2, <1>b DEF Restart
<1>3. CASE IdleGap
  BY <1>3 DEF IdleGap
<1>4. CASE CycleGap
  <2>1. /\ pc \in CyclePcs \cup {"enter"}
        /\ pc' = "drain" /\ ret' = "cycleTrip"
        /\ UNCHANGED <<kind, step, work, mem>>
    BY <1>4 DEF CycleGap
  <2>2. store' = store
          \/ (/\ setupDone /\ CycleMode = "Hold"
              /\ store' = [work EXCEPT !.manual = "none"])
    BY <1>4 DEF CycleGap
  <2>3. setupDone => pc \in CyclePcs
    BY <2>1 DEF HeatInv, SetupEndsWithCycle, InCycle
  <2>4. LET d == [work EXCEPT !.manual = "none"] IN
        Good(d) /\ (Primed(work) => Primed(d)) /\ (Set(work) => Set(d))
    BY <1>0, UnseenFields, AlikeGood
  <2> QED BY <2>1, <2>2, <2>3, <2>4
<1>5. CASE CycleRaises
  BY <1>5 DEF CycleRaises, Raise
<1>6. CASE Kill
  BY <1>6 DEF Kill
<1>7. CASE HostHalts
  BY <1>7 DEF HostHalts
<1>8. CASE PowerUp
  BY <1>8, <1>b DEF PowerUp
<1>9. CASE Watchdog
  <2> DEFINE a == Authoritative(store, "Error")
  <2>1. a \in Control /\ a.mode = "Error" /\ Settings(store, a)
    BY <1>0, AuthoritativeType, AuthoritativeFields DEF Modes
  <2>2. store' = [a EXCEPT !.critical_error = TRUE]
    BY <1>9 DEF Watchdog
  <2> HIDE DEF a
  <2>3. store'.mode = "Error" /\ Settings(a, store')
    BY <2>1, <2>2, Zenon DEF Control, Settings
  <2>4. Settings(store, store')
    BY <2>1, <2>3 DEF Settings
  <2>5. Good(store') /\ Primed(store') /\ (Set(store) => Set(store'))
    BY <2>3, <2>4, TerminalGood
  <2>6. UNCHANGED <<pc, ret, kind, step, mem, work>>
    BY <1>9 DEF Watchdog
  <2> QED BY <2>3, <2>5, <2>6
<1>10. CASE Requested
  <2>1. UNCHANGED <<store, mem, work, kind, step, pc, ret>>
    BY <1>10, Zenon DEF Requested, Enqueue, RequestClear, FlipSwitch
  <2> QED BY <2>1
<1> QED BY <1>1, <1>2, <1>3, <1>4, <1>5, <1>6, <1>7, <1>8, <1>9, <1>10 DEF Faults

LEMMA HandInvAlways == Spec => []HandInv
<1>1. Init => HandInv
  BY FreshRecordsGood
     DEF Init, HandInv, Running, Resting, CyclePcs
<1>2. TypeInv /\ HeatInv /\ ModeInv /\ HandInv /\ [Next]_vars => HandInv'
  <2>1. ASSUME HandInv, UNCHANGED vars PROVE HandInv'
    BY <2>1 DEF vars, HandInv, Running, Resting, Handed, HoldKind
  <2>2. ASSUME TypeInv, HeatInv, ModeInv, HandInv, Next PROVE HandInv'
    BY <2>2, OuterHands, CycleHands, OtherHands DEF Next
  <2> QED BY <2>1, <2>2
<1> QED BY <1>1, <1>2, TypeInvAlways, HeatInvAlways, ModeInvAlways, PTL DEF Spec

\* Hold never runs with a zero setpoint (_dispatch_hold), if requests are as
\* the interfaces mean them: see SetpointsNamed.
THEOREM HoldIsSet ==
  ASSUME SetpointsNamed
  PROVE  Spec => []HoldHasSetpoint
<1>1. HandInv => HoldHasSetpoint
  BY DEF HandInv, HoldHasSetpoint, HoldKind, Recipes, CycleMode, Set
<1> QED BY <1>1, HandInvAlways, PTL

-----------------------------------------------------------------------------
(* A transition the graph forbids is never attempted, when no Hold         *)
(* controller fails to be built: such a Hold goes on to a next mode that   *)
(* was meant for another cycle.                                            *)

LegalInv ==
  /\ Ending /\ kind = "Hold" => store.updated
  /\ \A e \in Events : budget[e] <= Budget[e]
  /\ pc = "crash" => budget["raise"] < Budget["raise"]

LEMMA BudgetShrinks ==
  ASSUME TypeInv, Next
  PROVE  \A e \in Events : budget'[e] <= budget[e]
<1>1. budget' = budget \/ \E e \in Events : Spend(e)
  <2>1. CASE Outer
    BY <2>1, Zenon DEF Outer, IdleTripped, BeginTick, ApplyHead, PollControl,
       NoDispatch, DispatchTerminal, Archive, DispatchPlain, DispatchStartup,
       DispatchRecipe, PostIdle, NextMode, NaturalReady, ShutdownEnd,
       PostStartupPrime, PostStep, RecipeNext, PostRecipeReignite
  <2>2. CASE WorkCycle
    BY <2>2, Zenon DEF WorkCycle, EnterCycle, SetupCycle, StampCycle,
       CycleTripped, BeginLoop, LoopReady, Sense, Act, Finish, Events
  <2>3. CASE CleanUp \/ Restart \/ Faults \/ Requested
    BY <2>3, Zenon DEF CleanUp, Restart, Boot, Faults, Requested, IdleGap,
       CycleGap, CycleRaises, Kill, HostHalts, PowerUp, Watchdog, Enqueue,
       RequestClear, FlipSwitch, Events
  <2> QED BY <2>1, <2>2, <2>3 DEF Next
<1>2. budget \in [Events -> Nat]
  BY DEF TypeInv, TypeOK
<1> HIDE DEF Events
<1>3. CASE budget' = budget
  BY <1>2, <1>3, SMT
<1>4. ASSUME NEW f \in Events, Spend(f)
      PROVE  \A e \in Events : budget'[e] <= budget[e]
  BY <1>2, <1>4, SMT DEF Spend
<1> QED BY <1>1, <1>3, <1>4

\* A progression after a cycle that nothing else asked to end is in the graph.
LEMMA NaturalIsLegal ==
  ASSUME PrimesExit, ModeInv, HandInv, LegalInv,
         pc = "drain", ret = "natural", ~ store.updated
  PROVE  Legal(store.mode, mem.next_mode)
<1>1. kind \in Direct /\ store.mode = kind
  BY DEF ModeInv, Running, Names, NameOf, Recipes, Direct
<1>2. kind \in {"Prime", "Startup", "Shutdown", "Reignite"}
  BY <1>1 DEF ModeInv, LegalInv, Ending, Endless, Direct
<1>3. Handed /\ mem.reignitelaststate \in {"Smoke", "Hold"}
  BY DEF HandInv, Running, Good
<1>4. mem.mode = kind
  BY <1>1, <1>3 DEF Handed
<1>5. CASE kind = "Prime"
  BY <1>1, <1>3, <1>4, <1>5 DEF Handed, Primed, Legal, AllowedExits
<1>6. CASE kind = "Startup"
  <2>1. AfterStartup \in {"Smoke", "Hold"}
    BY LoopAssumption
  <2> QED BY <1>1, <1>3, <1>6, <2>1 DEF Handed, Legal, AllowedExits
<1>7. CASE kind = "Shutdown"
  BY <1>1, <1>3, <1>7 DEF Handed, Legal, AllowedExits
<1>8. CASE kind = "Reignite"
  BY <1>1, <1>3, <1>8 DEF Handed, Legal, AllowedExits
<1> QED BY <1>2, <1>5, <1>6, <1>7, <1>8

\* Nor can a flameout of Smoke or Hold, in a recipe or out of one, be refused.
LEMMA FlameoutIsLegal ==
  ASSUME TypeInv, ModeInv, HandInv, pc \in {"stamp", "sense"},
         CycleMode \in {"Smoke", "Hold"},
         NEW c, c.mode = work.mode, c.updated = work.updated
  PROVE  Legal(c.mode, "Reignite")
<1>1. work.mode = "Error" \/ work.mode = NameOf(kind)
  BY DEF ModeInv, HandInv, Names, CyclePcs
<1>2. kind \in {"Smoke", "Hold", "recipe"}
  BY DEF CycleMode
<1> QED BY <1>1, <1>2 DEF NameOf, Recipes, Legal, AllowedExits

\* The process exits only because something raised.
LEMMA CrashMeansRaise ==
  ASSUME PrimesExit, TypeInv, ModeInv, HandInv, LegalInv, Next,
         pc # "crash", pc' = "crash"
  PROVE  CycleRaises
<1>0. work \in Control
  BY DEF TypeInv, TypeOK
<1>1. CASE Outer
  <2>1. NaturalReady
    BY <1>1, Zenon DEF Outer, IdleTripped, BeginTick, ApplyHead, PollControl,
       NoDispatch, DispatchTerminal, Archive, DispatchPlain, DispatchStartup,
       DispatchRecipe, PostIdle, NextMode, ShutdownEnd, StartCycle, StartStep,
       EndRecipe, PostStartupPrime, PostStep, RecipeNext, PostRecipeReignite,
       Goto, DrainThen, AfterNatural
  <2> QED BY <2>1, NaturalIsLegal DEF NaturalReady, Drained, AfterNatural, Goto
<1>2. CASE WorkCycle
  <2>1. StampCycle \/ Sense
    BY <1>2, Zenon DEF WorkCycle, EnterCycle, SetupCycle, CycleTripped,
       BeginLoop, LoopReady, Act, Finish, Continue, EndWith, Goto, DrainThen
  <2>2. pc \in {"stamp", "sense"}
    BY <2>1 DEF StampCycle, Sense
  <2>3. /\ CycleMode \in {"Smoke", "Hold"}
        /\ \E c \in {work, [work EXCEPT !.manual = "none"]} :
             \E low, o : FlameoutTrip(c, low, o)
    <3>1. Flameout(FALSE, work) = "ok"
          /\ Flameout(FALSE, [work EXCEPT !.manual = "none"]) = "ok"
      BY DEF Flameout
    <3>2. CASE StampCycle
      BY <3>2, Zenon DEF StampCycle, EndWith, Goto
    <3>3. CASE Sense
      BY <3>1, <3>3, Zenon DEF Sense, EndWith, Goto
    <3> QED BY <2>1, <3>2, <3>3
  <2>4. PICK c \in {work, [work EXCEPT !.manual = "none"]} :
             \E low, o : FlameoutTrip(c, low, o)
    BY <2>3
  <2>5. c.mode = work.mode /\ c.updated = work.updated
    BY <1>0, UnseenFields DEF Alike
  <2>6. Legal(c.mode, "Reignite")
    BY <2>2, <2>3, <2>5, FlameoutIsLegal
  <2> QED BY <2>4, <2>6, Zenon DEF FlameoutTrip, EndWith, Goto
<1>3. CASE CleanUp \/ Restart \/ Faults \/ Requested
  BY <1>3, Zenon DEF CleanUp, Restart, Boot, Faults, Requested, IdleGap,
     CycleGap, Kill, HostHalts, PowerUp, Watchdog, Enqueue, RequestClear,
     FlipSwitch, Goto, DrainThen
<1> QED BY <1>1, <1>2, <1>3 DEF Next

\* A Hold that was built ends only for a change in the record.
LEMMA HoldEndsUpdated ==
  ASSUME TypeInv, ModeInv, LegalInv, Budget["build"] = 0, Next,
         Ending', kind' = "Hold"
  PROVE  store'.updated
<1>0. store \in Control /\ work \in Control
  BY DEF TypeInv, TypeOK
<1>m. "Stop" \in Modes /\ "Error" \in Modes
  BY DEF Modes
<1>a. \A c \in Control : \A m \in {"Stop", "Error"} : Authoritative(c, m).updated
  BY <1>m, AuthoritativeFields
<1>u. \A c : EndWith(c) => store' = c
  BY DEF EndWith
<1>b. ~ Spend("build")
  <2>1. "build" \in Events
    BY DEF Events
  <2>2. budget["build"] \in Nat /\ budget["build"] <= Budget["build"]
    BY <2>1 DEF TypeInv, TypeOK, LegalInv
  <2> QED BY <2>2, SMT DEF Spend
<1>f. \A c \in Control : \A below, o :
        FlameoutTrip(c, below, o) /\ pc' \in {"finish", "post", "drain"}
          => store'.updated
  BY <1>a, ReigniteFromFields DEF FlameoutTrip, EndWith, Raise, Goto
<1>1. CASE Outer
  <2>1. CASE NextMode
    BY <2>1 DEF NextMode, LegalInv, Ending, locals
  <2>2. CASE ApplyHead
    <3>1. Head(queue) \in Deltas
      BY <2>2, LoopAssumption, SMT DEF ApplyHead, TypeInv, TypeOK
    <3>2. store.updated
      BY <2>2 DEF ApplyHead, LegalInv, Ending, locals
    <3> QED BY <1>0, <2>2, <3>1, <3>2, ApplyDeltaFields DEF ApplyHead
  <2>3. CASE ~ NextMode /\ ~ ApplyHead
    <3>1. pc' \notin {"finish", "post"} /\ (pc' = "drain" => ret' # "natural")
      BY <1>1, <2>3, Zenon DEF Outer, IdleTripped, BeginTick, PollControl,
         NoDispatch, DispatchTerminal, Archive, DispatchPlain, DispatchStartup,
         DispatchRecipe, PostIdle, NaturalReady, ShutdownEnd, StartCycle,
         StartStep, EndRecipe, PostStartupPrime, PostStep, RecipeNext,
         PostRecipeReignite, Goto, DrainThen, AfterNatural
    <3> QED BY <3>1 DEF Ending
  <2> QED BY <2>1, <2>2, <2>3
<1>2. CASE WorkCycle
  <2>k. CycleMode = "Hold"
    <3>1. kind' = kind
      BY <1>2, Zenon DEF WorkCycle, EnterCycle, SetupCycle, StampCycle,
         CycleTripped, BeginLoop, LoopReady, Sense, Act, Finish, locals
    <3> QED BY <3>1 DEF CycleMode
  <2>p. pc' \in {"finish", "post", "drain"} /\ (pc' = "drain" => ret' = "natural")
    BY DEF Ending
  <2>1. CASE EnterCycle
    <3>1. EnsureCookId(store) \in Control
      BY <1>0, EnsureCookIdType
    <3>2. EndWith(Authoritative(EnsureCookId(store), "Error"))
      BY <2>1, <2>p, Zenon DEF EnterCycle, Goto
    <3> QED BY <1>a, <1>u, <3>1, <3>2
  <2>2. CASE StampCycle
    <3>1. \/ EndWith(Authoritative(work, "Error"))
          \/ \E below, o : FlameoutTrip(work, below, o)
      BY <1>b, <2>k, <2>p, <2>2, Zenon DEF StampCycle, Goto
    <3> QED BY <1>0, <1>a, <1>u, <1>f, <2>p, <3>1
  <2>3. CASE CycleTripped
    BY <1>0, <1>u, <2>3, ClockTripFields DEF CycleTripped
  <2>4. CASE LoopReady
    <3> DEFINE c == Rotated(EnsureCookId(store))
               off == [c EXCEPT !.status = "active"]
    <3>1. c \in Control
      BY <1>0, EnsureCookIdType, RotatedFields
    <3>2. \/ EndWith(Authoritative(off, "Stop"))
          \/ store' = c /\ pc' = Continue(c)
      BY <2>4, Zenon DEF LoopReady, Goto
    <3> HIDE DEF c
    <3>3. off \in Control
      BY <3>1, Zenon DEF Control, StatusStates
    <3> QED BY <1>a, <1>u, <2>p, <3>2, <3>3 DEF Continue
  <2>5. CASE Sense
    <3>1. \E c \in {work, [work EXCEPT !.manual = "none"]} :
            \/ EndWith(Authoritative(c, "Error"))
            \/ \E low, o : FlameoutTrip(c, low, o)
      BY <2>5, <2>p, Zenon DEF Sense, Goto
    <3>2. [work EXCEPT !.manual = "none"] \in Control
      BY <1>0, Zenon DEF Control
    <3> QED BY <1>0, <1>a, <1>u, <1>f, <2>p, <3>1, <3>2
  <2>6. CASE Act
    <3>1. PICK c \in Notified(work) : pc' = "loop" \/ c.mode = "Recipe"
      BY <2>6, <2>k, Zenon DEF Act, Goto
    <3>2. work.mode # "Recipe"
      <4>1. kind = "Hold"
        BY <2>6 DEF Act, locals
      <4> QED BY <2>6, <4>1 DEF Act, ModeInv, Names, NameOf, Recipes, CyclePcs
    <3>3. c.mode # "Recipe"
      BY <1>0, <3>2, NotifiedFields
    <3> QED BY <2>p, <3>1, <3>3
  <2>7. CASE Finish
    BY <2>7, <2>k DEF Finish, LegalInv, Ending
  <2>8. CASE SetupCycle \/ BeginLoop
    BY <2>8, <2>p DEF SetupCycle, BeginLoop, Goto, DrainThen
  <2> QED BY <1>2, <2>1, <2>2, <2>3, <2>4, <2>5, <2>6, <2>7, <2>8 DEF WorkCycle
<1>3. CASE CleanUp \/ Restart \/ Faults \/ Requested
  <2>1. CASE Watchdog
    <3> DEFINE a == Authoritative(store, "Error")
    <3>1. a \in Control /\ a.updated
      BY <1>0, AuthoritativeType, AuthoritativeFields DEF Modes
    <3>2. store' = [a EXCEPT !.critical_error = TRUE]
      BY <2>1 DEF Watchdog
    <3> HIDE DEF a
    <3> QED BY <3>1, <3>2, Zenon DEF Control
  <2>2. CASE Requested
    <3>1. UNCHANGED <<store, kind, pc, ret>>
      BY <2>2, Zenon DEF Requested, Enqueue, RequestClear, FlipSwitch, locals
    <3> QED BY <3>1 DEF LegalInv, Ending
  <2>3. CASE ~ Watchdog /\ ~ Requested
    <3>1. pc' \in {"down", "tick", "crash"}
            \/ (pc' = "drain" /\ ret' \in {"idleTrip", "cycleTrip"})
      BY <1>3, <2>3, Zenon DEF CleanUp, Restart, Boot, Faults, IdleGap,
         CycleGap, CycleRaises, Raise, Kill, HostHalts, PowerUp, Goto, DrainThen
    <3> QED BY <3>1 DEF Ending
  <2> QED BY <2>1, <2>2, <2>3
<1> QED BY <1>1, <1>2, <1>3 DEF Next

\* A transition the mode graph forbids is never attempted (request_transition):
\* the process exits only because a device or the datastore failed.  PrimesExit
\* is about what is enqueued; a Hold whose controller cannot be built goes on to
\* the next mode of whatever was asked for before it, which the graph may forbid
\* (_dispatch_hold), so that the theorem leaves that failure out.
THEOREM OnlyLegalTransitions ==
  ASSUME PrimesExit, Budget["build"] = 0
  PROVE  Spec => []NoIllegalTransition
<1>1. Init => LegalInv
  BY LoopAssumption, SMT DEF Init, LegalInv, Ending, Events
<1>2. TypeInv /\ ModeInv /\ HandInv /\ LegalInv /\ [Next]_vars => LegalInv'
  <2>1. ASSUME LegalInv, UNCHANGED vars PROVE LegalInv'
    BY <2>1 DEF vars, LegalInv, Ending
  <2>2. ASSUME TypeInv, ModeInv, HandInv, LegalInv, Next PROVE LegalInv'
    <3>1. Ending' /\ kind' = "Hold" => store'.updated
      BY <2>2, HoldEndsUpdated
    <3>2. \A e \in Events : budget'[e] <= budget[e] /\ budget[e] <= Budget[e]
                             /\ budget'[e] \in Nat /\ budget[e] \in Nat
      BY <2>2, BudgetShrinks, TypeInvStep DEF TypeInv, TypeOK, LegalInv
    <3>3. Budget \in [Events -> Nat] /\ "raise" \in Events
      BY LoopAssumption DEF Events
    <3>4. \A e \in Events : budget'[e] <= Budget[e]
      BY <3>2, <3>3, SMT
    <3>n. /\ budget["raise"] \in Nat
          /\ budget'["raise"] \in Nat
          /\ budget'["raise"] <= budget["raise"]
          /\ budget["raise"] <= Budget["raise"]
          /\ Budget["raise"] \in Nat
      BY <3>2, <3>3
    <3>5. ASSUME pc = "crash" PROVE budget'["raise"] < Budget["raise"]
      <4>1. budget["raise"] < Budget["raise"]
        BY <2>2, <3>5 DEF LegalInv
      <4> QED BY <4>1, <3>n, SMT
    <3>6. ASSUME pc # "crash", pc' = "crash"
          PROVE  budget'["raise"] < Budget["raise"]
      <4>1. Spend("raise")
        BY <2>2, <3>6, CrashMeansRaise DEF CycleRaises
      <4>2. budget \in [Events -> Nat]
        BY <2>2 DEF TypeInv, TypeOK
      <4>3. budget'["raise"] = budget["raise"] - 1
        BY <4>1, <4>2, <3>3 DEF Spend
      <4> QED BY <4>3, <3>n, SMT
    <3>7. pc' = "crash" => budget'["raise"] < Budget["raise"]
      BY <3>5, <3>6
    <3> QED BY <3>1, <3>4, <3>7 DEF LegalInv
  <2> QED BY <2>1, <2>2
<1>3. LegalInv => NoIllegalTransition
  BY DEF LegalInv, NoIllegalTransition
<1> QED BY <1>1, <1>2, <1>3, TypeInvAlways, ModeInvAlways, HandInvAlways, PTL
       DEF Spec

=============================================================================
