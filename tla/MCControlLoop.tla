--------------------------- MODULE MCControlLoop ---------------------------
(***************************************************************************)
(* Values for the constants of ControlLoop: the requests the operator may  *)
(* make of the grill in each run, the recipe, and how often the            *)
(* environment interferes.                                                 *)
(***************************************************************************)
EXTENDS ControlLoopProperties

ToMode(m) == [op |-> "mode", mode |-> m]
PrimeThen(m) == [op |-> "prime", next |-> m]
Move(device) == [op |-> "manual", device |-> device]
HoldAt == [op |-> "hold"]
Retarget == [op |-> "psp"]
ChangeUnits == [op |-> "units"]
NextStep == [op |-> "step"]
Stop == ToMode("Stop")

CookRequests == {ToMode("Startup"), ToMode("Smoke"), PrimeThen("Stop"), HoldAt,
                 Retarget, ChangeUnits, ToMode("Shutdown"), Stop}
FaultRequests == {ToMode("Startup"), HoldAt, ToMode("Shutdown"),
                  ToMode("Reignite"), PrimeThen("Startup"), ToMode("Monitor"),
                  ToMode("Manual"), Move("auger"), ToMode("Smoke"), Stop}
RecipeRequests == {ToMode("Recipe"), NextStep, ToMode("Smoke"), Stop}
StartupSmoke == {ToMode("Startup"), ToMode("Smoke")}

NoSteps == <<>>
ThreeSteps == <<"Startup", "Smoke", "Hold">>

Bound(request, gap, flip, kill, hang, raise, build) ==
  [request |-> request, gap |-> gap, flip |-> flip, kill |-> kill,
   hang |-> hang, raise |-> raise, build |-> build]

TwoRequests == Bound(2, 0, 0, 0, 0, 0, 0)
RequestsAndFailure == Bound(3, 0, 0, 0, 0, 0, 1)
RequestsGapAndHang == Bound(3, 1, 0, 0, 1, 0, 0)
RequestsAndFaults == Bound(2, 1, 1, 1, 0, 1, 0)
=============================================================================
